----------------------- MODULE InstanceLifecycle_proofs -----------------------
(***************************************************************************)
(* Proofs about InstanceLifecycle, for every set of pids and of concurrent  *)
(* calls, and every bound: types, the race for the end of one run, and all  *)
(* calls one at a time.  At the end, about KeepAlive: the fuse holds, and   *)
(* what a user stops is no crash, for every number of monitors,             *)
(* registrations and processes, and every limit.                            *)
(***************************************************************************)
EXTENDS KeepAlive, FiniteSetTheorems, TLAPS

\* The operators that compute a new row return a row.
LEMMA RowOperators ==
    ASSUME TypeOK
    PROVE  /\ \A s \in Status : SetStatus(s) \in Row
           /\ \A p \in Pids \cup {NoPid} : SetPid(p) \in Row
           /\ Touch \in Row
           /\ MarkStarting \in Row
           /\ NoRow \in Row
           /\ \A ins \in Row : Fresh(ins) \in Row
BY DEF TypeOK, SetStatus, SetPid, Touch, MarkStarting, NoRow, Fresh, Row, Status, Present

\* The operators that compute a new task return a task.
LEMMA TaskOperators ==
    ASSUME TypeOK
    PROVE  /\ IdleTask \in Task
           /\ \A op \in AllOps \cup {"get", "boot"} : Reconciling(op) \in Task
<1>1. IdleTask \in Task
  BY RowOperators DEF TypeOK, IdleTask, Task, Pc
<1>2. ASSUME NEW op \in AllOps \cup {"get", "boot"}
      PROVE  Reconciling(op) \in Task
  <2>1. row \in Row BY DEF TypeOK
  <2>2. {"probe", "checked"} \subseteq Pc BY DEF Pc
  <2>3. Reconciling(op) = IdleTask \/ \E pc \in Pc :
            Reconciling(op) = [IdleTask EXCEPT !.op = op, !.ins = row, !.pc = pc]
    BY <2>2 DEF Reconciling
  <2>4. ASSUME NEW pc \in Pc
        PROVE  [IdleTask EXCEPT !.op = op, !.ins = row, !.pc = pc] \in Task
    BY <1>1, <2>1 DEF Task
  <2> QED BY <1>1, <2>3, <2>4
<1> QED BY <1>1, <1>2

\* The ways a call moves on keep the tasks typed.
LEMMA TaskMoves ==
    ASSUME TypeOK, NEW t \in Tasks
    PROVE  /\ \A pc \in Pc : Goto(t, pc) => task' \in [Tasks -> Task]
           /\ Finish(t) => task' \in [Tasks -> Task]
           /\ \A ins \in Row : Checked(t, ins) => task' \in [Tasks -> Task]
           /\ StopDone(t) => task' \in [Tasks -> Task]
           /\ \A p \in Pids : task' = [task EXCEPT ![t].pc = "writePid", ![t].pid = p]
                => task' \in [Tasks -> Task]
           /\ task' = [task EXCEPT ![t].pc = "export", ![t].by = "tabs"]
                => task' \in [Tasks -> Task]
<1>1. ASSUME NEW pc \in Pc, Goto(t, pc) PROVE task' \in [Tasks -> Task]
  BY <1>1 DEF Goto, TypeOK, Task
<1>2. ASSUME Finish(t) PROVE task' \in [Tasks -> Task]
  BY <1>2, TaskOperators DEF Finish, TypeOK
<1>3. ASSUME NEW ins \in Row, Checked(t, ins) PROVE task' \in [Tasks -> Task]
  <2>1. task[t] \in Task BY DEF TypeOK
  <2>2. "checked" \in Pc BY DEF Pc
  <2>3. ASSUME NEW pc \in Pc
        PROVE  [task[t] EXCEPT !.pc = pc, !.ins = ins, !.by = "call"] \in Task
    BY <2>1 DEF Task
  <2>4. task' = [task EXCEPT ![t] =
                   [task[t] EXCEPT !.pc = "checked", !.ins = ins, !.by = "call"]]
    BY <1>3, <2>1 DEF Checked, TypeOK, Task
  <2> QED BY <2>2, <2>3, <2>4 DEF TypeOK
<1>4. ASSUME StopDone(t) PROVE task' \in [Tasks -> Task]
  <2>1. Fresh(task[t].ins) \in Row BY RowOperators DEF TypeOK, Task
  <2>2. Reconciling("start") \in Task BY TaskOperators DEF AllOps
  <2> QED BY <1>2, <1>3, <1>4, <2>1, <2>2 DEF StopDone, TypeOK
<1>5. ASSUME NEW p \in Pids, task' = [task EXCEPT ![t].pc = "writePid", ![t].pid = p]
      PROVE  task' \in [Tasks -> Task]
  <2>1. task[t] \in Task BY DEF TypeOK
  <2>2. "writePid" \in Pc BY DEF Pc, LaunchPc
  <2>3. ASSUME NEW pc \in Pc PROVE [task[t] EXCEPT !.pc = pc, !.pid = p] \in Task
    BY <2>1 DEF Task
  <2>4. task' = [task EXCEPT ![t] = [task[t] EXCEPT !.pc = "writePid", !.pid = p]]
    BY <1>5, <2>1 DEF TypeOK, Task
  <2> QED BY <2>2, <2>3, <2>4 DEF TypeOK
<1>6. ASSUME task' = [task EXCEPT ![t].pc = "export", ![t].by = "tabs"]
      PROVE  task' \in [Tasks -> Task]
  <2>1. task[t] \in Task BY DEF TypeOK
  <2>2. "export" \in Pc BY DEF Pc, StopPc
  <2>3. ASSUME NEW pc \in Pc PROVE [task[t] EXCEPT !.pc = pc, !.by = "tabs"] \in Task
    BY <2>1 DEF Task
  <2>4. task' = [task EXCEPT ![t] = [task[t] EXCEPT !.pc = "export", !.by = "tabs"]]
    BY <1>6, <2>1 DEF TypeOK, Task
  <2> QED BY <2>2, <2>3, <2>4 DEF TypeOK
<1> QED BY <1>1, <1>2, <1>3, <1>4, <1>5, <1>6

-----------------------------------------------------------------------------
(* Type correctness, one action at a time.                                  *)

\* The program counters the actions name.
LEMMA PcNames ==
    {"idle", "probe", "confirm", "tabs", "checked", "ensurePort", "deleteRow",
     "mark", "hosts", "spawn", "writePid", "waitCdp", "inject", "clean", "abort",
     "export", "kill", "cas", "promote"} \subseteq Pc
BY DEF Pc, LaunchPc, StopPc

\* A call begins: from a client, from the UI's poll, or at boot.
LEMMA BeginTypes ==
    ASSUME TypeOK, NEW t \in Tasks
    PROVE  /\ \A op \in Ops : Call(t, op) => TypeOK'
           /\ Read(t) => TypeOK'
           /\ AppStart(t) => TypeOK'
<1>1. \A op \in AllOps \cup {"get", "boot"} :
          [task EXCEPT ![t] = Reconciling(op)] \in [Tasks -> Task]
  BY TaskOperators DEF TypeOK
<1>2. ASSUME NEW op \in Ops, Call(t, op) PROVE TypeOK'
  <2>1. op \in AllOps BY ConstantsAssumption
  <2>2. calls - 1 \in 0..MaxCalls BY <1>2, ConstantsAssumption DEF Call, TypeOK
  <2> QED BY <1>1, <1>2, <2>1, <2>2 DEF Call, TypeOK
<1>3. ASSUME Read(t) PROVE TypeOK' BY <1>1, <1>3 DEF Read, TypeOK
<1>4. ASSUME AppStart(t) PROVE TypeOK' BY <1>1, <1>4 DEF AppStart, TypeOK
<1> QED BY <1>2, <1>3, <1>4

LEMMA ReconcileTypes ==
    ASSUME TypeOK, NEW t \in Tasks, ReconcileStep(t)
    PROVE  TypeOK'
<1>1. task[t].ins \in Row BY DEF TypeOK, Task
<1>2. Fresh(task[t].ins) \in Row BY <1>1, RowOperators
<1>3. CASE Probe(t)
  <2>1. row' \in Row BY <1>3, RowOperators DEF Probe, TypeOK, Status
  <2>2. task' \in [Tasks -> Task]
    BY <1>1, <1>2, <1>3, <2>1, TaskMoves, PcNames DEF Probe
  <2> QED BY <1>3, <2>1, <2>2 DEF Probe, TypeOK
<1>4. CASE Confirm(t)
  <2>1. row' \in Row BY <1>4, RowOperators DEF Confirm, TypeOK, Status, ScanByProfile
  <2>2. task' \in [Tasks -> Task] BY <1>1, <1>4, <2>1, TaskMoves DEF Confirm
  <2> QED BY <1>4, <2>1, <2>2 DEF Confirm, TypeOK
<1>5. CASE CheckTabs(t)
  <2>1. emptyTab' \in [pid : Pids \cup {NoPid}, ripe : BOOLEAN]
    <3>1. \/ emptyTab' = emptyTab
          \/ emptyTab' = [pid |-> NoPid, ripe |-> FALSE]
          \/ \E p \in Pids : emptyTab' = [pid |-> p, ripe |-> FALSE]
      BY <1>5, Zenon DEF CheckTabs, Answering
    <3>2. \A p \in Pids \cup {NoPid} :
              [pid |-> p, ripe |-> FALSE] \in [pid : Pids \cup {NoPid}, ripe : BOOLEAN]
      OBVIOUS
    <3> QED BY <3>1, <3>2 DEF TypeOK
  <2>2. task' \in [Tasks -> Task] BY <1>2, <1>5, TaskMoves DEF CheckTabs
  <2> QED BY <1>5, <2>1, <2>2 DEF CheckTabs, TypeOK
<1> QED BY <1>3, <1>4, <1>5 DEF ReconcileStep

LEMMA DecideTypes ==
    ASSUME TypeOK, NEW t \in Tasks, DecideStep(t) \/ DeleteRow(t)
    PROVE  TypeOK'
<1>1. CASE DecideStep(t)
  <2>1. task' \in [Tasks -> Task]
    BY <1>1, TaskMoves, PcNames
       DEF DecideStep, GetDone, StartDecide, StopDecide, StopAllDecide, DeleteDecide
  <2> QED BY <1>1, <2>1
       DEF DecideStep, GetDone, StartDecide, StopDecide, StopAllDecide, DeleteDecide, TypeOK
<1>2. CASE DeleteRow(t)
  BY <1>2, TaskMoves, RowOperators DEF DeleteRow, TypeOK
<1> QED BY <1>1, <1>2

\* Killing a process leaves a process table.
LEMMA TerminateTypes ==
    ASSUME TypeOK
    PROVE  \A p \in Pids \cup {NoPid} : Terminate(p) \in [Pids -> ProcState]
BY DEF TypeOK, Terminate, IsLive, ProcState

LEMMA LaunchTypes ==
    ASSUME TypeOK, NEW t \in Tasks, LaunchStep(t)
    PROVE  TypeOK'
<1>1. task[t].pid \in Pids \cup {NoPid} /\ task[t].ins.pid \in Pids \cup {NoPid}
  BY DEF TypeOK, Task, Row
<1>2. SetStatus("error") \in Row /\ SetStatus("running") \in Row
  BY RowOperators DEF Status
<1>3. CASE EnsurePort(t)
  <2>1. task' \in [Tasks -> Task]
    BY <1>3, TaskMoves, PcNames DEF EnsurePort, TypeOK
  <2>2. proc' \in [Pids -> ProcState]
    BY <1>1, <1>3, TerminateTypes DEF EnsurePort, TypeOK
  <2> QED BY <1>3, <2>1, <2>2 DEF EnsurePort, TypeOK
<1>4. CASE Mark(t) \/ Hosts(t) \/ WritePid(t) \/ Abort(t) \/ WriteRunning(t)
  <2>1. task' \in [Tasks -> Task]
    BY <1>4, TaskMoves, PcNames DEF Mark, Hosts, WritePid, Abort, WriteRunning
  <2>2. row' \in Row
    BY <1>1, <1>2, <1>4, RowOperators
       DEF Mark, Hosts, WritePid, Abort, WriteRunning, TypeOK
  <2> QED BY <1>4, <2>1, <2>2 DEF Mark, Hosts, WritePid, Abort, WriteRunning, TypeOK
<1>5. CASE Spawn(t)
  <2>1. task' \in [Tasks -> Task] BY <1>5, TaskMoves DEF Spawn
  <2>2. row' \in Row BY <1>2, <1>5 DEF Spawn, TypeOK
  <2>3. proc' \in [Pids -> ProcState] /\ watch' \in [Pids -> WatchState]
    BY <1>5 DEF Spawn, TypeOK, ProcState, WatchState
  <2> QED BY <1>5, <2>1, <2>2, <2>3 DEF Spawn, TypeOK
<1>6. CASE WaitCdp(t)
  <2>1. task' \in [Tasks -> Task] BY <1>6, TaskMoves, PcNames DEF WaitCdp
  <2>2. proc' \in [Pids -> ProcState] BY <1>1, <1>6, TerminateTypes DEF WaitCdp, TypeOK
  <2> QED BY <1>6, <2>1, <2>2 DEF WaitCdp, TypeOK
<1>7. CASE CleanExport(t) BY <1>7, TaskMoves DEF CleanExport, TypeOK
<1> QED BY <1>3, <1>4, <1>5, <1>6, <1>7 DEF LaunchStep

\* Promoting an export keeps the counts natural numbers.
LEMMA PromoteTypes ==
    ASSUME TypeOK, PromoteExport
    PROVE  promotes' \in [Pids -> Nat]
BY DEF PromoteExport, TypeOK

LEMMA StopTypes ==
    ASSUME TypeOK, NEW t \in Tasks, StopStep(t)
    PROVE  TypeOK'
<1>1. CASE Export(t)
  <2>1. export' \in Pids \cup {NoPid} BY <1>1 DEF Export, Answering
  <2> QED BY <1>1, <2>1, TaskMoves, PcNames DEF Export, TypeOK
<1>2. CASE Kill(t)
  <2>1. task[t].ins.pid \in Pids \cup {NoPid} BY DEF TypeOK, Task, Row
  <2>2. proc' \in [Pids -> ProcState] BY <1>2, <2>1, TerminateTypes DEF Kill
  <2> QED BY <1>2, <2>2, TaskMoves, PcNames DEF Kill, TypeOK
<1>3. CASE StopCas(t)
  <2>1. row' \in Row BY <1>3, RowOperators DEF StopCas, TypeOK, Status
  <2>2. task' \in [Tasks -> Task] BY <1>3, TaskMoves, PcNames DEF StopCas
  <2> QED BY <1>3, <2>1, <2>2 DEF StopCas, TypeOK
<1>4. CASE Promote(t) BY <1>4, TaskMoves, PromoteTypes DEF Promote, TypeOK
<1> QED BY <1>1, <1>2, <1>3, <1>4 DEF StopStep

LEMMA WatcherTypes ==
    ASSUME TypeOK, NEW p \in Pids, WatcherStep(p)
    PROVE  TypeOK'
<1>1. CASE ExitRead(p) BY <1>1 DEF ExitRead, TypeOK, WatchState
<1>2. CASE ExitCas(p)
  <2>1. row' \in Row BY <1>2, RowOperators DEF ExitCas, TypeOK, Status
  <2>2. watch' \in [Pids -> WatchState] BY <1>2 DEF ExitCas, TypeOK, WatchState
  <2> QED BY <1>2, <2>1, <2>2 DEF ExitCas, TypeOK
<1>3. CASE ExitPromote(p) BY <1>3, PromoteTypes DEF ExitPromote, TypeOK, WatchState
<1> QED BY <1>1, <1>2, <1>3 DEF WatcherStep

\* Chrome, time and the crash of the application.
LEMMA EnvironmentTypes ==
    ASSUME TypeOK
    PROVE  /\ \A p \in Pids : ChromeStep(p) => TypeOK'
           /\ \A p, q \in Pids : Relaunch(p, q) => TypeOK'
           /\ Age \/ Ripen \/ AppCrash => TypeOK'
<1>1. ASSUME NEW p \in Pids, ChromeStep(p) PROVE TypeOK'
  BY <1>1 DEF ChromeStep, BecomeReady, Die, CloseWindows, OpenWindow, Hang, Recover,
              TypeOK, ProcState
<1>2. ASSUME NEW p \in Pids, NEW q \in Pids, Relaunch(p, q) PROVE TypeOK'
  BY <1>2 DEF Relaunch, TypeOK, ProcState
<1>3. CASE Age BY <1>3 DEF Age, TypeOK, Row
<1>4. CASE Ripen BY <1>4 DEF Ripen, TypeOK
<1>5. CASE AppCrash
  <2>1. task' \in [Tasks -> Task] BY <1>5, TaskOperators DEF AppCrash
  <2>2. watch' \in [Pids -> WatchState] BY <1>5 DEF AppCrash, TypeOK, WatchState
  <2>3. crashes' \in 0..MaxCrashes BY <1>5, ConstantsAssumption DEF AppCrash, TypeOK
  <2> QED BY <1>5, <2>1, <2>2, <2>3 DEF AppCrash, TypeOK
<1> QED BY <1>1, <1>2, <1>3, <1>4, <1>5

LEMMA InitTypes == Init => TypeOK
<1> SUFFICES ASSUME Init PROVE TypeOK OBVIOUS
<1>1. row \in Row
  <2>1. ASSUME NEW s \in Status, NEW p \in Pids \cup {NoPid}
        PROVE  [status |-> s, pid |-> p, aged |-> FALSE] \in Row
    BY DEF Row
  <2>2. \E s \in {"stopped", "running", "starting"}, p \in Pids \cup {NoPid} :
            row = [status |-> s, pid |-> p, aged |-> FALSE]
    BY Zenon DEF Init
  <2> QED BY <2>1, <2>2 DEF Status
<1>2. proc \in [Pids -> ProcState] BY DEF Init, ProcState
<1>3. watch \in [Pids -> WatchState] BY DEF Init, WatchState
<1>4. task \in [Tasks -> Task]
  <2>1. NoRow \in Row BY DEF NoRow, Row, Status
  <2>2. IdleTask \in Task BY <2>1, PcNames DEF IdleTask, Task
  <2>3. [IdleTask EXCEPT !.op = "create", !.pc = "hosts", !.ins = row] \in Task
    BY <1>1, <2>1, PcNames DEF IdleTask, Task
  <2> QED BY <2>2, <2>3 DEF Init
<1>5. /\ export \in Pids \cup {NoPid}
      /\ promotes \in [Pids -> Nat]
      /\ emptyTab \in [pid : Pids \cup {NoPid}, ripe : BOOLEAN]
      /\ calls \in 0..MaxCalls
      /\ crashes \in 0..MaxCrashes
      /\ up \in BOOLEAN
  BY ConstantsAssumption DEF Init
<1> QED BY <1>1, <1>2, <1>3, <1>4, <1>5 DEF TypeOK

\* Every step of the instance keeps its state typed.
LEMMA StepTypes == TypeOK /\ [Next]_vars => TypeOK'
<1> SUFFICES ASSUME TypeOK, [Next]_vars PROVE TypeOK' OBVIOUS
<1>1. ASSUME NEW t \in Tasks, TaskStep(t) PROVE TypeOK'
  BY <1>1, ReconcileTypes, DecideTypes, LaunchTypes, StopTypes DEF TaskStep
<1>2. CASE UNCHANGED vars BY <1>2 DEF vars, TypeOK
<1> QED
  BY <1>1, <1>2, BeginTypes, WatcherTypes, EnvironmentTypes DEF Next

\* The state of an instance - row, processes, watchers, calls, export, window
\* check - keeps its shape under every operation, crash and restart.
THEOREM TypeCorrect == Spec => []TypeOK
<1> QED BY InitTypes, StepTypes, PTL DEF Spec

-----------------------------------------------------------------------------
(***************************************************************************)
(* The end of one run of an instance, for any number of concurrent stops,   *)
(* environment stops, deletions, UI reads, window checks and exit           *)
(* callbacks, across crashes of the application: the browser was launched   *)
(* once and nothing launches it again.                                      *)
(***************************************************************************)

StopOps == {"stop", "stopAll", "delete"}
OnlyStops == Ops \subseteq StopOps /\ Initially = {"running"}

-----------------------------------------------------------------------------
(* The inductive invariants.                                                *)

\* No call is or will be in the middle of a launch.
NoLaunch ==
    \A t \in Tasks : /\ task[t].pc \notin LaunchPc \cup {"ensurePort"}
                     /\ task[t].op \in StopOps \cup {"none", "get", "boot"}

\* Those who won mark_stopped_if_alive and have not promoted yet.
TaskWon(t) == task[t].pc = "promote"
WatcherWon(p) == watch[p] = "won"
SomeoneWon == (\E t \in Tasks : TaskWon(t)) \/ (\E p \in Pids : WatcherWon(p))
NothingPromoted == \A p \in Pids : promotes[p] = 0

\* The CAS has one winner: while the row is alive nobody has won; afterwards at
\* most one call or callback holds the right to promote, and until it uses it
\* nothing has been promoted.
OneWinner ==
    /\ AliveStatus(row.status) => ~SomeoneWon
    /\ AliveStatus(row.status) \/ SomeoneWon => NothingPromoted
    /\ \A t, u \in Tasks : TaskWon(t) /\ TaskWon(u) => t = u
    /\ \A p, q \in Pids : WatcherWon(p) /\ WatcherWon(q) => p = q
    /\ \A t \in Tasks, p \in Pids : ~(TaskWon(t) /\ WatcherWon(p))

WinnerInv == TypeOK /\ NoLaunch /\ OneWinner /\ NoDoublePromote

\* One process was ever started, and its launch is over.
Born(p) == p \in Pids /\ proc[p] # "unborn"
OneProcess ==
    /\ \A p, q \in Pids : Born(p) /\ Born(q) => p = q
    /\ \A p \in Pids : proc[p] \notin {"booting", "hung"}

\* The row names that process, and is not alive only when it is gone.
NoneLeft == \A p \in Pids : proc[p] \notin Live
RowKnows ==
    /\ row.status # "starting"
    /\ Present => Born(row.pid)
    /\ ~AliveStatus(row.status) => NoneLeft

\* What a call knows through its snapshot and its place: an alive snapshot names
\* the process; before the kill the snapshot is alive; a call that decided to
\* delete saw a row that cannot come back; after the kill nothing is left.
TaskKnows(t) ==
    /\ task[t].ins.status # "starting"
    /\ AliveStatus(task[t].ins.status) => Born(task[t].ins.pid)
    /\ task[t].pc \in {"probe", "confirm", "tabs", "export", "kill"}
         => AliveStatus(task[t].ins.status)
    /\ task[t].pc = "checked" /\ ~AliveStatus(task[t].ins.status)
         => ~AliveStatus(row.status)
    /\ task[t].pc = "deleteRow" => ~AliveStatus(row.status)
    /\ task[t].pc \in {"cas", "promote"} => NoneLeft

\* An exit callback past its pid check runs for a dead process.
WatcherKnows(p) == watch[p] \in {"matched", "won"} => proc[p] = "dead"

GoneInv ==
    /\ TypeOK /\ NoLaunch /\ OneProcess /\ RowKnows
    /\ \A t \in Tasks : TaskKnows(t)
    /\ \A p \in Pids : WatcherKnows(p)

-----------------------------------------------------------------------------
(* What the steps do to the calls.                                          *)

\* A call's move leaves every other call alone.
Others(t) == \A u \in Tasks \ {t} : task'[u] = task[u]

LEMMA GotoEffect ==
    ASSUME TypeOK, NEW t \in Tasks, NEW pc, Goto(t, pc)
    PROVE  /\ Others(t)
           /\ task'[t].pc = pc /\ task'[t].op = task[t].op
           /\ task'[t].ins = task[t].ins
BY DEF Goto, TypeOK, Task, Others

LEMMA FinishEffect ==
    ASSUME TypeOK, NEW t \in Tasks, Finish(t)
    PROVE  Others(t) /\ task'[t] = IdleTask
BY DEF Finish, TypeOK, Others

LEMMA CheckedEffect ==
    ASSUME TypeOK, NEW t \in Tasks, NEW ins, Checked(t, ins)
    PROVE  /\ Others(t)
           /\ task'[t].pc = "checked" /\ task'[t].op = task[t].op
           /\ task'[t].ins = ins
<1>1. task[t] \in Task BY DEF TypeOK
<1>2. task' = [task EXCEPT ![t] =
                 [task[t] EXCEPT !.pc = "checked", !.ins = ins, !.by = "call"]]
  BY <1>1, Zenon DEF Checked, TypeOK
<1> QED BY <1>1, <1>2 DEF TypeOK, Task, Others

LEMMA BeginEffect ==
    ASSUME TypeOK, NEW t \in Tasks, NEW op, task' = [task EXCEPT ![t] = Reconciling(op)]
    PROVE  /\ Others(t)
           /\ \/ task'[t] = IdleTask
              \/ /\ task'[t].op = op /\ task'[t].ins = row
                 /\ task'[t].pc = IF AliveStatus(row.status) THEN "probe" ELSE "checked"
BY DEF TypeOK, Reconciling, IdleTask, Others

LEMMA TabsEffect ==
    ASSUME TypeOK, NEW t \in Tasks,
           task' = [task EXCEPT ![t].pc = "export", ![t].by = "tabs"]
    PROVE  /\ Others(t)
           /\ task'[t].pc = "export" /\ task'[t].op = task[t].op
           /\ task'[t].ins = task[t].ins
<1>1. task[t] \in Task BY DEF TypeOK
<1>2. task' = [task EXCEPT ![t] = [task[t] EXCEPT !.pc = "export", !.by = "tabs"]]
  BY <1>1, Zenon DEF TypeOK
<1> QED BY <1>1, <1>2 DEF TypeOK, Task, Others

-----------------------------------------------------------------------------
(* Without launches: a call never enters one, and a row that is not alive    *)
(* stays so.                                                                *)

\* The row operators a stop or a reconciliation uses.
LEMMA RowEffects ==
    ASSUME TypeOK
    PROVE  /\ \A s \in {"stopped", "error"} : ~AliveStatus(SetStatus(s).status)
           /\ \A p : SetPid(p).status = row.status
           /\ \A p : Present => SetPid(p).pid = p
           /\ \A s : SetStatus(s).pid = row.pid
           /\ \A s : Present => SetStatus(s).status = s
           /\ ~AliveStatus(NoRow.status)
BY DEF TypeOK, Row, SetStatus, SetPid, AliveStatus, Present, NoRow

\* The calls of this system take none of the launch steps.
LEMMA NoLaunchStep ==
    ASSUME NoLaunch, NEW t \in Tasks
    PROVE  ~LaunchStep(t) /\ ~StartDecide(t)
BY DEF NoLaunch, LaunchPc, StopOps, LaunchStep, EnsurePort, Mark, Hosts, Spawn, WritePid,
       WaitCdp, Abort, WriteRunning, CleanExport, StartDecide

LEMMA StopDoneEffect ==
    ASSUME TypeOK, NoLaunch, NEW t \in Tasks, StopDone(t)
    PROVE  /\ Others(t)
           /\ \/ task'[t] = IdleTask
              \/ /\ task'[t].pc = "checked" /\ task'[t].op = task[t].op
                 /\ task'[t].ins = Fresh(task[t].ins)
<1>1. task[t].op # "restart" BY DEF NoLaunch, StopOps
<1>2. Checked(t, Fresh(task[t].ins)) \/ Finish(t) BY <1>1 DEF StopDone
<1> QED BY <1>2, CheckedEffect, FinishEffect

\* How a call moves: the program counters it can reach, and its snapshot.
Moved(t, pcs) ==
    /\ Others(t)
    /\ \/ task'[t] = IdleTask
       \/ task'[t].pc \in pcs /\ task'[t].op = task[t].op

LEMMA StepMoves ==
    ASSUME TypeOK, NoLaunch, NEW t \in Tasks
    PROVE  /\ Probe(t) => Moved(t, {"checked", "tabs", "confirm"})
           /\ Confirm(t) => Moved(t, {"checked"})
           /\ CheckTabs(t) => Moved(t, {"checked", "export"})
           /\ DecideStep(t) => Moved(t, {"export", "cas", "deleteRow"})
           /\ DeleteRow(t) => Moved(t, {})
           /\ Export(t) => Moved(t, {"kill"})
           /\ Kill(t) => Moved(t, {"cas"})
           /\ StopCas(t) => Moved(t, {"checked", "promote"})
           /\ Promote(t) => Moved(t, {"checked"})
<1>1. Probe(t) => Moved(t, {"checked", "tabs", "confirm"})
  BY GotoEffect, CheckedEffect DEF Probe, Moved
<1>2. Confirm(t) => Moved(t, {"checked"})
  BY CheckedEffect DEF Confirm, Moved
<1>3. CheckTabs(t) => Moved(t, {"checked", "export"})
  BY CheckedEffect, TabsEffect DEF CheckTabs, Moved
<1>4. DecideStep(t) => Moved(t, {"export", "cas", "deleteRow"})
  BY NoLaunchStep, GotoEffect, FinishEffect
     DEF DecideStep, GetDone, StopDecide, StopAllDecide, DeleteDecide, Moved
<1>5. DeleteRow(t) => Moved(t, {})
  BY FinishEffect DEF DeleteRow, Moved
<1>6. Export(t) => Moved(t, {"kill"})
  BY GotoEffect DEF Export, Moved
<1>7. Kill(t) => Moved(t, {"cas"})
  BY GotoEffect DEF Kill, Moved
<1>8. StopCas(t) => Moved(t, {"checked", "promote"})
  BY GotoEffect, StopDoneEffect DEF StopCas, Moved
<1>9. Promote(t) => Moved(t, {"checked"})
  BY StopDoneEffect DEF Promote, Moved
<1> QED BY <1>1, <1>2, <1>3, <1>4, <1>5, <1>6, <1>7, <1>8, <1>9

\* An alive row was alive before the step.
LEMMA RowOnlyDies ==
    ASSUME TypeOK, NoLaunch, [Next]_vars
    PROVE  AliveStatus(row'.status) => AliveStatus(row.status)
<1>1. ASSUME NEW t \in Tasks, TaskStep(t)
      PROVE  AliveStatus(row'.status) => AliveStatus(row.status)
  <2>1. CASE ReconcileStep(t)
    BY <2>1, RowEffects DEF ReconcileStep, Probe, Confirm, CheckTabs
  <2>2. CASE DecideStep(t)
    BY <2>2, NoLaunchStep
       DEF DecideStep, GetDone, StopDecide, StopAllDecide, DeleteDecide
  <2>3. CASE StopStep(t)
    BY <2>3, RowEffects DEF StopStep, Export, Kill, StopCas, Promote
  <2>4. CASE DeleteRow(t)
    BY <2>4, RowEffects DEF DeleteRow
  <2> QED BY <1>1, <2>1, <2>2, <2>3, <2>4, NoLaunchStep DEF TaskStep
<1>2. ASSUME NEW p \in Pids, WatcherStep(p) \/ ChromeStep(p)
      PROVE  AliveStatus(row'.status) => AliveStatus(row.status)
  BY <1>2, RowEffects DEF WatcherStep, ExitRead, ExitCas, ExitPromote,
     ChromeStep, BecomeReady, Die, CloseWindows, OpenWindow, Hang, Recover
<1>3. Age => row'.status = row.status BY DEF Age, TypeOK, Row
<1> QED
  BY <1>1, <1>2, <1>3 DEF Next, Call, Read, AppStart, Relaunch, Ripen, AppCrash, vars

\* No call enters a launch.
LEMMA NoLaunchKept ==
    ASSUME TypeOK, NoLaunch, OnlyStops, [Next]_vars
    PROVE  NoLaunch'
<1>1. ASSUME NEW t \in Tasks, NEW op \in StopOps \cup {"get", "boot"},
             task' = [task EXCEPT ![t] = Reconciling(op)]
      PROVE  NoLaunch'
  <2>1. \/ task'[t] = IdleTask
        \/ task'[t].op = op /\ task'[t].pc \in {"probe", "checked"}
    BY <1>1, BeginEffect
  <2>2. Others(t) BY <1>1, BeginEffect
  <2> QED BY <2>1, <2>2 DEF NoLaunch, Others, IdleTask, LaunchPc
<1>2. ASSUME NEW t \in Tasks,
             Moved(t, {"checked", "tabs", "confirm", "export", "kill", "cas", "promote",
                       "deleteRow"})
      PROVE  NoLaunch'
  BY <1>2 DEF Moved, NoLaunch, Others, IdleTask, LaunchPc
<1>3. ASSUME NEW t \in Tasks, TaskStep(t) PROVE NoLaunch'
  <2>1. Moved(t, {"checked", "tabs", "confirm", "export", "kill", "cas", "promote",
                  "deleteRow"})
    BY <1>3, StepMoves, NoLaunchStep DEF TaskStep, ReconcileStep, StopStep, Moved
  <2> QED BY <1>2, <2>1
<1>4. ASSUME NEW t \in Tasks,
             Read(t) \/ AppStart(t) \/ \E op \in Ops : Call(t, op)
      PROVE  NoLaunch'
  BY <1>1, <1>4 DEF Read, AppStart, Call, OnlyStops
<1>5. CASE AppCrash
  BY <1>5 DEF AppCrash, NoLaunch, IdleTask, LaunchPc
<1>6. CASE UNCHANGED task
  BY <1>6 DEF NoLaunch
<1> QED
  BY <1>3, <1>4, <1>5, <1>6
     DEF Next, WatcherStep, ExitRead, ExitCas, ExitPromote, ChromeStep, BecomeReady, Die,
         CloseWindows, OpenWindow, Hang, Recover, Relaunch, Age, Ripen, vars

-----------------------------------------------------------------------------
(* One winner.                                                              *)

\* A step in which nobody wins and nobody promotes.
Calm ==
    /\ AliveStatus(row'.status) => AliveStatus(row.status)
    /\ promotes' = promotes
    /\ \A t \in Tasks : TaskWon(t)' => TaskWon(t)
    /\ \A p \in Pids : WatcherWon(p)' => WatcherWon(p)

LEMMA CalmKeepsWinner ==
    ASSUME OneWinner, NoDoublePromote, Calm
    PROVE  OneWinner' /\ NoDoublePromote'
BY DEF OneWinner, NoDoublePromote, Calm, SomeoneWon, NothingPromoted

\* Every step but the CAS and the promotion is calm.
LEMMA CalmSteps ==
    ASSUME TypeOK, NoLaunch, OnlyStops, [Next]_vars,
           \A t \in Tasks : ~(StopCas(t) \/ Promote(t)),
           \A p \in Pids : ~(ExitCas(p) \/ ExitPromote(p))
    PROVE  Calm
<1>1. AliveStatus(row'.status) => AliveStatus(row.status) BY RowOnlyDies
<1>2. ASSUME NEW t \in Tasks, TaskStep(t) PROVE Calm
  <2>1. \E pcs \in SUBSET {"checked", "tabs", "confirm", "export", "kill", "cas",
                           "deleteRow"} : Moved(t, pcs)
    BY <1>2, StepMoves, NoLaunchStep DEF TaskStep, ReconcileStep, StopStep
  <2>2. \A u \in Tasks : TaskWon(u)' => TaskWon(u)
    BY <2>1 DEF Moved, Others, TaskWon, IdleTask
  <2>3. promotes' = promotes /\ watch' = watch
    BY <1>2, NoLaunchStep
       DEF TaskStep, ReconcileStep, Probe, Confirm, CheckTabs, DecideStep, GetDone,
           StopDecide, StopAllDecide, DeleteDecide, DeleteRow, StopStep, Export, Kill
  <2> QED BY <1>1, <2>2, <2>3 DEF Calm, WatcherWon
<1>3. ASSUME NEW t \in Tasks, NEW op, task' = [task EXCEPT ![t] = Reconciling(op)],
             promotes' = promotes, watch' = watch
      PROVE  Calm
  <2>1. Others(t) BY <1>3, BeginEffect
  <2>2. task'[t] = IdleTask \/ task'[t].pc \in {"probe", "checked"} BY <1>3, BeginEffect
  <2>3. task'[t].pc # "promote" BY <2>2 DEF IdleTask
  <2> QED BY <1>1, <1>3, <2>1, <2>3 DEF Calm, Others, TaskWon, WatcherWon
<1>4. ASSUME NEW t \in Tasks,
             Read(t) \/ AppStart(t) \/ \E op \in Ops : Call(t, op)
      PROVE  Calm
  BY <1>3, <1>4 DEF Read, AppStart, Call
<1>5. ASSUME NEW p \in Pids, ExitRead(p) PROVE Calm
  BY <1>1, <1>5 DEF ExitRead, Calm, TaskWon, WatcherWon, TypeOK
<1>6. CASE AppCrash
  BY <1>1, <1>6 DEF AppCrash, Calm, TaskWon, WatcherWon, IdleTask
<1>7. CASE UNCHANGED <<task, watch, promotes>>
  BY <1>1, <1>7 DEF Calm, TaskWon, WatcherWon
<1> QED
  BY <1>2, <1>4, <1>5, <1>6, <1>7
     DEF Next, WatcherStep, ChromeStep, BecomeReady, Die,
         CloseWindows, OpenWindow, Hang, Recover, Relaunch, Age, Ripen, vars

\* A promotion by the only winner: one export enters the vault, once.
LEMMA PromoteOnce ==
    ASSUME TypeOK, NothingPromoted, PromoteExport
    PROVE  NoDoublePromote'
BY DEF TypeOK, NothingPromoted, PromoteExport, NoDoublePromote

\* The steps that win or use the win.
LEMMA WinningSteps ==
    ASSUME WinnerInv, OnlyStops, [Next]_vars
    PROVE  /\ \A t \in Tasks : StopCas(t) \/ Promote(t) => OneWinner' /\ NoDoublePromote'
           /\ \A p \in Pids : ExitCas(p) \/ ExitPromote(p) => OneWinner' /\ NoDoublePromote'
<1> USE DEF WinnerInv
<1>1. ASSUME NEW t \in Tasks, StopCas(t), CasWins PROVE OneWinner' /\ NoDoublePromote'
  <2>1. ~AliveStatus(row'.status) BY <1>1, RowEffects DEF StopCas
  <2>2. Others(t) /\ watch' = watch /\ promotes' = promotes
    BY <1>1, GotoEffect DEF StopCas
  <2>3. ~SomeoneWon /\ NothingPromoted BY <1>1 DEF CasWins, OneWinner
  <2> QED BY <2>1, <2>2, <2>3
     DEF OneWinner, NoDoublePromote, Others, SomeoneWon, NothingPromoted, TaskWon, WatcherWon
<1>2. ASSUME NEW t \in Tasks, StopCas(t), ~CasWins PROVE OneWinner' /\ NoDoublePromote'
  <2>1. Moved(t, {"checked"}) BY <1>2, StopDoneEffect DEF StopCas, Moved
  <2>2. Calm
    BY <1>2, <2>1, RowOnlyDies
       DEF StopCas, Calm, Moved, Others, IdleTask, TaskWon, WatcherWon
  <2> QED BY <2>2, CalmKeepsWinner
<1>3. ASSUME NEW t \in Tasks, Promote(t) PROVE OneWinner' /\ NoDoublePromote'
  <2>1. TaskWon(t) /\ NothingPromoted BY <1>3 DEF Promote, TaskWon, OneWinner, SomeoneWon
  <2>2. ~SomeoneWon'
    BY <1>3, <2>1, StepMoves
       DEF Promote, Moved, Others, IdleTask, SomeoneWon, OneWinner, TaskWon, WatcherWon
  <2>3. ~AliveStatus(row'.status) BY <1>3, <2>1 DEF Promote, OneWinner, SomeoneWon
  <2>4. NoDoublePromote' BY <1>3, <2>1, PromoteOnce DEF Promote
  <2> QED BY <2>2, <2>3, <2>4 DEF OneWinner, SomeoneWon
<1>4. ASSUME NEW p \in Pids, ExitCas(p), CasWins PROVE OneWinner' /\ NoDoublePromote'
  <2>1. ~AliveStatus(row'.status) BY <1>4, RowEffects DEF ExitCas
  <2>2. /\ task' = task /\ promotes' = promotes
        /\ \A q \in Pids : q # p => watch'[q] = watch[q]
    BY <1>4 DEF ExitCas, TypeOK
  <2>3. ~SomeoneWon /\ NothingPromoted BY <1>4 DEF CasWins, OneWinner
  <2> QED BY <2>1, <2>2, <2>3
     DEF OneWinner, NoDoublePromote, SomeoneWon, NothingPromoted, TaskWon, WatcherWon
<1>5. ASSUME NEW p \in Pids, ExitCas(p), ~CasWins PROVE OneWinner' /\ NoDoublePromote'
  <2>1. Calm BY <1>5 DEF ExitCas, Calm, TaskWon, WatcherWon, TypeOK
  <2> QED BY <2>1, CalmKeepsWinner
<1>6. ASSUME NEW p \in Pids, ExitPromote(p) PROVE OneWinner' /\ NoDoublePromote'
  <2>1. WatcherWon(p) /\ NothingPromoted
    BY <1>6 DEF ExitPromote, WatcherWon, OneWinner, SomeoneWon
  <2>2. ~SomeoneWon'
    BY <1>6, <2>1 DEF ExitPromote, SomeoneWon, OneWinner, TaskWon, WatcherWon, TypeOK
  <2>3. ~AliveStatus(row'.status) BY <1>6, <2>1 DEF ExitPromote, OneWinner, SomeoneWon
  <2>4. NoDoublePromote' BY <1>6, <2>1, PromoteOnce DEF ExitPromote
  <2> QED BY <2>2, <2>3, <2>4 DEF OneWinner, SomeoneWon
<1> QED BY <1>1, <1>2, <1>3, <1>4, <1>5, <1>6

LEMMA WinnerInit == OnlyStops /\ Init => WinnerInv
<1> SUFFICES ASSUME OnlyStops, Init PROVE WinnerInv OBVIOUS
<1>1. TypeOK BY InitTypes
<1>2. /\ task = [t \in Tasks |-> IdleTask]
      /\ \E q \in Pids : watch = [p \in Pids |-> IF p = q THEN "armed" ELSE "none"]
      /\ promotes = [p \in Pids |-> 0]
  BY Zenon DEF OnlyStops, Init
<1>3. NoLaunch BY <1>2 DEF NoLaunch, IdleTask, LaunchPc
<1>4. ~SomeoneWon BY <1>2 DEF SomeoneWon, TaskWon, WatcherWon, IdleTask
<1>5. OneWinner /\ NoDoublePromote
  BY <1>2, <1>4 DEF OneWinner, SomeoneWon, NothingPromoted, NoDoublePromote
<1> QED BY <1>1, <1>3, <1>5 DEF WinnerInv

LEMMA WinnerStep == OnlyStops /\ WinnerInv /\ [Next]_vars => WinnerInv'
<1> SUFFICES ASSUME OnlyStops, WinnerInv, [Next]_vars PROVE WinnerInv' OBVIOUS
<1>1. TypeOK' /\ NoLaunch' BY StepTypes, NoLaunchKept DEF WinnerInv
<1>2. OneWinner' /\ NoDoublePromote'
  <2>1. CASE /\ \A t \in Tasks : ~(StopCas(t) \/ Promote(t))
             /\ \A p \in Pids : ~(ExitCas(p) \/ ExitPromote(p))
    BY <2>1, CalmSteps, CalmKeepsWinner DEF WinnerInv
  <2> QED BY <2>1, WinningSteps
<1> QED BY <1>1, <1>2 DEF WinnerInv

\* However many stops, deletions, window checks, exit callbacks and crashes of
\* the application race for the end of one run, and even if Chrome relaunches
\* itself meanwhile, its cookies enter the vault at most once: this is what the
\* compare-and-set of mark_stopped_if_alive is for.
THEOREM StopRacePromotesOnce ==
    ASSUME OnlyStops
    PROVE  Spec => []NoDoublePromote
<1>1. WinnerInv => NoDoublePromote BY DEF WinnerInv
<1> QED BY <1>1, WinnerInit, WinnerStep, PTL DEF Spec

-----------------------------------------------------------------------------
(* A browser lives exactly as long as its row says so.                      *)

\* The only process can change, but only towards its death.
OnlyDies ==
    /\ \A p \in Pids : (proc'[p] = "unborn") <=> (proc[p] = "unborn")
    /\ \A p \in Pids : proc'[p] \in Live => proc[p] \in Live
    /\ \A p \in Pids : proc'[p] \notin {"booting", "hung"}

LEMMA ProcessOnlyDies ==
    ASSUME ~MayRelaunch, ~MayHang, TypeOK, NoLaunch, OneProcess, [Next]_vars
    PROVE  OnlyDies
<1>1. ASSUME NEW p \in Pids \cup {NoPid}, proc' = Terminate(p) PROVE OnlyDies
  BY <1>1 DEF OnlyDies, OneProcess, Terminate, IsLive, Live, TypeOK
<1>2. CASE proc' = proc BY <1>2 DEF OnlyDies, OneProcess
<1>3. ASSUME NEW p \in Pids, ChromeStep(p) PROVE OnlyDies
  BY <1>3 DEF ChromeStep, BecomeReady, Die, CloseWindows, OpenWindow, Hang, Recover,
              OnlyDies, OneProcess, Live, TypeOK
<1>4. ASSUME NEW t \in Tasks, TaskStep(t) PROVE OnlyDies
  <2>1. task[t].ins.pid \in Pids \cup {NoPid} BY DEF TypeOK, Task, Row
  <2>2. proc' = proc \/ proc' = Terminate(task[t].ins.pid)
    BY <1>4, NoLaunchStep
       DEF TaskStep, ReconcileStep, Probe, Confirm, CheckTabs, DecideStep, GetDone,
           StopDecide, StopAllDecide, DeleteDecide, DeleteRow, StopStep, Export, Kill,
           StopCas, Promote
  <2> QED BY <1>1, <1>2, <2>1, <2>2
<1> QED
  BY <1>2, <1>3, <1>4
     DEF Next, Call, Read, AppStart, WatcherStep, ExitRead, ExitCas, ExitPromote,
         Relaunch, Age, Ripen, AppCrash, vars

\* If one process exists and it is dead, none is left.
LEMMA DeadMeansNone ==
    ASSUME OneProcess
    PROVE  /\ \A p \in Pids : proc[p] = "dead" => NoneLeft
           /\ ~CdpReachable => NoneLeft
BY DEF OneProcess, NoneLeft, Born, Live, CdpReachable, Answering, Listening

\* A row leaves the alive states only when no process is left.
LEMMA RowDiesLast ==
    ASSUME GoneInv, [Next]_vars, ~AliveStatus(row'.status)
    PROVE  NoneLeft
<1> USE DEF GoneInv
<1>1. CASE ~AliveStatus(row.status) BY <1>1 DEF RowKnows
<1>2. CASE row'.status = row.status BY <1>1, <1>2 DEF AliveStatus
<1>3. ASSUME NEW t \in Tasks, TaskStep(t) PROVE NoneLeft
  <2>1. CASE Probe(t)
    <3>1. task[t].ins.status # "starting" BY DEF TaskKnows
    <3> QED BY <1>2, <2>1, <3>1 DEF Probe
  <2>2. CASE Confirm(t)
    <3>1. CASE CdpReachable
      <4>1. row'.status = row.status BY <2>2, <3>1, RowEffects DEF Confirm
      <4> QED BY <1>2, <4>1
    <3> QED BY <3>1, DeadMeansNone
  <2>3. CASE StopCas(t)
    BY <2>3 DEF StopCas, TaskKnows
  <2>4. CASE DeleteRow(t)
    BY <1>1, <2>4 DEF DeleteRow, TaskKnows
  <2>5. CASE row' = row BY <1>2, <2>5
  <2> QED
    BY <1>3, <2>1, <2>2, <2>3, <2>4, <2>5, NoLaunchStep
       DEF TaskStep, ReconcileStep, CheckTabs, DecideStep, GetDone, StopDecide,
           StopAllDecide, DeleteDecide, StopStep, Export, Kill, Promote
<1>4. ASSUME NEW p \in Pids, ExitCas(p) PROVE NoneLeft
  <2>1. proc[p] = "dead" BY <1>4 DEF ExitCas, WatcherKnows
  <2> QED BY <2>1, DeadMeansNone
<1>5. Age => row'.status = row.status BY DEF Age, TypeOK, Row
<1>6. CASE row' = row BY <1>2, <1>6
<1> QED
  BY <1>2, <1>3, <1>4, <1>5, <1>6
     DEF Next, Call, Read, AppStart, WatcherStep, ExitRead, ExitPromote, ChromeStep,
         BecomeReady, Die, CloseWindows, OpenWindow, Hang, Recover, Relaunch, Ripen, AppCrash, vars

LEMMA OneProcessKept ==
    ASSUME OneProcess, OnlyDies
    PROVE  OneProcess' /\ (NoneLeft => NoneLeft') /\ \A p : Born(p) <=> Born(p)'
BY DEF OneProcess, OnlyDies, NoneLeft, Born

\* The row keeps naming the process.
LEMMA RowNames ==
    ASSUME GoneInv, [Next]_vars
    PROVE  row'.status # "starting" /\ (row'.status # "absent" => Born(row'.pid))
<1> DEFINE Names == row'.status # "starting" /\ (row'.status # "absent" => Born(row'.pid))
<1> USE DEF GoneInv
<1>1. CASE row' = row BY <1>1 DEF RowKnows, Present
<1>2. ASSUME NEW s \in {"stopped", "error"}, row' = SetStatus(s) PROVE Names
  <2>1. CASE Present BY <1>2, <2>1, RowEffects DEF RowKnows
  <2>2. CASE ~Present BY <1>1, <1>2, <2>2 DEF SetStatus
  <2> QED BY <2>1, <2>2
<1>3. ASSUME NEW p \in ScanByProfile, row' = SetPid(p) PROVE Names
  <2>1. Born(p) BY DEF ScanByProfile, Born, Live
  <2>2. CASE Present BY <1>3, <2>1, <2>2, RowEffects DEF RowKnows
  <2>3. CASE ~Present BY <1>1, <1>3, <2>3 DEF SetPid
  <2> QED BY <2>2, <2>3
<1>4. CASE Age
  <2>1. row'.status = row.status /\ row'.pid = row.pid BY <1>4 DEF Age, TypeOK, Row
  <2> QED BY <2>1 DEF RowKnows, Present
<1>5. row' = NoRow => Names BY DEF NoRow
<1>6. ASSUME NEW t \in Tasks, TaskStep(t) PROVE Names
  <2>1. \/ row' = row \/ row' = NoRow
        \/ \E s \in {"stopped", "error"} : row' = SetStatus(s)
        \/ \E p \in ScanByProfile : row' = SetPid(p)
    BY <1>6, NoLaunchStep
       DEF TaskStep, ReconcileStep, Probe, Confirm, CheckTabs, DecideStep, GetDone,
           StopDecide, StopAllDecide, DeleteDecide, DeleteRow, StopStep, Export, Kill,
           StopCas, Promote
  <2> QED BY <1>1, <1>2, <1>3, <1>5, <2>1
<1>7. ASSUME NEW p \in Pids, ExitCas(p) PROVE Names BY <1>1, <1>2, <1>7 DEF ExitCas
<1> QED
  BY <1>1, <1>4, <1>6, <1>7
     DEF Next, Call, Read, AppStart, WatcherStep, ExitRead, ExitPromote, ChromeStep,
         BecomeReady, Die, CloseWindows, OpenWindow, Hang, Recover, Relaunch, Ripen, AppCrash, vars

LEMMA WatchersKnow ==
    ASSUME GoneInv, [Next]_vars, OnlyDies
    PROVE  \A p \in Pids : WatcherKnows(p)'
<1> USE DEF GoneInv
<1>1. \A p \in Pids : proc[p] = "dead" => proc'[p] = "dead"
  <2>1. TypeOK' BY StepTypes
  <2> QED BY <2>1 DEF OnlyDies, Live, TypeOK, ProcState
<1>2. SUFFICES \A p \in Pids : watch'[p] \in {"matched", "won"} =>
                   watch[p] \in {"matched", "won"} \/ proc[p] = "dead"
  BY <1>1 DEF WatcherKnows
<1>3. ASSUME NEW t \in Tasks, TaskStep(t) PROVE watch' = watch
  BY <1>3, NoLaunchStep
     DEF TaskStep, ReconcileStep, Probe, Confirm, CheckTabs, DecideStep, GetDone,
         StopDecide, StopAllDecide, DeleteDecide, DeleteRow, StopStep, Export, Kill,
         StopCas, Promote
<1>4. ASSUME NEW p \in Pids, WatcherStep(p)
      PROVE  \A q \in Pids : watch'[q] \in {"matched", "won"} =>
                 watch[q] \in {"matched", "won"} \/ proc[q] = "dead"
  BY <1>4 DEF WatcherStep, ExitRead, ExitCas, ExitPromote, TypeOK
<1>5. AppCrash => \A p \in Pids : watch'[p] \in {"none", "done"} BY DEF AppCrash
<1> QED
  BY <1>3, <1>4, <1>5
     DEF Next, Call, Read, AppStart, ChromeStep, BecomeReady, Die, CloseWindows,
         OpenWindow, Hang, Recover, Relaunch, Age, Ripen, vars

\* A call that does not move keeps what it knows.
LEMMA BystanderKnows ==
    ASSUME GoneInv, OnlyDies, AliveStatus(row'.status) => AliveStatus(row.status),
           NEW u \in Tasks, task'[u] = task[u]
    PROVE  TaskKnows(u)'
<1>1. (NoneLeft => NoneLeft') /\ \A p : Born(p) <=> Born(p)'
  BY OneProcessKept DEF GoneInv
<1> QED BY <1>1 DEF TaskKnows, GoneInv

\* A call that ends, and one that begins, know nothing wrong.
LEMMA IdleKnows ==
    ASSUME NEW t \in Tasks, task'[t] = IdleTask
    PROVE  TaskKnows(t)'
BY DEF TaskKnows, IdleTask, NoRow, AliveStatus

LEMMA BeginnerKnows ==
    ASSUME GoneInv, OnlyDies, NEW t \in Tasks, NEW op, row' = row,
           task' = [task EXCEPT ![t] = Reconciling(op)]
    PROVE  TaskKnows(t)'
<1>1. CASE task'[t] = IdleTask BY <1>1, IdleKnows
<1>2. CASE task'[t] # IdleTask
  <2>1. /\ task'[t].ins = row
        /\ task'[t].pc = IF AliveStatus(row.status) THEN "probe" ELSE "checked"
    BY <1>2, BeginEffect DEF GoneInv
  <2>2. AliveStatus(row.status) => Present BY DEF AliveStatus, Present
  <2>3. \A p : Born(p) => Born(p)' BY OneProcessKept DEF GoneInv
  <2> QED BY <2>1, <2>2, <2>3 DEF TaskKnows, GoneInv, RowKnows
<1> QED BY <1>1, <1>2

\* A call that is told the present row, or the old snapshot when it is gone.
LEMMA CheckedKnows ==
    ASSUME GoneInv, OnlyDies, [Next]_vars, NEW t \in Tasks,
           task'[t].pc = "checked",
           task'[t].ins = IF Present THEN row' ELSE task[t].ins
    PROVE  TaskKnows(t)'
<1>1. \A p : Born(p) => Born(p)' BY OneProcessKept DEF GoneInv
<1>2. ~Present => ~AliveStatus(row'.status)
  BY RowOnlyDies DEF GoneInv, Present, AliveStatus
<1>3. row'.status # "starting" /\ (AliveStatus(row'.status) => Born(row'.pid))
  BY RowNames DEF AliveStatus
<1>4. task[t].ins.status # "starting"
      /\ (AliveStatus(task[t].ins.status) => Born(task[t].ins.pid))
  BY DEF GoneInv, TaskKnows
<1> QED BY <1>1, <1>2, <1>3, <1>4 DEF TaskKnows

\* A call that moves on with its snapshot, to a place that snapshot justifies.
LEMMA MoverKnows ==
    ASSUME GoneInv, OnlyDies, NEW t \in Tasks,
           AliveStatus(row'.status) => AliveStatus(row.status),
           task'[t].ins = task[t].ins,
           \/ /\ task'[t].pc \in {"tabs", "confirm", "export", "kill"}
              /\ AliveStatus(task[t].ins.status)
           \/ task'[t].pc = "deleteRow" /\ ~AliveStatus(row.status)
           \/ task'[t].pc \in {"cas", "promote"} /\ NoneLeft'
    PROVE  TaskKnows(t)'
<1>1. \A p : Born(p) => Born(p)' BY OneProcessKept DEF GoneInv
<1>2. task[t].ins.status # "starting"
      /\ (AliveStatus(task[t].ins.status) => Born(task[t].ins.pid))
  BY DEF GoneInv, TaskKnows
<1> QED BY <1>1, <1>2 DEF TaskKnows

LEMMA ReconcilerKnows ==
    ASSUME GoneInv, OnlyDies, [Next]_vars, NEW t \in Tasks, ReconcileStep(t)
    PROVE  Others(t) /\ TaskKnows(t)'
<1> USE DEF GoneInv
<1>1. AliveStatus(row'.status) => AliveStatus(row.status) BY RowOnlyDies
<1>2. task[t].ins.status # "starting" BY DEF TaskKnows
<1>3. task[t].pc \in {"probe", "tabs"} => AliveStatus(task[t].ins.status) BY DEF TaskKnows
<1>4. ASSUME Checked(t, Fresh(task[t].ins)), row' = row PROVE TaskKnows(t)'
  <2>1. task'[t].pc = "checked" /\ task'[t].ins = Fresh(task[t].ins)
    BY <1>4, CheckedEffect
  <2> QED BY <1>4, <2>1, CheckedKnows DEF Fresh
<1>5. CASE Probe(t)
  <2>1. \/ \E pc \in {"tabs", "confirm"} : Goto(t, pc)
        \/ Checked(t, Fresh(task[t].ins)) /\ row' = row
    BY <1>2, <1>5 DEF Probe
  <2>2. ASSUME NEW pc \in {"tabs", "confirm"}, Goto(t, pc) PROVE TaskKnows(t)'
    <3>1. task'[t].pc = pc /\ task'[t].ins = task[t].ins BY <2>2, GotoEffect
    <3>2. AliveStatus(task[t].ins.status) BY <1>3, <1>5 DEF Probe
    <3> QED BY <1>1, <3>1, <3>2, MoverKnows
  <2>3. Others(t) BY <1>5, StepMoves DEF Moved
  <2> QED BY <1>4, <2>1, <2>2, <2>3
<1>6. CASE Confirm(t)
  <2>1. /\ Others(t) /\ task'[t].pc = "checked"
        /\ task'[t].ins = IF Present THEN row' ELSE task[t].ins
    BY <1>6, CheckedEffect DEF Confirm
  <2> QED BY <2>1, CheckedKnows
<1>7. CASE CheckTabs(t)
  <2>1. Others(t) BY <1>7, StepMoves DEF Moved
  <2>2. \/ Checked(t, Fresh(task[t].ins))
        \/ task' = [task EXCEPT ![t].pc = "export", ![t].by = "tabs"]
    BY <1>7 DEF CheckTabs
  <2>3. ASSUME task' = [task EXCEPT ![t].pc = "export", ![t].by = "tabs"]
        PROVE  TaskKnows(t)'
    <3>1. task'[t].pc = "export" /\ task'[t].ins = task[t].ins BY <2>3, TabsEffect
    <3>2. AliveStatus(task[t].ins.status) BY <1>3, <1>7 DEF CheckTabs
    <3> QED BY <1>1, <3>1, <3>2, MoverKnows
  <2>4. row' = row BY <1>7 DEF CheckTabs
  <2> QED BY <1>4, <2>1, <2>2, <2>3, <2>4
<1> QED BY <1>5, <1>6, <1>7 DEF ReconcileStep

LEMMA DeciderKnows ==
    ASSUME GoneInv, OnlyDies, [Next]_vars, NEW t \in Tasks, DecideStep(t) \/ DeleteRow(t)
    PROVE  Others(t) /\ TaskKnows(t)'
<1> USE DEF GoneInv
<1>1. AliveStatus(row'.status) => AliveStatus(row.status) BY RowOnlyDies
<1>2. Others(t) BY StepMoves DEF Moved
<1>3. ASSUME Finish(t) PROVE TaskKnows(t)' BY <1>3, FinishEffect, IdleKnows
<1>4. ASSUME AliveStatus(task[t].ins.status), Goto(t, "export") PROVE TaskKnows(t)'
  <2>1. task'[t].pc = "export" /\ task'[t].ins = task[t].ins BY <1>4, GotoEffect
  <2> QED BY <1>1, <1>4, <2>1, MoverKnows
<1>5. AliveStatus(task[t].ins.status) => task[t].ins.pid # NoPid
  BY ConstantsAssumption DEF TaskKnows, Born
<1>6. ASSUME task[t].pc = "checked", ~AliveStatus(task[t].ins.status), Goto(t, "deleteRow")
      PROVE  TaskKnows(t)'
  <2>1. ~AliveStatus(row.status) BY <1>6 DEF TaskKnows
  <2>2. task'[t].pc = "deleteRow" /\ task'[t].ins = task[t].ins BY <1>6, GotoEffect
  <2> QED BY <1>1, <2>1, <2>2, MoverKnows
<1> QED
  BY <1>2, <1>3, <1>4, <1>5, <1>6, NoLaunchStep
     DEF DecideStep, GetDone, StopDecide, StopAllDecide, DeleteDecide, DeleteRow

LEMMA StopperKnows ==
    ASSUME GoneInv, OnlyDies, [Next]_vars, NEW t \in Tasks, StopStep(t)
    PROVE  Others(t) /\ TaskKnows(t)'
<1> USE DEF GoneInv
<1>1. AliveStatus(row'.status) => AliveStatus(row.status) BY RowOnlyDies
<1>2. Others(t) BY StepMoves DEF Moved, StopStep
<1>3. CASE Export(t)
  <2>1. task'[t].pc = "kill" /\ task'[t].ins = task[t].ins BY <1>3, GotoEffect DEF Export
  <2>2. AliveStatus(task[t].ins.status) BY <1>3 DEF Export, TaskKnows
  <2> QED BY <1>1, <1>2, <2>1, <2>2, MoverKnows
<1>4. CASE Kill(t)
  <2>1. task'[t].pc = "cas" /\ task'[t].ins = task[t].ins BY <1>4, GotoEffect DEF Kill
  <2>2. Born(task[t].ins.pid) BY <1>4 DEF Kill, TaskKnows
  <2>3. NoneLeft'
    BY <1>4, <2>2, ConstantsAssumption
       DEF Kill, Terminate, IsLive, Born, OneProcess, NoneLeft, Live, TypeOK, ProcState
  <2> QED BY <1>1, <1>2, <2>1, <2>3, MoverKnows
<1>5. ASSUME StopDone(t), row' = row PROVE TaskKnows(t)'
  <2>1. CASE task'[t] = IdleTask BY <2>1, IdleKnows
  <2>2. CASE task'[t].pc = "checked" /\ task'[t].ins = Fresh(task[t].ins)
    BY <1>5, <2>2, CheckedKnows DEF Fresh
  <2> QED BY <1>5, <2>1, <2>2, StopDoneEffect
<1>6. CASE StopCas(t)
  <2>1. CASE StopDone(t) /\ row' = row BY <1>2, <1>5, <2>1
  <2>2. CASE Goto(t, "promote")
    <3>1. task'[t].pc = "promote" /\ task'[t].ins = task[t].ins BY <2>2, GotoEffect
    <3>2. NoneLeft' BY <1>6, OneProcessKept DEF StopCas, TaskKnows
    <3> QED BY <1>1, <1>2, <3>1, <3>2, MoverKnows
  <2> QED BY <1>6, <2>1, <2>2 DEF StopCas
<1>7. CASE Promote(t) BY <1>2, <1>5, <1>7 DEF Promote
<1> QED BY <1>3, <1>4, <1>6, <1>7 DEF StopStep

LEMMA TasksKnow ==
    ASSUME GoneInv, OnlyDies, [Next]_vars
    PROVE  \A u \in Tasks : TaskKnows(u)'
<1>1. AliveStatus(row'.status) => AliveStatus(row.status) BY RowOnlyDies DEF GoneInv
<1>2. ASSUME NEW t \in Tasks, Others(t) /\ TaskKnows(t)'
      PROVE  \A u \in Tasks : TaskKnows(u)'
  BY <1>1, <1>2, BystanderKnows DEF Others
<1>3. ASSUME NEW t \in Tasks, TaskStep(t) PROVE \A u \in Tasks : TaskKnows(u)'
  BY <1>2, <1>3, ReconcilerKnows, DeciderKnows, StopperKnows, NoLaunchStep
     DEF TaskStep, GoneInv
<1>4. ASSUME NEW t \in Tasks,
             Read(t) \/ AppStart(t) \/ \E op \in Ops : Call(t, op)
      PROVE  \A u \in Tasks : TaskKnows(u)'
  <2>1. row' = row /\ \E op : task' = [task EXCEPT ![t] = Reconciling(op)]
    BY <1>4 DEF Read, AppStart, Call
  <2>2. Others(t) /\ TaskKnows(t)' BY <2>1, BeginEffect, BeginnerKnows DEF GoneInv
  <2> QED BY <1>2, <2>2
<1>5. CASE AppCrash BY <1>5, IdleKnows DEF AppCrash
<1>6. CASE task' = task BY <1>1, <1>6, BystanderKnows
<1> QED
  BY <1>3, <1>4, <1>5, <1>6
     DEF Next, WatcherStep, ExitRead, ExitCas, ExitPromote, ChromeStep, BecomeReady, Die,
         CloseWindows, OpenWindow, Hang, Recover, Relaunch, Age, Ripen, vars

LEMMA GoneInit == OnlyStops /\ Init => GoneInv
<1> SUFFICES ASSUME OnlyStops, Init PROVE GoneInv OBVIOUS
<1>1. TypeOK /\ NoLaunch BY InitTypes, WinnerInit DEF WinnerInv
<1>2. PICK q \in Pids :
        /\ row = [status |-> "running", pid |-> q, aged |-> FALSE]
        /\ proc = [p \in Pids |-> IF p = q THEN "ready" ELSE "unborn"]
        /\ watch = [p \in Pids |-> IF p = q THEN "armed" ELSE "none"]
        /\ task = [t \in Tasks |-> IdleTask]
  BY Zenon DEF OnlyStops, Init
<1>3. OneProcess BY <1>2 DEF OneProcess, Born
<1>4. RowKnows BY <1>2 DEF RowKnows, Born, AliveStatus
<1>5. \A t \in Tasks : TaskKnows(t)
  BY <1>2 DEF TaskKnows, IdleTask, NoRow, AliveStatus
<1>6. \A p \in Pids : WatcherKnows(p) BY <1>2 DEF WatcherKnows
<1> QED BY <1>1, <1>3, <1>4, <1>5, <1>6 DEF GoneInv

LEMMA GoneStep == OnlyStops /\ ~MayRelaunch /\ ~MayHang /\ GoneInv /\ [Next]_vars => GoneInv'
<1> SUFFICES ASSUME OnlyStops, ~MayRelaunch, ~MayHang, GoneInv, [Next]_vars PROVE GoneInv' OBVIOUS
<1>1. TypeOK' /\ NoLaunch' BY StepTypes, NoLaunchKept DEF GoneInv
<1>2. OnlyDies BY ProcessOnlyDies DEF GoneInv
<1>3. OneProcess' /\ (NoneLeft => NoneLeft') /\ \A p : Born(p) <=> Born(p)'
  BY <1>2, OneProcessKept DEF GoneInv
<1>4. RowKnows'
  <2>1. row'.status # "starting" /\ (row'.status # "absent" => Born(row'.pid))
    BY RowNames
  <2>2. ~AliveStatus(row'.status) => NoneLeft' BY <1>3, RowDiesLast
  <2>3. row'.status # "absent" => Born(row.pid)' BY <2>1, <1>2 DEF Born, OnlyDies
  <2> QED BY <2>1, <2>2, <2>3 DEF RowKnows, Present
<1>5. \A t \in Tasks : TaskKnows(t)' BY <1>2, TasksKnow
<1>6. \A p \in Pids : WatcherKnows(p)' BY <1>2, WatchersKnow
<1> QED BY <1>1, <1>3, <1>4, <1>5, <1>6 DEF GoneInv

\* Whatever races for the end of one run, and however often the application
\* crashes meanwhile, a running row becomes stopped only when no browser answers.
THEOREM StopRaceStopsGone ==
    ASSUME OnlyStops, ~MayRelaunch, ~MayHang
    PROVE  Spec => StoppedMeansGone
<1>1. ASSUME GoneInv, [Next]_vars
      PROVE  [row.status = "running" /\ row'.status = "stopped" => ~CdpReachable]_vars
  BY <1>1, RowDiesLast
     DEF AliveStatus, NoneLeft, CdpReachable, Answering, Listening, Live
<1> QED BY <1>1, GoneInit, GoneStep, PTL DEF Spec, StoppedMeansGone

\* Under the same conditions the row, and with it the profile directory, goes
\* only when no process of the instance lives.
THEOREM StopRaceDeletesGone ==
    ASSUME OnlyStops, ~MayRelaunch, ~MayHang
    PROVE  Spec => DeletedMeansGone
<1>1. ASSUME GoneInv, [Next]_vars
      PROVE  [Present /\ row'.status = "absent" => \A p \in Pids : ~IsLive(p)]_vars
  BY <1>1, RowDiesLast DEF AliveStatus, NoneLeft, IsLive
<1> QED BY <1>1, GoneInit, GoneStep, PTL DEF Spec, DeletedMeansGone

\* Under the same conditions a browser that still lives is the one its row
\* names, under a status that lets the user stop it.
THEOREM StopRaceBrowserIsNamed ==
    ASSUME OnlyStops, ~MayRelaunch, ~MayHang
    PROVE  Spec => []BrowserIsNamed
<1>1. GoneInv => BrowserIsNamed
  <2> SUFFICES ASSUME GoneInv, NEW p \in Pids, IsLive(p)
               PROVE  AliveStatus(row.status) /\ row.pid = p
    BY DEF BrowserIsNamed
  <2>1. AliveStatus(row.status) BY DEF GoneInv, RowKnows, NoneLeft, IsLive
  <2>2. Born(row.pid) BY <2>1 DEF GoneInv, RowKnows, Present, AliveStatus
  <2>3. Born(p) BY DEF Born, IsLive, Live
  <2> QED BY <2>1, <2>2, <2>3 DEF GoneInv, OneProcess, Born
<1> QED BY <1>1, GoneInit, GoneStep, PTL DEF Spec

-----------------------------------------------------------------------------
(* One call at a time, launches among them.  While a launch is under way the  *)
(* browser it has spawned is the only one; at all other times a browser that  *)
(* lives is the one the row names.                                           *)

\* One call at a time, no replaced process, no late exit callback, no crash: each of the
\* four is needed (README, section 5).
Caller == CHOOSE t \in Tasks : TRUE
OneCaller == Tasks = {Caller} /\ ~MayRelaunch /\ ~MayHang /\ ~SlowWatcher /\ MaxCrashes = 0

\* Where the call is: at these steps no browser lives ...
Now == task[Caller]
Bare == {"mark", "hosts", "spawn", "abort", "cas", "promote", "deleteRow"}
\* ... at these the row is the one that mark_starting left ...
Marked == {"hosts", "spawn", "writePid", "waitCdp", "inject"}
\* ... and at these the call works on a snapshot that has the pid of the row.
Looking == {"probe", "confirm", "tabs", "checked", "ensurePort", "deleteRow"} \cup StopPc

RowInv ==
    /\ up /\ crashes = 0
    /\ Now.pc # "idle" => Present
    /\ row.status = "starting" <=> Now.pc \in Marked \cup {"abort"}
    /\ Now.pc \in {"waitCdp", "inject"} => row.pid = Now.pid
    /\ Now.pc \in Looking =>
          /\ Now.ins.pid = row.pid /\ Now.ins.status # "starting"
          /\ AliveStatus(row.status) => AliveStatus(Now.ins.status)

\* A browser that lives is the one just spawned, or the one the row names.
Named(p) ==
    IF Now.pc = "writePid" THEN p = Now.pid
    ELSE Now.pc \notin Bare /\ AliveStatus(row.status) /\ row.pid = p
BrowserInv == \A p \in Pids :
    /\ proc[p] # "hung"
    /\ proc[p] = "booting" => Now.pc \in {"writePid", "waitCdp"}
    /\ proc[p] \in Live => Named(p)
    /\ watch[p] = "matched" =>
          proc[p] = "dead" /\ (row.pid = p \/ ~Present) /\ Now.pc \notin Marked \cup {"abort"}

SerialInv == TypeOK /\ RowInv /\ BrowserInv

LEMMA CallerMoves ==
    ASSUME OneCaller, TypeOK
    PROVE  /\ Caller \in Tasks /\ Now \in Task
           /\ \A pc : Goto(Caller, pc) =>
                 Now'.pc = pc /\ Now'.ins = Now.ins /\ Now'.pid = Now.pid /\ Now'.op = Now.op
           /\ Finish(Caller) => Now' = IdleTask
           /\ \A ins : Checked(Caller, ins) =>
                 Now'.pc = "checked" /\ Now'.ins = ins /\ Now'.op = Now.op
           /\ IdleTask.pc = "idle"
<1>1. Caller \in Tasks BY DEF OneCaller
<1>2. ASSUME NEW pc, Goto(Caller, pc)
      PROVE  Now'.pc = pc /\ Now'.ins = Now.ins /\ Now'.pid = Now.pid /\ Now'.op = Now.op
  BY <1>1, <1>2 DEF Goto, TypeOK, Task, Now
<1> QED BY <1>1, <1>2, FinishEffect, CheckedEffect DEF Now, TypeOK, IdleTask

LEMMA RowWrites ==
    ASSUME TypeOK
    PROVE  /\ \A s : SetStatus(s).pid = row.pid
           /\ \A s : Present => SetStatus(s).status = s
           /\ \A p : SetPid(p).status = row.status
           /\ \A p : Present => SetPid(p).pid = p
           /\ \A p : row.pid = p => SetPid(p).pid = p
           /\ Touch.status = row.status /\ Touch.pid = row.pid
           /\ Present => MarkStarting.status = "starting" /\ MarkStarting.pid = NoPid
           /\ ~Present => SetStatus("error") = row
BY DEF TypeOK, Row, SetStatus, SetPid, AliveStatus, Present, Touch, MarkStarting

LEMMA Reads ==
    ASSUME OneCaller, TypeOK, RowInv, NEW op, Now' = Reconciling(op), UNCHANGED row
    PROVE  \/ Now' = IdleTask /\ ~Present
           \/ /\ Present /\ Now'.ins = row
              /\ Now'.pc = IF AliveStatus(row.status) THEN "probe" ELSE "checked"
BY DEF Reconciling, IdleTask

\* Nothing but the call has moved.
OnlyCall == UNCHANGED <<row, proc, watch, crashes, up>>

\* The call looks at the row again, or for the first time.
LEMMA CallBegins ==
    ASSUME OneCaller, SerialInv, TypeOK', OnlyCall, NEW op, Now' = Reconciling(op),
           Now.pc \in {"idle", "cas", "promote"}
    PROVE  SerialInv'
<1>1. Now'.pc \in {"idle", "probe", "checked"}
  BY Reads DEF SerialInv, OnlyCall, IdleTask
<1>2. RowInv'
  BY <1>1, Reads
  DEF SerialInv, OnlyCall, RowInv, IdleTask, Present, AliveStatus, Marked, Looking, StopPc
<1>3. BrowserInv'
  BY <1>1 DEF SerialInv, OnlyCall, BrowserInv, Named, Present, Bare, Marked
<1> QED BY <1>2, <1>3 DEF SerialInv

LEMMA ProbeKeepsSerial == ASSUME OneCaller, SerialInv, TypeOK', Probe(Caller) PROVE SerialInv'
<1>1. Now.pc = "probe" /\ Now.ins.status # "starting" /\ UNCHANGED <<proc, watch, crashes, up>>
  BY DEF Probe, SerialInv, RowInv, Looking, Now
<1>2. UNCHANGED row BY <1>1 DEF Probe, Now
<1>3. /\ Now'.pc \in {"tabs", "checked", "confirm"}
      /\ Now'.ins \in {Now.ins, Fresh(Now.ins)}
  BY <1>1, CallerMoves DEF Probe, SerialInv, Now
<1>4. RowInv'
  BY <1>1, <1>2, <1>3
  DEF SerialInv, RowInv, Present, AliveStatus, Marked, Looking, Fresh, StopPc
<1>5. BrowserInv' BY <1>1, <1>2, <1>3 DEF SerialInv, BrowserInv, Named, Present, Bare, Marked
<1> QED BY <1>4, <1>5 DEF SerialInv

\* Nobody answers, and nobody has just been spawned: nobody lives.
LEMMA SilenceMeansGone ==
    ASSUME SerialInv, ~CdpReachable, Now.pc \notin {"writePid", "waitCdp"}
    PROVE  \A p \in Pids : proc[p] \notin Live
BY DEF SerialInv, BrowserInv, CdpReachable, Answering, Listening, Live

LEMMA ConfirmKeepsSerial == ASSUME OneCaller, SerialInv, TypeOK', Confirm(Caller) PROVE SerialInv'
<1>1. Now.pc = "confirm" /\ UNCHANGED <<proc, watch, crashes, up>> /\ Present
  BY DEF Confirm, SerialInv, RowInv, Now
<1>2. Now'.pc = "checked" /\ Now'.ins = row'
  BY <1>1, CallerMoves DEF Confirm, SerialInv
<1>3. CASE ~CdpReachable /\ row' = SetStatus("stopped")
  <2>1. row'.status = "stopped" /\ row'.pid = row.pid BY <1>1, <1>3, RowWrites DEF SerialInv
  <2>2. RowInv'
    BY <1>1, <1>2, <2>1 DEF SerialInv, RowInv, Present, AliveStatus, Marked, Looking
  <2>3. \A p \in Pids : proc[p] \notin Live BY <1>1, <1>3, SilenceMeansGone
  <2>4. BrowserInv'
    BY <1>1, <1>2, <2>1, <2>3 DEF SerialInv, BrowserInv, Present, Marked, Live
  <2> QED BY <2>2, <2>4 DEF SerialInv
<1>4. CASE CdpReachable /\ \E p \in ScanByProfile :
           row' = IF p # Now.ins.pid THEN SetPid(p) ELSE row
  <2>1. row' = row
    BY <1>1, <1>4
    DEF SerialInv, BrowserInv, Named, RowInv, ScanByProfile, Looking
  <2>2. RowInv'
    BY <1>1, <1>2, <2>1 DEF SerialInv, RowInv, Present, AliveStatus, Marked, Looking
  <2>3. BrowserInv'
    BY <1>1, <1>2, <2>1 DEF SerialInv, BrowserInv, Named, Present, Bare, Marked
  <2> QED BY <2>2, <2>3 DEF SerialInv
<1> QED BY <1>3, <1>4 DEF Confirm, Now

LEMMA TabsKeepSerial == ASSUME OneCaller, SerialInv, TypeOK', CheckTabs(Caller) PROVE SerialInv'
<1>1. Now.pc = "tabs" /\ OnlyCall BY DEF CheckTabs, OnlyCall, Now
<1>2. /\ Now'.pc \in {"checked", "export"}
      /\ Now'.ins \in {Now.ins, Fresh(Now.ins)}
  BY CallerMoves, TabsEffect DEF CheckTabs, SerialInv, Now
<1>3. RowInv'
  BY <1>1, <1>2
  DEF SerialInv, OnlyCall, RowInv, Present, AliveStatus, Marked, Looking, Fresh, StopPc
<1>4. BrowserInv'
  BY <1>1, <1>2 DEF SerialInv, OnlyCall, BrowserInv, Named, Present, Bare, Marked
<1> QED BY <1>3, <1>4 DEF SerialInv

LEMMA DecisionKeepsSerial ==
    ASSUME OneCaller, SerialInv, TypeOK', DecideStep(Caller) PROVE SerialInv'
<1>1. Now.pc = "checked" /\ OnlyCall
  BY DEF DecideStep, GetDone, StartDecide, StopDecide, StopAllDecide, DeleteDecide, OnlyCall, Now
<1>2. \/ Now' = IdleTask
      \/ Now'.pc \in {"ensurePort", "export"} /\ Now'.ins = Now.ins
      \/ Now'.pc = "cas" /\ Now'.ins = Now.ins /\ Now.ins.pid = NoPid
      \/ Now'.pc = "deleteRow" /\ Now'.ins = Now.ins /\ ~AliveStatus(Now.ins.status)
  BY CallerMoves
  DEF SerialInv, DecideStep, GetDone, StartDecide, StopDecide, StopAllDecide, DeleteDecide, Now
<1>3. RowInv'
  BY <1>1, <1>2
  DEF SerialInv, OnlyCall, RowInv, Present, AliveStatus, Marked, Looking, StopPc, IdleTask
<1>4. Now'.pc \in {"cas", "deleteRow"} => \A p \in Pids : proc[p] \notin Live
  BY <1>1, <1>2, ConstantsAssumption
  DEF SerialInv, BrowserInv, Named, RowInv, Looking, IdleTask
<1>5. BrowserInv'
  BY <1>1, <1>2, <1>4
  DEF SerialInv, OnlyCall, BrowserInv, Named, Present, Bare, Marked, IdleTask
<1> QED BY <1>3, <1>5 DEF SerialInv

LEMMA DeletionKeepsSerial ==
    ASSUME OneCaller, SerialInv, TypeOK', DeleteRow(Caller) PROVE SerialInv'
<1>1. /\ Now.pc = "deleteRow" /\ UNCHANGED <<proc, watch, crashes, up>>
      /\ row' = NoRow /\ Now' = IdleTask
  BY CallerMoves DEF DeleteRow, SerialInv, Now
<1>2. \A p \in Pids : proc[p] \notin Live BY <1>1 DEF SerialInv, BrowserInv, Named, Bare
<1>3. RowInv' BY <1>1 DEF SerialInv, RowInv, NoRow, IdleTask, Marked, Looking, StopPc
<1>4. BrowserInv'
  BY <1>1, <1>2 DEF SerialInv, BrowserInv, NoRow, IdleTask, Marked, Present, Live
<1> QED BY <1>3, <1>4 DEF SerialInv

\* A stop sequence is over: the call ends, goes on with its snapshot, or starts again.
LEMMA SequenceEnds ==
    ASSUME OneCaller, SerialInv, TypeOK', OnlyCall, Now.pc \in {"cas", "promote"}, StopDone(Caller)
    PROVE  SerialInv'
<1>1. CASE Checked(Caller, Fresh(Now.ins)) \/ Finish(Caller)
  <2>1. Now' = IdleTask \/ (Now'.pc = "checked" /\ Now'.ins \in {Now.ins, row})
    BY <1>1, CallerMoves DEF SerialInv, Fresh
  <2>2. RowInv'
    BY <2>1
    DEF SerialInv, OnlyCall, RowInv, Present, AliveStatus, Marked, Looking, StopPc, IdleTask
  <2>3. BrowserInv'
    BY <2>1 DEF SerialInv, OnlyCall, BrowserInv, Named, Present, Bare, Marked, IdleTask
  <2> QED BY <2>2, <2>3 DEF SerialInv
<1>2. CASE task' = [task EXCEPT ![Caller] = Reconciling("start")]
  <2>1. Now' = Reconciling("start") BY <1>2, CallerMoves DEF SerialInv, TypeOK, Now
  <2> QED BY <2>1, CallBegins
<1> QED BY <1>1, <1>2 DEF StopDone, Now

LEMMA StopKeepsSerial ==
    ASSUME OneCaller, SerialInv, TypeOK', StopStep(Caller) PROVE SerialInv'
<1>1. CASE Export(Caller)
  <2>1. Now.pc = "export" /\ OnlyCall /\ Now'.pc = "kill" /\ Now'.ins = Now.ins
    BY <1>1, CallerMoves DEF SerialInv, Export, OnlyCall, Now
  <2>2. RowInv'
    BY <2>1 DEF SerialInv, OnlyCall, RowInv, Present, AliveStatus, Marked, Looking, StopPc
  <2>3. BrowserInv'
    BY <2>1 DEF SerialInv, OnlyCall, BrowserInv, Named, Present, Bare, Marked
  <2> QED BY <2>2, <2>3 DEF SerialInv
<1>2. CASE Kill(Caller)
  <2>1. /\ Now.pc = "kill" /\ UNCHANGED <<row, watch, crashes, up>> /\ Now'.pc = "cas"
        /\ Now'.ins = Now.ins /\ proc' = Terminate(row.pid)
    BY <1>2, CallerMoves DEF SerialInv, Kill, Now, RowInv, Looking, StopPc
  <2>2. RowInv'
    BY <2>1 DEF SerialInv, RowInv, Present, AliveStatus, Marked, Looking, StopPc
  <2>3. \A p \in Pids : proc'[p] \notin Live /\ (proc[p] = "dead" => proc'[p] = "dead")
    BY <2>1, ConstantsAssumption
    DEF SerialInv, TypeOK, BrowserInv, Named, Terminate, IsLive, Live
  <2>4. BrowserInv'
    BY <2>1, <2>3 DEF SerialInv, BrowserInv, Present, Marked, Live
  <2> QED BY <2>2, <2>4 DEF SerialInv
<1>3. CASE StopCas(Caller)
  <2>1. Now.pc = "cas" /\ UNCHANGED <<proc, watch, crashes, up>> BY <1>3 DEF StopCas, Now
  <2>2. \A p \in Pids : proc[p] \notin Live BY <2>1 DEF SerialInv, BrowserInv, Named, Bare
  <2>3. CASE row' = SetStatus("stopped") /\ Goto(Caller, "promote")
    <3>1. /\ Now'.pc = "promote" /\ Now'.ins = Now.ins /\ row'.pid = row.pid /\ Present
          /\ row'.status = "stopped"
      BY <2>1, <2>3, CallerMoves, RowWrites DEF SerialInv, RowInv
    <3>2. RowInv'
      BY <2>1, <3>1 DEF SerialInv, RowInv, Present, AliveStatus, Marked, Looking, StopPc
    <3>3. BrowserInv'
      BY <2>1, <2>2, <3>1 DEF SerialInv, BrowserInv, Present, Marked, Live
    <3> QED BY <3>2, <3>3 DEF SerialInv
  <2>4. CASE StopDone(Caller) /\ UNCHANGED row
    BY <2>1, <2>4, SequenceEnds DEF OnlyCall
  <2> QED BY <1>3, <2>3, <2>4 DEF StopCas
<1>4. CASE Promote(Caller)
  BY <1>4, SequenceEnds DEF Promote, OnlyCall, Now
<1> QED BY <1>1, <1>2, <1>3, <1>4 DEF StopStep

LEMMA EntryKeepsSerial ==
    ASSUME OneCaller, SerialInv, TypeOK', EnsurePort(Caller) \/ Mark(Caller) \/ Hosts(Caller)
    PROVE  SerialInv'
<1>1. CASE EnsurePort(Caller)
  <2>1. Now.pc = "ensurePort" /\ UNCHANGED <<row, watch, crashes, up>> BY <1>1 DEF EnsurePort, Now
  <2>2. CASE ~PortBound /\ Goto(Caller, "mark") /\ UNCHANGED proc
    <3>1. Now'.pc = "mark" BY <2>2, CallerMoves DEF SerialInv
    <3>2. \A p \in Pids : proc[p] \notin Live
      BY <2>1, <2>2, SilenceMeansGone DEF PortBound, CdpReachable, Answering
    <3>3. RowInv' BY <2>1, <3>1 DEF SerialInv, RowInv, Present, Marked, Looking, StopPc
    <3>4. BrowserInv'
      BY <2>1, <2>2, <3>1, <3>2 DEF SerialInv, BrowserInv, Present, Marked, Live
    <3> QED BY <3>3, <3>4 DEF SerialInv
  <2>3. CASE proc' = Terminate(Now.ins.pid) /\ UNCHANGED task
    <3>1. \A p \in Pids : proc'[p] = proc[p] \/ proc'[p] = "dead"
      BY <2>3 DEF SerialInv, TypeOK, Terminate
    <3>2. Now' = Now BY <2>3 DEF Now
    <3>3. RowInv' BY <2>1, <3>2 DEF SerialInv, RowInv, Present
    <3>4. BrowserInv'
      BY <2>1, <3>1, <3>2 DEF SerialInv, BrowserInv, Named, Present, Live
    <3> QED BY <3>3, <3>4 DEF SerialInv
  <2>4. CASE Finish(Caller) /\ UNCHANGED proc
    <3>1. Now' = IdleTask BY <2>4, CallerMoves DEF SerialInv
    <3>2. RowInv' BY <2>1, <3>1 DEF SerialInv, RowInv, Present, Marked, Looking, StopPc, IdleTask
    <3>3. BrowserInv'
      BY <2>1, <2>4, <3>1 DEF SerialInv, BrowserInv, Named, Present, Bare, Marked, IdleTask
    <3> QED BY <3>2, <3>3 DEF SerialInv
  <2> QED BY <1>1, <2>2, <2>3, <2>4 DEF EnsurePort, Now
<1>2. CASE Mark(Caller)
  <2>1. /\ Now.pc = "mark" /\ UNCHANGED <<proc, watch, crashes, up>> /\ Present
        /\ row' = MarkStarting /\ Now'.pc = "hosts" /\ \A p \in Pids : watch[p] # "matched"
    BY <1>2, CallerMoves DEF SerialInv, RowInv, Mark, Now, OneCaller
  <2>2. row'.status = "starting" BY <2>1, RowWrites DEF SerialInv
  <2>3. RowInv' BY <2>1, <2>2 DEF SerialInv, RowInv, Present, Marked, Looking, StopPc
  <2>4. \A p \in Pids : proc[p] \notin Live BY <2>1 DEF SerialInv, BrowserInv, Named, Bare
  <2>5. BrowserInv' BY <2>1, <2>4 DEF SerialInv, BrowserInv, Live
  <2> QED BY <2>3, <2>5 DEF SerialInv
<1>3. CASE Hosts(Caller)
  <2>1. /\ Now.pc = "hosts" /\ UNCHANGED <<proc, watch, crashes, up>> /\ Present
        /\ \A p \in Pids : proc[p] \notin Live
    BY <1>3 DEF SerialInv, RowInv, BrowserInv, Named, Bare, Hosts, Now
  <2>2. \A p \in Pids : watch'[p] # "matched" BY <2>1 DEF SerialInv, BrowserInv, Marked
  <2>3. \/ Now'.pc = "spawn" /\ row'.status = "starting"
        \/ Now' = IdleTask /\ row'.status = "error"
    BY <1>3, <2>1, CallerMoves, RowWrites DEF SerialInv, RowInv, Hosts, Now, Marked
  <2>4. RowInv' BY <2>1, <2>3 DEF SerialInv, RowInv, Present, Marked, Looking, StopPc, IdleTask
  <2>5. BrowserInv' BY <2>1, <2>2 DEF BrowserInv, Live
  <2> QED BY <2>4, <2>5 DEF SerialInv
<1> QED BY <1>1, <1>2, <1>3

LEMMA SpawnKeepsSerial ==
    ASSUME OneCaller, SerialInv, TypeOK', Spawn(Caller) \/ WritePid(Caller)
    PROVE  SerialInv'
<1>1. CASE Spawn(Caller)
  <2>1. /\ Now.pc = "spawn" /\ UNCHANGED <<crashes, up>> /\ Present /\ row.status = "starting"
        /\ \A p \in Pids : proc[p] \notin Live /\ watch[p] # "matched"
    BY <1>1 DEF SerialInv, RowInv, BrowserInv, Named, Bare, Marked, Spawn, Now
  <2>2. ASSUME NEW p \in Pids, proc' = [proc EXCEPT ![p] = "booting"],
               watch' = [watch EXCEPT ![p] = "armed"], UNCHANGED row,
               task' = [task EXCEPT ![Caller].pc = "writePid", ![Caller].pid = p]
        PROVE  SerialInv'
    <3>1. Now'.pc = "writePid" /\ Now'.pid = p
      <4>1. task' = [task EXCEPT ![Caller] = [task[Caller] EXCEPT !.pc = "writePid", !.pid = p]]
        BY <2>2, CallerMoves, Zenon DEF SerialInv, TypeOK, Now
      <4> QED BY <4>1, CallerMoves DEF SerialInv, TypeOK, Task, Now
    <3>2. RowInv' BY <2>1, <2>2, <3>1 DEF SerialInv, RowInv, Present, Marked, Looking, StopPc
    <3>3. BrowserInv' BY <2>1, <2>2, <3>1 DEF SerialInv, TypeOK, BrowserInv, Named, Live
    <3> QED BY <2>2, <3>2, <3>3 DEF SerialInv
  <2>3. CASE row' = SetStatus("error") /\ Finish(Caller) /\ UNCHANGED <<proc, watch>>
    <3>1. Now' = IdleTask /\ row'.status = "error"
      BY <2>1, <2>3, CallerMoves, RowWrites DEF SerialInv
    <3>2. RowInv'
      BY <2>1, <3>1 DEF SerialInv, RowInv, Present, Marked, Looking, StopPc, IdleTask
    <3>3. BrowserInv' BY <2>1, <2>3 DEF BrowserInv, Live
    <3> QED BY <3>2, <3>3 DEF SerialInv
  <2> QED BY <1>1, <2>2, <2>3 DEF Spawn
<1>2. CASE WritePid(Caller)
  <2>1. /\ Now.pc = "writePid" /\ UNCHANGED <<proc, watch, crashes, up>> /\ Present
        /\ row.status = "starting" /\ row' = SetPid(Now.pid)
        /\ Now'.pc = "waitCdp" /\ Now'.pid = Now.pid
    BY <1>2, CallerMoves DEF SerialInv, RowInv, WritePid, Marked, Now
  <2>2. row'.status = "starting" /\ row'.pid = Now.pid BY <2>1, RowWrites DEF SerialInv
  <2>3. RowInv' BY <2>1, <2>2 DEF SerialInv, RowInv, Present, Marked, Looking, StopPc
  <2>4. BrowserInv'
    BY <2>1, <2>2 DEF SerialInv, BrowserInv, Named, Bare, Marked, AliveStatus
  <2> QED BY <2>3, <2>4 DEF SerialInv
<1> QED BY <1>1, <1>2

LEMMA LaunchEndKeepsSerial ==
    ASSUME OneCaller, SerialInv, TypeOK',
           WaitCdp(Caller) \/ Abort(Caller) \/ WriteRunning(Caller) \/ CleanExport(Caller)
    PROVE  SerialInv'
<1>1. CASE WaitCdp(Caller)
  <2>1. /\ Now.pc = "waitCdp" /\ UNCHANGED <<row, watch, crashes, up>> /\ Present
        /\ row.status = "starting" /\ row.pid = Now.pid
        /\ \A p \in Pids : watch[p] # "matched" /\ (proc[p] \in Live => p = Now.pid)
    BY <1>1 DEF SerialInv, RowInv, BrowserInv, Named, Marked, WaitCdp, Now
  <2>2. CASE CdpReachable /\ Goto(Caller, "inject") /\ UNCHANGED proc
    <3>1. Now'.pc = "inject" /\ Now'.pid = Now.pid BY <2>2, CallerMoves DEF SerialInv
    <3>2. \A p \in Pids : proc[p] # "booting"
      BY <2>1, <2>2 DEF CdpReachable, Answering, Listening, Live
    <3>3. RowInv' BY <2>1, <3>1 DEF SerialInv, RowInv, Present, Marked, Looking, StopPc
    <3>4. BrowserInv'
      BY <2>1, <2>2, <3>1, <3>2 DEF SerialInv, BrowserInv, Named, Bare, AliveStatus
    <3> QED BY <3>3, <3>4 DEF SerialInv
  <2>3. CASE ~CdpReachable /\ proc' = Terminate(Now.pid) /\ Goto(Caller, "abort")
    <3>1. Now'.pc = "abort" BY <2>3, CallerMoves DEF SerialInv
    <3>2. \A p \in Pids : proc'[p] \notin Live
      BY <2>1, <2>3, ConstantsAssumption DEF SerialInv, TypeOK, Terminate, IsLive, Live
    <3>3. RowInv' BY <2>1, <3>1 DEF SerialInv, RowInv, Present, Marked, Looking, StopPc
    <3>4. BrowserInv' BY <2>1, <3>1, <3>2 DEF BrowserInv, Live
    <3> QED BY <3>3, <3>4 DEF SerialInv
  <2> QED BY <1>1, <2>2, <2>3 DEF WaitCdp, Now
<1>2. CASE Abort(Caller)
  <2>1. /\ Now.pc = "abort" /\ UNCHANGED <<proc, watch, crashes, up>> /\ Present
        /\ Now' = IdleTask /\ row' = SetStatus("error")
        /\ \A p \in Pids : watch[p] # "matched" /\ proc[p] \notin Live
    BY <1>2, CallerMoves DEF SerialInv, RowInv, BrowserInv, Named, Bare, Abort, Now
  <2>2. row'.status = "error" BY <2>1, RowWrites DEF SerialInv
  <2>3. RowInv' BY <2>1, <2>2 DEF SerialInv, RowInv, Present, Marked, Looking, StopPc, IdleTask
  <2>4. BrowserInv' BY <2>1 DEF BrowserInv, Live
  <2> QED BY <2>3, <2>4 DEF SerialInv
<1>3. CASE WriteRunning(Caller)
  <2>1. /\ Now.pc = "inject" /\ UNCHANGED <<proc, watch, crashes, up>> /\ Present
        /\ Now'.pc = "clean" /\ row' = SetStatus("running")
    BY <1>3, CallerMoves DEF SerialInv, RowInv, WriteRunning, Now
  <2>2. row'.status = "running" /\ row'.pid = row.pid BY <2>1, RowWrites DEF SerialInv
  <2>3. RowInv' BY <2>1, <2>2 DEF SerialInv, RowInv, Present, Marked, Looking, StopPc
  <2>4. BrowserInv'
    BY <2>1, <2>2 DEF SerialInv, BrowserInv, Named, Bare, AliveStatus, Marked
  <2> QED BY <2>3, <2>4 DEF SerialInv
<1>4. CASE CleanExport(Caller)
  <2>1. Now.pc = "clean" /\ OnlyCall /\ Now' = IdleTask
    BY <1>4, CallerMoves DEF SerialInv, CleanExport, OnlyCall, Now
  <2>2. RowInv'
    BY <2>1 DEF SerialInv, OnlyCall, RowInv, Present, Marked, Looking, StopPc, IdleTask
  <2>3. BrowserInv'
    BY <2>1 DEF SerialInv, OnlyCall, BrowserInv, Named, Present, Bare, Marked, IdleTask
  <2> QED BY <2>2, <2>3 DEF SerialInv
<1> QED BY <1>1, <1>2, <1>3, <1>4

\* The exit callback finds its own pid in the row: nobody lives.
LEMMA WatcherKeepsSerial ==
    ASSUME OneCaller, SerialInv, TypeOK', NEW p \in Pids, WatcherStep(p)
    PROVE  SerialInv'
<1>1. UNCHANGED <<proc, task, crashes, up>> /\ Now' = Now
  BY DEF WatcherStep, ExitRead, ExitCas, ExitPromote, Now
<1>2. CASE ExitRead(p)
  <2>1. /\ proc[p] = "dead" /\ UNCHANGED row
        /\ watch'[p] = "matched" => row.pid = p /\ row.status = "running"
        /\ \A q \in Pids \ {p} : watch'[q] = watch[q]
    BY <1>2 DEF SerialInv, TypeOK, ExitRead
  <2>2. RowInv' BY <1>1, <2>1 DEF SerialInv, RowInv, Present
  <2>3. row.status = "running" => Now.pc \notin Marked BY DEF SerialInv, RowInv
  <2>4. Now.pc = "abort" => row.status = "starting" BY DEF SerialInv, RowInv
  <2>5. BrowserInv' BY <1>1, <2>1, <2>3, <2>4 DEF SerialInv, BrowserInv, Named, Present
  <2> QED BY <2>2, <2>5 DEF SerialInv
<1>3. CASE ExitCas(p)
  <2>1. /\ proc[p] = "dead" /\ (row.pid = p \/ ~Present) /\ Now.pc \notin Marked \cup {"abort"}
        /\ watch'[p] # "matched" /\ \A q \in Pids \ {p} : watch'[q] = watch[q]
    BY <1>3 DEF SerialInv, TypeOK, BrowserInv, ExitCas
  <2>2. CASE row' = row
    <3>1. RowInv' BY <1>1, <2>2 DEF SerialInv, RowInv, Present
    <3>2. BrowserInv' BY <1>1, <2>1, <2>2 DEF SerialInv, BrowserInv, Named, Present
    <3> QED BY <3>1, <3>2 DEF SerialInv
  <2>3. CASE CasWins /\ row' = SetStatus("stopped")
    <3>1. Present /\ row'.status = "stopped" /\ row'.pid = row.pid
      BY <2>3, RowWrites DEF SerialInv, CasWins, AliveStatus, Present
    <3>2. \A q \in Pids : proc[q] \notin Live
      BY <2>1, <3>1 DEF SerialInv, BrowserInv, Named, Marked, Live
    <3>3. RowInv'
      BY <1>1, <2>1, <3>1 DEF SerialInv, RowInv, Present, AliveStatus, Marked
    <3>4. BrowserInv' BY <1>1, <2>1, <3>1, <3>2 DEF SerialInv, BrowserInv, Present, Live
    <3> QED BY <3>3, <3>4 DEF SerialInv
  <2> QED BY <1>3, <2>2, <2>3 DEF ExitCas
<1>4. CASE ExitPromote(p)
  <2>1. /\ UNCHANGED row /\ watch'[p] # "matched"
        /\ \A q \in Pids \ {p} : watch'[q] = watch[q]
    BY <1>4 DEF SerialInv, TypeOK, ExitPromote
  <2>2. RowInv' BY <1>1, <2>1 DEF SerialInv, RowInv, Present
  <2>3. BrowserInv' BY <1>1, <2>1 DEF SerialInv, BrowserInv, Named, Present
  <2> QED BY <2>2, <2>3 DEF SerialInv
<1> QED BY <1>2, <1>3, <1>4 DEF WatcherStep

LEMMA ChromeKeepsSerial ==
    ASSUME OneCaller, SerialInv, TypeOK', NEW p \in Pids, ChromeStep(p)
    PROVE  SerialInv'
<1>1. UNCHANGED <<row, watch, task, crashes, up>> /\ Now' = Now
  BY DEF ChromeStep, BecomeReady, Die, CloseWindows, OpenWindow, Hang, Recover, Now
<1>2. /\ \A q \in Pids \ {p} : proc'[q] = proc[q]
      /\ proc[p] \in Live /\ proc'[p] \in {"ready", "empty", "dead"}
  BY DEF OneCaller, SerialInv, BrowserInv, TypeOK, ChromeStep, BecomeReady, Die, CloseWindows,
         OpenWindow, Hang, Recover, Live
<1>3. RowInv' BY <1>1 DEF SerialInv, RowInv, Present
<1>4. BrowserInv' BY <1>1, <1>2 DEF SerialInv, BrowserInv, Named, Present, Live
<1> QED BY <1>3, <1>4 DEF SerialInv

LEMMA StepKeepsSerial == OneCaller /\ SerialInv /\ [Next]_vars => SerialInv'
<1> SUFFICES ASSUME OneCaller, SerialInv, [Next]_vars PROVE SerialInv' OBVIOUS
<1>1. TypeOK' BY StepTypes DEF SerialInv
<1>2. ASSUME NEW t \in Tasks, NEW op, Call(t, op) \/ (Read(t) /\ op = "get") PROVE SerialInv'
  <2>1. t = Caller BY DEF OneCaller
  <2>2. Now.pc = "idle" /\ OnlyCall /\ Now' = Reconciling(op)
    BY <1>2, <2>1, CallerMoves DEF SerialInv, TypeOK, Call, Read, OnlyCall, Now
  <2> QED BY <1>1, <2>2, CallBegins
<1>3. ASSUME NEW t \in Tasks, TaskStep(t) PROVE SerialInv'
  <2>1. TaskStep(Caller) BY <1>3 DEF OneCaller
  <2> QED BY <1>1, <2>1, ProbeKeepsSerial, ConfirmKeepsSerial, TabsKeepSerial, DecisionKeepsSerial,
             EntryKeepsSerial, SpawnKeepsSerial, LaunchEndKeepsSerial, StopKeepsSerial,
             DeletionKeepsSerial
          DEF TaskStep, ReconcileStep, LaunchStep
<1>4. ~AppCrash /\ (\A t : ~AppStart(t)) /\ (\A p, q : ~Relaunch(p, q))
  <2>1. up /\ crashes = 0 BY DEF SerialInv, RowInv
  <2>2. ~AppCrash BY <2>1 DEF AppCrash
  <2>3. \A t : ~AppStart(t) BY <2>1 DEF AppStart
  <2>4. \A p, q : ~Relaunch(p, q) BY DEF OneCaller, Relaunch
  <2> QED BY <2>2, <2>3, <2>4
<1>5. ASSUME NEW p \in Pids, WatcherStep(p) \/ ChromeStep(p) PROVE SerialInv'
  BY <1>1, <1>5, WatcherKeepsSerial, ChromeKeepsSerial
<1>6. CASE Age
  <2>1. /\ row'.status = row.status /\ row'.pid = row.pid /\ Now' = Now
        /\ UNCHANGED <<proc, watch, crashes, up>>
    BY <1>6 DEF SerialInv, TypeOK, Row, Age, Now
  <2>2. RowInv' BY <2>1 DEF SerialInv, RowInv, Present
  <2>3. BrowserInv' BY <2>1 DEF SerialInv, BrowserInv, Named, Present
  <2> QED BY <1>1, <2>2, <2>3 DEF SerialInv
<1>7. CASE Ripen \/ UNCHANGED vars
  <2>1. OnlyCall /\ Now' = Now BY <1>7 DEF Ripen, vars, OnlyCall, Now
  <2>2. RowInv' BY <2>1 DEF SerialInv, OnlyCall, RowInv, Present
  <2>3. BrowserInv' BY <2>1 DEF SerialInv, OnlyCall, BrowserInv, Named, Present
  <2> QED BY <1>1, <2>2, <2>3 DEF SerialInv
<1> QED BY <1>2, <1>3, <1>4, <1>5, <1>6, <1>7 DEF Next

LEMMA InitSerial == OneCaller /\ Init => SerialInv
<1> SUFFICES ASSUME OneCaller, Init PROVE SerialInv OBVIOUS
<1>1. TypeOK BY InitTypes
<1>2. up /\ crashes = 0 /\ Present BY DEF OneCaller, Init, Present
<1>3. CASE /\ row = [status |-> "stopped", pid |-> NoPid, aged |-> FALSE]
           /\ proc = [p \in Pids |-> "unborn"] /\ watch = [p \in Pids |-> "none"]
           /\ task = [t \in Tasks |-> IdleTask]
  <2>1. Now = IdleTask BY <1>3, CallerMoves, <1>1 DEF Now
  <2> QED BY <1>1, <1>2, <1>3, <2>1
          DEF SerialInv, RowInv, BrowserInv, IdleTask, Marked, Looking, StopPc, Live
<1>4. ASSUME NEW q \in Pids,
             row = [status |-> "running", pid |-> q, aged |-> FALSE],
             proc = [p \in Pids |-> IF p = q THEN "ready" ELSE "unborn"],
             watch = [p \in Pids |-> IF p = q THEN "armed" ELSE "none"],
             task = [t \in Tasks |-> IdleTask]
      PROVE  SerialInv
  <2>1. Now = IdleTask BY <1>4, CallerMoves, <1>1 DEF Now
  <2> QED BY <1>1, <1>2, <1>4, <2>1
          DEF SerialInv, RowInv, BrowserInv, Named, Bare, IdleTask, Marked, Looking, StopPc, Live,
              AliveStatus
<1>5. ASSUME row = [status |-> "starting", pid |-> NoPid, aged |-> FALSE],
             proc = [p \in Pids |-> "unborn"], watch = [p \in Pids |-> "none"],
             NEW c \in Tasks,
             task = [t \in Tasks |-> IF t = c
                       THEN [IdleTask EXCEPT !.op = "create", !.pc = "hosts", !.ins = row]
                       ELSE IdleTask]
      PROVE  SerialInv
  <2>1. Now.pc = "hosts" BY <1>5, CallerMoves, <1>1 DEF Now, OneCaller, IdleTask
  <2> QED BY <1>1, <1>2, <1>5, <2>1
          DEF SerialInv, RowInv, BrowserInv, Marked, Looking, StopPc, Live
<1> QED BY <1>3, <1>4, <1>5 DEF Init

\* No step writes the row and moves a browser.
LEMMA RowOrBrowser ==
    ASSUME OneCaller, SerialInv, [Next]_vars PROVE row' = row \/ proc' = proc
<1>1. ASSUME NEW t \in Tasks, TaskStep(t) PROVE row' = row \/ proc' = proc
  BY <1>1
  DEF TaskStep, ReconcileStep, Probe, Confirm, CheckTabs, DecideStep, GetDone, StartDecide,
      StopDecide, StopAllDecide, DeleteDecide, LaunchStep, EnsurePort, Mark, Hosts, Spawn, WritePid,
      WaitCdp, Abort, WriteRunning, CleanExport, StopStep, Export, Kill, StopCas, Promote, DeleteRow
<1>2. ASSUME NEW p \in Pids, WatcherStep(p) \/ ChromeStep(p) PROVE row' = row \/ proc' = proc
  BY <1>2 DEF WatcherStep, ExitRead, ExitCas, ExitPromote, ChromeStep, BecomeReady, Die,
    CloseWindows, OpenWindow, Hang, Recover
<1>3. ASSUME NEW t \in Tasks, NEW op, Call(t, op) \/ Read(t) \/ AppStart(t)
      PROVE  row' = row \/ proc' = proc
  BY <1>3 DEF Call, Read, AppStart
<1>4. ASSUME NEW p \in Pids, NEW q \in Pids, Relaunch(p, q) PROVE row' = row \/ proc' = proc
  BY <1>4 DEF Relaunch
<1>5. Age \/ Ripen \/ AppCrash \/ UNCHANGED vars => row' = row \/ proc' = proc
  BY DEF Age, Ripen, AppCrash, vars
<1> QED BY <1>1, <1>2, <1>3, <1>4, <1>5 DEF Next

\* What a row that is not alive says after a step, it says of the browsers before it.
LEMMA NotAliveMeansGone ==
    ASSUME OneCaller, SerialInv, [Next]_vars, row' # row, ~AliveStatus(row'.status)
    PROVE  \A p \in Pids : proc[p] \notin Live
<1>1. SerialInv' BY StepKeepsSerial
<1>2. proc' = proc BY RowOrBrowser
<1>3. Now'.pc # "writePid" BY <1>1 DEF SerialInv, RowInv, Marked, AliveStatus
<1> QED BY <1>1, <1>2, <1>3 DEF SerialInv, BrowserInv, Named

\* While calls come one at a time, whatever they are, launches among them, the row turns from
\* running to stopped only when no browser answers, though any probe may miss a live one
\* (reconciler.rs, mark_dead; instance_service.rs, stop).
THEOREM SerialStopsGone == ASSUME OneCaller PROVE Spec => StoppedMeansGone
<1>1. ASSUME SerialInv, [Next]_vars
      PROVE  [row.status = "running" /\ row'.status = "stopped" => ~CdpReachable]_vars
  BY <1>1, NotAliveMeansGone DEF AliveStatus, CdpReachable, Answering, Listening, Live
<1> QED BY <1>1, InitSerial, StepKeepsSerial, PTL DEF Spec, StoppedMeansGone

\* Under the same condition the row, and with it the profile directory, goes only when no
\* process of the instance lives (instance_service.rs, delete).
THEOREM SerialDeletesGone == ASSUME OneCaller PROVE Spec => DeletedMeansGone
<1>1. ASSUME SerialInv, [Next]_vars
      PROVE  [Present /\ row'.status = "absent" => \A p \in Pids : ~IsLive(p)]_vars
  BY <1>1, NotAliveMeansGone DEF AliveStatus, Present, IsLive
<1> QED BY <1>1, InitSerial, StepKeepsSerial, PTL DEF Spec, DeletedMeansGone

\* Under the same condition a browser that still lives when nothing is in flight is the one
\* the row names, under a status that lets the user stop it: no launch that fails or times out,
\* no restart, no reconciliation, no exit and no deletion leaves one behind.
THEOREM SerialBrowserIsNamed == ASSUME OneCaller PROVE Spec => []BrowserIsNamed
<1>1. SerialInv => BrowserIsNamed
  BY DEF OneCaller, SerialInv, BrowserInv, Named, BrowserIsNamed, Quiet, IsLive, Now
<1> QED BY <1>1, InitSerial, StepKeepsSerial, PTL DEF Spec

-----------------------------------------------------------------------------
(* The keepAlive watcher.                                                    *)

Crash == {"restart", "fused"}

\* The crashes of a window that led to a restart.
RestartsIn(w) == {i \in 1..Len(w) : w[i] = "restart"}

WindowType == window \in [Entries -> Seq(Crash)]
FuseInv == WindowType /\ FuseBound

-----------------------------------------------------------------------------
(* Restarts in a window, as the window changes.                             *)

LEMMA RestartsFinite ==
    ASSUME NEW w \in Seq(Crash)
    PROVE  /\ IsFiniteSet(RestartsIn(w))
           /\ Cardinality(RestartsIn(w)) \in Nat
           /\ Cardinality(RestartsIn(w)) <= Len(w)
<1>1. Len(w) \in Nat OBVIOUS
<1>2. IsFiniteSet(1..Len(w)) /\ Cardinality(1..Len(w)) = Len(w)
  BY <1>1, FS_Interval
<1>3. RestartsIn(w) \subseteq 1..Len(w) BY DEF RestartsIn
<1>4. IsFiniteSet(RestartsIn(w)) /\ Cardinality(RestartsIn(w)) <= Len(w)
  BY <1>2, <1>3, FS_Subset
<1> QED BY <1>4, FS_CardinalityType

LEMMA NoRestartsYet == Cardinality(RestartsIn(<<>>)) < Limit
<1>1. RestartsIn(<<>>) = {} BY DEF RestartsIn
<1>2. Cardinality(RestartsIn(<<>>)) = 0 BY <1>1, FS_EmptySet
<1> QED BY <1>2, KeepAliveAssumption

\* A crash that trips the fuse adds no restart.
LEMMA FusedAddsNone ==
    ASSUME NEW w \in Seq(Crash)
    PROVE  RestartsIn(Append(w, "fused")) = RestartsIn(w)
BY DEF RestartsIn

\* The slide of the window loses restarts, if anything.
LEMMA SlideAddsNone ==
    ASSUME NEW w \in Seq(Crash), w # <<>>
    PROVE  Cardinality(RestartsIn(Tail(w))) <= Cardinality(RestartsIn(w))
<1> DEFINE f == [i \in RestartsIn(Tail(w)) |-> i + 1]
<1>1. f \in [RestartsIn(Tail(w)) -> RestartsIn(w)]
  BY DEF RestartsIn
<1>2. \A i, j \in RestartsIn(Tail(w)) : f[i] = f[j] => i = j
  BY DEF RestartsIn
<1>3. f \in Injection(RestartsIn(Tail(w)), RestartsIn(w))
  BY <1>1, <1>2 DEF Injection, IsInjective
<1>4. IsFiniteSet(RestartsIn(w)) BY RestartsFinite
<1> QED BY <1>3, <1>4, FS_Injection

-----------------------------------------------------------------------------
(* The steps that change a window.                                          *)

LEMMA RegisterKeepsFuse ==
    ASSUME FuseInv, Register
    PROVE  FuseInv'
<1>1. CASE window' = window BY <1>1 DEF FuseInv, WindowType, FuseBound
<1>2. ASSUME NEW e \in Entries, window' = [window EXCEPT ![e] = <<>>]
      PROVE  FuseInv'
  <2>1. WindowType' BY <1>2 DEF FuseInv, WindowType
  <2> QED BY <1>2, <2>1, NoRestartsYet DEF FuseInv, WindowType, FuseBound, RestartsIn
<1> QED BY <1>1, <1>2 DEF Register

LEMMA ConfirmedKeepsFuse ==
    ASSUME FuseInv, NEW m \in Monitors, Confirmed(m)
    PROVE  FuseInv'
<1> DEFINE e == mon[m].entry
<1>1. CASE e \notin Entries
  <2>1. window' = window BY <1>1 DEF Confirmed, FuseInv, WindowType
  <2> QED BY <2>1 DEF FuseInv, WindowType, FuseBound
<1>2. CASE e \in Entries /\ OverLimit(e)
  <2>1. window' = [window EXCEPT ![e] = Append(@, "fused")] BY <1>2 DEF Confirmed
  <2>2. window[e] \in Seq(Crash) /\ "fused" \in Crash
    BY <1>2 DEF FuseInv, WindowType, Crash
  <2>3. WindowType' BY <1>2, <2>1, <2>2 DEF FuseInv, WindowType
  <2>4. RestartsIn(window'[e]) = RestartsIn(window[e])
    BY <1>2, <2>1, <2>2, FusedAddsNone DEF FuseInv, WindowType
  <2> QED BY <1>2, <2>1, <2>3, <2>4 DEF FuseInv, WindowType, FuseBound, RestartsIn
<1>3. CASE e \in Entries /\ ~OverLimit(e)
  <2>1. window' = [window EXCEPT ![e] = Append(@, "restart")] BY <1>3 DEF Confirmed
  <2>2. window[e] \in Seq(Crash) /\ "restart" \in Crash
    BY <1>3 DEF FuseInv, WindowType, Crash
  <2>3. WindowType' BY <1>3, <2>1, <2>2 DEF FuseInv, WindowType
  <2>4. window'[e] = Append(window[e], "restart") BY <1>3, <2>1 DEF FuseInv, WindowType
  <2>5. window'[e] \in Seq(Crash) /\ Len(window'[e]) = Len(window[e]) + 1
    BY <2>2, <2>4
  <2>6. Len(window[e]) + 1 < Limit
    BY <1>3, <2>2, KeepAliveAssumption DEF OverLimit
  <2>7. Cardinality(RestartsIn(window'[e])) < Limit
    BY <2>2, <2>5, <2>6, RestartsFinite, KeepAliveAssumption
  <2> QED BY <1>3, <2>1, <2>3, <2>7 DEF FuseInv, WindowType, FuseBound, RestartsIn
<1> QED BY <1>1, <1>2, <1>3

LEMMA SlideKeepsFuse ==
    ASSUME FuseInv, WindowSlides
    PROVE  FuseInv'
<1>1. PICK e \in Entries :
        window[e] # <<>> /\ window' = [window EXCEPT ![e] = Tail(@)]
  BY DEF WindowSlides
<1>2. window[e] \in Seq(Crash) BY DEF FuseInv, WindowType
<1>3. Tail(window[e]) \in Seq(Crash) BY <1>1, <1>2
<1>4. WindowType' BY <1>1, <1>3 DEF FuseInv, WindowType
<1>5. Cardinality(RestartsIn(Tail(window[e]))) < Limit
  <2>1. Cardinality(RestartsIn(window[e])) < Limit
    BY DEF FuseInv, FuseBound, RestartsIn
  <2>2. Cardinality(RestartsIn(Tail(window[e]))) <= Cardinality(RestartsIn(window[e]))
    BY <1>1, <1>2, SlideAddsNone
  <2>3. /\ Cardinality(RestartsIn(window[e])) \in Nat
        /\ Cardinality(RestartsIn(Tail(window[e]))) \in Nat
    BY <1>2, <1>3, RestartsFinite
  <2> QED BY <2>1, <2>2, <2>3, KeepAliveAssumption
<1> QED BY <1>1, <1>4, <1>5 DEF FuseInv, WindowType, FuseBound, RestartsIn

LEMMA CrashKeepsFuse ==
    ASSUME FuseInv, AppCrashAll
    PROVE  FuseInv'
<1>1. window' = [e \in Entries |-> <<>>] BY DEF AppCrashAll
<1>2. WindowType' BY <1>1 DEF WindowType
<1> QED BY <1>1, <1>2, NoRestartsYet DEF FuseInv, FuseBound, RestartsIn

\* A client's step changes no window, unless it registers.
LEMMA ClientKeepsFuse ==
    ASSUME FuseInv, NEW t \in Clients, ClientStep(t)
    PROVE  FuseInv'
<1>1. CASE UNCHANGED window BY <1>1 DEF FuseInv, WindowType, FuseBound
<1> QED
  BY <1>1, RegisterKeepsFuse
     DEF ClientStep, CreateDone, StopAllCancels, DeleteCancels, ScanRegister, Cancel, kvars

LEMMA FuseStep == FuseInv /\ [KNext]_allVars => FuseInv'
<1> SUFFICES ASSUME FuseInv, [KNext]_allVars PROVE FuseInv' OBVIOUS
<1>1. CASE UNCHANGED window BY <1>1 DEF FuseInv, WindowType, FuseBound
<1>2. ASSUME NEW m \in Monitors, MonitorStep(m) PROVE FuseInv'
  BY <1>1, <1>2, ConfirmedKeepsFuse DEF MonitorStep, Poll, NotConfirmed, Restarting
<1>3. CASE EnvUpdate BY <1>1, <1>3, RegisterKeepsFuse DEF EnvUpdate, Cancel
<1> QED
  BY <1>1, <1>2, <1>3, ClientKeepsFuse, CrashKeepsFuse, SlideKeepsFuse
     DEF KNext, kvars, allVars

LEMMA FuseInit == KInit => FuseInv
<1> SUFFICES ASSUME KInit PROVE FuseInv OBVIOUS
<1>1. window = [e \in Entries |-> <<>>] BY DEF KInit
<1> QED BY <1>1, NoRestartsYet DEF FuseInv, WindowType, FuseBound, RestartsIn

\* The fuse: within any 60 s a registration restarts its instance fewer than
\* MAX_RESTARTS_PER_WINDOW times, however many monitors run for it and however
\* registrations, cancellations, crashes and restarts interleave.
THEOREM FuseHolds == KSpec => []FuseBound
<1>1. FuseInv => FuseBound BY DEF FuseInv
<1> QED BY <1>1, FuseInit, FuseStep, PTL DEF KSpec

-----------------------------------------------------------------------------
(***************************************************************************)
(* What the user stops is no crash: stop_all_for_env and delete cancel      *)
(* before they kill, so no monitor is left that could take the dead browser *)
(* for a crash - unless somebody registers behind the cancellation.         *)
(***************************************************************************)

\* stop and restart cancel nothing (StopKeepAlive), and a creation that ends
\* while another client stops its instance registers behind the cancellation.
StopsCancel ==
    /\ Ops \cap {"stop", "restart"} = {}
    /\ "creating" \in Initially => \A t, u \in Clients : t = u

\* A call of a client is in its stop sequence.
Stopping(t) == task[t].pc \in StopPc /\ task[t].by = "call"

Monitor == [pc : MonitorPc, entry : Entries \cup {NoEntry}, pid : Pids \cup {NoPid}]
MonTypes ==
    /\ entry \in Entries \cup {NoEntry}
    /\ mon \in [Monitors -> Monitor]
    /\ updates \in 0..MaxUpdates

\* A monitor that runs has its registration.
MonitorsHaveEntries == \A m \in Monitors : mon[m].pc # "gone" => mon[m].entry # NoEntry

\* Who runs beside whom: nobody beside a boot, no client beside a creation, and
\* nobody while the application is down.
ClientsApart ==
    /\ \A t \in Clients : task[t].op \in Ops \cup {"none", "get", "boot", "create"}
    /\ \A t \in Clients : task[t].op = "create" => \A u \in Clients : u = t
    /\ ~up => \A t \in Clients : task[t] = IdleTask
    /\ \A t \in Clients : task[t].op = "boot" =>
          \A u \in Clients : u # t => task[u].pc = "idle"

\* Behind a stop of the user nothing is registered.
StopsAreAlone == \A t \in Clients : updates = MaxUpdates /\ Stopping(t) => entry = NoEntry

CancelInv == TypeOK /\ MonTypes /\ MonitorsHaveEntries /\ ClientsApart /\ StopsAreAlone

-----------------------------------------------------------------------------
(* Types.                                                                   *)

LEMMA ConfirmedTypes == ASSUME TypeOK, NEW m \in Monitors, Confirmed(m) PROVE TypeOK'
<1>1. m \in Tasks BY KeepAliveAssumption
<1>2. row' \in Row BY RowOperators DEF Confirmed, Status
<1>3. [IdleTask EXCEPT !.op = "start", !.pc = "checked", !.ins = row'] \in Task
  BY <1>2, TaskOperators, PcNames DEF Task, AllOps
<1>4. task' \in [Tasks -> Task] BY <1>1, <1>3 DEF Confirmed, BeginRestart, TypeOK
<1> QED BY <1>2, <1>4 DEF Confirmed, TypeOK

LEMMA KStepTypes == ASSUME TypeOK, [KNext]_allVars PROVE TypeOK'
<1>1. CASE UNCHANGED vars BY <1>1 DEF vars, TypeOK
<1>2. ASSUME NEW t \in Tasks, TaskStep(t) PROVE TypeOK'
  BY <1>2, ReconcileTypes, DecideTypes, LaunchTypes, StopTypes DEF TaskStep
<1>3. CASE LifecycleAlone
  BY <1>3, BeginTypes, WatcherTypes, EnvironmentTypes DEF LifecycleAlone, Clients
<1>4. ASSUME NEW t \in Clients, ClientStep(t) PROVE TypeOK'
  <2>1. TaskStep(t)
    BY <1>4 DEF ClientStep, PlainStep, CreateDone, StopAllCancels, DeleteCancels, ScanRegister,
                TaskStep, DecideStep, LaunchStep
  <2> QED BY <1>2, <2>1 DEF Clients
<1>5. ASSUME NEW m \in Monitors, MonitorStep(m) PROVE TypeOK'
  <2>1. m \in Tasks BY KeepAliveAssumption
  <2>2. CASE Restarting(m)
    <3>1. TaskStep(m) BY <2>2 DEF Restarting, TaskStep, LaunchStep
    <3> QED BY <1>2, <2>1, <3>1
  <2> QED BY <1>1, <1>5, <2>2, ConfirmedTypes DEF MonitorStep, Poll, NotConfirmed
<1> QED
  BY <1>1, <1>3, <1>4, <1>5, EnvironmentTypes
     DEF KNext, EnvUpdate, AppCrashAll, WindowSlides, allVars

-----------------------------------------------------------------------------
(* How a client's task moves.                                               *)

\* A step of one call leaves the others alone, does not change what was asked,
\* and enters the stop sequence of the call only through a decision.
LEMMA CallMoves ==
    ASSUME TypeOK, NEW t \in Tasks, TaskStep(t)
    PROVE  /\ \A u \in Tasks : u # t => task'[u] = task[u]
           /\ task[t].op # "restart" => task'[t].op \in {task[t].op, "none"}
           /\ task[t].pc # "idle" /\ up' = up
           /\ Stopping(t)' => Stopping(t) \/ StopDecide(t) \/ StopAllDecide(t)
<1> DEFINE v == task[t]
<1>1. v \in Task /\ task = [u \in Tasks |-> task[u]] BY DEF TypeOK
<1> DEFINE GoesOn == /\ \A u \in Tasks : u # t => task'[u] = task[u]
                     /\ v.op # "restart" => task'[t].op \in {v.op, "none"}
                     /\ Stopping(t)' => Stopping(t)
<1>2. Finish(t) => GoesOn
  BY <1>1 DEF Finish, IdleTask, Stopping, StopPc, TypeOK
<1>3. \A pc \in Pc : Goto(t, pc) /\ (pc \in StopPc => Stopping(t) \/ v.by = "tabs") => GoesOn
  BY <1>1 DEF Goto, Stopping, Task, TypeOK
<1>4. \A ins : Checked(t, ins) => GoesOn
  BY <1>1 DEF Checked, Stopping, StopPc, Task, TypeOK
<1>5. StopDone(t) => GoesOn
  <2>1. v.op = "restart" /\ task' = [task EXCEPT ![t] = Reconciling("start")] => GoesOn
    BY <1>1 DEF Reconciling, IdleTask, Stopping, StopPc, TypeOK
  <2> QED BY <1>2, <1>4, <2>1 DEF StopDone
<1>6. ASSUME ReconcileStep(t) PROVE GoesOn /\ v.pc # "idle" /\ up' = up
  <2>1. CASE Probe(t) \/ Confirm(t)
    BY <1>3, <1>4, <2>1, PcNames DEF Probe, Confirm, StopPc
  <2>2. CASE CheckTabs(t)
    <3>1. ASSUME task' = [task EXCEPT ![t].pc = "export", ![t].by = "tabs"] PROVE GoesOn
      <4> DEFINE w == [v EXCEPT !.pc = "export", !.by = "tabs"]
      <4>1. task' = [task EXCEPT ![t] = w] BY <1>1, <3>1 DEF Task, TypeOK
      <4>2. w.op = v.op /\ w.by = "tabs" BY <1>1 DEF Task
      <4>3. task'[t] = w BY <4>1 DEF TypeOK
      <4>4. \A u \in Tasks : u # t => task'[u] = task[u] BY <4>1 DEF TypeOK
      <4> QED BY <4>2, <4>3, <4>4 DEF Stopping
    <3> QED BY <1>4, <2>2, <3>1 DEF CheckTabs
  <2> QED BY <1>6, <2>1, <2>2 DEF ReconcileStep
<1>7. ASSUME GetDone(t) \/ StartDecide(t) \/ DeleteDecide(t) \/ DeleteRow(t)
      PROVE  GoesOn /\ v.pc # "idle" /\ up' = up
  BY <1>2, <1>3, <1>7, PcNames DEF GetDone, StartDecide, DeleteDecide, DeleteRow, StopPc
<1>8. ASSUME LaunchStep(t) PROVE GoesOn /\ v.pc # "idle" /\ up' = up
  <2>1. CASE EnsurePort(t)
    <3>1. UNCHANGED task => GoesOn BY DEF Stopping
    <3> QED BY <1>2, <1>3, <2>1, <3>1, PcNames DEF EnsurePort, StopPc
  <2>2. CASE Spawn(t)
    <3>1. \A p \in Pids :
             task' = [task EXCEPT ![t].pc = "writePid", ![t].pid = p] => GoesOn
      BY <1>1 DEF Stopping, StopPc, Task, TypeOK
    <3> QED BY <1>2, <2>2, <3>1 DEF Spawn
  <2>3. CASE Mark(t) \/ Hosts(t) \/ WritePid(t) \/ WaitCdp(t) \/ Abort(t)
             \/ WriteRunning(t) \/ CleanExport(t)
    BY <1>2, <1>3, <2>3, PcNames
       DEF Mark, Hosts, WritePid, WaitCdp, Abort, WriteRunning, CleanExport, StopPc
  <2> QED BY <1>8, <2>1, <2>2, <2>3 DEF LaunchStep
<1>9. ASSUME StopStep(t) PROVE GoesOn /\ v.pc # "idle" /\ up' = up
  <2>1. v.pc \in StopPc => Stopping(t) \/ v.by = "tabs" BY <1>1 DEF Stopping, Task
  <2>2. v.pc \in StopPc /\ up' = up
    BY <1>9 DEF StopStep, Export, Kill, StopCas, Promote, StopPc
  <2>3. GoesOn
    BY <1>3, <1>5, <1>9, <2>1, <2>2, PcNames DEF StopStep, Export, Kill, StopCas, Promote
  <2> QED BY <2>2, <2>3 DEF StopPc
<1>10. ASSUME StopDecide(t) \/ StopAllDecide(t)
       PROVE  /\ \A u \in Tasks : u # t => task'[u] = task[u]
              /\ v.op # "restart" => task'[t].op \in {v.op, "none"}
              /\ v.pc # "idle" /\ up' = up
  <2>1. \A pc \in Pc : Goto(t, pc) => /\ \A u \in Tasks : u # t => task'[u] = task[u]
                                      /\ task'[t].op = v.op
    BY <1>1 DEF Goto, Task, TypeOK
  <2> QED BY <1>2, <1>10, <2>1, PcNames DEF StopDecide, StopAllDecide
<1> QED BY <1>6, <1>7, <1>8, <1>9, <1>10 DEF TaskStep, DecideStep


-----------------------------------------------------------------------------
(* The registrations and the monitors.                                      *)

LEMMA RegisterKeepsMonitors ==
    ASSUME MonTypes, MonitorsHaveEntries, Register
    PROVE  /\ entry' \in Entries /\ mon' \in [Monitors -> Monitor]
           /\ MonitorsHaveEntries'
           /\ \A m \in Monitors : mon[m].pc # "confirm" \/ mon'[m] = mon[m]
<1>1. PICK m \in Monitors :
          /\ mon[m].pc = "gone"
          /\ mon' = [mon EXCEPT ![m] = [Gone EXCEPT !.pc = "sleep", !.entry = entry']]
  BY DEF Register
<1>2. entry' \in Entries
  <2>1. (entry # NoEntry /\ entry' = entry) \/ \E e \in Entries : entry' = e BY DEF Register
  <2> QED BY <2>1 DEF MonTypes
<1>3. LET n == [Gone EXCEPT !.pc = "sleep", !.entry = entry']
      IN  n \in Monitor /\ n.entry = entry'
  BY <1>2 DEF Gone, Monitor, MonitorPc
<1>4. mon' \in [Monitors -> Monitor] BY <1>1, <1>3 DEF MonTypes
<1>5. MonitorsHaveEntries'
  BY <1>1, <1>2, <1>3, KeepAliveAssumption DEF MonTypes, MonitorsHaveEntries
<1>6. \A k \in Monitors : mon[k].pc # "confirm" \/ mon'[k] = mon[k] BY <1>1 DEF MonTypes
<1> QED BY <1>2, <1>4, <1>5, <1>6

LEMMA MonitorKeepsMonitors ==
    ASSUME TypeOK, MonTypes, MonitorsHaveEntries, NEW m \in Monitors, MonitorStep(m)
    PROVE  mon' \in [Monitors -> Monitor] /\ MonitorsHaveEntries' /\ UNCHANGED <<entry, updates>>
<1> DEFINE Kept == mon' \in [Monitors -> Monitor] /\ MonitorsHaveEntries'
<1>1. mon[m] \in Monitor BY DEF MonTypes
<1>2. UNCHANGED mon => Kept BY DEF MonTypes, MonitorsHaveEntries
<1>3. Gone \in Monitor BY DEF Gone, Monitor, MonitorPc
<1>4. Leave(m) => Kept BY <1>3 DEF Leave, Gone, MonTypes, MonitorsHaveEntries
<1>5. \A pc \in MonitorPc : MonGoto(m, pc) /\ mon[m].pc # "gone" => Kept
  BY <1>1 DEF MonGoto, Monitor, MonTypes, MonitorsHaveEntries
<1>6. {"sleep", "confirm", "starting"} \subseteq MonitorPc BY DEF MonitorPc
<1>7. CASE Poll(m)
  <2>1. row.pid \in Pids \cup {NoPid} BY DEF TypeOK, Row
  <2>2. mon' = [mon EXCEPT ![m].pc = "confirm", ![m].pid = row.pid] /\ mon[m].pc # "gone" => Kept
    <3>1. [mon[m] EXCEPT !.pc = "confirm", !.pid = row.pid] \in Monitor
      BY <1>1, <1>6, <2>1 DEF Monitor
    <3> QED BY <1>1, <3>1 DEF Monitor, MonTypes, MonitorsHaveEntries
  <2> QED BY <1>2, <1>4, <1>7, <2>2 DEF Poll
<1>8. CASE Confirmed(m) BY <1>4, <1>5, <1>6, <1>8 DEF Confirmed, BeginRestart
<1>9. CASE NotConfirmed(m) BY <1>4, <1>5, <1>6, <1>9 DEF NotConfirmed
<1>10. CASE Restarting(m) BY <1>2, <1>4, <1>5, <1>6, <1>10 DEF Restarting
<1> QED BY <1>7, <1>8, <1>9, <1>10 DEF MonitorStep, Poll, Confirmed, NotConfirmed, Restarting

\* What a client's step does to the registrations: register, cancel or nothing.
LEMMA ClientTouches ==
    ASSUME NEW t \in Clients, ClientStep(t)
    PROVE  /\ TaskStep(t) /\ UNCHANGED updates
           /\ \/ UNCHANGED <<entry, mon>>
              \/ Cancel
              \/ Register /\ task[t].op = "create" /\ CleanExport(t)
              \/ Register /\ task[t].op = "boot" /\ GetDone(t)
BY DEF ClientStep, PlainStep, CreateDone, StopAllCancels, DeleteCancels, ScanRegister, Cancel,
       TaskStep, DecideStep, LaunchStep, kvars

\* An environment stop that goes on has cancelled.
LEMMA StopAllHasCancelled ==
    ASSUME TypeOK, NEW t \in Clients, ClientStep(t), StopAllDecide(t), Stopping(t)'
    PROVE  Cancel
<1>1. task[t].pc = "checked" /\ task[t].op = "stopAll" BY DEF StopAllDecide
<1>2. ~PlainStep(t)
  BY <1>1 DEF PlainStep, ReconcileStep, Probe, Confirm, CheckTabs, StartDecide, StopDecide, GetDone,
              LaunchStep, EnsurePort, Mark, Hosts, Spawn, WritePid, WaitCdp, Abort, WriteRunning,
              CleanExport, StopStep, Export, Kill, StopCas, Promote, DeleteRow
<1>3. ~CreateDone(t) /\ ~DeleteCancels(t) /\ ~ScanRegister(t)
  BY <1>1 DEF CreateDone, CleanExport, DeleteCancels, DeleteDecide, ScanRegister
<1>4. StopAllCancels(t) BY <1>2, <1>3 DEF ClientStep
<1>5. CASE AliveStatus(task[t].ins.status) BY <1>4, <1>5 DEF StopAllCancels
<1>6. CASE ~AliveStatus(task[t].ins.status)
  <2>1. task'[t] = IdleTask BY <1>6 DEF StopAllDecide, Finish, TypeOK, Clients
  <2> QED BY <2>1 DEF Stopping, IdleTask, StopPc
<1> QED BY <1>5, <1>6

LEMMA StepKeepsMonitors ==
    ASSUME TypeOK, MonTypes, MonitorsHaveEntries, [KNext]_allVars
    PROVE  MonTypes' /\ MonitorsHaveEntries'
<1>1. CASE UNCHANGED <<entry, mon, updates>> BY <1>1 DEF MonTypes, MonitorsHaveEntries
<1>2. CASE Cancel /\ UNCHANGED updates BY <1>2 DEF Cancel, MonTypes, MonitorsHaveEntries
<1>3. CASE Register /\ UNCHANGED updates BY <1>3, RegisterKeepsMonitors DEF MonTypes
<1>4. CASE EnvUpdate
  <2>1. updates' \in 0..MaxUpdates BY <1>4, KeepAliveAssumption DEF EnvUpdate, MonTypes
  <2> QED BY <1>4, <2>1, RegisterKeepsMonitors DEF EnvUpdate, Cancel, MonTypes, MonitorsHaveEntries
<1>5. CASE AppCrashAll
  <2>1. Gone \in Monitor BY DEF Gone, Monitor, MonitorPc
  <2> QED BY <1>5, <2>1 DEF AppCrashAll, MonTypes, MonitorsHaveEntries, Gone
<1>6. ASSUME NEW m \in Monitors, MonitorStep(m) PROVE MonTypes' /\ MonitorsHaveEntries'
  BY <1>6, MonitorKeepsMonitors DEF MonTypes
<1>7. ASSUME NEW t \in Clients, ClientStep(t) PROVE MonTypes' /\ MonitorsHaveEntries'
  BY <1>1, <1>2, <1>3, <1>7, ClientTouches
<1> QED BY <1>1, <1>4, <1>5, <1>6, <1>7 DEF KNext, WindowSlides, kvars, allVars

-----------------------------------------------------------------------------
(* The clients and their stops.                                             *)

LEMMA ClientKeepsApart ==
    ASSUME StopsCancel, CancelInv, NEW t \in Clients, ClientStep(t)
    PROVE  ClientsApart' /\ StopsAreAlone'
<1>1. t \in Tasks /\ Clients \subseteq Tasks BY DEF Clients
<1>2. task[t].op \notin {"restart", "stop"}
  BY DEF CancelInv, ClientsApart, StopsCancel
<1>3. /\ \A u \in Tasks : u # t => task'[u] = task[u]
      /\ task'[t].op \in {task[t].op, "none"}
      /\ task[t].pc # "idle" /\ up' = up
      /\ Stopping(t)' => Stopping(t) \/ StopDecide(t) \/ StopAllDecide(t)
  BY <1>1, <1>2, ClientTouches, CallMoves DEF CancelInv
<1>4. ClientsApart'
  <2>1. up
    <3>1. IdleTask.pc = "idle" BY DEF IdleTask
    <3> QED BY <1>3, <3>1 DEF CancelInv, ClientsApart
  <2> QED BY <1>1, <1>2, <1>3, <2>1 DEF CancelInv, ClientsApart
<1>5. ~StopDecide(t) BY <1>2 DEF StopDecide
<1>6. \A u \in Clients : u # t => (Stopping(u)' <=> Stopping(u)) BY <1>1, <1>3 DEF Stopping
<1>7. CASE Cancel BY <1>4, <1>7 DEF Cancel, StopsAreAlone
<1>8. CASE UNCHANGED <<entry, mon>> /\ ~Cancel
  <2>1. Stopping(t)' => Stopping(t) BY <1>3, <1>5, <1>8, StopAllHasCancelled DEF CancelInv
  <2>2. UNCHANGED <<entry, updates>> BY <1>8, ClientTouches
  <2> QED BY <1>4, <1>6, <2>1, <2>2 DEF CancelInv, StopsAreAlone
<1>9. CASE /\ Register /\ ~Cancel
           /\ \/ task[t].op = "create" /\ CleanExport(t)
              \/ task[t].op = "boot" /\ GetDone(t)
  <2>1. \A u \in Clients : u # t => ~Stopping(u)
    BY <1>9 DEF CancelInv, ClientsApart, Stopping, StopPc
  <2>2. ~StopAllDecide(t) BY <1>9 DEF StopAllDecide
  <2>3. ~Stopping(t) BY <1>9 DEF CleanExport, GetDone, Stopping, StopPc
  <2>4. \A u \in Clients : ~Stopping(u)' BY <1>3, <1>5, <1>6, <2>1, <2>2, <2>3
  <2> QED BY <1>4, <2>4 DEF StopsAreAlone
<1> QED BY <1>7, <1>8, <1>9, ClientTouches

\* Monitors work in slots of their own.
LEMMA MonitorLeavesClients ==
    ASSUME TypeOK, NEW m \in Monitors, MonitorStep(m)
    PROVE  UNCHANGED <<entry, updates, up>> /\ \A u \in Clients : task'[u] = task[u]
<1>1. m \in Tasks /\ m \notin Clients /\ Clients \subseteq Tasks BY KeepAliveAssumption DEF Clients
<1>2. CASE Restarting(m)
  <2>1. TaskStep(m) BY <1>2 DEF Restarting, TaskStep, LaunchStep
  <2> QED BY <1>1, <1>2, <2>1, CallMoves DEF Restarting
<1>3. CASE Confirmed(m)
  BY <1>1, <1>3 DEF Confirmed, BeginRestart, TypeOK
<1> QED BY <1>2, <1>3 DEF MonitorStep, Poll, NotConfirmed, vars


LEMMA StepKeepsApart ==
    ASSUME StopsCancel, CancelInv, [KNext]_allVars
    PROVE  ClientsApart' /\ StopsAreAlone'
<1>1. CASE UNCHANGED <<task, up, entry, updates>>
  BY <1>1 DEF CancelInv, ClientsApart, StopsAreAlone, Stopping
<1>2. ASSUME NEW t \in Clients,
             \/ \E op \in Ops : Call(t, op) /\ UNCHANGED kvars
             \/ Read(t) /\ UNCHANGED kvars
             \/ AppStart(t) /\ UNCHANGED kvars
      PROVE  ClientsApart' /\ StopsAreAlone'
  <2>1. PICK op \in Ops \cup {"get", "boot"} :
            /\ task' = [task EXCEPT ![t] = Reconciling(op)]
            /\ \/ up /\ up' = up /\ op # "boot" /\ \A u \in Tasks : task[u].op # "boot"
               \/ ~up /\ up' = TRUE /\ op = "boot"
    <3>1. ASSUME NEW op \in Ops, Call(t, op)
          PROVE  /\ task' = [task EXCEPT ![t] = Reconciling(op)] /\ op # "boot"
                 /\ up /\ up' = up /\ \A u \in Tasks : task[u].op # "boot"
      BY <3>1, ConstantsAssumption DEF Call, AllOps
    <3> QED BY <1>2, <3>1 DEF Read, AppStart
  <2>2. /\ Reconciling(op).op \in {op, "none"}
        /\ Reconciling(op).pc \in {"idle", "probe", "checked"}
    BY DEF Reconciling, IdleTask
  <2>3. t \in Tasks /\ Clients \subseteq Tasks BY DEF Clients
  <2>4. \A u \in Clients : task'[u] = IF u = t THEN Reconciling(op) ELSE task[u]
    BY <2>1, <2>3 DEF CancelInv, TypeOK
  <2>5. \A u \in Clients : Stopping(u)' => Stopping(u)
    BY <2>2, <2>4 DEF Stopping, StopPc
  <2>6. UNCHANGED <<entry, updates>> BY <1>2 DEF kvars
  <2>7. StopsAreAlone' BY <2>5, <2>6 DEF CancelInv, StopsAreAlone
  <2>8. op # "create" BY <2>1, ConstantsAssumption DEF AllOps
  <2>9. ClientsApart'
    <3>1. \A u \in Clients : task'[u].op \in Ops \cup {"none", "get", "boot", "create"}
      BY <2>2, <2>4 DEF CancelInv, ClientsApart
    <3>2. \A u \in Clients : task'[u].op = "create" => \A w \in Clients : w = u
      BY <2>2, <2>4, <2>8 DEF CancelInv, ClientsApart
    <3>3. up' BY <2>1
    <3>4. \A u \in Clients : task'[u].op = "boot" =>
              \A w \in Clients : w # u => task'[w].pc = "idle"
      <4>1. CASE ~up
        <5>1. \A u \in Clients : task[u] = IdleTask BY <4>1 DEF CancelInv, ClientsApart
        <5>2. \A u \in Clients : u # t => task'[u] = IdleTask BY <2>4, <5>1
        <5> QED BY <5>2 DEF IdleTask
      <4>2. CASE up BY <2>1, <2>2, <2>3, <2>4, <4>2
      <4> QED BY <4>1, <4>2
    <3> QED BY <3>1, <3>2, <3>3, <3>4 DEF ClientsApart
  <2> QED BY <2>7, <2>9
<1>3. ASSUME NEW t \in Clients, ClientStep(t) PROVE ClientsApart' /\ StopsAreAlone'
  BY <1>3, ClientKeepsApart
<1>4. ASSUME NEW m \in Monitors, MonitorStep(m) PROVE ClientsApart' /\ StopsAreAlone'
  BY <1>4, MonitorLeavesClients DEF CancelInv, ClientsApart, StopsAreAlone, Stopping
<1>5. CASE EnvUpdate
  <2>1. updates' # MaxUpdates BY <1>5, KeepAliveAssumption DEF EnvUpdate, CancelInv, MonTypes
  <2> QED BY <1>5, <2>1 DEF EnvUpdate, vars, CancelInv, ClientsApart, StopsAreAlone
<1>6. CASE AppCrashAll
  <2>1. \A t \in Clients : task'[t] = IdleTask BY <1>6 DEF AppCrashAll, AppCrash, Clients
  <2> QED BY <1>6, <2>1 DEF AppCrashAll, IdleTask, ClientsApart, StopsAreAlone
<1>7. CASE LifecycleAlone /\ UNCHANGED kvars
  <2>1. \A p \in Pids : WatcherStep(p) \/ ChromeStep(p) => UNCHANGED <<task, up>>
    BY DEF WatcherStep, ExitRead, ExitCas, ExitPromote, ChromeStep, BecomeReady, Die,
           CloseWindows, OpenWindow, Hang, Recover
  <2> QED BY <1>1, <1>2, <1>7, <2>1 DEF LifecycleAlone, Age, Ripen, kvars
<1> QED
  BY <1>1, <1>3, <1>4, <1>5, <1>6, <1>7 DEF KNext, WindowSlides, vars, kvars, allVars

LEMMA CancelInit == StopsCancel /\ KInit => CancelInv
<1> SUFFICES ASSUME StopsCancel, KInit PROVE CancelInv OBVIOUS
<1>1. TypeOK BY InitTypes DEF KInit
<1>2. MonTypes /\ MonitorsHaveEntries
  <2>1. Gone \in Monitor BY DEF Gone, Monitor, MonitorPc
  <2>2. \A e \in Entries : [Gone EXCEPT !.pc = "sleep", !.entry = e] \in Monitor
    BY DEF Gone, Monitor, MonitorPc
  <2>3. updates \in 0..MaxUpdates
    <3>1. updates = MaxUpdates BY DEF KInit
    <3> QED BY <3>1, KeepAliveAssumption
  <2>4. ASSUME NEW e \in Entries, NEW m \in Monitors, entry = e,
               mon = [n \in Monitors |->
                        IF n = m THEN [Gone EXCEPT !.pc = "sleep", !.entry = e] ELSE Gone]
        PROVE  MonTypes /\ MonitorsHaveEntries
    <3>1. Gone.pc = "gone" /\ [Gone EXCEPT !.pc = "sleep", !.entry = e].entry # NoEntry
      BY KeepAliveAssumption DEF Gone
    <3>2. MonTypes BY <2>1, <2>2, <2>3, <2>4 DEF MonTypes
    <3> QED BY <2>4, <3>1, <3>2 DEF MonitorsHaveEntries
  <2>5. ASSUME entry = NoEntry, mon = [n \in Monitors |-> Gone]
        PROVE  MonTypes /\ MonitorsHaveEntries
    <3>1. Gone.pc = "gone" BY DEF Gone
    <3> QED BY <2>1, <2>3, <2>5, <3>1 DEF MonTypes, MonitorsHaveEntries
  <2> QED BY <2>4, <2>5 DEF KInit
<1>3. up = TRUE BY DEF KInit, Init
<1>4. \/ \A t \in Tasks : task[t] = IdleTask
      \/ /\ "creating" \in Initially
         /\ \A t \in Tasks : \/ task[t] = IdleTask
                             \/ task[t] = [IdleTask EXCEPT !.op = "create", !.pc = "hosts",
                                                           !.ins = row]
  BY DEF KInit, Init
<1>5. \A t \in Tasks : task[t].op \in {"none", "create"} /\ ~Stopping(t)
  <2>1. IdleTask.op = "none" /\ IdleTask.pc = "idle" BY DEF IdleTask
  <2>2. LET c == [IdleTask EXCEPT !.op = "create", !.pc = "hosts", !.ins = row]
        IN  c.op = "create" /\ c.pc = "hosts"
    BY DEF IdleTask
  <2> QED BY <1>4, <2>1, <2>2 DEF Stopping, StopPc
<1>6. \A t \in Clients : task[t].op = "create" => \A u \in Clients : u = t
  BY <1>4 DEF IdleTask, StopsCancel, Clients
<1> QED BY <1>1, <1>2, <1>3, <1>5, <1>6 DEF CancelInv, ClientsApart, StopsAreAlone, Clients

\* A monitor begins a restart only under its registration, and behind a stop of the user
\* there is none.
LEMMA NoRestartBehindStop ==
    ASSUME CancelInv, [KNext]_allVars, NEW m \in Monitors, updates = MaxUpdates,
           mon[m].pc = "confirm", mon'[m].pc = "starting"
    PROVE  \A t \in Clients : ~Stopping(t)
<1>1. MonTypes /\ MonitorsHaveEntries /\ mon[m] \in Monitor BY DEF CancelInv, MonTypes
<1>2. ASSUME NEW n \in Monitors, MonitorStep(n) PROVE n = m /\ Confirmed(m)
  <2>1. mon'[m] # mon[m] OBVIOUS
  <2>2. n = m BY <1>1, <1>2, <2>1
    DEF MonitorStep, Poll, Confirmed, NotConfirmed, Restarting, Leave, MonGoto, BeginRestart,
        MonTypes
  <2>3. ~Poll(m) /\ ~NotConfirmed(m) /\ ~Restarting(m)
    BY <1>1 DEF Poll, NotConfirmed, Restarting, Leave, MonGoto, Gone, MonTypes, Monitor
  <2> QED BY <1>2, <2>2, <2>3 DEF MonitorStep
<1>3. mon' # mon OBVIOUS
<1>4. Register => mon'[m] = mon[m] BY <1>1, RegisterKeepsMonitors
<1>5. AppCrashAll => mon'[m] = Gone BY DEF AppCrashAll
<1>6. \A t \in Clients : ClientStep(t) => UNCHANGED mon \/ Register
  BY ClientTouches DEF Cancel
<1>7. EnvUpdate => UNCHANGED mon \/ Register BY DEF EnvUpdate, Cancel
<1>8. Confirmed(m)
  BY <1>2, <1>3, <1>4, <1>5, <1>6, <1>7 DEF KNext, Gone, WindowSlides, kvars, allVars
<1>9. entry # NoEntry BY <1>1, <1>8 DEF Confirmed, Cancelled, MonitorsHaveEntries
<1> QED BY <1>9 DEF CancelInv, StopsAreAlone

\* As long as no update of the environment has registered anew: no monitor begins a restart
\* while an environment stop is past its kill (instance_service.rs, stop_all_for_env cancels
\* first), for any number of clients, monitors, registrations and processes, if the stops are
\* those that cancel and no creation ends beside them.
THEOREM StopsAreNoCrashes == StopsCancel => (KSpec => UserStopIsNoCrash)
<1> SUFFICES ASSUME StopsCancel PROVE KSpec => UserStopIsNoCrash OBVIOUS
<1>1. KInit => CancelInv BY CancelInit
<1>2. CancelInv /\ [KNext]_allVars => CancelInv'
  BY KStepTypes, StepKeepsMonitors, StepKeepsApart DEF CancelInv
<1>3. CancelInv /\ [KNext]_allVars =>
        [\A m \in Monitors :
            updates = MaxUpdates /\ mon[m].pc = "confirm" /\ mon'[m].pc = "starting"
            => \A t \in Clients : ~(task[t].pc \in {"cas", "promote"} /\ task[t].by = "call")
        ]_allVars
  BY NoRestartBehindStop DEF Stopping, StopPc
<1> QED BY <1>1, <1>2, <1>3, PTL DEF KSpec, UserStopIsNoCrash
=================================================================================
