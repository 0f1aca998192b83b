-------------------------- MODULE InstanceLifecycle --------------------------
(***************************************************************************)
(* The life of ONE Chrome instance: its row in the `instances` table, the   *)
(* Chrome processes started for it, the API calls working on it, and the    *)
(* exit watchers of its processes.  Several calls run at once: each is a    *)
(* task that takes a snapshot of the row, awaits (CDP, ps, SIGTERM) and     *)
(* then acts on what it remembers.  One action is one stretch of code       *)
(* between two awaits; a row write is one SQL statement.                    *)
(*                                                                          *)
(* Code: application/instance_service.rs, application/reconciler.rs,        *)
(* infrastructure/db/repositories/instance_repository.rs,                   *)
(* infrastructure/process/manager.rs, main.rs (start-up order).             *)
(***************************************************************************)
EXTENDS Naturals, FiniteSets

CONSTANTS
    Pids,        \* process ids; each is used once (is_alive guards against reuse)
    NoPid,       \* the NULL pid
    Tasks,       \* slots for concurrent API calls
    Ops,         \* the calls a client may issue
    Initially,   \* how the history before the first step left the instance
    MaxCalls,    \* bound: client calls other than reads
    MacOS,       \* Chrome lives on when its last window is closed (elsewhere it exits)
    MayRelaunch, \* Chrome may replace its process (new pid, same profile)
    MayGlitch,   \* a pid probe may miss a live process (ps race, spawn failure)
    MayHang,     \* Chrome may fall silent on CDP for any time while its process lives
    SlowWatcher, \* an exit callback may pause between its two statements
    MaxCrashes   \* bound: how often the application dies (Chrome survives it)

AllOps == {"start", "stop", "stopAll", "restart", "delete"}

ASSUME ConstantsAssumption ==
    /\ NoPid \notin Pids
    /\ Ops \subseteq AllOps
    /\ Initially \subseteq {"stopped", "running", "creating"}
    /\ MaxCalls \in Nat
    /\ {MacOS, MayRelaunch, MayGlitch, MayHang, SlowWatcher} \subseteq BOOLEAN
    /\ MaxCrashes \in Nat

VARIABLES
    row,      \* the instances row: status, pid, aged
    proc,     \* process table: state of every pid
    watch,    \* exit watcher (reaper thread) of every pid
    task,     \* the calls in flight
    export,   \* cookie export file of the instance: the browser it was read from
    promotes, \* how often the export of each browser entered the vault
    emptyTab, \* EMPTY_TAB_SINCE entry: the browser first seen without pages
    calls,    \* client calls still allowed
    crashes,  \* crashes of the application still to come
    up        \* whether the application runs

vars == <<row, proc, watch, task, export, promotes, emptyTab, calls, crashes, up>>

-----------------------------------------------------------------------------
(* Types.                                                                   *)

\* `absent`: the row is deleted.  created, stopping and crashed are never
\* written by the code modelled here.
Status == {"starting", "running", "stopped", "error", "absent"}

\* aged: the grace period of the status is over - for starting the time since
\* updated_at (300 s without a pid, 20 s with one), for running the 10 s since
\* started_at.
Row == [status : Status, pid : Pids \cup {NoPid}, aged : BOOLEAN]

\* booting: spawned, CDP port not bound yet; ready: CDP answers and there are
\* windows; empty: CDP answers and every window is closed; hung: the port is
\* bound and the process lives, but nothing answers.
ProcState == {"unborn", "booting", "ready", "empty", "hung", "dead"}
Live == {"booting", "ready", "empty", "hung"}
Listening == {"ready", "empty"}

\* armed: the reaper waits; matched: its callback read the row and found its
\* own pid; won: it got the stop CAS and still has to promote.
WatchState == {"none", "armed", "matched", "won", "done"}

LaunchPc == {"mark", "hosts", "spawn", "writePid", "waitCdp", "inject", "clean", "abort"}
StopPc == {"export", "kill", "cas", "promote"}
Pc == {"idle", "probe", "confirm", "tabs", "checked", "ensurePort", "deleteRow"}
        \cup LaunchPc \cup StopPc

Task == [op  : AllOps \cup {"none", "get", "boot", "create"},
         pc  : Pc,
         ins : Row,                     \* the snapshot the call works on
         pid : Pids \cup {NoPid},       \* the process this launch spawned
         by  : {"call", "tabs"}]        \* who runs the stop sequence

TypeOK ==
    /\ row \in Row
    /\ proc \in [Pids -> ProcState]
    /\ watch \in [Pids -> WatchState]
    /\ task \in [Tasks -> Task]
    /\ export \in Pids \cup {NoPid}
    /\ promotes \in [Pids -> Nat]
    /\ emptyTab \in [pid : Pids \cup {NoPid}, ripe : BOOLEAN]
    /\ calls \in 0..MaxCalls
    /\ crashes \in 0..MaxCrashes
    /\ up \in BOOLEAN

-----------------------------------------------------------------------------
(* The row: InstanceRepository.                                             *)

AliveStatus(status) == status \in {"starting", "running"}
Present == row.status # "absent"
NoRow == [status |-> "absent", pid |-> NoPid, aged |-> FALSE]

\* update_runtime: unconditional on the status, a no-op once the row is gone.
SetStatus(status) ==
    IF Present THEN [row EXCEPT !.status = status, !.aged = FALSE] ELSE row
SetPid(p) ==
    IF Present THEN [row EXCEPT !.pid = p, !.aged = @ /\ row.status = "running"] ELSE row
Touch ==
    IF row.status = "starting" THEN [row EXCEPT !.aged = FALSE] ELSE row

\* seeded fault: mark_starting stores pid 0 instead of NULL.
MarkStarting_Zero ==
    IF Present THEN [status |-> "starting", pid |-> 0, aged |-> FALSE] ELSE row
MarkStarting ==
    IF Present THEN [status |-> "starting", pid |-> NoPid, aged |-> FALSE] ELSE row

\* seeded fault: mark_stopped_if_alive without its status condition.
CasWins_NoGuard == Present
\* mark_stopped_if_alive: wins only against a row that is still alive.
CasWins == AliveStatus(row.status)

\* Reconciler::fresh: the row as it is now, or the old snapshot if it is gone.
Fresh(ins) == IF Present THEN row ELSE ins

-----------------------------------------------------------------------------
(* The processes: ProcessManager and the CDP port.                          *)

IsLive(p) == p # NoPid /\ proc[p] \in Live
\* is_alive(pid).unwrap_or(false): never true of a dead process.
ProbeResults(p) ==
    IF ~IsLive(p) THEN {FALSE} ELSE IF MayGlitch THEN BOOLEAN ELSE {TRUE}
\* The browser answering on the instance's CDP port (at most one can bind it).
Answering == {p \in Pids : proc[p] \in Listening}
CdpReachable == Answering # {}
\* port_allocator::is_free fails: bound by a browser, also by one that hangs.
PortBound == \E p \in Pids : proc[p] \in Listening \cup {"hung"}
\* scan_pid_by_profile: some process whose command line names the profile.
ScanByProfile == {p \in Pids : proc[p] \in Live}
\* terminate: SIGTERM, 3 s, SIGKILL, 1 s.  The code returns Ok even when the
\* process has not gone by then; SIGKILL is taken to work.
Terminate(p) == IF IsLive(p) THEN [proc EXCEPT ![p] = "dead"] ELSE proc

-----------------------------------------------------------------------------
(* Initial states.                                                          *)

IdleTask == [op |-> "none", pc |-> "idle", ins |-> NoRow, pid |-> NoPid, by |-> "call"]

\* stopped: no browser; running: one browser, watched, past the launch;
\* creating: InstanceService::create has just inserted the row.
Init ==
    /\ \E how \in Initially :
       \/ /\ how = "stopped"
          /\ row = [status |-> "stopped", pid |-> NoPid, aged |-> FALSE]
          /\ proc = [p \in Pids |-> "unborn"]
          /\ watch = [p \in Pids |-> "none"]
          /\ task = [t \in Tasks |-> IdleTask]
       \/ /\ how = "running"
          /\ \E q \in Pids :
             /\ row = [status |-> "running", pid |-> q, aged |-> FALSE]
             /\ proc = [p \in Pids |-> IF p = q THEN "ready" ELSE "unborn"]
             /\ watch = [p \in Pids |-> IF p = q THEN "armed" ELSE "none"]
          /\ task = [t \in Tasks |-> IdleTask]
       \/ /\ how = "creating"
          /\ row = [status |-> "starting", pid |-> NoPid, aged |-> FALSE]
          /\ proc = [p \in Pids |-> "unborn"]
          /\ watch = [p \in Pids |-> "none"]
          /\ \E c \in Tasks :
             task = [t \in Tasks |-> IF t = c
                       THEN [IdleTask EXCEPT !.op = "create", !.pc = "hosts", !.ins = row]
                       ELSE IdleTask]
    /\ export = NoPid
    /\ promotes = [p \in Pids |-> 0]
    /\ emptyTab = [pid |-> NoPid, ripe |-> FALSE]
    /\ calls = MaxCalls
    /\ crashes = MaxCrashes
    /\ up = TRUE

-----------------------------------------------------------------------------
(* Task plumbing.                                                           *)

Goto(t, pc) == task' = [task EXCEPT ![t].pc = pc]
Finish(t) == task' = [task EXCEPT ![t] = IdleTask]

\* seeded fault: rows in starting are no longer reconciled.
Reconciling_RunningOnly(op) ==
    IF ~Present THEN IdleTask
    ELSE [IdleTask EXCEPT !.op = op, !.ins = row,
                          !.pc = IF row.status = "running" THEN "probe" ELSE "checked"]
\* Reconciler::reconciled: read the row; only an alive status is probed.
Reconciling(op) ==
    IF ~Present THEN IdleTask
    ELSE [IdleTask EXCEPT !.op = op, !.ins = row,
                          !.pc = IF AliveStatus(row.status) THEN "probe" ELSE "checked"]

\* Reconciliation is over; the call continues with `ins`.
Checked(t, ins) ==
    task' = [task EXCEPT ![t].pc = "checked", ![t].ins = ins, ![t].by = "call"]

\* A client calls the API.
Call(t, op) ==
    /\ up
    /\ calls > 0
    /\ task[t].pc = "idle"
    /\ \A u \in Tasks : task[u].op # "boot"
    /\ calls' = calls - 1
    /\ task' = [task EXCEPT ![t] = Reconciling(op)]
    /\ UNCHANGED <<row, proc, watch, export, promotes, emptyTab, crashes, up>>

\* The UI lists instances every 3 s; every read reconciles.
Read(t) ==
    /\ up
    /\ task[t].pc = "idle"
    /\ \A u \in Tasks : task[u].op # "boot"
    /\ task' = [task EXCEPT ![t] = Reconciling("get")]
    /\ UNCHANGED <<row, proc, watch, export, promotes, emptyTab, calls, crashes, up>>

-----------------------------------------------------------------------------
(* Reconciliation of an alive row: Reconciler::reconcile.                   *)

\* Probe the pid of the snapshot.  A starting row is given up only past its
\* grace period; a running one goes on to the window check or the CDP check.
Probe(t) ==
    LET ins == task[t].ins IN
    /\ task[t].pc = "probe"
    /\ \E alive \in ProbeResults(ins.pid) :
       \/ /\ ins.status = "starting"
          /\ alive \/ ~ins.aged
          /\ Checked(t, ins)
          /\ UNCHANGED row
       \/ /\ ins.status = "starting"
          /\ ~alive /\ ins.aged
          /\ row' = SetStatus("error")
          /\ Checked(t, IF Present THEN row' ELSE ins)
       \/ /\ ins.status = "running"
          /\ alive
          /\ IF ins.aged THEN Goto(t, "tabs") ELSE Checked(t, Fresh(ins))
          /\ UNCHANGED row
       \/ /\ ins.status = "running"
          /\ ~alive
          /\ Goto(t, "confirm")
          /\ UNCHANGED row
    /\ UNCHANGED <<proc, watch, export, promotes, emptyTab, calls, crashes, up>>

\* seeded fault: a failed probe is a death, without the second opinion of CDP.
Confirm_NoCdp(t) ==
    LET ins == task[t].ins IN
    /\ task[t].pc = "confirm"
    /\ row' = SetStatus("stopped")
    /\ Checked(t, IF Present THEN row' ELSE ins)
    /\ UNCHANGED <<proc, watch, export, promotes, emptyTab, calls, crashes, up>>
\* seeded fault: CDP is silent, and nothing is written.
Confirm_NoVerdict(t) ==
    LET ins == task[t].ins IN
    /\ task[t].pc = "confirm"
    /\ \/ /\ CdpReachable
          /\ \E p \in ScanByProfile : row' = IF p # ins.pid THEN SetPid(p) ELSE row
       \/ ~CdpReachable /\ UNCHANGED row
    /\ Checked(t, IF Present THEN row' ELSE ins)
    /\ UNCHANGED <<proc, watch, export, promotes, emptyTab, calls, crashes, up>>
\* seeded fault: CDP answers, and the drifted pid is not looked up.
Confirm_NoRescan(t) ==
    LET ins == task[t].ins IN
    /\ task[t].pc = "confirm"
    /\ row' = IF CdpReachable THEN row ELSE SetStatus("stopped")
    /\ Checked(t, IF Present THEN row' ELSE ins)
    /\ UNCHANGED <<proc, watch, export, promotes, emptyTab, calls, crashes, up>>
\* A failed probe is confirmed over CDP: an answer means the browser lives and
\* its pid is looked up again; silence means mark_dead, whatever the row is now.
Confirm(t) ==
    LET ins == task[t].ins IN
    /\ task[t].pc = "confirm"
    /\ \/ /\ CdpReachable
          /\ \E p \in ScanByProfile : row' = IF p # ins.pid THEN SetPid(p) ELSE row
       \/ /\ ~CdpReachable
          /\ row' = SetStatus("stopped")
    /\ Checked(t, IF Present THEN row' ELSE ins)
    /\ UNCHANGED <<proc, watch, export, promotes, emptyTab, calls, crashes, up>>

\* check_tabs_closed: two readings without a page, 2.5 s apart, stop the
\* instance; an unreachable browser or one with a page does not.
CheckTabs(t) ==
    LET ins == task[t].ins IN
    /\ task[t].pc = "tabs"
    /\ \/ /\ ~CdpReachable
          /\ Checked(t, Fresh(ins))
          /\ UNCHANGED emptyTab
       \/ \E p \in Answering :
          \/ /\ proc[p] = "ready"
             /\ emptyTab' = [pid |-> NoPid, ripe |-> FALSE]
             /\ Checked(t, Fresh(ins))
          \/ /\ proc[p] = "empty"
             /\ emptyTab.pid = NoPid
             /\ emptyTab' = [pid |-> p, ripe |-> FALSE]
             /\ Checked(t, Fresh(ins))
          \/ /\ proc[p] = "empty"
             /\ emptyTab.pid # NoPid /\ ~emptyTab.ripe
             /\ Checked(t, Fresh(ins))
             /\ UNCHANGED emptyTab
          \/ /\ proc[p] = "empty"
             /\ emptyTab.ripe
             /\ emptyTab' = [pid |-> NoPid, ripe |-> FALSE]
             /\ task' = [task EXCEPT ![t].pc = "export", ![t].by = "tabs"]
    /\ UNCHANGED <<row, proc, watch, export, promotes, calls, crashes, up>>

-----------------------------------------------------------------------------
(* What each call does with the reconciled snapshot.                        *)

GetDone(t) ==
    /\ task[t].pc = "checked" /\ task[t].op \in {"get", "boot"}
    /\ Finish(t)
    /\ UNCHANGED <<row, proc, watch, export, promotes, emptyTab, calls, crashes, up>>

\* start: 409 unless stopped or in error; an alive status still passes when the
\* recorded process is gone (or none is recorded).
StartDecide(t) ==
    LET ins == task[t].ins IN
    /\ task[t].pc = "checked" /\ task[t].op = "start"
    /\ \/ /\ ~AliveStatus(ins.status)
          /\ Goto(t, "ensurePort")
       \/ /\ AliveStatus(ins.status)
          /\ \E alive \in ProbeResults(ins.pid) :
             IF alive THEN Finish(t) ELSE Goto(t, "ensurePort")
    /\ UNCHANGED <<row, proc, watch, export, promotes, emptyTab, calls, crashes, up>>

\* stop and restart: 409 unless alive; without a pid nothing is exported or killed.
StopDecide(t) ==
    LET ins == task[t].ins IN
    /\ task[t].pc = "checked" /\ task[t].op \in {"stop", "restart"}
    /\ \/ /\ ~AliveStatus(ins.status)
          /\ Finish(t)
       \/ /\ AliveStatus(ins.status)
          /\ Goto(t, IF ins.pid # NoPid THEN "export" ELSE "cas")
    /\ UNCHANGED <<row, proc, watch, export, promotes, emptyTab, calls, crashes, up>>

\* stop_all_for_env: skips what is not alive; its snapshot dates from the list.
StopAllDecide(t) ==
    /\ task[t].pc = "checked" /\ task[t].op = "stopAll"
    /\ IF AliveStatus(task[t].ins.status) THEN Goto(t, "export") ELSE Finish(t)
    /\ UNCHANGED <<row, proc, watch, export, promotes, emptyTab, calls, crashes, up>>

\* seeded fault: delete without the 409.
DeleteDecide_NoCheck(t) ==
    /\ task[t].pc = "checked" /\ task[t].op = "delete"
    /\ Goto(t, "deleteRow")
    /\ UNCHANGED <<row, proc, watch, export, promotes, emptyTab, calls, crashes, up>>
\* delete: 409 while alive; the profile directory goes before the row.
DeleteDecide(t) ==
    /\ task[t].pc = "checked" /\ task[t].op = "delete"
    /\ IF AliveStatus(task[t].ins.status) THEN Finish(t) ELSE Goto(t, "deleteRow")
    /\ UNCHANGED <<row, proc, watch, export, promotes, emptyTab, calls, crashes, up>>

DeleteRow(t) ==
    /\ task[t].pc = "deleteRow"
    /\ row' = NoRow
    /\ Finish(t)
    /\ UNCHANGED <<proc, watch, export, promotes, emptyTab, calls, crashes, up>>

-----------------------------------------------------------------------------
(* start / create: ensure_port_ready, mark_starting, launch_and_wait.       *)

\* seeded fault: the wait for the port has no limit.
EnsurePort_Forever(t) ==
    /\ task[t].pc = "ensurePort"
    /\ \/ /\ ~PortBound
          /\ Goto(t, "mark")
          /\ UNCHANGED proc
       \/ /\ PortBound
          /\ IsLive(task[t].ins.pid)
          /\ proc' = Terminate(task[t].ins.pid)
          /\ UNCHANGED task
    /\ UNCHANGED <<row, watch, export, promotes, emptyTab, calls, crashes, up>>
\* ensure_port_ready: a free port passes; a bound one has this instance's old
\* process terminated, is polled for 3 s and then given up (409).
EnsurePort(t) ==
    /\ task[t].pc = "ensurePort"
    /\ \/ /\ ~PortBound
          /\ Goto(t, "mark")
          /\ UNCHANGED proc
       \/ /\ PortBound
          /\ IsLive(task[t].ins.pid)
          /\ proc' = Terminate(task[t].ins.pid)
          /\ UNCHANGED task
       \/ /\ PortBound
          /\ FALSE \in ProbeResults(task[t].ins.pid)
          /\ Finish(t)
          /\ UNCHANGED proc
    /\ UNCHANGED <<row, watch, export, promotes, emptyTab, calls, crashes, up>>

\* Unless SlowWatcher, no call reaches mark_starting while an exit callback is
\* between its read and its CAS.
Mark(t) ==
    /\ task[t].pc = "mark"
    /\ SlowWatcher \/ \A p \in Pids : watch[p] # "matched"
    /\ row' = MarkStarting
    /\ Goto(t, "hosts")
    /\ UNCHANGED <<proc, watch, export, promotes, emptyTab, calls, crashes, up>>

\* Hosts are fetched; success stores host_rules if the environment has a source,
\* failure is mark_error.
Hosts(t) ==
    /\ task[t].pc = "hosts"
    /\ \/ /\ row' \in {row, Touch}
          /\ Goto(t, "spawn")
       \/ /\ row' = SetStatus("error")
          /\ Finish(t)
    /\ UNCHANGED <<proc, watch, export, promotes, emptyTab, calls, crashes, up>>

\* Kernel and extensions, then the spawn and its exit watcher.  A missing
\* kernel and a failed spawn are mark_error.
Spawn(t) ==
    /\ task[t].pc = "spawn"
    /\ \/ \E p \in Pids :
          /\ proc[p] = "unborn"
          /\ proc' = [proc EXCEPT ![p] = "booting"]
          /\ watch' = [watch EXCEPT ![p] = "armed"]
          /\ task' = [task EXCEPT ![t].pc = "writePid", ![t].pid = p]
          /\ UNCHANGED row
       \/ /\ row' = SetStatus("error")
          /\ Finish(t)
          /\ UNCHANGED <<proc, watch>>
    /\ UNCHANGED <<export, promotes, emptyTab, calls, crashes, up>>

WritePid(t) ==
    /\ task[t].pc = "writePid"
    /\ row' = SetPid(task[t].pid)
    /\ Goto(t, "waitCdp")
    /\ UNCHANGED <<proc, watch, export, promotes, emptyTab, calls, crashes, up>>

\* seeded fault: a launch that timed out leaves its process.
WaitCdp_NoKill(t) ==
    /\ task[t].pc = "waitCdp"
    /\ \/ CdpReachable /\ Goto(t, "inject")
       \/ ~CdpReachable /\ Goto(t, "abort")
    /\ UNCHANGED <<row, proc, watch, export, promotes, emptyTab, calls, crashes, up>>
\* seeded fault: the wait for CDP has no deadline.
WaitCdp_Forever(t) ==
    /\ task[t].pc = "waitCdp"
    /\ CdpReachable
    /\ Goto(t, "inject")
    /\ UNCHANGED <<row, proc, watch, export, promotes, emptyTab, calls, crashes, up>>
\* wait_until_ready asks the PORT, so any browser of the instance answers.  On
\* a timeout the launch kills its own process.
WaitCdp(t) ==
    /\ task[t].pc = "waitCdp"
    /\ \/ /\ CdpReachable
          /\ Goto(t, "inject")
          /\ UNCHANGED proc
       \/ /\ ~CdpReachable
          /\ proc' = Terminate(task[t].pid)
          /\ Goto(t, "abort")
    /\ UNCHANGED <<row, watch, export, promotes, emptyTab, calls, crashes, up>>

Abort(t) ==
    /\ task[t].pc = "abort"
    /\ row' = SetStatus("error")
    /\ Finish(t)
    /\ UNCHANGED <<proc, watch, export, promotes, emptyTab, calls, crashes, up>>

\* Cookies are injected (best effort, awaited) and the row becomes running,
\* whatever happened to it or to the browser meanwhile.
WriteRunning(t) ==
    /\ task[t].pc = "inject"
    /\ row' = SetStatus("running")
    /\ Goto(t, "clean")
    /\ UNCHANGED <<proc, watch, export, promotes, emptyTab, calls, crashes, up>>

\* The export file of the previous run is removed only now.
CleanExport(t) ==
    /\ task[t].pc = "clean"
    /\ export' = NoPid
    /\ Finish(t)
    /\ UNCHANGED <<row, proc, watch, promotes, emptyTab, calls, crashes, up>>

-----------------------------------------------------------------------------
(* The stop sequence, run by stop, restart, stop_all_for_env and            *)
(* check_tabs_closed: export, terminate, CAS, promote.                      *)

\* on_instance_stopping: the cookies of whichever browser answers; a failed
\* export deletes the file.
Export(t) ==
    /\ task[t].pc = "export"
    /\ export' \in Answering \cup {NoPid}
    /\ Goto(t, "kill")
    /\ UNCHANGED <<row, proc, watch, promotes, emptyTab, calls, crashes, up>>

Kill(t) ==
    /\ task[t].pc = "kill"
    /\ proc' = Terminate(task[t].ins.pid)
    /\ Goto(t, "cas")
    /\ UNCHANGED <<row, watch, export, promotes, emptyTab, calls, crashes, up>>

\* The task's next state once its stop sequence has ended.
StopDone(t) ==
    IF task[t].by = "tabs" THEN Checked(t, Fresh(task[t].ins))
    ELSE IF task[t].op = "restart" THEN task' = [task EXCEPT ![t] = Reconciling("start")]
    ELSE Finish(t)

StopCas(t) ==
    /\ task[t].pc = "cas"
    /\ \/ /\ CasWins
          /\ row' = SetStatus("stopped")
          /\ Goto(t, "promote")
       \/ /\ ~CasWins
          /\ StopDone(t)
          /\ UNCHANGED row
    /\ UNCHANGED <<proc, watch, export, promotes, emptyTab, calls, crashes, up>>

\* on_instance_stopped under the policy `always`: an export, if there is one,
\* becomes a new generation of the vault (module SessionVault).
PromoteExport ==
    promotes' = IF export = NoPid THEN promotes ELSE [promotes EXCEPT ![export] = @ + 1]

Promote(t) ==
    /\ task[t].pc = "promote"
    /\ PromoteExport
    /\ StopDone(t)
    /\ UNCHANGED <<row, proc, watch, export, emptyTab, calls, crashes, up>>

-----------------------------------------------------------------------------
(* The exit watcher: attach_exit_watcher's callback in the reaper thread.   *)

\* The callback reads the row and compares pid and status ...
ExitRead(p) ==
    /\ watch[p] = "armed" /\ proc[p] = "dead"
    /\ watch' = [watch EXCEPT ![p] =
                   IF row.pid = p /\ row.status = "running" THEN "matched" ELSE "done"]
    /\ UNCHANGED <<row, proc, task, export, promotes, emptyTab, calls, crashes, up>>

\* ... and then runs the CAS, a statement of its own.
ExitCas(p) ==
    /\ watch[p] = "matched"
    /\ \/ /\ CasWins
          /\ row' = SetStatus("stopped")
          /\ watch' = [watch EXCEPT ![p] = "won"]
       \/ /\ ~CasWins
          /\ watch' = [watch EXCEPT ![p] = "done"]
          /\ UNCHANGED row
    /\ UNCHANGED <<proc, task, export, promotes, emptyTab, calls, crashes, up>>

ExitPromote(p) ==
    /\ watch[p] = "won"
    /\ PromoteExport
    /\ watch' = [watch EXCEPT ![p] = "done"]
    /\ UNCHANGED <<row, proc, task, export, emptyTab, calls, crashes, up>>

-----------------------------------------------------------------------------
(* Chrome, its user and time (external).                                    *)

\* One browser per profile: Chrome's singleton lets one process bind the port.
BecomeReady(p) ==
    /\ proc[p] = "booting"
    /\ ~PortBound
    /\ proc' = [proc EXCEPT ![p] = "ready"]
    /\ UNCHANGED <<row, watch, task, export, promotes, emptyTab, calls, crashes, up>>

\* A crash, a kill -9, a quit, or a second process handing over to the first.
Die(p) ==
    /\ proc[p] \in Live
    /\ proc' = [proc EXCEPT ![p] = "dead"]
    /\ UNCHANGED <<row, watch, task, export, promotes, emptyTab, calls, crashes, up>>

CloseWindows(p) ==
    /\ MacOS
    /\ proc[p] = "ready"
    /\ proc' = [proc EXCEPT ![p] = "empty"]
    /\ UNCHANGED <<row, watch, task, export, promotes, emptyTab, calls, crashes, up>>

OpenWindow(p) ==
    /\ proc[p] = "empty"
    /\ proc' = [proc EXCEPT ![p] = "ready"]
    /\ UNCHANGED <<row, watch, task, export, promotes, emptyTab, calls, crashes, up>>

\* A stopped or swapping process, a blocked main thread: CDP times out, the pid
\* lives.  It may come back, or stay so.
Hang(p) ==
    /\ MayHang
    /\ proc[p] \in Listening
    /\ proc' = [proc EXCEPT ![p] = "hung"]
    /\ UNCHANGED <<row, watch, task, export, promotes, emptyTab, calls, crashes, up>>

Recover(p) ==
    /\ proc[p] = "hung"
    /\ proc' = [proc EXCEPT ![p] = "ready"]
    /\ UNCHANGED <<row, watch, task, export, promotes, emptyTab, calls, crashes, up>>

\* Chrome restarts itself: a new process, not a child of the application.
Relaunch(p, q) ==
    /\ MayRelaunch
    /\ proc[p] \in Listening
    /\ proc[q] = "unborn"
    /\ proc' = [proc EXCEPT ![p] = "dead", ![q] = "ready"]
    /\ UNCHANGED <<row, watch, task, export, promotes, emptyTab, calls, crashes, up>>

\* Grace periods run out.  A launch in flight keeps the row young: it rewrites
\* it at every stage and waits for CDP 10 s at most, the grace being 20 s; only
\* the kernel download before the spawn may outlast its 300 s.
Age ==
    /\ AliveStatus(row.status) /\ ~row.aged
    /\ row.status = "starting" =>
          \A t \in Tasks : task[t].pc \notin LaunchPc \ {"hosts", "spawn"}
    /\ row' = [row EXCEPT !.aged = TRUE]
    /\ UNCHANGED <<proc, watch, task, export, promotes, emptyTab, calls, crashes, up>>

Ripen ==
    /\ emptyTab.pid # NoPid /\ ~emptyTab.ripe
    /\ emptyTab' = [emptyTab EXCEPT !.ripe = TRUE]
    /\ UNCHANGED <<row, proc, watch, task, export, promotes, calls, crashes, up>>

-----------------------------------------------------------------------------
(* The application dies (Chrome does not) and starts again.                 *)

AppCrash ==
    /\ crashes > 0
    /\ crashes' = crashes - 1
    /\ up
    /\ up' = FALSE
    /\ task' = [t \in Tasks |-> IdleTask]
    /\ watch' = [p \in Pids |-> IF watch[p] = "none" THEN "none" ELSE "done"]
    /\ emptyTab' = [pid |-> NoPid, ripe |-> FALSE]
    /\ UNCHANGED <<row, proc, export, promotes, calls>>

\* main.rs: reconcile_all ends before the API accepts calls.
AppStart(t) ==
    /\ ~up
    /\ up' = TRUE
    /\ task' = [task EXCEPT ![t] = Reconciling("boot")]
    /\ UNCHANGED <<row, proc, watch, export, promotes, emptyTab, calls, crashes>>

-----------------------------------------------------------------------------
ReconcileStep(t) == Probe(t) \/ Confirm(t) \/ CheckTabs(t)
DecideStep(t) ==
    \/ GetDone(t) \/ StartDecide(t) \/ StopDecide(t) \/ StopAllDecide(t) \/ DeleteDecide(t)
LaunchStep(t) ==
    \/ EnsurePort(t) \/ Mark(t) \/ Hosts(t) \/ Spawn(t) \/ WritePid(t)
    \/ WaitCdp(t) \/ Abort(t) \/ WriteRunning(t) \/ CleanExport(t)
StopStep(t) == Export(t) \/ Kill(t) \/ StopCas(t) \/ Promote(t)
TaskStep(t) ==
    ReconcileStep(t) \/ DecideStep(t) \/ LaunchStep(t) \/ StopStep(t) \/ DeleteRow(t)
WatcherStep(p) == ExitRead(p) \/ ExitCas(p) \/ ExitPromote(p)
ChromeStep(p) ==
    BecomeReady(p) \/ Die(p) \/ CloseWindows(p) \/ OpenWindow(p) \/ Hang(p) \/ Recover(p)

Next ==
    \/ \E t \in Tasks, op \in Ops : Call(t, op)
    \/ \E t \in Tasks : Read(t) \/ TaskStep(t) \/ AppStart(t)
    \/ \E p \in Pids : WatcherStep(p) \/ ChromeStep(p)
    \/ \E p, q \in Pids : Relaunch(p, q)
    \/ Age \/ Ripen \/ AppCrash

Spec == Init /\ [][Next]_vars

\* Fairness: tokio polls every task and the reaper threads run; the UI polls
\* every 3 s (App.tsx), time passes, and a started application boots.  Nothing
\* is assumed of clients, of Chrome or of crashes.
Fairness ==
    /\ \A t \in Tasks : WF_vars(TaskStep(t)) /\ WF_vars(Read(t)) /\ WF_vars(AppStart(t))
    /\ \A p \in Pids : WF_vars(WatcherStep(p))
    /\ WF_vars(Age) /\ WF_vars(Ripen)

FairSpec == Spec /\ Fairness

-----------------------------------------------------------------------------
(* Properties.                                                              *)

\* Nothing is in flight and every exit has been handled.
Quiet ==
    /\ up
    /\ \A t \in Tasks : task[t].pc = "idle"
    /\ \A p \in Pids : /\ watch[p] \notin {"matched", "won"}
                       /\ watch[p] = "armed" => proc[p] # "dead"

\* When nothing is in flight, a browser that still lives is the one the row
\* names, under a status that lets the user stop it: launches, stops, window
\* closing, deletion and exits never leave a browser nobody manages.
BrowserIsNamed ==
    Quiet => \A p \in Pids : IsLive(p) => AliveStatus(row.status) /\ row.pid = p

\* The cookies exported from one browser enter the vault once, although stop,
\* the exit watcher and the window check may all reach the end of its run
\* (the purpose of mark_stopped_if_alive).
NoDoublePromote == \A p \in Pids : promotes[p] <= 1

\* A running row is turned to stopped only when no browser answers any more:
\* a missed probe, a pid that drifted or a late step never stops a live one.
StoppedMeansGone ==
    [][row.status = "running" /\ row'.status = "stopped" => ~CdpReachable]_vars

\* The row (and with it the profile directory) goes only when no process of the
\* instance lives.
DeletedMeansGone ==
    [][Present /\ row'.status = "absent" => \A p \in Pids : ~IsLive(p)]_vars

\* A row that says running while its process is gone and nothing answers does
\* not stay so, whatever hangs or is replaced meanwhile.  (While the recorded
\* process lives, silence on CDP is no death: the row of a browser that hangs
\* says running until the process ends or is stopped.)
ZombieIsNoticed ==
    (row.status = "running" /\ ~IsLive(row.pid) /\ ~CdpReachable)
        ~> (row.status # "running" \/ IsLive(row.pid) \/ CdpReachable)

\* A starting row whose process is gone does not stay so: the launch sets it,
\* or, after a crash of the application, reconciliation past the grace period.
DeadStartResolves ==
    (row.status = "starting" /\ \A p \in Pids : ~IsLive(p))
        ~> (row.status # "starting" \/ \E p \in Pids : IsLive(p))

\* Every call ends.
CallsEnd == \A t \in Tasks : (task[t].pc # "idle") ~> (task[t].pc = "idle")

\* Two starts never work on the instance at once: the second is to get 409
\* INSTANCE_ALREADY_RUNNING (AGENT-API.md, POST /instances/{id}/start).
OneLaunchAtATime ==
    \A t, u \in Tasks :
        task[t].pc \in LaunchPc /\ task[u].pc \in LaunchPc => t = u

\* A drifted pid is found again: while the process the row names is gone, a
\* browser that answers ends up named by it, unless it is stopped or goes.
DriftIsRepaired ==
    \A p \in Pids :
        (row.status = "running" /\ proc[p] \in Listening /\ ~IsLive(row.pid))
            ~> (IsLive(row.pid) \/ ~AliveStatus(row.status) \/ proc[p] \notin Listening)
=============================================================================
