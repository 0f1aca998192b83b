----------------------- MODULE SessionIdentity_proofs -----------------------
(***************************************************************************)
(* Proofs about SessionIdentity, for every number of calls, instances,      *)
(* identities and crashes.                                                  *)
(*                                                                          *)
(* The inductive invariant says what each call knows at its place: which    *)
(* operation can be there (ControlInv), who holds the vault lock and the    *)
(* gate, what the row says meanwhile (RowInv), where the last finished      *)
(* snapshot lies (SnapshotInv, PlaceInv), what the cookie layer may rely on *)
(* under its lock (CookieInv), and which instances a call can lose to a     *)
(* deletion (InstancesInv).  A call before the gate moves without     *)
(* touching the snapshot (QuietKeeps); behind it it is alone (WorksAlone),  *)
(* so that each step of it is looked at by itself (WorkerKeeps).            *)
(***************************************************************************)
EXTENDS SessionIdentity, TLAPS

\* Where a call stands that is at work on the snapshot, and one that holds the
\* vault lock if it takes it at all.
Capturing == {"resolve", "copy", "archive", "place", "remove", "commit"}
Working == Capturing \cup {"wipe", "make"}
Locking == {"gate", "vault"} \cup Working

\* Which call can be where, and what it knows there.
Fits(r) ==
    /\ r.pc = "policy" => r.op = "promote"
    /\ r.pc = "lock" => r.op \in {"promote", "capture", "reset"}
    /\ r.pc = "gate" => r.op # "clone"
    /\ r.pc \in Capturing => r.op \in {"promote", "capture", "self"}
    /\ r.pc = "vault" => r.op \in {"promote", "capture"}
    /\ r.pc \in {"wipe", "make"} => r.op = "reset"
    /\ r.pc = "cloning" => r.op = "clone"
    /\ r.pc # "idle" /\ r.op \in {"promote", "capture", "clone"} => r.ins \in Instances
    /\ r.pc = "lock" /\ r.op = "capture" => r.who \in Ids
    /\ r.pc \in Locking /\ r.op \in {"promote", "capture"} => r.who \in Ids

Holds(r) == r.op # "self" /\ r.pc \in Locking

\* Each call is where its operation can be; the vault lock is held by the call
\* that says so; a crash leaves no call.
ControlInv ==
    /\ \A t \in Tasks : Fits(task[t])
    /\ \A t \in Tasks : lock = t <=> Holds(task[t])
    /\ ~up => \A t \in Tasks : task[t] = Idle

\* The row says capturing while somebody captures; a crash may leave it so.
RowInv ==
    /\ row.status = "ready" => row.version > 0
    /\ up => (row.status = "capturing" <=> \E t \in Tasks : task[t].pc \in Capturing)

\* The last finished snapshot is where resolve_stale_swap looks for it, and each
\* step of a swap finds the directories the step before it has left.
SnapshotInv ==
    /\ kept # Absent /\ fate # "lost" => kept = (IF dir = Absent THEN old ELSE dir)
    /\ \A t \in Tasks :
          /\ task[t].pc \in {"copy", "archive", "place"} => tmp # Absent
          /\ task[t].pc = "copy" /\ task[t].op = "self" => dir # Absent
          /\ task[t].pc = "place" => dir = Absent
          /\ task[t].pc = "remove" => dir = kept /\ dir # Absent
          /\ task[t].pc = "make" => kept = Absent

\* Only between the two renames is nothing under the name of the snapshot.
PlaceInv ==
    fate = "held" /\ up /\ kept # Absent /\ dir = Absent => \E t \in Tasks : task[t].pc = "place"

\* What a promotion under first_login saw still holds, and the files it has put in
\* place are still those of its instance.
CookieInv == \A t \in Tasks :
    /\ Holds(task[t]) /\ task[t].op = "promote" /\ task[t].first => vault = None
    /\ task[t].pc \in {"remove", "commit", "vault"} /\ task[t].op # "self" =>
          source = task[t].ins \/ prof[task[t].ins] = Absent

\* The gate is held by the call at work: the last conjunct of TypeOK, by its places.
GateInv == \A t \in Tasks : gate = t <=> task[t].pc \in Working

\* A promotion or a capture, which has read the row of its instance.
Uses(r) == r.op \in {"promote", "capture"} /\ r.pc # "idle"

\* Whose directory is gone, a call under way has it because of its deletion; a
\* clone under way has its instance to itself.
InstancesInv ==
    /\ \A i \in Instances :
          prof[i] = Absent => inst[i] \in {"stopped", "leaving", "gone"} /\ export[i] = None
    /\ \A t \in Tasks : Uses(task[t]) /\ prof[task[t].ins] = Absent =>
                          inst[task[t].ins] \in {"leaving", "gone"}
    /\ \A t \in Tasks : task[t].pc = "cloning" =>
          /\ inst[task[t].ins] = "none"
          /\ \A u \in Tasks \ {t} : task[u].pc = "cloning" => task[u].ins # task[t].ins

\* What each call knows, and with it where the instances stand.
CallsInv == TypeOK /\ ControlInv /\ RowInv /\ SnapshotInv /\ PlaceInv /\ CookieInv
IInv == CallsInv /\ InstancesInv

\* No directory comes back under a call that uses it.
StaysGone == UNCHANGED prof \/ \A t \in Tasks :
    Uses(task[t]) /\ prof[task[t].ins] = Absent => prof'[task[t].ins] = Absent

\* One call moves, to r; the others stay.
Moves(t, r) ==
    /\ task' \in [Tasks -> Task]
    /\ r \in Task
    /\ task'[t] = r
    /\ \A u \in Tasks \ {t} : task'[u] = task[u]

-----------------------------------------------------------------------------
(* Moves of one call.                                                       *)

\* The gate by places, and back.
LEMMA PcWorking ==
    ASSUME TypeOK PROVE GateInv
  BY DEF TypeOK, GateInv, UnderGate, Working, Capturing

LEMMA GateIsType == GateInv' => \A t \in Tasks : gate' = t <=> UnderGate(t)'
  BY DEF GateInv, UnderGate, Working, Capturing

\* A call that is over holds nothing.
LEMMA IdleIsTask == Idle \in Task /\ Fits(Idle) /\ ~Holds(Idle) /\ Idle.pc = "idle"
  BY DEF Idle, Task, Op, Pc, Row, Status, Fits, Holds, Capturing, Working, Locking

\* What the three ways of setting a call do.
LEMMA SetMoves ==
    ASSUME task \in [Tasks -> Task], NEW t \in Tasks, NEW r \in Task, task' = [task EXCEPT ![t] = r]
    PROVE  Moves(t, r)
  BY DEF Moves

LEMMA GotoMoves ==
    ASSUME task \in [Tasks -> Task], NEW t \in Tasks, NEW pc \in Pc, Goto(t, pc)
    PROVE  Moves(t, [task[t] EXCEPT !.pc = pc])
<1> DEFINE r == [task[t] EXCEPT !.pc = pc]
<1>1. r \in Task BY DEF Task
<1>2. task' = [task EXCEPT ![t] = r] BY DEF Goto
<1> QED BY <1>1, <1>2, SetMoves

LEMMA EndMoves ==
    ASSUME task \in [Tasks -> Task], NEW t \in Tasks, End(t)
    PROVE  Moves(t, Idle)
  BY IdleIsTask, SetMoves DEF End

\* The locks agree with the calls again once the one that moved has taken or given
\* back what its new place holds.
LEMMA ControlKeeps ==
    ASSUME TypeOK, ControlInv, NEW t \in Tasks, NEW STATE r, Moves(t, r), up, up' = up, Fits(r),
           (lock' = t) <=> Holds(r), \A u \in Tasks \ {t} : lock' = u <=> lock = u
    PROVE  ControlInv'
<1>1. ASSUME NEW u \in Tasks PROVE Fits(task'[u]) /\ (lock' = u <=> Holds(task'[u]))
  <2>1. CASE u = t BY <2>1 DEF Moves
  <2>2. CASE u # t BY <2>2 DEF Moves, ControlInv
  <2> QED BY <2>1, <2>2
<1> QED BY <1>1 DEF ControlInv

LEMMA GateKeeps ==
    ASSUME TypeOK, NEW t \in Tasks, NEW STATE r, Moves(t, r),
           (gate' = t) <=> r.pc \in Working, \A u \in Tasks \ {t} : gate' = u <=> gate = u
    PROVE  GateInv'
<1>1. ASSUME NEW u \in Tasks PROVE gate' = u <=> task'[u].pc \in Working
  <2>1. CASE u = t BY <2>1 DEF Moves
  <2>2. CASE u # t BY <2>2, PcWorking DEF Moves, GateInv
  <2> QED BY <2>1, <2>2
<1> QED BY <1>1 DEF GateInv

\* What is not at work on the snapshot moves without touching it.
LEMMA QuietKeeps ==
    ASSUME RowInv, SnapshotInv, PlaceInv, NEW t \in Tasks, NEW STATE r, Moves(t, r),
           task[t].pc \notin Working, r.pc \notin Working,
           UNCHANGED <<row, dir, old, tmp, up, kept, fate>>
    PROVE  RowInv' /\ SnapshotInv' /\ PlaceInv'
<1>1. \A u \in Tasks : task'[u].pc \in Working \/ task[u].pc \in Working => task'[u] = task[u]
  BY DEF Moves
<1>2. RowInv' BY <1>1 DEF RowInv, Working
<1>3. SnapshotInv'
  <2> SUFFICES ASSUME NEW u \in Tasks, task'[u].pc \in Working
      PROVE  task[u].pc \in Working /\ task'[u] = task[u]
    BY DEF SnapshotInv, Working, Capturing
  <2> QED BY <1>1
<1>4. PlaceInv' BY <1>1 DEF PlaceInv, Working, Capturing
<1> QED BY <1>2, <1>3, <1>4

\* A call that does not get or give back the lock or the gate.
LEMMA CookieKeeps ==
    ASSUME ControlInv, CookieInv, NEW t \in Tasks, NEW STATE r, Moves(t, r),
           UNCHANGED <<vault, source>>, StaysGone,
           Holds(r) /\ r.op = "promote" /\ r.first => vault = None,
           r.pc \in {"remove", "commit", "vault"} /\ r.op # "self" =>
               source = r.ins \/ prof'[r.ins] = Absent
    PROVE  CookieInv'
<1>1. ASSUME NEW u \in Tasks
      PROVE  /\ Holds(task'[u]) /\ task'[u].op = "promote" /\ task'[u].first => vault = None
             /\ task'[u].pc \in {"remove", "commit", "vault"} /\ task'[u].op # "self" =>
                   source = task'[u].ins \/ prof'[task'[u].ins] = Absent
  <2>1. CASE u = t BY <2>1 DEF Moves
  <2>2. CASE u # t
    <3>1. task'[u] = task[u] BY <2>2 DEF Moves
    <3>2. task[u].pc \in {"remove", "commit", "vault"} /\ task[u].op # "self" => Uses(task[u])
      BY DEF ControlInv, Fits, Uses, Capturing
    <3>3. task[u].pc \in {"remove", "commit", "vault"} /\ task[u].op # "self" =>
              source = task[u].ins \/ prof'[task[u].ins] = Absent
      BY <3>2 DEF CookieInv, StaysGone
    <3> QED BY <3>1, <3>3 DEF CookieInv
  <2> QED BY <2>1, <2>2
<1> QED BY <1>1 DEF CookieInv

LEMMA ContentFacts ==
    ASSUME IdentityAssumption
    PROVE  /\ Absent \notin Content /\ Empty \in Content /\ Empty # Absent
           /\ \A c \in Content, q \in Parts, v \in Ids \cup {None} : [c EXCEPT ![q] = v] \in Content
           /\ \A c \in Content, q \in Parts : c[q] \in Ids \cup {None}
<1>1. Absent \notin Content BY DEF IdentityAssumption, Content, Parts
<1>2. Empty \in Content BY DEF Empty, Content
<1>3. /\ \A c \in Content, q \in Parts, v \in Ids \cup {None} : [c EXCEPT ![q] = v] \in Content
      /\ \A c \in Content, q \in Parts : c[q] \in Ids \cup {None}
  BY DEF Content
<1> QED BY <1>1, <1>2, <1>3

-----------------------------------------------------------------------------
(* Calls before the lock and the gate.                                      *)

LEMMA BeforeKeeps ==
    ASSUME IInv, NEW t \in Tasks, NEW STATE r, Moves(t, r), Fits(r), up,
           task[t].pc \in {"idle", "policy", "cloning"},
           r.pc \in {"idle", "policy", "lock", "cloning"} \/ (r.pc = "gate" /\ r.op = "self"),
           UNCHANGED <<vault, row, dir, old, tmp, lock, gate, up, kept, source, fate>>, StaysGone
    PROVE  /\ GateInv' /\ ControlInv' /\ RowInv' /\ SnapshotInv' /\ PlaceInv' /\ CookieInv'
<1> USE DEF IInv, CallsInv
<1>1. ~Holds(r) /\ ~Holds(task[t]) /\ r.pc \notin Working /\ task[t].pc \notin Working
  BY DEF Holds, Locking, Working, Capturing
<1>2. lock # t BY <1>1 DEF ControlInv
<1>3. gate # t BY <1>1, PcWorking DEF GateInv
<1>4. ControlInv' BY <1>1, <1>2, ControlKeeps
<1>5. GateInv' BY <1>1, <1>3, GateKeeps
<1>6. RowInv' /\ SnapshotInv' /\ PlaceInv' BY <1>1, QuietKeeps
<1>7. CookieInv' BY <1>1, CookieKeeps
<1> QED BY <1>4, <1>5, <1>6, <1>7


LEMMA FreeCounts ==
    ASSUME TypeOK, NEW t \in Tasks, Free(t)
    PROVE  left' \in [calls : Nat, logins : Nat, crashes : Nat]
  BY DEF TypeOK, Free

\* The calls that begin, and what goes on beside them.
LEMMA StopKeeps ==
    ASSUME IInv, NEW t \in Tasks, NEW i \in Instances, Stop(t, i)
    PROVE  CallsInv'
<1> DEFINE r == [Idle EXCEPT !.op = "promote", !.pc = "policy", !.ins = i]
<1>1. r \in Task /\ Fits(r) /\ r.pc = "policy"
  BY IdleIsTask DEF Idle, Task, Op, Pc, Fits, Locking, Capturing, Working
<1> HIDE DEF r
<1>2. Moves(t, r) BY <1>1, SetMoves DEF IInv, CallsInv, TypeOK, Stop, r
<1>3. GateInv' /\ ControlInv' /\ RowInv' /\ SnapshotInv' /\ PlaceInv' /\ CookieInv'
  BY <1>1, <1>2, BeforeKeeps DEF Stop, Free, files, ghosts, StaysGone
<1>4. inst' \in [Instances -> InstanceStatus]
  BY DEF IInv, CallsInv, TypeOK, Stop, InstanceStatus
<1>5. export' \in [Instances -> Ids \cup {None}]
  <2>1. prof[i] \in Content
    BY DEF IInv, CallsInv, InstancesInv, TypeOK, Stop
  <2> QED BY <2>1 DEF IInv, CallsInv, TypeOK, Stop, Content, Parts
<1>6. TypeOK'
  BY <1>2, <1>3, <1>4, <1>5, FreeCounts, GateIsType DEF IInv, CallsInv, TypeOK, Stop, files, ghosts, Moves
<1> QED BY <1>3, <1>6 DEF IInv, CallsInv

LEMMA CaptureKeeps ==
    ASSUME IInv, NEW t \in Tasks, NEW i \in Instances, Capture(t, i)
    PROVE  CallsInv'
<1> DEFINE r == [Idle EXCEPT !.op = "capture", !.pc = "lock", !.ins = i, !.who = export[i]]
<1>0. export[i] \in Ids
  BY DEF IInv, CallsInv, TypeOK, Capture
<1>1. r \in Task /\ Fits(r) /\ r.pc = "lock"
  BY <1>0, IdleIsTask DEF Idle, Task, Op, Pc, Fits, Locking, Capturing, Working
<1> HIDE DEF r
<1>2. Moves(t, r) BY <1>1, SetMoves DEF IInv, CallsInv, TypeOK, Capture, r
<1>3. GateInv' /\ ControlInv' /\ RowInv' /\ SnapshotInv' /\ PlaceInv' /\ CookieInv'
  BY <1>1, <1>2, BeforeKeeps DEF Capture, Free, files, instances, ghosts, StaysGone
<1>4. TypeOK'
  BY <1>2, <1>3, FreeCounts, GateIsType DEF IInv, CallsInv, TypeOK, Capture, files, instances, ghosts, Moves
<1> QED BY <1>3, <1>4 DEF IInv, CallsInv

LEMMA ResetKeeps ==
    ASSUME IInv, NEW t \in Tasks, Reset(t)
    PROVE  CallsInv'
<1> DEFINE r == [Idle EXCEPT !.op = "reset", !.pc = "lock"]
<1>1. r \in Task /\ Fits(r) /\ r.pc = "lock"
  BY IdleIsTask DEF Idle, Task, Op, Pc, Fits, Locking, Capturing, Working
<1> HIDE DEF r
<1>2. Moves(t, r) BY <1>1, SetMoves DEF IInv, CallsInv, TypeOK, Reset, r
<1>3. GateInv' /\ ControlInv' /\ RowInv' /\ SnapshotInv' /\ PlaceInv' /\ CookieInv'
  BY <1>1, <1>2, BeforeKeeps DEF Reset, Free, files, instances, ghosts, StaysGone
<1>4. TypeOK'
  BY <1>2, <1>3, FreeCounts, GateIsType DEF IInv, CallsInv, TypeOK, Reset, files, instances, ghosts, Moves
<1> QED BY <1>3, <1>4 DEF IInv, CallsInv

LEMMA CaptureSelfKeeps ==
    ASSUME IInv, NEW t \in Tasks, CaptureSelf(t)
    PROVE  CallsInv'
<1> DEFINE r == [Idle EXCEPT !.op = "self", !.pc = "gate", !.seen = row]
<1>0. row \in Row BY DEF IInv, CallsInv, TypeOK
<1>1. r \in Task /\ Fits(r) /\ r.pc = "gate" /\ r.op = "self"
  BY <1>0, IdleIsTask DEF Idle, Task, Op, Pc, Fits, Locking, Capturing, Working
<1> HIDE DEF r
<1>2. Moves(t, r) BY <1>1, SetMoves DEF IInv, CallsInv, TypeOK, CaptureSelf, r
<1>3. GateInv' /\ ControlInv' /\ RowInv' /\ SnapshotInv' /\ PlaceInv' /\ CookieInv'
  BY <1>1, <1>2, BeforeKeeps DEF CaptureSelf, Free, files, instances, ghosts, StaysGone
<1>4. TypeOK'
  BY <1>2, <1>3, FreeCounts, GateIsType DEF IInv, CallsInv, TypeOK, CaptureSelf, files, instances, ghosts, Moves
<1> QED BY <1>3, <1>4 DEF IInv, CallsInv

LEMMA ReadPolicyKeeps ==
    ASSUME IInv, NEW t \in Tasks, ReadPolicy(t)
    PROVE  CallsInv'
<1> DEFINE r == IF policy = "off" THEN Idle
                ELSE [task[t] EXCEPT !.pc = "lock", !.first = (policy = "first_login")]
<1>0. task[t] \in Task /\ Fits(task[t]) /\ task[t].pc = "policy"
  BY DEF IInv, CallsInv, TypeOK, ControlInv, ReadPolicy
<1>1. r \in Task /\ Fits(r) /\ r.pc \in {"idle", "lock"}
  BY <1>0, IdleIsTask DEF Task, Pc, Fits, Locking, Capturing, Working
<1>2. up
  BY <1>0, IdleIsTask DEF IInv, CallsInv, ControlInv
<1> HIDE DEF r
<1>3. Moves(t, r) BY <1>1, SetMoves DEF IInv, CallsInv, TypeOK, ReadPolicy, r
<1>4. GateInv' /\ ControlInv' /\ RowInv' /\ SnapshotInv' /\ PlaceInv' /\ CookieInv'
  BY <1>0, <1>1, <1>2, <1>3, BeforeKeeps DEF ReadPolicy, files, instances, ghosts, StaysGone
<1>5. TypeOK'
  BY <1>3, <1>4, GateIsType DEF IInv, CallsInv, TypeOK, ReadPolicy, files, instances, ghosts, Moves
<1> QED BY <1>4, <1>5 DEF IInv, CallsInv

\* Nothing the invariant is about changes.
LEMMA RestKeeps ==
    ASSUME IInv, UNCHANGED <<task, vault, row, dir, old, tmp, lock, gate, up, kept, source, fate>>,
           StaysGone
    PROVE  GateInv' /\ ControlInv' /\ RowInv' /\ SnapshotInv' /\ PlaceInv' /\ CookieInv'
<1> USE DEF IInv, CallsInv
<1>1. GateInv' BY PcWorking DEF GateInv
<1>2. ControlInv' BY DEF ControlInv
<1>3. RowInv' BY DEF RowInv
<1>4. SnapshotInv' BY DEF SnapshotInv
<1>5. PlaceInv' BY DEF PlaceInv
<1>6. CookieInv'
  <2>1. \A t \in Tasks :
          task[t].pc \in {"remove", "commit", "vault"} /\ task[t].op # "self" => Uses(task[t])
    BY DEF ControlInv, Fits, Uses, Capturing
  <2> QED BY <2>1 DEF CookieInv, StaysGone
<1> QED BY <1>1, <1>2, <1>3, <1>4, <1>5, <1>6

LEMMA InstancesKeep ==
    ASSUME IdentityAssumption, IInv, NEW i \in Instances,
           \/ Launch(i) \/ (\E id \in Ids : Login(i, id))
           \/ Delete(i) \/ RemoveFiles(i) \/ DeleteRow(i)
    PROVE  CallsInv'
<1>1. prof[i] # Absent => prof[i] \in Content
  BY DEF IInv, CallsInv, TypeOK
<1>2. StaysGone
  <2>1. CASE Launch(i)
    <3>1. \A t \in Tasks : Uses(task[t]) /\ prof[task[t].ins] = Absent => task[t].ins # i
      BY <2>1 DEF IInv, InstancesInv, Launch
    <3> QED BY <2>1, <3>1 DEF StaysGone, Launch, IInv, CallsInv, TypeOK
  <2>2. ASSUME NEW id \in Ids, Login(i, id) PROVE StaysGone
    <3>1. prof[i] # Absent BY <2>2 DEF IInv, InstancesInv, Login
    <3> QED BY <2>2, <3>1 DEF StaysGone, Login, IInv, CallsInv, TypeOK
  <2>3. CASE RemoveFiles(i)
    <3>1. /\ prof[i] # Absent /\ \A j \in Instances \ {i} : prof'[j] = prof[j]
      BY <2>3 DEF RemoveFiles, IInv, CallsInv, TypeOK
    <3>2. \A t \in Tasks : Uses(task[t]) => task[t].ins \in Instances
      BY DEF IInv, CallsInv, ControlInv, Fits, Uses
    <3> QED BY <3>1, <3>2 DEF StaysGone
  <2>4. CASE Delete(i) \/ DeleteRow(i)
    BY <2>4 DEF StaysGone, Delete, DeleteRow
  <2> QED BY <2>1, <2>2, <2>3, <2>4
<1>3. GateInv' /\ ControlInv' /\ RowInv' /\ SnapshotInv' /\ PlaceInv' /\ CookieInv'
  BY <1>2, RestKeeps DEF Launch, Login, Delete, RemoveFiles, DeleteRow, files, ghosts
<1>4. left' \in [calls : Nat, logins : Nat, crashes : Nat]
  BY DEF IInv, CallsInv, TypeOK, Launch, Login, Delete, RemoveFiles, DeleteRow
<1>5. prof' \in [Instances -> Content \cup {Absent}]
  <2>1. CASE Launch(i)
    <3>1. vault # None => vault.who \in Ids
      BY DEF IInv, CallsInv, TypeOK, Vault
    <3> DEFINE found == IF prof[i] = Absent THEN Empty ELSE prof[i]
    <3>2. found \in Content BY <1>1, ContentFacts
    <3>3. vault # None => [found EXCEPT !["cookies"] = vault.who] \in Content
      BY <3>1, <3>2, ContentFacts DEF Parts
    <3>4. prof' = [prof EXCEPT ![i] = IF vault = None THEN found
                                      ELSE [found EXCEPT !["cookies"] = vault.who]]
      BY <2>1 DEF Launch
    <3> HIDE DEF found
    <3> QED BY <3>2, <3>3, <3>4 DEF IInv, CallsInv, TypeOK
  <2>2. ASSUME NEW id \in Ids, Login(i, id) PROVE prof' \in [Instances -> Content \cup {Absent}]
    <3>1. Of(id) \in Content BY DEF Of, Content
    <3> QED BY <2>2, <3>1 DEF IInv, CallsInv, TypeOK, Login
  <2>3. CASE RemoveFiles(i)
    <3>1. \A p \in Parts : [prof[i] EXCEPT ![p] = None] \in Content
      BY <1>1, <2>3, ContentFacts DEF RemoveFiles
    <3> QED BY <2>3, <3>1 DEF IInv, CallsInv, TypeOK, RemoveFiles, Has
  <2>4. CASE Delete(i) \/ DeleteRow(i)
    BY <2>4 DEF Delete, DeleteRow, IInv, CallsInv, TypeOK
  <2> QED BY <2>1, <2>2, <2>3, <2>4
<1>6. /\ inst' \in [Instances -> InstanceStatus]
      /\ export' \in [Instances -> Ids \cup {None}]
  BY DEF IInv, CallsInv, TypeOK, Launch, Login, Delete, RemoveFiles, DeleteRow, InstanceStatus
<1>7. UNCHANGED <<policy, vault, past, row, files, lock, gate, orphan, task, up, ghosts>>
  BY DEF Launch, Login, Delete, RemoveFiles, DeleteRow
<1>8. TypeOK'
  BY <1>3, <1>4, <1>5, <1>6, <1>7, GateIsType DEF IInv, CallsInv, TypeOK, files, ghosts
<1> QED BY <1>3, <1>8 DEF CallsInv

LEMMA OutsideKeep ==
    ASSUME IInv, OrphanExits \/ (\E p \in Policy : SetPolicy(p)) \/ UNCHANGED vars
    PROVE  CallsInv'
<1>1. GateInv' /\ ControlInv' /\ RowInv' /\ SnapshotInv' /\ PlaceInv' /\ CookieInv'
  BY RestKeeps DEF OrphanExits, SetPolicy, vars, files, instances, ghosts, StaysGone
<1>2. left' \in [calls : Nat, logins : Nat, crashes : Nat]
  BY DEF IInv, CallsInv, TypeOK, OrphanExits, SetPolicy, vars
<1>3. TypeOK'
  <2> USE <1>1, <1>2, GateIsType DEF IInv, CallsInv, TypeOK, files, instances, ghosts
  <2>1. CASE OrphanExits BY <2>1 DEF OrphanExits
  <2>2. ASSUME NEW p \in Policy, SetPolicy(p) PROVE TypeOK'
    BY <2>2 DEF SetPolicy
  <2>3. CASE UNCHANGED vars BY <2>3 DEF vars
  <2> QED BY <2>1, <2>2, <2>3
<1> QED BY <1>1, <1>3 DEF IInv, CallsInv

LEMMA CloneKeeps ==
    ASSUME IInv, NEW t \in Tasks, NEW i \in Instances, Clone(t, i)
    PROVE  CallsInv'
<1> DEFINE r == [Idle EXCEPT !.op = "clone", !.pc = "cloning", !.ins = i, !.todo = Has(dir)]
<1>1. r \in Task /\ Fits(r) /\ r.pc = "cloning"
  BY IdleIsTask DEF Idle, Task, Op, Pc, Has, Fits, Locking, Capturing, Working
<1> HIDE DEF r
<1>2. UNCHANGED <<vault, row, dir, old, tmp, lock, gate, up, kept, source, fate>> /\ up
      /\ task[t].pc = "idle" /\ StaysGone
  BY DEF Clone, Free, files, ghosts, StaysGone
<1>3. /\ GateInv' /\ ControlInv' /\ RowInv' /\ SnapshotInv' /\ PlaceInv' /\ CookieInv'
      /\ task' \in [Tasks -> Task]
  <2>1. CASE UNCHANGED task
    BY <1>2, <2>1, RestKeeps DEF IInv, CallsInv, TypeOK
  <2>2. CASE task' = [task EXCEPT ![t] = r]
    <3>1. Moves(t, r) BY <1>1, <2>2, SetMoves DEF IInv, CallsInv, TypeOK
    <3> QED BY <1>1, <1>2, <3>1, BeforeKeeps DEF Moves
  <2> QED BY <2>1, <2>2 DEF Clone, r
<1>4. inst' \in [Instances -> InstanceStatus]
  BY DEF IInv, CallsInv, TypeOK, Clone, InstanceStatus
<1>5. TypeOK'
  BY <1>3, <1>4, FreeCounts, GateIsType DEF IInv, CallsInv, TypeOK, Clone, files, ghosts
<1> QED BY <1>3, <1>5 DEF IInv, CallsInv

LEMMA CloneCopyKeeps ==
    ASSUME IdentityAssumption, IInv, NEW t \in Tasks, CloneCopy(t)
    PROVE  CallsInv'
<1> DEFINE i == task[t].ins
           p == NextPart(t)
           r == [task[t] EXCEPT !.todo = @ \ {p}]
<1>1. /\ task[t] \in Task /\ Fits(task[t]) /\ task[t].pc = "cloning" /\ up
      /\ i \in Instances /\ p \in Parts
  BY IdleIsTask DEF IInv, CallsInv, TypeOK, ControlInv, CloneCopy, Fits, NextPart, Parts
<1>0. prof[i] \in Content /\ prof[i] # Absent /\ StaysGone
  <2>1. prof[i] \in Content /\ prof[i] # Absent
    BY <1>1 DEF IInv, CallsInv, InstancesInv, TypeOK
  <2>2. \A j \in Instances \ {i} : prof'[j] = prof[j]
    BY DEF CloneCopy, IInv, CallsInv, TypeOK
  <2>3. \A u \in Tasks : Uses(task[u]) => task[u].ins \in Instances
    BY DEF IInv, CallsInv, ControlInv, Fits, Uses
  <2> QED BY <2>1, <2>2, <2>3 DEF StaysGone
<1>2. r \in Task /\ Fits(r) /\ r.pc = "cloning"
  BY <1>1 DEF Task, Fits, Locking, Capturing, Working
<1>3. UNCHANGED <<vault, row, dir, old, tmp, lock, gate, up, kept, source, fate>>
  BY DEF CloneCopy, files, ghosts
<1> HIDE DEF r
<1>4. /\ GateInv' /\ ControlInv' /\ RowInv' /\ SnapshotInv' /\ PlaceInv' /\ CookieInv'
      /\ task' \in [Tasks -> Task]
  <2>1. Moves(t, Idle) \/ Moves(t, r)
    BY <1>2, IdleIsTask, SetMoves DEF IInv, CallsInv, TypeOK, CloneCopy, r
  <2> QED BY <1>0, <1>1, <1>2, <1>3, <2>1, IdleIsTask, BeforeKeeps DEF Moves
<1>5. inst' \in [Instances -> InstanceStatus]
  BY DEF IInv, CallsInv, TypeOK, CloneCopy, InstanceStatus
<1>6. prof' \in [Instances -> Content \cup {Absent}]
  <2>1. Empty \in Content BY DEF Empty, Content
  <2>2. ASSUME p \in Has(dir) PROVE [prof[i] EXCEPT ![p] = dir[p]] \in Content
    BY <1>0, <1>1, <2>2 DEF Has, IInv, CallsInv, TypeOK, Content
  <2> QED BY <1>1, <2>1, <2>2 DEF IInv, CallsInv, TypeOK, CloneCopy
<1>7. TypeOK'
  BY <1>4, <1>5, <1>6, GateIsType DEF IInv, CallsInv, TypeOK, CloneCopy, files, ghosts
<1> QED BY <1>4, <1>7 DEF IInv, CallsInv

-----------------------------------------------------------------------------
(* The lock and the gate.                                                   *)

LEMMA NobodyHolds ==
    ASSUME IdentityAssumption, IInv, lock = None, NEW u \in Tasks
    PROVE  ~Holds(task[u]) /\ ~(task[u].pc \in {"remove", "commit", "vault"} /\ task[u].op # "self")
  BY DEF IdentityAssumption, IInv, CallsInv, ControlInv, Holds, Locking, Working, Capturing

\* Who works on the snapshot does it alone.
LEMMA WorksAlone ==
    ASSUME IdentityAssumption, IInv, NEW t \in Tasks, gate = None \/ task[t].pc \in Working,
           NEW u \in Tasks \ {t}
    PROVE  task[u].pc \notin Working
  BY PcWorking DEF IdentityAssumption, IInv, CallsInv, GateInv

LEMMA LockKeeps ==
    ASSUME IdentityAssumption, IInv, NEW t \in Tasks, Lock(t)
    PROVE  CallsInv'
<1> DEFINE p == [task[t] EXCEPT !.pc = "gate", !.seen = row, !.who = export[task[t].ins]]
           q == [task[t] EXCEPT !.pc = "gate", !.seen = row]
<1>1. /\ task[t] \in Task /\ Fits(task[t]) /\ task[t].pc = "lock" /\ up
      /\ row \in Row /\ lock = None
  BY IdleIsTask DEF IInv, CallsInv, TypeOK, ControlInv, Lock, LockFree
<1>2. task[t].pc \notin Working /\ task[t].op # "self" /\ gate # t
  BY <1>1, PcWorking DEF Fits, Working, Capturing, IInv, CallsInv, GateInv
<1>3. ~Holds(task[t]) /\ lock # t
  BY <1>1, NobodyHolds DEF IdentityAssumption
<1>4. UNCHANGED <<row, dir, old, tmp, gate, up, kept, source, fate, prof>>
  BY DEF Lock, files, instances, ghosts
<1>5. task[t].op = "promote" /\ export[task[t].ins] # None =>
         p \in Task /\ Fits(p) /\ p.pc = "gate" /\ p.op = "promote" /\ p.first = task[t].first
  BY <1>1 DEF Task, Pc, Fits, Locking, Capturing, Working, IInv, CallsInv, TypeOK
<1>6. task[t].op \in {"capture", "reset"} =>
         q \in Task /\ Fits(q) /\ q.pc = "gate" /\ q.op = task[t].op
  BY <1>1 DEF Task, Pc, Fits, Locking, Capturing, Working
<1> HIDE DEF p, q
<1>7. /\ \/ Moves(t, Idle) /\ UNCHANGED <<lock, vault, past>>
         \/ /\ Moves(t, p) /\ p.pc = "gate" /\ p.op = "promote" /\ Fits(p)
            /\ lock' = t /\ UNCHANGED <<vault, past>>
            /\ p.first => vault = None
         \/ /\ Moves(t, q) /\ q.pc = "gate" /\ q.op \in {"capture", "reset"} /\ Fits(q)
            /\ lock' = t /\ \/ UNCHANGED <<vault, past>>
                            \/ vault' = None /\ past' = {}
  <2> USE <1>1, SetMoves DEF IInv, CallsInv, TypeOK
  <2>1. CASE task[t].op = "promote" /\ UNCHANGED lock
    BY <2>1, <1>3, IdleIsTask DEF Lock
  <2>2. CASE task[t].op = "promote" /\ lock' = t
    <3>1. /\ task' = [task EXCEPT ![t] = p] /\ UNCHANGED <<vault, past>>
          /\ ~(task[t].first /\ Taken) /\ export[task[t].ins] # None
      BY <2>2, <1>3 DEF Lock, Promotes, p
    <3>2. Moves(t, p) BY <3>1, <1>5, <2>2
    <3>3. p.first => vault = None BY <3>1, <1>5, <2>2 DEF Taken
    <3> QED BY <2>2, <3>1, <3>2, <3>3, <1>5
  <2>3. CASE task[t].op = "capture"
    BY <2>3, <1>6, IdleIsTask DEF Lock, q
  <2>4. CASE task[t].op = "reset"
    BY <2>4, <1>6 DEF Lock, q
  <2> QED BY <1>1, <2>1, <2>2, <2>3, <2>4 DEF Lock, Fits
<1>8. ASSUME NEW STATE r, Moves(t, r), Fits(r), lock' = t,
             r.pc = "gate", r.op # "self", r.op = "promote" /\ r.first => vault' = None
      PROVE  ControlInv' /\ GateInv' /\ RowInv' /\ SnapshotInv' /\ PlaceInv' /\ CookieInv'
  <2>1. Holds(r) /\ r.pc \notin Working BY <1>8 DEF Holds, Locking, Working, Capturing
  <2>2. \A u \in Tasks \ {t} : lock' = u <=> lock = u
    BY <1>1, <1>8 DEF IdentityAssumption
  <2>3. ControlInv' BY <1>1, <1>4, <1>8, <2>1, <2>2, ControlKeeps DEF IInv, CallsInv
  <2>4. GateInv' BY <1>2, <1>4, <1>8, <2>1, GateKeeps DEF IInv, CallsInv
  <2>5. RowInv' /\ SnapshotInv' /\ PlaceInv'
    BY <1>2, <1>4, <1>8, <2>1, QuietKeeps DEF IInv, CallsInv
  <2>6. ASSUME NEW u \in Tasks
        PROVE  /\ Holds(task'[u]) /\ task'[u].op = "promote" /\ task'[u].first => vault' = None
               /\ task'[u].pc \in {"remove", "commit", "vault"} /\ task'[u].op # "self" =>
                     source = task'[u].ins \/ prof'[task'[u].ins] = Absent
    <3>1. CASE u = t BY <1>8, <3>1 DEF Moves
    <3>2. CASE u # t BY <1>1, <1>8, <3>2, NobodyHolds DEF Moves
    <3> QED BY <3>1, <3>2
  <2>7. CookieInv' BY <1>4, <2>6 DEF CookieInv
  <2> QED BY <2>3, <2>4, <2>5, <2>7
<1>9. ASSUME Moves(t, Idle), UNCHANGED <<lock, vault, past>>
      PROVE  ControlInv' /\ GateInv' /\ RowInv' /\ SnapshotInv' /\ PlaceInv' /\ CookieInv'
  <2>1. ~Holds(Idle) /\ Idle.pc \notin Working /\ Fits(Idle)
    BY IdleIsTask DEF Working, Capturing
  <2>2. ControlInv' BY <1>1, <1>3, <1>4, <1>9, <2>1, ControlKeeps DEF IInv, CallsInv
  <2>3. GateInv' BY <1>2, <1>4, <1>9, <2>1, GateKeeps DEF IInv, CallsInv
  <2>4. RowInv' /\ SnapshotInv' /\ PlaceInv'
    BY <1>2, <1>4, <1>9, <2>1, QuietKeeps DEF IInv, CallsInv
  <2>5. CookieInv' BY <1>4, <1>9, <2>1, IdleIsTask, CookieKeeps DEF IInv, CallsInv, StaysGone
  <2> QED BY <2>2, <2>3, <2>4, <2>5
<1>10. ControlInv' /\ GateInv' /\ RowInv' /\ SnapshotInv' /\ PlaceInv' /\ CookieInv'
  BY <1>4, <1>7, <1>8, <1>9
<1>11. lock' \in Tasks \cup {None} /\ vault' \in Vault \cup {None} /\ past' \subseteq Vault
       /\ task' \in [Tasks -> Task]
  BY <1>7 DEF IInv, CallsInv, TypeOK, Moves
<1>12. TypeOK'
  BY <1>10, <1>11, GateIsType DEF IInv, CallsInv, TypeOK, Lock, files, instances, ghosts
<1> QED BY <1>10, <1>12 DEF IInv, CallsInv

LEMMA RestoreKeeps ==
    ASSUME IdentityAssumption, IInv, NEW v \in past, Restore(v)
    PROVE  CallsInv'
<1>1. UNCHANGED <<task, row, dir, old, tmp, lock, gate, up, kept, source, fate>> /\ lock = None
  BY DEF Restore, files, ghosts
<1>2. GateInv' BY <1>1, PcWorking DEF IInv, CallsInv, GateInv
<1>3. ControlInv' /\ RowInv' /\ SnapshotInv' /\ PlaceInv'
  BY <1>1 DEF IInv, CallsInv, ControlInv, RowInv, SnapshotInv, PlaceInv
<1>4. CookieInv' BY <1>1, NobodyHolds DEF CookieInv
<1>5. vault' \in Vault /\ past' \subseteq Vault
  BY DEF IInv, CallsInv, TypeOK, Restore, Vault
<1>6. left' \in [calls : Nat, logins : Nat, crashes : Nat]
  BY DEF IInv, CallsInv, TypeOK, Restore
<1>7. TypeOK'
  BY <1>2, <1>5, <1>6, GateIsType DEF IInv, CallsInv, TypeOK, Restore, files, instances, ghosts
<1> QED BY <1>2, <1>3, <1>4, <1>7 DEF IInv, CallsInv

\* A call that ends gives back what it holds.
LEMMA EndKeeps ==
    ASSUME IdentityAssumption, IInv, NEW t \in Tasks, End(t), up, up' = up
    PROVE  Moves(t, Idle) /\ ControlInv' /\ GateInv'
           /\ lock' \in Tasks \cup {None} /\ gate' \in Tasks \cup {None}
<1>1. Moves(t, Idle) BY EndMoves DEF IInv, CallsInv, TypeOK
<1>2. Idle.pc \notin Working BY IdleIsTask DEF Working, Capturing
<1>3. /\ lock' # t /\ \A u \in Tasks \ {t} : lock' = u <=> lock = u
      /\ gate' # t /\ \A u \in Tasks \ {t} : gate' = u <=> gate = u
      /\ lock' \in Tasks \cup {None} /\ gate' \in Tasks \cup {None}
  BY DEF End, IdentityAssumption, IInv, CallsInv, TypeOK
<1>4. ControlInv' BY <1>1, <1>3, IdleIsTask, ControlKeeps DEF IInv, CallsInv
<1>5. GateInv' BY <1>1, <1>2, <1>3, GateKeeps DEF IInv, CallsInv
<1> QED BY <1>1, <1>3, <1>4, <1>5

LEMMA DropKeeps ==
    ASSUME IdentityAssumption, IInv, NEW t \in Tasks, Drop(t)
    PROVE  CallsInv'
<1>1. task[t].pc \notin Working /\ up
  BY IdleIsTask DEF Drop, Working, Capturing, IInv, CallsInv, ControlInv
<1>2. UNCHANGED <<vault, row, dir, old, tmp, up, kept, source, fate, prof>>
  BY DEF Drop, files, instances, ghosts
<1>3. Moves(t, Idle) /\ ControlInv' /\ GateInv'
      /\ lock' \in Tasks \cup {None} /\ gate' \in Tasks \cup {None}
  BY <1>1, <1>2, EndKeeps DEF Drop
<1>4. Idle.pc \notin Working BY IdleIsTask DEF Working, Capturing
<1>5. RowInv' /\ SnapshotInv' /\ PlaceInv'
  BY <1>1, <1>2, <1>3, <1>4, QuietKeeps DEF IInv, CallsInv
<1>6. CookieInv' BY <1>2, <1>3, IdleIsTask, CookieKeeps DEF StaysGone, IInv, CallsInv
<1>7. TypeOK'
  BY <1>3, GateIsType DEF IInv, CallsInv, TypeOK, Drop, files, instances, ghosts, Moves
<1> QED BY <1>3, <1>5, <1>6, <1>7 DEF IInv, CallsInv

\* Nobody else holds the lock while the call does.
LEMMA HoldsAlone ==
    ASSUME IInv, NEW t \in Tasks, Holds(task[t]), NEW u \in Tasks \ {t}
    PROVE  ~Holds(task[u]) /\ ~(task[u].pc \in {"remove", "commit", "vault"} /\ task[u].op # "self")
  BY DEF IInv, CallsInv, ControlInv, Holds, Locking, Working, Capturing

LEMMA WriteVaultKeeps ==
    ASSUME IdentityAssumption, IInv, NEW t \in Tasks, WriteVault(t)
    PROVE  CallsInv'
<1>1. /\ task[t] \in Task /\ task[t].pc = "vault" /\ task[t].op \in {"promote", "capture"}
      /\ task[t].who \in Ids /\ up
  BY IdleIsTask DEF IInv, CallsInv, TypeOK, ControlInv, WriteVault, Fits, Locking
<1>2. Holds(task[t]) /\ task[t].pc \notin Working
  BY <1>1 DEF Holds, Locking, Working, Capturing
<1>3. UNCHANGED <<row, dir, old, tmp, up, kept, source, fate>>
  BY DEF WriteVault, files, ghosts
<1>4. Moves(t, Idle) /\ ControlInv' /\ GateInv'
      /\ lock' \in Tasks \cup {None} /\ gate' \in Tasks \cup {None}
  BY <1>1, <1>3, EndKeeps DEF WriteVault
<1>5. Idle.pc \notin Working BY IdleIsTask DEF Working, Capturing
<1>6. RowInv' /\ SnapshotInv' /\ PlaceInv'
  BY <1>2, <1>3, <1>4, <1>5, QuietKeeps DEF IInv, CallsInv
<1>7. ASSUME NEW u \in Tasks
      PROVE  ~Holds(task'[u]) /\ ~(task'[u].pc \in {"remove", "commit", "vault"} /\ task'[u].op # "self")
  <2>1. CASE u = t BY <1>4, <2>1, IdleIsTask DEF Moves
  <2>2. CASE u # t BY <1>2, <1>4, <2>2, HoldsAlone DEF Moves
  <2> QED BY <2>1, <2>2
<1>8. CookieInv' BY <1>7 DEF CookieInv
<1>9. vault' \in Vault \cup {None} /\ past' \subseteq Vault
  BY <1>1 DEF IInv, CallsInv, TypeOK, WriteVault, Vault
<1>10. TypeOK'
  BY <1>4, <1>9, GateIsType DEF IInv, CallsInv, TypeOK, WriteVault, files, instances, ghosts, Moves
<1> QED BY <1>4, <1>6, <1>8, <1>10 DEF IInv, CallsInv

-----------------------------------------------------------------------------
(* Behind the gate: the call is alone, so the row, the snapshot and the call *)
(* that moves are all there is to look at.                                   *)

LEMMA WorkerKeeps ==
    ASSUME NEW t \in Tasks, NEW STATE r, Moves(t, r),
           \A u \in Tasks \ {t} : task[u].pc \notin Working
    PROVE  /\ /\ row'.status = "ready" => row'.version > 0
              /\ up' => (row'.status = "capturing" <=> r.pc \in Capturing)
              => RowInv'
           /\ /\ kept' # Absent /\ fate' # "lost" => kept' = (IF dir' = Absent THEN old' ELSE dir')
              /\ r.pc \in {"copy", "archive", "place"} => tmp' # Absent
              /\ r.pc = "copy" /\ r.op = "self" => dir' # Absent
              /\ r.pc = "place" => dir' = Absent
              /\ r.pc = "remove" => dir' = kept' /\ dir' # Absent
              /\ r.pc = "make" => kept' = Absent
              => SnapshotInv'
           /\ (fate' = "held" /\ up' /\ kept' # Absent /\ dir' = Absent => r.pc = "place")
              => PlaceInv'
<1>1. \A u \in Tasks \ {t} : task'[u].pc \notin Working
  BY DEF Moves
<1>2. task'[t] = r BY DEF Moves
<1>3. \A u \in Tasks : task'[u].pc \in Capturing <=> u = t /\ r.pc \in Capturing
  BY <1>1, <1>2 DEF Working
<1>4. ASSUME row'.status = "ready" => row'.version > 0,
             up' => (row'.status = "capturing" <=> r.pc \in Capturing)
      PROVE  RowInv'
  BY <1>3, <1>4 DEF RowInv
<1>5. ASSUME kept' # Absent /\ fate' # "lost" => kept' = (IF dir' = Absent THEN old' ELSE dir'),
             r.pc \in {"copy", "archive", "place"} => tmp' # Absent,
             r.pc = "copy" /\ r.op = "self" => dir' # Absent,
             r.pc = "place" => dir' = Absent,
             r.pc = "remove" => dir' = kept' /\ dir' # Absent,
             r.pc = "make" => kept' = Absent
      PROVE  SnapshotInv'
  <2>1. ASSUME NEW u \in Tasks
        PROVE  /\ task'[u].pc \in {"copy", "archive", "place"} => tmp' # Absent
               /\ task'[u].pc = "copy" /\ task'[u].op = "self" => dir' # Absent
               /\ task'[u].pc = "place" => dir' = Absent
               /\ task'[u].pc = "remove" => dir' = kept' /\ dir' # Absent
               /\ task'[u].pc = "make" => kept' = Absent
    <3>1. CASE u = t BY <1>2, <1>5, <3>1
    <3>2. CASE u # t BY <1>1, <3>2 DEF Working, Capturing
    <3> QED BY <3>1, <3>2
  <2> QED BY <1>5, <2>1 DEF SnapshotInv
<1>6. ASSUME fate' = "held" /\ up' /\ kept' # Absent /\ dir' = Absent => r.pc = "place"
      PROVE  PlaceInv'
  BY <1>2, <1>6 DEF PlaceInv
<1> QED BY <1>4, <1>5, <1>6

\* What is known of a call at work.
LEMMA WorkerFacts ==
    ASSUME IdentityAssumption, IInv, NEW t \in Tasks, task[t].pc \in Working
    PROVE  /\ task[t] \in Task /\ Fits(task[t]) /\ up /\ gate = t
           /\ \A u \in Tasks \ {t} : task[u].pc \notin Working
           /\ task[t].op # "self" => Holds(task[t]) /\ task[t].ins \in Instances \cup {None}
           /\ task[t].op \in {"promote", "capture"} => task[t].ins \in Instances
           /\ {dir, old, tmp, kept} \subseteq Content \cup {Absent}
           /\ row \in Row /\ prof \in [Instances -> Content \cup {Absent}]
<1>1. task[t] \in Task /\ Fits(task[t]) BY DEF IInv, CallsInv, TypeOK, ControlInv
<1>2. up BY IdleIsTask DEF IInv, CallsInv, ControlInv, Working, Capturing
<1>3. gate = t BY PcWorking DEF IInv, CallsInv, GateInv
<1>4. \A u \in Tasks \ {t} : task[u].pc \notin Working BY WorksAlone
<1>5. /\ task[t].op # "self" => Holds(task[t]) /\ task[t].ins \in Instances \cup {None}
      /\ task[t].op \in {"promote", "capture"} => task[t].ins \in Instances
  BY <1>1 DEF Holds, Locking, Fits, Working, Capturing, Task
<1> QED BY <1>1, <1>2, <1>3, <1>4, <1>5 DEF IInv, CallsInv, TypeOK

\* A call that goes on with its work.
LEMMA WorkMoves ==
    ASSUME IdentityAssumption, IInv, NEW t \in Tasks, task[t].pc \in Working,
           NEW STATE r, Moves(t, r), Fits(r), r.pc \in Working, r.op = task[t].op,
           UNCHANGED <<lock, gate, up>>
    PROVE  ControlInv' /\ GateInv'
<1>1. Holds(r) <=> Holds(task[t]) BY DEF Holds, Locking
<1>2. (lock' = t <=> Holds(r)) /\ gate' = t
  BY <1>1, WorkerFacts DEF IInv, CallsInv, ControlInv
<1>3. ControlInv' BY <1>2, WorkerFacts, ControlKeeps DEF IInv, CallsInv
<1>4. GateInv' BY <1>2, GateKeeps DEF IInv, CallsInv
<1> QED BY <1>3, <1>4

LEMMA GotoWorks ==
    ASSUME IdentityAssumption, IInv, NEW t \in Tasks, task[t].pc \in Working,
           NEW pc \in Working, Goto(t, pc), UNCHANGED <<lock, gate, up>>,
           pc \in Capturing <=> task[t].pc \in Capturing
    PROVE  /\ Moves(t, [task[t] EXCEPT !.pc = pc]) /\ ControlInv' /\ GateInv'
           /\ [task[t] EXCEPT !.pc = pc].pc = pc
           /\ [task[t] EXCEPT !.pc = pc].op = task[t].op
           /\ [task[t] EXCEPT !.pc = pc].ins = task[t].ins
           /\ [task[t] EXCEPT !.pc = pc].first = task[t].first
<1> DEFINE r == [task[t] EXCEPT !.pc = pc]
<1>1. pc \in Pc BY DEF Working, Capturing, Pc
<1>2. Moves(t, r) BY <1>1, GotoMoves DEF IInv, CallsInv, TypeOK
<1>3. r.pc = pc /\ r.op = task[t].op /\ r.ins = task[t].ins /\ r.first = task[t].first
      /\ r.who = task[t].who
  BY WorkerFacts DEF Task
<1> HIDE DEF r
<1>4. Fits(r) BY <1>3, WorkerFacts DEF Fits, Working, Capturing, Locking
<1>5. ControlInv' /\ GateInv' BY <1>2, <1>3, <1>4, WorkMoves
<1> QED BY <1>2, <1>3, <1>5 DEF r

LEMMA ArchiveKeeps ==
    ASSUME IdentityAssumption, IInv, NEW t \in Tasks, Archive(t)
    PROVE  CallsInv'
<1> DEFINE r == [task[t] EXCEPT !.pc = "place"]
<1>1. task[t].pc = "archive" /\ task[t].pc \in Working /\ Goto(t, "place")
  BY DEF Archive, Working, Capturing
<1>2. UNCHANGED <<vault, row, tmp, lock, gate, up, kept, source, fate, prof>>
  BY DEF Archive, instances, ghosts
<1>3. /\ Moves(t, r) /\ ControlInv' /\ GateInv' /\ r.pc = "place"
      /\ r.op = task[t].op /\ r.ins = task[t].ins /\ r.first = task[t].first
  BY <1>1, <1>2, GotoWorks DEF Working, Capturing
<1>4. dir' = Absent /\ old' = (IF dir = Absent THEN old ELSE dir)
  BY DEF Archive
<1> HIDE DEF r
<1>5. \A u \in Tasks \ {t} : task[u].pc \notin Working BY <1>1, WorkerFacts
<1>6. RowInv' BY <1>1, <1>2, <1>3, <1>5, WorkerKeeps DEF IInv, CallsInv, RowInv, Capturing
<1>7. SnapshotInv'
  BY <1>1, <1>2, <1>3, <1>4, <1>5, WorkerKeeps DEF IInv, CallsInv, SnapshotInv
<1>8. PlaceInv' BY <1>3, <1>5, WorkerKeeps
<1>9. CookieInv'
  BY <1>1, <1>2, <1>3, CookieKeeps DEF StaysGone, IInv, CallsInv, CookieInv, Holds, Locking, Working, Capturing
<1>10. TypeOK'
  BY <1>3, <1>4, GateIsType DEF IInv, CallsInv, TypeOK, Archive, instances, ghosts, Moves
<1> QED BY <1>3, <1>6, <1>7, <1>8, <1>9, <1>10 DEF IInv, CallsInv

LEMMA PlaceKeeps ==
    ASSUME IdentityAssumption, IInv, NEW t \in Tasks, Place(t)
    PROVE  CallsInv'
<1> DEFINE r == [task[t] EXCEPT !.pc = "remove"]
<1>1. task[t].pc = "place" /\ task[t].pc \in Working /\ Goto(t, "remove")
  BY DEF Place, Working, Capturing
<1>2. UNCHANGED <<vault, row, old, lock, gate, up, prof>>
  BY DEF Place, instances
<1>3. /\ Moves(t, r) /\ ControlInv' /\ GateInv' /\ r.pc = "remove"
      /\ r.op = task[t].op /\ r.ins = task[t].ins /\ r.first = task[t].first
  BY <1>1, <1>2, GotoWorks DEF Working, Capturing
<1>4. dir' = tmp /\ tmp' = Absent /\ kept' = tmp /\ tmp # Absent /\ fate' = "held"
  BY <1>1 DEF Place, IInv, CallsInv, SnapshotInv
<1> HIDE DEF r
<1>5. \A u \in Tasks \ {t} : task[u].pc \notin Working BY <1>1, WorkerFacts
<1>6. RowInv' BY <1>1, <1>2, <1>3, <1>5, WorkerKeeps DEF IInv, CallsInv, RowInv, Capturing
<1>7. SnapshotInv' BY <1>3, <1>4, <1>5, WorkerKeeps
<1>8. PlaceInv' BY <1>3, <1>4, <1>5, WorkerKeeps
<1>9. CookieInv'
  <2>1. CASE task[t].op = "self"
    <3>1. source' = source BY <2>1 DEF Place
    <3> QED BY <1>2, <1>3, <2>1, <3>1, CookieKeeps DEF StaysGone, IInv, CallsInv, Holds
  <2>2. CASE task[t].op # "self"
    <3>1. source' = task[t].ins BY <2>2 DEF Place
    <3>2. Holds(task[t]) BY <1>1, <2>2, WorkerFacts
    <3>3. ASSUME NEW u \in Tasks
          PROVE  /\ Holds(task'[u]) /\ task'[u].op = "promote" /\ task'[u].first => vault = None
                 /\ task'[u].pc \in {"remove", "commit", "vault"} /\ task'[u].op # "self" =>
                       source' = task'[u].ins \/ prof'[task'[u].ins] = Absent
      <4>1. CASE u = t BY <1>3, <3>1, <3>2, <4>1 DEF Moves, IInv, CallsInv, CookieInv
      <4>2. CASE u # t BY <1>3, <3>2, <4>2, HoldsAlone DEF Moves
      <4> QED BY <4>1, <4>2
    <3> QED BY <1>2, <3>3 DEF CookieInv
  <2> QED BY <2>1, <2>2
<1>10. source' \in Instances \cup {None}
  BY <1>1, WorkerFacts DEF Place, IInv, CallsInv, TypeOK
<1>11. TypeOK'
  BY <1>3, <1>4, <1>10, GateIsType DEF IInv, CallsInv, TypeOK, Place, instances, Moves, Fate
<1> QED BY <1>3, <1>6, <1>7, <1>8, <1>9, <1>11 DEF IInv, CallsInv

LEMMA RemoveKeeps ==
    ASSUME IdentityAssumption, IInv, NEW t \in Tasks, Remove(t)
    PROVE  CallsInv'
<1> DEFINE r == [task[t] EXCEPT !.pc = "commit"]
<1>1. task[t].pc = "remove" /\ task[t].pc \in Working /\ Goto(t, "commit")
  BY DEF Remove, Working, Capturing
<1>2. UNCHANGED <<vault, row, dir, tmp, lock, gate, up, kept, source, fate, prof>>
  BY DEF Remove, instances, ghosts
<1>3. /\ Moves(t, r) /\ ControlInv' /\ GateInv' /\ r.pc = "commit"
      /\ r.op = task[t].op /\ r.ins = task[t].ins /\ r.first = task[t].first
  BY <1>1, <1>2, GotoWorks DEF Working, Capturing
<1>4. old' \in {Absent, old} /\ dir = kept /\ dir # Absent
  BY <1>1 DEF Remove, IInv, CallsInv, SnapshotInv
<1> HIDE DEF r
<1>5. \A u \in Tasks \ {t} : task[u].pc \notin Working BY <1>1, WorkerFacts
<1>6. RowInv' BY <1>1, <1>2, <1>3, <1>5, WorkerKeeps DEF IInv, CallsInv, RowInv, Capturing
<1>7. SnapshotInv' BY <1>2, <1>3, <1>4, <1>5, WorkerKeeps
<1>8. PlaceInv' BY <1>2, <1>3, <1>4, <1>5, WorkerKeeps
<1>9. CookieInv'
  BY <1>1, <1>2, <1>3, CookieKeeps DEF StaysGone, IInv, CallsInv, CookieInv, Holds, Locking, Working, Capturing
<1>10. TypeOK'
  BY <1>3, <1>4, GateIsType DEF IInv, CallsInv, TypeOK, Remove, instances, ghosts, Moves
<1> QED BY <1>3, <1>6, <1>7, <1>8, <1>9, <1>10 DEF IInv, CallsInv

\* Ready is a version after the one that was read.
LEMMA CommitKeeps ==
    ASSUME IdentityAssumption, IInv, NEW t \in Tasks, Commit(t)
    PROVE  CallsInv'
<1> DEFINE r == [task[t] EXCEPT !.pc = "vault"]
<1>1. task[t].pc = "commit" /\ task[t].pc \in Working /\ up
  BY WorkerFacts DEF Commit, Working, Capturing
<1>2. UNCHANGED <<vault, dir, old, tmp, up, kept, source, fate, prof>>
  BY DEF Commit, files, instances, ghosts
<1>3. row' \in Row /\ row'.status = "ready" /\ row'.version > 0
  <2>1. task[t].seen.version \in Nat BY <1>1, WorkerFacts DEF Task, Row
  <2> QED BY <2>1 DEF Commit, Row, Status
<1>4. r \in Task /\ r.pc = "vault" /\ r.op = task[t].op /\ r.ins = task[t].ins
      /\ r.first = task[t].first /\ r.who = task[t].who
  BY <1>1, WorkerFacts DEF Task, Pc
<1> HIDE DEF r
<1>5. /\ \/ Moves(t, Idle)
         \/ Moves(t, r) /\ task[t].op # "self"
      /\ ControlInv' /\ GateInv'
      /\ lock' \in Tasks \cup {None} /\ gate' \in Tasks \cup {None}
  <2>1. CASE task[t].op = "self"
    BY <1>1, <1>2, <2>1, EndKeeps DEF Commit
  <2>2. CASE task[t].op # "self"
    <3>1. Moves(t, r) /\ lock' = lock /\ gate' = None
      BY <1>4, <2>2, SetMoves DEF Commit, Goto, r, IInv, CallsInv, TypeOK
    <3>2. Fits(r) /\ Holds(r) /\ Holds(task[t]) /\ r.pc \notin Working
      BY <1>1, <1>4, <2>2, WorkerFacts DEF Fits, Holds, Locking, Working, Capturing
    <3>3. lock' = t BY <3>1, <3>2 DEF IInv, CallsInv, ControlInv
    <3>4. ControlInv' BY <1>1, <1>2, <3>1, <3>2, <3>3, ControlKeeps DEF IInv, CallsInv
    <3>5. gate = t BY <1>1, WorkerFacts
    <3>6. GateInv' BY <3>1, <3>2, <3>5, GateKeeps DEF IInv, CallsInv, IdentityAssumption
    <3> QED BY <2>2, <3>1, <3>3, <3>4, <3>6
  <2> QED BY <2>1, <2>2
<1>6. ASSUME NEW STATE q, Moves(t, q), q.pc \notin Working
      PROVE  RowInv' /\ SnapshotInv' /\ PlaceInv'
  <2>1. \A u \in Tasks \ {t} : task[u].pc \notin Working BY <1>1, WorkerFacts
  <2>2. RowInv' BY <1>3, <1>6, <2>1, WorkerKeeps DEF Working
  <2>3. SnapshotInv'
    BY <1>2, <1>6, <2>1, WorkerKeeps DEF IInv, CallsInv, SnapshotInv, Working, Capturing
  <2>4. PlaceInv'
    BY <1>1, <1>2, <1>6, <2>1, WorkerKeeps DEF IInv, CallsInv, PlaceInv, Working, Capturing
  <2> QED BY <2>2, <2>3, <2>4
<1>7. Idle.pc \notin Working /\ r.pc \notin Working
  BY <1>4, IdleIsTask DEF Working, Capturing
<1>8. CookieInv'
  <2>1. CASE Moves(t, Idle) BY <1>2, <2>1, IdleIsTask, CookieKeeps DEF StaysGone, IInv, CallsInv
  <2>2. CASE Moves(t, r) /\ task[t].op # "self"
    BY <1>1, <1>2, <1>4, <2>2, CookieKeeps DEF StaysGone, IInv, CallsInv, CookieInv, Holds, Locking, Working, Capturing
  <2> QED BY <1>5, <2>1, <2>2
<1>9. TypeOK'
  BY <1>3, <1>5, GateIsType DEF IInv, CallsInv, TypeOK, Commit, files, instances, ghosts, Moves
<1> QED BY <1>5, <1>6, <1>7, <1>8, <1>9 DEF IInv, CallsInv

\* A call that puts its work down, whatever it leaves.
LEMMA StopsWorking ==
    ASSUME IdentityAssumption, IInv, NEW t \in Tasks, task[t].pc \in Working, End(t),
           UNCHANGED <<vault, up, prof>>,
           row'.status # "capturing", row'.status = "ready" => row'.version > 0,
           kept' # Absent /\ fate' # "lost" => kept' = (IF dir' = Absent THEN old' ELSE dir'),
           fate' = "held" /\ kept' # Absent => dir' # Absent,
           source' = source \/ task[t].op # "self"
    PROVE  /\ Moves(t, Idle) /\ lock' \in Tasks \cup {None} /\ gate' \in Tasks \cup {None}
           /\ GateInv' /\ ControlInv' /\ RowInv' /\ SnapshotInv' /\ PlaceInv' /\ CookieInv'
<1>1. up /\ \A u \in Tasks \ {t} : task[u].pc \notin Working BY WorkerFacts
<1>2. /\ Moves(t, Idle) /\ ControlInv' /\ GateInv'
      /\ lock' \in Tasks \cup {None} /\ gate' \in Tasks \cup {None}
  BY <1>1, EndKeeps
<1>3. RowInv' BY <1>1, <1>2, IdleIsTask, WorkerKeeps DEF Capturing
<1>4. SnapshotInv' BY <1>1, <1>2, IdleIsTask, WorkerKeeps
<1>5. PlaceInv' BY <1>1, <1>2, IdleIsTask, WorkerKeeps
<1>6. CookieInv'
  <2>1. CASE source' = source BY <1>2, <2>1, IdleIsTask, CookieKeeps DEF StaysGone, IInv, CallsInv
  <2>2. CASE task[t].op # "self"
    <3>1. Holds(task[t]) BY <2>2, WorkerFacts
    <3>2. ASSUME NEW u \in Tasks
          PROVE  ~Holds(task'[u]) /\ ~(task'[u].pc \in {"remove", "commit", "vault"} /\ task'[u].op # "self")
      <4>1. CASE u = t BY <1>2, <4>1, IdleIsTask DEF Moves
      <4>2. CASE u # t BY <1>2, <3>1, <4>2, HoldsAlone DEF Moves
      <4> QED BY <4>1, <4>2
    <3> QED BY <3>2 DEF CookieInv
  <2> QED BY <2>1, <2>2
<1> QED BY <1>2, <1>3, <1>4, <1>5, <1>6

\* A file that is not there ends the capture, another is copied.
LEMMA CopyKeeps ==
    ASSUME IdentityAssumption, IInv, NEW t \in Tasks, Copy(t)
    PROVE  CallsInv'
<1> DEFINE part == NextPart(t)
           p == [task[t] EXCEPT !.pc = "archive"]
           q == [task[t] EXCEPT !.todo = @ \ {part}]
<1>1. task[t].pc = "copy" /\ task[t].pc \in Working
  BY DEF Copy, Working, Capturing
<1>2. UNCHANGED <<vault, dir, old, up, kept, source, fate, prof>>
  BY DEF Copy, instances, ghosts
<1>3. q \in Task /\ Fits(q) /\ q.pc = "copy" /\ q.op = task[t].op /\ q.ins = task[t].ins
      /\ q.first = task[t].first
  BY <1>1, WorkerFacts DEF Task, Fits, Locking, Capturing, Working
<1>4. tmp \in Content /\ part \in Parts
  BY <1>1, WorkerFacts DEF IInv, CallsInv, SnapshotInv, NextPart, Parts
<1>5. part \in Has(SourceOf(t)) => [tmp EXCEPT ![part] = SourceOf(t)[part]] \in Content
  <2> SUFFICES ASSUME part \in Has(SourceOf(t))
               PROVE  [tmp EXCEPT ![part] = SourceOf(t)[part]] \in Content
    OBVIOUS
  <2>1. SourceOf(t) \in Content
    BY <1>1, WorkerFacts DEF SourceOf, Fits, Capturing, Has
  <2> HIDE DEF part
  <2> QED BY <1>4, <2>1, ContentFacts
<1>6. \/ /\ \/ Moves(t, p) /\ p.pc = "archive"
            \/ Moves(t, q)
         /\ p.op = task[t].op /\ p.ins = task[t].ins /\ p.first = task[t].first
         /\ ControlInv' /\ GateInv' /\ tmp' \in Content /\ UNCHANGED <<row, lock, gate>>
      \/ End(t) /\ row' = [row EXCEPT !.status = "error"] /\ UNCHANGED tmp
  <2>1. CASE task[t].todo = {}
    <3>1. Goto(t, "archive") /\ UNCHANGED <<tmp, row, lock, gate>> BY <2>1 DEF Copy
    <3> QED BY <1>1, <1>2, <1>4, <3>1, GotoWorks DEF Working, Capturing
  <2>2. CASE task[t].todo # {} /\ part \in Has(SourceOf(t))
    <3>1. Moves(t, q) /\ UNCHANGED <<row, lock, gate>>
      BY <1>3, <2>2, SetMoves DEF Copy, IInv, CallsInv, TypeOK
    <3>2. ControlInv' /\ GateInv' BY <1>1, <1>2, <1>3, <3>1, WorkMoves
    <3>3. p.op = task[t].op /\ p.ins = task[t].ins /\ p.first = task[t].first
      BY <1>1, WorkerFacts DEF Task
    <3>4. tmp' \in Content BY <1>5, <2>2 DEF Copy
    <3> QED BY <3>1, <3>2, <3>3, <3>4
  <2>3. CASE task[t].todo # {} /\ part \notin Has(SourceOf(t))
    BY <2>3 DEF Copy
  <2> QED BY <2>1, <2>2, <2>3
<1> HIDE DEF p, q
<1>7. ASSUME NEW STATE r, Moves(t, r), r.pc \in {"copy", "archive"}, r.op = task[t].op,
             r.ins = task[t].ins, r.first = task[t].first, tmp' \in Content,
             UNCHANGED <<row, lock, gate>>
      PROVE  RowInv' /\ SnapshotInv' /\ PlaceInv' /\ CookieInv'
  <2>1. \A u \in Tasks \ {t} : task[u].pc \notin Working BY <1>1, WorkerFacts
  <2>2. RowInv'
    BY <1>1, <1>2, <1>7, <2>1, WorkerKeeps DEF IInv, CallsInv, RowInv, Capturing
  <2>3. SnapshotInv'
    BY <1>1, <1>2, <1>7, <2>1, WorkerKeeps, ContentFacts DEF IInv, CallsInv, SnapshotInv
  <2>4. PlaceInv'
    BY <1>1, <1>2, <1>7, <2>1, WorkerKeeps DEF IInv, CallsInv, PlaceInv, Working, Capturing
  <2>5. CookieInv'
    BY <1>1, <1>2, <1>7, CookieKeeps DEF StaysGone, IInv, CallsInv, CookieInv, Holds, Locking
  <2> QED BY <2>2, <2>3, <2>4, <2>5
<1>8. CASE End(t) /\ row' = [row EXCEPT !.status = "error"] /\ UNCHANGED tmp
  <2>1. row' \in Row /\ row'.status = "error"
    BY <1>8 DEF IInv, CallsInv, TypeOK, Row, Status
  <2>2. /\ kept' # Absent /\ fate' # "lost" => kept' = (IF dir' = Absent THEN old' ELSE dir')
        /\ fate' = "held" /\ kept' # Absent => dir' # Absent
    <3>1. ~\E u \in Tasks : task[u].pc = "place"
      BY <1>1, WorkerFacts DEF Working, Capturing
    <3>2. up BY <1>1, WorkerFacts
    <3> QED BY <1>2, <3>1, <3>2 DEF IInv, CallsInv, SnapshotInv, PlaceInv
  <2>3. /\ Moves(t, Idle) /\ lock' \in Tasks \cup {None} /\ gate' \in Tasks \cup {None}
        /\ GateInv' /\ ControlInv' /\ RowInv' /\ SnapshotInv' /\ PlaceInv' /\ CookieInv'
    BY <1>1, <1>2, <1>8, <2>1, <2>2, StopsWorking
  <2>4. TypeOK'
    BY <1>8, <2>1, <2>3, GateIsType DEF IInv, CallsInv, TypeOK, Copy, instances, ghosts, Moves
  <2> QED BY <2>3, <2>4 DEF CallsInv
<1>9. CASE ~(End(t) /\ row' = [row EXCEPT !.status = "error"] /\ UNCHANGED tmp)
  <2>1. RowInv' /\ SnapshotInv' /\ PlaceInv' /\ CookieInv'
    BY <1>3, <1>6, <1>7, <1>9
  <2>2. TypeOK'
    BY <1>6, <1>9, GateIsType DEF IInv, CallsInv, TypeOK, Copy, instances, ghosts, Moves
  <2> QED BY <1>6, <1>9, <2>1, <2>2 DEF CallsInv
<1> QED BY <1>8, <1>9

LEMMA FailKeeps ==
    ASSUME IdentityAssumption, IInv, NEW t \in Tasks, Fail(t)
    PROVE  CallsInv'
<1>1. task[t].pc \in {"resolve", "copy", "archive", "place"} /\ task[t].pc \in Working
  BY DEF Fail, Working, Capturing
<1>2. UNCHANGED <<vault, up, kept, source, prof>> /\ End(t) /\ fate' \in Fate
  BY DEF Fail, instances, IInv, CallsInv, TypeOK, Fate
<1>3. row' \in Row /\ row'.status = "error"
  BY DEF Fail, IInv, CallsInv, TypeOK, Row, Status
<1>4. \A u \in Tasks \ {t} : task[u].pc \notin Working BY <1>1, WorkerFacts
<1>5. /\ kept' # Absent /\ fate' # "lost" => kept' = (IF dir' = Absent THEN old' ELSE dir')
      /\ fate' = "held" /\ kept' # Absent => dir' # Absent
      /\ {dir', old', tmp'} \subseteq Content \cup {Absent}
  <2>0. {dir', old', tmp'} \subseteq Content \cup {Absent}
    BY DEF Fail, IInv, CallsInv, TypeOK
  <2>1. CASE task[t].pc = "place"
    <3>1. dir = Absent /\ (kept # Absent /\ fate # "lost" => kept = old)
      BY <2>1 DEF IInv, CallsInv, SnapshotInv
    <3>2. CASE old = Absent /\ UNCHANGED <<dir, old, fate>>
      BY <1>2, <2>0, <3>1, <3>2 DEF IInv, CallsInv, TypeOK, Fate
    <3>3. CASE old # Absent /\ dir' = old /\ old' = Absent /\ UNCHANGED fate
      BY <1>2, <2>0, <3>1, <3>3
    <3>4. CASE /\ old # Absent /\ fate' = (IF fate = "held" THEN "adrift" ELSE fate)
               /\ UNCHANGED <<dir, old>>
      BY <1>2, <2>0, <3>1, <3>4
    <3> QED BY <2>1, <3>2, <3>3, <3>4 DEF Fail
  <2>2. CASE task[t].pc # "place"
    <3>1. UNCHANGED <<dir, old, tmp, fate>> BY <2>2 DEF Fail
    <3>2. ~\E u \in Tasks : task[u].pc = "place"
      BY <1>4, <2>2 DEF Working, Capturing
    <3>3. up BY <1>1, WorkerFacts
    <3> QED BY <1>2, <3>1, <3>2, <3>3 DEF IInv, CallsInv, SnapshotInv, PlaceInv, TypeOK
  <2> QED BY <2>1, <2>2
<1>6. /\ Moves(t, Idle) /\ lock' \in Tasks \cup {None} /\ gate' \in Tasks \cup {None}
      /\ GateInv' /\ ControlInv' /\ RowInv' /\ SnapshotInv' /\ PlaceInv' /\ CookieInv'
  BY <1>1, <1>2, <1>3, <1>5, StopsWorking
<1>7. TypeOK'
  BY <1>2, <1>3, <1>5, <1>6, GateIsType DEF IInv, CallsInv, TypeOK, Fail, instances, Moves
<1> QED BY <1>6, <1>7 DEF IInv, CallsInv

LEMMA MakeKeeps ==
    ASSUME IdentityAssumption, IInv, NEW t \in Tasks, Make(t)
    PROVE  CallsInv'
<1>1. task[t].pc = "make" /\ task[t].pc \in Working BY DEF Make, Working
<1>2. kept = Absent BY <1>1 DEF IInv, CallsInv, SnapshotInv
<1>3. UNCHANGED <<vault, up, prof, kept, source, fate>> /\ End(t) BY DEF Make, instances, ghosts
<1>4. row' \in Row /\ row'.status = "not_configured" BY DEF Make, Idle, Row, Status
<1>5. /\ Moves(t, Idle) /\ lock' \in Tasks \cup {None} /\ gate' \in Tasks \cup {None}
      /\ GateInv' /\ ControlInv' /\ RowInv' /\ SnapshotInv' /\ PlaceInv' /\ CookieInv'
  BY <1>1, <1>2, <1>3, <1>4, StopsWorking
<1>6. TypeOK'
  BY <1>4, <1>5, ContentFacts, GateIsType DEF IInv, CallsInv, TypeOK, Make, instances, ghosts, Moves
<1> QED BY <1>5, <1>6 DEF IInv, CallsInv

LEMMA WipeKeeps ==
    ASSUME IdentityAssumption, IInv, NEW t \in Tasks, Wipe(t)
    PROVE  CallsInv'
<1> DEFINE r == [task[t] EXCEPT !.pc = "make"]
<1>1. task[t].pc = "wipe" /\ task[t].pc \in Working BY DEF Wipe, Working
<1>2. /\ task[t].op = "reset" /\ up
      /\ \A u \in Tasks \ {t} : task[u].pc \notin Working
      /\ Holds(task[t])
  BY <1>1, WorkerFacts DEF Fits
<1>3. UNCHANGED <<vault, row, old, tmp, up, prof>> /\ kept' = Absent /\ source' = None
  BY DEF Wipe, instances
<1>4. dir' \in Content \cup {Absent}
  BY ContentFacts DEF Wipe, IInv, CallsInv, TypeOK
<1>5. row.status # "capturing"
  BY <1>1, <1>2 DEF IInv, CallsInv, RowInv, Working, Capturing
<1>6. /\ task' \in [Tasks -> Task] /\ lock' \in Tasks \cup {None} /\ gate' \in Tasks \cup {None}
      /\ GateInv' /\ ControlInv' /\ RowInv' /\ SnapshotInv' /\ PlaceInv' /\ CookieInv'
  <2>1. CASE End(t)
    BY <1>1, <1>2, <1>3, <1>5, <2>1, StopsWorking DEF IInv, CallsInv, RowInv, Moves
  <2>2. CASE Goto(t, "make") /\ UNCHANGED <<lock, gate>>
    <3>1. /\ Moves(t, r) /\ ControlInv' /\ GateInv' /\ r.pc = "make"
          /\ r.op = task[t].op
      BY <1>1, <1>3, <2>2, GotoWorks DEF Working, Capturing
    <3> HIDE DEF r
    <3>2. RowInv' BY <1>2, <1>3, <1>5, <3>1, WorkerKeeps DEF IInv, CallsInv, RowInv, Capturing
    <3>3. SnapshotInv' /\ PlaceInv' BY <1>2, <1>3, <3>1, WorkerKeeps
    <3>4. ASSUME NEW u \in Tasks
          PROVE  /\ Holds(task'[u]) => task'[u].op # "promote"
                 /\ ~(task'[u].pc \in {"remove", "commit", "vault"} /\ task'[u].op # "self")
      <4>1. CASE u = t BY <1>2, <3>1, <4>1 DEF Moves
      <4>2. CASE u # t BY <1>2, <3>1, <4>2, HoldsAlone DEF Moves
      <4> QED BY <4>1, <4>2
    <3>5. CookieInv' BY <3>4 DEF CookieInv
    <3> QED BY <2>2, <3>1, <3>2, <3>3, <3>5 DEF IInv, CallsInv, TypeOK, Moves
  <2> QED BY <2>1, <2>2 DEF Wipe
<1>7. TypeOK'
  BY <1>3, <1>4, <1>6, GateIsType DEF IInv, CallsInv, TypeOK, Wipe, instances, Fate
<1> QED BY <1>6, <1>7 DEF IInv, CallsInv

LEMMA PrepareKeeps ==
    ASSUME IdentityAssumption, IInv, NEW t \in Tasks, Prepare(t)
    PROVE  CallsInv'
<1> DEFINE p == [task[t] EXCEPT !.pc = "commit"]
           q == [task[t] EXCEPT !.pc = "copy", !.todo = Has(SourceOf(t))]
<1>1. task[t].pc = "resolve" /\ task[t].pc \in Working
  BY DEF Prepare, Working, Capturing
<1>2. UNCHANGED <<vault, row, lock, gate, up, kept, source, prof>>
  BY DEF Prepare, instances
<1>3. /\ task[t] \in Task /\ Fits(task[t]) /\ up
      /\ \A u \in Tasks \ {t} : task[u].pc \notin Working
  BY <1>1, WorkerFacts
<1>4. SourceOf(t) = Absent => task[t].op = "self" \/ prof[task[t].ins] = Absent
  BY DEF SourceOf
<1>5. q \in Task /\ Fits(q) /\ q.pc = "copy" /\ q.op = task[t].op /\ q.ins = task[t].ins
      /\ q.first = task[t].first
  BY <1>1, <1>3 DEF Task, Pc, Has, Fits, Locking, Capturing, Working
<1>6. /\ \/ /\ SourceOf(t) = Absent /\ Moves(t, p) /\ p.pc = "commit"
            /\ dir' = (IF dir = Absent THEN Empty ELSE dir) /\ UNCHANGED <<old, tmp>>
            /\ fate' = (IF dir = Absent /\ fate = "adrift" THEN "lost" ELSE fate)
         \/ /\ SourceOf(t) # Absent /\ Moves(t, q)
            /\ dir' = (IF dir = Absent THEN old ELSE dir) /\ old' = Absent /\ tmp' = Empty
            /\ fate' = Repaired
      /\ p.op = task[t].op /\ p.ins = task[t].ins /\ p.first = task[t].first
      /\ ControlInv' /\ GateInv'
  <2>1. CASE SourceOf(t) = Absent
    <3>1. Goto(t, "commit") BY <2>1 DEF Prepare
    <3>2. /\ dir' = (IF dir = Absent THEN Empty ELSE dir) /\ UNCHANGED <<old, tmp>>
          /\ fate' = (IF dir = Absent /\ fate = "adrift" THEN "lost" ELSE fate)
      BY <2>1 DEF Prepare
    <3> QED BY <1>1, <1>2, <2>1, <3>1, <3>2, GotoWorks DEF Working, Capturing
  <2>2. CASE SourceOf(t) # Absent
    <3>0. task' = [task EXCEPT ![t] = q] BY <2>2 DEF Prepare
    <3>1. Moves(t, q) BY <1>5, <3>0, SetMoves DEF IInv, CallsInv, TypeOK
    <3>2. /\ dir' = (IF dir = Absent THEN old ELSE dir) /\ old' = Absent /\ tmp' = Empty
          /\ fate' = Repaired
      BY <2>2 DEF Prepare, SetFiles, Resolved
    <3>3. ControlInv' /\ GateInv'
      BY <1>1, <1>2, <1>5, <3>1, WorkMoves DEF Working, Capturing
    <3>4. p.op = task[t].op /\ p.ins = task[t].ins /\ p.first = task[t].first
      BY <1>3 DEF Task
    <3> QED BY <2>2, <3>1, <3>2, <3>3, <3>4
  <2> QED BY <2>1, <2>2
<1> HIDE DEF p, q
<1>7. /\ kept # Absent /\ fate # "lost" => kept = (IF dir = Absent THEN old ELSE dir)
      /\ fate = "held" /\ kept # Absent => dir # Absent
      /\ fate \in Fate
  <2>1. ~\E u \in Tasks : task[u].pc = "place"
    BY <1>1, <1>3 DEF Working, Capturing
  <2> QED BY <1>3, <2>1 DEF IInv, CallsInv, SnapshotInv, PlaceInv, TypeOK
<1>8. row.status = "capturing" /\ (row.status = "ready" => row.version > 0)
  BY <1>1, <1>3 DEF IInv, CallsInv, RowInv, Capturing
<1>9. CASE SourceOf(t) = Absent
  <2>1. RowInv' BY <1>2, <1>3, <1>6, <1>8, <1>9, WorkerKeeps DEF Capturing
  <2>2. SnapshotInv' /\ PlaceInv'
    <3>1. /\ dir' # Absent /\ fate' \in Fate
          /\ kept' # Absent /\ fate' # "lost" => kept' = (IF dir' = Absent THEN old' ELSE dir')
      BY <1>2, <1>6, <1>7, <1>9, ContentFacts DEF Fate
    <3> QED BY <1>3, <1>6, <1>9, <3>1, WorkerKeeps
  <2>3. CookieInv'
    BY <1>1, <1>2, <1>3, <1>4, <1>6, <1>9, CookieKeeps
       DEF StaysGone, IInv, CallsInv, CookieInv, Holds, Locking, Working, Capturing
  <2>4. TypeOK'
    BY <1>6, <1>9, ContentFacts, GateIsType DEF IInv, CallsInv, TypeOK, Prepare, instances, Moves, Repaired, Fate
  <2> QED BY <1>6, <2>1, <2>2, <2>3, <2>4 DEF IInv, CallsInv
<1>10. CASE SourceOf(t) # Absent
  <2>1. RowInv' BY <1>2, <1>3, <1>5, <1>6, <1>8, <1>10, WorkerKeeps DEF Capturing
  <2>2. task[t].op = "self" => dir' # Absent
    BY <1>6, <1>10 DEF SourceOf
  <2>3. SnapshotInv' /\ PlaceInv'
    <3>1. /\ kept' # Absent /\ fate' # "lost" => kept' = (IF dir' = Absent THEN old' ELSE dir')
          /\ fate' = "held" /\ kept' # Absent => dir' # Absent
      BY <1>2, <1>6, <1>7, <1>10 DEF Repaired, Fate
    <3> QED BY <1>3, <1>5, <1>6, <1>10, <2>2, <3>1, ContentFacts, WorkerKeeps
  <2>4. CookieInv'
    BY <1>1, <1>2, <1>3, <1>5, <1>6, <1>10, CookieKeeps
       DEF StaysGone, IInv, CallsInv, CookieInv, Holds, Locking, Working, Capturing
  <2>5. TypeOK'
    BY <1>6, <1>10, ContentFacts, GateIsType DEF IInv, CallsInv, TypeOK, Prepare, instances, Moves, Repaired, Fate
  <2> QED BY <1>6, <2>1, <2>3, <2>4, <2>5 DEF IInv, CallsInv
<1> QED BY <1>9, <1>10

LEMMA EnterGateKeeps ==
    ASSUME IdentityAssumption, IInv, NEW t \in Tasks, EnterGate(t)
    PROVE  CallsInv'
<1> DEFINE p == [task[t] EXCEPT !.pc = "wipe"]
           q == [task[t] EXCEPT !.pc = "resolve"]
<1>1. /\ task[t] \in Task /\ Fits(task[t]) /\ task[t].pc = "gate" /\ up /\ gate = None
      /\ task[t].pc \notin Working
  BY IdleIsTask DEF IInv, CallsInv, TypeOK, ControlInv, EnterGate, GateFree, Working, Capturing
<1>2. \A u \in Tasks : task[u].pc \notin Working
  BY <1>1, WorksAlone
<1>3. UNCHANGED <<vault, dir, old, tmp, up, kept, source, fate, prof>>
  BY DEF EnterGate, files, instances, ghosts
<1>4. p \in Task /\ p.pc = "wipe" /\ p.op = task[t].op
      /\ p.first = task[t].first /\ (task[t].op = "reset" => Fits(p))
  <2>1. p \in Task /\ p.pc = "wipe" /\ p.op = task[t].op /\ p.first = task[t].first
    BY <1>1 DEF Task, Pc
  <2> HIDE DEF p
  <2> QED BY <2>1 DEF Fits, Capturing, Locking
<1>5. q \in Task /\ q.pc = "resolve" /\ q.op = task[t].op
      /\ q.first = task[t].first /\ (task[t].op # "reset" => Fits(q))
  <2>1. /\ q \in Task /\ q.pc = "resolve" /\ q.op = task[t].op /\ q.first = task[t].first
        /\ q.ins = task[t].ins /\ q.who = task[t].who
    BY <1>1 DEF Task, Pc
  <2> HIDE DEF q
  <2> QED BY <1>1, <2>1 DEF Fits, Capturing, Working, Locking, Task, Op
<1>6. \/ End(t) /\ UNCHANGED row
      \/ /\ task[t].op = "reset" /\ Goto(t, "wipe") /\ gate' = t
         /\ UNCHANGED <<row, lock>>
      \/ /\ task[t].op # "reset" /\ Goto(t, "resolve") /\ gate' = t
         /\ UNCHANGED lock /\ row' = [row EXCEPT !.status = "capturing"]
  BY DEF EnterGate
<1> HIDE DEF p, q
<1>7. ASSUME NEW STATE r, Moves(t, r), Fits(r), gate' = t, UNCHANGED lock, r.op = task[t].op,
             r.first = task[t].first, r.pc \in {"wipe", "resolve"}, row' \in Row,
             row'.status = "ready" => row'.version > 0,
             row'.status = "capturing" <=> r.pc = "resolve"
      PROVE  /\ GateInv' /\ ControlInv' /\ RowInv' /\ SnapshotInv' /\ PlaceInv' /\ CookieInv'
             /\ task' \in [Tasks -> Task] /\ row' \in Row
             /\ lock' \in Tasks \cup {None} /\ gate' \in Tasks \cup {None}
  <2>1. (Holds(r) <=> Holds(task[t])) /\ r.pc \in Working
    BY <1>1, <1>7 DEF Holds, Locking, Working, Capturing
  <2>2. ControlInv' BY <1>1, <1>3, <1>7, <2>1, ControlKeeps DEF IInv, CallsInv, ControlInv
  <2>3. \A u \in Tasks \ {t} : gate' = u <=> gate = u
    BY <1>1, <1>7 DEF IdentityAssumption
  <2>4. GateInv' BY <1>7, <2>1, <2>3, GateKeeps DEF IInv, CallsInv
  <2>5. RowInv' BY <1>2, <1>7, WorkerKeeps DEF Capturing
  <2>6. SnapshotInv' BY <1>2, <1>3, <1>7, WorkerKeeps DEF IInv, CallsInv, SnapshotInv
  <2>7. PlaceInv'
    BY <1>1, <1>2, <1>3, <1>7, WorkerKeeps DEF IInv, CallsInv, PlaceInv, Working, Capturing
  <2>8. CookieInv'
    BY <1>3, <1>7, <2>1, CookieKeeps DEF StaysGone, IInv, CallsInv, CookieInv
  <2> QED BY <1>7, <2>2, <2>4, <2>5, <2>6, <2>7, <2>8 DEF Moves, IInv, CallsInv, TypeOK
<1>8. row.status # "capturing" /\ (row.status = "ready" => row.version > 0) /\ row \in Row
  BY <1>1, <1>2 DEF IInv, CallsInv, RowInv, TypeOK, Working
<1>9. /\ GateInv' /\ ControlInv' /\ RowInv' /\ SnapshotInv' /\ PlaceInv' /\ CookieInv'
      /\ task' \in [Tasks -> Task] /\ row' \in Row
      /\ lock' \in Tasks \cup {None} /\ gate' \in Tasks \cup {None}
  <2>1. CASE End(t) /\ UNCHANGED row
    <3>1. Moves(t, Idle) /\ ControlInv' /\ GateInv'
          /\ lock' \in Tasks \cup {None} /\ gate' \in Tasks \cup {None}
      BY <1>1, <1>3, <2>1, EndKeeps
    <3>2. Idle.pc \notin Working BY IdleIsTask DEF Working, Capturing
    <3>3. RowInv' /\ SnapshotInv' /\ PlaceInv'
      BY <1>1, <1>3, <2>1, <3>1, <3>2, QuietKeeps DEF IInv, CallsInv
    <3>4. CookieInv' BY <1>3, <3>1, IdleIsTask, CookieKeeps DEF StaysGone, IInv, CallsInv
    <3> QED BY <1>8, <2>1, <3>1, <3>3, <3>4 DEF Moves
  <2>2. CASE task[t].op = "reset" /\ Goto(t, "wipe") /\ gate' = t /\ UNCHANGED <<row, lock>>
    <3>1. Moves(t, p) BY <2>2, GotoMoves DEF p, Pc, IInv, CallsInv, TypeOK
    <3> QED BY <1>4, <1>7, <1>8, <2>2, <3>1
  <2>3. CASE /\ task[t].op # "reset" /\ Goto(t, "resolve") /\ gate' = t
             /\ UNCHANGED lock /\ row' = [row EXCEPT !.status = "capturing"]
    <3>1. Moves(t, q) BY <2>3, GotoMoves DEF q, Pc, IInv, CallsInv, TypeOK
    <3>2. row' \in Row /\ row'.status = "capturing"
      BY <1>8, <2>3 DEF Row, Status
    <3> QED BY <1>5, <1>7, <2>3, <3>1, <3>2
  <2> QED BY <1>6, <2>1, <2>2, <2>3
<1>10. TypeOK'
  BY <1>9, GateIsType DEF IInv, CallsInv, TypeOK, EnterGate, files, instances, ghosts
<1> QED BY <1>9, <1>10 DEF IInv, CallsInv

-----------------------------------------------------------------------------
(* The application.                                                         *)

LEMMA AppCrashKeeps ==
    ASSUME IdentityAssumption, IInv, AppCrash
    PROVE  CallsInv'
<1>1. /\ up' = FALSE /\ \A t \in Tasks : task'[t] = Idle
      /\ lock' = None /\ gate' = None /\ task' \in [Tasks -> Task]
      /\ UNCHANGED <<vault, row, dir, old, tmp, kept, source, fate>>
      /\ inst' \in [Instances -> InstanceStatus]
  BY IdleIsTask DEF AppCrash, files, ghosts, IInv, CallsInv, TypeOK, InstanceStatus
<1>2. Idle.pc \notin Working \cup {"remove", "commit", "vault"}
  BY IdleIsTask DEF Working, Capturing
<1>3. GateInv' BY <1>1, <1>2 DEF GateInv, IdentityAssumption
<1>4. ControlInv' BY <1>1, IdleIsTask DEF ControlInv, IdentityAssumption
<1>5. RowInv' BY <1>1 DEF IInv, CallsInv, RowInv
<1>6. SnapshotInv' BY <1>1, IdleIsTask DEF IInv, CallsInv, SnapshotInv
<1>7. PlaceInv' BY <1>1 DEF PlaceInv
<1>8. CookieInv' BY <1>1, IdleIsTask DEF CookieInv
<1>9. left' \in [calls : Nat, logins : Nat, crashes : Nat]
  BY DEF IInv, CallsInv, TypeOK, AppCrash
<1>10. TypeOK'
  <2>1. UNCHANGED <<policy, past, orphan, prof, export>>
    BY DEF AppCrash
  <2> QED BY <1>1, <1>3, <1>9, <2>1, GateIsType DEF IInv, CallsInv, TypeOK
<1> QED BY <1>3, <1>4, <1>5, <1>6, <1>7, <1>8, <1>10 DEF IInv, CallsInv

\* What a crash left of a swap or of a capture is put right before the first call.
LEMMA AppStartKeeps ==
    ASSUME IdentityAssumption, IInv, AppStart
    PROVE  CallsInv'
<1>1. /\ up' /\ \A t \in Tasks : task[t] = Idle /\ task'[t] = Idle
      /\ UNCHANGED <<task, lock, gate, vault, kept, source, prof>>
  BY DEF IInv, CallsInv, ControlInv, AppStart, instances
<1>2. Idle.pc \notin Working \cup {"remove", "commit", "vault"}
  BY IdleIsTask DEF Working, Capturing
<1>3. /\ tmp' = Absent /\ fate' \in Fate /\ fate \in Fate
      /\ \/ /\ dir' = (IF dir = Absent THEN old ELSE dir) /\ old' = Absent
            /\ fate' = Repaired
         \/ /\ fate' = (IF dir = Absent /\ fate = "held" THEN "adrift" ELSE fate)
            /\ UNCHANGED <<dir, old>>
  BY DEF AppStart, SetFiles, Resolved, Repaired, IInv, CallsInv, TypeOK, Fate
<1>4. /\ row' \in Row /\ row'.status # "capturing"
      /\ row'.status = "ready" => row'.version > 0
  BY DEF IInv, CallsInv, TypeOK, RowInv, AppStart, Recovered, Row, Status
<1>5. GateInv' BY <1>1, PcWorking DEF IInv, CallsInv, GateInv
<1>6. ControlInv' BY <1>1 DEF IInv, CallsInv, ControlInv
<1>7. RowInv' BY <1>1, <1>2, <1>4 DEF RowInv, Working
<1>8. SnapshotInv' BY <1>1, <1>3, IdleIsTask DEF IInv, CallsInv, SnapshotInv, Repaired, Fate
<1>9. PlaceInv' BY <1>1, <1>3 DEF IInv, CallsInv, SnapshotInv, PlaceInv, Repaired, Fate
<1>10. CookieInv' BY <1>1 DEF IInv, CallsInv, CookieInv
<1>11. TypeOK'
  BY <1>1, <1>3, <1>4, <1>5, GateIsType DEF IInv, CallsInv, TypeOK, AppStart, instances, ghosts
<1> QED BY <1>5, <1>6, <1>7, <1>8, <1>9, <1>10, <1>11 DEF IInv, CallsInv

LEMMA InitKeeps == IdentityAssumption /\ Init => IInv
<1> SUFFICES ASSUME IdentityAssumption, Init PROVE IInv
  OBVIOUS
<1>1. \A t \in Tasks : task[t] = Idle BY DEF Init
<1>2. Idle.pc \notin Working \cup {"remove", "commit", "vault"}
  BY IdleIsTask DEF Working, Capturing
<1>3. row \in Row /\ row.status = "not_configured" BY DEF Init, Idle, Row, Status
<1>4. GateInv BY <1>1, <1>2 DEF Init, GateInv, IdentityAssumption
<1>5. ControlInv BY <1>1, IdleIsTask DEF Init, ControlInv, IdentityAssumption
<1>6. RowInv BY <1>1, <1>2, <1>3 DEF RowInv, Working
<1>7. SnapshotInv BY <1>1, IdleIsTask DEF Init, SnapshotInv
<1>8. PlaceInv BY DEF Init, PlaceInv
<1>9. CookieInv BY <1>1, IdleIsTask DEF CookieInv
<1>10. TypeOK
  <2>1. \A t \in Tasks : gate = t <=> UnderGate(t)
    BY <1>4 DEF GateInv, UnderGate, Working, Capturing
  <2>2. inst \in [Instances -> InstanceStatus] BY DEF Init, InstanceStatus
  <2>3. left \in [calls : Nat, logins : Nat, crashes : Nat]
    BY DEF Init, IdentityAssumption
  <2>4. orphan \in BOOLEAN BY DEF Init
  <2>5. prof \in [Instances -> Content] /\ fate \in Fate BY ContentFacts DEF Init, Fate
  <2> QED BY <1>3, <2>1, <2>2, <2>3, <2>4, <2>5, IdleIsTask DEF Init, TypeOK, Policy
<1>11. InstancesInv
  <2>1. \A i \in Instances : prof[i] # Absent BY ContentFacts DEF Init
  <2>2. Idle.pc # "cloning" /\ ~Uses(Idle) BY IdleIsTask DEF Uses
  <2> QED BY <1>1, <2>1, <2>2 DEF InstancesInv
<1> QED BY <1>4, <1>5, <1>6, <1>7, <1>8, <1>9, <1>10, <1>11 DEF IInv, CallsInv

LEMMA NextCalls ==
    ASSUME IdentityAssumption, IInv, [Next]_vars
    PROVE  CallsInv'
<1>1. ASSUME NEW t \in Tasks, Begins(t) PROVE CallsInv'
  BY <1>1, StopKeeps, CaptureKeeps, CloneKeeps, ResetKeeps, CaptureSelfKeeps DEF Begins
<1>2. ASSUME NEW t \in Tasks, Advance(t) PROVE CallsInv'
  BY <1>2, ReadPolicyKeeps, LockKeeps, EnterGateKeeps, PrepareKeeps, CopyKeeps, ArchiveKeeps,
     PlaceKeeps, RemoveKeeps, CommitKeeps, WriteVaultKeeps, WipeKeeps, MakeKeeps, CloneCopyKeeps
     DEF Advance
<1>3. ASSUME NEW t \in Tasks, Drop(t) \/ Fail(t) PROVE CallsInv'
  BY <1>3, DropKeeps, FailKeeps
<1>4. ASSUME NEW i \in Instances,
             \/ Launch(i) \/ (\E id \in Ids : Login(i, id))
             \/ Delete(i) \/ RemoveFiles(i) \/ DeleteRow(i)
      PROVE  CallsInv'
  BY <1>4, InstancesKeep
<1>5. ASSUME NEW v \in past, Restore(v) PROVE CallsInv'
  BY <1>5, RestoreKeeps
<1>6. CASE OrphanExits \/ (\E p \in Policy : SetPolicy(p)) \/ UNCHANGED vars
  BY <1>6, OutsideKeep
<1>7. CASE AppCrash \/ AppStart
  BY <1>7, AppCrashKeeps, AppStartKeeps
<1> QED BY <1>1, <1>2, <1>3, <1>4, <1>5, <1>6, <1>7 DEF Next

-----------------------------------------------------------------------------
(* The instances.                                                           *)

\* No call begins that uses an instance, or turns to another one.
SameCalls == \A u \in Tasks :
    /\ Uses(task'[u]) => Uses(task[u]) /\ task'[u].ins = task[u].ins
    /\ task'[u].pc = "cloning" => task[u].pc = "cloning" /\ task'[u].ins = task[u].ins

LEMMA SameMoves ==
    ASSUME NEW t \in Tasks, NEW STATE r, Moves(t, r),
           Uses(r) => Uses(task[t]) /\ r.ins = task[t].ins, r.pc # "cloning"
    PROVE  SameCalls
  BY DEF Moves, SameCalls

LEMMA GotoSame ==
    ASSUME TypeOK, NEW t \in Tasks, NEW pc \in Pc \ {"cloning"}, task[t].pc # "idle", Goto(t, pc)
    PROVE  SameCalls
<1> DEFINE r == [task[t] EXCEPT !.pc = pc]
<1>1. Moves(t, r) BY GotoMoves DEF TypeOK
<1>2. r.pc = pc /\ r.op = task[t].op /\ r.ins = task[t].ins BY DEF TypeOK, Task
<1> HIDE DEF r
<1> QED BY <1>1, <1>2, SameMoves DEF Uses

LEMMA EndSame ==
    ASSUME TypeOK, NEW t \in Tasks, End(t) \/ task' = [task EXCEPT ![t] = Idle]
    PROVE  SameCalls
<1>1. Moves(t, Idle) BY IdleIsTask, SetMoves DEF TypeOK, End
<1> QED BY <1>1, IdleIsTask, SameMoves DEF Uses

\* The calls go on with the instance they have begun with.
LEMMA CallsGoOn ==
    ASSUME IdentityAssumption, IInv, NEW t \in Tasks,
           \/ Advance(t) /\ ~CloneCopy(t)
           \/ Reset(t) \/ CaptureSelf(t) \/ Drop(t) \/ Fail(t)
    PROVE  SameCalls /\ UNCHANGED instances
<1> USE DEF IInv, CallsInv
<1>0. task \in [Tasks -> Task] /\ task[t] \in Task /\ TypeOK BY DEF TypeOK
<1>1. CASE Reset(t) \/ CaptureSelf(t)
  <2>1. CASE Reset(t)
    <3> DEFINE r == [Idle EXCEPT !.op = "reset", !.pc = "lock"]
    <3>1. r \in Task /\ r.pc = "lock" /\ ~Uses(r) BY DEF Idle, Task, Op, Pc, Uses, Row, Status
    <3>2. task' = [task EXCEPT ![t] = r] BY <2>1 DEF Reset
    <3> HIDE DEF r
    <3>3. Moves(t, r) BY <1>0, <3>1, <3>2, SetMoves
    <3> QED BY <2>1, <3>1, <3>3, SameMoves DEF Reset
  <2>2. CASE CaptureSelf(t)
    <3> DEFINE r == [Idle EXCEPT !.op = "self", !.pc = "gate", !.seen = row]
    <3>0. row \in Row BY DEF TypeOK
    <3>1. r \in Task /\ r.pc = "gate" /\ ~Uses(r) BY <3>0 DEF Idle, Task, Op, Pc, Uses
    <3>2. task' = [task EXCEPT ![t] = r] BY <2>2 DEF CaptureSelf
    <3> HIDE DEF r
    <3>3. Moves(t, r) BY <1>0, <3>1, <3>2, SetMoves
    <3> QED BY <2>2, <3>1, <3>3, SameMoves DEF CaptureSelf
  <2> QED BY <1>1, <2>1, <2>2
<1>2. CASE Drop(t) \/ Fail(t)
  BY <1>0, <1>2, EndSame DEF Drop, Fail
<1>3. CASE ReadPolicy(t)
  <2> DEFINE r == IF policy = "off" THEN Idle
                  ELSE [task[t] EXCEPT !.pc = "lock", !.first = (policy = "first_login")]
  <2>1. r \in Task /\ (Uses(r) => Uses(task[t]) /\ r.ins = task[t].ins) /\ r.pc # "cloning"
    BY <1>0, <1>3, IdleIsTask DEF ReadPolicy, Task, Pc, Uses
  <2>2. task' = [task EXCEPT ![t] = r] BY <1>3 DEF ReadPolicy
  <2> HIDE DEF r
  <2>3. Moves(t, r) BY <1>0, <2>1, <2>2, SetMoves
  <2> QED BY <1>3, <2>1, <2>3, SameMoves DEF ReadPolicy
<1>4. CASE Lock(t)
  <2> DEFINE p == [task[t] EXCEPT !.pc = "gate", !.seen = row, !.who = export[task[t].ins]]
             q == [task[t] EXCEPT !.pc = "gate", !.seen = row]
  <2>1. /\ p.pc = "gate" /\ p.op = task[t].op /\ p.ins = task[t].ins
        /\ q.pc = "gate" /\ q.op = task[t].op /\ q.ins = task[t].ins /\ q \in Task
        /\ task[t].ins \in Instances => p \in Task
    BY <1>0 DEF TypeOK, Task, Pc
  <2>2. /\ task[t].pc = "lock"
        /\ task[t].op = "promote" => task[t].ins \in Instances
    BY <1>4 DEF Lock, ControlInv, Fits
  <2>3. \/ task' = [task EXCEPT ![t] = Idle]
        \/ task' = [task EXCEPT ![t] = p] /\ task[t].op = "promote"
        \/ task' = [task EXCEPT ![t] = q]
    BY <1>4 DEF Lock
  <2> HIDE DEF p, q
  <2>4. CASE task' = [task EXCEPT ![t] = Idle] BY <1>0, <2>4, EndSame, <1>4 DEF Lock
  <2>5. CASE task' = [task EXCEPT ![t] = p] /\ task[t].op = "promote"
    <3>1. Moves(t, p) BY <1>0, <2>1, <2>2, <2>5, SetMoves
    <3> QED BY <1>4, <2>1, <2>2, <3>1, SameMoves DEF Uses, Lock
  <2>6. CASE task' = [task EXCEPT ![t] = q]
    <3>1. Moves(t, q) BY <1>0, <2>1, <2>6, SetMoves
    <3> QED BY <1>4, <2>1, <2>2, <3>1, SameMoves DEF Uses, Lock
  <2> QED BY <2>3, <2>4, <2>5, <2>6
<1>5. CASE Prepare(t)
  <2> DEFINE r == [task[t] EXCEPT !.pc = "copy", !.todo = Has(SourceOf(t))]
  <2>1. r \in Task /\ r.pc = "copy" /\ r.op = task[t].op /\ r.ins = task[t].ins
    BY <1>0 DEF Task, Pc, Has
  <2>2. Goto(t, "commit") \/ task' = [task EXCEPT ![t] = r] BY <1>5 DEF Prepare
  <2>3. task[t].pc = "resolve" /\ UNCHANGED instances BY <1>5 DEF Prepare
  <2> HIDE DEF r
  <2>4. CASE task' = [task EXCEPT ![t] = r]
    <3>1. Moves(t, r) BY <1>0, <2>1, <2>4, SetMoves
    <3> QED BY <2>1, <2>3, <3>1, SameMoves DEF Uses
  <2> QED BY <1>0, <2>2, <2>3, <2>4, GotoSame DEF Pc
<1>6. CASE Copy(t)
  <2> DEFINE r == [task[t] EXCEPT !.todo = @ \ {NextPart(t)}]
  <2>1. r \in Task /\ r.pc = task[t].pc /\ r.op = task[t].op /\ r.ins = task[t].ins
    BY <1>0 DEF Task
  <2>2. Goto(t, "archive") \/ task' = [task EXCEPT ![t] = r] \/ End(t) BY <1>6 DEF Copy
  <2>3. task[t].pc = "copy" /\ UNCHANGED instances BY <1>6 DEF Copy
  <2> HIDE DEF r
  <2>4. CASE task' = [task EXCEPT ![t] = r]
    <3>1. Moves(t, r) BY <1>0, <2>1, <2>4, SetMoves
    <3> QED BY <2>1, <2>3, <3>1, SameMoves DEF Uses
  <2> QED BY <1>0, <2>2, <2>3, <2>4, GotoSame, EndSame DEF Pc
<1>7. CASE EnterGate(t) \/ Commit(t) \/ WriteVault(t) \/ Wipe(t) \/ Make(t)
  <2>1. \/ End(t)
        \/ \E pc \in {"wipe", "resolve", "vault", "make"} : Goto(t, pc)
    BY <1>7 DEF EnterGate, Commit, WriteVault, Wipe, Make
  <2>2. task[t].pc # "idle" /\ UNCHANGED instances
    BY <1>7 DEF EnterGate, Commit, WriteVault, Wipe, Make
  <2> QED BY <1>0, <2>1, <2>2, GotoSame, EndSame DEF Pc
<1>8. CASE Archive(t) \/ Place(t) \/ Remove(t)
  <2>1. \E pc \in {"place", "remove", "commit"} : Goto(t, pc)
    BY <1>8 DEF Archive, Place, Remove
  <2>2. task[t].pc # "idle" /\ UNCHANGED instances
    BY <1>8 DEF Archive, Place, Remove
  <2> QED BY <1>0, <2>1, <2>2, GotoSame DEF Pc
<1> QED BY <1>1, <1>2, <1>3, <1>4, <1>5, <1>6, <1>7, <1>8 DEF Advance

\* A call that begins with an instance finds its directory, and a deletion takes it
\* from a call only after the instance has left the ones that can be launched.
LEMMA NextInstances ==
    ASSUME IdentityAssumption, IInv, [Next]_vars
    PROVE  InstancesInv'
<1> USE DEF IInv, CallsInv
<1>0. /\ task \in [Tasks -> Task] /\ inst \in [Instances -> InstanceStatus]
      /\ prof \in [Instances -> Content \cup {Absent}]
      /\ export \in [Instances -> Ids \cup {None}]
      /\ \A t \in Tasks : /\ Uses(task[t]) => task[t].ins \in Instances
                          /\ task[t].pc = "cloning" => task[t].ins \in Instances
  BY DEF TypeOK, ControlInv, Fits, Uses
<1>1. ASSUME SameCalls, UNCHANGED instances PROVE InstancesInv'
  BY <1>1 DEF InstancesInv, SameCalls, instances
<1>2. ASSUME UNCHANGED task PROVE SameCalls
  BY <1>2 DEF SameCalls
<1>3. ASSUME NEW t \in Tasks, NEW i \in Instances, Stop(t, i) PROVE InstancesInv'
  <2> DEFINE r == [Idle EXCEPT !.op = "promote", !.pc = "policy", !.ins = i]
  <2>1. r \in Task /\ r.pc = "policy" /\ r.ins = i
    BY DEF Idle, Task, Op, Pc, Row, Status
  <2>2. Moves(t, r) BY <1>0, <1>3, <2>1, SetMoves DEF Stop
  <2> HIDE DEF r
  <2>3. prof[i] # Absent /\ inst[i] = "alive" BY <1>3 DEF InstancesInv, Stop
  <2>4. /\ inst' = [inst EXCEPT ![i] = "stopped"] /\ prof' = prof
        /\ \A j \in Instances \ {i} : export'[j] = export[j]
    BY <1>0, <1>3 DEF Stop
  <2> QED BY <1>0, <2>1, <2>2, <2>3, <2>4 DEF InstancesInv, Moves, Uses
<1>4. ASSUME NEW t \in Tasks, NEW i \in Instances, Capture(t, i) PROVE InstancesInv'
  <2> DEFINE r == [Idle EXCEPT !.op = "capture", !.pc = "lock", !.ins = i, !.who = export[i]]
  <2>1. r \in Task /\ r.pc = "lock" /\ r.ins = i
    BY <1>0 DEF Idle, Task, Op, Pc, Row, Status
  <2>2. Moves(t, r) BY <1>0, <1>4, <2>1, SetMoves DEF Capture
  <2> HIDE DEF r
  <2>3. prof[i] # Absent /\ UNCHANGED <<inst, prof, export>>
    BY <1>4 DEF InstancesInv, Capture, instances
  <2> QED BY <1>0, <2>1, <2>2, <2>3 DEF InstancesInv, Moves, Uses
<1>5. ASSUME NEW t \in Tasks, NEW i \in Instances, Clone(t, i) PROVE InstancesInv'
  <2>1. inst[i] = "none" /\ prof[i] # Absent /\ UNCHANGED <<prof, export>>
        /\ \A u \in Tasks : task[u].ins # i
    BY <1>5 DEF InstancesInv, Clone
  <2>2. CASE inst' = [inst EXCEPT ![i] = "stopped"] /\ UNCHANGED task
    BY <1>0, <2>1, <2>2 DEF InstancesInv
  <2> DEFINE r == [Idle EXCEPT !.op = "clone", !.pc = "cloning", !.ins = i, !.todo = Has(dir)]
  <2>3. CASE UNCHANGED inst /\ task' = [task EXCEPT ![t] = r]
    <3>1. r \in Task /\ r.op = "clone" /\ r.ins = i
      BY DEF Idle, Task, Op, Pc, Row, Status, Has
    <3>2. Moves(t, r) BY <1>0, <2>3, <3>1, SetMoves
    <3> HIDE DEF r
    <3> QED BY <1>0, <2>1, <2>3, <3>1, <3>2 DEF InstancesInv, Moves, Uses
  <2> QED BY <1>5, <2>2, <2>3 DEF Clone
<1>6. ASSUME NEW t \in Tasks, CloneCopy(t) PROVE InstancesInv'
  <2> DEFINE i == task[t].ins
             r == [task[t] EXCEPT !.todo = @ \ {NextPart(t)}]
  <2>1. /\ task[t].pc = "cloning" /\ i \in Instances /\ inst[i] = "none" /\ prof[i] # Absent
        /\ \A u \in Tasks \ {t} : task[u].pc = "cloning" => task[u].ins # i
        /\ UNCHANGED export /\ task[t].op = "clone"
    BY <1>0, <1>6 DEF InstancesInv, CloneCopy, ControlInv, Fits
  <2>2. r \in Task /\ r.pc = "cloning" /\ r.ins = i /\ r.op = "clone"
    BY <1>0, <2>1 DEF Task
  <2>3. /\ \A j \in Instances : prof[j] = Absent => prof'[j] = Absent
        /\ \A j \in Instances \ {i} : prof'[j] = prof[j]
    BY <1>0, <1>6, <2>1 DEF CloneCopy
  <2>4. \/ Moves(t, Idle) /\ inst' \in {inst, [inst EXCEPT ![i] = "stopped"]}
        \/ Moves(t, r) /\ inst' = inst
    BY <1>0, <1>6, <2>2, IdleIsTask, SetMoves DEF CloneCopy
  <2>5. prof'[i] # Absent
    <3>1. Empty # Absent BY ContentFacts
    <3>2. NextPart(t) \in Parts BY DEF NextPart, Parts
    <3>3. NextPart(t) \in Has(dir) => [prof[i] EXCEPT ![NextPart(t)] = dir[NextPart(t)]] \in Content
      <4>1. NextPart(t) \in Has(dir) => dir \in Content BY DEF Has, TypeOK
      <4> QED BY <1>0, <2>1, <3>2, <4>1, ContentFacts
    <3> QED BY <1>0, <1>6, <2>1, <3>1, <3>3, ContentFacts DEF CloneCopy
  <2> HIDE DEF i, r
  <2>6. ~Uses(Idle) /\ Idle.pc # "cloning" /\ ~Uses(r) BY <2>2, IdleIsTask DEF Uses
  <2>7. CASE Moves(t, r) /\ inst' = inst
    BY <1>0, <2>1, <2>2, <2>3, <2>5, <2>6, <2>7 DEF InstancesInv, Moves
  <2>8. CASE Moves(t, Idle) /\ inst' \in {inst, [inst EXCEPT ![i] = "stopped"]}
    BY <1>0, <2>1, <2>3, <2>5, <2>6, <2>8 DEF InstancesInv, Moves
  <2> QED BY <2>4, <2>7, <2>8
<1>7. ASSUME NEW i \in Instances,
             \/ Launch(i) \/ (\E id \in Ids : Login(i, id))
             \/ Delete(i) \/ RemoveFiles(i) \/ DeleteRow(i)
      PROVE  InstancesInv'
  <2>1. UNCHANGED task BY <1>7 DEF Launch, Login, Delete, RemoveFiles, DeleteRow
  <2>2. CASE Launch(i)
    <3>1. inst[i] = "stopped" /\ inst' = [inst EXCEPT ![i] = "alive"]
          /\ export' = [export EXCEPT ![i] = None]
      BY <2>2 DEF Launch
    <3>2. prof'[i] # Absent /\ \A j \in Instances \ {i} : prof'[j] = prof[j]
      <4> DEFINE found == IF prof[i] = Absent THEN Empty ELSE prof[i]
      <4>1. vault # None => vault.who \in Ids BY DEF TypeOK, Vault
      <4>2. found \in Content BY <1>0, ContentFacts
      <4>3. vault # None => [found EXCEPT !["cookies"] = vault.who] \in Content
        BY <4>1, <4>2, ContentFacts DEF Parts
      <4>4. prof' = [prof EXCEPT ![i] = IF vault = None THEN found
                                        ELSE [found EXCEPT !["cookies"] = vault.who]]
        BY <2>2 DEF Launch
      <4> HIDE DEF found
      <4> QED BY <1>0, <4>2, <4>3, <4>4, ContentFacts
    <3> QED BY <1>0, <2>1, <3>1, <3>2 DEF InstancesInv
  <2>3. ASSUME NEW id \in Ids, Login(i, id) PROVE InstancesInv'
    <3>1. Of(id) # Absent BY ContentFacts DEF Of, Content
    <3> QED BY <1>0, <2>1, <2>3, <3>1 DEF InstancesInv, Login
  <2>4. CASE Delete(i)
    BY <1>0, <2>1, <2>4 DEF InstancesInv, Delete
  <2>5. CASE RemoveFiles(i)
    <3>1. /\ inst[i] = "leaving" /\ UNCHANGED inst /\ prof[i] \in Content
          /\ \A j \in Instances \ {i} : prof'[j] = prof[j] /\ export'[j] = export[j]
          /\ prof'[i] = Absent => export'[i] = None
      <4>1. \A p \in Parts : [prof[i] EXCEPT ![p] = None] # Absent
        <5>1. prof[i] \in Content BY <1>0, <2>5 DEF RemoveFiles
        <5> QED BY <5>1, ContentFacts
      <4> QED BY <1>0, <2>5, <4>1 DEF RemoveFiles, Has
    <3> QED BY <1>0, <2>1, <3>1 DEF InstancesInv
  <2>6. CASE DeleteRow(i)
    BY <1>0, <2>1, <2>6 DEF InstancesInv, DeleteRow
  <2> QED BY <1>7, <2>2, <2>3, <2>4, <2>5, <2>6
<1>8. CASE AppCrash
  <2>1. /\ \A t \in Tasks : task'[t] = Idle
        /\ inst' = [i \in Instances |-> IF inst[i] = "leaving" THEN "stopped" ELSE inst[i]]
        /\ UNCHANGED <<prof, export>>
    BY <1>8 DEF AppCrash
  <2>2. ~Uses(Idle) /\ Idle.pc # "cloning" BY IdleIsTask DEF Uses
  <2> QED BY <1>0, <2>1, <2>2 DEF InstancesInv
<1>9. CASE OrphanExits \/ (\E p \in Policy : SetPolicy(p)) \/ UNCHANGED vars
           \/ (\E v \in past : Restore(v)) \/ AppStart
  <2>1. UNCHANGED task /\ UNCHANGED instances
    BY <1>9 DEF OrphanExits, SetPolicy, vars, Restore, AppStart
  <2> QED BY <1>1, <1>2, <2>1
<1>10. ASSUME NEW t \in Tasks, \/ Advance(t) /\ ~CloneCopy(t)
                               \/ Reset(t) \/ CaptureSelf(t) \/ Drop(t) \/ Fail(t)
       PROVE  InstancesInv'
  <2>1. SameCalls /\ UNCHANGED instances BY <1>10, CallsGoOn
  <2> QED BY <1>1, <2>1
<1> QED BY <1>3, <1>4, <1>5, <1>6, <1>7, <1>8, <1>9, <1>10 DEF Next, Begins

LEMMA NextKeeps ==
    ASSUME IdentityAssumption, IInv, [Next]_vars
    PROVE  IInv'
  BY NextCalls, NextInstances DEF IInv

-----------------------------------------------------------------------------
(* The theorems.                                                            *)

LEMMA IInvHolds == IdentityAssumption => (Spec => []IInv)
<1> SUFFICES ASSUME IdentityAssumption PROVE Spec => []IInv
  OBVIOUS
<1>1. Init => IInv BY InitKeeps
<1>2. IInv /\ [Next]_vars => IInv' BY NextKeeps
<1> QED BY <1>1, <1>2, PTL DEF Spec

\* Every variable keeps its type; the gate is held by the call at work and nobody else.
THEOREM IdentityTypeCorrect == IdentityAssumption => (Spec => []TypeOK)
<1> SUFFICES ASSUME IdentityAssumption PROVE Spec => []TypeOK
  OBVIOUS
<1>1. Spec => []IInv BY IInvHolds
<1>2. IInv => TypeOK BY DEF IInv, CallsInv
<1> QED BY <1>1, <1>2, PTL

\* The last finished snapshot is under its name or beside it until a reset or until
\* an empty directory is made over the only copy, which takes a rename that failed
\* to bring it back; and it is under its name whenever nobody is at work and no such
\* rename failed (consolidate_from; copier.rs, resolve_stale_swap).
THEOREM SnapshotSurvivesSwaps ==
    IdentityAssumption => (Spec => []SnapshotSurvives)
<1> SUFFICES ASSUME IdentityAssumption PROVE Spec => []SnapshotSurvives
  OBVIOUS
<1>1. Spec => []IInv BY IInvHolds
<1>2. IInv => SnapshotSurvives
  <2> SUFFICES ASSUME IInv PROVE SnapshotSurvives
    OBVIOUS
  <2>1. kept # Absent /\ fate # "lost" => kept = (IF dir = Absent THEN old ELSE dir)
    BY DEF IInv, CallsInv, SnapshotInv
  <2>2. gate = None => \A t \in Tasks : task[t].pc # "place"
    BY WorksAlone DEF Working, Capturing, IdentityAssumption, IInv, CallsInv, TypeOK, UnderGate
  <2>3. up /\ gate = None /\ fate = "held" /\ kept # Absent => dir # Absent
    BY <2>2 DEF IInv, CallsInv, PlaceInv
  <2> QED BY <2>1, <2>3 DEF SnapshotSurvives
<1> QED BY <1>1, <1>2, PTL

\* The row says capturing exactly while somebody captures, and ready only with a
\* version that was finished.
THEOREM RowIsHonest == IdentityAssumption => (Spec => []StatusIsHonest)
<1> SUFFICES ASSUME IdentityAssumption PROVE Spec => []StatusIsHonest
  OBVIOUS
<1>1. Spec => []IInv BY IInvHolds
<1>2. IInv => StatusIsHonest
  <2>1. \A t \in Tasks : task[t].pc \in Capturing <=>
                            UnderGate(t) /\ task[t].pc \notin {"wipe", "make"}
    BY DEF UnderGate, Capturing
  <2> QED BY <2>1 DEF IInv, CallsInv, RowInv, StatusIsHonest
<1> QED BY <1>1, <1>2, PTL

\* Who holds the gate goes on; if nobody does, who holds the lock; else anybody.
THEOREM LocksLetGo == IdentityAssumption => (Spec => []SomebodyGoesOn)
<1> SUFFICES ASSUME IdentityAssumption PROVE Spec => []SomebodyGoesOn
  OBVIOUS
<1>1. Spec => []IInv BY IInvHolds
<1>2. IInv => SomebodyGoesOn
  <2> SUFFICES ASSUME IInv, NEW u \in Tasks, task[u].pc # "idle"
               PROVE  \E t \in Tasks : /\ task[t].pc # "idle"
                                       /\ task[t].pc = "lock" => LockFree(t)
                                       /\ task[t].pc = "gate" => GateFree(t)
    BY DEF SomebodyGoesOn
  <2>1. CASE gate # None
    <3>1. gate \in Tasks /\ task[gate].pc \in Working
      BY <2>1, PcWorking DEF IInv, CallsInv, TypeOK, GateInv
    <3> QED BY <3>1 DEF Working, Capturing
  <2>2. CASE gate = None /\ lock # None
    <3>1. lock \in Tasks /\ task[lock].pc \in Locking
      BY <2>2 DEF IInv, CallsInv, TypeOK, ControlInv, Holds
    <3>2. task[lock].pc # "idle" /\ task[lock].pc # "lock"
      BY <3>1 DEF Locking, Working, Capturing
    <3> QED BY <2>2, <3>1, <3>2 DEF GateFree
  <2>3. CASE gate = None /\ lock = None
    BY <2>3 DEF LockFree, GateFree
  <2> QED BY <2>1, <2>2, <2>3
<1> QED BY <1>1, <1>2, PTL

\* Under first_login a promotion writes its cookies only where no cookies are: since
\* it looked it has held the lock of the vault.
THEOREM FirstLoginStays == IdentityAssumption => (Spec => FirstLoginOnce)
<1> SUFFICES ASSUME IdentityAssumption PROVE Spec => FirstLoginOnce
  OBVIOUS
<1>1. Spec => []IInv BY IInvHolds
<1>2. ASSUME IInv, NEW t \in Tasks, task[t].pc = "vault", task[t].op = "promote", task[t].first
      PROVE  vault = None
  BY <1>2 DEF IInv, CallsInv, CookieInv, Holds, Locking
<1>3. IInv /\ [Next]_vars =>
         [\A t \in Tasks : task[t].pc = "vault" /\ task[t].op = "promote" /\ task[t].first
                           /\ task'[t].pc # "vault" /\ vault' # vault => vault = None]_vars
  BY <1>2
<1> QED BY <1>1, <1>3, PTL DEF Spec, FirstLoginOnce

\* The cookies that enter the vault are of the instance whose files became the
\* snapshot last, or of one that was deleted, directory and all, while its capture
\* was under way.
THEOREM CookiesMatchFiles == IdentityAssumption => (Spec => CookiesFollowFiles)
<1> SUFFICES ASSUME IdentityAssumption PROVE Spec => CookiesFollowFiles
  OBVIOUS
<1>1. Spec => []IInv BY IInvHolds
<1>2. ASSUME IInv, NEW t \in Tasks, task[t].pc = "vault"
      PROVE  source = task[t].ins \/ Vanished(task[t].ins)
  <2>1. Uses(task[t]) /\ task[t].op # "self"
    BY <1>2 DEF IInv, CallsInv, ControlInv, Fits, Uses
  <2> QED BY <1>2, <2>1 DEF IInv, CallsInv, CookieInv, InstancesInv, Vanished
<1>3. IInv /\ [Next]_vars =>
         [\A t \in Tasks : task[t].pc = "vault" /\ vault' # vault /\ vault' # None
                           => source = task[t].ins \/ Vanished(task[t].ins)]_vars
  BY <1>2
<1> QED BY <1>1, <1>3, PTL DEF Spec, CookiesFollowFiles
=============================================================================
