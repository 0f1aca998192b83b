--------------------------- MODULE SessionIdentity ---------------------------
(***************************************************************************)
(* The identity of ONE environment in its two layers: the cookie vault      *)
(* (SessionVault, here one value with its past) and the file snapshot, a    *)
(* directory replaced by two renames beside a row that says whether it is   *)
(* ready.  Promotions after a stop, explicit captures, captures of the      *)
(* snapshot from itself, rollbacks, resets and the clones of new instances  *)
(* run at once; the vault lock covers the first, second, fourth and fifth,  *)
(* the gate every change of the snapshot, a clone only looks at it, and the *)
(* deletion of an instance takes neither lock nor gate.                     *)
(*                                                                          *)
(* One action is the code between two awaits, and inside the file work,     *)
(* which runs on a thread, each step a crash or a browser may fall between. *)
(*                                                                          *)
(* Errors of the database are left out, and a launch between the two steps  *)
(* of a deletion (InstanceLifecycle has it).                                *)
(*                                                                          *)
(* Code: application/session_service.rs, application/profile_service.rs,    *)
(* infrastructure/profile/copier.rs, application/instance_service.rs.       *)
(***************************************************************************)
EXTENDS Naturals, FiniteSets

CONSTANTS
    Ids,            \* identities one can log in with
    None,
    Absent,         \* no such directory
    Instances,
    Tasks,          \* slots for concurrent calls
    Ops,            \* the calls this instance makes
    MaxCalls,       \* bound: calls; a deletion counts for two
    MaxLogins,      \* bound: logins and later launches
    MaxCrashes,     \* bound: crashes of the application
    MayFail         \* file operations may return errors

IdentityAssumption ==
    /\ None \notin Ids \cup Instances \cup Tasks
    /\ Absent \notin [{"cookies", "storage"} -> Ids \cup {None}]
    /\ {MaxCalls, MaxLogins, MaxCrashes} \subseteq Nat
    /\ MayFail \in BOOLEAN

VARIABLES
    policy,    \* environments.session_capture
    vault,     \* session-vault.json
    past,      \* the generations restore finds
    row,       \* the login_profiles row: status and snapshot_version
    dir,       \* the snapshot directory
    old, tmp,  \* .<name>.old and .<name>.capturing beside it
    lock,      \* SessionService.vault_lock
    gate,      \* ProfileService.gate
    orphan,    \* a login browser of an old release lives on the directory
    inst,      \* per instance its status
    prof,      \* per instance the files of its profile
    export,    \* per instance the exported cookies, a file of its profile
    task,      \* the calls
    up,        \* the application runs
    left,      \* bounds: calls, logins, crashes
    kept,      \* history: what the last finished swap put in place
    source,    \* history: the instance kept was copied from
    fate       \* history: what became of kept

ghosts == <<kept, source, fate>>
files == <<dir, old, tmp>>
instances == <<inst, prof, export>>
vars == <<policy, vault, past, row, files, lock, gate, orphan, instances, task, up, left, ghosts>>

-----------------------------------------------------------------------------
(* Types.                                                                   *)

Policy == {"off", "first_login", "always"}
Status == {"not_configured", "ready", "capturing", "error"}
Row == [status : Status, version : Nat]
Vault == [gen : Nat, who : Ids]

\* Two of the files on the white list, copied one after the other: the cookies
\* and the local storage; each is of one identity or missing.
Parts == {"cookies", "storage"}
Content == [Parts -> Ids \cup {None}]
Empty == [p \in Parts |-> None]
Of(id) == [p \in Parts |-> id]
Has(content) == {p \in Parts : content # Absent /\ content[p] # None}

\* leaving: its deletion is under way; the row is there to its end.
InstanceStatus == {"none", "stopped", "alive", "leaving", "gone"}

\* held: within reach of every repair; adrift: a rename that would have brought
\* it back failed, and nothing but .old has it; lost: an empty directory was
\* made where it should have come back to.
Fate == {"held", "adrift", "lost"}

Op == {"promote", "capture", "self", "reset", "clone"}
\* policy: the row is stopped, the promotion begins; vault: the files are done.
Pc == {"idle", "policy", "lock", "gate", "resolve", "copy", "archive", "place",
       "remove", "commit", "vault", "wipe", "make", "cloning"}
Task == [op : Op, pc : Pc, ins : Instances \cup {None}, who : Ids \cup {None},
         first : BOOLEAN, seen : Row, todo : SUBSET Parts]

Idle == [op |-> "self", pc |-> "idle", ins |-> None, who |-> None, first |-> FALSE,
         seen |-> [status |-> "not_configured", version |-> 0], todo |-> {}]

UnderGate(t) == task[t].pc \in {"resolve", "copy", "archive", "place", "remove", "commit",
                                "wipe", "make"}

TypeOK ==
    /\ policy \in Policy
    /\ vault \in Vault \cup {None}
    /\ past \subseteq Vault
    /\ row \in Row
    /\ {dir, old, tmp} \subseteq Content \cup {Absent}
    /\ lock \in Tasks \cup {None}
    /\ gate \in Tasks \cup {None}
    /\ orphan \in BOOLEAN
    /\ inst \in [Instances -> InstanceStatus]
    /\ prof \in [Instances -> Content \cup {Absent}]
    /\ export \in [Instances -> Ids \cup {None}]
    /\ task \in [Tasks -> Task]
    /\ up \in BOOLEAN
    /\ left \in [calls : Nat, logins : Nat, crashes : Nat]
    /\ kept \in Content \cup {Absent}
    /\ source \in Instances \cup {None}
    /\ fate \in Fate
    /\ \A t \in Tasks : gate = t <=> UnderGate(t)  \* the guard lives as long as its call

Init ==
    /\ policy \in {"first_login", "always"}
    /\ vault = None
    /\ past = {}
    /\ row = Idle.seen
    /\ dir = Absent /\ old = Absent /\ tmp = Absent
    /\ lock = None
    /\ gate = None
    /\ orphan \in IF MayFail THEN BOOLEAN ELSE {FALSE}
    /\ \E made \in SUBSET Instances :
          /\ made # {}
          /\ inst = [i \in Instances |-> IF i \in made THEN "alive" ELSE "none"]
    /\ prof = [i \in Instances |-> Empty]
    /\ export = [i \in Instances |-> None]
    /\ task = [t \in Tasks |-> Idle]
    /\ up = TRUE
    /\ left = [calls |-> MaxCalls, logins |-> MaxLogins, crashes |-> MaxCrashes]
    /\ kept = Absent
    /\ source = None
    /\ fate = "held"

-----------------------------------------------------------------------------
(* Instances and their browsers, as far as the identity sees them.          *)

Goto(t, pc) == task' = [task EXCEPT ![t].pc = pc]

Free(t) ==
    /\ up
    /\ task[t].pc = "idle"
    /\ left.calls > 0
    /\ left' = [left EXCEPT !.calls = @ - 1]

\* A launch: running removes the export of the last run, the browser makes the
\* directory it does not find, and the cookies of the vault go into it.
Launch(i) ==
    /\ up
    /\ inst[i] = "stopped"
    /\ left.logins > 0
    /\ left' = [left EXCEPT !.logins = @ - 1]
    /\ inst' = [inst EXCEPT ![i] = "alive"]
    /\ export' = [export EXCEPT ![i] = None]
    /\ LET found == IF prof[i] = Absent THEN Empty ELSE prof[i] IN
       prof' = [prof EXCEPT ![i] = IF vault = None THEN found
                                   ELSE [found EXCEPT !["cookies"] = vault.who]]
    /\ UNCHANGED <<policy, vault, past, row, files, lock, gate, orphan, task, up, ghosts>>

\* The user logs in, in the browser.
Login(i, id) ==
    /\ inst[i] = "alive"
    /\ left.logins > 0
    /\ left' = [left EXCEPT !.logins = @ - 1]
    /\ prof' = [prof EXCEPT ![i] = Of(id)]
    /\ UNCHANGED <<policy, vault, past, row, files, lock, gate, orphan, inst, export, task, up, ghosts>>

\* A stop exports the cookies, or removes the old export when it cannot; the
\* browser ends, the row is stopped and the winner of the row promotes.
Stop(t, i) ==
    /\ Free(t)
    /\ "promote" \in Ops
    /\ inst[i] = "alive"
    /\ inst' = [inst EXCEPT ![i] = "stopped"]
    /\ \E id \in {prof[i]["cookies"], None} : export' = [export EXCEPT ![i] = id]
    /\ task' = [task EXCEPT ![t] = [Idle EXCEPT !.op = "promote", !.pc = "policy", !.ins = i]]
    /\ UNCHANGED <<policy, vault, past, row, files, lock, gate, orphan, prof, up, ghosts>>

\* DELETE of a stopped instance waits for no lock and no capture of it.
Delete(i) ==
    /\ up
    /\ inst[i] = "stopped"
    /\ left.calls > 1
    /\ left' = [left EXCEPT !.calls = @ - 2]
    /\ inst' = [inst EXCEPT ![i] = "leaving"]
    /\ UNCHANGED <<policy, vault, past, row, files, lock, gate, orphan, prof, export, task, up, ghosts>>

\* remove_dir_all: file by file, in some order, and the directory last; the
\* export, a file of it too, is taken to go with it.
RemoveFiles(i) ==
    /\ inst[i] = "leaving"
    /\ prof[i] # Absent
    /\ \/ /\ \E p \in Has(prof[i]) : prof' = [prof EXCEPT ![i][p] = None]
          /\ UNCHANGED export
       \/ /\ prof' = [prof EXCEPT ![i] = Absent]
          /\ export' = [export EXCEPT ![i] = None]
    /\ UNCHANGED <<policy, vault, past, row, files, lock, gate, orphan, inst, task, up, left, ghosts>>

\* The row goes also when its files would not.
DeleteRow(i) ==
    /\ inst[i] = "leaving"
    /\ prof[i] = Absent \/ MayFail
    /\ inst' = [inst EXCEPT ![i] = "gone"]
    /\ UNCHANGED <<policy, vault, past, row, files, lock, gate, orphan, prof, export, task, up,
                   left, ghosts>>

OrphanExits ==
    /\ orphan
    /\ orphan' = FALSE
    /\ UNCHANGED <<policy, vault, past, row, files, lock, gate, instances, task, up, left, ghosts>>

\* PATCH of the environment.
SetPolicy(p) ==
    /\ up
    /\ p # policy
    /\ left.calls > 0
    /\ left' = [left EXCEPT !.calls = @ - 1]
    /\ policy' = p
    /\ UNCHANGED <<vault, past, row, files, lock, gate, orphan, instances, task, up, ghosts>>

-----------------------------------------------------------------------------
(* The calls, up to the gate.                                               *)

\* promote_by_policy reads the environment before it waits for the lock.
ReadPolicy(t) ==
    /\ task[t].pc = "policy"
    /\ task' = [task EXCEPT ![t] =
                  IF policy = "off" THEN Idle
                  ELSE [@ EXCEPT !.pc = "lock", !.first = (policy = "first_login")]]
    /\ UNCHANGED <<policy, vault, past, row, files, lock, gate, orphan, instances, up, left, ghosts>>

\* capture_from_instance reads the status and the export before it waits.
Capture(t, i) ==
    /\ Free(t)
    /\ "capture" \in Ops
    /\ inst[i] \in {"stopped", "leaving"}
    /\ export[i] # None
    /\ task' = [task EXCEPT ![t] = [Idle EXCEPT !.op = "capture", !.pc = "lock", !.ins = i,
                                                !.who = export[i]]]
    /\ UNCHANGED <<policy, vault, past, row, files, lock, gate, orphan, instances, up, ghosts>>

\* POST .../session/reset: refused beforehand while a login browser lives.
Reset(t) ==
    /\ Free(t)
    /\ "reset" \in Ops
    /\ ~orphan
    /\ task' = [task EXCEPT ![t] = [Idle EXCEPT !.op = "reset", !.pc = "lock"]]
    /\ UNCHANGED <<policy, vault, past, row, files, lock, gate, orphan, instances, up, ghosts>>

\* ProfileService::capture waits for the gate only, with the row it has read.
CaptureSelf(t) ==
    /\ Free(t)
    /\ "self" \in Ops
    /\ task' = [task EXCEPT ![t] = [Idle EXCEPT !.op = "self", !.pc = "gate", !.seen = row]]
    /\ UNCHANGED <<policy, vault, past, row, files, lock, gate, orphan, instances, up, ghosts>>

\* has_effective_snapshot.
Effective == row.status = "ready" /\ row.version > 0

\* seeded fault: only the file layer counts as an identity.
Taken_FilesOnly == Effective
\* first_login leaves an environment alone that has an identity in a layer.
Taken == vault # None \/ Effective

\* seeded fault: a capture does not wait for the vault lock.
LockFree_Ignored(t) == task[t].op = "capture" \/ lock = None
LockFree(t) == lock = None

\* What a promotion needs: an export, and no identity under first_login.
Promotes(t) == ~(task[t].first /\ Taken) /\ export[task[t].ins] # None

\* The vault lock, and all that follows up to the gate: the look for an
\* identity and the export of a promotion, and the row of the instance, without
\* which the call ends; the vault of a reset is cleared.
Lock(t) ==
    /\ task[t].pc = "lock"
    /\ LockFree(t)
    /\ \/ /\ task[t].op # "reset"
          /\ (task[t].op = "promote" /\ ~Promotes(t)) \/ inst[task[t].ins] = "gone"
          /\ task' = [task EXCEPT ![t] = Idle]
          /\ UNCHANGED <<vault, past, lock>>
       \/ /\ task[t].op = "promote" /\ Promotes(t) /\ inst[task[t].ins] # "gone"
          /\ lock' = t
          /\ task' = [task EXCEPT ![t].pc = "gate", ![t].seen = row,
                                  ![t].who = export[task[t].ins]]
          /\ UNCHANGED <<vault, past>>
       \/ /\ task[t].op = "capture" /\ inst[task[t].ins] # "gone"
          /\ lock' = t
          /\ task' = [task EXCEPT ![t].pc = "gate", ![t].seen = row]
          /\ UNCHANGED <<vault, past>>
       \/ /\ task[t].op = "reset"
          /\ lock' = t
          /\ vault' = None
          /\ past' = {}
          /\ task' = [task EXCEPT ![t].pc = "gate", ![t].seen = row]
    /\ UNCHANGED <<policy, row, files, gate, orphan, instances, up, left, ghosts>>

\* restore holds the lock without an await: one step.
Restore(v) ==
    /\ up
    /\ "restore" \in Ops
    /\ left.calls > 0
    /\ left' = [left EXCEPT !.calls = @ - 1]
    /\ lock = None
    /\ vault' = [gen |-> IF vault = None THEN 1 ELSE vault.gen + 1, who |-> v.who]
    /\ past' = IF vault = None THEN past ELSE past \cup {vault}
    /\ UNCHANGED <<policy, row, files, lock, gate, orphan, instances, task, up, ghosts>>

\* seeded fault: the guard of the gate outlives its call.
End_KeepsGate(t) ==
    /\ task' = [task EXCEPT ![t] = Idle]
    /\ lock' = IF lock = t THEN None ELSE lock
    /\ UNCHANGED gate

\* A call that ends, whatever it holds.
End(t) ==
    /\ task' = [task EXCEPT ![t] = Idle]
    /\ lock' = IF lock = t THEN None ELSE lock
    /\ gate' = IF gate = t THEN None ELSE gate

\* The client of a waiting call hangs up and its future is dropped.
Drop(t) ==
    /\ task[t].pc \in {"policy", "lock", "gate"}
    /\ MayFail
    /\ End(t)
    /\ UNCHANGED <<policy, vault, past, row, files, orphan, instances, up, left, ghosts>>

-----------------------------------------------------------------------------
(* The snapshot: capture, capture_files_from, consolidate_from.             *)

\* seeded fault: the capture takes the vault lock once more, which it holds.
GateFree_Relocks(t) == gate = None /\ lock = None
GateFree(t) == gate = None

\* Behind the gate: the status as it was read before it, and the login browser,
\* which only a capture of the snapshot from itself ends (or fails to).
EnterGate(t) ==
    /\ task[t].pc = "gate"
    /\ GateFree(t)
    /\ \/ /\ task[t].op # "reset" /\ task[t].seen.status = "capturing"
          /\ End(t)
          /\ UNCHANGED <<row, orphan>>
       \/ /\ orphan
          /\ End(t)
          /\ UNCHANGED <<row, orphan>>
       \/ /\ task[t].op = "reset"
          /\ ~orphan
          /\ gate' = t
          /\ Goto(t, "wipe")
          /\ UNCHANGED <<row, lock, orphan>>
       \/ /\ task[t].op # "reset" /\ task[t].seen.status # "capturing"
          /\ orphan => task[t].op = "self"
          /\ orphan' = FALSE
          /\ row' = [row EXCEPT !.status = "capturing"]
          /\ gate' = t
          /\ Goto(t, "resolve")
          /\ UNCHANGED lock
    /\ UNCHANGED <<policy, vault, past, files, instances, up, left, ghosts>>

SourceOf(t) == IF task[t].op = "self" THEN dir ELSE prof[task[t].ins]

\* seeded fault: the left-over .old goes whatever is in its place.
Resolved_Dropped == [dir |-> dir, old |-> Absent, tmp |-> Absent]
\* resolve_stale_swap: a .old without a directory is the only snapshot and goes
\* back; beside one it is a left-over.
Resolved ==
    [dir |-> IF dir = Absent THEN old ELSE dir, old |-> Absent, tmp |-> Absent]

SetFiles(f) == dir' = f.dir /\ old' = f.old /\ tmp' = f.tmp

\* A repair that works: what was adrift is back.
Repaired == IF fate = "adrift" THEN "held" ELSE fate

\* Without a source (an instance deleted meanwhile, a snapshot never made) the
\* directory is made if it is not there, and that is all: .old is not looked at.
\* Else the files to copy are listed, what a broken swap left is resolved, and
\* the temporary directory made.
Prepare(t) ==
    /\ task[t].pc = "resolve"
    /\ IF SourceOf(t) = Absent
       THEN /\ dir' = IF dir = Absent THEN Empty ELSE dir
            /\ fate' = IF dir = Absent /\ fate = "adrift" THEN "lost" ELSE fate
            /\ Goto(t, "commit")
            /\ UNCHANGED <<old, tmp>>
       ELSE /\ SetFiles([Resolved EXCEPT !.tmp = Empty])
            /\ fate' = Repaired
            /\ task' = [task EXCEPT ![t].pc = "copy", ![t].todo = Has(SourceOf(t))]
    /\ UNCHANGED <<policy, vault, past, row, lock, gate, orphan, instances, up, left, kept, source>>

NextPart(t) == IF "cookies" \in task[t].todo THEN "cookies" ELSE "storage"

\* One file of the list; what the browser of the source writes meanwhile counts,
\* and one that is gone by now fails the capture: mark_error.
Copy(t) ==
    /\ task[t].pc = "copy"
    /\ \/ /\ task[t].todo = {}
          /\ Goto(t, "archive")
          /\ UNCHANGED <<tmp, row, lock, gate>>
       \/ /\ task[t].todo # {} /\ NextPart(t) \in Has(SourceOf(t))
          /\ tmp' = [tmp EXCEPT ![NextPart(t)] = SourceOf(t)[NextPart(t)]]
          /\ task' = [task EXCEPT ![t].todo = @ \ {NextPart(t)}]
          /\ UNCHANGED <<row, lock, gate>>
       \/ /\ task[t].todo # {} /\ NextPart(t) \notin Has(SourceOf(t))
          /\ row' = [row EXCEPT !.status = "error"]
          /\ End(t)
          /\ UNCHANGED tmp
    /\ UNCHANGED <<policy, vault, past, dir, old, orphan, instances, up, left, ghosts>>

\* dir -> .old.
Archive(t) ==
    /\ task[t].pc = "archive"
    /\ old' = IF dir = Absent THEN old ELSE dir
    /\ dir' = Absent
    /\ Goto(t, "place")
    /\ UNCHANGED <<policy, vault, past, row, tmp, lock, gate, orphan, instances, up, left, ghosts>>

\* .capturing -> dir.
Place(t) ==
    /\ task[t].pc = "place"
    /\ dir' = tmp
    /\ tmp' = Absent
    /\ kept' = tmp
    /\ fate' = "held"
    /\ source' = IF task[t].op = "self" THEN source ELSE task[t].ins
    /\ Goto(t, "remove")
    /\ UNCHANGED <<policy, vault, past, row, old, lock, gate, orphan, instances, up, left>>

\* The .old goes; an error is ignored.
Remove(t) ==
    /\ task[t].pc = "remove"
    /\ old' \in {Absent} \cup (IF MayFail THEN {old} ELSE {})
    /\ Goto(t, "commit")
    /\ UNCHANGED <<policy, vault, past, row, dir, tmp, lock, gate, orphan, instances, up, left, ghosts>>

\* mark_ready with the version after the one read before the gate; the gate
\* opens, and a capture from an instance goes on to the vault.
Commit(t) ==
    /\ task[t].pc = "commit"
    /\ row' = [status |-> "ready", version |-> task[t].seen.version + 1]
    /\ IF task[t].op = "self" THEN End(t)
       ELSE gate' = None /\ Goto(t, "vault") /\ UNCHANGED lock
    /\ UNCHANGED <<policy, vault, past, files, orphan, instances, up, left, ghosts>>

\* An error of a file operation: mark_error; a failed second rename is rolled
\* back, and an error of that is ignored.
Fail(t) ==
    /\ MayFail
    /\ task[t].pc \in {"resolve", "copy", "archive", "place"}
    /\ \/ /\ task[t].pc # "place" \/ old = Absent
          /\ UNCHANGED <<dir, old, fate>>
       \/ /\ task[t].pc = "place" /\ old # Absent
          /\ dir' = old /\ old' = Absent
          /\ UNCHANGED fate
       \/ /\ task[t].pc = "place" /\ old # Absent
          /\ fate' = IF fate = "held" THEN "adrift" ELSE fate
          /\ UNCHANGED <<dir, old>>
    /\ tmp' = IF task[t].pc = "place" THEN Absent ELSE tmp
    /\ row' = [row EXCEPT !.status = "error"]
    /\ End(t)
    /\ UNCHANGED <<policy, vault, past, orphan, instances, up, left, kept, source>>

\* The cookie layer: write_new, or its error.
WriteVault(t) ==
    /\ task[t].pc = "vault"
    /\ \/ /\ vault' = [gen |-> IF vault = None THEN 1 ELSE vault.gen + 1, who |-> task[t].who]
          /\ past' = IF vault = None THEN past ELSE past \cup {vault}
       \/ MayFail /\ UNCHANGED <<vault, past>>
    /\ End(t)
    /\ UNCHANGED <<policy, row, files, orphan, instances, up, left, ghosts>>

-----------------------------------------------------------------------------
(* The rest of a reset, and the clone of a new instance.                    *)

\* remove_dir_all, which leaves .old alone; an error ends the reset.
Wipe(t) ==
    /\ task[t].pc = "wipe"
    /\ kept' = Absent
    /\ source' = None
    /\ fate' = "held"
    /\ \/ /\ dir' = Absent
          /\ Goto(t, "make")
          /\ UNCHANGED <<lock, gate>>
       \/ /\ MayFail
          /\ dir' \in {dir} \cup (IF dir = Absent THEN {} ELSE {Empty})
          /\ End(t)
    /\ UNCHANGED <<policy, vault, past, row, old, tmp, orphan, instances, up, left>>

\* create_dir_all and mark_reset.
Make(t) ==
    /\ task[t].pc = "make"
    /\ dir' = Empty
    /\ row' = Idle.seen
    /\ End(t)
    /\ UNCHANGED <<policy, vault, past, old, tmp, orphan, instances, up, left, ghosts>>

\* clone_for_instance tries the gate and drops it at once; not ready, or a
\* login browser alive: the instance starts without an identity.
Clone(t, i) ==
    /\ Free(t)
    /\ "clone" \in Ops
    /\ inst[i] = "none"
    /\ \A u \in Tasks : task[u].ins # i
    /\ IF gate # None \/ row.status # "ready" \/ orphan
       THEN inst' = [inst EXCEPT ![i] = "stopped"] /\ UNCHANGED task
       ELSE /\ task' = [task EXCEPT ![t] = [Idle EXCEPT !.op = "clone", !.pc = "cloning",
                                                        !.ins = i, !.todo = Has(dir)]]
            /\ UNCHANGED inst
    /\ UNCHANGED <<policy, vault, past, row, files, lock, gate, orphan, prof, export, up, ghosts>>

\* One file; one that is gone by now fails the creation.
CloneCopy(t) ==
    LET i == task[t].ins
        p == NextPart(t)
    IN
    /\ task[t].pc = "cloning"
    /\ \/ /\ task[t].todo = {}
          /\ inst' = [inst EXCEPT ![i] = "stopped"]
          /\ task' = [task EXCEPT ![t] = Idle]
          /\ UNCHANGED prof
       \/ /\ task[t].todo # {} /\ p \in Has(dir)
          /\ prof' = [prof EXCEPT ![i][p] = dir[p]]
          /\ task' = [task EXCEPT ![t].todo = @ \ {p}]
          /\ UNCHANGED inst
       \/ /\ task[t].todo # {} /\ p \notin Has(dir)
          /\ task' = [task EXCEPT ![t] = Idle]
          /\ prof' = [prof EXCEPT ![i] = Empty]
          /\ UNCHANGED inst
    /\ UNCHANGED <<policy, vault, past, row, files, lock, gate, orphan, export, up, left, ghosts>>

-----------------------------------------------------------------------------
(* Crashes, restarts, the specification.                                    *)

\* The locks and the calls live in the process; the browsers do not.
AppCrash ==
    /\ up
    /\ left.crashes > 0
    /\ left' = [left EXCEPT !.crashes = @ - 1]
    /\ up' = FALSE
    /\ task' = [t \in Tasks |-> Idle]
    /\ lock' = None
    /\ gate' = None
    /\ inst' = [i \in Instances |-> IF inst[i] = "leaving" THEN "stopped" ELSE inst[i]]
    /\ UNCHANGED <<policy, vault, past, row, files, orphan, prof, export, ghosts>>

\* seeded fault: every stuck capture becomes ready.
Recovered_Ready == [row EXCEPT !.status = IF @ = "capturing" THEN "ready" ELSE @]
\* recover_stale_capturing: a capture that never finished before is not ready.
Recovered ==
    [row EXCEPT !.status = IF @ # "capturing" THEN @
                           ELSE IF row.version = 0 THEN "not_configured" ELSE "ready"]

\* The repair of a broken swap may fail too, which is only logged.
AppStart ==
    /\ ~up
    /\ up' = TRUE
    /\ row' = Recovered
    /\ \/ SetFiles(Resolved) /\ fate' = Repaired
       \/ /\ MayFail /\ old # Absent
          /\ tmp' = Absent
          /\ fate' = IF dir = Absent /\ fate = "held" THEN "adrift" ELSE fate
          /\ UNCHANGED <<dir, old>>
    /\ UNCHANGED <<policy, vault, past, lock, gate, orphan, instances, task, left, kept, source>>

Begins(t) ==
    \/ \E i \in Instances : Stop(t, i) \/ Capture(t, i) \/ Clone(t, i)
    \/ Reset(t) \/ CaptureSelf(t)

Advance(t) ==
    \/ ReadPolicy(t) \/ Lock(t) \/ EnterGate(t)
    \/ Prepare(t) \/ Copy(t) \/ Archive(t) \/ Place(t) \/ Remove(t) \/ Commit(t)
    \/ WriteVault(t) \/ Wipe(t) \/ Make(t) \/ CloneCopy(t)

Next ==
    \/ \E t \in Tasks : Begins(t) \/ Advance(t) \/ Drop(t) \/ Fail(t)
    \/ \E i \in Instances : Launch(i) \/ Delete(i) \/ RemoveFiles(i) \/ DeleteRow(i)
    \/ \E i \in Instances, id \in Ids : Login(i, id)
    \/ \E v \in past : Restore(v)
    \/ \E p \in Policy : SetPolicy(p)
    \/ OrphanExits \/ AppCrash \/ AppStart

Spec == Init /\ [][Next]_vars

-----------------------------------------------------------------------------
(* Properties.                                                              *)

\* Once a swap has put a snapshot in place, it stays, under its name or beside
\* it, until a reset begins, whatever a crash or an error cuts short and whichever
\* instance is deleted meanwhile; while nobody is at work it is under its name,
\* unless the rename that would have brought it back failed.  What the code does
\* lose: after such a rename, a capture that finds no source makes an empty
\* directory over the only copy (consolidate_from; copier.rs, resolve_stale_swap).
SnapshotSurvives ==
    kept # Absent /\ fate # "lost" =>
        /\ kept \in {dir, old}
        /\ up /\ gate = None /\ fate = "held" => dir = kept

\* The row says capturing exactly while a capture is at work behind the gate,
\* so that no capture is refused for ever; and ready only once a snapshot was
\* finished, so that no instance is given an empty one as an identity
\* (recover_stale_capturing).
StatusIsHonest ==
    up => /\ row.status = "capturing" <=>
                \E t \in Tasks : UnderGate(t) /\ task[t].pc \notin {"wipe", "make"}
          /\ row.status = "ready" => row.version > 0

\* A promotion under first_login never replaces the cookies of an identity
\* that was captured, restored or promoted meanwhile (promote_by_policy, M1).
FirstLoginOnce ==
    [][\A t \in Tasks :
          task[t].pc = "vault" /\ task[t].op = "promote" /\ task[t].first
          /\ task'[t].pc # "vault" /\ vault' # vault => vault = None]_vars

\* Cookies enter the vault right after the files of the same instance became
\* the snapshot: no other instance's capture and no reset comes between the
\* layers (capture_inner_locked).  But an instance may be deleted while it is
\* captured: its cookies then enter over the files of an earlier one, or none.
Vanished(i) == prof[i] = Absent /\ inst[i] \in {"leaving", "gone"}

CookiesFollowFiles ==
    [][\A t \in Tasks :
          task[t].pc = "vault" /\ vault' # vault /\ vault' # None =>
              source = task[t].ins \/ Vanished(task[t].ins)]_vars

\* The two locks never leave everybody waiting: of the calls under way one can
\* go on (a reset and a capture take the vault lock before the gate, a capture of
\* the snapshot from itself the gate only).
SomebodyGoesOn ==
    (\E t \in Tasks : task[t].pc # "idle") =>
        \E t \in Tasks : /\ task[t].pc # "idle"
                         /\ task[t].pc = "lock" => LockFree(t)
                         /\ task[t].pc = "gate" => GateFree(t)
=============================================================================
