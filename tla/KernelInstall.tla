---------------------------- MODULE KernelInstall ----------------------------
(***************************************************************************)
(* The browser kernel: downloaded once, unpacked into the directory of its   *)
(* version, and vouched for by meta.json.  Launches and the settings page    *)
(* ask for it at once; one of them installs, behind a lock, the others wait. *)
(* The lock, the flag and the cancel channel are the process's, the files    *)
(* stay when it dies.  A launch is a request, and a request whose client is  *)
(* gone is dropped at the await it has reached.                              *)
(*                                                                           *)
(* Code: infrastructure/kernel/manager.rs, api/kernel.rs.                    *)
(***************************************************************************)
EXTENDS Naturals, FiniteSets

CONSTANTS
    Tasks,      \* launches and background downloads
    Old, Pinned,\* versions
    Parts,      \* what a version directory holds
    Binary,     \* the part installed_binary_path looks for
    None,       \* no version, nobody
    MaxCrashes, \* bound
    MaxCalls    \* bound: launches and downloads begun

VARIABLES
    meta,        \* the version meta.json vouches for
    parts,       \* per version the parts in its directory
    zip,         \* the temporary archive: "none", "torn", "whole"
    slot,        \* who holds DOWNLOAD_SLOT
    downloading, \* DOWNLOADING
    tx,          \* whose channel CANCEL_TX holds
    task,        \* the tasks: kind, place, cancel signal
    canceller,   \* the cancel request: "idle", "send"
    vanished,    \* the binary was deleted under a meta.json that vouches (history)
    budget       \* crashes and calls left

vars == <<meta, parts, zip, slot, downloading, tx, task, canceller, vanished, budget>>
files == <<meta, parts, zip, vanished>>

\* Two versions, nobody is no task, and the binary is part of what is unpacked.
InstallAssumption ==
    /\ Old # Pinned /\ None \notin {Old, Pinned} \cup Tasks
    /\ Binary \in Parts

Versions == {Old, Pinned}
Pcs == {"idle", "wait", "again", "channel", "flag", "download", "clear", "unpack", "verify",
        "vouch", "meta", "sweep", "unflag", "untie"}

TypeOK ==
    /\ meta \in Versions \cup {None}
    /\ parts \in [Versions -> SUBSET Parts]
    /\ zip \in {"none", "torn", "whole"}
    /\ {slot, tx} \subseteq Tasks \cup {None}
    /\ {downloading, vanished} \subseteq BOOLEAN
    /\ task \in [Tasks -> [pc : Pcs, kind : {"launch", "background"}, cancelled : BOOLEAN]]
    /\ canceller \in {"idle", "send"}
    /\ budget \in [crashes : Nat, calls : Nat]

Idle == [pc |-> "idle", kind |-> "launch", cancelled |-> FALSE]

\* Nothing, or an older version from an older release.
Init ==
    /\ \/ meta = None /\ parts = [v \in Versions |-> {}]
       \/ meta = Old /\ parts = [v \in Versions |-> IF v = Old THEN Parts ELSE {}]
    /\ zip = "none"
    /\ slot = None
    /\ downloading = FALSE
    /\ tx = None
    /\ task = [t \in Tasks |-> Idle]
    /\ canceller = "idle"
    /\ vanished = FALSE
    /\ budget = [crashes |-> MaxCrashes, calls |-> MaxCalls]

\* installed_binary_path finds it.
Installed == meta = Pinned /\ Binary \in parts[Pinned]

At(t, pc) == task[t].pc = pc
Goto(t, pc) == task' = [task EXCEPT ![t].pc = pc]
Ends(t) == task' = [task EXCEPT ![t] = Idle]

-----------------------------------------------------------------------------
(* ensure_ready, start_download, cancel_download.                            *)

Spend == budget' = [budget EXCEPT !.calls = @ - 1]

\* A launch that finds the kernel goes on with it at once.
EnsureReady(t) ==
    /\ At(t, "idle") /\ budget.calls > 0
    /\ ~Installed
    /\ task' = [task EXCEPT ![t] = [Idle EXCEPT !.pc = "wait"]]
    /\ Spend
    /\ UNCHANGED <<files, slot, downloading, tx, canceller>>

\* Refused while the flag is up; the flag goes up later, inside the lock.
StartDownload(t) ==
    /\ At(t, "idle") /\ budget.calls > 0
    /\ ~downloading
    /\ task' = [task EXCEPT ![t] = [Idle EXCEPT !.pc = "wait", !.kind = "background"]]
    /\ Spend
    /\ UNCHANGED <<files, slot, downloading, tx, canceller>>

\* seeded fault: the lock is not waited for.
SlotIsFree_Always == TRUE
SlotIsFree == slot = None

TakeSlot(t) ==
    /\ At(t, "wait")
    /\ SlotIsFree
    /\ slot' = t
    /\ Goto(t, "again")
    /\ UNCHANGED <<files, downloading, tx, canceller, budget>>

\* Another task may have installed it meanwhile; else the old archive goes.
LookAgain(t) ==
    /\ At(t, "again")
    /\ IF Installed
       THEN Ends(t) /\ slot' = None /\ UNCHANGED zip
       ELSE Goto(t, "channel") /\ zip' = "none" /\ UNCHANGED slot
    /\ UNCHANGED <<meta, parts, vanished, downloading, tx, canceller, budget>>

\* Only with the flag up,
CancelCheck ==
    /\ canceller = "idle"
    /\ downloading
    /\ canceller' = "send"
    /\ UNCHANGED <<files, slot, downloading, tx, task, budget>>

\* and to whoever has the channel then, if anybody.
CancelSend ==
    /\ canceller = "send"
    /\ canceller' = "idle"
    /\ task' = IF tx = None \/ At(tx, "idle") THEN task ELSE [task EXCEPT ![tx].cancelled = TRUE]
    /\ UNCHANGED <<files, slot, downloading, tx, budget>>

-----------------------------------------------------------------------------
(* run_install, install_inner.                                               *)

TieChannel(t) ==
    /\ At(t, "channel")
    /\ tx' = t
    /\ Goto(t, "flag")
    /\ UNCHANGED <<files, slot, downloading, canceller, budget>>

RaiseFlag(t) ==
    /\ At(t, "flag")
    /\ downloading' = TRUE
    /\ Goto(t, "download")
    /\ UNCHANGED <<files, slot, tx, canceller, budget>>

\* Both mirrors fail, the archive arrives, or a cancel ends the transfer.
Download(t) ==
    /\ At(t, "download")
    /\ \/ zip' \in {"none", "torn"} /\ Goto(t, "unflag")
       \/ ~task[t].cancelled /\ zip' = "whole" /\ Goto(t, "clear")
    /\ UNCHANGED <<meta, parts, vanished, slot, downloading, tx, canceller, budget>>

\* What is left of an earlier attempt goes, all of it or (an error) some of it.
ClearVersion(t) ==
    /\ At(t, "clear")
    /\ \/ parts' = [parts EXCEPT ![Pinned] = {}] /\ Goto(t, "unpack")
       \/ \E rest \in SUBSET parts[Pinned] :
             parts' = [parts EXCEPT ![Pinned] = rest] /\ Goto(t, "unflag")
    /\ UNCHANGED <<meta, zip, vanished, slot, downloading, tx, canceller, budget>>

\* Entry by entry, with a look at the cancel signal before each.
Unpack(t) ==
    LET left == Parts \ parts[Pinned] IN
    /\ At(t, "unpack")
    /\ IF left = {}
       THEN Goto(t, "verify") /\ UNCHANGED parts
       ELSE \/ ~task[t].cancelled
               /\ \E e \in left : parts' = [parts EXCEPT ![Pinned] = @ \cup {e}]
               /\ UNCHANGED task
            \/ Goto(t, "unflag") /\ UNCHANGED parts
    /\ UNCHANGED <<meta, zip, vanished, slot, downloading, tx, canceller, budget>>

\* --version answers with the pinned version: it needs every part, and may fail
\* for other reasons (a library the system lacks).
Verify(t) ==
    /\ At(t, "verify")
    /\ \/ parts[Pinned] = Parts /\ Goto(t, "vouch")
       \/ Goto(t, "unflag")
    /\ UNCHANGED <<files, slot, downloading, tx, canceller, budget>>

\* meta.json is written in place: first it is empty,
OpenMeta(t) ==
    /\ At(t, "vouch")
    /\ meta' = None
    /\ Goto(t, "meta")
    /\ UNCHANGED <<parts, zip, vanished, slot, downloading, tx, canceller, budget>>

\* then it vouches, unless the write fails half way.
WriteMeta(t) ==
    /\ At(t, "meta")
    /\ \/ meta' = Pinned /\ vanished' = FALSE /\ Goto(t, "sweep")
       \/ Goto(t, "unflag") /\ UNCHANGED <<meta, vanished>>
    /\ UNCHANGED <<parts, zip, slot, downloading, tx, canceller, budget>>

\* cleanup_old_versions, as far as the files can be removed, and the archive.
SweepOld(t) ==
    /\ At(t, "sweep")
    /\ \E rest \in {{}, parts[Old]} : parts' = [parts EXCEPT ![Old] = rest]
    /\ zip' = "none"
    /\ Goto(t, "unflag")
    /\ UNCHANGED <<meta, vanished, slot, downloading, tx, canceller, budget>>

LowerFlag(t) ==
    /\ At(t, "unflag")
    /\ downloading' = FALSE
    /\ Goto(t, "untie")
    /\ UNCHANGED <<files, slot, tx, canceller, budget>>

\* The channel, the archive, and with the return the lock.
Untie(t) ==
    /\ At(t, "untie")
    /\ tx' = None
    /\ zip' = "none"
    /\ slot' = IF slot = t THEN None ELSE slot
    /\ Ends(t)
    /\ UNCHANGED <<meta, parts, vanished, downloading, canceller, budget>>

-----------------------------------------------------------------------------
(* What happens to it.                                                       *)

\* seeded fault: the lock of a dropped launch is leaked.
Released_Leaked(t) == slot
\* Its guard frees the lock.
Released(t) == IF slot = t THEN None ELSE slot

\* The client of a launch is gone: the request ends at its await, without the
\* steps that lower the flag and untie the channel.
Drop(t) ==
    /\ task[t].kind = "launch"
    /\ task[t].pc \in {"wait", "channel", "download", "untie"}
    /\ Ends(t)
    /\ slot' = Released(t)
    /\ UNCHANGED <<files, downloading, tx, canceller, budget>>

\* Somebody deletes the binary.
Vanish ==
    /\ Installed
    /\ \A t \in Tasks : At(t, "idle")
    /\ parts' = [parts EXCEPT ![Pinned] = @ \ {Binary}]
    /\ vanished' = TRUE
    /\ UNCHANGED <<meta, zip, slot, downloading, tx, task, canceller, budget>>

\* The application dies and starts again.
AppCrash ==
    /\ budget.crashes > 0
    /\ budget' = [budget EXCEPT !.crashes = @ - 1]
    /\ zip' \in {zip} \cup (IF \E t \in Tasks : At(t, "download") THEN {"torn"} ELSE {})
    /\ slot' = None
    /\ downloading' = FALSE
    /\ tx' = None
    /\ task' = [t \in Tasks |-> Idle]
    /\ canceller' = "idle"
    /\ UNCHANGED <<meta, parts, vanished>>

-----------------------------------------------------------------------------
\* The steps a task takes by itself.
Advance(t) ==
    \/ TakeSlot(t) \/ LookAgain(t) \/ TieChannel(t) \/ RaiseFlag(t) \/ ClearVersion(t)
    \/ Unpack(t) \/ OpenMeta(t) \/ WriteMeta(t) \/ SweepOld(t) \/ LowerFlag(t) \/ Untie(t)

\* Those whose end it waits for without a limit: only connecting has one, not the
\* answer of a mirror nor the transfer, and not --version.
Await(t) == Download(t) \/ Verify(t)

Next ==
    \/ \E t \in Tasks :
          EnsureReady(t) \/ StartDownload(t) \/ Advance(t) \/ Await(t) \/ Drop(t)
    \/ CancelCheck \/ CancelSend
    \/ Vanish \/ AppCrash

\* The tasks run; nothing obliges a mirror to answer, a transfer to go on or the
\* binary to say its version.
Fairness ==
    /\ \A t \in Tasks : WF_vars(Advance(t))
    /\ WF_vars(CancelSend)

Spec == Init /\ [][Next]_vars /\ Fairness

-----------------------------------------------------------------------------
(* Properties.                                                               *)

\* What meta.json vouches for is whole, whatever is cancelled, fails, is dropped
\* or crashes, and whoever installs beside whom (manager.rs, installed_binary_path:
\* no half-unpacked directory is taken for an installation).  Only a binary
\* deleted under its meta.json lets the next attempt go unnoticed.
VouchedIsWhole == Installed /\ ~vanished => parts[Pinned] = Parts

\* No transfer stalls for ever, nor does --version: one holder of the lock at a time.
NoneStalls == []<>(\A t \in Tasks : task[t].pc \notin {"download", "verify"})

\* As long as none stalls for ever, everybody who waits for the kernel gets it or an
\* error, whoever of those before it fails, is cancelled or dropped with the lock in
\* hand.  A stalled one keeps the lock, and everybody waits.
AskersEnd == NoneStalls => \A t \in Tasks : ~At(t, "idle") ~> At(t, "idle")
=============================================================================
