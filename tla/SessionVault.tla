---------------------------- MODULE SessionVault ----------------------------
(***************************************************************************)
(* The cookie layer of an environment's identity on disk: the current file  *)
(* session-vault.json, replaced by a rename, and one file per earlier       *)
(* generation, written in place.  The vault lock of SessionService lets one *)
(* operation run at a time; a crash or an I/O error may cut it short after  *)
(* any step.                                                                *)
(*                                                                          *)
(* Code: infrastructure/session_vault.rs, and its callers in                *)
(* application/session_service.rs.                                          *)
(***************************************************************************)
EXTENDS Naturals, FiniteSets

CONSTANTS
    Identities,  \* cookie sets
    None,        \* no current file, or one that cannot be read
    Torn,        \* the content of a file cut off while it was written
    Keep,        \* MAX_GENERATIONS
    MaxGen,      \* bound: no write beyond this generation
    ClearFails,  \* a reset may be cut short (a crash, a removal it ignores)
    PruneFails   \* the removal of an old generation may fail

ASSUME VaultAssumption ==
    /\ None \notin [gen : Nat, who : Identities] \cup Identities
    /\ Torn \notin Identities
    /\ Keep \in Nat \ {0}
    /\ MaxGen \in Nat
    /\ {ClearFails, PruneFails} \subseteq BOOLEAN

VARIABLES
    cur,   \* session-vault.json
    hist,  \* the files of session-vault-history
    op     \* the operation that holds the vault lock

vars == <<cur, hist, op>>

Gens == Nat \ {0}
Vault == [gen : Gens, who : Identities]
File == [gen : Gens, who : Identities \cup {Torn}]

\* archive: about to open gen-<n>.json; fill: it is open and truncated;
\* replace: the archive is done (or there is none), the rename is next.
Pc == {"idle", "archive", "fill", "prune", "replace", "clearCurrent", "clearHistory"}

TypeOK ==
    /\ cur \in Vault \cup {None}
    /\ hist \subseteq File
    /\ op \in [pc : Pc, who : Identities \cup {None}]
    /\ op.pc \in {"archive", "fill", "prune", "replace"} => op.who \in Identities

Idle == [pc |-> "idle", who |-> None]

Init ==
    /\ cur = None
    /\ hist = {}
    /\ op = Idle

-----------------------------------------------------------------------------
(* write_new, called by a capture or a promotion and by restore.            *)

Goto(pc) == op' = [op EXCEPT !.pc = pc]

NextGen == IF cur = None THEN 1 ELSE cur.gen + 1

BeginWrite(who) ==
    /\ op.pc = "idle"
    /\ NextGen <= MaxGen
    /\ op' = [pc |-> IF cur = None THEN "replace" ELSE "archive", who |-> who]
    /\ UNCHANGED <<cur, hist>>

\* restore: the cookies of an earlier generation; one that is missing or torn is
\* refused.
Restore(f) == f.who # Torn /\ BeginWrite(f.who)

Others == {f \in hist : f.gen # cur.gen}

\* The archive file is opened with truncate ...
OpenArchive ==
    /\ op.pc = "archive"
    /\ hist' = Others \cup {[gen |-> cur.gen, who |-> Torn]}
    /\ Goto("fill")
    /\ UNCHANGED cur

\* ... and written.
FillArchive ==
    /\ op.pc = "fill"
    /\ hist' = Others \cup {cur}
    /\ Goto("prune")
    /\ UNCHANGED cur

\* seeded fault: prune sorts old to new.
Surplus_Reversed == {f \in hist : Cardinality({g \in hist : g.gen < f.gen}) >= Keep}
\* seeded fault: prune skips one generation too many.
Surplus_OffByOne == {f \in hist : Cardinality({g \in hist : g.gen > f.gen}) > Keep}
\* All files but those of the Keep highest generations.
Surplus == {f \in hist : Cardinality({g \in hist : g.gen > f.gen}) >= Keep}

Prune ==
    /\ op.pc = "prune"
    /\ \E gone \in SUBSET Surplus :
          /\ PruneFails \/ gone = Surplus
          /\ hist' = hist \ gone
    /\ Goto("replace")
    /\ UNCHANGED cur

\* The temporary file, which nobody reads, and its rename to the current one.
Replace ==
    /\ op.pc = "replace"
    /\ cur' = [gen |-> NextGen, who |-> op.who]
    /\ op' = Idle
    /\ UNCHANGED hist

-----------------------------------------------------------------------------
(* clear, called by reset; its removals ignore errors.                      *)

BeginClear ==
    /\ op.pc = "idle"
    /\ op' = [Idle EXCEPT !.pc = "clearCurrent"]
    /\ UNCHANGED <<cur, hist>>

ClearCurrent ==
    /\ op.pc = "clearCurrent"
    /\ cur' = None
    /\ Goto("clearHistory")
    /\ UNCHANGED hist

ClearHistory ==
    /\ op.pc = "clearHistory"
    /\ \E left \in SUBSET hist :
          /\ ClearFails \/ left = {}
          /\ hist' = left
    /\ op' = Idle
    /\ UNCHANGED cur

\* A crash of the application, or an I/O error that write_new returns.
Interrupt ==
    /\ op.pc # "idle"
    /\ op.pc \in {"clearCurrent", "clearHistory"} => ClearFails
    /\ op' = Idle
    /\ UNCHANGED <<cur, hist>>

Next ==
    \/ \E who \in Identities : BeginWrite(who)
    \/ \E f \in hist : Restore(f)
    \/ OpenArchive \/ FillArchive \/ Prune \/ Replace
    \/ BeginClear \/ ClearCurrent \/ ClearHistory
    \/ Interrupt

Spec == Init /\ [][Next]_vars

-----------------------------------------------------------------------------
(* Properties.                                                              *)

\* What restore can bring back: the complete files of other generations.  (An
\* interrupted write leaves a file of the current generation too.)
Past == {f \in hist : f.who # Torn /\ (cur = None \/ f.gen # cur.gen)}

Promise == INSTANCE VaultPromise WITH now <- cur, past <- Past

\* The files keep the promise of the vault: whatever step a crash or an I/O
\* error follows, the identity changes at once or not at all, generations rise,
\* and the newest Keep generations can be restored.
KeepsPromise == Promise!Spec

\* Interrupted writes do not pile up: at most one file beyond the limit.
HistoryBound == Cardinality(hist) <= Keep + 1

\* A generation is archived under a new name, or over an unfinished copy of
\* itself: no other generation is overwritten (session_vault.rs, write_new:
\* history files have new names and no conflict, so they are written in place).
NoOverwrite ==
    op.pc = "archive" =>
        \A f \in hist : f.gen = cur.gen => f.who \in {cur.who, Torn}
=============================================================================
