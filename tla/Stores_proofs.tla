---------------------------- MODULE Stores_proofs ----------------------------
(***************************************************************************)
(* What an environment stores, for every value of the constants.            *)
(*                                                                          *)
(* The first part proves that the vault files implement the promise of the  *)
(* vault, for every number of generations kept and every set of cookie      *)
(* sets, as long as a reset is not cut short.  The second carries the       *)
(* theorems of SessionIdentity_proofs and Provisioning_proofs over to the   *)
(* behaviours of MCStores: there each module moves as by itself or rests.   *)
(***************************************************************************)
EXTENDS MCStores, FiniteSetTheorems, TLAPS

(* The vault: SessionVault.                                                 *)

\* The steps of write_new and clear, each with what it knows of the files.
StepInv ==
    /\ op.pc = "clearHistory" => cur = None
    /\ op.pc \in {"archive", "fill", "prune"} => cur # None
    /\ op.pc \in {"prune", "replace"} /\ cur # None => cur \in hist

\* Without a current identity there is no past either, but in the middle of a
\* reset.
EmptyInv == cur = None => hist = {} \/ op.pc = "clearHistory"

\* The only files that may be unfinished, or name the current generation, are
\* the copies of the current identity.
FileInv ==
    cur # None => \A f \in hist :
        /\ f.gen <= cur.gen
        /\ f.gen = cur.gen => f.who \in {cur.who, Torn}
        /\ f.who = Torn => f.gen = cur.gen

\* One file per generation.
OneFile == \A f, g \in hist : f.gen = g.gen => f = g

VaultInv == TypeOK /\ IsFiniteSet(hist) /\ StepInv /\ EmptyInv /\ FileInv /\ OneFile

LEMMA InitVault == Init => VaultInv
  BY VaultAssumption, FS_EmptySet
     DEF Init, VaultInv, TypeOK, Idle, Pc, StepInv, EmptyInv, FileInv, OneFile

LEMMA StartsVault == ASSUME VaultInv, NEW who \in Identities, BeginWrite(who)
                     PROVE  VaultInv'
  BY VaultAssumption
     DEF BeginWrite, VaultInv, TypeOK, Idle, Pc, StepInv, EmptyInv, FileInv, OneFile

\* What OpenArchive and FillArchive do to the history.
LEMMA ArchiveFiles ==
    ASSUME VaultInv, cur # None, NEW who \in Identities \cup {Torn},
           who \in {cur.who, Torn},
           UNCHANGED cur, hist' = Others \cup {[gen |-> cur.gen, who |-> who]}
    PROVE  /\ hist' \subseteq File
           /\ IsFiniteSet(hist')
           /\ FileInv' /\ OneFile'
  <1> DEFINE new == [gen |-> cur.gen, who |-> who]
  <1>1. cur \in Vault /\ new \in File /\ new.gen = cur.gen /\ new.who = who
    BY DEF VaultInv, TypeOK, Vault, File
  <1>2. Others \subseteq hist /\ hist \subseteq File
    BY DEF Others, VaultInv, TypeOK
  <1>3. hist' \subseteq File
    BY <1>1, <1>2
  <1>4. IsFiniteSet(Others)
    BY <1>2, FS_Subset DEF VaultInv
  <1>5. IsFiniteSet(hist')
    BY <1>4, FS_AddElement
  <1>6. \A f \in Others : f.gen # cur.gen
    BY DEF Others
  <1>7. FileInv'
    BY <1>1, <1>2 DEF FileInv, VaultInv, Vault, Gens
  <1>8. OneFile'
    BY <1>1, <1>2, <1>6 DEF OneFile, VaultInv
  <1> QED BY <1>3, <1>5, <1>7, <1>8

LEMMA NextVault == ASSUME ~ClearFails, VaultInv, [Next]_vars PROVE VaultInv'
  <1> USE VaultAssumption
  <1>1. ASSUME NEW who \in Identities, BeginWrite(who) PROVE VaultInv'
    BY <1>1, StartsVault
  <1>2. ASSUME NEW f \in hist, Restore(f) PROVE VaultInv'
    <2>1. f.who \in Identities
      BY <1>2 DEF Restore, VaultInv, TypeOK, File
    <2> QED BY <1>2, <2>1, StartsVault DEF Restore
  <1>3. CASE OpenArchive
    <2>1. cur # None /\ op \in [pc : Pc, who : Identities \cup {None}]
      BY <1>3 DEF OpenArchive, VaultInv, StepInv, TypeOK
    <2>2. hist' \subseteq File /\ IsFiniteSet(hist') /\ FileInv' /\ OneFile'
      BY <1>3, <2>1, ArchiveFiles DEF OpenArchive
    <2>3. TypeOK'
      BY <1>3, <2>1, <2>2 DEF OpenArchive, Goto, VaultInv, TypeOK, Pc
    <2>4. StepInv' /\ EmptyInv'
      BY <1>3, <2>1 DEF OpenArchive, Goto, StepInv, EmptyInv, Pc
    <2> QED BY <2>2, <2>3, <2>4 DEF VaultInv
  <1>4. CASE FillArchive
    <2>1. cur # None /\ op \in [pc : Pc, who : Identities \cup {None}]
      BY <1>4 DEF FillArchive, VaultInv, StepInv, TypeOK
    <2>2. cur = [gen |-> cur.gen, who |-> cur.who] /\ cur.who \in Identities
      BY <2>1 DEF VaultInv, TypeOK, Vault
    <2>3. hist' \subseteq File /\ IsFiniteSet(hist') /\ FileInv' /\ OneFile'
      BY <1>4, <2>1, <2>2, ArchiveFiles DEF FillArchive
    <2>4. TypeOK'
      BY <1>4, <2>1, <2>3 DEF FillArchive, Goto, VaultInv, TypeOK, Pc
    <2>5. StepInv' /\ EmptyInv'
      BY <1>4, <2>1 DEF FillArchive, Goto, StepInv, EmptyInv, Pc
    <2> QED BY <2>3, <2>4, <2>5 DEF VaultInv
  <1>5. CASE Prune
    <2>1. PICK gone \in SUBSET Surplus : hist' = hist \ gone
      BY <1>5 DEF Prune
    <2>2. hist' \subseteq hist /\ IsFiniteSet(hist')
      BY <2>1, FS_Subset DEF VaultInv
    <2>3. cur \in hist /\ cur \in Vault
      BY <1>5 DEF Prune, VaultInv, StepInv, TypeOK
    <2>4. {g \in hist : g.gen > cur.gen} = {}
      BY <2>3 DEF VaultInv, FileInv, TypeOK, File, Vault, Gens
    <2>5. cur \in hist'
      BY <2>1, <2>3, <2>4, FS_EmptySet DEF Surplus
    <2>6. TypeOK'
      BY <1>5, <2>2 DEF Prune, Goto, VaultInv, TypeOK, Pc
    <2>7. StepInv' /\ EmptyInv'
      BY <1>5, <2>3, <2>5 DEF Prune, Goto, VaultInv, TypeOK, StepInv, EmptyInv, Pc
    <2>8. FileInv' /\ OneFile'
      BY <1>5, <2>2 DEF Prune, VaultInv, FileInv, OneFile
    <2> QED BY <2>2, <2>6, <2>7, <2>8 DEF VaultInv
  <1>6. CASE Replace
    <2>1. NextGen \in Gens /\ op.who \in Identities
      BY <1>6 DEF Replace, NextGen, Gens, VaultInv, TypeOK, Vault
    <2>2. cur' = [gen |-> NextGen, who |-> op.who] /\ cur' \in Vault /\ hist' = hist
      BY <1>6, <2>1 DEF Replace, Vault
    <2>3. TypeOK' /\ IsFiniteSet(hist') /\ OneFile'
      BY <1>6, <2>2 DEF Replace, Idle, VaultInv, TypeOK, Pc, OneFile
    <2>4. StepInv' /\ EmptyInv'
      BY <1>6, <2>2 DEF Replace, Idle, StepInv, EmptyInv, Vault, Gens
    <2>5. ASSUME NEW f \in hist PROVE f.gen < NextGen /\ f.who # Torn
      <3>1. cur # None
        BY <1>6 DEF Replace, VaultInv, EmptyInv
      <3>2. cur \in hist /\ cur \in Vault /\ f \in File
        BY <1>6, <3>1 DEF Replace, VaultInv, StepInv, TypeOK
      <3>3. f.gen = cur.gen => f = cur
        BY <3>2 DEF VaultInv, OneFile
      <3> QED BY <3>1, <3>2, <3>3
              DEF VaultInv, FileInv, NextGen, Vault, File, Gens
    <2>6. FileInv'
      BY <2>1, <2>2, <2>5 DEF FileInv, VaultInv, TypeOK, File, Gens
    <2> QED BY <2>3, <2>4, <2>6 DEF VaultInv
  <1>7. CASE BeginClear
    BY <1>7 DEF BeginClear, VaultInv, TypeOK, Idle, Pc, StepInv, EmptyInv, FileInv, OneFile
  <1>8. CASE ClearCurrent
    BY <1>8 DEF ClearCurrent, Goto, VaultInv, TypeOK, Pc, StepInv, EmptyInv, FileInv, OneFile
  <1>9. CASE ClearHistory
    <2>1. hist' = {} /\ cur' = None /\ op' = Idle
      BY <1>9 DEF ClearHistory, VaultInv, StepInv
    <2> QED BY <2>1, FS_EmptySet
            DEF VaultInv, TypeOK, Idle, Pc, StepInv, EmptyInv, FileInv, OneFile
  <1>10. CASE Interrupt
    BY <1>10 DEF Interrupt, VaultInv, TypeOK, Idle, Pc, StepInv, EmptyInv, FileInv, OneFile
  <1>11. CASE UNCHANGED vars
    BY <1>11 DEF vars, VaultInv, TypeOK, StepInv, EmptyInv, FileInv, OneFile
  <1> QED BY <1>1, <1>2, <1>3, <1>4, <1>5, <1>6, <1>7, <1>8, <1>9, <1>10, <1>11 DEF Next

-----------------------------------------------------------------------------
(* Each step saves, forgets or wipes, or leaves the promise's view alone.   *)

\* An archive step touches no file that restore could bring back.
LEMMA ArchiveStutters ==
    ASSUME VaultInv, cur # None, NEW f, f.gen = cur.gen,
           UNCHANGED cur, hist' = Others \cup {f}
    PROVE  UNCHANGED <<cur, Past>>
  BY DEF Past, Others

\* The promise counts with the same Cardinality.
LEMMA SameCardinality == \A S : Promise!Cardinality(S) = Cardinality(S)
  BY DEF Promise!Cardinality, Cardinality

LEMMA PruneForgets == ASSUME VaultInv, Prune PROVE Promise!Forget
  <1> USE VaultAssumption
  <1>1. PICK gone \in SUBSET Surplus : hist' = hist \ gone
    BY DEF Prune
  <1>2. cur # None /\ cur \in hist /\ cur \in Vault /\ cur' = cur
    BY DEF Prune, VaultInv, StepInv, TypeOK
  <1>3. Past' = Past \ gone
    BY <1>1, <1>2 DEF Past
  <1>4. hist = Past \cup {cur}
    <2>1. \A f \in hist : f.gen = cur.gen => f = cur
      BY <1>2 DEF VaultInv, OneFile
    <2>2. \A f \in hist : f.gen # cur.gen => f.who # Torn
      BY <1>2 DEF VaultInv, FileInv
    <2> QED BY <1>2, <2>1, <2>2 DEF Past
  <1>5. ASSUME NEW r \in Past, Cardinality(Promise!Newer(r, Past)) + 1 < Keep
        PROVE  r \in Past'
    <2>1. r \in hist /\ r.gen # cur.gen /\ r.gen \in Gens /\ r.gen < cur.gen
      BY <1>2 DEF Past, VaultInv, TypeOK, File, Vault, Gens, FileInv
    <2>2. {g \in hist : g.gen > r.gen} = Promise!Newer(r, Past) \cup {cur}
      BY <1>2, <1>4, <2>1 DEF Promise!Newer, Vault, Gens
    <2>3. cur \notin Promise!Newer(r, Past)
      BY <1>2 DEF Promise!Newer, Past
    <2>4. Promise!Newer(r, Past) \subseteq hist
      BY DEF Promise!Newer, Past
    <2>5. IsFiniteSet(Promise!Newer(r, Past))
      BY <2>4, FS_Subset DEF VaultInv
    <2>6. Cardinality({g \in hist : g.gen > r.gen}) = Cardinality(Promise!Newer(r, Past)) + 1
      BY <2>2, <2>3, <2>5, FS_AddElement
    <2>7. Cardinality(Promise!Newer(r, Past)) \in Nat
      BY <2>5, FS_CardinalityType
    <2>8. r \notin Surplus
      BY <1>5, <2>6, <2>7 DEF Surplus
    <2> QED BY <1>1, <1>3, <2>8
  <1>6. \A r \in Past : Cardinality(Promise!Newer(r, Past)) + 1 < Keep => r \in Past'
    BY <1>5
  <1>7. \A r \in Past : Promise!Cardinality(Promise!Newer(r, Past)) + 1 < Keep => r \in Past'
    BY <1>6, SameCardinality
  <1>8. Past' \subseteq Past
    BY <1>3
  <1> QED BY <1>2, <1>7, <1>8 DEF Promise!Forget

LEMMA ReplaceSaves == ASSUME VaultInv, Replace PROVE Promise!Save
  <1> USE VaultAssumption
  <1>1. op.who \in Identities /\ hist' = hist /\ cur' = [gen |-> NextGen, who |-> op.who]
    BY DEF Replace, VaultInv, TypeOK
  <1>2. CASE cur = None
    <2>1. hist = {}
      BY <1>2 DEF Replace, VaultInv, EmptyInv
    <2>2. Past = {} /\ Past' = {}
      BY <1>1, <2>1 DEF Past
    <2> QED BY <1>1, <1>2, <2>2 DEF NextGen, Promise!Save
  <1>3. CASE cur # None
    <2>1. cur \in hist /\ cur \in Vault
      BY <1>3 DEF Replace, VaultInv, StepInv, TypeOK
    <2>2. cur'.gen = cur.gen + 1 /\ cur' # None
      BY <1>1, <1>3, <2>1 DEF NextGen, Vault, Gens
    <2>3. ASSUME NEW f \in hist PROVE f.gen # cur'.gen /\ f.who # Torn
      <3>1. f \in File /\ f.gen <= cur.gen
        BY <1>3 DEF VaultInv, TypeOK, FileInv
      <3>2. f.gen = cur.gen => f = cur
        BY <2>1 DEF VaultInv, OneFile
      <3>3. f.who = Torn => f.gen = cur.gen
        BY <1>3 DEF VaultInv, FileInv
      <3> QED BY <2>1, <2>2, <3>1, <3>2, <3>3 DEF File, Vault, Gens
    <2>4. Past' = hist
      BY <1>1, <2>2, <2>3 DEF Past
    <2>5. \A f \in hist : f.gen = cur.gen => f = cur
      BY <2>1 DEF VaultInv, OneFile
    <2>6. hist = Past \cup {cur}
      BY <1>3, <2>1, <2>3, <2>5 DEF Past
    <2>7. cur' = [gen |-> cur.gen + 1, who |-> op.who]
      BY <1>1, <1>3 DEF NextGen
    <2> QED BY <1>1, <1>3, <2>4, <2>6, <2>7 DEF Promise!Save
  <1> QED BY <1>2, <1>3

LEMMA ClearWipes == ASSUME VaultInv, ClearCurrent PROVE Promise!Wipe
  <1>1. cur' = None /\ hist' = hist
    BY DEF ClearCurrent
  <1>2. CASE cur = None
    BY <1>1, <1>2 DEF Past, Promise!Wipe
  <1>3. CASE cur # None
    <2>1. cur \in Vault
      BY <1>3 DEF VaultInv, TypeOK
    <2>2. ASSUME NEW f \in hist, f.who # Torn, f.gen = cur.gen PROVE f = cur
      <3>1. f \in File /\ f.who = cur.who
        BY <1>3, <2>2 DEF VaultInv, TypeOK, FileInv
      <3> QED BY <2>1, <2>2, <3>1 DEF File, Vault
    <2>3. Past' \subseteq Past \cup {cur}
      BY <1>1, <2>2 DEF Past
    <2> QED BY <1>1, <1>3, <2>3 DEF Promise!Wipe
  <1> QED BY <1>2, <1>3

LEMMA NextPromise == ASSUME ~ClearFails, VaultInv, [Next]_vars
                     PROVE  [Promise!Next]_(Promise!vars)
  <1>1. CASE \/ \E who \in Identities : BeginWrite(who)
             \/ \E f \in hist : Restore(f)
             \/ BeginClear \/ Interrupt \/ UNCHANGED vars
    <2>1. UNCHANGED <<cur, hist>>
      BY <1>1 DEF BeginWrite, Restore, BeginClear, Interrupt, vars
    <2> QED BY <2>1 DEF Past, Promise!vars
  <1>2. CASE OpenArchive \/ FillArchive
    <2>1. cur # None /\ UNCHANGED cur
      BY <1>2 DEF OpenArchive, FillArchive, VaultInv, StepInv
    <2>2. \E f : f.gen = cur.gen /\ hist' = Others \cup {f}
      <3>1. CASE OpenArchive
        <4>1. [gen |-> cur.gen, who |-> Torn].gen = cur.gen
          OBVIOUS
        <4> QED BY <3>1, <4>1 DEF OpenArchive
      <3>2. CASE FillArchive
        BY <3>2 DEF FillArchive
      <3> QED BY <1>2, <3>1, <3>2
    <2>3. UNCHANGED <<cur, Past>>
      BY <2>1, <2>2, ArchiveStutters
    <2> QED BY <2>3 DEF Promise!vars
  <1>3. CASE Prune
    BY <1>3, PruneForgets DEF Promise!Next
  <1>4. CASE Replace
    BY <1>4, ReplaceSaves DEF Promise!Next
  <1>5. CASE ClearCurrent
    BY <1>5, ClearWipes DEF Promise!Next
  <1>6. CASE ClearHistory
    <2>1. cur = None /\ cur' = None /\ hist' = {}
      BY <1>6 DEF ClearHistory, VaultInv, StepInv
    <2>2. Past' = {}
      BY <2>1 DEF Past
    <2> QED BY <2>1, <2>2 DEF Promise!Wipe, Promise!Next
  <1> QED BY <1>1, <1>2, <1>3, <1>4, <1>5, <1>6 DEF Next

\* While no reset is cut short, the files of the vault do what the vault
\* promises, whatever write a crash or an I/O error interrupts and however many
\* old files a failed removal leaves.
THEOREM VaultImplementsPromise == ASSUME ~ClearFails PROVE Spec => KeepsPromise
  <1>1. Init => Promise!Init
    BY DEF Init, Past, Promise!Init
  <1>2. VaultInv /\ [Next]_vars => [Promise!Next]_(Promise!vars)
    BY NextPromise
  <1>3. VaultInv /\ [Next]_vars => VaultInv'
    BY NextVault
  <1> QED BY <1>1, <1>2, <1>3, InitVault, PTL DEF Spec, KeepsPromise, Promise!Spec

\* While no reset is cut short, an archive never overwrites another generation:
\* history files have names of their own, as write_new's comment says.
THEOREM ArchivesAreNew == ASSUME ~ClearFails PROVE Spec => []NoOverwrite
  <1>1. VaultInv => NoOverwrite
    BY DEF VaultInv, StepInv, FileInv, NoOverwrite
  <1>2. VaultInv /\ [Next]_vars => VaultInv'
    BY NextVault
  <1> QED BY <1>1, <1>2, InitVault, PTL DEF Spec

-----------------------------------------------------------------------------
(* The three modules side by side: MCSpec implements the specification of   *)
(* each, so what is proved of one of them holds of what MCStores checks.    *)

LEMMA IdentityMoves == MCSpec => I!Spec
<1>1. MCInit => I!Init BY DEF MCInit
<1>2. [MCNext]_all => [I!Next]_(I!vars)
  <2>1. UNCHANGED identityVars => UNCHANGED I!vars
    BY DEF identityVars, I!vars, I!files, I!instances, I!ghosts
  <2>2. UNCHANGED all => UNCHANGED identityVars
    BY DEF all
  <2> QED BY <2>1, <2>2 DEF MCNext
<1> QED BY <1>1, <1>2, PTL DEF MCSpec, I!Spec

LEMMA RowsMove == MCSpec => P!Spec
<1>1. MCInit => P!Init BY DEF MCInit
<1>2. [MCNext]_all => [P!Next]_(P!vars)
  <2>1. UNCHANGED rowVars => UNCHANGED P!vars
    BY DEF rowVars, P!vars
  <2>2. UNCHANGED all => UNCHANGED rowVars
    BY DEF all
  <2> QED BY <2>1, <2>2 DEF MCNext
<1> QED BY <1>1, <1>2, PTL DEF MCSpec, P!Spec

\* The snapshot of an environment survives every swap, error, crash and deletion of an
\* instance, and is under its name whenever nobody is at work on it, as long as no
\* rename failed that would have brought it back; after one, it is beside its name until
\* a capture without a source makes an empty directory (profile_service.rs,
\* consolidate_from; copier.rs).
THEOREM StoresKeepSnapshot == MCSpec => []SnapshotSurvives
<1>1. I!Spec => []I!SnapshotSurvives
  BY I!SnapshotSurvivesSwaps, StoresAssumption
<1> QED BY <1>1, IdentityMoves, PTL DEF SnapshotSurvives

\* The row says capturing exactly while a capture is at work, and ready only after
\* one has finished, after any crash and recovery (mark_ready,
\* recover_stale_capturing).
THEOREM StoresRowIsHonest == MCSpec => []StatusIsHonest
<1>1. I!Spec => []I!StatusIsHonest
  BY I!RowIsHonest, StoresAssumption
<1> QED BY <1>1, IdentityMoves, PTL DEF StatusIsHonest

\* The vault lock and the gate never leave every call waiting (session_service.rs,
\* vault_lock; profile_service.rs, gate).
THEOREM StoresLocksLetGo == MCSpec => []SomebodyGoesOn
<1>1. I!Spec => []I!SomebodyGoesOn
  BY I!LocksLetGo, StoresAssumption
<1> QED BY <1>1, IdentityMoves, PTL DEF SomebodyGoesOn

\* Under first_login a promotion never replaces cookies that came meanwhile
\* (session_service.rs, promote_by_policy).
THEOREM StoresKeepFirstLogin == MCSpec => FirstLoginOnce
<1>1. I!Spec => I!FirstLoginOnce
  BY I!FirstLoginStays, StoresAssumption
<1> QED BY <1>1, IdentityMoves, PTL DEF FirstLoginOnce

\* The cookies that enter the vault are of the instance whose files became the
\* snapshot last, or of one that was deleted while it was captured
\* (session_service.rs, capture_inner; instance_service.rs, delete).
THEOREM StoresCookiesMatchFiles == MCSpec => CookiesFollowFiles
<1>1. I!Spec => I!CookiesFollowFiles
  BY I!CookiesMatchFiles, StoresAssumption
<1> QED BY <1>1, IdentityMoves, PTL DEF CookiesFollowFiles

\* A deleted environment leaves neither rows nor a profile behind, whichever creation
\* or start was under way (environment_service.rs, delete).
THEOREM StoresDeletedStaysDeleted == MCSpec => []GoneForGood
<1>1. P!Spec => []P!GoneForGood
  BY P!DeletedStaysDeleted, StoresAssumption
<1> QED BY <1>1, RowsMove, PTL DEF GoneForGood

\* Two rows of one environment share a debugging port only when neither creation
\* could see the other's row (instance_service.rs, create).
THEOREM StoresPortsCollideOnlyInARace == MCSpec => []PortsDifferUnlessRaced
<1>1. P!Spec => []P!PortsDifferUnlessRaced
  BY P!PortsCollideOnlyInARace, StoresAssumption
<1> QED BY <1>1, RowsMove, PTL DEF PortsDifferUnlessRaced
=============================================================================
