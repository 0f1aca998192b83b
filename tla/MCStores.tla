------------------------------ MODULE MCStores ------------------------------
(***************************************************************************)
(* One TLC instance for what an environment stores: the vault of its         *)
(* cookies, the snapshot of its files, its rows and directories.  In a       *)
(* behaviour one of the three modules moves and the others rest where they   *)
(* begin, so a property of one of them is checked in its behaviours.  The    *)
(* instances bring the theorems of their modules, which Stores_proofs turns  *)
(* into theorems of the behaviours checked here.                             *)
(***************************************************************************)
EXTENDS SessionVault, TLC

CONSTANTS
    Ids, Absent, Instances, Tasks, Ops, MaxCalls, MaxLogins, MaxCrashes,
    MayFail,                                           \* SessionIdentity
    Created, Names, Gone, FirstPort, LastPort, MaxStarts   \* Provisioning

VARIABLES
    policy, vault, past, row, dir, old, tmp, lock, gate, orphan,
    inst, prof, export, task, up, left, kept, source, fate,
    env, profile, rows, dirs, browser, create, del, starts,
    moving   \* which of them moves

I == INSTANCE SessionIdentity_proofs
P == INSTANCE Provisioning_proofs WITH Instances <- Created, Creators <- Tasks

ASSUME StoresAssumption == I!IdentityAssumption /\ P!ProvisioningAssumption

identityVars ==
    <<policy, vault, past, row, dir, old, tmp, lock, gate, orphan, inst, prof, export, task, up,
      left, kept, source, fate>>
rowVars == <<env, profile, rows, dirs, browser, create, del, starts>>
all == <<vars, identityVars, rowVars, moving>>

MCInit ==
    /\ moving \in {"vault", "identity", "rows"}
    /\ Init /\ I!Init /\ P!Init
    /\ moving # "identity" => policy = "always" /\ ~orphan /\ \A i \in Instances : inst[i] = "alive"
    /\ moving # "rows" => profile

MCNext ==
    /\ UNCHANGED moving
    /\ \/ moving = "vault" /\ Next /\ UNCHANGED <<identityVars, rowVars>>
       \/ moving = "identity" /\ I!Next /\ UNCHANGED <<vars, rowVars>>
       \/ moving = "rows" /\ P!Next /\ UNCHANGED <<vars, identityVars>>

MCSpec == MCInit /\ [][MCNext]_all

Symmetry == Permutations(Ids) \cup Permutations(Instances) \cup Permutations(Tasks)

-----------------------------------------------------------------------------
\* The snapshot of an environment is not lost, unless a rename that would have brought
\* it back failed (profile_service.rs, consolidate_from).
SnapshotSurvives == I!SnapshotSurvives

\* A row that says ready has its snapshot (profile_service.rs, mark_ready).
StatusIsHonest == I!StatusIsHonest

\* The calls do not wait for each other's locks for ever (profile_service.rs, gate).
SomebodyGoesOn == I!SomebodyGoesOn

\* Under first_login the identity of the first login stays (session_service.rs,
\* promote_by_policy).
FirstLoginOnce == I!FirstLoginOnce

\* Cookies and files are captured together, unless the instance is deleted meanwhile
\* (session_service.rs, capture_inner; instance_service.rs, delete).
CookiesFollowFiles == I!CookiesFollowFiles

\* A deleted environment leaves no row behind (environment_service.rs, delete).
GoneForGood == P!GoneForGood

\* Two rows share a port only when their creations could not see each other
\* (instance_service.rs, create).
PortsDifferUnlessRaced == P!PortsDifferUnlessRaced
=============================================================================
