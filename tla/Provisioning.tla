---------------------------- MODULE Provisioning ----------------------------
(***************************************************************************)
(* Instances come and go with ONE environment: creations choose a name and  *)
(* a CDP port, make a directory, insert a row and launch, while the         *)
(* environment and what hangs on it is deleted step by step.  There is no   *)
(* transaction around either: each step is a statement or a file operation  *)
(* of its own, on threads that run at once, and the foreign keys and the    *)
(* unique index of the database are all that joins them.                    *)
(*                                                                          *)
(* Code: application/instance_service.rs (create),                          *)
(* application/environment_service.rs (delete),                             *)
(* infrastructure/process/port_allocator.rs, infrastructure/db.             *)
(***************************************************************************)
EXTENDS Naturals, FiniteSets

CONSTANTS
    Instances,  \* ids
    Creators,   \* concurrent calls of create
    Names,
    None,       \* no name, no row yet
    Gone,       \* the row is deleted: ids are not used again
    FirstPort, LastPort,  \* START_PORT and the last of MAX_ATTEMPTS
    MaxStarts   \* bound: starts of stopped instances

Ports == FirstPort..LastPort

VARIABLES
    env,      \* the row of the environment is there
    profile,  \* its login_profiles row is there
    rows,     \* per instance its row, or None
    dirs,     \* the profile directories
    browser,  \* per instance the port its live browser was given, or None
    create,   \* the calls of create
    del,      \* the call that deletes the environment
    starts    \* starts still allowed

vars == <<env, profile, rows, dirs, browser, create, del, starts>>

\* after: the rows its creator saw when it read the used ports (history).
Row == [name : Names \cup {None}, port : Ports, status : {"starting", "running", "stopped"},
        cloned : BOOLEAN, after : SUBSET Instances]

\* No row and a deleted row are told from rows and from each other.
ProvisioningAssumption ==
    /\ {None, Gone} \cap (Names \cup Instances \cup Ports) = {}
    /\ None \notin Row /\ Gone \notin Row /\ None # Gone
    /\ FirstPort \in Nat /\ LastPort \in Nat /\ MaxStarts \in Nat

Create == [pc : {"idle", "ports", "probe", "clone", "insert", "spawn", "ready"},
           ins : Instances \cup {None}, name : Names \cup {None}, used : SUBSET Ports,
           port : Ports \cup {None}, cloned : BOOLEAN, saw : SUBSET Instances]
Del == [pc : {"idle", "list", "each", "remove", "rows", "profile", "env", "root"},
        todo : SUBSET Instances, ins : Instances \cup {None}]

TypeOK ==
    /\ {env, profile} \subseteq BOOLEAN
    /\ rows \in [Instances -> Row \cup {None, Gone}]
    /\ dirs \subseteq Instances
    /\ browser \in [Instances -> Ports \cup {None}]
    /\ create \in [Creators -> Create]
    /\ del \in Del
    /\ starts \in Nat

NotCreating == [pc |-> "idle", ins |-> None, name |-> None, used |-> {}, port |-> None,
                cloned |-> FALSE, saw |-> {}]
NotDeleting == [pc |-> "idle", todo |-> {}, ins |-> None]

Init ==
    /\ env = TRUE
    /\ profile \in BOOLEAN
    /\ rows = [i \in Instances |-> None]
    /\ dirs = {}
    /\ browser = [i \in Instances |-> None]
    /\ create = [c \in Creators |-> NotCreating]
    /\ del = NotDeleting
    /\ starts = MaxStarts

Present == {i \in Instances : rows[i] \notin {None, Gone}}
Alive == {i \in Present : rows[i].status # "stopped"}
Named(n) == {i \in Present : n # None /\ rows[i].name = n}

-----------------------------------------------------------------------------
(* create.                                                                  *)

CreateEnds(c) == create' = [create EXCEPT ![c] = NotCreating]

\* The environment is there and the name is not taken.
BeginCreate(c, i, n) ==
    /\ create[c].pc = "idle"
    /\ env
    /\ Named(n) = {}
    /\ rows[i] = None /\ i \notin dirs /\ browser[i] = None  \* a new id
    /\ \A d \in Creators : create[d].ins # i
    /\ create' = [create EXCEPT ![c] =
                    [NotCreating EXCEPT !.pc = "ports", !.ins = i, !.name = n]]
    /\ UNCHANGED <<env, profile, rows, dirs, browser, del, starts>>

\* seeded fault: only the ports of instances that run are taken.
UsedPorts_Alive == {rows[i].port : i \in Alive}
\* used_ports: those of stopped instances too, which will start on them again.
UsedPorts == {rows[i].port : i \in Present}

ReadPorts(c) ==
    /\ create[c].pc = "ports"
    /\ create' = [create EXCEPT ![c].pc = "probe", ![c].used = UsedPorts, ![c].saw = Present]
    /\ UNCHANGED <<env, profile, rows, dirs, browser, del, starts>>

\* allocate: the first port that is not used and can be bound now.
Usable(c) == {p \in Ports : p \notin create[c].used /\ \A i \in Instances : browser[i] # p}

Probe(c) ==
    /\ create[c].pc = "probe"
    /\ \/ Usable(c) = {} /\ CreateEnds(c)
       \/ \E p \in Usable(c) :
             /\ \A q \in Usable(c) : p <= q
             /\ create' = [create EXCEPT ![c].pc = "clone", ![c].port = p]
    /\ UNCHANGED <<env, profile, rows, dirs, browser, del, starts>>

\* A snapshot is cloned if there is one to clone; the directory is made.
CloneProfile(c) ==
    /\ create[c].pc = "clone"
    /\ dirs' = dirs \cup {create[c].ins}
    /\ \E was \in {FALSE, profile} :
          create' = [create EXCEPT ![c].pc = "insert", ![c].cloned = was]
    /\ UNCHANGED <<env, profile, rows, browser, del, starts>>

\* The unique index over environment and name, in which NULLs never collide.
NameIsFree(c) == Named(create[c].name) = {}

\* seeded fault: the database does not enforce foreign keys.
KeysHold_Not(c) == TRUE
\* The two foreign keys of the instances table.
KeysHold(c) == env /\ (create[c].cloned => profile)

\* The row, or an error that leaves the directory.
Insert(c) ==
    LET i == create[c].ins IN
    /\ create[c].pc = "insert"
    /\ IF NameIsFree(c) /\ KeysHold(c)
       THEN /\ rows' = [rows EXCEPT ![i] =
                          [name |-> create[c].name, port |-> create[c].port, status |-> "starting",
                           cloned |-> create[c].cloned, after |-> create[c].saw]]
            /\ create' = [create EXCEPT ![c].pc = "spawn"]
       ELSE CreateEnds(c) /\ UNCHANGED rows
    /\ UNCHANGED <<env, profile, dirs, browser, del, starts>>

\* An UPDATE of a row that is gone changes nothing.
SetStatus(i, s) == IF i \in Present THEN [rows EXCEPT ![i].status = s] ELSE rows

\* launch_and_wait: the kernel, the hosts and the spawn, or mark_error, which
\* to the deletions is as good as stopped.
Spawn(c) ==
    LET i == create[c].ins IN
    /\ create[c].pc = "spawn"
    /\ \/ /\ browser' = [browser EXCEPT ![i] = create[c].port]
          /\ create' = [create EXCEPT ![c].pc = "ready"]
          /\ UNCHANGED rows
       \/ /\ rows' = SetStatus(i, "stopped")
          /\ CreateEnds(c)
          /\ UNCHANGED browser
    /\ UNCHANGED <<env, profile, dirs, del, starts>>

\* Its row becomes running.
Ready(c) ==
    /\ create[c].pc = "ready"
    /\ rows' = SetStatus(create[c].ins, "running")
    /\ CreateEnds(c)
    /\ UNCHANGED <<env, profile, dirs, browser, del, starts>>

-----------------------------------------------------------------------------
(* The life of an instance, as far as a deletion sees it.                   *)

Stop(i) ==
    /\ i \in Present /\ rows[i].status = "running"
    /\ rows' = SetStatus(i, "stopped")
    /\ browser' = [browser EXCEPT ![i] = None]
    /\ UNCHANGED <<env, profile, dirs, create, del, starts>>

Start(i) ==
    /\ starts > 0
    /\ i \in Present /\ rows[i].status = "stopped"
    /\ \A j \in Instances : browser[j] # rows[i].port
    /\ starts' = starts - 1
    /\ rows' = SetStatus(i, "running")
    /\ browser' = [browser EXCEPT ![i] = rows[i].port]
    /\ dirs' = dirs \cup {i}
    /\ UNCHANGED <<env, profile, create, del>>

DeleteInstance(i) ==
    /\ i \in Present /\ rows[i].status = "stopped"
    /\ rows' = [rows EXCEPT ![i] = Gone]
    /\ dirs' = dirs \ {i}
    /\ UNCHANGED <<env, profile, browser, create, del, starts>>

\* The first look at the login profile of an environment makes its row.
ViewProfile ==
    /\ env
    /\ profile' = TRUE
    /\ UNCHANGED <<env, rows, dirs, browser, create, del, starts>>

-----------------------------------------------------------------------------
(* EnvironmentService::delete.                                              *)

DelGoto(pc) == del' = [del EXCEPT !.pc = pc]

\* The environment is there and nothing of it runs.
BeginDelete ==
    /\ del.pc = "idle"
    /\ env
    /\ Alive = {}
    /\ DelGoto("list")
    /\ UNCHANGED <<env, profile, rows, dirs, browser, create, starts>>

ListRows ==
    /\ del.pc = "list"
    /\ del' = [del EXCEPT !.pc = "each", !.todo = Present]
    /\ UNCHANGED <<env, profile, rows, dirs, browser, create, starts>>

\* Each instance of the list is looked at again: gone, alive (409), or stopped.
Recheck(i) ==
    /\ del.pc = "each"
    /\ i \in del.todo
    /\ \/ i \notin Present /\ del' = [del EXCEPT !.todo = @ \ {i}]
       \/ i \in Alive /\ del' = NotDeleting
       \/ /\ i \in Present \ Alive
          /\ del' = [del EXCEPT !.pc = "remove", !.todo = @ \ {i}, !.ins = i]
    /\ UNCHANGED <<env, profile, rows, dirs, browser, create, starts>>

RemoveDir ==
    /\ del.pc = "remove"
    /\ dirs' = dirs \ {del.ins}
    /\ del' = [del EXCEPT !.pc = "each", !.ins = None]
    /\ UNCHANGED <<env, profile, rows, browser, create, starts>>

\* delete_by_env: every row of the environment, whatever its status.
DeleteRows ==
    /\ del.pc = "each"
    /\ del.todo = {}
    /\ rows' = [i \in Instances |-> IF i \in Present THEN Gone ELSE rows[i]]
    /\ DelGoto("profile")
    /\ UNCHANGED <<env, profile, dirs, browser, create, starts>>

\* delete_for_env: 409 while a capture holds the gate or a login browser lives;
\* a foreign key keeps a row that instances refer to.  The extension
\* configurations, which nothing refers to, go with it.
DeleteProfile ==
    /\ del.pc = "profile"
    /\ \/ /\ \A i \in Present : ~rows[i].cloned
          /\ profile' = FALSE
          /\ DelGoto("env")
       \/ /\ profile
          /\ del' = NotDeleting
          /\ UNCHANGED profile
    /\ UNCHANGED <<env, rows, dirs, browser, create, starts>>

Referenced == Present # {} \/ profile

\* envs.delete, unless a row still refers to it.
DeleteEnv ==
    /\ del.pc = "env"
    /\ IF Referenced THEN del' = NotDeleting /\ UNCHANGED env
       ELSE env' = FALSE /\ DelGoto("root")
    /\ UNCHANGED <<profile, rows, dirs, browser, create, starts>>

\* The directory of the environment, with all that is in it.
RemoveRoot ==
    /\ del.pc = "root"
    /\ dirs' = {}
    /\ del' = NotDeleting
    /\ UNCHANGED <<env, profile, rows, browser, create, starts>>

-----------------------------------------------------------------------------
CreateStep(c) ==
    \/ \E i \in Instances, n \in Names \cup {None} : BeginCreate(c, i, n)
    \/ ReadPorts(c) \/ Probe(c) \/ CloneProfile(c) \/ Insert(c) \/ Spawn(c) \/ Ready(c)

DeleteStep ==
    \/ BeginDelete \/ ListRows \/ RemoveDir \/ DeleteRows \/ DeleteProfile
    \/ DeleteEnv \/ RemoveRoot
    \/ \E i \in Instances : Recheck(i)

Next ==
    \/ \E c \in Creators : CreateStep(c)
    \/ \E i \in Instances : Stop(i) \/ Start(i) \/ DeleteInstance(i)
    \/ ViewProfile
    \/ DeleteStep

Spec == Init /\ [][Next]_vars

-----------------------------------------------------------------------------
(* Properties.                                                              *)

\* A deleted environment leaves no instance and no profile row behind, and no
\* creation that was under way brings one back.
GoneForGood == ~env => Present = {} /\ ~profile

\* Two instances share a port only if neither was there when the port of the
\* other was chosen: a stopped one keeps the port it will start on
\* (port_allocator.rs, allocate).
PortsDifferUnlessRaced ==
    \A i, j \in Present :
        i # j /\ rows[i].port = rows[j].port =>
            i \notin rows[j].after /\ j \notin rows[i].after

\* A browser always has a row: a creation that slips behind the checks of a
\* deletion is to make the deletion fail loudly, not to lose its row
\* (environment_service.rs, delete).
NoSilentOrphan == \A i \in Instances : browser[i] # None => i \in Present
=============================================================================
