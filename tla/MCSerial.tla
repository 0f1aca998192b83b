------------------------------ MODULE MCSerial ------------------------------
(***************************************************************************)
(* TLC instance of InstanceLifecycle in which client calls come one at a    *)
(* time while the reads of the UI reconcile between any two of their steps. *)
(* A history variable remembers the two ways in which a reconciliation      *)
(* parts a living browser from its row.                                     *)
(***************************************************************************)
EXTENDS InstanceLifecycle, TLC

CONSTANT Readers    \* the slots that only reads take (the UI's poll)

ASSUME ReadersAssumption == Readers \subseteq Tasks

VARIABLE astray     \* history: browsers whose run a wrong verdict has ended

Symmetry == Permutations(Pids)

\* t ends the run the row tells of.
Ends(t) ==
    /\ task[t] # task'[t]
    /\ row.status = "running" /\ row'.status \in {"stopped", "error"}

\* A read that looked before a restart ends the run that came after it.
Overtaken(t) == Ends(t) /\ task[t].op = "get" /\ row.pid # task[t].ins.pid

\* The probe has missed a process and its browser hangs: both tests fail.
Silenced(t) == Ends(t) /\ task[t].pc = "confirm" /\ row.pid \in {p \in Pids : proc[p] = "hung"}

SerialInit ==
    /\ Init
    /\ \A r \in Readers : task[r].pc = "idle"
    /\ astray = {}

SerialNext ==
    /\ Next
    /\ \A r \in Readers : task'[r].op \in {"none", "get", "boot"}
    /\ astray' = IF \E t \in Tasks : Overtaken(t) \/ Silenced(t) THEN astray \cup {row.pid}
                 ELSE astray

SerialSpec == SerialInit /\ [][SerialNext]_<<vars, astray>>

\* When nothing is in flight, a browser that still lives is the one the row
\* names, under a status that lets the user stop it, although reads probe,
\* judge and close between the steps of starts, stops, restarts and deletions.
\* Only a browser whose own run was ended by one of the two wrong verdicts may
\* be left without: every other launch, stop and exit cleans up after itself.
NamedUnlessAstray ==
    Quiet => \A p \in Pids : IsLive(p) =>
        (AliveStatus(row.status) /\ row.pid = p) \/ p \in astray
=============================================================================
