------------------------------- MODULE Tunnel -------------------------------
(***************************************************************************)
(* Remote access: one ssh reverse tunnel kept alive by a supervisor task.    *)
(* Settings requests write the configuration row by row and hand it to the   *)
(* supervisor through a shared record and a Notify, which stores at most one *)
(* permit.  ssh runs under a shell that kills it when the application's end  *)
(* of a socket pair closes, however the application dies.                    *)
(*                                                                           *)
(* Left out: how long a backoff is and how often it was taken, the text of   *)
(* errors, the ssh configuration file, the clean-up of the remote host.      *)
(*                                                                           *)
(* Code: application/tunnel.rs, api/settings.rs,                             *)
(* application/settings_service.rs, main.rs.                                 *)
(***************************************************************************)
EXTENDS Naturals, FiniteSets

CONSTANTS
    Callers,    \* concurrent settings requests
    Targets,    \* ssh destinations
    None,       \* no destination, no process, field not in the request
    MaxSpawns,  \* bound: ssh processes
    MaxEvents,  \* bound: settings requests and restarts of the application, together
    BusyQuit    \* bound: whether the user quits while a request is under way

ASSUME TunnelAssumption ==
    {MaxSpawns, MaxEvents} \subseteq Nat /\ BusyQuit \in BOOLEAN /\ None \notin 1..MaxSpawns

VARIABLES
    saved,    \* the rows remote_access_enabled and remote_access_ssh_target
    put,      \* the settings requests
    desired,  \* what the supervisor is told
    permit,   \* the permit Notify stores
    begun,    \* supervisor_started
    sup,      \* the supervisor: its place and its locals
    group,    \* pgid of the process spawned last, as registered
    pipe,     \* whose end of the socket pair is registered
    state,    \* the state clients see
    stop,     \* the shutdown flag
    exit,     \* the shutdown at the end of the application, and the pgid it read
    app,      \* "up", "down"
    procs,    \* the ssh processes with their shells, and (history) whether the last
              \* clean-up let one live: pgrep or ps did not show it, kill did not reach it
    alone,    \* history: the last request ran alone and to its end
    budget    \* requests and restarts left

vars == <<saved, put, desired, permit, begun, sup, group, pipe, state, stop, exit, app, procs,
          alone, budget>>

Procs == 1..MaxSpawns
Config == [enabled : BOOLEAN, target : Targets \cup {None}]
Put == [pc : {"idle", "target", "enabled", "view", "viewTarget", "apply", "notify"},
        enabled : BOOLEAN \cup {None}, target : Targets \cup {None, "empty"}, view : Config]
SupPc == {"none", "top", "off", "parked", "clean", "spawn", "register", "connecting", "tick",
          "exited", "failed", "selfheal", "backoff", "end"}
Sup == [pc : SupPc, want : Config, gen : Nat, lastGen : Nat, child : Procs \cup {None}]
Proc == [life : {"unborn", "alive", "dead"}, target : Targets \cup {None}, missed : BOOLEAN]

TypeOK ==
    /\ saved \in Config
    /\ put \in [Callers -> Put]
    /\ desired \in [enabled : BOOLEAN, target : Targets \cup {None}, gen : Nat]
    /\ {permit, begun, stop} \subseteq BOOLEAN
    /\ sup \in Sup
    /\ {group, pipe} \subseteq Procs \cup {None}
    /\ state \in {"disabled", "connecting", "connected", "reconnecting"}
    /\ exit \in [pc : {"none", "read", "kill", "close", "leave"}, pgid : Procs \cup {None}]
    /\ app \in {"up", "down"}
    /\ procs \in [Procs -> Proc]
    /\ alone \in BOOLEAN
    /\ budget \in Nat

NoPut == [pc |-> "idle", enabled |-> None, target |-> None,
          view |-> [enabled |-> FALSE, target |-> None]]
NoSup == [pc |-> "none", want |-> [enabled |-> FALSE, target |-> None], gen |-> 0,
          lastGen |-> 0, child |-> None]
NoExit == [pc |-> "none", pgid |-> None]
NoProc(life) == [life |-> life, target |-> None, missed |-> FALSE]
Untold == [enabled |-> FALSE, target |-> None, gen |-> 0]

Init ==
    /\ saved = [enabled |-> FALSE, target |-> None]
    /\ put = [c \in Callers |-> NoPut]
    /\ desired = Untold
    /\ permit = FALSE
    /\ begun = FALSE
    /\ sup = NoSup
    /\ group = None
    /\ pipe = None
    /\ state = "disabled"
    /\ stop = FALSE
    /\ exit = NoExit
    /\ app = "up"
    /\ procs = [p \in Procs |-> NoProc("unborn")]
    /\ alone = TRUE
    /\ budget = MaxEvents

Alive == {p \in Procs : procs[p].life = "alive"}
Unborn == {p \in Procs : procs[p].life = "unborn"}
Killed(P) == [p \in Procs |-> IF p \in P \cap Alive THEN NoProc("dead") ELSE procs[p]]

world == <<exit, app, procs, alone, budget>>
supervisor == <<sup, group, pipe, state, stop>>

-----------------------------------------------------------------------------
(* PUT /api/v1/settings.                                                     *)

\* A switched-on tunnel has a destination: the check, against the rows as they
\* are now; a request that fails it changes nothing.
PutCheck(c, e, t) ==
    LET on == IF e = None THEN saved.enabled ELSE e
        final == IF t = None THEN saved.target ELSE IF t = "empty" THEN None ELSE t
    IN
    /\ app = "up" /\ exit.pc = "none"
    /\ put[c].pc = "idle"
    /\ budget > 0
    /\ on => final # None
    /\ budget' = budget - 1
    /\ put' = [put EXCEPT ![c].pc = "target", ![c].enabled = e, ![c].target = t]
    /\ alone' = \A d \in Callers \ {c} : put[d].pc = "idle"
    /\ UNCHANGED <<saved, desired, permit, begun, supervisor, exit, app, procs>>

PutTarget(c) ==
    LET t == put[c].target IN
    /\ put[c].pc = "target"
    /\ saved' = IF t = None THEN saved
                ELSE [saved EXCEPT !.target = IF t = "empty" THEN None ELSE t]
    /\ put' = [put EXCEPT ![c].pc = "enabled", ![c].target = None]
    /\ UNCHANGED <<desired, permit, begun, supervisor, world>>

PutEnabled(c) ==
    /\ put[c].pc = "enabled"
    /\ saved' = IF put[c].enabled = None THEN saved ELSE [saved EXCEPT !.enabled = put[c].enabled]
    /\ put' = [put EXCEPT ![c].pc = "view", ![c].enabled = None]
    /\ UNCHANGED <<desired, permit, begun, supervisor, world>>

\* What the response and the tunnel get is read back from the rows, one by one.
PutView(c) ==
    /\ put[c].pc = "view"
    /\ put' = [put EXCEPT ![c].pc = "viewTarget", ![c].view.enabled = saved.enabled]
    /\ UNCHANGED <<saved, desired, permit, begun, supervisor, world>>

PutViewTarget(c) ==
    /\ put[c].pc = "viewTarget"
    /\ put' = [put EXCEPT ![c].pc = "apply", ![c].view.target = saved.target]
    /\ UNCHANGED <<saved, desired, permit, begun, supervisor, world>>

\* A row cannot be written or read: the request ends, the rows written stay, and
\* the tunnel is told nothing.
PutFails(c) ==
    /\ put[c].pc \in {"target", "enabled", "view", "viewTarget"}
    /\ put' = [put EXCEPT ![c] = NoPut]
    /\ alone' = FALSE
    /\ UNCHANGED <<saved, desired, permit, begun, supervisor, exit, app, procs, budget>>

\* seeded fault: generations count down.
Told_Down(v) == [enabled |-> v.enabled, target |-> v.target, gen |-> desired.gen - 1]
Told(v) == [enabled |-> v.enabled, target |-> v.target, gen |-> desired.gen + 1]
\* seeded fault: only the switch is compared.
Same_Switch(v) == desired.enabled = v.enabled
Same(v) == desired.enabled = v.enabled /\ desired.target = v.target
Launched(v) == IF v.enabled /\ ~begun THEN [NoSup EXCEPT !.pc = "top"] ELSE sup

\* TunnelService::apply: a change gets a new generation, the first switch-on
\* the supervisor; then the supervisor is woken.
PutApply(c) ==
    LET v == put[c].view IN
    /\ put[c].pc = "apply"
    /\ desired' = IF Same(v) THEN desired ELSE Told(v)
    /\ begun' = (begun \/ v.enabled)
    /\ sup' = Launched(v)
    /\ put' = [put EXCEPT ![c] = IF Same(v) THEN NoPut ELSE [NoPut EXCEPT !.pc = "notify"]]
    /\ UNCHANGED <<saved, permit, group, pipe, state, stop, world>>

PutNotify(c) ==
    /\ put[c].pc = "notify"
    /\ permit' = TRUE
    /\ put' = [put EXCEPT ![c] = NoPut]
    /\ UNCHANGED <<saved, desired, begun, supervisor, world>>

-----------------------------------------------------------------------------
(* supervise.                                                                *)

Running(pc) == app = "up" /\ sup.pc = pc
SupGoto(pc) == sup' = [sup EXCEPT !.pc = pc]
Unregister == group' = None /\ pipe' = None

Top ==
    /\ Running("top")
    /\ SupGoto(IF stop THEN "end" ELSE "off")
    /\ UNCHANGED <<saved, put, desired, permit, begun, group, pipe, state, stop, world>>

\* The group of the child.
Own == IF sup.child = None \/ group = None THEN {} ELSE {group}

\* terminate_child: TERM, wait, KILL for the group of the child; its entries go.
Terminate ==
    /\ procs' = Killed(Own)
    /\ Unregister

\* The flag was down; now the configuration is read.
Evaluate ==
    /\ Running("off")
    /\ IF desired.enabled
       THEN /\ sup' = [sup EXCEPT !.want = [enabled |-> TRUE, target |-> desired.target],
                                  !.gen = desired.gen,
                                  !.pc = IF desired.gen # sup.lastGen THEN "clean" ELSE "tick"]
            /\ UNCHANGED <<group, pipe, state, procs>>
       ELSE /\ Terminate
            /\ state' = "disabled"
            /\ sup' = [sup EXCEPT !.pc = "parked", !.child = None, !.gen = desired.gen,
                                  !.want = [enabled |-> FALSE, target |-> desired.target]]
    /\ UNCHANGED <<saved, put, desired, permit, begun, stop, exit, app, alone, budget>>

Unpark ==
    /\ Running("parked")
    /\ permit
    /\ permit' = FALSE
    /\ SupGoto("top")
    /\ UNCHANGED <<saved, put, desired, begun, group, pipe, state, stop, world>>

\* seeded fault: only the own child is cleared away.
Strays_Not(m) == {}
\* reconcile_orphans: every ssh with the forward of this program, but for those
\* that pgrep or ps does not show, or kill does not reach.
Strays(m) == Alive \ m

\* The old child, what is registered, and whatever tunnel still runs and is found.
Clean ==
    /\ Running("clean")
    /\ \E m \in SUBSET (Alive \ Own) :
          LET left == Killed(Own \cup Strays(m)) IN
          procs' = [p \in Procs |-> IF p \in m THEN [left[p] EXCEPT !.missed = TRUE] ELSE left[p]]
    /\ Unregister
    /\ sup' = [sup EXCEPT !.pc = "spawn", !.child = None]
    /\ UNCHANGED <<saved, put, desired, permit, begun, state, stop, exit, app, alone, budget>>

\* The process is there before its entries; or there is none.
Spawn ==
    /\ Running("spawn")
    /\ \/ \E p \in Unborn :
             /\ \A q \in Unborn : p <= q
             /\ procs' = [procs EXCEPT ![p] = [NoProc("alive") EXCEPT !.target = sup.want.target]]
             /\ sup' = [sup EXCEPT !.pc = "register", !.child = p]
       \/ SupGoto("failed") /\ UNCHANGED procs
    /\ UNCHANGED <<saved, put, desired, permit, begun, group, pipe, state, stop, exit, app,
                   alone, budget>>

\* Then the thread that reads its errors; without one the spawn has failed, and
\* the entries stay.
Register ==
    /\ Running("register")
    /\ group' = sup.child
    /\ pipe' = sup.child
    /\ sup' \in {[sup EXCEPT !.pc = "connecting"], [sup EXCEPT !.pc = "failed", !.child = None]}
    /\ UNCHANGED <<saved, put, desired, permit, begun, state, stop, world>>

Connecting ==
    /\ Running("connecting")
    /\ state' = "connecting"
    /\ sup' = [sup EXCEPT !.pc = "tick", !.lastGen = sup.gen]
    /\ UNCHANGED <<saved, put, desired, permit, begun, group, pipe, stop, world>>

\* The select: a permit leads back to the top.
TickWoken ==
    /\ Running("tick")
    /\ permit
    /\ permit' = FALSE
    /\ SupGoto("top")
    /\ UNCHANGED <<saved, put, desired, begun, group, pipe, state, stop, world>>

\* try_wait sees that the shell is gone.
Exited == sup.child \notin Alive

\* It lived for the whole grace period.
TickConnected ==
    /\ Running("tick")
    /\ ~Exited
    /\ state = "connecting"
    /\ state' = "connected"
    /\ SupGoto("top")
    /\ UNCHANGED <<saved, put, desired, permit, begun, group, pipe, stop, world>>

ChildIsLost(pc) ==
    /\ Unregister
    /\ sup' = [sup EXCEPT !.pc = pc, !.child = None]
    /\ UNCHANGED <<saved, put, desired, permit, begun, state, stop, world>>

TickExited == Running("tick") /\ Exited /\ ChildIsLost("exited")

\* try_wait fails; closing the pipe ends the child nobody knows any more.
TickUnknown == Running("tick") /\ ~Exited /\ ChildIsLost("failed")

\* What ssh said on its end may name a port still held on the remote host: then
\* the supervisor first clears it away there.
Failed ==
    /\ app = "up" /\ sup.pc \in {"exited", "failed"}
    /\ state' = "reconnecting"
    /\ \E pc \in {"backoff"} \cup (IF sup.pc = "exited" THEN {"selfheal"} ELSE {}) : SupGoto(pc)
    /\ UNCHANGED <<saved, put, desired, permit, begun, group, pipe, stop, world>>

\* remote_stale_cleanup: an ssh session the supervisor waits for, blocking, with
\* no limit once it is connected.
Selfhealed ==
    /\ Running("selfheal")
    /\ SupGoto("backoff")
    /\ UNCHANGED <<saved, put, desired, permit, begun, group, pipe, state, stop, world>>

\* Time, or a permit; the next round spawns whatever the generation.
Backoff ==
    /\ Running("backoff")
    /\ permit' \in {permit, FALSE}
    /\ sup' = [sup EXCEPT !.pc = "top", !.lastGen = 0]
    /\ UNCHANGED <<saved, put, desired, begun, group, pipe, state, stop, world>>

SupEnds ==
    /\ Running("end")
    /\ Terminate
    /\ state' = "disabled"
    /\ sup' = NoSup
    /\ UNCHANGED <<saved, put, desired, permit, begun, stop, exit, app, alone, budget>>

-----------------------------------------------------------------------------
(* The ssh processes.                                                        *)

\* The application's end is closed: neither registered nor in the hands of
\* spawn_wrapped.
Orphaned(p) == p \in Alive /\ p # pipe /\ ~(app = "up" /\ sup.pc = "register" /\ sup.child = p)

\* The shell reads the end of file and kills ssh.
Eof(p) ==
    /\ Orphaned(p)
    /\ procs' = Killed({p})
    /\ UNCHANGED <<saved, put, desired, permit, begun, supervisor, exit, app, alone,
                   budget>>

\* The network, the remote host, a port that is taken.
SshDies(p) ==
    /\ p \in Alive
    /\ procs' = Killed({p})
    /\ UNCHANGED <<saved, put, desired, permit, begun, supervisor, exit, app, alone,
                   budget>>

-----------------------------------------------------------------------------
(* The life of the application.                                              *)

\* TunnelService::shutdown: the flag and a permit,
Shutdown ==
    /\ app = "up" /\ exit.pc = "none"
    /\ BusyQuit \/ \A c \in Callers : put[c].pc = "idle"
    /\ stop' = TRUE
    /\ permit' = TRUE
    /\ exit' = [exit EXCEPT !.pc = "read"]
    /\ UNCHANGED <<saved, put, desired, begun, sup, group, pipe, state, app, procs, alone,
                   budget>>

\* then the pgid,
ShutdownRead ==
    /\ exit.pc = "read"
    /\ exit' = [pc |-> "kill", pgid |-> group]
    /\ UNCHANGED <<saved, put, desired, permit, begun, supervisor, app, procs, alone,
                   budget>>

\* TERM, 200 ms, KILL,
ShutdownKill ==
    /\ exit.pc = "kill"
    /\ procs' = IF exit.pgid = None THEN procs ELSE Killed({exit.pgid})
    /\ exit' = [exit EXCEPT !.pc = "close"]
    /\ UNCHANGED <<saved, put, desired, permit, begun, supervisor, app, alone, budget>>

\* and the entries clients see.
ShutdownClose ==
    /\ exit.pc = "close"
    /\ pipe' = None
    /\ state' = "disabled"
    /\ exit' = [exit EXCEPT !.pc = "leave"]
    /\ UNCHANGED <<saved, put, desired, permit, begun, sup, group, stop, app, procs, alone,
                   budget>>

\* After the shutdown, or by a crash at any moment: the kernel closes what is open.
AppEnds ==
    /\ app = "up"
    /\ app' = "down"
    /\ put' = [c \in Callers |-> NoPut]
    /\ desired' = Untold
    /\ permit' = FALSE
    /\ begun' = FALSE
    /\ sup' = NoSup
    /\ Unregister
    /\ state' = "disabled"
    /\ stop' = FALSE
    /\ exit' = NoExit
    /\ UNCHANGED <<saved, procs, alone, budget>>

\* main applies the saved configuration.
AppStart ==
    /\ app = "down"
    /\ budget > 0
    /\ budget' = budget - 1
    /\ app' = "up"
    /\ desired' = IF Same(saved) THEN desired ELSE Told(saved)
    /\ permit' = ~Same(saved)
    /\ begun' = saved.enabled
    /\ sup' = Launched(saved)
    /\ alone' = TRUE
    /\ UNCHANGED <<saved, put, group, pipe, state, stop, exit, procs>>

-----------------------------------------------------------------------------
PutStep(c) ==
    \/ PutTarget(c) \/ PutEnabled(c) \/ PutView(c) \/ PutViewTarget(c) \/ PutApply(c)
    \/ PutNotify(c)

SupStep ==
    \/ Top \/ Evaluate \/ Unpark \/ Clean \/ Spawn \/ Register \/ Connecting
    \/ TickWoken \/ TickConnected \/ TickExited \/ Failed \/ Backoff \/ SupEnds

ExitStep ==
    \/ ShutdownRead \/ ShutdownKill \/ ShutdownClose
    \/ exit.pc = "leave" /\ AppEnds

Next ==
    \/ \E c \in Callers, e \in BOOLEAN \cup {None}, t \in Targets \cup {None, "empty"} :
          PutCheck(c, e, t)
    \/ \E c \in Callers : PutStep(c)
    \/ \E c \in Callers : PutFails(c)
    \/ SupStep \/ TickUnknown \/ Selfhealed
    \/ \E p \in Procs : Eof(p) \/ SshDies(p)
    \/ Shutdown \/ ExitStep \/ AppEnds \/ AppStart

\* The threads of the application run; the kernel and the shell do their part;
\* nothing obliges ssh, a client or the user, nor the session of Selfhealed to end.
Fairness ==
    /\ WF_vars(SupStep)
    /\ \A c \in Callers : WF_vars(PutStep(c))
    /\ WF_vars(\E p \in Procs : Eof(p))
    /\ WF_vars(ExitStep)

Spec == Init /\ [][Next]_vars /\ Fairness

-----------------------------------------------------------------------------
(* Properties.                                                               *)

\* One tunnel at a time, across crashes that leave an ssh behind, processes
\* that were lost sight of and a shutdown in the middle of a spawn: a second
\* one could not bind the remote port and would fail for ever.  A second one that
\* pgrep, ps or kill let live is one whose shell is about to kill it.
OneTunnel ==
    /\ Cardinality({p \in Alive : ~procs[p].missed}) <= 1
    /\ \A p \in Alive : procs[p].missed => Orphaned(p)

Settled == app = "up" /\ exit.pc = "none" /\ \A c \in Callers : put[c].pc = "idle"

\* What the tunnel is to be: as saved when the last request ran alone and to its end,
\* else as told last.  Two requests at once may save one destination and leave the
\* tunnel at the other.
Aim == IF alone THEN saved ELSE desired

\* The tunnel runs, or is tried, to that destination; or none runs.
Followed ==
    IF Aim.enabled
    THEN \/ sup.pc = "spawn" /\ sup.want.target = Aim.target
         \/ sup.child \in Alive /\ procs[sup.child].target = Aim.target
    ELSE Alive = {}

\* What is saved takes effect, also when it changes during a backoff or a spawn
\* (api/settings.rs, put: a successful request makes the tunnel converge), unless the
\* session that clears the remote port never ends.
TunnelFollowsSettings == []<>(sup.pc # "selfheal") => (Settled ~> (Followed \/ ~Settled))
=============================================================================
