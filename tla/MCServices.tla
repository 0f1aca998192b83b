----------------------------- MODULE MCServices -----------------------------
(***************************************************************************)
(* One TLC instance for what lies around the browsers: the tunnel, the        *)
(* kernel installation, the ways by which clients reach the services, and the *)
(* command line's longer commands.  They share no state; in a behaviour one   *)
(* of them moves and the others rest where they begin, so a property of one   *)
(* of them is checked in the behaviours of that one.                          *)
(***************************************************************************)
EXTENDS Tunnel

CONSTANTS
    Tasks, Old, Pinned, Parts, Binary, MaxCrashes, MaxCalls,  \* KernelInstall
    Instances, Envs, Name, MaxSnapshots                       \* CliFlows

VARIABLES
    meta, parts, zip, slot, downloading, tx, task, canceller, vanished, calls,
    given, made,
    home, named, server, kernel, cmd, at, id, seen, agreed, did, ended, code,
    moving   \* which of them moves

K == INSTANCE KernelInstall WITH budget <- calls
S == INSTANCE Surfaces
C == INSTANCE CliFlows

ASSUME ServicesAssumption == K!InstallAssumption /\ C!FlowsAssumption

kernelVars == <<meta, parts, zip, slot, downloading, tx, task, canceller, vanished, calls>>
surfaceVars == <<given, made>>
commandVars == <<home, named, server, kernel, cmd, at, id, seen, agreed, did, ended, code>>
all == <<vars, kernelVars, surfaceVars, commandVars, moving>>

CommandsRest ==
    /\ home = None /\ named = None /\ server = None /\ kernel = None /\ cmd = None /\ at = None
    /\ id = None /\ seen = None /\ agreed = None /\ did = None /\ ended = None /\ code = None

\* What rests begins in one way only.
MCInit ==
    /\ moving \in {"tunnel", "kernel", "surfaces", "commands"}
    /\ Init /\ K!Init
    /\ IF moving = "surfaces" THEN S!Init ELSE given = None /\ made = S!Unmade
    /\ IF moving = "commands" THEN C!Init ELSE CommandsRest
    /\ moving # "kernel" => meta = None

Tunnels == moving = "tunnel" /\ UNCHANGED <<kernelVars, surfaceVars, commandVars, moving>>
Installs == moving = "kernel" /\ UNCHANGED <<vars, surfaceVars, commandVars, moving>>
Calls == moving = "surfaces" /\ UNCHANGED <<vars, kernelVars, commandVars, moving>>
Commands == moving = "commands" /\ UNCHANGED <<vars, kernelVars, surfaceVars, moving>>

MCNext ==
    \/ Tunnels /\ Next
    \/ Installs /\ K!Next
    \/ Calls /\ S!Next
    \/ Commands /\ C!Next

\* Fairness of Tunnel and of KernelInstall, of the one that moves.
MCFairness ==
    /\ WF_all(Tunnels /\ SupStep)
    /\ \A c \in Callers : WF_all(Tunnels /\ PutStep(c))
    /\ WF_all(Tunnels /\ (\E p \in Procs : Eof(p)))
    /\ WF_all(Tunnels /\ ExitStep)
    /\ \A t \in Tasks : WF_all(Installs /\ K!Advance(t))
    /\ WF_all(Installs /\ K!CancelSend)

MCSpec == MCInit /\ [][MCNext]_all /\ MCFairness

\* What meta.json vouches for is whole (manager.rs, installed_binary_path).
VouchedIsWhole == K!VouchedIsWhole

\* Who waits for the kernel gets it or an error (manager.rs, ensure_ready).
AskersEnd == K!AskersEnd

\* A client's call arrives as it was said, by whichever of the three ways (Surfaces),
\* and what a command of several requests ends with is true (CliFlows): client.rs,
\* pages.rs, mcp.rs; cli/instance.rs, env.rs, login_profile.rs, runtime.rs.
ClientsAreServedAsTold ==
    /\ moving = "surfaces" => S!ArrivesAsSaid
    /\ moving = "commands" => C!CommandsTellTheTruth
=============================================================================
