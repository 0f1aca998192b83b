------------------------------- MODULE CliFlows -------------------------------
(***************************************************************************)
(* The commands of the command line that take several requests: delete with   *)
(* its questions and its stop, acts on an instance by name, the capture and   *)
(* reset of a login, and the installation of the kernel that waits for it.    *)
(* A command holds nothing between two requests: whoever else uses the        *)
(* application goes on meanwhile.  A request may stay undone, fail, or be     *)
(* carried out without its answer being heard; nothing is sent twice.         *)
(*                                                                            *)
(* The services' own operations have modules of their own; here each is one   *)
(* step.  A behaviour is one command.                                         *)
(*                                                                            *)
(* Code: crates/cli/src/cli/instance.rs, env.rs, login_profile.rs,            *)
(* runtime.rs, mod.rs, client.rs, exit.rs; kernel/manager.rs (status).        *)
(***************************************************************************)
EXTENDS Naturals, FiniteSets

CONSTANTS
    Instances, Envs,
    Name,           \* the one name an instance may bear
    None,           \* no name, nothing read
    MaxSnapshots    \* bound: versions of a login

\* An id is not a name, an instance is no environment, and there are finitely many.
FlowsAssumption ==
    /\ IsFiniteSet(Instances)
    /\ Instances \cap Envs = {} /\ Name \notin Instances \cup Envs
    /\ None \notin Instances \cup Envs \cup {Name} \cup 0..9

VARIABLES
    home, named,    \* of each instance: its environment, its name (fixed)
    server,          \* the services: instances, environments, logins
    kernel,         \* the kernel: installed, the flag of a download, downloads asked for
    cmd,            \* the command
    at,             \* where it is: a question, a request, "done"
    id,             \* the instance it is about
    seen,           \* what it has read: a login's version, installed, the flag before
    agreed,         \* the questions answered with yes
    did,            \* what its requests changed
    ended,          \* a download has ended since it began
    code            \* its exit code

vars == <<home, named, server, kernel, cmd, at, id, seen, agreed, did, ended, code>>
fixed == <<home, named, cmd>>
mind == <<id, seen, agreed>>

OnInstance == {"delete", "start", "stop", "restart"}
OnLogin == {"capture", "reset"}
OnKernel == {"install", "cancel"}

\* How it is asked: --yes, a terminal, or neither.
Commands ==
    [verb : OnInstance, ref : Instances \cup {Name}, asked : {"yes", "tty", "pipe"}]
    \cup [verb : {"env delete"} \cup OnLogin, ref : Envs, asked : {"yes", "tty", "pipe"}]
    \cup [verb : OnKernel, ref : {None}, asked : {"yes", "tty", "pipe"}]

\* Where a command begins: what asks always asks first, a capture looks first.
Begins(c) ==
    CASE c.verb \in {"delete", "env delete", "reset", "cancel"} -> "ask"
      [] c.verb = "capture" -> "view"
      [] c.verb = "install" -> "installed?"
      [] OTHER              -> "resolve"

\* A name is unique in its environment.  What a command has nothing to do with rests.
Init ==
    /\ home \in [Instances -> Envs]
    /\ named \in [Instances -> {Name, None}]
    /\ \A i, j \in Instances : i # j /\ home[i] = home[j] => named[i] = None \/ named[j] = None
    /\ cmd \in Commands
    /\ \E s \in [Instances -> IF cmd.verb \in OnLogin \cup OnKernel THEN {"stopped"}
                               ELSE {"stopped", "running", "gone"}] :
          server = [status |-> s, envs |-> Envs, login |-> [e \in Envs |-> 0]]
    /\ kernel = [installed |-> FALSE, flag |-> FALSE, asked |-> 0]
    /\ at = Begins(cmd)
    /\ id = None
    /\ seen = None
    /\ agreed = {}
    /\ did = {}
    /\ ended = FALSE
    /\ code = None

-----------------------------------------------------------------------------
(* The services.  What a request may come to: answer, the world then, what it changed. *)
Served(answer, w, deeds) == [answer |-> answer, world |-> w, deeds |-> deeds]
Refuses(answer) == {Served(answer, server, {})}
Alive(i) == server.status[i] = "running"
Turned(i, s) == [server EXCEPT !.status[i] = s]

Stop(i) ==
    CASE server.status[i] = "gone" -> Refuses("404")
      [] Alive(i)                 -> {Served("ok", Turned(i, "stopped"), {<<"stopped", i>>})}
      [] OTHER                    -> Refuses("409")

\* A launch may fail.
Start(i) ==
    CASE server.status[i] = "gone" -> Refuses("404")
      [] Alive(i)                 -> Refuses("409")
      [] OTHER                    -> {Served("ok", Turned(i, "running"), {<<"started", i>>})} \cup Refuses("500")

\* The stop and the start of a restart are two steps of the server.
Restart(i) ==
    CASE server.status[i] = "gone" -> Refuses("404")
      [] Alive(i) -> {Served("ok", server, {<<"stopped", i>>, <<"started", i>>}),
                      Served("500", Turned(i, "stopped"), {<<"stopped", i>>})}
      [] OTHER    -> Refuses("409")

Delete(i) ==
    CASE server.status[i] = "gone" -> Refuses("404")
      [] Alive(i)                 -> Refuses("409")
      [] OTHER                    -> {Served("ok", Turned(i, "gone"), {<<"deleted", i>>})}

Living(e) == {i \in Instances : home[i] = e /\ Alive(i)}

StopAll(e) ==
    {Served("ok", [server EXCEPT !.status = [i \in Instances |-> IF i \in Living(e) THEN "stopped" ELSE @[i]]],
            {<<"stopped", i>> : i \in Living(e)})}

DeleteEnv(e) ==
    CASE e \notin server.envs -> Refuses("404")
      [] Living(e) # {}      -> Refuses("409")
      [] OTHER -> {Served("ok", [server EXCEPT !.envs = @ \ {e},
                                              !.status = [i \in Instances |-> IF home[i] = e THEN "gone" ELSE @[i]]],
                          {<<"deleted", e>>})}

\* A capture is refused while another runs.
Capture(e) ==
    CASE e \notin server.envs             -> Refuses("404")
      [] server.login[e] = MaxSnapshots -> Refuses("409")
      [] OTHER -> Refuses("409") \cup {Served("ok", [server EXCEPT !.login[e] = @ + 1], {<<"captured", e>>})}

Reset(e) ==
    IF e \notin server.envs THEN Refuses("404")
    ELSE Refuses("409") \cup {Served("ok", [server EXCEPT !.login[e] = 0], {<<"reset", e>>})}

\* Others use the application too.
Others ==
    /\ code = None
    /\ \E r \in CASE cmd.verb \in OnKernel -> {}
                  [] cmd.verb \in OnLogin  -> Capture(cmd.ref) \cup Reset(cmd.ref) \cup DeleteEnv(cmd.ref)
                  [] OTHER -> UNION ({Stop(i) \cup Start(i) \cup Delete(i) : i \in Instances}
                                     \cup {DeleteEnv(e) : e \in Envs}) :
          server' = r.world /\ server' # server
    /\ UNCHANGED <<fixed, kernel, at, mind, did, ended, code>>

\* Downloads begin, install and lower their flag, or lower it in vain; others ask for more.
Download ==
    /\ code = None
    /\ cmd.verb \in OnKernel
    /\ \/ ~kernel.flag /\ kernel.asked < 2 /\ kernel' = [kernel EXCEPT !.asked = @ + 1] /\ UNCHANGED ended
       \/ /\ ~kernel.flag /\ kernel.asked > 0
          /\ kernel' = [kernel EXCEPT !.asked = @ - 1, !.flag = ~kernel.installed]
          /\ UNCHANGED ended
       \/ kernel.flag /\ ~kernel.installed /\ kernel' = [kernel EXCEPT !.installed = TRUE] /\ UNCHANGED ended
       \/ kernel.flag /\ kernel' = [kernel EXCEPT !.flag = FALSE] /\ ended' = TRUE
    /\ UNCHANGED <<fixed, server, at, mind, did, code>>

-----------------------------------------------------------------------------
(* The command. *)
Ends(c) == at' = "done" /\ code' = c
Goes(place) == at' = place /\ code' = code

\* exit.rs: what the server refuses.
CodeOf(answer) == CASE answer = "404" -> 3 [] answer = "409" -> 5 [] answer = "500" -> 5

\* client.rs, send: answered; carried out or not without an answer; failed.
Request(outcomes, Heard(_)) ==
    /\ \/ \E r \in outcomes :
             /\ server' = r.world /\ did' = did \cup r.deeds
             /\ (Heard(r.answer) \/ Ends(8))
       \/ (Ends(8) \/ Ends(1)) /\ UNCHANGED <<server, did>>
    /\ UNCHANGED <<fixed, kernel, mind, ended>>

\* The answer is the command's.
Closes(answer) == Ends(IF answer = "ok" THEN 0 ELSE CodeOf(answer))

\* A question: --yes, a terminal where somebody answers, or no terminal.
Asks(question, place) ==
    /\ \/ cmd.asked = "yes" /\ Goes(place) /\ UNCHANGED agreed
       \/ cmd.asked = "tty" /\ Goes(place) /\ agreed' = agreed \cup {question}
       \/ cmd.asked # "yes" /\ Ends(2) /\ UNCHANGED agreed
    /\ UNCHANGED <<fixed, server, kernel, id, seen, did, ended>>

Ask ==
    /\ at = "ask"
    /\ Asks(cmd.verb, CASE cmd.verb = "delete" -> "resolve" [] OTHER -> cmd.verb)

\* seeded fault: the first of several instances of that name is taken.
Chosen_First(matched) == matched # {}
Chosen(matched) == Cardinality(matched) = 1

\* An id is taken as it is; a name must be the name of one instance.
Resolve ==
    LET matched == {i \in Instances : named[i] = Name /\ server.status[i] # "gone"} IN
    /\ at = "resolve"
    /\ \/ cmd.ref \in Instances /\ id' = cmd.ref /\ Goes(cmd.verb)
       \/ /\ cmd.ref = Name
          /\ \/ Chosen(matched) /\ id' \in matched /\ Goes(cmd.verb)
             \/ ~Chosen(matched) /\ id' = id /\ Ends(IF matched = {} THEN 3 ELSE 2)
             \/ id' = id /\ (Ends(8) \/ Ends(1))
    /\ UNCHANGED <<fixed, server, kernel, seen, agreed, did, ended>>

Act ==
    \/ at = "start" /\ Request(Start(id), Closes)
    \/ at = "restart" /\ Request(Restart(id), Closes)
    \/ at = "stop" /\ cmd.verb = "stop" /\ Request(Stop(id), Closes)

\* A running instance is stopped first, when that is agreed to as well.
StopFirst(answer) == IF answer = "409" THEN Goes("ask stop") ELSE Closes(answer)
Stopped(place, answer) == IF answer = "ok" THEN Goes(place) ELSE Closes(answer)

DeleteInstance ==
    /\ cmd.verb = "delete"
    /\ \/ at = "delete" /\ Request(Delete(id), StopFirst)
       \/ at = "ask stop" /\ Asks("stop", "stop")
       \/ at = "stop" /\ Request(Stop(id), LAMBDA a : Stopped("delete again", a))
       \/ at = "delete again" /\ Request(Delete(id), Closes)

DeleteEnvironment ==
    /\ cmd.verb = "env delete"
    /\ \/ at = "env delete" /\ Request(DeleteEnv(cmd.ref), StopFirst)
       \/ at = "ask stop" /\ Asks("stop", "stop")
       \/ at = "stop" /\ Request(StopAll(cmd.ref), LAMBDA a : Stopped("delete again", a))
       \/ at = "delete again" /\ Request(DeleteEnv(cmd.ref), Closes)

\* A first capture replaces nothing and is not asked about.
View ==
    /\ at = "view"
    /\ \/ /\ cmd.ref \in server.envs
          /\ seen' = server.login[cmd.ref]
          /\ Goes(IF seen' > 0 THEN "ask capture" ELSE "capture")
       \/ cmd.ref \notin server.envs /\ Ends(3) /\ UNCHANGED seen
       \/ (Ends(8) \/ Ends(1)) /\ UNCHANGED seen
    /\ UNCHANGED <<fixed, server, kernel, id, agreed, did, ended>>

Login ==
    \/ View
    \/ at = "ask capture" /\ Asks("capture", "capture")
    \/ at = "capture" /\ Request(Capture(cmd.ref), Closes)
    \/ at = "reset" /\ Request(Reset(cmd.ref), Closes)

-----------------------------------------------------------------------------
(* The installation of the kernel. *)

\* kernel/manager.rs, status: the files are read before the flag.
Reads(place, Verdict(_)) ==
    /\ at = place
    /\ Verdict(kernel) \/ ((Ends(8) \/ Ends(1)) /\ UNCHANGED seen)
    /\ UNCHANGED <<fixed, server, kernel, id, agreed, did, ended>>

\* Installed already is done already.
Short == Reads("installed?", LAMBDA k : IF k.installed THEN Ends(0) /\ UNCHANGED seen
                                        ELSE Goes("install") /\ UNCHANGED seen)

\* A download that runs already is waited for like one's own.
Trigger ==
    /\ at = "install"
    /\ \/ kernel' = [kernel EXCEPT !.asked = IF kernel.flag \/ @ = 2 THEN @ ELSE @ + 1]
          /\ (Goes("look") \/ Ends(8))
       \/ (Ends(8) \/ Ends(1)) /\ UNCHANGED kernel
    /\ seen' = [installed |-> FALSE, before |-> FALSE]
    /\ UNCHANGED <<fixed, server, id, agreed, did, ended>>

Look == Reads("look", LAMBDA k : seen' = [seen EXCEPT !.installed = k.installed] /\ Goes("judge"))

\* seeded fault: a download that has not begun yet is taken for one that stopped.
Stalled_AtOnce(before, now) == ~now
\* poll_once: the flag was up and is down.
Stalled(before, now) == before /\ ~now

\* Installed before stalled before too late; else once more.
Judge ==
    Reads("judge", LAMBDA k :
        IF seen.installed THEN Ends(0) /\ UNCHANGED seen
        ELSE IF Stalled(seen.before, k.flag) THEN Ends(5) /\ UNCHANGED seen
        ELSE \/ Ends(9) /\ UNCHANGED seen
             \/ Goes("look") /\ seen' = [seen EXCEPT !.before = k.flag])

\* A cancel ends the download that runs; that there is none is no error.
Cancel ==
    /\ at = "cancel"
    /\ \/ kernel' = [kernel EXCEPT !.flag = FALSE] /\ ended' = (ended \/ kernel.flag) /\ (Ends(0) \/ Ends(8))
       \/ UNCHANGED <<kernel, ended>> /\ (Ends(0) \/ Ends(8) \/ Ends(1))
    /\ did' = IF kernel' = kernel THEN did ELSE did \cup {<<"cancelled", None>>}
    /\ UNCHANGED <<fixed, server, mind>>

Install == Short \/ Trigger \/ Look \/ Judge

Next ==
    \/ Ask \/ Resolve \/ Act \/ DeleteInstance \/ DeleteEnvironment \/ Login
    \/ Install \/ Cancel
    \/ Others \/ Download

Spec == Init /\ [][Next]_vars

-----------------------------------------------------------------------------
(* What a command's end tells. *)

\* "Cancelled", "--yes is missing" and "the name is ambiguous" leave everything as it was.
RefusedIsUntouched == code = 2 => did = {}

\* Nothing that runs is stopped on the way to something else without a yes to just that.
StopsAreAgreed ==
    (\E d \in did : d[1] = "stopped") => cmd.verb \in {"stop", "restart"} \/ cmd.asked = "yes" \/ "stop" \in agreed

\* What is changed is what the command names, and by a name nothing else can be meant.
OnlyTheMeant ==
    \A d \in did :
        /\ d[2] \in Instances => \/ d[2] = cmd.ref \/ named[d[2]] = cmd.ref
                                 \/ cmd.verb = "env delete" /\ home[d[2]] = cmd.ref
        /\ cmd.ref = Name => \A j \in Instances \ {d[2]} : named[j] = Name => server.status[j] = "gone"

\* 0 says it is done.
DoneIsDone ==
    code = 0 => /\ cmd.verb = "delete" => server.status[id] = "gone"
                /\ cmd.verb = "env delete" => cmd.ref \notin server.envs
                /\ cmd.verb = "install" => kernel.installed

\* 5 says that a download has ended, not that one has not begun.
StalledHasEnded == cmd.verb = "install" /\ code = 5 => ended

CommandsTellTheTruth ==
    RefusedIsUntouched /\ StopsAreAgreed /\ OnlyTheMeant /\ DoneIsDone /\ StalledHasEnded
=============================================================================
