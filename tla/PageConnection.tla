---------------------------- MODULE PageConnection ----------------------------
(***************************************************************************)
(* Page control of ONE instance: the record (Watched) that the table of the *)
(* service holds for it, the browser connection in that record, the loop    *)
(* that consumes the connection's events, and the commands that connect     *)
(* lazily, run one at a time behind the record's lock, and may be dropped   *)
(* by their budget at any await.  download-wait gives the lock back and     *)
(* waits beside the other commands.                                         *)
(*                                                                          *)
(* One action is the code between two awaits; the end of a loop is cut      *)
(* finer, since it runs on a thread of its own.                             *)
(*                                                                          *)
(* Code: application/page_service.rs.                                       *)
(***************************************************************************)
EXTENDS Naturals, Sequences, FiniteSets

CONSTANTS
    Recs,      \* Watched objects
    Conns,     \* browser connections
    Calls,     \* slots for concurrent commands
    Targets,   \* page targets
    Files,     \* downloads (guid)
    None,
    MaxCalls,  \* bound: commands
    MaxInbox   \* bound: events a loop has not received yet

ASSUME PageAssumption ==
    /\ None \notin Recs \cup Conns \cup Calls \cup Targets
    /\ {MaxCalls, MaxInbox} \subseteq Nat

VARIABLES
    registry,  \* PageService.watched: the record of the instance
    conn,      \* per record the connection slot
    gen,       \* per record the generation
    serial,    \* per record the command that holds cmd_lock
    tabs,      \* per record and target the connection its session belongs to
    css,       \* per record the targets with css_since
    inFlight,  \* per record the downloads begun
    waiters,   \* per record the queue of download-wait senders; None: dead
    link,      \* per connection whether it is open
    inbox,     \* per connection the events not received yet
    loop,      \* per connection its watch_loop
    call,      \* the commands
    calls      \* commands still allowed

recVars == <<conn, gen, serial, tabs, css, inFlight, waiters>>
vars == <<registry, recVars, link, inbox, loop, call, calls>>

-----------------------------------------------------------------------------
(* Types.                                                                   *)

LinkState == {"unborn", "open", "dead"}

Event ==
    [type : {"attached", "detached"}, tid : Targets]
        \cup [type : {"begin", "completed", "failed"}, file : Files]

\* recv: at rx.recv(); enable: in on_attached's commands; cleared: the slot is
\* empty; current: it found itself of the current generation.
LoopPc == {"none", "recv", "enable", "cleared", "current", "done"}
Loop == [pc : LoopPc, rec : Recs \cup {None}, gen : Nat, tid : Targets \cup {None}]

\* lock: waiting for cmd_lock; connect, autoAttach, behavior: in establish;
\* handshake: wait_first_attach; tool: between two sends; sent: a CDP command
\* is under way; register, wait: download-wait without the lock.
CallPc == {"idle", "lock", "connect", "autoAttach", "behavior", "handshake",
           "tool", "sent", "register", "wait"}
Holding == {"connect", "autoAttach", "behavior", "handshake", "tool", "sent"}
Call == [pc : CallPc, kind : {"tool", "download"}, rec : Recs \cup {None},
         conn : Conns \cup {None}]  \* the one it builds, then that of its session

TypeOK ==
    /\ registry \in Recs \cup {None}
    /\ conn \in [Recs -> Conns \cup {None}]
    /\ gen \in [Recs -> Nat]
    /\ serial \in [Recs -> Calls \cup {None}]
    /\ tabs \in [Recs -> [Targets -> Conns \cup {None}]]
    /\ css \in [Recs -> SUBSET Targets]
    /\ inFlight \in [Recs -> SUBSET Files]
    /\ waiters \in [Recs -> Seq(Calls \cup {None})]
    /\ link \in [Conns -> LinkState]
    /\ inbox \in [Conns -> Seq(Event)]
    /\ loop \in [Conns -> Loop]
    /\ call \in [Calls -> Call]
    /\ calls \in 0..MaxCalls
    /\ \A c \in Calls : \A r \in Recs :  \* the guard lives as long as its command
          serial[r] = c <=> call[c].pc \in Holding /\ call[c].rec = r

NoTabs == [t \in Targets |-> None]
NoLoop == [pc |-> "none", rec |-> None, gen |-> 0, tid |-> None]
Idle == [pc |-> "idle", kind |-> "tool", rec |-> None, conn |-> None]

Init ==
    /\ registry = None
    /\ conn = [r \in Recs |-> None]
    /\ gen = [r \in Recs |-> 0]
    /\ serial = [r \in Recs |-> None]
    /\ tabs = [r \in Recs |-> NoTabs]
    /\ css = [r \in Recs |-> {}]
    /\ inFlight = [r \in Recs |-> {}]
    /\ waiters = [r \in Recs |-> <<>>]
    /\ link = [k \in Conns |-> "unborn"]
    /\ inbox = [k \in Conns |-> <<>>]
    /\ loop = [k \in Conns |-> NoLoop]
    /\ call = [c \in Calls |-> Idle]
    /\ calls = MaxCalls

-----------------------------------------------------------------------------
(* Commands: ensure and establish.                                          *)

Goto(c, pc) == call' = [call EXCEPT ![c].pc = pc]

\* seeded fault: a command that ends keeps the lock.
Freed_Not(c) == serial
\* The guard is dropped with the command, also when its budget drops it.
Freed(c) == [r \in Recs |-> IF serial[r] = c THEN None ELSE serial[r]]

Finish(c) ==
    /\ call' = [call EXCEPT ![c] = Idle]
    /\ serial' = Freed(c)

\* A record nobody has used: a new Watched.
Fresh(r) ==
    /\ gen[r] = 0 /\ r # registry
    /\ \A c \in Calls : call[c].rec # r

\* The instance is running; its record is found or made.
Begin(c, kind) ==
    /\ call[c].pc = "idle"
    /\ calls > 0
    /\ calls' = calls - 1
    /\ \E r \in Recs :
          /\ IF registry = None THEN Fresh(r) ELSE r = registry
          /\ registry' = r
          /\ call' = [call EXCEPT ![c] =
                        [pc |-> "lock", kind |-> kind, rec |-> r, conn |-> None]]
    /\ UNCHANGED <<recVars, link, inbox, loop>>

\* seeded fault: a connection known to be dead is replaced before its loop ended.
Unconnected_Dead(r) == conn[r] = None \/ link[conn[r]] = "dead"
\* The slot is emptied by the end of the loop only.
Unconnected(r) == conn[r] = None

\* The lock, then the look at the slot.
Lock(c) ==
    LET r == call[c].rec IN
    /\ call[c].pc = "lock"
    /\ serial[r] = None
    /\ serial' = [serial EXCEPT ![r] = c]
    /\ Goto(c, IF Unconnected(r) THEN "connect" ELSE "handshake")
    /\ UNCHANGED <<registry, conn, gen, tabs, css, inFlight, waiters, link, inbox, loop, calls>>

Connect(c) ==
    /\ call[c].pc = "connect"
    /\ \E k \in Conns :
          /\ link[k] = "unborn"
          /\ link' = [link EXCEPT ![k] = "open"]
          /\ call' = [call EXCEPT ![c].pc = "autoAttach", ![c].conn = k]
    /\ UNCHANGED <<registry, recVars, inbox, loop, calls>>

AutoAttach(c) ==
    /\ call[c].pc = "autoAttach"
    /\ link[call[c].conn] = "open"
    /\ Goto(c, "behavior")
    /\ UNCHANGED <<registry, recVars, link, inbox, loop, calls>>

\* seeded fault: the sessions of the dead connection stay in the table.
Cleared_Not(r) == tabs[r]
Cleared(r) == NoTabs

\* After the last command of establish: new generation, every table cleared
\* (the senders of download-waits are dropped with theirs), the slot, the loop.
Install(c) ==
    LET r == call[c].rec
        k == call[c].conn
    IN
    /\ call[c].pc = "behavior"
    /\ link[k] = "open"
    /\ gen' = [gen EXCEPT ![r] = @ + 1]
    /\ tabs' = [tabs EXCEPT ![r] = Cleared(r)]
    /\ css' = [css EXCEPT ![r] = {}]
    /\ inFlight' = [inFlight EXCEPT ![r] = {}]
    /\ waiters' = [waiters EXCEPT ![r] = <<>>]
    /\ conn' = [conn EXCEPT ![r] = k]
    /\ loop' = [loop EXCEPT ![k] = [NoLoop EXCEPT !.pc = "recv", !.rec = r, !.gen = gen'[r]]]
    /\ call' = [d \in Calls |->
                  IF d = c THEN [call[c] EXCEPT !.pc = "handshake"]
                  ELSE IF call[d].pc = "wait" /\ d \in {waiters[r][i] : i \in DOMAIN waiters[r]}
                       THEN Idle
                       ELSE call[d]]
    /\ UNCHANGED <<registry, serial, link, inbox, calls>>

\* wait_first_attach is over (or was not needed): resolve_target.
Route(c) ==
    LET r == call[c].rec IN
    /\ call[c].pc = "handshake"
    /\ \E t \in Targets :
          /\ tabs[r][t] # None
          /\ call' = [call EXCEPT
                        ![c].pc = IF @ = "handshake" /\ call[c].kind = "download"
                                  THEN "register" ELSE "tool",
                        ![c].conn = tabs[r][t]]
    /\ serial' = IF call[c].kind = "download" THEN Freed(c) ELSE serial
    /\ UNCHANGED <<registry, conn, gen, tabs, css, inFlight, waiters, link, inbox, loop, calls>>

\* Each CDP command of a tool goes over the connection in the slot.
Send(c) ==
    /\ call[c].pc = "tool"
    /\ conn[call[c].rec] # None
    /\ Goto(c, "sent")
    /\ UNCHANGED <<registry, recVars, link, inbox, loop, calls>>

Answer(c) ==
    /\ call[c].pc = "sent"
    /\ Goto(c, "tool")
    /\ UNCHANGED <<registry, recVars, link, inbox, loop, calls>>

\* The command returns, with an answer or an error of its last await, or its
\* budget drops it.  download-wait has no budget before it waits.
Return(c) ==
    /\ \/ call[c].pc \in Holding
       \/ call[c].pc = "lock" /\ call[c].kind = "tool"
    /\ Finish(c)
    /\ UNCHANGED <<registry, conn, gen, tabs, css, inFlight, waiters, link, inbox, loop, calls>>

RegisterWait(c) ==
    LET r == call[c].rec IN
    /\ call[c].pc = "register"
    /\ waiters' = [waiters EXCEPT ![r] = Append(@, c)]
    /\ Goto(c, "wait")
    /\ UNCHANGED <<registry, conn, gen, serial, tabs, css, inFlight, link, inbox, loop, calls>>

\* The receiver is gone, the sender stays in the queue.
TimeoutWait(c) ==
    /\ call[c].pc = "wait"
    /\ call' = [call EXCEPT ![c] = Idle]
    /\ waiters' = [r \in Recs |->
                     [i \in DOMAIN waiters[r] |->
                        IF waiters[r][i] = c THEN None ELSE waiters[r][i]]]
    /\ UNCHANGED <<registry, conn, gen, serial, tabs, css, inFlight, link, inbox, loop, calls>>

-----------------------------------------------------------------------------
(* The event loop of a connection.                                          *)

LoopGoto(k, pc) == loop' = [loop EXCEPT ![k].pc = pc]

OnAttached(k, r, t) ==
    /\ tabs' = [tabs EXCEPT ![r][t] = k]
    /\ loop' = [loop EXCEPT ![k].pc = "enable", ![k].tid = t]
    /\ UNCHANGED <<css, inFlight, waiters, call>>

\* drop_tab.
OnDetached(k, r, t) ==
    /\ tabs' = [tabs EXCEPT ![r][t] = None]
    /\ css' = [css EXCEPT ![r] = @ \ {t}]
    /\ UNCHANGED <<loop, inFlight, waiters, call>>

OnDownloadBegin(r, f) ==
    /\ inFlight' = [inFlight EXCEPT ![r] = @ \cup {f}]
    /\ UNCHANGED <<loop, tabs, css, waiters, call>>

\* seeded fault: only the head of the queue is tried.
LiveWaiters_Head(q) == {i \in DOMAIN q : i = 1 /\ q[i] # None}
\* The senders of the queue that somebody still listens to.
LiveWaiters(q) == {i \in DOMAIN q : q[i] # None}

\* The first live sender gets the outcome; the dead ones before it are dropped.
\* A download nobody saw begin is ignored.
OnDownloadEnd(r, f) ==
    LET q == waiters[r]
        live == LiveWaiters(q)
        first == CHOOSE i \in live : \A j \in live : i <= j
    IN
    /\ inFlight' = [inFlight EXCEPT ![r] = @ \ {f}]
    /\ IF f \notin inFlight[r]
       THEN UNCHANGED <<waiters, call>>
       ELSE IF live = {}
            THEN waiters' = [waiters EXCEPT ![r] = <<>>] /\ UNCHANGED call
            ELSE /\ waiters' = [waiters EXCEPT ![r] = SubSeq(q, first + 1, Len(q))]
                 /\ call' = [call EXCEPT ![q[first]] = Idle]
    /\ UNCHANGED <<loop, tabs, css>>

\* A loop of an old generation would leave here; see OneLoop.
Receive(k) ==
    LET r == loop[k].rec
        e == Head(inbox[k])
    IN
    /\ loop[k].pc = "recv"
    /\ inbox[k] # <<>>
    /\ inbox' = [inbox EXCEPT ![k] = Tail(@)]
    /\ IF gen[r] # loop[k].gen
       THEN LoopGoto(k, "done") /\ UNCHANGED <<tabs, css, inFlight, waiters, call>>
       ELSE \/ e.type = "attached" /\ OnAttached(k, r, e.tid)
            \/ e.type = "detached" /\ OnDetached(k, r, e.tid)
            \/ e.type = "begin" /\ OnDownloadBegin(r, e.file)
            \/ e.type \in {"completed", "failed"} /\ OnDownloadEnd(r, e.file)
    /\ UNCHANGED <<registry, conn, gen, serial, link, calls>>

\* The enable commands of on_attached are answered, refused or time out.
Enabled(k) ==
    LET r == loop[k].rec IN
    /\ loop[k].pc = "enable"
    /\ \E ok \in BOOLEAN :
          css' = IF ok THEN [css EXCEPT ![r] = @ \cup {loop[k].tid}] ELSE css
    /\ loop' = [loop EXCEPT ![k].pc = "recv", ![k].tid = None]
    /\ UNCHANGED <<registry, conn, gen, serial, tabs, inFlight, waiters, link, inbox, call, calls>>

\* The channel is closed and drained: the slot is emptied ...
LoopEnd(k) ==
    LET r == loop[k].rec IN
    /\ loop[k].pc = "recv"
    /\ inbox[k] = <<>>
    /\ link[k] = "dead"
    /\ conn' = [conn EXCEPT ![r] = IF @ = k THEN None ELSE @]
    /\ LoopGoto(k, "cleared")
    /\ UNCHANGED <<registry, gen, serial, tabs, css, inFlight, waiters, link, inbox, call, calls>>

\* ... the generation is compared ...
LoopCompare(k) ==
    /\ loop[k].pc = "cleared"
    /\ LoopGoto(k, IF gen[loop[k].rec] = loop[k].gen THEN "current" ELSE "done")
    /\ UNCHANGED <<registry, recVars, link, inbox, call, calls>>

\* ... and the record is taken out of the table.
LoopRemove(k) ==
    /\ loop[k].pc = "current"
    /\ registry' = IF registry = loop[k].rec THEN None ELSE registry
    /\ LoopGoto(k, "done")
    /\ UNCHANGED <<recVars, link, inbox, call, calls>>

-----------------------------------------------------------------------------
(* The browser.                                                             *)

\* setAutoAttach and setDownloadBehavior were received.
Listens(k) ==
    link[k] = "open" /\ \/ loop[k].pc # "none"
                        \/ \E c \in Calls : call[c].pc = "behavior" /\ call[c].conn = k

Emit(k, e) ==
    /\ Listens(k)
    /\ Len(inbox[k]) < MaxInbox
    /\ inbox' = [inbox EXCEPT ![k] = Append(@, e)]
    /\ UNCHANGED <<registry, recVars, link, loop, call, calls>>

LinkDies(k) ==
    /\ link[k] = "open"
    /\ link' = [link EXCEPT ![k] = "dead"]
    /\ UNCHANGED <<registry, recVars, inbox, loop, call, calls>>

-----------------------------------------------------------------------------
CallStep(c) ==
    \/ Lock(c) \/ Connect(c) \/ AutoAttach(c) \/ Install(c) \/ Route(c)
    \/ Send(c) \/ Answer(c) \/ Return(c) \/ RegisterWait(c) \/ TimeoutWait(c)
LoopStep(k) == Receive(k) \/ Enabled(k) \/ LoopEnd(k) \/ LoopCompare(k) \/ LoopRemove(k)

Next ==
    \/ \E c \in Calls, kind \in {"tool", "download"} : Begin(c, kind)
    \/ \E c \in Calls : CallStep(c)
    \/ \E k \in Conns : LoopStep(k) \/ LinkDies(k)
    \/ \E k \in Conns, e \in Event : Emit(k, e)

Spec == Init /\ [][Next]_vars

-----------------------------------------------------------------------------
(* Properties.                                                              *)

\* A record is served by one loop at a time: no handler of an old connection is
\* between two awaits when a new connection has cleared the tables it writes.
Serving(k) == loop[k].pc \in {"recv", "enable"}
OneLoop ==
    \A k, l \in Conns :
        Serving(k) /\ Serving(l) /\ loop[k].rec = loop[l].rec => k = l

\* Sessions are those of the connection in the slot, so no tool sends a session
\* over another connection than its own (CDP answers -32001), although a tool
\* reads the table and the slot at different times.
SessionsMatch ==
    /\ \A r \in Recs, t \in Targets :
          conn[r] # None => tabs[r][t] \in {None, conn[r]}
    /\ \A c \in Calls :
          call[c].pc = "tool" => conn[call[c].rec] \in {None, call[c].conn}

\* The lock of a record is held exactly as long as a command runs behind it, also
\* when the command is dropped at any of its awaits (command, establish).
LocksEndWithCommands ==
    \A c \in Calls, r \in Recs : serial[r] = c <=> call[c].pc \in Holding /\ call[c].rec = r

\* A download that ends while somebody waits for one is given to a waiter,
\* however many waits before it timed out in the queue.
NoWaiterPassedOver ==
    [][\A r \in Recs : \A f \in inFlight[r] :
          f \notin inFlight'[r] /\ (\E c \in Calls : call[c].pc = "wait" /\ call[c].rec = r)
            => \E c \in Calls : call[c].pc = "wait" /\ call[c].rec = r /\ call'[c].pc = "idle"]_vars

\* A download-wait whose connection was replaced is told so (its sender is
\* dropped), and does not run into its timeout beside the new connection.
RebuildEndsWaits ==
    \A c \in Calls, r \in Recs :
        call[c].pc = "wait" /\ conn[r] # None => r = call[c].rec
=============================================================================
