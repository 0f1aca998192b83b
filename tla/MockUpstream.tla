------------------------------ MODULE MockUpstream ------------------------------
(***************************************************************************)
(* The local server that answers for the mock rules of a tab.  It is started  *)
(* by the first who needs it, in a task of its own; a paused request is sent  *)
(* on to an address with a token, and the server answers the token with the   *)
(* rule's answer, once.  Who starts it may be dropped at any step.  Chrome    *)
(* may ask for leave first (OPTIONS), repeat a request, and hang up.          *)
(*                                                                            *)
(* Left out: headers, bodies and delays of an answer.                         *)
(*                                                                            *)
(* Code: application/fetch_mock.rs.                                           *)
(***************************************************************************)
EXTENDS Naturals, FiniteSets

CONSTANTS
    Callers,    \* each registers one answer, with its own name as the token
    None,
    MaxStarts,  \* bound: servers started
    MaxAsks     \* bound: requests of Chrome for a token

VARIABLES
    cell,    \* CELL: the server everybody uses
    server,  \* state of each server started
    call,    \* where each caller is, and at which server
    specs,   \* the tokens each server still knows
    asked    \* requests for each token: how many, and how they were answered

vars == <<cell, server, call, specs, asked>>

Servers == 1..MaxStarts

TypeOK ==
    /\ cell \in Servers \cup {None}
    /\ server \in [Servers -> {"none", "binding", "told", "listening", "failed"}]
    /\ call \in [Callers -> [pc : {"idle", "wait", "init", "sent"}, at : Servers \cup {None}]]
    /\ specs \in [Servers -> SUBSET Callers]
    /\ asked \in [Callers -> [n : 0..MaxAsks, taken : BOOLEAN, served : 0..MaxAsks, early : BOOLEAN]]

Init ==
    /\ cell = None
    /\ server = [n \in Servers |-> "none"]
    /\ call = [c \in Callers |-> [pc |-> "idle", at |-> None]]
    /\ specs = [n \in Servers |-> {}]
    /\ asked = [c \in Callers |-> [n |-> 0, taken |-> FALSE, served |-> 0, early |-> FALSE]]

-----------------------------------------------------------------------------
(* shared: the cell is filled by one caller at a time.                       *)

Goto(c, pc, at) == call' = [call EXCEPT ![c] = [pc |-> pc, at |-> at]]

Ask(c) ==
    /\ call[c].pc = "idle"
    /\ Goto(c, "wait", None)
    /\ UNCHANGED <<cell, server, specs, asked>>

Start(c, n) ==
    /\ call[c].pc = "wait" /\ cell = None
    /\ \A d \in Callers : call[d].pc # "init"
    /\ server[n] = "none" /\ \A m \in 1..(n - 1) : server[m] # "none"
    /\ server' = [server EXCEPT ![n] = "binding"]
    /\ Goto(c, "init", n)
    /\ UNCHANGED <<cell, specs, asked>>

Waits(n) == \E c \in Callers : call[c].pc = "init" /\ call[c].at = n

\* The task binds and tells its caller; without one it ends.
Bind(n) ==
    /\ server[n] = "binding"
    /\ \/ server' = [server EXCEPT ![n] = IF Waits(n) THEN "told" ELSE "failed"]
       \/ server' = [server EXCEPT ![n] = "failed"]
    /\ UNCHANGED <<cell, call, specs, asked>>

\* The caller hears of it: the cell is filled.  Or it hears an error.
Started(c) ==
    /\ call[c].pc = "init"
    /\ \/ /\ server[call[c].at] = "told"
          /\ server' = [server EXCEPT ![call[c].at] = "listening"]
          /\ cell' = call[c].at
          /\ Goto(c, "wait", None)
       \/ server[call[c].at] = "failed" /\ Goto(c, "idle", None) /\ UNCHANGED <<cell, server>>
    /\ UNCHANGED <<specs, asked>>

\* register: no await after the cell was read.
Register(c) ==
    /\ call[c].pc = "wait" /\ cell # None
    /\ specs' = [specs EXCEPT ![cell] = @ \cup {c}]
    /\ Goto(c, "sent", cell)
    /\ UNCHANGED <<cell, server, asked>>

\* The caller is dropped.  A server that has told it already runs on.
Drop(c) ==
    /\ call[c].pc \in {"wait", "init"}
    /\ Goto(c, "idle", None)
    /\ UNCHANGED <<cell, server, specs, asked>>

-----------------------------------------------------------------------------
(* handle_conn.                                                              *)

\* seeded fault: the token is looked up before the method.
Consumes_All(method) == TRUE
\* OPTIONS is answered without the token.
Consumes(method) == method # "OPTIONS"

\* A request for a token: it may be given up before it is read, and after the
\* token was taken.
Handle(t, method) ==
    /\ call[t].pc = "sent" /\ asked[t].n < MaxAsks
    /\ LET n == call[t].at
           knows == t \in specs[n]
           takes == Consumes(method) /\ knows
       IN \/ asked' = [asked EXCEPT ![t].n = @ + 1] /\ UNCHANGED specs
          \/ /\ server[n] = "listening"
             /\ specs' = [specs EXCEPT ![n] = IF takes THEN @ \ {t} ELSE @]
             /\ \E heard \in {0, 1} :
                   asked' = [asked EXCEPT ![t] =
                               [n |-> @.n + 1,
                                taken |-> @.taken \/ method = "GET",
                                served |-> @.served + (IF takes /\ method = "GET" THEN heard ELSE 0),
                                early |-> @.early \/ (method = "GET" /\ ~knows /\ ~@.taken)]]
    /\ UNCHANGED <<cell, server, call>>

Next ==
    \/ \E c \in Callers : Ask(c) \/ Started(c) \/ Register(c) \/ Drop(c)
    \/ \E c \in Callers, n \in Servers : Start(c, n)
    \/ \E n \in Servers : Bind(n)
    \/ \E t \in Callers, method \in {"GET", "OPTIONS"} : Handle(t, method)

Spec == Init /\ [][Next]_vars

-----------------------------------------------------------------------------
(* Properties.                                                               *)

\* The answer of a rule is given once, to the first request that takes its
\* token, and no request is told that the token is used up before one has taken
\* it, however often leave was asked for; every token is kept by the server
\* everybody uses, and that one listens, whoever was dropped while it started
\* (fetch_mock.rs: tokens are consumed once).
MockAnswersOnce ==
    /\ \A t \in Callers : asked[t].served <= 1 /\ ~asked[t].early
    /\ \A n \in Servers : specs[n] # {} => n = cell /\ server[n] = "listening"
=============================================================================
