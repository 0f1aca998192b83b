------------------------------ MODULE PageLoads ------------------------------
(***************************************************************************)
(* Navigation of one tab: navigate, reload, back and forward.  A call enters *)
(* a waiter, sends its command and waits for the load event, which the event *)
(* loop hands to every waiter of the tab.  The answer to the command goes to *)
(* the call, the event to the loop: either may come first to its end.  The   *)
(* page also navigates on its own, and the tab may be closed.                *)
(*                                                                           *)
(* Commands of an instance hold its lock: at most one call runs, but one     *)
(* that was dropped has left its waiter behind.  Left out: the addresses,    *)
(* the notes of the result.                                                  *)
(*                                                                           *)
(* Code: application/page_service.rs.                                        *)
(***************************************************************************)
EXTENDS Naturals, Sequences

CONSTANTS
    None,
    MaxCalls,  \* bound
    MaxDocs    \* bound: documents of the tab

VARIABLES
    page,     \* the document of the tab, and whether it is loaded
    queue,    \* events the loop has not handled
    waiters,  \* load_waiters of the tab: calls
    call,     \* the call under way
    calls,
    handled   \* the newest document whose load event was handled (history)

vars == <<page, queue, waiters, call, calls, handled>>

Docs == 0..MaxDocs
Kinds == {"navigate", "reload", "history"}
Results == {"none", "error", "loaded", "unconfirmed", "cut"}

TypeOK ==
    /\ page \in [doc : Docs, ready : BOOLEAN]
    /\ \A i \in DOMAIN queue : queue[i] \in [kind : {"load", "closed"}, doc : Docs]
    /\ waiters \subseteq 1..MaxCalls
    /\ call \in [pc : {"idle", "entries", "register", "send", "answer", "poll", "ready", "await"},
                 kind : Kinds, id : 0..MaxCalls, doc : Docs \cup {None},
                 answer : {"none", "moved", "same", "refused"},
                 waiter : {"none", "waits", "released", "dropped"}, result : Results]
    /\ calls \in 0..MaxCalls
    /\ handled \in Docs

Idle == [pc |-> "idle", kind |-> "navigate", id |-> 0, doc |-> None, answer |-> "none",
         waiter |-> "none", result |-> "none"]

Init ==
    /\ page \in [doc : {0}, ready : BOOLEAN]
    /\ queue = <<>>
    /\ waiters = {}
    /\ call = Idle
    /\ calls = 0
    /\ handled = 0

Goto(pc) == call' = [call EXCEPT !.pc = pc]
End(result) == call' = [Idle EXCEPT !.result = result]
Calling == UNCHANGED <<page, queue, calls, handled>>

-----------------------------------------------------------------------------
(* navigate_tool, reload_tool, history_step_tool.                            *)

Begin(kind) ==
    /\ call.pc = "idle" /\ calls < MaxCalls
    /\ calls' = calls + 1
    /\ call' = [Idle EXCEPT !.kind = kind, !.id = calls',
                            !.pc = IF kind = "history" THEN "entries" ELSE "register"]
    /\ UNCHANGED <<page, queue, waiters, handled>>

\* nav_history_target: there is an entry to go to.
Entries ==
    /\ call.pc = "entries"
    /\ Goto("register") \/ End("error")
    /\ Calling /\ UNCHANGED waiters

\* seeded fault: the waiter is entered when the command is answered.
EntersAt_Answer == "answer"
\* register_load_waiter: before the command is sent.
EntersAt == "register"

\* The waiter enters at its place, and waits there.
Enters(pc) == waiters' = IF pc = EntersAt THEN waiters \cup {call.id} ELSE waiters

Register ==
    /\ call.pc = "register"
    /\ Enters("register")
    /\ call' = [call EXCEPT !.pc = "send", !.waiter = "waits"]
    /\ Calling

\* The browser carries it out: a new document, another place in the same one,
\* or nothing.  The call may not hear of it.
CarriesOut ==
    /\ call.pc = "send"
    /\ \/ /\ page.doc < MaxDocs
          /\ page' = [doc |-> page.doc + 1, ready |-> FALSE]
          /\ call' = [call EXCEPT !.pc = "answer", !.answer = "moved", !.doc = page.doc + 1]
       \/ /\ call' = [call EXCEPT !.pc = "answer",
                                  !.answer = IF call.kind = "reload" THEN "refused" ELSE "same"]
          /\ UNCHANGED page
       \/ /\ call' = [call EXCEPT !.pc = "answer", !.answer = "refused"]
          /\ UNCHANGED page
    /\ UNCHANGED <<queue, waiters, calls, handled>>

\* Without an answer, or with a refusal, the call fails; a step inside the
\* document is done at once, and history has to look for itself.
Answer ==
    /\ call.pc = "answer"
    /\ Enters("answer")
    /\ \/ End("error")
       \/ call.answer # "refused" /\ call.kind = "history" /\ Goto("poll")
       \/ call.answer = "same" /\ call.kind = "navigate" /\ End("loaded")
       \/ call.answer = "moved" /\ call.kind # "history" /\ Goto("await")
    /\ Calling

\* The index of the entry is, or is not, the one asked for; or time is up.
Poll ==
    /\ call.pc = "poll"
    /\ \/ Goto("ready")
       \/ End("unconfirmed")
    /\ Calling /\ UNCHANGED waiters

\* Committed: a document that is complete will send no event any more.
Ready ==
    /\ call.pc = "ready"
    /\ \/ page.ready /\ End("loaded")
       \/ Goto("await")
    /\ Calling /\ UNCHANGED waiters

\* await_load: the event, a waiter that was dropped with its tab, or time.
Await ==
    /\ call.pc = "await"
    /\ \/ call.waiter = "released" /\ End("loaded")
       \/ call.waiter # "released" /\ End("unconfirmed")
    /\ Calling /\ UNCHANGED waiters

\* The future of the call is dropped; the loop still has its waiter.
Cut ==
    /\ call.pc # "idle"
    /\ End("cut")
    /\ Calling /\ UNCHANGED waiters

-----------------------------------------------------------------------------
(* The page and the loop.                                                    *)

Loads ==
    /\ ~page.ready
    /\ page' = [page EXCEPT !.ready = TRUE]
    /\ queue' = Append(queue, [kind |-> "load", doc |-> page.doc])
    /\ UNCHANGED <<waiters, call, calls, handled>>

MovesItself ==
    /\ page.doc < MaxDocs
    /\ page' = [doc |-> page.doc + 1, ready |-> FALSE]
    /\ UNCHANGED <<queue, waiters, call, calls, handled>>

\* The session of the tab ends; another may follow.
Closes ==
    /\ \A i \in DOMAIN queue : queue[i].kind # "closed"
    /\ queue' = Append(queue, [kind |-> "closed", doc |-> page.doc])
    /\ UNCHANGED <<page, waiters, call, calls, handled>>

\* loadEventFired releases all who wait, drop_tab drops them.
Handle ==
    /\ queue # <<>>
    /\ queue' = Tail(queue)
    /\ waiters' = {}
    /\ LET e == Head(queue) IN
       /\ call' = IF call.id \in waiters
                  THEN [call EXCEPT !.waiter = IF e.kind = "load" THEN "released" ELSE "dropped"]
                  ELSE call
       /\ handled' = IF e.kind = "load" THEN e.doc ELSE handled
    /\ UNCHANGED <<page, calls>>

-----------------------------------------------------------------------------
Next ==
    \/ \E kind \in Kinds : Begin(kind)
    \/ Entries \/ Register \/ CarriesOut \/ Answer \/ Poll \/ Ready \/ Await \/ Cut
    \/ Loads \/ MovesItself \/ Closes \/ Handle

Spec == Init /\ [][Next]_vars

-----------------------------------------------------------------------------
(* Properties.                                                               *)

\* The load event of the document a call has brought about is not missed: once
\* the loop has handled it, or that of a later document, the call no longer
\* waits, however early the event came (register_load_waiter).
LoadIsNotMissed ==
    call.pc \in {"poll", "ready", "await"} /\ call.doc # None /\ handled >= call.doc
        => call.waiter # "waits"
=============================================================================
