----------------------------- MODULE PageEvents -----------------------------
(***************************************************************************)
(* The event loop of one page session.  It handles one event after another,  *)
(* and the events it answers with commands hold it up until the command is   *)
(* answered or has waited its 15 s: a new session (probe for a dialog, then  *)
(* enable the domains), a dialog (accept it, then record it) and a paused    *)
(* request (decide by the rules, carry it out, else let it pass).  A dialog  *)
(* that is open blocks every command of its session but the one that answers *)
(* it.  Meanwhile clients install and clear rules.                           *)
(*                                                                           *)
(* A command may be carried out without its answer arriving in time.  Left   *)
(* out: what is matched and rewritten (a rule may match any request), the    *)
(* patterns, the mock server behind a rewritten request, a lost connection.  *)
(*                                                                           *)
(* Code: application/page_service.rs, domain/fetch_rules.rs,                 *)
(* domain/page_control.rs (DialogBuffer).                                    *)
(***************************************************************************)
EXTENDS Naturals, Sequences, FiniteSets

CONSTANTS
    Requests,   \* the requests of the page
    Times,      \* how often a rule may be used; 0: without limit
    Cap,        \* MAX_DIALOG_BUFFER
    None,
    MaxSets,    \* bound: rules installed
    MaxDialogs  \* bound

VARIABLES
    queue,      \* events the loop has not handled
    loop,       \* what the loop is at
    dialog,     \* the page shows a dialog
    raised,     \* dialogs so far
    buffer,     \* DialogBuffer
    fetching,   \* the browser pauses requests
    request,    \* what has become of each request
    rules,      \* InterceptState of the tab: uses of its rule, journal
    client,     \* intercept_set
    sets,
    unheard     \* requests of a command that was carried out without an answer
                \* (history)

vars == <<queue, loop, dialog, raised, buffer, fetching, request, rules, client, sets, unheard>>

Fates == {"mocked", "blocked", "passed"}
\* The steps of enable_session_domains.
Enabling == <<"probe", "Page", "DOM", "CSS", "attach">>

TypeOK ==
    /\ loop.pc \in {"idle", "enable", "accept", "decide", "act", "fallback", "pass"}
    /\ loop.step \in 0..Len(Enabling) /\ loop.req \in Requests \cup {None}
    /\ loop.act \in {"mocked", "blocked", "none"}
    /\ dialog \in BOOLEAN /\ fetching \in BOOLEAN
    /\ raised \in 0..MaxDialogs
    /\ buffer \in [seq : Nat, kept : SUBSET Nat, dropped : Nat]
    /\ Cardinality(buffer.kept) <= Cap
    /\ request \in [Requests -> {"new", "paused"} \cup Fates]
    /\ rules = None \/ (rules.used \in Nat /\ rules.set \in 0..MaxSets /\
                        rules.journal \subseteq (Requests \X (Fates \cup {"recovered", "stranded"})))
    /\ client \in [pc : {"idle", "enable", "insert", "disable", "remove"}]
    /\ sets \in 0..MaxSets
    /\ unheard \subseteq Requests

Resting == [pc |-> "idle", step |-> 0, req |-> None, act |-> "none"]

\* The session has just been attached to.
Init ==
    /\ queue = <<[kind |-> "attached", req |-> None]>>
    /\ loop = Resting
    /\ dialog \in BOOLEAN
    /\ raised = 0
    /\ buffer = [seq |-> 0, kept |-> {}, dropped |-> 0]
    /\ fetching = FALSE
    /\ request = [q \in Requests |-> "new"]
    /\ rules = None
    /\ client = [pc |-> "idle"]
    /\ sets = 0
    /\ unheard = {}

-----------------------------------------------------------------------------
(* The page.                                                                 *)

RaiseDialog ==
    /\ ~dialog /\ raised < MaxDialogs
    /\ dialog' = TRUE
    /\ raised' = raised + 1
    /\ queue' = Append(queue, [kind |-> "dialog", req |-> None])
    /\ UNCHANGED <<loop, buffer, fetching, request, rules, client, sets, unheard>>

\* A request goes out while the domain is on: it is paused.
Ask(q) ==
    /\ request[q] = "new" /\ fetching
    /\ request' = [request EXCEPT ![q] = "paused"]
    /\ queue' = Append(queue, [kind |-> "paused", req |-> q])
    /\ UNCHANGED <<loop, dialog, raised, buffer, fetching, rules, client, sets, unheard>>

-----------------------------------------------------------------------------
(* The loop: handle_event.                                                   *)

Outcomes == {"answered", "unheard", "refused"}
LoopTo(pc) == loop' = [loop EXCEPT !.pc = pc]
Rest == loop' = Resting
Others == UNCHANGED <<client, sets>>

Take ==
    /\ loop.pc = "idle" /\ queue # <<>>
    /\ queue' = Tail(queue)
    /\ LET e == Head(queue) IN
       loop' = CASE e.kind = "attached" -> [Resting EXCEPT !.pc = "enable", !.step = 1]
                 [] e.kind = "dialog"   -> [Resting EXCEPT !.pc = "accept"]
                 [] e.kind = "paused"   -> [Resting EXCEPT !.pc = "decide", !.req = e.req]
    /\ UNCHANGED <<dialog, raised, buffer, fetching, request, rules, unheard>> /\ Others

Recorded ==
    LET seq == buffer.seq + 1
        kept == buffer.kept \cup {seq}
    IN [seq |-> seq,
        kept |-> {n \in kept : n > seq - Cap},
        dropped |-> buffer.dropped + (IF Cardinality(kept) > Cap THEN 1 ELSE 0)]

\* Answering a dialog: recorded only if the browser says it was one.  A dialog
\* that is gone, or never was, is refused.
AnswerDialog(outcome) ==
    IF outcome = "refused" \/ ~dialog
    THEN UNCHANGED <<dialog, buffer>>
    ELSE /\ dialog' = FALSE
         /\ buffer' = IF outcome = "answered" THEN Recorded ELSE buffer

\* The probe comes first; a command after it that meets a dialog waits its 15 s
\* and counts as failed, like any other.
Enable(outcome) ==
    /\ loop.pc = "enable"
    /\ IF Enabling[loop.step] = "probe" THEN AnswerDialog(outcome)
       ELSE (dialog => outcome # "answered") /\ UNCHANGED <<dialog, buffer>>
    /\ IF loop.step = Len(Enabling) THEN Rest ELSE loop' = [loop EXCEPT !.step = @ + 1]
    /\ UNCHANGED <<queue, raised, fetching, request, rules, unheard>> /\ Others

Accept(outcome) ==
    /\ loop.pc = "accept"
    /\ AnswerDialog(outcome)
    /\ Rest
    /\ UNCHANGED <<queue, raised, fetching, request, rules, unheard>> /\ Others

\* first_live_match: a rule that has uses left, if it matches.
Live == rules # None /\ (Times = 0 \/ rules.used < Times)

Journal(q, outcome) ==
    rules' = IF rules = None THEN None ELSE [rules EXCEPT !.journal = @ \cup {<<q, outcome>>}]

Decide ==
    /\ loop.pc = "decide"
    /\ \/ /\ Live
          /\ rules' = [rules EXCEPT !.used = @ + 1]
          /\ \E a \in {"mocked", "blocked"} : loop' = [loop EXCEPT !.pc = "act", !.act = a]
       \/ /\ Journal(loop.req, "passed")
          /\ LoopTo("pass")
    /\ UNCHANGED <<queue, dialog, raised, buffer, fetching, request, unheard>> /\ Others

\* A command on a paused request; one on a request that is not is refused.
CarriedOut(fate, outcome) ==
    IF outcome = "refused" THEN UNCHANGED <<request, unheard>>
    ELSE /\ request[loop.req] = "paused"
         /\ request' = [request EXCEPT ![loop.req] = fate]
         /\ unheard' = IF outcome = "unheard" THEN unheard \cup {loop.req} ELSE unheard

\* seeded fault: a decision that fails ends the matter.
AfterFailure_Leave == "idle"
AfterFailure == "fallback"

Act(outcome) ==
    /\ loop.pc = "act"
    /\ CarriedOut(loop.act, outcome)
    /\ IF outcome = "answered" THEN Journal(loop.req, loop.act) /\ Rest
       ELSE /\ IF AfterFailure = "idle" THEN Rest ELSE LoopTo(AfterFailure)
            /\ UNCHANGED rules
    /\ UNCHANGED <<queue, dialog, raised, buffer, fetching>> /\ Others

\* continueRequest as it is: only a request that is not paused refuses it.
Passes(outcome) ==
    /\ outcome = "refused" => request[loop.req] # "paused"
    /\ CarriedOut("passed", outcome)

Fallback(outcome) ==
    /\ loop.pc = "fallback"
    /\ Passes(outcome)
    /\ Journal(loop.req, IF outcome = "answered" THEN "recovered" ELSE "stranded")
    /\ Rest
    /\ UNCHANGED <<queue, dialog, raised, buffer, fetching>> /\ Others

Pass(outcome) ==
    /\ loop.pc = "pass"
    /\ Passes(outcome)
    /\ Rest
    /\ UNCHANGED <<queue, dialog, raised, buffer, fetching, rules>> /\ Others

-----------------------------------------------------------------------------
(* intercept_set: the domain first, then the rules.                          *)

ClientTo(pc) == client' = [pc |-> pc]
OfLoop == UNCHANGED <<queue, loop, dialog, raised, buffer>>

Set ==
    /\ client.pc = "idle" /\ sets < MaxSets
    /\ sets' = sets + 1
    /\ client' \in {[pc |-> "enable"], [pc |-> "disable"]}
    /\ OfLoop /\ UNCHANGED <<fetching, request, rules, unheard>>

FetchEnable(outcome) ==
    /\ client.pc = "enable"
    /\ fetching' = (fetching \/ outcome # "refused")
    /\ ClientTo(IF outcome = "answered" THEN "insert" ELSE "idle")
    /\ OfLoop /\ UNCHANGED <<request, rules, sets, unheard>>

Insert ==
    /\ client.pc = "insert"
    /\ rules' = [used |-> 0, set |-> sets, journal |-> {}]
    /\ ClientTo("idle")
    /\ OfLoop /\ UNCHANGED <<fetching, request, sets, unheard>>

\* The browser lets go what it has paused.
FetchDisable(outcome) ==
    /\ client.pc = "disable"
    /\ IF outcome = "refused" THEN UNCHANGED <<fetching, request>>
       ELSE /\ fetching' = FALSE
            /\ request' = [q \in Requests |-> IF request[q] = "paused" THEN "passed" ELSE request[q]]
    /\ ClientTo("remove")
    /\ OfLoop /\ UNCHANGED <<rules, sets, unheard>>

Remove ==
    /\ client.pc = "remove"
    /\ rules' = None
    /\ ClientTo("idle")
    /\ OfLoop /\ UNCHANGED <<fetching, request, sets, unheard>>

-----------------------------------------------------------------------------
Next ==
    \/ RaiseDialog \/ Take \/ Decide \/ Set \/ Insert \/ Remove
    \/ \E q \in Requests : Ask(q)
    \/ \E o \in Outcomes : Enable(o) \/ Accept(o) \/ Act(o) \/ Fallback(o) \/ Pass(o)
                              \/ FetchEnable(o) \/ FetchDisable(o)

Spec == Init /\ [][Next]_vars

-----------------------------------------------------------------------------
(* Properties.                                                               *)

InQueue(q) == \E i \in DOMAIN queue : queue[i].req = q

\* A request the page waits for is before the loop or in its hands: whatever
\* fails, it is let go (on_request_paused: a paused request nobody answers hangs
\* the page), also while rules are replaced and cleared.
NobodyIsLeftPaused ==
    \A q \in Requests : request[q] = "paused" => InQueue(q) \/ loop.req = q
=============================================================================
