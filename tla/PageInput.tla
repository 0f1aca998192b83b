------------------------------ MODULE PageInput ------------------------------
(***************************************************************************)
(* Input into one tab.  A click is three mouse events, a key two or three, a *)
(* fill a chain of calls on one element that ends with reading the value     *)
(* back.  Every command may be carried out and answered, carried out and not *)
(* heard of in time, or refused; the whole call may be dropped at any await, *)
(* by the limit of a tool (30 s) or because the client has gone.  Meanwhile  *)
(* the page does as it likes.  A command that is not answered is carried out *)
(* by then or never.                                                         *)
(*                                                                           *)
(* Left out: how the point of a click is found, the label of the result, the *)
(* best-effort scrolling.  Calls of an instance come one after another.      *)
(*                                                                           *)
(* Code: application/page_service.rs, domain/page_control.rs.                *)
(***************************************************************************)
EXTENDS Naturals, Sequences, FiniteSets

CONSTANTS
    MaxCalls,  \* bound
    MaxTricks  \* bound: what the page does on its own

VARIABLES
    call,     \* the call under way
    down,     \* a button or a key is down in the page
    handle,   \* the page keeps an object for a call
    field,    \* the element a fill is about
    focus,    \* where typed text goes
    astray,   \* the last fill has typed into another element (history)
    since,    \* what the page did since that fill had the focus (history)
    excuses,  \* what went wrong since something went down (history)
    calls,
    tricks

vars == <<call, down, handle, field, focus, astray, since, excuses, calls, tricks>>

\* dispatch_click, KeyPress::dispatch_sequence.
Events == [click |-> <<"move", "press", "release">>,
           key |-> <<"press", "release">>,
           char |-> <<"press", "char", "release">>]
Gestures == DOMAIN Events
PressAt(g) == CHOOSE i \in DOMAIN Events[g] : Events[g][i] = "press"

Fills == {"resolve", "check", "focus", "recheck", "clear", "insert", "verify", "return"}
Values == {"old", "", "text", "other"}
Idle == [pc |-> "idle", op |-> "none", at |-> 0, want |-> "", result |-> "none"]

TypeOK ==
    /\ call \in [pc : {"idle", "send", "again"} \cup Fills, op : Gestures \cup {"fill", "none"},
                 at : 0..3, want : Values,
                 result : {"none", "ok", "no-effect", "unknown", "error", "not-fillable",
                           "focus-lost", "mismatch", "cut"}]
    /\ {down, handle} \subseteq BOOLEAN
    /\ field \in [value : Values, fillable : BOOLEAN, there : BOOLEAN]
    /\ focus \in {"field", "elsewhere"}
    /\ astray \in BOOLEAN /\ since \subseteq {"focus", "field"}
    /\ excuses \subseteq {"unheard", "refused", "cut"}
    /\ calls \in 0..MaxCalls /\ tricks \in 0..MaxTricks

Init ==
    /\ call = Idle
    /\ down = FALSE /\ handle = FALSE
    /\ field = [value |-> "old", fillable |-> TRUE, there |-> TRUE]
    /\ focus = "elsewhere"
    /\ astray = FALSE /\ since = {}
    /\ excuses = {}
    /\ calls = 0 /\ tricks = 0

Goto(pc) == call' = [call EXCEPT !.pc = pc]
End(result) == call' = [Idle EXCEPT !.result = result]
InPage == <<field, focus>>
Typed == <<astray, since>>

Call ==
    /\ call.pc = "idle" /\ calls < MaxCalls
    /\ calls' = calls + 1
    /\ \/ \E g \in Gestures : call' = [Idle EXCEPT !.pc = "send", !.op = g, !.at = 1]
       \/ \E v \in {"", "text"} : call' = [Idle EXCEPT !.pc = "resolve", !.op = "fill", !.want = v]
    /\ astray' = FALSE /\ since' = {}
    /\ UNCHANGED <<down, handle, field, focus, excuses, tricks>>

-----------------------------------------------------------------------------
(* Clicks and keys.                                                          *)

Outcomes == {"answered", "unheard", "refused"}

\* What an event does in the page.
Does(event, outcome) ==
    IF outcome = "refused" THEN /\ UNCHANGED down
                                /\ excuses' = IF event = "release" /\ down /\ call.pc = "again"
                                              THEN excuses \cup {"refused"} ELSE excuses
    ELSE CASE event = "press" -> /\ down' = TRUE
                                 /\ excuses' = IF outcome = "unheard" THEN excuses \cup {"unheard"}
                                               ELSE excuses
           [] event = "release" -> down' = FALSE /\ excuses' = {}
           [] OTHER -> UNCHANGED <<down, excuses>>

\* seeded fault: a failed event ends the call at once.
ReleasesAgain_Not(g, i) == FALSE
\* An event after the press failed: the release is sent once more.
ReleasesAgain(g, i) == i > PressAt(g)

Send(outcome) ==
    /\ call.pc = "send"
    /\ LET g == call.op
           i == call.at IN
       /\ Does(Events[g][i], outcome)
       /\ IF outcome = "answered"
          THEN IF i < Len(Events[g]) THEN call' = [call EXCEPT !.at = i + 1] ELSE End("ok")
          ELSE IF ReleasesAgain(g, i) THEN Goto("again")
          ELSE End(IF g = "click" THEN "no-effect" ELSE "error")
    /\ UNCHANGED <<handle, field, focus, astray, since, calls, tricks>>

Again(outcome) ==
    /\ call.pc = "again"
    /\ Does("release", outcome)
    /\ End(IF call.op = "click" THEN "unknown" ELSE "error")
    /\ UNCHANGED <<handle, field, focus, astray, since, calls, tricks>>

-----------------------------------------------------------------------------
(* fill_tool, fill_pipeline.  "return" hands the object back and then ends   *)
(* the call with the result the pipeline came to.                            *)

Step(pc) == call.pc = pc /\ UNCHANGED <<down, excuses, calls, tricks>>
\* Any command may fail: the pipeline gives up.
Back(result) == call' = [call EXCEPT !.pc = "return", !.result = result]

Resolve ==
    /\ Step("resolve")
    /\ \/ handle' = TRUE /\ Goto("check")
       \/ UNCHANGED handle /\ End("error")
    /\ UNCHANGED <<InPage, Typed>>

Fillable == field.there /\ field.fillable

Check(pc) ==
    /\ Step(pc)
    /\ \/ Back("error")
       \/ CASE ~Fillable -> Back("not-fillable")
            [] pc = "check" -> Goto("focus")
            [] OTHER -> Back("focus-lost")
    /\ UNCHANGED <<handle, field, focus, astray, since>>

\* A command that failed may have moved the focus all the same.
Focus ==
    /\ Step("focus")
    /\ \/ Fillable /\ focus' = "field" /\ \E pc \in {"clear", "recheck"} : Goto(pc)
       \/ UNCHANGED focus /\ Goto("recheck")
    /\ UNCHANGED <<handle, field, astray, since>>

\* seeded fault: the text is sent without a look at the focus.
HasFocus_Unchecked == TRUE
\* The element is the active one of its root (fill_clear_expr).
HasFocus == focus = "field"

Clear ==
    /\ Step("clear")
    /\ \/ /\ \/ Back("error")
             \/ ~Fillable /\ Back("not-fillable")
             \/ Fillable /\ ~HasFocus /\ Back("focus-lost")
          /\ UNCHANGED <<field, since>>
       \/ /\ Fillable /\ HasFocus
          /\ field' = [field EXCEPT !.value = ""]
          /\ since' = {}
          /\ Goto(IF call.want = "" THEN "verify" ELSE "insert") \/ Back("error")
    /\ UNCHANGED <<handle, focus, astray>>

\* The text goes to whatever has the focus by now.
Insert(outcome) ==
    /\ Step("insert")
    /\ field' = IF outcome # "refused" /\ focus = "field" /\ Fillable
                THEN [field EXCEPT !.value = IF @ = "" THEN call.want ELSE "other"] ELSE field
    /\ astray' = (outcome # "refused" /\ focus = "elsewhere")
    /\ IF outcome = "answered" THEN Goto("verify") ELSE Back("error")
    /\ UNCHANGED <<handle, focus, since>>

\* What is read back (fill_verify_expr): of a field that may no longer be filled
\* the text content, which an input has not, a textarea had from the start, and
\* an element that was editable still has.
ReadBack == IF field.fillable THEN {field.value} ELSE Values

\* seeded fault: what was typed counts as filled.
Verdict_Typed(actual) == "ok"
Verdict(actual) == IF field.there /\ actual = call.want THEN "ok" ELSE "mismatch"

Verify ==
    /\ Step("verify")
    /\ Back("error") \/ \E actual \in ReadBack : Back(Verdict(actual))
    /\ UNCHANGED <<handle, field, focus, astray, since>>

Return ==
    /\ Step("return")
    /\ handle' = FALSE
    /\ End(call.result)
    /\ UNCHANGED <<InPage, Typed>>

-----------------------------------------------------------------------------
\* The future of the call is dropped: what was sent is done, nothing more is.
Cut ==
    /\ call.pc # "idle"
    /\ End("cut")
    /\ excuses' = IF down THEN excuses \cup {"cut"} ELSE excuses
    /\ UNCHANGED <<down, handle, field, focus, astray, since, calls, tricks>>

\* The page moves the focus, writes into the field, disables or removes it.
Trick ==
    /\ tricks < MaxTricks
    /\ tricks' = tricks + 1
    /\ \/ focus' \in {"field", "elsewhere"} \ {focus} /\ UNCHANGED field
       \/ /\ \/ \E v \in Values \ {""} : field' = [field EXCEPT !.value = v]
             \/ field' = [field EXCEPT !.fillable = ~@]
             \/ field' = [field EXCEPT !.there = FALSE]
          /\ UNCHANGED focus
    /\ since' = IF call.pc \in {"insert", "verify"}
                THEN since \cup (IF field' = field THEN {"focus"} ELSE {"field"}) ELSE since
    /\ UNCHANGED <<call, down, handle, astray, excuses, calls>>

Next ==
    \/ Call
    \/ \E o \in Outcomes : Send(o) \/ Again(o) \/ Insert(o)
    \/ Resolve \/ Check("check") \/ Check("recheck") \/ Focus \/ Clear \/ Verify \/ Return
    \/ Cut \/ Trick

Spec == Init /\ [][Next]_vars

-----------------------------------------------------------------------------
(* Properties.                                                               *)

\* No call leaves a button or a key down (dispatch_click, press_tool), except
\* where the code cannot know or cannot help: the call was dropped, the press
\* was carried out but its answer did not come, or the second release was
\* refused as well.
NothingStaysDown == call.pc = "idle" /\ down => excuses # {}

\* What a fill types goes to its field, unless the page has moved the focus since
\* the field was found to have it and was cleared; and a fill that has typed into
\* another element does not report success, unless the page has meanwhile worked
\* on the field as well (written into it, or disabled it, so that something else
\* is read back): however the page moves the focus between the steps, and
\* whatever earlier fills have left behind (fill_pipeline, fill_clear_expr).
FillStaysInItsField ==
    astray => "focus" \in since /\ (call.result = "ok" => "field" \in since)
=============================================================================
