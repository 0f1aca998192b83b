----------------------------- MODULE PageCommands -----------------------------
(***************************************************************************)
(* The commands of a tab that go on for several steps and report on them:     *)
(* wait looks at an element until it is in a state, loadall clicks one until  *)
(* it is gone, emulate sets three overrides one after the other.  Commands of *)
(* an instance run one at a time; the page changes the element at any time,   *)
(* any command sent may fail, a call may be dropped at any step, and the      *)
(* connection with its overrides may be rebuilt.                              *)
(*                                                                            *)
(* Left out: where a click lands (PageAim, PageInput), the texts.             *)
(*                                                                            *)
(* Code: application/page_service.rs, domain/page_control.rs,                 *)
(* domain/emulate.rs.                                                         *)
(***************************************************************************)
EXTENDS Integers

CONSTANTS
    None,
    Timeouts,  \* what wait may be asked for
    Interval,  \* WAIT_POLL_INTERVAL
    MaxTime,   \* bound: the clock
    MaxClicks, \* what loadall may be asked for
    MaxCalls   \* bound: calls of emulate

VARIABLES
    element,   \* visible, hidden or detached
    clock,
    device,    \* the overrides of the session of the page
    call,
    calls,     \* calls of emulate so far
    wanted     \* the overrides last set without an error (history)

vars == <<element, clock, device, call, calls, wanted>>

Elements == {"visible", "hidden", "detached"}
Observed == Elements \cup {"unknown"}
Waited == Elements \cup {"attached"}

\* Overrides: the size with mobile, the user agent, touch.
Plain == [size |-> "own", mobile |-> FALSE, ua |-> "own", touch |-> FALSE]
Devices == [size : {"own", "phone", "desk", "given"}, mobile : BOOLEAN,
            ua : {"own", "phone", "desk", "given"}, touch : BOOLEAN]

Pcs == {"idle", "done", "look", "decide", "sleep",           \* wait_tool
        "exists", "click", "again", "check",         \* loadall_tool
        "metrics", "ua", "touch"}                    \* emulate_tool

TypeOK ==
    /\ element \in Elements
    /\ clock \in 0..MaxTime
    /\ device \in Devices
    /\ wanted \in Devices \cup {None}
    /\ call.pc \in Pcs
    /\ calls \in 0..MaxCalls

Idle == [pc |-> "idle", result |-> "none"]

Init ==
    /\ element \in Elements
    /\ clock = 0
    /\ device = Plain
    /\ call = Idle
    /\ calls = 0
    /\ wanted = Plain

-----------------------------------------------------------------------------
(* The page and the clock.                                                   *)

ElementChanges ==
    /\ \E e \in Elements \ {element} : element' = e
    /\ UNCHANGED <<clock, device, call, calls, wanted>>

\* Time passes during a wait.
Tick ==
    /\ call.pc \in {"decide", "sleep"} /\ clock < MaxTime
    /\ call.pc = "sleep" => clock < call.wake
    /\ clock' = clock + 1
    /\ UNCHANGED <<element, device, call, calls, wanted>>

\* The connection is rebuilt between calls: the overrides went with the session.
Rebuilt ==
    /\ call.pc = "idle" /\ device # Plain
    /\ device' = Plain
    /\ wanted' = Plain
    /\ UNCHANGED <<element, clock, call, calls>>

-----------------------------------------------------------------------------
(* Calls.                                                                    *)

OnlyCall == UNCHANGED <<element, clock, device, calls, wanted>>
End(result) == call' = [call EXCEPT !.pc = "done", !.result = result]

\* The result goes to the client.
Return ==
    /\ call.pc = "done"
    /\ call' = Idle
    /\ clock' = 0
    /\ UNCHANGED <<element, device, calls, wanted>>

\* The budget of the call is spent, the client has gone, or the conn was lost.
Cut ==
    /\ call.pc \notin {"idle", "done"}
    /\ call' = Idle
    /\ clock' = 0
    /\ UNCHANGED <<element, device, calls, wanted>>

-----------------------------------------------------------------------------
(* wait_tool.                                                                *)

Wait(state, timeout) ==
    /\ call.pc = "idle"
    /\ call' = [pc |-> "look", result |-> "none", state |-> state, timeout |-> timeout,
                seen |-> None, wake |-> None]
    /\ OnlyCall

\* One look: an expression that fails counts as detached, an answer that makes
\* no sense as unknown.
Look ==
    /\ call.pc = "look"
    /\ \E seen \in {element, "detached", "unknown"} :
          call' = [call EXCEPT !.pc = "decide", !.seen = seen]
    /\ OnlyCall

\* observed_matches_state.
Matches(seen, state) == IF state = "attached" THEN seen # "detached" ELSE seen = state

\* seeded fault: it gives up when the next look would come after the deadline.
Expired_Early == clock + Interval > call.timeout
Expired == clock >= call.timeout

Decide ==
    /\ call.pc = "decide"
    /\ IF Matches(call.seen, call.state) THEN End("ok")
       ELSE IF Expired THEN End("timeout")
       ELSE call' = [call EXCEPT !.pc = "sleep",
                        !.wake = IF clock + Interval < call.timeout THEN clock + Interval
                                 ELSE call.timeout]
    /\ OnlyCall

Wake ==
    /\ call.pc = "sleep" /\ clock = call.wake
    /\ call' = [call EXCEPT !.pc = "look"]
    /\ OnlyCall

-----------------------------------------------------------------------------
(* loadall_tool.                                                             *)

\* With max-clicks 0 the element is only looked for.
LoadAll(max) ==
    /\ call.pc = "idle"
    /\ call' = [pc |-> IF max = 0 THEN "check" ELSE "exists", result |-> "none", max |-> max,
                clicks |-> 0, pressed |-> 0, probe |-> None]
    /\ OnlyCall

\* selector_exists: an expression that fails ends the call.
Exists ==
    /\ call.pc = "exists"
    /\ \/ call' = Idle
       \/ /\ element = "detached"
          /\ call' = [call EXCEPT !.pc = "done", !.result = "gone", !.probe = element]
       \/ element # "detached" /\ call' = [call EXCEPT !.pc = "click"]
    /\ OnlyCall

\* seeded fault: a click is counted before it is made, and its error passed over.
Clicked_Anyway == TRUE
Clicked == element = "visible"

\* click_selector: an element that is gone or not seen by now, or is covered,
\* ends the call; a click that is made may change the page.
Click ==
    /\ call.pc = "click"
    /\ \/ call' = Idle /\ UNCHANGED element
       \/ /\ Clicked
          /\ call' = [call EXCEPT !.pc = "again", !.clicks = @ + 1,
                                  !.pressed = @ + (IF element = "visible" THEN 1 ELSE 0)]
          /\ element' \in Elements
    /\ UNCHANGED <<clock, device, calls, wanted>>

\* After the interval it goes on; at the limit the element is looked for once more.
Again ==
    /\ call.pc = "again"
    /\ call' = [call EXCEPT !.pc = IF call.clicks < call.max THEN "exists" ELSE "check"]
    /\ OnlyCall

CheckAgain ==
    /\ call.pc = "check"
    /\ \/ call' = Idle
       \/ call' = [call EXCEPT !.pc = "done", !.probe = element,
                               !.result = IF element = "detached" THEN "gone" ELSE "present"]
    /\ OnlyCall

-----------------------------------------------------------------------------
(* emulate_tool.                                                             *)

Presets == [phone |-> [size |-> "phone", mobile |-> TRUE, ua |-> "phone", touch |-> TRUE],
            desk  |-> [size |-> "desk", mobile |-> FALSE, ua |-> "desk", touch |-> FALSE]]

Maybe(S) == S \cup {None}
Requests == [off : BOOLEAN, preset : Maybe({"phone", "desk", "other"}), viewport : Maybe({0, 1}),
             ua : Maybe({"given"}), mobile : Maybe(BOOLEAN), touch : Maybe(BOOLEAN)]

Fields(r) == r.viewport # None \/ r.ua # None \/ r.mobile # None \/ r.touch # None
Or(value, default) == IF value = None THEN default ELSE value

\* resolve: off stands alone, a preset brings everything, a viewport the rest
\* by default; None is a refusal.
Resolved(r) ==
    CASE r.off -> IF r.preset = None /\ ~Fields(r) THEN Plain ELSE None
      [] ~r.off /\ r.preset # None ->
            IF ~Fields(r) /\ r.preset \in DOMAIN Presets THEN Presets[r.preset] ELSE None
      [] ~r.off /\ r.preset = None /\ r.viewport = 1 ->
            [size |-> "given", mobile |-> Or(r.mobile, FALSE), ua |-> Or(r.ua, "own"),
             touch |-> Or(r.touch, FALSE)]
      [] OTHER -> None

Emulate(asked) ==
    /\ call.pc = "idle" /\ calls < MaxCalls
    /\ asked # None
    /\ calls' = calls + 1
    /\ wanted' = None
    /\ call' = [pc |-> "metrics", result |-> "none", asked |-> asked]
    /\ UNCHANGED <<element, clock, device>>

\* seeded fault: an override that was not asked for is left as it is.
UaSent_Kept == IF call.asked.ua = "own" THEN device.ua ELSE call.asked.ua
\* The user agent is always sent, empty when there is none.
UaSent == call.asked.ua

\* One command: carried out, and the call goes on; or the call hears an error,
\* carried out or not.
Sends(pc, next, after) ==
    /\ call.pc = pc
    /\ \/ /\ device' = after
          /\ IF next = "done" THEN End("set") /\ wanted' = call.asked
             ELSE call' = [call EXCEPT !.pc = next] /\ UNCHANGED wanted
       \/ /\ device' \in {device, after}
          /\ call' = Idle
          /\ UNCHANGED wanted
    /\ UNCHANGED <<element, clock, calls>>

Metrics == Sends("metrics", "ua", [device EXCEPT !.size = call.asked.size, !.mobile = call.asked.mobile])
Ua == Sends("ua", "touch", [device EXCEPT !.ua = UaSent])
Touch == Sends("touch", "done", [device EXCEPT !.touch = call.asked.touch])

-----------------------------------------------------------------------------
Next ==
    \/ ElementChanges \/ Tick \/ Rebuilt \/ Return \/ Cut
    \/ \E state \in Waited, timeout \in Timeouts : Wait(state, timeout)
    \/ Look \/ Decide \/ Wake
    \/ \E max \in MaxClicks : LoadAll(max)
    \/ Exists \/ Click \/ Again \/ CheckAgain
    \/ \E asked \in {Resolved(r) : r \in Requests} : Emulate(asked)
    \/ Metrics \/ Ua \/ Touch

Spec == Init /\ [][Next]_vars

-----------------------------------------------------------------------------
(* Properties.                                                               *)

\* A wait gives up only when the time it was given is over, and after a look
\* that the time did not cut short: the look is never skipped at the deadline.
WaitGivesItsTime ==
    call.result = "timeout" => clock >= call.timeout /\ ~Matches(call.seen, call.state)

\* loadall tells what it did: the clicks it counts were made, it says gone of
\* an element that was, and present only after all the clicks it was allowed.
LoadAllCounts ==
    call.result \in {"gone", "present"} =>
        /\ call.clicks = call.pressed
        /\ call.result = "gone" <=> call.probe = "detached"
        /\ call.result = "present" => call.clicks = call.max

\* After an emulate that reports success the page shows exactly what was asked
\* for, and nothing of what earlier calls, failed ones too, have left.
EmulationIsWhole == wanted # None => device = wanted

\* What these commands report is so.
CommandsTellTheTruth == WaitGivesItsTime /\ LoadAllCounts /\ EmulationIsWhole
=============================================================================
