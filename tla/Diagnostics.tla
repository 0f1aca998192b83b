----------------------------- MODULE Diagnostics -----------------------------
(***************************************************************************)
(* Resident diagnostics of one instance.  Every start of the instance spawns *)
(* a watcher with a buffer of its own and enters it in a registry; the old   *)
(* watcher leaves at its next look.  A watcher keeps a connection to the     *)
(* browser and applies its events to the buffer: a table of requests under   *)
(* way, a ring of completed ones, the bodies they carry and a ledger of      *)
(* their bytes.  Bodies are fetched by tasks of their own, a few at a time,  *)
(* that come back to the buffer when they are done.                          *)
(*                                                                           *)
(* A request and a session occur once: the browser does not reuse their ids  *)
(* on a connection, but two sessions may use the same request id.            *)
(* Left out: the console ring (a ring like the other without bodies), what a *)
(* body says.                                                                *)
(*                                                                           *)
(* Code: application/diagnostics_service.rs, domain/diagnostics.rs.          *)
(***************************************************************************)
EXTENDS Naturals, Sequences, FiniteSets, SequencesExt

CONSTANTS
    Watchers,   \* generations, in the order of their start: 1..n
    Sessions,
    Requests,   \* requests, each [sid, rid]
    None,
    PendingCap, RingCap, ItemMax, Budget, Permits, BacklogCap,
    MaxBody,    \* bound: size of a body
    MaxChanges  \* bound: starts and stops of the instance

VARIABLES
    row,        \* the row of the instance says it is alive
    watched,    \* a watcher was spawned since it is (history)
    registry,   \* the watcher queries are sent to
    watcher,    \* per watcher its place, its generation flag and its connection
    buf,        \* per watcher its buffer
    session,    \* per session whose connection it is on
    wire,       \* how far the browser has come with a request
    fetch,      \* the tasks that fetch bodies
    changes     \* starts and stops so far

vars == <<row, watched, registry, watcher, buf, session, wire, fetch, changes>>

Pcs == {"unborn", "look", "pump", "again", "leave", "gone"}
\* "no-body": no answer in time, no data, not a text, or refused by the redaction.
Reasons == {"mime", "no-body", "not-finished"}
Entry == [req : Requests, text : BOOLEAN,
          state : {"available", "partial", "evicted"} \cup Reasons, size : 0..ItemMax]

TypeOK ==
    /\ {row, watched} \subseteq BOOLEAN
    /\ registry \in Watchers \cup {None}
    /\ watcher \in [Watchers -> [pc : Pcs, current : BOOLEAN, conn : {"none", "up", "dead"}]]
    /\ \A w \in Watchers :
          /\ buf[w].sessions \subseteq Sessions
          /\ buf[w].pending \subseteq Requests
          /\ Cardinality(buf[w].pending) <= PendingCap
          /\ Range(buf[w].net) \subseteq Entry /\ Len(buf[w].net) <= RingCap
          /\ {buf[w].bytes, buf[w].dropped, buf[w].settled} \subseteq Nat
    /\ session \in [Sessions -> [w : Watchers \cup {None}, life : {"new", "attached", "gone"}]]
    /\ wire \in [Requests -> {"none", "sent", "done"}]
    /\ fetch \in [Requests -> [pc : {"none", "queued", "fetch", "done"}, linked : BOOLEAN]]
    /\ changes \in Nat

Empty == [sessions |-> {}, pending |-> {}, net |-> <<>>, bytes |-> 0, dropped |-> 0, settled |-> 0]

Init ==
    /\ row = FALSE
    /\ watched = FALSE
    /\ registry = None
    /\ watcher = [w \in Watchers |-> [pc |-> "unborn", current |-> TRUE, conn |-> "none"]]
    /\ buf = [w \in Watchers |-> Empty]
    /\ session = [s \in Sessions |-> [w |-> None, life |-> "new"]]
    /\ wire = [q \in Requests |-> "none"]
    /\ fetch = [q \in Requests |-> [pc |-> "none", linked |-> FALSE]]
    /\ changes = 0

\* The watcher whose connection carries the events of a request.
Of(q) == session[q.sid].w

-----------------------------------------------------------------------------
(* The buffer.                                                               *)

\* seeded fault: an entry leaves the ring and its bytes stay in the ledger.
Leaving_Unbooked(b) == 0
\* What the entry that leaves the ring carries.
Leaving(b) == b.net[1].size

\* settle: the entry goes to the end of the ring.
Settle(b, e) ==
    LET full == Len(b.net) >= RingCap IN
    [b EXCEPT !.net = Append(IF full THEN Tail(@) ELSE @, e),
              !.bytes = IF full THEN @ - Leaving(b) ELSE @,
              !.dropped = IF full THEN @ + 1 ELSE @,
              !.settled = @ + 1]

\* Where a body with this request id goes: the newest entry that waits for one,
\* whatever its session; 0 if there is none.
Target(b, rid) ==
    LET waiting == {i \in DOMAIN b.net : b.net[i].req.rid = rid /\ b.net[i].state = "not-finished"}
    IN IF waiting = {} THEN 0 ELSE Max(waiting)

\* The bytes the entries carry: the pairs of an entry and one of its bytes.
Kept(net) == Cardinality({p \in (DOMAIN net) \X (1..ItemMax) : p[2] <= net[p[1]].size})

\* enforce_body_budget: bodies go, the oldest first, until the budget holds.
Evict(b) ==
    LET Fits(k) == Kept(SubSeq(b.net, k + 1, Len(b.net))) <= Budget
        k == CHOOSE k \in 0..Len(b.net) : Fits(k) /\ \A j \in 0..(k - 1) : ~Fits(j)
        net == [i \in DOMAIN b.net |-> IF i <= k /\ b.net[i].size > 0
                                       THEN [b.net[i] EXCEPT !.size = 0, !.state = "evicted"]
                                       ELSE b.net[i]]
    IN [b EXCEPT !.net = net, !.bytes = @ - (Kept(b.net) - Kept(net))]

\* What settle_body makes of an answer, 0 for none: a body, cut to its limit.
Settled(answer) ==
    IF answer = 0 THEN [state |-> "no-body", size |-> 0]
    ELSE IF answer > ItemMax THEN [state |-> "partial", size |-> ItemMax]
    ELSE [state |-> "available", size |-> answer]

StoreBody(b, rid, answer) ==
    LET i == Target(b, rid)
        s == Settled(answer)
    IN IF i = 0 THEN b
       ELSE Evict([b EXCEPT !.net[i].state = s.state, !.net[i].size = s.size, !.bytes = @ + s.size])

-----------------------------------------------------------------------------
(* Events, applied in the order the connection delivers them.                *)

Goto(w, pc) == watcher' = [watcher EXCEPT ![w].pc = pc]

\* The pump holds an event and is of the newest generation.
Pumps(w) == w \in Watchers /\ watcher[w].pc = "pump" /\ watcher[w].current

\* attachedToTarget: the session is entered; it is enabled before the next event.
Attached(w, s) ==
    /\ Pumps(w)
    /\ session[s].life = "new"
    /\ session' = [session EXCEPT ![s] = [w |-> w, life |-> "attached"]]
    /\ buf' = [buf EXCEPT ![w].sessions = @ \cup {s}]
    /\ UNCHANGED <<row, watched, registry, watcher, wire, fetch, changes>>

\* detachedFromTarget: its requests under way go too.
Detached(w, s) ==
    /\ Pumps(w)
    /\ session[s] = [w |-> w, life |-> "attached"]
    /\ session' = [session EXCEPT ![s].life = "gone"]
    /\ buf' = [buf EXCEPT ![w].sessions = @ \ {s},
                          ![w].pending = {q \in @ : q.sid # s}]
    /\ UNCHANGED <<row, watched, registry, watcher, wire, fetch, changes>>

\* requestWillBeSent: not with a full table.
Taken(b, q) ==
    IF q.sid \in b.sessions /\ Cardinality(b.pending) < PendingCap THEN b.pending \cup {q}
    ELSE b.pending

WillBeSent(q) ==
    LET w == Of(q) IN
    /\ Pumps(w)
    /\ session[q.sid].life = "attached"
    /\ wire[q] \in {"none", "sent"}
    /\ wire' = [wire EXCEPT ![q] = "sent"]
    /\ buf' = [buf EXCEPT ![w].pending = Taken(buf[w], q)]
    /\ UNCHANGED <<row, watched, registry, watcher, session, fetch, changes>>

Ends(b, q, text, state) ==
    Settle([b EXCEPT !.pending = @ \ {q}], [req |-> q, text |-> text, state |-> state, size |-> 0])

Backlog(w) == {q \in Requests : fetch[q].pc = "queued" /\ Of(q) = w}

\* seeded fault: a fetch over the limit is dropped, and its entry waits on.
Overflowed_Silent(b, q) == b
\* dispatch_body_fetch over its limit: no data.
Overflowed(b, q) == StoreBody(b, q.rid, 0)

\* loadingFinished, with what responseReceived has said of the kind of the
\* answer: a text gets a task that fetches it.
Finished(q, text) ==
    LET w == Of(q)
        known == q \in buf[w].pending
        b == Ends(buf[w], q, text, IF text THEN "not-finished" ELSE "mime")
        over == Cardinality(Backlog(w)) >= BacklogCap
    IN
    /\ Pumps(w)
    /\ wire[q] = "sent"
    /\ wire' = [wire EXCEPT ![q] = "done"]
    /\ buf' = [buf EXCEPT ![w] = IF ~known THEN @ ELSE IF text /\ over THEN Overflowed(b, q) ELSE b]
    /\ fetch' = IF known /\ text /\ ~over
                THEN [fetch EXCEPT ![q] = [pc |-> "queued", linked |-> watcher[w].conn # "none"]]
                ELSE fetch
    /\ UNCHANGED <<row, watched, registry, watcher, session, changes>>

\* loadingFailed: the entry says not-finished, and keeps it.
LoadingFailed(q) ==
    LET w == Of(q) IN
    /\ Pumps(w)
    /\ wire[q] = "sent"
    /\ wire' = [wire EXCEPT ![q] = "done"]
    /\ buf' = [buf EXCEPT ![w] = IF q \in @.pending THEN Ends(@, q, FALSE, "not-finished") ELSE @]
    /\ UNCHANGED <<row, watched, registry, watcher, session, fetch, changes>>

-----------------------------------------------------------------------------
(* The tasks that fetch a body.                                              *)

\* A permit is free; the entry may have gone or been settled meanwhile.
Acquire(q) ==
    /\ fetch[q].pc = "queued"
    /\ Cardinality({p \in Requests : fetch[p].pc = "fetch" /\ Of(p) = Of(q)}) < Permits
    /\ fetch' = [fetch EXCEPT ![q].pc = IF Target(buf[Of(q)], q.rid) = 0 THEN "done" ELSE "fetch"]
    /\ UNCHANGED <<row, watched, registry, watcher, buf, session, wire, changes>>

\* The answer, 2.5 s without one, a refusal; no connection, no data.
Fetched(q) ==
    /\ fetch[q].pc = "fetch"
    /\ \E answer \in (IF fetch[q].linked THEN 0..MaxBody ELSE {0}) :
          buf' = [buf EXCEPT ![Of(q)] = StoreBody(@, q.rid, answer)]
    /\ fetch' = [fetch EXCEPT ![q].pc = "done"]
    /\ UNCHANGED <<row, watched, registry, watcher, session, wire, changes>>

-----------------------------------------------------------------------------
(* The watchers.                                                             *)

\* spawn: by the start of the instance, whatever its row says by now, and by the
\* start of the application for a row that is alive.
Spawn(w) ==
    /\ watcher[w].pc = "unborn"
    /\ \A v \in Watchers : v < w => watcher[v].pc # "unborn"
    /\ watcher' = [v \in Watchers |->
                     IF v = w THEN [pc |-> "look", current |-> TRUE, conn |-> "none"]
                     ELSE IF v = registry THEN [watcher[v] EXCEPT !.current = FALSE]
                     ELSE watcher[v]]
    /\ registry' = w
    /\ watched' = row
    /\ UNCHANGED <<row, buf, session, wire, fetch, changes>>

Stays(w) == watcher[w].current /\ row

\* start_session: the connection is made, and setAutoAttach answered; when only
\* the second fails, the connection stays entered.
Look(w) ==
    /\ watcher[w].pc = "look"
    /\ \/ ~Stays(w) /\ Goto(w, "leave")
       \/ Stays(w) /\ watcher' \in {[watcher EXCEPT ![w].pc = "pump", ![w].conn = "up"],
                                    [watcher EXCEPT ![w].pc = "again", ![w].conn = "up"],
                                    [watcher EXCEPT ![w].pc = "again"]}
    /\ UNCHANGED <<row, watched, registry, buf, session, wire, fetch, changes>>

\* The browser exits, or the socket breaks.
ConnectionDies(w) ==
    /\ watcher[w].conn = "up"
    /\ watcher' = [watcher EXCEPT ![w].conn = "dead"]
    /\ UNCHANGED <<row, watched, registry, buf, session, wire, fetch, changes>>

\* The channel has ended, or an event finds an old generation.  The buffer
\* keeps the sessions and the requests of the connection.
Lost(w) ==
    /\ watcher[w].pc = "pump"
    /\ watcher[w].conn = "dead" \/ ~watcher[w].current
    /\ watcher' = [watcher EXCEPT ![w].pc = "again", ![w].conn = "none"]
    /\ session' = [s \in Sessions |-> IF session[s].w = w THEN [session[s] EXCEPT !.life = "gone"]
                                      ELSE session[s]]
    /\ UNCHANGED <<row, watched, registry, buf, wire, fetch, changes>>

\* A second look, and the backoff.
Again(w) ==
    /\ watcher[w].pc = "again"
    /\ Goto(w, IF Stays(w) THEN "look" ELSE "leave")
    /\ UNCHANGED <<row, watched, registry, buf, session, wire, fetch, changes>>

\* seeded fault: whoever is registered under the instance is removed.
Mine_Any(w) == TRUE
\* The entry is the own one, not that of a newer generation.
Mine(w) == registry = w

Leave(w) ==
    /\ watcher[w].pc = "leave"
    /\ registry' = IF Mine(w) THEN None ELSE registry
    /\ Goto(w, "gone")
    /\ UNCHANGED <<row, watched, buf, session, wire, fetch, changes>>

\* The instance starts, stops or crashes.
RowChanges ==
    /\ changes < MaxChanges
    /\ changes' = changes + 1
    /\ row' = ~row
    /\ watched' = FALSE
    /\ UNCHANGED <<registry, watcher, buf, session, wire, fetch>>

-----------------------------------------------------------------------------
Next ==
    \/ \E w \in Watchers : \/ Spawn(w) \/ Look(w) \/ ConnectionDies(w) \/ Lost(w) \/ Again(w)
                           \/ Leave(w)
    \/ \E w \in Watchers, s \in Sessions : Attached(w, s) \/ Detached(w, s)
    \/ \E q \in Requests : \/ WillBeSent(q) \/ LoadingFailed(q) \/ Acquire(q) \/ Fetched(q)
                           \/ \E text \in BOOLEAN : Finished(q, text)
    \/ RowChanges

Spec == Init /\ [][Next]_vars

-----------------------------------------------------------------------------
(* Properties.                                                               *)

\* The ledger is what the ring carries, within the budget, and the meta of the
\* answers owns up to every entry that was lost (diagnostics.rs, the header:
\* never a silent truncation), whatever fetches come back late.
BooksBalance ==
    \A w \in Watchers :
        /\ buf[w].bytes = Kept(buf[w].net)
        /\ buf[w].bytes <= Budget
        /\ buf[w].dropped + Len(buf[w].net) = buf[w].settled

\* The newest watcher of a running instance is the registered one, whatever the
\* old ones do on their way out (watch_loop: no removal of a newer generation).
NewestIsRegistered == row /\ watched => registry = Max({w \in Watchers : watcher[w].pc # "unborn"})

Ring(q) == IF Of(q) = None THEN <<>> ELSE buf[Of(q)].net
Waits(q) == \E e \in Range(Ring(q)) : e.req = q /\ e.text /\ e.state = "not-finished"
Twin(q) == \E e \in Range(Ring(q)) : e.req # q /\ e.req.rid = q.rid

\* The entry of a finished text that still waits for its body has a task under
\* way that will settle it, through a burst over the backlog, a lost connection
\* and a new generation (dispatch_body_fetch: no entry is left hanging), unless
\* another session has used the same request id.
NobodyHangs == \A q \in Requests : Waits(q) /\ ~Twin(q) => fetch[q].pc \in {"queued", "fetch"}
=============================================================================
