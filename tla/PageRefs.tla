------------------------------ MODULE PageRefs ------------------------------
(***************************************************************************)
(* The element references of one tab.  A snapshot reads the tree of the page *)
(* and of its out-of-process frames, step by step, and then replaces the     *)
(* table of references at once; events of the browser, which a loop handles  *)
(* meanwhile, take references out again when their document is gone.  Click, *)
(* fill, press and upload use a reference of the table that is not stale:    *)
(* node numbers are drawn anew in every document, so a reference kept too    *)
(* long may hit another element.                                             *)
(*                                                                           *)
(* Commands of an instance hold its lock: at most one snapshot runs.  Left   *)
(* out: frames inside frames (an owner is looked for in the main document),  *)
(* hover marks, rendering, the loss of the connection (PageConnection).      *)
(*                                                                           *)
(* Code: application/page_service.rs, domain/page_control.rs (RefStore).     *)
(***************************************************************************)
EXTENDS Naturals, Sequences, FiniteSets

CONSTANTS
    Frames,    \* frames of the page that get processes of their own
    Early,     \* those that may be there before the connection, without events
    None,      \* no session; no table of references yet
    MaxDocs,   \* bound: documents of the page, and of a frame
    MaxSess,   \* bound: sessions of a frame
    MaxSnaps,  \* bound
    MaxQueue   \* bound: events under way

VARIABLES
    doc,       \* the document of the page
    frame,     \* the frames as they are in the browser
    queue,     \* events the loop has not handled
    table,     \* frames: the frames registered, their session, their owner
    orphan,    \* orphan_frame_sessions
    store,     \* the table of references
    snap,      \* the snapshot under way
    snaps,
    overtaken  \* an event that takes references out was handled while the last
               \* snapshot was under way (history)

browserVars == <<doc, frame>>
snapVars == <<snap, snaps>>
vars == <<doc, frame, queue, table, orphan, store, snap, snaps, overtaken>>

Sess == 1..MaxSess
\* A reference remembers where it was read: the page (None) or a frame.
Refs == [in : Frames \cup {None}, doc : 1..MaxDocs, stale : BOOLEAN]
Pcs == {"idle", "read", "targets", "owner", "attach", "register", "collect", "frames", "replace"}

TypeOK ==
    /\ doc \in 1..MaxDocs
    /\ frame \in [Frames -> [life : {"new", "there", "out", "dead"}, doc : 1..MaxDocs,
                             live : SUBSET Sess, drawn : 0..MaxSess]]
    /\ Len(queue) <= MaxQueue + 3
    /\ table \in [Frames -> [known : BOOLEAN, sess : Sess \cup {None}, owner : BOOLEAN]]
    /\ orphan \in [Frames -> Sess \cup {None}]
    /\ store = None \/ (store.refs \subseteq Refs /\ store.stale \in BOOLEAN)
    /\ snap.pc \in Pcs /\ snap.todo \subseteq Frames /\ snap.refs \subseteq Refs
    /\ snap.at \in Frames \cup {None} /\ snap.sess \in Sess \cup {None}
    /\ snaps \in 0..MaxSnaps
    /\ overtaken \in BOOLEAN

Unknown == [known |-> FALSE, sess |-> None, owner |-> FALSE]
Idle == [pc |-> "idle", todo |-> {}, orphans |-> [f \in Frames |-> None],
         with |-> [f \in Frames |-> None], at |-> None, sess |-> None,
         refs |-> {}, overtaken |-> FALSE]
NoFrame == [life |-> "new", doc |-> 1, live |-> {}, drawn |-> 0]

Init ==
    /\ doc = 1
    /\ \E there \in SUBSET Early :
          frame = [f \in Frames |->
                      [NoFrame EXCEPT !.life = IF f \in there THEN "there" ELSE "new"]]
    /\ queue = <<>>
    /\ table = [f \in Frames |-> Unknown]
    /\ orphan = [f \in Frames |-> None]
    /\ store = None
    /\ snap = Idle
    /\ snaps = 0
    /\ overtaken = FALSE

-----------------------------------------------------------------------------
(* The browser: what the page does, and the events it sends.                 *)

Event(kind, f, s) == [kind |-> kind, frame |-> f, sess |-> s]
There == {f \in Frames : frame[f].life = "there"}

\* A sequence of events, one for every member of a set, in some order.
InSomeOrder(S, events) ==
    events \in [1..Cardinality(S) -> S] /\ \A i, j \in DOMAIN events : i # j => events[i] # events[j]

\* The page gets another document: its frames die with the old one, and the
\* browser may or may not tell of each.
NewDocument ==
    /\ doc < MaxDocs /\ Len(queue) < MaxQueue
    /\ doc' = doc + 1
    /\ frame' = [f \in Frames |->
                    IF frame[f].life = "new" THEN frame[f]
                    ELSE [frame[f] EXCEPT !.life = "dead", !.live = {}]]
    /\ \E told \in SUBSET There, how \in {"navigated", "opened", "updated"} :
          \E events \in [1..Cardinality(told) -> {Event("detached", f, None) : f \in told}] :
             /\ InSomeOrder({Event("detached", f, None) : f \in told}, events)
             /\ \/ queue' = queue \o events \o <<Event(how, None, None)>>
                \/ queue' = queue \o <<Event(how, None, None)>> \o events
    /\ UNCHANGED <<table, orphan, store, snap, snaps, overtaken>>

\* A frame moves into a process of its own.  The attachment to the tree, the
\* session made for it, and the swap out of the old process (which is told as
\* a detachment) come in this order or another.
FrameComes(f) ==
    /\ frame[f].life \in {"new", "out"} /\ frame[f].drawn < MaxSess /\ Len(queue) < MaxQueue
    /\ frame' = [frame EXCEPT ![f].life = "there", ![f].live = {frame[f].drawn + 1}, ![f].drawn = @ + 1]
    /\ LET in == Event("attached", f, None)
           session == Event("session", f, frame[f].drawn + 1)
           swap == Event("detached", f, None)
       IN \E events \in {<<in, session>>, <<session, in>>, <<in, session, swap>>,
                            <<in, swap, session>>, <<swap, session>>, <<session, swap>>} :
             queue' = queue \o events
    /\ UNCHANGED <<doc, table, orphan, store, snap, snaps, overtaken>>

FrameNavigates(f) ==
    /\ frame[f].life = "there" /\ frame[f].doc < MaxDocs /\ Len(queue) < MaxQueue
    /\ frame' = [frame EXCEPT ![f].doc = @ + 1]
    /\ \E events \in [1..Cardinality(frame[f].live) -> {Event("updated", f, s) : s \in frame[f].live}] :
          /\ InSomeOrder({Event("updated", f, s) : s \in frame[f].live}, events)
          /\ queue' = queue \o events
    /\ UNCHANGED <<doc, table, orphan, store, snap, snaps, overtaken>>

\* The frame is removed, or goes back into the process of the page: every
\* session of it ends, and the tree may tell of it, before or after.
FrameGoes(f) ==
    /\ frame[f].life = "there" /\ Len(queue) < MaxQueue
    /\ frame' = [frame EXCEPT ![f].life = "out", ![f].live = {}]
    /\ LET left == Event("detached", f, None)
           ends == [i \in 1..Cardinality(frame[f].live) |-> Event("ended", f, None)]
       IN \E events \in {<<left>> \o ends, ends \o <<left>>} \cup (IF ends = <<>> THEN {} ELSE {ends}) :
             queue' = queue \o events
    /\ UNCHANGED <<doc, table, orphan, store, snap, snaps, overtaken>>

-----------------------------------------------------------------------------
(* handle_event.                                                             *)

\* invalidate: an empty table stays as it is.
Invalidated ==
    IF store = None \/ store.refs = {} THEN store ELSE [refs |-> {}, stale |-> TRUE]

\* seeded fault: a frame takes nothing with it.
InvalidatedFrame_None(f) == store
\* invalidate_frame: the references stay, marked.
InvalidatedFrame(f) ==
    IF store = None THEN store
    ELSE [store EXCEPT !.refs = {IF r.in = f THEN [r EXCEPT !.stale = TRUE] ELSE r : r \in store.refs}]

\* frame_of_session.
OfSession(f, s) == table[f].known /\ table[f].sess = s

TakesOut(e) == e.kind \in {"navigated", "opened", "updated", "detached", "ended"}

Handle ==
    /\ queue # <<>>
    /\ queue' = Tail(queue)
    /\ LET e == Head(queue)
           f == e.frame IN
       /\ snap' = IF snap.pc # "idle" /\ TakesOut(e) THEN [snap EXCEPT !.overtaken = TRUE] ELSE snap
       /\ CASE e.kind = "navigated" ->
                 /\ store' = Invalidated
                 /\ table' = [x \in Frames |-> Unknown]
                 /\ UNCHANGED orphan
            [] e.kind \in {"opened", "updated"} /\ f = None ->
                 store' = Invalidated /\ UNCHANGED <<table, orphan>>
            [] e.kind = "updated" /\ f # None ->
                 /\ store' = IF OfSession(f, e.sess) THEN InvalidatedFrame(f) ELSE store
                 /\ UNCHANGED <<table, orphan>>
            [] e.kind = "attached" ->
                 /\ table' = [table EXCEPT ![f].known = TRUE,
                                           ![f].sess = IF orphan[f] # None THEN orphan[f] ELSE @]
                 /\ orphan' = [orphan EXCEPT ![f] = None]
                 /\ UNCHANGED store
            [] e.kind = "session" ->
                 /\ IF table[f].known
                    THEN table' = [table EXCEPT ![f].sess = e.sess] /\ UNCHANGED orphan
                    ELSE orphan' = [orphan EXCEPT ![f] = e.sess] /\ UNCHANGED table
                 /\ UNCHANGED store
            [] e.kind = "detached" ->
                 /\ table' = [table EXCEPT ![f] = Unknown]
                 /\ store' = InvalidatedFrame(f)
                 /\ UNCHANGED orphan
            [] e.kind = "ended" ->  \* drop_target
                 /\ table' = [table EXCEPT ![f] = Unknown]
                 /\ orphan' = [orphan EXCEPT ![f] = None]
                 /\ store' = IF table[f].known THEN InvalidatedFrame(f) ELSE store
    /\ UNCHANGED <<doc, frame, snaps, overtaken>>

-----------------------------------------------------------------------------
(* snap_tool: one step per command sent.                                     *)

SnapTo(pc) == snap' = [snap EXCEPT !.pc = pc]
OnlySnap == UNCHANGED <<doc, frame, queue, orphan, snaps, overtaken>>

Snap ==
    /\ snap.pc = "idle" /\ snaps < MaxSnaps
    /\ snaps' = snaps + 1
    /\ SnapTo("read")
    /\ UNCHANGED <<doc, frame, queue, table, orphan, store, overtaken>>

\* The tree of the page; when the command fails the call ends, nothing changed.
ReadPage ==
    /\ snap.pc = "read"
    /\ \/ snap' = [snap EXCEPT !.pc = "targets", !.refs = {[in |-> None, doc |-> doc, stale |-> FALSE]}]
       \/ snap' = Idle
    /\ OnlySnap /\ UNCHANGED <<table, store>>

\* sync_frame_tree: the frames the browser has, the orphans as of now.
AskTargets ==
    /\ snap.pc = "targets"
    /\ snap' = [snap EXCEPT !.pc = IF There = {} THEN "collect" ELSE "owner",
                            !.todo = There, !.orphans = orphan]
    /\ OnlySnap /\ UNCHANGED <<table, store>>

Settled(f) == table[f].sess # None /\ table[f].owner

\* A frame that has everything is passed over; one whose owner no document
\* names, or not the tree that was read, is left for another time.
AskOwner(f) ==
    /\ snap.pc = "owner" /\ f \in snap.todo
    /\ \/ snap' = [snap EXCEPT !.todo = @ \ {f}]
       \/ /\ ~Settled(f) /\ frame[f].life = "there"
          /\ snap' = [snap EXCEPT !.pc = IF table[f].sess = None /\ snap.orphans[f] = None
                                         THEN "attach" ELSE "register",
                                  !.todo = @ \ {f}, !.at = f,
                                  !.sess = IF table[f].sess = None THEN snap.orphans[f] ELSE None]
    /\ OnlySnap /\ UNCHANGED <<table, store>>

AllAsked ==
    /\ snap.pc = "owner" /\ snap.todo = {}
    /\ SnapTo("collect")
    /\ OnlySnap /\ UNCHANGED <<table, store>>

\* attachToTarget makes one more session, or fails.
Attach(f) ==
    /\ snap.pc = "attach" /\ snap.at = f
    /\ \/ /\ frame[f].life = "there" /\ frame[f].drawn < MaxSess
          /\ frame' = [frame EXCEPT ![f].live = @ \cup {frame[f].drawn + 1}, ![f].drawn = @ + 1]
          /\ snap' = [snap EXCEPT !.pc = "register", !.sess = frame[f].drawn + 1]
       \/ frame[f].life # "there" /\ SnapTo("register") /\ UNCHANGED frame
    /\ UNCHANGED <<doc, queue, table, orphan, store, snaps, overtaken>>

Register(f) ==
    /\ snap.pc = "register" /\ snap.at = f
    /\ table' = [table EXCEPT ![f].known = TRUE, ![f].owner = TRUE,
                              ![f].sess = IF snap.sess # None THEN snap.sess ELSE @]
    /\ snap' = [snap EXCEPT !.pc = "owner", !.at = None, !.sess = None]
    /\ OnlySnap /\ UNCHANGED store

\* collect_frame_subtrees: the registered frames with a session, taken at once.
Collect ==
    /\ snap.pc = "collect"
    /\ snap' = [snap EXCEPT !.pc = "frames", !.todo = {f \in Frames : table[f].sess # None},
                            !.with = [f \in Frames |-> table[f].sess]]
    /\ OnlySnap /\ UNCHANGED <<table, store>>

\* A session that is gone reads nothing; a frame whose owner is not found is
\* passed over, one that is found is remembered with it.
ReadFrame(f) ==
    /\ snap.pc = "frames" /\ f \in snap.todo
    /\ \E found \in (IF table[f].owner THEN {TRUE} ELSE BOOLEAN) :
          /\ snap' = [snap EXCEPT !.todo = @ \ {f},
                                  !.refs = IF found /\ snap.with[f] \in frame[f].live
                                           THEN @ \cup {[in |-> f, doc |-> frame[f].doc, stale |-> FALSE]}
                                           ELSE @]
          /\ table' = [table EXCEPT ![f].owner = found /\ table[f].known]
    /\ OnlySnap /\ UNCHANGED store

ReadAll ==
    /\ snap.pc = "frames" /\ snap.todo = {}
    /\ SnapTo("replace")
    /\ OnlySnap /\ UNCHANGED <<table, store>>

Replaced == [refs |-> snap.refs, stale |-> FALSE]

Replace ==
    /\ snap.pc = "replace"
    /\ store' = Replaced
    /\ overtaken' = snap.overtaken
    /\ snap' = Idle
    /\ UNCHANGED <<doc, frame, queue, table, orphan, snaps>>

-----------------------------------------------------------------------------
Next ==
    \/ NewDocument
    \/ \E f \in Frames : FrameComes(f) \/ FrameNavigates(f) \/ FrameGoes(f)
    \/ Handle
    \/ Snap \/ ReadPage \/ AskTargets \/ AllAsked \/ Collect \/ ReadAll \/ Replace
    \/ \E f \in Frames : AskOwner(f) \/ Attach(f) \/ Register(f) \/ ReadFrame(f)

Spec == Init /\ [][Next]_vars

-----------------------------------------------------------------------------
(* Properties.                                                               *)

Current(r) == IF r.in = None THEN r.doc = doc
              ELSE frame[r.in].life = "there" /\ r.doc = frame[r.in].doc

\* An event under way will take the reference out.
Announced(r) ==
    \E i \in DOMAIN queue : LET e == queue[i] IN
       \/ e.frame = None
       \/ e.frame = r.in /\ e.kind \in {"detached", "updated", "ended"}

\* A reference that may be used is of the document that is there, or an event
\* under way takes it out: whatever the page and its frames did, and whichever
\* sessions of a frame are registered.  Excepted is a snapshot during which such
\* an event was handled, between its readings and the replacement: it has
\* brought back what the event had taken out (page_control.rs, RefStore).
RefsDescribeThePage ==
    store # None /\ ~overtaken => \A r \in store.refs : r.stale \/ Current(r) \/ Announced(r)
=============================================================================
