-------------------------------- MODULE PageAim --------------------------------
(***************************************************************************)
(* Where the tools of a tab aim: click, press, upload, extract and the        *)
(* screenshot of an element find the node of a reference or of a selector,    *)
(* in the document of the page or in that of a frame, and act on it.          *)
(*                                                                            *)
(* The page holds the frame "outer", which holds the frame "inner".  The      *)
(* inner one lives in a process of its own and is reached by a session of its *)
(* own; so does the outer one, or it lives with the page.  The table may know *)
(* a frame and not its session.  A command names a node by a number that      *)
(* means something only in the process of the session it is sent to.  A mouse *)
(* event goes to the page, so a click projects a point of a frame through the *)
(* boxes of the frames, one command per step; frames go and come back, and    *)
(* boxes move, in between.                                                    *)
(*                                                                            *)
(* Places are numbers on one axis.  Left out: the limit of 8 projections, the *)
(* press and release of a click or a key (PageInput), how references are made *)
(* (PageRefs), waiting.                                                       *)
(*                                                                            *)
(* Code: application/page_service.rs, domain/page_control.rs.                 *)
(***************************************************************************)
EXTENDS Integers

CONSTANTS
    None,
    MaxChanges  \* bound: frames that go or come, boxes that move

VARIABLES
    there,    \* the frames the page has, each with its session, or Local
    box,      \* where each frame is in the document that holds it
    table,    \* watched.frames
    aim,      \* the call under way
    changes

vars == <<there, box, table, aim, changes>>

Main == "main"
Frames == {"outer", "inner"}
Documents == Frames \cup {Main}
Holder(f) == IF f = "inner" THEN "outer" ELSE Main
Width == 1
Boxes == 1..2

Pcs == {"idle", "entry", "select", "point", "owner", "quad", "check", "act"}
Tools == {"click", "shot", "node"}  \* node: press, upload, extract
Sessions == 1..(MaxChanges + 1)
Local == 0  \* lives with the page, without a session of its own

TypeOK ==
    /\ there \in [Frames -> {None, Local} \cup Sessions]
    /\ box \in [Frames -> Boxes]
    /\ table \in [Frames -> [known : BOOLEAN, sess : {None} \cup Sessions,
                            held : BOOLEAN]]  \* its holder is noted
    /\ aim \in [pc : Pcs, tool : Tools, ref : BOOLEAN, doc : Documents,
                old : {None} \cup Sessions,     \* the session the reference remembers
                frame : {None} \cup Frames,     \* whose session commands go to; None is the page
                sess : {None} \cup Sessions,
                at : 0..4, up : {None} \cup Frames,
                hit : {None} \cup Documents,    \* the document it acted on
                calm : BOOLEAN, ok : BOOLEAN]
    /\ changes \in 0..MaxChanges

Idle == [pc |-> "idle", tool |-> "click", ref |-> FALSE, doc |-> Main, old |-> None, frame |-> None,
         sess |-> None, at |-> 0, up |-> None, hit |-> None, calm |-> TRUE, ok |-> FALSE]

\* A frame of the page's process is told of with its holder (frameAttached); one of a
\* process of its own is found by its owner, and the holder is the frame whose session
\* knew the owner, or nobody when it was the page's (sync_frame_tree).
Held(f) == IF f = "inner" /\ there["outer"] = Local THEN BOOLEAN ELSE {TRUE}
OwnSession(f) == IF there[f] = Local THEN None ELSE there[f]

\* Both frames are there and known, each with the session it has.
Init ==
    /\ there \in {[outer |-> s, inner |-> 1] : s \in {1, Local}}
    /\ box = [f \in Frames |-> 1]
    /\ \E h \in Held("inner") :
          table = [outer |-> [known |-> TRUE, sess |-> OwnSession("outer"), held |-> TRUE],
                   inner |-> [known |-> TRUE, sess |-> 1, held |-> h]]
    /\ aim = Idle
    /\ changes = 0

-----------------------------------------------------------------------------
(* The page.                                                                 *)

Disturbed == aim' = IF aim.pc = "idle" THEN Idle ELSE [aim EXCEPT !.calm = FALSE]

\* A frame goes, with those it holds; it comes back under another session, the
\* outer one perhaps with the page.
FrameGoes(f) ==
    /\ changes < MaxChanges /\ there[f] # None
    /\ changes' = changes + 1
    /\ there' = [g \in Frames |-> IF g = f \/ f = "outer" THEN None ELSE there[g]]
    /\ Disturbed
    /\ UNCHANGED <<box, table>>

FrameReturns(f) ==
    /\ there[f] = None
    /\ Holder(f) = Main \/ there["outer"] # None
    /\ \E s \in IF f = "outer" THEN {changes + 1, Local} ELSE {changes + 1} :
          there' = [there EXCEPT ![f] = s]
    /\ Disturbed
    /\ UNCHANGED <<box, table, changes>>

BoxMoves(f) ==
    /\ changes < MaxChanges
    /\ changes' = changes + 1
    /\ \E b \in Boxes \ {box[f]} : box' = [box EXCEPT ![f] = b]
    /\ Disturbed
    /\ UNCHANGED <<there, table>>

\* The table is brought up to date.  A frame that is there is told of, or found in a
\* document that is known (sync_frame_tree), with its session or before it has one; the
\* session is entered when it is attached.  A frame that goes is taken out on its own.
Entries(f) ==
    IF table[f].known /\ table[f].sess = OwnSession(f) THEN {table[f]}
    ELSE [known : {TRUE}, sess : {None, OwnSession(f)}, held : Held(f)]

Noticed(f) ==
    /\ IF there[f] = None THEN table' = [table EXCEPT ![f] = [@ EXCEPT !.known = FALSE, !.sess = None]]
       ELSE /\ f = "inner" /\ there["outer"] # Local =>
                  table["outer"].known /\ table["outer"].sess = there["outer"]
            /\ \E e \in Entries(f) : table' = [table EXCEPT ![f] = e]
    /\ table' # table
    /\ Disturbed
    /\ UNCHANGED <<there, box, changes>>

-----------------------------------------------------------------------------
(* The tools.                                                                *)

Goto(pc) == aim' = [aim EXCEPT !.pc = pc]
Fail == aim' = Idle
OnlyAim == UNCHANGED <<there, box, table, changes>>

\* The document a session reaches: that of the page, or of a frame whose
\* session it is.
Reaches(f, sess) == IF f = None THEN TRUE ELSE there[f] = sess

\* What a reference remembers is the session of its snapshot: the first of the
\* frame, the one of the table, or none.
Begin(tool, ref, doc) ==
    /\ aim.pc = "idle"
    /\ ref \/ doc = Main
    /\ \E old \in (IF doc = Main THEN {None} ELSE {None, 1, table[doc].sess}) :
          aim' = [Idle EXCEPT !.pc = IF ref THEN "entry" ELSE "select", !.tool = tool, !.ref = ref,
                              !.doc = doc, !.old = old]
    /\ OnlyAim

\* live_frame_session: the one of the table, else the one remembered.
LiveSession(f) ==
    IF table[f].known /\ table[f].sess # None THEN table[f].sess ELSE aim.old

\* The frame whose session the tool uses; the screenshot knows only the page.
SessionFor == IF aim.tool = "shot" \/ aim.doc = Main THEN None ELSE aim.doc

Entry ==
    /\ aim.pc = "entry"
    /\ \/ Fail  \* resolve_ref_entry: there is none, or it is stale
       \/ SessionFor = None /\ aim' = [aim EXCEPT !.pc = "point", !.frame = None]
       \/ /\ SessionFor # None
          /\ LET sess == LiveSession(SessionFor) IN
             IF sess = None THEN Fail
             ELSE aim' = [aim EXCEPT !.pc = "point", !.frame = SessionFor, !.sess = sess]
    /\ OnlyAim

\* The document is asked for the selector (locate_expr, DOM.querySelector,
\* press_focus_expr, extract_selector_expr): it is there and seen, or not.
Select ==
    /\ aim.pc = "select"
    /\ Goto("point") \/ Fail
    /\ OnlyAim

\* resolve_ref_point, resolve_clip_rect, describeNode with ensure_file_input,
\* DOM.focus, DOM.resolveNode: the node is asked about in the session found.  A
\* session that is gone answers nothing.  A selector is tested for what covers
\* it (hit_test_expr).
Point ==
    /\ aim.pc = "point"
    /\ \/ /\ Reaches(aim.frame, aim.sess)
          /\ aim' = [aim EXCEPT !.at = 0, !.up = aim.frame,
                                !.pc = IF aim.tool = "click" /\ aim.frame # None THEN "owner" ELSE "act"]
       \/ Fail
    /\ OnlyAim

\* The session of the holder, when the table has one; else the page's.
ParentSession(f) ==
    IF Holder(f) # Main /\ table[f].held /\ table[Holder(f)].known THEN table[Holder(f)].sess
    ELSE None
ParentFrame(f) == IF ParentSession(f) = None THEN None ELSE Holder(f)

\* A session knows the owners of the frames its process holds: the page's those of the
\* outer frame when it lives with the page.
Knows(parent, f) ==
    parent = IF Holder(f) = Main \/ there[Holder(f)] = Local THEN None ELSE Holder(f)

\* frame_chain_step: the element that owns the frame, found in its holder.
Owner ==
    /\ aim.pc = "owner"
    /\ \/ Fail
       \/ /\ table[aim.up].known /\ there[aim.up] # None
          /\ Knows(ParentFrame(aim.up), aim.up)
          /\ aim' = [aim EXCEPT !.pc = "quad", !.frame = ParentFrame(aim.up), !.sess = ParentSession(aim.up)]
    /\ OnlyAim

\* getContentQuads: the corner of the box, in the process of the session.
Corner(f) == IF f = "inner" /\ there["outer"] = Local THEN box["outer"] + box[f] ELSE box[f]

\* project_point: moved by the corner of the box, and kept inside it.
Projected(f, at) == Corner(f) + (IF at > Width THEN Width ELSE at)

Quad ==
    /\ aim.pc = "quad"
    /\ \/ /\ Reaches(aim.frame, aim.sess) /\ there[aim.up] # None
          /\ aim' = [aim EXCEPT !.pc = "check", !.at = Projected(aim.up, aim.at)]
       \/ Fail
    /\ OnlyAim

\* seeded fault: one step is enough.
AtRoot_Always(f) == TRUE
\* The holder is the page, or not noted, or the table has no such frame.
AtRoot(f) == Holder(f) = Main \/ ~table[f].held \/ ~table[Holder(f)].known

Check ==
    /\ aim.pc = "check"
    /\ IF AtRoot(aim.up) THEN Goto("act")
       ELSE aim' = [aim EXCEPT !.pc = "owner", !.up = Holder(aim.up)]
    /\ OnlyAim

\* Mouse events go to the page, at the place found; everything else to the
\* session of the node.  An answer may still be an error of its own (a page that
\* threw, a target that is no table, a picture without data).
Act ==
    /\ aim.pc = "act"
    /\ \/ /\ aim.tool = "click" \/ Reaches(aim.frame, aim.sess)
          /\ aim' = [Idle EXCEPT !.ok = TRUE, !.calm = aim.calm, !.tool = aim.tool, !.doc = aim.doc,
                                 !.at = aim.at, !.hit = IF aim.frame = None THEN Main ELSE aim.frame]
       \/ Fail
    /\ OnlyAim

\* The budget is spent, or the client has gone.
Cut == aim.pc # "idle" /\ Fail /\ OnlyAim

Next ==
    \/ \E f \in Frames : FrameGoes(f) \/ FrameReturns(f) \/ BoxMoves(f) \/ Noticed(f)
    \/ \E tool \in Tools, ref \in BOOLEAN, doc \in Documents : Begin(tool, ref, doc)
    \/ Entry \/ Select \/ Point \/ Owner \/ Quad \/ Check \/ Act \/ Cut

Spec == Init /\ [][Next]_vars

-----------------------------------------------------------------------------
(* Properties.                                                               *)

\* Where the middle of a node of a document is in the page.
InPage(d) ==
    CASE d = Main    -> 0
      [] d = "outer" -> Projected("outer", 0)
      [] d = "inner" -> IF there["outer"] = Local THEN Projected("inner", 0)
                        ELSE Projected("outer", Projected("inner", 0))

\* The outer frame lives with the page and the table knows it for the holder of the
\* inner one: a box of the page's process is counted in the corner of the inner frame
\* already, and it is added once more.
CountedTwice == there["outer"] = Local /\ table["inner"].held /\ table["outer"].known

\* A call that reports success, in a page that stood still meanwhile, has met
\* its target: a click the place where the node of its frame is in the page,
\* through every box; every other tool the document the node is in.  Whatever
\* frames went and came back before it, and whatever session the reference
\* remembers.  Excepted are the screenshot of a reference in a frame, which is
\* looked up in the page (page_service.rs, screenshot_tool), and a click in a frame
\* with a session of its own that a frame of the page's process holds: the step
\* through the holder is taken although the place is in the page by then
\* (page_service.rs, project_frame_point 3494-3505).
AimIsTrue ==
    aim.ok /\ aim.calm =>
        IF aim.tool = "click"
        THEN aim.at = InPage(aim.doc) \/ (aim.doc = "inner" /\ CountedTwice)
        ELSE aim.hit = aim.doc \/ aim.tool = "shot"
=============================================================================
