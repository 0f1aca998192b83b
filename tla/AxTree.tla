-------------------------------- MODULE AxTree --------------------------------
(***************************************************************************)
(* The text of a snapshot and its references: the accessibility tree of the   *)
(* page, walked from its roots, with the tree of a frame opened under the     *)
(* element that owns it.  The trees come from the browser as lists of nodes   *)
(* that name their parent and their children, and need not agree with         *)
(* themselves: children that are not there, listed twice or nowhere, parents  *)
(* that are missing, cycles.  Nodes of two trees have the same numbers.       *)
(*                                                                            *)
(* A behaviour is one walk.  Left out: the wording of a line, its mark of     *)
(* hovering (HoverScan), frames inside frames.                                *)
(*                                                                            *)
(* Code: application/page_service.rs.                                         *)
(***************************************************************************)
EXTENDS Naturals, Sequences, FiniteSets, SequencesExt

CONSTANTS
    None,
    PageTrees,   \* trees of the page, see Node
    FrameTrees   \* trees of the frame

VARIABLES
    page,   \* the nodes of the page, by their number
    frame,  \* the nodes of the frame
    owner,  \* the DOM number of the element that owns the frame
    walk    \* what the walk made of them: None before

vars == <<page, frame, owner, walk>>

\* A node: its parent (0 for none) and children by number, its role, its name
\* and its DOM number, which it need not have.
Roles == {"button", "row", "heading", "generic"}
Names == {"none", "words", "url"}
Node == [parent : 0..9, kids : Seq(0..9), role : Roles, name : Names, dom : {None} \cup 0..9]

TypeOK ==
    /\ \A n \in DOMAIN page : page[n] \in Node
    /\ \A n \in DOMAIN frame : frame[n] \in Node
    /\ owner \in 0..9

Init ==
    /\ page \in PageTrees
    /\ frame \in FrameTrees
    /\ owner \in {1, 2}
    /\ walk = None

-----------------------------------------------------------------------------
(* The walk.                                                                 *)

\* is_ref_worthy: what one can act on, and rows named by an address.
RefWorthy(node) == node.role = "button" \/ (node.role = "row" /\ node.name = "url")

\* should_show: what has no name is shown if it may be referred to.
Shown(node) == node.role # "generic" /\ (node.name # "none" \/ RefWorthy(node))

\* is_root: it has no parent, or one that is not there.
Numbers(tree) == [n \in DOMAIN tree |-> n]
Roots(tree) == SelectSeq(Numbers(tree), LAMBDA n : tree[n].parent \notin DOMAIN tree)

\* The children a node lists, if they are there, then those that name it.
Children(tree, n) ==
    SelectSeq(tree[n].kids, LAMBDA k : k \in DOMAIN tree)
        \o SelectSeq(Numbers(tree), LAMBDA k : tree[k].parent = n)

\* seeded fault: a node of the frame counts as the node of the page with its number.
Key_Bare(where, n) == n
\* A node visited is known by its tree and its number.
Key(where, n) == <<where, n>>

\* visit_ax: a node once, its line and its reference, the tree of the frame under
\* its owner, then its children.  acc carries what was visited, the lines and
\* the references; a reference is the next number, with the node it is of.
RECURSIVE Visit(_, _, _)
VisitAll(where, nodes, acc) == FoldLeft(LAMBDA a, n : Visit(where, n, a), acc, nodes)

Visit(where, n, acc) ==
    LET tree == IF where = "page" THEN page ELSE frame
        node == tree[n]
        refers == RefWorthy(node) /\ node.dom # None
        seen == [acc EXCEPT !.visited = @ \cup {Key(where, n)},
                            !.refs = IF refers THEN Append(@, <<where, n>>) ELSE @,
                            !.lines = IF Shown(node) THEN Append(@, <<where, n>>) ELSE @]
        opened == IF where = "page" /\ node.dom = owner
                  THEN VisitAll("frame", Roots(frame), seen)
                  ELSE seen
    IN IF Key(where, n) \in acc.visited THEN acc ELSE VisitAll(where, Children(tree, n), opened)

\* collect_ax_tree_multi: from the roots, then every node of the page that no
\* root led to.
Walked ==
    LET rooted == VisitAll("page", Roots(page), [visited |-> {}, lines |-> <<>>, refs |-> <<>>])
    IN VisitAll("page", Numbers(page), rooted)

Collect ==
    /\ walk = None
    /\ walk' = Walked
    /\ UNCHANGED <<page, frame, owner>>

Next == Collect

Spec == Init /\ [][Next]_vars

-----------------------------------------------------------------------------
(* Properties.                                                               *)

\* The nodes of the frame a root of it leads to.
RECURSIVE Reach(_, _)
Reach(tree, S) ==
    LET more == S \cup UNION {ToSet(Children(tree, n)) : n \in S}
    IN IF more = S THEN S ELSE Reach(tree, more)

Places ==
    ({"page"} \X DOMAIN page)
        \cup (IF \E n \in DOMAIN page : page[n].dom = owner
              THEN {"frame"} \X Reach(frame, ToSet(Roots(frame))) ELSE {})
At(place) == IF place[1] = "page" THEN page[place[2]] ELSE frame[place[2]]

\* Whatever the browser sends, the snapshot shows each node of the page and of a
\* frame that is owned exactly once; everything one can act on has a reference,
\* no two of them the same, and each reference is on a line (page_service.rs,
\* visit_ax: numbers of a frame once cut out the nodes of the page).
SnapshotIsWhole ==
    walk # None =>
        /\ ToSet(walk.lines) = {p \in Places : Shown(At(p))}
        /\ ToSet(walk.refs) = {p \in Places : RefWorthy(At(p)) /\ At(p).dom # None}
        /\ IsInjective(walk.lines) /\ IsInjective(walk.refs)
        /\ ToSet(walk.refs) \subseteq ToSet(walk.lines)
=============================================================================
