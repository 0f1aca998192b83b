------------------------------- MODULE MCPages -------------------------------
(***************************************************************************)
(* One TLC instance for what talks to the browsers: the parts of PageParts,  *)
(* and what has no state to speak of: how a snapshot walks its trees, the    *)
(* rules for requests, tables and style sheets, and what is redacted for the *)
(* diagnostics.  In a behaviour one of them moves and the others rest where  *)
(* they begin, so a property of one of them is checked in its behaviours.    *)
(***************************************************************************)
EXTENDS PageParts, PageSamples, TLC

VARIABLES
    axPage, axFrame, axOwner, walk,  \* AxTree
    given, made                      \* the rules

\* A style sheet: a rule that reveals, one that only hovers, one that is not
\* valid, one that is not about hovering; or a text over its budget.
Rule(hover, triggers, reveals, valid) ==
    [hover |-> hover, triggers |-> triggers, reveals |-> reveals, valid |-> valid]
MCTexts ==
    {None, <<Rule(TRUE, {1}, {2}, TRUE)>>,
     <<Rule(TRUE, {2}, {}, TRUE), Rule(TRUE, {3}, {}, FALSE), Rule(FALSE, {}, {}, TRUE)>>}

\* Trees of three nodes in the page and of two in the frame, with children that
\* are missing, listed by two or by nobody, and cycles.
Node(parent, kids, role, name, dom) ==
    [parent |-> parent, kids |-> kids, role |-> role, name |-> name, dom |-> dom]
Kids == {<<>>, <<2>>, <<3, 3, 9>>, <<2, 1>>}
PageTrees ==
    {<<Node(0, k, "button", "words", 1), Node(p, l, "generic", "words", 2),
       Node(q, <<>>, "row", "url", d)>> :
        k \in Kids, l \in Kids, p \in {0, 1, 3}, q \in 0..3, d \in {3, None}}
FrameTrees ==
    {<<Node(p, <<>>, "button", "none", 1), Node(q, k, "heading", "none", 7)>> :
        p \in {0, 2}, q \in {0, 1}, k \in {<<1>>, <<>>}}
Ax == INSTANCE AxTree WITH page <- axPage, frame <- axFrame, owner <- axOwner

\* The rules share two variables: what is given, and what was made of it.
Redact == INSTANCE Redaction WITH MaxDepth <- 4
Compile == INSTANCE RequestRules WITH Tables <- RuleTables, MaxRules <- 2, MaxPatterns <- 3
Extract == INSTANCE TableExtract WITH Tables <- HtmlTables(None), Budget <- 6, table <- given
Styles == INSTANCE HoverRules WITH Sheets <- StyleSheets, sheet <- given

axVars == <<axPage, axFrame, axOwner, walk>>
ruleVars == <<given, made>>
all == <<partVars, axVars, ruleVars>>

\* The tree of a page at rest.
Leaf == <<Node(0, <<>>, "button", "words", 1)>>

MCInit ==
    /\ moving \in {"connection", "refs", "input", "events", "loads", "bodies", "turns", "socket",
                   "keys", "aim", "waits", "devices", "hover", "ax", "mock", "redact", "requests",
                   "extract", "styles"}
    /\ PartsInit
    /\ CASE moving = "redact"   -> Redact!Init
         [] moving = "requests" -> Compile!Init
         [] moving = "extract"  -> Extract!Init
         [] moving = "styles"   -> Styles!Init
         [] OTHER               -> given = None /\ made = None
    /\ IF moving = "ax" THEN Ax!Init
       ELSE axPage = Leaf /\ axFrame = Leaf /\ axOwner = 1 /\ walk = None

MCNext ==
    /\ PartsNext
    /\ IF moving = "ax" THEN Ax!Next ELSE UNCHANGED axVars
    /\ CASE moving = "redact"   -> Redact!Next
         [] moving = "requests" -> Compile!Next
         [] moving = "extract"  -> Extract!Next
         [] moving = "styles"   -> Styles!Next
         [] OTHER               -> UNCHANGED ruleVars

MCSpec == MCInit /\ [][MCNext]_all

Symmetry == Permutations(Recs) \cup Permutations(Conns) \cup Permutations(Calls)

-----------------------------------------------------------------------------
\* A snapshot shows every node once, and the style sheets are read as they are
\* meant (page_service.rs, visit_ax; page_control.rs, scan_hover_rules).
SnapshotTellsTheTruth ==
    Ax!SnapshotIsWhole /\ (moving = "styles" => Styles!HoverRulesAreFound)

\* What enters the ring of the diagnostics has lost its secrets (redact.rs).
RedactionIsSafe == moving = "redact" => Redact!RedactionIsSafe

\* A rule for requests stops, redirects and answers those it was told to, and a
\* table that is extracted is the one of the page (fetch_rules.rs, net_rules.rs;
\* table_extract.rs).
RulesDoAsTheySay ==
    /\ moving = "requests" => Compile!RulesDoAsTheySay
    /\ moving = "extract" => Extract!TableIsHonest
=============================================================================
