------------------------------- MODULE HoverRules -------------------------------
(***************************************************************************)
(* The rules of a style sheet that are about hovering.  The sheet is read as  *)
(* text, brace by brace; the selectors of its rules are split, and of those   *)
(* with a :hover two are kept: what is to be hovered, and what then appears.  *)
(*                                                                            *)
(* A text is a sequence of words and marks.  The sheets that are given are    *)
(* built as trees and written out as text, so that what is read can be        *)
(* compared with what was meant.  A behaviour is one reading.  Left out: the  *)
(* budgets (HoverScan), single-colon pseudo elements, escapes.                *)
(*                                                                            *)
(* Code: domain/page_control.rs.                                              *)
(***************************************************************************)
EXTENDS Naturals, Sequences, SequencesExt

CONSTANT Sheets  \* trees, see Rule

VARIABLES
    sheet,  \* the tree
    made    \* what was read from its text: Nothing before

vars == <<sheet, made>>

Nothing == [triggers |-> {}, reveals |-> {}, read |-> FALSE]

Init ==
    /\ sheet \in Sheets
    /\ made = Nothing

-----------------------------------------------------------------------------
(* Trees and their text.                                                     *)

\* A part of a selector: how it is joined to the one before it, what it is, and
\* what is said of it.  A selector is a sequence of groups of parts.
Part(op, name, not, hover, pseudo) ==
    [op |-> op, name |-> name, not |-> not, hover |-> hover, pseudo |-> pseudo]
Rule(selector, body) == [kind |-> "rule", selector |-> selector, body |-> body]
Block(kind, body) == [kind |-> kind, body |-> body]  \* kind: @media, @keyframes, @import or a comment

If(p, s) == IF p THEN s ELSE <<>>
PartText(p) ==
    p.name \o If(p.not, <<":not", "(", ":hover", ")">>) \o If(p.hover, <<":hover">>)
        \o If(p.pseudo, <<"::after">>)
GroupText(g) ==
    FlattenSeq([i \in DOMAIN g |->
        (IF i = 1 THEN <<>> ELSE IF g[i].op = " " THEN <<" ">> ELSE <<" ", g[i].op, " ">>)
            \o PartText(g[i])])
SelectorText(sel) ==
    FlattenSeq([i \in DOMAIN sel |-> (IF i = 1 THEN <<>> ELSE <<",", " ">>) \o GroupText(sel[i])])

RECURSIVE Text(_)
Text(items) ==
    FlattenSeq([i \in DOMAIN items |->
        LET it == items[i] IN
        CASE it.kind = "rule"    -> SelectorText(it.selector) \o <<" ", "{", "decl", ";">> \o Text(it.body)
                                       \o <<"decl", "}">>
          [] it.kind = "comment" -> <<"/*", "x", ":hover", "{", "*/">>
          [] it.kind = "@import" -> <<"@import", " ", "x", ";", " ">>
          [] OTHER               -> <<it.kind, " ", "x", "{", " ">> \o Text(it.body) \o <<"}">>])

-----------------------------------------------------------------------------
(* The reading.                                                              *)

\* strip_css_comments.
Uncommented(s) ==
    FoldLeft(LAMBDA acc, c :
                CASE c = "/*" -> [acc EXCEPT !.in = TRUE]
                  [] c = "*/" -> [acc EXCEPT !.in = FALSE]
                  [] OTHER    -> IF acc.in THEN acc ELSE [acc EXCEPT !.out = Append(@, c)],
             [in |-> FALSE, out |-> <<>>], s).out

RECURSIVE Trim(_)
Trim(s) ==
    IF s = <<>> THEN s
    ELSE IF Head(s) = " " THEN Trim(Tail(s)) ELSE IF Last(s) = " " THEN Trim(Front(s)) ELSE s

Depth(d, c) == IF c = "(" THEN d + 1 ELSE IF c = ")" THEN d - 1 ELSE d

\* split_top_level: outside of brackets; a mark that joins is not lost to the
\* blanks around it.
Split(s, seps) ==
    LET Close(acc) == IF Trim(acc.cur) = <<>> THEN acc
                      ELSE [acc EXCEPT !.parts = Append(@, [op |-> acc.op, text |-> Trim(acc.cur)]),
                                       !.cur = <<>>]
        Step(acc, c) ==
            IF acc.depth = 0 /\ c \in seps
            THEN IF Trim(acc.cur) # <<>> THEN [Close(acc) EXCEPT !.op = c]
                 ELSE IF c # " " THEN [acc EXCEPT !.op = c] ELSE acc
            ELSE [acc EXCEPT !.cur = Append(@, c), !.depth = Depth(@, c)]
    IN Close(FoldLeft(Step, [parts |-> <<>>, cur |-> <<>>, op |-> "none", depth |-> 0], s)).parts

Groups == {"@media", "@supports", "@layer", "@container", "@scope"}

\* seeded fault: what is in @keyframes is read like the rules of a sheet.
BlockOf_Open(head) == IF head # <<>> /\ head[1] \in (Groups \cup {"@keyframes"}) THEN "group" ELSE "style"
BlockOf(head) ==
    IF head = <<>> \/ head[1] \notin Groups \cup {"@keyframes", "@import"} THEN "style"
    ELSE IF head[1] \in Groups THEN "group" ELSE "skip"

\* style_rule_selectors: a { ends a selector or opens a block; within a block of
\* no rules nothing is collected.
Selectors(css) ==
    LET Open(acc) ==
            LET parts == Split(acc.buf, {";"})
                head == IF parts = <<>> THEN <<>> ELSE Last(parts).text
                kind == BlockOf(head)
            IN [stack |-> Append(acc.stack, kind), buf |-> <<>>,
                out |-> IF kind = "style" /\ head # <<>> THEN Append(acc.out, head) ELSE acc.out]
        Step(acc, c) ==
            CASE c = "{" -> Open(acc)
              [] c = "}" -> [acc EXCEPT !.stack = IF @ = <<>> THEN @ ELSE Front(@), !.buf = <<>>]
              [] c = ";" -> [acc EXCEPT !.buf = <<>>]
              [] OTHER   -> IF acc.stack # <<>> /\ Last(acc.stack) = "skip" THEN acc
                            ELSE [acc EXCEPT !.buf = Append(@, c)]
    IN FoldLeft(Step, [stack |-> <<>>, buf |-> <<>>, out |-> <<>>], css).out

\* strip_bare_hover, strip_pseudo_element: outside of brackets.
Without(s, what) ==
    FoldLeft(LAMBDA acc, c : [depth |-> Depth(acc.depth, c),
                              out |-> IF acc.depth = 0 /\ c = what THEN acc.out ELSE Append(acc.out, c)],
             [depth |-> 0, out |-> <<>>], s).out
Stripped(s) == Without(Without(s, ":hover"), "::after")
Bare(s) == Without(s, ":hover") # s

\* join_stripped: the parts as one selector, unless one has nothing left.
Joined(parts) ==
    IF \E i \in DOMAIN parts : Stripped(parts[i].text) = <<>> THEN {}
    ELSE {[i \in DOMAIN parts |-> [op |-> IF i = 1 \/ parts[i].op = "none" THEN " " ELSE parts[i].op,
                                   text |-> Stripped(parts[i].text)]]}

\* absorb_hover_selector.
Absorbed(selector) ==
    LET groups == {Split(g.text, {" ", ">", "+", "~"}) : g \in ToSet(Split(selector, {","}))}
        first(g) == CHOOSE i \in DOMAIN g : Bare(g[i].text) /\ \A j \in 1..(i - 1) : ~Bare(g[j].text)
        hovers == {g \in groups : \E i \in DOMAIN g : Bare(g[i].text)}
    IN [triggers |-> UNION {Joined(SubSeq(g, 1, first(g))) : g \in hovers},
        reveals |-> UNION {Joined(g) : g \in {h \in hovers : first(h) < Len(h)}}]

\* scan_hover_rules.
Scanned(css) ==
    LET found == {Absorbed(s) : s \in ToSet(Selectors(Uncommented(css)))}
    IN [triggers |-> UNION {f.triggers : f \in found}, reveals |-> UNION {f.reveals : f \in found},
        read |-> TRUE]

Scan ==
    /\ ~made.read
    /\ made' = Scanned(Text(sheet))
    /\ UNCHANGED sheet

Next == Scan

Spec == Init /\ [][Next]_vars

-----------------------------------------------------------------------------
(* Properties.                                                               *)

\* The selectors that count: those of rules, also in blocks with a condition and
\* inside of other rules, but not those of @keyframes.
RECURSIVE Meant(_)
Meant(items) ==
    UNION {CASE items[i].kind = "rule"   -> ToSet(items[i].selector) \cup Meant(items[i].body)
             [] items[i].kind = "@media" -> Meant(items[i].body)
             [] OTHER                    -> {} : i \in DOMAIN items}

\* A part without its :hover and its pseudo element.
Plain(g) ==
    [i \in DOMAIN g |-> [op |-> IF i = 1 THEN " " ELSE g[i].op,
                         text |-> g[i].name \o If(g[i].not, <<":not", "(", ":hover", ")">>)]]
Whole(g) == \A i \in DOMAIN g : g[i].name # <<>> \/ g[i].not

\* However a sheet is written, what is read from it is what it means: of each
\* group with a hovered part, the way to that part is a trigger, and the whole is
\* a reveal if more follows; a :hover in :not() is none, and nothing that could
\* not be asked for, or would mean every element, is taken (page_control.rs).
HoverRulesAreFound ==
    made.read =>
        LET hovered == {g \in Meant(sheet) : \E i \in DOMAIN g : g[i].hover}
            at(g) == CHOOSE i \in DOMAIN g : g[i].hover /\ \A j \in 1..(i - 1) : ~g[j].hover
        IN /\ made.triggers = {Plain(SubSeq(g, 1, at(g))) : g \in {h \in hovered : Whole(SubSeq(h, 1, at(h)))}}
           /\ made.reveals = {Plain(g) : g \in {h \in hovered : at(h) < Len(h) /\ Whole(h)}}
=============================================================================
