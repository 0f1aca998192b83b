------------------------------ MODULE PageSamples ------------------------------
(***************************************************************************)
(* What the rules of page control are applied to in the checks: addresses,    *)
(* texts and bodies for Redaction, globs, tables, redirects and filters for   *)
(* RequestRules, tables of a page for TableExtract, style sheets for          *)
(* HoverRules.  Every shape the rules tell apart occurs, alone and nested or  *)
(* beside another.                                                            *)
(***************************************************************************)
EXTENDS Naturals, Sequences

\* All texts over some characters with a length from m to n.
Strings(chars, m, n) == UNION {[1..k -> chars] : k \in m..n}

-----------------------------------------------------------------------------
(* Redaction.                                                                *)

Segments ==
    {<<"name">>, <<"key", "=", "secret">>, <<"name", "=", "name">>,
     <<"name", "=", "name", "=", "name">>, <<"key", "=", "secret", "=", "secret">>}

\* Up to two segments, joined by the marks that begin pairs.
Urls ==
    {<<"name", "/">>}
        \cup {<<"name", "/", m>> \o a : m \in {"?", "#"}, a \in Segments}
        \cup {<<"name", "/", m>> \o a \o <<n>> \o b :
                 m \in {"?", "#"}, n \in {"&", ";", "#", "?"}, a \in Segments, b \in Segments}

\* A value in quotes: whole, or with what might end it before they do.
Quoted ==
    {<<"quote", "secret", "quote">>}
        \cup {<<"quote", "secret", e, "secret", "quote">> : e \in {" ", "nl", "&", ",", ";", "<", "escape"}}

Credentials ==
    {<<"bearer">> \o b \o <<"secret">> : b \in {<<" ">>, <<" ", " ">>}}
        \cup {<<"key">> \o b \o <<"=">> \o c \o v :
                 b \in {<<>>, <<" ">>}, c \in {<<>>, <<" ">>},
                 v \in {<<"secret">>, <<"secret", "quote", "secret">>,
                        <<"secret", "&", "name", "=", "name">>} \cup Quoted}
        \cup {<<"key", ":">> \o c \o v :
                 c \in {<<>>, <<" ">>},
                 v \in {<<"secret">>, <<"secret", " ", "secret">>,
                        <<"secret", "quote", "secret">>} \cup Quoted}
        \cup {<<"<">> \o n \o a \o <<">", "secret", " ", "secret", "<", "/">> \o n \o <<">">> :
                 n \in {<<"key">>, <<"name", ":", "key">>},
                 a \in {<<>>, <<" ", "name", "=", "quote", "name", "quote">>}}
        \cup {<<"key", ":", " ", "escape", "quote", "secret", "escape", "quote">>}
        \cup {<<"quote", "key", "quote", ":", "quote", "secret", "quote">>}
        \cup {<<"name", "=", "name">>, <<"<", "key", "/", ">", "name">>, <<"<", "key", ">", "name">>,
              <<"<", "key", ">", "secret">>,
              <<"<", "key", ">", "<", "key", ">", "secret", "<", "/", "key", ">", "secret",
                "<", "/", "key", ">">>, <<"key", "=">>}

\* Each alone, and with something before or after it.
LogTexts ==
    {p \o c \o q : p \in {<<>>, <<"name", " ">>, <<"<", "name", ">">>}, c \in Credentials,
                   q \in {<<>>, <<"nl", "name">>, <<"<", "/", "name", ">">>}}

Text(s) == [kind |-> "leaf", text |-> s]
Object(k, v) == [kind |-> "object", keys |-> <<k>>, of |-> <<v>>]
Array(s) == [kind |-> "array", of |-> s]
Secret == Text(<<"secret">>)
Small ==
    {Object("key", Secret), Object("name", Text(<<"name">>)), Object("key", Array(<<Secret, Secret>>)),
     Object("key", Object("name", Text(<<"name">>))),
     Object("key", Array(<<Secret, Object("name", Text(<<"name">>))>>)), [kind |-> "bad"], Array(<<>>),
     Text(<<"name">>), Text(<<"bearer", " ", "secret">>)}
Larger ==
    {Object("name", v) : v \in Small} \cup {Array(<<v, w>>) : v \in Small, w \in Small}
        \cup {[kind |-> "object", keys |-> <<"key", "name">>, of |-> <<Secret, v>>] : v \in Small}
JsonBodies == Small \cup Larger \cup {Object("name", v) : v \in Larger}

Piece(c, k) == [case |-> c, known |-> k]
Mark == Piece("mark", FALSE)
Spellings ==
    UNION {{<<Piece("low", a), Piece("Cap", b)>>, <<Piece("Cap", a), Piece("Cap", b)>>,
            <<Piece("low", a), Mark, Piece("low", b)>>, <<Piece("ALL", a), Mark, Piece("ALL", b)>>,
            <<Piece("low", a)>>, <<Mark, Piece("low", a), Mark>>} : a, b \in BOOLEAN}

-----------------------------------------------------------------------------
(* RequestRules.                                                             *)

Globs == Strings({"a", "b", "*"}, 0, 4)
Addresses ==
    Strings({"a", "b"}, 0, 3) \cup {<<"*">>, <<"a", "*">>, <<"a", "://", "b">>, <<"b", "://", "a">>}

RuleFor(i, u, t, a) == [id |-> i, url |-> u, types |-> t, action |-> a]
AnyRule ==
    {RuleFor(i, u, t, a) : i \in {"", "x"}, u \in {<<"a", "://", "*">>, <<"b">>},
                           t \in {<<>>, <<"xhr">>, <<"XHR", "script">>, <<"ws">>}, a \in {"mock", "drop"}}
GoodRule ==
    {RuleFor("y", u, t, "block") : u \in {<<"*", "://", "a">>, <<"a", "://", "*">>},
                                   t \in {<<>>, <<"Script">>, <<"Script", "xhr">>}}
RuleTables ==
    {<<>>} \cup {<<r>> : r \in AnyRule} \cup {<<r, s>> : r \in AnyRule, s \in GoodRule}
        \cup {<<r, s, s>> : r \in AnyRule, s \in GoodRule} \cup {<<s, s>> : s \in GoodRule}

Redirects ==
    [from : {<<>>, <<"a">>, <<"a", "*">>, <<"*", "b", "*">>}, to : Strings({"$", "0", "1", "2", "x"}, 0, 4)]
Filters ==
    {s \o d \o t : s \in {<<>>, <<"https", "://">>, <<"http", "://">>}, d \in {<<>>, <<"*", ".">>, <<"||">>},
                   t \in {<<"a">>, <<"a", "/", "*">>}}

-----------------------------------------------------------------------------
(* TableExtract.                                                             *)

Row(kind, hidden, index, cells) == [kind |-> kind, hidden |-> hidden, index |-> index, cells |-> cells]
Td(rs, cs, col) == [th |-> FALSE, rs |-> rs, cs |-> cs, col |-> col]
Th(rs, cs, col) == [th |-> TRUE, rs |-> rs, cs |-> cs, col |-> col]

\* One or two rows of names, two rows of data; none is what stands for no number.
HeadRows(none) ==
    {<<>>,
     <<Row("thead", FALSE, none, <<Th(2, 1, none), Th(1, 2, none)>>),
       Row("thead", FALSE, none, <<Th(1, 1, none), Th(1, 1, none)>>)>>,
     <<Row("flat", FALSE, 1, <<Th(1, 1, none), Th(1, 1, none)>>)>>}
DataRows(none) ==
    {Row("tbody", h, n, c) :
        h \in BOOLEAN, n \in {none, 2, 3},
        c \in {<<>>, <<Td(1, 1, none)>>, <<Td(1, 1, none), Td(1, 1, none)>>,
               <<Td(2, 1, none), Td(1, 1, none)>>, <<Td(1, 2, none)>>, <<Td(1, 1, 3)>>,
               <<Td(2, 2, 2), Td(1, 1, none)>>, <<Td(1, 1, 2), Td(1, 1, 2)>>}}
HtmlTables(none) ==
    {h \o <<a, b>> : h \in HeadRows(none), a \in DataRows(none), b \in DataRows(none)}
        \cup {<<a, Row("tbody", FALSE, 1, <<Td(1, 1, none)>>), Row("tfoot", FALSE, 4, <<Th(1, 1, none)>>)>> :
                 a \in DataRows(none)}

-----------------------------------------------------------------------------
(* HoverRules.                                                               *)

Part(op, name, not, hover, pseudo) ==
    [op |-> op, name |-> name, not |-> not, hover |-> hover, pseudo |-> pseudo]
StyleRule(selector, body) == [kind |-> "rule", selector |-> selector, body |-> body]
Block(kind, body) == [kind |-> kind, body |-> body]

\* Selectors of one or two parts; a part says something.
Parts ==
    {p \in [op : {">", " "}, name : {<<>>, <<"a">>}, not : {FALSE}, hover : BOOLEAN, pseudo : BOOLEAN] :
        p.name # <<>> \/ p.hover \/ p.pseudo}
        \cup [op : {" "}, name : {<<"b">>}, not : {TRUE}, hover : BOOLEAN, pseudo : {FALSE}]
First == {p \in Parts : p.op = " "}
Selectors == {<<p>> : p \in First} \cup {<<p, q>> : p \in First, q \in Parts}
Hovered == <<Part(" ", <<"c">>, FALSE, TRUE, FALSE)>>
Unhovered == <<Part(" ", <<"d">>, FALSE, FALSE, FALSE)>>

\* Each alone, beside an import and a comment, in a block, in a rule, in a block
\* of a block.
StyleSheets ==
    UNION {LET r == StyleRule(<<s>>, <<>>) IN
           {<<r>>, <<Block("@import", <<>>), r, Block("comment", <<>>)>>,
            <<Block("@media", <<Block("@keyframes", <<r>>), r>>)>>}
               \cup {<<Block(k, <<r>>), StyleRule(<<Hovered, Unhovered>>, <<>>)>> : k \in {"@media", "@keyframes"}}
               \cup {<<StyleRule(<<Unhovered, g>>, <<r>>)>> : g \in {Hovered, Unhovered}} : s \in Selectors}
=============================================================================
