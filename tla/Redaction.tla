------------------------------- MODULE Redaction -------------------------------
(***************************************************************************)
(* What is taken out of an address, of a JSON body and of a text before they  *)
(* enter the ring of the diagnostics.                                         *)
(*                                                                            *)
(* Text is a sequence of words and marks: "key" stands for a name the list of *)
(* sensitive words knows, "bearer" for itself, "name" for any other word,     *)
(* "secret" for what must not be seen, "[redacted]" for what replaces it, and *)
(* the marks for themselves.  Two words never touch.  JSON is a tree.         *)
(*                                                                            *)
(* A behaviour is one evaluation.  Left out: the cut of long addresses, how a *)
(* name is taken apart (but for its spellings), characters, escapes in keys.  *)
(*                                                                            *)
(* Code: domain/redact.rs.                                                    *)
(***************************************************************************)
EXTENDS Naturals, Sequences, SequencesExt, Functions

CONSTANTS
    Urls, LogTexts, JsonBodies, Spellings,  \* what is given, see PageSamples
    MaxDepth                         \* MAX_JSON_DEPTH

VARIABLES
    given,  \* a rule and what it is applied to
    made    \* what it made of it: Nothing before

vars == <<given, made>>

Nothing == [rule |-> "none"]
Gone == "[redacted]"

Init ==
    /\ given \in ([rule : {"url"}, of : Urls] \cup [rule : {"text"}, of : LogTexts]
                    \cup [rule : {"body"}, json : BOOLEAN, of : JsonBodies]
                    \cup [rule : {"key"}, of : Spellings])
    /\ made = Nothing

-----------------------------------------------------------------------------
(* Names.                                                                    *)

\* A name is a sequence of pieces: a word as it is written ("low", "Cap" or
\* "ALL"), whether the list knows it, alone or with a plural s, or a mark.
\* split_words: a new word begins after a mark or an entity that stands for one,
\* and where a capital follows a small letter or a digit.
Breaks(key, i) ==
    \/ i = 1
    \/ key[i - 1].case = "mark"
    \/ key[i].case \in {"Cap", "ALL"} /\ key[i - 1].case \in {"low", "Cap"}

\* The pieces that are words of their own, neither continued nor continuing.
WholeWords(key) ==
    {i \in DOMAIN key : /\ key[i].case # "mark"
                        /\ Breaks(key, i)
                        /\ i = Len(key) \/ Breaks(key, i + 1) \/ key[i + 1].case = "mark"}

\* is_sensitive_key.
IsSensitive(key) == \E i \in WholeWords(key) : key[i].known

\* In texts and trees a name is known by what it stands for.
Known(word) == word \in {"key", "bearer"}

-----------------------------------------------------------------------------
(* Addresses.                                                                *)

\* The first place from i on that holds one of the marks, or the end.
Find(s, i, marks) ==
    IF \E j \in i..Len(s) : s[j] \in marks
    THEN CHOOSE j \in i..Len(s) : s[j] \in marks /\ \A k \in i..(j - 1) : s[k] \notin marks
    ELSE Len(s) + 1

\* redact_pair: what follows the first = of a pair whose name has a known word.
Pair(s) ==
    LET eq == Find(s, 1, {"="})
    IN IF eq <= Len(s) /\ \E i \in 1..(eq - 1) : Known(s[i])
       THEN SubSeq(s, 1, eq) \o <<Gone>> ELSE s

\* seeded fault: the semicolon does not separate.
Separators_Amp == {"&"}
Separators == {"&", ";"}

\* redact_pairs.
RECURSIVE Pairs(_)
Pairs(s) ==
    LET end == Find(s, 1, Separators)
    IN IF end > Len(s) THEN Pair(s)
       ELSE Pair(SubSeq(s, 1, end - 1)) \o <<s[end]>> \o Pairs(SubSeq(s, end + 1, Len(s)))

\* redact_query: what follows the first ? and what follows the first #; a ? after
\* a # belongs to what follows the #.
Url(s) ==
    LET h == Find(s, 1, {"#"})
        q == Find(SubSeq(s, 1, h - 1), 1, {"?"})
        front == SubSeq(s, 1, q)
        query == Pairs(SubSeq(s, q + 1, h - 1))
        rest == IF h > Len(s) THEN <<>> ELSE <<"#">> \o Pairs(SubSeq(s, h + 1, Len(s)))
    IN IF q < h THEN front \o query \o rest ELSE SubSeq(s, 1, h - 1) \o rest

-----------------------------------------------------------------------------
(* Texts.                                                                    *)

Blank == {" ", "nl"}
Word(c) == c \in {"key", "bearer", "name", "secret"}

\* From i on, past what is among the marks.
RECURSIVE Past(_, _, _)
Past(s, i, marks) == IF i <= Len(s) /\ s[i] \in marks THEN Past(s, i + 1, marks) ELSE i

\* redact_bearer_tokens: what follows the word up to the next blank.
RECURSIVE Bearer(_, _)
Bearer(s, i) ==
    LET start == Past(s, i + 1, Blank)
        end == Find(s, start, Blank)
    IN IF i > Len(s) THEN <<>>
       ELSE IF s[i] = "bearer" /\ start <= Len(s)
       THEN SubSeq(s, i, start - 1) \o <<Gone>> \o Bearer(s, end)
       ELSE <<s[i]>> \o Bearer(s, i + 1)

\* is_value_end, is_colon_value_end: with = a value ends at a blank, with : at
\* the end of the line.
Ends(sep, quote) ==
    (IF sep = "=" THEN {" ", "nl", "&", "<", ",", ";"} ELSE {"nl", "<"}) \cup {quote}

\* redact_kv_patterns: what follows a known name with = or :, up to its end.
RECURSIVE KeyValue(_, _)
KeyValue(s, i) ==
    LET sep == Past(s, i + 1, {" "})
        open == Past(s, sep + 1, {" "})
        quoted == open <= Len(s) /\ s[open] = "quote"
        start == IF quoted THEN open + 1 ELSE open
        end == Find(s, start, Ends(s[sep], "quote"))
    IN IF i > Len(s) THEN <<>>
       ELSE IF Known(s[i]) /\ sep <= Len(s) /\ s[sep] \in {"=", ":"} /\ end > start
       THEN <<s[i], s[sep]>> \o (IF quoted THEN <<"quote">> ELSE <<>>) \o <<Gone>> \o KeyValue(s, end)
       ELSE <<s[i]>> \o KeyValue(s, i + 1)

\* find_substring: the closing tag of a name from i on, or the end.
Closing(s, i, name) ==
    LET at == {j \in i..(Len(s) - 1 - Len(name)) : SubSeq(s, j, j + 1 + Len(name)) = <<"<", "/">> \o name}
    IN IF at = {} THEN Len(s) + 1 ELSE CHOOSE j \in at : \A k \in at : j <= k

\* redact_xml_text_nodes: what is between the tags of a known name.
RECURSIVE Xml(_, _)
Xml(s, i) ==
    LET nameEnd == Past(s, i + 1, {"key", "bearer", "name", "secret", ":"})
        name == SubSeq(s, i + 1, nameEnd - 1)
        tagEnd == Find(s, nameEnd, {">"})
        close == Closing(s, tagEnd + 1, name)
        closeEnd == Find(s, close, {">"})
    IN IF i > Len(s) THEN <<>>
       ELSE IF s[i] # "<" \/ name = <<>> \/ tagEnd > Len(s) THEN <<s[i]>> \o Xml(s, i + 1)
       ELSE IF s[tagEnd - 1] # "/" /\ (\E c \in Range(name) : Known(c)) /\ closeEnd <= Len(s)
       THEN SubSeq(s, i, tagEnd) \o <<Gone>> \o SubSeq(s, close, closeEnd) \o Xml(s, closeEnd + 1)
       ELSE SubSeq(s, i, tagEnd) \o Xml(s, tagEnd + 1)

\* redact_text_patterns.
Patterns(s) == Xml(KeyValue(Bearer(s, 1), 1), 1)

-----------------------------------------------------------------------------
(* Bodies.                                                                   *)

Refused == [kind |-> "refused"]
Leaf(c) == [kind |-> "leaf", text |-> c]

\* seeded fault: the elements of an array do not inherit the name of their field.
Inherited_Not(sensitive) == FALSE
Inherited(sensitive) == sensitive

\* JsonRedactor::value, object, array: a leaf under a known name is replaced,
\* another one is read as text; an object goes by its own names, an array by
\* the name it is under; too deep, or not JSON, and the whole is refused.
RECURSIVE Json(_, _, _)
Json(tree, depth, sensitive) ==
    LET inner == CASE tree.kind = "object" ->
                         [i \in DOMAIN tree.of |-> Json(tree.of[i], depth + 1, Known(tree.keys[i]))]
                   [] tree.kind = "array" ->
                         [i \in DOMAIN tree.of |-> Json(tree.of[i], depth + 1, Inherited(sensitive))]
                   [] OTHER -> <<>>
    IN CASE tree.kind = "leaf" -> Leaf(IF sensitive THEN <<Gone>> ELSE Patterns(tree.text))
         [] tree.kind \in {"object", "array"} ->
               IF depth + 1 > MaxDepth \/ Refused \in Range(inner) THEN Refused
               ELSE [tree EXCEPT !.of = inner]
         [] OTHER -> Refused

\* redact_text_body: what looks like JSON is refused.
Text(body) == IF body.kind = "leaf" THEN Leaf(Patterns(body.text)) ELSE Refused

\* redact_body: the type says how it is read.
Body(json, body) == IF json THEN Json(body, 0, FALSE) ELSE Text(body)

-----------------------------------------------------------------------------
Evaluate ==
    /\ made = Nothing
    /\ made' = [rule |-> given.rule,
                out |-> CASE given.rule = "url"  -> Url(given.of)
                          [] given.rule = "text" -> Patterns(given.of)
                          [] given.rule = "body" -> Body(given.json, given.of)
                          [] given.rule = "key"  -> IsSensitive(given.of)]
    /\ UNCHANGED given

Next == Evaluate

Spec == Init /\ [][Next]_vars

-----------------------------------------------------------------------------
(* Properties.                                                               *)

\* Where pairs begin in an address: after the first #, the first ? before it,
\* and what separates pairs.  A place is in the value of a known name if the
\* pair it is in has such a name before its first =.
Begins(s, i) ==
    \/ s[i] \in {"&", ";"}
    \/ s[i] = "#" /\ \A j \in 1..(i - 1) : s[j] # "#"
    \/ s[i] = "?" /\ \A j \in 1..(i - 1) : s[j] \notin {"#", "?"}
InValue(s, i) ==
    \E b, e \in 1..(i - 1) :
        /\ Begins(s, b) /\ s[e] = "=" /\ \A j \in (b + 1)..i : ~Begins(s, j)
        /\ \A j \in (b + 1)..(e - 1) : s[j] # "="
        /\ \E j \in (b + 1)..(e - 1) : Known(s[j])

\* Of an address every value of a known name is gone, in the query and after the
\* #, and all the rest is there, in its order.
UrlIsClean ==
    LET s == given.of
        kept == SelectSeq([i \in DOMAIN s |-> i],
                          LAMBDA i : ~InValue(s, i))
    IN SelectSeq(made.out, LAMBDA c : c # Gone) = [i \in DOMAIN kept |-> s[kept[i]]]

\* The leaves of a tree by their path; the name the last field on it has.
RECURSIVE Leaves(_, _)
Leaves(tree, name) ==
    CASE tree.kind = "leaf" -> <<<<tree.text, name>>>>
      [] tree.kind = "object" ->
            FlattenSeq([i \in DOMAIN tree.of |-> Leaves(tree.of[i], tree.keys[i])])
      [] tree.kind = "array" ->
            FlattenSeq([i \in DOMAIN tree.of |->
                          Leaves(tree.of[i], IF tree.of[i].kind = "object" THEN "name" ELSE name)])
      [] OTHER -> <<>>

RECURSIVE Deep(_)
Deep(tree) ==
    IF tree.kind \notin {"object", "array"} THEN 0
    ELSE LET in == {Deep(tree.of[i]) : i \in DOMAIN tree.of} \cup {0}
         IN 1 + (CHOOSE d \in in : \A e \in in : e <= d)

RECURSIVE Whole(_)
Whole(tree) ==
    CASE tree.kind = "leaf" -> TRUE
      [] tree.kind \in {"object", "array"} -> \A i \in DOMAIN tree.of : Whole(tree.of[i])
      [] OTHER -> FALSE

\* A body is refused when it is not what its type says, or too deep; otherwise
\* it keeps its shape, no leaf under a known name is left, and no secret.
BodyIsClean ==
    LET whole == IF given.json THEN Whole(given.of) /\ Deep(given.of) <= MaxDepth
                 ELSE given.of.kind = "leaf"
        before == Leaves(given.of, "name")
        after == Leaves(made.out, "name")
    IN IF ~whole THEN made.out = Refused
       ELSE /\ made.out # Refused /\ Len(before) = Len(after)
            /\ \A i \in DOMAIN before :
                  /\ before[i][2] = after[i][2]
                  /\ Known(before[i][2]) => after[i][1] = <<Gone>>
                  /\ "secret" \notin Range(after[i][1])

\* What is not taken out whole: a value in quotes that holds what ends one without
\* them (is_value_end: a blank, a line, & , ; or < after =; is_colon_value_end: a line
\* or < after :); one without quotes that holds a quote; one whose quote is escaped, as
\* it is in the source of a JSON string; one whose name is in quotes
\* (redact_kv_patterns); an element that is not closed, or that holds another of its
\* name, up to whose end it is taken out (redact_xml_text_nodes).
CutShort(s, i, k) ==
    \E j \in (i + 1)..(k - 1) :
        /\ s[j] = "quote"
        /\ \A l \in (i + 1)..(j - 1) : s[l] = " "
        /\ \A l \in (j + 1)..(k - 1) : s[l] # "quote"
        /\ \E l \in (j + 1)..(k - 1) : \/ s[l] \in {"nl", "<"}
                                       \/ s[i] = "=" /\ s[l] \in {" ", "&", ",", ";"}
Beyond(s) ==
    \/ \E i, k \in DOMAIN s : s[i] \in {"=", ":"} /\ s[k] = "quote" /\ CutShort(s, i, k)
    \/ \E i \in 2..Len(s) : s[i] = "quote" /\ s[i - 1] \in {"secret", "escape"} /\
          (s[i - 1] = "secret" => \A j \in 1..(i - 1) : s[j] # "quote")
    \/ \E i \in 3..Len(s) : s[i] = "quote" /\ Known(s[i - 1]) /\ s[i - 2] = "quote"
    \/ LET opened == {i \in 2..(Len(s) - 1) : s[i - 1] = "<" /\ Known(s[i]) /\ s[i + 1] = ">"}
           closed == {i \in 3..Len(s) : s[i - 2] = "<" /\ s[i - 1] = "/" /\ Known(s[i])}
       IN opened # {} /\ (closed = {} \/ \E i, j \in opened : i # j)

\* What enters the ring is safe: addresses, texts and bodies have lost the values
\* of known names and credentials, wherever they carry them, and nothing else; a
\* second pass changes nothing; however a name is spelled, its words are found
\* (redact.rs).  Excepted is what Beyond says.
RedactionIsSafe ==
    made # Nothing =>
        CASE given.rule = "url"  -> UrlIsClean /\ Url(made.out) = made.out
          [] given.rule = "body" -> BodyIsClean
          [] given.rule = "key"  -> made.out <=> \E i \in DOMAIN given.of : given.of[i].known
          [] given.rule = "text" ->
                /\ "secret" \in Range(made.out) => Beyond(given.of)
                /\ "secret" \notin Range(given.of) => made.out = given.of
                /\ Patterns(made.out) = made.out
=============================================================================
