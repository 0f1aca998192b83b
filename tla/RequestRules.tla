------------------------------ MODULE RequestRules ------------------------------
(***************************************************************************)
(* The rules for requests: those of a tab, which the event loop decides by    *)
(* (PageEvents), and those of the net-rules extension, which Chrome decides   *)
(* by.  Both are compiled from what the client sends, or refused as a whole.  *)
(*                                                                            *)
(* A character is one of a few; an address of a rule is such a text with      *)
(* stars.  A behaviour is one evaluation.  Left out: bodies and headers of    *)
(* answers, base64, the regular expression apart from its groups.             *)
(*                                                                            *)
(* Code: domain/fetch_rules.rs, domain/net_rules.rs.                          *)
(***************************************************************************)
EXTENDS Naturals, Sequences, FiniteSets, SequencesExt, FiniteSetsExt, Functions

CONSTANTS
    Globs, Addresses,   \* texts, with stars
    Tables, MaxRules, MaxPatterns,
    Redirects,          \* pairs of addresses: from and to
    Filters

VARIABLES
    given,  \* a rule and what it is applied to
    made    \* what it made of it: Nothing before

vars == <<given, made>>

Nothing == [rule |-> "none"]
Refused == [rule |-> "refused"]

Init ==
    /\ given \in ([rule : {"glob"}, of : Globs, text : Addresses]
                    \cup [rule : {"table"}, of : Tables]
                    \cup [rule : {"redirect"}, of : Redirects]
                    \cup [rule : {"filter"}, of : Filters])
    /\ made = Nothing

-----------------------------------------------------------------------------
(* fetch_rules.rs.                                                           *)

\* glob_match: both are read from the left; where they differ, the last star
\* takes one character more.  star and mark are 0 before the first star.
RECURSIVE GlobFrom(_, _, _, _, _, _)
GlobFrom(p, t, pi, ti, star, mark) ==
    CASE ti > Len(t) -> \A i \in pi..Len(p) : p[i] = "*"
      [] ti <= Len(t) /\ pi <= Len(p) /\ p[pi] = t[ti] -> GlobFrom(p, t, pi + 1, ti + 1, star, mark)
      [] ti <= Len(t) /\ pi <= Len(p) /\ p[pi] # t[ti] /\ p[pi] = "*" ->
            GlobFrom(p, t, pi + 1, ti, pi, ti)
      [] OTHER -> star # 0 /\ GlobFrom(p, t, star + 1, mark + 1, star, mark + 1)

Glob(p, t) == GlobFrom(p, t, 1, 1, 0, 0)

\* A rule is sent with its id, its address, its types as they are written, and
\* its action.  RESOURCE_TYPES: what Fetch.enable takes, in this spelling only.
Types == {"XHR", "Script"}
Canonical(t) == CASE t \in {"XHR", "xhr"} -> "XHR" [] t \in {"Script", "script"} -> "Script" [] OTHER -> "none"

\* compile_rules, validate_url_pattern, compile_action, compile_headers: an id of
\* its own, an address with a scheme, types that are known, an action that is
\* allowed; an empty list of types is none.
Compiled(r) == [id |-> r.id, url |-> r.url, types |-> [i \in DOMAIN r.types |-> Canonical(r.types[i])]]
Compilable(r) ==
    /\ r.id # "" /\ "://" \in Range(r.url)
    /\ \A t \in Range(r.types) : Canonical(t) # "none"
    /\ r.action \in {"mock", "setHeaders", "block"}

\* cdp_patterns: one for every type of every rule.
Patterns(rules) ==
    UNION {IF rules[i].types = <<>> THEN {[rule |-> i, url |-> rules[i].url, type |-> "all"]}
           ELSE [rule : {i}, url : {rules[i].url}, type : Range(rules[i].types)] : i \in DOMAIN rules}

\* seeded fault: the surplus is left out, and the rest sent.
Sent_Cut(patterns) == CHOOSE S \in SUBSET patterns : Cardinality(S) = Min({MaxPatterns, Cardinality(patterns)})
\* Too many, and the table is refused.
Sent(patterns) == IF Cardinality(patterns) > MaxPatterns THEN {} ELSE patterns

Table(rules) ==
    LET compiled == [i \in DOMAIN rules |-> Compiled(rules[i])]
        patterns == Sent(Patterns(compiled))
    IN IF \/ Len(rules) > MaxRules
          \/ \E i \in DOMAIN rules : ~Compilable(rules[i])
          \/ ~IsInjective([i \in DOMAIN rules |-> rules[i].id])
          \/ patterns = {} /\ rules # <<>>
       THEN Refused
       ELSE [rule |-> "table", rules |-> compiled, patterns |-> patterns]

\* first_live_match: the type of an event is compared without its case.
Matches(r, url, type) == (r.types = <<>> \/ Canonical(type) \in Range(r.types)) /\ Glob(r.url, url)

-----------------------------------------------------------------------------
(* net_rules.rs.                                                             *)

Digits == {"0", "1", "2"}
Value(d) == CASE d = "0" -> 0 [] d = "1" -> 1 [] d = "2" -> 2

\* A $ with the digits after it is a reference.  Those of a text, as numbers:
\* to_re2_substitution and max_ref read them the same way.
RefEnd(s, i) == Max({i} \cup {j \in (i + 1)..Len(s) : \A k \in (i + 1)..j : s[k] \in Digits})
RECURSIVE NumberOf(_)
NumberOf(s) == IF s = <<>> THEN 0 ELSE 10 * NumberOf(Front(s)) + Value(Last(s))
Refs(s) ==
    {NumberOf(SubSeq(s, i + 1, RefEnd(s, i))) : i \in {j \in DOMAIN s : s[j] = "$" /\ RefEnd(s, j) > j}}

\* glob_to_anchored_regex: every star is a group.
Groups(from) == Cardinality({i \in DOMAIN from : from[i] = "*"})

\* to_re2_substitution: a reference is written with a backslash.
Substitution(to) ==
    [i \in DOMAIN to |-> IF to[i] = "$" /\ RefEnd(to, i) > i THEN "\\" ELSE to[i]]

\* compile, redirect: a reference must have its group, and there are nine.
Redirect(r) ==
    IF r.from = <<>> \/ r.to = <<>> \/ \E n \in Refs(r.to) : n = 0 \/ n > Min({Groups(r.from), 9})
    THEN Refused
    ELSE [rule |-> "redirect", priority |-> 1, to |-> Substitution(r.to)]

\* to_url_filter, for block and headers: without its scheme and its leading *. an
\* address is anchored at the domain.
Without(s, prefix) == IF IsPrefix(prefix, s) THEN SubSeq(s, Len(prefix) + 1, Len(s)) ELSE s
Filter(s) ==
    LET bare == IF IsPrefix(<<"https", "://">>, s) THEN Without(s, <<"https", "://">>)
                ELSE Without(s, <<"http", "://">>)
    IN IF s = <<>> THEN Refused
       ELSE [rule |-> "filter", priority |-> 2,
             of |-> <<"||">> \o (IF IsPrefix(<<"*", ".">>, bare) THEN Without(bare, <<"*", ".">>)
                                 ELSE Without(bare, <<"||">>))]

-----------------------------------------------------------------------------
Evaluate ==
    /\ made = Nothing
    /\ made' = CASE given.rule = "glob"     -> [rule |-> "glob", is |-> Glob(given.of, given.text)]
                 [] given.rule = "table"    -> Table(given.of)
                 [] given.rule = "redirect" -> Redirect(given.of)
                 [] given.rule = "filter"   -> Filter(given.of)
    /\ UNCHANGED given

Next == Evaluate

Spec == Init /\ [][Next]_vars

-----------------------------------------------------------------------------
(* Properties.                                                               *)

\* What a star means: any text, also none.
RECURSIVE Means(_, _)
Means(p, t) ==
    IF p = <<>> THEN t = <<>>
    ELSE IF Head(p) = "*" THEN \E n \in 0..Len(t) : Means(Tail(p), SubSeq(t, n + 1, Len(t)))
    ELSE t # <<>> /\ Head(p) = Head(t) /\ Means(Tail(p), Tail(t))

\* What Chrome makes of a substitution: a backslash with one digit is a group,
\* here the capital of its number; and what the client means: $ with a number.
RECURSIVE Chrome(_), Client(_)
Group == <<"A", "B", "C">>
Chrome(s) ==
    IF s = <<>> THEN <<>>
    ELSE IF Head(s) = "\\" THEN <<Group[Value(s[2]) + 1]>> \o Chrome(SubSeq(s, 3, Len(s)))
    ELSE <<Head(s)>> \o Chrome(Tail(s))
Client(s) ==
    IF s = <<>> THEN <<>>
    ELSE IF Head(s) = "$" /\ RefEnd(s, 1) > 1
    THEN <<Group[NumberOf(SubSeq(s, 2, RefEnd(s, 1))) + 1]>> \o Client(SubSeq(s, RefEnd(s, 1) + 1, Len(s)))
    ELSE <<Head(s)>> \o Client(Tail(s))

LeadingZero(s) == \E i \in 1..(Len(s) - 1) : s[i] = "$" /\ s[i + 1] = "0"

\* A rule does what the client was told of it.  A star means any text (but for a
\* text that has a star itself, which glob_match takes for the one of the
\* pattern).  A table that is accepted stops at Chrome exactly the requests one
\* of its rules matches at the event loop: none that was meant to be stopped goes
\* by.  A redirect that is accepted sends to the address the client wrote, with
\* the groups that are there (but for $01, which Chrome reads as group 0); and a
\* domain is filtered alike however it is written.
RulesDoAsTheySay ==
    made \notin {Nothing, Refused} =>
        CASE given.rule = "glob" ->
                "*" \in Range(given.text) \/ (made.is <=> Means(given.of, given.text))
          [] given.rule = "table" ->
                \A url \in Addresses, type \in Types :
                    (\E i \in DOMAIN made.rules : Matches(made.rules[i], url, type))
                        <=> (\E p \in made.patterns : p.type \in {"all", type} /\ Glob(p.url, url))
          [] given.rule = "redirect" ->
                LeadingZero(given.of.to) \/ Chrome(made.to) = Client(given.of.to)
          [] given.rule = "filter" ->
                /\ made = Filter(SubSeq(made.of, 2, Len(made.of)))
                /\ "://" \notin Range(made.of)
=============================================================================
