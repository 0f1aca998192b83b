------------------------------- MODULE HoverScan -------------------------------
(***************************************************************************)
(* What a snapshot says of hovering: the style sheets the page has told of    *)
(* are read one by one, the selectors with :hover are taken out of them and   *)
(* asked for, and the elements they meet are marked.  Budgets bound the       *)
(* sheets, their size and the rules; a status says whether all of it was      *)
(* seen.  Sheets come and go while the scan is under way.                     *)
(*                                                                            *)
(* A sheet is a sequence of rules.  A rule has its elements: those that are   *)
(* to be hovered and those that then appear.  Left out: the text of a sheet   *)
(* (its walk and its selectors are in HoverRules).                            *)
(*                                                                            *)
(* Code: application/page_service.rs, domain/page_control.rs.                 *)
(***************************************************************************)
EXTENDS Naturals, Sequences, SequencesExt

CONSTANTS
    Sheets,      \* a set of numbers: the ids sort
    None,
    Texts,       \* what may be in a sheet: rules, or None for a text over its budget
    MaxSheets,   \* MAX_HOVER_SHEETS
    MaxRules,    \* MAX_HOVER_RULES
    MaxChanges   \* bound: sheets that come, go or are disabled

VARIABLES
    sheets,   \* the registry: what was told of each sheet
    text,     \* what is in each sheet
    window,   \* the time is not over in which sheets are told of after CSS.enable
    scan,     \* the scan under way
    changes

vars == <<sheets, text, window, scan, changes>>

\* Elements 1..3 have references; a rule names triggers and reveals among them.
Elements == 1..3
\* History: what a scan may miss.  A blank answer is a success that holds nothing.
Reasons == {"many", "unread", "blank", "long", "rules", "hits"}
Idle == [pc |-> "idle", list |-> <<>>, rules |-> <<>>, cut |-> FALSE, missed |-> {},
         triggers |-> {}, reveals |-> {}, marks |-> <<>>, status |-> None]

TypeOK ==
    /\ sheets \in [Sheets -> {"none", "regular", "disabled", "other"}]
    /\ text \in [Sheets -> Texts]
    /\ window \in BOOLEAN
    /\ scan.pc \in {"idle", "wait", "read", "ask", "bridge"}
    /\ scan.missed \subseteq Reasons
    /\ scan.status \in {None, "ok", "truncated", "skipped", "error"}
    /\ changes \in 0..MaxChanges

Init ==
    /\ sheets = [s \in Sheets |-> "regular"]
    /\ text \in [Sheets -> Texts]
    /\ window \in BOOLEAN
    /\ scan = Idle
    /\ changes = 0

-----------------------------------------------------------------------------
(* styleSheetAdded, styleSheetRemoved, styleSheetChanged; a new document.    *)

SheetTold(s) ==
    /\ scan.pc # "idle" /\ changes < MaxChanges
    /\ changes' = changes + 1
    /\ \E kind \in {"none", "regular", "disabled", "other"} \ {sheets[s]} :
          sheets' = [sheets EXCEPT ![s] = kind]
    /\ UNCHANGED <<text, window, scan>>

WindowCloses ==
    /\ window
    /\ window' = FALSE
    /\ UNCHANGED <<sheets, text, scan, changes>>

\* reset_sheet_registry: a new document takes the sheets and opens the window.
NewDocument ==
    /\ scan.pc # "idle" /\ changes < MaxChanges
    /\ changes' = changes + 1
    /\ sheets' = [s \in Sheets |-> "none"]
    /\ window' = TRUE
    /\ UNCHANGED <<text, scan>>

-----------------------------------------------------------------------------
(* hover_scan.                                                               *)

OnlyScan == UNCHANGED <<sheets, text, window, changes>>
End(status, marks) == scan' = [scan EXCEPT !.pc = "idle", !.status = status, !.marks = marks]

Begin ==
    /\ scan = Idle
    /\ scan' = [Idle EXCEPT !.pc = "wait"]
    /\ OnlyScan

Regular == {s \in Sheets : sheets[s] = "regular"}

\* wait_sheets, then the list: without a sheet there is nothing to scan; only
\* so many are read, in the order of their ids.
Listed ==
    /\ scan.pc = "wait"
    /\ (\A s \in Sheets : sheets[s] = "none") => ~window
    /\ IF Regular = {} THEN End("skipped", <<>>)
       ELSE LET all == SetToSortSeq(Regular, <)
                over == Len(all) > MaxSheets
            IN scan' = [scan EXCEPT !.pc = "read", !.cut = over,
                                    !.missed = IF over THEN {"many"} ELSE {},
                                    !.list = IF over THEN SubSeq(all, 1, MaxSheets) ELSE all]
    /\ OnlyScan

\* seeded fault: a sheet that cannot be read is passed over in silence.
Unread_Silent == scan.cut
Unread == TRUE

Missing(next, reason) == [next EXCEPT !.missed = @ \cup {reason}]
Hovers(rules) == \E r \in Range(rules) : r.hover

\* getStyleSheetText of the next sheet: gone by now, or failed; answered without
\* a text, and passed over; over the budget of its size; or read, as far as the
\* rules have room (scan_hover_rules).
Read ==
    /\ scan.pc = "read" /\ scan.list # <<>>
    /\ LET s == Head(scan.list)
           room == MaxRules - Len(scan.rules)
           next == [scan EXCEPT !.list = Tail(@)]
           short == [next EXCEPT !.cut = TRUE]
       IN \/ scan' = Missing([next EXCEPT !.cut = Unread], "unread")
          \/ scan' = Missing(next, "blank")
          \/ /\ sheets[s] \notin {"none", "other"} /\ text[s] = None
             /\ scan' = Missing(short, "long")
          \/ /\ sheets[s] \notin {"none", "other"} /\ text[s] # None
             /\ scan' = IF Len(text[s]) <= room THEN [next EXCEPT !.rules = @ \o text[s]]
                        ELSE Missing([short EXCEPT !.rules = @ \o SubSeq(text[s], 1, room),
                                                   !.list = <<>>], "rules")
    /\ OnlyScan

\* No rule is about hovering.
Extracted ==
    /\ scan.pc = "read" /\ scan.list = <<>>
    /\ IF Hovers(scan.rules) THEN scan' = [scan EXCEPT !.pc = "ask"]
       ELSE End(IF scan.cut THEN "truncated" ELSE "skipped", <<>>)
    /\ OnlyScan

\* hover_query_hits, for the next rule: its elements; some of them when there are
\* too many, none when it fails; an answer without a list; a selector that is not
\* valid is passed over.
Ask ==
    /\ scan.pc = "ask" /\ scan.rules # <<>>
    /\ LET r == Head(scan.rules)
           next == [scan EXCEPT !.rules = Tail(@)]
       IN IF ~(r.hover /\ r.valid) THEN scan' = next
          ELSE \/ scan' = Missing([next EXCEPT !.cut = TRUE], "hits")
               \/ scan' = Missing(next, "blank")
               \/ scan' = [next EXCEPT !.triggers = @ \cup r.triggers,
                                       !.reveals = @ \cup r.reveals]
    /\ OnlyScan

Asked ==
    /\ scan.pc = "ask" /\ scan.rules = <<>>
    /\ scan' = [scan EXCEPT !.pc = "bridge"]
    /\ OnlyScan

\* What is to be hovered is not marked as what appears.
Mark(e) == IF e \in scan.triggers THEN "hover" ELSE IF e \in scan.reveals THEN "reveal" ELSE None

\* pushNodesByBackendIdsToFrontend: as many answers as questions, or no marks.
Bridge ==
    /\ scan.pc = "bridge"
    /\ \/ End("error", <<>>)
       \/ End(IF scan.cut THEN "truncated" ELSE "ok", [e \in Elements |-> Mark(e)])
    /\ OnlyScan

\* The snapshot is cut, or returned.
Return ==
    /\ scan # Idle
    /\ scan' = Idle
    /\ OnlyScan

Next ==
    \/ \E s \in Sheets : SheetTold(s)
    \/ WindowCloses \/ NewDocument
    \/ Begin \/ Listed \/ Read \/ Extracted \/ Ask \/ Asked \/ Bridge \/ Return

Spec == Init /\ [][Next]_vars

-----------------------------------------------------------------------------
(* Properties.                                                               *)

\* A scan that says ok, or that there was nothing, has missed nothing of the
\* sheets that were registered when it listed them: none left out, unread, cut
\* or asked for in vain (page_service.rs, HoverOutcome: honest evidence).
\* Excepted is a blank answer: a sheet that is answered without a text, a
\* selector without a list of nodes, is passed over and nothing says so
\* (page_service.rs, hover_scan 3250-3256, hover_query_hits 3343-3347).
ScanIsHonest == scan.status \in {"ok", "skipped"} => scan.missed \subseteq {"blank"}
=============================================================================
