------------------------------ MODULE TableExtract ------------------------------
(***************************************************************************)
(* A table of a page made into columns and rows: a function in the page       *)
(* collects the rows that are seen, up to a budget of cells; then rows of      *)
(* names are told from rows of data, merged cells are spread over a grid, the *)
(* rows are put in their declared order, and what was left out is said.       *)
(*                                                                            *)
(* A cell is known by its row and its place in it: that is its text.  A       *)
(* behaviour is one extraction.  Left out: how the table is found, nested     *)
(* tables, what is empty or not in a cell, the caption.                       *)
(*                                                                            *)
(* Code: domain/table_extract.rs, domain/page_control.rs.                     *)
(***************************************************************************)
EXTENDS Naturals, Sequences, FiniteSets, SequencesExt, FiniteSetsExt, TLC

CONSTANTS
    Tables,   \* sequences of rows, see Row
    None,
    Budget    \* CELL_BUDGET

VARIABLES
    table,  \* the table of the page, and the number of rows it declares
    made    \* what was made of it: None before

vars == <<table, made>>

\* A row: the part of the table it is in, whether it is seen, the number it
\* declares, and its cells.  A cell: whether it is a th, its spans, and the column
\* it declares.
Row(kind, hidden, index, cells) == [kind |-> kind, hidden |-> hidden, index |-> index, cells |-> cells]
Cell(th, rs, cs, col) == [th |-> th, rs |-> rs, cs |-> cs, col |-> col]

Init ==
    /\ table \in [rows : Tables, declared : {None, 2, 9}]
    /\ made = None

-----------------------------------------------------------------------------
(* EXTRACT_COLLECT_FN.                                                       *)

\* Rows by their number: those that are seen, and of them those before the first
\* that is over the budget.
Seen == SelectSeq([i \in DOMAIN table.rows |-> i], LAMBDA i : ~table.rows[i].hidden)
CellsUpTo(n) == FoldLeft(LAMBDA sum, i : sum + Len(table.rows[i].cells), 0, SubSeq(Seen, 1, n))
Collected == SelectSeq([i \in DOMAIN Seen |-> i], LAMBDA n : \A m \in 1..n : CellsUpTo(m) <= Budget)
Rows == [n \in DOMAIN Collected |-> Seen[Collected[n]]]
Partial == Len(Rows) < Len(Seen)

-----------------------------------------------------------------------------
(* normalize.                                                                *)

AllTh(i) == table.rows[i].cells # <<>> /\ \A c \in ToSet(table.rows[i].cells) : c.th

\* Rows of names: those of the thead, and without one the rows of th that come
\* before all data; never those of the tfoot.
Split ==
    FoldLeft(LAMBDA acc, i :
                IF CASE table.rows[i].kind = "thead" -> TRUE
                     [] table.rows[i].kind = "tfoot" -> FALSE
                     [] OTHER -> acc.names = <<>> /\ acc.data = <<>> /\ AllTh(i)
                THEN [acc EXCEPT !.names = Append(@, i)]
                ELSE [acc EXCEPT !.data = Append(@, i)],
             [names |-> <<>>, data |-> <<>>], Rows)

\* expand_grid, one cell: at the column it declares or the next one, the first
\* from there that no cell above or before covers; its span covers the rest.
Put(acc, r, i, j) ==
    LET cell == table.rows[i].cells[j]
        want == IF cell.col # None THEN cell.col ELSE acc.cursor
        c == Min({k \in want..(want + 20) : <<r, k>> \notin acc.covered})
        rest == ((r..(r + cell.rs - 1)) \X (c..(c + cell.cs - 1))) \ {<<r, c>>}
    IN [acc EXCEPT
          !.at = (<<r, c>> :> <<i, j>>) @@ @,
          !.covered = @ \cup rest,
          !.by = [p \in rest |-> <<r, c>>] @@ @,
          !.spans = IF rest = {} THEN @ ELSE @ \cup {<<r, c>>},
          !.width = Max({@, c + cell.cs - 1}),
          !.cursor = c + cell.cs]

\* expand_grid: rows are numbered as they come.
Grid(rows) ==
    FoldLeft(LAMBDA acc, r :
                FoldLeft(LAMBDA a, j : Put(a, r, rows[r], j), [acc EXCEPT !.cursor = 1],
                         [j \in DOMAIN table.rows[rows[r]].cells |-> j]),
             [at |-> <<>>, covered |-> {}, by |-> <<>>, spans |-> {}, width |-> 0, cursor |-> 1],
             [r \in DOMAIN rows |-> r])

\* A column's path: from above, the name that stands there, or the one in the
\* same row that is spread over it.
Path(grid, n, c) ==
    LET name(r) == CASE <<r, c>> \in DOMAIN grid.at -> {grid.at[<<r, c>>]}
                     [] <<r, c>> \notin DOMAIN grid.at /\ <<r, c>> \in DOMAIN grid.by ->
                           IF grid.by[<<r, c>>][1] = r THEN {grid.at[grid.by[<<r, c>>]]} ELSE {}
                     [] OTHER -> {}
        th(r) == {p \in name(r) : table.rows[p[1]].cells[p[2]].th}
    IN SelectSeq([r \in 1..n |-> th(r)], LAMBDA s : s # {})

\* Rows are sorted only if every one of them declares its number; Order gives the
\* row of the grid that comes at each place.
Order(data) ==
    LET index(r) == table.rows[data[r]].index
    IN IF \A r \in DOMAIN data : index(r) # None
       THEN SetToSortSeq(DOMAIN data, LAMBDA r, s : index(r) < index(s) \/ (index(r) = index(s) /\ r < s))
       ELSE [r \in DOMAIN data |-> r]

\* seeded fault: the spans keep the numbers their rows had before they were sorted.
Moved_Not(order, r) == r
\* Where a row of the grid comes to stand.
Moved(order, r) == CHOOSE k \in DOMAIN order : order[k] = r

Normalized ==
    LET names == Split.names
        data == Split.data
        head == Grid(names)
        grid == Grid(data)
        width == Max({head.width, grid.width})
        order == Order(data)
        kept == IF width = 0 THEN 0 ELSE Min({Len(data), Budget \div width})
        dropped == Max({Len(data) - kept,
                        IF Len(Seen) > Len(names) + kept THEN Len(Seen) - Len(names) - kept ELSE 0})
        reasons == (IF table.declared # None /\ table.declared > Len(table.rows) THEN {"declared"} ELSE {})
                       \cup (IF dropped > 0 \/ Partial THEN {"truncated"} ELSE {})
                       \cup (IF kept = 0 THEN {"empty"} ELSE {})
    IN [rows |-> [k \in 1..kept |->
                    [c \in 1..width |-> IF <<order[k], c>> \in DOMAIN grid.at
                                        THEN grid.at[<<order[k], c>>] ELSE <<0, 0>>]],
        names |-> Len(names),
        columns |-> [c \in 1..width |-> Path(head, Len(names), c)],
        spans |-> {[row |-> Moved(order, s[1]), col |-> s[2], of |-> grid.at[s]] :
                      s \in {t \in grid.spans : Moved(order, t[1]) <= kept}},
        complete |-> IF reasons = {} THEN "unknown" ELSE "incomplete"]

Normalize ==
    /\ made = None
    /\ made' = Normalized
    /\ UNCHANGED table

Next == Normalize

Spec == Init /\ [][Next]_vars

-----------------------------------------------------------------------------
(* Properties.                                                               *)

\* The cells a row shows, from the left; <<0, 0>> is no cell.
Shown(row) == SelectSeq(row, LAMBDA p : p # <<0, 0>>)
RowOf(row) == Shown(row)[1][1]

\* Two cells of a row that declare the same column hide one another, and one that
\* declares a column left of the cell before it is out of order.
Orderly(i) ==
    \A j, k \in DOMAIN table.rows[i].cells :
        j < k => table.rows[i].cells[k].col = None

\* A table says what it is.  Each of its rows is a row of the page with all of its
\* cells, in their order, at most one row twice; rows that declare their numbers
\* come in their order; what a span says of a cell stands where the span says, also
\* after sorting; each column is named by the cells over it, from above; and only a
\* table that shows all the page has of it is not called incomplete
\* (table_extract.rs, coverage: completeness is never made up).
TableIsHonest ==
    made # None =>
        LET shown == {k \in DOMAIN made.rows : Shown(made.rows[k]) # <<>>} IN
        /\ \A k \in shown :
              LET i == RowOf(made.rows[k]) IN
              Orderly(i) => Shown(made.rows[k]) = [j \in DOMAIN table.rows[i].cells |-> <<i, j>>]
        /\ \A k, l \in shown :
              k # l => /\ RowOf(made.rows[k]) # RowOf(made.rows[l])
                       /\ k < l /\ (\A n \in ToSet(Split.data) : table.rows[n].index # None) =>
                             table.rows[RowOf(made.rows[k])].index <= table.rows[RowOf(made.rows[l])].index
        /\ \A s \in made.spans : made.rows[s.row][s.col] = s.of
        /\ \A c \in DOMAIN made.columns : \A r \in DOMAIN made.columns[c] : Cardinality(made.columns[c][r]) = 1
        /\ made.complete = "unknown" => Len(made.rows) + made.names = Len(Seen) /\ made.rows # <<>>
=============================================================================
