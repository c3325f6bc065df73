----------------------------- MODULE TableTools -----------------------------
(***************************************************************************)
(* The commands on the rows, columns and cells of a table (the plugin      *)
(* tabletools of the text editor) and the dialog's choice of headers (the  *)
(* plugin table).                                                          *)
(*                                                                         *)
(* A row is the sequence of the cells written in it; where a cell stands   *)
(* follows from the spans of those before and above it, as buildTableMap   *)
(* works it out.  Within a command a cell is named by the row and the      *)
(* place where it was written before it.                                   *)
(*                                                                         *)
(* The selection is a run of cells in the order of the document.  Nothing  *)
(* is done to a table that is not whole any more, where a slot has no cell *)
(* or two, or a cell reaches below the last row.                           *)
(***************************************************************************)
EXTENDS Integers, Sequences, FiniteSets, SequencesExt, FiniteSetsExt

CONSTANTS
    First,       \* the tables there are at first, as their rows
    Texts,       \* the texts in their cells
    MaxCommands  \* bound on the commands

VARIABLES
    table,    \* its rows, and how many of them are in its thead, or NoHead
    last,     \* history: the last command, and whether cells had spans before
    commands  \* counts the commands, for the bound

vars == <<table, last, commands>>

NoHead == -1
Gone == [head |-> NoHead, rows |-> <<>>]

\* text: which texts of the first table's cells have come to this one.
Cell == [text : SUBSET Texts, colSpan : Nat \ {0}, rowSpan : Nat \ {0},
         tag : {"td", "th"}]

Init ==
    /\ \E rows \in First : table = [head |-> NoHead, rows |-> rows]
    /\ last = [command |-> "none", spanned |-> FALSE] /\ commands = 0

-----------------------------------------------------------------------------
(* Where the cells are *)

\* The names of the cells, in the order of the document.
Names(rows) == [r \in DOMAIN rows |-> [c \in DOMAIN rows[r] |-> <<r, c>>]]
Written(rows) == FlattenSeq(Names(rows))
Cells(rows) == ToSet(Written(rows))

At(rows, p) == rows[p[1]][p[2]]

\* One step of buildTableMap: cell p takes the first free place of its row.
Placed(rows, m, p) ==
    LET from == IF p[1] = m.row THEN m.next ELSE 1
        k == Min({i \in from..(from + Cardinality(DOMAIN m.at)) :
                    <<p[1], i>> \notin DOMAIN m.at})
        own == (p[1]..(p[1] + At(rows, p).rowSpan - 1))
                 \X (k..(k + At(rows, p).colSpan - 1))
    IN  [row |-> p[1], next |-> k + At(rows, p).colSpan,
         at |-> [s \in own \cup DOMAIN m.at |-> IF s \in own THEN p ELSE m.at[s]]]

\* The cell of each slot <<row, column>>.
buildTableMap(rows) ==
    FoldLeft(LAMBDA m, p : Placed(rows, m, p),
             [row |-> 0, next |-> 1, at |-> <<>>], Written(rows)).at

SlotsOf(m, p) == {s \in DOMAIN m : m[s] = p}
ColumnsOf(m, p) == {s[2] : s \in SlotsOf(m, p)}
ColumnOf(m, p) == Min(ColumnsOf(m, p))
LastRow(rows, p) == p[1] + At(rows, p).rowSpan - 1

\* The cells of a row of the map, from left to right, once each.
Across(m, r) ==
    LET here == {s \in DOMAIN m : s[1] = r}
        first == {s \in here : <<r, s[2] - 1>> \notin here
                               \/ m[<<r, s[2] - 1>>] # m[s]}
        order == SetToSortSeq(first, LAMBDA s, t : s[2] < t[2])
    IN  [i \in DOMAIN order |-> m[order[i]]]

Whole(t, m) ==
    /\ DOMAIN m = (1..Len(t.rows)) \X {s[2] : s \in DOMAIN m}
    /\ \A p \in Cells(t.rows) :
         Cardinality(SlotsOf(m, p))
           = At(t.rows, p).rowSpan * At(t.rows, p).colSpan

-----------------------------------------------------------------------------
(* Changing the document *)

\* A copy of a cell, without its content, is named by one more number.
Copy(p) == Append(p, 0)
IsCopy(n) == Len(n) = 3

RowOf(names, n) == CHOOSE r \in DOMAIN names : Contains(names[r], n)
Place(row, n) == CHOOSE i \in DOMAIN row : row[i] = n
Beside(names, n, new, gap) ==
    [names EXCEPT ![RowOf(names, n)] = InsertAt(@, Place(@, n) + gap, new)]
Before(names, n, new) == Beside(names, n, new, 0)
After(names, n, new) == Beside(names, n, new, 1)

Without(names, gone) ==
    [r \in DOMAIN names |-> SelectSeq(names[r], LAMBDA n : n \notin gone)]

\* The cells that the names stand for, with what the command sets on them.
Contents(rows, names, Set(_, _)) ==
    [r \in DOMAIN names |-> [c \in DOMAIN names[r] |->
       LET n == names[r][c]
           cell == At(rows, n)
       IN  Set(n, IF IsCopy(n) THEN [cell EXCEPT !.text = {}] ELSE cell)]]

\* Rows that go are taken from the thead too.
Less(head, gone) ==
    IF head = NoHead THEN NoHead ELSE head - Cardinality({r \in gone : r <= head})

RemoveRows(t, gone) ==
    LET kept == SetToSortSeq(DOMAIN t.rows \ gone, <)
    IN  [head |-> Less(t.head, gone), rows |-> [i \in DOMAIN kept |-> t.rows[kept[i]]]]

Runs(rows) ==
    LET w == Written(rows)
    IN  UNION {{SubSeq(w, i, j) : j \in i..Len(w)} : i \in DOMAIN w}

Spans(rows) == \E p \in Cells(rows) : At(rows, p).rowSpan > 1 \/ At(rows, p).colSpan > 1

\* m is the map of the table, in all commands.
Command(name) ==
    /\ commands < MaxCommands /\ commands' = commands + 1
    /\ last' = [command |-> name, spanned |-> Spans(table.rows)]

-----------------------------------------------------------------------------
(* Rows and columns *)

\* Mutant of RowInsert: a cell that reaches over to the next row is copied too.
RowInsertCopied(m, run, above) ==
    LET rows == table.rows
        at == IF above THEN Head(run)[1] ELSE LastRow(rows, Last(run))
        names == InsertAt(Names(rows), IF above THEN at ELSE at + 1,
                          [i \in DOMAIN Across(m, at) |-> Copy(Across(m, at)[i])])
        Set(n, cell) == IF IsCopy(n) THEN [cell EXCEPT !.rowSpan = 1] ELSE cell
    IN  /\ Command("rowInsert")
        /\ table' = [head |-> IF at <= table.head THEN table.head + 1 ELSE table.head,
                     rows |-> Contents(rows, names, Set)]

\* A cell that reaches over to the neighbouring row grows, and of the others a
\* copy comes into the new row.
RowInsert(m, run, above) ==
    LET rows == table.rows
        at == IF above THEN Head(run)[1] ELSE LastRow(rows, Last(run))
        beyond == IF above THEN at - 1 ELSE at + 1
        grown == {p \in Cells(rows) :
                    {at, beyond} \subseteq {s[1] : s \in SlotsOf(m, p)}}
        rest == SelectSeq(Across(m, at), LAMBDA p : p \notin grown)
        names == InsertAt(Names(rows), IF above THEN at ELSE at + 1,
                          [i \in DOMAIN rest |-> Copy(rest[i])])
        Set(n, cell) == IF IsCopy(n) THEN [cell EXCEPT !.rowSpan = 1]
                        ELSE IF n \in grown THEN [cell EXCEPT !.rowSpan = @ + 1]
                        ELSE cell
    IN  /\ Command("rowInsert")
        /\ table' = [head |-> IF at <= table.head THEN table.head + 1 ELSE table.head,
                     rows |-> Contents(rows, names, Set)]

\* In row f of the rows from e on that go, a cell that ends there goes, unless
\* it begins above them, and one that begins there, or came there, moves to the
\* next row, behind the cell that stands left of it, wherever that is written.
Lowered(rows, m, names, e, f, p) ==
    LET k == ColumnOf(m, p)
        rest == Without(names, {p})
    IN  IF LastRow(rows, p) = f /\ p[1] >= e THEN rest
        ELSE IF RowOf(names, p) # f THEN names
        ELSE IF k = 1 THEN [rest EXCEPT ![f + 1] = <<p>> \o @]
        ELSE After(rest, m[<<f + 1, k - 1>>], p)

RowDelete(m, run) ==
    LET rows == table.rows
        e == Head(run)[1]
        a == LastRow(rows, Last(run))
        names == FoldLeft(LAMBDA d, f : FoldLeft(LAMBDA x, p : Lowered(rows, m, x, e, f, p),
                                                 d, Across(m, f)),
                          Names(rows), [i \in 1..(a - e + 1) |-> e + i - 1])
        Set(n, cell) ==
            [cell EXCEPT !.rowSpan =
               @ - Cardinality((e..a) \cap {s[1] : s \in SlotsOf(m, n)})]
    IN  /\ Command("rowDelete")
        /\ table' = IF e = 1 /\ a = Len(rows) THEN Gone
                    ELSE LET left == [r \in DOMAIN names |->
                                        IF r \in e..a THEN <<>> ELSE names[r]]
                         IN  RemoveRows([table EXCEPT !.rows = Contents(rows, left, Set)],
                                        e..a)

\* r() counts cells on the left side and columns on the right, of those
\* written in the row only.
Boundary(rows, run, left) ==
    IF left THEN Min({p[2] : p \in ToSet(run)})
    ELSE Max({FoldLeft(LAMBDA s, c : s + c.colSpan, 0, SubSeq(rows[p[1]], 1, p[2]))
                : p \in ToSet(run)})

ColumnInsert(m, run, left) ==
    LET rows == table.rows
        k == Boundary(rows, run, left)
        beyond == IF left THEN k - 1 ELSE k + 1
        here == {p \in Cells(rows) : k \in ColumnsOf(m, p)}
        grown == {p \in here : beyond \in ColumnsOf(m, p)}
        names == FoldLeft(LAMBDA d, p : IF left THEN Before(d, p, Copy(p))
                                                ELSE After(d, p, Copy(p)),
                          Names(rows), SetToSeq(here \ grown))
        Set(n, cell) == IF IsCopy(n) THEN [cell EXCEPT !.colSpan = 1]
                        ELSE IF n \in grown THEN [cell EXCEPT !.colSpan = @ + 1]
                        ELSE cell
    IN  Command("columnInsert") /\ table' = [table EXCEPT !.rows = Contents(rows, names, Set)]

\* From the last column of the first cell to the last of the last one.  The
\* table goes if a cell was taken out of each row and none was left.
ColumnDelete(m, run) ==
    LET rows == table.rows
        cut == Max(ColumnsOf(m, Head(run)))..Max(ColumnsOf(m, Last(run)))
        gone == {p \in Cells(rows) : ColumnsOf(m, p) \subseteq cut}
        names == Without(Names(rows), gone)
        Set(n, cell) ==
            [cell EXCEPT !.colSpan = @ - Cardinality(cut \cap ColumnsOf(m, n))]
    IN  /\ Command("columnDelete")
        /\ table' = IF \A r \in DOMAIN rows : rows[r] # <<>> /\ names[r] = <<>>
                    THEN Gone
                    ELSE [table EXCEPT !.rows = Contents(rows, names, Set)]

-----------------------------------------------------------------------------
(* Cells *)

\* s(): whether the cells of a run fill a rectangle is told from their number
\* of slots; the first of them takes the texts.
Merged(m, name, run) ==
    LET rows == table.rows
        e == Head(run)
        across == Max({ColumnOf(m, p) - ColumnOf(m, e) + At(rows, p).colSpan
                         : p \in ToSet(run)})
        down == Max({p[1] - e[1] + At(rows, p).rowSpan : p \in ToSet(run)})
        area == FoldLeft(LAMBDA s, p : s + At(rows, p).rowSpan * At(rows, p).colSpan,
                         0, run)
        Set(n, cell) ==
            IF n # e THEN cell
            ELSE [cell EXCEPT
                    !.text = UNION {At(rows, p).text : p \in ToSet(run)},
                    !.colSpan = IF down >= Len(rows) THEN 1 ELSE across,
                    !.rowSpan = IF across >= Max({s[2] : s \in DOMAIN m}) THEN 1
                                ELSE down]
        left == Contents(rows, Without(Names(rows), ToSet(run) \ {e}), Set)
    IN  /\ Command(name)
        /\ Len(run) > 1 /\ across * down = area
        /\ table' = RemoveRows([table EXCEPT !.rows = left],
                               {r \in DOMAIN left : left[r] = <<>>})

\* Not between the thead and the rest, whose common ancestor is the table.
Merge(m, run) ==
    /\ (Head(run)[1] <= table.head) = (Last(run)[1] <= table.head)
    /\ Merged(m, "cellMerge", run)

MergeRight(m, p) ==
    LET beside == <<p[1], ColumnOf(m, p) + At(table.rows, p).colSpan>>
    IN  beside \in DOMAIN m /\ Merged(m, "cellMergeRight", <<p, m[beside]>>)

MergeDown(m, p) ==
    LET below == <<p[1] + At(table.rows, p).rowSpan, ColumnOf(m, p)>>
    IN  below \in DOMAIN m /\ Merged(m, "cellMergeDown", <<p, m[below]>>)

\* A cell of several rows is cut between them.
VerticalSplit(m, p) ==
    LET rows == table.rows
        span == At(rows, p).rowSpan
        upper == (span + 1) \div 2
        target == p[1] + upper
        right == SelectSeq(Across(m, target),
                           LAMBDA q : q[1] = target /\ ColumnOf(m, q) > ColumnOf(m, p))
        names == IF right # <<>> THEN Before(Names(rows), Head(right), Copy(p))
                 ELSE [Names(rows) EXCEPT ![target] = Append(@, Copy(p))]
        Set(n, cell) == IF n = p THEN [cell EXCEPT !.rowSpan = upper]
                        ELSE IF IsCopy(n) THEN [cell EXCEPT !.rowSpan = span - upper]
                        ELSE cell
    IN  /\ Command("cellVerticalSplit") /\ span > 1
        /\ table' = [table EXCEPT !.rows = Contents(rows, names, Set)]

\* Under one of a single row comes a new row, over which all others grow: once
\* for each of their slots in the row.
VerticalSplitOne(m, p) ==
    LET rows == table.rows
        names == InsertAt(Names(rows), p[1] + 1, <<Copy(p)>>)
        Set(n, cell) ==
            IF n = p \/ IsCopy(n) THEN [cell EXCEPT !.rowSpan = 1]
            ELSE [cell EXCEPT !.rowSpan =
                    @ + Cardinality({s \in SlotsOf(m, n) : s[1] = p[1]})]
    IN  /\ Command("cellVerticalSplitOne") /\ At(rows, p).rowSpan = 1
        /\ table' = [head |-> IF p[1] <= table.head THEN table.head + 1 ELSE table.head,
                     rows |-> Contents(rows, names, Set)]

\* A cell of one column is cut by making the others of its column wider.
HorizontalSplit(m, p) ==
    LET rows == table.rows
        span == At(rows, p).colSpan
        Set(n, cell) ==
            IF n = p THEN [cell EXCEPT !.colSpan = (span + 1) \div 2]
            ELSE IF IsCopy(n) THEN [cell EXCEPT !.colSpan = IF span = 1 THEN 1
                                                            ELSE span \div 2]
            ELSE IF span = 1 /\ ColumnOf(m, p) \in ColumnsOf(m, n)
            THEN [cell EXCEPT !.colSpan = @ + 1]
            ELSE cell
    IN  /\ Command("cellHorizontalSplit")
        /\ table' = [table EXCEPT !.rows = Contents(rows, After(Names(rows), p, Copy(p)), Set)]

InsertCell(p, left) ==
    LET names == Names(table.rows)
    IN  /\ Command("cellInsert")
        /\ table' = [table EXCEPT !.rows =
                       Contents(@, IF left THEN Before(names, p, Copy(p))
                                           ELSE After(names, p, Copy(p)),
                                LAMBDA n, cell : cell)]

\* A row goes with its last cell; the table goes if no cell is next to those
\* that go, nor in the row before or after them in the same section.
DeleteCells(run) ==
    LET rows == table.rows
        left == Contents(rows, Without(Names(rows), ToSet(run)), LAMBDA n, cell : cell)
        Near(r, by) ==
            /\ by \in DOMAIN rows /\ rows[by] # <<>>
            /\ (r <= table.head) = (by <= table.head)
    IN  /\ Command("cellDelete")
        /\ table' =
             IF \/ \E r \in {p[1] : p \in ToSet(run)} : left[r] # <<>>
                \/ Near(Head(run)[1], Head(run)[1] - 1)
                \/ Near(Last(run)[1], Last(run)[1] + 1)
             THEN RemoveRows([table EXCEPT !.rows = left],
                             {r \in DOMAIN rows : rows[r] # <<>> /\ left[r] = <<>>})
             ELSE Gone

-----------------------------------------------------------------------------
(* Headers *)

hasColumnHeaders(t) ==
    \A r \in DOMAIN t.rows : t.rows[r] # <<>> => t.rows[r][1].tag = "th"

\* What the dialog shows of a table.
Headers(t) ==
    IF t.head # NoHead THEN IF hasColumnHeaders(t) THEN "both" ELSE "row"
    ELSE IF hasColumnHeaders(t) THEN "col" ELSE ""

Renamed(cells, tag) == [c \in DOMAIN cells |-> [cells[c] EXCEPT !.tag = tag]]

\* The first row becomes the thead; the rows of the thead go back before the
\* first of the body, and if there is none the script ends after the first.
RowHeaders(t, wanted) ==
    IF wanted /\ t.head = NoHead
    THEN [head |-> 1, rows |-> [t.rows EXCEPT ![1] = Renamed(@, "th")]]
    ELSE IF ~wanted /\ t.head # NoHead
    THEN IF t.head < Len(t.rows)
         THEN [head |-> NoHead,
               rows |-> [r \in DOMAIN t.rows |-> IF r <= t.head
                                                 THEN Renamed(t.rows[r], "td")
                                                 ELSE t.rows[r]]]
         ELSE [t EXCEPT !.rows[1] = Renamed(@, "td")]
    ELSE t

\* The first cells of the rows, up to the first row that has none.
ColumnHeaders(t, from, tag) ==
    LET empty == {r \in DOMAIN t.rows : r >= from /\ t.rows[r] = <<>>}
        end == IF empty = {} THEN Len(t.rows) ELSE Min(empty) - 1
    IN  [t EXCEPT !.rows = [r \in DOMAIN @ |->
           IF r \in from..end THEN [@[r] EXCEPT ![1].tag = tag] ELSE @[r]]]

onOk(choice) ==
    LET row == choice \in {"row", "both"}
        col == choice \in {"col", "both"}
        had == hasColumnHeaders(table)
        stops == ~row /\ table.head = Len(table.rows)
        t == RowHeaders(table, row)
    IN  /\ Command("tableProperties")
        /\ table' = IF stops \/ had = col THEN t
                    ELSE IF col THEN ColumnHeaders(t, 1, "th")
                    ELSE ColumnHeaders(t, Max({t.head, 0}) + 1, "td")

Commands(m) ==
    \/ \E run \in Runs(table.rows) :
         \/ \E side \in BOOLEAN : RowInsert(m, run, side) \/ ColumnInsert(m, run, side)
         \/ RowDelete(m, run) \/ ColumnDelete(m, run)
         \/ Merge(m, run) \/ DeleteCells(run)
    \/ \E p \in Cells(table.rows) :
         \/ MergeRight(m, p) \/ MergeDown(m, p)
         \/ VerticalSplit(m, p) \/ VerticalSplitOne(m, p) \/ HorizontalSplit(m, p)
         \/ \E side \in BOOLEAN : InsertCell(p, side)
    \/ \E choice \in {"", "row", "col", "both"} : onOk(choice)

Next ==
    LET m == buildTableMap(table.rows)
    IN  table # Gone /\ Whole(table, m) /\ Commands(m)

Spec == Init /\ [][Next]_vars

-----------------------------------------------------------------------------

\* Types; no text is in two cells.
TypeOK ==
    /\ commands \in 0..MaxCommands
    /\ table.head \in NoHead..Len(table.rows)
    /\ \A p \in Cells(table.rows) : At(table.rows, p) \in Cell
    /\ \A p, q \in Cells(table.rows) :
         p # q => At(table.rows, p).text \cap At(table.rows, q).text = {}

\* The commands keep a table whole, each slot of its rectangle in one cell. Not
\* so: those on single cells; a merge of a run that is no rectangle but has the
\* number of slots of one; and in a table with spans: the deletion of a row
\* from which a cell moves behind one that is written further up, a merge that
\* removes a row others reach over, and the cut of a cell beside a wide one,
\* which grows by a row for each of its columns (ckeditor.js:895-905).
KeptWhole ==
    \/ Whole(table, buildTableMap(table.rows))
    \/ last.command \in {"cellInsert", "cellDelete", "cellMerge"}
    \/ /\ last.spanned
       /\ last.command \in {"rowDelete", "cellMergeRight", "cellMergeDown",
                           "cellVerticalSplitOne"}

TextsOf(rows) == UNION {At(rows, p).text : p \in Cells(rows)}

\* In every step: a text is lost only with a deleted cell, or one that stood
\* wholly in the rows or columns deleted: a cell that reaches further keeps its
\* own, and a merge collects them (ckeditor.js:894-902).
TextsKept ==
    LET m == buildTableMap(table.rows)
        lost == TextsOf(table.rows) \ TextsOf(table'.rows)
        Losers == {p \in Cells(table.rows) : At(table.rows, p).text \cap lost # {}}
        RowsOf(p) == {s[1] : s \in SlotsOf(m, p)}
    IN  lost = {} \/ \E run \in Runs(table.rows) :
          \/ /\ RowDelete(m, run)
             /\ \A p \in Losers :
                  RowsOf(p) \subseteq Head(run)[1]..LastRow(table.rows, Last(run))
          \/ /\ ColumnDelete(m, run)
             /\ \A p \in Losers : ColumnsOf(m, p) \subseteq
                  ColumnOf(m, Head(run))..Max(ColumnsOf(m, Last(run)))
          \/ DeleteCells(run) /\ (Losers \subseteq ToSet(run) \/ table' = Gone)

\* In every step: the headers chosen in the dialog are those it shows when it
\* is opened again. Not so if all rows are in the thead, if a row has no cells,
\* if "both" is changed to "column", which forgets the first row's, and, after
\* that, if the cells below have headers that the dialog does not see
\* (table.js:8-14).
HeadersChosen ==
    \A choice \in {"", "row", "col", "both"} : onOk(choice) =>
       \/ Headers(table') = choice
       \/ table'.head = Len(table'.rows) \/ <<>> \in ToSet(table.rows)
       \/ Headers(table) = "both" /\ choice = "col"
       \/ /\ Headers(table) = "" /\ choice = "row"
          /\ \A r \in DOMAIN table.rows : r > 1 => table.rows[r][1].tag = "th"
=============================================================================
