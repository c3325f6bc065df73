---------------------------- MODULE CellProperties ----------------------------
(***************************************************************************)
(* The dialog of the properties of the selected cells of a table           *)
(* (tableCell.js).  A field shows what the cells have in common, nothing   *)
(* when they differ, and is written to the cells only if its value is not  *)
(* the one that was set up.                                                *)
(*                                                                         *)
(* Left out are the shape of the table, which the spans change (for it see *)
(* TableTools), and what is not a number in a field of numbers, which the  *)
(* dialog does not accept (Dialogs).                                       *)
(***************************************************************************)
EXTENDS Naturals, FiniteSets, Sequences

CONSTANTS
    First,      \* the set of tables: sequences of cells
    Typed,      \* of each field the values the user gives it
    None,       \* no style, no attribute, no dialog
    MaxDialogs  \* bound on the dialogs confirmed

VARIABLES
    table,     \* the sequence of the cells: [style, attribute, unit, name]; the
               \* first two are functions of the fields, the unit that of the width
    selected,  \* the cells of the dialog, in their order
    setup,     \* what each field showed first, or None: no dialog
    shown,     \* what each field shows
    confirmed  \* how many dialogs were

vars == <<table, selected, setup, shown, confirmed>>

\* The fields kept as a style, or else as an attribute of the cell.
Styled == {"width", "height", "wordWrap", "hAlign", "vAlign", "bgColor", "borderColor"}
Spans == {"rowSpan", "colSpan"}
Fields == Styled \cup Spans \cup {"widthType", "cellType"}

Given(v) == IF v = None THEN "" ELSE v

\* What a field reads in a cell; None is the undefined value.
Read(f, cell) ==
    CASE f = "widthType" -> cell.unit
      [] f = "cellType" -> cell.name
      [] f \in Spans -> IF cell.attribute[f] = "1" THEN None ELSE cell.attribute[f]
      [] f = "wordWrap" -> IF {cell.style[f], cell.attribute[f]} = {None} THEN None ELSE "no"
      [] OTHER -> Given(IF cell.style[f] # None THEN cell.style[f] ELSE cell.attribute[f])

Default(f) ==
    CASE f = "wordWrap" -> "yes" [] f = "widthType" -> "px" [] f = "cellType" -> "td"
      [] OTHER -> ""

\* d(): cells that differ show nothing; an undefined value leaves the default.
SetUp(f, cells) ==
    LET values == {Read(f, table[i]) : i \in cells}
    IN  IF Cardinality(values) > 1 THEN ""
        ELSE IF values = {None} THEN Default(f)
        ELSE CHOOSE v \in values : TRUE

ShownAll(cells) == [f \in Fields |-> SetUp(f, cells)]

Init ==
    /\ table \in First
    /\ selected = {} /\ setup = None /\ shown = None /\ confirmed = 0

onShow(cells) ==
    /\ setup = None /\ confirmed < MaxDialogs
    /\ selected' = cells
    /\ setup' = ShownAll(cells) /\ shown' = setup'
    /\ UNCHANGED <<table, confirmed>>

Type(f, v) ==
    /\ setup # None
    /\ shown' = [shown EXCEPT ![f] = v]
    /\ UNCHANGED <<table, selected, setup, confirmed>>

Cancel ==
    /\ setup # None
    /\ setup' = None /\ shown' = None
    /\ UNCHANGED <<table, selected, confirmed>>

-----------------------------------------------------------------------------
(* What is written to a cell *)

Touched(f) == shown[f] # setup[f]

\* A width has the unit that is shown, or else the cell's; without any it is no
\* style, so that the browser keeps the one before.
Width(cell) ==
    LET unit == IF shown["widthType"] # "" THEN shown["widthType"] ELSE cell.unit
    IN  CASE shown["width"] = "" -> [style |-> None, unit |-> None]
          [] shown["width"] # "" /\ unit = None ->
               [style |-> cell.style["width"],
                unit |-> IF cell.style["width"] = None THEN None ELSE cell.unit]
          [] OTHER -> [style |-> shown["width"], unit |-> unit]

Style(f, cell) ==
    CASE f = "width" -> Width(cell).style
      [] f = "wordWrap" -> IF shown[f] = "no" THEN "no" ELSE None
      [] OTHER -> IF shown[f] = "" THEN None ELSE shown[f]

\* Each field that was touched takes the attribute away; the unit has no commit.
Committed(cell) ==
    [style |-> [f \in Styled |-> IF Touched(f) THEN Style(f, cell) ELSE cell.style[f]],
     attribute |-> [f \in Styled \cup Spans |->
                      IF ~Touched(f) THEN cell.attribute[f]
                      ELSE IF f \in Spans /\ shown[f] \notin {"", "1"} THEN shown[f] ELSE None],
     unit |-> IF Touched("width") THEN Width(cell).unit ELSE cell.unit,
     name |-> IF Touched("cellType") THEN shown["cellType"] ELSE cell.name]

onOk ==
    /\ setup # None
    /\ table' = [i \in DOMAIN table |->
                   IF i \in selected THEN Committed(table[i]) ELSE table[i]]
    /\ setup' = None /\ shown' = None /\ confirmed' = confirmed + 1
    /\ UNCHANGED selected

Next ==
    \/ \E cells \in SUBSET DOMAIN table \ {{}} : onShow(cells)
    \/ \E f \in Fields : \E v \in Typed[f] : Type(f, v)
    \/ Cancel \/ onOk

Spec == Init /\ [][Next]_vars

-----------------------------------------------------------------------------
(* Properties *)

\* Every part of the state has its type.
TypeOK ==
    /\ selected \subseteq DOMAIN table
    /\ setup # None => DOMAIN setup = Fields /\ DOMAIN shown = Fields
    /\ \A i \in DOMAIN table :
         /\ DOMAIN table[i].style = Styled /\ DOMAIN table[i].attribute = Styled \cup Spans
         /\ table[i].unit \in {"px", "%", None} /\ table[i].name \in {"td", "th"}

Mixed(f) == Cardinality({Read(f, table[i]) : i \in selected}) > 1

\* What a cell reads when the field says v.
Means(f, v) ==
    CASE f \in Spans /\ v \in {"", "1"} -> None
      [] f = "wordWrap" /\ v = "yes" -> None
      [] OTHER -> v

\* In every step: after "OK" each cell of the dialog reads what the field
\* shows, whether the user chose it or not; where it shows nothing for cells
\* that differ, each keeps its own (and so they cannot be emptied at once).
\* Two exceptions are the code's: the unit, which has no commit of its own, and
\* a new width for a cell whose unit is not known while none is shown (commit,
\* tableCell.js).
ShownIsRead ==
    onOk =>
       \A f \in Fields \ {"widthType"}, i \in selected :
          IF shown[f] = "" /\ Mixed(f) THEN Read(f, table'[i]) = Read(f, table[i])
          ELSE \/ Read(f, table'[i]) = Means(f, shown[f])
               \/ f = "width" /\ shown["widthType"] = "" /\ table[i].unit = None

\* In every step: a look at the dialog changes nothing, neither the style nor
\* the attribute of a cell, and "OK" no cell that was not selected; and a unit
\* is never left of a width that was taken away.
LookChangesNothing ==
    onOk =>
       \A i \in DOMAIN table :
          /\ shown = setup \/ i \notin selected => table'[i] = table[i]
          /\ table'[i].unit # None => Read("width", table'[i]) # ""
=============================================================================
