-------------------------------- MODULE Toolbar --------------------------------
(***************************************************************************)
(* The toolbar of a text editor (the plugin toolbar of ckeditor.js and the *)
(* groups of config.js): the buttons that the plugins offer, each with a   *)
(* group and an order, are put into the rows that the configuration names, *)
(* those apart that the content rules do not allow, and the keys of the    *)
(* keyboard move between them.                                             *)
(***************************************************************************)
EXTENDS Integers, SequencesExt

CONSTANTS
    Offered,   \* the sequence of what the plugins offer: [name, group, order, kind]
    None       \* nothing

VARIABLES
    allowed,   \* the names of those that the content rules and removeButtons leave
    toolbars,  \* the toolbars, each a sequence of items
    focus      \* the place with the focus, <<toolbar, item>>, or None: the editor

vars == <<allowed, toolbars, focus>>

Group(n, subgroups) == [name |-> n, groups |-> subgroups]
Break == Group("/", <<>>)

toolbarGroups ==
    <<Group("clipboard", <<"clipboard", "undo">>),
      Group("editing", <<"find", "selection", "spellchecker">>),
      Group("links", <<>>),
      Group("insert", <<>>),
      Group("forms", <<>>),
      Group("tools", <<>>),
      Group("document", <<"mode", "document", "doctools">>),
      Group("others", <<>>),
      Break,
      Group("basicstyles", <<"basicstyles", "cleanup">>),
      Group("paragraph", <<"list", "indent", "blocks", "align", "bidi">>),
      Group("styles", <<>>),
      Group("colors", <<>>),
      Group("about", <<>>)>>

-----------------------------------------------------------------------------
(* Which items come where *)

\* Those without an order come last, and equal ones as they were offered.
Before(i, j) ==
    LET a == Offered[i].order  b == Offered[j].order
    IN  IF a = b THEN i < j ELSE a >= 0 /\ (b < 0 \/ a < b)

InGroup(key) ==
    SetToSortSeq({i \in DOMAIN Offered : Offered[i].group = key}, Before)

Keys(row) ==
    Append(toolbarGroups[row].groups, toolbarGroups[row].name)

\* A group is emptied where it is named first.
Taken(row, n) ==
    \/ \E r \in 1..row - 1 : Keys(row)[n] \in ToSet(Keys(r))
    \/ \E k \in 1..n - 1 : Keys(row)[k] = Keys(row)[n]

\* The items of a row; a "-" comes between its groups.
Filled(row) ==
    LET keys == Keys(row)
        parts == [n \in DOMAIN keys |-> IF Taken(row, n) THEN <<>> ELSE InGroup(keys[n])]
        kept(part) == SelectSeq([k \in DOMAIN part |-> Offered[part[k]]],
                                LAMBDA p : p.name \in allowed)
        names(part) == [k \in DOMAIN kept(part) |-> kept(part)[k].name]
    IN  FoldLeft(LAMBDA row_, part :
                   IF part = <<>> THEN row_
                   ELSE [begun |-> TRUE,
                         items |-> row_.items \o (IF row_.begun THEN <<"-">> ELSE <<>>)
                                     \o names(part)],
                 [begun |-> FALSE, items |-> <<>>], parts).items

KindOf(name) == Offered[CHOOSE i \in DOMAIN Offered : Offered[i].name = name].kind

\* A "-" is shown when something follows, and only after an item that may be
\* grouped, as a list of choices may not be.
Rendered(items) ==
    FoldLeft(LAMBDA bar, p :
               IF p = "-" THEN [bar EXCEPT !.separator = bar.grouped]
               ELSE [shown |-> bar.shown \o (IF bar.separator THEN <<"-">> ELSE <<>>) \o <<p>>,
                     grouped |-> KindOf(p) # "combo", separator |-> FALSE],
             [shown |-> <<>>, grouped |-> FALSE, separator |-> FALSE], items).shown

\* A row without items makes no toolbar.
Toolbox ==
    SelectSeq([row \in DOMAIN toolbarGroups |-> Rendered(Filled(row))], LAMBDA bar : bar # <<>>)

-----------------------------------------------------------------------------
(* The keys *)

CanFocus(t, k) == toolbars[t][k] # "-"

\* The first item of a toolbar that can have the focus; with none the code
\* fails.
Entry(t) == <<t, CHOOSE k \in DOMAIN toolbars[t] :
                   CanFocus(t, k) /\ \A j \in 1..k - 1 : ~CanFocus(t, j)>>

\* n steps along a toolbar or along the toolbars, from the end to the start.
Around(k, n, length) == ((k - 1 + n) % length) + 1

Beside(at, n) ==
    LET bar == toolbars[at[1]]
        steps == CHOOSE s \in 1..Len(bar) :
                   /\ CanFocus(at[1], Around(at[2], n * s, Len(bar)))
                   /\ \A r \in 1..s - 1 : ~CanFocus(at[1], Around(at[2], n * r, Len(bar)))
    IN  <<at[1], Around(at[2], n * steps, Len(bar))>>

Item(at) == toolbars[at[1]][at[2]]

\* Where a key leads; Escape leads to the editor, and one that executes the item
\* (Enter, Space, and Down where there is a panel to open) leaves the focus.
Moved(at, key) ==
    CASE key = "Tab" -> Entry(Around(at[1], 1, Len(toolbars)))
      [] key = "Shift+Tab" -> Entry(Around(at[1], -1, Len(toolbars)))
      [] key = "Right" -> Beside(at, 1)
      [] key \in {"Left", "Up"} -> Beside(at, -1)
      [] key = "Down" -> IF KindOf(Item(at)) = "button" THEN Beside(at, 1) ELSE at
      [] key = "Escape" -> None
      [] OTHER -> at

KeyCodes == {"Tab", "Shift+Tab", "Right", "Left", "Up", "Down", "Escape", "Enter", "Space"}

-----------------------------------------------------------------------------
Init ==
    /\ allowed \in SUBSET {Offered[i].name : i \in DOMAIN Offered}
    /\ toolbars = Toolbox
    /\ focus = None

\* Alt+F10, the command toolbarFocus: without toolbars nothing has the focus.
toolbarFocus ==
    /\ focus = None /\ toolbars # <<>>
    /\ focus' = Entry(1)
    /\ UNCHANGED <<allowed, toolbars>>

Press(key) ==
    /\ focus # None
    /\ focus' = Moved(focus, key)
    /\ UNCHANGED <<allowed, toolbars>>

Next == toolbarFocus \/ \E key \in KeyCodes : Press(key)

Spec == Init /\ [][Next]_vars

-----------------------------------------------------------------------------
(* Properties *)

Places == UNION {{t} \X DOMAIN toolbars[t] : t \in DOMAIN toolbars}

\* Every part of the state has its type, and what has the focus can have it.
TypeOK ==
    focus # None => focus \in Places /\ CanFocus(focus[1], focus[2])

\* Every item that is allowed, in a group that the configuration names, is in
\* the toolbars exactly once, no other is, those of a group in their order; and
\* a separator stands between two items (toolbarGroups, getItems, fillGroup).
EachPlacedOnce ==
    LET named == UNION {ToSet(Keys(row)) : row \in DOMAIN toolbarGroups}
        at(name) == {p \in Places : Item(p) = name}
    IN  /\ focus = None => \A i \in DOMAIN Offered :
             LET here == at(Offered[i].name)
             IN  IF Offered[i].name \in allowed /\ Offered[i].group \in named
                 THEN \E p \in here : here = {p} ELSE here = {}
        /\ focus = None => \A i, j \in DOMAIN Offered :
             Offered[i].group = Offered[j].group /\ Before(i, j) =>
                \A p \in at(Offered[i].name), q \in at(Offered[j].name) :
                   p[1] = q[1] /\ p[2] < q[2]
        /\ focus = None => \A p \in at("-") :
             /\ p[2] \in 2..Len(toolbars[p[1]]) - 1
             /\ CanFocus(p[1], p[2] + 1)

\* From the item with the focus the keys lead to every item, so that no button
\* can be had with the mouse only (the key handler of the toolbar).
KeysReachAll ==
    focus # None =>
       LET next(at) == {Moved(at, key) : key \in KeyCodes \ {"Escape"}}
           Reached[seen \in SUBSET Places] ==
             LET more == seen \cup UNION {next(at) : at \in seen}
             IN  IF more = seen THEN seen ELSE Reached[more]
       IN  {at \in Places : CanFocus(at[1], at[2])} = Reached[{focus}]
=============================================================================
