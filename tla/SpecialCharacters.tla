--------------------------- MODULE SpecialCharacters ---------------------------
(***************************************************************************)
(* The table of special characters (specialchar.js): the keys move the     *)
(* focus from one character to another, the mouse may be over another      *)
(* still, and the preview shows one of them, whose cell is lit.            *)
(***************************************************************************)
EXTENDS Integers

CONSTANTS
    Characters,   \* how many there are
    charColumns,  \* how many in a row
    None          \* no character

VARIABLES
    open,      \* the dialog is shown
    at,        \* the character with the focus
    hovered,   \* the one under the mouse
    preview,   \* what the preview shows
    j,         \* the one that is known to be lit, or None
    lit,       \* those that are
    inserted,  \* the one inserted last
    crossed    \* history: keys were used with the mouse over one

vars == <<open, at, hovered, preview, j, lit, inserted, crossed>>

All == 1..Characters

Init ==
    /\ open = FALSE /\ at = 1 /\ hovered = None /\ preview = None /\ j = None
    /\ lit = {} /\ inserted = None /\ crossed = FALSE

\* g(): what is known to be lit is put out first; lit_ is what was lit before.
Entered(i, known, lit_) ==
    /\ preview' = i /\ j' = i
    /\ lit' = (lit_ \ {known}) \cup {i}

\* d()
Left(i) ==
    /\ preview' = None /\ j' = None
    /\ lit' = lit \ {i}

\* onShow, and its timer
Show ==
    /\ ~open
    /\ open' = TRUE /\ at' = 1
    /\ Entered(1, j, lit)
    /\ UNCHANGED <<hovered, inserted, crossed>>

MouseOver(i) ==
    /\ open /\ hovered = None
    /\ hovered' = i
    /\ Entered(i, j, lit)
    /\ UNCHANGED <<open, at, inserted, crossed>>

MouseOut ==
    /\ open /\ hovered # None
    /\ hovered' = None
    /\ Left(hovered)
    /\ UNCHANGED <<open, at, inserted, crossed>>

-----------------------------------------------------------------------------
(* The keys *)

\* Up and Down keep the column: over the first row is none, under the last
\* perhaps no character.  Left and Right go through all.
Beyond(key) ==
    at + (CASE key = "up" -> -charColumns [] key = "down" -> charColumns
            [] key = "left" -> -1 [] key = "right" -> 1)

\* d() of the character with the focus, then g() of the one it goes to; at an
\* end the keys of the row put the preview out, and those of the column do not.
Press(key) ==
    /\ open
    /\ IF Beyond(key) \in All
       THEN /\ at' = Beyond(key)
            /\ Entered(at', None, lit \ {at})
       ELSE /\ IF key \in {"left", "right"} THEN Left(at) ELSE UNCHANGED <<preview, j, lit>>
            /\ UNCHANGED at
    /\ crossed' = (crossed \/ hovered # None)
    /\ UNCHANGED <<open, hovered, inserted>>

\* k(): by Space or Enter the one with the focus, by a click the one under the
\* mouse, which has it then.
Choose(i) ==
    /\ open /\ i \in {at, hovered} \ {None}
    /\ open' = FALSE /\ inserted' = i /\ at' = i
    /\ hovered' = None
    /\ UNCHANGED <<preview, j, lit, crossed>>

Cancel ==
    /\ open
    /\ open' = FALSE /\ hovered' = None
    /\ UNCHANGED <<at, preview, j, lit, inserted, crossed>>

Next ==
    \/ Show \/ MouseOut \/ Cancel
    \/ \E i \in All : MouseOver(i) \/ Choose(i)
    \/ \E key \in {"up", "down", "left", "right"} : Press(key)

Spec == Init /\ [][Next]_vars

-----------------------------------------------------------------------------
(* Properties *)

\* Every part of the state has its type.
TypeOK ==
    /\ at \in All /\ {hovered, preview, j, inserted} \subseteq All \cup {None}
    /\ lit \subseteq All

\* What the preview shows is lit, and is the character that Space would insert
\* or the one that a click would: never one that the user has left.
PreviewTrue ==
    open /\ preview # None => preview \in lit /\ preview \in {at, hovered}

\* And nothing else is lit, so that no two characters look chosen, in this
\* dialog or a later one; unless the keys were used once with the mouse over
\* the table (g() puts out only what d() did not forget).
OneLit ==
    /\ ~crossed => lit \subseteq {preview}
    /\ j = preview
=============================================================================
