--------------------------------- MODULE Combos ---------------------------------
(***************************************************************************)
(* The lists of formats and of styles in the toolbar of a text editor      *)
(* (the plugins panel, floatpanel, listblock, richcombo, format and        *)
(* stylescombo of ckeditor.js).  The two lists are blocks of one panel, a  *)
(* frame that is shown under the one or the other: each has its own record *)
(* of whether the panel is visible, and both hear when the frame loses the *)
(* focus.  A list follows the caret by an event that comes later.          *)
(*                                                                         *)
(* The mouse pressed on the toolbar does not move the focus.  Sizes and    *)
(* places, the marks in a list and the loading of the frame are left out.  *)
(***************************************************************************)
EXTENDS Naturals, Sequences

CONSTANTS
    Items,      \* of "Format" and of "Styles", the sequence of the items
    Carets,     \* places of the caret: [format, active, applicable], the format
                \* None where no paragraph can be, and sets of styles
    None,       \* nothing
    MaxActs     \* bound on the lists opened, the moves of the caret, the changes
                \* of the mode and of the window's size

VARIABLES
    mode,      \* "wysiwyg" or "source"
    caret,     \* where the caret is, with the format and the styles there
    told,      \* the last event "selectionChange" was about this caret
    combo,     \* of each list [state, on, value, visible, returnFocus]
    panel,     \* [block, activePanel, shown, allowBlur, focusIndex]
    due,       \* <<list, step>>, what the timers of showBlock() are to do, or None
    focus,     \* "editor", "panel", "Format", "Styles" (their buttons), None
    acts,      \* how many of what MaxActs bounds were done
    slips      \* history: what the properties except

vars == <<mode, caret, told, combo, panel, due, focus, acts, slips>>

Combos == {"Format", "Styles"}

AppliesAt(c, place) ==
    IF c = "Format" THEN place.format # None ELSE place.applicable # {}

\* The label of a list: the first style at the caret, or the format.
ValueAt(c, place) ==
    LET here == {i \in DOMAIN Items[c] : IF c = "Format" THEN Items[c][i] = place.format
                                         ELSE Items[c][i] \in place.active}
    IN  IF here = {} THEN "" ELSE Items[c][CHOOSE i \in here : \A j \in here : i <= j]

Visible(c) == {i \in DOMAIN Items[c] : c = "Format" \/ Items[c][i] \in caret.applicable}

Init ==
    /\ mode = "wysiwyg"
    /\ caret \in Carets /\ told = TRUE
    /\ combo = [c \in Combos |-> [state |-> IF AppliesAt(c, caret) THEN "off" ELSE "disabled",
                                  on |-> FALSE, value |-> ValueAt(c, caret),
                                  visible |-> FALSE, returnFocus |-> None]]
    /\ panel = [block |-> None, activePanel |-> None, shown |-> FALSE,
                allowBlur |-> FALSE, focusIndex |-> 0]
    /\ due = None /\ focus = "editor" /\ acts = 0 /\ slips = {}

Counted ==
    /\ acts < MaxActs
    /\ acts' = acts + 1

\* onHide of a list: "off", wherever the caret is.
Closed(co, c, m) ==
    [co EXCEPT ![c].on = FALSE, ![c].state = IF m = "wysiwyg" THEN "off" ELSE "disabled"]

Woken(cs) == IF \E c \in cs \ {None} : ~AppliesAt(c, caret) THEN {"woken"} ELSE {}

\* hide() of the lists cs; a list whose record says that it is visible hides the
\* panel, whatever is in it.
Hidden(cs, m) ==
    LET gone == {c \in cs : combo[c].visible}
    IN  /\ combo' = [c \in Combos |->
                       IF c \in gone
                       THEN [Closed(combo, c, m)[c] EXCEPT !.visible = FALSE] ELSE combo[c]]
        /\ panel' = IF gone = {} THEN panel
                    ELSE [panel EXCEPT !.shown = FALSE, !.activePanel = None]
        /\ slips' = slips \cup Woken(gone)

\* The frame loses the focus to e, and every list hides if that is allowed.
Blurred(e) ==
    /\ focus' = e
    /\ IF focus = "panel" /\ panel.allowBlur THEN Hidden(Combos, mode)
       ELSE UNCHANGED <<combo, panel, slips>>

-----------------------------------------------------------------------------
(* Opening *)

\* onShow of a list.
Opened(co, c) == [co EXCEPT ![c].state = "on", ![c].on = TRUE]

\* showBlock(): the block shown last is hidden, and its list "off", whether
\* the panel was shown or not; then onShow.
showBlock(c) ==
    LET last == panel.block
        \* the block's onHide knows neither the mode nor the caret
        before == IF last = None THEN combo
                  ELSE [combo EXCEPT ![last].on = FALSE, ![last].state = "off"]
    IN  /\ combo' = [Opened(before, c) EXCEPT ![c].visible = TRUE, ![c].returnFocus = focus]
        /\ panel' = [panel EXCEPT !.block = c, !.allowBlur = FALSE, !.shown = TRUE,
                                  !.focusIndex = 0]
        /\ due' = <<c, "place">>
        /\ focus' = IF focus = None THEN "editor" ELSE focus
        /\ slips' = slips \cup Woken({last}) \cup
                       (IF focus = "panel" THEN {"switched"} ELSE {})

\* A click on a list, or Enter or Down on its button.
execute(c) ==
    /\ due = None /\ Counted
    /\ combo[c].state # "disabled"
    /\ IF combo[c].on
       THEN /\ Hidden({c}, mode)
            /\ focus' = IF focus = "panel" THEN None ELSE focus
            /\ UNCHANGED due
       ELSE showBlock(c)
    /\ UNCHANGED <<mode, caret, told>>

\* The timers: the list for which the panel was active is told that it is gone,
\* then the panel gets the focus, and the item of the value.  A panel that was
\* hidden meanwhile cannot have it, and in some browsers nothing has it then.
Place ==
    /\ due # None /\ due[2] = "place"
    /\ combo' = IF panel.activePanel = None THEN combo
                ELSE Closed(combo, panel.activePanel, mode)
    /\ panel' = [panel EXCEPT !.activePanel = due[1]]
    /\ due' = <<due[1], "focus">>
    /\ slips' = slips \cup Woken({panel.activePanel}) \cup
                   (IF panel.shown THEN {} ELSE {"overtaken"})
    /\ UNCHANGED <<mode, caret, told, focus, acts>>

FocusPanel ==
    /\ due # None /\ due[2] = "focus"
    /\ due' = None
    /\ focus' \in IF panel.shown THEN {"panel"} ELSE {focus, None}
    /\ panel' = [panel EXCEPT !.allowBlur = TRUE,
                   !.focusIndex = IF due[1] = "Styles" \/ combo[due[1]].value = "" THEN 0
                                  ELSE CHOOSE i \in DOMAIN Items[due[1]] :
                                         Items[due[1]][i] = combo[due[1]].value]
    /\ UNCHANGED <<mode, caret, told, combo, acts, slips>>

-----------------------------------------------------------------------------
(* In the panel *)

InHand == due = None /\ focus = "panel" /\ panel.shown

\* Down and Up: the next item that is shown, and from the end to the start.
Next_(i, shown) == {j \in shown : j > i /\ \A k \in shown : k > i => j <= k}
Previous(i, shown) == {j \in shown : j < i /\ \A k \in shown : k < i => j >= k}

onKeyDown(step) ==
    LET shown == Visible(panel.block)
        near == IF step = "next" THEN Next_(panel.focusIndex, shown)
                ELSE Previous(panel.focusIndex, shown)
        again == IF step = "next" THEN Next_(0, shown)
                 ELSE Previous(Len(Items[panel.block]) + 1, shown)
    IN  /\ InHand
        /\ \E i \in IF near # {} THEN near ELSE again :
              panel' = [panel EXCEPT !.focusIndex = i]
        /\ UNCHANGED <<mode, caret, told, combo, due, focus, acts, slips>>

\* Escape, or Left: the focus goes back to where it was; a frame that is hidden
\* cannot have it.
Escape ==
    /\ InHand
    /\ LET back == combo[panel.block].returnFocus
       IN  IF back = "panel"
           THEN Hidden({panel.block}, mode) /\ focus' = None
           ELSE Hidden(Combos, mode) /\ focus' = back
    /\ UNCHANGED <<mode, caret, told, due, acts>>

\* An item is clicked, or Space or Enter pressed: the editor gets the focus,
\* which hides the panel, and the style is applied, or removed if it is there.
Choose(i) ==
    LET c == panel.block
        s == Items[c][i]
    IN  /\ InHand /\ i \in Visible(c)
        /\ Blurred("editor")
        /\ caret' = IF c = "Format"
                    THEN [caret EXCEPT !.format = IF @ = s THEN "p" ELSE s]
                    ELSE [caret EXCEPT !.active = IF s \in @ THEN @ \ {s} ELSE @ \cup {s}]
        /\ told' = FALSE
        /\ UNCHANGED <<mode, due, acts>>

-----------------------------------------------------------------------------
(* The rest of the page *)

\* The user clicks in the text, or somewhere else on the page.
MoveCaret(place) ==
    /\ due = None /\ mode = "wysiwyg" /\ Counted
    /\ caret' = place /\ told' = (told /\ place = caret)
    /\ Blurred("editor")
    /\ UNCHANGED <<mode, due>>

ClickAway ==
    /\ due = None /\ focus = "panel"
    /\ Blurred(None)
    /\ UNCHANGED <<mode, caret, told, due, acts>>

\* By Alt+F10 and the keys of the toolbar (Toolbar).
ToButton(c) ==
    /\ due = None /\ focus = "editor" /\ Counted
    /\ focus' = c
    /\ UNCHANGED <<mode, caret, told, combo, panel, due, slips>>

\* Each list that is not open is enabled or disabled, and loses its label.
Refreshed(co, m, place, known) ==
    [c \in Combos |->
       LET applies == m = "wysiwyg" /\ (known => AppliesAt(c, place))
       IN  IF co[c].state = "on" THEN co[c]
           ELSE [co[c] EXCEPT !.state = IF applies THEN "off" ELSE "disabled", !.value = ""]]

\* Then each gets its label; that of the formats is disabled even while open.
selectionChange ==
    /\ mode = "wysiwyg" /\ ~told
    /\ told' = TRUE
    /\ combo' = [c \in Combos |->
                   [Refreshed(combo, mode, caret, TRUE)[c] EXCEPT
                      !.value = ValueAt(c, caret),
                      !.state = IF c = "Format" /\ ~AppliesAt(c, caret) THEN "disabled" ELSE @]]
    /\ slips' = slips \ {"woken"}
    /\ UNCHANGED <<mode, caret, panel, due, focus, acts>>

\* The event "mode", some time after the mode was asked for; a text may come
\* with a caret or without.
SwitchMode(place, known) ==
    /\ Counted
    /\ mode' = IF mode = "wysiwyg" THEN "source" ELSE "wysiwyg"
    /\ caret' = place /\ told' = FALSE
    /\ LET fresh == Refreshed(combo, mode', place, known)
           gone == {c \in Combos : combo[c].visible}
       IN  /\ combo' = [c \in Combos |->
                          IF c \in gone
                          THEN [Closed(fresh, c, mode')[c] EXCEPT !.visible = FALSE] ELSE fresh[c]]
           /\ panel' = IF gone = {} THEN panel
                       ELSE [panel EXCEPT !.shown = FALSE, !.activePanel = None]
    /\ focus' = IF focus = "panel" THEN None ELSE focus
    /\ UNCHANGED <<due, slips>>

Resize ==
    /\ Counted
    /\ Hidden(Combos, mode)
    /\ focus' = IF focus = "panel" THEN None ELSE focus
    /\ UNCHANGED <<mode, caret, told, due>>

Next ==
    \/ Place \/ FocusPanel \/ Escape \/ ClickAway \/ selectionChange \/ Resize
    \/ \E c \in Combos : execute(c) \/ ToButton(c)
    \/ \E step \in {"next", "prev"} : onKeyDown(step)
    \/ panel.block # None /\ \E i \in DOMAIN Items[panel.block] : Choose(i)
    \/ \E place \in Carets : MoveCaret(place) \/ \E known \in BOOLEAN : SwitchMode(place, known)

Spec == Init /\ [][Next]_vars

-----------------------------------------------------------------------------
(* Properties *)

\* Every part of the state has its type.
TypeOK ==
    /\ mode \in {"wysiwyg", "source"}
    /\ \A c \in Combos :
         /\ combo[c].state \in {"off", "on", "disabled"}
         /\ combo[c].value \in {""} \cup {Items[c][i] : i \in DOMAIN Items[c]}
         /\ combo[c].returnFocus \in Combos \cup {"editor", "panel", None}
    /\ {panel.block, panel.activePanel} \subseteq Combos \cup {None}
    /\ focus \in Combos \cup {"editor", "panel", None}
    /\ slips \subseteq {"woken", "switched", "overtaken"}

\* With no timer to come a list is "on" exactly while the panel is shown with
\* its block, so that a click on it closes what the user sees, unless a panel
\* was hidden before its timers ended (the records of two lists of one panel).
OnIsShown ==
    due = None /\ "overtaken" \notin slips =>
       \A c \in Combos : combo[c].on <=> panel.shown /\ panel.block = c

\* Once the lists were told of the caret, one that is not open is disabled if
\* it has no use there, and only then, unless it was closed, or its block
\* hidden by the other list, since then; in the source both are disabled.
DisabledTrue ==
    due = None =>
       /\ mode = "source" => \A c \in Combos : combo[c].state = "disabled"
       /\ mode = "wysiwyg" /\ told /\ "woken" \notin slips =>
            \A c \in Combos :
               ~combo[c].on => (combo[c].state = "disabled" <=> ~AppliesAt(c, caret))

\* And the labels are those of the caret.
LabelsTrue ==
    mode = "wysiwyg" /\ told =>
       \A c \in Combos : combo[c].value = ValueAt(c, caret)

\* In every step: Escape brings the focus back to where it was when the list
\* was opened, in the editor or on a button, unless one list was opened over
\* the other.
FocusReturns ==
    Escape => \/ focus' \in Combos \cup {"editor"}
              \/ combo[panel.block].returnFocus = None
              \/ "switched" \in slips
=============================================================================
