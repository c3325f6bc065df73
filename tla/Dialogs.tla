-------------------------------- MODULE Dialogs --------------------------------
(***************************************************************************)
(* The dialogs of a text editor (the plugins dialog and dialogui of        *)
(* ckeditor.js): their definitions are loaded when first asked for, a      *)
(* cover keeps the page from the user meanwhile and until the last dialog  *)
(* is closed, dialogs are stacked, every field keeps the value it began    *)
(* with, and "OK" and "Cancel" are also keys.  With it the editor's        *)
(* account of the focus (focusManager).                                    *)
(*                                                                         *)
(* In a Safari or Chrome on a Mac the cover does not take the focus, so    *)
(* that the editor still gets keys.  Sizes, places and access keys are     *)
(* left out.                                                               *)
(***************************************************************************)
EXTENDS Naturals, Sequences, FiniteSets

CONSTANTS
    Dialogs,   \* the dialogs
    Inner,     \* those opened by a button of another, defined in its script
    Outer,     \* the dialog that has that button
    Fields,    \* of each dialog, the sequence of its fields: [tab, required, setup]
    None,      \* no dialog
    MaxActs    \* bound on the dialogs asked for, the keys that press a button, the
               \* values typed and the times the user goes to another window

VARIABLES
    macWebKit,  \* the browser does not let the cover have the focus
    state,      \* the state of each dialog
    currentTop, \* the dialog on top
    cover,      \* the page is covered
    element,    \* the values in the text that each dialog is about
    focus,      \* what has the focus: "editor", "cover", a dialog or None
    away,       \* the user is in another window
    manager,    \* the focus manager of the editor
    hung,       \* hide() goes round for ever
    acts,       \* how many of what MaxActs bounds were done
    slips       \* history: what the properties except

vars == <<macWebKit, state, currentTop, cover, element, focus, away, manager, hung,
          acts, slips>>

Values == {"", "x"}
IsField(d) == DOMAIN Fields[d]
Defaults(d) == [f \in IsField(d) |-> ""]
FirstTab(d) == IF Fields[d] = <<>> THEN "info" ELSE Fields[d][1].tab
Tabs(d) == {FirstTab(d)} \cup {Fields[d][f].tab : f \in IsField(d)}

Init ==
    /\ macWebKit \in BOOLEAN
    /\ state = [d \in Dialogs |->
                  [definition |-> "url", waiting |-> 0, timers |-> 0,
                   displayed |-> FALSE, visible |-> FALSE, parent |-> None, tab |-> FirstTab(d),
                   values |-> Defaults(d), initial |-> Defaults(d),
                   clicks |-> [ok |-> 0, cancel |-> 0], commits |-> 0]]
    /\ currentTop = None /\ cover = FALSE
    /\ element = [d \in Dialogs |-> [f \in IsField(d) |-> IF Fields[d][f].required THEN "x" ELSE ""]]
    /\ focus = "editor" /\ away = FALSE
    /\ manager = [hasFocus |-> TRUE, currentActive |-> "editor", timer |-> FALSE,
                  locked |-> FALSE, unlocking |-> FALSE]
    /\ hung = FALSE
    /\ acts = 0
    /\ slips = {}

Counted ==
    /\ acts < MaxActs
    /\ acts' = acts + 1

\* What the user or a program does is noted; so is that a key had pressed a
\* button whose click was still to come.
Slip(what) ==
    slips' = slips \cup what \cup
               IF \E d \in Dialogs, b \in {"ok", "cancel"} : state[d].clicks[b] > 0
               THEN {"raced"} ELSE {}

-----------------------------------------------------------------------------
(* The focus.  Editor, cover and dialogs are the manager's. *)

\* focusManager.focus, as an element gets the focus.
Focused(m, e) ==
    [m EXCEPT !.timer = FALSE, !.currentActive = e,
              !.hasFocus = @ \/ ~m.locked]

\* In another window only the document's own account changes.
Give(m, e) ==
    /\ focus' = e
    /\ manager' = IF away THEN m ELSE Focused(m, e)

\* focusManager.blur, as the element in question loses it to no other.
Blurred(m, e) ==
    IF e = m.currentActive /\ ~m.locked THEN [m EXCEPT !.timer = TRUE] ELSE m

Leave ==
    /\ ~away /\ focus # None /\ ~hung /\ Counted
    /\ away' = TRUE
    /\ manager' = Blurred(manager, focus)
    /\ slips' = IF cover /\ ~manager.locked THEN slips \cup {"left"} ELSE slips
    /\ UNCHANGED <<macWebKit, state, currentTop, cover, element, focus, hung>>

Return ==
    /\ away /\ ~hung
    /\ away' = FALSE
    /\ focus' = focus
    /\ manager' = IF focus = None THEN manager ELSE Focused(manager, focus)
    /\ UNCHANGED <<macWebKit, state, currentTop, cover, element, hung, acts, slips>>

ClickEditor ==
    /\ ~away /\ ~cover /\ ~hung /\ focus # "editor"
    /\ Give(manager, "editor")
    /\ UNCHANGED <<macWebKit, state, currentTop, cover, element, away, hung, acts,
                   slips>>

\* 200 ms later the editor fires "blur".
BlurTimer ==
    /\ manager.timer /\ ~hung
    /\ manager' = [manager EXCEPT !.timer = FALSE, !.hasFocus = FALSE]
    /\ UNCHANGED <<macWebKit, state, currentTop, cover, element, focus, away, hung,
                   acts, slips>>

Unlock ==
    /\ manager.unlocking /\ ~hung
    /\ manager' = [manager EXCEPT !.locked = FALSE, !.unlocking = FALSE]
    /\ UNCHANGED <<macWebKit, state, currentTop, cover, element, focus, away, hung,
                   acts, slips>>

-----------------------------------------------------------------------------
(* Opening *)

\* The cover takes the focus when the first dialog is asked for.
Cover(m, f) ==
    /\ cover' = (cover \/ currentTop = None)
    /\ IF currentTop = None /\ ~macWebKit
       THEN Give(m, "cover")
       ELSE focus' = f /\ manager' = m

\* K(), and the error is thrown: the cover goes whatever is open.
Uncover(m, f) ==
    /\ cover' = FALSE
    /\ focus' = IF (currentTop = None /\ ~macWebKit) \/ f = "cover" THEN None ELSE f
    /\ manager' = IF currentTop = None /\ ~macWebKit /\ ~away
                  THEN Focused(m, "cover") ELSE m

\* show(), so many times: the second time the dialog is its own parent.
Shown(d, times) ==
    /\ currentTop' = d
    /\ state' = [e \in Dialogs |->
                   IF e = d
                   THEN [state[d] EXCEPT !.definition = "ready", !.waiting = 0,
                           !.timers = @ + times, !.displayed = TRUE, !.tab = FirstTab(d),
                           !.values = state[d].initial, !.commits = 0,
                           !.parent = IF times > 1 THEN d ELSE currentTop]
                   ELSE IF d = Outer /\ e \in Inner
                   THEN [state[e] EXCEPT !.definition = "ready"]
                   ELSE state[e]]

openDialog(d, m, f) ==
    CASE state[d].definition = "ready" ->
           Shown(d, 1) /\ Cover(m, f)
      [] state[d].definition = "failed" ->
           Uncover(m, f) /\ UNCHANGED <<state, currentTop>>
      [] OTHER ->
           /\ state' = [state EXCEPT ![d].definition = "loading", ![d].waiting = @ + 1]
           /\ Cover(m, f)
           /\ UNCHANGED currentTop

\* By a key in the editor, or by a button, which gives the editor the focus.
Open(d) ==
    /\ d \notin Inner /\ ~away /\ ~hung /\ Counted
    /\ focus = "editor" \/ ~cover
    /\ openDialog(d, Focused(manager, "editor"), "editor")
    /\ Slip(IF cover THEN {"overtaken"} ELSE {})
    /\ UNCHANGED <<macWebKit, element, away, hung>>

OpenInner(d) ==
    /\ d \in Inner /\ ~away /\ ~hung
    /\ currentTop = Outer /\ state[Outer].visible
    /\ openDialog(d, Focused(manager, Outer), Outer)
    /\ Slip({})
    /\ UNCHANGED <<macWebKit, element, away, hung, acts>>

\* Every call that waited is made again; an error ends them.
ScriptEnds(d, outcome) ==
    /\ state[d].definition = "loading" /\ ~hung
    /\ IF outcome = "ready"
       THEN Shown(d, state[d].waiting) /\ Cover(manager, focus)
       ELSE /\ state' = [state EXCEPT ![d].definition = "failed", ![d].waiting = 0]
            /\ Uncover(manager, focus)
            /\ UNCHANGED currentTop
    /\ UNCHANGED <<macWebKit, element, away, hung, acts, slips>>

\* 100 ms after show(), those of an earlier call first: the fields are set up
\* and what they hold is what they began with.  One hidden meanwhile stays so.
Appear(d) ==
    /\ state[d].timers > 0 /\ ~hung
    /\ LET p == state[d].parent
           values == [f \in IsField(d) |->
                        IF Fields[d][f].setup THEN element[d][f] ELSE state[d].values[f]]
       IN  /\ p \notin {None, d} => state[p].timers = 0
           /\ state' = [state EXCEPT ![d] =
                          [@ EXCEPT !.timers = @ - 1, !.visible = state[d].displayed,
                                    !.values = values, !.initial = values]]
           /\ focus' = IF state[d].displayed THEN d ELSE focus
           /\ LET m == IF away \/ ~state[d].displayed THEN manager
                      ELSE Focused(manager, d)
              IN  manager' = IF p = None THEN [m EXCEPT !.locked = TRUE] ELSE m
    /\ UNCHANGED <<macWebKit, currentTop, cover, element, away, hung, acts, slips>>

-----------------------------------------------------------------------------
(* Closing *)

Above(d) == {e \in Dialogs \ {d} : state[e].parent = d}

\* Mutant of hide: the dialogs above it are left.
hideAlone(d, s) ==
    IF ~state[d].visible
    THEN state' = s /\ UNCHANGED <<currentTop, cover, focus, manager, hung>>
    ELSE /\ hung' = hung
         /\ currentTop' = state[d].parent
         /\ state' = [s EXCEPT ![d].displayed = FALSE, ![d].visible = FALSE,
                               ![d].parent = None, ![d].tab = FirstTab(d),
                               ![d].initial = Defaults(d)]
         /\ cover' = FALSE /\ focus' = "editor"
         /\ manager' = [IF away THEN manager ELSE Focused(manager, "editor")
                          EXCEPT !.unlocking = TRUE]

\* hide(): nothing for a dialog that is not seen.  Those above are hidden first,
\* again and again until they are gone, which one not yet seen never is.
hide(d, s) ==
    IF ~state[d].visible
    THEN state' = s /\ UNCHANGED <<currentTop, cover, focus, manager, hung>>
    ELSE IF \E e \in Above(d) : ~state[e].visible
    THEN hung' = TRUE /\ state' = s /\ UNCHANGED <<currentTop, cover, focus, manager>>
    ELSE /\ hung' = hung
         /\ currentTop' = state[d].parent
         /\ state' = [e \in Dialogs |->
                        IF e \in Above(d) \cup {d}
                        THEN [s[e] EXCEPT !.displayed = FALSE, !.visible = FALSE, !.parent = None,
                                !.tab = FirstTab(e), !.initial = Defaults(e)]
                        ELSE s[e]]
         /\ IF state[d].parent = None
            THEN /\ cover' = FALSE
                 /\ focus' = "editor"
                 /\ manager' = [IF away THEN manager ELSE Focused(manager, "editor")
                                  EXCEPT !.unlocking = TRUE]
            ELSE /\ focus' = None
                 /\ UNCHANGED <<cover, manager>>

Invalid(d) == {f \in IsField(d) : Fields[d][f].required /\ state[d].values[f] = ""}

\* The first field that is not valid is shown; otherwise onOk and hide().
Ok(d, s) ==
    IF Invalid(d) # {}
    THEN LET f == CHOOSE f \in Invalid(d) : \A g \in Invalid(d) : f <= g
         IN  /\ state' = [s EXCEPT ![d].tab = Fields[d][f].tab]
             /\ UNCHANGED <<currentTop, cover, element, focus, manager, hung>>
    ELSE /\ element' = [element EXCEPT ![d] = state[d].values]
         /\ hide(d, [s EXCEPT ![d].commits = @ + 1])

\* With changes in it the user is asked, and may keep the dialog.
Cancel(d, s) ==
    /\ UNCHANGED element
    /\ \/ hide(d, s)
       \/ /\ state[d].values # state[d].initial
          /\ state' = s
          /\ UNCHANGED <<currentTop, cover, focus, manager, hung>>

InHand(d) == currentTop = d /\ state[d].visible /\ ~away /\ ~hung

\* The mouse presses a button.
Press(d) ==
    /\ InHand(d)
    /\ Ok(d, state) \/ Cancel(d, state)
    /\ Slip({})
    /\ UNCHANGED <<macWebKit, away, acts>>

\* Enter and Escape: the click comes after the key.
Key(d, b) ==
    /\ InHand(d) /\ focus = d /\ Counted
    /\ state' = [state EXCEPT ![d].clicks[b] = @ + 1]
    /\ Slip({})
    /\ UNCHANGED <<macWebKit, currentTop, cover, element, focus, away, manager, hung>>

Clicked(d, b) ==
    /\ state[d].clicks[b] > 0 /\ ~hung
    /\ LET s == [state EXCEPT ![d].clicks[b] = @ - 1]
       IN  IF b = "ok" THEN Ok(d, s) ELSE Cancel(d, s)
    /\ UNCHANGED <<macWebKit, away, acts, slips>>

Type(d, f, v) ==
    /\ InHand(d) /\ focus = d /\ f \in IsField(d) /\ v # state[d].values[f]
    /\ Fields[d][f].tab = state[d].tab
    /\ Counted
    /\ state' = [state EXCEPT ![d].values[f] = v]
    /\ UNCHANGED <<macWebKit, currentTop, cover, element, focus, away, manager, hung,
                   slips>>

selectPage(d, t) ==
    /\ InHand(d) /\ t # state[d].tab
    /\ state' = [state EXCEPT ![d].tab = t]
    /\ Give(manager, d)
    /\ UNCHANGED <<macWebKit, currentTop, cover, element, away, hung, acts, slips>>

\* The spell checker hides its dialog when the service says that it is done.
Finish ==
    /\ state[Outer].visible /\ ~hung
    /\ hide(Outer, state)
    /\ Slip({"finished"})
    /\ UNCHANGED <<macWebKit, element, away, acts>>

Next ==
    \/ Leave \/ Return \/ ClickEditor \/ BlurTimer \/ Unlock \/ Finish
    \/ \E d \in Dialogs :
         \/ Open(d) \/ OpenInner(d) \/ Appear(d) \/ Press(d)
         \/ \E outcome \in {"ready", "failed"} : ScriptEnds(d, outcome)
         \/ \E b \in {"ok", "cancel"} : Key(d, b) \/ Clicked(d, b)
         \/ \E f \in IsField(d), v \in Values : Type(d, f, v)
         \/ \E t \in Tabs(d) : selectPage(d, t)

Spec == Init /\ [][Next]_vars

-----------------------------------------------------------------------------
(* Properties *)

\* Every part of the state has its type.
TypeOK ==
    /\ \A d \in Dialogs :
         /\ state[d].definition \in {"url", "loading", "ready", "failed"}
         /\ state[d].waiting \in 0..MaxActs /\ state[d].timers \in 0..MaxActs
         /\ state[d].parent \in Dialogs \cup {None} /\ state[d].tab \in Tabs(d)
         /\ {state[d].values, state[d].initial, element[d]} \subseteq [IsField(d) -> Values]
    /\ currentTop \in Dialogs \cup {None}
    /\ focus \in Dialogs \cup {"editor", "cover", None}
    /\ manager.currentActive \in Dialogs \cup {"editor", "cover"}
    /\ slips \subseteq {"left", "overtaken", "raced", "finished"}

\* The page is covered exactly while a dialog is open or on its way, unless a
\* second dialog was asked for while it was covered; and the editor has no focus
\* under the cover, except in the browsers that leave it there until the dialog
\* appears (openDialog, show, hide).
CoverTrue ==
    /\ "overtaken" \notin slips =>
         (cover <=> currentTop # None \/ \E d \in Dialogs : state[d].waiting > 0)
    /\ cover /\ focus = "editor" => macWebKit \/ slips # {}

\* An opening changes the text once at most, unless a button was pressed again
\* while its click was to come or the dialog was shown twice, and never to
\* values that the dialog's fields do not accept (the keys of CKEDITOR.dialog,
\* onOk).
OneCommit ==
    \A d \in Dialogs :
       /\ state[d].commits > 1 => slips \cap {"raced", "overtaken"} # {}
       /\ \A f \in IsField(d) : Fields[d][f].required => element[d][f] # ""

\* hide() ends, unless a dialog is closed under one that does not show yet:
\* by its program, by a key that came late, or in a stack asked for twice.
HideEnds == hung => slips \cap {"finished", "raced", "overtaken"} # {}

\* A dialog that opens again knows nothing of the last time: a field that it
\* does not set up begins at its default, and is seen on its own tab only.
OpensAnew ==
    \A d \in Dialogs :
       state[d].timers > 0 => state[d].values = Defaults(d) \/ "overtaken" \in slips

\* With no timer to come, an editor in which the caret is knows that it has the
\* focus, unless the user left the window while a dialog was on its way
\* (focusManager).
FocusKnown ==
    (/\ focus = "editor" /\ ~away /\ ~manager.timer /\ ~manager.unlocking
     /\ slips = {})
        => manager.hasFocus
=============================================================================
