--------------------------------- MODULE Menus ---------------------------------
(***************************************************************************)
(* The context menu of a text editor and its submenus (the plugins menu,   *)
(* contextmenu and floatpanel of ckeditor.js).  Each is a panel with a     *)
(* frame of its own, and what is shown follows from the focus that the     *)
(* frames get and lose, from timers of 0 ms, which end in their order, and *)
(* from the timer of the item under the mouse, of 400 ms.                  *)
(*                                                                         *)
(* One object serves all submenus.  What a command does is left out, and   *)
(* the user acts when the timers of 0 ms have ended.                       *)
(***************************************************************************)
EXTENDS Naturals, Sequences

CONSTANTS
    Contents,  \* the menus of the places in a text: sequences of the kinds
               \* "command", "disabled" and "sub"
    None,      \* no item, no focus
    MaxActs    \* bound on the acts of the user

VARIABLES
    items,    \* the menu shown last
    m,        \* the panels: [shown, allowBlur] of the root and of the child, the
              \* item of the child, whether it is the root's activeChild, and the
              \* activePanel of its frame, whether the root is focused, what has the
              \* focus ("editor", "root", "child", None), the queue of the timers
    over,     \* the item whose timer runs, or None
    acts,     \* how many acts there were
    slips     \* history: "late", a timer of 400 ms ended when the user had left the
              \* menu; "hasty", a submenu was hidden before its timers ended

vars == <<items, m, over, acts, slips>>

AtRest == m.queue = <<>>

Queued(p, timer) == [p EXCEPT !.queue = Append(@, timer)]
Lost(p, frame) == [p EXCEPT !.focus = IF @ = frame THEN None ELSE @]

-----------------------------------------------------------------------------
(* Panels *)

\* hideChild()
HideChild(p) ==
    IF p.active THEN Lost([p EXCEPT !.active = FALSE, !.childShown = FALSE,
                             !.activePanel = FALSE], "child")
    ELSE p

\* hide() of the root; one that is hidden does not look at its child.
HideRoot(p, back) ==
    IF ~p.rootShown THEN p
    ELSE LET gone == Lost([HideChild(p) EXCEPT !.rootShown = FALSE], "root")
         IN  IF back THEN [gone EXCEPT !.focus = "editor"] ELSE gone

\* The focus goes from a frame to f: the panel of the frame hides, and a child
\* tells so to the root, by a timer.
Blurred(p, f) ==
    LET rid == CASE p.focus = f -> p
                 [] p.focus = "child" /\ p.childBlur /\ p.childShown ->
                      LET hid == [p EXCEPT !.childShown = FALSE, !.activePanel = FALSE]
                      IN  IF p.active THEN Queued(hid, <<"gone">>) ELSE hid
                 [] p.focus = "root" /\ p.rootBlur /\ ~p.active -> HideRoot(p, FALSE)
                 [] OTHER -> p
    IN  [rid EXCEPT !.focus = f]

\* A frame that gets the focus may lose it from then on; the root hides its
\* child.
FocusRoot(p) ==
    IF ~p.rootShown \/ p.focus = "root" THEN p
    ELSE LET got == [Blurred(p, "root") EXCEPT !.focused = TRUE, !.rootBlur = TRUE]
         IN  HideChild(got)

FocusChild(p) ==
    IF p.childShown THEN [Blurred(p, "child") EXCEPT !.childBlur = TRUE] ELSE p

\* hideChild(1)
BackToRoot(p) == IF p.active THEN FocusRoot(HideChild(p)) ELSE p

Hasty(p) ==
    IF \E n \in DOMAIN p.queue : p.queue[n] \in {<<"place", "child">>, <<"focus", "child">>}
          /\ ~p.childShown THEN {"hasty"} ELSE {}

Becomes(p) ==
    /\ m' = p
    /\ slips' = slips \cup Hasty(p)

-----------------------------------------------------------------------------
Init ==
    /\ items = <<>>
    /\ m = [rootShown |-> FALSE, rootBlur |-> FALSE, childShown |-> FALSE,
            childBlur |-> FALSE, of |-> None, active |-> FALSE, activePanel |-> FALSE,
            focused |-> FALSE, focus |-> "editor", queue |-> <<>>]
    /\ over = None /\ acts = 0 /\ slips = {}

\* showSubMenu(): an item without a submenu hides that of another.
ShowSubMenu(p, i) ==
    IF items[i] = "sub" THEN Queued(p, <<"sub", i>>) ELSE BackToRoot(p)

-----------------------------------------------------------------------------
(* The timers of 0 ms *)

\* open(): a menu without items is not shown, and an older one stays.
Opened(content) ==
    LET p == Blurred([m EXCEPT !.queue = Tail(@)], "editor")
    IN  IF content = <<>> THEN p
        ELSE Queued([p EXCEPT !.rootShown = TRUE, !.rootBlur = FALSE], <<"place", "root">>)

\* showAsChild(): nothing for the item whose submenu the root has already.
SubShown(i) ==
    LET p == [m EXCEPT !.queue = Tail(@)]
    IN  IF p.active /\ p.of = i THEN p
        ELSE Queued([HideChild(p) EXCEPT !.active = TRUE, !.of = i, !.focused = FALSE,
                       !.childShown = TRUE, !.childBlur = FALSE], <<"place", "child">>)

\* The panel is placed; if it was active in its frame it is told that it is
\* gone.
Placed(panel) ==
    LET p == [m EXCEPT !.queue = Tail(@)]
        told == IF panel = "child" /\ p.activePanel /\ p.active THEN Queued(p, <<"gone">>) ELSE p
    IN  Queued([told EXCEPT !.activePanel = @ \/ panel = "child"], <<"focus", panel>>)

Focused(panel) ==
    LET p == [m EXCEPT !.queue = Tail(@)]
    IN  IF panel = "root" THEN [FocusRoot(p) EXCEPT !.rootBlur = TRUE]
        ELSE [FocusChild(p) EXCEPT !.childBlur = TRUE]

Timer ==
    /\ m.queue # <<>>
    /\ LET t == Head(m.queue)
       IN  /\ CASE t[1] = "open" -> Becomes(Opened(t[2]))
                [] t[1] = "sub" -> Becomes(SubShown(t[2]))
                [] t[1] = "place" -> Becomes(Placed(t[2]))
                [] t[1] = "focus" -> Becomes(Focused(t[2]))
                [] t[1] = "gone" ->
                     LET p == [m EXCEPT !.queue = Tail(@)]
                     IN  Becomes(IF p.focused THEN p ELSE HideRoot(p, FALSE))
           /\ items' = IF t[1] = "open" THEN t[2] ELSE items
    /\ UNCHANGED <<over, acts>>

-----------------------------------------------------------------------------
(* The user *)

Acts ==
    /\ AtRest /\ acts < MaxActs
    /\ acts' = acts + 1

\* The right button, in the text.
contextmenu(content) ==
    /\ Acts
    /\ Becomes(Queued(Blurred(m, "editor"), <<"open", content>>))
    /\ UNCHANGED <<items, over>>

ClickEditor ==
    /\ Acts
    /\ Becomes(Blurred(m, "editor"))
    /\ UNCHANGED <<items, over>>

\* The mouse comes over an item of the root.
itemOver(i) ==
    /\ Acts /\ m.rootShown
    /\ over' = i
    /\ UNCHANGED <<items, m, slips>>

\* It goes; a browser may say so also when what was under it is hidden.
itemOut ==
    /\ over # None
    /\ over' = None
    /\ UNCHANGED <<items, m, acts, slips>>

\* The 400 ms are over; there may be no such item any more.
Delay ==
    /\ over # None
    /\ over' = None
    /\ m' = IF over \in DOMAIN items THEN ShowSubMenu(m, over) ELSE m
    /\ slips' = slips \cup Hasty(m') \cup (IF m.rootShown /\ m.focus \in {"root", "child"} THEN {} ELSE {"late"})
    /\ UNCHANGED <<items, acts>>

\* An item of the root is clicked: its frame gets the focus first.
itemClick(i) ==
    /\ Acts /\ m.rootShown
    /\ LET p == FocusRoot(m)
       IN  Becomes(CASE items[i] = "disabled" -> HideRoot(p, TRUE)
                     [] items[i] = "command" -> HideRoot(p, FALSE)
                     [] items[i] = "sub" -> ShowSubMenu(p, i))
    /\ UNCHANGED <<items, over>>

\* One of the submenu; the root hides, and the command gives the focus to the
\* editor.
subItemClick ==
    /\ Acts /\ m.childShown
    /\ Becomes([Blurred(HideRoot(FocusChild(m), FALSE), "editor") EXCEPT !.focus = "editor"])
    /\ UNCHANGED <<items, over>>

\* Escape, or Left, which is for a submenu only.
Escape(left) ==
    /\ Acts
    /\ \/ m.focus = "child" /\ Becomes(BackToRoot(m))
       \/ m.focus = "root" /\ ~left /\ Becomes(HideRoot(m, TRUE))
    /\ UNCHANGED <<items, over>>

Next ==
    \/ Timer \/ ClickEditor \/ itemOut \/ Delay \/ subItemClick
    \/ \E content \in Contents : contextmenu(content)
    \/ \E i \in DOMAIN items : itemOver(i) \/ itemClick(i)
    \/ \E left \in BOOLEAN : Escape(left)

Spec == Init /\ [][Next]_vars

-----------------------------------------------------------------------------
(* Properties *)

\* Every part of the state has its type.
TypeOK ==
    /\ items \in Contents \cup {<<>>}
    /\ m.of \in DOMAIN items \cup {None} \cup 1..9 /\ over \in 1..9 \cup {None}
    /\ m.focus \in {"editor", "root", "child", None}

\* With no timer of 0 ms to come, a submenu is shown only beside the menu it
\* belongs to and its item, unless the user left the menu while the mouse
\* rested on an item (the timer of itemOver is not stopped by hide()), or a
\* submenu was hidden so soon that its panel still passes for active
\* (showBlock).
SubmenuHasParent ==
    AtRest /\ slips = {} /\ m.childShown =>
       m.rootShown /\ m.active /\ m.of \in DOMAIN items /\ items[m.of] = "sub"

\* And what has the focus is a menu that is shown, the innermost one, so that
\* the keys and Escape are for what the user sees; if it has gone to the text,
\* no menu stays.
FocusIsInnermost ==
    AtRest /\ slips = {} =>
       CASE m.focus = "child" -> m.childShown
         [] m.focus = "root" -> m.rootShown /\ ~m.childShown
         [] OTHER -> ~m.rootShown /\ ~m.childShown
=============================================================================
