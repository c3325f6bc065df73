------------------------------ MODULE RichText ------------------------------
(***************************************************************************)
(* The rich text editors on the forms of problems, contests and rules      *)
(* (web/ckeditor/ckeditor.js 4.4.2, as web/pages/**/edit*.jsp use it): how *)
(* they start, change between their two modes, undo and redo, and what the *)
(* form is given when it is submitted.                                     *)
(*                                                                         *)
(* A description is its text and whether it holds markup that the content  *)
(* filter removes ("extra"); the filter itself is in ContentFilter.  An    *)
(* undo image is the content; the selection, which save() also compares,   *)
(* is a free choice.                                                       *)
(*                                                                         *)
(* Assumed: a timer of 0 ms is over before the user's next key or click in *)
(* the editor (but not before the form is submitted).                      *)
(***************************************************************************)
EXTENDS Integers, Sequences, FiniteSets, FiniteSetsExt

CONSTANTS
    Editors,      \* the textareas of the page
    Stored,       \* the description that the page came with
    Contents,     \* the descriptions there are
    NoContent,    \* no string
    Limit,        \* undoStackSize
    StrokesLimit, \* strokesLimit
    MaxEdits      \* bound on what the user does in the editors

VARIABLES
    scripts,   \* the scripts that have ended, "failed" if one of them failed
    stage,     \* stage[e]: how far the start of e has come
    editor,    \* editor[e]: its mode, data and editable
    undo,      \* undo[e]: its undo manager
    textarea,  \* textarea[e]: the value of the element behind it
    posted,    \* the form was sent
    edited,    \* counts the user's edits, for the bound
    last       \* history: last[e], the content the user saw last

vars == <<scripts, stage, editor, undo, textarea, posted, edited, last>>

\* customConfig, the language and styles.js, in the order they are loaded.
Scripts == 1..3
Config == 1
Loaded == 4

Content == [text : Contents, extra : BOOLEAN]

Editor == [mode : {"none", "wysiwyg", "source"},
           going : {"none", "frame", "document", "data", "mode"},
           data : Content \cup {NoContent},
           shown : Content \cup {NoContent},
           listening : BOOLEAN,
           ready : BOOLEAN,
           previousModeData : Content \cup {NoContent},
           unchanged : BOOLEAN]

UndoManager == [snapshots : Seq(Content), index : Nat,
                hasUndo : BOOLEAN, hasRedo : BOOLEAN, typing : BOOLEAN,
                strokes : Nat, group : {"none", "printable", "functional"},
                enabled : BOOLEAN]

NewUndo == [snapshots |-> <<>>, index |-> 0, hasUndo |-> FALSE,
            hasRedo |-> FALSE, typing |-> FALSE, strokes |-> 0,
            group |-> "none", enabled |-> FALSE]

Init ==
    /\ scripts = [s \in Scripts |-> "waiting"]
    /\ stage = [e \in Editors |-> 0]
    /\ editor = [e \in Editors |->
         [mode |-> "none", going |-> "none", data |-> NoContent,
          shown |-> NoContent, listening |-> FALSE, ready |-> FALSE,
          previousModeData |-> NoContent, unchanged |-> FALSE]]
    /\ undo = [e \in Editors |-> NewUndo]
    /\ textarea = [e \in Editors |-> Stored]
    /\ posted = FALSE /\ edited = 0
    /\ last = [e \in Editors |-> Stored]

toHtml(c) == [c EXCEPT !.extra = FALSE]

\* getData(): an editable that listens is asked first.
getData(e) ==
    IF editor[e].listening THEN editor[e].shown
    ELSE IF editor[e].data # NoContent THEN editor[e].data
    ELSE textarea[e]

-----------------------------------------------------------------------------
(* The undo manager *)

Current(u) == u.snapshots[u.index]

Earlier(u) == {i \in 1..(u.index - 1) : u.snapshots[i] # Current(u)}
Later(u) == {i \in (u.index + 1)..Len(u.snapshots) : u.snapshots[i] # Current(u)}

resetType(u) == [u EXCEPT !.strokes = 0, !.typing = FALSE, !.group = "none"]

refreshState(u) ==
    resetType([u EXCEPT !.hasUndo = Earlier(u) # {}, !.hasRedo = Later(u) # {}])

\* Mutant of Pushed: the images after the current one count for the limit.
PushedPastLimit(u, c) ==
    LET kept == SubSeq(u.snapshots, 1, u.index)
        room == IF Len(u.snapshots) = Limit + 1 THEN Tail(kept) ELSE kept
    IN  [u EXCEPT !.snapshots = Append(room, c), !.index = Len(room) + 1]

\* The images after the current one are dropped, and the oldest at the limit.
Pushed(u, c) ==
    LET kept == SubSeq(u.snapshots, 1, u.index)
        room == IF Len(kept) = Limit THEN Tail(kept) ELSE kept
    IN  [u EXCEPT !.snapshots = Append(room, c), !.index = Len(room) + 1]

\* "alike": the selection, if it counts, is that of the current image.
save(u, c, alike) ==
    IF u.index > 0 /\ Current(u) = c /\ alike THEN u ELSE refreshState(Pushed(u, c))

\* The current image, and those like it before it, become the content.
update(u, c) ==
    LET like == {b \in 1..u.index :
                   \A i \in b..u.index : u.snapshots[i] = Current(u)}
        b == Min(like)
    IN  [u EXCEPT !.snapshots = SubSeq(@, 1, b - 1) \o <<c>>
                                  \o SubSeq(@, u.index + 1, Len(@)),
                  !.index = b]

restoreImage(u, i) ==
    LET at == [u EXCEPT !.index = i]
    IN  refreshState(update(at, Current(at)))

-----------------------------------------------------------------------------
(* Starting *)

\* The first script from s on that has not ended; all editors that wait for
\* one go on together.
WaitsFor(s, ended) == Min({i \in s..Loaded : i = Loaded \/ ended[i] = "waiting"})

\* replace() hides the textarea and leaves the rest to a timer.
Begin(e) ==
    /\ stage[e] = 0 /\ ~posted
    /\ stage' = [stage EXCEPT ![e] = WaitsFor(Config, scripts)]
    /\ UNCHANGED <<scripts, editor, undo, textarea, posted, edited, last>>

\* The custom configuration may be missing; without the language or styles.js
\* the callback throws and the editors that waited stay hidden.
ScriptEnds(s, outcome) ==
    /\ ~posted /\ scripts[s] = "waiting" /\ \E e \in Editors : stage[e] = s
    /\ scripts' = [scripts EXCEPT ![s] = outcome]
    /\ stage' = IF outcome = "failed" /\ s # Config THEN stage
                ELSE [e \in Editors |->
                        IF stage[e] = s THEN WaitsFor(s, scripts') ELSE stage[e]]
    /\ UNCHANGED <<editor, undo, textarea, posted, edited, last>>

\* "loaded": the editor is drawn, hooked to the form and asks for a frame.
Draw(e) ==
    /\ ~posted /\ stage[e] = Loaded
    /\ stage' = [stage EXCEPT ![e] = Loaded + 1]
    /\ editor' = [editor EXCEPT ![e].going = "frame",
                                ![e].previousModeData = getData(e)]
    /\ UNCHANGED <<scripts, undo, textarea, posted, edited, last>>

-----------------------------------------------------------------------------
(* Modes *)

OnlyEditor == UNCHANGED <<scripts, stage, textarea, posted>>

\* The new editable listens, hands its data on and stops listening until its
\* document is there.
FrameLoads(e) ==
    /\ ~posted /\ editor[e].going = "frame"
    /\ editor' = [editor EXCEPT ![e].going = "document",
                                ![e].data = getData(e),
                                ![e].shown = NoContent,
                                ![e].listening = FALSE]
    /\ OnlyEditor /\ UNCHANGED <<undo, edited, last>>

DocumentLoads(e) ==
    /\ ~posted /\ editor[e].going = "document"
    /\ editor' = [editor EXCEPT ![e].going = "data",
                                ![e].shown = toHtml(editor[e].data),
                                ![e].listening = TRUE]
    /\ last' = [last EXCEPT ![e] = toHtml(editor[e].data)]
    /\ OnlyEditor /\ UNCHANGED <<undo, edited>>

\* The callback of setMode: the image of before an unchanged source is
\* brought up to date, otherwise a new one is saved.
DataReady(e) ==
    /\ ~posted /\ editor[e].going = "data"
    /\ editor' = [editor EXCEPT ![e].going = "mode", ![e].mode = "wysiwyg",
                                ![e].unchanged = FALSE]
    /\ undo' = [undo EXCEPT ![e] =
         IF ~editor[e].ready THEN @
         ELSE IF editor[e].unchanged THEN update(@, editor[e].shown)
         ELSE save(@, editor[e].shown, TRUE)]
    /\ OnlyEditor /\ UNCHANGED <<edited, last>>

\* "mode": the buttons follow; the first time, the editor becomes ready.
ModeEvent(e) ==
    /\ ~posted /\ editor[e].going = "mode"
    /\ editor' = [editor EXCEPT ![e].going = "none", ![e].ready = TRUE]
    /\ undo' = [undo EXCEPT ![e] =
         LET u == [@ EXCEPT !.enabled = (editor[e].mode = "wysiwyg")]
         IN  IF editor[e].ready THEN u ELSE save(u, editor[e].shown, TRUE)]
    /\ OnlyEditor /\ UNCHANGED <<edited, last>>

UserActs(e, mode) ==
    /\ ~posted /\ editor[e].going = "none" /\ editor[e].mode = mode
    /\ edited < MaxEdits /\ edited' = edited + 1

\* The button "Source".  The editable gives its data back as it goes; the
\* source is a textarea, there at once.
ToSource(e) ==
    /\ UserActs(e, "wysiwyg")
    /\ \E alike \in BOOLEAN :
         undo' = [undo EXCEPT ![e] = save(@, editor[e].shown, alike)]
    /\ editor' = [editor EXCEPT ![e].mode = "source", ![e].going = "mode",
                                ![e].data = getData(e),
                                ![e].previousModeData = getData(e)]
    /\ OnlyEditor /\ UNCHANGED last

\* Mutant of ToWysiwyg: the source is read by the new editable only.
ToWysiwygUnread(e) ==
    /\ UserActs(e, "source")
    /\ editor' = [editor EXCEPT ![e].mode = "none", ![e].going = "frame",
                                ![e].shown = NoContent,
                                ![e].listening = FALSE,
                                ![e].previousModeData = getData(e),
                                ![e].unchanged =
                                    (getData(e) = editor[e].previousModeData)]
    /\ OnlyEditor /\ UNCHANGED <<undo, last>>

ToWysiwyg(e) ==
    /\ UserActs(e, "source")
    /\ editor' = [editor EXCEPT ![e].mode = "none", ![e].going = "frame",
                                ![e].data = getData(e),
                                ![e].shown = NoContent,
                                ![e].listening = FALSE,
                                ![e].previousModeData = getData(e),
                                ![e].unchanged =
                                    (getData(e) = editor[e].previousModeData)]
    /\ OnlyEditor /\ UNCHANGED <<undo, last>>

-----------------------------------------------------------------------------
(* Editing *)

Shows(e, c) ==
    /\ editor' = [editor EXCEPT ![e].shown = c]
    /\ last' = [last EXCEPT ![e] = c]
    /\ OnlyEditor

\* A key: an image of before it when the kind of keys changes, one of after it
\* every StrokesLimit keys.
Type(e, x, group) ==
    /\ UserActs(e, "wysiwyg")
    /\ Shows(e, [text |-> x, extra |-> FALSE])
    /\ \E alike \in BOOLEAN :
         LET old == undo[e]
             u == IF group # old.group /\ old.strokes > 0
                  THEN resetType(save(old, editor[e].shown, alike)) ELSE old
             begun == IF u.typing THEN u
                      ELSE [u EXCEPT !.typing = TRUE, !.hasUndo = TRUE, !.hasRedo = FALSE]
             full == u.strokes + 1 >= StrokesLimit
             saved == IF full THEN save(begun, editor'[e].shown, TRUE) ELSE begun
         IN  undo' = [undo EXCEPT ![e] =
               [saved EXCEPT !.strokes = IF full THEN 0 ELSE u.strokes + 1,
                             !.group = group]]

\* A click into the text saves what was typed, without looking at the buttons.
ClickText(e) ==
    /\ UserActs(e, "wysiwyg")
    /\ undo' = [undo EXCEPT ![e] =
         resetType(IF Current(@) = editor[e].shown THEN @
                   ELSE Pushed(@, editor[e].shown))]
    /\ OnlyEditor /\ UNCHANGED <<editor, last>>

\* A button, a paste, a dialog: an image before and one after.
Command(e, x) ==
    /\ UserActs(e, "wysiwyg")
    /\ Shows(e, [text |-> x, extra |-> FALSE])
    /\ \E alike \in BOOLEAN :
         undo' = [undo EXCEPT ![e] =
           save(save(@, editor[e].shown, alike), editor'[e].shown, alike)]

TypeSource(e, c) ==
    /\ UserActs(e, "source")
    /\ Shows(e, c) /\ UNCHANGED undo

\* Mutant of Undo: what was typed last is not saved first.
UndoUnsaved(e) ==
    /\ UserActs(e, "wysiwyg") /\ undo[e].enabled /\ undo[e].hasUndo
    /\ LET u == undo[e]
       IN  IF Earlier(u) = {}
           THEN undo' = [undo EXCEPT ![e] = u] /\ UNCHANGED <<editor, last>> /\ OnlyEditor
           ELSE LET i == Max(Earlier(u))
                IN  /\ undo' = [undo EXCEPT ![e] = restoreImage(u, i)]
                    /\ Shows(e, u.snapshots[i])

Undo(e) ==
    /\ UserActs(e, "wysiwyg") /\ undo[e].enabled /\ undo[e].hasUndo
    /\ LET u == save(undo[e], editor[e].shown, TRUE)
       IN  IF Earlier(u) = {}
           THEN undo' = [undo EXCEPT ![e] = u] /\ UNCHANGED <<editor, last>> /\ OnlyEditor
           ELSE LET i == Max(Earlier(u))
                IN  /\ undo' = [undo EXCEPT ![e] = restoreImage(u, i)]
                    /\ Shows(e, u.snapshots[i])

Redo(e) ==
    /\ UserActs(e, "wysiwyg") /\ undo[e].enabled /\ undo[e].hasRedo
    /\ LET u == save(undo[e], editor[e].shown, TRUE)
       IN  IF ~u.hasRedo \/ Later(u) = {}
           THEN undo' = [undo EXCEPT ![e] = u] /\ UNCHANGED <<editor, last>> /\ OnlyEditor
           ELSE LET i == Min(Later(u))
                IN  /\ undo' = [undo EXCEPT ![e] = restoreImage(u, i)]
                    /\ Shows(e, u.snapshots[i])

\* Every editor hooked to the form first writes its data to its textarea; the
\* page's own handlers may still refuse the form (not "sent").
Submit(sent) ==
    /\ ~posted /\ posted' = sent
    /\ textarea' = [e \in Editors |->
                      IF stage[e] > Loaded THEN getData(e) ELSE textarea[e]]
    /\ editor' = [e \in Editors |-> IF editor[e].listening
                                     THEN [editor[e] EXCEPT !.data = getData(e)]
                                     ELSE editor[e]]
    /\ UNCHANGED <<scripts, stage, undo, edited, last>>

Next ==
    \/ \E s \in Scripts, outcome \in {"ended", "failed"} : ScriptEnds(s, outcome)
    \/ \E e \in Editors :
         \/ Begin(e) \/ Draw(e)
         \/ FrameLoads(e) \/ DocumentLoads(e) \/ DataReady(e) \/ ModeEvent(e)
         \/ ToSource(e) \/ ToWysiwyg(e) \/ ClickText(e) \/ Undo(e) \/ Redo(e)
         \/ \E x \in Contents :
              \/ \E group \in {"printable", "functional"} : Type(e, x, group)
              \/ Command(e, x)
              \/ \E extra \in BOOLEAN : TypeSource(e, [text |-> x, extra |-> extra])
    \/ \E sent \in BOOLEAN : Submit(sent)

\* Timers run, scripts and frames are loaded or fail.
Starting(e) ==
    \/ Begin(e) \/ Draw(e)
    \/ FrameLoads(e) \/ DocumentLoads(e) \/ DataReady(e) \/ ModeEvent(e)

Loading(s) == \E outcome \in {"ended", "failed"} : ScriptEnds(s, outcome)

Fairness ==
    /\ \A e \in Editors : WF_vars(Starting(e))
    /\ \A s \in Scripts : WF_vars(Loading(s))

Spec == Init /\ [][Next]_vars /\ Fairness

-----------------------------------------------------------------------------

\* Types; the current image is one of the images, which are never more than
\* the limit.
TypeOK ==
    /\ scripts \in [Scripts -> {"waiting", "ended", "failed"}]
    /\ stage \in [Editors -> 0..(Loaded + 1)]
    /\ editor \in [Editors -> Editor]
    /\ textarea \in [Editors -> Content] /\ last \in [Editors -> Content]
    /\ posted \in BOOLEAN /\ edited \in 0..MaxEdits
    /\ \A e \in Editors :
         /\ undo[e] \in UndoManager
         /\ Len(undo[e].snapshots) <= Limit
         /\ undo[e].index \in (IF editor[e].ready THEN 1 ELSE 0)..Len(undo[e].snapshots)

\* What the form sends is what the user saw last in each editor, whatever mode
\* it was in and whatever change of mode or start was under way; an editor that
\* never came up leaves the text as it was given (ckeditor.js:236, 241, 337).
SubmittedIsSeen == posted => \A e \in Editors : textarea[e] = last[e]

\* In every step: undo and redo lose nothing: after an undo the content it
\* replaced is among the images ahead, after a redo among those behind, and
\* neither shows anything that was not an image (ckeditor.js:919-925).
UndoLosesNothing ==
    \A e \in Editors :
       LET old == undo[e]  new == undo'[e]  IN
       /\ Undo(e) /\ editor' # editor =>
            /\ \E i \in (new.index + 1)..Len(new.snapshots) :
                 new.snapshots[i] = editor[e].shown
            /\ \E i \in 1..old.index : old.snapshots[i] = editor'[e].shown
       /\ Redo(e) /\ editor' # editor =>
            /\ \E i \in 1..(new.index - 1) : new.snapshots[i] = editor[e].shown
            /\ \E i \in (old.index + 1)..Len(old.snapshots) :
                 old.snapshots[i] = editor'[e].shown

\* An enabled "Undo" has something to undo, and a disabled one has not, as
\* long as no source was looked at; "Redo" never brings back what was undone
\* before something new was typed.
ButtonsTrue ==
    \A e \in Editors :
        editor[e].ready /\ editor[e].going = "none" /\ editor[e].mode = "wysiwyg" =>
            /\ Earlier(undo[e]) # {} \/ editor[e].shown # Current(undo[e])
                 => undo[e].hasUndo
            /\ editor[e].shown # Current(undo[e]) => ~undo[e].hasRedo

\* Each editor becomes ready, unless one of its scripts failed or the form was
\* sent before; so does each that changes its mode.
AtRest ==
    \/ posted \/ \E s \in Scripts : scripts[s] = "failed"
    \/ \A e \in Editors : editor[e].ready /\ editor[e].going = "none"
EditorsReady == []<>AtRest
=============================================================================
