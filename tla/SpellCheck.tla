------------------------------ MODULE SpellCheck ------------------------------
(***************************************************************************)
(* The spell check dialog of a page's rich text editors                    *)
(* (ckeditor/plugins/wsc/dialogs/wsc.js).  Every editor has a dialog of    *)
(* its own, but the plugin has one set of globals: the dialog that was     *)
(* loaded last, the text that is checked, the number of its frame.  The    *)
(* frame's document speaks with the service; page and frame exchange       *)
(* messages, to which the page listens while a dialog is open.  A dialog   *)
(* that is closed leaves its frame at work.                                *)
(*                                                                         *)
(* Left out: the tabs of grammar and thesaurus, which no "superset"        *)
(* language shows, the options and the suggestions themselves.             *)
(***************************************************************************)
EXTENDS Naturals, Sequences, FiniteSets, SequencesExt

CONSTANTS
    Editors,   \* the editors of the page
    None,      \* no editor
    MaxOpens,  \* bound on the openings of a dialog
    MaxClicks  \* bound on the commands to the frames

VARIABLES
    text,      \* the text of each editor
    script,    \* the service's script; its callback is awaited while "loading"
    loaded,    \* the dialogs loaded, in the order of the document
    opened,    \* the editor whose dialog is open
    area,      \* TextAreaNumber: the editor whose dialog was opened last
    number,    \* iframeNumber: the editor whose number the frames have
    dataTemp,  \* the text that is checked
    overlay,   \* whether the overlay, in the first dialog, covers it
    timers,    \* ReplaceText's timers
    finished,  \* whether the global dialog shows its final buttons
    listed,    \* the editors whose dialogs have a list of languages
    setting,   \* the editors whose new data are not ready yet
    frame,     \* the frame in each dialog
    openings,  \* counts the openings
    clicks,    \* counts the commands
    crossed    \* history: the opening in which a text or a correction that was
               \* under way met another text

vars == <<text, script, loaded, opened, area, number, dataTemp, overlay, timers,
          finished, listed, setting, frame, openings, clicks,
          crossed>>

pluginVars == <<area, number, dataTemp, overlay, timers, finished, listed,
                setting>>

\* A text: whose it is, how many words were corrected in it.
Text == [of : Editors \cup {None}, fixes : 0..MaxClicks]
Empty == [of |-> None, fixes |-> 0]

\* A frame: its number, what its document does, the text this has and the
\* messages to the page that wait.
NoFrame == [owner |-> None, state |-> "none", text |-> Empty, out |-> <<>>]

Init ==
    /\ text = [e \in Editors |-> [of |-> e, fixes |-> 0]]
    /\ script = "none"
    /\ loaded = <<>> /\ opened = None /\ area = None /\ number = None
    /\ dataTemp = Empty /\ overlay = FALSE /\ timers = 0 /\ finished = FALSE
    /\ setting = {} /\ listed = {}
    /\ frame = [d \in Editors |-> NoFrame]
    /\ openings = 0 /\ clicks = 0 /\ crossed = 0

\* The global dialog is the one loaded last, whichever is open.
dialog == Last(loaded)

\* getElementById finds the first frame of the number.
Found(frames, n) ==
    loaded'[SelectInSeq(loaded', LAMBDA d : frames[d].owner = n)]

target == loaded[SelectInSeq(loaded, LAMBDA d : frame[d].owner = number)]

UnderWay(f) == \E i \in DOMAIN f.out : f.out[i].id \in {"ReplaceText", "settext"}

AtWork(f) == f.state \in {"idle", "checking", "asking", "done"}

-----------------------------------------------------------------------------
(* The dialog *)

\* setIframe, in the global dialog; what the old frame has posted still comes.
\* The document is written to the first frame of the number.
sendData(n) ==
    LET d == Last(loaded')
        new == [frame EXCEPT ![d] = [NoFrame EXCEPT !.owner = n,
                                     !.state = "blank", !.out = frame[d].out]]
    IN  frame' = [new EXCEPT ![Found(new, n)] =
                    [@ EXCEPT !.state = "loading", !.text = Empty]]

\* The callback of the service's script.
Begin ==
    /\ number' = area'
    /\ overlay' = FALSE
    /\ sendData(area')

onShow(e) ==
    /\ opened = None /\ openings < MaxOpens
    /\ opened' = e
    /\ openings' = openings + 1
    /\ area' = e
    /\ dataTemp' = text[e]
    /\ crossed' = IF setting # {} \/ \E d \in Editors : UnderWay(frame[d])
                THEN openings' ELSE crossed
    /\ UNCHANGED <<text, timers, listed, setting, clicks>>

\* The first time a dialog is shown it becomes the global one.
onLoad(e) ==
    IF e \in ToSet(loaded)
    THEN UNCHANGED <<loaded, finished>>
    ELSE loaded' = Append(loaded, e) /\ finished' = FALSE

\* The loader gives a script once asked for to every later callback at once,
\* also one that did not come: then the callback fails on what it lacks.
Show(e) ==
    /\ onShow(e) /\ onLoad(e)
    /\ IF script = "loaded"
       THEN Begin
       ELSE /\ overlay' = (overlay \/ e \notin ToSet(loaded))
            /\ UNCHANGED <<number, frame>>
    /\ script' = IF script = "none" THEN "loading" ELSE script

ScriptEnds(outcome) ==
    /\ script = "loading"
    /\ script' = outcome
    /\ UNCHANGED <<text, loaded, opened, area, dataTemp, timers, finished,
                   listed, setting, openings, clicks, crossed>>
    /\ IF outcome = "loaded" THEN Begin ELSE UNCHANGED <<number, frame, overlay>>

\* The frame stays at work, but nobody listens.
onHide ==
    /\ opened' = None
    /\ dataTemp' = Empty

Cancel ==
    /\ opened # None
    /\ onHide
    /\ UNCHANGED <<text, script, loaded, area, number, overlay, timers, finished,
                   listed, setting, frame, openings, clicks, crossed>>

-----------------------------------------------------------------------------
(* The frame *)

post(f, id) == [f EXCEPT !.out = Append(@, [id |-> id, text |-> f.text])]

\* A text sent to a frame that does not listen yet is lost.
Receive(f, t) == IF AtWork(f) THEN [f EXCEPT !.state = "checking", !.text = t] ELSE f

FrameLoads(d) ==
    /\ frame[d].state = "loading"
    /\ frame' = [frame EXCEPT ![d] = post([@ EXCEPT !.state = "idle"], "iframeOnload")]
    /\ UNCHANGED <<text, script, loaded, opened, openings, clicks, crossed>>
    /\ UNCHANGED pluginVars

\* The service finds a word, or has found them all.
Answer(d) ==
    /\ frame[d].state = "checking"
    /\ frame' \in
         {[frame EXCEPT ![d] = post([@ EXCEPT !.state = "done"], "finish")]}
           \cup {[frame EXCEPT ![d] = post([@ EXCEPT !.state = "asking"], "suggestlist")]}
    /\ UNCHANGED <<text, script, loaded, opened, openings, clicks, crossed>>
    /\ UNCHANGED pluginVars

-----------------------------------------------------------------------------
(* The buttons.  The overlay hides those of the first dialog only. *)

Open == opened # None /\ number # None
Free == Open /\ ~(overlay /\ opened = Head(loaded))

Command(new) ==
    /\ clicks < MaxClicks
    /\ clicks' = clicks + 1
    /\ overlay' = TRUE
    /\ frame' = [frame EXCEPT ![target] = new]
    /\ UNCHANGED <<text, script, loaded, opened, area, number, dataTemp, timers,
                   finished, listed, setting, openings>>

Press(new) == Free /\ Command(new) /\ UNCHANGED crossed

ChangeTo ==
    LET f == frame[target]
        fixed == [f EXCEPT !.text.fixes = @ + 1]
    IN  Press(IF f.state = "asking"
                THEN [post(fixed, "ReplaceText") EXCEPT !.state = "checking"]
                ELSE f)

IgnoreWord ==
    LET f == frame[target]
    IN  Press(IF f.state = "asking" THEN [f EXCEPT !.state = "checking"] ELSE f)

FinishChecking ==
    LET f == frame[target]
    IN  Press(IF f.text # Empty
                THEN [post(f, "settext") EXCEPT !.state = "idle", !.text = Empty]
                ELSE f)

\* Another language is chosen, in a list the overlay leaves free: the text is
\* checked anew.
onchange ==
    /\ Open /\ opened \in listed
    /\ Command(Receive(frame[target], dataTemp))
    /\ crossed' = IF UnderWay(frame[target]) THEN openings ELSE crossed

-----------------------------------------------------------------------------
(* The messages of the frames *)

\* The page listens while a dialog is open, and takes whatever comes.
Heard(d, id) ==
    /\ frame[d].out # <<>> /\ Head(frame[d].out).id = id
    /\ opened # None

Taken(d) == [frame EXCEPT ![d].out = Tail(@)]

Unheard(d) ==
    /\ frame[d].out # <<>> /\ opened = None
    /\ frame' = Taken(d)
    /\ UNCHANGED <<text, script, loaded, opened, openings, clicks, crossed>>
    /\ UNCHANGED pluginVars

iframeOnload(d) ==
    /\ Heard(d, "iframeOnload")
    /\ overlay' = TRUE
    /\ frame' = [Taken(d) EXCEPT ![target] = Receive(@, dataTemp)]
    /\ crossed' = IF UnderWay(frame[target]) THEN openings ELSE crossed
    /\ UNCHANGED <<text, script, loaded, opened, area, number, dataTemp, timers,
                   finished, listed, setting, openings, clicks>>

suggestlist(d) ==
    /\ Heard(d, "suggestlist")
    /\ frame' = Taken(d)
    /\ overlay' = FALSE
    /\ finished' = FALSE
    /\ listed' = listed \cup {dialog}
    /\ UNCHANGED <<text, script, loaded, opened, area, number, dataTemp, timers,
                   setting, openings, clicks, crossed>>

finish(d) ==
    /\ Heard(d, "finish")
    /\ frame' = Taken(d)
    /\ overlay' = FALSE
    /\ finished' = TRUE
    /\ UNCHANGED <<text, script, loaded, opened, area, number, dataTemp, timers,
                   listed, setting, openings, clicks, crossed>>

ReplaceText(d) ==
    /\ Heard(d, "ReplaceText")
    /\ frame' = Taken(d)
    /\ overlay' = TRUE
    /\ timers' = timers + 1
    /\ dataTemp' = Head(frame[d].out).text
    /\ UNCHANGED <<text, script, loaded, opened, area, number, finished, listed, setting,
                   openings, clicks, crossed>>

\* It lifts the overlay whatever goes on by then.
Timer ==
    /\ timers > 0
    /\ timers' = timers - 1
    /\ overlay' = FALSE
    /\ UNCHANGED <<text, script, loaded, opened, area, number, dataTemp, finished,
                   listed, setting, frame, openings, clicks, crossed>>

\* The text goes to the editor of the global dialog.
settext(d) ==
    /\ Heard(d, "settext")
    /\ frame' = Taken(d)
    /\ text' = [text EXCEPT ![dialog] = Head(frame[d].out).text]
    /\ setting' = setting \cup {dialog}
    /\ UNCHANGED <<script, loaded, opened, area, number, dataTemp, overlay, timers,
                   finished, listed, openings, clicks, crossed>>

\* The callback of setData closes the dialog that is the global one by then.
DataSet(e) ==
    /\ e \in setting
    /\ setting' = setting \ {e}
    /\ IF opened = dialog THEN onHide ELSE dataTemp' = Empty /\ UNCHANGED opened
    /\ crossed' = openings
    /\ UNCHANGED <<text, script, loaded, area, number, overlay, timers, finished,
                   listed, frame, openings, clicks>>

-----------------------------------------------------------------------------

Next ==
    \/ \E e \in Editors : Show(e) \/ DataSet(e)
    \/ \E outcome \in {"loaded", "failed"} : ScriptEnds(outcome)
    \/ Cancel \/ Timer
    \/ ChangeTo \/ IgnoreWord \/ FinishChecking \/ onchange
    \/ \E d \in Editors : \/ FrameLoads(d) \/ Answer(d) \/ Unheard(d)
                          \/ iframeOnload(d) \/ suggestlist(d) \/ finish(d)
                          \/ ReplaceText(d) \/ settext(d)

Spec == Init /\ [][Next]_vars

-----------------------------------------------------------------------------

\* Types: the global dialog exists once one was shown, and only it has a frame
\* of another editor's number.
TypeOK ==
    /\ text \in [Editors -> Text]
    /\ script \in {"none", "loading", "loaded", "failed"}
    /\ opened \in ToSet(loaded) \cup {None}
    /\ {area, number} \subseteq Editors \cup {None}
    /\ dataTemp \in Text
    /\ {overlay, finished} \subseteq BOOLEAN /\ timers \in Nat
    /\ setting \cup listed \subseteq ToSet(loaded)
    /\ \A d \in Editors : frame[d].owner \notin {None, d} => d = dialog

\* In every step: a text put into an editor is that editor's, as it was when
\* its dialog was opened, with corrections (wsc.js:24-25): so that no work is
\* undone and no text comes from elsewhere.  It does not hold of a dialog that
\* is not the global one, opened again after the other editor's (34), nor of a
\* message of an earlier opening, which is taken as if it were of this one
\* (28).
TextGoesHome ==
    \A d \in Editors :
      settext(d) /\ opened = dialog /\ crossed # openings
      => /\ text'[dialog].of = text[dialog].of
         /\ text'[dialog].fixes >= text[dialog].fixes

\* What is sent to be checked in another language (20) is the text with its
\* corrections, not that of the beginning (25, 34), unless a message is under
\* way just then, or comes late from an earlier opening.
CorrectionsKept ==
    Open /\ crossed # openings =>
        (AtWork(frame[target]) /\ frame[target].out = <<>>
           /\ frame[target].text # Empty => dataTemp = frame[target].text)
=============================================================================
