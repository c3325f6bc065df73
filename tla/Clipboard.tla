------------------------------- MODULE Clipboard -------------------------------
(***************************************************************************)
(* Pasting into a text editor (the plugins clipboard, pastetext and        *)
(* pastefromword of ckeditor.js): by the keys of the browser, whose        *)
(* content is caught in a hidden element, or by the three buttons, which   *)
(* ask the browser and, if it will not, the user, in a dialog.  What comes *)
(* from Word is cleaned by a script that is loaded when first needed.      *)
(*                                                                         *)
(* Internet Explorer, which asks for the clipboard in another way, is left *)
(* out.  The dialog is not asked for while another is open (Dialogs), and  *)
(* the next act of the user comes after the timers of 0 and 10 ms.         *)
(***************************************************************************)
EXTENDS Naturals, SequencesExt

CONSTANTS
    None,       \* no paste, no ask
    MaxAsks,    \* bound on the buttons pressed
    MaxPastes   \* bound on the contents pasted

VARIABLES
    native,     \* the browser pastes for a script too
    mode,       \* "wysiwyg" or "source"
    script,     \* the script that cleans: "url", "loading", "ready" or "failed"
    loading,    \* the events that wait for it
    forced,     \* "d" of pastefromword: every paste is from Word
    waiting,    \* the asks whose listener waits for the next "paste"
    left,       \* those that wait for the next "pasteDialogCommit", with their type
    bin,        \* the hidden element: [type, content], or None
    dialog,     \* the ask whose dialog is open
    closing,    \* a dialog that was closed: [ask, content, due], or None
    asks,       \* history: of each button pressed [kind, done, answers]
    given,      \* history: of each content pasted [type, word, asked]
    text,       \* history: what was inserted, [paste, type, cleaned]
    slips       \* history: the asks that got nothing, or another's
                \* content; the pastes that the source hid

vars == <<native, mode, script, loading, forced, waiting, left, bin, dialog, closing,
          asks, given, text, slips>>

Kinds == {"paste", "pastetext", "pastefromword"}
Types == {"auto", "text", "html"}

Init ==
    /\ native \in BOOLEAN /\ mode = "wysiwyg" /\ script = "url" /\ loading = <<>>
    /\ forced = FALSE /\ waiting = <<>> /\ left = <<>>
    /\ bin = None /\ dialog = None /\ closing = None
    /\ asks = <<>> /\ given = <<>> /\ text = <<>> /\ slips = {}

Idle == bin = None /\ dialog = None /\ closing = None

\* The type with which the callback of a command fires "paste".
Retyped(type, kind) ==
    CASE kind = "pastetext" -> "text" [] kind = "pastefromword" -> "html" [] OTHER -> type

Answered(callers, s) ==
    [a \in DOMAIN s |->
       IF \E n \in DOMAIN callers : callers[n] = a THEN [s[a] EXCEPT !.answers = @ + 1] ELSE s[a]]

\* What is to be cleaned waits for the script; one that failed counts as loaded,
\* and the call of what it should have defined ends everything.
Cleaned(i) == forced \/ given'[i].word
Fails(i) == Cleaned(i) /\ script = "failed"

Inserted(i, type, cleaned) ==
    text' = IF mode = "wysiwyg"
            THEN Append(text, [paste |-> i, type |-> type, cleaned |-> cleaned]) ELSE text

\* fire("paste"): the listeners of the asks that wait take it first, each firing
\* it anew; then it is cleaned and inserted, and those who took it answer.
Fire(i, type, callers, s) ==
    LET typed == FoldLeft(LAMBDA t, a : Retyped(t, s[a].kind), type, waiting)
    IN  /\ waiting' = <<>>
        /\ asks' = IF Fails(i) THEN s ELSE Answered(callers \o waiting, s)
        /\ CASE Fails(i) -> UNCHANGED <<script, loading, text>>
             [] Cleaned(i) /\ script \in {"url", "loading"} ->
                  /\ loading' = Append(loading, [paste |-> i, type |-> typed])
                  /\ script' = "loading"
                  /\ UNCHANGED text
             [] OTHER ->
                  /\ Inserted(i, typed, Cleaned(i))
                  /\ UNCHANGED <<script, loading>>

-----------------------------------------------------------------------------
(* Actions *)

\* A content of the clipboard; what the user wants of it is noted.
Given(kind, word) ==
    /\ Len(given) < MaxPastes
    /\ given' = Append(given, [type |-> Retyped("auto", kind), word |-> word,
                               asked |-> kind = "pastefromword"])

\* Ctrl+V: "beforePaste" makes it "auto", and the hidden element catches it.
PasteKey(word) ==
    /\ mode = "wysiwyg" /\ Idle
    /\ Given("paste", word)
    /\ bin' = [type |-> "auto", content |-> Len(given')]
    /\ UNCHANGED <<native, mode, script, loading, forced, waiting, left, dialog, closing,
                   asks, text, slips>>

\* A button: the browser pastes what it has, maybe nothing, or refuses.
Ask(kind, word, empty) ==
    LET a == Len(asks) + 1
        type == IF kind = "pastefromword" THEN "html" ELSE "auto"
    IN  /\ mode = "wysiwyg" /\ Idle /\ a <= MaxAsks
        /\ asks' = Append(asks, [kind |-> kind, done |-> FALSE, answers |-> 0])
        /\ forced' = (forced \/ kind = "pastefromword")
        /\ IF native
           THEN /\ IF empty THEN UNCHANGED given ELSE Given(kind, word)
                /\ bin' = [type |-> type, content |-> IF empty THEN 0 ELSE Len(given')]
                /\ waiting' = Append(waiting, a)
                /\ slips' = IF empty THEN slips \cup {<<"ask", a>>} ELSE slips
                /\ UNCHANGED <<left, dialog>>
           ELSE /\ dialog' = a
                /\ left' = Append(left, [ask |-> a, type |-> type])
                /\ UNCHANGED <<given, bin, waiting, slips>>
        /\ UNCHANGED <<native, mode, script, loading, closing, text>>

\* The timer of the hidden element: an empty one pastes nothing.
BinTimer ==
    /\ bin # None
    /\ bin' = None
    /\ UNCHANGED given
    /\ IF bin.content = 0
       THEN UNCHANGED <<script, loading, waiting, asks, text>>
       ELSE Fire(bin.content, bin.type, <<>>, asks)
    /\ UNCHANGED <<native, mode, forced, left, dialog, closing, slips>>

\* "OK" in the dialog, what is pasted into it to be fired at once.
Confirm(word, empty) ==
    /\ dialog # None
    /\ IF empty THEN UNCHANGED given ELSE Given(asks[dialog].kind, word)
    /\ closing' = [ask |-> dialog, content |-> IF empty THEN 0 ELSE Len(given'), due |-> "commit"]
    /\ dialog' = None
    /\ UNCHANGED <<native, mode, script, loading, forced, waiting, left, bin, asks, text,
                   slips>>

\* "Cancel": dialogHide removes the listener from the dialog, where it is not.
Dismiss ==
    /\ dialog # None
    /\ closing' = [ask |-> dialog, content |-> 0, due |-> "answer"]
    /\ dialog' = None
    /\ slips' = slips \cup {<<"ask", dialog>>}
    /\ UNCHANGED <<native, mode, script, loading, forced, waiting, left, bin, asks, given,
                   text>>

\* "pasteDialogCommit": the oldest listener takes it, and no other hears of it.
Commit ==
    /\ closing # None /\ closing.due = "commit"
    /\ closing' = [closing EXCEPT !.due = "answer"]
    /\ UNCHANGED given
    /\ left' = Tail(left)
    /\ LET j == Head(left)
           heard == [asks EXCEPT ![j.ask].done = TRUE]
       IN  IF closing.content = 0 /\ heard[j.ask].kind = "paste"
           THEN /\ asks' = Answered(<<j.ask>>, heard)
                /\ UNCHANGED <<script, loading, waiting, text>>
           ELSE IF closing.content = 0
           THEN /\ asks' = Answered(<<j.ask>> \o waiting, heard)
                /\ waiting' = <<>>
                /\ UNCHANGED <<script, loading, text>>
           ELSE Fire(closing.content, Retyped(j.type, heard[j.ask].kind), <<j.ask>>, heard)
    /\ UNCHANGED <<native, mode, forced, bin, dialog, slips>>

\* 10 ms after the dialog's end its ask is told that there is nothing, unless
\* its listener was called.
Answer ==
    /\ closing # None /\ closing.due = "answer"
    /\ closing' = None
    /\ asks' = IF asks[closing.ask].done THEN asks ELSE Answered(<<closing.ask>>, asks)
    /\ UNCHANGED <<native, mode, script, loading, forced, waiting, left, bin, dialog,
                   given, text, slips>>

\* The events that waited are fired again; an error ends them all.
ScriptEnds(ok) ==
    /\ script = "loading"
    /\ script' = IF ok THEN "ready" ELSE "failed"
    /\ loading' = <<>> /\ waiting' = <<>>
    /\ asks' = IF ok THEN Answered(waiting, asks) ELSE asks
    /\ LET first == FoldLeft(LAMBDA t, a : Retyped(t, asks[a].kind), loading[1].type, waiting)
       IN  text' = IF ok /\ mode = "wysiwyg"
                   THEN text \o [n \in DOMAIN loading |->
                          [paste |-> loading[n].paste, cleaned |-> TRUE,
                           type |-> IF n = 1 THEN first ELSE loading[n].type]]
                   ELSE text
    /\ slips' = slips \cup {<<"ask", waiting[n]>> : n \in DOMAIN waiting} \cup
                 {<<"paste", loading[n].paste>> :
                    n \in IF mode = "source" THEN DOMAIN loading ELSE {}}
    /\ UNCHANGED <<native, mode, forced, left, bin, dialog, closing, given>>

SwitchMode ==
    /\ Idle
    /\ mode' = IF mode = "wysiwyg" THEN "source" ELSE "wysiwyg"
    /\ UNCHANGED <<native, script, loading, forced, waiting, left, bin, dialog, closing,
                   asks, given, text, slips>>

Next ==
    \/ BinTimer \/ Dismiss \/ Commit \/ Answer \/ SwitchMode
    \/ \E word \in BOOLEAN :
         \/ PasteKey(word)
         \/ \E empty \in BOOLEAN :
              \/ Confirm(word, empty)
              \/ \E kind \in Kinds : Ask(kind, word, empty)
    \/ \E ok \in BOOLEAN : ScriptEnds(ok)

Spec == Init /\ [][Next]_vars

-----------------------------------------------------------------------------
(* Properties *)

\* Every part of the state has its type.
TypeOK ==
    /\ mode \in {"wysiwyg", "source"} /\ script \in {"url", "loading", "ready", "failed"}
    /\ \A n \in DOMAIN loading : loading[n].paste \in DOMAIN given /\ loading[n].type \in Types
    /\ \A n \in DOMAIN waiting : waiting[n] \in DOMAIN asks
    /\ \A n \in DOMAIN left : left[n].ask \in DOMAIN asks /\ left[n].type \in Types
    /\ dialog \in DOMAIN asks \cup {None}
    /\ \A a \in DOMAIN asks : asks[a].kind \in Kinds /\ asks[a].answers \in 0..2
    /\ \A n \in DOMAIN text : text[n].paste \in DOMAIN given /\ text[n].type \in Types

Insertions(i) == {n \in DOMAIN text : text[n].paste = i}

\* What is pasted comes into the text once, and, when nothing is under way, it
\* is there, whatever earlier asks left behind: unless the script that cleans it
\* could not be loaded, or came while the source was shown (the "paste" events).
PastedOnce ==
    \A i \in DOMAIN given :
       /\ Cardinality(Insertions(i)) <= 1
       /\ Idle /\ loading = <<>> =>
            \/ Insertions(i) # {}
            \/ script = "failed" /\ (forced \/ given[i].word)
            \/ <<"paste", i>> \in slips

\* It comes as the user asked for it, unless an ask before got nothing, or a
\* content that waited for the script; and it
\* is cleaned if it is from Word, and, if not, only after "Paste from Word" was
\* asked for once (getClipboardData, pastefromword).
PastedAsAsked ==
    \A n \in DOMAIN text :
       LET g == given[text[n].paste] IN
       /\ (\A s \in slips : s[1] # "ask") => text[n].type = g.type
       /\ g.word \/ g.asked => text[n].cleaned
       /\ text[n].cleaned => g.word \/ \E a \in DOMAIN asks : asks[a].kind = "pastefromword"

\* With nothing under way every ask was answered once, unless one got nothing,
\* or another's, or the script failed (the "afterCommandExec" of the
\* asynchronous commands).
AnsweredOnce ==
    Idle /\ (\A s \in slips : s[1] # "ask") /\ script # "failed" =>
       /\ \A a \in DOMAIN asks : asks[a].answers = 1
       /\ waiting = <<>> /\ left = <<>>
=============================================================================
