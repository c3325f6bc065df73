-------------------------------- MODULE Scayt --------------------------------
(***************************************************************************)
(* Spell check as you type in the text editors of one page (ckeditor.js,   *)
(* plugin scayt, and plugins/scayt/dialogs/options.js).  Its library comes *)
(* from another server when it is first asked for; meanwhile the user goes *)
(* on.  Each editor that asked is in "loadOrder" and gets an instance of   *)
(* the library when it has come, and a new one with each new document.     *)
(*                                                                         *)
(* Left out: what the library does with the text, the check boxes and the  *)
(* dictionaries of the dialog, the look of the button.                     *)
(***************************************************************************)
EXTENDS Naturals, Sequences, FiniteSetsExt

CONSTANTS
    Editors,     \* the editors of the page
    Langs,       \* the languages
    FirstLang,   \* scayt_sLang
    Nothing,     \* no editor, no language, no instance
    MaxToggles,  \* bound on the times it is switched on or off
    MaxSwitches, \* bound on the changes to the source
    MaxClicks    \* bound on the languages chosen in dialogs

VARIABLES
    library,   \* the script
    loadOrder, \* the editors that have asked for it
    helper,    \* loadingHelper: those whose callback has not been called
    state,     \* state[e]: whether the user wants to have e checked
    mode,      \* mode[e], with the two steps back from the source
    frame,     \* frame[e]: counts the frames that e has had
    scayt,     \* scayt[e]: the instance; frame 0 is the source's textarea
    sLang,     \* sLang[e]: config.scayt_sLang
    options,   \* options[e]: the dialog
    first,     \* the editor whose dialog was made first
    acts,      \* counts what the user does, for the bounds
    slips      \* slips[e]: history, what went wrong for e

vars == <<library, loadOrder, helper, state, mode, frame, scayt, sLang, options,
          first, acts, slips>>

Init ==
    /\ library = "none" /\ loadOrder = <<>> /\ helper = {}
    /\ state = [e \in Editors |-> FALSE]
    /\ mode = [e \in Editors |-> "wysiwyg"]
    /\ frame = [e \in Editors |-> 1]
    /\ scayt = [e \in Editors |-> Nothing]
    /\ sLang = [e \in Editors |-> FirstLang]
    /\ options = [e \in Editors |->
         [made |-> FALSE, open |-> FALSE, currentLang |-> Nothing,
          newLang |-> Nothing, shown |-> Nothing]]
    /\ first = Nothing
    /\ acts = [toggles |-> 0, switches |-> 0, clicks |-> 0]
    /\ slips = [e \in Editors |-> {}]

-----------------------------------------------------------------------------
(* Instances *)

Instance(e) ==
    [frame |-> IF mode[e] = "source" THEN 0 ELSE frame[e], lang |-> sLang[e]]

Ready(e) == mode[e] = "wysiwyg" /\ ~\E d \in Editors : options[d].open

Slipped(e, gone, come) == [slips EXCEPT ![e] = (@ \ gone) \cup come]

\* createScayt: at once, or when the library comes.
createScayt(e) ==
    IF library = "loaded"
    THEN /\ scayt' = [scayt EXCEPT ![e] = IF @ = Nothing THEN Instance(e) ELSE @]
         /\ UNCHANGED <<library, loadOrder, helper>>
    ELSE /\ loadOrder' = Append(loadOrder, e) /\ helper' = helper \cup {e}
         /\ library' = IF library = "none" THEN "loading" ELSE library
         /\ UNCHANGED scayt

OnlyScayt == UNCHANGED <<library, loadOrder, helper>>
OnlyInstances == UNCHANGED <<sLang, options, first>>

\* The callback of an editor without an editable throws; those after it are
\* not called any more.
Served ==
    LET Torn(i) == loadOrder[i] \in helper /\ mode[loadOrder[i]] = "frame"
        torn == {i \in DOMAIN loadOrder : Torn(i)}
        reached == IF torn = {} THEN DOMAIN loadOrder ELSE 1..(Min(torn) - 1)
    IN  helper \cap {loadOrder[i] : i \in reached}

\* The script has come.  What was asked for is made, wanted or not.
LibraryLoads ==
    /\ library = "loading" /\ library' = "loaded"
    /\ scayt' = [e \in Editors |-> IF e \in Served THEN Instance(e) ELSE scayt[e]]
    /\ helper' = helper \ Served
    /\ loadOrder' = IF helper \subseteq Served THEN <<>> ELSE loadOrder
    /\ slips' = [e \in Editors |->
         IF e \in Served /\ (~state[e] \/ mode[e] = "source") THEN {"late"}
         ELSE IF e \in helper \ Served THEN {"forgotten"} ELSE slips[e]]
    /\ OnlyInstances /\ UNCHANGED <<state, mode, frame, acts>>

\* The other server does not answer, and is not asked again.
LibraryFails ==
    /\ library = "loading" /\ library' = "failed"
    /\ OnlyInstances
    /\ UNCHANGED <<loadOrder, helper, state, mode, frame, scayt, acts, slips>>

\* "Enable" and "Disable" in the menu.
scaytToggle(e) ==
    /\ Ready(e) /\ acts.toggles < MaxToggles
    /\ acts' = [acts EXCEPT !.toggles = @ + 1]
    /\ state' = [state EXCEPT ![e] = ~@]
    /\ IF state'[e] /\ scayt[e] = Nothing THEN createScayt(e)
       ELSE /\ scayt' = IF state'[e] THEN scayt ELSE [scayt EXCEPT ![e] = Nothing]
            /\ OnlyScayt
    /\ slips' = Slipped(e, {"late", "forgotten"}, {})
    /\ OnlyInstances /\ UNCHANGED <<mode, frame>>

-----------------------------------------------------------------------------
(* Modes *)

\* The command "source" destroys the instance first.
ToSource(e) ==
    /\ Ready(e) /\ acts.switches < MaxSwitches
    /\ acts' = [acts EXCEPT !.switches = @ + 1]
    /\ mode' = [mode EXCEPT ![e] = "source"]
    /\ scayt' = [scayt EXCEPT ![e] = Nothing]
    /\ slips' = Slipped(e, {"late"}, {})
    /\ OnlyScayt /\ OnlyInstances /\ UNCHANGED <<state, frame>>

\* Back: there is a new frame, and no editable until it is loaded.
ToWysiwyg(e) ==
    /\ mode[e] = "source" /\ ~\E d \in Editors : options[d].open
    /\ mode' = [mode EXCEPT ![e] = "frame"]
    /\ frame' = [frame EXCEPT ![e] = @ + 1]
    /\ OnlyScayt /\ OnlyInstances /\ UNCHANGED <<state, scayt, acts, slips>>

\* "setData" destroys an instance.
FrameLoads(e) ==
    /\ mode[e] = "frame"
    /\ mode' = [mode EXCEPT ![e] = "document"]
    /\ scayt' = [scayt EXCEPT ![e] = Nothing]
    /\ slips' = Slipped(e, {"late"}, {})
    /\ OnlyScayt /\ OnlyInstances /\ UNCHANGED <<state, frame, acts>>

\* "contentDom": the document is there, and is checked if the user wants it.
contentDom(e) ==
    /\ mode[e] = "document"
    /\ mode' = [mode EXCEPT ![e] = "wysiwyg"]
    /\ IF state[e] THEN createScayt(e) ELSE OnlyScayt /\ UNCHANGED scayt
    /\ slips' = Slipped(e, IF state[e] THEN {"forgotten"} ELSE {}, {})
    /\ OnlyInstances /\ UNCHANGED <<state, frame, acts>>

-----------------------------------------------------------------------------
(* The dialog, of which each editor has its own.  The radio buttons have   *)
(* the same identifiers in all of them, and those first made are found.    *)

scaytLangs(e) ==
    /\ Ready(e) /\ scayt[e] # Nothing
    /\ LET lang == scayt[e].lang
           made == [made |-> TRUE, open |-> TRUE, currentLang |-> lang,
                    newLang |-> Nothing, shown |-> lang]
           here == IF options[e].made THEN [options[e] EXCEPT !.open = TRUE] ELSE made
           found == IF first = Nothing THEN e ELSE first
       IN  /\ first' = found
           /\ options' = [d \in Editors |->
                LET o == IF d = e THEN here ELSE options[d]
                IN  IF d = found THEN [o EXCEPT !.shown = lang] ELSE o]
    /\ UNCHANGED <<library, loadOrder, helper, state, mode, frame, scayt, sLang,
                   acts, slips>>

OnlyDialog == UNCHANGED <<library, loadOrder, helper, state, mode, frame, first>>

\* A click on a language.
ClickLang(e, lang) ==
    /\ options[e].open /\ acts.clicks < MaxClicks
    /\ acts' = [acts EXCEPT !.clicks = @ + 1]
    /\ options' = [options EXCEPT ![e].newLang = lang, ![e].shown = lang]
    /\ slips' = Slipped(e, {"kept"}, {})
    /\ OnlyDialog /\ UNCHANGED <<scayt, sLang>>

isChanged(e) ==
    options[e].newLang # Nothing /\ options[e].newLang # options[e].currentLang

\* The language that OK leaves.
Confirmed(e) == IF isChanged(e) THEN options[e].newLang ELSE scayt[e].lang

onOk(e) ==
    /\ options[e].open
    /\ scayt' = [scayt EXCEPT ![e].lang = Confirmed(e)]
    /\ sLang' = [sLang EXCEPT ![e] = IF isChanged(e) THEN options[e].newLang ELSE @]
    /\ options' = [options EXCEPT ![e].open = FALSE,
                     ![e].currentLang = IF isChanged(e) THEN options[e].newLang ELSE @]
    /\ slips' = Slipped(e, {"kept"}, {})
    /\ OnlyDialog /\ UNCHANGED acts

\* The plugin's own listener stops "cancel" before onCancel, which would
\* forget the language that was clicked.
Cancel(e) ==
    /\ options[e].open
    /\ options' = [options EXCEPT ![e].open = FALSE]
    /\ slips' = Slipped(e, {}, IF isChanged(e) THEN {"kept"} ELSE {})
    /\ OnlyDialog /\ UNCHANGED <<scayt, sLang, acts>>

-----------------------------------------------------------------------------
Next ==
    \/ LibraryLoads \/ LibraryFails
    \/ \E e \in Editors :
         \/ scaytToggle(e)
         \/ ToSource(e) \/ ToWysiwyg(e) \/ FrameLoads(e) \/ contentDom(e)
         \/ scaytLangs(e) \/ onOk(e) \/ Cancel(e)
         \/ \E lang \in Langs : ClickLang(e, lang)

Spec == Init /\ [][Next]_vars

-----------------------------------------------------------------------------
TypeOK ==
    /\ library \in {"none", "loading", "loaded", "failed"}
    /\ helper \subseteq Editors /\ loadOrder \in Seq(Editors)
    /\ state \in [Editors -> BOOLEAN]
    /\ mode \in [Editors -> {"wysiwyg", "source", "frame", "document"}]
    /\ scayt \in [Editors -> {Nothing} \cup
                    [frame : 0..(MaxSwitches + 1), lang : Langs]]
    /\ sLang \in [Editors -> Langs]
    /\ first \in Editors \cup {Nothing}

\* Once the library is there, a text is checked just when the user wants it and
\* sees it: not in the source, and not after it was switched off.  Not so for
\* what was switched off or turned to its source while the library was still on
\* its way ("late"), nor for those that asked after an editor whose frame was
\* not loaded then ("forgotten", ckeditor.js:876), until the next document.
CheckedAsWanted ==
    library = "loaded" =>
        \A e \in Editors :
            /\ mode[e] = "wysiwyg" /\ slips[e] \cap {"late", "forgotten"} = {}
                 => (scayt[e] # Nothing <=> state[e])
            /\ mode[e] = "source" /\ scayt[e] # Nothing => "late" \in slips[e]

\* An instance checks the text that is shown, not the one of an earlier frame.
ChecksWhatIsShown ==
    \A e \in Editors : scayt[e] # Nothing =>
        scayt[e].frame = IF mode[e] \in {"source", "frame"} THEN 0 ELSE frame[e]

\* OK leaves the language that the dialog shows, also that of a second editor,
\* and the next document has it too.  Not so after a language was clicked and
\* the dialog was cancelled ("kept"): the next OK without a click takes that
\* one (options.js:12-15, ckeditor.js:855).
LanguageAsShown ==
    \A e \in Editors :
        /\ options[e].open /\ "kept" \notin slips[e] => Confirmed(e) = options[e].shown
        /\ scayt[e] # Nothing => scayt[e].lang = sLang[e]
=============================================================================
