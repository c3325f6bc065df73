----------------------------- MODULE MCWebPages -----------------------------
(***************************************************************************)
(* The pages of the web application, and the parts of the text editor in   *)
(* them, one of them open in each behaviour.  They share no state, so that *)
(* each is checked as if it ran alone, with the bounds given here and in   *)
(* the configuration; a behaviour of one is at the same time one of each   *)
(* of the others, which only stand still in it.                            *)
(***************************************************************************)
EXTENDS WebPages

\* afterN: the variables that a page with N variables does not need.
after16 == <<w17, w18>>
after14 == <<w15, w16, after16>>
after12 == <<w13, w14, after14>>
after11 == <<w12, after12>>
after9 == <<w10, w11, after11>>
after8 == <<w9, after9>>
after7 == <<w8, after8>>
after6 == <<w7, after7>>
after5 == <<w6, after6>>
after3 == <<w4, w5, after5>>

\* BlankN: they stay None.
Blank16 == w17 = None /\ w18 = None
Blank14 == w15 = None /\ w16 = None /\ Blank16
Blank12 == w13 = None /\ w14 = None /\ Blank14
Blank11 == w12 = None /\ Blank12
Blank9 == w10 = None /\ w11 = None /\ Blank11
Blank8 == w9 = None /\ Blank9
Blank7 == w8 = None /\ Blank8
Blank6 == w7 = None /\ Blank7
Blank5 == w6 = None /\ Blank6
Blank3 == w4 = None /\ w5 = None /\ Blank5

-----------------------------------------------------------------------------
\* What the pages are given.

\* Two problems of a contest.
TwoProblems == <<"p", "q">>

\* The solutions opened in two pages.
TwoWanted == <<{"x"}, {"y"}>>

\* A description with markup that the filter removes.
OneDescription == [text |-> "a", extra |-> TRUE]

\* The elements of a paste or of the source.
Pasted ==
    LET Element(name, props) == [name |-> name, props |-> props]
        css(name, value) == <<"style", name, value>>
        attribute(name, value) == <<"attribute", name, value>>
    IN  {Element("b", {}), Element("i", {css("color", "red")}),
         Element("span", {css("font-weight", "bold"), css("font-style", "italic")}),
         Element("h4", {css("color", "red")}),
         Element("h2", {css("font-style", "oblique")}),
         Element("table", {attribute("width", "10"), attribute("border", "1")}),
         Element("img", {attribute("src", "a"), attribute("width", "10"),
                         attribute("align", "left")}),
         Element("img", {attribute("align", "left")})}

\* Two tables: a square, and one in which cells span rows.
Drawn ==
    LET C(text, rows) ==
            [text |-> {text}, colSpan |-> 1, rowSpan |-> rows, tag |-> "td"]
    IN  {<<<<C("a", 1), C("b", 1)>>, <<C("c", 1), C("d", 1)>>>>,
         <<<<C("a", 3), C("b", 1), C("c", 1)>>, <<C("d", 2), C("e", 1)>>,
           <<C("f", 1)>>>>}

\* A dialog with a second page whose field nobody must fill, one without
\* fields, and one that its button opens.
Forms ==
    LET F(tab, required, setup) ==
            [tab |-> tab, required |-> required, setup |-> setup]
    IN  [link |-> <<F("info", TRUE, TRUE), F("target", FALSE, FALSE)>>,
         check |-> <<>>, options |-> <<F("options", FALSE, TRUE)>>]

\* What the plugins offer for the toolbar, the groups neither complete nor
\* in order.
Buttons ==
    LET O(name, group, order, kind) ==
            [name |-> name, group |-> group, order |-> order, kind |-> kind]
    IN  <<O("About", "about", -1, "button"), O("Redo", "undo", 20, "button"),
          O("Undo", "undo", 10, "button"), O("Cut", "clipboard", 10, "button"),
          O("Format", "styles", 20, "combo"), O("Styles", "styles", 10, "combo"),
          O("Scayt", "spellchecker", 20, "menu"), O("Search", "none", -1, "button")>>

Choices == [Format |-> <<"p", "h1">>, Styles |-> <<"big", "red">>]

\* Places of the caret: with no style, with one, outside of a paragraph, and
\* where no style applies.
Places ==
    LET P(format, active, applicable) ==
            [format |-> format, active |-> active, applicable |-> applicable]
    IN  {P("p", {}, {"big", "red"}), P("h1", {"red"}, {"red"}),
         P(None, {}, {"red"}), P(None, {}, {})}

\* Rows of two cells whose styles and attributes agree, differ, or
\* contradict each other.
Rowed ==
    LET Styled == {"width", "height", "wordWrap", "hAlign", "vAlign", "bgColor",
                   "borderColor"}
        Plain == [style |-> [f \in Styled |-> None],
                  attribute |-> [f \in Styled \cup {"rowSpan", "colSpan"} |-> None],
                  unit |-> None, name |-> "td"]
        Wide == [Plain EXCEPT !.style.width = "20", !.unit = "px",
                              !.style.hAlign = "left", !.attribute.rowSpan = "2"]
        Half == [Plain EXCEPT !.attribute.width = "50", !.unit = "%",
                              !.attribute.hAlign = "left",
                              !.style.wordWrap = "no", !.name = "th"]
        Old == [Plain EXCEPT !.attribute.width = "20", !.attribute.bgColor = "red",
                             !.style.bgColor = "blue", !.attribute.wordWrap = "nowrap"]
    IN  {<<Wide, Half>>, <<Wide, Old>>, <<Old, Plain>>}

Entered ==
    [width |-> {"", "20", "30"}, widthType |-> {"px", "%"}, hAlign |-> {"", "left"},
     wordWrap |-> {"no", "yes"}, cellType |-> {"td", "th"},
     rowSpan |-> {"", "1", "2"}, bgColor |-> {"", "red"}, height |-> {},
     vAlign |-> {}, borderColor |-> {}, colSpan |-> {}]

-----------------------------------------------------------------------------
\* The pages.

Filter ==
    INSTANCE ContentFilter WITH
        Foreign <- Pasted, MaxActs <- 4,
        Skipped <- {"small", "tt", "code", "kbd", "samp", "var", "del", "ins",
                    "cite", "q", "u", "s", "sub", "sup"},
        block <- w1, inline <- w2, object <- w3, acts <- w4, restyled <- w5

Image ==
    INSTANCE ImageDialog WITH
        Names <- {"n", "m"}, Pictures <- {"wide", "square"},
        Before <- [f \in {"n", "m"} |-> IF f = "n" THEN "wide" ELSE None],
        Given <- [src |-> "n", width |-> 1, height |-> -1],
        Natural <- [wide |-> <<4, 2>>, square |-> <<2, 2>>],
        Torn <- "torn", Typed <- {0}, Uploads <- {1, 2}, MaxActs <- 2,
        picture <- w1, dialog <- w2, files <- w3, uploads <- w4,
        fileUploadForm <- w5, userActs <- w6

Formula ==
    INSTANCE Formulas WITH
        Signs <- {"a", "b"}, Torn <- "torn", NoWidget <- None,
        FirstSource <- <<[text |-> "a", fenced |-> FALSE],
                         [text |-> "b", fenced |-> TRUE]>>,
        MaxFormulas <- 2, MaxSteps <- 3,
        editing <- w1, source <- w2, doc <- w3, instances <- w4,
        nextId <- w5, frames <- w6, focused <- w7, equation <- w8,
        images <- w9, imageIndex <- w10, locked <- w11, copybin <- w12,
        deaf <- w13, clip <- w14, steps <- w15, restored <- w16

Link ==
    INSTANCE Links WITH
        Rests <- {"x", "/x"}, Rooted <- {"/x"}, Names <- {"t"},
        Addresses <- {"m"}, MaxEdits <- 3,
        place <- w1, anchors <- w2, dialog <- w3, fields <- w4, edits <- w5,
        session <- w6

Tools ==
    INSTANCE TableTools WITH
        First <- Drawn, Texts <- {"a", "b", "c", "d", "e", "f"},
        MaxCommands <- 2,
        table <- w1, last <- w2, commands <- w3

List ==
    INSTANCE Lists WITH
        Texts <- <<"a", "b", "c", "d">>, MaxDepth <- 3, MaxCommands <- 1,
        doc <- w1, last <- w2, commands <- w3

Source ==
    INSTANCE Highlighter WITH
        MaxLength <- 3, Styles <- {"pln", "kwd"}, Nbsp <- "nbsp",
        source <- w1, items <- w2, chosen <- w3

Spelling ==
    INSTANCE SpellCheck WITH
        Editors <- {"d", "r"}, MaxOpens <- 2, MaxClicks <- 2,
        text <- w1, script <- w2, loaded <- w3, opened <- w4, area <- w5,
        number <- w6, dataTemp <- w7, overlay <- w8, timers <- w9,
        finished <- w10, listed <- w11, setting <- w12, frame <- w13,
        openings <- w14, clicks <- w15, crossed <- w16

Dialog ==
    INSTANCE Dialogs WITH
        Dialogs <- {"link", "check", "options"}, Inner <- {"options"},
        Outer <- "check", Fields <- Forms, MaxActs <- 3,
        macWebKit <- w1, state <- w2, currentTop <- w3, cover <- w4,
        element <- w5, focus <- w6, away <- w7, manager <- w8, hung <- w9,
        acts <- w10, slips <- w11

Paste ==
    INSTANCE Clipboard WITH
        MaxAsks <- 2, MaxPastes <- 2,
        native <- w1, mode <- w2, script <- w3, loading <- w4, forced <- w5,
        waiting <- w6, left <- w7, bin <- w8, dialog <- w9, closing <- w10,
        asks <- w11, given <- w12, text <- w13, slips <- w14

Bar ==
    INSTANCE Toolbar WITH
        Offered <- Buttons,
        allowed <- w1, toolbars <- w2, focus <- w3

Combo ==
    INSTANCE Combos WITH
        Items <- Choices, Carets <- Places, MaxActs <- 3,
        mode <- w1, caret <- w2, told <- w3, combo <- w4, panel <- w5,
        due <- w6, focus <- w7, acts <- w8, slips <- w9

Cells ==
    INSTANCE CellProperties WITH
        First <- Rowed, Typed <- Entered, MaxDialogs <- 1,
        table <- w1, selected <- w2, setup <- w3, shown <- w4,
        confirmed <- w5

Characters ==
    INSTANCE SpecialCharacters WITH
        Characters <- 5, charColumns <- 3,
        open <- w1, at <- w2, hovered <- w3, preview <- w4, j <- w5,
        lit <- w6, inserted <- w7, crossed <- w8

Menu ==
    INSTANCE Menus WITH
        Contents <- {<<"command", "sub", "sub">>, <<"sub", "disabled">>, <<>>},
        MaxActs <- 6,
        items <- w1, m <- w2, over <- w3, acts <- w4, slips <- w5

Fragment ==
    INSTANCE Fragments WITH
        Tags <- {"p", "ul", "li", "b", "link", "anchor", "img", "br"},
        MaxTokens <- 4,
        parser <- w1, stack <- w2, given <- w3, loose <- w4, tokens <- w5,
        ended <- w6

AsYouType ==
    INSTANCE Scayt WITH
        Editors <- {"d", "r"}, Langs <- {"en", "fr"}, FirstLang <- "en",
        Nothing <- None, MaxToggles <- 3, MaxSwitches <- 1, MaxClicks <- 2,
        library <- w1, loadOrder <- w2, helper <- w3, state <- w4, mode <- w5,
        frame <- w6, scayt <- w7, sLang <- w8, options <- w9, first <- w10,
        acts <- w11, slips <- w12

-----------------------------------------------------------------------------
\* Exactly one page is open, from its first state on.
Init ==
    \/ open = "tests" /\ Tests!Init
    \/ open = "table" /\ Table!Init /\ Blank14
    \/ open = "contest" /\ Contest!Init /\ Blank16
    \/ open = "description" /\ Description!Init /\ Blank8
    \/ open = "filter" /\ Filter!Init /\ Blank5
    \/ open = "image" /\ Image!Init /\ Blank6
    \/ open = "formula" /\ Formula!Init /\ Blank16
    \/ open = "link" /\ Link!Init /\ Blank6
    \/ open = "tools" /\ Tools!Init /\ Blank3
    \/ open = "list" /\ List!Init /\ Blank3
    \/ open = "solution" /\ Solution!Init /\ Blank7
    \/ open = "source" /\ Source!Init /\ Blank3
    \/ open = "spelling" /\ Spelling!Init /\ Blank16
    \/ open = "dialog" /\ Dialog!Init /\ Blank11
    \/ open = "paste" /\ Paste!Init /\ Blank14
    \/ open = "bar" /\ Bar!Init /\ Blank3
    \/ open = "combo" /\ Combo!Init /\ Blank9
    \/ open = "cells" /\ Cells!Init /\ Blank5
    \/ open = "characters" /\ Characters!Init /\ Blank8
    \/ open = "menu" /\ Menu!Init /\ Blank5
    \/ open = "event" /\ Event!Init /\ Blank7
    \/ open = "fragment" /\ Fragment!Init /\ Blank6
    \/ open = "scayt" /\ AsYouType!Init /\ Blank12

TestsStep == open = "tests" /\ Tests!Next /\ UNCHANGED open
TableStep == open = "table" /\ Table!Next /\ UNCHANGED <<open, after14>>
ContestStep == open = "contest" /\ Contest!Next /\ UNCHANGED <<open, after16>>
DescriptionStep == open = "description" /\ Description!Next /\ UNCHANGED <<open, after8>>
FilterStep == open = "filter" /\ Filter!Next /\ UNCHANGED <<open, after5>>
ImageStep == open = "image" /\ Image!Next /\ UNCHANGED <<open, after6>>
FormulaStep == open = "formula" /\ Formula!Next /\ UNCHANGED <<open, after16>>
LinkStep == open = "link" /\ Link!Next /\ UNCHANGED <<open, after6>>
ToolsStep == open = "tools" /\ Tools!Next /\ UNCHANGED <<open, after3>>
ListStep == open = "list" /\ List!Next /\ UNCHANGED <<open, after3>>
SolutionStep == open = "solution" /\ Solution!Next /\ UNCHANGED <<open, after7>>
SourceStep == open = "source" /\ Source!Next /\ UNCHANGED <<open, after3>>
SpellingStep == open = "spelling" /\ Spelling!Next /\ UNCHANGED <<open, after16>>
DialogStep == open = "dialog" /\ Dialog!Next /\ UNCHANGED <<open, after11>>
PasteStep == open = "paste" /\ Paste!Next /\ UNCHANGED <<open, after14>>
BarStep == open = "bar" /\ Bar!Next /\ UNCHANGED <<open, after3>>
ComboStep == open = "combo" /\ Combo!Next /\ UNCHANGED <<open, after9>>
CellsStep == open = "cells" /\ Cells!Next /\ UNCHANGED <<open, after5>>
CharactersStep == open = "characters" /\ Characters!Next /\ UNCHANGED <<open, after8>>
MenuStep == open = "menu" /\ Menu!Next /\ UNCHANGED <<open, after5>>
EventStep == open = "event" /\ Event!Next /\ UNCHANGED <<open, after7>>
FragmentStep == open = "fragment" /\ Fragment!Next /\ UNCHANGED <<open, after6>>
AsYouTypeStep == open = "scayt" /\ AsYouType!Next /\ UNCHANGED <<open, after12>>

Next ==
    \/ TestsStep \/ TableStep \/ ContestStep \/ DescriptionStep \/ FilterStep
    \/ ImageStep \/ FormulaStep \/ LinkStep \/ ToolsStep \/ ListStep
    \/ SolutionStep \/ SourceStep \/ SpellingStep \/ DialogStep \/ PasteStep
    \/ BarStep \/ ComboStep \/ CellsStep \/ CharactersStep \/ MenuStep
    \/ EventStep \/ FragmentStep \/ AsYouTypeStep

\* The fairness that the modules of the pages state and argue for.
Fairness ==
    /\ \A call \in Tests!Calls :
         WF_window(open = "tests" /\ Tests!Answering(call) /\ UNCHANGED open)
    /\ \A n \in 1..MaxDraws :
         WF_window(open = "table" /\ Table!Answering(n) /\ UNCHANGED <<open, after14>>)
    /\ \A e \in TextAreas :
         WF_window(/\ open = "description" /\ Description!Starting(e)
                   /\ UNCHANGED <<open, after8>>)
    /\ \A s \in Description!Scripts :
         WF_window(/\ open = "description" /\ Description!Loading(s)
                   /\ UNCHANGED <<open, after8>>)
    /\ WF_window(open = "formula" /\ Formula!CopyEnds /\ UNCHANGED <<open, after16>>)
    /\ \A id \in 1..Formula!MaxIds :
         WF_window(/\ open = "formula" /\ Formula!UpdateDone(id)
                   /\ UNCHANGED <<open, after16>>)
    /\ \A p \in Viewers :
         WF_window(open = "solution" /\ Solution!Working(p) /\ UNCHANGED <<open, after7>>)
    /\ \A s \in Judged :
         WF_window(/\ open = "solution" /\ Solution!testSolutionInternal(s)
                   /\ UNCHANGED <<open, after7>>)

Spec == Init /\ [][Next]_window /\ Fairness

-----------------------------------------------------------------------------
\* Every page keeps to the types of its variables.
PagesTyped ==
    CASE open = "tests" -> Tests!TypeOK
      [] open = "table" -> Table!TypeOK
      [] open = "contest" -> Contest!TypeOK
      [] open = "description" -> Description!TypeOK
      [] open = "filter" -> Filter!TypeOK
      [] open = "image" -> Image!TypeOK
      [] open = "formula" -> Formula!TypeOK
      [] open = "link" -> Link!TypeOK
      [] open = "tools" -> Tools!TypeOK
      [] open = "list" -> List!TypeOK
      [] open = "solution" -> Solution!TypeOK
      [] open = "spelling" -> Spelling!TypeOK
      [] open = "dialog" -> Dialog!TypeOK
      [] open = "paste" -> Paste!TypeOK
      [] open = "bar" -> Bar!TypeOK
      [] open = "combo" -> Combo!TypeOK
      [] open = "cells" -> Cells!TypeOK
      [] open = "characters" -> Characters!TypeOK
      [] open = "menu" -> Menu!TypeOK
      [] open = "event" -> Event!TypeOK
      [] open = "fragment" -> Fragment!TypeOK
      [] open = "scayt" -> AsYouType!TypeOK
      [] OTHER -> TRUE

-----------------------------------------------------------------------------
\* What is written, pasted, drawn or uploaded stays as it was meant: the filter
\* keeps the editor's own styles, a formula its text through every copy and
\* undo, a picture its sizes, a link its parts, a table its rectangle, a paste
\* comes once and as asked, a correction survives the change of the language,
\* highlighted source keeps its text and has the styles of its tokens, and text
\* that is read into a tree keeps its words and their forms.
ContentKept ==
    CASE open = "filter" ->
           Filter!OwnStylesKept /\ Filter!FilterSettles /\ Filter!FormsRecognised
      [] open = "image" -> Image!SizesOfPicture /\ Image!UploadedIsShown
      [] open = "formula" ->
           Formula!FormulasKept /\ Formula!PreviewTrue /\ Formula!NoStrayFormula
      [] open = "link" -> Link!UntouchedKept /\ Link!ConfirmedIsRead
      [] open = "tools" -> Tools!KeptWhole
      [] open = "source" -> Source!TextKept /\ Source!StylesTrue
      [] open = "spelling" -> Spelling!CorrectionsKept
      [] open = "paste" -> Paste!PastedOnce /\ Paste!PastedAsAsked
      [] open = "fragment" ->
           /\ Fragment!WordsKept /\ Fragment!FormsKept
           /\ Fragment!TreeAllowed /\ Fragment!ParsingSettles
      [] OTHER -> TRUE

\* What covers the text agrees with what the user does in it: a dialog changes
\* the text once, its cover and the focus go with it, every ask for a paste is
\* answered once; the toolbar holds each item once and the keys reach it; a
\* list shows what holds at the caret; one character is lit; a submenu has its
\* menu and the focus the innermost; an event is stopped only by its own
\* listeners, which are called in order and, if for once, once; and the spelling
\* is checked as the menu and the dialog of the languages say.
DialogsTrue ==
    CASE open = "dialog" -> /\ Dialog!CoverTrue /\ Dialog!OneCommit /\ Dialog!HideEnds
                            /\ Dialog!OpensAnew /\ Dialog!FocusKnown
      [] open = "paste" -> Paste!AnsweredOnce
      [] open = "bar" -> Bar!EachPlacedOnce /\ Bar!KeysReachAll
      [] open = "combo" ->
           Combo!OnIsShown /\ Combo!DisabledTrue /\ Combo!LabelsTrue
      [] open = "characters" -> Characters!PreviewTrue /\ Characters!OneLit
      [] open = "menu" -> Menu!SubmenuHasParent /\ Menu!FocusIsInnermost
      [] open = "event" -> EventsTrue
      [] open = "scayt" -> /\ AsYouType!CheckedAsWanted /\ AsYouType!ChecksWhatIsShown
                           /\ AsYouType!LanguageAsShown
      [] OTHER -> TRUE

\* No step of the editor takes away what it should not: an undo, a look into a
\* dialog, another upload, a command on a table, a list or cells, a message of
\* the spell checker; and Escape gives the focus back.
EditsKeep ==
    [][CASE open = "description" -> Description!UndoLosesNothing
         [] open = "image" -> Image!LookingChangesNothing /\ Image!FilesStay
         [] open = "tools" -> Tools!TextsKept /\ Tools!HeadersChosen
         [] open = "list" -> List!LinesKept /\ List!ChosenLinesChange
         [] open = "spelling" -> Spelling!TextGoesHome
         [] open = "combo" -> Combo!FocusReturns
         [] open = "cells" -> Cells!ShownIsRead /\ Cells!LookChangesNothing
         [] OTHER -> TRUE]_window

\* No page waits for ever: a test that is loaded, saved, added or removed is
\* usable again or gone, a table gets its rows unless the answer is lost, the
\* editor comes up and ends each change of mode, MathJax catches up, and a page
\* of a solution stops to ask.
Settles ==
    /\ \A t \in Tests!Tests : []<>(open = "tests" => ~Tests!Busy(t))
    /\ []<>(open = "tests" => ~Tests!Adding)
    /\ []<>(CASE open = "table" -> Table!AtRest
              [] open = "description" -> Description!AtRest
              [] open = "formula" -> Formula!AtRest
              [] open = "solution" -> Solution!AtRest
              [] OTHER -> TRUE)
=============================================================================
