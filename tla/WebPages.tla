------------------------------ MODULE WebPages ------------------------------
(***************************************************************************)
(* The window of a browser, and those pages in it of which theorems are    *)
(* proved: what they are given are constants.  The other pages, and what   *)
(* all of them do, is in MCWebPages.                                       *)
(*                                                                         *)
(* w1, w2, ... are the variables of the page that is open, in the order in *)
(* which its module declares them.  Those it does not need stay None.      *)
(***************************************************************************)
EXTENDS Integers, Sequences, FiniteSets

CONSTANTS
    None,            \* no value; no string, no number and no record
    Administrator,   \* of the page "contest": see ContestForm
    Contestants,
    ContestProblems,
    FirstProblems,
    MaxForms,
    MaxClicks,
    FirstTests,      \* of the page "tests": see TestEditor
    MaxTests,
    TestTexts,       \* what a user may type
    EmptyText,
    StoredText,
    MaxEdits,
    MaxRemovals,
    MaxFaults,
    PageLength,      \* of the page "table": see TableView
    FoundRows,
    MaxRecords,
    MaxDraws,
    MaxChanges,
    Solutions,       \* of the page "solution": see SolutionPage
    RunAll,
    Judged,
    Viewers,         \* the pages of the browser
    Wanted,
    Results,         \* of a last run
    MaxEvents,
    TextAreas,       \* of the page "description": see RichText
    Described,
    Descriptions,
    UndoLimit,
    KeysLimit,
    MaxUses,
    Listening,       \* of the page "event": see Events
    ListenerPriorities,
    MaxListeners,
    MaxFires

\* What the form of a contest is given: the problems are in it at first each
\* once, in some order.
ASSUME ContestAssumption ==
    /\ IsFiniteSet(Contestants) /\ IsFiniteSet(ContestProblems)
    /\ None \notin ContestProblems /\ None # 1
    /\ FirstProblems \in Seq(ContestProblems)
    /\ \A i, j \in DOMAIN FirstProblems :
          FirstProblems[i] = FirstProblems[j] => i = j
    /\ MaxForms \in Nat /\ MaxClicks \in Nat

\* What the editor of tests is given: identifiers for the tests there are at
\* first, and texts for them and for new ones.
ASSUME TestsAssumption ==
    /\ FirstTests \in Nat /\ MaxTests \in Nat /\ FirstTests <= MaxTests
    /\ EmptyText \in TestTexts /\ StoredText \in TestTexts
    /\ None \notin TestTexts /\ None \notin 1..MaxTests
    /\ None \notin [text : TestTexts, number : Nat]

\* A table's page is not empty.
ASSUME TableAssumption ==
    /\ PageLength \in Nat /\ PageLength > 0
    /\ FoundRows \in Nat /\ MaxRecords \in Nat /\ MaxDraws \in Nat
    /\ MaxChanges \in Nat

\* Each page of the browser opens solutions of the user's.
ASSUME SolutionAssumption ==
    /\ Judged \subseteq Solutions /\ RunAll \subseteq Solutions
    /\ Wanted \in [Viewers -> SUBSET Solutions]
    /\ Results # {} /\ None \notin Results
    /\ MaxEvents \in Nat

\* There is room for an image, and a description is one of those there are.
ASSUME EditorAssumption ==
    /\ Described \in [text : Descriptions, extra : BOOLEAN]
    /\ None \notin [text : Descriptions, extra : BOOLEAN]
    /\ UndoLimit \in Nat /\ UndoLimit > 0
    /\ KeysLimit \in Nat /\ MaxUses \in Nat

\* Listeners are given numbers as priorities.
ASSUME EventAssumption ==
    /\ ListenerPriorities \subseteq Int
    /\ MaxListeners \in Nat /\ MaxFires \in Nat

VARIABLE open  \* which page is open

VARIABLES w1, w2, w3, w4, w5, w6, w7, w8, w9, w10, w11, w12, w13, w14, w15,
          w16, w17, w18

window ==
    <<open, w1, w2, w3, w4, w5, w6, w7, w8, w9, w10, w11, w12, w13, w14, w15,
      w16, w17, w18>>

-----------------------------------------------------------------------------
Contest ==
    INSTANCE ContestForm WITH
        Problems <- ContestProblems, Given <- FirstProblems, NaN <- None,
        openContest <- w1, cp <- w2, roles <- w3, applied <- w4,
        settings <- w5, form <- w6, problemsDataSet <- w7,
        usersDataSet <- w8, applicationsDataSet <- w9, joins <- w10,
        dealtWith <- w11, forms <- w12, clicks <- w13, seen <- w14,
        declined <- w15, muddled <- w16

Tests ==
    INSTANCE TestEditor WITH
        Initial <- FirstTests, Texts <- TestTexts, Empty <- EmptyText,
        Stored <- StoredText,
        test <- w1, list <- w2, shown <- w3, typed <- w4, selected <- w5,
        asked <- w6, adding <- w7, page <- w8, requests <- w9, row <- w10,
        nextId <- w11, loggedIn <- w12, edits <- w13, removals <- w14,
        faults <- w15, confirmed <- w16, overlapped <- w17, crossed <- w18

Table ==
    INSTANCE TableView WITH
        Length <- PageLength, Matching <- FoundRows,
        grid <- w1, start <- w2, search <- w3, sorting <- w4, iDraw <- w5,
        fetches <- w6, rows <- w7, pager <- w8, line <- w9, records <- w10,
        frozen <- w11, changes <- w12, lost <- w13, overtaken <- w14

Solution ==
    INSTANCE SolutionPage WITH
        Pages <- Viewers, Verdicts <- Results,
        solution <- w1, solutionsForm <- w2, page <- w3, request <- w4,
        judgings <- w5, events <- w6, mixed <- w7

Description ==
    INSTANCE RichText WITH
        Editors <- TextAreas, Stored <- Described, Contents <- Descriptions,
        NoContent <- None, Limit <- UndoLimit, StrokesLimit <- KeysLimit,
        MaxEdits <- MaxUses,
        scripts <- w1, stage <- w2, editor <- w3, undo <- w4, textarea <- w5,
        posted <- w6, edited <- w7, last <- w8

Event ==
    INSTANCE Events WITH
        Functions <- Listening, Priorities <- ListenerPriorities,
        MaxOns <- MaxListeners,
        listeners <- w1, fires <- w2, flags <- w3, ons <- w4, fired <- w5,
        calls <- w6, nested <- w7

-----------------------------------------------------------------------------
\* The marks of a contest's problems follow their order, and the list of roles
\* the decisions on the applications, after whatever clicks and saves
\* (editContest.jsp, ContestsAction.java).
ContestTrue == open = "contest" => Contest!MarksFollow /\ Contest!DecisionsAgree

\* A save takes back what another has done only if it had not read it
\* (ContestBean.java:195, ContestsAction.java:350).
OnlyStaleSavesTakeBack == [][open = "contest" => Contest!OnlyStaleSavesTakeBack]_window

\* The tests of a problem (TestEditor): who leaves unwarned loses nothing, the
\* numbers have no gap, and at rest the page lists what the database holds,
\* whatever answers came late or failed (editTests.js, ProblemsAction.java).
TestsTrue ==
    open = "tests" =>
        Tests!NothingLostUnasked /\ Tests!NumbersWhole /\ Tests!ListsAgree

\* The test deleted is the one that the dialog named (editTests.js).
AskedForIsRemoved == [][open = "tests" => Tests!AskedForIsRemoved]_window

\* What a page that asks the server again and again shows is the answer to its
\* last question: the rows, the pager, the arrows and the line of a table
\* (dudge-tables.js), and the status of a solution (viewSolution.jsp).
ShownTrue ==
    CASE open = "table" ->
           /\ Table!ShownIsAsked /\ Table!PagerReaches /\ Table!ArrowsTrue
           /\ Table!InformationTrue /\ Table!LineOfRows
      [] open = "solution" -> Solution!RestsOnVerdict
      [] OTHER -> TRUE

\* The description sent is the one last seen, in whatever mode and change of
\* mode, and its "Undo" and "Redo" look as they work (ckeditor.js, RichText).
SubmittedIsSeen ==
    open = "description" => Description!SubmittedIsSeen /\ Description!ButtonsTrue

\* An event of the text editor is stopped only by its own listeners, which are
\* called in order and, if for once, once (ckeditor.js, Events).
EventsTrue ==
    open = "event" => Event!FlagsAreOwn /\ Event!OnceIsOnce /\ Event!InOrder
=============================================================================
