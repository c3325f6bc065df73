----------------------------- MODULE TestEditor -----------------------------
(***************************************************************************)
(* The page on which an administrator edits the tests of a problem         *)
(* (web/scripts/editTests.js), together with the requests it sends and the *)
(* four handlers of ProblemsAction and TestBean that serve them.           *)
(*                                                                         *)
(* The page keeps an array of tests and an array of their panels, which it *)
(* always changes together: "list".  A panel that is no longer in the      *)
(* array may still be in the document ("shown"); its buttons then do       *)
(* nothing.  A test's input and output are one text.  Positions count from *)
(* one here and from zero in the script.                                   *)
(*                                                                         *)
(* The server's reads and writes are separate transactions where the       *)
(* handler makes separate calls of a bean.  Assumed: one page is open on   *)
(* the problem, its user may administrate it, and a request the browser    *)
(* gives up has either not reached the server or has been served.          *)
(***************************************************************************)
EXTENDS Integers, Sequences, FiniteSets, SequencesExt

CONSTANTS
    Initial,      \* the number of tests when the page is opened
    MaxTests,     \* bound: identifiers 1..MaxTests are ever given to tests
    Texts,        \* the texts a user may type
    Empty,        \* the text of a new test
    Stored,       \* the text of the tests there are when the page is opened
    MaxEdits,     \* bound on the user's edits
    MaxRemovals,  \* bound on the confirmed removals
    MaxFaults,    \* bound on the broken connections and expired sessions
    None          \* no row, no test

VARIABLES
    test,      \* test[t]: the script's object: its two states, error and index
    list,      \* the arrays tests and testViews
    shown,     \* the panels in the document
    typed,     \* typed[t]: what the text areas of t's panel hold
    selected,  \* selectedTestIndex, 0 for none
    asked,     \* the test whose removal the open dialog asks about, or None
    adding,    \* the button "Add test" is disabled
    page,      \* "open", "asking" (whether to leave), "left" or "leftAnyway"
    requests,  \* the requests in flight
    row,       \* row[t]: what the table of tests holds of t, or None
    nextId,    \* the next identifier of the sequence of tests
    loggedIn,  \* the session has not expired
    edits, removals, faults, \* counters, for the bounds
    confirmed, \* history: the tests the user confirmed to remove
    overlapped,\* history: a removal was begun before another one's answer
    crossed    \* history: a test was deleted inside another request

pageVars == <<test, list, shown, typed, selected, asked, adding, page>>
serverVars == <<row, nextId>>
counters == <<edits, removals, faults>>
history == <<confirmed, overlapped, crossed>>
vars == <<pageVars, requests, serverVars, loggedIn, counters, history>>

Tests == 1..MaxTests

SaveLoadState == {"Saved", "NotSaved", "Saving", "NotLoaded", "Loading"}

TestObject == [state : SaveLoadState, removing : BOOLEAN,
               error : {"NoError", "LoadError", "SaveError", "RemoveError"},
               index : Nat]

\* What a panel lets its user do and shows of its test.
TestView == [editing : BOOLEAN, save : BOOLEAN, remove : BOOLEAN,
             throbbers : SUBSET {"save", "load", "remove"}]

Row == [text : Texts, number : Nat]

Request == [kind : {"getTest", "commitTest", "addTest", "deleteTest"},
            test : Tests \cup {None}, text : Texts \cup {None},
            number : Nat, at : {"sent", "read", "ok", "failed"}, ticket : Nat]

NewTest(state, index) ==
    [state |-> state, removing |-> FALSE, error |-> "NoError", index |-> index]

Rows == {t \in Tests : row[t] # None}

Init ==
    /\ test = [t \in Tests |->
                 NewTest("NotLoaded", IF t <= Initial THEN t - 1 ELSE 0)]
    /\ list = [i \in 1..Initial |-> i]
    /\ shown = 1..Initial
    /\ typed = [t \in Tests |-> Empty]
    /\ selected = 0
    /\ asked = None
    /\ adding = FALSE
    /\ page = "open"
    /\ requests = {}
    /\ row = [t \in Tests |-> IF t <= Initial
                               THEN [text |-> Stored, number |-> t] ELSE None]
    /\ nextId = Initial + 1
    /\ loggedIn = TRUE
    /\ edits = 0 /\ removals = 0 /\ faults = 0
    /\ confirmed = {} /\ overlapped = FALSE /\ crossed = FALSE

-----------------------------------------------------------------------------
(* The user.  A dialog covers the page: nothing behind it can be clicked. *)

Free == page = "open" /\ asked = None

\* A panel calls its handlers as long as it is in the document ...
Panel(t) == Free /\ t \in shown

\* ... which do nothing when it is not in the array.
Listed(t) == t \in ToSet(list)

Send(kind, t, text, ticket) ==
    requests' = requests \cup
        {[kind |-> kind, test |-> t, text |-> text, number |-> 0,
          at |-> "sent", ticket |-> ticket]}

\* It runs after each change of a test.
updateView(t) ==
    LET state == test[t].state  removing == test[t].removing
    IN  [editing |-> state \in {"Saved", "NotSaved"} /\ ~removing,
         save |-> state = "NotSaved" \/ test[t].error = "LoadError",
         remove |-> state \notin {"Saving", "Loading"} /\ ~removing,
         throbbers |-> {x \in {"save"} : state = "Saving"}
                       \cup {x \in {"load"} : state = "Loading"}
                       \cup {x \in {"remove"} : removing}]

Edit(t, x) ==
    /\ Panel(t) /\ updateView(t).editing
    /\ edits < MaxEdits /\ edits' = edits + 1
    /\ x # typed[t]
    /\ typed' = [typed EXCEPT ![t] = x]
    /\ test' = IF Listed(t) THEN [test EXCEPT ![t].state = "NotSaved"] ELSE test
    /\ UNCHANGED <<list, shown, selected, asked, adding, page, requests,
                   serverVars, loggedIn, removals, faults, history>>

\* Expanding a panel for the first time, or "Try again" after a failure.
Load(t) ==
    /\ Panel(t) /\ Listed(t)
    /\ test[t].state = "NotLoaded"
    /\ test' = [test EXCEPT ![t].state = "Loading", ![t].error = "NoError"]
    /\ Send("getTest", t, None, 0)
    /\ UNCHANGED <<list, shown, typed, selected, asked, adding, page,
                   serverVars, loggedIn, counters, history>>

\* The button stays enabled while the test is being removed.
Save(t) ==
    /\ Panel(t) /\ Listed(t) /\ updateView(t).save
    /\ test[t].state = "NotSaved"
    /\ test' = [test EXCEPT ![t].state = "Saving", ![t].error = "NoError"]
    /\ Send("commitTest", t, typed[t], 0)
    /\ UNCHANGED <<list, shown, typed, selected, asked, adding, page,
                   serverVars, loggedIn, counters, history>>

Add ==
    /\ Free /\ ~adding
    /\ nextId <= MaxTests
    /\ adding' = TRUE
    /\ Send("addTest", None, None, 0)
    /\ UNCHANGED <<test, list, shown, typed, selected, asked, page,
                   serverVars, loggedIn, counters, history>>

RemovalPending == \E r \in requests : r.kind = "deleteTest"

\* Mutant of AskRemove: the position is the test's number, which counts from 1.
AskRemoveByNumber(t) ==
    /\ Panel(t) /\ Listed(t) /\ updateView(t).remove
    /\ removals < MaxRemovals
    /\ selected' = (CHOOSE i \in DOMAIN list : list[i] = t) + 1
    /\ asked' = t
    /\ overlapped' = (overlapped \/ RemovalPending)
    /\ UNCHANGED <<test, list, shown, typed, adding, page, requests,
                   serverVars, loggedIn, counters, confirmed, crossed>>

AskRemove(t) ==
    /\ Panel(t) /\ Listed(t) /\ updateView(t).remove
    /\ removals < MaxRemovals
    /\ selected' = CHOOSE i \in DOMAIN list : list[i] = t
    /\ asked' = t
    /\ overlapped' = (overlapped \/ RemovalPending)
    /\ UNCHANGED <<test, list, shown, typed, adding, page, requests,
                   serverVars, loggedIn, counters, confirmed, crossed>>

Cancel ==
    /\ asked # None
    /\ asked' = None
    /\ UNCHANGED <<test, list, shown, typed, selected, adding, page, requests,
                   serverVars, loggedIn, counters, history>>

\* The dialog's button acts on the array as it is now, at the position that
\* was selected; beyond the end of the array it throws.
ConfirmRemove ==
    /\ asked # None
    /\ asked' = None
    /\ confirmed' = confirmed \cup {asked}
    /\ removals' = removals + 1
    /\ IF selected \in DOMAIN list
       THEN LET t == list[selected] IN
            /\ test' = [test EXCEPT ![t].error = "NoError", ![t].removing = TRUE]
            /\ Send("deleteTest", t, None, removals)
       ELSE UNCHANGED <<test, requests>>
    /\ UNCHANGED <<list, shown, typed, selected, adding, page, serverVars,
                   loggedIn, edits, faults, overlapped, crossed>>

\* Mutant of Return: a test that is being saved counts as saved.
ReturnWhileSaving ==
    /\ Free
    /\ page' = IF \E t \in ToSet(list) : test[t].state = "NotSaved"
               THEN "asking" ELSE "left"
    /\ UNCHANGED <<test, list, shown, typed, selected, asked, adding, requests,
                   serverVars, loggedIn, counters, history>>

\* The link back to the problem asks first when a test is not saved.
Return ==
    /\ Free
    /\ page' = IF \E t \in ToSet(list) : test[t].state \in {"NotSaved", "Saving"}
               THEN "asking" ELSE "left"
    /\ UNCHANGED <<test, list, shown, typed, selected, asked, adding, requests,
                   serverVars, loggedIn, counters, history>>

AnswerReturn ==
    /\ page = "asking"
    /\ page' \in {"open", "leftAnyway"}
    /\ UNCHANGED <<test, list, shown, typed, selected, asked, adding, requests,
                   serverVars, loggedIn, counters, history>>

-----------------------------------------------------------------------------
(* The server. *)

Becomes(r, s) == requests' = (requests \ {r}) \cup {s}

Answer(r, outcome) == Becomes(r, [r EXCEPT !.at = outcome])

\* An answer without a body is a success to $.post and an error to $.getJSON.
Denied(r) == Answer(r, IF r.kind \in {"commitTest", "deleteTest"}
                       THEN "ok" ELSE "failed")

GetTest(r) ==
    /\ r.kind = "getTest" /\ r.at = "sent"
    /\ IF row[r.test] = None THEN Answer(r, "failed")
       ELSE IF ~loggedIn THEN Denied(r)
       ELSE Becomes(r, [r EXCEPT !.at = "ok", !.text = row[r.test].text])
    /\ UNCHANGED <<serverVars, crossed>>

\* commitTest reads the test in one transaction ...
CommitRead(r) ==
    /\ r.kind = "commitTest" /\ r.at = "sent"
    /\ IF row[r.test] = None THEN Answer(r, "failed")
       ELSE IF ~loggedIn THEN Denied(r)
       ELSE Becomes(r, [r EXCEPT !.at = "read", !.number = row[r.test].number])
    /\ UNCHANGED <<serverVars, crossed>>

NumberTaken(n, t) == \E u \in Rows \ {t} : row[u].number = n

\* ... and merges the copy with its new text and its old number in another: a
\* row deleted in between is inserted again, or the merge is refused.
CommitWrite(r) ==
    /\ r.kind = "commitTest" /\ r.at = "read"
    /\ \/ /\ ~NumberTaken(r.number, r.test)
          /\ row' = [row EXCEPT ![r.test] = [text |-> r.text, number |-> r.number]]
          /\ Answer(r, "ok")
       \/ /\ NumberTaken(r.number, r.test) \/ row[r.test] = None
          /\ Answer(r, "failed")
          /\ UNCHANGED row
    /\ UNCHANGED <<nextId, crossed>>

\* addTest takes the number from the size of the list ...
AddRead(r) ==
    /\ r.kind = "addTest" /\ r.at = "sent"
    /\ IF ~loggedIn THEN Denied(r)
       ELSE Becomes(r, [r EXCEPT !.at = "read", !.number = Cardinality(Rows) + 1])
    /\ UNCHANGED <<serverVars, crossed>>

\* ... and stores the test in a later transaction.
AddWrite(r) ==
    /\ r.kind = "addTest" /\ r.at = "read"
    /\ IF NumberTaken(r.number, None)
       THEN Answer(r, "failed") /\ UNCHANGED <<row, nextId>>
       ELSE /\ row' = [row EXCEPT ![nextId] = [text |-> Empty, number |-> r.number]]
            /\ nextId' = nextId + 1
            /\ Becomes(r, [r EXCEPT !.at = "ok", !.test = nextId])
    /\ UNCHANGED crossed

\* The tests after the deleted one, which deleteTest looks up by their numbers
\* one by one: it fails when one of the numbers is missing.
Renumbered(t) ==
    [u \in Tests |->
        IF u = t THEN None
        ELSE IF u \in Rows /\ row[u].number > row[t].number
             THEN [row[u] EXCEPT !.number = @ - 1]
             ELSE row[u]]

NumbersFollow(t) ==
    (row[t].number + 1)..Cardinality(Rows) \subseteq {row[u].number : u \in Rows}

\* A test with runs cannot be deleted: the foreign key of the runs refuses it.
DeleteTest(r) ==
    /\ r.kind = "deleteTest" /\ r.at = "sent"
    /\ \/ /\ row[r.test] # None /\ loggedIn /\ NumbersFollow(r.test)
          /\ row' = Renumbered(r.test)
          /\ crossed' = (crossed \/ \E q \in requests : q.at = "read")
          /\ Answer(r, "ok")
       \/ /\ loggedIn
          /\ Answer(r, "failed")
          /\ UNCHANGED <<row, crossed>>
       \/ /\ ~loggedIn
          /\ Denied(r)
          /\ UNCHANGED <<row, crossed>>
    /\ UNCHANGED nextId

Serve(r) ==
    /\ \/ GetTest(r) \/ CommitRead(r) \/ CommitWrite(r)
       \/ AddRead(r) \/ AddWrite(r) \/ DeleteTest(r)
    /\ UNCHANGED <<pageVars, loggedIn, counters, confirmed, overlapped>>

\* A connection breaks before its request arrives or before its answer does.
Break(r) ==
    /\ r.at \in {"sent", "ok"}
    /\ faults < MaxFaults /\ faults' = faults + 1
    /\ Answer(r, "failed")
    /\ UNCHANGED <<pageVars, serverVars, loggedIn, edits, removals, history>>

Expire ==
    /\ loggedIn /\ loggedIn' = FALSE
    /\ faults < MaxFaults /\ faults' = faults + 1
    /\ UNCHANGED <<pageVars, requests, serverVars, edits, removals, history>>

-----------------------------------------------------------------------------
(* The callbacks.  They do not run any more when the page was left. *)

Finished(r, outcome) ==
    /\ page \in {"open", "asking"}
    /\ r.at = outcome
    /\ requests' = requests \ {r}
    /\ UNCHANGED <<selected, asked, page, serverVars, loggedIn, counters, history>>

Loaded(r) ==
    /\ r.kind = "getTest" /\ Finished(r, "ok")
    /\ typed' = [typed EXCEPT ![r.test] = r.text]
    /\ test' = [test EXCEPT ![r.test].state = "Saved", ![r.test].error = "NoError"]
    /\ UNCHANGED <<list, shown, adding>>

LoadFailed(r) ==
    /\ r.kind = "getTest" /\ Finished(r, "failed")
    /\ test' = [test EXCEPT ![r.test].state = "NotLoaded", ![r.test].error = "LoadError"]
    /\ UNCHANGED <<list, shown, typed, adding>>

Saved(r) ==
    /\ r.kind = "commitTest" /\ Finished(r, "ok")
    /\ test' = [test EXCEPT ![r.test].state = "Saved", ![r.test].error = "NoError"]
    /\ UNCHANGED <<list, shown, typed, adding>>

\* Mutant of SaveFailed: the message is shown, the state stays.
SaveFailedStill(r) ==
    /\ r.kind = "commitTest" /\ Finished(r, "failed")
    /\ test' = [test EXCEPT ![r.test].error = "SaveError"]
    /\ UNCHANGED <<list, shown, typed, adding>>

SaveFailed(r) ==
    /\ r.kind = "commitTest" /\ Finished(r, "failed")
    /\ test' = [test EXCEPT ![r.test].state = "NotSaved", ![r.test].error = "SaveError"]
    /\ UNCHANGED <<list, shown, typed, adding>>

Added(r) ==
    /\ r.kind = "addTest" /\ Finished(r, "ok")
    /\ test' = [test EXCEPT ![r.test] = NewTest("Saved", Len(list))]
    /\ list' = Append(list, r.test)
    /\ shown' = shown \cup {r.test}
    /\ adding' = FALSE
    /\ UNCHANGED typed

AddFailed(r) ==
    /\ r.kind = "addTest" /\ Finished(r, "failed")
    /\ adding' = FALSE
    /\ UNCHANGED <<test, list, shown, typed>>

\* The panel of the removed test goes; the arrays lose the test at the position
\* selected last, and the tests after that position count one less.
Removed(r) ==
    /\ r.kind = "deleteTest" /\ Finished(r, "ok")
    /\ shown' = shown \ {r.test}
    /\ IF selected \in DOMAIN list
       THEN /\ list' = RemoveAt(list, selected)
            /\ LET later == {list[i] : i \in (selected + 1)..Len(list)} IN
               test' = [t \in Tests |->
                          IF t \in later THEN [test[t] EXCEPT !.index = @ - 1]
                                         ELSE test[t]]
       ELSE UNCHANGED <<list, test>>
    /\ UNCHANGED <<typed, adding>>

\* RemoveState.CantRemove is not defined: the test counts as not being removed.
RemoveFailed(r) ==
    /\ r.kind = "deleteTest" /\ Finished(r, "failed")
    /\ test' = [test EXCEPT ![r.test].removing = FALSE,
                            ![r.test].error = "RemoveError"]
    /\ UNCHANGED <<list, shown, typed, adding>>

Callback(r) ==
    \/ Loaded(r) \/ LoadFailed(r) \/ Saved(r) \/ SaveFailed(r)
    \/ Added(r) \/ AddFailed(r) \/ Removed(r) \/ RemoveFailed(r)

User ==
    \/ \E t \in Tests : \/ Load(t) \/ Save(t) \/ AskRemove(t)
                        \/ \E x \in Texts : Edit(t, x)
    \/ Add \/ Cancel \/ ConfirmRemove \/ Return \/ AnswerReturn

Next ==
    \/ User
    \/ \E r \in requests : Serve(r) \/ Callback(r) \/ Break(r)
    \/ Expire

\* The calls the page can have in flight, each of them at most once, but for
\* deletions that overlapped.
Calls == ({"getTest", "commitTest", "deleteTest"} \X Tests) \cup {<<"addTest", None>>}

OfCall(r, call) == r.kind = call[1] /\ (r.kind = "addTest" \/ r.test = call[2])

\* The server serves every request and the browser runs its callback; nothing
\* is assumed of the user.
Answering(call) == \E r \in requests : OfCall(r, call) /\ (Serve(r) \/ Callback(r))

Fairness == \A call \in Calls : WF_vars(Answering(call))

Spec == Init /\ [][Next]_vars /\ Fairness

-----------------------------------------------------------------------------
(* Properties. *)

\* Every variable is of its kind.  The indexes are never negative: a removal
\* lowers those of later tests only.
TypeOK ==
    /\ test \in [Tests -> TestObject]
    /\ \A t \in Tests : updateView(t) \in TestView
    /\ list \in Seq(Tests) /\ IsInjective(list)
    /\ shown \subseteq Tests
    /\ typed \in [Tests -> Texts]
    /\ selected \in Nat
    /\ asked \in Tests \cup {None}
    /\ adding \in BOOLEAN
    /\ page \in {"open", "asking", "left", "leftAnyway"}
    /\ requests \subseteq Request
    /\ row \in [Tests -> Row \cup {None}]
    /\ nextId \in 1..(MaxTests + 1)
    /\ loggedIn \in BOOLEAN
    /\ edits \in 0..MaxEdits /\ removals \in 0..MaxRemovals /\ faults \in 0..MaxFaults
    /\ confirmed \subseteq Tests
    /\ overlapped \in BOOLEAN /\ crossed \in BOOLEAN

WasLoaded(t) == test[t].state \in {"Saved", "NotSaved", "Saving"}

\* A user who left by the link without being warned loses nothing: what the
\* panel of every loaded test showed is what the database holds, whatever
\* failed, was removed or was added meanwhile.  Not so when the session expired
\* (a refused save answers like a good one) or removals overlapped.
NothingLostUnasked ==
    page = "left" /\ loggedIn /\ ~overlapped =>
        \A t \in shown \ confirmed :
            WasLoaded(t) => /\ row[t] # None
                            /\ row[t].text = typed[t]

\* The numbers of a problem's tests are 1, 2, ... without a gap, which every
\* later deletion relies on, unless a test was deleted between the read and the
\* write of another request.
NumbersWhole ==
    ~crossed => {row[t].number : t \in Rows} = 1..Cardinality(Rows)

Quiet == page = "open" /\ requests = {}

\* When nothing is under way the page lists the problem's tests, in the order of
\* their numbers, each with its panel, and the title of each shows its number.
ListsAgree ==
    Quiet /\ faults = 0 /\ ~overlapped /\ ~crossed =>
        /\ ToSet(list) = Rows /\ shown = Rows
        /\ \A i \in DOMAIN list : /\ row[list[i]].number = i
                                  /\ test[list[i]].index = i - 1

\* In every step: the dialog names a test, and the request it sends is for that
\* test (ApplicationResource_en.properties: "Are you sure you want to remove
\* test"). Not so when the dialog was opened before another removal's answer
\* came: the answer moves the tests under the dialog and another test is
\* deleted.
AskedForIsRemoved ==
    \A r \in requests' \ requests :
       r.kind = "deleteTest" /\ r.at = "sent" /\ ~overlapped => r.test = asked

Busy(t) ==
    /\ t \in shown /\ page \in {"open", "asking"}
    /\ updateView(t).throbbers # {}

Adding == adding /\ page = "open"

\* No panel turns its throbber for ever: whatever fails, a test that is being
\* loaded, saved or removed becomes usable again or goes away.  So does the
\* button that adds a test.
NeverStuck ==
    /\ \A t \in Tests : []<>~Busy(t)
    /\ []<>~Adding
=============================================================================
