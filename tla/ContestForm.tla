----------------------------- MODULE ContestForm -----------------------------
(***************************************************************************)
(* The form on which an administrator edits a contest                      *)
(* (web/pages/contest/editContest.jsp), the handlers of ContestsAction     *)
(* behind it, and the contestants who join or apply meanwhile              *)
(* (sendApplication).  Both end in ContestBean.modifyContest, which makes  *)
(* the tables equal to the lists it is given.                              *)
(*                                                                         *)
(* A mark is the number of its letter, from 0.  A problem's cost is either *)
(* a number or what parseInt makes of a text.  Caption, times and the flag *)
(* "open" are one value, "settings"; the languages, a list of check boxes  *)
(* saved as shown, are left out.                                           *)
(*                                                                         *)
(* Assumed: one administrator edits the contest, and the persistence       *)
(* provider's cache agrees with the tables except for applications, where  *)
(* the cache drops what the form has dealt with and the table does not.    *)
(***************************************************************************)
EXTENDS Integers, Sequences, FiniteSets, SequencesExt

CONSTANTS
    Administrator,  \* the creator of the contest
    Contestants,    \* the users who may come to it
    Problems,       \* the problems there are
    Given,          \* the problems of the contest at first, in order
    NaN,            \* no problem chosen; not a number
    MaxForms,       \* bound on how often the form is opened
    MaxClicks       \* bound on the clicks in the forms

VARIABLES
    openContest,   \* anybody may join
    cp,            \* cp[p]: the row of contest_problems, or NaN
    roles,         \* the users who have a role in the contest
    applied,       \* the users with a row in applications
    settings,      \* the save that the contest's other columns are from
    form,          \* the form is open in the administrator's browser
    problemsDataSet, usersDataSet, applicationsDataSet, \* its lists
    joins,         \* joins[u]: the contest sendApplication has read, or NaN
    dealtWith,     \* the applications that the cache no longer holds
    forms, clicks, \* counters, for the bounds
    seen,          \* history: the roles when the form was opened
    declined,      \* history: the users declined in the form
    muddled        \* history: "up" was used, or one problem was saved twice

tables == <<openContest, cp, roles, applied, settings>>
lists == <<problemsDataSet, usersDataSet, applicationsDataSet>>
history == <<seen, declined, muddled>>
vars == <<tables, form, lists, joins, dealtWith, forms, clicks, history>>

Users == Contestants \cup {Administrator}

ContestProblem == [order : Nat, mark : Nat, cost : {1, NaN}]
GridRow == [mark : Nat, order : Nat, problem : Problems \cup {NaN}, cost : {1, NaN}]

NaNRow == [order |-> 0, mark |-> 0, cost |-> NaN]
InContest == {p \in Problems : cp[p] # NaNRow}

Init ==
    /\ openContest \in BOOLEAN
    /\ cp = [p \in Problems |->
               IF Contains(Given, p)
               THEN LET i == CHOOSE i \in DOMAIN Given : Given[i] = p
                    IN  [order |-> i - 1, mark |-> i - 1, cost |-> 1]
               ELSE NaNRow]
    /\ roles = {Administrator} /\ applied = {} /\ settings = 0
    /\ form = FALSE
    /\ problemsDataSet = <<>> /\ usersDataSet = <<>>
    /\ applicationsDataSet = <<>>
    /\ joins = [u \in Contestants |-> <<>>]
    /\ dealtWith = {}
    /\ forms = 0 /\ clicks = 0
    /\ seen = {} /\ declined = {} /\ muddled = FALSE

-----------------------------------------------------------------------------
(* Opening the form *)

\* @OrderBy("problemOrder ASC"): equal orders come in any order.
ByOrder(s) ==
    /\ ToSet(s) = InContest
    /\ \A i, j \in DOMAIN s : i < j => cp[s[i]].order <= cp[s[j]].order

edit ==
    /\ ~form /\ form' = TRUE
    /\ forms < MaxForms /\ forms' = forms + 1
    /\ \E s \in SetToAllKPermutations(InContest) :
         /\ Len(s) = Cardinality(InContest) /\ ByOrder(s)
         /\ problemsDataSet' = [i \in DOMAIN s |->
              [mark |-> cp[s[i]].mark, order |-> cp[s[i]].order,
               problem |-> s[i], cost |-> cp[s[i]].cost]]
    /\ usersDataSet' = SetToSeq(roles)
    /\ \E kept \in {{}, dealtWith} :
         applicationsDataSet' = [i \in 1..Cardinality(applied \ kept) |->
            [login |-> SetToSeq(applied \ kept)[i], status |-> "NEW"]]
    /\ seen' = roles /\ declined' = {}
    /\ UNCHANGED <<tables, joins, dealtWith, clicks, muddled>>

Click ==
    /\ form
    /\ clicks < MaxClicks /\ clicks' = clicks + 1
    /\ UNCHANGED <<tables, form, joins, dealtWith, forms, seen>>

-----------------------------------------------------------------------------
(* The problems; positions from 1, the script's index is i - 1 *)

GridChange == Click /\ UNCHANGED <<usersDataSet, applicationsDataSet, declined>>

Swapped(i, j) ==
    [problemsDataSet EXCEPT ![i] = problemsDataSet[j], ![j] = problemsDataSet[i]]

buttonDown(i) ==
    /\ GridChange /\ i \in 1..(Len(problemsDataSet) - 1)
    /\ problemsDataSet' = [Swapped(i, i + 1) EXCEPT
         ![i].mark = i - 1,     ![i].order = i - 1,
         ![i + 1].mark = i,     ![i + 1].order = i]
    /\ UNCHANGED muddled

\* The row moved up gets the order index + 1.
buttonUp(i) ==
    /\ GridChange /\ i \in 2..Len(problemsDataSet)
    /\ problemsDataSet' = [Swapped(i, i - 1) EXCEPT
         ![i].mark = i - 1,     ![i].order = i - 1,
         ![i - 1].mark = i - 2, ![i - 1].order = i]
    /\ muddled' = TRUE

\* Mutant of deleteButton: the rows below keep their marks.
deleteButtonOnly(i) ==
    /\ GridChange /\ i \in DOMAIN problemsDataSet
    /\ problemsDataSet' = RemoveAt(problemsDataSet, i)
    /\ UNCHANGED muddled

deleteButton(i) ==
    /\ GridChange /\ i \in DOMAIN problemsDataSet
    /\ problemsDataSet' =
         LET rest == RemoveAt(problemsDataSet, i)
         IN  [j \in DOMAIN rest |->
                IF j < i THEN rest[j]
                ELSE [rest[j] EXCEPT !.mark = j - 1, !.order = j - 1]]
    /\ UNCHANGED muddled

addProblem ==
    /\ GridChange /\ Len(problemsDataSet) < Cardinality(Problems)
    /\ problemsDataSet' = Append(problemsDataSet,
         [mark |-> Len(problemsDataSet), order |-> Len(problemsDataSet),
          problem |-> NaN, cost |-> 1])
    /\ UNCHANGED muddled

selectProblem(i, p) ==
    /\ GridChange /\ i \in DOMAIN problemsDataSet
    /\ problemsDataSet' = [problemsDataSet EXCEPT ![i].problem = p]
    /\ UNCHANGED muddled

\* "=== NaN" is never true, so a text stays no number.
problem_cost(i, x) ==
    /\ GridChange /\ i \in DOMAIN problemsDataSet
    /\ problemsDataSet' = [problemsDataSet EXCEPT ![i].cost = x]
    /\ UNCHANGED muddled

-----------------------------------------------------------------------------
(* The applications *)

WithStatus(i, s) == [applicationsDataSet EXCEPT ![i].status = s]
InGrid(u) == SelectInSeq(usersDataSet, LAMBDA v : v = u)

acceptButton(i) ==
    /\ Click /\ i \in DOMAIN applicationsDataSet
    /\ applicationsDataSet' = WithStatus(i, "ACCEPTED")
    /\ LET u == applicationsDataSet[i].login
       IN  usersDataSet' = IF InGrid(u) = 0 THEN Append(usersDataSet, u)
                           ELSE usersDataSet
    /\ UNCHANGED <<problemsDataSet, declined, muddled>>

\* Mutant of declineButton: a login that is not in the list is at -1, and the
\* last row goes.
declineButtonUnlooked(i) ==
    /\ Click /\ i \in DOMAIN applicationsDataSet
    /\ applicationsDataSet' = WithStatus(i, "DECLINED")
    /\ LET u == applicationsDataSet[i].login
           at == IF InGrid(u) = 0 THEN Len(usersDataSet) ELSE InGrid(u)
       IN  /\ usersDataSet' = RemoveAt(usersDataSet, at)
           /\ declined' = declined \cup {u}
    /\ UNCHANGED <<problemsDataSet, muddled>>

declineButton(i) ==
    /\ Click /\ i \in DOMAIN applicationsDataSet
    /\ applicationsDataSet' = WithStatus(i, "DECLINED")
    /\ LET u == applicationsDataSet[i].login
       IN  /\ usersDataSet' = IF InGrid(u) = 0 THEN usersDataSet
                              ELSE RemoveAt(usersDataSet, InGrid(u))
           /\ declined' = declined \cup {u}
    /\ UNCHANGED <<problemsDataSet, muddled>>

-----------------------------------------------------------------------------
(* The server *)

\* The rows of the lists, and no others; applications are only ever added.
modifyContest(newRoles, rows, newApplications, columns) ==
    /\ roles' = newRoles
    /\ cp' = rows
    /\ applied' = applied \cup newApplications
    /\ settings' = columns
    /\ UNCHANGED openContest

\* One row for each problem of the list; of two for one problem either may be
\* the one that is written.
RowsOf(grid) ==
    {rows \in [Problems -> {NaNRow} \cup
                 {[order |-> g.order, mark |-> g.mark, cost |-> g.cost] : g \in ToSet(grid)}] :
       \A p \in Problems :
          LET own == {g \in ToSet(grid) : g.problem = p}
          IN  IF own = {} THEN rows[p] = NaNRow
              ELSE \E g \in own : rows[p] =
                     [order |-> g.order, mark |-> g.mark, cost |-> g.cost]}

Lets(grid) == \A g \in ToSet(grid) : g.problem # NaN
Parses(grid) == \A g \in ToSet(grid) : g.cost # NaN
Twice(grid) == \E i, j \in DOMAIN grid : i # j /\ grid[i].problem = grid[j].problem

\* The page stops a row without a problem.  The handler fails on a cost that
\* is no number, and may fail on a problem given twice: nothing is stored and
\* the browser shows an error instead of the form.
submitEdit ==
    /\ form /\ Lets(problemsDataSet)
    /\ form' = FALSE
    /\ \/ /\ Parses(problemsDataSet)
          /\ \E rows \in RowsOf(problemsDataSet) :
               modifyContest(ToSet(usersDataSet), rows,
                 {a.login : a \in {b \in ToSet(applicationsDataSet) : b.status = "NEW"}},
                 forms)
          /\ dealtWith' = (dealtWith \cup
               {a.login : a \in {b \in ToSet(applicationsDataSet) : b.status # "NEW"}})
       \/ /\ ~Parses(problemsDataSet) \/ Twice(problemsDataSet)
          /\ UNCHANGED <<tables, dealtWith>>
    /\ problemsDataSet' = <<>> /\ usersDataSet' = <<>> /\ applicationsDataSet' = <<>>
    /\ muddled' = (muddled \/ Twice(problemsDataSet))
    /\ UNCHANGED <<joins, forms, clicks, seen, declined>>

\* sendApplication reads the contest and, of an open one, its roles.
sendApplication(u) ==
    /\ joins[u] = <<>> /\ u \notin roles
    /\ joins' = [joins EXCEPT ![u] = <<[roles |-> roles, settings |-> settings]>>]
    /\ UNCHANGED <<tables, form, lists, dealtWith, forms, clicks, history>>

\* Its call of modifyContest.  A list it has not touched is only read there.
Stored(u) ==
    /\ joins[u] # <<>>
    /\ LET read == joins[u][1]
       IN  IF openContest
           THEN modifyContest(read.roles \cup {u}, cp, {}, read.settings)
           ELSE modifyContest(roles, cp, {u}, read.settings)
    /\ dealtWith' = dealtWith \ {u}
    /\ joins' = [joins EXCEPT ![u] = <<>>]
    /\ UNCHANGED <<form, lists, forms, clicks, history>>

Next ==
    \/ edit \/ addProblem \/ submitEdit
    \/ \E i \in DOMAIN problemsDataSet :
         \/ buttonDown(i) \/ buttonUp(i) \/ deleteButton(i)
         \/ \E p \in Problems : selectProblem(i, p)
         \/ \E x \in {1, NaN} : problem_cost(i, x)
    \/ \E i \in DOMAIN applicationsDataSet : acceptButton(i) \/ declineButton(i)
    \/ \E u \in Contestants : sendApplication(u) \/ Stored(u)

Spec == Init /\ [][Next]_vars

-----------------------------------------------------------------------------

\* Types.
TypeOK ==
    /\ openContest \in BOOLEAN /\ form \in BOOLEAN /\ muddled \in BOOLEAN
    /\ cp \in [Problems -> ContestProblem \cup {NaNRow}]
    /\ roles \subseteq Users /\ applied \subseteq Contestants
    /\ settings \in 0..MaxForms
    /\ problemsDataSet \in Seq(GridRow) /\ usersDataSet \in Seq(Users)
    /\ applicationsDataSet \in
         Seq([login : Contestants, status : {"NEW", "ACCEPTED", "DECLINED"}])
    /\ \A u \in Contestants : Len(joins[u]) <= 1
    /\ dealtWith \subseteq Contestants /\ declined \subseteq Contestants
    /\ seen \subseteq Users

\* The marks of a contest's problems are the letters in their order, no letter
\* twice, after whatever rows were added, chosen, moved down and deleted in
\* whatever forms; as long as no row was moved up (whose order then becomes
\* that of the row below) and no problem was given twice
\* (editContest.jsp:62-87, 147-170, ContestsAction.java:748).
MarksFollow ==
    muddled \/ \A p \in InContest :
        /\ cp[p].mark = cp[p].order
        /\ cp[p].mark = Cardinality({q \in InContest : cp[q].order < cp[p].order})
        /\ \A q \in InContest : cp[q].mark = cp[p].mark => q = p

SavedByForm == form /\ ~form'
SavedBy(u) == joins[u] # <<>> /\ joins'[u] = <<>>

\* In every step: a contestant loses the role, and the contest its newest
\* settings, only when the administrator declined that contestant, or when the
\* one who saves had read the contest before the other's change: the edit form
\* removes who joined since it was opened, and of two who join at once the
\* later save removes the earlier (ContestBean.java:195,
\* ContestsAction.java:350).
OnlyStaleSavesTakeBack ==
    /\ \A u \in roles \ roles' :
         \/ SavedByForm /\ (u \in declined \/ u \notin seen)
         \/ \E v \in Contestants : SavedBy(v) /\ u \notin joins[v][1].roles
    /\ settings' < settings =>
         \E v \in Contestants : SavedBy(v) /\ joins[v][1].settings < settings

\* What the applications' list says of a contestant, the list of roles does:
\* who is accepted is in it, who is declined is not, whatever was clicked
\* before, and nobody is in it twice (editContest.jsp:215-246).
DecisionsAgree ==
    /\ \A i \in DOMAIN applicationsDataSet :
         LET a == applicationsDataSet[i]
         IN  /\ a.status = "ACCEPTED" => InGrid(a.login) # 0
             /\ a.status = "DECLINED" => InGrid(a.login) = 0
    /\ IsInjective(usersDataSet)
=============================================================================
