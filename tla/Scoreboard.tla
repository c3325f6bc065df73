----------------------------- MODULE Scoreboard -----------------------------
(***************************************************************************)
(* The scoreboards ("monitors") of a Dudge contest: who is on them         *)
(* (DudgeBean.get*MonitorRecords over the roles of the contest), what is   *)
(* counted for each contestant (SolutionBean.getSolutions and the          *)
(* constructors of AcmMonitorRecord and SchoolMonitorRecord, the same      *)
(* text twice; GlobalMonitorRecord counts what they call solved), and the  *)
(* freeze (MonitorAction), while solutions arrive, are judged in any order *)
(* and judged again, users join and an administrator edits the contest.    *)
(*                                                                         *)
(* The contest is open: whoever submits becomes a contestant.  How a       *)
(* verdict comes about is the subject of module Judging; here a solution   *)
(* is NEW until it has one.  No two solutions share a submit time: the     *)
(* database would list such a pair in either order.                        *)
(***************************************************************************)
EXTENDS Integers, FiniteSets, FiniteSetsExt

CONSTANTS
    Users,
    Admins,       \* system administrators: they submit at any time
    Problems,     \* the problems of the contest
    Name,         \* Name[u]: the place of u's login in alphabetical order
    Contests,     \* the times an administrator may give the contest
    FirstContest, \* those it is created with
    Penalty,      \* submitPenaltyTime
    IntMax,       \* a Java int of milliseconds goes from -IntMax to IntMax - 1
    MaxTime,      \* bound: the last instant
    MaxSolutions, \* bound: solutions ever submitted
    MaxEdits      \* bound: edits of the contest

ASSUME ScoreboardAssumption ==
    /\ Admins \subseteq Users
    /\ IsFiniteSet(Problems)
    /\ Name \in [Users -> Int]
    /\ Contests \subseteq [start : Nat, duration : Nat, freeze : Nat]
    /\ FirstContest \in Contests
    /\ Penalty \in Nat /\ IntMax \in Nat \ {0}
    /\ MaxTime \in Nat /\ MaxSolutions \in Nat /\ MaxEdits \in Nat

VARIABLES
    now,         \* the clock
    contest,     \* start, duration (0: no end) and freeze, in milliseconds
    contestants, \* users with the role USER
    solutions,   \* solutions of the contest
    form,        \* the administrator's edit form
    edits        \* edits made

vars == <<now, contest, contestants, solutions, form, edits>>

\* SolutionStatus: "NEW" is any status before the verdict, "ERROR" stands for
\* COMPILATION_ERROR and for an INTERNAL_ERROR before any run has failed.
Statuses == {"NEW", "PROCESSED", "ERROR"}
NoForm == [open |-> FALSE, roles |-> {}]

Solution == [user : Users, problem : Problems, time : 0..MaxTime,
             status : Statuses, passed : BOOLEAN]

\* What an int keeps of a number of milliseconds.
Int32(n) == ((n + IntMax) % (2 * IntMax)) - IntMax

\* Contest.getEndTime multiplies ints; isInfinite.
EndTime(c) == c.start + Int32(c.duration)
Infinite(c) == c.duration = 0

\* Contest.isInProgress, both ends included.
InProgress(c, t) == c.start <= t /\ (t <= EndTime(c) \/ Infinite(c))

Init ==
    /\ now = 0
    /\ contest = FirstContest
    /\ contestants = {}
    /\ solutions = {}
    /\ form = NoForm
    /\ edits = 0
-----------------------------------------------------------------------------
Tick ==
    /\ now < MaxTime
    /\ now' = now + 1
    /\ UNCHANGED <<contest, contestants, solutions, form, edits>>

\* DudgeBean.joinAllOpenContests at login.
Join(u) ==
    /\ u \notin contestants
    /\ contestants' = contestants \cup {u}
    /\ UNCHANGED <<now, contest, solutions, form, edits>>

\* PermissionCheckerBean.canSubmitSolution reads the clock some time before
\* submitSolution stamps the solution.
MaySubmit(u) == u \in Admins \/ \E t \in {now - 1, now} : InProgress(contest, t)

\* SolutionsAction.submitSubmit and DudgeBean.submitSolution.  A new solution has no
\* runs, so isAllTestsPassed is already true of it.
Submit(u, p) ==
    /\ MaySubmit(u)
    /\ Cardinality(solutions) < MaxSolutions
    /\ \A s \in solutions : s.time # now
    /\ solutions' = solutions \cup {[user |-> u, problem |-> p, time |-> now,
                                     status |-> "NEW", passed |-> TRUE]}
    /\ contestants' = contestants \cup {u}
    /\ UNCHANGED <<now, contest, form, edits>>

\* A slave's saveSolution of a verdict.  Without runs nothing has failed.
Judge(s, status, passed) ==
    /\ s.status = "NEW"
    /\ status = "ERROR" => passed
    /\ solutions' = (solutions \ {s})
                    \cup {[s EXCEPT !.status = status, !.passed = passed]}
    /\ UNCHANGED <<now, contest, contestants, form, edits>>

\* Mutant of Resubmit: the runs stay.
ResubmitWithRuns(s) ==
    /\ s.status # "NEW"
    /\ solutions' = (solutions \ {s}) \cup {[s EXCEPT !.status = "NEW"]}
    /\ UNCHANGED <<now, contest, contestants, form, edits>>

\* DudgeBean.resubmitSolution: its runs are removed.
Resubmit(s) ==
    /\ s.status # "NEW"
    /\ solutions' = (solutions \ {s})
                    \cup {[s EXCEPT !.status = "NEW", !.passed = TRUE]}
    /\ UNCHANGED <<now, contest, contestants, form, edits>>

\* ContestsAction.edit fills the form with the contest and its roles.
OpenForm ==
    /\ ~form.open
    /\ edits < MaxEdits
    /\ form' = [open |-> TRUE, roles |-> contestants]
    /\ UNCHANGED <<now, contest, contestants, solutions, edits>>

\* ContestsAction.submitEdit and ContestBean.modifyContest: the times are the
\* form's, and so are the roles, those of users who joined since the form was
\* filled being removed.
SaveForm(c) ==
    /\ form.open
    /\ contest' = c
    /\ contestants' = form.roles
    /\ form' = NoForm
    /\ edits' = edits + 1
    /\ UNCHANGED <<now, solutions>>

Next ==
    \/ Tick
    \/ \E u \in Users : Join(u)
    \/ \E u \in Users, p \in Problems : Submit(u, p)
    \/ \E s \in solutions, status \in Statuses \ {"NEW"}, passed \in BOOLEAN :
         Judge(s, status, passed)
    \/ \E s \in solutions : Resubmit(s)
    \/ OpenForm
    \/ \E c \in Contests : SaveForm(c)

Spec == Init /\ [][Next]_vars
-----------------------------------------------------------------------------
(* The scoreboards.  They are computed from the database at every request. *)

\* SolutionBean.getSolutions, whose end is computed in longs.
Listed(u, p) ==
    {s \in solutions :
        /\ s.user = u /\ s.problem = p
        /\ s.time > contest.start
        /\ s.time < contest.start + contest.duration \/ contest.duration = 0}

\* Mutants of Counts: the date of the freeze is forgotten, or the status.
CountsAlways(s, when) ==
    /\ s.status = "PROCESSED"
    /\ s.time >= contest.start
    /\ Infinite(contest) \/ s.time <= EndTime(contest)

CountsAnyStatus(s, when) ==
    /\ s.time >= contest.start
    /\ Infinite(contest) \/ s.time <= EndTime(contest)
    /\ s.time <= when

\* The conditions of AcmMonitorRecord's loop.
Counts(s, when) ==
    /\ s.status = "PROCESSED"
    /\ s.time >= contest.start
    /\ Infinite(contest) \/ s.time <= EndTime(contest)
    /\ s.time <= when

Counted(u, p, when) == {s \in Listed(u, p) : Counts(s, when)}

\* Mutant of Passed: only the newest solution is looked at.
PassedNewest(u, p, when) ==
    {s \in Counted(u, p, when) :
        s.passed /\ \A o \in Counted(u, p, when) : o.time <= s.time}

Passed(u, p, when) == {s \in Counted(u, p, when) : s.passed}

Solved(u, p, when) == Passed(u, p, when) # {}

\* The loop goes from the newest solution to the first that passed.
Failures(u, p, when) ==
    {s \in Counted(u, p, when) :
        ~s.passed /\ \A a \in Passed(u, p, when) : a.time < s.time}

Tries(u, p, when) == Cardinality(Failures(u, p, when))

ProblemTime(u, p, when) ==
    IF Solved(u, p, when)
    THEN Max({a.time : a \in Passed(u, p, when)}) - contest.start
         + Penalty * Tries(u, p, when)
    ELSE 0

\* A row: AcmMonitorRecord and SchoolMonitorRecord.
Row(u, when) ==
    [solved |-> {p \in Problems : Solved(u, p, when)},
     tries  |-> [p \in Problems |-> Tries(u, p, when)],
     time   |-> SumFunction([p \in Problems |-> ProblemTime(u, p, when)])]

\* Mutant of Above: the greater time wins.
AboveSwapped(u, v, when) ==
    LET ru == Row(u, when)
        rv == Row(v, when)
        nu == Cardinality(ru.solved)
        nv == Cardinality(rv.solved)
    IN  \/ nu > nv
        \/ nu = nv /\ ru.time > rv.time
        \/ nu = nv /\ ru.time = rv.time /\ Name[u] > Name[v]

\* compareTo: getSolvedProblemsCount, then getTime, then the login; the list
\* is sorted and reversed.
Above(u, v, when) ==
    LET ru == Row(u, when)
        rv == Row(v, when)
        nu == Cardinality(ru.solved)
        nv == Cardinality(rv.solved)
    IN  \/ nu > nv
        \/ nu = nv /\ ru.time < rv.time
        \/ nu = nv /\ ru.time = rv.time /\ Name[u] > Name[v]

\* MonitorAction: the freeze, which does not concern the administrators of the
\* contest (isAdmin).  Null is a date no solution is after.
FreezeFromStart == contest.start + Int32(contest.freeze) \* mutant of FreezeTime
FreezeTime == EndTime(contest) - Int32(contest.freeze)
Null == MaxTime + 1
When(isAdmin) == IF isAdmin \/ Infinite(contest) THEN Null ELSE FreezeTime
IsFrozen == ~Infinite(contest) /\ now > FreezeTime
-----------------------------------------------------------------------------
(* Properties *)

\* Types; no two solutions share a time, none comes from the future, and one
\* that the tests have not judged has no failed run.
TypeOK ==
    /\ now \in 0..MaxTime
    /\ contest \in Contests
    /\ contestants \subseteq Users
    /\ solutions \subseteq Solution
    /\ \A s \in solutions :
        /\ s.time <= now
        /\ s.status # "PROCESSED" => s.passed
    /\ \A s, t \in solutions : s.time = t.time => s = t
    /\ form \in [open : BOOLEAN, roles : SUBSET Users]
    /\ edits \in 0..MaxEdits

\* Nobody joins, leaves or is renamed by the step but newcomers, and the
\* contest keeps its times.
Undisturbed == contest' = contest /\ contestants \subseteq contestants'

SameBoard(when) ==
    \A u \in contestants : Row(u, when) = Row(u, when)'

\* A step that leaves the solutions from before the freeze as they are leaves
\* every row that the contestants see as it is, whoever submits or joins and
\* whatever verdicts later solutions get (MonitorAction.java:210-213).
FreezeHides ==
    [][/\ Undisturbed
       /\ ~Infinite(contest)
       /\ {s \in solutions : s.time <= FreezeTime}
            = {s \in solutions' : s.time <= FreezeTime}
       => SameBoard(When(FALSE))]_vars

\* As long as the page does not say "frozen", and for ever if the freeze is 0
\* (Contest.java:348), contestants see what the administrators see.
LiveUntilFrozen ==
    ~IsFrozen \/ contest.freeze = 0 =>
        \A u \in contestants : Row(u, When(FALSE)) = Row(u, When(TRUE))

\* Only an edit of the contest or a new judging takes a solved problem away
\* from a contestant: neither a later failure, nor a late verdict of an
\* earlier solution, nor the freeze, does (the loop of AcmMonitorRecord).
SolvedStays ==
    [][(Undisturbed /\ ~\E s \in solutions : Resubmit(s)) =>
         \A u \in contestants, p \in Problems, isAdmin \in BOOLEAN :
            Solved(u, p, When(isAdmin)) => Solved(u, p, When(isAdmin))']_vars

\* Solutions that the tests have judged and that came within the contest.
Verdicts ==
    {s \in solutions :
        /\ s.status = "PROCESSED"
        /\ s.time > contest.start
        /\ Infinite(contest) \/ s.time < contest.start + contest.duration}

\* A failure never lifts a contestant over another, on any problem, however
\* late its verdict comes (AcmMonitorRecord.compareTo).
FailureNeverHelps ==
    [][\A s \in solutions :
         s.user \in contestants /\ Judge(s, "PROCESSED", FALSE) =>
           \A v \in contestants, isAdmin \in BOOLEAN :
             Above(v, s.user, When(isAdmin)) => Above(v, s.user, When(isAdmin))']_vars

\* A solution without a verdict, one that did not compile and one submitted
\* outside the contest cost nothing and win nothing, however they got in
\* (AcmMonitorRecord.java:58-70): the board moves only when a solution of
\* the contest is judged or put again.
OnlyVerdictsCount ==
    [][solutions' # solutions /\ Undisturbed /\ Verdicts = Verdicts' =>
         \A isAdmin \in BOOLEAN : SameBoard(When(isAdmin))]_vars

\* The time of a solved problem runs to the first success, each failure before
\* it costs the penalty, and nothing after it counts (AcmMonitorRecord.java:
\* 76-77 and 155 say so).
FirstAcceptedCounts ==
    \A u \in contestants, p \in Problems :
        LET passed == Passed(u, p, Null)
            first  == Min({a.time : a \in passed})
            before == {s \in Counted(u, p, Null) : s.time < first}
        IN  passed # {} =>
                /\ Tries(u, p, Null) = Cardinality(before)
                /\ ProblemTime(u, p, Null)
                     = first - contest.start + Penalty * Cardinality(before)
=============================================================================
