--------------------------- MODULE ScoreboardProofs ---------------------------
(* Theorems of the scoreboards, for every set of users and of problems, every *)
(* contest an administrator may enter and every number of solutions.         *)
EXTENDS Scoreboard, SumProofs, FunctionTheorems

\* An open form is one that its administrator may still save.
FormOK == form.open => edits < MaxEdits

BoardInv == TypeOK /\ FormOK

-----------------------------------------------------------------------------
\* The contest starts with nothing submitted and no form open.
LEMMA BoardInit == Init => BoardInv
  BY ScoreboardAssumption DEF Init, BoardInv, TypeOK, FormOK, NoForm

\* A step that writes one solution: a new one, or one that changes its status
\* and its runs and keeps who sent it, for what and when.
LEMMA RewriteType ==
    ASSUME BoardInv, NEW old, NEW s,
           old \in solutions \/ \A t \in solutions : t.time # s.time,
           old \in solutions => s.time = old.time,
           s \in Solution, s.time <= now, s.status # "PROCESSED" => s.passed,
           solutions' = (solutions \ {old}) \cup {s}
    PROVE  /\ solutions' \subseteq Solution
           /\ \A t \in solutions' :
                /\ t.time <= now
                /\ t.status # "PROCESSED" => t.passed
           /\ \A t, q \in solutions' : t.time = q.time => t = q
  BY DEF BoardInv, TypeOK

\* Every step keeps the types, and an administrator opens a form only while
\* edits are left.
LEMMA BoardStep == BoardInv /\ [Next]_vars => BoardInv'
<1> SUFFICES ASSUME BoardInv, [Next]_vars PROVE BoardInv'
  OBVIOUS
<1>1. CASE UNCHANGED vars
  BY <1>1 DEF vars, BoardInv, TypeOK, FormOK
<1>2. CASE Tick
  <2>1. now' \in 0..MaxTime /\ \A s \in solutions : s.time <= now'
    BY <1>2, ScoreboardAssumption DEF Tick, BoardInv, TypeOK, Solution
  <2> QED BY <1>2, <2>1 DEF Tick, BoardInv, TypeOK, FormOK
<1>3. ASSUME NEW u \in Users, Join(u)
      PROVE  BoardInv'
  BY <1>3 DEF Join, BoardInv, TypeOK, FormOK
<1>4. ASSUME NEW u \in Users, NEW p \in Problems, Submit(u, p)
      PROVE  BoardInv'
  <2> DEFINE s == [user |-> u, problem |-> p, time |-> now, status |-> "NEW",
                   passed |-> TRUE]
  <2>1. s \in Solution
    BY DEF Solution, Statuses, BoardInv, TypeOK
  <2>2. /\ \A t \in solutions : t.time # s.time
        /\ solutions' = (solutions \ {s}) \cup {s}
        /\ s.time <= now
    BY <1>4, ScoreboardAssumption DEF Submit, BoardInv, TypeOK
  <2>3. /\ solutions' \subseteq Solution
        /\ \A t \in solutions' :
             /\ t.time <= now
             /\ t.status # "PROCESSED" => t.passed
        /\ \A t, q \in solutions' : t.time = q.time => t = q
    BY <2>1, <2>2, RewriteType
  <2> QED BY <1>4, <2>3 DEF Submit, BoardInv, TypeOK, FormOK
<1>5. ASSUME NEW s \in solutions,
             \/ Resubmit(s)
             \/ \E status \in Statuses \ {"NEW"}, passed \in BOOLEAN :
                  Judge(s, status, passed)
      PROVE  BoardInv'
  <2>1. PICK new \in Solution :
            /\ new.time = s.time
            /\ new.status # "PROCESSED" => new.passed
            /\ solutions' = (solutions \ {s}) \cup {new}
    <3>1. s \in Solution
      BY DEF BoardInv, TypeOK
    <3>2. ASSUME NEW status \in Statuses \ {"NEW"}, NEW passed \in BOOLEAN,
                 Judge(s, status, passed)
          PROVE  \E new \in Solution :
                     /\ new.time = s.time
                     /\ new.status # "PROCESSED" => new.passed
                     /\ solutions' = (solutions \ {s}) \cup {new}
      <4> DEFINE new == [s EXCEPT !.status = status, !.passed = passed]
      <4>1. new \in Solution /\ new.time = s.time /\ new.status = status
            /\ new.passed = passed
        BY <3>1 DEF Solution
      <4> QED BY <3>2, <4>1 DEF Judge, Statuses
    <3>3. CASE Resubmit(s)
      <4> DEFINE new == [s EXCEPT !.status = "NEW", !.passed = TRUE]
      <4>1. new \in Solution /\ new.time = s.time /\ new.passed = TRUE
        BY <3>1 DEF Solution, Statuses
      <4> QED BY <3>3, <4>1 DEF Resubmit
    <3> QED BY <1>5, <3>2, <3>3
  <2>2. UNCHANGED <<now, contest, contestants, form, edits>>
    BY <1>5 DEF Judge, Resubmit
  <2>3. /\ solutions' \subseteq Solution
        /\ \A t \in solutions' :
             /\ t.time <= now
             /\ t.status # "PROCESSED" => t.passed
        /\ \A t, q \in solutions' : t.time = q.time => t = q
    BY <2>1, RewriteType DEF BoardInv, TypeOK
  <2> QED BY <2>2, <2>3 DEF BoardInv, TypeOK, FormOK
<1>6. CASE OpenForm
  BY <1>6 DEF OpenForm, BoardInv, TypeOK, FormOK
<1>7. ASSUME NEW c \in Contests, SaveForm(c)
      PROVE  BoardInv'
  <2>1. edits' \in 0..MaxEdits /\ form' \in [open : BOOLEAN, roles : SUBSET Users]
    BY <1>7, ScoreboardAssumption
    DEF SaveForm, NoForm, BoardInv, TypeOK, FormOK
  <2> QED BY <1>7, <2>1 DEF SaveForm, NoForm, BoardInv, TypeOK, FormOK
<1> QED
  BY <1>1, <1>2, <1>3, <1>4, <1>5, <1>6, <1>7 DEF Next

\* Type correctness of the scoreboards' data: clocks, roles and solutions keep
\* their types; no two solutions share a time, and one without a verdict has no
\* failed run, however often it is judged and put again.
THEOREM BoardTyped == Spec => []TypeOK
<1>1. BoardInv => TypeOK
  BY DEF BoardInv
<1> QED BY <1>1, BoardInit, BoardStep, PTL DEF Spec

-----------------------------------------------------------------------------
(* What a row is computed from.                                             *)

\* A row depends on the contest and on the counted solutions only.
LEMMA RowFromCounted ==
    ASSUME NEW u, NEW w, NEW v,
           \A p \in Problems : Counted(u, p, w) = Counted(u, p, v)
    PROVE  Row(u, w) = Row(u, v)
<1>1. \A p \in Problems : Passed(u, p, w) = Passed(u, p, v)
  BY DEF Passed
<1>2. \A p \in Problems : Failures(u, p, w) = Failures(u, p, v)
  BY <1>1 DEF Failures
<1>3. \A p \in Problems : Tries(u, p, w) = Tries(u, p, v)
  BY <1>2 DEF Tries
<1>4. \A p \in Problems : Solved(u, p, w) = Solved(u, p, v)
  BY <1>1 DEF Solved
<1>5. \A p \in Problems : ProblemTime(u, p, w) = ProblemTime(u, p, v)
  BY <1>1, <1>3, <1>4 DEF ProblemTime
<1>6. /\ {p \in Problems : Solved(u, p, w)} = {p \in Problems : Solved(u, p, v)}
      /\ [p \in Problems |-> Tries(u, p, w)] = [p \in Problems |-> Tries(u, p, v)]
      /\ [p \in Problems |-> ProblemTime(u, p, w)]
           = [p \in Problems |-> ProblemTime(u, p, v)]
  BY <1>3, <1>4, <1>5
<1> QED BY <1>6 DEF Row

\* The same of a row before and after a step.
LEMMA RowKept ==
    ASSUME NEW u, NEW w, contest' = contest,
           \A p \in Problems : Counted(u, p, w)' = Counted(u, p, w)
    PROVE  Row(u, w)' = Row(u, w)
<1>1. \A p \in Problems : Passed(u, p, w)' = Passed(u, p, w)
  BY DEF Passed
<1>2. \A p \in Problems : Failures(u, p, w)' = Failures(u, p, w)
  BY <1>1 DEF Failures
<1>3. \A p \in Problems : Tries(u, p, w)' = Tries(u, p, w)
  BY <1>2 DEF Tries
<1>4. \A p \in Problems : Solved(u, p, w)' = Solved(u, p, w)
  BY <1>1 DEF Solved
<1>5. \A p \in Problems : ProblemTime(u, p, w)' = ProblemTime(u, p, w)
  BY <1>1, <1>3, <1>4 DEF ProblemTime
<1>6. /\ {p \in Problems : Solved(u, p, w)'} = {p \in Problems : Solved(u, p, w)}
      /\ [p \in Problems |-> Tries(u, p, w)'] = [p \in Problems |-> Tries(u, p, w)]
      /\ [p \in Problems |-> ProblemTime(u, p, w)']
           = [p \in Problems |-> ProblemTime(u, p, w)]
  BY <1>3, <1>4, <1>5
<1> QED BY <1>6 DEF Row

\* The times of a contest, and that of its freeze, are numbers.
LEMMA ContestTimes ==
    ASSUME contest \in Contests
    PROVE  /\ contest.start \in Nat /\ contest.duration \in Nat
           /\ contest.freeze \in Nat
           /\ EndTime(contest) \in Int /\ FreezeTime \in Int
<1>1. \A n \in Nat : Int32(n) \in Int
  BY ScoreboardAssumption DEF Int32
<1>2. contest \in [start : Nat, duration : Nat, freeze : Nat]
  BY ScoreboardAssumption
<1> QED BY <1>1, <1>2 DEF EndTime, FreezeTime

\* A freeze of 0 ends the contest and the view at once: Int32 keeps 0.
LEMMA NoFreeze == Int32(0) = 0
<1>1. IntMax \in Int /\ 2 * IntMax \in Int /\ 0 <= IntMax /\ IntMax < 2 * IntMax
      /\ 2 * IntMax > 0
  BY ScoreboardAssumption
<1>2. \A a, b \in Int : 0 <= a /\ a < b => a % b = a
  OBVIOUS
<1>3. (0 + IntMax) % (2 * IntMax) = IntMax
  BY <1>1, <1>2
<1> QED BY <1>1, <1>3 DEF Int32

\* While the page does not say "frozen", both boards count the same solutions.
LEMMA LiveInv == BoardInv => LiveUntilFrozen
<1> SUFFICES ASSUME BoardInv, ~IsFrozen \/ contest.freeze = 0,
                    NEW u \in contestants
             PROVE  Row(u, When(FALSE)) = Row(u, When(TRUE))
  BY DEF LiveUntilFrozen
<1>1. CASE Infinite(contest)
  BY <1>1 DEF When
<1>2. CASE ~Infinite(contest)
  <2>1. When(FALSE) = FreezeTime /\ When(TRUE) = MaxTime + 1
    BY <1>2 DEF When, Null
  <2>2. /\ now \in Int /\ now <= MaxTime /\ MaxTime \in Int
        /\ FreezeTime \in Int /\ EndTime(contest) \in Int
    BY ContestTimes, ScoreboardAssumption DEF BoardInv, TypeOK
  <2>3. \A s \in solutions : s.time \in Int /\ s.time <= now
    BY ScoreboardAssumption DEF BoardInv, TypeOK, Solution
  <2>4. ASSUME NEW p \in Problems
        PROVE  Counted(u, p, FreezeTime) = Counted(u, p, MaxTime + 1)
    <3>1. \A s \in solutions : s.time <= MaxTime + 1
      BY <2>2, <2>3
    <3>2. CASE now <= FreezeTime
      <4>1. \A s \in solutions : s.time <= FreezeTime
        BY <2>2, <2>3, <3>2
      <4> QED BY <3>1, <4>1 DEF Counted, Counts, Listed
    <3>3. CASE contest.freeze = 0
      <4>1. FreezeTime = EndTime(contest)
        BY <2>2, <3>3, NoFreeze DEF FreezeTime
      <4> QED BY <1>2, <3>1, <4>1 DEF Counted, Counts, Listed
    <3> QED BY <1>2, <2>2, <3>2, <3>3 DEF IsFrozen
  <2> QED BY <2>1, <2>4, RowFromCounted
<1> QED BY <1>1, <1>2

\* Until the page says "frozen", and for ever if the freeze is 0, contestants
\* see the rows that administrators see, whatever the length of the contest
\* and even where Contest.getEndTime overflows.
THEOREM BoardIsLive == Spec => []LiveUntilFrozen
  BY BoardInit, BoardStep, LiveInv, PTL DEF Spec
-----------------------------------------------------------------------------
(* What a step may do to the board.                                         *)

\* A board seen by one kind of reader stays if what is counted stays.
LEMMA BoardKept ==
    ASSUME NEW isAdmin \in BOOLEAN, contest' = contest,
           \A u \in contestants, p \in Problems, w \in {When(isAdmin)} :
               Counted(u, p, w)' = Counted(u, p, w)
    PROVE  SameBoard(When(isAdmin))
<1> PICK w : w = When(isAdmin)
  OBVIOUS
<1>1. When(isAdmin)' = w
  BY DEF When, FreezeTime, Infinite, EndTime
<1>2. \A u \in contestants : Row(u, w)' = Row(u, w)
  BY RowKept
<1> QED BY <1>1, <1>2 DEF SameBoard

\* The freeze hides what happens after it: a step that leaves the solutions
\* from before the freeze as they are leaves every row that contestants see as
\* it is (MonitorAction, and the constructors' comparison with the date).
THEOREM FreezeHolds == Spec => FreezeHides
<1>1. ASSUME Undisturbed, ~Infinite(contest),
             {s \in solutions : s.time <= FreezeTime}
               = {s \in solutions' : s.time <= FreezeTime}
      PROVE  SameBoard(When(FALSE))
  <2>1. contest' = contest /\ When(FALSE) = FreezeTime
    BY <1>1 DEF Undisturbed, When
  <2>2. ASSUME NEW w, w = FreezeTime, NEW u, NEW p
        PROVE  Counted(u, p, w)' = Counted(u, p, w)
    BY <1>1, <2>1, <2>2 DEF Counted, Counts, Listed, Infinite, EndTime
  <2> QED BY <2>1, <2>2, BoardKept
<1> QED BY <1>1, PTL DEF Spec, FreezeHides

\* The board moves only with the solutions that the tests have judged and that
\* came within the contest: the others cost nothing and win nothing, however
\* they got in.
THEOREM OthersDoNotCount == Spec => OnlyVerdictsCount
<1>1. ASSUME Undisturbed, Verdicts = Verdicts', NEW isAdmin \in BOOLEAN
      PROVE  SameBoard(When(isAdmin))
  <2>1. contest' = contest
    BY <1>1 DEF Undisturbed
  <2>2. ASSUME NEW u, NEW p, NEW w
        PROVE  Counted(u, p, w)' = Counted(u, p, w)
    <3>1. Counted(u, p, w) =
            {s \in Verdicts : s.user = u /\ s.problem = p /\ Counts(s, w)}
      BY DEF Counted, Listed, Verdicts, Counts, Infinite
    <3>2. Counted(u, p, w)' =
            {s \in Verdicts' : s.user = u /\ s.problem = p /\ Counts(s, w)'}
      BY DEF Counted, Listed, Verdicts, Counts, Infinite
    <3> QED BY <1>1, <2>1, <3>1, <3>2 DEF Counts, Infinite, EndTime
  <2> QED BY <2>1, <2>2, BoardKept
<1>2. [Next]_vars =>
        [solutions' # solutions /\ Undisturbed /\ Verdicts = Verdicts' =>
           \A isAdmin \in BOOLEAN : SameBoard(When(isAdmin))]_vars
  BY <1>1
<1> QED BY <1>2, PTL DEF Spec, OnlyVerdictsCount

\* A step that neither puts a solution again nor gives the contest other times
\* takes no counted solution away.
LEMMA CountedStays ==
    ASSUME BoardInv, [Next]_vars, Undisturbed, ~\E s \in solutions : Resubmit(s),
           NEW u, NEW p, NEW w
    PROVE  Counted(u, p, w) \subseteq Counted(u, p, w)'
<1>1. contest' = contest
  BY DEF Undisturbed
<1>2. \A s \in solutions : s.status = "PROCESSED" => s \in solutions'
  <2>1. CASE UNCHANGED solutions
    BY <2>1
  <2>2. ASSUME NEW v \in Users, NEW q \in Problems, Submit(v, q)
        PROVE  solutions \subseteq solutions'
    BY <2>2 DEF Submit
  <2>3. ASSUME NEW s \in solutions, NEW status, NEW passed,
               Judge(s, status, passed)
        PROVE  /\ s.status = "NEW"
               /\ \A t \in solutions : t # s => t \in solutions'
    BY <2>3 DEF Judge
  <2> QED
    BY <2>1, <2>2, <2>3
    DEF Next, vars, Tick, Join, OpenForm, SaveForm
<1> QED BY <1>1, <1>2 DEF Counted, Counts, Listed, Infinite, EndTime

\* A solved problem stays solved: no failure, no late verdict and no freeze
\* takes it away, but an edit of the contest or a new judging may.
THEOREM SolvedForGood == Spec => SolvedStays
<1>1. ASSUME BoardInv, [Next]_vars, Undisturbed,
             ~\E s \in solutions : Resubmit(s),
             NEW u \in contestants, NEW p \in Problems, NEW isAdmin \in BOOLEAN,
             Solved(u, p, When(isAdmin))
      PROVE  Solved(u, p, When(isAdmin))'
  <2> PICK w : w = When(isAdmin)
    OBVIOUS
  <2>1. When(isAdmin)' = w
    BY <1>1 DEF When, FreezeTime, Infinite, EndTime, Undisturbed
  <2>2. Counted(u, p, w) \subseteq Counted(u, p, w)'
    BY <1>1, CountedStays
  <2>3. Solved(u, p, w)'
    BY <1>1, <2>2 DEF Solved, Passed
  <2> QED BY <2>1, <2>3 DEF Solved
<1>2. BoardInv /\ [Next]_vars =>
        [(Undisturbed /\ ~\E s \in solutions : Resubmit(s)) =>
           \A u \in contestants, p \in Problems, isAdmin \in BOOLEAN :
              Solved(u, p, When(isAdmin)) => Solved(u, p, When(isAdmin))']_vars
  BY <1>1
<1> QED BY <1>2, BoardInit, BoardStep, PTL DEF Spec, SolvedStays
-----------------------------------------------------------------------------
(* A failure never helps.                                                   *)

\* The times are different instants of a bounded clock.
LEMMA SolutionsFinite == BoardInv => IsFiniteSet(solutions)
<1> SUFFICES ASSUME BoardInv PROVE IsFiniteSet(solutions)
  OBVIOUS
<1> DEFINE f == [s \in solutions |-> s.time]
<1>1. f \in [solutions -> 0..MaxTime]
  BY DEF BoardInv, TypeOK, Solution
<1>2. \A s, t \in solutions : f[s] = f[t] => s = t
  BY DEF BoardInv, TypeOK
<1>3. f \in Injection(solutions, 0..MaxTime)
  BY <1>1, <1>2, Fun_IsInj
<1>4. IsFiniteSet(0..MaxTime)
  BY FS_Interval, ScoreboardAssumption
<1> QED BY <1>3, <1>4, FS_Injection

\* A set of instants has a last one.
LEMMA LastInstant ==
    ASSUME NEW T, T \subseteq 0..MaxTime, T # {}
    PROVE  Max(T) \in T
<1> DEFINE Left == {MaxTime - t : t \in T}
<1>1. Left \subseteq Nat /\ Left # {}
  <2>1. \A t \in T : MaxTime - t \in Nat
    BY ScoreboardAssumption
  <2>2. PICK t \in T : TRUE
    OBVIOUS
  <2>3. MaxTime - t \in Left
    BY <2>2
  <2> QED BY <2>1, <2>3
<1>2. PICK x \in Left : \A y \in Left : x <= y
  <2> HIDE DEF Left
  <2> QED BY <1>1, LeastNumber
<1>3. PICK t \in T : x = MaxTime - t
  OBVIOUS
<1>4. \A q \in T : MaxTime - t <= MaxTime - q
  BY <1>2, <1>3
<1>5. \A q \in T : t >= q
  BY <1>4, ScoreboardAssumption
<1> QED BY <1>5 DEF Max

\* What is counted of a contestant for a problem is finite, so that tries and
\* times are numbers.
RowOK(u, w) ==
    /\ \A p \in Problems :
          /\ IsFiniteSet(Failures(u, p, w))
          /\ Tries(u, p, w) \in Nat
          /\ Solved(u, p, w) => Max({a.time : a \in Passed(u, p, w)}) \in Int
          /\ ProblemTime(u, p, w) \in Int
    /\ Row(u, w).time \in Int
    /\ Cardinality(Row(u, w).solved) \in Nat

RowsOK == \A u, w : RowOK(u, w)

\* A row of the board holds numbers.
LEMMA RowType == BoardInv => RowsOK
<1> SUFFICES ASSUME BoardInv, NEW u, NEW w PROVE RowOK(u, w)
  BY DEF RowsOK
<1>1. ASSUME NEW p \in Problems
      PROVE  /\ IsFiniteSet(Failures(u, p, w))
             /\ Tries(u, p, w) \in Nat
             /\ Solved(u, p, w) => Max({a.time : a \in Passed(u, p, w)}) \in Int
             /\ ProblemTime(u, p, w) \in Int
  <2>1. Counted(u, p, w) \subseteq solutions
    BY DEF Counted, Listed
  <2>2. IsFiniteSet(Failures(u, p, w))
    BY <2>1, SolutionsFinite, FS_Subset DEF Failures
  <2>3. Tries(u, p, w) \in Nat
    BY <2>2, FS_CardinalityType DEF Tries
  <2>4. ASSUME Solved(u, p, w)
        PROVE  Max({a.time : a \in Passed(u, p, w)}) \in Int
    <3> DEFINE T == {a.time : a \in Passed(u, p, w)}
    <3>1. T \subseteq 0..MaxTime /\ T # {}
      BY <2>1, <2>4 DEF Passed, Solved, BoardInv, TypeOK, Solution
    <3>2. Max(T) \in T
      <4> HIDE DEF T
      <4> QED BY <3>1, LastInstant
    <3> QED BY <3>1, <3>2
  <2>5. ProblemTime(u, p, w) \in Int
    <3>1. contest.start \in Int /\ Penalty \in Int /\ Tries(u, p, w) \in Int
      BY <2>3, ContestTimes, ScoreboardAssumption DEF BoardInv, TypeOK
    <3>2. Penalty * Tries(u, p, w) \in Int
      BY <3>1
    <3> QED BY <2>4, <3>1, <3>2 DEF ProblemTime
  <2> QED BY <2>2, <2>3, <2>4, <2>5
<1>2. Row(u, w).time \in Int
  <2> DEFINE f == [p \in Problems |-> ProblemTime(u, p, w)]
  <2>1. f \in [Problems -> Int]
    BY <1>1
  <2>2. Row(u, w).time = SumFunction(f)
    BY DEF Row
  <2> HIDE DEF f
  <2> QED BY <2>1, <2>2, SumType, ScoreboardAssumption
<1>3. Cardinality(Row(u, w).solved) \in Nat
  <2>1. Row(u, w).solved \in SUBSET Problems
    BY DEF Row
  <2> QED BY <2>1, FS_Subset, FS_CardinalityType, ScoreboardAssumption
<1> QED BY <1>1, <1>2, <1>3 DEF RowOK

\* The same after a step.
LEMMA RowTypeNext == BoardInv' => RowsOK'
  BY RowType, PTL

\* A failing verdict adds at most one solution, a failed one, to what is
\* counted of its author for its problem, and nothing elsewhere.
LEMMA FailureCounted ==
    ASSUME BoardInv, NEW s \in solutions, Judge(s, "PROCESSED", FALSE),
           NEW u, NEW p, NEW w
    PROVE  /\ u # s.user => Counted(u, p, w)' = Counted(u, p, w)
           /\ Passed(u, p, w)' = Passed(u, p, w)
           /\ Failures(u, p, w) \subseteq Failures(u, p, w)'
<1> DEFINE new == [s EXCEPT !.status = "PROCESSED", !.passed = FALSE]
<1>1. /\ s.status = "NEW" /\ contest' = contest
      /\ solutions' = (solutions \ {s}) \cup {new}
  BY DEF Judge
<1>2. /\ new.user = s.user /\ new.passed = FALSE
  BY DEF BoardInv, TypeOK, Solution
<1>3. s \notin Counted(u, p, w)
  BY <1>1 DEF Counted, Counts
<1>4. /\ Counted(u, p, w) \subseteq Counted(u, p, w)'
      /\ Counted(u, p, w)' \subseteq Counted(u, p, w) \cup {new}
      /\ u # s.user => new \notin Counted(u, p, w)'
  BY <1>1, <1>2, <1>3 DEF Counted, Counts, Listed, Infinite, EndTime
<1>5. Passed(u, p, w)' = Passed(u, p, w)
  BY <1>2, <1>4 DEF Passed
<1>6. Failures(u, p, w) \subseteq Failures(u, p, w)'
  BY <1>4, <1>5 DEF Failures
<1> QED BY <1>4, <1>5, <1>6

\* So it makes no time of its author shorter and no problem solved or unsolved.
LEMMA FailureRow ==
    ASSUME BoardInv, BoardInv', NEW s \in solutions,
           Judge(s, "PROCESSED", FALSE), NEW u, NEW w
    PROVE  /\ Row(u, w).solved = (Row(u, w).solved)'
           /\ Row(u, w).time <= (Row(u, w).time)'
<1>1. contest' = contest
  BY DEF Judge
<1>2. \A p : Solved(u, p, w)' = Solved(u, p, w)
  BY FailureCounted DEF Solved
<1>3. Row(u, w).solved = (Row(u, w).solved)'
  BY <1>2 DEF Row
<1>4. ASSUME NEW p \in Problems
      PROVE  /\ ProblemTime(u, p, w) \in Int /\ ProblemTime(u, p, w)' \in Int
             /\ ProblemTime(u, p, w) <= ProblemTime(u, p, w)'
  <2>1. Tries(u, p, w) <= Tries(u, p, w)'
    <3>1. IsFiniteSet(Failures(u, p, w)')
      BY RowTypeNext DEF RowsOK, RowOK
    <3> QED BY <3>1, FailureCounted, FS_Subset DEF Tries
  <2>2. /\ Tries(u, p, w) \in Nat /\ Tries(u, p, w)' \in Nat
        /\ contest.start \in Int /\ Penalty \in Nat
    <3>1. Tries(u, p, w) \in Nat /\ Tries(u, p, w)' \in Nat
      BY RowType, RowTypeNext DEF RowsOK, RowOK
    <3>2. contest.start \in Int
      BY ContestTimes DEF BoardInv, TypeOK
    <3> QED BY <3>1, <3>2, ScoreboardAssumption
  <2>3. \A a, b, c \in Nat : a <= b => c * a \in Nat /\ c * b \in Nat /\ c * a <= c * b
    OBVIOUS
  <2>4. /\ Penalty * Tries(u, p, w) \in Nat /\ Penalty * Tries(u, p, w)' \in Nat
        /\ Penalty * Tries(u, p, w) <= Penalty * Tries(u, p, w)'
    BY <2>1, <2>2, <2>3
  <2>5. {a.time : a \in Passed(u, p, w)}' = {a.time : a \in Passed(u, p, w)}
    BY FailureCounted
  <2>6. Solved(u, p, w) => Max({a.time : a \in Passed(u, p, w)}) \in Int
    BY RowType DEF RowsOK, RowOK
  <2>7. CASE Solved(u, p, w)
    <3> DEFINE T == {a.time : a \in Passed(u, p, w)}
               last == Max(T)
    <3>1. ProblemTime(u, p, w) = last - contest.start + Penalty * Tries(u, p, w)
      BY <2>7 DEF ProblemTime
    <3>2. ProblemTime(u, p, w)' = last - contest.start + Penalty * Tries(u, p, w)'
      BY <1>1, <1>2, <2>5, <2>7 DEF ProblemTime
    <3>3. last \in Int
      BY <2>6, <2>7
    <3> HIDE DEF last
    <3> QED BY <2>2, <2>4, <3>1, <3>2, <3>3
  <2>8. CASE ~Solved(u, p, w)
    BY <1>2, <2>8 DEF ProblemTime
  <2>9. ProblemTime(u, p, w) \in Int /\ ProblemTime(u, p, w)' \in Int
    BY RowType, RowTypeNext DEF RowsOK, RowOK
  <2> QED BY <2>7, <2>8, <2>9
<1>5. Row(u, w).time <= (Row(u, w).time)'
  <2> DEFINE e == [p \in Problems |-> ProblemTime(u, p, w)]
             f == [p \in Problems |-> ProblemTime(u, p, w)']
  <2>1. /\ e \in [Problems -> Int] /\ f \in [Problems -> Int]
        /\ \A p \in Problems : e[p] <= f[p]
    BY <1>4
  <2>2. Row(u, w).time = SumFunction(e) /\ (Row(u, w).time)' = SumFunction(f)
    BY DEF Row
  <2> HIDE DEF e, f
  <2> QED BY <2>1, <2>2, SumMonotone, ScoreboardAssumption
<1> QED BY <1>3, <1>5

\* A failure never lifts a contestant over another, on any problem, however
\* late its verdict comes: the order of AcmMonitorRecord.compareTo counts the
\* solved problems, then the time, to which a failure can only add.
THEOREM FailureIsNoHelp == Spec => FailureNeverHelps
<1>1. ASSUME BoardInv, BoardInv', NEW s \in solutions,
             s.user \in contestants, Judge(s, "PROCESSED", FALSE),
             NEW v \in contestants, NEW isAdmin \in BOOLEAN,
             Above(v, s.user, When(isAdmin))
      PROVE  Above(v, s.user, When(isAdmin))'
  <2> PICK w : w = When(isAdmin)
    OBVIOUS
  <2> DEFINE u == s.user
  <2>1. When(isAdmin)' = w /\ contest' = contest
    BY <1>1 DEF When, FreezeTime, Infinite, EndTime, Judge
  <2>2. /\ Row(u, w).time \in Int /\ Row(v, w).time \in Int
        /\ (Row(u, w).time)' \in Int
        /\ Cardinality(Row(u, w).solved) \in Int
        /\ Cardinality(Row(v, w).solved) \in Int
        /\ Name[u] \in Int /\ Name[v] \in Int
    BY <1>1, RowType, RowTypeNext, ScoreboardAssumption
    DEF RowsOK, RowOK, BoardInv, TypeOK
  <2>3. v # u
    BY <1>1, <2>2 DEF Above
  <2>4. Row(v, w)' = Row(v, w)
    BY <1>1, <2>1, <2>3, FailureCounted, RowKept
  <2>5. /\ (Row(u, w).solved)' = Row(u, w).solved
        /\ Row(u, w).time <= (Row(u, w).time)'
    BY <1>1, FailureRow
  <2>6. Above(v, u, w)
    BY <1>1
  <2>7. Above(v, u, w)'
    BY <2>2, <2>4, <2>5, <2>6 DEF Above
  <2> QED BY <2>1, <2>7 DEF Above
<1>2. BoardInv /\ BoardInv' /\ [Next]_vars =>
        [\A s \in solutions :
           s.user \in contestants /\ Judge(s, "PROCESSED", FALSE) =>
             \A v \in contestants, isAdmin \in BOOLEAN :
               Above(v, s.user, When(isAdmin))
                 => Above(v, s.user, When(isAdmin))']_vars
  BY <1>1
<1> QED BY <1>2, BoardInit, BoardStep, PTL DEF Spec, FailureNeverHelps
=============================================================================
