--------------------------- MODULE WebPagesProofs ---------------------------
(* Theorems of six pages: the form on which a contest is edited, the editor *)
(* of tests, the tables, the page of a solution, the text editor and its    *)
(* events, for every value of what they are given and any number of clicks, *)
(* requests, faults, edits and listeners.                                   *)
EXTENDS WebPages, SumProofs, SequenceTheorems

-----------------------------------------------------------------------------
(* The variables of the page "contest" by the names of its module.          *)

openContest == w1
cp == w2
roles == w3
applied == w4
settings == w5
form == w6
problemsDataSet == w7
usersDataSet == w8
applicationsDataSet == w9
joins == w10
dealtWith == w11
forms == w12
clicks == w13
seen == w14
declined == w15
muddled == w16

-----------------------------------------------------------------------------
(* Operators on sequences.                                                  *)

Distinct(s) == \A i, j \in DOMAIN s : s[i] = s[j] => i = j

\* SetToSeq lists each member of a finite set once.
LEMMA Listed ==
    ASSUME NEW S, IsFiniteSet(S)
    PROVE  LET s == Contest!SetToSeq(S) IN
           /\ Cardinality(S) \in Nat
           /\ s \in Seq(S) /\ DOMAIN s = 1..Cardinality(S)
           /\ Distinct(s)
           /\ \A x \in S : \E i \in DOMAIN s : s[i] = x
<1> DEFINE n == Cardinality(S)
           s == Contest!SetToSeq(S)
<1>1. n \in Nat /\ ExistsBijection(1..n, S)
  BY FS_CardinalityType
<1>2. \E f \in [1..n -> S] : Contest!IsInjective(f)
  BY <1>1 DEF ExistsBijection, Bijection, Injection, IsInjective, Contest!IsInjective
<1>3. s \in [1..n -> S] /\ Contest!IsInjective(s)
  BY <1>2 DEF Contest!SetToSeq, Contest!Cardinality, Cardinality
<1>4. s \in Injection(1..n, S)
  BY <1>3 DEF Injection, IsInjective, Contest!IsInjective
<1>5. IsFiniteSet(1..n) /\ Cardinality(1..n) = n
  BY <1>1, FS_Interval
<1>6. s \in Surjection(1..n, S)
  BY <1>4, <1>5, FS_Injection
<1>7. \A x \in S : \E i \in 1..n : s[i] = x
  BY <1>6 DEF Surjection
<1>8. s \in Seq(S)
  BY <1>1, <1>3
<1> QED BY <1>1, <1>3, <1>7, <1>8 DEF Distinct, Contest!IsInjective

\* RemoveAt takes one place out of a sequence.
LEMMA Removed ==
    ASSUME NEW T, NEW s \in Seq(T), NEW i \in 1..Len(s)
    PROVE  LET r == Contest!RemoveAt(s, i) IN
           /\ r \in Seq(T) /\ Len(r) = Len(s) - 1
           /\ \A j \in 1..Len(r) : r[j] = IF j < i THEN s[j] ELSE s[j + 1]
<1> DEFINE a == SubSeq(s, 1, i - 1)
           b == SubSeq(s, i + 1, Len(s))
           r == Contest!RemoveAt(s, i)
<1>1. a \in Seq(T) /\ Len(a) = i - 1 /\ \A j \in 1..(i - 1) : a[j] = s[j]
  OBVIOUS
<1>2. /\ b \in Seq(T) /\ Len(b) = Len(s) - i
      /\ \A j \in 1..(Len(s) - i) : b[j] = s[i + j]
  OBVIOUS
<1>3. r = a \o b
  BY DEF Contest!RemoveAt
<1>4. r \in Seq(T) /\ Len(r) = Len(s) - 1
  <2> HIDE DEF a, b, r
  <2>1. a \in Seq(T) /\ b \in Seq(T)
    BY <1>1, <1>2
  <2>2. a \o b \in Seq(T) /\ Len(a \o b) = Len(a) + Len(b)
    BY <2>1, ConcatProperties
  <2> QED BY <1>1, <1>2, <1>3, <2>2
<1>5. ASSUME NEW j \in 1..Len(r), j < i PROVE r[j] = s[j]
  <2>1. j \in 1..(i - 1)
    BY <1>4, <1>5
  <2> HIDE DEF a, b, r
  <2>2. j \in 1..(Len(a) + Len(b)) /\ j <= Len(a)
    BY <1>1, <1>2, <1>4, <1>5
  <2>3. (a \o b)[j] = a[j]
    BY <1>1, <1>2, <2>2, ConcatProperties
  <2> QED BY <1>1, <1>3, <2>1, <2>3
<1>6. ASSUME NEW j \in 1..Len(r), ~(j < i) PROVE r[j] = s[j + 1]
  <2> DEFINE k == j - (i - 1)
  <2>1. k \in 1..(Len(s) - i) /\ i + k = j + 1 /\ j = Len(a) + k
    BY <1>1, <1>4, <1>6
  <2> HIDE DEF a, b, r, k
  <2>2. (a \o b)[j] = b[k]
    BY <1>1, <1>2, <1>4, <2>1, ConcatProperties
  <2> QED BY <1>2, <1>3, <2>1, <2>2
<1> QED BY <1>4, <1>5, <1>6

\* InGrid finds a user's place in the list of roles, or 0.
LEMMA Found ==
    ASSUME usersDataSet \in Seq(Contest!Users), NEW u
    PROVE  /\ Contest!InGrid(u) # 0 <=> \E i \in DOMAIN usersDataSet : usersDataSet[i] = u
           /\ Contest!InGrid(u) # 0 => /\ Contest!InGrid(u) \in 1..Len(usersDataSet)
                                       /\ usersDataSet[Contest!InGrid(u)] = u
<1> DEFINE I == {i \in 1..Len(usersDataSet) : usersDataSet[i] = u}
<1>1. Contest!InGrid(u) = IF I # {} THEN Contest!Min(I) ELSE 0
  BY DEF Contest!InGrid, Contest!SelectInSeq, usersDataSet
<1>2. ASSUME I # {} PROVE Contest!Min(I) \in I
  <2>1. I \subseteq Nat
    OBVIOUS
  <2> HIDE DEF I
  <2>2. \E x \in I : \A y \in I : x <= y
    BY <1>2, <2>1, LeastNumber
  <2> QED BY <2>2 DEF Contest!Min
<1>3. DOMAIN usersDataSet = 1..Len(usersDataSet)
  OBVIOUS
<1> QED BY <1>1, <1>2, <1>3

-----------------------------------------------------------------------------
(* The form of a contest: types.                                            *)

Application == [login : Contestants, status : {"NEW", "ACCEPTED", "DECLINED"}]
Reading == [roles : SUBSET Contest!Users, settings : 0..MaxForms]

\* What has been read is not newer than the form last opened.
NotAhead(read, form_) ==
    \A u \in Contestants : read[u] # <<>> => read[u][1].settings <= form_

\* What sendApplication has read is typed, and no settings come from a form
\* that has not been opened.
ContestTyped ==
    /\ Contest!TypeOK
    /\ joins \in [Contestants -> Seq(Reading)]
    /\ forms \in 0..MaxForms /\ settings <= forms /\ NotAhead(joins, forms)

\* The types as the steps below use them.
LEMMA ContestTypes ==
    ASSUME ContestTyped
    PROVE  /\ openContest \in BOOLEAN /\ form \in BOOLEAN /\ muddled \in BOOLEAN
           /\ cp \in [ContestProblems -> Contest!ContestProblem \cup {Contest!NaNRow}]
           /\ roles \subseteq Contest!Users /\ applied \subseteq Contestants
           /\ settings \in 0..MaxForms /\ forms \in 0..MaxForms /\ settings <= forms
           /\ NotAhead(joins, forms)
           /\ problemsDataSet \in Seq(Contest!GridRow)
           /\ usersDataSet \in Seq(Contest!Users)
           /\ applicationsDataSet \in Seq(Application)
           /\ joins \in [Contestants -> Seq(Reading)]
           /\ \A u \in Contestants : Len(joins[u]) <= 1
           /\ dealtWith \subseteq Contestants /\ declined \subseteq Contestants
           /\ seen \subseteq Contest!Users
  BY DEF ContestTyped, Contest!TypeOK, Application, openContest, cp, roles, applied,
         settings, form, problemsDataSet, usersDataSet, applicationsDataSet, joins,
         dealtWith, forms, seen, declined, muddled

\* The same, to be shown of the next state.
LEMMA ContestTypesNext ==
    ASSUME openContest' \in BOOLEAN, form' \in BOOLEAN, muddled' \in BOOLEAN,
           cp' \in [ContestProblems -> Contest!ContestProblem \cup {Contest!NaNRow}],
           roles' \subseteq Contest!Users, applied' \subseteq Contestants,
           settings' \in 0..MaxForms, forms' \in 0..MaxForms, settings' <= forms',
           NotAhead(joins', forms'),
           problemsDataSet' \in Seq(Contest!GridRow),
           usersDataSet' \in Seq(Contest!Users),
           applicationsDataSet' \in Seq(Application),
           joins' \in [Contestants -> Seq(Reading)],
           \A u \in Contestants : Len(joins'[u]) <= 1,
           dealtWith' \subseteq Contestants, declined' \subseteq Contestants,
           seen' \subseteq Contest!Users
    PROVE  ContestTyped'
  BY DEF ContestTyped, Contest!TypeOK, Application, openContest, cp, roles, applied,
         settings, form, problemsDataSet, usersDataSet, applicationsDataSet, joins,
         dealtWith, forms, seen, declined, muddled

\* Only finitely many users may come.
LEMMA UsersFinite == IsFiniteSet(Contest!Users)
  BY ContestAssumption, FS_AddElement DEF Contest!Users

\* The contest before anybody has come.
LEMMA ContestTypeInit == Contest!Init => ContestTyped
<1> SUFFICES ASSUME Contest!Init PROVE ContestTyped
  OBVIOUS
<1>1. cp \in [ContestProblems -> Contest!ContestProblem \cup {Contest!NaNRow}]
  <2> SUFFICES ASSUME NEW p \in ContestProblems
               PROVE  IF Contest!Contains(FirstProblems, p)
                      THEN LET i == CHOOSE i \in DOMAIN FirstProblems : FirstProblems[i] = p
                           IN  [order |-> i - 1, mark |-> i - 1, cost |-> 1]
                              \in Contest!ContestProblem
                      ELSE TRUE
    BY DEF Contest!Init, cp
  <2> SUFFICES ASSUME Contest!Contains(FirstProblems, p)
               PROVE  LET i == CHOOSE i \in DOMAIN FirstProblems : FirstProblems[i] = p
                      IN  [order |-> i - 1, mark |-> i - 1, cost |-> 1]
                              \in Contest!ContestProblem
    OBVIOUS
  <2>1. DOMAIN FirstProblems = 1..Len(FirstProblems)
    BY ContestAssumption
  <2>2. (CHOOSE i \in DOMAIN FirstProblems : FirstProblems[i] = p) \in 1..Len(FirstProblems)
    BY <2>1 DEF Contest!Contains
  <2>3. Len(FirstProblems) \in Nat
    BY ContestAssumption
  <2> QED BY <2>2, <2>3 DEF Contest!ContestProblem
<1>2. /\ w1 \in BOOLEAN /\ w3 = {Administrator} /\ w4 = {} /\ w5 = 0 /\ w6 = FALSE
      /\ w7 = <<>> /\ w8 = <<>> /\ w9 = <<>> /\ w10 = [u \in Contestants |-> <<>>]
      /\ w11 = {} /\ w12 = 0 /\ w13 = 0 /\ w14 = {} /\ w15 = {} /\ w16 = FALSE
  BY DEF Contest!Init
<1>3. joins \in [Contestants -> Seq(Reading)] /\ \A u \in Contestants : Len(joins[u]) <= 1
  BY <1>2 DEF joins
<1>4. settings = 0 /\ forms = 0 /\ 0 \in 0..MaxForms
  BY <1>2, ContestAssumption DEF settings, forms
<1>5. /\ w3 \subseteq Contest!Users
      /\ w7 \in Seq(Contest!GridRow) /\ w8 \in Seq(Contest!Users)
      /\ w9 \in Seq(Application)
  BY <1>2 DEF Contest!Users
<1>6. Contest!TypeOK
  BY <1>1, <1>2, <1>3, <1>4, <1>5
     DEF Contest!TypeOK, Application, cp, joins, settings, forms
<1>7. NotAhead(joins, forms)
  BY <1>2 DEF NotAhead, joins
<1> QED
  BY <1>3, <1>4, <1>6, <1>7 DEF ContestTyped

-----------------------------------------------------------------------------
(* The form's list of problems.                                             *)

\* The marks and the orders are those of the places.
Ordered(grid) ==
    \A i \in 1..Len(grid) : grid[i].mark = i - 1 /\ grid[i].order = i - 1

At(r, m, o) == [r EXCEPT !.mark = m, !.order = o]

\* A row that gets the mark and the order of a place.
LEMMA Placed ==
    ASSUME NEW r \in Contest!GridRow, NEW m \in Nat, NEW o \in Nat
    PROVE  At(r, m, o) \in Contest!GridRow /\ At(r, m, o).mark = m /\ At(r, m, o).order = o
  BY DEF Contest!GridRow, At

\* An added row is the last, and has the next letter.
LEMMA AddProblemGrid ==
    ASSUME ContestTyped, Contest!addProblem
    PROVE  /\ problemsDataSet' \in Seq(Contest!GridRow)
           /\ Ordered(problemsDataSet) => Ordered(problemsDataSet')
<1> DEFINE n == Len(problemsDataSet)
           r == [mark |-> n, order |-> n, problem |-> None, cost |-> 1]
<1>1. problemsDataSet \in Seq(Contest!GridRow) /\ n \in Nat
  BY ContestTypes
<1>2. problemsDataSet' = Append(problemsDataSet, r)
  BY DEF Contest!addProblem, problemsDataSet
<1>3. r \in Contest!GridRow /\ r.mark = n /\ r.order = n
  BY <1>1 DEF Contest!GridRow
<1> HIDE DEF r, n
<1>4. /\ problemsDataSet' \in Seq(Contest!GridRow) /\ Len(problemsDataSet') = n + 1
      /\ problemsDataSet'[n + 1] = r
      /\ \A i \in 1..n : problemsDataSet'[i] = problemsDataSet[i]
  BY <1>1, <1>2, <1>3 DEF n
<1>5. ASSUME Ordered(problemsDataSet), NEW i \in 1..(n + 1)
      PROVE  problemsDataSet'[i].mark = i - 1 /\ problemsDataSet'[i].order = i - 1
  <2>1. CASE i = n + 1
    BY <1>1, <1>3, <1>4, <2>1
  <2>2. CASE i \in 1..n
    BY <1>4, <1>5, <2>2 DEF Ordered, n
  <2> QED BY <1>1, <1>5, <2>1, <2>2
<1> QED BY <1>4, <1>5 DEF Ordered

\* A row moved down changes places with the next, and both get their letters.
LEMMA DownGrid ==
    ASSUME ContestTyped, NEW i \in DOMAIN problemsDataSet, Contest!buttonDown(i)
    PROVE  /\ problemsDataSet' \in Seq(Contest!GridRow)
           /\ Ordered(problemsDataSet) => Ordered(problemsDataSet')
<1> DEFINE n == Len(problemsDataSet)
           a == At(problemsDataSet[i + 1], i - 1, i - 1)
           b == At(problemsDataSet[i], i, i)
<1>1. /\ problemsDataSet \in Seq(Contest!GridRow) /\ n \in Nat
      /\ i \in 1..(n - 1) /\ i + 1 \in 1..n /\ i \in 1..n
  BY ContestTypes DEF Contest!buttonDown, problemsDataSet
<1>2. problemsDataSet[i] \in Contest!GridRow /\ problemsDataSet[i + 1] \in Contest!GridRow
  BY <1>1
<1>3. /\ a \in Contest!GridRow /\ a.mark = i - 1 /\ a.order = i - 1
      /\ b \in Contest!GridRow /\ b.mark = i /\ b.order = i
  <2>1. i - 1 \in Nat /\ i \in Nat
    BY <1>1
  <2>2. a \in Contest!GridRow /\ a.mark = i - 1 /\ a.order = i - 1
    BY <1>2, <2>1, Placed
  <2>3. b \in Contest!GridRow /\ b.mark = i /\ b.order = i
    BY <1>2, <2>1, Placed
  <2> QED BY <2>2, <2>3
<1>4. problemsDataSet' = [problemsDataSet EXCEPT ![i] = a, ![i + 1] = b]
  BY <1>1 DEF Contest!buttonDown, Contest!Swapped, problemsDataSet, At
<1> HIDE DEF a, b
<1>5. /\ problemsDataSet' \in [1..n -> Contest!GridRow]
      /\ problemsDataSet'[i] = a /\ problemsDataSet'[i + 1] = b
      /\ \A j \in 1..n : j # i /\ j # i + 1 => problemsDataSet'[j] = problemsDataSet[j]
  BY <1>1, <1>3, <1>4
<1>6. problemsDataSet' \in Seq(Contest!GridRow) /\ Len(problemsDataSet') = n
  BY <1>1, <1>5
<1> QED BY <1>1, <1>3, <1>5, <1>6 DEF Ordered

\* A row moved up changes places with the one before; its order is wrong.
LEMMA UpGrid ==
    ASSUME ContestTyped, NEW i \in DOMAIN problemsDataSet, Contest!buttonUp(i)
    PROVE  problemsDataSet' \in Seq(Contest!GridRow) /\ muddled'
<1> DEFINE n == Len(problemsDataSet)
           a == At(problemsDataSet[i - 1], i - 1, i - 1)
           b == At(problemsDataSet[i], i - 2, i)
<1>1. /\ problemsDataSet \in Seq(Contest!GridRow) /\ n \in Nat
      /\ i \in 2..n /\ i - 1 \in 1..n /\ i - 2 \in Nat
  BY ContestTypes DEF Contest!buttonUp, problemsDataSet
<1>2. problemsDataSet[i] \in Contest!GridRow /\ problemsDataSet[i - 1] \in Contest!GridRow
  BY <1>1
<1>3. a \in Contest!GridRow /\ b \in Contest!GridRow
  <2>1. i - 1 \in Nat /\ i - 2 \in Nat /\ i \in Nat
    BY <1>1
  <2>2. a \in Contest!GridRow
    BY <1>2, <2>1, Placed
  <2>3. b \in Contest!GridRow
    BY <1>2, <2>1, Placed
  <2> QED BY <2>2, <2>3
<1>4. problemsDataSet' = [problemsDataSet EXCEPT ![i] = a, ![i - 1] = b]
  BY <1>1 DEF Contest!buttonUp, Contest!Swapped, problemsDataSet, At
<1> HIDE DEF a, b
<1>5. problemsDataSet' \in [1..n -> Contest!GridRow]
  BY <1>1, <1>3, <1>4
<1>6. muddled'
  BY DEF Contest!buttonUp, muddled
<1> QED BY <1>1, <1>5, <1>6

\* The rows below a deleted one move up and get their letters.
LEMMA DeleteGrid ==
    ASSUME ContestTyped, NEW i \in DOMAIN problemsDataSet, Contest!deleteButton(i)
    PROVE  /\ problemsDataSet' \in Seq(Contest!GridRow)
           /\ Ordered(problemsDataSet) => Ordered(problemsDataSet')
<1> DEFINE n == Len(problemsDataSet)
           rest == Contest!RemoveAt(problemsDataSet, i)
           f == [j \in DOMAIN rest |->
                   IF j < i THEN rest[j] ELSE At(rest[j], j - 1, j - 1)]
<1>1. problemsDataSet \in Seq(Contest!GridRow) /\ n \in Nat /\ i \in 1..n
  BY ContestTypes
<1>2. /\ rest \in Seq(Contest!GridRow) /\ Len(rest) = n - 1
      /\ \A j \in 1..(n - 1) : j < i => rest[j] = problemsDataSet[j]
  BY <1>1, Removed
<1>3. problemsDataSet' = f
  BY DEF Contest!deleteButton, problemsDataSet, At
<1> HIDE DEF rest
<1>4. DOMAIN rest = 1..(n - 1) /\ \A j \in 1..(n - 1) : rest[j] \in Contest!GridRow
  BY <1>1, <1>2
<1>5. ASSUME NEW j \in 1..(n - 1)
      PROVE  /\ f[j] \in Contest!GridRow
             /\ Ordered(problemsDataSet) => f[j].mark = j - 1 /\ f[j].order = j - 1
  <2>1. CASE j < i
    BY <1>1, <1>2, <1>4, <2>1 DEF Ordered
  <2>2. CASE ~(j < i)
    <3>1. f[j] = At(rest[j], j - 1, j - 1)
      BY <1>4, <2>2
    <3>2. rest[j] \in Contest!GridRow /\ j - 1 \in Nat
      BY <1>4
    <3> DEFINE r == At(rest[j], j - 1, j - 1)
    <3>3. r \in Contest!GridRow /\ r.mark = j - 1 /\ r.order = j - 1
      BY <3>2, Placed
    <3>4. f[j] = r
      BY <3>1
    <3> HIDE DEF f, r
    <3> QED BY <3>3, <3>4
  <2> QED BY <2>1, <2>2
<1>6. f \in [1..(n - 1) -> Contest!GridRow]
  BY <1>4, <1>5
<1>7. n - 1 \in Nat
  BY <1>1
<1> HIDE DEF f
<1>8. problemsDataSet' \in Seq(Contest!GridRow) /\ Len(problemsDataSet') = n - 1
  BY <1>3, <1>6, <1>7
<1> QED BY <1>3, <1>5, <1>8 DEF Ordered

\* Choosing a problem or typing a cost moves nothing.
LEMMA FieldGrid ==
    ASSUME ContestTyped, NEW i \in DOMAIN problemsDataSet,
           \/ \E p \in ContestProblems : Contest!selectProblem(i, p)
           \/ \E x \in {1, None} : Contest!problem_cost(i, x)
    PROVE  /\ problemsDataSet' \in Seq(Contest!GridRow)
           /\ Ordered(problemsDataSet) => Ordered(problemsDataSet')
<1> DEFINE n == Len(problemsDataSet)
<1>1. problemsDataSet \in Seq(Contest!GridRow) /\ n \in Nat /\ i \in 1..n
  BY ContestTypes
<1>2. PICK r \in Contest!GridRow :
          /\ r.mark = problemsDataSet[i].mark /\ r.order = problemsDataSet[i].order
          /\ problemsDataSet' = [problemsDataSet EXCEPT ![i] = r]
  <2>1. problemsDataSet[i] \in Contest!GridRow
    BY <1>1
  <2>2. CASE \E p \in ContestProblems : Contest!selectProblem(i, p)
    <3>1. PICK p \in ContestProblems : Contest!selectProblem(i, p)
      BY <2>2
    <3>2. problemsDataSet' = [problemsDataSet EXCEPT
             ![i] = [problemsDataSet[i] EXCEPT !.problem = p]]
      BY <1>1, <3>1 DEF Contest!selectProblem, problemsDataSet
    <3> QED BY <2>1, <3>2 DEF Contest!GridRow
  <2>3. CASE \E x \in {1, None} : Contest!problem_cost(i, x)
    <3>1. PICK x \in {1, None} : Contest!problem_cost(i, x)
      BY <2>3
    <3>2. problemsDataSet' = [problemsDataSet EXCEPT
             ![i] = [problemsDataSet[i] EXCEPT !.cost = x]]
      BY <1>1, <3>1 DEF Contest!problem_cost, problemsDataSet
    <3> QED BY <2>1, <3>2 DEF Contest!GridRow
  <2> QED BY <2>2, <2>3
<1>3. /\ problemsDataSet' \in [1..n -> Contest!GridRow] /\ problemsDataSet'[i] = r
      /\ \A j \in 1..n : j # i => problemsDataSet'[j] = problemsDataSet[j]
  BY <1>1, <1>2
<1>4. problemsDataSet' \in Seq(Contest!GridRow) /\ Len(problemsDataSet') = n
  BY <1>1, <1>3
<1> QED BY <1>1, <1>2, <1>3, <1>4 DEF Ordered

\* The problems that are in the contest, in order: each has its place's order
\* and letter.
RankedBy(s) ==
    /\ s \in Seq(ContestProblems) /\ Distinct(s)
    /\ \A p : p \in Contest!InContest <=> \E i \in 1..Len(s) : s[i] = p
    /\ \A i \in 1..Len(s) : cp[s[i]].order = i - 1 /\ cp[s[i]].mark = i - 1

\* What a sorted list of the problems of a ranked contest is: its n-th problem
\* is the n-th.
LEMMA SortedIsRanked ==
    ASSUME NEW r, RankedBy(r),
           NEW s \in Seq(ContestProblems), Distinct(s),
           \A p : p \in Contest!InContest <=> \E i \in 1..Len(s) : s[i] = p,
           \A i, j \in 1..Len(s) : i < j => cp[s[i]].order <= cp[s[j]].order
    PROVE  \A i \in 1..Len(s) : cp[s[i]].order = i - 1
<1> DEFINE n == Len(s)
           f(i) == cp[s[i]].order
           Bad == {i \in 1..n : f(i) # i - 1}
<1> SUFFICES ASSUME Bad # {} PROVE FALSE
  OBVIOUS
<1>0. n \in Nat /\ Len(r) \in Nat /\ DOMAIN s = 1..n /\ DOMAIN r = 1..Len(r)
  BY DEF RankedBy
<1>1. ASSUME NEW i \in 1..n
      PROVE  \E k \in 1..Len(r) : r[k] = s[i] /\ f(i) = k - 1
  <2>1. s[i] \in Contest!InContest
    OBVIOUS
  <2>2. PICK k \in 1..Len(r) : r[k] = s[i]
    BY <2>1 DEF RankedBy
  <2>3. cp[r[k]].order = k - 1
    BY DEF RankedBy
  <2> QED BY <2>2, <2>3
<1>2. \A i, j \in 1..n : f(i) = f(j) => i = j
  <2> SUFFICES ASSUME NEW i \in 1..n, NEW j \in 1..n, f(i) = f(j) PROVE i = j
    OBVIOUS
  <2>1. PICK k \in 1..Len(r) : r[k] = s[i] /\ f(i) = k - 1
    BY <1>1
  <2>2. PICK l \in 1..Len(r) : r[l] = s[j] /\ f(j) = l - 1
    BY <1>1
  <2>3. k - 1 = l - 1
    BY <2>1, <2>2
  <2>4. k = l
    BY <1>0, <2>3
  <2>5. s[i] = s[j]
    BY <2>1, <2>2, <2>4
  <2> QED BY <1>0, <2>5 DEF Distinct
<1>3. ASSUME NEW k \in 1..Len(r) PROVE \E j \in 1..n : f(j) = k - 1
  <2>1. cp[r[k]].order = k - 1 /\ r[k] \in Contest!InContest
    BY DEF RankedBy
  <2>2. PICK j \in 1..n : s[j] = r[k]
    BY <2>1
  <2> QED BY <2>1, <2>2
<1>4. \A i \in 1..n : f(i) \in Nat /\ f(i) + 1 \in 1..Len(r)
  <2> SUFFICES ASSUME NEW i \in 1..n PROVE f(i) \in Nat /\ f(i) + 1 \in 1..Len(r)
    OBVIOUS
  <2> PICK k \in 1..Len(r) : f(i) = k - 1
    BY <1>1
  <2> QED BY <1>0
<1>5. \A i, j \in 1..n : i < j => f(i) <= f(j)
  OBVIOUS
<1> HIDE DEF f
<1>6. Bad \subseteq Nat
  BY <1>0
<1>7. PICK i \in Bad : \A x \in Bad : i <= x
  <2> HIDE DEF Bad
  <2> QED BY <1>6, LeastNumber
<1>8. i \in 1..n /\ f(i) # i - 1 /\ \A j \in 1..n : j < i => f(j) = j - 1
  BY <1>0, <1>7
<1>9. ~(f(i) < i - 1)
  <2> SUFFICES ASSUME f(i) < i - 1 PROVE FALSE
    OBVIOUS
  <2> DEFINE j == f(i) + 1
  <2>1. j \in 1..n /\ j < i
    BY <1>0, <1>4, <1>8
  <2>2. f(j) = j - 1
    BY <1>8, <2>1
  <2>3. f(j) = f(i)
    BY <1>4, <1>8, <2>2
  <2>4. j = i
    BY <1>2, <1>8, <2>1, <2>3
  <2>5. i \in Int
    BY <1>0, <1>8
  <2> HIDE DEF j
  <2> QED BY <2>1, <2>4, <2>5
<1>10. f(i) > i - 1
  <2>1. f(i) \in Nat /\ i \in Int /\ f(i) # i - 1
    BY <1>0, <1>4, <1>8
  <2> QED BY <1>9, <2>1
<1>11. i \in 1..Len(r)
  BY <1>0, <1>4, <1>8, <1>10
<1>12. PICK k \in 1..n : f(k) = i - 1
  BY <1>3, <1>11
<1>13. ~(k < i)
  BY <1>0, <1>8, <1>12
<1>14. k # i
  BY <1>8, <1>12
<1>15. f(i) <= f(k)
  BY <1>0, <1>5, <1>8, <1>13, <1>14
<1> QED BY <1>0, <1>4, <1>8, <1>10, <1>12, <1>15

\* The list with which the form opens has the problems of the contest in order.
LEMMA EditGrid ==
    ASSUME ContestTyped, Contest!edit
    PROVE  /\ problemsDataSet' \in Seq(Contest!GridRow)
           /\ (\E r : RankedBy(r)) => Ordered(problemsDataSet')
<1> DEFINE Row(p) == [mark |-> cp[p].mark, order |-> cp[p].order,
                      problem |-> p, cost |-> cp[p].cost]
<1>1. PICK s \in Contest!SetToAllKPermutations(Contest!InContest) :
         /\ Contest!ByOrder(s)
         /\ problemsDataSet' = [i \in DOMAIN s |-> Row(s[i])]
  BY DEF Contest!edit, problemsDataSet, cp
<1>2. PICK S \in SUBSET Contest!InContest : s \in Contest!SetToSeqs(S)
  BY <1>1 DEF Contest!SetToAllKPermutations
<1>3. S \subseteq ContestProblems /\ IsFiniteSet(S)
  BY <1>2, ContestAssumption, FS_Subset DEF Contest!InContest
<1>4. s \in [1..Cardinality(S) -> S] /\ Distinct(s) /\ Cardinality(S) \in Nat
  BY <1>2, <1>3, FS_CardinalityType
     DEF Contest!SetToSeqs, Distinct, Contest!Cardinality, Cardinality
<1>5. s \in Seq(ContestProblems) /\ DOMAIN s = 1..Len(s)
  BY <1>3, <1>4
<1>6. \A p : p \in Contest!InContest <=> \E i \in 1..Len(s) : s[i] = p
  BY <1>1, <1>5 DEF Contest!ByOrder, Contest!ToSet
<1>7. \A i, j \in 1..Len(s) : i < j => cp[s[i]].order <= cp[s[j]].order
  BY <1>1, <1>5 DEF Contest!ByOrder, cp
<1>8. \A i \in 1..Len(s) : s[i] \in ContestProblems /\ cp[s[i]] \in Contest!ContestProblem
  <2> SUFFICES ASSUME NEW i \in 1..Len(s)
               PROVE  s[i] \in ContestProblems /\ cp[s[i]] \in Contest!ContestProblem
    OBVIOUS
  <2>1. s[i] \in ContestProblems
    BY <1>5
  <2>2. cp[s[i]] # Contest!NaNRow
    BY <1>6 DEF Contest!InContest, cp
  <2> QED BY <2>1, <2>2, ContestTypes
<1>9. \A i \in 1..Len(s) : /\ Row(s[i]) \in Contest!GridRow
                           /\ Row(s[i]).mark = cp[s[i]].mark
                           /\ Row(s[i]).order = cp[s[i]].order
  BY <1>8 DEF Contest!ContestProblem, Contest!GridRow
<1> HIDE DEF Row
<1>10. problemsDataSet' \in [1..Len(s) -> Contest!GridRow]
  BY <1>1, <1>5, <1>9
<1>11. Len(s) \in Nat
  BY <1>5
<1>12. problemsDataSet' \in Seq(Contest!GridRow) /\ Len(problemsDataSet') = Len(s)
  BY <1>10, <1>11
<1>13. ASSUME NEW r, RankedBy(r) PROVE Ordered(problemsDataSet')
  <2>1. \A i \in 1..Len(s) : cp[s[i]].order = i - 1
    BY <1>4, <1>5, <1>6, <1>7, <1>13, SortedIsRanked
  <2>2. \A i \in 1..Len(s) : cp[s[i]].mark = cp[s[i]].order
    <3> SUFFICES ASSUME NEW i \in 1..Len(s) PROVE cp[s[i]].mark = cp[s[i]].order
      OBVIOUS
    <3>1. PICK k \in 1..Len(r) : r[k] = s[i]
      BY <1>6, <1>13 DEF RankedBy
    <3> QED BY <1>13, <3>1 DEF RankedBy
  <2>3. \A i \in 1..Len(s) : problemsDataSet'[i] = Row(s[i])
    BY <1>1, <1>5
  <2> QED BY <1>9, <1>12, <2>1, <2>2, <2>3 DEF Ordered
<1> QED BY <1>12, <1>13

\* Contest!InContest depends on the rows of contest_problems only.
LEMMA RankedStays ==
    ASSUME UNCHANGED cp, NEW r, RankedBy(r)
    PROVE  RankedBy(r)'
<1>1. UNCHANGED w2
  BY DEF cp
<1>2. Contest!InContest' = Contest!InContest
  BY <1>1 DEF Contest!InContest
<1> QED BY <1>2 DEF RankedBy

\* What a row of the list is saved as.
SavedAs(g) == [order |-> g.order, mark |-> g.mark, cost |-> g.cost]

\* What is saved of a list: rows of its problems and no others.
LEMMA RowsSaved ==
    ASSUME NEW grid \in Seq(Contest!GridRow), NEW rows \in Contest!RowsOf(grid)
    PROVE  /\ rows \in [ContestProblems -> Contest!ContestProblem \cup {Contest!NaNRow}]
           /\ \A p \in ContestProblems :
                 \/ rows[p] = Contest!NaNRow /\ \A i \in 1..Len(grid) : grid[i].problem # p
                 \/ \E i \in 1..Len(grid) : grid[i].problem = p /\ rows[p] = SavedAs(grid[i])
<1>1. Contest!ToSet(grid) = {grid[i] : i \in 1..Len(grid)}
  BY DEF Contest!ToSet
<1>2. \A i \in 1..Len(grid) : SavedAs(grid[i]) \in Contest!ContestProblem
  <2>1. \A g \in Contest!GridRow : SavedAs(g) \in Contest!ContestProblem
    BY DEF SavedAs, Contest!GridRow, Contest!ContestProblem
  <2> QED BY <2>1
<1>3. \A g \in Contest!ToSet(grid) : SavedAs(g) \in Contest!ContestProblem
  BY <1>1, <1>2
<1>4. /\ rows \in [ContestProblems ->
                {Contest!NaNRow} \cup {SavedAs(g) : g \in Contest!ToSet(grid)}]
      /\ \A p \in ContestProblems :
            LET own == {g \in Contest!ToSet(grid) : g.problem = p}
            IN  IF own = {} THEN rows[p] = Contest!NaNRow
                ELSE \E g \in own : rows[p] = SavedAs(g)
  BY DEF Contest!RowsOf, SavedAs
<1>5. rows \in [ContestProblems -> Contest!ContestProblem \cup {Contest!NaNRow}]
  BY <1>3, <1>4
<1>6. ASSUME NEW p \in ContestProblems
      PROVE  \/ rows[p] = Contest!NaNRow /\ \A i \in 1..Len(grid) : grid[i].problem # p
             \/ \E i \in 1..Len(grid) : grid[i].problem = p /\ rows[p] = SavedAs(grid[i])
  BY <1>1, <1>4
<1> QED BY <1>5, <1>6

\* A save that goes through gives the contest the problems of the list, in the
\* order of the list.
LEMMA SaveRanked ==
    ASSUME ContestTyped, Contest!submitEdit, Ordered(problemsDataSet),
           ~Contest!Twice(problemsDataSet), \E r : RankedBy(r)
    PROVE  \E r : RankedBy(r)'
<1>1. CASE UNCHANGED cp
  BY <1>1, RankedStays
<1>2. CASE ~UNCHANGED cp
  <2> DEFINE n == Len(problemsDataSet)
             s == [i \in 1..n |-> problemsDataSet[i].problem]
  <2>1. PICK rows \in Contest!RowsOf(problemsDataSet) : cp' = rows
    BY <1>2 DEF Contest!submitEdit, Contest!modifyContest, Contest!tables, cp,
                problemsDataSet
  <2>2. Contest!Parses(problemsDataSet) /\ Contest!Lets(problemsDataSet)
    BY <1>2 DEF Contest!submitEdit, Contest!tables, cp, problemsDataSet
  <2>3. problemsDataSet \in Seq(Contest!GridRow) /\ n \in Nat
    BY ContestTypes
  <2>4. \A i \in 1..n : /\ problemsDataSet[i] \in Contest!GridRow
                        /\ problemsDataSet[i] \in Contest!ToSet(problemsDataSet)
    BY <2>3 DEF Contest!ToSet
  <2>5. \A i \in 1..n : /\ problemsDataSet[i].problem \in ContestProblems
                        /\ problemsDataSet[i].cost # None
    BY <2>2, <2>4 DEF Contest!Lets, Contest!Parses, Contest!GridRow
  <2>6. \A i, j \in 1..n : problemsDataSet[i].problem = problemsDataSet[j].problem => i = j
    BY <2>3 DEF Contest!Twice
  <2>7. s \in Seq(ContestProblems) /\ Len(s) = n /\ DOMAIN s = 1..n /\ Distinct(s)
    <3>1. s \in [1..n -> ContestProblems]
      BY <2>5
    <3>2. Distinct(s)
      BY <2>6 DEF Distinct
    <3> HIDE DEF s
    <3> QED BY <2>3, <3>1, <3>2
  <2>8. ASSUME NEW i \in 1..n
        PROVE  rows[s[i]] = SavedAs(problemsDataSet[i])
    <3>1. PICK j \in 1..n : /\ problemsDataSet[j].problem = s[i]
                            /\ rows[s[i]] = SavedAs(problemsDataSet[j])
      BY <2>3, <2>5, RowsSaved
    <3>2. j = i
      BY <2>6, <3>1
    <3> QED BY <3>1, <3>2
  <2>9. \A i \in 1..n : /\ rows[s[i]] # Contest!NaNRow
                        /\ rows[s[i]].order = i - 1 /\ rows[s[i]].mark = i - 1
    <3> SUFFICES ASSUME NEW i \in 1..n
                 PROVE  /\ rows[s[i]] # Contest!NaNRow
                        /\ rows[s[i]].order = i - 1 /\ rows[s[i]].mark = i - 1
      OBVIOUS
    <3>1. rows[s[i]] = SavedAs(problemsDataSet[i])
      BY <2>8
    <3>2. problemsDataSet[i].order = i - 1 /\ problemsDataSet[i].mark = i - 1
      BY DEF Ordered
    <3>3. problemsDataSet[i].cost # None
      BY <2>5
    <3>4. SavedAs(problemsDataSet[i]) # Contest!NaNRow
      BY <3>3 DEF SavedAs, Contest!NaNRow
    <3> HIDE DEF s
    <3> QED BY <3>1, <3>2, <3>4 DEF SavedAs
  <2>10. \A p : p \in Contest!InContest' <=> \E i \in 1..n : s[i] = p
    <3> SUFFICES ASSUME NEW p PROVE p \in Contest!InContest' <=> \E i \in 1..n : s[i] = p
      OBVIOUS
    <3>1. p \in Contest!InContest' <=> p \in ContestProblems /\ rows[p] # Contest!NaNRow
      BY <2>1 DEF Contest!InContest, cp, Contest!NaNRow
    <3>2. ASSUME p \in ContestProblems, rows[p] # Contest!NaNRow
          PROVE  \E i \in 1..n : s[i] = p
      BY <2>3, <3>2, RowsSaved
    <3>3. ASSUME NEW i \in 1..n, s[i] = p
          PROVE  p \in ContestProblems /\ rows[p] # Contest!NaNRow
      BY <2>5, <2>9, <3>3
    <3> QED BY <3>1, <3>2, <3>3
  <2> HIDE DEF s
  <2> QED BY <2>1, <2>7, <2>9, <2>10 DEF RankedBy
<1> QED BY <1>1, <1>2

\* At first the contest has the problems it is given.
LEMMA FirstRanked ==
    ASSUME Contest!Init
    PROVE  RankedBy(FirstProblems)
<1> DEFINE First(i) == [order |-> i - 1, mark |-> i - 1, cost |-> 1]
           At1(p) == CHOOSE i \in DOMAIN FirstProblems : FirstProblems[i] = p
<1>1. /\ FirstProblems \in Seq(ContestProblems) /\ Distinct(FirstProblems)
      /\ DOMAIN FirstProblems = 1..Len(FirstProblems)
  BY ContestAssumption DEF Distinct
<1>2. cp = [p \in ContestProblems |->
              IF Contest!Contains(FirstProblems, p) THEN First(At1(p)) ELSE Contest!NaNRow]
  BY DEF Contest!Init, cp
<1>3. \A p : Contest!Contains(FirstProblems, p) <=>
              \E i \in 1..Len(FirstProblems) : FirstProblems[i] = p
  BY DEF Contest!Contains
<1>4. \A i : First(i) # Contest!NaNRow /\ First(i).order = i - 1 /\ First(i).mark = i - 1
  BY ContestAssumption DEF Contest!NaNRow
<1> HIDE DEF First
<1>5. ASSUME NEW i \in 1..Len(FirstProblems)
      PROVE  At1(FirstProblems[i]) = i /\ FirstProblems[i] \in ContestProblems
  BY <1>1 DEF Distinct
<1> HIDE DEF At1
<1>6. \A i \in 1..Len(FirstProblems) : cp[FirstProblems[i]] = First(i)
  BY <1>2, <1>3, <1>5
<1>7. \A p : p \in Contest!InContest <=> \E i \in 1..Len(FirstProblems) : FirstProblems[i] = p
  <2>1. \A p \in ContestProblems : cp[p] # Contest!NaNRow <=> Contest!Contains(FirstProblems, p)
    BY <1>2, <1>4
  <2>2. \A p : p \in Contest!InContest <=> p \in ContestProblems /\ cp[p] # Contest!NaNRow
    BY DEF Contest!InContest, cp
  <2> QED BY <1>3, <1>5, <2>1, <2>2
<1> QED BY <1>1, <1>4, <1>6, <1>7 DEF RankedBy

\* The marks of a ranked contest follow.
LEMMA RankedMarks ==
    ASSUME NEW r, RankedBy(r), NEW p \in Contest!InContest
    PROVE  /\ cp[p].mark = cp[p].order
           /\ cp[p].mark = Cardinality({q \in Contest!InContest : cp[q].order < cp[p].order})
           /\ \A q \in Contest!InContest : cp[q].mark = cp[p].mark => q = p
<1> DEFINE n == Len(r)
           Before == {q \in Contest!InContest : cp[q].order < cp[p].order}
<1>1. r \in Seq(ContestProblems) /\ DOMAIN r = 1..n /\ n \in Nat /\ Distinct(r)
  BY DEF RankedBy
<1>2. PICK k \in 1..n : r[k] = p
  BY DEF RankedBy
<1>3. cp[p].order = k - 1 /\ cp[p].mark = k - 1
  BY <1>2 DEF RankedBy
<1>4. ASSUME NEW q \in Contest!InContest
      PROVE  \E i \in 1..n : r[i] = q /\ cp[q].order = i - 1 /\ cp[q].mark = i - 1
  BY DEF RankedBy
<1>5. ASSUME NEW q \in Contest!InContest, cp[q].mark = cp[p].mark
      PROVE  q = p
  <2> PICK i \in 1..n : r[i] = q /\ cp[q].mark = i - 1
    BY <1>4
  <2>1. i - 1 = k - 1
    BY <1>3, <1>5
  <2>2. i = k
    BY <1>1, <2>1
  <2> QED BY <1>2, <2>2
<1>6. Cardinality(Before) = k - 1
  <2> DEFINE f == [i \in 1..(k - 1) |-> r[i]]
  <2>1. ASSUME NEW i \in 1..(k - 1)
        PROVE  i \in 1..n /\ r[i] \in Contest!InContest /\ cp[r[i]].order = i - 1
    <3>1. i \in 1..n
      BY <1>1
    <3> QED BY <3>1 DEF RankedBy
  <2>2. \A i \in 1..(k - 1) : r[i] \in Before
    BY <1>1, <1>3, <2>1
  <2>3. ASSUME NEW q \in Before PROVE \E i \in 1..(k - 1) : r[i] = q
    <3>1. PICK i \in 1..n : r[i] = q /\ cp[q].order = i - 1
      BY <1>4
    <3>2. cp[q].order < cp[p].order
      OBVIOUS
    <3>3. i - 1 < k - 1
      BY <1>3, <3>1, <3>2
    <3> QED BY <1>1, <3>1, <3>3
  <2>4. \A i, j \in 1..(k - 1) : r[i] = r[j] => i = j
    BY <1>1, <2>1 DEF Distinct
  <2> HIDE DEF Before
  <2>5. f \in Bijection(1..(k - 1), Before)
    <3>1. /\ f \in [1..(k - 1) -> Before] /\ DOMAIN f = 1..(k - 1)
          /\ \A i \in 1..(k - 1) : f[i] = r[i]
      BY <2>2
    <3> HIDE DEF f
    <3> DEFINE D == 1..(k - 1)
    <3>2. \A i, j \in D : f[i] = f[j] => i = j
      BY <2>4, <3>1
    <3>3. \A q \in Before : \E i \in D : f[i] = q
      BY <2>3, <3>1
    <3>4. f \in [D -> Before]
      BY <3>1
    <3> HIDE DEF D
    <3>5. f \in Injection(D, Before)
      BY <3>2, <3>4 DEF Injection, IsInjective
    <3>6. f \in Surjection(D, Before)
      BY <3>3, <3>4 DEF Surjection
    <3> QED BY <3>5, <3>6 DEF Bijection, D
  <2>6. IsFiniteSet(1..(k - 1)) /\ Cardinality(1..(k - 1)) = k - 1
    <3>1. k - 1 \in Int /\ k - 1 >= 0
      BY <1>1
    <3> QED BY <3>1, FS_Interval
  <2> QED BY <2>5, <2>6, FS_Bijection DEF ExistsBijection
<1> QED BY <1>3, <1>5, <1>6

-----------------------------------------------------------------------------
(* The form's lists of roles and applications.                              *)

Has(s, u) == \E k \in 1..Len(s) : s[k] = u

\* A user who is accepted is added, if not in the list yet.
LEMMA UserAdded ==
    ASSUME usersDataSet \in Seq(Contest!Users), Distinct(usersDataSet),
           NEW u \in Contest!Users,
           usersDataSet' = IF Contest!InGrid(u) = 0 THEN Append(usersDataSet, u)
                           ELSE usersDataSet
    PROVE  /\ usersDataSet' \in Seq(Contest!Users) /\ Distinct(usersDataSet')
           /\ \A v : Has(usersDataSet', v) <=> Has(usersDataSet, v) \/ v = u
<1> DEFINE n == Len(usersDataSet)
<1>1. n \in Nat /\ DOMAIN usersDataSet = 1..n
  OBVIOUS
<1>2. Contest!InGrid(u) # 0 <=> Has(usersDataSet, u)
  BY <1>1, Found DEF Has
<1>3. CASE Contest!InGrid(u) # 0
  BY <1>2, <1>3 DEF Has
<1>4. CASE Contest!InGrid(u) = 0
  <2>1. usersDataSet' = Append(usersDataSet, u)
    BY <1>4
  <2>2. /\ usersDataSet' \in Seq(Contest!Users) /\ Len(usersDataSet') = n + 1
        /\ usersDataSet'[n + 1] = u /\ DOMAIN usersDataSet' = 1..(n + 1)
        /\ \A k \in 1..n : usersDataSet'[k] = usersDataSet[k]
    BY <2>1
  <2>3. \A k \in 1..n : usersDataSet[k] # u
    BY <1>2, <1>4 DEF Has
  <2>4. ASSUME NEW i \in 1..(n + 1), NEW j \in 1..(n + 1), usersDataSet'[i] = usersDataSet'[j]
        PROVE  i = j
    <3>1. (i \in 1..n \/ i = n + 1) /\ (j \in 1..n \/ j = n + 1)
      BY <1>1
    <3>2. CASE i \in 1..n /\ j \in 1..n
      BY <1>1, <2>2, <2>4, <3>2 DEF Distinct
    <3>3. CASE i = n + 1 /\ j = n + 1
      BY <3>3
    <3>4. CASE i = n + 1 /\ j \in 1..n
      BY <2>2, <2>3, <2>4, <3>4
    <3>5. CASE j = n + 1 /\ i \in 1..n
      BY <2>2, <2>3, <2>4, <3>5
    <3> QED BY <3>1, <3>2, <3>3, <3>4, <3>5
  <2>5. ASSUME NEW v PROVE Has(usersDataSet', v) <=> Has(usersDataSet, v) \/ v = u
    <3>1. \A k : k \in 1..(n + 1) <=> k \in 1..n \/ k = n + 1
      BY <1>1
    <3> QED BY <2>2, <3>1 DEF Has
  <2> QED BY <2>2, <2>4, <2>5 DEF Distinct
<1> QED BY <1>3, <1>4

\* A user who is declined is taken out, if in the list.
LEMMA UserRemoved ==
    ASSUME usersDataSet \in Seq(Contest!Users), Distinct(usersDataSet),
           NEW u \in Contest!Users,
           usersDataSet' = IF Contest!InGrid(u) = 0 THEN usersDataSet
                           ELSE Contest!RemoveAt(usersDataSet, Contest!InGrid(u))
    PROVE  /\ usersDataSet' \in Seq(Contest!Users) /\ Distinct(usersDataSet')
           /\ \A v : Has(usersDataSet', v) <=> Has(usersDataSet, v) /\ v # u
<1> DEFINE n == Len(usersDataSet)
           at == Contest!InGrid(u)
<1>1. n \in Nat /\ DOMAIN usersDataSet = 1..n
  OBVIOUS
<1>2. /\ at # 0 <=> Has(usersDataSet, u)
      /\ at # 0 => at \in 1..n /\ usersDataSet[at] = u
  BY <1>1, Found DEF Has
<1>3. CASE at = 0
  BY <1>2, <1>3 DEF Has
<1>4. CASE at # 0
  <2>1. usersDataSet' = Contest!RemoveAt(usersDataSet, at)
    BY <1>4
  <2> HIDE DEF at
  <2>2. /\ usersDataSet' \in Seq(Contest!Users) /\ Len(usersDataSet') = n - 1
        /\ \A j \in 1..(n - 1) : usersDataSet'[j] =
              IF j < at THEN usersDataSet[j] ELSE usersDataSet[j + 1]
    BY <1>2, <1>4, <2>1, Removed
  <2> DEFINE o(j) == IF j < at THEN j ELSE j + 1
  <2>3. \A j \in 1..(n - 1) : /\ o(j) \in 1..n /\ o(j) # at
                              /\ usersDataSet'[j] = usersDataSet[o(j)]
    <3> SUFFICES ASSUME NEW j \in 1..(n - 1)
                 PROVE  /\ o(j) \in 1..n /\ o(j) # at
                        /\ usersDataSet'[j] = usersDataSet[o(j)]
      OBVIOUS
    <3>1. at \in 1..n
      BY <1>2, <1>4
    <3>2. o(j) \in 1..n /\ o(j) # at
      BY <1>1, <3>1
    <3> QED BY <2>2, <3>2
  <2>4. \A i, j \in 1..(n - 1) : o(i) = o(j) => i = j
    BY <1>1, <1>2, <1>4
  <2>5. \A k \in 1..n : k # at => \E j \in 1..(n - 1) : o(j) = k
    <3> SUFFICES ASSUME NEW k \in 1..n, k # at PROVE \E j \in 1..(n - 1) : o(j) = k
      OBVIOUS
    <3>0. at \in 1..n
      BY <1>2, <1>4
    <3>1. CASE k < at
      <4>1. k \in 1..(n - 1) /\ o(k) = k
        BY <1>1, <3>0, <3>1
      <4> QED BY <4>1
    <3>2. CASE k > at
      <4>1. k - 1 \in 1..(n - 1) /\ o(k - 1) = k
        BY <1>1, <3>0, <3>2
      <4> QED BY <4>1
    <3> QED BY <1>1, <3>0, <3>1, <3>2
  <2> HIDE DEF o
  <2>6. DOMAIN usersDataSet' = 1..(n - 1)
    BY <2>2
  <2>7. Distinct(usersDataSet')
    BY <1>1, <2>3, <2>4, <2>6 DEF Distinct
  <2>8. ASSUME NEW v PROVE Has(usersDataSet', v) <=> Has(usersDataSet, v) /\ v # u
    <3>1. ASSUME NEW j \in 1..(n - 1), usersDataSet'[j] = v
          PROVE  Has(usersDataSet, v) /\ v # u
      <4>1. usersDataSet[o(j)] = v /\ o(j) \in 1..n /\ o(j) # at
        BY <2>3, <3>1
      <4>2. v = u => o(j) = at
        BY <1>1, <1>2, <1>4, <4>1 DEF Distinct
      <4> QED BY <4>1, <4>2 DEF Has
    <3>2. ASSUME NEW k \in 1..n, usersDataSet[k] = v, v # u
          PROVE  Has(usersDataSet', v)
      <4>1. k # at
        BY <1>2, <1>4, <3>2
      <4>2. PICK j \in 1..(n - 1) : o(j) = k
        BY <2>5, <4>1
      <4> QED BY <2>2, <2>3, <3>2, <4>2 DEF Has
    <3> QED BY <2>2, <3>1, <3>2 DEF Has
  <2> QED BY <2>2, <2>7, <2>8
<1> QED BY <1>3, <1>4

\* A decision changes the status of one application.
LEMMA StatusSet ==
    ASSUME applicationsDataSet \in Seq(Application),
           NEW i \in DOMAIN applicationsDataSet,
           NEW st \in {"NEW", "ACCEPTED", "DECLINED"},
           applicationsDataSet' = Contest!WithStatus(i, st)
    PROVE  /\ applicationsDataSet' \in Seq(Application)
           /\ Len(applicationsDataSet') = Len(applicationsDataSet)
           /\ i \in 1..Len(applicationsDataSet)
           /\ applicationsDataSet[i].login \in Contestants
           /\ applicationsDataSet'[i].status = st
           /\ \A j \in 1..Len(applicationsDataSet) :
                 /\ applicationsDataSet'[j].login = applicationsDataSet[j].login
                 /\ j # i => applicationsDataSet'[j] = applicationsDataSet[j]
<1> DEFINE n == Len(applicationsDataSet)
           a == [applicationsDataSet[i] EXCEPT !.status = st]
<1>1. n \in Nat /\ DOMAIN applicationsDataSet = 1..n /\ i \in 1..n
  OBVIOUS
<1>2. applicationsDataSet[i] \in Application
  OBVIOUS
<1>3. applicationsDataSet' = [applicationsDataSet EXCEPT ![i] = a]
  BY DEF Contest!WithStatus, applicationsDataSet
<1>4. /\ a \in Application /\ a.status = st /\ a.login = applicationsDataSet[i].login
      /\ applicationsDataSet[i].login \in Contestants
  BY <1>2 DEF Application
<1> HIDE DEF a
<1>5. /\ applicationsDataSet' \in [1..n -> Application]
      /\ applicationsDataSet'[i] = a
      /\ \A j \in 1..n : j # i => applicationsDataSet'[j] = applicationsDataSet[j]
  BY <1>1, <1>3, <1>4
<1>6. applicationsDataSet' \in Seq(Application) /\ Len(applicationsDataSet') = n
  BY <1>1, <1>5
<1> QED BY <1>1, <1>4, <1>5, <1>6

-----------------------------------------------------------------------------
(* The invariant of the form.                                               *)

\* The decisions shown are the ones made.
Decided ==
    /\ Distinct(usersDataSet)
    /\ \A i, j \in 1..Len(applicationsDataSet) :
          applicationsDataSet[i].login = applicationsDataSet[j].login => i = j
    /\ \A i \in 1..Len(applicationsDataSet) :
          LET a == applicationsDataSet[i]
          IN  /\ a.status = "ACCEPTED" => Has(usersDataSet, a.login)
              /\ a.status = "DECLINED" => ~Has(usersDataSet, a.login)

\* Who had a role when the form was opened is in its list, unless declined.
SeenKept == form => \A u \in seen : u \in declined \/ Has(usersDataSet, u)

ContestInv ==
    /\ ContestTyped
    /\ muddled \/ \E r : RankedBy(r)
    /\ muddled \/ Ordered(problemsDataSet)
    /\ Decided
    /\ SeenKept

\* What depends on the lists of roles and applications alone stays with them.
LEMMA ListsStay ==
    ASSUME UNCHANGED <<form, usersDataSet, applicationsDataSet, seen, declined>>,
           Decided, SeenKept
    PROVE  Decided' /\ SeenKept'
  BY DEF Decided, SeenKept, Distinct, Has

\* A change of the list of problems that keeps its order, or is remembered as
\* one that does not.
LEMMA GridKeeps ==
    ASSUME ContestInv,
           UNCHANGED <<openContest, cp, roles, applied, settings, form, usersDataSet,
                       applicationsDataSet, joins, dealtWith, forms, seen, declined>>,
           problemsDataSet' \in Seq(Contest!GridRow), muddled' \in BOOLEAN,
           \/ muddled'
           \/ /\ UNCHANGED muddled
              /\ Ordered(problemsDataSet) => Ordered(problemsDataSet')
    PROVE  ContestInv'
<1>1. ContestTyped'
  <2>1. /\ openContest' \in BOOLEAN /\ form' \in BOOLEAN
        /\ cp' \in [ContestProblems -> Contest!ContestProblem \cup {Contest!NaNRow}]
        /\ roles' \subseteq Contest!Users /\ applied' \subseteq Contestants
        /\ settings' \in 0..MaxForms /\ forms' \in 0..MaxForms /\ settings' <= forms'
        /\ NotAhead(joins', forms')
        /\ usersDataSet' \in Seq(Contest!Users)
        /\ applicationsDataSet' \in Seq(Application)
        /\ joins' \in [Contestants -> Seq(Reading)]
        /\ \A u \in Contestants : Len(joins'[u]) <= 1
        /\ dealtWith' \subseteq Contestants /\ declined' \subseteq Contestants
        /\ seen' \subseteq Contest!Users
    BY ContestTypes DEF ContestInv
  <2> QED BY <2>1, ContestTypesNext
<1>2. (muddled \/ \E r : RankedBy(r)) /\ UNCHANGED muddled => (muddled \/ \E r : RankedBy(r))'
  BY RankedStays
<1>3. muddled' => (muddled \/ \E r : RankedBy(r))' /\ (muddled \/ Ordered(problemsDataSet))'
  OBVIOUS
<1>4. Decided' /\ SeenKept'
  BY ListsStay DEF ContestInv
<1> QED BY <1>1, <1>2, <1>3, <1>4 DEF ContestInv

\* A click in the list of problems.
LEMMA ProblemsClicked ==
    ASSUME ContestInv,
           \/ Contest!addProblem
           \/ \E i \in DOMAIN problemsDataSet :
                 \/ Contest!buttonDown(i) \/ Contest!buttonUp(i) \/ Contest!deleteButton(i)
                 \/ \E p \in ContestProblems : Contest!selectProblem(i, p)
                 \/ \E x \in {1, None} : Contest!problem_cost(i, x)
    PROVE  ContestInv'
<1>1. Contest!GridChange
  BY DEF Contest!addProblem, Contest!buttonDown, Contest!buttonUp, Contest!deleteButton,
         Contest!selectProblem, Contest!problem_cost
<1>2. UNCHANGED <<openContest, cp, roles, applied, settings, form, usersDataSet,
                  applicationsDataSet, joins, dealtWith, forms, seen, declined>>
  BY <1>1 DEF Contest!GridChange, Contest!Click, Contest!tables, openContest, cp, roles,
     applied, settings, form, usersDataSet, applicationsDataSet, joins, dealtWith, forms,
     seen, declined
<1>3. ContestTyped /\ muddled \in BOOLEAN
  BY ContestTypes DEF ContestInv
<1>4. CASE Contest!addProblem
  <2>1. UNCHANGED muddled
    BY <1>4 DEF Contest!addProblem, muddled
  <2> QED BY <1>2, <1>3, <1>4, <2>1, AddProblemGrid, GridKeeps
<1>5. ASSUME NEW i \in DOMAIN problemsDataSet, Contest!buttonDown(i)
      PROVE  ContestInv'
  <2>1. UNCHANGED muddled
    BY <1>5 DEF Contest!buttonDown, muddled
  <2> QED BY <1>2, <1>3, <1>5, <2>1, DownGrid, GridKeeps
<1>6. ASSUME NEW i \in DOMAIN problemsDataSet, Contest!buttonUp(i)
      PROVE  ContestInv'
  <2>1. muddled' = TRUE
    BY <1>6 DEF Contest!buttonUp, muddled
  <2> QED BY <1>2, <1>3, <1>6, <2>1, UpGrid, GridKeeps
<1>7. ASSUME NEW i \in DOMAIN problemsDataSet, Contest!deleteButton(i)
      PROVE  ContestInv'
  <2>1. UNCHANGED muddled
    BY <1>7 DEF Contest!deleteButton, muddled
  <2> QED BY <1>2, <1>3, <1>7, <2>1, DeleteGrid, GridKeeps
<1>8. ASSUME NEW i \in DOMAIN problemsDataSet,
             \/ \E p \in ContestProblems : Contest!selectProblem(i, p)
             \/ \E x \in {1, None} : Contest!problem_cost(i, x)
      PROVE  ContestInv'
  <2>1. UNCHANGED muddled
    BY <1>8 DEF Contest!selectProblem, Contest!problem_cost, muddled
  <2> QED BY <1>2, <1>3, <1>8, <2>1, FieldGrid, GridKeeps
<1> QED BY <1>4, <1>5, <1>6, <1>7, <1>8

\* A decision on an application.
LEMMA ApplicationClicked ==
    ASSUME ContestInv, NEW i \in DOMAIN applicationsDataSet,
           Contest!acceptButton(i) \/ Contest!declineButton(i)
    PROVE  ContestInv'
<1> DEFINE u == applicationsDataSet[i].login
           n == Len(applicationsDataSet)
<1>1. Contest!Click /\ UNCHANGED <<problemsDataSet, muddled>>
  BY DEF Contest!acceptButton, Contest!declineButton, problemsDataSet, muddled
<1>2. UNCHANGED <<openContest, cp, roles, applied, settings, form, problemsDataSet,
                  joins, dealtWith, forms, seen, muddled>>
  BY <1>1 DEF Contest!Click, Contest!tables, openContest, cp, roles,
     applied, settings, form, joins, dealtWith, forms, seen
<1>3. ContestTyped
  BY DEF ContestInv
<1>4. /\ applicationsDataSet \in Seq(Application) /\ usersDataSet \in Seq(Contest!Users)
      /\ Distinct(usersDataSet)
  BY <1>3, ContestTypes DEF ContestInv, Decided
<1>5. u \in Contestants /\ u \in Contest!Users /\ i \in 1..n
  <2>1. i \in 1..n /\ applicationsDataSet[i] \in Application
    BY <1>4
  <2>2. u \in Contestants
    BY <2>1 DEF Application
  <2> QED BY <2>1, <2>2 DEF Contest!Users
<1>6. \A j \in 1..n : applicationsDataSet[j].login = u => j = i
  BY <1>5 DEF ContestInv, Decided
<1>7. /\ applicationsDataSet' \in Seq(Application)
      /\ usersDataSet' \in Seq(Contest!Users)
      /\ declined' \subseteq Contestants
      /\ Decided' /\ SeenKept'
  <2>1. CASE Contest!acceptButton(i)
    <3>1. /\ applicationsDataSet' = Contest!WithStatus(i, "ACCEPTED")
          /\ usersDataSet' = IF Contest!InGrid(u) = 0 THEN Append(usersDataSet, u)
                             ELSE usersDataSet
          /\ UNCHANGED declined
      BY <2>1 DEF Contest!acceptButton, applicationsDataSet, usersDataSet, declined
    <3>2. /\ applicationsDataSet' \in Seq(Application)
          /\ Len(applicationsDataSet') = n
          /\ applicationsDataSet'[i].status = "ACCEPTED"
          /\ \A j \in 1..n :
                /\ applicationsDataSet'[j].login = applicationsDataSet[j].login
                /\ j # i => applicationsDataSet'[j] = applicationsDataSet[j]
      BY <1>4, <3>1, StatusSet
    <3>3. /\ usersDataSet' \in Seq(Contest!Users) /\ Distinct(usersDataSet')
          /\ \A v : Has(usersDataSet', v) <=> Has(usersDataSet, v) \/ v = u
      BY <1>4, <1>5, <3>1, UserAdded
    <3>4. Decided'
      <4>1. \A j \in 1..n : j # i => applicationsDataSet[j].login # u
        BY <1>6
      <4>2. ASSUME NEW j \in 1..n
            PROVE  LET a == applicationsDataSet'[j]
                   IN  /\ a.status = "ACCEPTED" => Has(usersDataSet', a.login)
                       /\ a.status = "DECLINED" => ~Has(usersDataSet', a.login)
        <5>1. CASE j = i
          BY <3>2, <3>3, <5>1
        <5>2. CASE j # i
          BY <3>2, <3>3, <4>1, <5>2 DEF ContestInv, Decided
        <5> QED BY <5>1, <5>2
      <4>3. \A j, k \in 1..n :
               applicationsDataSet'[j].login = applicationsDataSet'[k].login => j = k
        BY <3>2 DEF ContestInv, Decided
      <4> QED BY <3>2, <3>3, <4>2, <4>3 DEF Decided
    <3>5. SeenKept'
      BY <1>2, <3>1, <3>3 DEF ContestInv, SeenKept
    <3>6. declined' \subseteq Contestants
      BY <1>3, <3>1, ContestTypes
    <3> QED BY <3>2, <3>3, <3>4, <3>5, <3>6
  <2>2. CASE Contest!declineButton(i)
    <3>1. /\ applicationsDataSet' = Contest!WithStatus(i, "DECLINED")
          /\ usersDataSet' = IF Contest!InGrid(u) = 0 THEN usersDataSet
                             ELSE Contest!RemoveAt(usersDataSet, Contest!InGrid(u))
          /\ declined' = declined \cup {u}
      BY <2>2 DEF Contest!declineButton, applicationsDataSet, usersDataSet, declined
    <3>2. /\ applicationsDataSet' \in Seq(Application)
          /\ Len(applicationsDataSet') = n
          /\ applicationsDataSet'[i].status = "DECLINED"
          /\ \A j \in 1..n :
                /\ applicationsDataSet'[j].login = applicationsDataSet[j].login
                /\ j # i => applicationsDataSet'[j] = applicationsDataSet[j]
      BY <1>4, <3>1, StatusSet
    <3>3. /\ usersDataSet' \in Seq(Contest!Users) /\ Distinct(usersDataSet')
          /\ \A v : Has(usersDataSet', v) <=> Has(usersDataSet, v) /\ v # u
      BY <1>4, <1>5, <3>1, UserRemoved
    <3>4. Decided'
      <4>1. \A j \in 1..n : j # i => applicationsDataSet[j].login # u
        BY <1>6
      <4>2. ASSUME NEW j \in 1..n
            PROVE  LET a == applicationsDataSet'[j]
                   IN  /\ a.status = "ACCEPTED" => Has(usersDataSet', a.login)
                       /\ a.status = "DECLINED" => ~Has(usersDataSet', a.login)
        <5>1. CASE j = i
          BY <3>2, <3>3, <5>1
        <5>2. CASE j # i
          BY <3>2, <3>3, <4>1, <5>2 DEF ContestInv, Decided
        <5> QED BY <5>1, <5>2
      <4>3. \A j, k \in 1..n :
               applicationsDataSet'[j].login = applicationsDataSet'[k].login => j = k
        BY <3>2 DEF ContestInv, Decided
      <4> QED BY <3>2, <3>3, <4>2, <4>3 DEF Decided
    <3>5. SeenKept'
      BY <1>2, <3>1, <3>3 DEF ContestInv, SeenKept
    <3>6. declined' \subseteq Contestants
      BY <1>3, <1>5, <3>1, ContestTypes
    <3> QED BY <3>2, <3>3, <3>4, <3>5, <3>6
  <2> QED BY <2>1, <2>2
<1>8. ContestTyped'
  <2>1. /\ openContest' \in BOOLEAN /\ form' \in BOOLEAN /\ muddled' \in BOOLEAN
        /\ cp' \in [ContestProblems -> Contest!ContestProblem \cup {Contest!NaNRow}]
        /\ roles' \subseteq Contest!Users /\ applied' \subseteq Contestants
        /\ settings' \in 0..MaxForms /\ forms' \in 0..MaxForms /\ settings' <= forms'
        /\ NotAhead(joins', forms')
        /\ problemsDataSet' \in Seq(Contest!GridRow)
        /\ joins' \in [Contestants -> Seq(Reading)]
        /\ \A v \in Contestants : Len(joins'[v]) <= 1
        /\ dealtWith' \subseteq Contestants
        /\ seen' \subseteq Contest!Users
    BY <1>2, <1>3, ContestTypes
  <2> QED BY <1>7, <2>1, ContestTypesNext
<1>9. (muddled \/ \E r : RankedBy(r))'
  BY <1>2, RankedStays DEF ContestInv
<1>10. (muddled \/ Ordered(problemsDataSet))'
  BY <1>2 DEF ContestInv
<1> QED BY <1>7, <1>8, <1>9, <1>10 DEF ContestInv

\* The form opens with what the tables hold, or hold of it.
LEMMA FormOpens ==
    ASSUME ContestInv, Contest!edit
    PROVE  ContestInv'
<1>1. ContestTyped
  BY DEF ContestInv
<1>2. /\ form' = TRUE /\ forms' = forms + 1 /\ forms < MaxForms
      /\ seen' = roles /\ declined' = {}
      /\ UNCHANGED <<openContest, cp, roles, applied, settings, joins, dealtWith,
                     clicks, muddled>>
  BY DEF Contest!edit, Contest!tables, form, forms, seen, roles, declined, openContest, cp,
         applied, settings, joins, dealtWith, clicks, muddled
<1>3. /\ usersDataSet' \in Seq(Contest!Users) /\ Distinct(usersDataSet')
      /\ \A u \in roles : Has(usersDataSet', u)
  <2>1. usersDataSet' = Contest!SetToSeq(roles)
    BY DEF Contest!edit, usersDataSet, roles
  <2>2. roles \subseteq Contest!Users /\ IsFiniteSet(roles)
    BY <1>1, ContestTypes, UsersFinite, FS_Subset
  <2>3. /\ usersDataSet' \in Seq(roles) /\ Distinct(usersDataSet')
        /\ \A x \in roles : \E i \in DOMAIN usersDataSet' : usersDataSet'[i] = x
    BY <2>1, <2>2, Listed
  <2> QED BY <2>2, <2>3 DEF Has
<1>4. PICK A \in SUBSET applied :
         applicationsDataSet' = [i \in 1..Cardinality(A) |->
            [login |-> Contest!SetToSeq(A)[i], status |-> "NEW"]]
  BY DEF Contest!edit, applicationsDataSet, applied, Contest!Cardinality, Cardinality
<1>5. /\ applicationsDataSet' \in Seq(Application)
      /\ \A i, j \in 1..Len(applicationsDataSet') :
            applicationsDataSet'[i].login = applicationsDataSet'[j].login => i = j
      /\ \A i \in 1..Len(applicationsDataSet') : applicationsDataSet'[i].status = "NEW"
  <2> DEFINE n == Cardinality(A)
             s == Contest!SetToSeq(A)
  <2>1. A \subseteq Contestants /\ IsFiniteSet(A)
    BY <1>1, ContestTypes, ContestAssumption, FS_Subset
  <2>2. n \in Nat /\ s \in Seq(A) /\ DOMAIN s = 1..n /\ Distinct(s)
    BY <2>1, Listed
  <2> HIDE DEF s, n
  <2>3. \A i \in 1..n : s[i] \in Contestants
    BY <2>1, <2>2
  <2>4. applicationsDataSet' = [i \in 1..n |-> [login |-> s[i], status |-> "NEW"]]
    BY <1>4 DEF n, s
  <2>5. applicationsDataSet' \in [1..n -> Application]
    BY <2>3, <2>4 DEF Application
  <2>6. applicationsDataSet' \in Seq(Application) /\ Len(applicationsDataSet') = n
    BY <2>2, <2>5
  <2>7. \A i \in 1..n : /\ applicationsDataSet'[i].login = s[i]
                        /\ applicationsDataSet'[i].status = "NEW"
    BY <2>4
  <2> QED BY <2>2, <2>6, <2>7 DEF Distinct
<1>6. Decided' /\ SeenKept'
  BY <1>2, <1>3, <1>5 DEF Decided, SeenKept
<1>7. problemsDataSet' \in Seq(Contest!GridRow)
  BY <1>1, EditGrid
<1>8. ContestTyped'
  <2>1. /\ openContest' \in BOOLEAN /\ form' \in BOOLEAN /\ muddled' \in BOOLEAN
        /\ cp' \in [ContestProblems -> Contest!ContestProblem \cup {Contest!NaNRow}]
        /\ roles' \subseteq Contest!Users /\ applied' \subseteq Contestants
        /\ settings' \in 0..MaxForms
        /\ joins' \in [Contestants -> Seq(Reading)]
        /\ \A v \in Contestants : Len(joins'[v]) <= 1
        /\ dealtWith' \subseteq Contestants /\ declined' \subseteq Contestants
        /\ seen' \subseteq Contest!Users
    BY <1>1, <1>2, ContestTypes
  <2>2. forms' \in 0..MaxForms /\ settings' <= forms'
    BY <1>1, <1>2, ContestTypes, ContestAssumption
  <2>3. NotAhead(joins', forms')
    <3> SUFFICES ASSUME NEW u \in Contestants, joins[u] # <<>>
                 PROVE  joins[u][1].settings <= forms + 1
      BY <1>2 DEF NotAhead
    <3>1. joins[u] \in Seq(Reading) /\ joins[u][1].settings <= forms
      BY <1>1, ContestTypes DEF NotAhead
    <3>2. joins[u][1].settings \in 0..MaxForms /\ forms \in 0..MaxForms
      <4>1. joins[u][1] \in Reading
        BY <3>1
      <4> QED BY <1>1, <4>1, ContestTypes DEF Reading
    <3> QED BY <3>1, <3>2, ContestAssumption
  <2> QED BY <1>3, <1>5, <1>7, <2>1, <2>2, <2>3, ContestTypesNext
<1>9. (muddled \/ \E r : RankedBy(r))'
  BY <1>2, RankedStays DEF ContestInv
<1>10. (muddled \/ Ordered(problemsDataSet))'
  BY <1>1, <1>2, EditGrid DEF ContestInv
<1> QED BY <1>6, <1>8, <1>9, <1>10 DEF ContestInv

\* The form is saved, or fails.
LEMMA FormSaved ==
    ASSUME ContestInv, Contest!submitEdit
    PROVE  ContestInv'
<1>1. ContestTyped
  BY DEF ContestInv
<1>2. /\ form' = FALSE
      /\ problemsDataSet' = <<>> /\ usersDataSet' = <<>> /\ applicationsDataSet' = <<>>
      /\ muddled' = (muddled \/ Contest!Twice(problemsDataSet))
      /\ UNCHANGED <<joins, forms, clicks, seen, declined>>
  BY DEF Contest!submitEdit, form, problemsDataSet, usersDataSet, applicationsDataSet,
         muddled, joins, forms, clicks, seen, declined
<1>3. /\ openContest' = openContest
      /\ cp' \in [ContestProblems -> Contest!ContestProblem \cup {Contest!NaNRow}]
      /\ roles' \subseteq Contest!Users /\ applied' \subseteq Contestants
      /\ settings' \in 0..MaxForms /\ settings' <= forms
      /\ dealtWith' \subseteq Contestants
  <2> DEFINE Logins(st) == {a.login : a \in
                {b \in Contest!ToSet(applicationsDataSet) : b.status = "NEW" <=> st}}
  <2>1. CASE UNCHANGED <<openContest, cp, roles, applied, settings, dealtWith>>
    BY <1>1, <2>1, ContestTypes
  <2>2. CASE ~UNCHANGED <<openContest, cp, roles, applied, settings, dealtWith>>
    <3>1. PICK rows \in Contest!RowsOf(problemsDataSet) :
             /\ openContest' = openContest /\ cp' = rows
             /\ roles' = Contest!ToSet(usersDataSet)
             /\ applied' = applied \cup Logins(TRUE)
             /\ settings' = forms
             /\ dealtWith' = dealtWith \cup Logins(FALSE)
      BY <2>2 DEF Contest!submitEdit, Contest!modifyContest, Contest!tables, cp, roles,
         applied, settings, openContest, dealtWith, forms, problemsDataSet, usersDataSet,
         applicationsDataSet
    <3>2. \A st : Logins(st) \subseteq Contestants
      <4>1. applicationsDataSet \in Seq(Application)
        BY <1>1, ContestTypes
      <4>2. \A b \in Contest!ToSet(applicationsDataSet) : b \in Application
        BY <4>1 DEF Contest!ToSet
      <4>3. \A b \in Application : b.login \in Contestants
        BY DEF Application
      <4> QED BY <4>2, <4>3
    <3> HIDE DEF Logins
    <3>3. Contest!ToSet(usersDataSet) \subseteq Contest!Users
      <4>1. usersDataSet \in Seq(Contest!Users)
        BY <1>1, ContestTypes
      <4> QED BY <4>1 DEF Contest!ToSet
    <3>4. problemsDataSet \in Seq(Contest!GridRow)
      BY <1>1, ContestTypes
    <3>5. cp' \in [ContestProblems -> Contest!ContestProblem \cup {Contest!NaNRow}]
      BY <3>1, <3>4, RowsSaved
    <3>6. forms \in 0..MaxForms /\ applied \subseteq Contestants /\ dealtWith \subseteq Contestants
      BY <1>1, ContestTypes
    <3>7. settings' \in 0..MaxForms /\ settings' <= forms
      BY <3>1, <3>6, ContestAssumption
    <3> QED BY <3>1, <3>2, <3>3, <3>5, <3>6, <3>7
  <2> QED BY <2>1, <2>2
<1>4. ContestTyped'
  <2>1. openContest' \in BOOLEAN /\ form' \in BOOLEAN
    BY <1>1, <1>2, <1>3, ContestTypes
  <2>2. muddled' \in BOOLEAN
    BY <1>2
  <2>3. /\ problemsDataSet' \in Seq(Contest!GridRow) /\ usersDataSet' \in Seq(Contest!Users)
        /\ applicationsDataSet' \in Seq(Application)
    BY <1>2
  <2>4. /\ joins' \in [Contestants -> Seq(Reading)]
        /\ \A v \in Contestants : Len(joins'[v]) <= 1
        /\ forms' \in 0..MaxForms /\ forms' = forms /\ NotAhead(joins', forms')
        /\ declined' \subseteq Contestants /\ seen' \subseteq Contest!Users
    BY <1>1, <1>2, ContestTypes
  <2> QED BY <1>3, <2>1, <2>2, <2>3, <2>4, ContestTypesNext
<1>5. (muddled \/ \E r : RankedBy(r))'
  <2>1. CASE muddled \/ Contest!Twice(problemsDataSet)
    BY <1>2, <2>1
  <2>2. CASE ~muddled /\ ~Contest!Twice(problemsDataSet)
    <3>1. Ordered(problemsDataSet) /\ \E r : RankedBy(r)
      BY <2>2 DEF ContestInv
    <3> QED BY <1>1, <2>2, <3>1, SaveRanked
  <2> QED BY <2>1, <2>2
<1>6. Ordered(problemsDataSet')
  BY <1>2 DEF Ordered
<1>7. Decided' /\ SeenKept'
  BY <1>2 DEF Decided, SeenKept, Distinct
<1> QED BY <1>4, <1>5, <1>6, <1>7 DEF ContestInv

\* A contestant comes, and is stored.
LEMMA ContestantComes ==
    ASSUME ContestInv, NEW u \in Contestants, Contest!sendApplication(u) \/ Contest!Stored(u)
    PROVE  ContestInv'
<1>1. ContestTyped
  BY DEF ContestInv
<1>2. UNCHANGED <<openContest, cp, form, problemsDataSet, usersDataSet, applicationsDataSet,
                  forms, clicks, seen, declined, muddled>>
  BY DEF Contest!sendApplication, Contest!Stored, Contest!modifyContest, Contest!tables,
         Contest!lists, Contest!history, openContest, cp, form, problemsDataSet,
         usersDataSet, applicationsDataSet, forms, clicks, seen, declined, muddled
<1>3. u \in Contest!Users
  BY DEF Contest!Users
<1>4. /\ roles' \subseteq Contest!Users /\ applied' \subseteq Contestants
      /\ settings' \in 0..MaxForms /\ settings' <= forms
      /\ dealtWith' \subseteq Contestants
      /\ joins' \in [Contestants -> Seq(Reading)]
      /\ \A v \in Contestants : Len(joins'[v]) <= 1
      /\ NotAhead(joins', forms)
  <2>1. CASE Contest!sendApplication(u)
    <3> DEFINE read == [roles |-> roles, settings |-> settings]
    <3>1. /\ joins' = [joins EXCEPT ![u] = <<read>>]
          /\ UNCHANGED <<roles, applied, settings, dealtWith>>
      BY <2>1 DEF Contest!sendApplication, Contest!tables, joins, roles, applied, settings,
                  dealtWith
    <3>2. <<read>> \in Seq(Reading) /\ Len(<<read>>) <= 1
      BY <1>1, ContestTypes DEF Reading
    <3>3. <<read>>[1].settings <= forms
      BY <1>1, ContestTypes
    <3> HIDE DEF read
    <3>4. NotAhead(joins', forms)
      BY <1>1, <3>1, <3>3, ContestTypes DEF NotAhead
    <3> QED BY <1>1, <3>1, <3>2, <3>4, ContestTypes
  <2>2. CASE Contest!Stored(u)
    <3> DEFINE read == joins[u][1]
    <3>1. /\ joins' = [joins EXCEPT ![u] = <<>>]
          /\ dealtWith' = dealtWith \ {u}
          /\ settings' = read.settings
          /\ \/ roles' = read.roles \cup {u} /\ applied' = applied \cup {}
             \/ roles' = roles /\ applied' = applied \cup {u}
      BY <2>2 DEF Contest!Stored, Contest!modifyContest, joins, roles, applied, settings,
                  dealtWith
    <3>2. read \in Reading
      <4>1. joins[u] \in Seq(Reading) /\ joins[u] # <<>>
        BY <1>1, <2>2, ContestTypes DEF Contest!Stored, joins
      <4> QED BY <4>1
    <3>3. read.roles \subseteq Contest!Users /\ read.settings \in 0..MaxForms
      BY <3>2 DEF Reading
    <3>4. read.settings <= forms
      BY <1>1, <2>2, ContestTypes DEF NotAhead, Contest!Stored, joins
    <3> HIDE DEF read
    <3>5. NotAhead(joins', forms)
      BY <1>1, <3>1, ContestTypes DEF NotAhead
    <3>6. /\ roles' \subseteq Contest!Users /\ applied' \subseteq Contestants
          /\ dealtWith' \subseteq Contestants
      BY <1>1, <1>3, <3>1, <3>3, ContestTypes
    <3>7. /\ joins' \in [Contestants -> Seq(Reading)]
          /\ \A v \in Contestants : Len(joins'[v]) <= 1
      BY <1>1, <3>1, ContestTypes
    <3> QED BY <3>1, <3>3, <3>4, <3>5, <3>6, <3>7
  <2> QED BY <2>1, <2>2
<1>5. ContestTyped'
  <2>1. /\ openContest' \in BOOLEAN /\ form' \in BOOLEAN /\ muddled' \in BOOLEAN
        /\ cp' \in [ContestProblems -> Contest!ContestProblem \cup {Contest!NaNRow}]
        /\ problemsDataSet' \in Seq(Contest!GridRow)
        /\ usersDataSet' \in Seq(Contest!Users)
        /\ applicationsDataSet' \in Seq(Application)
        /\ forms' \in 0..MaxForms /\ forms' = forms
        /\ declined' \subseteq Contestants /\ seen' \subseteq Contest!Users
    BY <1>1, <1>2, ContestTypes
  <2> QED BY <1>4, <2>1, ContestTypesNext
<1>6. (muddled \/ \E r : RankedBy(r))'
  BY <1>2, RankedStays DEF ContestInv
<1>7. (muddled \/ Ordered(problemsDataSet))'
  BY <1>2 DEF ContestInv
<1>8. Decided' /\ SeenKept'
  BY <1>2, ListsStay DEF ContestInv
<1> QED BY <1>5, <1>6, <1>7, <1>8 DEF ContestInv

-----------------------------------------------------------------------------
(* The page "contest".                                                      *)

\* The page begins with its invariant.
LEMMA ContestInit == Contest!Init => ContestInv
<1> SUFFICES ASSUME Contest!Init PROVE ContestInv
  OBVIOUS
<1>1. /\ problemsDataSet = <<>> /\ usersDataSet = <<>> /\ applicationsDataSet = <<>>
      /\ form = FALSE
  BY DEF Contest!Init, problemsDataSet, usersDataSet, applicationsDataSet, form
<1>2. Ordered(problemsDataSet) /\ Decided /\ SeenKept
  BY <1>1 DEF Ordered, Decided, SeenKept, Distinct
<1> QED BY <1>2, ContestTypeInit, FirstRanked DEF ContestInv

\* Every step of the page keeps its invariant.
LEMMA ContestKeeps ==
    ASSUME ContestInv, Contest!Next
    PROVE  ContestInv'
<1>1. CASE Contest!edit
  BY <1>1, FormOpens
<1>2. CASE Contest!submitEdit
  BY <1>2, FormSaved
<1>3. CASE \/ Contest!addProblem
           \/ \E i \in DOMAIN problemsDataSet :
                 \/ Contest!buttonDown(i) \/ Contest!buttonUp(i) \/ Contest!deleteButton(i)
                 \/ \E p \in ContestProblems : Contest!selectProblem(i, p)
                 \/ \E x \in {1, None} : Contest!problem_cost(i, x)
  BY <1>3, ProblemsClicked
<1>4. CASE \E i \in DOMAIN applicationsDataSet :
              Contest!acceptButton(i) \/ Contest!declineButton(i)
  BY <1>4, ApplicationClicked
<1>5. CASE \E u \in Contestants : Contest!sendApplication(u) \/ Contest!Stored(u)
  BY <1>5, ContestantComes
<1> QED BY <1>1, <1>2, <1>3, <1>4, <1>5
        DEF Contest!Next, problemsDataSet, applicationsDataSet

\* The invariant gives what the run checks.
LEMMA ContestInvTrue == ContestInv => Contest!MarksFollow /\ Contest!DecisionsAgree
<1> SUFFICES ASSUME ContestInv PROVE Contest!MarksFollow /\ Contest!DecisionsAgree
  OBVIOUS
<1>1. Contest!MarksFollow
  <2> SUFFICES ASSUME ~muddled, NEW p \in Contest!InContest
               PROVE  /\ cp[p].mark = cp[p].order
                      /\ cp[p].mark =
                            Cardinality({q \in Contest!InContest : cp[q].order < cp[p].order})
                      /\ \A q \in Contest!InContest : cp[q].mark = cp[p].mark => q = p
    BY DEF Contest!MarksFollow, muddled, cp, Contest!Cardinality, Cardinality
  <2> PICK r : RankedBy(r)
    BY DEF ContestInv
  <2> QED BY RankedMarks
<1>2. /\ usersDataSet \in Seq(Contest!Users) /\ applicationsDataSet \in Seq(Application)
      /\ DOMAIN usersDataSet = 1..Len(usersDataSet)
      /\ DOMAIN applicationsDataSet = 1..Len(applicationsDataSet)
  BY ContestTypes DEF ContestInv
<1>3. \A u : Contest!InGrid(u) # 0 <=> Has(usersDataSet, u)
  BY <1>2, Found DEF Has
<1>4. Contest!DecisionsAgree
  BY <1>2, <1>3 DEF ContestInv, Decided, Distinct, Contest!DecisionsAgree,
     Contest!IsInjective, usersDataSet, applicationsDataSet
<1> QED BY <1>1, <1>4

\* What a step of the page may take back.
LEMMA ContestTakesBack ==
    ASSUME ContestInv, Contest!Next
    PROVE  Contest!OnlyStaleSavesTakeBack
<1>1. ContestTyped
  BY DEF ContestInv
<1>2. /\ settings \in Int /\ settings <= forms /\ forms \in Int
      /\ usersDataSet \in Seq(Contest!Users)
  BY <1>1, ContestTypes, ContestAssumption
<1> SUFFICES /\ \A u \in roles \ roles' :
                  \/ form /\ ~form' /\ (u \in declined \/ u \notin seen)
                  \/ \E v \in Contestants : /\ joins[v] # <<>> /\ joins'[v] = <<>>
                                            /\ u \notin joins[v][1].roles
             /\ settings' < settings =>
                  \E v \in Contestants : /\ joins[v] # <<>> /\ joins'[v] = <<>>
                                         /\ joins[v][1].settings < settings
  BY DEF Contest!OnlyStaleSavesTakeBack, Contest!SavedByForm, Contest!SavedBy, roles, form,
         declined, seen, joins, settings
<1>3. CASE UNCHANGED <<roles, settings>>
  BY <1>2, <1>3
<1>4. CASE Contest!submitEdit
  <2>1. form /\ ~form'
    BY <1>4 DEF Contest!submitEdit, form
  <2>2. SUFFICES ASSUME ~UNCHANGED <<roles, settings>>
                 PROVE  /\ \A u \in roles \ roles' : u \in declined \/ u \notin seen
                        /\ ~(settings' < settings)
    BY <1>3, <2>1
  <2>3. roles' = Contest!ToSet(usersDataSet) /\ settings' = forms
    BY <1>4, <2>2 DEF Contest!submitEdit, Contest!modifyContest, Contest!tables, roles,
       settings, usersDataSet, forms
  <2>4. \A u \in seen : u \in declined \/ u \in roles'
    <3>1. \A u : Has(usersDataSet, u) => u \in roles'
      BY <1>2, <2>3 DEF Has, Contest!ToSet
    <3> QED BY <2>1, <3>1 DEF ContestInv, SeenKept
  <2> QED BY <1>2, <2>3, <2>4
<1>5. ASSUME NEW u \in Contestants, Contest!Stored(u)
      PROVE  /\ joins[u] # <<>> /\ joins'[u] = <<>>
             /\ settings' = joins[u][1].settings
             /\ \A v \in roles \ roles' : v \notin joins[u][1].roles
  <2>1. joins \in [Contestants -> Seq(Reading)]
    BY <1>1, ContestTypes
  <2> QED BY <1>5, <2>1 DEF Contest!Stored, Contest!modifyContest, joins, settings, roles
<1>6. ASSUME ~Contest!submitEdit, \A u \in Contestants : ~Contest!Stored(u)
      PROVE  UNCHANGED <<roles, settings>>
  BY <1>6 DEF Contest!Next, Contest!edit, Contest!addProblem, Contest!buttonDown,
     Contest!buttonUp, Contest!deleteButton, Contest!selectProblem, Contest!problem_cost,
     Contest!acceptButton, Contest!declineButton, Contest!sendApplication,
     Contest!GridChange, Contest!Click, Contest!tables, roles, settings
<1> QED BY <1>3, <1>4, <1>5, <1>6

-----------------------------------------------------------------------------
(* The editor of tests: the names of its variables, and types.              *)

test == w1
list == w2
shown == w3
typed == w4
selected == w5
asked == w6
adding == w7
page == w8
requests == w9
row == w10
nextId == w11
loggedIn == w12
edits == w13
removals == w14
faults == w15
confirmed == w16
overlapped == w17
crossed == w18

USE DEF test, list, shown, typed, selected, asked, adding, page, requests, row,
        nextId, loggedIn, edits, removals, faults, confirmed, overlapped, crossed

AllTests == 1..MaxTests
Kinds == {"getTest", "commitTest", "addTest", "deleteTest"}

\* The identifiers that have been given.
Known == 1..(nextId - 1)

TestTyped ==
    /\ test \in [AllTests -> Tests!TestObject]
    /\ list \in Seq(AllTests) /\ Distinct(list)
    /\ shown \subseteq Known
    /\ typed \in [AllTests -> TestTexts]
    /\ selected \in Nat
    /\ requests \subseteq Tests!Request
    /\ row \in [AllTests -> Tests!Row \cup {None}]
    /\ nextId \in 1..(MaxTests + 1)
    /\ removals \in Nat /\ faults \in Nat
    /\ \A i \in DOMAIN list : list[i] \in Known /\ test[list[i]].index = i - 1
    /\ \A t \in AllTests \ Known : row[t] = None /\ typed[t] = EmptyText

\* What a request says of the page and of the tables.  The test of an answered
\* addTest is not in the page yet.
RequestFits(r) ==
    /\ r.kind = "addTest" =>
         /\ adding
         /\ r.at \in {"sent", "read"} => nextId <= MaxTests
         /\ r.at = "ok" => /\ r.test \in Known \ shown /\ ~Tests!Listed(r.test)
                           /\ row[r.test] # None /\ row[r.test].text = EmptyText
                           /\ typed[r.test] = EmptyText
    /\ r.kind # "addTest" => r.test \in Known
    /\ r.kind \in {"getTest", "deleteTest"} => r.at # "read"
    /\ r.kind = "getTest" => test[r.test].state = "Loading" /\ (r.at = "ok" => r.text \in TestTexts)
    /\ r.kind = "commitTest" => test[r.test].state = "Saving" /\ r.text = typed[r.test]

\* No two requests are for the same thing, deletions apart, and none but its own
\* knows of a new test.
Apart(R) ==
    \A q, r \in R :
       /\ /\ q.kind = r.kind /\ r.kind # "deleteTest"
          /\ r.kind = "addTest" \/ q.test = r.test
          => q = r
       /\ q.kind # "addTest" /\ r.kind = "addTest" /\ r.at = "ok" => q.test # r.test

Deletion(r) == r.kind = "deleteTest"
Deleted(r) == r.kind = "deleteTest" /\ r.at = "ok"
Addition(r) == r.kind = "addTest" /\ r.at = "ok"

\* As long as removals did not overlap: the dialog and the deletion under way
\* are of the test at the selected position.
AskedFits ==
    /\ \A t \in AllTests : t \in shown <=> Tests!Listed(t)
    /\ asked # None => /\ \A r \in requests : ~Deletion(r)
                       /\ selected \in DOMAIN list /\ list[selected] = asked
    /\ \A r \in requests : Deletion(r) => /\ selected \in DOMAIN list
                                          /\ list[selected] = r.test
                                          /\ r.test \in confirmed
    /\ \A q, r \in requests : Deletion(q) /\ Deletion(r) => q = r

\* A test that nobody confirmed to remove.
Kept(t) ==
    /\ row[t] # None
    /\ test[t].state = "Saved" => row[t].text = typed[t]
    /\ \A r \in requests :
         r.test = t /\ r.kind \in {"getTest", "commitTest"} /\ r.at = "ok"
            => r.text = row[t].text
AllKept == \A t \in AllTests : Tests!Listed(t) /\ t \notin confirmed => Kept(t)

\* Of a page that was left unasked.
NothingOpen ==
    \A t \in AllTests : Tests!Listed(t) => test[t].state \notin {"NotSaved", "Saving"}

\* The sequence s has the tests of the tables, each with its place for number,
\* and what a request has read of them is still so.
Numbered(s) ==
    /\ s \in Seq(AllTests)
    /\ \A t \in AllTests : row[t] # None <=> \E i \in 1..Len(s) : s[i] = t
    /\ \A i \in 1..Len(s) : row[s[i]].number = i
    /\ \A r \in requests : r.at = "read" =>
         IF r.kind = "addTest" THEN r.number = Len(s) + 1
         ELSE row[r.test] # None /\ row[r.test].number = r.number

\* It is the list of the page but for what the page has not been told.
Standing == IF \E r \in requests : Deleted(r) THEN Tests!RemoveAt(list, selected) ELSE list
Listing(s) ==
    /\ (\A r \in requests : ~Addition(r)) => s = Standing
    /\ \A r \in requests : Addition(r) => s = Append(Standing, r.test)

AllFit == \A r \in requests : RequestFits(r)
AskedInv == ~overlapped => AskedFits
KeptInv == loggedIn /\ ~overlapped => AllKept
LeftInv == page = "left" => NothingOpen
NumberInv == ~crossed => \E s : Numbered(s)
ListInv ==
    faults = 0 /\ ~overlapped /\ ~crossed => loggedIn /\ \E s : Numbered(s) /\ Listing(s)

TestInv ==
    /\ TestTyped /\ AllFit /\ Apart(requests)
    /\ AskedInv /\ KeptInv /\ LeftInv /\ NumberInv /\ ListInv

-----------------------------------------------------------------------------
\* The page when it is opened.
LEMMA TestInit == Tests!Init => TestInv
<1> SUFFICES ASSUME Tests!Init PROVE TestInv
  OBVIOUS
<1> DEFINE n == FirstTests
<1>1. /\ test = [t \in AllTests |-> Tests!NewTest("NotLoaded", IF t <= n THEN t - 1 ELSE 0)]
      /\ list = [i \in 1..n |-> i] /\ shown = 1..n
      /\ typed = [t \in AllTests |-> EmptyText] /\ selected = 0 /\ asked = None
      /\ page = "open" /\ requests = {}
      /\ row = [t \in AllTests |-> IF t <= n THEN [text |-> StoredText, number |-> t] ELSE None]
      /\ nextId = n + 1 /\ loggedIn = TRUE /\ removals = 0 /\ faults = 0 /\ confirmed = {}
  BY DEF Tests!Init, Tests!Tests, AllTests
<1>2. n \in Nat /\ MaxTests \in Nat /\ n <= MaxTests
  BY TestsAssumption
<1>3. list \in Seq(AllTests) /\ Len(list) = n
  BY <1>1, <1>2 DEF AllTests
<1>4. \A t : Tests!Listed(t) <=> t \in 1..n
  BY <1>1, <1>2 DEF Tests!Listed, Tests!ToSet
<1>5. TestTyped
  <2>1. test \in [AllTests -> Tests!TestObject]
    BY <1>1, <1>2 DEF Tests!NewTest, Tests!TestObject, Tests!SaveLoadState, AllTests
  <2>2. row \in [AllTests -> Tests!Row \cup {None}]
    BY <1>1, <1>2, TestsAssumption DEF Tests!Row, AllTests
  <2>3. \A i \in DOMAIN list : list[i] \in Known /\ test[list[i]].index = i - 1
    BY <1>1, <1>2 DEF Known, Tests!NewTest, AllTests
  <2>4. \A t \in AllTests \ Known : row[t] = None /\ typed[t] = EmptyText
    BY <1>1, <1>2 DEF Known, AllTests
  <2>5. Distinct(list) /\ shown \subseteq Known /\ requests \subseteq Tests!Request
    BY <1>1, <1>2 DEF Distinct, Known
  <2>6. typed \in [AllTests -> TestTexts] /\ nextId \in 1..(MaxTests + 1)
    BY <1>1, <1>2, TestsAssumption
  <2>7. selected \in Nat /\ removals \in Nat /\ faults \in Nat
    BY <1>1
  <2> QED
    BY <1>3, <2>1, <2>2, <2>3, <2>4, <2>5, <2>6, <2>7 DEF TestTyped
<1>6. AllFit /\ Apart(requests)
  BY <1>1 DEF AllFit, Apart
<1>7. AskedFits
  BY <1>1, <1>4 DEF AskedFits
<1>8. AllKept
  <2> SUFFICES ASSUME NEW t \in AllTests, t <= n PROVE Kept(t)
    BY <1>2, <1>4 DEF AllKept, AllTests
  <2>1. row[t] = [text |-> StoredText, number |-> t] /\ test[t].state = "NotLoaded"
    BY <1>1 DEF Tests!NewTest
  <2>2. row[t] # None
    BY <1>2, <2>1, TestsAssumption DEF AllTests
  <2> QED BY <1>1, <2>1, <2>2 DEF Kept
<1>9. Numbered(list) /\ Listing(list)
  <2>1. \A t \in AllTests : row[t] # None <=> t <= n
    BY <1>1, <1>2, TestsAssumption DEF AllTests
  <2>2. \A i \in 1..n : row[list[i]].number = i
    BY <1>1, <1>2 DEF AllTests
  <2>3. \A t \in AllTests : t <= n <=> \E i \in 1..Len(list) : list[i] = t
    BY <1>1, <1>2, <1>3 DEF AllTests
  <2> QED BY <1>1, <1>3, <2>1, <2>2, <2>3 DEF Numbered, Listing, Standing, Addition, Deleted
<1> QED
  BY <1>1, <1>5, <1>6, <1>7, <1>8, <1>9
     DEF TestInv, AskedInv, KeptInv, LeftInv, NumberInv, ListInv

\* Places in the list.
LEMMA ListedAt ==
    ASSUME list \in Seq(AllTests)
    PROVE  /\ Len(list) \in Nat /\ DOMAIN list = 1..Len(list)
           /\ \A t : Tests!Listed(t) <=> \E i \in 1..Len(list) : list[i] = t
  BY DEF Tests!Listed, Tests!ToSet

\* A request is answered or goes on, and all that changes with it is that a
\* connection may have broken.
Unmoved == UNCHANGED <<test, list, shown, typed, selected, asked, adding, page, row, nextId,
                       loggedIn, removals, confirmed, overlapped, crossed>>

\* What a request becomes in this way.
Follows(r, s) ==
    /\ s \in Tests!Request /\ s.kind = r.kind /\ s.test = r.test /\ s.at # "sent"
    /\ s.kind = "addTest" => s.at # "ok"
    /\ s.kind = "addTest" /\ s.at = "read" => r.at \in {"sent", "read"}
    /\ s.kind \in {"getTest", "deleteTest"} => s.at # "read"
    /\ s.kind = "getTest" /\ s.at = "ok" => s.text = row[s.test].text /\ s.text \in TestTexts
    /\ s.kind = "commitTest" => s.text = r.text /\ (s.at = "ok" => ~loggedIn)
    /\ s.kind = "deleteTest" /\ s.at = "ok" => ~loggedIn

\* Such a step keeps the invariant.
LEMMA Answered ==
    ASSUME TestInv, NEW r \in requests, NEW s, Follows(r, s),
           requests' = (requests \ {r}) \cup {s}, Unmoved, faults' \in Nat,
           faults' = faults \/ faults' > 0,
           r.at = "ok" => faults' > 0,
           s.at = "read" => \A p : Numbered(p) =>
             IF s.kind = "addTest" THEN s.number = Len(p) + 1
             ELSE row[s.test] # None /\ row[s.test].number = s.number
    PROVE  TestInv'
<1>1. \A q \in requests' : q = s \/ q \in requests
  OBVIOUS
<1>2. TestTyped'
  BY DEF TestInv, TestTyped, Unmoved, Follows, Known
<1>3. AllFit'
  <2> SUFFICES ASSUME NEW q \in requests' PROVE RequestFits(q)'
    BY DEF AllFit
  <2>1. \A p : RequestFits(p)' <=> RequestFits(p)
    BY DEF RequestFits, Unmoved, Known, Tests!Listed
  <2>2. RequestFits(r)
    BY DEF TestInv, AllFit
  <2>3. RequestFits(s)
    BY <2>2 DEF RequestFits, Follows
  <2> QED BY <1>1, <2>1, <2>3 DEF TestInv, AllFit
<1>4. Apart(requests')
  <2>1. Apart(requests)
    BY DEF TestInv
  <2> QED BY <1>1, <2>1 DEF Apart, Follows
<1>5. AskedInv'
  <2> SUFFICES ASSUME ~overlapped, AskedFits PROVE AskedFits'
    BY DEF TestInv, AskedInv, Unmoved
  <2> QED BY <1>1 DEF AskedFits, Deletion, Follows, Unmoved, Tests!Listed
<1>6. KeptInv'
  <2> SUFFICES ASSUME loggedIn, AllKept PROVE AllKept'
    BY DEF TestInv, KeptInv, Unmoved
  <2> SUFFICES ASSUME NEW t \in AllTests, Kept(t) PROVE Kept(t)'
    BY DEF AllKept, Unmoved, Tests!Listed
  <2> QED BY <1>1 DEF Kept, Follows, Unmoved
<1>7. LeftInv'
  BY DEF TestInv, LeftInv, NothingOpen, Unmoved, Tests!Listed
<1>8. ASSUME NEW p, Numbered(p) PROVE Numbered(p)'
  BY <1>1, <1>8 DEF Numbered, Unmoved, Follows
<1>9. NumberInv'
  BY <1>8 DEF TestInv, NumberInv, Unmoved
<1>10. ListInv'
  <2> SUFFICES ASSUME faults' = 0, ~overlapped, ~crossed, loggedIn,
                      NEW p, Numbered(p), Listing(p)
               PROVE  Listing(p)'
    BY <1>8 DEF TestInv, ListInv, Unmoved
  <2>1. r.at # "ok" /\ ~Addition(s) /\ ~Deleted(s)
    BY DEF Follows, Addition, Deleted
  <2>2. ~Addition(r) /\ ~Deleted(r)
    BY <2>1 DEF Addition, Deleted
  <2>3. \A q : q \in requests' /\ Addition(q) <=> q \in requests /\ Addition(q)
    BY <1>1, <2>1, <2>2
  <2>4. (\E q \in requests' : Deleted(q)) <=> (\E q \in requests : Deleted(q))
    BY <1>1, <2>1, <2>2
  <2>5. Standing' = Standing
    BY <2>4 DEF Standing, Unmoved, Deleted
  <2> QED BY <2>3, <2>5 DEF Listing, Addition
<1> QED BY <1>2, <1>3, <1>4, <1>5, <1>6, <1>7, <1>9, <1>10 DEF TestInv

\* There are as many tests as the sequence of them is long.
LEMMA RowsCounted ==
    ASSUME TestTyped
    PROVE  /\ IsFiniteSet(Tests!Rows) /\ Cardinality(Tests!Rows) \in Nat
           /\ Tests!Cardinality(Tests!Rows) = Cardinality(Tests!Rows)
           /\ \A p : Numbered(p) => Len(p) \in Nat /\ Cardinality(Tests!Rows) = Len(p)
<1>1. Tests!Rows = {t \in AllTests : row[t] # None}
  BY DEF Tests!Rows, Tests!Tests, AllTests
<1>2. IsFiniteSet(Tests!Rows)
  <2>1. IsFiniteSet(AllTests)
    <3>1. 1 \in Int /\ MaxTests \in Int
      BY TestsAssumption
    <3> QED BY <3>1, FS_Interval DEF AllTests
  <2> QED BY <1>1, <2>1, FS_Subset
<1>3. Tests!Cardinality(Tests!Rows) = Cardinality(Tests!Rows)
  BY DEF Tests!Cardinality, Cardinality
<1>4. ASSUME NEW p, Numbered(p) PROVE Len(p) \in Nat /\ Cardinality(Tests!Rows) = Len(p)
  <2>1. p \in Seq(AllTests) /\ Len(p) \in Nat /\ p \in [1..Len(p) -> AllTests]
    BY <1>4 DEF Numbered
  <2>2. \A i \in 1..Len(p) : p[i] \in Tests!Rows
    BY <1>1, <1>4, <2>1 DEF Numbered
  <2>3. \A i, j \in 1..Len(p) : p[i] = p[j] => i = j
    BY <1>4 DEF Numbered
  <2>4. \A t \in Tests!Rows : \E i \in 1..Len(p) : p[i] = t
    BY <1>1, <1>4 DEF Numbered
  <2> DEFINE D == 1..Len(p)
             C == Tests!Rows
  <2>5. p \in [D -> C]
    BY <2>1, <2>2
  <2>6. \A i, j \in D : p[i] = p[j] => i = j
    BY <2>3
  <2>7. \A t \in C : \E i \in D : p[i] = t
    BY <2>4
  <2>8. IsFiniteSet(D) /\ Cardinality(D) = Len(p)
    BY <2>1, FS_Interval
  <2> HIDE DEF D, C
  <2>9. p \in Bijection(D, C)
    BY <2>5, <2>6, <2>7 DEF Bijection, Injection, Surjection, IsInjective
  <2>10. ExistsBijection(D, C)
    BY <2>9 DEF ExistsBijection
  <2>11. Cardinality(C) = Cardinality(D)
    BY <2>8, <2>10, FS_Bijection
  <2> QED BY <2>1, <2>8, <2>11 DEF C
<1> QED BY <1>2, <1>3, <1>4, FS_CardinalityType

\* Requests are for tests that there are or have been.
LEMMA OfKnown ==
    ASSUME TestInv
    PROVE  /\ Known \subseteq AllTests
           /\ \A r \in requests : r.kind # "addTest" => r.test \in Known /\ r.test \in AllTests
<1>1. nextId \in 1..(MaxTests + 1) /\ MaxTests \in Nat
  BY TestsAssumption DEF TestInv, TestTyped
<1>2. Known \subseteq AllTests
  BY <1>1 DEF Known, AllTests
<1>3. \A r \in requests : r.kind # "addTest" => r.test \in Known
  BY DEF TestInv, AllFit, RequestFits
<1> QED BY <1>2, <1>3

\* A table with a new row.
LEMMA RowSet ==
    ASSUME TestTyped, NEW t \in AllTests, NEW new \in Tests!Row \cup {None},
           row' = [row EXCEPT ![t] = new]
    PROVE  /\ row' \in [AllTests -> Tests!Row \cup {None}]
           /\ row'[t] = new /\ \A u \in AllTests : u # t => row'[u] = row[u]
<1> DEFINE S == Tests!Row \cup {None}
<1>1. row \in [AllTests -> S] /\ new \in S
  BY DEF TestTyped
<1> HIDE DEF S
<1>2. /\ row' \in [AllTests -> S]
      /\ row'[t] = new /\ \A u \in AllTests : u # t => row'[u] = row[u]
  BY <1>1
<1> QED BY <1>2 DEF S

\* An answer differs from its request in how far it is.
LEMMA AnswerIs ==
    ASSUME NEW r \in Tests!Request, NEW o \in {"read", "ok", "failed"}
    PROVE  LET s == [r EXCEPT !.at = o] IN
           /\ s \in Tests!Request /\ s.kind = r.kind /\ s.test = r.test
           /\ s.text = r.text /\ s.number = r.number /\ s.at = o
  BY DEF Tests!Request

\* So does an error in answer to a request.
LEMMA Failed ==
    ASSUME TestInv, NEW r \in requests, Tests!Answer(r, "failed"), Unmoved,
           (faults' = faults /\ r.at # "ok") \/ faults' = faults + 1
    PROVE  TestInv'
<1> DEFINE s == [r EXCEPT !.at = "failed"]
<1>1. r \in Tests!Request /\ faults \in Nat
  BY DEF TestInv, TestTyped
<1>2. /\ s \in Tests!Request /\ s.kind = r.kind /\ s.test = r.test
      /\ s.text = r.text /\ s.at = "failed"
  BY <1>1, AnswerIs
<1>3. requests' = (requests \ {r}) \cup {s}
  BY DEF Tests!Answer, Tests!Becomes
<1> HIDE DEF s
<1>4. Follows(r, s)
  BY <1>2 DEF Follows
<1>5. faults' \in Nat /\ (faults' = faults \/ faults' > 0) /\ (r.at = "ok" => faults' > 0)
  BY <1>1
<1> QED BY <1>2, <1>3, <1>4, <1>5, Answered

\* Without a session a saving and a deletion are answered as if they were done.
LEMMA Denied ==
    ASSUME TestInv, NEW r \in requests, Tests!Denied(r), Unmoved, ~loggedIn,
           r.at # "ok", faults' = faults
    PROVE  TestInv'
<1> DEFINE s == [r EXCEPT !.at = "ok"]
<1>1. CASE r.kind \in {"commitTest", "deleteTest"}
  <2>1. r \in Tests!Request /\ faults \in Nat
    BY DEF TestInv, TestTyped
  <2>2. /\ s \in Tests!Request /\ s.kind = r.kind /\ s.test = r.test
        /\ s.text = r.text /\ s.at = "ok"
    BY <2>1, AnswerIs
  <2>3. requests' = (requests \ {r}) \cup {s}
    BY <1>1 DEF Tests!Denied, Tests!Answer, Tests!Becomes
  <2> HIDE DEF s
  <2>4. Follows(r, s)
    BY <1>1, <2>2 DEF Follows
  <2> QED BY <2>1, <2>2, <2>3, <2>4, Answered
<1>2. CASE r.kind \notin {"commitTest", "deleteTest"}
  <2>1. Tests!Answer(r, "failed")
    BY <1>2 DEF Tests!Denied
  <2> QED BY <2>1, Failed
<1> QED BY <1>1, <1>2

\* A handler reads.
LEMMA ReadOnly ==
    ASSUME TestInv, NEW r \in requests, Tests!Serve(r),
           Tests!GetTest(r) \/ Tests!CommitRead(r) \/ Tests!AddRead(r)
    PROVE  TestInv'
<1>1. Unmoved /\ faults' = faults /\ r.at = "sent" /\ r \in Tests!Request
  BY DEF Tests!Serve, Tests!GetTest, Tests!CommitRead, Tests!AddRead, Tests!pageVars,
         Tests!counters, Tests!serverVars, Unmoved, TestInv, TestTyped
<1>2. CASE Tests!Answer(r, "failed")
  BY <1>1, <1>2, Failed
<1>3. CASE Tests!Denied(r) /\ ~loggedIn
  BY <1>1, <1>3, Denied
<1>4. TestTyped /\ faults \in Nat
  BY DEF TestInv, TestTyped
<1>5. CASE Tests!GetTest(r) /\ row[r.test] # None /\ loggedIn
  <2> DEFINE s == [r EXCEPT !.at = "ok", !.text = row[r.test].text]
  <2>1. requests' = (requests \ {r}) \cup {s} /\ r.kind = "getTest"
    BY <1>5 DEF Tests!GetTest, Tests!Becomes
  <2>2. r.test \in AllTests
    BY <2>1, OfKnown
  <2>3. row[r.test].text \in TestTexts
    BY <1>4, <1>5, <2>2 DEF TestTyped, Tests!Row
  <2>4. /\ s \in Tests!Request /\ s.kind = r.kind /\ s.test = r.test
        /\ s.text = row[r.test].text /\ s.at = "ok"
    BY <1>1, <2>3 DEF Tests!Request
  <2> HIDE DEF s
  <2>5. Follows(r, s)
    BY <2>1, <2>3, <2>4 DEF Follows
  <2> QED BY <1>1, <1>4, <2>1, <2>4, <2>5, Answered
<1>6. CASE Tests!CommitRead(r) /\ row[r.test] # None /\ loggedIn
  <2> DEFINE s == [r EXCEPT !.at = "read", !.number = row[r.test].number]
  <2>1. requests' = (requests \ {r}) \cup {s} /\ r.kind = "commitTest"
    BY <1>6 DEF Tests!CommitRead, Tests!Becomes
  <2>2. r.test \in AllTests
    BY <2>1, OfKnown
  <2>3. row[r.test].number \in Nat
    BY <1>4, <1>6, <2>2 DEF TestTyped, Tests!Row
  <2>4. /\ s \in Tests!Request /\ s.kind = r.kind /\ s.test = r.test
        /\ s.text = r.text /\ s.at = "read" /\ s.number = row[r.test].number
    BY <1>1, <2>3 DEF Tests!Request
  <2> HIDE DEF s
  <2>5. Follows(r, s)
    BY <2>1, <2>4 DEF Follows
  <2> QED BY <1>1, <1>4, <1>6, <2>1, <2>4, <2>5, Answered
<1>7. CASE Tests!AddRead(r) /\ loggedIn
  <2> DEFINE n == Cardinality(Tests!Rows) + 1
             s == [r EXCEPT !.at = "read", !.number = n]
  <2>1. requests' = (requests \ {r}) \cup {s} /\ r.kind = "addTest"
    BY <1>4, <1>7, RowsCounted DEF Tests!AddRead, Tests!Becomes
  <2>2. n \in Nat /\ \A p : Numbered(p) => n = Len(p) + 1
    BY <1>4, RowsCounted
  <2> HIDE DEF n
  <2>3. /\ s \in Tests!Request /\ s.kind = r.kind /\ s.test = r.test
        /\ s.text = r.text /\ s.at = "read" /\ s.number = n
    BY <1>1, <2>2 DEF Tests!Request
  <2> HIDE DEF s
  <2>4. Follows(r, s)
    BY <1>1, <2>1, <2>3 DEF Follows
  <2> QED BY <1>1, <1>4, <2>1, <2>2, <2>3, <2>4, Answered
<1> QED BY <1>2, <1>3, <1>5, <1>6, <1>7 DEF Tests!GetTest, Tests!CommitRead, Tests!AddRead

\* A text is stored: the numbers stay as they are.
LEMMA TextStored ==
    ASSUME TestInv, NEW r \in requests, Tests!Serve(r), Tests!CommitWrite(r)
    PROVE  TestInv'
<1>1. r.kind = "commitTest" /\ r.at = "read" /\ r \in Tests!Request
  BY DEF Tests!CommitWrite, TestInv, TestTyped
<1>2. UNCHANGED <<test, list, shown, typed, selected, asked, adding, page, nextId, loggedIn,
                  removals, faults, confirmed, overlapped, crossed>>
  BY DEF Tests!Serve, Tests!CommitWrite, Tests!pageVars, Tests!counters
<1>3. CASE Tests!Answer(r, "failed") /\ UNCHANGED row
  BY <1>1, <1>2, <1>3, Failed DEF Unmoved
<1>4. CASE /\ row' = [row EXCEPT ![r.test] = [text |-> r.text, number |-> r.number]]
           /\ Tests!Answer(r, "ok")
  <2> DEFINE s == [r EXCEPT !.at = "ok"]
             t == r.test
  <2>1. requests' = (requests \ {r}) \cup {s}
    BY <1>4 DEF Tests!Answer, Tests!Becomes
  <2>2. /\ s \in Tests!Request /\ s.kind = "commitTest" /\ s.test = t
        /\ s.text = r.text /\ s.at = "ok"
    BY <1>1, AnswerIs
  <2> HIDE DEF s
  <2>3. /\ TestTyped /\ Apart(requests) /\ t \in Known /\ t \in AllTests
        /\ test[t].state = "Saving" /\ r.text = typed[t] /\ r.text \in TestTexts
        /\ r.number \in Nat
    <3>1. RequestFits(r) /\ TestTyped /\ Apart(requests) /\ t \in AllTests
      BY <1>1, OfKnown DEF TestInv, AllFit
    <3>2. r.number \in Nat
      BY <1>1 DEF Tests!Request
    <3> QED BY <1>1, <3>1, <3>2 DEF RequestFits, TestTyped
  <2> DEFINE new == [text |-> r.text, number |-> r.number]
  <2>4. /\ row' \in [AllTests -> Tests!Row \cup {None}]
        /\ row'[t] = new /\ new # None /\ new \in Tests!Row
        /\ \A u \in AllTests : u # t => row'[u] = row[u]
    <3>1. new \in Tests!Row /\ new # None
      BY <2>3, TestsAssumption DEF Tests!Row
    <3>2. row' = [row EXCEPT ![t] = new]
      BY <1>4
    <3> HIDE DEF new, t
    <3> QED BY <2>3, <3>1, <3>2, RowSet
  <2> HIDE DEF t
  <2>5. \A q \in requests' : q = s \/ (q \in requests /\ q # r)
    BY <2>1
  <2>6. TestTyped'
    BY <1>2, <2>1, <2>2, <2>3, <2>4 DEF TestTyped, Known
  <2>7. AllFit'
    <3> SUFFICES ASSUME NEW q \in requests' PROVE RequestFits(q)'
      BY DEF AllFit
    <3>1. CASE q = s
      BY <1>2, <2>2, <2>3, <3>1 DEF RequestFits, Known
    <3>2. CASE q \in requests
      <4>1. q.kind = "addTest" /\ q.at = "ok" => q.test # t
        BY <1>1, <2>3, <3>2 DEF Apart, t
      <4>2. RequestFits(q)
        BY <3>2 DEF TestInv, AllFit
      <4> QED BY <1>2, <2>4, <4>1, <4>2, OfKnown DEF RequestFits, Known, Tests!Listed
    <3> QED BY <2>5, <3>1, <3>2
  <2>8. Apart(requests')
    BY <1>1, <2>2, <2>3, <2>5 DEF Apart, t
  <2>9. AskedInv'
    <3> SUFFICES ASSUME ~overlapped, AskedFits PROVE AskedFits'
      BY <1>2 DEF TestInv, AskedInv
    <3> QED BY <1>1, <1>2, <2>2, <2>5 DEF AskedFits, Deletion, Tests!Listed
  <2>10. KeptInv'
    <3> SUFFICES ASSUME NEW u \in AllTests, Kept(u) PROVE Kept(u)'
      BY <1>2 DEF TestInv, KeptInv, AllKept, Tests!Listed
    <3>1. CASE u # t
      BY <1>2, <2>2, <2>4, <2>5, <3>1 DEF Kept
    <3>2. CASE u = t
      <4>1. \A q \in requests : q.test = t /\ q.kind \in {"getTest", "commitTest"} => q = r
        BY <1>1, <2>3 DEF TestInv, AllFit, RequestFits, Apart, t
      <4> QED BY <1>2, <2>2, <2>3, <2>4, <2>5, <3>2, <4>1 DEF Kept
    <3> QED BY <3>1, <3>2
  <2>11. LeftInv'
    BY <1>2 DEF TestInv, LeftInv, NothingOpen, Tests!Listed
  <2>12. ASSUME NEW p, Numbered(p) PROVE Numbered(p)'
    <3>1. row[t] # None /\ row[t].number = row'[t].number
      BY <1>1, <2>4, <2>12 DEF Numbered, t
    <3>2. \A u \in AllTests : /\ row'[u] # None <=> row[u] # None
                              /\ row'[u].number = row[u].number
      BY <2>4, <3>1
    <3>3. p \in Seq(AllTests) /\ \A i \in 1..Len(p) : p[i] \in AllTests
      BY <2>12 DEF Numbered
    <3>4. ASSUME NEW q \in requests', q.at = "read"
          PROVE  IF q.kind = "addTest" THEN q.number = Len(p) + 1
                 ELSE row'[q.test] # None /\ row'[q.test].number = q.number
      <4>1. q \in requests
        BY <2>2, <2>5, <3>4
      <4> QED BY <2>12, <3>2, <3>4, <4>1, OfKnown DEF Numbered
    <3> QED BY <2>12, <3>2, <3>3, <3>4 DEF Numbered
  <2>13. NumberInv'
    BY <1>2, <2>12 DEF TestInv, NumberInv
  <2>14. ListInv'
    <3> SUFFICES ASSUME NEW p, Listing(p) PROVE Listing(p)'
      BY <1>2, <2>12 DEF TestInv, ListInv
    <3>1. ~Addition(s) /\ ~Deleted(s) /\ ~Addition(r) /\ ~Deleted(r)
      BY <1>1, <2>2 DEF Addition, Deleted
    <3>2. \A q : q \in requests' /\ Addition(q) <=> q \in requests /\ Addition(q)
      BY <2>1, <3>1
    <3>3. (\E q \in requests' : Deleted(q)) <=> (\E q \in requests : Deleted(q))
      BY <2>1, <3>1
    <3>4. Standing' = Standing
      BY <1>2, <3>3 DEF Standing, Deleted
    <3> QED BY <3>2, <3>4 DEF Listing, Addition
  <2> QED BY <2>6, <2>7, <2>8, <2>9, <2>10, <2>11, <2>13, <2>14 DEF TestInv
<1> QED BY <1>3, <1>4 DEF Tests!CommitWrite

\* A new test comes after all others.
LEMMA TestStored ==
    ASSUME TestInv, NEW r \in requests, Tests!Serve(r), Tests!AddWrite(r)
    PROVE  TestInv'
<1>1. r.kind = "addTest" /\ r.at = "read" /\ r \in Tests!Request
  BY DEF Tests!AddWrite, TestInv, TestTyped
<1>2. UNCHANGED <<test, list, shown, typed, selected, asked, adding, page, loggedIn,
                  removals, faults, confirmed, overlapped, crossed>>
  BY DEF Tests!Serve, Tests!AddWrite, Tests!pageVars, Tests!counters
<1>3. CASE Tests!Answer(r, "failed") /\ UNCHANGED <<row, nextId>>
  BY <1>1, <1>2, <1>3, Failed DEF Unmoved
<1>4. CASE /\ row' = [row EXCEPT ![nextId] = [text |-> EmptyText, number |-> r.number]]
           /\ nextId' = nextId + 1
           /\ Tests!Becomes(r, [r EXCEPT !.at = "ok", !.test = nextId])
  <2>0. PICK t : t = nextId
    OBVIOUS
  <2> DEFINE s == [r EXCEPT !.at = "ok", !.test = t]
             new == [text |-> EmptyText, number |-> r.number]
  <2>1. requests' = (requests \ {r}) \cup {s}
    BY <1>4, <2>0 DEF Tests!Becomes
  <2>2. /\ TestTyped /\ AllFit /\ Apart(requests) /\ adding
        /\ MaxTests \in Nat /\ t \in 1..MaxTests /\ t \in AllTests \ Known
    <3>1. TestTyped /\ RequestFits(r) /\ AllFit /\ Apart(requests)
      BY DEF TestInv, AllFit
    <3>2. t <= MaxTests /\ adding
      BY <1>1, <2>0, <3>1 DEF RequestFits
    <3>3. MaxTests \in Nat /\ t \in 1..(MaxTests + 1)
      BY <2>0, <3>1, TestsAssumption DEF TestTyped
    <3> QED BY <2>0, <3>1, <3>2, <3>3 DEF Known, AllTests
  <2>3. /\ s \in Tests!Request /\ s.kind = "addTest" /\ s.test = t /\ s.at = "ok"
    BY <1>1, <2>2 DEF Tests!Request, Tests!Tests
  <2>4. new \in Tests!Row /\ new # None /\ new.text = EmptyText /\ new.number = r.number
    BY <1>1, TestsAssumption DEF Tests!Row, Tests!Request
  <2>5. row' = [row EXCEPT ![t] = new]
    BY <1>4, <2>0
  <2>6. nextId' = t + 1 /\ Known' = Known \cup {t}
    BY <1>4, <2>0, <2>2 DEF Known
  <2> HIDE DEF s, new
  <2>7. /\ row' \in [AllTests -> Tests!Row \cup {None}]
        /\ row'[t] = new /\ \A u \in AllTests : u # t => row'[u] = row[u]
    BY <2>2, <2>4, <2>5, RowSet
  <2>8. \A q \in requests' : q = s \/ (q \in requests /\ q # r)
    BY <2>1
  <2>9. \A q \in requests : q # r => q.kind # "addTest" /\ q.test \in Known /\ q.test # t
    <3>1. \A q \in requests : q.kind = "addTest" => q = r
      BY <1>1, <2>2 DEF Apart
    <3> QED BY <2>2, <3>1, OfKnown
  <2>10. TestTyped'
    <3>1. nextId' \in 1..(MaxTests + 1)
      BY <2>2, <2>6
    <3>2. requests' \subseteq Tests!Request
      BY <2>1, <2>2, <2>3 DEF TestTyped
    <3>3. \A u \in AllTests \ Known' : row'[u] = None /\ typed[u] = EmptyText
      BY <2>2, <2>6, <2>7 DEF TestTyped
    <3>4. /\ shown \subseteq Known'
          /\ \A i \in DOMAIN list : list[i] \in Known' /\ test[list[i]].index = i - 1
      BY <2>2, <2>6 DEF TestTyped
    <3> QED BY <1>2, <2>2, <2>7, <3>1, <3>2, <3>3, <3>4 DEF TestTyped
  <2>11. AllFit'
    <3> SUFFICES ASSUME NEW q \in requests' PROVE RequestFits(q)'
      BY DEF AllFit
    <3>1. CASE q = s
      <4>1. t \in Known' \ shown /\ typed[t] = EmptyText
        BY <2>2, <2>6 DEF TestTyped
      <4>2. ~Tests!Listed(t)
        BY <2>2, ListedAt DEF TestTyped
      <4>3. ~Tests!Listed(t)'
        BY <1>2, <4>2 DEF Tests!Listed
      <4> QED BY <1>2, <2>2, <2>3, <2>4, <2>7, <3>1, <4>1, <4>3 DEF RequestFits
    <3>2. CASE q \in requests /\ q # r
      <4>1. RequestFits(q) /\ q.kind # "addTest"
        BY <2>2, <2>9, <3>2 DEF AllFit
      <4> QED BY <1>2, <2>6, <4>1 DEF RequestFits
    <3> QED BY <2>8, <3>1, <3>2
  <2>12. Apart(requests')
    BY <2>2, <2>3, <2>8, <2>9 DEF Apart
  <2>13. AskedInv'
    <3> SUFFICES ASSUME ~overlapped, AskedFits PROVE AskedFits'
      BY <1>2 DEF TestInv, AskedInv
    <3> QED BY <1>1, <1>2, <2>3, <2>8 DEF AskedFits, Deletion, Tests!Listed
  <2>14. KeptInv'
    <3> SUFFICES ASSUME NEW u \in AllTests, Tests!Listed(u), Kept(u) PROVE Kept(u)'
      BY <1>2 DEF TestInv, KeptInv, AllKept, Tests!Listed
    <3>1. u # t
      BY <2>2, ListedAt DEF TestTyped
    <3> QED BY <1>2, <2>3, <2>7, <2>8, <3>1 DEF Kept
  <2>15. LeftInv'
    BY <1>2 DEF TestInv, LeftInv, NothingOpen, Tests!Listed
  <2>16. ASSUME NEW p, Numbered(p) PROVE Numbered(Append(p, t))'
    <3>1. p \in Seq(AllTests) /\ Len(p) \in Nat /\ \A i \in 1..Len(p) : p[i] \in AllTests
      BY <2>16 DEF Numbered
    <3> DEFINE a == Append(p, t)
    <3>2. /\ a \in Seq(AllTests) /\ Len(a) = Len(p) + 1 /\ a[Len(p) + 1] = t
          /\ \A i \in 1..Len(p) : a[i] = p[i]
      BY <2>2, <3>1
    <3> HIDE DEF a
    <3>3. \A i \in 1..Len(p) : p[i] # t
      BY <2>2, <2>16, <3>1 DEF Numbered, TestTyped
    <3>4. r.number = Len(p) + 1
      BY <1>1, <2>16 DEF Numbered
    <3>5. \A i \in 1..Len(a) : row'[a[i]].number = i
      <4> SUFFICES ASSUME NEW i \in 1..Len(a) PROVE row'[a[i]].number = i
        OBVIOUS
      <4>1. CASE i = Len(p) + 1
        BY <2>4, <2>7, <3>2, <3>4, <4>1
      <4>2. CASE i \in 1..Len(p)
        BY <2>7, <2>16, <3>1, <3>2, <3>3, <4>2 DEF Numbered
      <4> QED BY <3>1, <3>2, <4>1, <4>2
    <3>6. \A u \in AllTests : row'[u] # None <=> \E i \in 1..Len(a) : a[i] = u
      <4> SUFFICES ASSUME NEW u \in AllTests
                   PROVE  row'[u] # None <=> \E i \in 1..Len(a) : a[i] = u
        OBVIOUS
      <4>1. Len(p) + 1 \in 1..Len(a) /\ \A i \in 1..Len(p) : i \in 1..Len(a)
        BY <3>1, <3>2
      <4>2. CASE u = t
        BY <2>4, <2>7, <3>2, <4>1, <4>2
      <4>3. CASE u # t
        <5>1. \A i \in 1..Len(a) : a[i] = u => i \in 1..Len(p)
          BY <3>1, <3>2, <4>3
        <5> QED BY <2>7, <2>16, <3>2, <4>1, <4>3, <5>1 DEF Numbered
      <4> QED BY <4>2, <4>3
    <3>7. ASSUME NEW q \in requests', q.at = "read"
          PROVE  /\ q.kind # "addTest"
                 /\ row'[q.test] # None /\ row'[q.test].number = q.number
      <4>1. q \in requests /\ q # r
        BY <2>3, <2>8, <3>7
      <4> QED BY <2>7, <2>9, <2>16, <3>7, <4>1, OfKnown DEF Numbered
    <3>8. Numbered(a)'
      BY <1>2, <2>6, <3>2, <3>5, <3>6, <3>7 DEF Numbered, a
    <3> QED BY <3>8, <1>2 DEF a
  <2>17. NumberInv'
    BY <1>2, <2>16 DEF TestInv, NumberInv
  <2>18. ListInv'
    <3> SUFFICES ASSUME NEW p, Listing(p) PROVE Listing(Append(p, t))'
      BY <1>2, <2>16 DEF TestInv, ListInv
    <3>1. ~Deleted(s) /\ Addition(s) /\ ~Addition(r) /\ ~Deleted(r)
      BY <1>1, <2>3 DEF Addition, Deleted
    <3>2. \A q \in requests : ~Addition(q)
      BY <2>9, <3>1 DEF Addition
    <3>3. \A q \in requests' : Addition(q) => q = s
      BY <2>8, <3>2
    <3>4. (\E q \in requests' : Deleted(q)) <=> (\E q \in requests : Deleted(q))
      BY <2>1, <3>1
    <3>5. Standing' = Standing
      BY <1>2, <3>4 DEF Standing, Deleted
    <3>6. s \in requests'
      BY <2>1
    <3> QED BY <2>3, <3>1, <3>2, <3>3, <3>5, <3>6 DEF Listing, Addition
  <2> QED BY <2>10, <2>11, <2>12, <2>13, <2>14, <2>15, <2>17, <2>18 DEF TestInv
<1> QED BY <1>3, <1>4 DEF Tests!AddWrite

\* The tests after the deleted one count one less.
LEMMA Renumbers ==
    ASSUME TestTyped, NEW t \in AllTests, row[t] # None, row' = Tests!Renumbered(t)
    PROVE  /\ row' \in [AllTests -> Tests!Row \cup {None}]
           /\ \A u \in AllTests : row'[u] # None <=> row[u] # None /\ u # t
           /\ \A u \in AllTests : row'[u] # None =>
                /\ row'[u].text = row[u].text
                /\ row'[u].number = IF row[u].number > row[t].number
                                    THEN row[u].number - 1 ELSE row[u].number
<1>1. row' = [u \in AllTests |->
                IF u = t THEN None
                ELSE IF row[u] # None /\ row[u].number > row[t].number
                     THEN [row[u] EXCEPT !.number = row[u].number - 1]
                     ELSE row[u]]
  BY DEF Tests!Renumbered, Tests!Tests, Tests!Rows, AllTests
<1>2. \A u \in AllTests : row[u] # None => row[u] \in Tests!Row
  BY DEF TestTyped
<1>3. None \notin Tests!Row
  BY TestsAssumption DEF Tests!Row
<1>4. ASSUME NEW u \in AllTests, u # t, row[u] # None
      PROVE  /\ row'[u] \in Tests!Row /\ row'[u].text = row[u].text
             /\ row'[u].number = IF row[u].number > row[t].number
                                 THEN row[u].number - 1 ELSE row[u].number
  <2>1. /\ row[u] \in Tests!Row /\ row[u].number \in Nat /\ row[t].number \in Nat
    BY <1>2, <1>4 DEF Tests!Row
  <2>2. CASE row[u].number > row[t].number
    <3>1. row'[u] = [row[u] EXCEPT !.number = row[u].number - 1]
      BY <1>1, <1>4, <2>2
    <3>2. row[u].number - 1 \in Nat
      BY <2>1, <2>2
    <3> QED BY <2>1, <2>2, <3>1, <3>2 DEF Tests!Row
  <2>3. CASE ~(row[u].number > row[t].number)
    <3>1. row'[u] = row[u]
      BY <1>1, <1>4, <2>3
    <3> QED BY <2>1, <2>3, <3>1 DEF Tests!Row
  <2> QED BY <2>2, <2>3
<1>5. row'[t] = None /\ \A u \in AllTests : row[u] = None => row'[u] = None
  BY <1>1
<1>6. \A u \in AllTests : row'[u] \in Tests!Row \cup {None}
  BY <1>4, <1>5
<1>7. row' \in [AllTests -> Tests!Row \cup {None}]
  BY <1>1, <1>6
<1> QED BY <1>3, <1>4, <1>5, <1>7

\* RemoveAt, as above.
LEMMA RemovedAt ==
    ASSUME NEW T, NEW s \in Seq(T), NEW i \in 1..Len(s)
    PROVE  LET r == Tests!RemoveAt(s, i) IN
           /\ r \in Seq(T) /\ Len(r) = Len(s) - 1 /\ Len(r) \in Nat
           /\ \A j \in 1..Len(r) : r[j] = IF j < i THEN s[j] ELSE s[j + 1]
<1>1. Tests!RemoveAt(s, i) = Contest!RemoveAt(s, i)
  BY DEF Tests!RemoveAt, Contest!RemoveAt
<1>2. Len(s) \in Nat
  OBVIOUS
<1> QED BY <1>1, <1>2, Removed

\* What is appended stays at the end.
LEMMA RemovedBefore ==
    ASSUME NEW T, NEW s \in Seq(T), NEW i \in 1..Len(s), NEW x \in T
    PROVE  Tests!RemoveAt(Append(s, x), i) = Append(Tests!RemoveAt(s, i), x)
<1> DEFINE a == Append(s, x)
           r == Tests!RemoveAt(s, i)
           q == Tests!RemoveAt(a, i)
           b == Append(r, x)
           n == Len(s)
<1>1. /\ a \in Seq(T) /\ Len(a) = n + 1 /\ n \in Nat /\ i \in 1..n
      /\ a[n + 1] = x /\ \A j \in 1..n : a[j] = s[j]
  OBVIOUS
<1> HIDE DEF a
<1>2. /\ q \in Seq(T) /\ Len(q) = n
      /\ \A j \in 1..n : q[j] = IF j < i THEN a[j] ELSE a[j + 1]
  <2>1. i \in 1..Len(a)
    BY <1>1
  <2>2. /\ q \in Seq(T) /\ Len(q) = Len(a) - 1
        /\ \A j \in 1..Len(q) : q[j] = IF j < i THEN a[j] ELSE a[j + 1]
    BY <1>1, <2>1, RemovedAt
  <2> QED BY <1>1, <2>2
<1>3. /\ r \in Seq(T) /\ Len(r) = n - 1
      /\ \A j \in 1..(n - 1) : r[j] = IF j < i THEN s[j] ELSE s[j + 1]
  BY RemovedAt
<1> HIDE DEF q, r
<1>4. /\ b \in Seq(T) /\ Len(b) = n
      /\ b[n] = x /\ \A j \in 1..(n - 1) : b[j] = r[j]
  BY <1>1, <1>3
<1> HIDE DEF b, n
<1>5. ASSUME NEW j \in 1..n PROVE q[j] = b[j]
  <2>1. CASE j = n
    BY <1>1, <1>2, <1>4, <2>1
  <2>2. CASE j \in 1..(n - 1)
    <3>1. j \in 1..n /\ j + 1 \in 1..n
      BY <1>1, <2>2
    <3> QED BY <1>1, <1>2, <1>3, <1>4, <2>2, <3>1
  <2> QED BY <1>1, <2>1, <2>2
<1>6. q = b
  BY <1>2, <1>4, <1>5
<1> QED BY <1>6 DEF a, b, q, r

\* The sequence without the deleted test has the others in order.
LEMMA NumberedLess ==
    ASSUME TestTyped, NEW p, Numbered(p), NEW k \in 1..Len(p), NEW t \in AllTests, p[k] = t,
           row' = Tests!Renumbered(t), \A q \in requests' : q.at # "read"
    PROVE  Numbered(Tests!RemoveAt(p, k))'
<1> DEFINE n == Len(p)
           s == Tests!RemoveAt(p, k)
<1>1. /\ p \in Seq(AllTests) /\ n \in Nat /\ \A i \in 1..n : p[i] \in AllTests
      /\ row[t] # None /\ row[t].number = k
  BY DEF Numbered
<1>2. /\ s \in Seq(AllTests) /\ Len(s) = n - 1
      /\ \A i \in 1..(n - 1) : s[i] = IF i < k THEN p[i] ELSE p[i + 1]
  BY <1>1, RemovedAt
<1> HIDE DEF s
<1>3. /\ \A u \in AllTests : row'[u] # None <=> row[u] # None /\ u # t
      /\ \A u \in AllTests : row'[u] # None =>
           row'[u].number = IF row[u].number > k THEN row[u].number - 1 ELSE row[u].number
  BY <1>1, Renumbers
<1>4. \A i \in 1..n : /\ row[p[i]] # None /\ row[p[i]].number = i
                      /\ p[i] = t => i = k
  BY <1>1 DEF Numbered
<1> HIDE DEF n
<1>5. ASSUME NEW i \in 1..(n - 1) PROVE row'[s[i]] # None /\ row'[s[i]].number = i
  <2>1. i \in 1..n /\ i + 1 \in 1..n /\ k \in 1..n
    BY <1>1 DEF n
  <2>2. CASE i < k
    <3>1. s[i] = p[i]
      BY <1>2, <2>2
    <3> QED BY <1>1, <1>3, <1>4, <2>1, <2>2, <3>1
  <2>3. CASE ~(i < k)
    <3>1. s[i] = p[i + 1]
      BY <1>2, <2>3
    <3>2. p[i + 1] # t /\ p[i + 1] \in AllTests /\ row[p[i + 1]].number = i + 1 /\ i + 1 > k
      BY <1>1, <1>4, <2>1, <2>3
    <3>3. row'[p[i + 1]] # None /\ row'[p[i + 1]].number = (i + 1) - 1
      BY <1>3, <1>4, <2>1, <3>2
    <3> QED BY <3>1, <3>3
  <2> QED BY <2>2, <2>3
<1>6. ASSUME NEW u \in AllTests, row'[u] # None PROVE \E i \in 1..(n - 1) : s[i] = u
  <2>1. PICK j \in 1..n : p[j] = u
    BY <1>3, <1>6 DEF Numbered, n
  <2>2. j # k
    BY <1>3, <1>6, <2>1
  <2>3. CASE j < k
    <3>1. j \in 1..(n - 1)
      BY <1>1, <2>3 DEF n
    <3> QED BY <1>2, <2>1, <2>3, <3>1
  <2>4. CASE j > k
    <3>1. j - 1 \in 1..(n - 1) /\ ~(j - 1 < k) /\ (j - 1) + 1 = j
      BY <1>1, <2>4 DEF n
    <3>2. s[j - 1] = p[j]
      BY <1>2, <3>1
    <3> QED BY <2>1, <3>1, <3>2
  <2> QED BY <1>1, <2>2, <2>3, <2>4 DEF n
<1>7. \A i \in 1..(n - 1) : s[i] \in AllTests
  BY <1>2
<1>8. Numbered(s)'
  <2>1. \A q \in requests' : q.at = "read" => FALSE
    OBVIOUS
  <2>2. \A u \in AllTests : row'[u] # None <=> \E i \in 1..Len(s) : s[i] = u
    BY <1>2, <1>5, <1>6
  <2>3. \A i \in 1..Len(s) : row'[s[i]].number = i
    BY <1>2, <1>5
  <2> QED BY <1>2, <2>1, <2>2, <2>3 DEF Numbered, s
<1> QED BY <1>8 DEF s

\* A test is deleted.
LEMMA TestDeleted ==
    ASSUME TestInv, NEW r \in requests, Tests!Serve(r), Tests!DeleteTest(r)
    PROVE  TestInv'
<1>1. r.kind = "deleteTest" /\ r.at = "sent" /\ r \in Tests!Request
  BY DEF Tests!DeleteTest, TestInv, TestTyped
<1>2. UNCHANGED <<test, list, shown, typed, selected, asked, adding, page, nextId, loggedIn,
                  removals, faults, confirmed, overlapped>>
  BY DEF Tests!Serve, Tests!DeleteTest, Tests!pageVars, Tests!counters
<1>3. CASE Tests!Answer(r, "failed") /\ UNCHANGED <<row, crossed>>
  BY <1>1, <1>2, <1>3, Failed DEF Unmoved
<1>4. CASE Tests!Denied(r) /\ ~loggedIn /\ UNCHANGED <<row, crossed>>
  BY <1>1, <1>2, <1>4, Denied DEF Unmoved
<1>5. CASE /\ row[r.test] # None /\ row' = Tests!Renumbered(r.test)
           /\ crossed' = (crossed \/ \E q \in requests : q.at = "read")
           /\ Tests!Answer(r, "ok")
  <2> DEFINE s == [r EXCEPT !.at = "ok"]
             t == r.test
  <2>1. requests' = (requests \ {r}) \cup {s}
    BY <1>5 DEF Tests!Answer, Tests!Becomes
  <2>2. /\ s \in Tests!Request /\ s.kind = "deleteTest" /\ s.test = t
        /\ s.text = r.text /\ s.at = "ok"
    BY <1>1, AnswerIs
  <2> HIDE DEF s
  <2>3. TestTyped /\ Apart(requests) /\ t \in Known /\ t \in AllTests
    BY <1>1, OfKnown DEF TestInv
  <2>4. /\ row' \in [AllTests -> Tests!Row \cup {None}]
        /\ \A u \in AllTests : row'[u] # None <=> row[u] # None /\ u # t
        /\ \A u \in AllTests : row'[u] # None => row'[u].text = row[u].text
    BY <1>5, <2>3, Renumbers
  <2> HIDE DEF t
  <2>5. \A q \in requests' : q = s \/ (q \in requests /\ q # r)
    BY <2>1
  <2>6. TestTyped'
    <3>1. \A u \in AllTests \ Known' : row'[u] = None /\ typed'[u] = EmptyText
      BY <1>2, <2>3, <2>4 DEF TestTyped, Known
    <3> QED BY <1>2, <2>1, <2>2, <2>3, <2>4, <3>1 DEF TestTyped, Known
  <2>7. AllFit'
    <3> SUFFICES ASSUME NEW q \in requests' PROVE RequestFits(q)'
      BY DEF AllFit
    <3>1. CASE q = s
      BY <1>2, <2>2, <2>3, <3>1 DEF RequestFits, Known
    <3>2. CASE q \in requests
      <4>1. q.kind = "addTest" /\ q.at = "ok" => q.test # t
        BY <1>1, <2>3, <3>2 DEF Apart, t
      <4>2. RequestFits(q)
        BY <3>2 DEF TestInv, AllFit
      <4> QED BY <1>2, <2>4, <4>1, <4>2, OfKnown DEF RequestFits, Known, Tests!Listed
    <3> QED BY <2>5, <3>1, <3>2
  <2>8. Apart(requests')
    BY <1>1, <2>2, <2>3, <2>5 DEF Apart, t
  <2>9. AskedInv'
    <3> SUFFICES ASSUME ~overlapped, AskedFits PROVE AskedFits'
      BY <1>2 DEF TestInv, AskedInv
    <3> QED BY <1>1, <1>2, <2>2, <2>5 DEF AskedFits, Deletion, Tests!Listed, t
  <2>10. KeptInv'
    <3> SUFFICES ASSUME ~overlapped, NEW u \in AllTests, u \notin confirmed, Kept(u) PROVE Kept(u)'
      BY <1>2 DEF TestInv, KeptInv, AllKept, Tests!Listed
    <3>1. t \in confirmed
      BY <1>1 DEF TestInv, AskedInv, AskedFits, Deletion, t
    <3>2. row'[u] # None /\ row'[u].text = row[u].text
      BY <2>4, <3>1 DEF Kept
    <3> QED BY <1>2, <2>2, <2>5, <3>2 DEF Kept
  <2>11. LeftInv'
    BY <1>2 DEF TestInv, LeftInv, NothingOpen, Tests!Listed
  <2>12. ASSUME ~crossed', NEW p, Numbered(p), NEW k \in 1..Len(p), p[k] = t
         PROVE  Numbered(Tests!RemoveAt(p, k))'
    <3>1. \A q \in requests' : q.at # "read"
      BY <1>5, <2>2, <2>5, <2>12
    <3>2. row' = Tests!Renumbered(t)
      BY <1>5 DEF t
    <3> QED BY <2>3, <2>12, <3>1, <3>2, NumberedLess
  <2>13. \A p : Numbered(p) => \E k \in 1..Len(p) : p[k] = t
    BY <1>5, <2>3 DEF Numbered, t
  <2>14. NumberInv'
    <3> SUFFICES ASSUME ~crossed', NEW p, Numbered(p) PROVE \E s_ : Numbered(s_)'
      BY <1>5 DEF TestInv, NumberInv
    <3> QED BY <2>12, <2>13
  <2>15. ListInv'
    <3> SUFFICES ASSUME ~crossed', ~overlapped, loggedIn, NEW p, Numbered(p), Listing(p)
                 PROVE  \E s_ : Numbered(s_)' /\ Listing(s_)'
      BY <1>2, <1>5 DEF TestInv, ListInv
    <3>1. /\ selected \in 1..Len(list) /\ list[selected] = t /\ list \in Seq(AllTests)
          /\ \A q \in requests : Deletion(q) => q = r
      BY <1>1, <2>3 DEF TestInv, AskedInv, AskedFits, Deletion, TestTyped, t
    <3>2. \A q \in requests : ~Deleted(q)
      BY <1>1, <3>1 DEF Deleted, Deletion
    <3>3. Standing = list
      BY <3>2 DEF Standing
    <3>4. \E q \in requests' : Deleted(q)
      BY <2>1, <2>2 DEF Deleted
    <3>5. Standing' = Tests!RemoveAt(list, selected)
      BY <1>2, <3>4 DEF Standing, Deleted
    <3>6. \A q : q \in requests' /\ Addition(q) <=> q \in requests /\ Addition(q)
      BY <1>1, <2>1, <2>2 DEF Addition
    <3>7. CASE \A q \in requests : ~Addition(q)
      <4>1. p = list
        BY <3>3, <3>7 DEF Listing
      <4>2. PICK k : k = selected
        OBVIOUS
      <4>3. Numbered(Tests!RemoveAt(p, k))'
        BY <2>12, <3>1, <4>1, <4>2
      <4>4. \A q \in requests' : ~Addition(q)
        BY <3>6, <3>7
      <4>5. Listing(Tests!RemoveAt(p, k))'
        BY <1>2, <3>5, <4>1, <4>2, <4>4 DEF Listing, Addition
      <4> QED BY <4>3, <4>5
    <3>8. ASSUME NEW a \in requests, Addition(a) PROVE \E s_ : Numbered(s_)' /\ Listing(s_)'
      <4>1. p = Append(list, a.test) /\ a.test \in AllTests
        <5>1. a.test \in Known
          BY <3>8 DEF TestInv, AllFit, RequestFits, Addition
        <5> QED BY <3>3, <3>8, <5>1, OfKnown DEF Listing
      <4>2. selected \in 1..Len(p) /\ p[selected] = t
        BY <3>1, <4>1
      <4>3. PICK k : k = selected
        OBVIOUS
      <4>4. Numbered(Tests!RemoveAt(p, k))'
        BY <2>12, <4>2, <4>3
      <4>5. Tests!RemoveAt(p, k) = Append(Tests!RemoveAt(list, k), a.test)
        BY <3>1, <4>1, <4>3, RemovedBefore
      <4>6. \A q \in requests' : Addition(q) => q = a
        BY <2>3, <3>6, <3>8 DEF Apart, Addition
      <4>7. a \in requests' /\ Addition(a)
        BY <3>6, <3>8
      <4>8. Listing(Tests!RemoveAt(p, k))'
        BY <1>2, <3>5, <4>3, <4>5, <4>6, <4>7 DEF Listing, Addition
      <4> QED BY <4>4, <4>8
    <3> QED BY <3>7, <3>8
  <2> QED BY <2>6, <2>7, <2>8, <2>9, <2>10, <2>11, <2>14, <2>15 DEF TestInv
<1> QED BY <1>3, <1>4, <1>5 DEF Tests!DeleteTest

\* A connection breaks.
LEMMA Broken == ASSUME TestInv, NEW r \in requests, Tests!Break(r) PROVE TestInv'
<1>1. /\ Tests!Answer(r, "failed") /\ Unmoved /\ faults' = faults + 1
  BY DEF Tests!Break, Tests!pageVars, Tests!serverVars, Tests!history, Unmoved
<1> QED BY <1>1, Failed

\* The session expires.
LEMMA Expired == ASSUME TestInv, Tests!Expire PROVE TestInv'
<1>1. /\ UNCHANGED <<test, list, shown, typed, selected, asked, adding, page, requests, row,
                     nextId, removals, confirmed, overlapped, crossed>>
      /\ faults' = faults + 1 /\ ~loggedIn'
  BY DEF Tests!Expire, Tests!pageVars, Tests!serverVars, Tests!history
<1>2. TestTyped' /\ AllFit' /\ Apart(requests')
  BY <1>1 DEF TestInv, TestTyped, AllFit, RequestFits, Known, Tests!Listed
<1>3. AskedInv' /\ LeftInv'
  BY <1>1 DEF TestInv, AskedInv, AskedFits, LeftInv, NothingOpen, Tests!Listed
<1>4. NumberInv'
  BY <1>1 DEF TestInv, NumberInv, Numbered
<1>5. KeptInv' /\ ListInv'
  BY <1>1 DEF TestInv, TestTyped, KeptInv, ListInv
<1> QED BY <1>2, <1>3, <1>4, <1>5 DEF TestInv

\* Steps that leave the tables and the list, and what requests say of them.
LEMMA TablesStay ==
    ASSUME TestInv, UNCHANGED <<list, row, faults, loggedIn, crossed>>,
           overlapped => overlapped',
           selected' = selected \/ overlapped' \/ \A q \in requests : ~Deleted(q),
           \A q \in requests' : q.at = "read" \/ Addition(q) \/ Deleted(q) => q \in requests,
           \A q \in requests : Addition(q) \/ Deleted(q) => q \in requests'
    PROVE  NumberInv' /\ ListInv'
<1>1. ASSUME NEW p, Numbered(p) PROVE Numbered(p)'
  BY <1>1 DEF Numbered
<1>2. NumberInv'
  BY <1>1 DEF TestInv, NumberInv
<1>3. ListInv'
  <2> SUFFICES ASSUME ~overlapped', NEW p, Listing(p) PROVE Listing(p)'
    BY <1>1 DEF TestInv, ListInv
  <2>1. (\E q \in requests' : Deleted(q)) <=> (\E q \in requests : Deleted(q))
    OBVIOUS
  <2>2. Standing' = Standing
    BY <2>1 DEF Standing, Deleted
  <2>3. \A q : q \in requests' /\ Addition(q) <=> q \in requests /\ Addition(q)
    OBVIOUS
  <2> QED BY <2>2, <2>3 DEF Listing, Addition
<1> QED BY <1>2, <1>3

\* Steps that leave the list and the dialog.
LEMMA DialogStays ==
    ASSUME TestInv, UNCHANGED <<list, shown, asked, selected, overlapped, confirmed>>,
           \A q \in requests' : Deletion(q) => q \in requests
    PROVE  AskedInv'
<1> SUFFICES ASSUME ~overlapped, AskedFits PROVE AskedFits'
  BY DEF TestInv, AskedInv
<1> QED BY DEF AskedFits, Deletion, Tests!Listed

\* A test object that gets another state or message.
LEMMA StateSet ==
    ASSUME TestTyped, NEW t \in AllTests, NEW new \in Tests!TestObject,
           new.index = test[t].index, test' = [test EXCEPT ![t] = new]
    PROVE  /\ test' \in [AllTests -> Tests!TestObject] /\ test'[t] = new
           /\ \A u \in AllTests : u # t => test'[u] = test[u]
           /\ \A u \in AllTests : test'[u].index = test[u].index
<1>1. test \in [AllTests -> Tests!TestObject]
  BY DEF TestTyped
<1>2. /\ test' \in [AllTests -> Tests!TestObject] /\ test'[t] = new
      /\ \A u \in AllTests : u # t => test'[u] = test[u]
  BY <1>1
<1> QED BY <1>2

\* What is listed is known.
LEMMA ListedKnown ==
    ASSUME TestInv PROVE \A t : Tests!Listed(t) => t \in Known /\ t \in AllTests
  BY ListedAt, OfKnown DEF TestInv, TestTyped

\* A text is edited.
LEMMA Edited ==
    ASSUME TestInv, NEW t \in AllTests, NEW x \in TestTexts, Tests!Edit(t, x) PROVE TestInv'
<1>1. /\ UNCHANGED <<list, shown, selected, asked, adding, page, requests, row, nextId,
                     loggedIn, removals, faults, confirmed, overlapped, crossed>>
      /\ t \in shown /\ page = "open" /\ test[t].state \in {"Saved", "NotSaved"}
      /\ typed' = [typed EXCEPT ![t] = x]
      /\ test' = IF Tests!Listed(t) THEN [test EXCEPT ![t].state = "NotSaved"] ELSE test
  BY DEF Tests!Edit, Tests!Panel, Tests!Free, Tests!updateView, Tests!serverVars, Tests!history
<1>2. /\ TestTyped /\ t \in Known
      /\ test \in [AllTests -> Tests!TestObject] /\ typed \in [AllTests -> TestTexts]
  BY <1>1 DEF TestInv, TestTyped
<1>3. /\ typed' \in [AllTests -> TestTexts] /\ typed'[t] = x
      /\ \A u \in AllTests : u # t => typed'[u] = typed[u]
  BY <1>1, <1>2
<1>4. /\ test' \in [AllTests -> Tests!TestObject]
      /\ \A u \in AllTests : u # t => test'[u] = test[u]
      /\ \A u \in AllTests : test'[u].index = test[u].index
      /\ Tests!Listed(t) => test'[t].state = "NotSaved"
  <2>1. CASE Tests!Listed(t)
    <3> DEFINE new == [test[t] EXCEPT !.state = "NotSaved"]
    <3>1. new \in Tests!TestObject /\ new.index = test[t].index /\ new.state = "NotSaved"
      BY <1>2 DEF Tests!TestObject, Tests!SaveLoadState
    <3>2. test' = [test EXCEPT ![t] = new]
      BY <1>1, <1>2, <2>1
    <3> HIDE DEF new
    <3> QED BY <1>2, <3>1, <3>2, StateSet
  <2>2. CASE ~Tests!Listed(t)
    BY <1>1, <1>2, <2>2
  <2> QED BY <2>1, <2>2
<1>5. \A q \in requests : q.kind \in {"getTest", "commitTest"} => q.test # t
  BY <1>1 DEF TestInv, AllFit, RequestFits
<1>6. TestTyped'
  <2>1. Known \subseteq AllTests /\ t \notin AllTests \ Known
    BY <1>2, OfKnown
  <2>2. \A i \in DOMAIN list : list[i] \in AllTests
    BY <1>2, <2>1 DEF TestTyped
  <2> QED BY <1>1, <1>2, <1>3, <1>4, <2>1, <2>2 DEF TestTyped, Known
<1>7. AllFit'
  <2> SUFFICES ASSUME NEW q \in requests PROVE RequestFits(q)'
    BY <1>1 DEF AllFit
  <2>1. RequestFits(q)
    BY DEF TestInv, AllFit
  <2>2. q.kind = "addTest" /\ q.at = "ok" => q.test # t /\ q.test \in AllTests
    BY <1>1, <2>1, OfKnown DEF RequestFits
  <2>3. q.kind # "addTest" => q.test \in AllTests
    BY OfKnown
  <2> QED BY <1>1, <1>3, <1>4, <1>5, <2>1, <2>2, <2>3 DEF RequestFits, Known, Tests!Listed
<1>8. Apart(requests')
  BY <1>1 DEF TestInv
<1>9. AskedInv' /\ NumberInv' /\ ListInv'
  BY <1>1, DialogStays, TablesStay
<1>10. KeptInv'
  <2> SUFFICES ASSUME NEW u \in AllTests, Tests!Listed(u), Kept(u) PROVE Kept(u)'
    BY <1>1 DEF TestInv, KeptInv, AllKept, Tests!Listed
  <2>1. CASE u = t
    BY <1>1, <1>4, <1>5, <2>1 DEF Kept
  <2>2. CASE u # t
    BY <1>1, <1>3, <1>4, <2>2 DEF Kept
  <2> QED BY <2>1, <2>2
<1>11. LeftInv'
  BY <1>1 DEF LeftInv
<1> QED BY <1>6, <1>7, <1>8, <1>9, <1>10, <1>11 DEF TestInv

\* The page asks for the text of a test, or to store it.
LEMMA Called ==
    ASSUME TestInv, NEW t \in AllTests, Tests!Listed(t), page = "open",
           NEW new \in Tests!TestObject, new.index = test[t].index,
           test' = [test EXCEPT ![t] = new],
           NEW s \in Tests!Request, s.at = "sent", s.test = t, requests' = requests \cup {s},
           \/ s.kind = "getTest" /\ test[t].state = "NotLoaded" /\ new.state = "Loading"
           \/ /\ s.kind = "commitTest" /\ test[t].state = "NotSaved" /\ new.state = "Saving"
              /\ s.text = typed[t],
           UNCHANGED <<list, shown, typed, selected, asked, adding, page, row, nextId, loggedIn,
                       removals, faults, confirmed, overlapped, crossed>>
    PROVE  TestInv'
<1>1. TestTyped /\ t \in Known
  BY ListedKnown DEF TestInv
<1>2. /\ test' \in [AllTests -> Tests!TestObject] /\ test'[t] = new
      /\ \A u \in AllTests : u # t => test'[u] = test[u]
      /\ \A u \in AllTests : test'[u].index = test[u].index
  BY <1>1, StateSet
<1>3. \A q \in requests : q.kind \in {"getTest", "commitTest"} => q.test # t
  BY DEF TestInv, AllFit, RequestFits
<1>4. s.kind \in {"getTest", "commitTest"} /\ ~Addition(s) /\ ~Deleted(s) /\ ~Deletion(s)
  BY DEF Addition, Deleted, Deletion
<1>5. TestTyped'
  <2>1. \A i \in DOMAIN list : list[i] \in AllTests
    BY <1>1, OfKnown DEF TestTyped
  <2> QED BY <1>1, <1>2, <2>1 DEF TestTyped, Known
<1>6. AllFit'
  <2> SUFFICES ASSUME NEW q \in requests' PROVE RequestFits(q)'
    BY DEF AllFit
  <2>1. CASE q = s
    BY <1>1, <1>2, <1>4, <2>1 DEF RequestFits, Known
  <2>2. CASE q \in requests
    <3>1. RequestFits(q)
      BY <2>2 DEF TestInv, AllFit
    <3>2. q.kind # "addTest" => q.test \in AllTests
      BY <2>2, OfKnown
    <3> QED BY <1>2, <1>3, <2>2, <3>1, <3>2 DEF RequestFits, Known, Tests!Listed
  <2> QED BY <2>1, <2>2
<1>7. Apart(requests')
  <2>1. \A q \in requests : Addition(q) => q.test # t
    BY DEF TestInv, AllFit, RequestFits, Addition
  <2>2. Apart(requests)
    BY DEF TestInv
  <2> QED BY <1>3, <1>4, <2>1, <2>2 DEF Apart, Addition
<1>8. AskedInv'
  <2>1. \A q \in requests' : Deletion(q) => q \in requests
    BY <1>4
  <2> QED BY <2>1, DialogStays
<1>9. NumberInv' /\ ListInv'
  <2>1. \A q \in requests' : q.at = "read" \/ Addition(q) \/ Deleted(q) => q \in requests
    BY <1>4
  <2> QED BY <2>1, TablesStay
<1>10. KeptInv'
  <2> SUFFICES ASSUME NEW u \in AllTests, Tests!Listed(u), Kept(u) PROVE Kept(u)'
    BY DEF TestInv, KeptInv, AllKept, Tests!Listed
  <2>1. u = t => test'[u].state # "Saved"
    BY <1>2
  <2>2. u # t => test'[u] = test[u]
    BY <1>2
  <2> QED BY <2>1, <2>2 DEF Kept
<1>11. LeftInv'
  BY DEF LeftInv
<1> QED BY <1>5, <1>6, <1>7, <1>8, <1>9, <1>10, <1>11 DEF TestInv

\* The two buttons that do so.
LEMMA LoadOrSave ==
    ASSUME TestInv, NEW t \in AllTests, Tests!Load(t) \/ Tests!Save(t) PROVE TestInv'
<1>1. TestTyped /\ test \in [AllTests -> Tests!TestObject] /\ test[t] \in Tests!TestObject
      /\ typed[t] \in TestTexts
  BY DEF TestInv, TestTyped
<1>2. CASE Tests!Load(t)
  <2> DEFINE new == [test[t] EXCEPT !.state = "Loading", !.error = "NoError"]
             s == [kind |-> "getTest", test |-> t, text |-> None, number |-> 0, at |-> "sent",
                   ticket |-> 0]
  <2>1. /\ Tests!Listed(t) /\ page = "open" /\ test[t].state = "NotLoaded"
        /\ UNCHANGED <<list, shown, typed, selected, asked, adding, page, row, nextId,
                       loggedIn, removals, faults, confirmed, overlapped, crossed>>
        /\ requests' = requests \cup {s}
    BY <1>2 DEF Tests!Load, Tests!Panel, Tests!Free, Tests!Send, Tests!serverVars,
       Tests!counters, Tests!history
  <2>2. new \in Tests!TestObject /\ new.index = test[t].index /\ new.state = "Loading"
    BY <1>1 DEF Tests!TestObject, Tests!SaveLoadState
  <2>3. test' = [test EXCEPT ![t] = new]
    BY <1>1, <1>2 DEF Tests!Load
  <2>4. s \in Tests!Request /\ s.kind = "getTest" /\ s.at = "sent" /\ s.test = t
    BY DEF Tests!Request, Tests!Tests, AllTests
  <2> HIDE DEF new, s
  <2> QED BY <2>1, <2>2, <2>3, <2>4, Called
<1>3. CASE Tests!Save(t)
  <2> DEFINE new == [test[t] EXCEPT !.state = "Saving", !.error = "NoError"]
             s == [kind |-> "commitTest", test |-> t, text |-> typed[t], number |-> 0,
                   at |-> "sent", ticket |-> 0]
  <2>1. /\ Tests!Listed(t) /\ page = "open" /\ test[t].state = "NotSaved"
        /\ UNCHANGED <<list, shown, typed, selected, asked, adding, page, row, nextId,
                       loggedIn, removals, faults, confirmed, overlapped, crossed>>
        /\ requests' = requests \cup {s}
    BY <1>3 DEF Tests!Save, Tests!Panel, Tests!Free, Tests!Send, Tests!serverVars,
       Tests!counters, Tests!history
  <2>2. new \in Tests!TestObject /\ new.index = test[t].index /\ new.state = "Saving"
    BY <1>1 DEF Tests!TestObject, Tests!SaveLoadState
  <2>3. test' = [test EXCEPT ![t] = new]
    BY <1>1, <1>3 DEF Tests!Save
  <2>4. /\ s \in Tests!Request /\ s.kind = "commitTest" /\ s.at = "sent" /\ s.test = t
        /\ s.text = typed[t]
    BY <1>1 DEF Tests!Request, Tests!Tests, AllTests
  <2> HIDE DEF new, s
  <2> QED BY <2>1, <2>2, <2>3, <2>4, Called
<1> QED BY <1>2, <1>3

\* The page asks for a new test.
LEMMA AddCalled == ASSUME TestInv, Tests!Add PROVE TestInv'
<1> DEFINE s == [kind |-> "addTest", test |-> None, text |-> None, number |-> 0,
                 at |-> "sent", ticket |-> 0]
<1>1. /\ UNCHANGED <<test, list, shown, typed, selected, asked, page, row, nextId, loggedIn,
                     removals, faults, confirmed, overlapped, crossed>>
      /\ requests' = requests \cup {s} /\ ~adding /\ adding' /\ nextId <= MaxTests
  BY DEF Tests!Add, Tests!Send, Tests!serverVars, Tests!counters, Tests!history
<1>2. s \in Tests!Request /\ s.kind = "addTest" /\ s.at = "sent"
  BY DEF Tests!Request
<1> HIDE DEF s
<1>3. ~Addition(s) /\ ~Deleted(s) /\ ~Deletion(s)
  BY <1>2 DEF Addition, Deleted, Deletion
<1>4. \A q \in requests : q.kind # "addTest"
  BY <1>1 DEF TestInv, AllFit, RequestFits
<1>5. TestTyped'
  BY <1>1, <1>2 DEF TestInv, TestTyped, Known
<1>6. AllFit'
  <2>1. RequestFits(s)'
    BY <1>1, <1>2 DEF RequestFits
  <2>2. ASSUME NEW q \in requests PROVE RequestFits(q)'
    BY <1>1, <1>4 DEF TestInv, AllFit, RequestFits, Known
  <2> QED BY <1>1, <2>1, <2>2 DEF AllFit
<1>7. Apart(requests')
  BY <1>1, <1>2, <1>4 DEF TestInv, Apart
<1>8. AskedInv'
  <2>1. \A q \in requests' : Deletion(q) => q \in requests
    BY <1>1, <1>3
  <2> QED BY <1>1, <2>1, DialogStays
<1>9. NumberInv' /\ ListInv'
  <2>1. \A q \in requests' : q.at = "read" \/ Addition(q) \/ Deleted(q) => q \in requests
    BY <1>1, <1>2, <1>3
  <2> QED BY <1>1, <2>1, TablesStay
<1>10. KeptInv' /\ LeftInv'
  BY <1>1, <1>2 DEF TestInv, KeptInv, AllKept, Kept, LeftInv, NothingOpen, Tests!Listed
<1> QED BY <1>5, <1>6, <1>7, <1>8, <1>9, <1>10 DEF TestInv

\* The dialog opens.
LEMMA DialogOpens ==
    ASSUME TestInv, NEW t \in AllTests, Tests!AskRemove(t) PROVE TestInv'
<1>0. /\ overlapped => overlapped'
      /\ ~overlapped' => \A q \in requests : ~Deletion(q)
  BY Zenon DEF Tests!AskRemove, Tests!RemovalPending, Deletion
<1>1. /\ UNCHANGED <<test, list, shown, typed, adding, page, requests, row, nextId, loggedIn,
                     removals, faults, confirmed, crossed>>
      /\ Tests!Listed(t) /\ asked' = t
      /\ selected' = CHOOSE i \in DOMAIN list : list[i] = t
  BY DEF Tests!AskRemove, Tests!serverVars, Tests!counters
<1>2. /\ list \in Seq(AllTests) /\ DOMAIN list = 1..Len(list) /\ Len(list) \in Nat
      /\ TestTyped
  BY DEF TestInv, TestTyped
<1>3. selected' \in 1..Len(list) /\ list[selected'] = t
  <2>1. \E i \in DOMAIN list : list[i] = t
    BY <1>1, <1>2, ListedAt
  <2> QED BY <1>1, <1>2, <2>1
<1>4. TestTyped'
  BY <1>1, <1>2, <1>3 DEF TestTyped, Known
<1>5. AllFit' /\ Apart(requests')
  BY <1>1 DEF TestInv, AllFit, RequestFits, Known, Tests!Listed
<1>6. AskedInv'
  <2> SUFFICES ASSUME ~overlapped' PROVE AskedFits'
    BY DEF AskedInv
  <2>1. AskedFits /\ \A q \in requests : ~Deletion(q)
    BY <1>0 DEF TestInv, AskedInv
  <2> QED BY <1>1, <1>2, <1>3, <2>1 DEF AskedFits, Tests!Listed, Deletion
<1>7. NumberInv' /\ ListInv'
  <2>1. overlapped' \/ \A q \in requests : ~Deleted(q)
    BY <1>0 DEF Deleted, Deletion
  <2> QED BY <1>0, <1>1, <2>1, TablesStay
<1>8. KeptInv' /\ LeftInv'
  BY <1>0, <1>1 DEF TestInv, KeptInv, AllKept, Kept, LeftInv, NothingOpen, Tests!Listed
<1> QED BY <1>4, <1>5, <1>6, <1>7, <1>8 DEF TestInv

\* The dialog closes, or the user leaves or stays.
LEMMA Leaves ==
    ASSUME TestInv, Tests!Cancel \/ Tests!Return \/ Tests!AnswerReturn PROVE TestInv'
<1>1. /\ UNCHANGED <<test, list, shown, typed, selected, adding, requests, row, nextId,
                     loggedIn, removals, faults, confirmed, overlapped, crossed>>
      /\ asked' \in {asked, None}
  BY DEF Tests!Cancel, Tests!Return, Tests!AnswerReturn, Tests!serverVars, Tests!counters,
     Tests!history
<1>2. TestTyped' /\ AllFit' /\ Apart(requests')
  BY <1>1 DEF TestInv, TestTyped, AllFit, RequestFits, Known, Tests!Listed
<1>3. AskedInv'
  BY <1>1 DEF TestInv, AskedInv, AskedFits, Deletion, Tests!Listed
<1>4. NumberInv' /\ ListInv'
  BY <1>1, TablesStay
<1>5. KeptInv'
  BY <1>1 DEF TestInv, KeptInv, AllKept, Kept, Tests!Listed
<1>6. LeftInv'
  <2>1. CASE Tests!Return
    BY <1>1, <2>1 DEF Tests!Return, LeftInv, NothingOpen, Tests!Listed
  <2>2. CASE Tests!Cancel \/ Tests!AnswerReturn
    BY <1>1, <2>2
       DEF TestInv, LeftInv, NothingOpen, Tests!Cancel, Tests!AnswerReturn, Tests!Listed
  <2> QED BY <2>1, <2>2
<1> QED BY <1>2, <1>3, <1>4, <1>5, <1>6 DEF TestInv

\* The dialog's button.
LEMMA Confirms == ASSUME TestInv, Tests!ConfirmRemove PROVE TestInv'
<1>1. /\ UNCHANGED <<list, shown, typed, selected, adding, page, row, nextId, loggedIn,
                     faults, overlapped, crossed>>
      /\ asked # None /\ asked' = None /\ confirmed' = confirmed \cup {asked}
      /\ removals' = removals + 1
  BY DEF Tests!ConfirmRemove, Tests!serverVars
<1>2. /\ list \in Seq(AllTests) /\ DOMAIN list = 1..Len(list) /\ Len(list) \in Nat
      /\ TestTyped /\ test \in [AllTests -> Tests!TestObject] /\ removals \in Nat
  BY DEF TestInv, TestTyped
<1>3. CASE selected \notin DOMAIN list
  <2>1. UNCHANGED <<test, requests>>
    BY <1>3 DEF Tests!ConfirmRemove
  <2>2. overlapped
    BY <1>1, <1>3 DEF TestInv, AskedInv, AskedFits
  <2>3. TestTyped'
    BY <1>1, <1>2, <2>1 DEF TestTyped, Known
  <2>4. AllFit' /\ Apart(requests') /\ LeftInv'
    BY <1>1, <2>1
       DEF TestInv, AllFit, RequestFits, Known, Tests!Listed, LeftInv, NothingOpen
  <2>5. NumberInv' /\ ListInv'
    BY <1>1, <2>1, TablesStay
  <2> QED BY <1>1, <2>2, <2>3, <2>4, <2>5 DEF TestInv, AskedInv, KeptInv
<1>4. CASE selected \in DOMAIN list
  <2>0. PICK t : t = list[selected]
    OBVIOUS
  <2>15. PICK n : n = removals
    OBVIOUS
  <2> DEFINE s == [kind |-> "deleteTest", test |-> t, text |-> None, number |-> 0,
                   at |-> "sent", ticket |-> n]
             new == [test[t] EXCEPT !.error = "NoError", !.removing = TRUE]
  <2>1. t \in AllTests /\ t \in Known /\ Tests!Listed(t) /\ test[t] \in Tests!TestObject
    <3>1. t \in AllTests /\ Tests!Listed(t)
      BY <1>2, <1>4, <2>0, ListedAt
    <3> QED BY <1>2, <3>1, ListedKnown
  <2>2. requests' = requests \cup {s}
    BY <1>4, <2>0, <2>15 DEF Tests!ConfirmRemove, Tests!Send
  <2>3. test' = [test EXCEPT ![t] = new]
    BY <1>2, <1>4, <2>0 DEF Tests!ConfirmRemove
  <2>4. /\ new \in Tests!TestObject /\ new.index = test[t].index
        /\ new.state = test[t].state
    BY <2>1 DEF Tests!TestObject
  <2>5. s \in Tests!Request /\ s.kind = "deleteTest" /\ s.at = "sent" /\ s.test = t
    BY <1>2, <2>1, <2>15 DEF Tests!Request, Tests!Tests, AllTests
  <2> HIDE DEF new, s
  <2>6. /\ test' \in [AllTests -> Tests!TestObject]
        /\ \A u \in AllTests : test'[u].index = test[u].index
        /\ \A u \in AllTests : test'[u].state = test[u].state
    <3>1. /\ test' \in [AllTests -> Tests!TestObject] /\ test'[t] = new
          /\ \A u \in AllTests : u # t => test'[u] = test[u]
          /\ \A u \in AllTests : test'[u].index = test[u].index
      BY <1>2, <2>1, <2>3, <2>4, StateSet
    <3> QED BY <2>4, <3>1
  <2>7. ~Addition(s) /\ ~Deleted(s) /\ Deletion(s)
    BY <2>5 DEF Addition, Deleted, Deletion
  <2>8. TestTyped'
    <3>1. \A i \in DOMAIN list : list[i] \in AllTests
      BY <1>2
    <3> QED BY <1>1, <1>2, <2>2, <2>5, <2>6, <3>1 DEF TestTyped, Known
  <2>9. AllFit'
    <3>1. RequestFits(s)'
      BY <1>1, <2>1, <2>5 DEF RequestFits, Known
    <3>2. ASSUME NEW q \in requests PROVE RequestFits(q)'
      <4>1. RequestFits(q)
        BY DEF TestInv, AllFit
      <4>2. q.kind # "addTest" => q.test \in AllTests
        BY OfKnown
      <4> QED BY <1>1, <2>6, <4>1, <4>2 DEF RequestFits, Known, Tests!Listed
    <3> QED BY <2>2, <3>1, <3>2 DEF AllFit
  <2>10. Apart(requests')
    <3>1. \A q \in requests : Addition(q) => q.test # t
      BY <2>1 DEF TestInv, AllFit, RequestFits, Addition
    <3>2. Apart(requests)
      BY DEF TestInv
    <3> QED BY <2>2, <2>5, <3>1, <3>2 DEF Apart, Addition
  <2>11. AskedInv'
    <3> SUFFICES ASSUME ~overlapped, AskedFits PROVE AskedFits'
      BY <1>1 DEF TestInv, AskedInv
    <3>1. (\A q \in requests : ~Deletion(q)) /\ t = asked
      BY <1>1, <2>0 DEF AskedFits
    <3>2. \A q \in requests' : Deletion(q) => q = s
      BY <2>2, <3>1
    <3>3. \A u \in AllTests : u \in shown' <=> Tests!Listed(u)'
      BY <1>1 DEF AskedFits, Tests!Listed
    <3>4. /\ selected' \in DOMAIN list' /\ list'[selected'] = s.test
          /\ s.test \in confirmed'
      BY <1>1, <1>4, <2>0, <2>5, <3>1
    <3> QED BY <1>1, <3>2, <3>3, <3>4 DEF AskedFits, Deletion
  <2>12. NumberInv' /\ ListInv'
    <3>1. \A q \in requests' : q.at = "read" \/ Addition(q) \/ Deleted(q) => q \in requests
      BY <2>2, <2>5, <2>7
    <3> QED BY <1>1, <2>2, <3>1, TablesStay
  <2>13. KeptInv'
    <3> SUFFICES ASSUME NEW u \in AllTests, Kept(u) PROVE Kept(u)'
      BY <1>1 DEF TestInv, KeptInv, AllKept, Tests!Listed
    <3> QED BY <1>1, <2>2, <2>5, <2>6 DEF Kept
  <2>14. LeftInv'
    BY <1>1, <2>6 DEF TestInv, LeftInv, NothingOpen, Tests!Listed
  <2> QED BY <2>8, <2>9, <2>10, <2>11, <2>12, <2>13, <2>14 DEF TestInv
<1> QED BY <1>3, <1>4

\* The answer to a call comes, and the page is still there.
LEMMA Ends ==
    ASSUME NEW r, NEW o, Tests!Finished(r, o)
    PROVE  /\ page # "left" /\ r.at = o /\ requests' = requests \ {r}
           /\ UNCHANGED <<selected, asked, page, row, nextId, loggedIn, removals, faults,
                          confirmed, overlapped, crossed>>
  BY DEF Tests!Finished, Tests!serverVars, Tests!counters, Tests!history

\* Of one that is neither a new test nor a deleted one the tables know nothing.
LEMMA TablesSame ==
    ASSUME TestInv, NEW r \in requests, ~Addition(r), ~Deleted(r),
           requests' = requests \ {r},
           UNCHANGED <<list, selected, row, loggedIn, faults, overlapped, crossed>>
    PROVE  NumberInv' /\ ListInv'
<1>1. \A q \in requests' : q \in requests
  OBVIOUS
<1>2. \A q \in requests : Addition(q) \/ Deleted(q) => q \in requests'
  OBVIOUS
<1> QED BY <1>1, <1>2, TablesStay

\* A text was loaded or stored, or was not.
LEMMA Told ==
    ASSUME TestInv, NEW r \in requests, r.kind \in {"getTest", "commitTest"},
           NEW t, t = r.test, NEW new \in Tests!TestObject, new.index = test[t].index,
           new.state \in {"Saved", "NotSaved", "NotLoaded"},
           test' = [test EXCEPT ![t] = new],
           NEW x \in TestTexts, typed' = [typed EXCEPT ![t] = x],
           new.state = "Saved" => r.at = "ok" /\ r.text = x,
           page # "left", requests' = requests \ {r},
           UNCHANGED <<list, shown, selected, asked, adding, page, row, nextId, loggedIn,
                       removals, faults, confirmed, overlapped, crossed>>
    PROVE  TestInv'
<1>1. TestTyped /\ t \in Known /\ t \in AllTests /\ RequestFits(r) /\ Apart(requests)
  BY OfKnown DEF TestInv, AllFit
<1>2. /\ test' \in [AllTests -> Tests!TestObject] /\ test'[t] = new
      /\ \A u \in AllTests : u # t => test'[u] = test[u]
      /\ \A u \in AllTests : test'[u].index = test[u].index
  BY <1>1, StateSet
<1>3. /\ typed' \in [AllTests -> TestTexts] /\ typed'[t] = x
      /\ \A u \in AllTests : u # t => typed'[u] = typed[u]
  BY <1>1 DEF TestTyped
<1>4. ASSUME NEW q \in requests', q.kind \in {"getTest", "commitTest"} PROVE q.test # t
  <2>1. q \in requests /\ q # r /\ RequestFits(q)
    BY DEF TestInv, AllFit
  <2>2. q.test = t => q.kind = r.kind
    BY <1>1, <1>4, <2>1 DEF RequestFits
  <2> QED BY <1>1, <1>4, <2>1, <2>2 DEF Apart
<1>5. ASSUME NEW q \in requests', q.kind = "addTest", q.at = "ok"
      PROVE  q.test # t /\ q.test \in AllTests
  <2>1. q \in requests /\ RequestFits(q)
    BY DEF TestInv, AllFit
  <2> QED BY <1>1, <1>5, <2>1, OfKnown DEF Apart, RequestFits
<1>6. TestTyped'
  <2>1. Known \subseteq AllTests /\ t \notin AllTests \ Known
    BY <1>1, OfKnown
  <2>2. \A i \in DOMAIN list : list[i] \in AllTests
    BY <1>1, <2>1 DEF TestTyped
  <2> QED BY <1>1, <1>2, <1>3, <2>1, <2>2 DEF TestTyped, Known
<1>7. AllFit'
  <2> SUFFICES ASSUME NEW q \in requests' PROVE RequestFits(q)'
    BY DEF AllFit
  <2>1. RequestFits(q)
    BY DEF TestInv, AllFit
  <2>2. q.kind # "addTest" => q.test \in AllTests
    BY OfKnown
  <2> QED BY <1>2, <1>3, <1>4, <1>5, <2>1, <2>2 DEF RequestFits, Known, Tests!Listed
<1>8. Apart(requests')
  BY <1>1 DEF Apart
<1>9. AskedInv'
  BY DialogStays
<1>10. NumberInv' /\ ListInv'
  BY TablesSame DEF Addition, Deleted
<1>11. KeptInv'
  <2> SUFFICES ASSUME NEW u \in AllTests, Kept(u) PROVE Kept(u)'
    BY DEF TestInv, KeptInv, AllKept, Tests!Listed
  <2>1. CASE u = t
    BY <1>2, <1>3, <1>4, <2>1 DEF Kept
  <2>2. CASE u # t
    BY <1>2, <1>3, <2>2 DEF Kept
  <2> QED BY <2>1, <2>2
<1>12. LeftInv'
  BY DEF LeftInv
<1> QED BY <1>6, <1>7, <1>8, <1>9, <1>10, <1>11, <1>12 DEF TestInv

\* The four answers of this kind.
LEMMA LoadedOrSaved ==
    ASSUME TestInv, NEW r \in requests,
           Tests!Loaded(r) \/ Tests!LoadFailed(r) \/ Tests!Saved(r) \/ Tests!SaveFailed(r)
    PROVE  TestInv'
<1>0. PICK t : t = r.test
  OBVIOUS
<1>1. r.kind \in {"getTest", "commitTest"}
  BY DEF Tests!Loaded, Tests!LoadFailed, Tests!Saved, Tests!SaveFailed
<1>2. /\ test \in [AllTests -> Tests!TestObject] /\ typed \in [AllTests -> TestTexts]
      /\ t \in AllTests /\ RequestFits(r) /\ test[t] \in Tests!TestObject
      /\ typed[t] \in TestTexts
  <2>1. /\ test \in [AllTests -> Tests!TestObject] /\ typed \in [AllTests -> TestTexts]
        /\ t \in AllTests /\ RequestFits(r)
    BY <1>0, <1>1, OfKnown DEF TestInv, TestTyped, AllFit
  <2> QED BY <2>1
<1>3. typed = [typed EXCEPT ![t] = typed[t]]
  BY <1>2
<1>4. PICK old : old = typed[t]
  OBVIOUS
<1>5. ASSUME NEW state \in {"Saved", "NotSaved", "NotLoaded"},
             NEW error \in {"NoError", "LoadError", "SaveError"}
      PROVE  LET new == [test[t] EXCEPT !.state = state, !.error = error] IN
             new \in Tests!TestObject /\ new.index = test[t].index /\ new.state = state
  BY <1>2 DEF Tests!TestObject, Tests!SaveLoadState
<1>6. CASE Tests!Loaded(r)
  <2> DEFINE new == [test[t] EXCEPT !.state = "Saved", !.error = "NoError"]
  <2>1. /\ Tests!Finished(r, "ok") /\ UNCHANGED <<list, shown, adding>>
        /\ typed' = [typed EXCEPT ![t] = r.text]
    BY <1>0, <1>6 DEF Tests!Loaded
  <2>2. test' = [test EXCEPT ![t] = new]
    BY <1>0, <1>2, <1>6 DEF Tests!Loaded
  <2>3. new \in Tests!TestObject /\ new.index = test[t].index /\ new.state = "Saved"
    BY <1>5
  <2>4. r.text \in TestTexts /\ r.at = "ok"
    BY <1>2, <1>6, <2>1, Ends DEF Tests!Loaded, RequestFits
  <2> HIDE DEF new
  <2> QED BY <1>0, <1>1, <2>1, <2>2, <2>3, <2>4, Ends, Told
<1>7. CASE Tests!LoadFailed(r)
  <2> DEFINE new == [test[t] EXCEPT !.state = "NotLoaded", !.error = "LoadError"]
  <2>1. Tests!Finished(r, "failed") /\ UNCHANGED <<list, shown, adding>>
    BY <1>7 DEF Tests!LoadFailed
  <2>2. test' = [test EXCEPT ![t] = new]
    BY <1>0, <1>2, <1>7 DEF Tests!LoadFailed
  <2>3. new \in Tests!TestObject /\ new.index = test[t].index /\ new.state = "NotLoaded"
    BY <1>5
  <2> HIDE DEF new
  <2>4. typed' = [typed EXCEPT ![t] = old] /\ old \in TestTexts
    BY <1>2, <1>3, <1>4, <1>7 DEF Tests!LoadFailed
  <2> QED BY <1>0, <1>1, <2>1, <2>2, <2>3, <2>4, Ends, Told
<1>8. CASE Tests!Saved(r)
  <2> DEFINE new == [test[t] EXCEPT !.state = "Saved", !.error = "NoError"]
  <2>1. Tests!Finished(r, "ok") /\ UNCHANGED <<list, shown, adding>>
    BY <1>8 DEF Tests!Saved
  <2>2. test' = [test EXCEPT ![t] = new]
    BY <1>0, <1>2, <1>8 DEF Tests!Saved
  <2>3. new \in Tests!TestObject /\ new.index = test[t].index /\ new.state = "Saved"
    BY <1>5
  <2> HIDE DEF new
  <2>4. typed' = [typed EXCEPT ![t] = old] /\ old \in TestTexts
    BY <1>2, <1>3, <1>4, <1>8 DEF Tests!Saved
  <2>5. r.at = "ok" /\ r.text = old
    BY <1>0, <1>2, <1>4, <1>8, <2>1, Ends DEF Tests!Saved, RequestFits
  <2> QED BY <1>0, <1>1, <2>1, <2>2, <2>3, <2>4, <2>5, Ends, Told
<1>9. CASE Tests!SaveFailed(r)
  <2> DEFINE new == [test[t] EXCEPT !.state = "NotSaved", !.error = "SaveError"]
  <2>1. Tests!Finished(r, "failed") /\ UNCHANGED <<list, shown, adding>>
    BY <1>9 DEF Tests!SaveFailed
  <2>2. test' = [test EXCEPT ![t] = new]
    BY <1>0, <1>2, <1>9 DEF Tests!SaveFailed
  <2>3. new \in Tests!TestObject /\ new.index = test[t].index /\ new.state = "NotSaved"
    BY <1>5
  <2> HIDE DEF new
  <2>4. typed' = [typed EXCEPT ![t] = old] /\ old \in TestTexts
    BY <1>2, <1>3, <1>4, <1>9 DEF Tests!SaveFailed
  <2> QED BY <1>0, <1>1, <2>1, <2>2, <2>3, <2>4, Ends, Told
<1> QED BY <1>6, <1>7, <1>8, <1>9

\* A test could not be removed.
LEMMA NotRemoved ==
    ASSUME TestInv, NEW r \in requests, Tests!RemoveFailed(r) PROVE TestInv'
<1>0. PICK t : t = r.test
  OBVIOUS
<1> DEFINE new == [test[t] EXCEPT !.removing = FALSE, !.error = "RemoveError"]
<1>1. /\ r.kind = "deleteTest" /\ r.at = "failed" /\ page # "left"
      /\ requests' = requests \ {r}
      /\ UNCHANGED <<list, shown, typed, selected, asked, adding, page, row, nextId,
                     loggedIn, removals, faults, confirmed, overlapped, crossed>>
  BY Ends DEF Tests!RemoveFailed
<1>2. /\ TestTyped /\ test \in [AllTests -> Tests!TestObject] /\ t \in AllTests
      /\ test[t] \in Tests!TestObject
  BY <1>0, <1>1, OfKnown DEF TestInv, TestTyped
<1>3. new \in Tests!TestObject /\ new.index = test[t].index /\ new.state = test[t].state
  BY <1>2 DEF Tests!TestObject
<1>4. test' = [test EXCEPT ![t] = new]
  BY <1>0, <1>2 DEF Tests!RemoveFailed
<1> HIDE DEF new
<1>5. /\ test' \in [AllTests -> Tests!TestObject]
      /\ \A u \in AllTests : test'[u].index = test[u].index
      /\ \A u \in AllTests : test'[u].state = test[u].state
  <2>1. /\ test' \in [AllTests -> Tests!TestObject] /\ test'[t] = new
        /\ \A u \in AllTests : u # t => test'[u] = test[u]
        /\ \A u \in AllTests : test'[u].index = test[u].index
    BY <1>2, <1>3, <1>4, StateSet
  <2> QED BY <1>3, <2>1
<1>6. TestTyped'
  <2>1. \A i \in DOMAIN list : list[i] \in AllTests
    BY <1>2 DEF TestTyped
  <2> QED BY <1>1, <1>2, <1>5, <2>1 DEF TestTyped, Known
<1>7. AllFit'
  <2> SUFFICES ASSUME NEW q \in requests PROVE RequestFits(q)'
    BY <1>1 DEF AllFit
  <2>1. RequestFits(q)
    BY DEF TestInv, AllFit
  <2>2. q.kind # "addTest" => q.test \in AllTests
    BY OfKnown
  <2> QED BY <1>1, <1>5, <2>1, <2>2 DEF RequestFits, Known, Tests!Listed
<1>8. Apart(requests')
  BY <1>1 DEF TestInv, Apart
<1>9. AskedInv'
  BY <1>1, DialogStays
<1>10. NumberInv' /\ ListInv'
  BY <1>1, TablesSame DEF Addition, Deleted
<1>11. KeptInv'
  <2> SUFFICES ASSUME NEW u \in AllTests, Kept(u) PROVE Kept(u)'
    BY <1>1 DEF TestInv, KeptInv, AllKept, Tests!Listed
  <2> QED BY <1>1, <1>5 DEF Kept
<1>12. LeftInv'
  BY <1>1 DEF LeftInv
<1> QED BY <1>6, <1>7, <1>8, <1>9, <1>10, <1>11, <1>12 DEF TestInv

\* No test was added.
LEMMA NotAdded ==
    ASSUME TestInv, NEW r \in requests, Tests!AddFailed(r) PROVE TestInv'
<1>1. /\ r.kind = "addTest" /\ r.at = "failed" /\ page # "left"
      /\ requests' = requests \ {r}
      /\ UNCHANGED <<test, list, shown, typed, selected, asked, page, row, nextId,
                     loggedIn, removals, faults, confirmed, overlapped, crossed>>
  BY Ends DEF Tests!AddFailed
<1>2. \A q \in requests' : q.kind # "addTest"
  BY <1>1 DEF TestInv, Apart
<1>3. TestTyped'
  BY <1>1 DEF TestInv, TestTyped, Known
<1>4. AllFit'
  <2> SUFFICES ASSUME NEW q \in requests, q.kind # "addTest" PROVE RequestFits(q)'
    BY <1>1, <1>2 DEF AllFit
  <2> QED BY <1>1 DEF TestInv, AllFit, RequestFits, Known
<1>5. Apart(requests')
  BY <1>1 DEF TestInv, Apart
<1>6. AskedInv'
  BY <1>1, DialogStays
<1>7. NumberInv' /\ ListInv'
  BY <1>1, TablesSame DEF Addition, Deleted
<1>8. KeptInv' /\ LeftInv'
  BY <1>1 DEF TestInv, KeptInv, AllKept, Kept, LeftInv, Tests!Listed
<1> QED BY <1>3, <1>4, <1>5, <1>6, <1>7, <1>8 DEF TestInv

\* A new test comes at the end of the list.
LEMMA TestAdded ==
    ASSUME TestInv, NEW r \in requests, Tests!Added(r) PROVE TestInv'
<1>0. PICK t : t = r.test
  OBVIOUS
<1>1. /\ r.kind = "addTest" /\ r.at = "ok" /\ page # "left"
      /\ requests' = requests \ {r} /\ list' = Append(list, t) /\ shown' = shown \cup {t}
      /\ UNCHANGED <<typed, selected, asked, page, row, nextId, loggedIn, removals,
                     faults, confirmed, overlapped, crossed>>
  BY <1>0, Ends DEF Tests!Added
<1>2. /\ TestTyped /\ test \in [AllTests -> Tests!TestObject] /\ Apart(requests)
      /\ list \in Seq(AllTests) /\ Len(list) \in Nat /\ DOMAIN list = 1..Len(list)
  BY DEF TestInv, TestTyped
<1>3. /\ t \in Known /\ t \in AllTests /\ t \notin shown /\ ~Tests!Listed(t)
      /\ row[t] # None /\ row[t].text = EmptyText /\ typed[t] = EmptyText
  BY <1>0, <1>1, OfKnown DEF TestInv, AllFit, RequestFits
<1>4. \A q \in requests' : q \in requests /\ q.kind # "addTest" /\ q.test # t
  BY <1>0, <1>1, <1>2 DEF Apart
<1> DEFINE n == Len(list)
<1>5. /\ list' \in Seq(AllTests) /\ Len(list') = n + 1 /\ DOMAIN list' = 1..(n + 1)
      /\ list'[n + 1] = t /\ \A i \in 1..n : list'[i] = list[i]
      /\ \A i \in 1..(n + 1) : i \in 1..n \/ i = n + 1
  BY <1>1, <1>2, <1>3
<1>6. /\ test' \in [AllTests -> Tests!TestObject]
      /\ test'[t].index = n /\ test'[t].state = "Saved"
      /\ \A u \in AllTests : u # t => test'[u] = test[u]
  <2> DEFINE new == Tests!NewTest("Saved", n)
  <2>1. new \in Tests!TestObject /\ new.index = n /\ new.state = "Saved"
    BY <1>2 DEF Tests!NewTest, Tests!TestObject, Tests!SaveLoadState
  <2>2. test' = [test EXCEPT ![t] = new]
    BY <1>0 DEF Tests!Added
  <2> HIDE DEF new
  <2> QED BY <1>2, <1>3, <2>1, <2>2
<1>7. \A i \in 1..n : list[i] # t /\ list[i] \in AllTests
  BY <1>2, <1>3, ListedAt
<1>8. \A u : Tests!Listed(u)' <=> Tests!Listed(u) \/ u = t
  <2>1. \A u : Tests!Listed(u)' <=> \E i \in 1..Len(list') : list'[i] = u
    BY <1>5 DEF Tests!Listed, Tests!ToSet
  <2>2. n + 1 \in 1..(n + 1) /\ \A i \in 1..n : i \in 1..(n + 1)
    BY <1>2
  <2> QED BY <1>2, <1>5, <2>1, <2>2, ListedAt
<1> HIDE DEF n
<1>9. TestTyped'
  <2>1. Distinct(list')
    BY <1>2, <1>5, <1>7 DEF TestTyped, Distinct, n
  <2>2. \A i \in DOMAIN list' : list'[i] \in Known' /\ test'[list'[i]].index = i - 1
    <3> SUFFICES ASSUME NEW i \in 1..(n + 1)
                 PROVE  list'[i] \in Known /\ test'[list'[i]].index = i - 1
      BY <1>1, <1>5 DEF Known
    <3>1. CASE i \in 1..n
      BY <1>2, <1>5, <1>6, <1>7, <3>1 DEF TestTyped, n
    <3>2. CASE i = n + 1
      BY <1>2, <1>3, <1>5, <1>6, <3>2 DEF n
    <3> QED BY <1>5, <3>1, <3>2
  <2> QED BY <1>1, <1>2, <1>3, <1>5, <1>6, <2>1, <2>2 DEF TestTyped, Known
<1>10. AllFit'
  <2> SUFFICES ASSUME NEW q \in requests, q.kind # "addTest", q.test # t
               PROVE RequestFits(q)'
    BY <1>4 DEF AllFit
  <2>1. RequestFits(q) /\ q.test \in AllTests
    BY OfKnown DEF TestInv, AllFit
  <2> QED BY <1>1, <1>6, <2>1 DEF RequestFits, Known
<1>11. Apart(requests')
  BY <1>2, <1>4 DEF Apart
<1>12. AskedInv'
  <2> SUFFICES ASSUME ~overlapped, AskedFits PROVE AskedFits'
    BY <1>1 DEF TestInv, AskedInv
  <2>1. \A u \in AllTests : u \in shown' <=> Tests!Listed(u)'
    BY <1>1, <1>8 DEF AskedFits
  <2>2. selected \in DOMAIN list => selected \in DOMAIN list'
                                    /\ list'[selected] = list[selected]
    BY <1>2, <1>5 DEF n
  <2> QED BY <1>1, <1>4, <2>1, <2>2 DEF AskedFits, Deletion
<1>13. NumberInv'
  BY <1>1, <1>4 DEF TestInv, NumberInv, Numbered
<1>14. ListInv'
  <2> SUFFICES ASSUME ~overlapped, NEW p, Numbered(p), Listing(p)
               PROVE  Numbered(p)' /\ Listing(p)'
    BY <1>1 DEF TestInv, ListInv
  <2>1. Numbered(p)'
    BY <1>1, <1>4 DEF Numbered
  <2>2. p = Append(Standing, t)
    BY <1>0, <1>1 DEF Listing, Addition
  <2>3. (\E q \in requests' : Deleted(q)) <=> (\E q \in requests : Deleted(q))
    BY <1>1 DEF Deleted
  <2>4. \A q \in requests' : ~Addition(q)
    BY <1>4 DEF Addition
  <2>5. CASE \E q \in requests : Deleted(q)
    <3>1. selected \in 1..Len(list)
      BY <1>2, <2>5 DEF TestInv, AskedInv, AskedFits, Deletion, Deleted
    <3>2. Standing = Tests!RemoveAt(list, selected)
      BY <2>5 DEF Standing
    <3>3. Standing' = Tests!RemoveAt(Append(list, t), selected)
      BY <1>1, <2>3, <2>5 DEF Standing, Deleted, Tests!RemoveAt
    <3>4. Standing' = p
      BY <1>2, <1>3, <2>2, <3>1, <3>2, <3>3, RemovedBefore
    <3> QED BY <2>1, <2>4, <3>4 DEF Listing, Addition
  <2>6. CASE ~\E q \in requests : Deleted(q)
    <3>1. Standing = list /\ Standing' = Append(list, t)
      BY <1>1, <2>3, <2>6 DEF Standing, Deleted
    <3> QED BY <2>1, <2>2, <2>4, <3>1 DEF Listing, Addition
  <2> QED BY <2>5, <2>6
<1>15. KeptInv'
  <2> SUFFICES ASSUME NEW u \in AllTests, Tests!Listed(u) => Kept(u), u = t \/ Tests!Listed(u)
               PROVE  Kept(u)'
    BY <1>1, <1>8 DEF TestInv, KeptInv, AllKept
  <2>1. CASE u = t
    BY <1>1, <1>3, <1>4, <2>1 DEF Kept
  <2>2. CASE u # t
    BY <1>1, <1>6, <2>2 DEF Kept
  <2> QED BY <2>1, <2>2
<1>16. LeftInv'
  BY <1>1 DEF LeftInv
<1> QED BY <1>9, <1>10, <1>11, <1>12, <1>13, <1>14, <1>15, <1>16 DEF TestInv

\* The list without the test at a position.
LEMMA ListShortens ==
    ASSUME TestTyped, NEW k \in 1..Len(list), list' = Tests!RemoveAt(list, k),
           NEW later, later = {list[i] : i \in (k + 1)..Len(list)},
           test' = [u \in AllTests |-> IF u \in later THEN [test[u] EXCEPT !.index = @ - 1]
                                                      ELSE test[u]]
    PROVE  /\ list' \in Seq(AllTests) /\ Distinct(list')
           /\ test' \in [AllTests -> Tests!TestObject]
           /\ \A u \in AllTests : test'[u].state = test[u].state
           /\ \A i \in DOMAIN list' : list'[i] \in Known /\ test'[list'[i]].index = i - 1
           /\ \A u : Tests!Listed(u)' <=> Tests!Listed(u) /\ u # list[k]
<1> DEFINE n == Len(list)
<1>1. /\ test \in [AllTests -> Tests!TestObject] /\ list \in Seq(AllTests) /\ n \in Nat
      /\ DOMAIN list = 1..n /\ Distinct(list) /\ k \in Nat /\ k >= 1 /\ k <= n
  BY DEF TestTyped
<1>2. /\ list' \in Seq(AllTests) /\ Len(list') = n - 1 /\ DOMAIN list' = 1..(n - 1)
      /\ \A i \in 1..(n - 1) : list'[i] = IF i < k THEN list[i] ELSE list[i + 1]
  <2>1. PICK s : s = list
    OBVIOUS
  <2>2. s \in Seq(AllTests) /\ k \in 1..Len(s) /\ Len(s) = n
    BY <1>1, <2>1
  <2>3. PICK q : q = Tests!RemoveAt(s, k)
    OBVIOUS
  <2>4. /\ q \in Seq(AllTests) /\ Len(q) = Len(s) - 1
        /\ \A i \in 1..Len(q) : q[i] = IF i < k THEN s[i] ELSE s[i + 1]
    BY ONLY <2>2, <2>3, RemovedAt
  <2>5. list' = q
    BY <2>1, <2>3
  <2> QED BY <2>1, <2>2, <2>4, <2>5
<1>3. \A u \in later : \E i \in (k + 1)..n : u = list[i]
  OBVIOUS
<1>4. \A i \in 1..n : list[i] \in later <=> i > k
  <2>1. \A i \in 1..n : i > k => i \in (k + 1)..n
    BY <1>1
  <2>2. ASSUME NEW i \in 1..n, NEW j \in (k + 1)..n, list[i] = list[j] PROVE i > k
    <3>1. j \in 1..n /\ j > k
      BY <1>1
    <3> QED BY <1>1, <2>2, <3>1 DEF Distinct
  <2> QED BY <1>3, <2>1, <2>2
<1>5. \A i \in 1..n : list[i] \in Known /\ list[i] \in AllTests /\ test[list[i]].index = i - 1
  BY <1>1 DEF TestTyped
<1>6. ASSUME NEW u \in AllTests
      PROVE  /\ test'[u] \in Tests!TestObject /\ test'[u].state = test[u].state
             /\ u \in later => test'[u].index = test[u].index - 1
             /\ u \notin later => test'[u] = test[u]
  <2>1. CASE u \in later
    <3>1. test'[u] = [test[u] EXCEPT !.index = test[u].index - 1]
      BY <2>1
    <3>2. PICK i \in (k + 1)..n : u = list[i]
      BY <1>3, <2>1
    <3>3. i \in 1..n /\ i - 1 \in Nat /\ (i - 1) - 1 \in Nat
      BY <1>1
    <3>4. test[u].index - 1 \in Nat
      BY <1>5, <3>2, <3>3
    <3>5. test[u] \in Tests!TestObject
      BY <1>1
    <3> QED BY <2>1, <3>1, <3>4, <3>5 DEF Tests!TestObject
  <2>2. CASE u \notin later
    BY <1>1, <2>2
  <2> QED BY <2>1, <2>2
<1>7. test' \in [AllTests -> Tests!TestObject]
  BY <1>6
<1> HIDE DEF n
<1>8. \A i \in 1..(n - 1) :
        /\ i \in 1..n /\ i + 1 \in 1..n
        /\ i < k => ~(i > k)
        /\ ~(i < k) => i + 1 > k
        /\ (i + 1) - 1 - 1 = i - 1
  BY <1>1 DEF n
<1>9. \A i \in 1..(n - 1) : list'[i] \in Known /\ test'[list'[i]].index = i - 1
  <2> SUFFICES ASSUME NEW i \in 1..(n - 1)
               PROVE  list'[i] \in Known /\ test'[list'[i]].index = i - 1
    OBVIOUS
  <2>1. CASE i < k
    <3>1. list'[i] = list[i] /\ list[i] \notin later
      BY <1>2, <1>4, <1>8, <2>1
    <3> QED BY <1>5, <1>6, <1>8, <3>1
  <2>2. CASE ~(i < k)
    <3>1. list'[i] = list[i + 1] /\ list[i + 1] \in later
      BY <1>2, <1>4, <1>8, <2>2
    <3> QED BY <1>5, <1>6, <1>8, <3>1
  <2> QED BY <2>1, <2>2
<1>10. Distinct(list')
  <2> SUFFICES ASSUME NEW i \in 1..(n - 1), NEW j \in 1..(n - 1), list'[i] = list'[j]
               PROVE  i = j
    BY <1>2 DEF Distinct
  <2>1. test'[list'[i]].index = i - 1 /\ test'[list'[i]].index = j - 1
    BY <1>9
  <2> QED BY <2>1
<1>11. \A u : Tests!Listed(u)' <=> Tests!Listed(u) /\ u # list[k]
  <2>1. \A u : Tests!Listed(u)' <=> \E i \in 1..(n - 1) : list'[i] = u
    BY <1>2 DEF Tests!Listed, Tests!ToSet
  <2>2. ASSUME NEW i \in 1..(n - 1) PROVE Tests!Listed(list'[i]) /\ list'[i] # list[k]
    <3>1. /\ i < k => list'[i] = list[i] /\ i # k
          /\ ~(i < k) => list'[i] = list[i + 1] /\ i + 1 # k
      BY <1>1, <1>2, <1>8
    <3> QED BY <1>1, <1>8, <3>1, ListedAt DEF Distinct, n
  <2>3. ASSUME NEW u, Tests!Listed(u), u # list[k]
        PROVE  \E i \in 1..(n - 1) : list'[i] = u
    <3>1. PICK j \in 1..n : list[j] = u
      BY <1>1, <2>3, ListedAt DEF n
    <3>2. CASE j < k
      <4>1. j \in 1..(n - 1)
        BY <1>1, <3>2 DEF n
      <4> QED BY <1>2, <3>1, <3>2, <4>1
    <3>3. CASE j > k
      <4>1. j - 1 \in 1..(n - 1) /\ ~(j - 1 < k) /\ (j - 1) + 1 = j
        BY <1>1, <3>3 DEF n
      <4> QED BY <1>2, <3>1, <4>1
    <3> QED BY <1>1, <2>3, <3>1, <3>2, <3>3
  <2> QED BY <2>1, <2>2, <2>3
<1> QED BY <1>2, <1>6, <1>7, <1>9, <1>10, <1>11 DEF n

\* The deleted test goes from the page.
LEMMA TestRemoved ==
    ASSUME TestInv, NEW r \in requests, Tests!Removed(r) PROVE TestInv'
<1>1. /\ r.kind = "deleteTest" /\ r.at = "ok" /\ page # "left"
      /\ requests' = requests \ {r} /\ shown' = shown \ {r.test}
      /\ UNCHANGED <<typed, selected, asked, adding, page, row, nextId, loggedIn,
                     removals, faults, confirmed, overlapped, crossed>>
  BY Ends DEF Tests!Removed
<1>2. /\ TestTyped /\ Apart(requests) /\ DOMAIN list = 1..Len(list)
      /\ list \in Seq(AllTests) /\ test \in [AllTests -> Tests!TestObject]
  BY DEF TestInv, TestTyped
<1>3. selected \in DOMAIN list => list' = Tests!RemoveAt(list, selected)
  BY DEF Tests!Removed
<1>4. /\ list' \in Seq(AllTests) /\ Distinct(list')
      /\ test' \in [AllTests -> Tests!TestObject]
      /\ \A u \in AllTests : test'[u].state = test[u].state
      /\ \A i \in DOMAIN list' : list'[i] \in Known /\ test'[list'[i]].index = i - 1
      /\ \A u : Tests!Listed(u)' => Tests!Listed(u)
      /\ selected \in DOMAIN list =>
           \A u : Tests!Listed(u)' <=> Tests!Listed(u) /\ u # list[selected]
  <2>1. CASE selected \in DOMAIN list
    <3>1. PICK k : k = selected
      OBVIOUS
    <3>2. PICK later : later = {list[i] : i \in (k + 1)..Len(list)}
      OBVIOUS
    <3>3. test' = [u \in AllTests |-> IF u \in later THEN [test[u] EXCEPT !.index = @ - 1]
                                                     ELSE test[u]]
      BY <2>1, <3>1, <3>2 DEF Tests!Removed, Tests!Tests, AllTests
    <3>4. k \in 1..Len(list) /\ list' = Tests!RemoveAt(list, k)
      BY <1>2, <1>3, <2>1, <3>1
    <3> QED BY <1>2, <3>1, <3>2, <3>3, <3>4, ListShortens
  <2>2. CASE selected \notin DOMAIN list
    <3>1. UNCHANGED <<list, test>>
      BY <2>2 DEF Tests!Removed
    <3> QED BY <1>2, <2>2, <3>1 DEF TestTyped, Tests!Listed
  <2> QED BY <2>1, <2>2
<1>5. TestTyped'
  BY <1>1, <1>2, <1>4 DEF TestTyped, Known
<1>6. AllFit'
  <2> SUFFICES ASSUME NEW q \in requests PROVE RequestFits(q)'
    BY <1>1 DEF AllFit
  <2>1. RequestFits(q)
    BY DEF TestInv, AllFit
  <2>2. q.kind # "addTest" => q.test \in AllTests
    BY OfKnown
  <2> QED BY <1>1, <1>4, <2>1, <2>2 DEF RequestFits, Known
<1>7. Apart(requests')
  BY <1>1, <1>2 DEF Apart
<1>8. ~overlapped => /\ selected \in DOMAIN list /\ list[selected] = r.test /\ asked = None
                     /\ \A q \in requests : Deletion(q) => q = r
  BY <1>1 DEF TestInv, AskedInv, AskedFits, Deletion
<1>9. AskedInv'
  <2> SUFFICES ASSUME ~overlapped, AskedFits PROVE AskedFits'
    BY <1>1 DEF TestInv, AskedInv
  <2>1. \A u \in AllTests : u \in shown' <=> Tests!Listed(u)'
    BY <1>1, <1>4, <1>8 DEF AskedFits
  <2> QED BY <1>1, <1>8, <2>1 DEF AskedFits
<1>10. NumberInv'
  BY <1>1 DEF TestInv, NumberInv, Numbered
<1>11. ListInv'
  <2> SUFFICES ASSUME ~overlapped, NEW p, Numbered(p), Listing(p)
               PROVE  Numbered(p)' /\ Listing(p)'
    BY <1>1 DEF TestInv, ListInv
  <2>1. Numbered(p)'
    BY <1>1 DEF Numbered
  <2>2. Deleted(r) /\ ~Addition(r) /\ \A q \in requests' : ~Deleted(q)
    BY <1>1, <1>8 DEF Deleted, Deletion, Addition
  <2>3. Standing = list'
    BY <1>3, <1>8, <2>2 DEF Standing
  <2>4. Standing' = list'
    BY <2>2 DEF Standing, Deleted
  <2>5. \A q : q \in requests' /\ Addition(q) <=> q \in requests /\ Addition(q)
    BY <1>1, <2>2
  <2> QED BY <2>1, <2>3, <2>4, <2>5 DEF Listing, Addition
<1>12. KeptInv'
  <2> SUFFICES ASSUME NEW u \in AllTests, Kept(u) PROVE Kept(u)'
    BY <1>1, <1>4 DEF TestInv, KeptInv, AllKept
  <2> QED BY <1>1, <1>4 DEF Kept
<1>13. LeftInv'
  BY <1>1 DEF LeftInv
<1> QED BY <1>5, <1>6, <1>7, <1>9, <1>10, <1>11, <1>12, <1>13 DEF TestInv

-----------------------------------------------------------------------------
(* The editor of tests: all its steps, and what follows.                    *)

\* Whatever the user, the server and the connections do.
LEMMA TestKeeps == ASSUME TestInv, Tests!Next PROVE TestInv'
<1>1. CASE \E t \in AllTests : \/ Tests!Load(t) \/ Tests!Save(t) \/ Tests!AskRemove(t)
                               \/ \E x \in TestTexts : Tests!Edit(t, x)
  BY <1>1, LoadOrSave, DialogOpens, Edited
<1>2. CASE \/ Tests!Add \/ Tests!Cancel \/ Tests!ConfirmRemove \/ Tests!Return
           \/ Tests!AnswerReturn
  BY <1>2, AddCalled, Leaves, Confirms
<1>3. ASSUME NEW r \in requests, Tests!Serve(r) PROVE TestInv'
  BY <1>3, ReadOnly, TextStored, TestStored, TestDeleted DEF Tests!Serve
<1>4. ASSUME NEW r \in requests, Tests!Callback(r) PROVE TestInv'
  BY <1>4, LoadedOrSaved, TestAdded, NotAdded, TestRemoved, NotRemoved DEF Tests!Callback
<1>5. ASSUME NEW r \in requests, Tests!Break(r) PROVE TestInv'
  BY <1>5, Broken
<1>6. CASE Tests!Expire
  BY <1>6, Expired
<1> QED BY <1>1, <1>2, <1>3, <1>4, <1>5, <1>6 DEF Tests!Next, Tests!User, Tests!Tests, AllTests

\* A step of nothing.
LEMMA TestStays == ASSUME TestInv, UNCHANGED window PROVE TestInv'
<1>1. UNCHANGED <<test, list, shown, typed, selected, asked, adding, page, requests, row,
                  nextId, loggedIn, removals, faults, confirmed, overlapped, crossed>>
  BY DEF window
<1>2. TestTyped' /\ AllFit' /\ Apart(requests')
  BY <1>1 DEF TestInv, TestTyped, AllFit, RequestFits, Known, Tests!Listed
<1>3. AskedInv' /\ LeftInv'
  BY <1>1 DEF TestInv, AskedInv, AskedFits, Deletion, LeftInv, NothingOpen, Tests!Listed
<1>4. NumberInv' /\ ListInv'
  BY <1>1, TablesStay
<1>5. KeptInv'
  BY <1>1 DEF TestInv, KeptInv, AllKept, Kept, Tests!Listed
<1> QED BY <1>2, <1>3, <1>4, <1>5 DEF TestInv

\* What the page promises.
LEMMA TestInvTrue ==
    ASSUME TestInv
    PROVE  Tests!NothingLostUnasked /\ Tests!NumbersWhole /\ Tests!ListsAgree
<1>1. /\ TestTyped /\ list \in Seq(AllTests) /\ Len(list) \in Nat
      /\ DOMAIN list = 1..Len(list) /\ shown \subseteq AllTests /\ Known \subseteq AllTests
      /\ Tests!Rows = {t \in AllTests : row[t] # None}
  BY OfKnown DEF TestInv, TestTyped, Tests!Rows, Tests!Tests, AllTests
<1>2. Tests!NothingLostUnasked
  <2> SUFFICES ASSUME page = "left", loggedIn, ~overlapped, NEW t \in shown \ confirmed,
                      Tests!WasLoaded(t)
               PROVE  row[t] # None /\ row[t].text = typed[t]
    BY DEF Tests!NothingLostUnasked
  <2>1. Tests!Listed(t) /\ t \in AllTests
    BY <1>1 DEF TestInv, AskedInv, AskedFits
  <2>2. Kept(t)
    BY <2>1 DEF TestInv, KeptInv, AllKept
  <2>3. test[t].state = "Saved"
    BY <2>1 DEF TestInv, LeftInv, NothingOpen, Tests!WasLoaded
  <2> QED BY <2>2, <2>3 DEF Kept
<1>3. Tests!NumbersWhole
  <2> SUFFICES ASSUME ~crossed
               PROVE  {row[t].number : t \in Tests!Rows} = 1..Cardinality(Tests!Rows)
    BY RowsCounted DEF Tests!NumbersWhole, TestInv
  <2>1. PICK p : Numbered(p)
    BY DEF TestInv, NumberInv
  <2>2. Cardinality(Tests!Rows) = Len(p)
    BY <1>1, <2>1, RowsCounted
  <2>3. ASSUME NEW t \in Tests!Rows PROVE row[t].number \in 1..Len(p)
    BY <1>1, <2>1 DEF Numbered
  <2>4. ASSUME NEW i \in 1..Len(p) PROVE p[i] \in Tests!Rows /\ row[p[i]].number = i
    BY <1>1, <2>1 DEF Numbered
  <2>5. \A i \in 1..Len(p) : i \in {row[t].number : t \in Tests!Rows}
    BY <2>4
  <2> QED BY <2>2, <2>3, <2>5
<1>4. Tests!ListsAgree
  <2> SUFFICES ASSUME requests = {}, faults = 0, ~overlapped, ~crossed
               PROVE  /\ Tests!ToSet(list) = Tests!Rows /\ shown = Tests!Rows
                      /\ \A i \in DOMAIN list : /\ row[list[i]].number = i
                                                /\ test[list[i]].index = i - 1
    BY DEF Tests!ListsAgree, Tests!Quiet
  <2>1. PICK p : Numbered(p) /\ Listing(p)
    BY DEF TestInv, ListInv
  <2>2. p = list
    BY <2>1 DEF Listing, Standing
  <2>3. \A t \in AllTests : row[t] # None <=> Tests!Listed(t)
    BY <1>1, <2>1, <2>2, ListedAt DEF Numbered
  <2>4. \A t : t \in Tests!ToSet(list) => t \in AllTests
    BY <1>1, ListedAt DEF Tests!Listed
  <2>5. Tests!ToSet(list) = Tests!Rows
    BY <1>1, <2>3, <2>4 DEF Tests!Listed
  <2>6. shown = Tests!Rows
    BY <1>1, <2>3 DEF TestInv, AskedInv, AskedFits
  <2>7. \A i \in DOMAIN list : row[list[i]].number = i /\ test[list[i]].index = i - 1
    BY <1>1, <2>1, <2>2 DEF Numbered, TestTyped
  <2> QED BY <2>5, <2>6, <2>7
<1> QED BY <1>2, <1>3, <1>4

\* A request to delete is only sent by the dialog.
LEMMA DeletesAsked == ASSUME TestInv, Tests!Next PROVE Tests!AskedForIsRemoved
<1> SUFFICES ASSUME NEW r \in requests' \ requests, Deletion(r), r.at = "sent", ~overlapped
             PROVE  r.test = asked
  BY DEF Tests!AskedForIsRemoved, Deletion
<1>1. CASE Tests!ConfirmRemove
  <2>1. asked # None /\ selected \in DOMAIN list /\ list[selected] = asked
    BY <1>1 DEF TestInv, AskedInv, AskedFits, Tests!ConfirmRemove
  <2> QED BY <1>1, <2>1 DEF Tests!ConfirmRemove, Tests!Send
<1>2. CASE \E t \in AllTests : Tests!Load(t) \/ Tests!Save(t)
  BY <1>2 DEF Tests!Load, Tests!Save, Tests!Send, Deletion
<1>3. CASE Tests!Add
  BY <1>3 DEF Tests!Add, Tests!Send, Deletion
<1>4. CASE \E q \in requests : Tests!Serve(q) \/ Tests!Break(q)
  <2>1. PICK q \in requests : Tests!Serve(q) \/ Tests!Break(q)
    BY <1>4
  <2>2. ASSUME Tests!Serve(q) PROVE FALSE
    <3>1. q \in Tests!Request
      BY DEF TestInv, TestTyped
    <3>2. \A o : [q EXCEPT !.at = o].at = o
      BY <3>1 DEF Tests!Request
    <3>3. ASSUME NEW o, o # "sent", Tests!Answer(q, o) PROVE FALSE
      BY <3>2, <3>3 DEF Tests!Answer, Tests!Becomes
    <3>4. CASE Tests!CommitWrite(q) \/ Tests!DeleteTest(q)
      BY <3>3, <3>4 DEF Tests!CommitWrite, Tests!DeleteTest, Tests!Denied
    <3>5. CASE Tests!GetTest(q)
      BY <3>1, <3>3, <3>5 DEF Tests!GetTest, Tests!Denied, Tests!Becomes, Tests!Request
    <3>6. CASE Tests!CommitRead(q)
      BY <3>1, <3>3, <3>6 DEF Tests!CommitRead, Tests!Denied, Tests!Becomes, Tests!Request
    <3>7. CASE Tests!AddRead(q)
      BY <3>1, <3>3, <3>7 DEF Tests!AddRead, Tests!Denied, Tests!Becomes, Tests!Request
    <3>8. CASE Tests!AddWrite(q)
      BY <3>1, <3>3, <3>8 DEF Tests!AddWrite, Tests!Becomes, Tests!Request
    <3> QED BY <2>2, <3>4, <3>5, <3>6, <3>7, <3>8 DEF Tests!Serve
  <2>3. ASSUME Tests!Break(q) PROVE FALSE
    BY <2>3 DEF Tests!Break, Tests!Becomes, Tests!Answer, TestInv, TestTyped, Tests!Request
  <2> QED BY <2>1, <2>2, <2>3
<1>5. CASE \E q \in requests : Tests!Callback(q)
  BY <1>5
     DEF Tests!Callback, Tests!Loaded, Tests!LoadFailed, Tests!Saved, Tests!SaveFailed,
         Tests!Added, Tests!AddFailed, Tests!Removed, Tests!RemoveFailed, Tests!Finished
<1>6. CASE \/ \E t \in AllTests : Tests!AskRemove(t) \/ \E x \in TestTexts : Tests!Edit(t, x)
           \/ Tests!Cancel \/ Tests!Return \/ Tests!AnswerReturn \/ Tests!Expire
  BY <1>6
     DEF Tests!AskRemove, Tests!Edit, Tests!Cancel, Tests!Return, Tests!AnswerReturn,
         Tests!Expire
<1> QED BY <1>1, <1>2, <1>3, <1>4, <1>5, <1>6 DEF Tests!Next, Tests!User, Tests!Tests, AllTests

-----------------------------------------------------------------------------
(* The page of a solution: the names of its variables, and its invariant.   *)

solution == w1
solutionsForm == w2
viewer == w3    \* page, in the module
request == w4
judgings == w5
events == w6
mixed == w7

USE DEF solution, solutionsForm, viewer, request, judgings, events, mixed

Shown == Solution!Statuses \cup Results \cup {None}
SolutionRow == [status : Solution!Statuses, last : Results \cup {None}]
Viewer == [state : {"closed", "loading", "waiting", "asking", "resting"},
           wanted : Solutions \cup {None}, asks : Solutions \cup {None},
           shown : Shown, since : Nat, failed : BOOLEAN]
Asked == [step : {"none", "sent", "populated", "found", "forwarded", "answered"},
          found : Solution!Statuses \cup {None}, last : Results \cup {None}]

SolutionTyped ==
    /\ solution \in [Solutions -> SolutionRow] /\ judgings \in [Solutions -> Nat]
    /\ \A s \in Solutions : solution[s].status = "PROCESSED" => solution[s].last \in Results
    /\ solutionsForm \in [solutionId : Solutions \cup {None}, status : Shown]
    /\ viewer \in [Viewers -> Viewer] /\ request \in [Viewers -> Asked]

\* How far a page is and how far its request is.
StepsFit(v, r) ==
    /\ v.state \in {"closed", "waiting", "resting"} => r.step = "none"
    /\ v.state = "loading" => r.step \in {"sent", "populated", "found", "forwarded"}
    /\ v.state = "asking" => r.step \in {"sent", "populated", "found", "answered"}
    /\ r.step \in {"found", "forwarded", "answered"} => r.found \in Solution!Statuses

PageFits(p) ==
    /\ StepsFit(viewer[p], request[p])
    /\ viewer[p].state # "closed" =>
         /\ viewer[p].wanted \in Solutions /\ viewer[p].asks \in Solutions
         /\ viewer[p].since <= judgings[viewer[p].wanted]
    /\ viewer[p].state = "loading" => viewer[p].asks = viewer[p].wanted
    /\ request[p].step \notin {"none", "sent"} => solutionsForm.solutionId \in Solutions

\* A page that is to show the verdict of the solution opened in it.
Current(p) ==
    /\ viewer[p].state # "closed" /\ ~viewer[p].failed
    /\ p \notin mixed /\ viewer[p].wanted \notin RunAll
    /\ judgings[viewer[p].wanted] = viewer[p].since

Final(status) == status \notin Solution!Unfinished

\* A status that is final when it is read stays the solution's.
Faithful(s, v, r) ==
    /\ v.asks = s
    /\ r.step \in {"found", "answered"} /\ Final(r.found) => solution[s].status = r.found
    /\ r.step = "answered" /\ Final(r.found) => r.last = solution[s].last
    /\ r.step = "forwarded" =>
         /\ solutionsForm.solutionId = s
         /\ \/ ~Final(solutionsForm.status)
            \/ solutionsForm.status = Solution!Report(s) /\ Final(solution[s].status)
    /\ v.state = "resting" => v.shown = Solution!Report(s) /\ Final(solution[s].status)

PageFollows(p) == Current(p) => Faithful(viewer[p].wanted, viewer[p], request[p])

SolutionInv ==
    /\ SolutionTyped
    /\ \A p \in Viewers : PageFits(p) /\ PageFollows(p)

\* The pages before any is opened.
LEMMA SolutionInit == Solution!Init => SolutionInv
<1> SUFFICES ASSUME Solution!Init PROVE SolutionInv
  OBVIOUS
<1>1. /\ viewer = [p \in Viewers |-> Solution!Closed]
      /\ request = [p \in Viewers |-> Solution!NoRequest]
      /\ judgings = [s \in Solutions |-> 1]
      /\ solutionsForm = [solutionId |-> None, status |-> None]
  BY DEF Solution!Init
<1>2. PICK v \in Results : v = CHOOSE x \in Results : TRUE
  BY SolutionAssumption
<1>3. solution = [s \in Solutions |->
                    IF s \in Judged THEN [status |-> "NEW", last |-> None]
                    ELSE [status |-> "PROCESSED", last |-> v]]
  BY <1>2 DEF Solution!Init
<1>4. SolutionTyped
  BY <1>1, <1>3 DEF SolutionTyped, SolutionRow, Viewer, Asked, Shown, Solution!Closed,
     Solution!NoRequest, Solution!Statuses, Solution!Unfinished
<1>5. \A p \in Viewers : PageFits(p) /\ ~Current(p)
  BY <1>1 DEF PageFits, StepsFit, Current, Solution!Closed, Solution!NoRequest
<1> QED BY <1>4, <1>5 DEF SolutionInv, PageFollows

\* A page of which the step is not.
LEMMA OtherViewer ==
    ASSUME SolutionInv, NEW q \in Viewers, UNCHANGED <<solution, judgings>>,
           viewer'[q] = viewer[q], request'[q] = request[q],
           q \notin mixed' => q \notin mixed,
           solutionsForm' = solutionsForm \/ request[q].step # "forwarded" \/ q \in mixed',
           solutionsForm'.solutionId \in Solutions \/ solutionsForm' = solutionsForm
    PROVE  PageFits(q)' /\ PageFollows(q)'
<1>1. PageFits(q) /\ PageFollows(q)
  BY DEF SolutionInv
<1>2. PageFits(q)'
  BY <1>1 DEF PageFits
<1>3. PageFollows(q)'
  <2> SUFFICES ASSUME Current(q)' PROVE Faithful(viewer[q].wanted, viewer[q], request[q])'
    BY DEF PageFollows
  <2>1. Current(q) /\ q \notin mixed'
    BY DEF Current
  <2>2. Faithful(viewer[q].wanted, viewer[q], request[q])
    BY <1>1, <2>1 DEF PageFollows
  <2>3. \A s : Solution!Report(s)' = Solution!Report(s)
    BY DEF Solution!Report, Solution!Status
  <2> QED BY <2>1, <2>2, <2>3 DEF Faithful
<1> QED BY <1>2, <1>3

\* A solution that is judged, or is to be judged again.
LEMMA SolutionMoves ==
    ASSUME SolutionInv, NEW s \in Solutions, NEW f \in SolutionRow, NEW n \in Nat,
           f.status = "PROCESSED" => f.last \in Results,
           solution' = [solution EXCEPT ![s] = f], judgings' = [judgings EXCEPT ![s] = n],
           UNCHANGED <<solutionsForm, viewer, request, mixed>>,
           \/ n > judgings[s]
           \/ n = judgings[s] /\ ~Final(solution[s].status)
    PROVE  SolutionInv'
<1>1. SolutionTyped
  BY DEF SolutionInv
<1>2. /\ solution' \in [Solutions -> SolutionRow] /\ judgings' \in [Solutions -> Nat]
      /\ solution'[s] = f /\ judgings'[s] = n /\ judgings[s] \in Nat
      /\ \A t \in Solutions : t # s => solution'[t] = solution[t] /\ judgings'[t] = judgings[t]
  BY <1>1 DEF SolutionTyped
<1>3. SolutionTyped'
  BY <1>1, <1>2 DEF SolutionTyped
<1>4. ASSUME NEW p \in Viewers PROVE PageFits(p)' /\ PageFollows(p)'
  <2>1. PageFits(p) /\ PageFollows(p) /\ viewer[p] \in Viewer /\ viewer[p].since \in Nat
    BY <1>1 DEF SolutionInv, SolutionTyped, Viewer
  <2>2. PageFits(p)'
    <3> DEFINE w == viewer[p].wanted
    <3>1. w \in Solutions => judgings[w] <= judgings'[w] /\ judgings[w] \in Nat
      BY <1>1, <1>2 DEF SolutionTyped
    <3>2. w \in Solutions => judgings'[w] \in Nat
      BY <1>2
    <3>3. w \in Solutions /\ viewer[p].since <= judgings[w] => viewer[p].since <= judgings'[w]
      BY <2>1, <3>1, <3>2
    <3>4. viewer' = viewer /\ request' = request /\ solutionsForm' = solutionsForm
      OBVIOUS
    <3> QED BY <2>1, <3>3, <3>4 DEF PageFits, StepsFit, Solution!Statuses, Solution!Unfinished
  <2>3. CASE viewer[p].wanted # s
    <3> SUFFICES ASSUME Current(p)' PROVE Faithful(viewer[p].wanted, viewer[p], request[p])'
      BY <2>2 DEF PageFollows
    <3>1. viewer[p].wanted \in Solutions
      BY <2>1 DEF Current, PageFits
    <3>2. Current(p)
      BY <1>2, <2>3, <3>1 DEF Current
    <3>3. Faithful(viewer[p].wanted, viewer[p], request[p])
      BY <2>1, <3>2 DEF PageFollows
    <3>4. Solution!Report(viewer[p].wanted)' = Solution!Report(viewer[p].wanted)
      BY <1>2, <2>3, <3>1 DEF Solution!Report, Solution!Status
    <3> QED BY <1>2, <2>3, <3>1, <3>3, <3>4 DEF Faithful, Final, Solution!Unfinished
  <2>4. CASE viewer[p].wanted = s
    <3> SUFFICES ASSUME Current(p)' PROVE Faithful(s, viewer[p], request[p])'
      BY <2>2, <2>4 DEF PageFollows
    <3>1. n = judgings[s] /\ ~Final(solution[s].status) /\ Current(p)
      BY <1>2, <2>1, <2>4 DEF Current, PageFits
    <3>2. Faithful(s, viewer[p], request[p])
      BY <2>1, <2>4, <3>1 DEF PageFollows
    <3> QED BY <3>1, <3>2 DEF Faithful
  <2> QED BY <2>2, <2>3, <2>4
<1> QED BY <1>3, <1>4 DEF SolutionInv

\* A judge saves the solution, or an administrator has it judged again.
LEMMA SolutionJudged ==
    ASSUME SolutionInv, NEW s \in Solutions,
           Solution!testSolutionInternal(s) \/ Solution!resubmitSolution(s)
    PROVE  SolutionInv'
<1>1. SolutionTyped /\ judgings[s] \in Nat /\ judgings[s] + 1 \in Nat
  BY DEF SolutionInv, SolutionTyped
<1>2. judgings = [judgings EXCEPT ![s] = judgings[s]]
  BY <1>1 DEF SolutionTyped
<1>3. ASSUME NEW from \in Solution!Unfinished, NEW status \in Solution!Statuses,
             NEW last \in Results \cup {None}, status = "PROCESSED" => last \in Results,
             Solution!Saved(s, from, status, last)
      PROVE  SolutionInv'
  <2> DEFINE f == [status |-> status, last |-> last]
  <2>1. f \in SolutionRow /\ (f.status = "PROCESSED" => f.last \in Results)
    BY <1>3 DEF SolutionRow
  <2>2. /\ solution' = [solution EXCEPT ![s] = f] /\ ~Final(solution[s].status)
        /\ UNCHANGED <<judgings, solutionsForm, viewer, request, mixed>>
    BY <1>3 DEF Solution!Saved, Solution!pageVars, Final
  <2> HIDE DEF f
  <2>3. judgings' = [judgings EXCEPT ![s] = judgings[s]]
    BY <1>2, <2>2
  <2> QED BY <1>1, <2>1, <2>2, <2>3, SolutionMoves
<1>4. CASE Solution!resubmitSolution(s)
  <2> DEFINE f == [status |-> "NEW", last |-> None]
  <2>1. f \in SolutionRow /\ f.status # "PROCESSED"
    BY DEF SolutionRow, Solution!Statuses, Solution!Unfinished
  <2>2. /\ solution' = [solution EXCEPT ![s] = f]
        /\ UNCHANGED <<solutionsForm, viewer, request, mixed>>
        /\ judgings' = [judgings EXCEPT ![s] = judgings[s] + 1]
    BY <1>4 DEF Solution!resubmitSolution, Solution!pageVars
  <2> HIDE DEF f
  <2>3. judgings[s] + 1 > judgings[s]
    BY <1>1
  <2> QED BY <1>1, <2>1, <2>2, <2>3, SolutionMoves
<1>5. CASE Solution!testSolutionInternal(s)
  <2>1. /\ {"NEW", "COMPILING", "RUNNING"} = Solution!Unfinished
        /\ Solution!Statuses = Solution!Unfinished
                               \cup {"COMPILATION_ERROR", "INTERNAL_ERROR", "PROCESSED"}
    BY DEF Solution!Unfinished, Solution!Statuses
  <2> QED BY <1>3, <1>5, <2>1 DEF Solution!testSolutionInternal
<1> QED BY <1>4, <1>5

\* A request that goes a step further; the form may change with it.
LEMMA RequestMoves ==
    ASSUME SolutionInv, NEW p \in Viewers, NEW r \in Asked,
           request' = [request EXCEPT ![p] = r], UNCHANGED <<solution, judgings, viewer>>,
           solutionsForm' \in [solutionId : Solutions \cup {None}, status : Shown],
           \/ UNCHANGED <<solutionsForm, mixed>>
           \/ Solution!Mixing(p) /\ solutionsForm'.solutionId \in Solutions,
           StepsFit(viewer[p], r), r.step \notin {"none", "sent"} =>
                                     solutionsForm'.solutionId \in Solutions,
           PageFollows(p)'
    PROVE  SolutionInv'
<1>1. SolutionTyped /\ request \in [Viewers -> Asked]
  BY DEF SolutionInv, SolutionTyped
<1>2. /\ request' \in [Viewers -> Asked] /\ request'[p] = r
      /\ \A q \in Viewers : q # p => request'[q] = request[q]
  BY <1>1
<1>3. SolutionTyped'
  BY <1>1, <1>2 DEF SolutionTyped
<1>4. PageFits(p)'
  BY <1>2 DEF SolutionInv, PageFits
<1>5. ASSUME NEW q \in Viewers, q # p PROVE PageFits(q)' /\ PageFollows(q)'
  <2>1. \/ UNCHANGED <<solutionsForm, mixed>>
        \/ (q \notin mixed' => q \notin mixed) /\ (request[q].step = "forwarded" => q \in mixed')
    BY <1>5 DEF Solution!Mixing
  <2> QED BY <1>2, <1>5, <2>1, OtherViewer
<1> QED BY <1>3, <1>4, <1>5 DEF SolutionInv

\* The answer is made of the status and the runs.
LEMMA StatusIs ==
    ASSUME SolutionInv, NEW s \in Solutions,
           NEW status \in Solution!Statuses, NEW last \in Results \cup {None}
    PROVE  /\ Solution!Status(s, status, last) \in Shown
           /\ ~Final(status) => Solution!Status(s, status, last) = status
           /\ status = solution[s].status /\ last = solution[s].last =>
                Solution!Status(s, status, last) = Solution!Report(s)
<1>1. ~Final(status) => status # "PROCESSED"
  BY DEF Final, Solution!Unfinished
<1> QED BY <1>1 DEF Solution!Status, Solution!Report, Shown

\* The steps of a request in the server.
LEMMA RequestServed ==
    ASSUME SolutionInv, NEW p \in Viewers,
           \/ Solution!reset(p) \/ Solution!getSolution(p) \/ Solution!view(p)
           \/ Solution!getSolutionStatus(p)
    PROVE  SolutionInv'
<1>0. PICK s : s = viewer[p].asks
  OBVIOUS
<1>1. PICK old : old = request[p]
  OBVIOUS
<1>2. /\ SolutionTyped /\ old \in Asked /\ viewer[p] \in Viewer
      /\ request \in [Viewers -> Asked] /\ PageFits(p) /\ PageFollows(p)
      /\ solutionsForm \in [solutionId : Solutions \cup {None}, status : Shown]
  BY <1>1 DEF SolutionInv, SolutionTyped
<1>3. /\ UNCHANGED <<solution, judgings, viewer>>
      /\ old.step \in {"sent", "populated", "found"}
  BY <1>1 DEF Solution!reset, Solution!getSolution, Solution!view,
     Solution!getSolutionStatus, Solution!serverVars
<1>4. /\ s \in Solutions /\ viewer[p].state \in {"loading", "asking"}
      /\ solution[s] \in SolutionRow
  BY <1>0, <1>1, <1>2, <1>3 DEF PageFits, StepsFit, SolutionTyped, Viewer
<1>5. CASE Solution!reset(p)
  <2> DEFINE r == [old EXCEPT !.step = "populated"]
  <2>1. r \in Asked /\ r.step = "populated"
    BY <1>2 DEF Asked
  <2>2. request' = [request EXCEPT ![p] = r]
    BY <1>1, <1>2, <1>5 DEF Solution!reset
  <2> HIDE DEF r
  <2>3. /\ solutionsForm' \in [solutionId : Solutions \cup {None}, status : Shown]
        /\ solutionsForm'.solutionId = s /\ Solution!Mixing(p)
    BY <1>0, <1>2, <1>4, <1>5 DEF Solution!reset, Shown
  <2>4. StepsFit(viewer[p], r)
    BY <1>1, <1>2, <1>4, <2>1 DEF StepsFit
  <2>5. request'[p] = r
    BY <1>2, <2>2
  <2>6. PageFollows(p)'
    <3>1. Current(p)' => Current(p)
      BY <1>3, <2>3 DEF Current, Solution!Mixing
    <3> QED BY <1>2, <1>3, <2>1, <2>5, <3>1
            DEF PageFollows, Faithful, Solution!Report, Solution!Status
  <2> QED BY <1>3, <1>4, <2>1, <2>2, <2>3, <2>4, <2>6, RequestMoves
<1>6. CASE Solution!getSolution(p)
  <2> DEFINE r == [old EXCEPT !.step = "found", !.found = solution[s].status]
  <2>1. r \in Asked /\ r.step = "found" /\ r.found = solution[s].status
        /\ r.found \in Solution!Statuses
    BY <1>2, <1>4 DEF Asked, SolutionRow
  <2>2. request' = [request EXCEPT ![p] = r]
    BY <1>0, <1>1, <1>2, <1>6 DEF Solution!getSolution
  <2> HIDE DEF r
  <2>3. UNCHANGED <<solutionsForm, mixed>> /\ old.step = "populated"
    BY <1>1, <1>6 DEF Solution!getSolution
  <2>4. StepsFit(viewer[p], r) /\ solutionsForm.solutionId \in Solutions
    BY <1>1, <1>2, <1>4, <2>1, <2>3 DEF StepsFit, PageFits
  <2>5. request'[p] = r
    BY <1>2, <2>2
  <2>6. PageFollows(p)'
    <3>1. Current(p)' => Current(p)
      BY <1>3, <2>3 DEF Current
    <3> QED BY <1>0, <1>2, <1>3, <1>4, <2>1, <2>5, <3>1
            DEF PageFollows, Faithful, Solution!Report, Solution!Status
  <2> QED BY <1>2, <1>3, <2>1, <2>2, <2>3, <2>4, <2>6, RequestMoves
<1>7. CASE Solution!view(p)
  <2> DEFINE r == [old EXCEPT !.step = "forwarded"]
             x == Solution!Status(s, old.found, solution[s].last)
  <2>1. r \in Asked /\ r.step = "forwarded" /\ r.found = old.found
    BY <1>2 DEF Asked
  <2>2. request' = [request EXCEPT ![p] = r]
    BY <1>1, <1>2, <1>7 DEF Solution!view
  <2> HIDE DEF r
  <2>3. /\ old.step = "found" /\ viewer[p].state = "loading" /\ Solution!Mixing(p)
        /\ solutionsForm' = [solutionId |-> s, status |-> x]
    BY <1>0, <1>1, <1>7 DEF Solution!view
  <2>4. old.found \in Solution!Statuses /\ solution[s].last \in Results \cup {None}
    BY <1>1, <1>2, <1>4, <2>3 DEF PageFits, StepsFit, SolutionRow
  <2>5. /\ x \in Shown
        /\ ~Final(old.found) => x = old.found
        /\ old.found = solution[s].status => x = Solution!Report(s)
    BY <1>4, <2>4, StatusIs
  <2> HIDE DEF x
  <2>6. solutionsForm' \in [solutionId : Solutions \cup {None}, status : Shown]
        /\ solutionsForm'.solutionId = s /\ solutionsForm'.status = x
    BY <1>4, <2>3, <2>5
  <2>7. StepsFit(viewer[p], r)
    BY <1>1, <1>2, <1>4, <2>1, <2>3 DEF StepsFit, PageFits
  <2>8. request'[p] = r
    BY <1>2, <2>2
  <2>9. PageFollows(p)'
    <3> SUFFICES ASSUME Current(p)' PROVE Faithful(viewer[p].wanted, viewer[p], request[p])'
      BY DEF PageFollows
    <3>1. Current(p)
      BY <1>3, <2>3 DEF Current, Solution!Mixing
    <3>2. viewer[p].wanted = s
      BY <1>0, <1>2, <2>3 DEF PageFits
    <3>3. Final(old.found) => solution[s].status = old.found
      BY <1>1, <1>2, <2>3, <3>1, <3>2 DEF PageFollows, Faithful
    <3>4. Solution!Report(s)' = Solution!Report(s)
      BY <1>3 DEF Solution!Report, Solution!Status
    <3> QED BY <1>0, <1>3, <2>1, <2>3, <2>5, <2>6, <2>8, <3>2, <3>3, <3>4 DEF Faithful
  <2> QED BY <1>3, <1>4, <2>1, <2>2, <2>3, <2>6, <2>7, <2>9, RequestMoves
<1>8. CASE Solution!getSolutionStatus(p)
  <2> DEFINE r == [old EXCEPT !.step = "answered", !.last = solution[s].last]
  <2>1. r \in Asked /\ r.step = "answered" /\ r.found = old.found /\ r.last = solution[s].last
    BY <1>2, <1>4 DEF Asked, SolutionRow
  <2>2. request' = [request EXCEPT ![p] = r]
    BY <1>0, <1>1, <1>2, <1>8 DEF Solution!getSolutionStatus
  <2> HIDE DEF r
  <2>3. /\ UNCHANGED <<solutionsForm, mixed>> /\ old.step = "found"
        /\ viewer[p].state = "asking"
    BY <1>1, <1>8 DEF Solution!getSolutionStatus
  <2>4. StepsFit(viewer[p], r) /\ solutionsForm.solutionId \in Solutions
    BY <1>1, <1>2, <1>4, <2>1, <2>3 DEF StepsFit, PageFits
  <2>5. request'[p] = r
    BY <1>2, <2>2
  <2>6. PageFollows(p)'
    <3>1. Current(p)' => Current(p)
      BY <1>3, <2>3 DEF Current
    <3> QED BY <1>0, <1>1, <1>2, <1>3, <1>4, <2>1, <2>3, <2>5, <3>1
            DEF PageFollows, Faithful, Solution!Report, Solution!Status
  <2> QED BY <1>2, <1>3, <2>1, <2>2, <2>3, <2>4, <2>6, RequestMoves
<1> QED BY <1>5, <1>6, <1>7, <1>8

\* A page that is opened, drawn or asks, and its request.
LEMMA PageMoves ==
    ASSUME SolutionInv, NEW p \in Viewers, NEW v \in Viewer, NEW r \in Asked,
           viewer' = [viewer EXCEPT ![p] = v], request' = [request EXCEPT ![p] = r],
           UNCHANGED <<solution, judgings, solutionsForm>>,
           mixed' = mixed \/ mixed' = mixed \ {p},
           v.state # "closed", v.wanted \in Solutions, v.asks \in Solutions,
           v.since <= judgings[v.wanted],
           StepsFit(v, r), r.step \in {"none", "sent"},
           v.state = "loading" => v.asks = v.wanted,
           Current(p)' =>
             /\ v.asks = v.wanted
             /\ v.state = "resting" => /\ v.shown = Solution!Report(v.wanted)
                                       /\ Final(solution[v.wanted].status)
    PROVE  SolutionInv'
<1>1. SolutionTyped /\ viewer \in [Viewers -> Viewer] /\ request \in [Viewers -> Asked]
  BY DEF SolutionInv, SolutionTyped
<1>2. /\ viewer' \in [Viewers -> Viewer] /\ request' \in [Viewers -> Asked]
      /\ viewer'[p] = v /\ request'[p] = r
      /\ \A q \in Viewers : q # p => viewer'[q] = viewer[q] /\ request'[q] = request[q]
  BY <1>1
<1>3. SolutionTyped'
  BY <1>1, <1>2 DEF SolutionTyped
<1>4. PageFits(p)'
  BY <1>2 DEF PageFits
<1>5. PageFollows(p)'
  <2> SUFFICES ASSUME Current(p)' PROVE Faithful(viewer[p].wanted, viewer[p], request[p])'
    BY DEF PageFollows
  <2>1. \A s : Solution!Report(s)' = Solution!Report(s)
    BY DEF Solution!Report, Solution!Status
  <2> QED BY <1>2, <2>1 DEF Faithful, Final, Solution!Unfinished
<1>6. ASSUME NEW q \in Viewers, q # p PROVE PageFits(q)' /\ PageFollows(q)'
  BY <1>2, <1>6, OtherViewer
<1> QED BY <1>3, <1>4, <1>5, <1>6 DEF SolutionInv

\* What the script does with a status.
LEMMA Responded ==
    ASSUME NEW v \in Viewer, NEW status \in Shown
    PROVE  LET w == Solution!responseFunction(v, status)
           IN  /\ w \in Viewer /\ w.state \in {"waiting", "resting"}
               /\ w.wanted = v.wanted /\ w.asks = v.asks /\ w.since = v.since
               /\ w.failed = v.failed
               /\ w.state = "resting" => Final(status)
               /\ status \in Solution!Texts => w.shown = status
  BY DEF Solution!responseFunction, Viewer, Final

\* There is a text for each verdict of a contest that stops at a failed test.
LEMMA ReportHasText ==
    ASSUME SolutionInv, NEW s \in Solutions, s \notin RunAll
    PROVE  Solution!Report(s) \in Solution!Texts
<1>1. /\ solution[s].status \in Solution!Statuses
      /\ solution[s].status = "PROCESSED" => solution[s].last \in Results
  BY DEF SolutionInv, SolutionTyped, SolutionRow
<1> QED BY <1>1, SolutionAssumption DEF Solution!Report, Solution!Status, Solution!Texts

\* A solution opened in a page.
LEMMA SolutionOpened ==
    ASSUME SolutionInv, NEW p \in Viewers, NEW s \in Solutions, Solution!Open(p, s)
    PROVE  SolutionInv'
<1> DEFINE v == [Solution!Closed EXCEPT !.state = "loading", !.wanted = s,
                   !.asks = s, !.since = judgings[s]]
           r == [request[p] EXCEPT !.step = "sent"]
<1>1. SolutionTyped /\ request \in [Viewers -> Asked] /\ judgings[s] \in Nat
  BY DEF SolutionInv, SolutionTyped
<1>2. /\ v \in Viewer /\ v.state = "loading" /\ v.wanted = s /\ v.asks = s
      /\ v.since = judgings[s]
  BY <1>1 DEF Solution!Closed, Viewer, Shown
<1>3. r \in Asked /\ r.step = "sent"
  BY <1>1 DEF Asked
<1>4. /\ viewer' = [viewer EXCEPT ![p] = v] /\ request' = [request EXCEPT ![p] = r]
      /\ UNCHANGED <<solution, judgings, solutionsForm>> /\ mixed' = mixed \ {p}
  BY <1>1 DEF Solution!Open
<1> HIDE DEF v, r
<1>5. StepsFit(v, r) /\ v.since <= judgings[v.wanted]
  BY <1>1, <1>2, <1>3 DEF StepsFit
<1> QED BY <1>2, <1>3, <1>4, <1>5, PageMoves

\* The script of a page asks again.
LEMMA StatusAsked ==
    ASSUME SolutionInv, NEW p \in Viewers, Solution!requestFunction(p)
    PROVE  SolutionInv'
<1>1. PICK v0 : v0 = viewer[p]
  OBVIOUS
<1> DEFINE v == [v0 EXCEPT !.state = "asking"]
           r == [request[p] EXCEPT !.step = "sent"]
<1>2. /\ v0 \in Viewer /\ v0.state = "waiting" /\ request \in [Viewers -> Asked]
      /\ viewer \in [Viewers -> Viewer] /\ PageFits(p) /\ PageFollows(p)
  BY <1>1 DEF SolutionInv, SolutionTyped, Solution!requestFunction
<1>3. /\ v \in Viewer /\ v.state = "asking" /\ v.wanted = v0.wanted /\ v.asks = v0.asks
      /\ v.since = v0.since /\ v.failed = v0.failed
  BY <1>2 DEF Viewer
<1>4. r \in Asked /\ r.step = "sent"
  BY <1>2 DEF Asked
<1>5. /\ viewer' = [viewer EXCEPT ![p] = v] /\ request' = [request EXCEPT ![p] = r]
      /\ UNCHANGED <<solution, judgings, solutionsForm, mixed>>
  BY <1>1, <1>2 DEF Solution!requestFunction, Solution!serverVars
<1> HIDE DEF v, r
<1>6. /\ StepsFit(v, r) /\ v.wanted \in Solutions /\ v.asks \in Solutions
      /\ v.since <= judgings[v.wanted]
  BY <1>1, <1>2, <1>3, <1>4 DEF StepsFit, PageFits
<1>7. viewer'[p] = v
  BY <1>2, <1>5
<1>8. Current(p)' => v.asks = v.wanted
  <2>1. Current(p)' => Current(p)
    BY <1>1, <1>2, <1>3, <1>5, <1>7 DEF Current
  <2> QED BY <1>1, <1>2, <1>3, <2>1 DEF PageFollows, Faithful
<1> QED BY <1>3, <1>4, <1>5, <1>6, <1>8, PageMoves

\* Nobody asks any more after an error.
LEMMA AskingFailed ==
    ASSUME SolutionInv, NEW p \in Viewers, Solution!Fail(p)
    PROVE  SolutionInv'
<1>1. PICK v0 : v0 = viewer[p]
  OBVIOUS
<1> DEFINE v == [v0 EXCEPT !.state = "resting", !.failed = TRUE]
<1>2. /\ v0 \in Viewer /\ v0.state = "asking" /\ request \in [Viewers -> Asked]
      /\ viewer \in [Viewers -> Viewer] /\ PageFits(p)
  BY <1>1 DEF SolutionInv, SolutionTyped, Solution!Fail
<1>3. /\ v \in Viewer /\ v.state = "resting" /\ v.wanted = v0.wanted /\ v.asks = v0.asks
      /\ v.since = v0.since /\ v.failed
  BY <1>2 DEF Viewer
<1>4. Solution!NoRequest \in Asked /\ Solution!NoRequest.step = "none"
  BY DEF Asked, Solution!NoRequest
<1>5. /\ viewer' = [viewer EXCEPT ![p] = v]
      /\ request' = [request EXCEPT ![p] = Solution!NoRequest]
      /\ UNCHANGED <<solution, judgings, solutionsForm, mixed>>
  BY <1>1, <1>2 DEF Solution!Fail
<1> HIDE DEF v
<1>6. /\ StepsFit(v, Solution!NoRequest) /\ v.wanted \in Solutions /\ v.asks \in Solutions
      /\ v.since <= judgings[v.wanted]
  BY <1>1, <1>2, <1>3, <1>4 DEF StepsFit, PageFits
<1>7. viewer'[p] = v
  BY <1>2, <1>5
<1>8. ~Current(p)'
  BY <1>3, <1>7 DEF Current
<1> QED BY <1>3, <1>4, <1>5, <1>6, <1>8, PageMoves

\* A page is written from the form.
LEMMA SolutionRendered ==
    ASSUME SolutionInv, NEW p \in Viewers, Solution!Render(p)
    PROVE  SolutionInv'
<1>1. PICK v0 : v0 = viewer[p]
  OBVIOUS
<1>2. PICK x, t : x = solutionsForm.status /\ t = solutionsForm.solutionId
  OBVIOUS
<1> DEFINE u == [v0 EXCEPT !.asks = t]
           v == Solution!responseFunction(u, x)
<1>3. /\ v0 \in Viewer /\ request[p].step = "forwarded" /\ request \in [Viewers -> Asked]
      /\ viewer \in [Viewers -> Viewer] /\ PageFits(p) /\ PageFollows(p)
      /\ x \in Shown
  BY <1>1, <1>2 DEF SolutionInv, SolutionTyped, Solution!Render
<1>4. /\ v0.state = "loading" /\ v0.wanted \in Solutions /\ t \in Solutions
      /\ v0.since <= judgings[v0.wanted]
  BY <1>1, <1>2, <1>3 DEF PageFits, StepsFit, Viewer
<1>5. /\ u \in Viewer /\ u.wanted = v0.wanted /\ u.asks = t /\ u.since = v0.since
      /\ u.failed = v0.failed
  BY <1>3, <1>4 DEF Viewer
<1>6. /\ viewer' = [viewer EXCEPT ![p] = v]
      /\ request' = [request EXCEPT ![p] = Solution!NoRequest]
      /\ UNCHANGED <<solution, judgings, solutionsForm, mixed>>
  BY <1>1, <1>2, <1>3 DEF Solution!Render, Solution!serverVars
<1> HIDE DEF u
<1>7. /\ v \in Viewer /\ v.state \in {"waiting", "resting"}
      /\ v.wanted = v0.wanted /\ v.asks = t /\ v.since = v0.since /\ v.failed = v0.failed
      /\ v.state = "resting" => Final(x)
      /\ x \in Solution!Texts => v.shown = x
  BY <1>3, <1>5, Responded
<1> HIDE DEF v
<1>8. Solution!NoRequest \in Asked /\ Solution!NoRequest.step = "none"
  BY DEF Asked, Solution!NoRequest
<1>9. StepsFit(v, Solution!NoRequest)
  BY <1>7, <1>8 DEF StepsFit
<1>10. viewer'[p] = v
  BY <1>3, <1>6
<1>11. ASSUME Current(p)'
       PROVE  /\ v.asks = v.wanted
              /\ v.state = "resting" => /\ v.shown = Solution!Report(v.wanted)
                                        /\ Final(solution[v.wanted].status)
  <2>1. Current(p) /\ v0.wanted \notin RunAll
    BY <1>1, <1>4, <1>6, <1>7, <1>10, <1>11 DEF Current
  <2>2. /\ t = v0.wanted
        /\ \/ ~Final(x)
           \/ x = Solution!Report(v0.wanted) /\ Final(solution[v0.wanted].status)
    BY <1>1, <1>2, <1>3, <2>1 DEF PageFollows, Faithful
  <2>3. Solution!Report(v0.wanted) \in Solution!Texts
    BY <1>4, <2>1, ReportHasText
  <2> QED BY <1>7, <2>2, <2>3
<1> QED BY <1>4, <1>6, <1>7, <1>8, <1>9, <1>11, PageMoves

\* The script has its answer.
LEMMA StatusAnswered ==
    ASSUME SolutionInv, NEW p \in Viewers, Solution!Answer(p)
    PROVE  SolutionInv'
<1>1. PICK v0 : v0 = viewer[p]
  OBVIOUS
<1>2. PICK r : r = request[p]
  OBVIOUS
<1>3. PICK x : x = Solution!Status(v0.asks, r.found, r.last)
  OBVIOUS
<1> DEFINE v == Solution!responseFunction(v0, x)
<1>4. /\ v0 \in Viewer /\ r \in Asked /\ r.step = "answered"
      /\ request \in [Viewers -> Asked]
      /\ viewer \in [Viewers -> Viewer] /\ PageFits(p) /\ PageFollows(p)
  BY <1>1, <1>2 DEF SolutionInv, SolutionTyped, Solution!Answer
<1>5. /\ v0.state = "asking" /\ v0.wanted \in Solutions /\ v0.asks \in Solutions
      /\ v0.since <= judgings[v0.wanted]
      /\ r.found \in Solution!Statuses /\ r.last \in Results \cup {None}
  BY <1>1, <1>2, <1>4 DEF PageFits, StepsFit, Viewer, Asked
<1>6. /\ viewer' = [viewer EXCEPT ![p] = v]
      /\ request' = [request EXCEPT ![p] = Solution!NoRequest]
      /\ UNCHANGED <<solution, judgings, solutionsForm, mixed>>
  BY <1>1, <1>2, <1>3, <1>4 DEF Solution!Answer, Solution!serverVars
<1>7. /\ x \in Shown
      /\ ~Final(r.found) => x = r.found
      /\ (r.found = solution[v0.asks].status /\ r.last = solution[v0.asks].last) =>
           x = Solution!Report(v0.asks)
  BY <1>3, <1>5, StatusIs
<1>8. /\ v \in Viewer /\ v.state \in {"waiting", "resting"}
      /\ v.wanted = v0.wanted /\ v.asks = v0.asks /\ v.since = v0.since
      /\ v.failed = v0.failed
      /\ v.state = "resting" => Final(x)
      /\ x \in Solution!Texts => v.shown = x
  BY <1>4, <1>7, Responded
<1> HIDE DEF v
<1>9. Solution!NoRequest \in Asked /\ Solution!NoRequest.step = "none"
  BY DEF Asked, Solution!NoRequest
<1>10. StepsFit(v, Solution!NoRequest)
  BY <1>8, <1>9 DEF StepsFit
<1>11. viewer'[p] = v
  BY <1>4, <1>6
<1>12. ASSUME Current(p)'
       PROVE  /\ v.asks = v.wanted
              /\ v.state = "resting" => /\ v.shown = Solution!Report(v.wanted)
                                        /\ Final(solution[v.wanted].status)
  <2>1. Current(p) /\ v0.wanted \notin RunAll
    BY <1>1, <1>5, <1>6, <1>8, <1>11, <1>12 DEF Current
  <2>2. /\ v0.asks = v0.wanted
        /\ Final(r.found) => /\ solution[v0.wanted].status = r.found
                             /\ r.last = solution[v0.wanted].last
    BY <1>1, <1>2, <1>4, <2>1 DEF PageFollows, Faithful
  <2>3. Solution!Report(v0.wanted) \in Solution!Texts
    BY <1>5, <2>1, ReportHasText
  <2>4. Final(x) => Final(r.found)
    BY <1>7
  <2> QED BY <1>7, <1>8, <2>2, <2>3, <2>4
<1> QED BY <1>5, <1>6, <1>8, <1>9, <1>10, <1>12, PageMoves

\* Whatever is done,
LEMMA SolutionKeeps ==
    ASSUME SolutionInv, Solution!Next
    PROVE  SolutionInv'
<1>1. CASE \E s \in Solutions :
             Solution!testSolutionInternal(s) \/ Solution!resubmitSolution(s)
  BY <1>1, SolutionJudged
<1>2. ASSUME NEW p \in Viewers, Solution!Working(p) PROVE SolutionInv'
  BY <1>2, RequestServed, SolutionRendered, StatusAsked, StatusAnswered
     DEF Solution!Working
<1>3. ASSUME NEW p \in Viewers, NEW s \in Wanted[p], Solution!Open(p, s)
      PROVE  SolutionInv'
  <2>1. s \in Solutions
    BY SolutionAssumption
  <2> QED BY <1>3, <2>1, SolutionOpened
<1> QED BY <1>1, <1>2, <1>3, AskingFailed DEF Solution!Next

\* or nothing is.
LEMMA SolutionStays ==
    ASSUME SolutionInv, UNCHANGED <<solution, solutionsForm, viewer, request, judgings, mixed>>
    PROVE  SolutionInv'
<1>1. SolutionTyped'
  BY DEF SolutionInv, SolutionTyped
<1>2. ASSUME NEW p \in Viewers PROVE PageFits(p)' /\ PageFollows(p)'
  BY OtherViewer
<1> QED BY <1>1, <1>2 DEF SolutionInv

\* A page that rests shows its solution's verdict.
LEMMA SolutionInvTrue == SolutionInv => Solution!RestsOnVerdict
<1> SUFFICES ASSUME SolutionInv, NEW p \in Viewers, viewer[p].state = "resting",
                    ~viewer[p].failed, viewer[p].wanted \notin RunAll, p \notin mixed,
                    ~(judgings[viewer[p].wanted] > viewer[p].since)
             PROVE  viewer[p].shown = Solution!Report(viewer[p].wanted)
  BY DEF Solution!RestsOnVerdict
<1>1. PageFits(p) /\ PageFollows(p) /\ viewer[p] \in Viewer
      /\ judgings \in [Solutions -> Nat]
  BY DEF SolutionInv, SolutionTyped
<1>2. /\ viewer[p].wanted \in Solutions /\ viewer[p].since \in Nat
      /\ viewer[p].since <= judgings[viewer[p].wanted]
  BY <1>1 DEF PageFits, Viewer
<1>3. judgings[viewer[p].wanted] = viewer[p].since
  BY <1>1, <1>2
<1>4. Current(p)
  BY <1>3 DEF Current
<1> QED BY <1>1, <1>4 DEF PageFollows, Faithful
-----------------------------------------------------------------------------
(* The table: the names of its variables.                                   *)

grid == w1
start == w2
search == w3
sorting == w4
iDraw == w5
fetches == w6
rows == w7
pager == w8
line == w9
records == w10
frozen == w11
changes == w12
lost == w13
overtaken == w14

USE DEF grid, start, search, sorting, iDraw, fetches, rows, pager, line, records,
        frozen, changes, lost, overtaken

\* The first row of a page.
OfPage(n) == \E k \in Nat : n = k * PageLength

\* A number of rows makes as many pages as begin before their end.
LEMMA PagesBegin ==
    ASSUME NEW n \in Nat
    PROVE  /\ Table!Ceiling(n) \in Nat
           /\ \A k \in Nat : k < Table!Ceiling(n) <=> k * PageLength < n
<1>1. PICK len \in Nat : len = PageLength /\ len > 0
  BY TableAssumption
<1>2. PICK q, r : q = (n + len - 1) \div len /\ r = (n + len - 1) % len
  OBVIOUS
<1>3. n + len - 1 \in Nat
  BY <1>1
<1>4. q \in Nat /\ r \in 0..(len - 1) /\ n + len - 1 = len * q + r
  BY <1>1, <1>2, <1>3
<1>5. ASSUME NEW k \in Nat PROVE k < q <=> k * len < n
  <2>1. CASE k < q
    <3>1. PICK d \in Nat : q = k + 1 + d
      <4>1. q - k - 1 \in Nat /\ q = k + 1 + (q - k - 1)
        BY <1>4, <2>1
      <4> QED BY <4>1
    <3>2. len * q = len * k + len + len * d /\ len * d >= 0 /\ len * k \in Nat
      BY <1>1, <3>1
    <3>3. len * k = k * len
      BY <1>1
    <3> QED BY <1>1, <1>4, <2>1, <3>2, <3>3
  <2>2. CASE q <= k
    <3>1. PICK d \in Nat : k = q + d
      <4>1. k - q \in Nat /\ k = q + (k - q)
        BY <1>4, <2>2
      <4> QED BY <4>1
    <3>2. k * len = len * q + len * d /\ len * d >= 0 /\ len * q \in Nat
      BY <1>1, <1>4, <3>1
    <3> QED BY <1>1, <1>4, <2>2, <3>2
  <2> QED BY <1>4, <2>1, <2>2
<1> QED BY <1>1, <1>2, <1>4, <1>5 DEF Table!Ceiling

\* A page begins where its number says.
LEMMA PageOf ==
    ASSUME NEW k \in Nat
    PROVE  k * PageLength \in Nat /\ Table!Ceiling(k * PageLength) = k
<1>1. PICK len \in Nat : len = PageLength /\ len > 0
  BY TableAssumption
<1>2. PICK n \in Nat : n = k * len
  BY <1>1
<1>3. PICK c \in Nat : /\ c = Table!Ceiling(n)
                       /\ \A j \in Nat : j < c <=> j * len < n
  BY <1>1, PagesBegin
<1>4. ~(k < c)
  BY <1>2, <1>3
<1>5. ~(c < k)
  <2> SUFFICES ASSUME c < k PROVE FALSE
    OBVIOUS
  <2>1. PICK d \in Nat : k = c + 1 + d
    <3>1. k - c - 1 \in Nat /\ k = c + 1 + (k - c - 1)
      OBVIOUS
    <3> QED BY <3>1
  <2>2. n = c * len + len + d * len /\ d * len >= 0 /\ c * len \in Nat
    BY <1>1, <1>2, <2>1
  <2>3. c * len < n
    BY <1>1, <2>2
  <2> QED BY <1>3, <2>3
<1> QED BY <1>1, <1>2, <1>3, <1>4, <1>5

\* A few neighbours, a first and a last page are at most seven.
LEMMA AtMostSeven ==
    ASSUME NEW a \in Int, NEW b \in Int, b - a <= 4, NEW x, NEW y
    PROVE  LET S == (a..b) \cup {x} \cup {y}
           IN  IsFiniteSet(S) /\ Cardinality(S) \in Nat /\ Cardinality(S) <= 7
<1>1. IsFiniteSet(a..b) /\ Cardinality(a..b) \in Nat /\ Cardinality(a..b) <= 5
  <2>1. IsFiniteSet(a..b) /\ Cardinality(a..b) = IF a > b THEN 0 ELSE b - a + 1
    BY FS_Interval, Zenon
  <2> QED BY <2>1
<1>2. ASSUME NEW S, NEW z, NEW n \in Nat, IsFiniteSet(S), Cardinality(S) <= n
      PROVE  /\ IsFiniteSet(S \cup {z})
             /\ Cardinality(S \cup {z}) \in Nat /\ Cardinality(S \cup {z}) <= n + 1
  <2>1. /\ IsFiniteSet(S \cup {z})
        /\ Cardinality(S \cup {z}) = IF z \in S THEN Cardinality(S) ELSE Cardinality(S) + 1
    BY <1>2, FS_AddElement, Zenon
  <2>2. Cardinality(S) \in Nat
    BY <1>2, FS_CardinalityType, Zenon
  <2> QED BY <1>2, <2>1, <2>2
<1>3. PICK T : T = (a..b) \cup {x}
  OBVIOUS
<1>4. IsFiniteSet(T) /\ Cardinality(T) \in Nat /\ Cardinality(T) <= 6
  <2>1. /\ IsFiniteSet((a..b) \cup {x})
        /\ Cardinality((a..b) \cup {x}) \in Nat /\ Cardinality((a..b) \cup {x}) <= 5 + 1
    BY ONLY <1>1, <1>2, 5 \in Nat
  <2> QED BY <1>3, <2>1
<1>5. /\ IsFiniteSet(T \cup {y}) /\ Cardinality(T \cup {y}) \in Nat
      /\ Cardinality(T \cup {y}) <= 6 + 1
  BY ONLY <1>2, <1>4, 6 \in Nat
<1> QED BY <1>3, <1>5

\* The links that are drawn, for any page and any number of pages.
LEMMA LinksReach ==
    ASSUME NEW p, p.page \in Nat, p.pages \in Nat
    PROVE  /\ Table!Links(p) \subseteq 1..p.pages
           /\ {1, p.pages, p.page, p.page + 1, p.page + 2}
                 \cap 1..p.pages \subseteq Table!Links(p)
           /\ Table!Cardinality(Table!Links(p)) <= Table!iListLength
<1>1. PICK g \in Nat, n \in Nat : g = p.page /\ n = p.pages
  OBVIOUS
<1>2. PICK a, b : a = Table!iStart(p) /\ b = Table!iEnd(p)
  OBVIOUS
<1>3. Table!iHalf = 3 /\ Table!iListLength = 7
  BY DEF Table!iHalf, Table!iListLength
<1>4. /\ n <= 7 => a = 1 /\ b = n
      /\ n > 7 /\ g <= 3 => a = 1 /\ b = 5
      /\ n > 7 /\ g > 3 /\ g >= n - 4 => a = n - 4 /\ b = n
      /\ n > 7 /\ g > 3 /\ g < n - 4 => a = g /\ b = g + 2
  BY <1>1, <1>2, <1>3 DEF Table!iStart, Table!iEnd
<1>5. Table!Links(p) = (a..b) \cup {k \in {1} : a > 1} \cup {k \in {n} : b < n}
  BY <1>1, <1>2 DEF Table!Links
<1>6. a \in Int /\ b \in Int /\ (n > 7 => b - a <= 4)
  BY <1>1, <1>4
<1>7. Table!Links(p) \subseteq 1..n
  BY <1>1, <1>4, <1>5, <1>6
<1>8. {1, n, g, g + 1, g + 2} \cap 1..n \subseteq Table!Links(p)
  BY <1>1, <1>4, <1>5, <1>6
<1>9. Cardinality(Table!Links(p)) <= 7
  <2>1. CASE n <= 7
    <3>1. Table!Links(p) = 1..n
      BY <1>4, <1>5, <2>1
    <3>2. Cardinality(1..n) = n
      BY <1>1, FS_Interval
    <3> QED BY <1>1, <2>1, <3>1, <3>2
  <2>2. CASE n > 7
    <3>1. PICK S : S = (a..b) \cup {1} \cup {n}
      OBVIOUS
    <3>2. IsFiniteSet(S) /\ Cardinality(S) \in Nat /\ Cardinality(S) <= 7
      BY <1>6, <2>2, <3>1, AtMostSeven
    <3>3. Table!Links(p) \subseteq S
      BY <1>5, <3>1
    <3>4. Cardinality(Table!Links(p)) <= Cardinality(S) /\ Cardinality(Table!Links(p)) \in Nat
      BY <3>2, <3>3, FS_Subset, FS_CardinalityType
    <3> QED BY <3>2, <3>4
  <2> QED BY <1>1, <2>1, <2>2
<1>10. Table!Cardinality(Table!Links(p)) = Cardinality(Table!Links(p))
  BY DEF Table!Cardinality, Cardinality
<1> QED BY <1>1, <1>3, <1>7, <1>8, <1>9, <1>10

TableTyped ==
    /\ grid \in {"none", "problems", "monitor"}
    /\ start \in Nat /\ OfPage(start) /\ search \in BOOLEAN
    /\ sorting \in Table!Directions /\ iDraw \in 0..MaxDraws
    /\ fetches \subseteq Table!Request \cup Table!Reply /\ rows \in Table!Reply
    /\ records \in Nat /\ frozen \in BOOLEAN /\ changes \in Nat
    /\ grid = "none" => iDraw = 0 /\ line = Table!Nothing

\* A question, or its answer; only the newest is of the page asked for.
AsksFor(r) ==
    /\ r.echo \in 1..iDraw /\ OfPage(r.from)
    /\ r.echo = iDraw => r.from = start /\ r.search = search /\ r.order = sorting

\* The rows in an answer of getProblemList.
Counted(r) ==
    grid = "problems" =>
      /\ r.from < r.display => /\ r.first = r.from
                               /\ r.count = IF r.from + PageLength < r.display
                                            THEN PageLength ELSE r.display - r.from
      /\ ~(r.from < r.display) => r.count = r.display

FetchesFit == \A r \in fetches : AsksFor(r) /\ (r \in Table!Reply => Counted(r))

RowsFit ==
    rows # Table!Nothing =>
        /\ AsksFor(rows) /\ Counted(rows)
        /\ pager = Table!fnPagingInfo(rows.from, rows.display)

NewestComes ==
    iDraw > 0 => \/ \E r \in fetches : r.echo = iDraw
                 \/ lost
                 \/ rows.echo = iDraw

LineFits == grid # "problems" => overtaken \/ line.echo = rows.echo

TableInv == TableTyped /\ FetchesFit /\ RowsFit /\ NewestComes /\ LineFits

\* The table before it is drawn.
LEMMA TableInit == Table!Init => TableInv
<1>1. OfPage(0)
  BY TableAssumption DEF OfPage
<1> SUFFICES ASSUME Table!Init PROVE TableInv
  OBVIOUS
<1>2. /\ start = 0 /\ iDraw = 0 /\ fetches = {} /\ rows = Table!Nothing
      /\ line = Table!Nothing
  BY DEF Table!Init
<1>3. Table!Nothing \in Table!Reply
  BY TableAssumption DEF Table!Reply, Table!Nothing, Table!Directions
<1>4. TableTyped
  <2>1. /\ grid = "none" /\ search = FALSE /\ sorting = "desc" /\ records = 0
        /\ frozen = FALSE /\ changes = 0
    BY DEF Table!Init
  <2>2. start \in Nat /\ OfPage(start) /\ iDraw \in 0..MaxDraws
    BY <1>1, <1>2, TableAssumption
  <2>3. search \in BOOLEAN /\ frozen \in BOOLEAN
    BY <2>1
  <2> QED BY <1>2, <1>3, <2>1, <2>2, <2>3 DEF TableTyped, Table!Directions
<1> QED BY <1>2, <1>4 DEF TableInv, FetchesFit, RowsFit, NewestComes, LineFits

\* A question goes out, by which the table may become one of the two.
LEMMA RowsAsked ==
    ASSUME TableInv, NEW from \in Nat, OfPage(from), NEW searched \in BOOLEAN,
           NEW order \in Table!Directions, Table!Draw(from, searched, order),
           grid' \in {"problems", "monitor"}, grid = "none" \/ grid' = grid,
           records' \in Nat, UNCHANGED <<rows, pager, line, frozen, changes, overtaken>>
    PROVE  TableInv'
<1>0. PICK q : q = [echo |-> iDraw + 1, from |-> from, search |-> searched, order |-> order]
  OBVIOUS
<1>1. /\ iDraw' = iDraw + 1 /\ iDraw < MaxDraws /\ start' = from /\ search' = searched
      /\ sorting' = order /\ fetches' = fetches \cup {q} /\ lost' = FALSE
  BY <1>0 DEF Table!Draw
<1>2. TableTyped /\ iDraw \in Nat /\ iDraw + 1 \in 1..MaxDraws
  BY <1>1, TableAssumption DEF TableInv, TableTyped
<1>3. /\ q \in Table!Request /\ q.echo = iDraw + 1 /\ q.from = from /\ q.search = searched
      /\ q.order = order
  BY <1>0, <1>2 DEF Table!Request
<1>4. \A r : r.echo \in 1..iDraw => r.echo \in 1..(iDraw + 1) /\ r.echo # iDraw + 1
  BY <1>2
<1>5. \A r \in fetches : AsksFor(r)' /\ (r \in Table!Reply => Counted(r)')
  <2> TAKE r \in fetches
  <2>1. AsksFor(r) /\ (r \in Table!Reply => Counted(r))
    BY DEF TableInv, FetchesFit
  <2>2. grid' = grid
    BY <1>2, <2>1 DEF TableTyped, AsksFor
  <2>3. AsksFor(r)'
    BY <1>1, <1>4, <2>1 DEF AsksFor, OfPage
  <2>4. r \in Table!Reply => Counted(r)'
    BY <2>1, <2>2 DEF Counted
  <2> QED BY <2>3, <2>4
<1>6. AsksFor(q)'
  BY <1>1, <1>2, <1>3 DEF AsksFor, OfPage
<1>7. q \in Table!Reply => FALSE
  <2>1. DOMAIN q = {"echo", "from", "search", "order"}
    BY <1>3 DEF Table!Request
  <2>2. \A r \in Table!Reply : "display" \in DOMAIN r
    BY DEF Table!Reply
  <2> QED BY <2>1, <2>2
<1>8. FetchesFit'
  BY <1>1, <1>5, <1>6, <1>7 DEF FetchesFit
<1>9. RowsFit'
  <2> SUFFICES ASSUME rows # Table!Nothing PROVE RowsFit'
    BY DEF RowsFit, Table!Nothing
  <2>1. AsksFor(rows) /\ Counted(rows) /\ pager = Table!fnPagingInfo(rows.from, rows.display)
    BY DEF TableInv, RowsFit
  <2>2. grid' = grid
    BY <1>2, <2>1 DEF TableTyped, AsksFor
  <2> QED BY <1>1, <1>4, <2>1, <2>2 DEF RowsFit, AsksFor, Counted, OfPage,
             Table!fnPagingInfo, Table!Ceiling
<1>10. NewestComes'
  BY <1>1, <1>3 DEF NewestComes
<1>11. LineFits'
  <2>1. grid = "none" => rows = Table!Nothing /\ line = Table!Nothing
    BY <1>2 DEF TableInv, RowsFit, AsksFor, TableTyped
  <2> QED BY <2>1 DEF TableInv, LineFits
<1>12. TableTyped'
  BY <1>1, <1>2, <1>3 DEF TableTyped, OfPage
<1> QED BY <1>8, <1>9, <1>10, <1>11, <1>12 DEF TableInv

\* What the user and the timer do.
LEMMA TableUsed ==
    ASSUME TableInv,
           \/ \E g \in {"problems", "monitor"}, from, n \in 0..MaxRecords,
                 searched \in BOOLEAN, order \in Table!Directions :
                from % PageLength = 0 /\ Table!Open(g, from, searched, order, n)
           \/ \E n \in 1..MaxRecords : Table!ClickLink(n)
           \/ Table!PreviousPage \/ Table!NextPage \/ Table!Search \/ Table!Sort
           \/ Table!fnReloadAjax
    PROVE  TableInv'
<1>1. PICK len \in Nat : len = PageLength /\ len > 0
  BY TableAssumption
<1>2. TableTyped /\ OfPage(start) /\ search \in BOOLEAN /\ sorting \in Table!Directions
  BY DEF TableInv, TableTyped
<1>3. \A k \in Nat : OfPage(k * len) /\ k * len \in Nat
  BY <1>1 DEF OfPage
<1>4. OfPage(0)
  BY <1>1 DEF OfPage
<1>5. ASSUME NEW g \in {"problems", "monitor"}, NEW from \in 0..MaxRecords,
             NEW n \in 0..MaxRecords, NEW searched \in BOOLEAN,
             NEW order \in Table!Directions,
             from % PageLength = 0, Table!Open(g, from, searched, order, n)
      PROVE  TableInv'
  <2>1. from \in Nat /\ n \in Nat
    BY <1>5, TableAssumption
  <2>2. PICK k : k = from \div len
    OBVIOUS
  <2>3. k \in Nat /\ from = (len * k) + (from % len)
    BY <1>1, <2>1, <2>2
  <2>4. len * k = k * len
    BY <1>1, <2>3
  <2>5. from = k * len
    BY <1>1, <1>5, <2>3, <2>4
  <2>6. OfPage(from)
    BY <1>3, <2>3, <2>5
  <2> QED BY <1>5, <2>1, <2>6, RowsAsked DEF Table!Open
<1>6. ASSUME NEW n \in 1..MaxRecords, Table!ClickLink(n) PROVE TableInv'
  <2>1. n - 1 \in Nat
    BY <1>6, TableAssumption
  <2>2. OfPage((n - 1) * PageLength) /\ (n - 1) * PageLength \in Nat
    BY <1>1, <1>3, <2>1
  <2> QED BY <1>2, <1>6, <2>2, RowsAsked DEF Table!ClickLink, Table!serverVars, TableTyped
<1>7. ASSUME NEW to, Table!fnClickHandler(to), to \in Nat, OfPage(to) PROVE TableInv'
  BY <1>2, <1>7, RowsAsked DEF Table!fnClickHandler, Table!serverVars, TableTyped
<1>8. PICK k \in Nat : start = k * len
  BY <1>1, <1>2 DEF OfPage
<1>9. Table!Previous \in Nat /\ OfPage(Table!Previous)
  <2>1. CASE start >= len
    <3>1. k # 0
      BY <1>1, <1>8, <2>1
    <3>2. k - 1 \in Nat
      BY <3>1
    <3>3. start - len = (k - 1) * len
      BY <1>1, <1>8
    <3> QED BY <1>1, <1>3, <2>1, <3>2, <3>3 DEF Table!Previous
  <2>2. CASE ~(start >= len)
    BY <1>1, <1>4, <2>2 DEF Table!Previous
  <2> QED BY <2>1, <2>2
<1>10. Table!Following \in Nat /\ OfPage(Table!Following)
  <2>1. start + len = (k + 1) * len /\ k + 1 \in Nat
    <3>1. k * len \in Nat /\ (k + 1) * len = k * len + len
      BY <1>1
    <3> QED BY <1>1, <1>8, <3>1
  <2>2. OfPage(start + len) /\ start + len \in Nat
    BY <1>1, <1>3, <2>1
  <2>3. start \in Nat
    BY <1>2 DEF TableTyped
  <2> QED BY <1>1, <1>2, <2>2, <2>3 DEF Table!Following
<1>11. ASSUME Table!Search PROVE TableInv'
  BY <1>2, <1>4, <1>11, RowsAsked DEF Table!Search, Table!serverVars, TableTyped
<1>12. ASSUME Table!Sort PROVE TableInv'
  BY <1>2, <1>4, <1>12, RowsAsked
     DEF Table!Sort, Table!serverVars, TableTyped, Table!Directions
<1>13. ASSUME Table!fnReloadAjax PROVE TableInv'
  BY <1>2, <1>4, <1>13, RowsAsked DEF Table!fnReloadAjax, Table!serverVars, TableTyped
<1> QED BY <1>5, <1>6, <1>7, <1>9, <1>10, <1>11, <1>12, <1>13
           DEF Table!PreviousPage, Table!NextPage

\* A request is served.
LEMMA RowsServed ==
    ASSUME TableInv, NEW r \in fetches, Table!Serve(r)
    PROVE  TableInv'
<1>1. PICK a : a = IF grid = "monitor" THEN Table!getAcmMonitorData(r)
                   ELSE Table!getProblemList(r)
  OBVIOUS
<1>2. /\ r \in Table!Request /\ fetches' = (fetches \ {r}) \cup {a}
      /\ UNCHANGED <<grid, start, search, sorting, iDraw, rows, pager, line, records,
                     frozen, changes, lost, overtaken>>
  BY <1>1 DEF Table!Serve, Table!pageVars, Table!serverVars, Table!history
<1>3. /\ TableTyped /\ FetchesFit /\ r.echo \in 1..MaxDraws /\ r.from \in Nat
      /\ r.search \in BOOLEAN /\ r.order \in Table!Directions
  BY <1>2 DEF TableInv, Table!Request
<1>4. PICK n \in Nat : n = Table!Found(r.search)
  BY <1>3, TableAssumption DEF Table!Found, TableTyped
<1>5. a.echo = r.echo /\ a.from = r.from /\ a.search = r.search /\ a.order = r.order
  BY <1>1 DEF Table!getAcmMonitorData, Table!getProblemList
<1>6. PICK len \in Nat : len = PageLength /\ len > 0
  BY TableAssumption
<1>7. a \in Table!Reply /\ Counted(a)
  <2>1. CASE grid = "monitor"
    <3>1. a = [echo |-> r.echo, from |-> r.from, search |-> r.search, order |-> r.order,
               display |-> records, first |-> 0, count |-> records, frozen |-> frozen,
               version |-> changes]
      BY <1>1, <2>1 DEF Table!getAcmMonitorData
    <3>2. r.echo \in 0..MaxDraws /\ 0 \in Nat
      BY <1>3, TableAssumption
    <3> QED BY <1>3, <2>1, <3>1, <3>2 DEF Table!Reply, TableTyped, Counted
  <2>2. CASE grid # "monitor"
    <3>1. PICK c : c = IF r.from + len > n THEN n - r.from ELSE len
      OBVIOUS
    <3>2. a = [echo |-> r.echo, from |-> r.from, search |-> r.search, order |-> r.order,
               display |-> n, first |-> IF c > 0 THEN r.from ELSE 0,
               count |-> IF c > 0 THEN c ELSE n, frozen |-> FALSE, version |-> changes]
      BY <1>1, <1>4, <1>6, <2>2, <3>1 DEF Table!getProblemList
    <3>3. PICK f, d : f = (IF c > 0 THEN r.from ELSE 0) /\ d = (IF c > 0 THEN c ELSE n)
      OBVIOUS
    <3>4. /\ f \in Nat /\ d \in Nat
          /\ r.from < n => f = r.from /\ d = IF r.from + len < n THEN len ELSE n - r.from
          /\ ~(r.from < n) => d = n
      BY <1>3, <1>6, <3>1, <3>3
    <3>5. r.echo \in 0..MaxDraws
      BY <1>3, TableAssumption
    <3>6. a \in Table!Reply /\ a.from = r.from /\ a.display = n /\ a.first = f /\ a.count = d
      BY <1>3, <3>2, <3>3, <3>4, <3>5 DEF Table!Reply, TableTyped
    <3> QED BY <1>6, <3>4, <3>6 DEF Counted
  <2> QED BY <2>1, <2>2
<1>8. FetchesFit'
  <2>1. AsksFor(a)
    BY <1>3, <1>5 DEF FetchesFit, AsksFor
  <2>2. \A q \in fetches' : AsksFor(q) /\ (q \in Table!Reply => Counted(q))
    BY <1>2, <1>3, <1>7, <2>1 DEF FetchesFit
  <2> QED BY <1>2, <2>2 DEF FetchesFit, AsksFor, Counted, OfPage
<1>9. NewestComes'
  BY <1>2, <1>5 DEF TableInv, NewestComes
<1>10. RowsFit' /\ LineFits'
  BY <1>2 DEF TableInv, RowsFit, LineFits, AsksFor, Counted, OfPage, Table!fnPagingInfo,
     Table!Ceiling, Table!Nothing
<1>11. TableTyped'
  BY <1>2, <1>3, <1>7 DEF TableTyped, OfPage
<1> QED BY <1>8, <1>9, <1>10, <1>11 DEF TableInv

\* A reply comes; only one that answers the newest question is drawn.
LEMMA RowsArrive ==
    ASSUME TableInv, NEW r \in fetches, Table!Arrive(r)
    PROVE  TableInv'
<1>1. /\ r \in Table!Reply /\ fetches' = fetches \ {r}
      /\ line' = (IF grid = "monitor" THEN r ELSE line)
      /\ overtaken' <=> (overtaken \/ r.echo < iDraw)
      /\ r.echo < iDraw => UNCHANGED <<rows, pager>>
      /\ ~(r.echo < iDraw) => rows' = r /\ pager' = Table!fnPagingInfo(start, r.display)
      /\ UNCHANGED <<grid, start, search, sorting, iDraw, records, frozen, changes, lost>>
  BY DEF Table!Arrive, Table!serverVars
<1>2. TableTyped /\ AsksFor(r) /\ Counted(r) /\ iDraw \in Nat /\ FetchesFit
  BY <1>1, TableAssumption DEF TableInv, FetchesFit, TableTyped
<1>3. r.echo \in 1..iDraw /\ grid # "none"
  BY <1>2 DEF AsksFor, TableTyped
<1>4. ~(r.echo < iDraw) => r.echo = iDraw
  BY <1>2, <1>3
<1>5. FetchesFit'
  BY <1>1, <1>2 DEF FetchesFit, AsksFor, Counted, OfPage
<1>6. RowsFit'
  <2>1. CASE r.echo < iDraw
    BY <1>1, <2>1 DEF TableInv, RowsFit, AsksFor, Counted, OfPage, Table!fnPagingInfo,
       Table!Ceiling, Table!Nothing
  <2>2. CASE ~(r.echo < iDraw)
    <3>1. rows' = r /\ pager' = Table!fnPagingInfo(r.from, r.display)
      BY <1>1, <1>2, <1>4, <2>2 DEF AsksFor
    <3>2. AsksFor(r)' /\ Counted(r)'
      BY <1>1, <1>2 DEF AsksFor, Counted, OfPage
    <3> QED BY <3>1, <3>2 DEF RowsFit, AsksFor, Counted, OfPage, Table!fnPagingInfo,
               Table!Ceiling
  <2> QED BY <2>1, <2>2
<1>7. NewestComes'
  <2>1. CASE r.echo < iDraw
    <3>1. r.echo # iDraw
      BY <1>2, <1>3, <2>1
    <3> QED BY <1>1, <2>1, <3>1 DEF TableInv, NewestComes
  <2>2. CASE ~(r.echo < iDraw)
    BY <1>1, <1>4, <2>2 DEF NewestComes
  <2> QED BY <2>1, <2>2
<1>8. LineFits'
  <2>1. CASE r.echo < iDraw
    BY <1>1, <2>1 DEF LineFits
  <2>2. CASE ~(r.echo < iDraw)
    <3>1. rows' = r /\ (grid # "problems" => line' = r)
      BY <1>1, <1>2, <1>3, <2>2 DEF TableTyped
    <3> QED BY <1>1, <3>1 DEF LineFits
  <2> QED BY <2>1, <2>2
<1>9. TableTyped'
  BY <1>1, <1>2, <1>3 DEF TableTyped, OfPage
<1> QED BY <1>5, <1>6, <1>7, <1>8, <1>9 DEF TableInv

\* A request gets no answer.
LEMMA RowsLost ==
    ASSUME TableInv, NEW r \in fetches, Table!Fail(r)
    PROVE  TableInv'
<1>1. /\ fetches' = fetches \ {r} /\ lost' = (lost \/ r.echo = iDraw)
      /\ UNCHANGED <<grid, start, search, sorting, iDraw, rows, pager, line, records,
                     frozen, changes, overtaken>>
  BY DEF Table!Fail, Table!pageVars, Table!serverVars
<1>2. FetchesFit'
  BY <1>1 DEF TableInv, FetchesFit, AsksFor, Counted, OfPage
<1>3. RowsFit' /\ LineFits'
  BY <1>1 DEF TableInv, RowsFit, LineFits, AsksFor, Counted, OfPage, Table!fnPagingInfo,
     Table!Ceiling, Table!Nothing
<1>4. NewestComes'
  BY <1>1 DEF TableInv, NewestComes
<1>5. TableTyped'
  BY <1>1 DEF TableInv, TableTyped, OfPage
<1> QED BY <1>2, <1>3, <1>4, <1>5 DEF TableInv

\* The list in the database is of no consequence to what is drawn.
LEMMA TableStays ==
    ASSUME TableInv, records' \in Nat, frozen' \in BOOLEAN, changes' \in Nat,
           UNCHANGED <<grid, start, search, sorting, iDraw, fetches, rows, pager, line,
                       lost, overtaken>>
    PROVE  TableInv'
<1>1. FetchesFit'
  BY DEF TableInv, FetchesFit, AsksFor, Counted, OfPage
<1>2. RowsFit' /\ LineFits'
  BY DEF TableInv, RowsFit, LineFits, AsksFor, Counted, OfPage, Table!fnPagingInfo,
     Table!Ceiling, Table!Nothing
<1>3. NewestComes'
  BY DEF TableInv, NewestComes
<1>4. TableTyped'
  BY DEF TableInv, TableTyped, OfPage
<1> QED BY <1>1, <1>2, <1>3, <1>4 DEF TableInv

\* Whatever is done.
LEMMA TableKeeps ==
    ASSUME TableInv, Table!Next
    PROVE  TableInv'
<1>1. TableTyped
  BY DEF TableInv
<1>2. ASSUME NEW n \in {records - 1, records + 1} \cap 0..MaxRecords, Table!Change(n)
      PROVE  TableInv'
  <2>1. n \in Nat /\ changes + 1 \in Nat
    BY <1>1, <1>2, TableAssumption DEF TableTyped
  <2> QED BY <1>1, <1>2, <2>1, TableStays
          DEF Table!Change, Table!pageVars, Table!history, TableTyped
<1>3. ASSUME Table!Freeze PROVE TableInv'
  BY <1>1, <1>3, TableStays DEF Table!Freeze, Table!pageVars, Table!history, TableTyped
<1>4. ASSUME NEW r \in fetches, Table!Serve(r) \/ Table!Arrive(r) \/ Table!Fail(r)
      PROVE  TableInv'
  BY <1>4, RowsServed, RowsArrive, RowsLost
<1>5. CASE ~(\E r \in fetches : Table!Serve(r) \/ Table!Arrive(r) \/ Table!Fail(r))
  <2>1. \/ \E g \in {"problems", "monitor"}, from, n \in 0..MaxRecords,
              searched \in BOOLEAN, order \in Table!Directions :
             from % PageLength = 0 /\ Table!Open(g, from, searched, order, n)
        \/ \E n \in 1..MaxRecords : Table!ClickLink(n)
        \/ Table!PreviousPage \/ Table!NextPage \/ Table!Search \/ Table!Sort
        \/ Table!fnReloadAjax
        \/ \E n \in {records - 1, records + 1} \cap 0..MaxRecords : Table!Change(n)
        \/ Table!Freeze
    BY <1>5 DEF Table!Next
  <2> QED BY <1>2, <1>3, <2>1, TableUsed
<1> QED BY <1>4, <1>5

\* What the table shows.
LEMMA TableInvTrue ==
    ASSUME TableInv
    PROVE  /\ Table!ShownIsAsked /\ Table!PagerReaches /\ Table!ArrowsTrue
           /\ Table!InformationTrue /\ Table!LineOfRows
<1>1. TableTyped /\ FetchesFit /\ RowsFit /\ NewestComes /\ LineFits /\ iDraw \in Nat
  BY TableAssumption DEF TableInv, TableTyped
<1>2. rows.display \in Nat /\ rows.from \in Nat /\ rows.count \in Nat
  BY <1>1 DEF TableTyped, Table!Reply
<1>3. Table!ShownIsAsked
  <2> SUFFICES ASSUME ~(\E r \in fetches : r.echo = iDraw), ~lost, iDraw > 0
               PROVE  /\ rows.from = start /\ rows.search = search /\ rows.order = sorting
                      /\ pager = Table!fnPagingInfo(rows.from, rows.display)
    BY DEF Table!ShownIsAsked, Table!Pending
  <2>1. rows.echo = iDraw
    BY <1>1 DEF NewestComes
  <2>2. rows # Table!Nothing
    BY <1>1, <2>1 DEF Table!Nothing
  <2> QED BY <1>1, <2>1, <2>2 DEF RowsFit, AsksFor
<1>4. PICK len \in Nat : len = PageLength /\ len > 0
  BY TableAssumption
<1>5. ASSUME rows # Table!Nothing
      PROVE  /\ pager.page = Table!Ceiling(rows.from) /\ pager.page \in Nat
             /\ pager.pages = Table!Ceiling(rows.display) /\ pager.pages \in Nat
  BY <1>1, <1>2, <1>5, PagesBegin DEF RowsFit, Table!fnPagingInfo
<1>6. Table!PagerReaches
  BY <1>5, LinksReach DEF Table!PagerReaches
<1>7. Table!ArrowsTrue
  <2> SUFFICES ASSUME rows # Table!Nothing, fetches = {}, ~lost
               PROVE  /\ Table!LeadsBack(pager) <=> Table!Previous # start
                      /\ pager.page < pager.pages \/ pager.pages = 0
                           => (Table!LeadsOn(pager) <=> Table!Following # start)
    BY DEF Table!ArrowsTrue
  <2>1. rows.echo \in 1..iDraw
    BY <1>1 DEF RowsFit, AsksFor
  <2>2. rows.echo = iDraw
    BY <1>1, <2>1 DEF NewestComes
  <2>3. rows.from = start
    BY <1>1, <2>2 DEF RowsFit, AsksFor
  <2>4. PICK k \in Nat : start = k * len
    BY <1>1, <1>4 DEF TableTyped, OfPage
  <2>5. pager.page = k
    BY <1>4, <1>5, <2>3, <2>4, PageOf
  <2>6. PICK n \in Nat : n = pager.pages /\ \A j \in Nat : j < n <=> j * len < rows.display
    BY <1>2, <1>4, <1>5, PagesBegin
  <2>7. start \in Nat /\ start + len = (k + 1) * len
    <3>1. k * len \in Nat /\ (k + 1) * len = k * len + len
      BY <1>4
    <3> QED BY <2>4, <3>1
  <2>8. Table!LeadsBack(pager) <=> Table!Previous # start
    <3>1. CASE k = 0
      BY <1>4, <2>4, <2>5, <3>1 DEF Table!LeadsBack, Table!Previous
    <3>2. CASE k # 0
      <4>1. PICK j \in Nat : k = j + 1
        <5>1. k - 1 \in Nat /\ k = (k - 1) + 1
          BY <3>2
        <5> QED BY <5>1
      <4>2. start = j * len + len /\ j * len \in Nat
        BY <1>4, <2>4, <4>1
      <4> QED BY <1>4, <2>5, <3>2, <4>2 DEF Table!LeadsBack, Table!Previous
    <3> QED BY <3>1, <3>2
  <2>9. Table!Following # start <=> k + 1 < n
    <3>1. k + 1 < n <=> start + len < rows.display
      BY <2>6, <2>7
    <3> QED BY <1>4, <2>7, <3>1 DEF Table!Following
  <2>10. Table!LeadsOn(pager) <=> k # n - 1 /\ n # 0
    BY <2>5, <2>6 DEF Table!LeadsOn
  <2>11. \A i, m \in Nat : (i < m \/ m = 0) => (i # m - 1 /\ m # 0 <=> i + 1 < m)
    OBVIOUS
  <2>12. pager.page < pager.pages \/ pager.pages = 0 =>
           (Table!LeadsOn(pager) <=> Table!Following # start)
    BY <2>5, <2>6, <2>9, <2>10, <2>11
  <2> QED BY <2>8, <2>12
<1>8. Table!InformationTrue
  <2> SUFFICES ASSUME grid = "problems", rows # Table!Nothing
               PROVE  LET i == Table!Information(rows.from, rows.display)
                      IN  IF rows.from < rows.display
                          THEN /\ i.last - i.first + 1 = rows.count
                               /\ rows.first = i.first - 1
                          ELSE /\ rows.count = rows.display
                               /\ rows.display > 0 => i.last < i.first
    BY DEF Table!InformationTrue
  <2>1. Counted(rows)
    BY <1>1 DEF RowsFit
  <2> QED BY <1>2, <1>4, <2>1 DEF Counted, Table!Information
<1>9. Table!LineOfRows
  BY <1>1 DEF LineFits, Table!LineOfRows
<1> QED BY <1>3, <1>6, <1>7, <1>8, <1>9

-----------------------------------------------------------------------------
(* The text editor: the names of its variables, and its undo manager.       *)

scripts == w1
stage == w2
editor == w3
undo == w4
textarea == w5
posted == w6
edited == w7
last == w8

USE DEF scripts, stage, editor, undo, textarea, posted, edited, last

Images == Description!Content

\* The images are not too many; who types may undo; the button "Undo" is
\* enabled while there is an earlier image.
UndoFits(u) ==
    /\ u \in Description!UndoManager
    /\ Len(u.snapshots) <= UndoLimit /\ u.index \in 0..Len(u.snapshots)
    /\ Description!Earlier(u) # {} => u.hasUndo
    /\ u.typing => u.hasUndo /\ ~u.hasRedo

\* The image that is pushed is the current one; those before it were there.
LEMMA ImagePushed ==
    ASSUME NEW u \in Description!UndoManager, Len(u.snapshots) <= UndoLimit,
           u.index \in 0..Len(u.snapshots), NEW c \in Images,
           NEW v, v = Description!Pushed(u, c)
    PROVE  /\ v \in Description!UndoManager
           /\ v.hasUndo = u.hasUndo /\ v.hasRedo = u.hasRedo /\ v.enabled = u.enabled
           /\ v.snapshots \in Seq(Images) /\ Len(v.snapshots) <= UndoLimit
           /\ v.index = Len(v.snapshots) /\ v.index >= 1 /\ v.snapshots[v.index] = c
           /\ \A i \in 1..(v.index - 1) : \E j \in 1..u.index : v.snapshots[i] = u.snapshots[j]
<1>1. PICK kept : kept = SubSeq(u.snapshots, 1, u.index)
  OBVIOUS
<1>2. u.snapshots \in Seq(Images) /\ u.index \in Nat /\ UndoLimit \in Nat /\ UndoLimit > 0
  BY EditorAssumption DEF Description!UndoManager, Images
<1>3. /\ kept \in Seq(Images) /\ Len(kept) = u.index
      /\ \A i \in 1..u.index : kept[i] = u.snapshots[i]
  BY <1>1, <1>2
<1>4. PICK room : room = IF Len(kept) = UndoLimit THEN Tail(kept) ELSE kept
  OBVIOUS
<1>5. /\ room \in Seq(Images) /\ Len(room) + 1 <= UndoLimit /\ Len(room) \in Nat
      /\ \A i \in 1..Len(room) : \E j \in 1..u.index : room[i] = u.snapshots[j]
  <2>1. CASE Len(kept) = UndoLimit
    <3>1. /\ room \in Seq(Images) /\ Len(room) = u.index - 1
          /\ \A i \in 1..Len(room) : room[i] = kept[i + 1] /\ i + 1 \in 1..u.index
      BY <1>2, <1>3, <1>4, <2>1
    <3>2. ASSUME NEW i \in 1..Len(room)
          PROVE  room[i] = u.snapshots[i + 1] /\ i + 1 \in 1..u.index
      BY <1>3, <3>1
    <3>3. \A n \in Nat : n > 0 /\ u.index = n => n - 1 + 1 <= n /\ n - 1 \in Nat
      OBVIOUS
    <3>4. Len(room) + 1 <= UndoLimit /\ Len(room) \in Nat
      BY <1>2, <1>3, <2>1, <3>1, <3>3
    <3>5. \A i \in 1..Len(room) : \E j \in 1..u.index : room[i] = u.snapshots[j]
      BY <3>2
    <3> QED BY <3>1, <3>4, <3>5
  <2>2. CASE Len(kept) # UndoLimit
    BY <1>2, <1>3, <1>4, <2>2
  <2> QED BY <2>1, <2>2
<1>6. PICK s : s = Append(room, c)
  OBVIOUS
<1>7. /\ s \in Seq(Images) /\ Len(s) = Len(room) + 1 /\ s[Len(room) + 1] = c
      /\ \A i \in 1..Len(room) : s[i] = room[i]
  BY <1>5, <1>6
<1>8. v = [u EXCEPT !.snapshots = s, !.index = Len(room) + 1]
  BY <1>1, <1>4, <1>6 DEF Description!Pushed
<1>9. v.snapshots = s /\ v.index = Len(room) + 1
  BY <1>8 DEF Description!UndoManager
<1>10. s \in Seq(Description!Content) /\ Len(room) + 1 \in Nat
  BY <1>5, <1>7 DEF Images
<1>11. v \in Description!UndoManager
  BY <1>8, <1>10 DEF Description!UndoManager
<1>12. v.hasUndo = u.hasUndo /\ v.hasRedo = u.hasRedo /\ v.enabled = u.enabled
  BY <1>8 DEF Description!UndoManager
<1>13. Len(room) + 1 - 1 = Len(room) /\ Len(room) + 1 >= 1
  BY <1>5
<1> QED BY <1>5, <1>7, <1>9, <1>13, <1>12, <1>11

\* The least of the places.
LEMMA LeastPlace ==
    ASSUME NEW S \in SUBSET Nat, NEW m \in S
    PROVE  Description!Min(S) \in S /\ \A i \in S : Description!Min(S) <= i
<1>1. \E x \in S : \A y \in S : x <= y
  BY LeastNumber
<1> QED BY <1>1 DEF Description!Min

\* And the greatest.
LEMMA GreatestPlace ==
    ASSUME NEW n \in Nat, NEW S \in SUBSET 1..n, NEW m \in S
    PROVE  Description!Max(S) \in S /\ \A i \in S : Description!Max(S) >= i
<1>1. PICK T : T = {n - i : i \in S}
  OBVIOUS
<1>2. T \in SUBSET Nat /\ n - m \in T
  BY <1>1
<1>3. \E x \in T : \A y \in T : x <= y
  BY <1>2, LeastNumber
<1>4. \E x \in S : \A y \in S : x >= y
  <2>1. PICK x \in S : \A y \in S : n - x <= n - y
    BY <1>1, <1>3
  <2> QED BY <2>1
<1> QED BY <1>4 DEF Description!Max

\* resetType ends what is being typed, and leaves the rest.
LEMMA TypingReset ==
    ASSUME NEW u \in Description!UndoManager, NEW v, v = Description!resetType(u)
    PROVE  /\ v \in Description!UndoManager
           /\ v.snapshots = u.snapshots /\ v.index = u.index
           /\ v.hasUndo = u.hasUndo /\ v.hasRedo = u.hasRedo /\ v.enabled = u.enabled
           /\ ~v.typing
BY DEF Description!resetType, Description!UndoManager

\* The buttons after refreshState; nothing is being typed.
LEMMA Refreshed ==
    ASSUME NEW u \in Description!UndoManager, NEW v, v = Description!refreshState(u)
    PROVE  /\ v \in Description!UndoManager
           /\ v.snapshots = u.snapshots /\ v.index = u.index
           /\ v.hasUndo <=> Description!Earlier(u) # {}
           /\ v.hasRedo <=> Description!Later(u) # {}
           /\ v.enabled <=> u.enabled
           /\ ~v.typing
<1>1. PICK b \in BOOLEAN : b <=> Description!Earlier(u) # {}
  OBVIOUS
<1>2. PICK r \in BOOLEAN : r <=> Description!Later(u) # {}
  OBVIOUS
<1>3. (Description!Earlier(u) # {}) = b /\ (Description!Later(u) # {}) = r
  BY <1>1, <1>2, Zenon
<1>4. PICK m : m = [u EXCEPT !.hasUndo = b, !.hasRedo = r]
  OBVIOUS
<1>5. /\ m \in Description!UndoManager
      /\ m.snapshots = u.snapshots /\ m.index = u.index
      /\ m.hasUndo = b /\ m.hasRedo = r /\ m.enabled = u.enabled
  BY <1>4 DEF Description!UndoManager
<1>6. v = Description!resetType(m)
  BY <1>3, <1>4 DEF Description!refreshState
<1>7. /\ v \in Description!UndoManager
      /\ v.snapshots = m.snapshots /\ v.index = m.index
      /\ v.hasUndo = m.hasUndo /\ v.hasRedo = m.hasRedo /\ v.enabled = m.enabled
      /\ ~v.typing
  BY <1>5, <1>6, TypingReset
<1> QED BY <1>1, <1>2, <1>5, <1>7

\* What is ahead and behind depends on the images only.
LEMMA SameImages ==
    ASSUME NEW u, NEW v, v.snapshots = u.snapshots, v.index = u.index
    PROVE  /\ Description!Current(v) = Description!Current(u)
           /\ Description!Earlier(v) = Description!Earlier(u)
           /\ Description!Later(v) = Description!Later(u)
BY DEF Description!Current, Description!Earlier, Description!Later

\* After save the content is the current image: it was, or it is the last one
\* and those before it were there.
LEMMA ImageSaved ==
    ASSUME NEW u, UndoFits(u), NEW c \in Images, NEW alike \in BOOLEAN,
           NEW v, v = Description!save(u, c, alike)
    PROVE  /\ UndoFits(v) /\ v.index >= 1 /\ Description!Current(v) = c
           /\ \/ v = u /\ u.index > 0 /\ Description!Current(u) = c
              \/ /\ Description!Later(v) = {} /\ v.index = Len(v.snapshots)
                 /\ ~v.hasRedo /\ ~v.typing
                 /\ \A i \in 1..(v.index - 1) :
                      \E j \in 1..u.index : v.snapshots[i] = u.snapshots[j]
<1>1. CASE u.index > 0 /\ Description!Current(u) = c /\ alike
  <2>1. v = u
    BY <1>1 DEF Description!save
  <2>2. u.index >= 1
    BY <1>1 DEF UndoFits, Description!UndoManager
  <2>3. UndoFits(v) /\ v.index >= 1 /\ Description!Current(v) = c
    BY <1>1, <2>1, <2>2
  <2> QED BY <1>1, <2>1, <2>3
<1>2. CASE ~(u.index > 0 /\ Description!Current(u) = c /\ alike)
  <2>1. PICK p : p = Description!Pushed(u, c)
    OBVIOUS
  <2>2. v = Description!refreshState(p)
    BY <1>2, <2>1 DEF Description!save
  <2>3. /\ u \in Description!UndoManager
        /\ Len(u.snapshots) <= UndoLimit /\ u.index \in 0..Len(u.snapshots)
    BY DEF UndoFits
  <2>4. /\ p \in Description!UndoManager
        /\ p.snapshots \in Seq(Images) /\ Len(p.snapshots) <= UndoLimit
        /\ p.index = Len(p.snapshots) /\ p.index >= 1 /\ p.snapshots[p.index] = c
        /\ \A i \in 1..(p.index - 1) : \E j \in 1..u.index : p.snapshots[i] = u.snapshots[j]
    BY <2>1, <2>3, ImagePushed
  <2>5. Len(p.snapshots) \in Nat
    BY <2>4
  <2>7. /\ v \in Description!UndoManager
        /\ v.snapshots = p.snapshots /\ v.index = p.index
        /\ v.hasUndo <=> Description!Earlier(p) # {}
        /\ v.hasRedo <=> Description!Later(p) # {}
        /\ ~v.typing
    BY <2>2, <2>4, Refreshed
  <2>8. /\ Description!Current(v) = c
        /\ Description!Later(v) = {} /\ Description!Later(p) = {}
        /\ Description!Earlier(v) = Description!Earlier(p)
    <3>1. Description!Later(p) = {}
      BY <2>4, <2>5 DEF Description!Later
    <3>2. Description!Current(p) = c
      BY <2>4 DEF Description!Current
    <3> QED BY <2>7, <3>1, <3>2, SameImages
  <2>9. v.index >= 1 /\ v.index \in 0..Len(v.snapshots) /\ Len(v.snapshots) <= UndoLimit
    BY <2>4, <2>5, <2>7
  <2>10. UndoFits(v)
    BY <2>7, <2>8, <2>9 DEF UndoFits
  <2>11. \A i \in 1..(v.index - 1) : \E j \in 1..u.index : v.snapshots[i] = u.snapshots[j]
    BY <2>4, <2>7
  <2>12. v.index = Len(v.snapshots) /\ ~v.hasRedo
    BY <2>4, <2>7, <2>8
  <2> QED BY <2>7, <2>8, <2>9, <2>10, <2>11, <2>12
<1> QED BY <1>1, <1>2

\* The content replaces the current image and those like it just before it;
\* the others are kept.
LEMMA ImageUpdated ==
    ASSUME NEW u \in Description!UndoManager, Len(u.snapshots) <= UndoLimit,
           u.index \in 1..Len(u.snapshots), NEW c \in Images,
           NEW v, v = Description!update(u, c)
    PROVE  /\ v \in Description!UndoManager
           /\ v.hasUndo = u.hasUndo /\ v.hasRedo = u.hasRedo /\ v.enabled = u.enabled
           /\ v.typing = u.typing
           /\ Len(v.snapshots) <= UndoLimit /\ v.index \in 1..Len(v.snapshots)
           /\ v.index <= u.index /\ Description!Current(v) = c
           /\ \A i \in 1..(v.index - 1) : v.snapshots[i] = u.snapshots[i]
           /\ \A i \in v.index..u.index : u.snapshots[i] = Description!Current(u)
           /\ v.index > 1 => u.snapshots[v.index - 1] # Description!Current(u)
           /\ \A j \in (u.index + 1)..Len(u.snapshots) :
                \E i \in (v.index + 1)..Len(v.snapshots) : v.snapshots[i] = u.snapshots[j]
<1>1. PICK s : s = u.snapshots
  OBVIOUS
<1>2. PICK k : k = u.index
  OBVIOUS
<1>3. PICK like : like = {b \in 1..k : \A i \in b..k : s[i] = s[k]}
  OBVIOUS
<1>4. PICK b : b = Description!Min(like)
  OBVIOUS
<1>5. s \in Seq(Images) /\ k \in Nat /\ Len(s) \in Nat /\ UndoLimit \in Nat
  BY <1>1, <1>2, EditorAssumption DEF Description!UndoManager, Images
<1>6. k >= 1 /\ k <= Len(s) /\ Len(s) <= UndoLimit
  BY <1>1, <1>2, <1>5
<1>7. k \in like /\ like \in SUBSET Nat
  BY <1>3, <1>5, <1>6
<1>8. b \in like /\ \A i \in like : b <= i
  BY <1>4, <1>7, LeastPlace
<1>9. b \in Nat /\ b >= 1 /\ b <= k /\ \A i \in b..k : s[i] = s[k]
  BY <1>3, <1>5, <1>8
<1>10. ASSUME b > 1, s[b - 1] = s[k]
       PROVE  FALSE
  <2>1. b - 1 \in 1..k
    BY <1>5, <1>9, <1>10
  <2>2. \A i \in (b - 1)..k : i = b - 1 \/ i \in b..k
    BY <1>5, <1>9
  <2>3. b - 1 \in like
    BY <1>3, <1>9, <1>10, <2>1, <2>2
  <2> QED BY <1>8, <1>9, <2>3
<1>11. PICK before : before = SubSeq(s, 1, b - 1)
  OBVIOUS
<1>12. before \in Seq(Images) /\ Len(before) = b - 1
       /\ \A i \in 1..(b - 1) : before[i] = s[i]
  BY <1>5, <1>6, <1>9, <1>11
<1>13. PICK after : after = SubSeq(s, k + 1, Len(s))
  OBVIOUS
<1>14. after \in Seq(Images) /\ Len(after) = Len(s) - k
       /\ \A i \in 1..(Len(s) - k) : after[i] = s[k + i]
  BY <1>5, <1>6, <1>13
<1>15. PICK z : z = before \o <<c>>
  OBVIOUS
<1>16. z \in Seq(Images) /\ Len(z) = b /\ z[b] = c /\ \A i \in 1..(b - 1) : z[i] = s[i]
  BY <1>9, <1>12, <1>15
<1>17. PICK all : all = z \o after
  OBVIOUS
<1>18. /\ all \in Seq(Images) /\ Len(all) = b + Len(s) - k
       /\ \A i \in 1..b : all[i] = z[i]
       /\ \A i \in 1..(Len(s) - k) : all[b + i] = s[k + i]
  <2>1. /\ all \in Seq(Images) /\ Len(all) = Len(z) + Len(after)
        /\ \A i \in 1..Len(z) : all[i] = z[i]
        /\ \A i \in 1..Len(after) : all[Len(z) + i] = after[i]
    <3>1. /\ all \in Seq(Images) /\ Len(all) = Len(z) + Len(after)
          /\ \A i \in 1..(Len(z) + Len(after)) :
               all[i] = IF i <= Len(z) THEN z[i] ELSE after[i - Len(z)]
      BY <1>14, <1>16, <1>17, ConcatProperties, Zenon
    <3>2. Len(z) \in Nat /\ Len(after) \in Nat
      BY <1>14, <1>16
    <3>3. \A i \in 1..Len(z) : i \in 1..(Len(z) + Len(after)) /\ i <= Len(z)
      BY <3>2
    <3>4. \A i \in 1..Len(after) : /\ Len(z) + i \in 1..(Len(z) + Len(after))
                                   /\ ~(Len(z) + i <= Len(z)) /\ Len(z) + i - Len(z) = i
      BY <3>2
    <3>5. \A i \in 1..Len(z) : all[i] = z[i]
      BY <3>1, <3>3
    <3>6. \A i \in 1..Len(after) : all[Len(z) + i] = after[i]
      BY <3>1, <3>4
    <3> QED BY <3>1, <3>5, <3>6
  <2>2. Len(z) + Len(after) = b + Len(s) - k
    BY <1>5, <1>9, <1>14, <1>16
  <2>3. \A i \in 1..b : all[i] = z[i]
    BY <1>16, <2>1
  <2>4. \A i \in 1..(Len(s) - k) : all[b + i] = s[k + i]
    BY <1>14, <1>16, <2>1
  <2> QED BY <2>1, <2>2, <2>3, <2>4
<1>19. v = [u EXCEPT !.snapshots = all, !.index = b]
  BY <1>1, <1>2, <1>3, <1>4, <1>11, <1>13, <1>15, <1>17
     DEF Description!update, Description!Current
<1>20. all \in Seq(Description!Content)
  BY <1>18 DEF Images
<1>21. /\ v \in Description!UndoManager
       /\ v.snapshots = all /\ v.index = b
  BY <1>9, <1>19, <1>20 DEF Description!UndoManager
<1>22. /\ v.hasUndo = u.hasUndo /\ v.hasRedo = u.hasRedo /\ v.enabled = u.enabled
       /\ v.typing = u.typing
  BY <1>19 DEF Description!UndoManager
<1>23. Len(all) <= UndoLimit /\ b \in 1..Len(all)
  BY <1>5, <1>6, <1>9, <1>18
<1>24. all[b] = c /\ \A i \in 1..(b - 1) : all[i] = s[i]
  BY <1>9, <1>16, <1>18
<1>25. ASSUME NEW j \in (k + 1)..Len(s)
       PROVE  \E i \in (b + 1)..Len(all) : all[i] = s[j]
  <2>1. j - k \in 1..(Len(s) - k) /\ k + (j - k) = j
    BY <1>5, <1>6
  <2>2. all[b + (j - k)] = s[j]
    BY <1>18, <2>1
  <2>3. b + (j - k) \in (b + 1)..Len(all)
    BY <1>5, <1>6, <1>9, <1>18, <2>1
  <2> QED BY <2>2, <2>3
<1>26. Description!Current(u) = s[k] /\ Description!Current(v) = c
  BY <1>1, <1>2, <1>21, <1>24 DEF Description!Current
<1>27. b > 1 => s[b - 1] # s[k]
  BY <1>10
<1>28. /\ \A i \in 1..(v.index - 1) : v.snapshots[i] = u.snapshots[i]
       /\ \A i \in v.index..u.index : u.snapshots[i] = Description!Current(u)
       /\ v.index > 1 => u.snapshots[v.index - 1] # Description!Current(u)
  BY <1>1, <1>2, <1>9, <1>21, <1>24, <1>26, <1>27
<1>29. \A j \in (u.index + 1)..Len(u.snapshots) :
         \E i \in (v.index + 1)..Len(v.snapshots) : v.snapshots[i] = u.snapshots[j]
  BY <1>1, <1>2, <1>21, <1>25
<1>30. Len(v.snapshots) <= UndoLimit /\ v.index \in 1..Len(v.snapshots) /\ v.index <= u.index
  BY <1>2, <1>9, <1>21, <1>23
<1> QED BY <1>21, <1>22, <1>26, <1>28, <1>29, <1>30

\* It leaves nothing to undo that was not there.
LEMMA UpdatedFits ==
    ASSUME NEW u, UndoFits(u), u.index >= 1, NEW c \in Images,
           NEW v, v = Description!update(u, c)
    PROVE  UndoFits(v) /\ v.index >= 1 /\ Description!Current(v) = c
<1>1. /\ u \in Description!UndoManager
      /\ Len(u.snapshots) <= UndoLimit /\ u.index \in 0..Len(u.snapshots)
  BY DEF UndoFits
<1>2. u.index \in Nat /\ Len(u.snapshots) \in Nat
  BY <1>1 DEF Description!UndoManager
<1>3. u.index \in 1..Len(u.snapshots)
  BY <1>1, <1>2
<1>4. /\ v \in Description!UndoManager
      /\ v.hasUndo = u.hasUndo /\ v.hasRedo = u.hasRedo /\ v.typing = u.typing
      /\ Len(v.snapshots) <= UndoLimit /\ v.index \in 1..Len(v.snapshots)
      /\ v.index <= u.index /\ Description!Current(v) = c
      /\ v.index > 1 => u.snapshots[v.index - 1] # Description!Current(u)
  BY <1>1, <1>3, ImageUpdated
<1>5. v.index \in Nat /\ v.index >= 1 /\ v.index \in 0..Len(v.snapshots)
  BY <1>4 DEF Description!UndoManager
<1>6. ASSUME Description!Earlier(v) # {}
      PROVE  Description!Earlier(u) # {}
  <2>1. v.index > 1
    BY <1>5, <1>6 DEF Description!Earlier
  <2>2. v.index - 1 \in 1..(u.index - 1)
    BY <1>2, <1>4, <1>5, <2>1
  <2>3. v.index - 1 \in Description!Earlier(u)
    BY <1>4, <2>1, <2>2 DEF Description!Earlier
  <2> QED BY <2>3
<1> QED BY <1>4, <1>5, <1>6 DEF UndoFits

\* The image shown by "Undo" or "Redo" is the current one from then on; those
\* before the ones like it are kept before it, those after it after it.
LEMMA ImageRestored ==
    ASSUME NEW u, UndoFits(u), NEW k \in 1..Len(u.snapshots),
           NEW v, v = Description!restoreImage(u, k)
    PROVE  /\ UndoFits(v) /\ v.index >= 1 /\ Description!Current(v) = u.snapshots[k]
           /\ v.index <= k
           /\ v.index > 1 => u.snapshots[v.index - 1] # u.snapshots[k]
           /\ \A i \in 1..(v.index - 1) : v.snapshots[i] = u.snapshots[i]
           /\ \A i \in v.index..k : u.snapshots[i] = u.snapshots[k]
           /\ \A j \in (k + 1)..Len(u.snapshots) :
                \E i \in (v.index + 1)..Len(v.snapshots) : v.snapshots[i] = u.snapshots[j]
<1>1. PICK at : at = [u EXCEPT !.index = k]
  OBVIOUS
<1>2. u \in Description!UndoManager /\ Len(u.snapshots) <= UndoLimit
  BY DEF UndoFits
<1>3. Len(u.snapshots) \in Nat /\ k \in Nat /\ u.snapshots \in Seq(Images)
  BY <1>2 DEF Description!UndoManager, Images
<1>4. at \in Description!UndoManager /\ at.snapshots = u.snapshots /\ at.index = k
  BY <1>1, <1>2, <1>3 DEF Description!UndoManager
<1>5. Description!Current(at) = u.snapshots[k]
  BY <1>4 DEF Description!Current
<1>6. u.snapshots[k] \in Images
  BY <1>3
<1>7. PICK w : w = Description!update(at, u.snapshots[k])
  OBVIOUS
<1>8. Len(at.snapshots) <= UndoLimit /\ at.index \in 1..Len(at.snapshots)
  BY <1>2, <1>4
<1>9. PICK c \in Images : c = u.snapshots[k]
  BY <1>6
<1>10. /\ w \in Description!UndoManager
       /\ Len(w.snapshots) <= UndoLimit /\ w.index \in 1..Len(w.snapshots)
       /\ w.index <= at.index /\ Description!Current(w) = c
       /\ \A i \in 1..(w.index - 1) : w.snapshots[i] = at.snapshots[i]
       /\ \A i \in w.index..at.index : at.snapshots[i] = c
       /\ w.index > 1 => at.snapshots[w.index - 1] # c
       /\ \A j \in (at.index + 1)..Len(at.snapshots) :
            \E i \in (w.index + 1)..Len(w.snapshots) : w.snapshots[i] = at.snapshots[j]
  <2>1. w = Description!update(at, c) /\ Description!Current(at) = c
    BY <1>5, <1>7, <1>9
  <2> HIDE <1>1, <1>7
  <2> QED BY <1>4, <1>8, <2>1, ImageUpdated, SMTT(40)
<1>11. v = Description!refreshState(w)
  BY <1>1, <1>5, <1>7 DEF Description!restoreImage
<1>12. /\ v \in Description!UndoManager
       /\ v.snapshots = w.snapshots /\ v.index = w.index
       /\ v.hasUndo <=> Description!Earlier(w) # {}
       /\ v.hasRedo <=> Description!Later(w) # {}
       /\ ~v.typing
  BY <1>10, <1>11, Refreshed
<1>13. /\ Description!Current(v) = Description!Current(w)
       /\ Description!Earlier(v) = Description!Earlier(w)
  BY <1>12, SameImages
<1>14. w.index >= 1 /\ v.index \in 0..Len(v.snapshots) /\ Len(v.snapshots) <= UndoLimit
  BY <1>10, <1>12 DEF Description!UndoManager
<1>15. UndoFits(v)
  BY <1>12, <1>13, <1>14 DEF UndoFits
<1> QED BY <1>4, <1>9, <1>10, <1>12, <1>13, <1>14, <1>15

\* What an editor gives, with t in its textarea.
DataOf(d, t) ==
    IF d.listening THEN d.shown ELSE IF d.data # None THEN d.data ELSE t

\* What is in an editor and its undo manager as its start and its changes of
\* mode go on: what it shows is the current image when a change of mode ends,
\* and whatever else it shows can be undone but is not in the way of "Redo".
EditorFits(d, u) ==
    /\ d \in Description!Editor /\ UndoFits(u)
    /\ d.ready <=> u.index # 0
    /\ d.mode # "none" \/ d.going = "data" => d.listening
    /\ d.listening => d.shown \in Images
    /\ d.going \in {"frame", "document", "data"} => d.mode = "none"
    /\ d.going \in {"document", "data"} => d.data \in Images
    /\ d.going = "mode" => d.mode # "none"
    /\ d.mode = "source" => d.ready
    /\ d.mode = "wysiwyg" /\ d.going = "none" => d.ready
    /\ d.mode = "wysiwyg" /\ d.going = "mode" /\ d.ready
         => d.shown = Description!Current(u)
    /\ d.mode = "wysiwyg" /\ d.going = "none" /\ d.shown # Description!Current(u)
         => u.hasUndo /\ ~u.hasRedo

\* What the form would be given for the editor e.
ValueOf(e) == IF stage[e] > 4 THEN DataOf(editor[e], textarea[e]) ELSE textarea[e]

\* An editor that is not drawn has neither data nor a mode.
Undrawn(d) ==
    /\ d.going = "none" /\ d.mode = "none" /\ ~d.listening /\ ~d.ready
    /\ d.data = None

\* Until it is sent, the form would be given what was seen last in each editor.
EditorInv ==
    /\ DOMAIN scripts = 1..3
    /\ DOMAIN stage = TextAreas /\ DOMAIN last = TextAreas
    /\ DOMAIN editor = TextAreas /\ DOMAIN undo = TextAreas
    /\ posted \in BOOLEAN
    /\ \A e \in TextAreas :
         /\ stage[e] \in 0..5 /\ textarea[e] \in Images /\ last[e] \in Images
         /\ EditorFits(editor[e], undo[e])
         /\ stage[e] <= 4 => Undrawn(editor[e])
         /\ ~posted => ValueOf(e) = last[e]
         /\ posted => textarea[e] = last[e]

\* A step that changes one editor only, and takes what was seen last in it to
\* what it now gives.
LEMMA EditorMoves ==
    ASSUME EditorInv, NEW e \in TextAreas, ~posted, stage[e] > 4,
           NEW d, NEW u, NEW l \in Images,
           EditorFits(d, u), DataOf(d, textarea[e]) = l,
           editor'[e] = d, undo'[e] = u, last'[e] = l,
           DOMAIN editor' = TextAreas, DOMAIN undo' = TextAreas,
           DOMAIN last' = TextAreas,
           \A x \in TextAreas : x # e => editor'[x] = editor[x],
           \A x \in TextAreas : x # e => undo'[x] = undo[x],
           \A x \in TextAreas : x # e => last'[x] = last[x],
           UNCHANGED <<scripts, stage, textarea, posted>>
    PROVE  EditorInv'
<1>1. ASSUME NEW x \in TextAreas
      PROVE  /\ stage'[x] \in 0..5 /\ textarea'[x] \in Images /\ last'[x] \in Images
             /\ EditorFits(editor'[x], undo'[x])
             /\ stage'[x] <= 4 => Undrawn(editor'[x])
             /\ ValueOf(x)' = last'[x]
  <2>1. CASE x = e
    <3>1. stage'[x] = stage[e] /\ textarea'[x] = textarea[e] /\ last'[x] = l
      BY <2>1
    <3>2. editor'[x] = d /\ undo'[x] = u
      BY <2>1
    <3>3. stage[e] \in 0..5 /\ textarea[e] \in Images /\ ~(stage[e] <= 4)
      BY DEF EditorInv
    <3>4. ValueOf(x)' = l
      BY <3>1, <3>2 DEF ValueOf
    <3>5. EditorFits(editor'[x], undo'[x])
      BY <3>2
    <3> QED BY <3>1, <3>3, <3>4, <3>5
  <2>2. CASE x # e
    <3>1. /\ stage'[x] = stage[x] /\ textarea'[x] = textarea[x] /\ last'[x] = last[x]
          /\ editor'[x] = editor[x] /\ undo'[x] = undo[x]
      BY <2>2
    <3>2. ValueOf(x)' = ValueOf(x)
      BY <3>1 DEF ValueOf
    <3>3. /\ stage[x] \in 0..5 /\ textarea[x] \in Images /\ last[x] \in Images
          /\ EditorFits(editor[x], undo[x])
          /\ stage[x] <= 4 => Undrawn(editor[x])
          /\ ValueOf(x) = last[x]
      BY DEF EditorInv
    <3> QED BY <3>1, <3>2, <3>3
  <2> QED BY <2>1, <2>2
<1>2. DOMAIN scripts' = 1..3 /\ DOMAIN stage' = TextAreas /\ ~posted' /\ posted' \in BOOLEAN
  BY DEF EditorInv
<1> QED BY <1>1, <1>2 DEF EditorInv

\* An editor that waits for its scripts is not drawn by waiting on.
LEMMA StillUndrawn ==
    ASSUME EditorInv, UNCHANGED <<editor, undo, textarea, posted, last>>,
           DOMAIN scripts' = 1..3, DOMAIN stage' = TextAreas,
           \A x \in TextAreas :
              stage'[x] = stage[x] \/ (stage[x] <= 4 /\ stage'[x] \in 0..4)
    PROVE  EditorInv'
<1>1. ASSUME NEW x \in TextAreas
      PROVE  /\ stage'[x] \in 0..5 /\ textarea'[x] \in Images /\ last'[x] \in Images
             /\ EditorFits(editor'[x], undo'[x])
             /\ stage'[x] <= 4 => Undrawn(editor'[x])
             /\ ~posted' => ValueOf(x)' = last'[x]
             /\ posted' => textarea'[x] = last'[x]
  <2>1. /\ stage[x] \in 0..5 /\ textarea[x] \in Images /\ last[x] \in Images
        /\ EditorFits(editor[x], undo[x])
        /\ stage[x] <= 4 => Undrawn(editor[x])
        /\ ~posted => ValueOf(x) = last[x]
        /\ posted => textarea[x] = last[x]
    BY DEF EditorInv
  <2>2. stage'[x] = stage[x] \/ (stage[x] <= 4 /\ stage'[x] \in 0..4)
    OBVIOUS
  <2>3. stage'[x] > 4 <=> stage[x] > 4
    BY <2>1, <2>2
  <2>4. stage'[x] \in 0..5
    BY <2>1, <2>2
  <2>5. stage'[x] <= 4 => Undrawn(editor'[x])
    BY <2>1, <2>2
  <2>6. ValueOf(x)' = ValueOf(x)
    BY <2>3 DEF ValueOf
  <2>7. /\ textarea'[x] = textarea[x] /\ last'[x] = last[x]
        /\ editor'[x] = editor[x] /\ undo'[x] = undo[x] /\ posted' = posted
    OBVIOUS
  <2> QED BY <2>1, <2>4, <2>5, <2>6, <2>7
<1>2. posted' \in BOOLEAN /\ DOMAIN last' = TextAreas /\ DOMAIN editor' = TextAreas
      /\ DOMAIN undo' = TextAreas
  BY DEF EditorInv
<1> QED BY <1>1, <1>2 DEF EditorInv

\* An editor that waits is not past its scripts.
LEMMA WaitingPlace ==
    ASSUME NEW s \in 1..3, NEW ended
    PROVE  Description!WaitsFor(s, ended) \in 0..4
<1>1. PICK S : S = {i \in s..4 : i = 4 \/ ended[i] = "waiting"}
  OBVIOUS
<1>2. S \in SUBSET Nat /\ 4 \in S
  BY <1>1
<1>3. Description!Min(S) \in S
  BY <1>2, LeastPlace
<1>4. Description!WaitsFor(s, ended) = Description!Min(S)
  BY <1>1 DEF Description!WaitsFor, Description!Loaded
<1> QED BY <1>1, <1>3, <1>4

\* One that begins waits for the first script that has not ended,
LEMMA BeginKeeps ==
    ASSUME EditorInv, NEW e \in TextAreas, Description!Begin(e)
    PROVE  EditorInv'
<1>1. /\ stage[e] = 0 /\ UNCHANGED <<editor, undo, textarea, posted, last, scripts>>
      /\ stage' = [stage EXCEPT ![e] = Description!WaitsFor(1, scripts)]
  BY DEF Description!Begin, Description!Config
<1>2. Description!WaitsFor(1, scripts) \in 0..4
  BY WaitingPlace
<1>3. DOMAIN stage = TextAreas /\ DOMAIN scripts' = 1..3
  BY <1>1 DEF EditorInv
<1>4. \A x \in TextAreas :
         stage'[x] = stage[x] \/ (stage[x] <= 4 /\ stage'[x] \in 0..4)
  BY <1>1, <1>2, <1>3
<1> QED BY <1>1, <1>3, <1>4, StillUndrawn

\* and those that waited for a script go on together.
LEMMA ScriptKeeps ==
    ASSUME EditorInv, NEW s \in Description!Scripts, NEW outcome,
           Description!ScriptEnds(s, outcome)
    PROVE  EditorInv'
<1>1. s \in 1..3
  BY DEF Description!Scripts
<1>2. /\ UNCHANGED <<editor, undo, textarea, posted, last>>
      /\ scripts' = [scripts EXCEPT ![s] = outcome]
      /\ \/ stage' = stage
         \/ stage' = [e \in TextAreas |->
                        IF stage[e] = s THEN Description!WaitsFor(s, scripts')
                        ELSE stage[e]]
  BY DEF Description!ScriptEnds
<1>3. PICK p : p = Description!WaitsFor(s, scripts')
  OBVIOUS
<1>4. p \in 0..4
  BY <1>1, <1>3, WaitingPlace
<1>5. DOMAIN stage = TextAreas /\ DOMAIN scripts' = 1..3
  BY <1>2 DEF EditorInv
<1>6. \/ stage' = stage
      \/ stage' = [e \in TextAreas |-> IF stage[e] = s THEN p ELSE stage[e]]
  BY <1>2, <1>3
<1>7. \A x \in TextAreas :
         stage'[x] = stage[x] \/ (stage[x] <= 4 /\ stage'[x] \in 0..4)
  BY <1>1, <1>4, <1>6
<1>8. DOMAIN stage' = TextAreas
  BY <1>5, <1>6
<1> QED BY <1>2, <1>5, <1>7, <1>8, StillUndrawn

\* An editor that is drawn gives what was seen last in it.
LEMMA DrawnGives ==
    ASSUME EditorInv, NEW e \in TextAreas, ~posted, ~Undrawn(editor[e])
    PROVE  /\ stage[e] > 4 /\ EditorFits(editor[e], undo[e])
           /\ DataOf(editor[e], textarea[e]) = last[e]
           /\ last[e] \in Images /\ textarea[e] \in Images
           /\ editor[e] \in Description!Editor
           /\ DOMAIN editor = TextAreas /\ DOMAIN undo = TextAreas
           /\ DOMAIN last = TextAreas
           /\ Description!getData(e) = last[e]
<1>1. stage[e] > 4
  BY DEF EditorInv
<1>2. DataOf(editor[e], textarea[e]) = last[e]
  BY <1>1 DEF EditorInv, ValueOf
<1>3. Description!getData(e) = DataOf(editor[e], textarea[e])
  BY DEF Description!getData, DataOf
<1> QED BY <1>1, <1>2, <1>3 DEF EditorInv, EditorFits

\* An editor that is drawn still gives what was in its textarea.
LEMMA DrawKeeps ==
    ASSUME EditorInv, NEW e \in TextAreas, Description!Draw(e)
    PROVE  EditorInv'
<1>1. /\ ~posted /\ stage[e] = 4 /\ stage' = [stage EXCEPT ![e] = 5]
      /\ editor' = [editor EXCEPT ![e].going = "frame",
                                  ![e].previousModeData = Description!getData(e)]
      /\ UNCHANGED <<scripts, undo, textarea, posted, last>>
  BY DEF Description!Draw, Description!Loaded
<1>2. /\ Undrawn(editor[e]) /\ textarea[e] \in Images /\ last[e] \in Images
      /\ ValueOf(e) = last[e] /\ EditorFits(editor[e], undo[e])
      /\ DOMAIN stage = TextAreas /\ DOMAIN editor = TextAreas
      /\ DOMAIN last = TextAreas /\ DOMAIN undo = TextAreas
  BY <1>1 DEF EditorInv
<1>3. Description!getData(e) = textarea[e]
  BY <1>2 DEF Undrawn, Description!getData
<1>4. PICK d : d = [editor[e] EXCEPT !.going = "frame", !.previousModeData = textarea[e]]
  OBVIOUS
<1>5. /\ editor'[e] = d /\ DOMAIN editor' = TextAreas
      /\ \A x \in TextAreas : x # e => editor'[x] = editor[x]
  BY <1>1, <1>2, <1>3, <1>4
<1>6. editor[e] \in Description!Editor
  BY <1>2 DEF EditorFits
<1>7. /\ d \in Description!Editor /\ d.mode = "none" /\ d.going = "frame" /\ ~d.listening
      /\ ~d.ready /\ d.data = None
  BY <1>2, <1>4, <1>6 DEF Undrawn, Description!Editor, Images
<1>8. EditorFits(d, undo[e])
  BY <1>2, <1>7 DEF EditorFits, Undrawn
<1>9. DataOf(d, textarea[e]) = last[e]
  <2>1. textarea[e] = last[e]
    BY <1>1, <1>2 DEF ValueOf
  <2> QED BY <1>7, <2>1 DEF DataOf
<1>10. ASSUME NEW x \in TextAreas
       PROVE  /\ stage'[x] \in 0..5 /\ textarea'[x] \in Images /\ last'[x] \in Images
              /\ EditorFits(editor'[x], undo'[x])
              /\ stage'[x] <= 4 => Undrawn(editor'[x])
              /\ ValueOf(x)' = last'[x]
  <2>1. CASE x = e
    <3>1. /\ stage'[x] = 5 /\ editor'[x] = d /\ undo'[x] = undo[e]
          /\ textarea'[x] = textarea[e] /\ last'[x] = last[e]
      BY <1>1, <1>2, <1>5, <2>1
    <3>2. ValueOf(x)' = last'[x]
      BY <1>9, <3>1 DEF ValueOf
    <3> QED BY <1>2, <1>8, <3>1, <3>2
  <2>2. CASE x # e
    <3>1. /\ stage'[x] = stage[x] /\ textarea'[x] = textarea[x] /\ last'[x] = last[x]
          /\ editor'[x] = editor[x] /\ undo'[x] = undo[x]
      BY <1>1, <1>2, <1>5, <2>2
    <3>2. ValueOf(x)' = ValueOf(x)
      BY <3>1 DEF ValueOf
    <3>3. /\ stage[x] \in 0..5 /\ textarea[x] \in Images /\ last[x] \in Images
          /\ EditorFits(editor[x], undo[x])
          /\ stage[x] <= 4 => Undrawn(editor[x])
          /\ ValueOf(x) = last[x]
      BY <1>1 DEF EditorInv
    <3> QED BY <3>1, <3>2, <3>3
  <2> QED BY <2>1, <2>2
<1>11. /\ DOMAIN scripts' = 1..3 /\ DOMAIN stage' = TextAreas /\ ~posted'
       /\ posted' \in BOOLEAN /\ DOMAIN last' = TextAreas /\ DOMAIN undo' = TextAreas
  BY <1>1, <1>2 DEF EditorInv
<1> QED BY <1>5, <1>10, <1>11 DEF EditorInv

\* Its new frame takes what it gave,
LEMMA FrameKeeps ==
    ASSUME EditorInv, NEW e \in TextAreas, Description!FrameLoads(e)
    PROVE  EditorInv'
<1>1. /\ ~posted /\ editor[e].going = "frame"
      /\ editor' = [editor EXCEPT ![e].going = "document",
                                  ![e].data = Description!getData(e),
                                  ![e].shown = None, ![e].listening = FALSE]
      /\ UNCHANGED <<scripts, stage, undo, textarea, posted, last>>
  BY DEF Description!FrameLoads, Description!OnlyEditor
<1>2. ~Undrawn(editor[e])
  BY <1>1 DEF Undrawn
<1>3. /\ stage[e] > 4 /\ EditorFits(editor[e], undo[e])
      /\ last[e] \in Images /\ editor[e] \in Description!Editor
      /\ DOMAIN editor = TextAreas /\ DOMAIN undo = TextAreas /\ DOMAIN last = TextAreas
      /\ Description!getData(e) = last[e]
  BY <1>1, <1>2, DrawnGives
<1>4. PICK d : d = [editor[e] EXCEPT !.going = "document", !.data = last[e],
                                     !.shown = None, !.listening = FALSE]
  OBVIOUS
<1>5. /\ editor'[e] = d /\ DOMAIN editor' = TextAreas
      /\ \A x \in TextAreas : x # e => editor'[x] = editor[x]
  BY <1>1, <1>3, <1>4
<1>6. /\ d \in Description!Editor /\ d.mode = editor[e].mode /\ d.going = "document"
      /\ ~d.listening /\ d.ready = editor[e].ready /\ d.data = last[e]
  BY <1>3, <1>4 DEF Description!Editor, Images
<1>7. EditorFits(d, undo[e])
  BY <1>1, <1>3, <1>6 DEF EditorFits
<1>8. DataOf(d, textarea[e]) = last[e]
  <2>1. last[e] # None
    BY <1>3, EditorAssumption DEF Images, Description!Content
  <2> QED BY <1>6, <2>1 DEF DataOf
<1>9. undo'[e] = undo[e] /\ last'[e] = last[e]
  BY <1>1
<1> QED BY <1>1, <1>3, <1>5, <1>7, <1>8, <1>9, EditorMoves

\* and shows it without what the filter removes.
LEMMA DocumentKeeps ==
    ASSUME EditorInv, NEW e \in TextAreas, Description!DocumentLoads(e)
    PROVE  EditorInv'
<1>1. PICK h : h = Description!toHtml(editor[e].data)
  OBVIOUS
<1>2. /\ ~posted /\ editor[e].going = "document"
      /\ editor' = [editor EXCEPT ![e].going = "data", ![e].shown = h,
                                  ![e].listening = TRUE]
      /\ last' = [last EXCEPT ![e] = h]
      /\ UNCHANGED <<scripts, stage, undo, textarea, posted>>
  BY <1>1 DEF Description!DocumentLoads, Description!OnlyEditor
<1>3. ~Undrawn(editor[e])
  BY <1>2 DEF Undrawn
<1>4. /\ stage[e] > 4 /\ EditorFits(editor[e], undo[e])
      /\ editor[e] \in Description!Editor
      /\ DOMAIN editor = TextAreas /\ DOMAIN undo = TextAreas /\ DOMAIN last = TextAreas
  BY <1>2, <1>3, DrawnGives
<1>5. editor[e].data \in Images
  BY <1>2, <1>4 DEF EditorFits
<1>6. h \in Images
  BY <1>1, <1>5 DEF Description!toHtml, Images, Description!Content
<1>7. PICK d : d = [editor[e] EXCEPT !.going = "data", !.shown = h, !.listening = TRUE]
  OBVIOUS
<1>8. /\ editor'[e] = d /\ DOMAIN editor' = TextAreas
      /\ \A x \in TextAreas : x # e => editor'[x] = editor[x]
  BY <1>2, <1>4, <1>7
<1>9. /\ d \in Description!Editor /\ d.mode = editor[e].mode /\ d.going = "data"
      /\ d.listening /\ d.shown = h /\ d.ready = editor[e].ready
      /\ d.data = editor[e].data
  BY <1>4, <1>6, <1>7 DEF Description!Editor, Images
<1>10. EditorFits(d, undo[e])
  BY <1>2, <1>4, <1>5, <1>6, <1>9 DEF EditorFits
<1>11. DataOf(d, textarea[e]) = h
  BY <1>9 DEF DataOf
<1>12. /\ undo'[e] = undo[e] /\ last'[e] = h /\ DOMAIN last' = TextAreas
       /\ \A x \in TextAreas : x # e => last'[x] = last[x]
  BY <1>2, <1>4
<1> QED BY <1>2, <1>4, <1>6, <1>8, <1>10, <1>11, <1>12, EditorMoves

\* What is shown becomes the current image, but for the first time,
LEMMA DataKeeps ==
    ASSUME EditorInv, NEW e \in TextAreas, Description!DataReady(e)
    PROVE  EditorInv'
<1>1. PICK u : u = IF ~editor[e].ready THEN undo[e]
                   ELSE IF editor[e].unchanged
                        THEN Description!update(undo[e], editor[e].shown)
                        ELSE Description!save(undo[e], editor[e].shown, TRUE)
  OBVIOUS
<1>2. /\ ~posted /\ editor[e].going = "data"
      /\ editor' = [editor EXCEPT ![e].going = "mode", ![e].mode = "wysiwyg",
                                  ![e].unchanged = FALSE]
      /\ undo' = [undo EXCEPT ![e] = u]
      /\ UNCHANGED <<scripts, stage, textarea, posted, last>>
  <2>1. undo' = [undo EXCEPT ![e] =
                   IF ~editor[e].ready THEN @
                   ELSE IF editor[e].unchanged
                        THEN Description!update(@, editor[e].shown)
                        ELSE Description!save(@, editor[e].shown, TRUE)]
    BY DEF Description!DataReady
  <2>2. DOMAIN undo = TextAreas
    BY DEF EditorInv
  <2>3. undo' = [undo EXCEPT ![e] = u]
    BY <1>1, <2>1, <2>2
  <2> QED BY <2>3 DEF Description!DataReady, Description!OnlyEditor
<1>3. ~Undrawn(editor[e])
  BY <1>2 DEF Undrawn
<1>4. /\ stage[e] > 4 /\ EditorFits(editor[e], undo[e])
      /\ last[e] \in Images /\ editor[e] \in Description!Editor
      /\ DOMAIN editor = TextAreas /\ DOMAIN undo = TextAreas /\ DOMAIN last = TextAreas
      /\ DataOf(editor[e], textarea[e]) = last[e]
  BY <1>2, <1>3, DrawnGives
<1>5. /\ editor[e].listening /\ editor[e].shown \in Images /\ UndoFits(undo[e])
      /\ editor[e].ready <=> undo[e].index # 0
  BY <1>2, <1>4 DEF EditorFits
<1>6. undo[e].index \in Nat
  BY <1>5 DEF UndoFits, Description!UndoManager
<1>7. /\ UndoFits(u)
      /\ editor[e].ready <=> u.index # 0
      /\ editor[e].ready => Description!Current(u) = editor[e].shown
  <2>1. CASE ~editor[e].ready
    BY <1>1, <1>5, <2>1
  <2>2. CASE editor[e].ready /\ editor[e].unchanged
    <3>1. u = Description!update(undo[e], editor[e].shown) /\ undo[e].index >= 1
      BY <1>1, <1>5, <1>6, <2>2
    <3>2. UndoFits(u) /\ u.index >= 1 /\ Description!Current(u) = editor[e].shown
      BY <1>5, <3>1, UpdatedFits
    <3>3. u.index # 0
      BY <3>2
    <3> QED BY <2>2, <3>2, <3>3
  <2>3. CASE editor[e].ready /\ ~editor[e].unchanged
    <3>1. PICK alike \in BOOLEAN : u = Description!save(undo[e], editor[e].shown, alike)
      BY <1>1, <2>3, Zenon
    <3>2. UndoFits(u) /\ u.index >= 1 /\ Description!Current(u) = editor[e].shown
      BY <1>5, <3>1, ImageSaved
    <3>3. u.index # 0
      BY <3>2
    <3> QED BY <2>3, <3>2, <3>3
  <2> QED BY <2>1, <2>2, <2>3
<1>8. PICK d : d = [editor[e] EXCEPT !.going = "mode", !.mode = "wysiwyg",
                                     !.unchanged = FALSE]
  OBVIOUS
<1>9. /\ editor'[e] = d /\ DOMAIN editor' = TextAreas
      /\ \A x \in TextAreas : x # e => editor'[x] = editor[x]
  BY <1>2, <1>4, <1>8
<1>10. /\ d \in Description!Editor /\ d.mode = "wysiwyg" /\ d.going = "mode"
       /\ d.listening = editor[e].listening /\ d.shown = editor[e].shown
       /\ d.ready = editor[e].ready /\ d.data = editor[e].data
  BY <1>4, <1>8 DEF Description!Editor
<1>11. EditorFits(d, u)
  BY <1>5, <1>7, <1>10 DEF EditorFits
<1>12. DataOf(d, textarea[e]) = last[e]
  BY <1>4, <1>5, <1>10 DEF DataOf
<1>13. /\ undo'[e] = u /\ last'[e] = last[e] /\ DOMAIN undo' = TextAreas
       /\ \A x \in TextAreas : x # e => undo'[x] = undo[x]
  BY <1>2, <1>4
<1> QED BY <1>2, <1>4, <1>9, <1>11, <1>12, <1>13, EditorMoves

\* Whether the buttons work at all changes nothing else.
LEMMA EnabledFits ==
    ASSUME NEW u, UndoFits(u), NEW b \in BOOLEAN, NEW v, v = [u EXCEPT !.enabled = b]
    PROVE  UndoFits(v) /\ v.index = u.index /\ Description!Current(v) = Description!Current(u)
           /\ v.hasUndo = u.hasUndo /\ v.hasRedo = u.hasRedo
<1>1. u \in Description!UndoManager
  BY DEF UndoFits
<1>2. /\ v \in Description!UndoManager /\ v.snapshots = u.snapshots /\ v.index = u.index
      /\ v.hasUndo = u.hasUndo /\ v.hasRedo = u.hasRedo /\ v.typing = u.typing
  BY <1>1 DEF Description!UndoManager
<1>3. /\ Description!Current(v) = Description!Current(u)
      /\ Description!Earlier(v) = Description!Earlier(u)
  BY <1>2, SameImages
<1> QED BY <1>2, <1>3 DEF UndoFits

\* when it does so as the editor becomes ready.
LEMMA ModeKeeps ==
    ASSUME EditorInv, NEW e \in TextAreas, Description!ModeEvent(e)
    PROVE  EditorInv'
<1>1. PICK b \in BOOLEAN : b = (editor[e].mode = "wysiwyg")
  OBVIOUS
<1>2. PICK w : w = [undo[e] EXCEPT !.enabled = b]
  OBVIOUS
<1>3. PICK u : u = IF editor[e].ready THEN w
                   ELSE Description!save(w, editor[e].shown, TRUE)
  OBVIOUS
<1>4. /\ ~posted /\ editor[e].going = "mode"
      /\ editor' = [editor EXCEPT ![e].going = "none", ![e].ready = TRUE]
      /\ UNCHANGED <<scripts, stage, textarea, posted, last>>
  BY DEF Description!ModeEvent, Description!OnlyEditor
<1>5. ~Undrawn(editor[e])
  BY <1>4 DEF Undrawn
<1>6. /\ stage[e] > 4 /\ EditorFits(editor[e], undo[e])
      /\ last[e] \in Images /\ editor[e] \in Description!Editor
      /\ DOMAIN editor = TextAreas /\ DOMAIN undo = TextAreas /\ DOMAIN last = TextAreas
      /\ DataOf(editor[e], textarea[e]) = last[e]
  BY <1>4, <1>5, DrawnGives
<1>7. undo' = [undo EXCEPT ![e] = u]
  <2>1. undo' = [undo EXCEPT ![e] =
                   IF editor[e].ready THEN [@ EXCEPT !.enabled = (editor[e].mode = "wysiwyg")]
                   ELSE Description!save([@ EXCEPT !.enabled = (editor[e].mode = "wysiwyg")],
                                         editor[e].shown, TRUE)]
    BY DEF Description!ModeEvent
  <2>2. [undo[e] EXCEPT !.enabled = (editor[e].mode = "wysiwyg")] = w
    BY <1>1, <1>2, Zenon
  <2> QED BY <1>3, <1>6, <2>1, <2>2
<1>8. /\ editor[e].listening /\ editor[e].shown \in Images /\ UndoFits(undo[e])
      /\ editor[e].ready <=> undo[e].index # 0
      /\ editor[e].mode # "none"
      /\ editor[e].mode = "wysiwyg" /\ editor[e].ready
           => editor[e].shown = Description!Current(undo[e])
      /\ editor[e].mode = "source" => editor[e].ready
      /\ editor[e].mode \in {"none", "wysiwyg", "source"}
  BY <1>4, <1>6 DEF EditorFits, Description!Editor
<1>9. /\ UndoFits(w) /\ w.index = undo[e].index
      /\ Description!Current(w) = Description!Current(undo[e])
  BY <1>2, <1>8, EnabledFits
<1>10. /\ UndoFits(u) /\ u.index # 0
       /\ editor[e].mode = "wysiwyg" => Description!Current(u) = editor[e].shown
  <2>1. CASE editor[e].ready
    BY <1>3, <1>8, <1>9, <2>1
  <2>2. CASE ~editor[e].ready
    <3>1. PICK alike \in BOOLEAN : u = Description!save(w, editor[e].shown, alike)
      BY <1>3, <2>2, Zenon
    <3>2. UndoFits(u) /\ u.index >= 1 /\ Description!Current(u) = editor[e].shown
      BY <1>8, <1>9, <3>1, ImageSaved
    <3> QED BY <3>2
  <2> QED BY <2>1, <2>2
<1>11. PICK d : d = [editor[e] EXCEPT !.going = "none", !.ready = TRUE]
  OBVIOUS
<1>12. /\ editor'[e] = d /\ DOMAIN editor' = TextAreas
       /\ \A x \in TextAreas : x # e => editor'[x] = editor[x]
  BY <1>4, <1>6, <1>11
<1>13. /\ d \in Description!Editor /\ d.mode = editor[e].mode /\ d.going = "none"
       /\ d.listening = editor[e].listening /\ d.shown = editor[e].shown
       /\ d.ready = TRUE /\ d.data = editor[e].data
  BY <1>6, <1>11 DEF Description!Editor
<1>14. EditorFits(d, u)
  BY <1>8, <1>10, <1>13 DEF EditorFits
<1>15. DataOf(d, textarea[e]) = last[e]
  BY <1>6, <1>8, <1>13 DEF DataOf
<1>16. /\ undo'[e] = u /\ last'[e] = last[e] /\ DOMAIN undo' = TextAreas
       /\ \A x \in TextAreas : x # e => undo'[x] = undo[x]
  BY <1>4, <1>6, <1>7
<1> QED BY <1>4, <1>6, <1>12, <1>14, <1>15, <1>16, EditorMoves

\* Where a user can type, the text is listened to, and what it shows was seen.
LEMMA InText ==
    ASSUME EditorInv, NEW e \in TextAreas, NEW mode \in {"wysiwyg", "source"},
           Description!UserActs(e, mode)
    PROVE  /\ ~posted /\ stage[e] > 4 /\ editor[e].going = "none" /\ editor[e].mode = mode
           /\ editor[e] \in Description!Editor /\ EditorFits(editor[e], undo[e])
           /\ DOMAIN editor = TextAreas /\ DOMAIN undo = TextAreas /\ DOMAIN last = TextAreas
           /\ editor[e].listening /\ editor[e].ready /\ editor[e].shown \in Images
           /\ last[e] = editor[e].shown /\ Description!getData(e) = editor[e].shown
           /\ UndoFits(undo[e]) /\ undo[e].index >= 1
           /\ mode = "wysiwyg" /\ editor[e].shown # Description!Current(undo[e])
                => undo[e].hasUndo /\ ~undo[e].hasRedo
<1>1. ~posted /\ editor[e].going = "none" /\ editor[e].mode = mode
  BY DEF Description!UserActs
<1>2. ~Undrawn(editor[e])
  BY <1>1 DEF Undrawn
<1>3. /\ stage[e] > 4 /\ EditorFits(editor[e], undo[e])
      /\ DataOf(editor[e], textarea[e]) = last[e] /\ last[e] \in Images
      /\ editor[e] \in Description!Editor
      /\ DOMAIN editor = TextAreas /\ DOMAIN undo = TextAreas /\ DOMAIN last = TextAreas
      /\ Description!getData(e) = last[e]
  BY <1>1, <1>2, DrawnGives
<1>4. /\ editor[e].listening /\ editor[e].shown \in Images /\ UndoFits(undo[e])
      /\ editor[e].ready <=> undo[e].index # 0
      /\ editor[e].ready
      /\ mode = "wysiwyg" /\ editor[e].shown # Description!Current(undo[e])
           => undo[e].hasUndo /\ ~undo[e].hasRedo
  BY <1>1, <1>3 DEF EditorFits
<1>5. undo[e].index \in Nat
  BY <1>4 DEF UndoFits, Description!UndoManager
<1>6. last[e] = editor[e].shown
  BY <1>3, <1>4 DEF DataOf
<1>7. undo[e].index >= 1
  BY <1>4, <1>5
<1> QED BY <1>1, <1>3, <1>4, <1>6, <1>7

\* What the user changes in the text is seen; the undo manager follows.
LEMMA TextKeeps ==
    ASSUME EditorInv, NEW e \in TextAreas, NEW mode \in {"wysiwyg", "source"},
           Description!UserActs(e, mode),
           NEW c \in Images, NEW u, UndoFits(u), u.index # 0,
           mode = "wysiwyg" /\ c # Description!Current(u) => u.hasUndo /\ ~u.hasRedo,
           undo' = [undo EXCEPT ![e] = u],
           \/ editor' = [editor EXCEPT ![e].shown = c] /\ last' = [last EXCEPT ![e] = c]
           \/ c = editor[e].shown /\ UNCHANGED <<editor, last>>,
           UNCHANGED <<scripts, stage, textarea, posted>>
    PROVE  EditorInv'
<1>1. /\ ~posted /\ stage[e] > 4 /\ editor[e].going = "none" /\ editor[e].mode = mode
      /\ editor[e] \in Description!Editor /\ EditorFits(editor[e], undo[e])
      /\ DOMAIN editor = TextAreas /\ DOMAIN undo = TextAreas /\ DOMAIN last = TextAreas
      /\ editor[e].listening /\ editor[e].ready
      /\ last[e] = editor[e].shown
  BY InText
<1>2. PICK d : d = editor'[e]
  OBVIOUS
<1>3. /\ d \in Description!Editor /\ d.mode = mode /\ d.going = "none"
      /\ d.listening /\ d.ready /\ d.shown = c
  <2>1. CASE editor' = [editor EXCEPT ![e].shown = c]
    <3>1. d = [editor[e] EXCEPT !.shown = c]
      BY <1>1, <1>2, <2>1
    <3> QED BY <1>1, <3>1 DEF Description!Editor, Images
  <2>2. CASE c = editor[e].shown /\ UNCHANGED <<editor, last>>
    BY <1>1, <1>2, <2>2
  <2> QED BY <2>1, <2>2
<1>4. /\ editor'[e] = d /\ DOMAIN editor' = TextAreas
      /\ \A x \in TextAreas : x # e => editor'[x] = editor[x]
  BY <1>1, <1>2
<1>5. EditorFits(d, u)
  BY <1>3 DEF EditorFits
<1>6. DataOf(d, textarea[e]) = c
  BY <1>3 DEF DataOf
<1>7. /\ last'[e] = c /\ DOMAIN last' = TextAreas
      /\ \A x \in TextAreas : x # e => last'[x] = last[x]
  BY <1>1
<1>8. /\ undo'[e] = u /\ DOMAIN undo' = TextAreas
      /\ \A x \in TextAreas : x # e => undo'[x] = undo[x]
  BY <1>1
<1> QED BY <1>1, <1>4, <1>5, <1>6, <1>7, <1>8, EditorMoves

\* The source has the text that was shown,
LEMMA ToSourceKeeps ==
    ASSUME EditorInv, NEW e \in TextAreas, Description!ToSource(e)
    PROVE  EditorInv'
<1>1. /\ ~posted /\ stage[e] > 4 /\ editor[e] \in Description!Editor
      /\ DOMAIN editor = TextAreas /\ DOMAIN undo = TextAreas /\ DOMAIN last = TextAreas
      /\ editor[e].listening /\ editor[e].ready /\ editor[e].shown \in Images
      /\ last[e] = editor[e].shown /\ Description!getData(e) = editor[e].shown
      /\ UndoFits(undo[e])
  BY InText DEF Description!ToSource
<1>2. PICK c \in Images : c = editor[e].shown
  BY <1>1
<1>3. PICK alike \in BOOLEAN :
         undo' = [undo EXCEPT ![e] = Description!save(undo[e], c, alike)]
  <2>1. PICK alike \in BOOLEAN :
           undo' = [undo EXCEPT ![e] = Description!save(@, editor[e].shown, alike)]
    BY DEF Description!ToSource
  <2>2. undo' = [undo EXCEPT ![e] = Description!save(undo[e], c, alike)]
    BY <1>1, <1>2, <2>1
  <2> QED BY <2>2
<1>4. PICK u : u = Description!save(undo[e], c, alike)
  OBVIOUS
<1>5. /\ editor' = [editor EXCEPT ![e].mode = "source", ![e].going = "mode",
                                  ![e].data = c, ![e].previousModeData = c]
      /\ UNCHANGED <<scripts, stage, textarea, posted, last>>
  BY <1>1, <1>2 DEF Description!ToSource, Description!OnlyEditor
<1>6. UndoFits(u) /\ u.index >= 1
  BY <1>1, <1>4, ImageSaved
<1>7. PICK d : d = [editor[e] EXCEPT !.mode = "source", !.going = "mode",
                                     !.data = c, !.previousModeData = c]
  OBVIOUS
<1>8. /\ editor'[e] = d /\ DOMAIN editor' = TextAreas
      /\ \A x \in TextAreas : x # e => editor'[x] = editor[x]
  BY <1>1, <1>5, <1>7
<1>9. /\ d \in Description!Editor /\ d.mode = "source" /\ d.going = "mode"
      /\ d.listening /\ d.ready /\ d.shown = c
  BY <1>1, <1>2, <1>7 DEF Description!Editor, Images
<1>10. EditorFits(d, u)
  <2>1. u.index # 0
    BY <1>6
  <2> QED BY <1>6, <1>9, <2>1 DEF EditorFits
<1>11. DataOf(d, textarea[e]) = last[e] /\ last[e] \in Images
  BY <1>1, <1>2, <1>9 DEF DataOf
<1>12. /\ undo'[e] = u /\ last'[e] = last[e] /\ DOMAIN undo' = TextAreas
       /\ \A x \in TextAreas : x # e => undo'[x] = undo[x]
  BY <1>1, <1>3, <1>4, <1>5
<1> QED BY <1>1, <1>5, <1>8, <1>10, <1>11, <1>12, EditorMoves

\* and the text comes back from the source.
LEMMA ToWysiwygKeeps ==
    ASSUME EditorInv, NEW e \in TextAreas, Description!ToWysiwyg(e)
    PROVE  EditorInv'
<1>1. /\ ~posted /\ stage[e] > 4 /\ editor[e] \in Description!Editor
      /\ EditorFits(editor[e], undo[e])
      /\ DOMAIN editor = TextAreas /\ DOMAIN undo = TextAreas /\ DOMAIN last = TextAreas
      /\ editor[e].ready /\ editor[e].shown \in Images
      /\ last[e] = editor[e].shown /\ Description!getData(e) = editor[e].shown
  BY InText DEF Description!ToWysiwyg
<1>2. PICK c \in Images : c = editor[e].shown
  BY <1>1
<1>3. PICK b \in BOOLEAN : b = (c = editor[e].previousModeData)
  OBVIOUS
<1>4. /\ editor' = [editor EXCEPT ![e].mode = "none", ![e].going = "frame",
                                  ![e].data = c, ![e].shown = None,
                                  ![e].listening = FALSE, ![e].previousModeData = c,
                                  ![e].unchanged = (c = editor[e].previousModeData)]
      /\ UNCHANGED <<scripts, stage, undo, textarea, posted, last>>
  BY <1>1, <1>2 DEF Description!ToWysiwyg, Description!OnlyEditor
<1>5. editor' = [editor EXCEPT ![e].mode = "none", ![e].going = "frame",
                               ![e].data = c, ![e].shown = None,
                               ![e].listening = FALSE, ![e].previousModeData = c,
                               ![e].unchanged = b]
  BY <1>3, <1>4, Zenon
<1>6. PICK d : d = [editor[e] EXCEPT !.mode = "none", !.going = "frame", !.data = c,
                                     !.shown = None, !.listening = FALSE,
                                     !.previousModeData = c, !.unchanged = b]
  OBVIOUS
<1>7. /\ editor'[e] = d /\ DOMAIN editor' = TextAreas
      /\ \A x \in TextAreas : x # e => editor'[x] = editor[x]
  BY <1>1, <1>5, <1>6
<1>8. /\ d \in Description!Editor /\ d.mode = "none" /\ d.going = "frame"
      /\ ~d.listening /\ d.ready /\ d.data = c
  BY <1>1, <1>2, <1>6 DEF Description!Editor, Images
<1>9. EditorFits(d, undo[e])
  BY <1>1, <1>8 DEF EditorFits
<1>10. DataOf(d, textarea[e]) = last[e] /\ last[e] \in Images
  <2>1. c # None
    BY EditorAssumption DEF Images, Description!Content
  <2> QED BY <1>1, <1>2, <1>8, <2>1 DEF DataOf
<1>11. undo'[e] = undo[e] /\ last'[e] = last[e]
  BY <1>4
<1> QED BY <1>1, <1>4, <1>7, <1>9, <1>10, <1>11, EditorMoves

\* The texts that a user writes are contents without markup to remove.
LEMMA TextIsImage ==
    ASSUME NEW x \in Descriptions, NEW extra \in BOOLEAN
    PROVE  [text |-> x, extra |-> extra] \in Images
BY DEF Images, Description!Content

\* A click saves what could be undone before it.
LEMMA ClickKeeps ==
    ASSUME EditorInv, NEW e \in TextAreas, Description!ClickText(e)
    PROVE  EditorInv'
<1>1. /\ Description!UserActs(e, "wysiwyg")
      /\ UNCHANGED <<scripts, stage, textarea, posted, editor, last>>
  BY DEF Description!ClickText, Description!OnlyEditor
<1>2. /\ DOMAIN undo = TextAreas /\ editor[e].shown \in Images
      /\ UndoFits(undo[e]) /\ undo[e].index >= 1
      /\ editor[e].shown # Description!Current(undo[e])
           => undo[e].hasUndo /\ ~undo[e].hasRedo
  BY <1>1, InText
<1>3. PICK c \in Images : c = editor[e].shown
  BY <1>2
<1>4. PICK p : p = IF Description!Current(undo[e]) = c THEN undo[e]
                   ELSE Description!Pushed(undo[e], c)
  OBVIOUS
<1>5. PICK u : u = Description!resetType(p)
  OBVIOUS
<1>6. undo' = [undo EXCEPT ![e] = u]
  <2>1. undo' = [undo EXCEPT ![e] =
                   Description!resetType(IF Description!Current(@) = editor[e].shown THEN @
                                         ELSE Description!Pushed(@, editor[e].shown))]
    BY DEF Description!ClickText
  <2> QED BY <1>2, <1>3, <1>4, <1>5, <2>1
<1>7. /\ p \in Description!UndoManager /\ Len(p.snapshots) <= UndoLimit
      /\ p.index >= 1 /\ p.index \in 0..Len(p.snapshots) /\ Description!Current(p) = c
      /\ Description!Earlier(p) # {} => p.hasUndo
  <2>1. CASE Description!Current(undo[e]) = c
    BY <1>2, <1>4, <2>1 DEF UndoFits
  <2>2. CASE Description!Current(undo[e]) # c
    <3>1. p = Description!Pushed(undo[e], c)
      BY <1>4, <2>2
    <3>2. /\ undo[e] \in Description!UndoManager /\ Len(undo[e].snapshots) <= UndoLimit
          /\ undo[e].index \in 0..Len(undo[e].snapshots)
      BY <1>2 DEF UndoFits
    <3>3. /\ p \in Description!UndoManager /\ p.hasUndo = undo[e].hasUndo
          /\ Len(p.snapshots) <= UndoLimit
          /\ p.index = Len(p.snapshots) /\ p.index >= 1 /\ p.snapshots[p.index] = c
      BY <3>1, <3>2, ImagePushed
    <3>4. p.index \in 0..Len(p.snapshots) /\ Description!Current(p) = c
      BY <3>3 DEF Description!UndoManager, Description!Current
    <3>5. p.hasUndo
      BY <1>2, <1>3, <2>2, <3>3
    <3> QED BY <3>3, <3>4, <3>5
  <2> QED BY <2>1, <2>2
<1>8. /\ u \in Description!UndoManager /\ u.snapshots = p.snapshots /\ u.index = p.index
      /\ u.hasUndo = p.hasUndo /\ ~u.typing
  BY <1>5, <1>7, TypingReset
<1>9. /\ Description!Current(u) = c
      /\ Description!Earlier(u) = Description!Earlier(p)
  BY <1>7, <1>8, SameImages
<1>10. UndoFits(u) /\ u.index # 0
  BY <1>7, <1>8, <1>9 DEF UndoFits
<1> QED BY <1>1, <1>3, <1>6, <1>9, <1>10, TextKeeps

\* After a save the buttons are right for the content that it saved.
LEMMA SavedSuits ==
    ASSUME NEW u, UndoFits(u), NEW c \in Images, NEW alike \in BOOLEAN,
           NEW v, v = Description!save(u, c, alike)
    PROVE  /\ UndoFits(v) /\ v.index # 0 /\ v.index >= 1 /\ Description!Current(v) = c
<1>1. UndoFits(v) /\ v.index >= 1 /\ Description!Current(v) = c
  BY ImageSaved
<1> QED BY <1>1

\* A command saves what it changes, and what it makes of it.
LEMMA CommandKeeps ==
    ASSUME EditorInv, NEW e \in TextAreas, NEW x \in Descriptions,
           Description!Command(e, x)
    PROVE  EditorInv'
<1>1. PICK c \in Images : c = [text |-> x, extra |-> FALSE]
  BY TextIsImage
<1>2. /\ Description!UserActs(e, "wysiwyg")
      /\ UNCHANGED <<scripts, stage, textarea, posted>>
      /\ editor' = [editor EXCEPT ![e].shown = c] /\ last' = [last EXCEPT ![e] = c]
  BY <1>1 DEF Description!Command, Description!Shows, Description!OnlyEditor
<1>3. /\ DOMAIN undo = TextAreas /\ DOMAIN editor = TextAreas /\ editor[e].shown \in Images
      /\ editor[e] \in Description!Editor /\ UndoFits(undo[e])
  BY <1>2, InText
<1>4. editor'[e].shown = c
  BY <1>2, <1>3 DEF Description!Editor
<1>5. PICK alike \in BOOLEAN :
         undo' = [undo EXCEPT ![e] =
           Description!save(Description!save(@, editor[e].shown, alike),
                            editor'[e].shown, alike)]
  BY DEF Description!Command
<1>6. PICK w : w = Description!save(undo[e], editor[e].shown, alike)
  OBVIOUS
<1>7. PICK u : u = Description!save(w, c, alike)
  OBVIOUS
<1>8. undo' = [undo EXCEPT ![e] = u]
  BY <1>3, <1>4, <1>5, <1>6, <1>7
<1>9. UndoFits(w)
  BY <1>3, <1>6, SavedSuits
<1>10. UndoFits(u) /\ u.index # 0 /\ Description!Current(u) = c
  BY <1>7, <1>9, SavedSuits
<1> QED BY <1>1, <1>2, <1>8, <1>10, TextKeeps

\* What is typed into a source is given, whatever the images are.
LEMMA SourceKeeps ==
    ASSUME EditorInv, NEW e \in TextAreas, NEW c \in Images,
           Description!TypeSource(e, c)
    PROVE  EditorInv'
<1>1. /\ Description!UserActs(e, "source")
      /\ UNCHANGED <<scripts, stage, textarea, posted, undo>>
      /\ editor' = [editor EXCEPT ![e].shown = c] /\ last' = [last EXCEPT ![e] = c]
  BY DEF Description!TypeSource, Description!Shows, Description!OnlyEditor
<1>2. /\ ~posted /\ stage[e] > 4 /\ editor[e].going = "none" /\ editor[e].mode = "source"
      /\ editor[e] \in Description!Editor
      /\ DOMAIN editor = TextAreas /\ DOMAIN undo = TextAreas /\ DOMAIN last = TextAreas
      /\ editor[e].listening /\ editor[e].ready
      /\ UndoFits(undo[e]) /\ undo[e].index >= 1
  BY <1>1, InText
<1>3. PICK d : d = [editor[e] EXCEPT !.shown = c]
  OBVIOUS
<1>4. /\ editor'[e] = d /\ DOMAIN editor' = TextAreas
      /\ \A x \in TextAreas : x # e => editor'[x] = editor[x]
  BY <1>1, <1>2, <1>3
<1>5. /\ d \in Description!Editor /\ d.mode = "source" /\ d.going = "none"
      /\ d.listening /\ d.ready /\ d.shown = c
  BY <1>2, <1>3 DEF Description!Editor, Images
<1>6. EditorFits(d, undo[e])
  <2>1. undo[e].index # 0
    BY <1>2
  <2> QED BY <1>2, <1>5, <2>1 DEF EditorFits
<1>7. DataOf(d, textarea[e]) = c
  BY <1>5 DEF DataOf
<1>8. /\ undo'[e] = undo[e] /\ last'[e] = c /\ DOMAIN last' = TextAreas
      /\ \A x \in TextAreas : x # e => last'[x] = last[x]
  BY <1>1, <1>2
<1> QED BY <1>1, <1>2, <1>4, <1>6, <1>7, <1>8, EditorMoves

\* The first key can be undone, and leaves nothing to redo.
LEMMA TypingBegun ==
    ASSUME NEW u, UndoFits(u),
           NEW v, v = IF u.typing THEN u
                      ELSE [u EXCEPT !.typing = TRUE, !.hasUndo = TRUE, !.hasRedo = FALSE]
    PROVE  UndoFits(v) /\ v.index = u.index /\ v.hasUndo /\ ~v.hasRedo
<1>1. u \in Description!UndoManager
  BY DEF UndoFits
<1>2. CASE u.typing
  BY <1>2 DEF UndoFits
<1>3. CASE ~u.typing
  <2>1. v = [u EXCEPT !.typing = TRUE, !.hasUndo = TRUE, !.hasRedo = FALSE]
    BY <1>3
  <2>2. v \in Description!UndoManager
    BY <1>1, <2>1 DEF Description!UndoManager
  <2>3. v.snapshots = u.snapshots /\ v.index = u.index /\ v.hasUndo /\ ~v.hasRedo
    BY <1>1, <2>1 DEF Description!UndoManager
  <2> QED BY <2>2, <2>3 DEF UndoFits
<1> QED BY <1>2, <1>3

\* How many keys, of which kind, were counted changes nothing else.
LEMMA KeysCounted ==
    ASSUME NEW u, UndoFits(u), NEW n \in Nat, NEW g \in {"printable", "functional"},
           NEW v, v = [u EXCEPT !.strokes = n, !.group = g]
    PROVE  /\ UndoFits(v) /\ v.index = u.index
           /\ Description!Current(v) = Description!Current(u)
           /\ v.hasUndo = u.hasUndo /\ v.hasRedo = u.hasRedo
<1>1. u \in Description!UndoManager
  BY DEF UndoFits
<1>2. /\ v \in Description!UndoManager /\ v.snapshots = u.snapshots /\ v.index = u.index
      /\ v.hasUndo = u.hasUndo /\ v.hasRedo = u.hasRedo /\ v.typing = u.typing
  BY <1>1 DEF Description!UndoManager
<1>3. /\ Description!Current(v) = Description!Current(u)
      /\ Description!Earlier(v) = Description!Earlier(u)
  BY <1>2, SameImages
<1> QED BY <1>2, <1>3 DEF UndoFits

\* resetType keeps the images and "Undo".
LEMMA ResetFits ==
    ASSUME NEW u, UndoFits(u), NEW v, v = Description!resetType(u)
    PROVE  UndoFits(v) /\ v.index = u.index
<1>1. u \in Description!UndoManager
  BY DEF UndoFits
<1>2. /\ v \in Description!UndoManager /\ v.snapshots = u.snapshots /\ v.index = u.index
      /\ v.hasUndo = u.hasUndo /\ ~v.typing
  BY <1>1, TypingReset
<1>3. Description!Earlier(v) = Description!Earlier(u)
  BY <1>2, SameImages
<1> QED BY <1>2, <1>3 DEF UndoFits

\* Each key makes "Undo" right, whether or not an image was saved.
LEMMA TypeKeeps ==
    ASSUME EditorInv, NEW e \in TextAreas, NEW x \in Descriptions,
           NEW group \in {"printable", "functional"}, Description!Type(e, x, group)
    PROVE  EditorInv'
<1>1. PICK c \in Images : c = [text |-> x, extra |-> FALSE]
  BY TextIsImage
<1>2. /\ Description!UserActs(e, "wysiwyg")
      /\ UNCHANGED <<scripts, stage, textarea, posted>>
      /\ editor' = [editor EXCEPT ![e].shown = c] /\ last' = [last EXCEPT ![e] = c]
  BY <1>1 DEF Description!Type, Description!Shows, Description!OnlyEditor
<1>3. /\ DOMAIN undo = TextAreas /\ DOMAIN editor = TextAreas /\ editor[e].shown \in Images
      /\ editor[e] \in Description!Editor /\ UndoFits(undo[e]) /\ undo[e].index >= 1
  BY <1>2, InText
<1>4. editor'[e].shown = c
  BY <1>2, <1>3 DEF Description!Editor
<1>5. PICK alike \in BOOLEAN :
         LET old == undo[e]
             u == IF group # old.group /\ old.strokes > 0
                  THEN Description!resetType(Description!save(old, editor[e].shown, alike))
                  ELSE old
             begun == IF u.typing THEN u
                      ELSE [u EXCEPT !.typing = TRUE, !.hasUndo = TRUE, !.hasRedo = FALSE]
             full == u.strokes + 1 >= KeysLimit
             saved == IF full THEN Description!save(begun, editor'[e].shown, TRUE)
                      ELSE begun
         IN  undo' = [undo EXCEPT ![e] =
               [saved EXCEPT !.strokes = IF full THEN 0 ELSE u.strokes + 1,
                             !.group = group]]
  BY Zenon DEF Description!Type
<1>6. PICK w : w = Description!save(undo[e], editor[e].shown, alike)
  OBVIOUS
<1>7. PICK u : u = IF group # undo[e].group /\ undo[e].strokes > 0
                   THEN Description!resetType(w) ELSE undo[e]
  OBVIOUS
<1>8. PICK begun : begun = IF u.typing THEN u
                           ELSE [u EXCEPT !.typing = TRUE, !.hasUndo = TRUE,
                                          !.hasRedo = FALSE]
  OBVIOUS
<1>9. PICK full \in BOOLEAN : full <=> u.strokes + 1 >= KeysLimit
  OBVIOUS
<1>10. PICK saved : saved = IF full THEN Description!save(begun, c, TRUE) ELSE begun
  OBVIOUS
<1>11. PICK n : n = IF full THEN 0 ELSE u.strokes + 1
  OBVIOUS
<1>12. PICK v : v = [saved EXCEPT !.strokes = n, !.group = group]
  OBVIOUS
<1>13. undo' = [undo EXCEPT ![e] = v]
  BY ONLY <1>4, <1>5, <1>6, <1>7, <1>8, <1>9, <1>10, <1>11, <1>12, Zenon
<1>14. UndoFits(w) /\ w.index >= 1
  BY <1>3, <1>6, SavedSuits
<1>15. UndoFits(u) /\ u.index >= 1
  <2>1. CASE group # undo[e].group /\ undo[e].strokes > 0
    <3>1. u = Description!resetType(w)
      BY <1>7, <2>1
    <3>2. UndoFits(u) /\ u.index = w.index
      BY <1>14, <3>1, ResetFits
    <3> QED BY <1>14, <3>2
  <2>2. CASE ~(group # undo[e].group /\ undo[e].strokes > 0)
    <3>1. u = undo[e]
      BY <1>7, <2>2
    <3> QED BY <1>3, <3>1
  <2> QED BY <2>1, <2>2
<1>16. UndoFits(begun) /\ begun.index >= 1 /\ begun.hasUndo /\ ~begun.hasRedo
  BY <1>8, <1>15, TypingBegun, Zenon
<1>17. /\ UndoFits(saved) /\ saved.index >= 1
       /\ c # Description!Current(saved) => saved.hasUndo /\ ~saved.hasRedo
  <2>1. CASE full
    <3>1. PICK same \in BOOLEAN : saved = Description!save(begun, c, same)
      BY <1>10, <2>1, Zenon
    <3> QED BY <1>16, <3>1, SavedSuits
  <2>2. CASE ~full
    <3>1. saved = begun
      BY <1>10, <2>2
    <3> QED BY <1>16, <3>1
  <2> QED BY <2>1, <2>2
<1>18. n \in Nat
  <2>1. u.strokes \in Nat
    BY <1>15 DEF UndoFits, Description!UndoManager
  <2> QED BY <1>11, <2>1
<1>19. /\ UndoFits(v) /\ v.index = saved.index
       /\ Description!Current(v) = Description!Current(saved)
       /\ v.hasUndo = saved.hasUndo /\ v.hasRedo = saved.hasRedo
  BY <1>12, <1>17, <1>18, KeysCounted, Zenon
<1>20. /\ v.index # 0
       /\ c # Description!Current(v) => v.hasUndo /\ ~v.hasRedo
  BY <1>17, <1>19
<1> QED BY <1>2, <1>13, <1>19, <1>20, TextKeeps

\* "Undo" first saves what was typed; then it shows the image before, if there
\* is one that differs.
LEMMA UndoActs ==
    ASSUME EditorInv, NEW e \in TextAreas, Description!Undo(e)
    PROVE  /\ Description!UserActs(e, "wysiwyg")
           /\ DOMAIN editor = TextAreas /\ DOMAIN undo = TextAreas
           /\ editor[e] \in Description!Editor
           /\ UNCHANGED <<scripts, stage, textarea, posted>>
           /\ editor[e].shown \in Images /\ UndoFits(undo[e])
           /\ \E u :
                /\ UndoFits(u) /\ u.index >= 1 /\ Description!Current(u) = editor[e].shown
                /\ \A i \in 1..(u.index - 1) :
                     \E j \in 1..undo[e].index : u.snapshots[i] = undo[e].snapshots[j]
                /\ \/ undo' = [undo EXCEPT ![e] = u] /\ UNCHANGED <<editor, last>>
                   \/ \E i \in 1..(u.index - 1) :
                        /\ undo' = [undo EXCEPT ![e] = Description!restoreImage(u, i)]
                        /\ editor' = [editor EXCEPT ![e].shown = u.snapshots[i]]
                        /\ last' = [last EXCEPT ![e] = u.snapshots[i]]
<1>1. PICK u : u = Description!save(undo[e], editor[e].shown, TRUE)
  OBVIOUS
<1>2. /\ Description!UserActs(e, "wysiwyg")
      /\ IF Description!Earlier(u) = {}
         THEN /\ undo' = [undo EXCEPT ![e] = u] /\ UNCHANGED <<editor, last>>
              /\ Description!OnlyEditor
         ELSE /\ undo' = [undo EXCEPT ![e] =
                   Description!restoreImage(u, Description!Max(Description!Earlier(u)))]
              /\ Description!Shows(e, u.snapshots[Description!Max(Description!Earlier(u))])
  BY <1>1, Zenon DEF Description!Undo
<1>3. /\ DOMAIN undo = TextAreas /\ DOMAIN editor = TextAreas /\ editor[e].shown \in Images
      /\ editor[e] \in Description!Editor /\ UndoFits(undo[e]) /\ undo[e].index >= 1
  BY <1>2, InText
<1>4. PICK alike \in BOOLEAN : u = Description!save(undo[e], editor[e].shown, alike)
  BY <1>1, Zenon
<1>5. /\ UndoFits(u) /\ u.index >= 1 /\ Description!Current(u) = editor[e].shown
      /\ \/ u = undo[e]
         \/ \A i \in 1..(u.index - 1) :
              \E j \in 1..undo[e].index : u.snapshots[i] = undo[e].snapshots[j]
  BY <1>3, <1>4, ImageSaved
<1>6. \A i \in 1..(u.index - 1) :
         \E j \in 1..undo[e].index : u.snapshots[i] = undo[e].snapshots[j]
  <2>1. CASE u = undo[e]
    <3>1. u.index \in Nat
      BY <1>5 DEF UndoFits, Description!UndoManager
    <3>2. \A i \in 1..(u.index - 1) : i \in 1..u.index
      BY <3>1
    <3> QED BY <2>1, <3>2
  <2> QED BY <1>5, <2>1
<1>7. CASE Description!Earlier(u) = {}
  <2>1. /\ undo' = [undo EXCEPT ![e] = u] /\ UNCHANGED <<editor, last>>
        /\ UNCHANGED <<scripts, stage, textarea, posted>>
    BY <1>2, <1>7 DEF Description!OnlyEditor
  <2> QED BY <1>2, <1>3, <1>5, <1>6, <2>1
<1>8. CASE Description!Earlier(u) # {}
  <2>1. PICK E : E = Description!Earlier(u)
    OBVIOUS
  <2>2. u.index \in Nat
    BY <1>5 DEF UndoFits, Description!UndoManager
  <2>3. E \in SUBSET 1..(u.index - 1) /\ E # {} /\ u.index - 1 \in Nat
    BY <1>5, <1>8, <2>1, <2>2 DEF Description!Earlier
  <2>4. PICK i : i = Description!Max(E)
    OBVIOUS
  <2>5. i \in E
    BY <2>3, <2>4, GreatestPlace
  <2>6. /\ undo' = [undo EXCEPT ![e] = Description!restoreImage(u, i)]
        /\ Description!Shows(e, u.snapshots[i])
    BY <1>2, <1>8, <2>1, <2>4
  <2>7. /\ editor' = [editor EXCEPT ![e].shown = u.snapshots[i]]
        /\ last' = [last EXCEPT ![e] = u.snapshots[i]]
        /\ UNCHANGED <<scripts, stage, textarea, posted>>
    BY <2>6 DEF Description!Shows, Description!OnlyEditor
  <2>8. i \in 1..(u.index - 1)
    BY <2>3, <2>5
  <2>9. \E k \in 1..(u.index - 1) :
           /\ undo' = [undo EXCEPT ![e] = Description!restoreImage(u, k)]
           /\ editor' = [editor EXCEPT ![e].shown = u.snapshots[k]]
           /\ last' = [last EXCEPT ![e] = u.snapshots[k]]
    BY <2>6, <2>7, <2>8
  <2> QED BY <1>2, <1>3, <1>5, <1>6, <2>7, <2>9
<1> QED BY <1>7, <1>8

\* What "Undo" shows is seen.
LEMMA UndoKeeps ==
    ASSUME EditorInv, NEW e \in TextAreas, Description!Undo(e)
    PROVE  EditorInv'
<1>1. /\ Description!UserActs(e, "wysiwyg")
      /\ UNCHANGED <<scripts, stage, textarea, posted>>
      /\ editor[e].shown \in Images
  BY UndoActs
<1>2. PICK u :
      /\ UndoFits(u) /\ u.index >= 1
      /\ Description!Current(u) = editor[e].shown
      /\ \/ undo' = [undo EXCEPT ![e] = u] /\ UNCHANGED <<editor, last>>
         \/ \E i \in 1..(u.index - 1) :
              /\ undo' = [undo EXCEPT ![e] = Description!restoreImage(u, i)]
              /\ editor' = [editor EXCEPT ![e].shown = u.snapshots[i]]
              /\ last' = [last EXCEPT ![e] = u.snapshots[i]]
  BY UndoActs
<1>3. CASE undo' = [undo EXCEPT ![e] = u] /\ UNCHANGED <<editor, last>>
  <2>1. u.index # 0
    BY <1>2
  <2> QED BY <1>1, <1>2, <1>3, <2>1, TextKeeps
<1>4. ASSUME NEW i \in 1..(u.index - 1),
             undo' = [undo EXCEPT ![e] = Description!restoreImage(u, i)],
             editor' = [editor EXCEPT ![e].shown = u.snapshots[i]],
             last' = [last EXCEPT ![e] = u.snapshots[i]]
      PROVE  EditorInv'
  <2>1. u.snapshots \in Seq(Images) /\ u.index \in 0..Len(u.snapshots)
    BY <1>2 DEF UndoFits, Description!UndoManager, Images
  <2>2. i \in 1..Len(u.snapshots)
    BY <2>1
  <2>3. PICK c \in Images : c = u.snapshots[i]
    BY <2>1, <2>2
  <2>4. PICK v : v = Description!restoreImage(u, i)
    OBVIOUS
  <2>5. UndoFits(v) /\ v.index >= 1 /\ Description!Current(v) = c
    BY <1>2, <2>2, <2>3, <2>4, ImageRestored
  <2>6. v.index # 0
    BY <2>5
  <2>7. /\ undo' = [undo EXCEPT ![e] = v] /\ editor' = [editor EXCEPT ![e].shown = c]
        /\ last' = [last EXCEPT ![e] = c]
    BY <1>4, <2>3, <2>4
  <2> QED BY <1>1, <2>5, <2>6, <2>7, TextKeeps
<1> QED BY <1>2, <1>3, <1>4

\* "Redo" shows the next image, unless something was typed since.
LEMMA RedoActs ==
    ASSUME EditorInv, NEW e \in TextAreas, Description!Redo(e)
    PROVE  /\ Description!UserActs(e, "wysiwyg")
           /\ DOMAIN editor = TextAreas /\ DOMAIN undo = TextAreas
           /\ editor[e] \in Description!Editor
           /\ UNCHANGED <<scripts, stage, textarea, posted>>
           /\ editor[e].shown \in Images /\ UndoFits(undo[e]) /\ undo[e].index >= 1
           /\ \/ /\ UNCHANGED <<editor, last>>
                 /\ \E u : /\ undo' = [undo EXCEPT ![e] = u]
                           /\ UndoFits(u) /\ u.index >= 1
                           /\ Description!Current(u) = editor[e].shown
              \/ /\ Description!Current(undo[e]) = editor[e].shown
                 /\ \E i \in (undo[e].index + 1)..Len(undo[e].snapshots) :
                      /\ undo[e].snapshots[i] # Description!Current(undo[e])
                      /\ undo' = [undo EXCEPT ![e] = Description!restoreImage(undo[e], i)]
                      /\ editor' = [editor EXCEPT ![e].shown = undo[e].snapshots[i]]
                      /\ last' = [last EXCEPT ![e] = undo[e].snapshots[i]]
<1>1. PICK u : u = Description!save(undo[e], editor[e].shown, TRUE)
  OBVIOUS
<1>2. /\ Description!UserActs(e, "wysiwyg")
      /\ IF ~u.hasRedo \/ Description!Later(u) = {}
         THEN /\ undo' = [undo EXCEPT ![e] = u] /\ UNCHANGED <<editor, last>>
              /\ Description!OnlyEditor
         ELSE /\ undo' = [undo EXCEPT ![e] =
                   Description!restoreImage(u, Description!Min(Description!Later(u)))]
              /\ Description!Shows(e, u.snapshots[Description!Min(Description!Later(u))])
  BY <1>1, Zenon DEF Description!Redo
<1>3. /\ DOMAIN undo = TextAreas /\ DOMAIN editor = TextAreas /\ editor[e].shown \in Images
      /\ editor[e] \in Description!Editor /\ UndoFits(undo[e]) /\ undo[e].index >= 1
  BY <1>2, InText
<1>4. PICK alike \in BOOLEAN : u = Description!save(undo[e], editor[e].shown, alike)
  BY <1>1, Zenon
<1>5. /\ UndoFits(u) /\ u.index >= 1 /\ Description!Current(u) = editor[e].shown
      /\ u = undo[e] \/ Description!Later(u) = {}
  BY <1>3, <1>4, ImageSaved
<1>6. CASE ~u.hasRedo \/ Description!Later(u) = {}
  <2>1. undo' = [undo EXCEPT ![e] = u] /\ UNCHANGED <<editor, last>>
    BY <1>2, <1>6
  <2>2. UNCHANGED <<scripts, stage, textarea, posted>>
    BY <1>2, <1>6 DEF Description!OnlyEditor
  <2> QED BY <1>2, <1>3, <1>5, <2>1, <2>2
<1>7. CASE ~(~u.hasRedo \/ Description!Later(u) = {})
  <2>1. u = undo[e]
    BY <1>5, <1>7
  <2>2. PICK L : L = Description!Later(u)
    OBVIOUS
  <2>3. u.index \in Nat
    BY <1>5 DEF UndoFits, Description!UndoManager
  <2>4. L # {} /\ L \in SUBSET Nat
    BY <1>7, <2>2, <2>3 DEF Description!Later
  <2>5. PICK i : i = Description!Min(L)
    OBVIOUS
  <2>6. i \in L
    BY <2>4, <2>5, LeastPlace
  <2>7. i \in (u.index + 1)..Len(u.snapshots) /\ u.snapshots[i] # Description!Current(u)
    BY <2>2, <2>6 DEF Description!Later
  <2>8. /\ undo' = [undo EXCEPT ![e] = Description!restoreImage(u, i)]
        /\ Description!Shows(e, u.snapshots[i])
    BY <1>2, <1>7, <2>2, <2>5
  <2>9. /\ editor' = [editor EXCEPT ![e].shown = u.snapshots[i]]
        /\ last' = [last EXCEPT ![e] = u.snapshots[i]]
        /\ UNCHANGED <<scripts, stage, textarea, posted>>
    BY <2>8 DEF Description!Shows, Description!OnlyEditor
  <2>10. \E k \in (undo[e].index + 1)..Len(undo[e].snapshots) :
            /\ undo[e].snapshots[k] # Description!Current(undo[e])
            /\ undo' = [undo EXCEPT ![e] = Description!restoreImage(undo[e], k)]
            /\ editor' = [editor EXCEPT ![e].shown = undo[e].snapshots[k]]
            /\ last' = [last EXCEPT ![e] = undo[e].snapshots[k]]
    BY <2>1, <2>7, <2>8, <2>9
  <2> QED BY <1>2, <1>3, <1>5, <2>1, <2>9, <2>10
<1> QED BY <1>6, <1>7

\* And what "Redo" shows.
LEMMA RedoKeeps ==
    ASSUME EditorInv, NEW e \in TextAreas, Description!Redo(e)
    PROVE  EditorInv'
<1>1. /\ Description!UserActs(e, "wysiwyg")
      /\ UNCHANGED <<scripts, stage, textarea, posted>>
      /\ editor[e].shown \in Images /\ UndoFits(undo[e]) /\ undo[e].index >= 1
      /\ \/ /\ UNCHANGED <<editor, last>>
            /\ \E u : /\ undo' = [undo EXCEPT ![e] = u]
                      /\ UndoFits(u) /\ u.index >= 1
                      /\ Description!Current(u) = editor[e].shown
         \/ \E i \in (undo[e].index + 1)..Len(undo[e].snapshots) :
              /\ undo' = [undo EXCEPT ![e] = Description!restoreImage(undo[e], i)]
              /\ editor' = [editor EXCEPT ![e].shown = undo[e].snapshots[i]]
              /\ last' = [last EXCEPT ![e] = undo[e].snapshots[i]]
  BY RedoActs
<1>2. ASSUME NEW u, undo' = [undo EXCEPT ![e] = u], UndoFits(u), u.index >= 1,
             Description!Current(u) = editor[e].shown, UNCHANGED <<editor, last>>
      PROVE  EditorInv'
  <2>1. u.index # 0
    BY <1>2
  <2> QED BY <1>1, <1>2, <2>1, TextKeeps
<1>3. ASSUME NEW i \in (undo[e].index + 1)..Len(undo[e].snapshots),
             undo' = [undo EXCEPT ![e] = Description!restoreImage(undo[e], i)],
             editor' = [editor EXCEPT ![e].shown = undo[e].snapshots[i]],
             last' = [last EXCEPT ![e] = undo[e].snapshots[i]]
      PROVE  EditorInv'
  <2>1. undo[e].snapshots \in Seq(Images) /\ undo[e].index \in Nat
    BY <1>1 DEF UndoFits, Description!UndoManager, Images
  <2>2. i \in 1..Len(undo[e].snapshots)
    BY <2>1
  <2>3. PICK c \in Images : c = undo[e].snapshots[i]
    BY <2>1, <2>2
  <2>4. PICK v : v = Description!restoreImage(undo[e], i)
    OBVIOUS
  <2>5. UndoFits(v) /\ v.index >= 1 /\ Description!Current(v) = c
    BY <1>1, <2>2, <2>3, <2>4, ImageRestored
  <2>6. v.index # 0
    BY <2>5
  <2>7. /\ undo' = [undo EXCEPT ![e] = v] /\ editor' = [editor EXCEPT ![e].shown = c]
        /\ last' = [last EXCEPT ![e] = c]
    BY <1>3, <2>3, <2>4
  <2> QED BY <1>1, <2>5, <2>6, <2>7, TextKeeps
<1> QED BY <1>1, <1>2, <1>3

\* The form takes the value of each editor; it may still not be sent.
LEMMA SubmitKeeps ==
    ASSUME EditorInv, NEW sent \in BOOLEAN, Description!Submit(sent)
    PROVE  EditorInv'
<1>1. /\ ~posted /\ posted' = sent
      /\ textarea' = [e \in TextAreas |->
                        IF stage[e] > 4 THEN Description!getData(e) ELSE textarea[e]]
      /\ editor' = [e \in TextAreas |->
                      IF editor[e].listening
                      THEN [editor[e] EXCEPT !.data = Description!getData(e)]
                      ELSE editor[e]]
      /\ UNCHANGED <<scripts, stage, undo, last>>
  BY DEF Description!Submit, Description!Loaded
<1>2. ASSUME NEW e \in TextAreas
      PROVE  /\ stage'[e] \in 0..5 /\ textarea'[e] \in Images /\ last'[e] \in Images
             /\ EditorFits(editor'[e], undo'[e])
             /\ stage'[e] <= 4 => Undrawn(editor'[e])
             /\ ValueOf(e)' = last'[e] /\ textarea'[e] = last'[e]
  <2>1. /\ stage[e] \in 0..5 /\ textarea[e] \in Images /\ last[e] \in Images
        /\ EditorFits(editor[e], undo[e])
        /\ stage[e] <= 4 => Undrawn(editor[e])
        /\ ValueOf(e) = last[e]
    BY <1>1 DEF EditorInv
  <2>2. /\ stage'[e] = stage[e] /\ undo'[e] = undo[e] /\ last'[e] = last[e]
    BY <1>1
  <2>3. CASE stage[e] <= 4
    <3>1. ~(stage[e] > 4) /\ Undrawn(editor[e])
      BY <2>1, <2>3
    <3>2. textarea'[e] = textarea[e] /\ editor'[e] = editor[e]
      BY <1>1, <3>1 DEF Undrawn
    <3>3. textarea[e] = last[e]
      BY <2>1, <3>1 DEF ValueOf
    <3>4. ValueOf(e)' = textarea'[e]
      BY <2>2, <3>1 DEF ValueOf
    <3> QED BY <2>1, <2>2, <3>1, <3>2, <3>3, <3>4
  <2>4. CASE ~(stage[e] <= 4)
    <3>1. stage[e] > 4
      BY <2>1, <2>4
    <3>2. Description!getData(e) = DataOf(editor[e], textarea[e])
      BY DEF Description!getData, DataOf
    <3>3. DataOf(editor[e], textarea[e]) = last[e] /\ Description!getData(e) = last[e]
      BY <2>1, <3>1, <3>2 DEF ValueOf
    <3>4. textarea'[e] = last[e]
      BY <1>1, <3>1, <3>3
    <3>5. PICK d : d = editor'[e]
      OBVIOUS
    <3>6. d = IF editor[e].listening THEN [editor[e] EXCEPT !.data = last[e]] ELSE editor[e]
      BY <1>1, <3>3, <3>5
    <3>7. editor[e] \in Description!Editor
      BY <2>1 DEF EditorFits
    <3>8. CASE editor[e].listening
      <4>1. /\ d \in Description!Editor /\ d.mode = editor[e].mode
            /\ d.going = editor[e].going /\ d.listening /\ d.shown = editor[e].shown
            /\ d.ready = editor[e].ready /\ d.data = last[e]
        BY <2>1, <3>6, <3>7, <3>8 DEF Description!Editor, Images
      <4>2. EditorFits(d, undo[e])
        BY <2>1, <3>8, <4>1 DEF EditorFits
      <4>3. DataOf(d, last[e]) = last[e]
        BY <3>3, <3>8, <4>1 DEF DataOf
      <4>4. ValueOf(e)' = last[e]
        BY <2>2, <3>1, <3>4, <3>5, <4>3 DEF ValueOf
      <4> QED BY <2>1, <2>2, <2>4, <3>4, <3>5, <4>2, <4>4
    <3>9. CASE ~editor[e].listening
      <4>1. d = editor[e]
        BY <3>6, <3>9
      <4>2. DataOf(d, last[e]) = last[e]
        BY <3>3, <3>9, <4>1 DEF DataOf
      <4>3. ValueOf(e)' = last[e]
        BY <2>2, <3>1, <3>4, <3>5, <4>2 DEF ValueOf
      <4> QED BY <2>1, <2>2, <2>4, <3>4, <3>5, <4>1, <4>3
    <3> QED BY <3>8, <3>9
  <2> QED BY <2>3, <2>4
<1>3. /\ DOMAIN scripts' = 1..3 /\ DOMAIN stage' = TextAreas /\ DOMAIN last' = TextAreas
      /\ DOMAIN editor' = TextAreas /\ DOMAIN undo' = TextAreas /\ posted' \in BOOLEAN
  BY <1>1 DEF EditorInv
<1> QED BY <1>2, <1>3 DEF EditorInv

\* At first each textarea has the description, and no editor is there.
LEMMA EditorBegins ==
    ASSUME Description!Init
    PROVE  EditorInv
<1>1. /\ scripts = [s \in 1..3 |-> "waiting"] /\ stage = [e \in TextAreas |-> 0]
      /\ posted = FALSE /\ textarea = [e \in TextAreas |-> Described]
      /\ last = [e \in TextAreas |-> Described]
      /\ undo = [e \in TextAreas |-> Description!NewUndo]
      /\ editor = [e \in TextAreas |->
           [mode |-> "none", going |-> "none", data |-> None, shown |-> None,
            listening |-> FALSE, ready |-> FALSE, previousModeData |-> None,
            unchanged |-> FALSE]]
  BY DEF Description!Init, Description!Scripts
<1>2. Described \in Images
  BY EditorAssumption DEF Images, Description!Content
<1>3. UndoFits(Description!NewUndo) /\ Description!NewUndo.index = 0
  <2>1. PICK u : u = Description!NewUndo
    OBVIOUS
  <2>2. u = [snapshots |-> <<>>, index |-> 0, hasUndo |-> FALSE, hasRedo |-> FALSE,
             typing |-> FALSE, strokes |-> 0, group |-> "none", enabled |-> FALSE]
    BY <2>1 DEF Description!NewUndo
  <2>3. <<>> \in Seq(Description!Content)
    OBVIOUS
  <2>4. u \in Description!UndoManager
    BY <2>2, <2>3 DEF Description!UndoManager
  <2>5. u.snapshots = <<>> /\ u.index = 0 /\ ~u.typing
    BY <2>2
  <2>6. Len(u.snapshots) = 0 /\ UndoLimit \in Nat
    BY <2>5, EditorAssumption
  <2>7. Description!Earlier(u) = {}
    BY <2>5 DEF Description!Earlier
  <2>8. UndoFits(u)
    BY <2>4, <2>5, <2>6, <2>7 DEF UndoFits
  <2> QED BY <2>1, <2>5, <2>8
<1>4. ASSUME NEW e \in TextAreas
      PROVE  /\ stage[e] \in 0..5 /\ textarea[e] \in Images /\ last[e] \in Images
             /\ EditorFits(editor[e], undo[e])
             /\ stage[e] <= 4 => Undrawn(editor[e])
             /\ ValueOf(e) = last[e] /\ textarea[e] = last[e]
  <2>1. PICK d : d = editor[e]
    OBVIOUS
  <2>2. d = [mode |-> "none", going |-> "none", data |-> None, shown |-> None,
             listening |-> FALSE, ready |-> FALSE, previousModeData |-> None,
             unchanged |-> FALSE]
    BY <1>1, <2>1
  <2>3. d \in Description!Editor
    BY <2>2 DEF Description!Editor
  <2>4. Undrawn(d)
    BY <2>2 DEF Undrawn
  <2>5. undo[e] = Description!NewUndo /\ UndoFits(undo[e]) /\ undo[e].index = 0
    BY <1>1, <1>3
  <2>6. EditorFits(d, undo[e])
    BY <2>3, <2>4, <2>5 DEF EditorFits, Undrawn
  <2>7. stage[e] = 0 /\ textarea[e] = Described /\ last[e] = Described
    BY <1>1
  <2>8. ValueOf(e) = textarea[e]
    BY <2>7 DEF ValueOf
  <2> QED BY <1>2, <2>1, <2>4, <2>6, <2>7, <2>8
<1>5. /\ DOMAIN scripts = 1..3 /\ DOMAIN stage = TextAreas /\ DOMAIN last = TextAreas
      /\ DOMAIN editor = TextAreas /\ DOMAIN undo = TextAreas /\ posted \in BOOLEAN
  BY <1>1
<1> QED BY <1>4, <1>5 DEF EditorInv

\* No step of the page sets the value of a form apart from what was seen,
LEMMA EditorKeeps ==
    ASSUME EditorInv, Description!Next
    PROVE  EditorInv'
<1>1. ASSUME NEW s \in Description!Scripts, NEW outcome \in {"ended", "failed"},
             Description!ScriptEnds(s, outcome)
      PROVE  EditorInv'
  BY <1>1, ScriptKeeps
<1>2. ASSUME NEW e \in TextAreas,
             \/ Description!Begin(e) \/ Description!Draw(e)
             \/ Description!FrameLoads(e) \/ Description!DocumentLoads(e)
             \/ Description!DataReady(e) \/ Description!ModeEvent(e)
      PROVE  EditorInv'
  BY <1>2, BeginKeeps, DrawKeeps, FrameKeeps, DocumentKeeps, DataKeeps, ModeKeeps
<1>3. ASSUME NEW e \in TextAreas,
             \/ Description!ToSource(e) \/ Description!ToWysiwyg(e)
             \/ Description!ClickText(e) \/ Description!Undo(e) \/ Description!Redo(e)
      PROVE  EditorInv'
  BY <1>3, ToSourceKeeps, ToWysiwygKeeps, ClickKeeps, UndoKeeps, RedoKeeps
<1>4. ASSUME NEW e \in TextAreas, NEW x \in Descriptions,
             \/ \E group \in {"printable", "functional"} : Description!Type(e, x, group)
             \/ Description!Command(e, x)
      PROVE  EditorInv'
  BY <1>4, TypeKeeps, CommandKeeps
<1>5. ASSUME NEW e \in TextAreas, NEW x \in Descriptions, NEW extra \in BOOLEAN,
             Description!TypeSource(e, [text |-> x, extra |-> extra])
      PROVE  EditorInv'
  <2>1. PICK c \in Images : c = [text |-> x, extra |-> extra]
    BY TextIsImage
  <2>2. Description!TypeSource(e, c)
    BY <1>5, <2>1
  <2> QED BY <2>2, SourceKeeps
<1>6. ASSUME NEW sent \in BOOLEAN, Description!Submit(sent)
      PROVE  EditorInv'
  BY <1>6, SubmitKeeps
<1> QED BY <1>1, <1>2, <1>3, <1>4, <1>5, <1>6 DEF Description!Next

\* nor does no step.
LEMMA EditorStays ==
    ASSUME EditorInv, UNCHANGED Description!vars
    PROVE  EditorInv'
BY DEF EditorInv, ValueOf, Description!vars

\* What is sent was seen, and the buttons are right, where the invariant holds.
LEMMA EditorInvTrue ==
    ASSUME EditorInv
    PROVE  Description!SubmittedIsSeen /\ Description!ButtonsTrue
<1>1. Description!SubmittedIsSeen
  BY DEF EditorInv, Description!SubmittedIsSeen
<1>2. ASSUME NEW e \in TextAreas, editor[e].ready, editor[e].going = "none",
             editor[e].mode = "wysiwyg"
      PROVE  /\ Description!Earlier(undo[e]) # {}
                  \/ editor[e].shown # Description!Current(undo[e]) => undo[e].hasUndo
             /\ editor[e].shown # Description!Current(undo[e]) => ~undo[e].hasRedo
  <2>1. EditorFits(editor[e], undo[e])
    BY DEF EditorInv
  <2>2. UndoFits(undo[e])
    BY <2>1 DEF EditorFits
  <2>3. editor[e].shown # Description!Current(undo[e])
          => undo[e].hasUndo /\ ~undo[e].hasRedo
    BY <1>2, <2>1 DEF EditorFits
  <2>4. Description!Earlier(undo[e]) # {} => undo[e].hasUndo
    BY <2>2 DEF UndoFits
  <2> QED BY <2>3, <2>4
<1>3. Description!ButtonsTrue
  BY <1>2 DEF Description!ButtonsTrue
<1> QED BY <1>1, <1>3

\* And what an undo or a redo replaces is among the images.
LEMMA EditorLosesNothing ==
    ASSUME EditorInv
    PROVE  Description!UndoLosesNothing
<1>1. ASSUME NEW e \in TextAreas, Description!Undo(e), editor' # editor
      PROVE  /\ \E i \in (undo'[e].index + 1)..Len(undo'[e].snapshots) :
                  undo'[e].snapshots[i] = editor[e].shown
             /\ \E i \in 1..undo[e].index : undo[e].snapshots[i] = editor'[e].shown
  <2>1. /\ DOMAIN editor = TextAreas /\ DOMAIN undo = TextAreas
        /\ editor[e] \in Description!Editor /\ UndoFits(undo[e])
    BY <1>1, UndoActs
  <2>2. PICK u :
          /\ UndoFits(u) /\ u.index >= 1 /\ Description!Current(u) = editor[e].shown
          /\ \A i \in 1..(u.index - 1) :
               \E j \in 1..undo[e].index : u.snapshots[i] = undo[e].snapshots[j]
          /\ \E i \in 1..(u.index - 1) :
               /\ undo' = [undo EXCEPT ![e] = Description!restoreImage(u, i)]
               /\ editor' = [editor EXCEPT ![e].shown = u.snapshots[i]]
    BY <1>1, UndoActs
  <2>3. PICK i \in 1..(u.index - 1) :
          /\ undo' = [undo EXCEPT ![e] = Description!restoreImage(u, i)]
          /\ editor' = [editor EXCEPT ![e].shown = u.snapshots[i]]
    BY <2>2
  <2>4. u.snapshots \in Seq(Images) /\ u.index \in 0..Len(u.snapshots) /\ u.index \in Nat
    BY <2>2 DEF UndoFits, Description!UndoManager, Images
  <2>5. i \in 1..Len(u.snapshots) /\ u.index \in (i + 1)..Len(u.snapshots)
    BY <2>4
  <2>6. PICK v : v = Description!restoreImage(u, i)
    OBVIOUS
  <2>7. \A j \in (i + 1)..Len(u.snapshots) :
          \E k \in (v.index + 1)..Len(v.snapshots) : v.snapshots[k] = u.snapshots[j]
    <3>1. UndoFits(u)
      BY <2>2
    <3>2. i \in 1..Len(u.snapshots)
      BY <2>5
    <3>3. ASSUME NEW j \in (i + 1)..Len(u.snapshots)
          PROVE  \E k \in (v.index + 1)..Len(v.snapshots) : v.snapshots[k] = u.snapshots[j]
      BY ONLY <2>6, <3>1, <3>2, <3>3, ImageRestored
    <3> QED BY <3>3
  <2>8. u.snapshots[u.index] = editor[e].shown
    BY <2>2 DEF Description!Current
  <2>9. \E k \in (v.index + 1)..Len(v.snapshots) : v.snapshots[k] = editor[e].shown
    BY <2>5, <2>7, <2>8
  <2>10. undo'[e] = v
    BY <2>1, <2>3, <2>6
  <2>11. editor'[e].shown = u.snapshots[i]
    BY <2>1, <2>3 DEF Description!Editor
  <2>12. \E j \in 1..undo[e].index : undo[e].snapshots[j] = editor'[e].shown
    BY <2>2, <2>11
  <2> QED BY <2>9, <2>10, <2>12
<1>2. ASSUME NEW e \in TextAreas, Description!Redo(e), editor' # editor
      PROVE  /\ \E i \in 1..(undo'[e].index - 1) :
                  undo'[e].snapshots[i] = editor[e].shown
             /\ \E i \in (undo[e].index + 1)..Len(undo[e].snapshots) :
                  undo[e].snapshots[i] = editor'[e].shown
  <2>1. /\ DOMAIN editor = TextAreas /\ DOMAIN undo = TextAreas
        /\ editor[e] \in Description!Editor
        /\ UndoFits(undo[e]) /\ undo[e].index >= 1
        /\ Description!Current(undo[e]) = editor[e].shown
    BY <1>2, RedoActs
  <2>2. PICK i \in (undo[e].index + 1)..Len(undo[e].snapshots) :
          /\ undo[e].snapshots[i] # Description!Current(undo[e])
          /\ undo' = [undo EXCEPT ![e] = Description!restoreImage(undo[e], i)]
          /\ editor' = [editor EXCEPT ![e].shown = undo[e].snapshots[i]]
    BY <1>2, RedoActs
  <2>3. undo[e].snapshots \in Seq(Images) /\ undo[e].index \in Nat
    BY <2>1 DEF UndoFits, Description!UndoManager, Images
  <2>4. i \in 1..Len(undo[e].snapshots) /\ undo[e].index < i
    BY <2>3
  <2>5. PICK v : v = Description!restoreImage(undo[e], i)
    OBVIOUS
  <2>6. /\ v.index >= 1 /\ UndoFits(v)
        /\ \A j \in 1..(v.index - 1) : v.snapshots[j] = undo[e].snapshots[j]
        /\ \A j \in v.index..i : undo[e].snapshots[j] = undo[e].snapshots[i]
    BY <2>1, <2>4, <2>5, ImageRestored
  <2>7. v.index \in Nat
    BY <2>6 DEF UndoFits, Description!UndoManager
  <2>8. undo[e].index \notin v.index..i
    BY <2>2, <2>6 DEF Description!Current
  <2>9. undo[e].index \in 1..(v.index - 1)
    BY <2>1, <2>3, <2>4, <2>7, <2>8
  <2>10. v.snapshots[undo[e].index] = editor[e].shown
    BY <2>1, <2>6, <2>9 DEF Description!Current
  <2>11. undo'[e] = v
    BY <2>1, <2>2, <2>5
  <2>12. editor'[e].shown = undo[e].snapshots[i]
    BY <2>1, <2>2 DEF Description!Editor
  <2> QED BY <2>9, <2>10, <2>11, <2>12
<1> QED BY <1>1, <1>2 DEF Description!UndoLosesNothing

-----------------------------------------------------------------------------
(* The events: the names of their variables, and their lists.               *)

listeners == w1
fires == w2
flags == w3
ons == w4
fired == w5
calls == w6
nested == w7

USE DEF listeners, fires, flags, ons, fired, calls, nested

\* The listeners that there may be when o have been added.
Hearers(o) == [id : 1..o, fn : Listening, priority : Int, once : BOOLEAN]

\* In a list they are in the order of their priorities and identifiers, and no
\* function is there twice.
InTurn(s, o) ==
    /\ s \in Seq(Hearers(o))
    /\ \A i, k \in 1..Len(s) :
          /\ i < k => \/ s[i].priority < s[k].priority
                      \/ s[i].priority = s[k].priority /\ s[i].id < s[k].id
          /\ i # k => s[i].id # s[k].id
          /\ ~s[i].once /\ ~s[k].once /\ s[i].fn = s[k].fn => i = k

\* One more listener does no harm to a list.
LEMMA StaysInTurn ==
    ASSUME NEW o \in Nat, NEW s, InTurn(s, o)
    PROVE  InTurn(s, o + 1)
<1>1. 1..o \subseteq 1..(o + 1)
  OBVIOUS
<1>2. Hearers(o) \subseteq Hearers(o + 1)
  BY <1>1 DEF Hearers
<1>3. s \in Seq(Hearers(o))
  BY DEF InTurn
<1>4. s \in Seq(Hearers(o + 1))
  BY <1>2, <1>3
<1> QED BY <1>4 DEF InTurn

\* A listener goes: the others keep their order.
LEMMA ListenerGoes ==
    ASSUME NEW o \in Nat, NEW s, InTurn(s, o), NEW n \in 1..Len(s),
           NEW t, t = Event!RemoveAt(s, n)
    PROVE  /\ InTurn(t, o)
           /\ \A i \in 1..Len(t) : \E k \in 1..Len(s) : k # n /\ t[i] = s[k]
<1>1. s \in Seq(Hearers(o)) /\ n \in Nat /\ Len(s) \in Nat /\ n >= 1 /\ n <= Len(s)
  BY DEF InTurn
<1>2. PICK a, b : a = SubSeq(s, 1, n - 1) /\ b = SubSeq(s, n + 1, Len(s))
  OBVIOUS
<1>3. /\ a \in Seq(Hearers(o)) /\ Len(a) = n - 1
      /\ \A i \in 1..(n - 1) : a[i] = s[i]
  BY <1>1, <1>2
<1>4. /\ b \in Seq(Hearers(o)) /\ Len(b) = Len(s) - n
      /\ \A i \in 1..(Len(s) - n) : b[i] = s[n + i]
  BY <1>1, <1>2
<1>5. t = a \o b
  BY <1>2 DEF Event!RemoveAt
<1>6. /\ t \in Seq(Hearers(o)) /\ Len(t) = Len(s) - 1
      /\ \A i \in 1..(Len(s) - 1) : t[i] = IF i < n THEN s[i] ELSE s[i + 1]
  <2>1. t \in Seq(Hearers(o)) /\ Len(t) = Len(a) + Len(b)
    BY <1>3, <1>4, <1>5, ConcatProperties
  <2>2. Len(t) = Len(s) - 1
    BY <1>1, <1>3, <1>4, <2>1
  <2>3. ASSUME NEW i \in 1..(Len(s) - 1) PROVE t[i] = IF i < n THEN s[i] ELSE s[i + 1]
    <3>1. CASE i < n
      BY <1>1, <1>3, <1>4, <1>5, <3>1
    <3>2. CASE ~(i < n)
      <4>1. i - (n - 1) \in 1..(Len(s) - n)
        BY <1>1, <3>2
      <4>2. t[i] = b[i - (n - 1)]
        BY <1>1, <1>3, <1>4, <1>5, <3>2
      <4>3. n + (i - (n - 1)) = i + 1
        BY <1>1
      <4> QED BY <1>4, <3>2, <4>1, <4>2, <4>3
    <3> QED BY <3>1, <3>2
  <2> QED BY <2>1, <2>2, <2>3
<1>7. PICK f : f = [i \in 1..(Len(s) - 1) |-> IF i < n THEN i ELSE i + 1]
  OBVIOUS
<1>8. /\ \A i \in 1..(Len(s) - 1) : f[i] \in 1..Len(s) /\ f[i] # n
      /\ \A i, k \in 1..(Len(s) - 1) : (i < k => f[i] < f[k]) /\ (f[i] = f[k] => i = k)
  BY <1>1, <1>7
<1>9. \A i \in 1..Len(t) : t[i] = s[f[i]] /\ f[i] \in 1..Len(s) /\ f[i] # n
  BY <1>6, <1>7, <1>8
<1>10. InTurn(t, o)
  <2>1. \A i, k \in 1..Len(t) :
           /\ i < k => \/ t[i].priority < t[k].priority
                       \/ t[i].priority = t[k].priority /\ t[i].id < t[k].id
           /\ i # k => t[i].id # t[k].id
           /\ ~t[i].once /\ ~t[k].once /\ t[i].fn = t[k].fn => i = k
    <3> SUFFICES ASSUME NEW i \in 1..Len(t), NEW k \in 1..Len(t)
                 PROVE  /\ i < k => \/ t[i].priority < t[k].priority
                                    \/ t[i].priority = t[k].priority /\ t[i].id < t[k].id
                        /\ i # k => t[i].id # t[k].id
                        /\ ~t[i].once /\ ~t[k].once /\ t[i].fn = t[k].fn => i = k
      OBVIOUS
    <3>1. t[i] = s[f[i]] /\ t[k] = s[f[k]] /\ f[i] \in 1..Len(s) /\ f[k] \in 1..Len(s)
      BY <1>9
    <3>2. (i < k => f[i] < f[k]) /\ (f[i] = f[k] => i = k)
      BY <1>6, <1>8
    <3> QED BY <3>1, <3>2 DEF InTurn
  <2> QED BY <1>6, <2>1 DEF InTurn
<1> QED BY <1>9, <1>10

\* The greatest of some places.
LEMMA LastPlace ==
    ASSUME NEW n \in Nat, NEW S \in SUBSET (1..n), NEW m \in S
    PROVE  Event!Max(S) \in S /\ \A i \in S : Event!Max(S) >= i
<1>1. PICK T : T = {n - i : i \in S}
  OBVIOUS
<1>2. T \in SUBSET Nat /\ n - m \in T
  BY <1>1
<1>3. \E x \in T : \A y \in T : x <= y
  BY <1>2, LeastNumber
<1>4. \E x \in S : \A y \in S : x >= y
  <2>1. PICK x \in S : \A y \in S : n - x <= n - y
    BY <1>1, <1>3
  <2> QED BY <2>1
<1> QED BY <1>4 DEF Event!Max

\* Where a listener of a priority comes: all before it, and none after it, have
\* a priority number that is not higher.
LEMMA PlaceOfPriority ==
    ASSUME NEW o \in Nat, NEW s, InTurn(s, o), NEW p \in Int,
           NEW before, before = {n \in DOMAIN s : s[n].priority <= p},
           NEW place, place = IF before = {} THEN 1 ELSE Event!Max(before) + 1
    PROVE  /\ place \in 1..(Len(s) + 1)
           /\ \A i \in 1..Len(s) : i < place <=> s[i].priority <= p
<1>1. /\ s \in Seq(Hearers(o)) /\ Len(s) \in Nat /\ DOMAIN s = 1..Len(s)
      /\ \A i \in 1..Len(s) : s[i].priority \in Int
  <2>1. s \in Seq(Hearers(o))
    BY DEF InTurn
  <2>2. \A x \in Hearers(o) : x.priority \in Int
    BY DEF Hearers
  <2> QED BY <2>1, <2>2
<1>2. before \in SUBSET (1..Len(s))
  BY <1>1
<1>3. CASE before = {}
  BY <1>1, <1>3
<1>4. CASE before # {}
  <2>1. PICK m \in before : TRUE
    BY <1>4
  <2>2. Event!Max(before) \in before /\ \A i \in before : Event!Max(before) >= i
    BY <1>1, <1>2, <2>1, LastPlace
  <2>3. PICK top : top = Event!Max(before)
    OBVIOUS
  <2>4. top \in 1..Len(s) /\ s[top].priority <= p /\ place = top + 1
    BY <1>1, <1>4, <2>2, <2>3
  <2>5. ASSUME NEW i \in 1..Len(s), s[i].priority <= p PROVE i < place
    <3>1. i \in before
      BY <1>1, <2>5
    <3>2. top >= i /\ top \in Int /\ i \in Int
      BY <1>1, <2>2, <2>3, <2>4, <3>1
    <3> QED BY <2>4, <3>2
  <2>6. ASSUME NEW i \in 1..Len(s), i < place PROVE s[i].priority <= p
    <3>1. CASE i = top
      BY <2>4, <3>1
    <3>2. CASE i < top
      <4>1. s[i].priority <= s[top].priority
        BY <1>1, <2>4, <3>2 DEF InTurn
      <4> QED BY <1>1, <2>4, <4>1
    <3>3. i = top \/ i < top
      <4>1. top \in Int /\ i \in Int /\ i < top + 1
        BY <1>1, <2>4, <2>6
      <4> QED BY <4>1
    <3> QED BY <3>1, <3>2, <3>3
  <2>7. place \in 1..(Len(s) + 1)
    BY <1>1, <2>4
  <2> QED BY <2>5, <2>6, <2>7
<1> QED BY <1>3, <1>4

\* A new listener comes: it is the last of its priority.
LEMMA ListenerComes ==
    ASSUME NEW o \in Nat, NEW s, InTurn(s, o), NEW fn \in Listening, NEW p \in Int,
           NEW once \in BOOLEAN, NEW x,
           x = [id |-> o + 1, fn |-> fn, priority |-> p, once |-> once],
           once \/ \A n \in DOMAIN s : s[n].once \/ s[n].fn # fn,
           NEW place \in 1..(Len(s) + 1),
           \A i \in 1..Len(s) : i < place <=> s[i].priority <= p,
           NEW t, t = Event!InsertAt(s, place, x)
    PROVE  /\ InTurn(t, o + 1)
           /\ \A i \in 1..Len(t) : t[i] = x \/ \E k \in 1..Len(s) : t[i] = s[k]
<1>1. /\ s \in Seq(Hearers(o)) /\ Len(s) \in Nat /\ DOMAIN s = 1..Len(s)
      /\ place \in Nat /\ place >= 1 /\ place <= Len(s) + 1
  BY DEF InTurn
<1>2. s \in Seq(Hearers(o + 1))
  BY StaysInTurn DEF InTurn
<1>3. x \in Hearers(o + 1) /\ x.id = o + 1 /\ x.fn = fn /\ x.priority = p /\ x.once = once
  BY DEF Hearers
<1>4. PICK a, b : a = SubSeq(s, 1, place - 1) /\ b = SubSeq(s, place, Len(s))
  OBVIOUS
<1>5. /\ a \in Seq(Hearers(o + 1)) /\ Len(a) = place - 1
      /\ \A i \in 1..(place - 1) : a[i] = s[i]
  BY <1>1, <1>2, <1>4
<1>6. /\ b \in Seq(Hearers(o + 1)) /\ Len(b) = Len(s) - place + 1
      /\ \A i \in 1..(Len(s) - place + 1) : b[i] = s[place + i - 1]
  BY <1>1, <1>2, <1>4
<1>7. PICK c : c = a \o <<x>>
  OBVIOUS
<1>8. /\ c \in Seq(Hearers(o + 1)) /\ Len(c) = place
      /\ \A i \in 1..place : c[i] = IF i < place THEN s[i] ELSE x
  <2>1. <<x>> \in Seq(Hearers(o + 1)) /\ Len(<<x>>) = 1 /\ <<x>>[1] = x
    BY <1>3
  <2>2. c \in Seq(Hearers(o + 1)) /\ Len(c) = Len(a) + 1
    BY <1>5, <1>7, <2>1, ConcatProperties
  <2>3. \A i \in 1..(Len(a) + 1) : c[i] = IF i <= Len(a) THEN a[i] ELSE <<x>>[i - Len(a)]
    BY <1>5, <1>7, <2>1, ConcatProperties
  <2>4. Len(c) = place
    BY <1>1, <1>5, <2>2
  <2>5. ASSUME NEW i \in 1..place PROVE c[i] = IF i < place THEN s[i] ELSE x
    <3>1. CASE i < place
      BY <1>1, <1>5, <2>3, <3>1
    <3>2. CASE i = place
      <4>1. i - Len(a) = 1
        BY <1>1, <1>5, <3>2
      <4> QED BY <1>1, <1>5, <2>1, <2>3, <3>2, <4>1
    <3> QED BY <1>1, <3>1, <3>2
  <2> QED BY <2>2, <2>4, <2>5
<1>9. t = c \o b
  BY <1>4, <1>7 DEF Event!InsertAt
<1>10. /\ t \in Seq(Hearers(o + 1)) /\ Len(t) = Len(s) + 1
       /\ \A i \in 1..(Len(s) + 1) :
             t[i] = IF i < place THEN s[i] ELSE IF i = place THEN x ELSE s[i - 1]
  <2>1. /\ t \in Seq(Hearers(o + 1)) /\ Len(t) = Len(c) + Len(b)
        /\ \A i \in 1..(Len(c) + Len(b)) :
              t[i] = IF i <= Len(c) THEN c[i] ELSE b[i - Len(c)]
    <3>1. c \in Seq(Hearers(o + 1)) /\ b \in Seq(Hearers(o + 1))
      BY <1>6, <1>8
    <3>2. /\ c \o b \in Seq(Hearers(o + 1)) /\ Len(c \o b) = Len(c) + Len(b)
          /\ \A i \in 1..(Len(c) + Len(b)) :
                (c \o b)[i] = IF i <= Len(c) THEN c[i] ELSE b[i - Len(c)]
      BY <3>1, ConcatProperties
    <3> QED BY <1>9, <3>2
  <2>2. \A i \in 1..(Len(c) + Len(b)) : t[i] = IF i <= Len(c) THEN c[i] ELSE b[i - Len(c)]
    BY <2>1
  <2>3. Len(t) = Len(s) + 1
    BY <1>1, <1>6, <1>8, <2>1
  <2>4. ASSUME NEW i \in 1..(Len(s) + 1)
        PROVE  t[i] = IF i < place THEN s[i] ELSE IF i = place THEN x ELSE s[i - 1]
    <3>1. CASE i <= place
      BY <1>1, <1>6, <1>8, <2>2, <3>1
    <3>2. CASE ~(i <= place)
      <4>1. i - place \in 1..(Len(s) - place + 1) /\ place + (i - place) - 1 = i - 1
        BY <1>1, <3>2
      <4>2. t[i] = b[i - place]
        BY <1>1, <1>6, <1>8, <2>2, <3>2
      <4> QED BY <1>1, <1>6, <3>2, <4>1, <4>2
    <3> QED BY <3>1, <3>2
  <2> QED BY <2>1, <2>3, <2>4
<1>11. PICK g : g = [i \in 1..Len(t) |-> IF i < place THEN i ELSE i - 1]
  OBVIOUS
<1>12. /\ \A i \in 1..Len(t) : i # place => t[i] = s[g[i]] /\ g[i] \in 1..Len(s)
       /\ t[place] = x
       /\ \A i \in 1..Len(t) : (i < place => g[i] = i) /\ (i > place => g[i] = i - 1)
       /\ place \in 1..Len(t)
  BY <1>1, <1>10, <1>11
<1>20. ASSUME NEW k \in 1..Len(s)
       PROVE  s[k].id \in 1..o /\ s[k].priority \in Int
  <2>1. s[k] \in Hearers(o)
    BY <1>1
  <2> QED BY <2>1 DEF Hearers
<1>13. \A i, k \in 1..Len(t) :
          /\ i < k => \/ t[i].priority < t[k].priority
                      \/ t[i].priority = t[k].priority /\ t[i].id < t[k].id
          /\ i # k => t[i].id # t[k].id
          /\ ~t[i].once /\ ~t[k].once /\ t[i].fn = t[k].fn => i = k
  <2> SUFFICES ASSUME NEW i \in 1..Len(t), NEW k \in 1..Len(t)
               PROVE  /\ i < k => \/ t[i].priority < t[k].priority
                                  \/ t[i].priority = t[k].priority /\ t[i].id < t[k].id
                      /\ i # k => t[i].id # t[k].id
                      /\ ~t[i].once /\ ~t[k].once /\ t[i].fn = t[k].fn => i = k
    OBVIOUS
  <2>1. CASE i = place /\ k = place
    BY <1>1, <2>1
  <2>2. CASE i = place /\ k # place
    <3>1. PICK l \in 1..Len(s) : l = g[k] /\ t[k] = s[l]
      BY <1>12, <2>2
    <3>2. k > place => ~(l < place)
      BY <1>1, <1>12, <3>1
    <3>3. k > place => s[l].priority > p
      BY <1>20, <3>2
    <3>4. s[l].id # o + 1
      BY <1>20
    <3>5. ~once => s[l].once \/ s[l].fn # fn
      BY <1>1
    <3>6. t[i] = x
      BY <1>12, <2>2
    <3> QED BY <1>3, <2>2, <3>1, <3>3, <3>4, <3>5, <3>6
  <2>3. CASE i # place /\ k = place
    <3>1. PICK l \in 1..Len(s) : l = g[i] /\ t[i] = s[l]
      BY <1>12, <2>3
    <3>2. i < place => l < place
      BY <1>1, <1>12, <3>1
    <3>3. i < place => s[l].priority <= p
      BY <3>2
    <3>4. s[l].id < o + 1 /\ s[l].priority \in Int /\ s[l].id # o + 1
      BY <1>20
    <3>5. ~once => s[l].once \/ s[l].fn # fn
      BY <1>1
    <3>6. t[k] = x
      BY <1>12, <2>3
    <3>7. i < place => \/ s[l].priority < x.priority
                       \/ s[l].priority = x.priority /\ s[l].id < x.id
      BY <1>3, <3>3, <3>4
    <3>8. s[l].id # x.id /\ (~s[l].once /\ ~x.once => s[l].fn # x.fn)
      BY <1>3, <3>4, <3>5
    <3> QED BY <2>3, <3>1, <3>6, <3>7, <3>8
  <2>4. CASE i # place /\ k # place
    <3>1. PICK l \in 1..Len(s) : l = g[i] /\ t[i] = s[l]
      BY <1>12, <2>4
    <3>2. PICK m \in 1..Len(s) : m = g[k] /\ t[k] = s[m]
      BY <1>12, <2>4
    <3>3. i \in Nat /\ k \in Nat /\ place \in Nat
      BY <1>1
    <3>4. (i < place => l = i) /\ (i > place => l = i - 1)
      BY <1>12, <3>1
    <3>5. (k < place => m = k) /\ (k > place => m = k - 1)
      BY <1>12, <3>2
    <3>6. (i < k => l < m) /\ (i # k => l # m)
      <4>1. CASE i < place /\ k < place
        BY <3>4, <3>5, <4>1
      <4>2. CASE i < place /\ k > place
        BY <3>3, <3>4, <3>5, <4>2
      <4>3. CASE i > place /\ k < place
        BY <3>3, <3>4, <3>5, <4>3
      <4>4. CASE i > place /\ k > place
        BY <3>3, <3>4, <3>5, <4>4
      <4> QED BY <2>4, <3>3, <4>1, <4>2, <4>3, <4>4
    <3>7. /\ l < m => \/ s[l].priority < s[m].priority
                      \/ s[l].priority = s[m].priority /\ s[l].id < s[m].id
          /\ l # m => s[l].id # s[m].id
          /\ ~s[l].once /\ ~s[m].once /\ s[l].fn = s[m].fn => l = m
      BY DEF InTurn
    <3> QED BY <3>1, <3>2, <3>6, <3>7
  <2> QED BY <2>1, <2>2, <2>3, <2>4
<1>14. InTurn(t, o + 1)
  BY <1>10, <1>13 DEF InTurn
<1> QED BY <1>12, <1>14

Flags == [stop : BOOLEAN, cancel : BOOLEAN]
Firing(o) == [heard : Seq(Hearers(o)), n : Nat, around : Flags, own : Flags]

\* Everybody who is in some list.
Hearing ==
    {listeners[k] : k \in 1..Len(listeners)} \cup
    UNION {{fires[n].heard[k] : k \in 1..Len(fires[n].heard)} : n \in 1..Len(fires)}

EventTyped ==
    /\ ons \in Nat /\ calls \in Seq(Nat) /\ Len(calls) = ons /\ nested \in BOOLEAN
    /\ fires \in Seq(Firing(ons)) /\ InTurn(listeners, ons)
    /\ \A n \in 1..Len(fires) :
          InTurn(fires[n].heard, ons) /\ fires[n].n <= Len(fires[n].heard)

\* Who has the same identifier is the same, in whatever list.
OneIdentity == \A x, y \in Hearing : x.id = y.id => x = y

\* The flags are those of the innermost event, and each event keeps those of
\* the event around it.
FlagsFit ==
    /\ flags = IF Len(fires) = 0 THEN Event!Clear ELSE fires[Len(fires)].own
    /\ \A n \in 1..Len(fires) :
          fires[n].around = IF n = 1 THEN Event!Clear ELSE fires[n - 1].own

\* Who is to be called once and is still to be called was not called yet.
CalledOnce ==
    ~nested =>
      /\ Len(fires) <= 1
      /\ \A k \in 1..Len(listeners) : listeners[k].once => calls[listeners[k].id] = 0
      /\ \A n \in 1..Len(fires) : \A k \in 1..Len(fires[n].heard) :
            fires[n].heard[k].once =>
              /\ calls[fires[n].heard[k].id] <= 1
              /\ k > fires[n].n => calls[fires[n].heard[k].id] = 0

EventInv == EventTyped /\ OneIdentity /\ FlagsFit /\ CalledOnce

\* At first nobody listens and nothing is fired.
LEMMA EventsBegin == Event!Init => EventInv
<1> SUFFICES ASSUME Event!Init PROVE EventInv
  OBVIOUS
<1>1. /\ listeners = <<>> /\ fires = <<>> /\ flags = Event!Clear
      /\ ons = 0 /\ calls = <<>> /\ nested = FALSE
  BY DEF Event!Init
<1>2. EventTyped
  <2>1. InTurn(listeners, ons)
    BY <1>1 DEF InTurn
  <2>2. Len(fires) = 0 /\ fires \in Seq(Firing(ons)) /\ calls \in Seq(Nat) /\ Len(calls) = 0
    BY <1>1
  <2>3. \A n \in 1..Len(fires) : FALSE
    BY <2>2
  <2>4. ons \in Nat /\ Len(calls) = ons /\ nested \in BOOLEAN
    BY <1>1, <2>2
  <2> QED BY <2>1, <2>2, <2>3, <2>4 DEF EventTyped
<1> QED BY <1>1, <1>2 DEF EventInv, OneIdentity, Hearing, FlagsFit, CalledOnce

\* Nothing happens.
LEMMA EventsStay ==
    ASSUME EventInv, UNCHANGED Event!vars PROVE EventInv'
<1>1. /\ listeners' = listeners /\ fires' = fires /\ flags' = flags /\ ons' = ons
      /\ calls' = calls /\ nested' = nested
  BY DEF Event!vars
<1> QED BY <1>1 DEF EventInv, EventTyped, OneIdentity, Hearing, FlagsFit, CalledOnce

\* What is true of the members of a list.
LEMMA OfHearers ==
    ASSUME EventTyped
    PROVE  /\ \A k \in 1..Len(listeners) :
                listeners[k] \in Hearers(ons) /\ listeners[k].id \in 1..ons
           /\ \A n \in 1..Len(fires) : \A k \in 1..Len(fires[n].heard) :
                fires[n].heard[k] \in Hearers(ons) /\ fires[n].heard[k].id \in 1..ons
<1>1. /\ listeners \in Seq(Hearers(ons))
      /\ \A n \in 1..Len(fires) : fires[n].heard \in Seq(Hearers(ons))
  BY DEF EventTyped, InTurn
<1>2. \A x \in Hearers(ons) : x.id \in 1..ons
  BY DEF Hearers
<1> QED BY <1>1, <1>2

\* No new one is in a list.
LEMMA NobodyNew ==
    ASSUME OneIdentity, Hearing' \subseteq Hearing PROVE OneIdentity'
BY DEF OneIdentity

\* An event is fired: it has a copy of the list.
LEMMA FireKeeps == ASSUME EventInv, Event!fire PROVE EventInv'
<1>1. PICK f : f = [heard |-> listeners, n |-> 0, around |-> flags, own |-> Event!Clear]
  OBVIOUS
<1>2. /\ fires' = Append(fires, f) /\ flags' = Event!Clear
      /\ nested' = (nested \/ fires # <<>>)
      /\ listeners' = listeners /\ ons' = ons /\ calls' = calls
  BY <1>1 DEF Event!fire
<1>3. EventTyped /\ OneIdentity /\ FlagsFit /\ CalledOnce
  BY DEF EventInv
<1>4. /\ fires \in Seq(Firing(ons)) /\ Len(fires) \in Nat /\ ons \in Nat
      /\ listeners \in Seq(Hearers(ons)) /\ nested \in BOOLEAN /\ InTurn(listeners, ons)
  BY <1>3 DEF EventTyped, InTurn
<1>5. f \in Firing(ons)
  <2>1. Event!Clear \in Flags
    BY DEF Event!Clear, Flags
  <2>2. flags \in Flags
    <3>1. Len(fires) # 0 => fires[Len(fires)] \in Firing(ons)
      BY <1>4
    <3>2. Len(fires) # 0 => fires[Len(fires)].own \in Flags
      BY <3>1 DEF Firing
    <3> QED BY <1>3, <2>1, <3>2 DEF FlagsFit
  <2> QED BY <1>1, <1>4, <2>1, <2>2 DEF Firing
<1>6. /\ f.heard = listeners /\ f.n = 0 /\ f.around = flags /\ f.own = Event!Clear
  BY <1>1
<1>7. /\ fires' \in Seq(Firing(ons)) /\ Len(fires') = Len(fires) + 1
      /\ \A n \in 1..Len(fires) : fires'[n] = fires[n]
      /\ fires'[Len(fires) + 1] = f
  BY <1>2, <1>4, <1>5
<1>8. \A n \in 1..Len(fires') : n \in 1..Len(fires) \/ (n = Len(fires) + 1 /\ fires'[n] = f)
  BY <1>4, <1>7
<1>9. EventTyped'
  <2>1. ASSUME NEW n \in 1..Len(fires')
        PROVE  InTurn(fires'[n].heard, ons) /\ fires'[n].n <= Len(fires'[n].heard)
    BY <1>3, <1>4, <1>6, <1>7, <1>8 DEF EventTyped
  <2>2. nested' \in BOOLEAN
    BY <1>2, <1>4
  <2> QED BY <1>2, <1>3, <1>7, <2>1, <2>2 DEF EventTyped
<1>10. OneIdentity'
  <2>1. ASSUME NEW x \in Hearing' PROVE x \in Hearing
    <3>1. CASE \E k \in 1..Len(listeners) : x = listeners[k]
      BY <3>1 DEF Hearing
    <3>2. CASE \E n \in 1..Len(fires) :
                 \E k \in 1..Len(fires[n].heard) : x = fires[n].heard[k]
      BY <3>2 DEF Hearing
    <3>3. \/ \E k \in 1..Len(listeners) : x = listeners[k]
          \/ \E n \in 1..Len(fires') :
               \E k \in 1..Len(fires'[n].heard) : x = fires'[n].heard[k]
      BY <1>2, <2>1 DEF Hearing
    <3> QED BY <1>6, <1>7, <1>8, <3>1, <3>2, <3>3
  <2> QED BY <1>3, <2>1, NobodyNew
<1>11. FlagsFit'
  <2>1. flags' = fires'[Len(fires')].own
    BY <1>2, <1>6, <1>7
  <2>2. ASSUME NEW n \in 1..Len(fires')
        PROVE  fires'[n].around = IF n = 1 THEN Event!Clear ELSE fires'[n - 1].own
    <3>1. CASE n \in 1..Len(fires)
      <4>1. n # 1 => n - 1 \in 1..Len(fires)
        BY <1>4, <3>1
      <4> QED BY <1>3, <1>7, <3>1, <4>1 DEF FlagsFit
    <3>2. CASE n = Len(fires) + 1 /\ Len(fires) = 0
      BY <1>3, <1>6, <1>7, <3>2 DEF FlagsFit
    <3>3. CASE n = Len(fires) + 1 /\ Len(fires) # 0
      <4>1. n # 1 /\ n - 1 = Len(fires) /\ n - 1 \in 1..Len(fires)
        BY <1>4, <3>3
      <4> QED BY <1>3, <1>6, <1>7, <3>3, <4>1 DEF FlagsFit
    <3> QED BY <1>8, <3>1, <3>2, <3>3
  <2> QED BY <1>4, <1>7, <2>1, <2>2 DEF FlagsFit
<1>12. CalledOnce'
  <2> SUFFICES ASSUME ~nested'
               PROVE  /\ Len(fires') <= 1
                      /\ \A k \in 1..Len(listeners') :
                            listeners'[k].once => calls'[listeners'[k].id] = 0
                      /\ \A n \in 1..Len(fires') : \A k \in 1..Len(fires'[n].heard) :
                            fires'[n].heard[k].once =>
                              /\ calls'[fires'[n].heard[k].id] <= 1
                              /\ k > fires'[n].n => calls'[fires'[n].heard[k].id] = 0
    BY DEF CalledOnce
  <2>1. ~nested /\ Len(fires) = 0
    BY <1>2, <1>4
  <2>2. \A n \in 1..Len(fires') : fires'[n] = f
    BY <1>7, <1>8, <2>1
  <2>3. \A k \in 1..Len(listeners) : listeners[k].once => calls[listeners[k].id] = 0
    BY <1>3, <2>1 DEF CalledOnce
  <2> QED BY <1>2, <1>6, <1>7, <2>1, <2>2, <2>3
<1> QED BY <1>9, <1>10, <1>11, <1>12 DEF EventInv

\* The list loses the listener at n, or nobody, and the events keep theirs:
\* the types and identities stay.
LEMMA FewerListen ==
    ASSUME EventTyped, OneIdentity, ons' = ons, Len(fires') \in Nat,
           fires' \in Seq(Firing(ons)),
           \A n \in 1..Len(fires') :
              /\ n \in 1..Len(fires) /\ fires'[n].heard = fires[n].heard
              /\ fires'[n].n <= Len(fires'[n].heard),
           \/ listeners' = listeners
           \/ \E n \in 1..Len(listeners) : listeners' = Event!RemoveAt(listeners, n),
           calls' \in Seq(Nat), Len(calls') = ons, nested' \in BOOLEAN
    PROVE  /\ EventTyped' /\ OneIdentity'
           /\ \A i \in 1..Len(listeners') :
                 \E k \in 1..Len(listeners) : listeners'[i] = listeners[k]
<1>1. InTurn(listeners, ons) /\ ons \in Nat
  BY DEF EventTyped
<1>2. /\ InTurn(listeners', ons)
      /\ \A i \in 1..Len(listeners') :
            \E k \in 1..Len(listeners) : listeners'[i] = listeners[k]
  <2>1. CASE listeners' = listeners
    BY <1>1, <2>1
  <2>2. CASE \E n \in 1..Len(listeners) : listeners' = Event!RemoveAt(listeners, n)
    BY <1>1, <2>2, ListenerGoes
  <2> QED BY <2>1, <2>2
<1>3. EventTyped'
  BY <1>1, <1>2 DEF EventTyped
<1>4. ASSUME NEW x \in Hearing' PROVE x \in Hearing
  <2>1. \/ \E k \in 1..Len(listeners') : x = listeners'[k]
        \/ \E n \in 1..Len(fires') :
              \E k \in 1..Len(fires'[n].heard) : x = fires'[n].heard[k]
    BY <1>4 DEF Hearing
  <2>2. CASE \E k \in 1..Len(listeners') : x = listeners'[k]
    BY <1>2, <2>2 DEF Hearing
  <2>3. CASE \E n \in 1..Len(fires') :
               \E k \in 1..Len(fires'[n].heard) : x = fires'[n].heard[k]
    <3>1. PICK n \in 1..Len(fires') :
                 \E k \in 1..Len(fires'[n].heard) : x = fires'[n].heard[k]
      BY <2>3
    <3>2. n \in 1..Len(fires) /\ \E k \in 1..Len(fires[n].heard) : x = fires[n].heard[k]
      BY <3>1
    <3> QED BY <3>2 DEF Hearing
  <2> QED BY <2>1, <2>2, <2>3
<1>5. OneIdentity'
  BY <1>4, NobodyNew
<1> QED BY <1>2, <1>3, <1>5

\* A function is removed from the list.
LEMMA RemoveKeeps ==
    ASSUME EventInv, NEW fn, Event!removeListener(fn) PROVE EventInv'
<1>1. /\ \E n \in 1..Len(listeners) : listeners' = Event!RemoveAt(listeners, n)
      /\ fires' = fires /\ flags' = flags /\ ons' = ons /\ calls' = calls
      /\ nested' = nested
  <2>1. DOMAIN listeners = 1..Len(listeners)
    BY DEF EventInv, EventTyped, InTurn
  <2> QED BY <2>1 DEF Event!removeListener
<1>2. EventTyped /\ OneIdentity /\ FlagsFit /\ CalledOnce
  BY DEF EventInv
<1>3. /\ fires' \in Seq(Firing(ons)) /\ Len(fires') \in Nat /\ nested' \in BOOLEAN
      /\ calls' \in Seq(Nat) /\ Len(calls') = ons
      /\ \A n \in 1..Len(fires') :
            /\ n \in 1..Len(fires) /\ fires'[n].heard = fires[n].heard
            /\ fires'[n].n <= Len(fires'[n].heard)
  BY <1>1, <1>2 DEF EventTyped
<1>4. /\ EventTyped' /\ OneIdentity'
      /\ \A i \in 1..Len(listeners') :
            \E k \in 1..Len(listeners) : listeners'[i] = listeners[k]
  BY <1>1, <1>2, <1>3, FewerListen
<1>5. FlagsFit'
  BY <1>1, <1>2 DEF FlagsFit
<1>6. CalledOnce'
  BY <1>1, <1>2, <1>4 DEF CalledOnce
<1> QED BY <1>4, <1>5, <1>6 DEF EventInv

\* A listener stops or cancels the innermost event.
LEMMA FlagKeeps ==
    ASSUME EventInv, NEW flag \in {"stop", "cancel"}, Event!Flag(flag) PROVE EventInv'
<1>1. EventTyped /\ OneIdentity /\ FlagsFit /\ CalledOnce
  BY DEF EventInv
<1>2. PICK m : m = Len(fires)
  OBVIOUS
<1>3. /\ fires # <<>> /\ flags' = [flags EXCEPT ![flag] = TRUE]
      /\ fires' = [fires EXCEPT ![m].own[flag] = TRUE]
      /\ listeners' = listeners /\ ons' = ons /\ calls' = calls /\ nested' = nested
  BY <1>2 DEF Event!Flag, Event!InListener
<1>4. /\ fires \in Seq(Firing(ons)) /\ m \in 1..Len(fires) /\ Len(fires) \in Nat
      /\ fires[m] \in Firing(ons)
  BY <1>1, <1>2, <1>3 DEF EventTyped
<1>5. PICK f : f = [fires[m] EXCEPT !.own[flag] = TRUE]
  OBVIOUS
<1>6. /\ f \in Firing(ons) /\ f.heard = fires[m].heard /\ f.n = fires[m].n
      /\ f.around = fires[m].around /\ f.own = [fires[m].own EXCEPT ![flag] = TRUE]
  BY <1>4, <1>5 DEF Firing, Flags
<1>7. fires' = [fires EXCEPT ![m] = f]
  BY <1>3, <1>4, <1>5
<1>8. /\ fires' \in Seq(Firing(ons)) /\ Len(fires') = Len(fires) /\ fires'[m] = f
      /\ \A n \in 1..Len(fires) : n # m => fires'[n] = fires[n]
  BY <1>4, <1>6, <1>7
<1>9. \A n \in 1..Len(fires') :
         /\ n \in 1..Len(fires) /\ fires'[n].heard = fires[n].heard
         /\ fires'[n].n = fires[n].n /\ fires'[n].around = fires[n].around
         /\ n # m => fires'[n].own = fires[n].own
  BY <1>6, <1>8
<1>10. EventTyped' /\ OneIdentity'
  <2>1. \A n \in 1..Len(fires') : fires'[n].n <= Len(fires'[n].heard)
    BY <1>1, <1>9 DEF EventTyped
  <2>2. nested' \in BOOLEAN /\ calls' \in Seq(Nat) /\ Len(calls') = ons
    BY <1>1, <1>3 DEF EventTyped
  <2> QED BY <1>1, <1>3, <1>4, <1>8, <1>9, <2>1, <2>2, FewerListen
<1>11. FlagsFit'
  <2>1. flags = fires[m].own
    BY <1>1, <1>2, <1>4 DEF FlagsFit
  <2>2. flags' = fires'[Len(fires')].own
    BY <1>2, <1>3, <1>6, <1>8, <2>1
  <2>3. ASSUME NEW n \in 1..Len(fires')
        PROVE  fires'[n].around = IF n = 1 THEN Event!Clear ELSE fires'[n - 1].own
    <3>1. fires[n].around = IF n = 1 THEN Event!Clear ELSE fires[n - 1].own
      BY <1>1, <1>9 DEF FlagsFit
    <3>2. n # 1 => n - 1 \in 1..Len(fires') /\ n - 1 # m
      BY <1>2, <1>4, <1>8
    <3> QED BY <1>9, <3>1, <3>2
  <2> QED BY <1>4, <1>8, <2>2, <2>3 DEF FlagsFit
<1>12. CalledOnce'
  BY <1>1, <1>3, <1>8, <1>9 DEF CalledOnce
<1> QED BY <1>10, <1>11, <1>12 DEF EventInv

\* The innermost event ends.
LEMMA EndKeeps == ASSUME EventInv, Event!End PROVE EventInv'
<1>1. EventTyped /\ OneIdentity /\ FlagsFit /\ CalledOnce
  BY DEF EventInv
<1>2. PICK m : m = Len(fires)
  OBVIOUS
<1>3. /\ fires # <<>> /\ flags' = fires[m].around
      /\ fires' = SubSeq(fires, 1, m - 1)
      /\ listeners' = listeners /\ ons' = ons /\ calls' = calls /\ nested' = nested
  BY <1>2 DEF Event!End, Event!Innermost, Event!Front
<1>4. fires \in Seq(Firing(ons)) /\ m \in 1..Len(fires) /\ Len(fires) \in Nat
  BY <1>1, <1>2, <1>3 DEF EventTyped
<1>5. /\ fires' \in Seq(Firing(ons)) /\ Len(fires') = m - 1
      /\ \A n \in 1..Len(fires') : n \in 1..Len(fires) /\ fires'[n] = fires[n]
  BY <1>2, <1>3, <1>4
<1>6. EventTyped' /\ OneIdentity'
  <2>1. \A n \in 1..Len(fires') :
           /\ n \in 1..Len(fires) /\ fires'[n].heard = fires[n].heard
           /\ fires'[n].n <= Len(fires'[n].heard)
    BY <1>1, <1>5 DEF EventTyped
  <2>2. nested' \in BOOLEAN /\ calls' \in Seq(Nat) /\ Len(calls') = ons
    BY <1>1, <1>3 DEF EventTyped
  <2>3. Len(fires') \in Nat
    BY <1>4, <1>5
  <2> QED BY <1>1, <1>3, <1>5, <2>1, <2>2, <2>3, FewerListen
<1>7. FlagsFit'
  <2>1. flags' = IF m = 1 THEN Event!Clear ELSE fires[m - 1].own
    BY <1>1, <1>3, <1>4 DEF FlagsFit
  <2>2. flags' = IF Len(fires') = 0 THEN Event!Clear ELSE fires'[Len(fires')].own
    BY <1>4, <1>5, <2>1
  <2>3. ASSUME NEW n \in 1..Len(fires')
        PROVE  fires'[n].around = IF n = 1 THEN Event!Clear ELSE fires'[n - 1].own
    <3>1. fires[n].around = IF n = 1 THEN Event!Clear ELSE fires[n - 1].own
      BY <1>1, <1>5 DEF FlagsFit
    <3>2. n # 1 => n - 1 \in 1..Len(fires')
      BY <1>4, <1>5
    <3> QED BY <1>5, <3>1, <3>2
  <2> QED BY <2>2, <2>3 DEF FlagsFit
<1>8. CalledOnce'
  <2>1. Len(fires) <= 1 => Len(fires') <= 1
    BY <1>2, <1>4, <1>5
  <2> SUFFICES ASSUME ~nested
               PROVE  /\ Len(fires') <= 1
                      /\ \A k \in 1..Len(listeners) :
                            listeners[k].once => calls[listeners[k].id] = 0
                      /\ \A n \in 1..Len(fires') : \A k \in 1..Len(fires'[n].heard) :
                            fires'[n].heard[k].once =>
                              /\ calls[fires'[n].heard[k].id] <= 1
                              /\ k > fires'[n].n => calls[fires'[n].heard[k].id] = 0
    BY <1>3 DEF CalledOnce
  <2>2. \A n \in 1..Len(fires) : \A k \in 1..Len(fires[n].heard) :
           fires[n].heard[k].once =>
             /\ calls[fires[n].heard[k].id] <= 1
             /\ k > fires[n].n => calls[fires[n].heard[k].id] = 0
    BY <1>1 DEF CalledOnce
  <2>3. Len(fires') <= 1
    BY <1>1, <2>1 DEF CalledOnce
  <2>4. \A k \in 1..Len(listeners) : listeners[k].once => calls[listeners[k].id] = 0
    BY <1>1 DEF CalledOnce
  <2> QED BY <1>5, <2>2, <2>3, <2>4
<1> QED BY <1>6, <1>7, <1>8 DEF EventInv

\* A listener is added.
LEMMA OnKeeps ==
    ASSUME EventInv, NEW fn \in Listening, NEW p \in ListenerPriorities,
           NEW once \in BOOLEAN, Event!on(fn, p, once)
    PROVE  EventInv'
<1>1. EventTyped /\ OneIdentity /\ FlagsFit /\ CalledOnce /\ p \in Int
  BY EventAssumption DEF EventInv
<1>2. /\ InTurn(listeners, ons) /\ ons \in Nat /\ listeners \in Seq(Hearers(ons))
      /\ Len(listeners) \in Nat /\ fires \in Seq(Firing(ons)) /\ Len(fires) \in Nat
      /\ calls \in Seq(Nat) /\ Len(calls) = ons
  BY <1>1 DEF EventTyped, InTurn
<1>3. PICK before : before = {n \in DOMAIN listeners : listeners[n].priority <= p}
  OBVIOUS
<1>4. PICK place : place = IF before = {} THEN 1 ELSE Event!Max(before) + 1
  OBVIOUS
<1>5. PICK x : x = [id |-> ons + 1, fn |-> fn, priority |-> p, once |-> once]
  OBVIOUS
<1>6. /\ once \/ \A n \in DOMAIN listeners : listeners[n].once \/ listeners[n].fn # fn
      /\ listeners' = Event!InsertAt(listeners, place, x)
      /\ ons' = ons + 1 /\ calls' = Append(calls, 0)
      /\ fires' = fires /\ flags' = flags /\ nested' = nested
  BY <1>3, <1>4, <1>5 DEF Event!on, Event!Listener
<1>7. /\ place \in 1..(Len(listeners) + 1)
      /\ \A i \in 1..Len(listeners) : i < place <=> listeners[i].priority <= p
  <2>1. ons \in Nat /\ InTurn(listeners, ons) /\ p \in Int
    BY <1>1, <1>2
  <2> HIDE DEF listeners, ons
  <2> QED BY <1>3, <1>4, <2>1, PlaceOfPriority, ZenonT(30)
<1>8. /\ InTurn(listeners', ons + 1)
      /\ \A i \in 1..Len(listeners') :
            \/ listeners'[i] = x
            \/ \E k \in 1..Len(listeners) : listeners'[i] = listeners[k]
  <2>1. /\ ons \in Nat /\ InTurn(listeners, ons) /\ p \in Int
        /\ once \/ \A n \in DOMAIN listeners : listeners[n].once \/ listeners[n].fn # fn
        /\ listeners' = Event!InsertAt(listeners, place, x)
    BY <1>1, <1>2, <1>6
  <2>2. PICK s, t, o : s = listeners /\ t = listeners' /\ o = ons
    OBVIOUS
  <2>3. /\ o \in Nat /\ InTurn(s, o) /\ p \in Int
        /\ once \/ \A n \in DOMAIN s : s[n].once \/ s[n].fn # fn
        /\ t = Event!InsertAt(s, place, x)
        /\ x = [id |-> o + 1, fn |-> fn, priority |-> p, once |-> once]
        /\ place \in 1..(Len(s) + 1)
        /\ \A i \in 1..Len(s) : i < place <=> s[i].priority <= p
    BY <1>5, <1>7, <2>1, <2>2
  <2>4. /\ InTurn(t, o + 1)
        /\ \A i \in 1..Len(t) : t[i] = x \/ \E k \in 1..Len(s) : t[i] = s[k]
    BY <2>3, ListenerComes
  <2> QED BY <2>2, <2>4
<1>9. /\ calls' \in Seq(Nat) /\ Len(calls') = ons + 1 /\ calls'[ons + 1] = 0
      /\ \A i \in 1..ons : calls'[i] = calls[i]
  BY <1>2, <1>6
<1>10. EventTyped'
  <2>1. Firing(ons) \subseteq Firing(ons + 1)
    <3>1. 1..ons \subseteq 1..(ons + 1)
      BY <1>2
    <3>2. Hearers(ons) \subseteq Hearers(ons + 1)
      BY <3>1 DEF Hearers
    <3>3. Seq(Hearers(ons)) \subseteq Seq(Hearers(ons + 1))
      BY <3>2
    <3> QED BY <3>3 DEF Firing
  <2>2. fires \in Seq(Firing(ons + 1))
    BY <1>2, <2>1
  <2>3. ASSUME NEW n \in 1..Len(fires)
        PROVE  InTurn(fires[n].heard, ons + 1) /\ fires[n].n <= Len(fires[n].heard)
    BY <1>1, <1>2, StaysInTurn DEF EventTyped
  <2>4. nested \in BOOLEAN /\ ons + 1 \in Nat
    BY <1>1, <1>2 DEF EventTyped
  <2> QED BY <1>6, <1>8, <1>9, <2>2, <2>3, <2>4 DEF EventTyped
<1>11. x.id = ons + 1
  BY <1>5
<1>12. OneIdentity'
  <2>1. ASSUME NEW y \in Hearing' PROVE y = x \/ y \in Hearing
    <3>1. CASE \E k \in 1..Len(listeners') : y = listeners'[k]
      BY <1>8, <3>1 DEF Hearing
    <3>2. CASE \E n \in 1..Len(fires) :
                 \E k \in 1..Len(fires[n].heard) : y = fires[n].heard[k]
      BY <3>2 DEF Hearing
    <3> QED BY <1>6, <2>1, <3>1, <3>2 DEF Hearing
  <2>2. ASSUME NEW y \in Hearing PROVE y.id # ons + 1
    <3>1. y.id \in 1..ons
      BY <1>1, <2>2, OfHearers DEF Hearing
    <3> QED BY <1>2, <3>1
  <2>3. ASSUME NEW y \in Hearing', NEW z \in Hearing', y.id = z.id PROVE y = z
    <3>1. CASE y \in Hearing /\ z \in Hearing
      BY <1>1, <2>3, <3>1 DEF OneIdentity
    <3>2. CASE y = x \/ z = x
      BY <1>11, <2>1, <2>2, <2>3, <3>2
    <3> QED BY <2>1, <3>1, <3>2
  <2> QED BY <2>3 DEF OneIdentity
<1>13. FlagsFit'
  BY <1>1, <1>6 DEF FlagsFit
<1>14. CalledOnce'
  <2> SUFFICES ASSUME ~nested
               PROVE  /\ Len(fires) <= 1
                      /\ \A k \in 1..Len(listeners') :
                            listeners'[k].once => calls'[listeners'[k].id] = 0
                      /\ \A n \in 1..Len(fires) : \A k \in 1..Len(fires[n].heard) :
                            fires[n].heard[k].once =>
                              /\ calls'[fires[n].heard[k].id] <= 1
                              /\ k > fires[n].n => calls'[fires[n].heard[k].id] = 0
    BY <1>6 DEF CalledOnce
  <2>1. /\ Len(fires) <= 1
        /\ \A k \in 1..Len(listeners) : listeners[k].once => calls[listeners[k].id] = 0
        /\ \A n \in 1..Len(fires) : \A k \in 1..Len(fires[n].heard) :
              fires[n].heard[k].once =>
                /\ calls[fires[n].heard[k].id] <= 1
                /\ k > fires[n].n => calls[fires[n].heard[k].id] = 0
    BY <1>1 DEF CalledOnce
  <2>2. \A k \in 1..Len(listeners) : calls'[listeners[k].id] = calls[listeners[k].id]
    BY <1>1, <1>9, OfHearers
  <2>3. \A n \in 1..Len(fires) : \A k \in 1..Len(fires[n].heard) :
           calls'[fires[n].heard[k].id] = calls[fires[n].heard[k].id]
    BY <1>1, <1>9, OfHearers
  <2>4. \A k \in 1..Len(listeners') : listeners'[k].once => calls'[listeners'[k].id] = 0
    BY <1>8, <1>9, <1>11, <2>1, <2>2
  <2> QED BY <2>1, <2>3, <2>4
<1> QED BY <1>10, <1>12, <1>13, <1>14 DEF EventInv

\* The next listener is called; one for once takes itself off the list.
LEMMA CallKeeps == ASSUME EventInv, Event!Call PROVE EventInv'
<1>1. EventTyped /\ OneIdentity /\ FlagsFit /\ CalledOnce
  BY DEF EventInv
<1>2. PICK m : m = Len(fires)
  OBVIOUS
<1>3. PICK l : l = fires[m].heard[fires[m].n + 1]
  OBVIOUS
<1>4. PICK at : at = {n \in DOMAIN listeners : l.once /\ listeners[n].id = l.id}
  OBVIOUS
<1>5. /\ fires # <<>> /\ fires[m].n # Len(fires[m].heard)
      /\ \/ \E n \in at : listeners' = Event!RemoveAt(listeners, n)
         \/ at = {} /\ listeners' = listeners
      /\ calls' = [calls EXCEPT ![l.id] = @ + 1]
      /\ fires' = [fires EXCEPT ![m].n = @ + 1]
      /\ flags' = flags /\ ons' = ons /\ nested' = nested
  BY <1>2, <1>3, <1>4 DEF Event!Call, Event!Over, Event!Innermost
<1>6. /\ fires \in Seq(Firing(ons)) /\ Len(fires) \in Nat /\ m \in 1..Len(fires)
      /\ fires[m] \in Firing(ons) /\ InTurn(fires[m].heard, ons)
      /\ fires[m].n <= Len(fires[m].heard)
      /\ listeners \in Seq(Hearers(ons)) /\ DOMAIN listeners = 1..Len(listeners)
      /\ ons \in Nat /\ calls \in Seq(Nat) /\ Len(calls) = ons /\ nested \in BOOLEAN
  <2>1. /\ fires \in Seq(Firing(ons)) /\ listeners \in Seq(Hearers(ons))
        /\ ons \in Nat /\ calls \in Seq(Nat) /\ Len(calls) = ons /\ nested \in BOOLEAN
    BY <1>1 DEF EventTyped, InTurn
  <2>2. Len(fires) \in Nat /\ m \in 1..Len(fires) /\ fires[m] \in Firing(ons)
    BY <1>2, <1>5, <2>1
  <2>3. InTurn(fires[m].heard, ons) /\ fires[m].n <= Len(fires[m].heard)
    BY <1>1, <2>2 DEF EventTyped
  <2> QED BY <2>1, <2>2, <2>3
<1>7. /\ fires[m].n \in Nat /\ fires[m].heard \in Seq(Hearers(ons))
      /\ fires[m].n + 1 \in 1..Len(fires[m].heard)
  <2>1. fires[m].n \in Nat /\ fires[m].heard \in Seq(Hearers(ons))
    BY <1>6 DEF Firing
  <2> QED BY <1>5, <1>6, <2>1
<1>8. l \in Hearers(ons) /\ l.id \in 1..ons
  BY <1>1, <1>3, <1>6, <1>7, OfHearers
<1>9. /\ calls' \in Seq(Nat) /\ Len(calls') = ons /\ calls'[l.id] = calls[l.id] + 1
      /\ \A i \in 1..ons : i # l.id => calls'[i] = calls[i]
  BY <1>5, <1>6, <1>8
<1>10. PICK f : f = [fires[m] EXCEPT !.n = @ + 1]
  OBVIOUS
<1>11. /\ f \in Firing(ons) /\ f.heard = fires[m].heard /\ f.n = fires[m].n + 1
       /\ f.around = fires[m].around /\ f.own = fires[m].own
  <2>1. fires[m].n + 1 \in Nat
    BY <1>7
  <2> QED BY <1>6, <1>10, <2>1 DEF Firing
<1>12. /\ fires' \in Seq(Firing(ons)) /\ Len(fires') = Len(fires) /\ fires'[m] = f
       /\ \A n \in 1..Len(fires) : n # m => fires'[n] = fires[n]
  BY <1>5, <1>6, <1>10, <1>11
<1>13. \A n \in 1..Len(fires') :
          /\ n \in 1..Len(fires) /\ fires'[n].heard = fires[n].heard
          /\ fires'[n].own = fires[n].own /\ fires'[n].around = fires[n].around
          /\ fires'[n].n = IF n = m THEN fires[n].n + 1 ELSE fires[n].n
  BY <1>11, <1>12
<1>14. /\ EventTyped' /\ OneIdentity'
       /\ \A i \in 1..Len(listeners') :
             \E k \in 1..Len(listeners) : listeners'[i] = listeners[k]
  <2>1. \A n \in 1..Len(fires') : fires'[n].n <= Len(fires'[n].heard)
    BY <1>1, <1>7, <1>13 DEF EventTyped
  <2>2. \/ listeners' = listeners
        \/ \E n \in 1..Len(listeners) : listeners' = Event!RemoveAt(listeners, n)
    BY <1>4, <1>5, <1>6
  <2> QED BY <1>1, <1>5, <1>6, <1>9, <1>12, <1>13, <2>1, <2>2, FewerListen
<1>15. FlagsFit'
  <2>1. ASSUME NEW n \in 1..Len(fires')
        PROVE  fires'[n].around = IF n = 1 THEN Event!Clear ELSE fires'[n - 1].own
    <3>1. fires[n].around = IF n = 1 THEN Event!Clear ELSE fires[n - 1].own
      BY <1>1, <1>12 DEF FlagsFit
    <3>2. n # 1 => n - 1 \in 1..Len(fires')
      BY <1>6, <1>12
    <3> QED BY <1>13, <3>1, <3>2
  <2>2. flags' = IF Len(fires') = 0 THEN Event!Clear ELSE fires'[Len(fires')].own
    BY <1>1, <1>2, <1>5, <1>6, <1>12, <1>13 DEF FlagsFit
  <2> QED BY <2>1, <2>2 DEF FlagsFit
<1>16. CalledOnce'
  <2> SUFFICES ASSUME ~nested
               PROVE  /\ Len(fires') <= 1
                      /\ \A k \in 1..Len(listeners') :
                            listeners'[k].once => calls'[listeners'[k].id] = 0
                      /\ \A n \in 1..Len(fires') : \A k \in 1..Len(fires'[n].heard) :
                            fires'[n].heard[k].once =>
                              /\ calls'[fires'[n].heard[k].id] <= 1
                              /\ k > fires'[n].n => calls'[fires'[n].heard[k].id] = 0
    BY <1>5 DEF CalledOnce
  <2>1. /\ Len(fires) <= 1
        /\ \A k \in 1..Len(listeners) : listeners[k].once => calls[listeners[k].id] = 0
        /\ \A n \in 1..Len(fires) : \A k \in 1..Len(fires[n].heard) :
              fires[n].heard[k].once =>
                /\ calls[fires[n].heard[k].id] <= 1
                /\ k > fires[n].n => calls[fires[n].heard[k].id] = 0
    BY <1>1 DEF CalledOnce
  <2>2. \A n \in 1..Len(fires) : n = m
    BY <1>2, <1>6, <2>1
  <2>3. ASSUME NEW k \in 1..Len(listeners'), listeners'[k].once
        PROVE  calls'[listeners'[k].id] = 0
    <3>1. PICK j \in 1..Len(listeners) : listeners'[k] = listeners[j] /\ j \notin at
      <4>1. CASE listeners' = listeners /\ at = {}
        BY <2>3, <4>1
      <4>2. CASE \E n \in at : listeners' = Event!RemoveAt(listeners, n)
        <5>1. PICK n \in at : listeners' = Event!RemoveAt(listeners, n)
          BY <4>2
        <5>2. n \in 1..Len(listeners) /\ listeners[n].id = l.id
          BY <1>4, <1>6, <5>1
        <5>3. InTurn(listeners, ons)
          BY <1>1 DEF EventTyped
        <5>4. PICK j \in 1..Len(listeners) : j # n /\ listeners'[k] = listeners[j]
          BY <1>6, <2>3, <5>1, <5>2, <5>3, ListenerGoes
        <5>5. listeners[j].id # l.id
          BY <5>2, <5>3, <5>4 DEF InTurn
        <5>6. j \notin at
          BY <1>4, <5>5
        <5> QED BY <5>4, <5>6
      <4> QED BY <1>5, <4>1, <4>2
    <3>2. listeners[j].id # l.id
      <4>1. CASE l.once
        BY <1>4, <1>6, <3>1, <4>1
      <4>2. CASE ~l.once
        <5>1. l \in Hearing
          BY <1>3, <1>6, <1>7 DEF Hearing
        <5>2. listeners[j] \in Hearing
          BY DEF Hearing
        <5>3. listeners[j] # l
          BY <2>3, <3>1, <4>2
        <5> QED BY <1>1, <5>1, <5>2, <5>3 DEF OneIdentity
      <4> QED BY <4>1, <4>2
    <3>3. listeners[j].id \in 1..ons
      BY <1>1, OfHearers
    <3> QED BY <1>9, <2>1, <2>3, <3>1, <3>2, <3>3
  <2>4. ASSUME NEW n \in 1..Len(fires'), NEW k \in 1..Len(fires'[n].heard),
               fires'[n].heard[k].once
        PROVE  /\ calls'[fires'[n].heard[k].id] <= 1
               /\ k > fires'[n].n => calls'[fires'[n].heard[k].id] = 0
    <3>1. PICK h : h = fires[m].heard
      OBVIOUS
    <3>2. /\ n = m /\ fires'[n].heard = h /\ k \in 1..Len(h) /\ h[k].once
          /\ fires'[n].n = fires[m].n + 1
      BY <1>13, <2>2, <2>4, <3>1
    <3>3. /\ calls[h[k].id] <= 1 /\ (k > fires[m].n => calls[h[k].id] = 0)
          /\ h[k].id \in 1..ons
      BY <1>1, <1>6, <2>1, <3>1, <3>2, OfHearers
    <3>4. CASE k = fires[m].n + 1
      <4>1. h[k] = l /\ k > fires[m].n /\ ~(k > fires'[n].n)
        BY <1>3, <1>7, <3>1, <3>2, <3>4
      <4>2. calls'[h[k].id] = 1
        BY <1>9, <3>3, <4>1
      <4> QED BY <3>2, <4>1, <4>2
    <3>5. CASE k # fires[m].n + 1
      <4>1. h[k].id # l.id
        BY <1>3, <1>6, <1>7, <3>1, <3>2, <3>5 DEF InTurn
      <4>2. calls'[h[k].id] = calls[h[k].id]
        BY <1>9, <3>3, <4>1
      <4>3. k > fires'[n].n => k > fires[m].n
        BY <1>7, <3>2
      <4> QED BY <3>2, <3>3, <4>2, <4>3
    <3> QED BY <3>4, <3>5
  <2> QED BY <1>12, <2>1, <2>3, <2>4
<1> QED BY <1>14, <1>15, <1>16 DEF EventInv

\* Every step of the events keeps it.
LEMMA EventsKeep == ASSUME EventInv, Event!Next PROVE EventInv'
  BY FireKeeps, CallKeeps, EndKeeps, FlagKeeps, RemoveKeeps, OnKeeps DEF Event!Next

\* It is what the properties say.
LEMMA EventInvTrue ==
    ASSUME EventInv PROVE Event!FlagsAreOwn /\ Event!OnceIsOnce /\ Event!InOrder
<1>1. EventTyped /\ FlagsFit /\ CalledOnce
  BY DEF EventInv
<1>2. /\ fires \in Seq(Firing(ons)) /\ DOMAIN fires = 1..Len(fires)
      /\ DOMAIN listeners = 1..Len(listeners)
      /\ \A n \in 1..Len(fires) : DOMAIN fires[n].heard = 1..Len(fires[n].heard)
  BY <1>1 DEF EventTyped, InTurn
<1>3. Event!FlagsAreOwn
  <2>1. fires = <<>> <=> Len(fires) = 0
    BY <1>2
  <2> QED BY <1>1, <2>1 DEF FlagsFit, Event!FlagsAreOwn, Event!Innermost
<1>4. Event!OnceIsOnce
  BY <1>1, <1>2 DEF CalledOnce, Event!OnceIsOnce
<1>5. Event!InOrder
  <2>1. ASSUME NEW s, InTurn(s, ons), DOMAIN s = 1..Len(s),
               NEW i \in DOMAIN s, NEW k \in DOMAIN s
        PROVE  /\ i < k => \/ s[i].priority < s[k].priority
                           \/ s[i].priority = s[k].priority /\ s[i].id < s[k].id
               /\ ~s[i].once /\ ~s[k].once /\ s[i].fn = s[k].fn => i = k
    BY <2>1 DEF InTurn
  <2>2. ASSUME NEW s \in {listeners} \cup {fires[n].heard : n \in DOMAIN fires}
        PROVE  InTurn(s, ons) /\ DOMAIN s = 1..Len(s)
    BY <1>1, <1>2 DEF EventTyped
  <2> QED BY <2>1, <2>2 DEF Event!InOrder
<1> QED BY <1>3, <1>4, <1>5

-----------------------------------------------------------------------------
(* The pages together: the open page stays the one that is open.            *)

PageInv ==
    /\ open = "contest" => ContestInv
    /\ open = "tests" => TestInv
    /\ open = "table" => TableInv
    /\ open = "solution" => SolutionInv
    /\ open = "description" => EditorInv
    /\ open = "event" => EventInv

\* A step is one of the open page.
OwnStep ==
    /\ open' = open
    /\ open = "contest" => Contest!Next
    /\ open = "tests" => Tests!Next
    /\ open = "table" => Table!Next
    /\ open = "solution" => Solution!Next
    /\ open = "description" => Description!Next
    /\ open = "event" => Event!Next

\* It keeps the invariant of its page,
LEMMA OpenPageKeeps == ASSUME PageInv, OwnStep PROVE PageInv'
  BY ContestKeeps, TestKeeps, TableKeeps, SolutionKeeps, EditorKeeps, EventsKeep
  DEF PageInv, OwnStep

\* as does a step in which nothing happens.
LEMMA OpenPageStays == ASSUME PageInv, UNCHANGED window PROVE PageInv'
<1>1. open' = open
  BY DEF window
<1>2. CASE open = "contest"
  <2>1. UNCHANGED <<openContest, cp, roles, applied, settings, form, problemsDataSet,
                    usersDataSet, applicationsDataSet, joins, dealtWith, forms, seen,
                    declined, muddled>>
    BY DEF window, openContest, cp, roles, applied, settings, form, problemsDataSet,
       usersDataSet, applicationsDataSet, joins, dealtWith, forms, seen, declined,
       muddled
  <2>2. ContestInv
    BY <1>2 DEF PageInv
  <2>3. problemsDataSet' \in Seq(Contest!GridRow) /\ muddled' \in BOOLEAN
    BY <2>1, <2>2, ContestTypes DEF ContestInv
  <2>4. ContestInv'
    BY <2>1, <2>2, <2>3, GridKeeps
  <2> QED BY <1>1, <1>2, <2>4 DEF PageInv
<1>3. CASE open = "tests"
  <2>1. TestInv'
    BY <1>3, TestStays DEF PageInv
  <2> QED BY <1>1, <1>3, <2>1 DEF PageInv
<1>4. CASE open = "table"
  <2>1. UNCHANGED <<grid, start, search, sorting, iDraw, fetches, rows, pager, line,
                    records, frozen, changes, lost, overtaken>>
    BY DEF window
  <2>2. TableInv /\ TableTyped
    BY <1>4 DEF PageInv, TableInv
  <2>3. records' \in Nat /\ frozen' \in BOOLEAN /\ changes' \in Nat
    BY <2>1, <2>2 DEF TableTyped
  <2>4. TableInv'
    BY <2>1, <2>2, <2>3, TableStays
  <2> QED BY <1>1, <1>4, <2>4 DEF PageInv
<1>5. CASE open = "solution"
  <2>1. UNCHANGED <<solution, solutionsForm, viewer, request, judgings, mixed>>
    BY DEF window
  <2>2. SolutionInv'
    BY <1>5, <2>1, SolutionStays DEF PageInv
  <2> QED BY <1>1, <1>5, <2>2 DEF PageInv
<1>6. CASE open = "description"
  <2>1. UNCHANGED Description!vars
    BY DEF window, Description!vars
  <2>2. EditorInv'
    BY <1>6, <2>1, EditorStays DEF PageInv
  <2> QED BY <1>1, <1>6, <2>2 DEF PageInv
<1>7. CASE open = "event"
  <2>1. UNCHANGED Event!vars
    BY DEF window, Event!vars
  <2>2. EventInv'
    BY <1>7, <2>1, EventsStay DEF PageInv
  <2> QED BY <1>1, <1>7, <2>2 DEF PageInv
<1> QED BY <1>1, <1>2, <1>3, <1>4, <1>5, <1>6, <1>7 DEF PageInv

\* The invariant is what the properties of the states say,
LEMMA PageInvTrue ==
    ASSUME PageInv
    PROVE  ContestTrue /\ TestsTrue /\ ShownTrue /\ SubmittedIsSeen /\ EventsTrue
<1>1. ContestTrue
  BY ContestInvTrue DEF PageInv, ContestTrue
<1>2. TestsTrue
  BY TestInvTrue DEF PageInv, TestsTrue
<1>3. ShownTrue
  <2>1. open = "table" => /\ Table!ShownIsAsked /\ Table!PagerReaches /\ Table!ArrowsTrue
                          /\ Table!InformationTrue /\ Table!LineOfRows
    BY TableInvTrue DEF PageInv
  <2>2. open = "solution" => Solution!RestsOnVerdict
    BY SolutionInvTrue DEF PageInv
  <2> QED BY <2>1, <2>2 DEF ShownTrue
<1>4. SubmittedIsSeen
  BY EditorInvTrue DEF PageInv, SubmittedIsSeen
<1>5. EventsTrue
  BY EventInvTrue DEF PageInv, EventsTrue
<1> QED BY <1>1, <1>2, <1>3, <1>4, <1>5

\* and with it each step is as those of the steps say.
LEMMA PageStepsTrue ==
    ASSUME PageInv, OwnStep \/ UNCHANGED window
    PROVE  /\ [open = "contest" => Contest!OnlyStaleSavesTakeBack]_window
           /\ [open = "tests" => Tests!AskedForIsRemoved]_window
           /\ [open = "description" => Description!UndoLosesNothing]_window
  BY ContestTakesBack, DeletesAsked, EditorLosesNothing DEF PageInv, OwnStep

-----------------------------------------------------------------------------
(* The run: its pages are those of which the lemmas above speak.            *)

Run == INSTANCE MCWebPages

\* The form that is among the pages is the form of which the lemmas above
\* speak: it starts in the same states,
LEMMA SameInit == Run!Contest!Init <=> Contest!Init
  BY DEF Run!Contest!Init, Contest!Init, Run!Contest!Contains, Contest!Contains,
     Run!Contest!NaNRow, Contest!NaNRow

\* takes the same steps,
LEMMA SameNext == Run!Contest!Next <=> Contest!Next
  BY DEF Run!Contest!edit, Contest!edit, Run!Contest!tables, Contest!tables,
     Run!Contest!InContest, Contest!InContest, Run!Contest!NaNRow, Contest!NaNRow,
     Run!Contest!ByOrder, Contest!ByOrder, Run!Contest!ToSet, Contest!ToSet,
     Run!Contest!SetToSeq, Contest!SetToSeq, Run!Contest!SetToSeqs, Contest!SetToSeqs,
     Run!Contest!SetToAllKPermutations, Contest!SetToAllKPermutations,
     Run!Contest!IsInjective, Contest!IsInjective, Run!Contest!Cardinality,
     Contest!Cardinality, Run!Contest!addProblem, Contest!addProblem,
     Run!Contest!Click, Contest!Click, Run!Contest!GridChange, Contest!GridChange,
     Run!Contest!lists, Contest!lists, Run!Contest!submitEdit, Contest!submitEdit,
     Run!Contest!Parses, Contest!Parses, Run!Contest!Lets, Contest!Lets,
     Run!Contest!Twice, Contest!Twice, Run!Contest!RowsOf, Contest!RowsOf,
     Run!Contest!modifyContest, Contest!modifyContest, Run!Contest!buttonDown,
     Contest!buttonDown, Run!Contest!Swapped, Contest!Swapped, Run!Contest!buttonUp,
     Contest!buttonUp, Run!Contest!deleteButton, Contest!deleteButton,
     Run!Contest!RemoveAt, Contest!RemoveAt, Run!Contest!selectProblem,
     Contest!selectProblem, Run!Contest!problem_cost, Contest!problem_cost,
     Run!Contest!acceptButton, Contest!acceptButton, Run!Contest!WithStatus,
     Contest!WithStatus, Run!Contest!InGrid, Contest!InGrid, Run!Contest!SelectInSeq,
     Contest!SelectInSeq, Run!Contest!Min, Contest!Min, Run!Contest!declineButton,
     Contest!declineButton, Run!Contest!sendApplication, Contest!sendApplication,
     Run!Contest!history, Contest!history, Run!Contest!Stored, Contest!Stored,
     Run!Contest!Next, Contest!Next

\* So is the editor of tests among the pages the one of the lemmas above.
LEMMA SameTestsInit == Run!Tests!Init <=> Tests!Init
  BY DEF Run!Tests!Init, Tests!Init, Run!Tests!NewTest, Tests!NewTest, Run!Tests!Tests,
     Tests!Tests

\* Its steps are the same.
LEMMA SameTestsNext == Run!Tests!Next <=> Tests!Next
  BY DEF Run!Tests!Load, Tests!Load, Run!Tests!Panel, Tests!Panel, Run!Tests!Free,
     Tests!Free, Run!Tests!Listed, Tests!Listed, Run!Tests!ToSet, Tests!ToSet,
     Run!Tests!Send, Tests!Send, Run!Tests!serverVars, Tests!serverVars,
     Run!Tests!counters, Tests!counters, Run!Tests!history, Tests!history,
     Run!Tests!Save, Tests!Save, Run!Tests!updateView, Tests!updateView,
     Run!Tests!AskRemove, Tests!AskRemove, Run!Tests!RemovalPending,
     Tests!RemovalPending, Run!Tests!Edit, Tests!Edit, Run!Tests!Add, Tests!Add,
     Run!Tests!Cancel, Tests!Cancel, Run!Tests!ConfirmRemove, Tests!ConfirmRemove,
     Run!Tests!Return, Tests!Return, Run!Tests!AnswerReturn, Tests!AnswerReturn,
     Run!Tests!GetTest, Tests!GetTest, Run!Tests!Answer, Tests!Answer,
     Run!Tests!Becomes, Tests!Becomes, Run!Tests!Denied, Tests!Denied,
     Run!Tests!CommitRead, Tests!CommitRead, Run!Tests!CommitWrite, Tests!CommitWrite,
     Run!Tests!NumberTaken, Tests!NumberTaken, Run!Tests!Rows, Tests!Rows,
     Run!Tests!Tests, Tests!Tests, Run!Tests!AddRead, Tests!AddRead,
     Run!Tests!Cardinality, Tests!Cardinality, Run!Tests!AddWrite, Tests!AddWrite,
     Run!Tests!DeleteTest, Tests!DeleteTest, Run!Tests!NumbersFollow,
     Tests!NumbersFollow, Run!Tests!Renumbered, Tests!Renumbered, Run!Tests!Break,
     Tests!Break, Run!Tests!pageVars, Tests!pageVars, Run!Tests!Expire, Tests!Expire,
     Run!Tests!Callback, Tests!Callback, Run!Tests!Loaded, Tests!Loaded,
     Run!Tests!LoadFailed, Tests!LoadFailed, Run!Tests!Saved, Tests!Saved,
     Run!Tests!SaveFailed, Tests!SaveFailed, Run!Tests!Added, Tests!Added,
     Run!Tests!AddFailed, Tests!AddFailed, Run!Tests!Removed, Tests!Removed,
     Run!Tests!RemoveFailed, Tests!RemoveFailed, Run!Tests!Finished, Tests!Finished,
     Run!Tests!NewTest, Tests!NewTest, Run!Tests!RemoveAt, Tests!RemoveAt,
     Run!Tests!Serve, Tests!Serve, Run!Tests!Next, Tests!Next, Run!Tests!User,
     Tests!User

\* So is the table,
LEMMA SameTableInit == Run!Table!Init <=> Table!Init
  BY DEF Run!Table!Init, Table!Init, Run!Table!Nothing, Table!Nothing,
     Run!Table!NoPager, Table!NoPager

\* in its steps too,
LEMMA SameTableNext == Run!Table!Next <=> Table!Next
  BY DEF Run!Table!Next, Table!Next, Run!Table!Open, Table!Open, Run!Table!Draw,
     Table!Draw, Run!Table!ClickLink, Table!ClickLink, Run!Table!Links, Table!Links,
     Run!Table!iStart, Table!iStart, Run!Table!iEnd, Table!iEnd, Run!Table!iListLength,
     Table!iListLength, Run!Table!iHalf, Table!iHalf, Run!Table!PreviousPage,
     Table!PreviousPage, Run!Table!NextPage, Table!NextPage, Run!Table!fnClickHandler,
     Table!fnClickHandler, Run!Table!Previous, Table!Previous, Run!Table!Following,
     Table!Following, Run!Table!Search, Table!Search, Run!Table!Sort, Table!Sort,
     Run!Table!fnReloadAjax, Table!fnReloadAjax, Run!Table!Serve, Table!Serve,
     Run!Table!Arrive, Table!Arrive, Run!Table!Fail, Table!Fail, Run!Table!Change,
     Table!Change, Run!Table!Freeze, Table!Freeze, Run!Table!getProblemList,
     Table!getProblemList, Run!Table!getAcmMonitorData, Table!getAcmMonitorData,
     Run!Table!Found, Table!Found, Run!Table!Request, Table!Request, Run!Table!Reply,
     Table!Reply, Run!Table!Nothing, Table!Nothing, Run!Table!fnPagingInfo,
     Table!fnPagingInfo, Run!Table!Ceiling, Table!Ceiling, Run!Table!Directions,
     Table!Directions, Run!Table!pageVars, Table!pageVars, Run!Table!serverVars,
     Table!serverVars, Run!Table!history, Table!history

\* and the page of a solution,
LEMMA SameSolutionInit == Run!Solution!Init <=> Solution!Init
  BY DEF Run!Solution!Init, Solution!Init, Run!Solution!Closed, Solution!Closed,
     Run!Solution!NoRequest, Solution!NoRequest

\* in its steps too.
LEMMA SameSolutionNext == Run!Solution!Next <=> Solution!Next
  BY DEF Run!Solution!Next, Solution!Next, Run!Solution!testSolutionInternal,
     Solution!testSolutionInternal, Run!Solution!resubmitSolution,
     Solution!resubmitSolution, Run!Solution!Saved, Solution!Saved, Run!Solution!Event,
     Solution!Event, Run!Solution!Working, Solution!Working, Run!Solution!reset,
     Solution!reset, Run!Solution!getSolution, Solution!getSolution, Run!Solution!view,
     Solution!view, Run!Solution!getSolutionStatus, Solution!getSolutionStatus,
     Run!Solution!Render, Solution!Render, Run!Solution!requestFunction,
     Solution!requestFunction, Run!Solution!Answer, Solution!Answer, Run!Solution!Fail,
     Solution!Fail, Run!Solution!Open, Solution!Open, Run!Solution!Mixing,
     Solution!Mixing, Run!Solution!Status, Solution!Status,
     Run!Solution!responseFunction, Solution!responseFunction, Run!Solution!serverVars,
     Solution!serverVars, Run!Solution!pageVars, Solution!pageVars,
     Run!Solution!Unfinished, Solution!Unfinished, Run!Solution!Statuses,
     Solution!Statuses, Run!Solution!Texts, Solution!Texts, Run!Solution!Closed,
     Solution!Closed, Run!Solution!NoRequest, Solution!NoRequest

\* And so is the text editor,
LEMMA SameDescriptionInit == Run!Description!Init <=> Description!Init
  BY DEF Run!Description!Init, Description!Init, Run!Description!Scripts,
     Description!Scripts, Run!Description!NewUndo, Description!NewUndo

\* The operators of its undo manager are the same,
LEMMA SameUndo ==
    /\ \A u, c, alike : Run!Description!save(u, c, alike) = Description!save(u, c, alike)
    /\ \A u, c : Run!Description!update(u, c) = Description!update(u, c)
    /\ \A u, i : Run!Description!restoreImage(u, i) = Description!restoreImage(u, i)
    /\ \A u, c : Run!Description!Pushed(u, c) = Description!Pushed(u, c)
    /\ \A u : Run!Description!Earlier(u) = Description!Earlier(u)
    /\ \A u : Run!Description!Later(u) = Description!Later(u)
    /\ \A u : Run!Description!Current(u) = Description!Current(u)
    /\ \A u : Run!Description!resetType(u) = Description!resetType(u)
    /\ \A S : Run!Description!Min(S) = Description!Min(S)
    /\ \A S : Run!Description!Max(S) = Description!Max(S)
    /\ \A e : Run!Description!getData(e) = Description!getData(e)
<1>1. \A u : Run!Description!Current(u) = Description!Current(u)
  BY ZenonT(40) DEF Run!Description!Current, Description!Current
<1>2. \A u : Run!Description!Earlier(u) = Description!Earlier(u)
  BY ZenonT(40) DEF Run!Description!Earlier, Description!Earlier,
     Run!Description!Current, Description!Current
<1>3. \A u : Run!Description!Later(u) = Description!Later(u)
  BY ZenonT(40) DEF Run!Description!Later, Description!Later, Run!Description!Current,
     Description!Current
<1>4. \A u : Run!Description!resetType(u) = Description!resetType(u)
  BY ZenonT(40) DEF Run!Description!resetType, Description!resetType
<1>5. \A S : Run!Description!Min(S) = Description!Min(S)
  BY ZenonT(40) DEF Run!Description!Min, Description!Min
<1>6. \A S : Run!Description!Max(S) = Description!Max(S)
  BY ZenonT(40) DEF Run!Description!Max, Description!Max
<1>7. \A u : Run!Description!refreshState(u) = Description!refreshState(u)
  BY ZenonT(40) DEF Run!Description!refreshState, Description!refreshState,
     Run!Description!resetType, Description!resetType, Run!Description!Earlier,
     Description!Earlier, Run!Description!Later, Description!Later,
     Run!Description!Current, Description!Current
<1>8. \A u, c : Run!Description!Pushed(u, c) = Description!Pushed(u, c)
  BY ZenonT(40) DEF Run!Description!Pushed, Description!Pushed
<1>9. \A u, c, alike : Run!Description!save(u, c, alike) = Description!save(u, c, alike)
  BY <1>1, <1>7, <1>8, ZenonT(40) DEF Run!Description!save, Description!save
<1>10. \A u, c : Run!Description!update(u, c) = Description!update(u, c)
  BY ZenonT(40) DEF Run!Description!update, Description!update,
     Run!Description!Current, Description!Current, Run!Description!Min,
     Description!Min
<1>11. \A u, i : Run!Description!restoreImage(u, i) = Description!restoreImage(u, i)
  BY <1>1, <1>7, <1>10, ZenonT(40) DEF Run!Description!restoreImage,
     Description!restoreImage
<1>12. \A e : Run!Description!getData(e) = Description!getData(e)
  BY ZenonT(40) DEF Run!Description!getData, Description!getData
<1> QED BY <1>1, <1>2, <1>3, <1>4, <1>5, <1>6, <1>8, <1>9, <1>10, <1>11, <1>12

\* and so are its steps.
LEMMA SameDescriptionNext == Run!Description!Next => Description!Next
<1>1. ASSUME NEW s, NEW outcome, Run!Description!ScriptEnds(s, outcome)
      PROVE  Description!ScriptEnds(s, outcome)
  BY <1>1 DEF Run!Description!ScriptEnds, Description!ScriptEnds,
     Run!Description!WaitsFor, Description!WaitsFor, Run!Description!Loaded,
     Description!Loaded, Run!Description!Min, Description!Min, Run!Description!Config,
     Description!Config
<1>2. ASSUME NEW e, Run!Description!Begin(e) PROVE Description!Begin(e)
  BY <1>2 DEF Run!Description!Begin, Description!Begin, Run!Description!WaitsFor,
     Description!WaitsFor, Run!Description!Loaded, Description!Loaded,
     Run!Description!Min, Description!Min, Run!Description!Config, Description!Config
<1>3. ASSUME NEW e, Run!Description!Draw(e) PROVE Description!Draw(e)
  BY <1>3 DEF Run!Description!Draw, Description!Draw, Run!Description!Loaded,
     Description!Loaded, Run!Description!getData, Description!getData
<1>4. ASSUME NEW e, Run!Description!FrameLoads(e) PROVE Description!FrameLoads(e)
  BY <1>4 DEF Run!Description!FrameLoads, Description!FrameLoads,
     Run!Description!OnlyEditor, Description!OnlyEditor, Run!Description!getData,
     Description!getData
<1>5. ASSUME NEW e, Run!Description!DocumentLoads(e) PROVE Description!DocumentLoads(e)
  BY <1>5 DEF Run!Description!DocumentLoads, Description!DocumentLoads,
     Run!Description!OnlyEditor, Description!OnlyEditor, Run!Description!toHtml,
     Description!toHtml
<1>6. ASSUME NEW e, Run!Description!DataReady(e) PROVE Description!DataReady(e)
  BY <1>6, SameUndo, ZenonT(40) DEF Run!Description!DataReady, Description!DataReady,
     Run!Description!OnlyEditor, Description!OnlyEditor
<1>7. ASSUME NEW e, Run!Description!ModeEvent(e) PROVE Description!ModeEvent(e)
  BY <1>7, SameUndo, ZenonT(40) DEF Run!Description!ModeEvent, Description!ModeEvent,
     Run!Description!OnlyEditor, Description!OnlyEditor
<1>8. ASSUME NEW e, Run!Description!ToSource(e) PROVE Description!ToSource(e)
  BY <1>8, SameUndo, ZenonT(40) DEF Run!Description!ToSource, Description!ToSource,
     Run!Description!UserActs, Description!UserActs, Run!Description!OnlyEditor,
     Description!OnlyEditor
<1>9. ASSUME NEW e, Run!Description!ToWysiwyg(e) PROVE Description!ToWysiwyg(e)
  BY <1>9 DEF Run!Description!ToWysiwyg, Description!ToWysiwyg,
     Run!Description!UserActs, Description!UserActs, Run!Description!OnlyEditor,
     Description!OnlyEditor, Run!Description!getData, Description!getData
<1>10. ASSUME NEW e, Run!Description!ClickText(e) PROVE Description!ClickText(e)
  BY <1>10 DEF Run!Description!ClickText, Description!ClickText,
     Run!Description!UserActs, Description!UserActs, Run!Description!OnlyEditor,
     Description!OnlyEditor, Run!Description!resetType, Description!resetType,
     Run!Description!Current, Description!Current, Run!Description!Pushed,
     Description!Pushed
<1>11. ASSUME NEW e, Run!Description!Undo(e) PROVE Description!Undo(e)
  BY <1>11, SameUndo, ZenonT(40) DEF Run!Description!Undo, Description!Undo,
     Run!Description!UserActs, Description!UserActs, Run!Description!OnlyEditor,
     Description!OnlyEditor, Run!Description!Shows, Description!Shows
<1>12. ASSUME NEW e, Run!Description!Redo(e) PROVE Description!Redo(e)
  BY <1>12, SameUndo, ZenonT(40) DEF Run!Description!Redo, Description!Redo,
     Run!Description!UserActs, Description!UserActs, Run!Description!OnlyEditor,
     Description!OnlyEditor, Run!Description!Shows, Description!Shows
<1>13. ASSUME NEW e, NEW x, NEW group, Run!Description!Type(e, x, group)
      PROVE  Description!Type(e, x, group)
  BY <1>13, SameUndo, ZenonT(40) DEF Run!Description!Type, Description!Type,
     Run!Description!UserActs, Description!UserActs, Run!Description!OnlyEditor,
     Description!OnlyEditor, Run!Description!Shows, Description!Shows
<1>14. ASSUME NEW e, NEW x, Run!Description!Command(e, x) PROVE Description!Command(e, x)
  BY <1>14, SameUndo, ZenonT(40) DEF Run!Description!Command, Description!Command,
     Run!Description!UserActs, Description!UserActs, Run!Description!OnlyEditor,
     Description!OnlyEditor, Run!Description!Shows, Description!Shows
<1>15. ASSUME NEW e, NEW c, Run!Description!TypeSource(e, c)
      PROVE  Description!TypeSource(e, c)
  BY <1>15 DEF Run!Description!TypeSource, Description!TypeSource,
     Run!Description!UserActs, Description!UserActs, Run!Description!OnlyEditor,
     Description!OnlyEditor, Run!Description!Shows, Description!Shows
<1>16. ASSUME NEW sent, Run!Description!Submit(sent) PROVE Description!Submit(sent)
  BY <1>16 DEF Run!Description!Submit, Description!Submit, Run!Description!Loaded,
     Description!Loaded, Run!Description!getData, Description!getData
<1>17. ASSUME NEW e \in TextAreas,
              \/ Run!Description!Begin(e) \/ Run!Description!Draw(e)
              \/ Run!Description!FrameLoads(e) \/ Run!Description!DocumentLoads(e)
              \/ Run!Description!DataReady(e) \/ Run!Description!ModeEvent(e)
              \/ Run!Description!ToSource(e) \/ Run!Description!ToWysiwyg(e)
              \/ Run!Description!ClickText(e) \/ Run!Description!Undo(e)
              \/ Run!Description!Redo(e)
       PROVE  Description!Next
  BY <1>2, <1>3, <1>4, <1>5, <1>6, <1>7, <1>8, <1>9, <1>10, <1>11, <1>12, <1>17
  DEF Description!Next
<1>18. ASSUME NEW e \in TextAreas, NEW x \in Descriptions,
              \/ \E group \in {"printable", "functional"} :
                   Run!Description!Type(e, x, group)
              \/ Run!Description!Command(e, x)
              \/ \E extra \in BOOLEAN :
                   Run!Description!TypeSource(e, [text |-> x, extra |-> extra])
       PROVE  Description!Next
  BY <1>13, <1>14, <1>15, <1>18 DEF Description!Next
<1>19. ASSUME NEW s \in Description!Scripts, NEW outcome \in {"ended", "failed"},
              Run!Description!ScriptEnds(s, outcome)
       PROVE  Description!Next
  BY <1>1, <1>19 DEF Description!Next
<1>20. ASSUME NEW sent \in BOOLEAN, Run!Description!Submit(sent) PROVE Description!Next
  BY <1>16, <1>20 DEF Description!Next
<1> QED BY <1>17, <1>18, <1>19, <1>20
        DEF Run!Description!Next, Run!Description!Scripts, Description!Scripts

\* And so are the events: they start in the same states,
LEMMA SameEventInit == Run!Event!Init <=> Event!Init
  BY DEF Run!Event!Init, Event!Init, Run!Event!Clear, Event!Clear

\* and their steps are the same.
LEMMA SameEventNext == Run!Event!Next => Event!Next
<1>1. Run!Event!fire => Event!fire
  BY ZenonT(40) DEF Run!Event!fire, Event!fire, Run!Event!InListener, Event!InListener,
     Run!Event!Innermost, Event!Innermost, Run!Event!Clear, Event!Clear
<1>2. Run!Event!Call => Event!Call
  BY ZenonT(40) DEF Run!Event!Call, Event!Call, Run!Event!Over, Event!Over,
     Run!Event!Innermost, Event!Innermost, Run!Event!Clear, Event!Clear,
     Run!Event!RemoveAt, Event!RemoveAt
<1>3. Run!Event!End => Event!End
  BY ZenonT(40) DEF Run!Event!End, Event!End, Run!Event!Over, Event!Over,
     Run!Event!Innermost, Event!Innermost, Run!Event!Clear, Event!Clear,
     Run!Event!Front, Event!Front
<1>4. ASSUME NEW f, Run!Event!Flag(f) PROVE Event!Flag(f)
  BY <1>4, ZenonT(40) DEF Run!Event!Flag, Event!Flag, Run!Event!InListener,
     Event!InListener, Run!Event!Innermost, Event!Innermost
<1>5. ASSUME NEW fn, Run!Event!removeListener(fn) PROVE Event!removeListener(fn)
  BY <1>5, ZenonT(40) DEF Run!Event!removeListener, Event!removeListener,
     Run!Event!RemoveAt, Event!RemoveAt
<1>6. ASSUME NEW fn, NEW priority, NEW once, Run!Event!on(fn, priority, once)
      PROVE  Event!on(fn, priority, once)
  BY <1>6, ZenonT(40) DEF Run!Event!on, Event!on, Run!Event!Listener, Event!Listener,
     Run!Event!InsertAt, Event!InsertAt, Run!Event!Max, Event!Max
<1> QED BY <1>1, <1>2, <1>3, <1>4, <1>5, <1>6 DEF Run!Event!Next, Event!Next

\* Whatever page opens.
LEMMA PageInit == Run!Init => PageInv
  BY ContestInit, SameInit, TestInit, SameTestsInit, TableInit, SameTableInit,
     SolutionInit, SameSolutionInit, EditorBegins, SameDescriptionInit, EventsBegin,
     SameEventInit
  DEF Run!Init, PageInv

\* A step is one of the page that is open.
LEMMA RunStep == Run!Next => OwnStep
  BY SameNext, SameTestsNext, SameTableNext, SameSolutionNext, SameDescriptionNext,
     SameEventNext
  DEF OwnStep, Run!Next, Run!ContestStep, Run!TestsStep, Run!TableStep,
     Run!DescriptionStep, Run!FilterStep, Run!ImageStep, Run!FormulaStep, Run!LinkStep,
     Run!ToolsStep, Run!ListStep, Run!SolutionStep, Run!SourceStep, Run!SpellingStep,
     Run!DialogStep, Run!PasteStep, Run!BarStep, Run!ComboStep, Run!CellsStep,
     Run!CharactersStep, Run!MenuStep, Run!EventStep, Run!FragmentStep,
     Run!AsYouTypeStep

\* And so for ever.
LEMMA PageAlways == Run!Spec => []PageInv
<1>1. PageInv /\ [Run!Next]_(Run!window) => PageInv'
  BY RunStep, OpenPageKeeps, OpenPageStays DEF Run!window, window
<1> QED BY <1>1, PageInit, PTL DEF Run!Spec

\* And each of its steps.
LEMMA PageStepAlways ==
    PageInv /\ [Run!Next]_(Run!window) =>
       /\ [open = "contest" => Contest!OnlyStaleSavesTakeBack]_window
       /\ [open = "tests" => Tests!AskedForIsRemoved]_window
       /\ [open = "description" => Description!UndoLosesNothing]_window
  BY RunStep, PageStepsTrue DEF Run!window, window

\* For any contestants and problems, and any number of forms, clicks and saves:
\* the problems of a contest have the letters in their order, as long as none
\* was moved up or saved twice, and the list of roles shows the decisions on
\* the applications (editContest.jsp, ContestsAction.java).
THEOREM FormIsTrue == Run!Spec => []ContestTrue
  BY PageAlways, PageInvTrue, PTL

\* And a save takes back what another has done only if it had not read it
\* (ContestBean.java:195, ContestsAction.java:350).
THEOREM TakenBackUnread == Run!Spec => OnlyStaleSavesTakeBack
  BY PageAlways, PageStepAlways, PTL DEF Run!Spec, OnlyStaleSavesTakeBack

\* For any tests and texts, and any number of edits, removals, broken
\* connections and answers in any order: who leaves the editor of tests
\* unwarned loses nothing, the numbers of the tests have no gap, and at rest
\* the page lists what the tables hold (editTests.js, ProblemsAction.java).
THEOREM EditorIsTrue == Run!Spec => []TestsTrue
  BY PageAlways, PageInvTrue, PTL

\* And the test that is deleted is the one that the dialog named, unless it was
\* opened before the answer to an earlier deletion (editTests.js).
THEOREM RemovedAsAsked == Run!Spec => AskedForIsRemoved
  BY PageAlways, PageStepAlways, PTL DEF Run!Spec, AskedForIsRemoved

\* For any length of a page and of the list, any solutions, pages of them and
\* results, and any number of requests that are answered in any order or not at
\* all: when no answer is awaited the rows, the pager and the arrows of a table
\* are those of what was asked last, from every page drawn the links lead to
\* its neighbours and to both ends, and the lines speak of the rows
\* (dudge-tables.js, monitorACM.jsp); and a page of a solution that asks no more
\* shows the verdict of the solution that was opened in it, but where a request
\* failed, another request changed the form, or it was judged again
\* (viewSolution.jsp).
THEOREM ShownIsTrue == Run!Spec => []ShownTrue
  BY PageAlways, PageInvTrue, PTL

\* For any descriptions, limit of images and number of edits, any changes of
\* mode and scripts that fail or end late: the description that a form sends is
\* the one that was seen last, even when it is sent while the editor starts or
\* changes its mode; and where the text can be edited, "Undo" is enabled if
\* there is something to undo, and "Redo" is not if something was typed since
\* (ckeditor.js).
THEOREM SeenIsSent == Run!Spec => []SubmittedIsSeen
  BY PageAlways, PageInvTrue, PTL

\* And in every step: after an undo the content that it replaced is among the
\* images ahead, after a redo among those behind, and neither shows anything
\* that was not an image (ckeditor.js:919-925).
THEOREM UndoneIsKept ==
    Run!Spec => [][open = "description" => Description!UndoLosesNothing]_window
  BY PageAlways, PageStepAlways, PTL DEF Run!Spec

\* For any functions that listen to the events of the editor, any priorities
\* and any number of listeners and of events fired inside one another: an event
\* is stopped or cancelled only by its own listeners, each list has them in the
\* order of their priorities and of their coming, and one for once is called
\* once, unless the event is fired again before (CKEDITOR.event).
THEOREM ListenersAreCalled == Run!Spec => []EventsTrue
  BY PageAlways, PageInvTrue, PTL
=============================================================================
