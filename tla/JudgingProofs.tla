---------------------------- MODULE JudgingProofs ----------------------------
(* Theorems of the judging pipeline, for every number of solutions, web      *)
(* threads, slaves, tests, messages and crashes.                            *)
EXTENDS Judging, TLAPS

\* Whoever holds a message holds one that was made.
HoldersOK ==
    /\ \A c \in Clients : tx[c] # NoTx => tx[c].msg \in sent
    /\ \A w \in Workers : pc[w] # "idle" => job[w] \in sent

TypeInv == TypeOK /\ HoldersOK

-----------------------------------------------------------------------------
\* The initial values have their types.
LEMMA TypeInit == Init => TypeInv
  BY JudgingAssumption
  DEF Init, TypeInv, TypeOK, HoldersOK, TestIds, Statuses, Stages, TxType,
      EmptyRow, NoTx, NoJob

\* A slave that stores something writes a well-typed row.
LEMMA SaveType ==
    ASSUME TypeInv, NEW w \in Workers, pc[w] # "idle",
           NEW status \in Statuses, NEW passed \in SUBSET TestIds,
           NEW failed \in SUBSET TestIds,
           Save(job[w].sol, status, passed, failed)
    PROVE  /\ rows' \in [Solutions -> [status : Statuses, ok : SUBSET TestIds,
                                       bad : SUBSET TestIds]]
           /\ healthy' \in BOOLEAN
<1>1. job[w].sol \in Solutions
  BY DEF TypeInv, TypeOK, HoldersOK, Message
<1>2. QED
  BY <1>1 DEF TypeInv, TypeOK, Save

\* Idle(w) frees the slave thread w, and no other.
LEMMA IdleType ==
    ASSUME TypeInv, NEW w \in Workers, Idle(w), UNCHANGED sent
    PROVE  /\ pc' \in [Workers -> Stages]
           /\ job' \in [Workers -> {NoJob} \cup Message]
           /\ ok' \in [Workers -> SUBSET TestIds]
           /\ bad' \in [Workers -> SUBSET TestIds]
           /\ \A v \in Workers : pc'[v] # "idle" => job'[v] \in sent'
  BY DEF TypeInv, TypeOK, HoldersOK, Idle, Stages

\* A slave that moves to another stage keeps its message and its runs typed.
LEMMA GotoType ==
    ASSUME TypeInv, NEW w \in Workers, NEW stage \in Stages, pc[w] # "idle",
           Goto(w, stage), UNCHANGED sent
    PROVE  /\ pc' \in [Workers -> Stages]
           /\ job' \in [Workers -> {NoJob} \cup Message]
           /\ ok' \in [Workers -> SUBSET TestIds]
           /\ bad' \in [Workers -> SUBSET TestIds]
           /\ \A v \in Workers : pc'[v] # "idle" => job'[v] \in sent'
  BY DEF TypeInv, TypeOK, HoldersOK, Goto

\* Opening a transaction with a message preserves the types, and so does
\* ending it.
LEMMA SendType ==
    ASSUME TypeInv, NEW c \in Clients, NEW s \in Solutions,
           Submit(c, s) \/ Resubmit(c, s)
    PROVE  TypeInv'
<1> PICK kind \in {"submit", "resubmit"} : Send(c, kind, s)
  BY DEF Submit, Resubmit
<1> DEFINE m == [id |-> sends + 1, sol |-> s, tests |-> tests]
           t == [kind |-> kind, msg |-> m, read |-> rows[s].status,
                 listed |-> Ran(rows[s])]
<1>1. m \in Message
  BY JudgingAssumption DEF Send, TypeInv, TypeOK, Message, TestIds
<1>2. t \in TxType
  BY <1>1 DEF TxType, TypeInv, TypeOK, Ran
<1>3. /\ sends' \in 0..MaxSends
      /\ sent' = sent \cup {m}
      /\ queue' \in SUBSET sent'
      /\ tx' = [tx EXCEPT ![c] = t]
  BY JudgingAssumption DEF Send, TypeInv, TypeOK
<1>4. UNCHANGED <<rows, tests, created, healthy, slaveVars>>
  BY DEF Submit, Resubmit
<1>5. TypeOK'
  BY <1>1, <1>2, <1>3, <1>4 DEF TypeInv, TypeOK, slaveVars
<1>6. \A d \in Clients : tx'[d] # NoTx => tx'[d].msg \in sent'
  BY <1>3 DEF TypeInv, TypeOK, HoldersOK
<1>7. \A w \in Workers : pc'[w] # "idle" => job'[w] \in sent'
  BY <1>3, <1>4 DEF TypeInv, HoldersOK, slaveVars
<1> QED BY <1>5, <1>6, <1>7 DEF TypeInv, HoldersOK

\* The end of a client's transaction keeps the types.
LEMMA EndTxType ==
    ASSUME TypeInv, NEW c \in Clients, Commit(c) \/ Rollback(c)
    PROVE  TypeInv'
<1>1. ASSUME Commit(c)
      PROVE  TypeInv'
  <2> DEFINE t == tx[c]
  <2>1. /\ t.msg \in sent /\ t.msg \in Message
        /\ t.msg.sol \in Solutions
        /\ t.listed \in SUBSET TestIds
    BY <1>1 DEF Commit, TypeInv, TypeOK, HoldersOK, TxType, Message
  <2>2. Committed(t, rows[t.msg.sol]) \in
          [status : Statuses, ok : SUBSET TestIds, bad : SUBSET TestIds]
    BY <2>1 DEF Committed, TypeInv, TypeOK, Statuses, Pending
  <2>3. rows' \in [Solutions -> [status : Statuses, ok : SUBSET TestIds,
                                 bad : SUBSET TestIds]]
    BY <1>1, <2>1, <2>2 DEF Commit, TypeInv, TypeOK
  <2>4. tx' \in [Clients -> TxType]
    BY <1>1 DEF Commit, TypeInv, TypeOK, TxType
  <2>5. queue' \in SUBSET sent
    BY <1>1, <2>1 DEF Commit, TypeInv, TypeOK
  <2>6. HoldersOK'
    BY <1>1 DEF Commit, TypeInv, TypeOK, HoldersOK, slaveVars
  <2> QED BY <1>1, <2>3, <2>4, <2>5, <2>6 DEF Commit, TypeInv, TypeOK, slaveVars
<1>2. ASSUME Rollback(c)
      PROVE  TypeInv'
  BY <1>2 DEF Rollback, TypeInv, TypeOK, HoldersOK, TxType, slaveVars
<1> QED BY <1>1, <1>2

\* So does every transaction on the tests.
LEMMA TestsType ==
    ASSUME TypeInv, AddTest \/ ModifyTest \/ \E t \in TestIds : DeleteTest(t)
    PROVE  TypeInv'
<1>1. CASE AddTest
  <2>1. created' \in 0..MaxTests /\ tests' \in SUBSET (1..created')
    BY <1>1, JudgingAssumption DEF AddTest, TypeInv, TypeOK
  <2> QED
    BY <1>1, <2>1 DEF AddTest, TypeInv, TypeOK, HoldersOK, slaveVars
<1>2. CASE ModifyTest
  BY <1>2 DEF ModifyTest, TypeInv, TypeOK, HoldersOK, slaveVars, webVars
<1>3. ASSUME NEW t \in TestIds, DeleteTest(t)
      PROVE  TypeInv'
  BY <1>3 DEF DeleteTest, TypeInv, TypeOK, HoldersOK, slaveVars
<1> QED BY <1>1, <1>2, <1>3

\* A step of a slave that changes neither rows nor runs, or stores a row.
LEMMA StoreType ==
    ASSUME TypeInv, NEW w \in Workers, pc[w] # "idle",
           NEW status \in Statuses, NEW passed \in SUBSET TestIds,
           NEW failed \in SUBSET TestIds, NEW stage \in Stages,
           Save(job[w].sol, status, passed, failed) \/ UNCHANGED <<rows, healthy>>,
           Idle(w) \/ Goto(w, stage),
           UNCHANGED <<queue, webVars, crashes>>
    PROVE  TypeInv'
<1>1. UNCHANGED sent
  BY DEF webVars
<1>2. /\ rows' \in [Solutions -> [status : Statuses, ok : SUBSET TestIds,
                                  bad : SUBSET TestIds]]
      /\ healthy' \in BOOLEAN
  BY SaveType DEF TypeInv, TypeOK
<1>3. /\ pc' \in [Workers -> Stages]
      /\ job' \in [Workers -> {NoJob} \cup Message]
      /\ ok' \in [Workers -> SUBSET TestIds]
      /\ bad' \in [Workers -> SUBSET TestIds]
      /\ \A v \in Workers : pc'[v] # "idle" => job'[v] \in sent'
  BY <1>1, IdleType, GotoType
<1> QED BY <1>2, <1>3 DEF TypeInv, TypeOK, HoldersOK, webVars

\* A step of a slave, and its crash, keep the types.
LEMMA SlaveType ==
    ASSUME TypeInv, NEW w \in Workers, Judge(w) \/ Crash(w)
    PROVE  TypeInv'
<1> USE DEF Stages, Statuses, Pending, Final
<1>1. CASE Receive(w)
  BY <1>1 DEF Receive, TypeInv, TypeOK, HoldersOK, webVars
<1>2. CASE StoreCompiling(w)
  BY <1>2, StoreType DEF StoreCompiling
<1>3. CASE Compile(w)
  BY <1>3, StoreType DEF Compile
<1>4. CASE StoreRunning(w)
  BY <1>4, StoreType DEF StoreRunning
<1>5. CASE RunTest(w)
  <2>1. ToRun(w) \subseteq TestIds
    BY <1>5 DEF RunTest, ToRun, TypeInv, TypeOK, HoldersOK, Message
  <2> QED BY <1>5, <2>1 DEF RunTest, TypeInv, TypeOK, HoldersOK, webVars
<1>6. CASE StoreProcessed(w)
  <2>1. ok[w] \in SUBSET TestIds /\ bad[w] \in SUBSET TestIds
    BY DEF TypeInv, TypeOK
  <2> QED BY <1>6, <2>1, StoreType DEF StoreProcessed
<1>7. CASE StoreFailure(w)
  <2>1. ok[w] \in SUBSET TestIds /\ bad[w] \in SUBSET TestIds
    BY DEF TypeInv, TypeOK
  <2> QED BY <1>7, <2>1, StoreType DEF StoreFailure
<1>8. CASE StoreCompilationError(w)
  BY <1>8, StoreType DEF StoreCompilationError
<1>9. CASE Crash(w)
  <2>1. UNCHANGED sent
    BY <1>9 DEF Crash, webVars
  <2>2. crashes' \in 0..MaxCrashes /\ queue' \in SUBSET sent
    BY <1>9, JudgingAssumption DEF Crash, TypeInv, TypeOK, HoldersOK
  <2> QED
    BY <1>9, <2>1, <2>2, IdleType DEF Crash, TypeInv, TypeOK, HoldersOK, webVars
<1> QED
  BY <1>1, <1>2, <1>3, <1>4, <1>5, <1>6, <1>7, <1>8, <1>9 DEF Judge

\* Every step keeps the types.
LEMMA TypeStep == TypeInv /\ [Next]_vars => TypeInv'
<1> SUFFICES ASSUME TypeInv, [Next]_vars PROVE TypeInv'
  OBVIOUS
<1>1. CASE UNCHANGED vars
  BY <1>1 DEF vars, TypeInv, TypeOK, HoldersOK
<1>2. CASE Next
  BY <1>2, SendType, EndTxType, TestsType, SlaveType DEF Next
<1> QED BY <1>1, <1>2

\* Type correctness of the pipeline: DudgeBean, TestBean, SolutionBean and the
\* slaves only ever build rows, messages and transactions of the right shape,
\* and whoever holds a message holds one that was made.
THEOREM TypeCorrect == Spec => [](TypeOK /\ HoldersOK)
<1>1. TypeInv => TypeOK /\ HoldersOK
  BY DEF TypeInv
<1> QED BY <1>1, TypeInit, TypeStep, PTL DEF Spec

-----------------------------------------------------------------------------
(* No solution is forgotten.                                                *)

\* A message that can be received is for a solution whose row is committed.
RowsPresent ==
    /\ \A m \in queue : rows[m.sol].status # "ABSENT"
    /\ \A w \in Workers : pc[w] # "idle" => rows[job[w].sol].status # "ABSENT"
    /\ \A c \in Clients : tx[c] # NoTx /\ tx[c].kind = "resubmit" =>
                             rows[tx[c].msg.sol].status # "ABSENT"

\* A slave has runs only while it runs tests or after an exception there, and
\* they are runs of its message's tests.
RunsOK ==
    \A w \in Workers :
        /\ ok[w] \cup bad[w] # {} => pc[w] \in {"running", "failed"}
        /\ pc[w] # "idle" => ok[w] \cup bad[w] \subseteq job[w].tests

OrphanInv == TypeInv /\ RowsPresent /\ RunsOK /\ LeftoversAreWiped /\ NoOrphan

\* Tests stay deleted and messages stay made, so a lost test stays lost.
LEMMA LostTestStable ==
    ASSUME TypeInv, Next, NEW s \in Solutions, LostTest(s)
    PROVE  LostTest(s)'
<1>1. sent \subseteq sent'
  BY DEF Next, Submit, Resubmit, Send, Commit, Rollback, AddTest, ModifyTest,
         DeleteTest, Judge, Receive, StoreCompiling, Compile, StoreRunning,
         RunTest, StoreProcessed, StoreFailure, StoreCompilationError, Crash,
         webVars
<1>2. Deleted \subseteq Deleted'
  <2>1. CASE AddTest
    BY <2>1, JudgingAssumption DEF AddTest, Deleted, TypeInv, TypeOK
  <2>2. ASSUME NEW t \in TestIds, DeleteTest(t)
        PROVE  Deleted \subseteq Deleted'
    BY <2>2 DEF DeleteTest, Deleted
  <2>3. CASE UNCHANGED <<tests, created>>
    BY <2>3 DEF Deleted
  <2> QED
    BY <2>1, <2>2, <2>3
    DEF Next, Submit, Resubmit, Send, Commit, Rollback, ModifyTest,
        Judge, Receive, StoreCompiling, Compile, StoreRunning,
        RunTest, StoreProcessed, StoreFailure, StoreCompilationError, Crash,
        webVars
<1> QED BY <1>1, <1>2 DEF LostTest

\* Only storing COMPILING begins a judging: every other step leaves a due
\* judging due.
LEMMA DueKept ==
    ASSUME TypeInv, NEW w \in Workers, Judge(w) \/ Crash(w),
           NEW s \in Solutions, Due(s),
           ~(StoreCompiling(w) /\ s = job[w].sol)
    PROVE  Due(s)'
<1>1. CASE Receive(w)
  BY <1>1 DEF Receive, Due, TypeInv, TypeOK
<1>2. CASE StoreCompiling(w)
  BY <1>2 DEF StoreCompiling, Goto, Due, TypeInv, TypeOK
<1>3. CASE Compile(w) \/ StoreRunning(w) \/ StoreProcessed(w)
             \/ StoreFailure(w) \/ StoreCompilationError(w)
  <2>1. queue' = queue /\ pc[w] # "taken"
    BY <1>3 DEF Compile, StoreRunning, StoreProcessed, StoreFailure,
                StoreCompilationError
  <2>2. \A v \in Workers \ {w} : pc'[v] = pc[v] /\ job'[v] = job[v]
    BY <1>3 DEF Compile, StoreRunning, StoreProcessed, StoreFailure,
                StoreCompilationError, Goto, Idle, TypeInv, TypeOK
  <2> QED BY <2>1, <2>2 DEF Due
<1>4. CASE RunTest(w)
  BY <1>4 DEF RunTest, Due, TypeInv, TypeOK
<1>5. CASE Crash(w)
  BY <1>5 DEF Crash, Idle, Due, TypeInv, TypeOK
<1> QED BY <1>1, <1>2, <1>3, <1>4, <1>5 DEF Judge

\* A slave only lets go of its own message.
LEMMA InFlightKept ==
    ASSUME TypeInv, NEW w \in Workers, Judge(w) \/ Crash(w),
           NEW s \in Solutions, InFlight(s),
           pc'[w] # "idle" \/ Crash(w) \/ s # job[w].sol
    PROVE  InFlight(s)'
<1>1. CASE Receive(w)
  BY <1>1 DEF Receive, InFlight, TypeInv, TypeOK
<1>2. CASE RunTest(w)
  BY <1>2 DEF RunTest, InFlight, TypeInv, TypeOK
<1>3. CASE Crash(w)
  BY <1>3 DEF Crash, Idle, InFlight, TypeInv, TypeOK
<1>4. CASE StoreCompiling(w) \/ Compile(w) \/ StoreRunning(w)
             \/ StoreProcessed(w) \/ StoreFailure(w) \/ StoreCompilationError(w)
  <2>1. queue' = queue
    BY <1>4 DEF StoreCompiling, Compile, StoreRunning, StoreProcessed,
                StoreFailure, StoreCompilationError
  <2>2. \A v \in Workers \ {w} : pc'[v] = pc[v] /\ job'[v] = job[v]
    BY <1>4 DEF StoreCompiling, Compile, StoreRunning, StoreProcessed,
                StoreFailure, StoreCompilationError, Goto, Idle, TypeInv, TypeOK
  <2>3. pc'[w] # "idle" => job'[w] = job[w]
    BY <1>4 DEF StoreCompiling, Compile, StoreRunning, StoreProcessed,
                StoreFailure, StoreCompilationError, Goto, Idle, TypeInv, TypeOK
  <2>4. ~Crash(w)
    BY <1>4, JudgingAssumption
    DEF StoreCompiling, Compile, StoreRunning, StoreProcessed,
        StoreFailure, StoreCompilationError, Crash, TypeInv, TypeOK
  <2> QED BY <2>1, <2>2, <2>3, <2>4 DEF InFlight
<1> QED BY <1>1, <1>2, <1>3, <1>4 DEF Judge

\* At the start no row, no message and no run exists.
LEMMA OrphanInit == Init => OrphanInv
<1> SUFFICES ASSUME Init PROVE OrphanInv
  OBVIOUS
<1>1. RowsPresent /\ RunsOK
  BY DEF Init, RowsPresent, RunsOK
<1>2. LeftoversAreWiped /\ NoOrphan
  BY DEF Init, LeftoversAreWiped, NoOrphan, EmptyRow, Pending
<1> QED BY <1>1, <1>2, TypeInit DEF OrphanInv

\* Opening a transaction changes no row and no queue.
LEMMA SendOrphan ==
    ASSUME OrphanInv, NEW c \in Clients, NEW s \in Solutions,
           Submit(c, s) \/ Resubmit(c, s), Next
    PROVE  OrphanInv'
<1>1. TypeInv'
  BY SendType DEF OrphanInv
<1>2. UNCHANGED <<rows, queue, pc, job, ok, bad>>
  BY DEF Submit, Resubmit, Send, slaveVars
<1>3. \A q \in Solutions : (Due(q)' <=> Due(q)) /\ (InFlight(q)' <=> InFlight(q))
  BY <1>2 DEF Due, InFlight
<1>4. RowsPresent'
  <2>1. \A d \in Clients : tx'[d] # NoTx /\ tx'[d].kind = "resubmit" =>
                             rows[tx'[d].msg.sol].status # "ABSENT"
    <3>1. \A d \in Clients \ {c} : tx'[d] = tx[d]
      BY DEF OrphanInv, TypeInv, TypeOK, Submit, Resubmit, Send
    <3>2. tx'[c].msg.sol = s
      BY DEF OrphanInv, TypeInv, TypeOK, Submit, Resubmit, Send
    <3>3. tx'[c].kind = "resubmit" => rows[s].status # "ABSENT"
      BY DEF OrphanInv, TypeInv, TypeOK, Submit, Resubmit, Send
    <3> QED BY <3>1, <3>2, <3>3 DEF OrphanInv, RowsPresent
  <2> QED BY <1>2, <2>1 DEF OrphanInv, RowsPresent
<1>5. RunsOK'
  BY <1>2 DEF OrphanInv, RunsOK
<1>6. LeftoversAreWiped'
  BY <1>2, <1>3 DEF OrphanInv, LeftoversAreWiped, Ran
<1>7. NoOrphan'
  BY <1>2, <1>3, LostTestStable DEF OrphanInv, NoOrphan
<1> QED BY <1>1, <1>4, <1>5, <1>6, <1>7 DEF OrphanInv

\* Committing makes the row present and a judging of it due.
LEMMA CommitOrphan ==
    ASSUME OrphanInv, NEW c \in Clients, Commit(c), Next
    PROVE  OrphanInv'
<1>0. TypeInv /\ TypeInv'
  BY EndTxType DEF OrphanInv
<1> PICK t \in TxType : t = tx[c]
  BY <1>0 DEF TypeInv, TypeOK
<1> DEFINE s == t.msg.sol
<1>1. /\ t # NoTx /\ t \in TxType /\ t.msg \in Message /\ s \in Solutions
      /\ t.kind \in {"submit", "resubmit"}
  BY <1>0 DEF Commit, TypeInv, TypeOK, HoldersOK, TxType, Message
<1>2. /\ rows' = [rows EXCEPT ![s] = Committed(t, rows[s])]
      /\ queue' = queue \cup {t.msg}
      /\ tx' = [tx EXCEPT ![c] = NoTx]
      /\ UNCHANGED <<pc, job, ok, bad, tests, created, sent>>
  BY DEF Commit, slaveVars
<1>3. /\ \A q \in Solutions : (Due(q) => Due(q)') /\ (InFlight(q) => InFlight(q)')
      /\ Due(s)' /\ InFlight(s)'
  BY <1>2 DEF Due, InFlight
<1>4. \A q \in Solutions \ {s} : rows'[q] = rows[q]
  BY <1>0, <1>1, <1>2 DEF TypeInv, TypeOK
<1>5. rows'[s] = Committed(t, rows[s])
  BY <1>0, <1>1, <1>2 DEF TypeInv, TypeOK
<1>6. rows'[s].status # "ABSENT"
  <2>1. t.kind = "resubmit" => rows[s].status # "ABSENT"
    BY <1>1 DEF OrphanInv, RowsPresent
  <2> QED BY <1>1, <1>5, <2>1 DEF Committed
<1>7. \A q \in Solutions : rows[q].status # "ABSENT" => rows'[q].status # "ABSENT"
  BY <1>4, <1>6
<1>8. RowsPresent'
  <2>1. \A m \in queue' : rows'[m.sol].status # "ABSENT"
    BY <1>0, <1>2, <1>6, <1>7
    DEF OrphanInv, RowsPresent, TypeInv, TypeOK, Message
  <2>2. \A w \in Workers : pc'[w] # "idle" => rows'[job'[w].sol].status # "ABSENT"
    BY <1>0, <1>2, <1>7
    DEF OrphanInv, RowsPresent, TypeInv, TypeOK, HoldersOK, Message
  <2>3. \A d \in Clients : tx'[d] # NoTx /\ tx'[d].kind = "resubmit" =>
                             rows'[tx'[d].msg.sol].status # "ABSENT"
    BY <1>0, <1>2, <1>7
    DEF OrphanInv, RowsPresent, TypeInv, TypeOK, HoldersOK, Message
  <2> QED BY <2>1, <2>2, <2>3 DEF RowsPresent
<1>9. RunsOK'
  BY <1>2 DEF OrphanInv, RunsOK
<1>10. LeftoversAreWiped'
  <2> SUFFICES ASSUME NEW q \in Solutions, rows'[q].status \in Pending,
                      Ran(rows'[q]) # {}
               PROVE  rows'[q].status = "NEW" /\ Due(q)'
    BY DEF LeftoversAreWiped
  <2>1. CASE q # s
    BY <1>3, <1>4, <2>1 DEF OrphanInv, LeftoversAreWiped
  <2>2. CASE q = s
    <3>1. Due(q)'
      BY <1>3, <2>2
    <3>2. CASE t.kind = "submit"
      BY <1>5, <2>2, <3>1, <3>2 DEF Committed
    <3>3. CASE t.kind # "submit"
      <4>1. rows'[q].status = "NEW" \/ rows'[q].status = rows[q].status
        BY <1>5, <2>2, <3>3 DEF Committed
      <4>2. Ran(rows[q]) # {}
        BY <1>5, <2>2, <3>3 DEF Committed, Ran
      <4> QED BY <3>1, <4>1, <4>2 DEF OrphanInv, LeftoversAreWiped
    <3> QED BY <3>2, <3>3
  <2> QED BY <2>1, <2>2
<1>11. NoOrphan'
  BY <1>0, <1>3, <1>4, LostTestStable DEF OrphanInv, NoOrphan
<1> QED BY <1>0, <1>8, <1>9, <1>10, <1>11 DEF OrphanInv

\* Rolling back, and editing the tests, change neither rows nor messages.
LEMMA QuietOrphan ==
    ASSUME OrphanInv, Next, TypeInv',
           \/ \E c \in Clients : Rollback(c)
           \/ AddTest \/ ModifyTest \/ \E t \in TestIds : DeleteTest(t)
    PROVE  OrphanInv'
<1>1. UNCHANGED <<rows, queue, pc, job, ok, bad>>
  BY DEF Rollback, AddTest, ModifyTest, DeleteTest, slaveVars
<1>2. \A q \in Solutions : (Due(q)' <=> Due(q)) /\ (InFlight(q)' <=> InFlight(q))
  BY <1>1 DEF Due, InFlight
<1>3. RowsPresent'
  <2>1. \A d \in Clients : tx'[d] = tx[d] \/ tx'[d] = NoTx
    BY DEF Rollback, AddTest, ModifyTest, DeleteTest, webVars,
           OrphanInv, TypeInv, TypeOK
  <2> QED BY <1>1, <2>1 DEF OrphanInv, RowsPresent
<1>4. RunsOK' /\ LeftoversAreWiped'
  BY <1>1, <1>2 DEF OrphanInv, RunsOK, LeftoversAreWiped, Ran
<1>5. NoOrphan'
  BY <1>1, <1>2, LostTestStable DEF OrphanInv, NoOrphan
<1> QED BY <1>3, <1>4, <1>5 DEF OrphanInv

\* Slaves only pass messages between the queue and themselves, so it is enough
\* that no row disappears.
LEMMA PresentKept ==
    ASSUME OrphanInv, NEW w \in Workers, Judge(w) \/ Crash(w), TypeInv',
           \A q \in Solutions :
               rows[q].status # "ABSENT" => rows'[q].status # "ABSENT"
    PROVE  RowsPresent'
<1>1. UNCHANGED tx
  BY DEF Judge, Receive, StoreCompiling, Compile, StoreRunning, RunTest,
         StoreProcessed, StoreFailure, StoreCompilationError, Crash, webVars
<1>2. \A m \in queue' : rows[m.sol].status # "ABSENT"
  BY DEF Judge, Receive, StoreCompiling, Compile, StoreRunning, RunTest,
         StoreProcessed, StoreFailure, StoreCompilationError, Crash,
         OrphanInv, RowsPresent
<1>3. \A v \in Workers : pc'[v] # "idle" => rows[job'[v].sol].status # "ABSENT"
  <2>1. CASE Receive(w)
    BY <2>1 DEF Receive, OrphanInv, RowsPresent, TypeInv, TypeOK
  <2>2. CASE ~Receive(w)
    <3>1. \A v \in Workers : pc'[v] # "idle" => pc[v] # "idle" /\ job'[v] = job[v]
      BY <2>2 DEF Judge, StoreCompiling, Compile, StoreRunning, RunTest,
         StoreProcessed, StoreFailure, StoreCompilationError, Crash, Goto, Idle,
         OrphanInv, TypeInv, TypeOK
    <3> QED BY <3>1 DEF OrphanInv, RowsPresent
  <2> QED BY <2>1, <2>2
<1>4. \A m \in queue' : m.sol \in Solutions
  BY DEF TypeInv, TypeOK, Message
<1>5. \A v \in Workers : pc'[v] # "idle" => job'[v].sol \in Solutions
  BY DEF TypeInv, TypeOK, HoldersOK, Message
<1>6. \A c \in Clients : tx[c] # NoTx => tx[c].msg.sol \in Solutions
  BY DEF OrphanInv, TypeInv, TypeOK, HoldersOK, Message
<1> QED BY <1>1, <1>2, <1>3, <1>4, <1>5, <1>6 DEF OrphanInv, RowsPresent

\* A slave's runs belong to its message and are thrown away with it.
LEMMA SlaveRuns ==
    ASSUME OrphanInv, NEW w \in Workers, Judge(w) \/ Crash(w)
    PROVE  RunsOK'
<1>1. CASE Receive(w)
  BY <1>1 DEF Receive, OrphanInv, RunsOK, TypeInv, TypeOK
<1>2. CASE RunTest(w)
  BY <1>2 DEF RunTest, ToRun, OrphanInv, RunsOK, TypeInv, TypeOK
<1>3. CASE StoreCompiling(w) \/ Compile(w) \/ StoreRunning(w)
  BY <1>3 DEF StoreCompiling, Compile, StoreRunning, Goto,
              OrphanInv, RunsOK, TypeInv, TypeOK
<1>4. CASE StoreProcessed(w)
  BY <1>4 DEF StoreProcessed, Goto, Idle, OrphanInv, RunsOK, TypeInv, TypeOK
<1>5. CASE StoreFailure(w) \/ StoreCompilationError(w) \/ Crash(w)
  BY <1>5 DEF StoreFailure, StoreCompilationError, Crash, Idle,
              OrphanInv, RunsOK, TypeInv, TypeOK
<1> QED BY <1>1, <1>2, <1>3, <1>4, <1>5 DEF Judge

\* A slave's step that stores no row.
LEMMA QuietSlaveOrphan ==
    ASSUME OrphanInv, NEW w \in Workers, Next, TypeInv',
           Receive(w) \/ Compile(w) \/ RunTest(w) \/ Crash(w)
    PROVE  OrphanInv'
<1>1. UNCHANGED rows
  BY DEF Receive, Compile, RunTest, Crash
<1>2. Judge(w) \/ Crash(w)
  BY DEF Judge
<1>3. RowsPresent' /\ RunsOK'
  BY <1>1, <1>2, PresentKept, SlaveRuns DEF OrphanInv
<1>4. \A q \in Solutions : Due(q) => Due(q)'
  <2>1. ~StoreCompiling(w)
    BY DEF Receive, Compile, RunTest, Crash, StoreCompiling, Save, Refused,
           Goto, OrphanInv, TypeInv, TypeOK
  <2> QED BY <1>2, <2>1, DueKept DEF OrphanInv
<1>5. \A q \in Solutions : InFlight(q) => InFlight(q)'
  <2>1. pc'[w] # "idle" \/ Crash(w)
    BY DEF Receive, Compile, RunTest, Goto, OrphanInv, TypeInv, TypeOK
  <2> QED BY <1>2, <2>1, InFlightKept DEF OrphanInv
<1>6. LeftoversAreWiped'
  BY <1>1, <1>4 DEF OrphanInv, LeftoversAreWiped, Ran
<1>7. NoOrphan'
  BY <1>1, <1>5, LostTestStable DEF OrphanInv, NoOrphan
<1> QED BY <1>3, <1>6, <1>7 DEF OrphanInv

\* A slave's step that stores COMPILING or RUNNING, or goes on to handle an
\* exception: the slave keeps its message.
LEMMA StageOrphan ==
    ASSUME OrphanInv, NEW w \in Workers, Next, TypeInv',
           StoreCompiling(w) \/ StoreRunning(w) \/ StoreProcessed(w),
           pc'[w] # "idle"
    PROVE  OrphanInv'
<1> PICK s \in Solutions : s = job[w].sol
  BY DEF OrphanInv, TypeInv, TypeOK, HoldersOK, Message,
         StoreCompiling, StoreRunning, StoreProcessed
<1>1. Judge(w) /\ pc[w] # "idle"
  BY DEF Judge, StoreCompiling, StoreRunning, StoreProcessed
<1>2. rows[s].status # "ABSENT"
  BY <1>1 DEF OrphanInv, RowsPresent
<1>3. \/ UNCHANGED rows /\ ~StoreCompiling(w)
      \/ \E status \in {"COMPILING", "RUNNING"} : Save(s, status, {}, {})
  BY <1>2 DEF StoreCompiling, StoreRunning, StoreProcessed, Idle, Refused,
              OrphanInv, TypeInv, TypeOK
<1>4. /\ \A q \in Solutions \ {s} : rows'[q] = rows[q]
      /\ \/ rows'[s] = rows[s] /\ ~StoreCompiling(w)
         \/ Ran(rows'[s]) = {} /\ rows'[s].status # "ABSENT"
  <2>1. CASE UNCHANGED rows /\ ~StoreCompiling(w)
    BY <2>1
  <2>2. ASSUME NEW status \in {"COMPILING", "RUNNING"}, Save(s, status, {}, {})
        PROVE  /\ \A q \in Solutions \ {s} : rows'[q] = rows[q]
               /\ rows'[s] = [status |-> status, ok |-> {}, bad |-> {}]
    BY <2>2 DEF Save, OrphanInv, TypeInv, TypeOK
  <2> QED BY <1>3, <2>1, <2>2 DEF Ran
<1>5. RowsPresent' /\ RunsOK'
  BY <1>1, <1>2, <1>4, PresentKept, SlaveRuns
<1>6. LeftoversAreWiped'
  BY <1>1, <1>4, DueKept DEF OrphanInv, LeftoversAreWiped
<1>7. \A q \in Solutions : InFlight(q) => InFlight(q)'
  BY <1>1, InFlightKept DEF OrphanInv
<1>8. InFlight(s)
  BY <1>1 DEF InFlight
<1>9. NoOrphan'
  BY <1>4, <1>7, <1>8, LostTestStable DEF OrphanInv, NoOrphan
<1> QED BY <1>5, <1>6, <1>9 DEF OrphanInv

\* A slave's last step on a message: a final status is stored, or the error
\* save is refused.
LEMMA LastOrphan ==
    ASSUME OrphanInv, NEW w \in Workers, Next, TypeInv',
           StoreProcessed(w) \/ StoreFailure(w) \/ StoreCompilationError(w),
           pc'[w] = "idle"
    PROVE  OrphanInv'
<1> PICK s \in Solutions : s = job[w].sol
  BY DEF OrphanInv, TypeInv, TypeOK, HoldersOK, Message,
         StoreProcessed, StoreFailure, StoreCompilationError
<1>1. Judge(w) /\ pc[w] # "idle" /\ ~StoreCompiling(w)
  BY DEF Judge, StoreProcessed, StoreFailure, StoreCompilationError,
         StoreCompiling
<1>2. rows[s].status # "ABSENT"
  BY <1>1 DEF OrphanInv, RowsPresent
<1>3. \/ /\ UNCHANGED rows
         /\ Refused(s, ok[w] \cup bad[w])
      \/ \E status \in Final, passed, failed \in SUBSET TestIds :
             Save(s, status, passed, failed)
  BY DEF StoreProcessed, StoreFailure, StoreCompilationError, Goto, Final,
         OrphanInv, TypeInv, TypeOK
<1>4. /\ \A q \in Solutions \ {s} : rows'[q] = rows[q]
      /\ \/ rows'[s] = rows[s] /\ Refused(s, ok[w] \cup bad[w])
         \/ rows'[s].status \in Final
  <2>1. ASSUME NEW status \in Final, NEW passed \in SUBSET TestIds,
               NEW failed \in SUBSET TestIds, Save(s, status, passed, failed)
        PROVE  /\ \A q \in Solutions \ {s} : rows'[q] = rows[q]
               /\ rows'[s].status = status
    BY <2>1 DEF Save, OrphanInv, TypeInv, TypeOK
  <2> QED BY <1>3, <2>1
<1>5. RowsPresent' /\ RunsOK'
  BY <1>1, <1>2, <1>4, PresentKept, SlaveRuns DEF Final
<1>6. \A q \in Solutions : Due(q) => Due(q)'
  BY <1>1, DueKept DEF OrphanInv
<1>7. LeftoversAreWiped'
  BY <1>4, <1>6 DEF OrphanInv, LeftoversAreWiped, Pending, Final
<1>8. \A q \in Solutions \ {s} : InFlight(q) => InFlight(q)'
  BY <1>1, InFlightKept DEF OrphanInv
<1>9. rows'[s].status \in Pending => InFlight(s)' \/ LostTest(s)'
  <2> SUFFICES ASSUME rows'[s].status \in Pending
               PROVE  InFlight(s)' \/ LostTest(s)'
    OBVIOUS
  <2>1. rows'[s] = rows[s] /\ Refused(s, ok[w] \cup bad[w])
    BY <1>4 DEF Pending, Final
  <2>2. CASE Ran(rows[s]) # {}
    <3>1. Due(s)'
      BY <1>6, <2>1, <2>2 DEF OrphanInv, LeftoversAreWiped
    <3> QED BY <3>1 DEF Due, InFlight
  <2>3. CASE Ran(rows[s]) = {}
    <3>1. (ok[w] \cup bad[w]) \cap Deleted # {}
      BY <1>2, <2>1, <2>3 DEF Refused
    <3>2. job[w] \in sent /\ ok[w] \cup bad[w] \subseteq job[w].tests
      BY <1>1 DEF OrphanInv, RunsOK, TypeInv, HoldersOK
    <3>3. LostTest(s)
      BY <3>1, <3>2 DEF LostTest
    <3> QED BY <3>3, LostTestStable DEF OrphanInv
  <2> QED BY <2>2, <2>3
<1>10. NoOrphan'
  BY <1>4, <1>8, <1>9, LostTestStable DEF OrphanInv, NoOrphan
<1> QED BY <1>5, <1>7, <1>10 DEF OrphanInv

\* Every step leaves each unjudged row with somebody who will judge it, and
\* leftover runs only where a judging is due.
LEMMA OrphanStep == OrphanInv /\ [Next]_vars => OrphanInv'
<1> SUFFICES ASSUME OrphanInv, [Next]_vars PROVE OrphanInv'
  OBVIOUS
<1>1. CASE UNCHANGED vars
  BY <1>1 DEF vars, OrphanInv, TypeInv, TypeOK, HoldersOK, RowsPresent, RunsOK,
     LeftoversAreWiped, NoOrphan, Due, InFlight, LostTest, Deleted, Ran
<1>2. CASE Next
  <2>0. TypeInv'
    BY <1>2, TypeStep DEF OrphanInv
  <2>1. ASSUME NEW c \in Clients, NEW s \in Solutions, Submit(c, s) \/ Resubmit(c, s)
        PROVE  OrphanInv'
    BY <1>2, <2>1, SendOrphan
  <2>2. ASSUME NEW c \in Clients, Commit(c)
        PROVE  OrphanInv'
    BY <1>2, <2>2, CommitOrphan
  <2>3. CASE \/ \E c \in Clients : Rollback(c)
             \/ AddTest \/ ModifyTest \/ \E t \in TestIds : DeleteTest(t)
    BY <1>2, <2>0, <2>3, QuietOrphan
  <2>4. ASSUME NEW w \in Workers, Judge(w) \/ Crash(w)
        PROVE  OrphanInv'
    <3>1. CASE Receive(w) \/ Compile(w) \/ RunTest(w) \/ Crash(w)
      BY <1>2, <2>0, <3>1, QuietSlaveOrphan
    <3>2. CASE StoreCompiling(w) \/ StoreRunning(w) \/ StoreProcessed(w)
                 \/ StoreFailure(w) \/ StoreCompilationError(w)
      <4>1. CASE pc'[w] = "idle"
        <5>1. ~StoreCompiling(w) /\ ~StoreRunning(w)
          BY <4>1 DEF StoreCompiling, StoreRunning, Goto, OrphanInv, TypeInv, TypeOK
        <5> QED BY <1>2, <2>0, <3>2, <4>1, <5>1, LastOrphan
      <4>2. CASE pc'[w] # "idle"
        <5>1. ~StoreFailure(w) /\ ~StoreCompilationError(w)
          BY <4>2 DEF StoreFailure, StoreCompilationError, Idle,
                      OrphanInv, TypeInv, TypeOK
        <5> QED BY <1>2, <2>0, <3>2, <4>2, <5>1, StageOrphan
      <4> QED BY <4>1, <4>2
    <3> QED BY <2>4, <3>1, <3>2 DEF Judge
  <2> QED BY <1>2, <2>1, <2>2, <2>3, <2>4 DEF Next
<1> QED BY <1>1, <1>2

\* A solution with a pending status is never forgotten, for any number of
\* slaves and resubmits and any crashes.
THEOREM NeverForgotten == Spec => []NoOrphan
<1>1. OrphanInv /\ [Next]_vars => OrphanInv'
  BY OrphanStep
<1>2. OrphanInv => NoOrphan
  BY DEF OrphanInv
<1> QED BY <1>1, <1>2, OrphanInit, PTL DEF Spec

\* Runs shown beside a pending status are always due to be wiped: the message
\* of the resubmit that left them there is waiting or has just been taken.
THEOREM LeftoversDue == Spec => []LeftoversAreWiped
<1>1. OrphanInv /\ [Next]_vars => OrphanInv'
  BY OrphanStep
<1>2. OrphanInv => LeftoversAreWiped
  BY DEF OrphanInv
<1> QED BY <1>1, <1>2, OrphanInit, PTL DEF Spec

-----------------------------------------------------------------------------
(* A verdict is one complete judging.                                       *)

\* The runs a slave has made so far are those of the first tests, and if a
\* failure ends the loop it is the last of them.
JudgeOK ==
    \A w \in Workers :
        /\ ok[w] \cap bad[w] = {}
        /\ pc[w] # "idle" => \A t \in ok[w] \cup bad[w], u \in ToRun(w) : t < u
        /\ pc[w] # "idle" /\ job[w].sol \notin RunAllTests =>
              \A t \in bad[w], u \in ok[w] \cup bad[w] : u <= t

VerdictInv == OrphanInv /\ JudgeOK /\ VerdictComplete

\* The runs a slave has made are those of the first tests, the last of them
\* alone failed.
LEMMA JudgeStep ==
    ASSUME OrphanInv, JudgeOK, [Next]_vars
    PROVE  JudgeOK'
<1> USE DEF JudgeOK, ToRun
<1>1. CASE UNCHANGED <<pc, job, ok, bad>>
  BY <1>1
<1>2. ASSUME NEW w \in Workers, Receive(w)
      PROVE  JudgeOK'
  BY <1>2 DEF Receive, OrphanInv, RunsOK, TypeInv, TypeOK
<1>3. ASSUME NEW w \in Workers, RunTest(w)
      PROVE  JudgeOK'
  <2>1. /\ ok \in [Workers -> SUBSET Int] /\ bad \in [Workers -> SUBSET Int]
        /\ pc[w] = "running" /\ job' = job
        /\ \A v \in Workers \ {w} : ok'[v] = ok[v] /\ bad'[v] = bad[v] /\ pc'[v] = pc[v]
    BY <1>3, JudgingAssumption DEF RunTest, OrphanInv, TypeInv, TypeOK, TestIds
  <2>2. PICK t \in ToRun(w) :
            /\ \A u \in ToRun(w) : t <= u
            /\ \/ ok'[w] = ok[w] \cup {t} /\ bad'[w] = bad[w]
               \/ ok'[w] = ok[w] /\ bad'[w] = bad[w] \cup {t}
               \/ ok'[w] = ok[w] /\ bad'[w] = bad[w]
    BY <1>3 DEF RunTest, OrphanInv, TypeInv, TypeOK
  <2>3. t \in Int /\ ToRun(w) \subseteq Int
    BY <2>1, JudgingAssumption
    DEF OrphanInv, TypeInv, TypeOK, HoldersOK, Message, TestIds
  <2>4. ok'[w] \cap bad'[w] = {}
    BY <2>2
  <2>5. \A r \in ok'[w] \cup bad'[w], u \in ToRun(w)' : r < u
    BY <2>1, <2>2, <2>3
  <2>6. job[w].sol \notin RunAllTests => \A r \in bad'[w], u \in ok'[w] \cup bad'[w] : u <= r
    <3>1. job[w].sol \notin RunAllTests => bad[w] = {}
      BY <1>3 DEF RunTest, LoopDone
    <3> QED BY <2>1, <2>2, <2>3, <3>1
  <2> QED BY <2>1, <2>4, <2>5, <2>6
<1>4. ASSUME NEW w \in Workers, pc[w] # "idle",
             (\E stage \in Stages : Goto(w, stage)) \/ Idle(w)
      PROVE  JudgeOK'
  BY <1>4 DEF Goto, Idle, OrphanInv, TypeInv, TypeOK
<1>5. CASE Next
  <2>1. ASSUME NEW w \in Workers, Judge(w) \/ Crash(w)
        PROVE  JudgeOK'
    <3>1. CASE Receive(w)
      BY <1>2, <3>1
    <3>2. CASE RunTest(w)
      BY <1>3, <3>2
    <3>3. CASE ~Receive(w) /\ ~RunTest(w)
      <4>1. pc[w] # "idle" /\ ((\E stage \in Stages : Goto(w, stage)) \/ Idle(w))
        BY <2>1, <3>3 DEF Judge, StoreCompiling, Compile, StoreRunning,
           StoreProcessed, StoreFailure, StoreCompilationError, Crash, Stages
      <4> QED BY <1>4, <4>1
    <3> QED BY <3>1, <3>2, <3>3
  <2>2. CASE UNCHANGED <<pc, job, ok, bad>>
    BY <1>1, <2>2
  <2> QED
    BY <1>5, <2>1, <2>2
    DEF Next, Submit, Resubmit, Commit, Rollback, AddTest, ModifyTest,
        DeleteTest, slaveVars
<1> QED BY <1>1, <1>5 DEF vars

\* What StoreProcessed stores is complete.
LEMMA StoredComplete ==
    ASSUME OrphanInv, JudgeOK, NEW w \in Workers, pc[w] # "idle", LoopDone(w)
    PROVE  Complete(job[w].sol, ok[w], bad[w], job[w].tests)
  BY DEF OrphanInv, RunsOK, JudgeOK, LoopDone, ToRun, Complete

\* A verdict is stored with the runs it was made of, and with them only.
LEMMA VerdictStep ==
    ASSUME OrphanInv, JudgeOK, VerdictComplete, [Next]_vars
    PROVE  VerdictComplete'
<1>0. sent \subseteq sent'
  BY DEF vars, Next, Submit, Resubmit, Send, Commit, Rollback, AddTest, ModifyTest,
         DeleteTest, Judge, Receive, StoreCompiling, Compile, StoreRunning,
         RunTest, StoreProcessed, StoreFailure, StoreCompilationError, Crash,
         webVars
<1> SUFFICES ASSUME NEW s \in Solutions, rows'[s].status = "PROCESSED", ~Due(s)'
             PROVE  \E m \in sent' : m.sol = s /\
                        Complete(s, rows'[s].ok, rows'[s].bad, m.tests)
  BY DEF VerdictComplete, Complete
<1>1. CASE rows'[s] = rows[s] /\ ~Due(s)
  BY <1>0, <1>1 DEF VerdictComplete
<1>2. CASE UNCHANGED <<rows, queue, pc, job>>
  BY <1>1, <1>2 DEF Due
<1>3. ASSUME NEW c \in Clients, Commit(c)
      PROVE  rows'[s] = rows[s] /\ ~Due(s)
  <2> PICK t \in TxType : t = tx[c]
    BY DEF OrphanInv, TypeInv, TypeOK
  <2>1. /\ rows' = [rows EXCEPT ![t.msg.sol] = Committed(t, rows[t.msg.sol])]
        /\ queue' = queue \cup {t.msg}
        /\ pc' = pc /\ job' = job
    BY <1>3 DEF Commit, slaveVars
  <2>2. s # t.msg.sol
    BY <2>1 DEF Due
  <2>3. ~Due(s)
    BY <2>1 DEF Due
  <2> QED BY <2>1, <2>2, <2>3 DEF OrphanInv, TypeInv, TypeOK
<1>4. ASSUME NEW w \in Workers, Judge(w) \/ Crash(w), rows'[s] = rows[s]
      PROVE  ~Due(s)
  <2>1. ASSUME StoreCompiling(w), s = job[w].sol
        PROVE  FALSE
    <3>1. ~Refused(s, {})
      BY <2>1 DEF StoreCompiling, OrphanInv, RowsPresent, Refused
    <3>2. Save(s, "COMPILING", {}, {})
      BY <2>1, <3>1 DEF StoreCompiling
    <3> QED BY <3>2 DEF Save, OrphanInv, TypeInv, TypeOK
  <2> QED BY <1>4, <2>1, DueKept DEF OrphanInv
<1>5. ASSUME NEW w \in Workers, StoreProcessed(w), rows'[s] # rows[s]
      PROVE  \E m \in sent' : m.sol = s /\
                 Complete(s, rows'[s].ok, rows'[s].bad, m.tests)
  <2>1. /\ job[w] \in sent /\ job[w].sol = s
        /\ rows'[s] = [status |-> "PROCESSED", ok |-> ok[w], bad |-> bad[w]]
        /\ pc[w] # "idle" /\ LoopDone(w)
    BY <1>5 DEF StoreProcessed, Save, OrphanInv, TypeInv, TypeOK, HoldersOK
  <2> QED BY <1>0, <2>1, StoredComplete
<1>6. ASSUME NEW w \in Workers, Judge(w) \/ Crash(w), ~StoreProcessed(w)
      PROVE  rows'[s] = rows[s]
  BY <1>6
  DEF Judge, Crash, Receive, StoreCompiling, Compile, StoreRunning, RunTest,
      StoreFailure, StoreCompilationError, Save, OrphanInv, TypeInv, TypeOK
<1>7. CASE UNCHANGED vars
  BY <1>2, <1>7 DEF vars
<1>8. CASE Next
  <2>1. ASSUME NEW w \in Workers, Judge(w) \/ Crash(w)
        PROVE  \E m \in sent' : m.sol = s /\
                   Complete(s, rows'[s].ok, rows'[s].bad, m.tests)
    <3>1. CASE rows'[s] = rows[s]
      BY <1>1, <1>4, <2>1, <3>1
    <3>2. CASE rows'[s] # rows[s]
      BY <1>5, <1>6, <2>1, <3>2
    <3> QED BY <3>1, <3>2
  <2>2. ASSUME NEW c \in Clients, NEW q \in Solutions, Submit(c, q) \/ Resubmit(c, q)
        PROVE  UNCHANGED <<rows, queue, pc, job>>
    BY <2>2 DEF Submit, Resubmit, Send, slaveVars
  <2>3. CASE \/ \E c \in Clients : Rollback(c)
             \/ AddTest \/ ModifyTest \/ \E t \in TestIds : DeleteTest(t)
    BY <1>2, <2>3 DEF Rollback, AddTest, ModifyTest, DeleteTest, slaveVars
  <2> QED BY <1>1, <1>2, <1>3, <1>8, <2>1, <2>2, <2>3 DEF Next
<1> QED BY <1>7, <1>8

\* A published verdict is one complete judging: whatever the interleaving of
\* slaves, resubmits, edits of the tests and crashes, a PROCESSED row with no
\* new judging due holds the runs of one pass over one message's tests.
THEOREM VerdictsAreWhole ==
    Spec => []VerdictComplete
<1>1. Init => VerdictInv
  BY OrphanInit
  DEF VerdictInv, Init, JudgeOK, VerdictComplete, EmptyRow
<1>2. VerdictInv /\ [Next]_vars => VerdictInv'
  BY OrphanStep, JudgeStep, VerdictStep DEF VerdictInv
<1>3. VerdictInv => VerdictComplete
  BY DEF VerdictInv
<1> QED BY <1>1, <1>2, <1>3, PTL DEF Spec

-----------------------------------------------------------------------------
(* Runs of two judgings are never mixed, and the first result wins.         *)

\* What a slave's step makes of a row: nothing, a row without runs, or its own
\* runs, if they have the keys of no run stored and of no deleted test.
LEMMA SlaveRow ==
    ASSUME OrphanInv, NEW w \in Workers, Judge(w) \/ Crash(w),
           NEW s \in Solutions
    PROVE  \/ rows'[s] = rows[s]
           \/ Ran(rows'[s]) = {}
           \/ /\ pc[w] # "idle" /\ job[w].sol = s
              /\ rows'[s].ok = ok[w] /\ rows'[s].bad = bad[w]
              /\ ~Refused(s, ok[w] \cup bad[w])
<1>1. ASSUME NEW status \in Statuses, NEW passed, NEW failed,
             Save(job[w].sol, status, passed, failed), rows'[s] # rows[s]
      PROVE  /\ job[w].sol = s
             /\ rows'[s].ok = passed /\ rows'[s].bad = failed
             /\ ~Refused(s, passed \cup failed)
  BY <1>1 DEF Save, OrphanInv, TypeInv, TypeOK
<1>2. CASE Receive(w) \/ Compile(w) \/ RunTest(w) \/ Crash(w)
  BY <1>2 DEF Receive, Compile, RunTest, Crash
<1>3. CASE StoreCompiling(w) \/ StoreRunning(w) \/ StoreCompilationError(w)
  BY <1>1, <1>3
  DEF StoreCompiling, StoreRunning, StoreCompilationError, Ran,
      Statuses, Pending, Final
<1>4. CASE StoreProcessed(w) \/ StoreFailure(w)
  BY <1>1, <1>4 DEF StoreProcessed, StoreFailure, Statuses, Final
<1> QED BY <1>2, <1>3, <1>4 DEF Judge

\* What a commit makes of a row: it only takes runs away, and if it does
\* anything to the row a judging of it is due.
LEMMA CommitRow ==
    ASSUME TypeInv, NEW c \in Clients, Commit(c), NEW s \in Solutions
    PROVE  /\ rows'[s].ok \subseteq rows[s].ok
           /\ rows'[s].bad \subseteq rows[s].bad
           /\ rows'[s] = rows[s] \/ Due(s)'
           /\ Due(s) => Due(s)'
<1> PICK t \in TxType : t = tx[c]
  BY DEF TypeInv, TypeOK
<1>1. /\ rows' = [rows EXCEPT ![t.msg.sol] = Committed(t, rows[t.msg.sol])]
      /\ queue' = queue \cup {t.msg}
      /\ pc' = pc /\ job' = job
  BY DEF Commit, slaveVars
<1>2. Due(s) => Due(s)'
  BY <1>1 DEF Due
<1>3. CASE s # t.msg.sol
  BY <1>1, <1>2, <1>3 DEF TypeInv, TypeOK
<1>4. CASE s = t.msg.sol
  <2>1. Due(s)'
    BY <1>1, <1>4 DEF Due
  <2>2. rows'[s] = Committed(t, rows[s])
    BY <1>1, <1>4 DEF TypeInv, TypeOK
  <2>3. /\ Committed(t, rows[s]).ok \subseteq rows[s].ok
        /\ Committed(t, rows[s]).bad \subseteq rows[s].bad
    BY DEF Committed
  <2> QED BY <2>1, <2>2, <2>3
<1> QED BY <1>3, <1>4

\* Only a commit and the steps of the slaves change rows or make a judging
\* that is due not due.
LEMMA OtherRows ==
    ASSUME Next, ~(\E c \in Clients : Commit(c)),
           ~(\E w \in Workers : Judge(w) \/ Crash(w)), NEW s \in Solutions
    PROVE  rows' = rows /\ (Due(s)' <=> Due(s))
<1>1. UNCHANGED <<rows, queue, pc, job>>
  BY DEF Next, Submit, Resubmit, Send, Rollback, AddTest, ModifyTest,
         DeleteTest, slaveVars
<1> QED BY <1>1 DEF Due

\* A message that was made has been made for good.
LEMMA SentGrows == [Next]_vars => sent \subseteq sent'
  BY DEF vars, Next, Submit, Resubmit, Send, Commit, Rollback, AddTest,
         ModifyTest, DeleteTest, Judge, Receive, StoreCompiling, Compile,
         StoreRunning, RunTest, StoreProcessed, StoreFailure,
         StoreCompilationError, Crash, webVars

\* The runs a slave has made are unmixed, so a row that stores them is.
LEMMA MixStep ==
    ASSUME OrphanInv, JudgeOK, RunsNotMixed, [Next]_vars
    PROVE  RunsNotMixed'
<1> SUFFICES ASSUME NEW s \in Solutions, Ran(rows'[s]) # {}
             PROVE  /\ \E m \in sent' : m.sol = s /\ Ran(rows'[s]) \subseteq m.tests
                    /\ rows'[s].ok \cap rows'[s].bad = {}
                    /\ s \notin RunAllTests =>
                         \A t \in rows'[s].bad, u \in Ran(rows'[s]) : u <= t
  BY DEF RunsNotMixed, Ran
<1>0. sent \subseteq sent'
  BY SentGrows
<1>1. CASE /\ rows'[s].ok \subseteq rows[s].ok
           /\ rows'[s].bad \subseteq rows[s].bad
  <2>1. Ran(rows'[s]) \subseteq Ran(rows[s]) /\ Ran(rows[s]) # {}
    BY <1>1 DEF Ran
  <2> QED BY <1>0, <1>1, <2>1 DEF RunsNotMixed
<1>2. ASSUME NEW w \in Workers, pc[w] # "idle", job[w].sol = s,
             rows'[s].ok = ok[w], rows'[s].bad = bad[w]
      PROVE  /\ \E m \in sent' : m.sol = s /\ Ran(rows'[s]) \subseteq m.tests
             /\ rows'[s].ok \cap rows'[s].bad = {}
             /\ s \notin RunAllTests =>
                  \A t \in rows'[s].bad, u \in Ran(rows'[s]) : u <= t
  <2>1. job[w] \in sent' /\ ok[w] \cup bad[w] \subseteq job[w].tests
    BY <1>0, <1>2 DEF OrphanInv, TypeInv, HoldersOK, RunsOK
  <2> QED BY <1>2, <2>1 DEF JudgeOK, Ran
<1>3. CASE UNCHANGED vars
  BY <1>1, <1>3 DEF vars
<1>4. CASE \E c \in Clients : Commit(c)
  BY <1>1, <1>4, CommitRow DEF OrphanInv
<1>5. ASSUME NEW w \in Workers, Judge(w) \/ Crash(w)
      PROVE  /\ \E m \in sent' : m.sol = s /\ Ran(rows'[s]) \subseteq m.tests
             /\ rows'[s].ok \cap rows'[s].bad = {}
             /\ s \notin RunAllTests =>
                  \A t \in rows'[s].bad, u \in Ran(rows'[s]) : u <= t
  BY <1>1, <1>2, <1>5, SlaveRow
<1> QED BY <1>1, <1>3, <1>4, <1>5, OtherRows

\* A row never holds runs of two judgings: for any number of slaves that judge
\* a solution at once, its runs are of one message's tests, one per test, and
\* none comes after a failure that ends the loop.
THEOREM NothingMixed == Spec => []RunsNotMixed
<1> DEFINE Inv == OrphanInv /\ JudgeOK /\ RunsNotMixed
<1>1. Init => Inv
  BY OrphanInit DEF Init, JudgeOK, RunsNotMixed, EmptyRow, Ran
<1>2. Inv /\ [Next]_vars => Inv'
  BY OrphanStep, JudgeStep, MixStep
<1>3. Inv => RunsNotMixed
  OBVIOUS
<1> QED BY <1>1, <1>2, <1>3, PTL DEF Spec

\* The tests of a message are those that existed when it was made, and
\* identifiers come from a sequence, so a test that still exists and comes
\* before one of the message's tests is one of them.
SnapshotsOK ==
    \A m \in sent :
        /\ m.tests \subseteq 1..created
        /\ \A t \in m.tests, u \in tests : u <= t => u \in m.tests

\* A stored run is a run of a test that exists.
KeysOK == \A s \in Solutions : Ran(rows[s]) \subseteq tests

\* The runs of a row for which no judging is due are those of the first tests
\* of a message.
FirstTestsOK ==
    \A s \in Solutions :
        Ran(rows[s]) # {} /\ ~Due(s) =>
            \E m \in sent :
                /\ m.sol = s /\ Ran(rows[s]) \subseteq m.tests
                /\ \A t \in Ran(rows[s]), u \in m.tests \ Ran(rows[s]) : t < u

FirstInv == OrphanInv /\ JudgeOK /\ SnapshotsOK /\ KeysOK /\ FirstTestsOK

\* New tests come after all others, so a message keeps the tests below its last
\* one unless they are deleted.
LEMMA SnapshotsStep ==
    ASSUME TypeInv, SnapshotsOK, [Next]_vars
    PROVE  SnapshotsOK'
<1>1. CASE UNCHANGED <<sent, tests, created>>
  BY <1>1 DEF SnapshotsOK
<1>2. ASSUME NEW c \in Clients, NEW s \in Solutions, Submit(c, s) \/ Resubmit(c, s)
      PROVE  SnapshotsOK'
  <2>1. /\ sent' = sent \cup {[id |-> sends + 1, sol |-> s, tests |-> tests]}
        /\ UNCHANGED <<tests, created>>
    BY <1>2 DEF Submit, Resubmit, Send
  <2>2. tests \subseteq 1..created
    BY DEF TypeInv, TypeOK
  <2> SUFFICES ASSUME NEW m \in sent'
               PROVE  /\ m.tests \subseteq 1..created
                      /\ \A t \in m.tests, u \in tests : u <= t => u \in m.tests
    BY <2>1 DEF SnapshotsOK
  <2>3. CASE m \in sent
    BY <2>3 DEF SnapshotsOK
  <2>4. CASE m.tests = tests
    BY <2>2, <2>4
  <2> QED BY <2>1, <2>3, <2>4
<1>3. CASE AddTest
  <2>1. created \in Int /\ tests' = tests \cup {created + 1}
        /\ created' = created + 1 /\ sent' = sent
    BY <1>3, JudgingAssumption DEF AddTest, TypeInv, TypeOK
  <2>2. \A m \in sent : m.tests \subseteq 1..created' /\ created + 1 \notin m.tests
    BY <2>1 DEF SnapshotsOK
  <2>3. \A m \in sent : \A t \in m.tests : ~(created + 1 <= t)
    BY <2>1 DEF SnapshotsOK
  <2> QED BY <2>1, <2>2, <2>3 DEF SnapshotsOK
<1>4. ASSUME NEW t \in TestIds, DeleteTest(t)
      PROVE  SnapshotsOK'
  BY <1>4 DEF DeleteTest, SnapshotsOK
<1> QED
  BY <1>1, <1>2, <1>3, <1>4
  DEF vars, Next, Commit, Rollback, ModifyTest, Judge, Receive,
      StoreCompiling, Compile, StoreRunning, RunTest, StoreProcessed,
      StoreFailure, StoreCompilationError, Crash, webVars

\* A run is stored only for a test that exists, and deleting the test deletes
\* its runs.
LEMMA KeysStep ==
    ASSUME OrphanInv, SnapshotsOK, KeysOK, [Next]_vars
    PROVE  KeysOK'
<1> SUFFICES ASSUME NEW s \in Solutions PROVE Ran(rows'[s]) \subseteq tests'
  BY DEF KeysOK, Ran
<1>1. CASE UNCHANGED <<rows, tests>>
  BY <1>1 DEF KeysOK
<1>2. ASSUME NEW c \in Clients, Commit(c)
      PROVE  Ran(rows'[s]) \subseteq tests'
  BY <1>2, CommitRow DEF Commit, KeysOK, Ran, OrphanInv
<1>3. ASSUME NEW w \in Workers, Judge(w) \/ Crash(w)
      PROVE  Ran(rows'[s]) \subseteq tests'
  <2>1. tests' = tests
    BY <1>3
    DEF Judge, Receive, StoreCompiling, Compile, StoreRunning, RunTest,
        StoreProcessed, StoreFailure, StoreCompilationError, Crash, webVars
  <2>2. ASSUME pc[w] # "idle", rows'[s].ok = ok[w], rows'[s].bad = bad[w],
               ~Refused(s, ok[w] \cup bad[w])
        PROVE  Ran(rows'[s]) \subseteq tests
    <3>1. ok[w] \cup bad[w] \subseteq 1..created
      BY <2>2 DEF OrphanInv, RunsOK, TypeInv, HoldersOK, SnapshotsOK
    <3>2. (ok[w] \cup bad[w]) \cap ((1..created) \ tests) = {}
      BY <2>2 DEF Refused, Deleted
    <3> QED BY <2>2, <3>1, <3>2 DEF Ran
  <2> QED BY <1>3, <2>1, <2>2, SlaveRow DEF KeysOK
<1>4. CASE AddTest \/ \E t \in TestIds : DeleteTest(t)
  BY <1>4 DEF AddTest, DeleteTest, KeysOK
<1> QED
  BY <1>1, <1>2, <1>3, <1>4
  DEF vars, Next, Submit, Resubmit, Send, Rollback, ModifyTest, webVars

\* The runs a judged row keeps are those of the first tests of some message.
LEMMA FirstTestsStep ==
    ASSUME OrphanInv, JudgeOK, FirstTestsOK, [Next]_vars
    PROVE  FirstTestsOK'
<1> SUFFICES ASSUME NEW s \in Solutions, Ran(rows'[s]) # {}, ~Due(s)'
             PROVE  \E m \in sent' :
                        /\ m.sol = s /\ Ran(rows'[s]) \subseteq m.tests
                        /\ \A t \in Ran(rows'[s]), u \in m.tests \ Ran(rows'[s]) :
                               t < u
  BY DEF FirstTestsOK, Ran
<1>0. sent \subseteq sent'
  BY SentGrows
<1>1. CASE rows'[s] = rows[s] /\ ~Due(s)
  BY <1>0, <1>1 DEF FirstTestsOK
<1>2. CASE UNCHANGED vars
  BY <1>1, <1>2 DEF vars, Due
<1>3. CASE \E c \in Clients : Commit(c)
  BY <1>1, <1>3, CommitRow DEF OrphanInv
<1>4. ASSUME NEW w \in Workers, Judge(w) \/ Crash(w)
      PROVE  \E m \in sent' :
                 /\ m.sol = s /\ Ran(rows'[s]) \subseteq m.tests
                 /\ \A t \in Ran(rows'[s]), u \in m.tests \ Ran(rows'[s]) : t < u
  <2>1. ~(StoreCompiling(w) /\ s = job[w].sol)
    <3> SUFFICES ASSUME StoreCompiling(w), s = job[w].sol PROVE FALSE
      OBVIOUS
    <3>1. ~Refused(s, {})
      BY DEF StoreCompiling, OrphanInv, RowsPresent, Refused
    <3>2. Save(s, "COMPILING", {}, {})
      BY <3>1 DEF StoreCompiling
    <3> QED BY <3>2 DEF Save, OrphanInv, TypeInv, TypeOK, Ran
  <2>2. ~Due(s)
    BY <1>4, <2>1, DueKept DEF OrphanInv
  <2>3. ASSUME pc[w] # "idle", job[w].sol = s,
               rows'[s].ok = ok[w], rows'[s].bad = bad[w]
        PROVE  \E m \in sent' :
                 /\ m.sol = s /\ Ran(rows'[s]) \subseteq m.tests
                 /\ \A t \in Ran(rows'[s]), u \in m.tests \ Ran(rows'[s]) : t < u
    <3>1. job[w] \in sent' /\ ok[w] \cup bad[w] \subseteq job[w].tests
      BY <1>0, <2>3 DEF OrphanInv, TypeInv, HoldersOK, RunsOK
    <3>2. \A t \in ok[w] \cup bad[w], u \in job[w].tests \ (ok[w] \cup bad[w]) :
             t < u
      BY <2>3 DEF JudgeOK, ToRun
    <3> QED BY <2>3, <3>1, <3>2 DEF Ran
  <2> QED BY <1>1, <1>4, <2>2, <2>3, SlaveRow
<1> QED BY <1>1, <1>2, <1>3, <1>4, OtherRows

\* Two judgings that both began, and whose tests still exist, have run a test
\* in common: the smaller of any two of theirs.
LEMMA CommonTest ==
    ASSUME FirstInv, NEW w \in Workers, pc[w] # "idle",
           ok[w] \cup bad[w] # {}, (ok[w] \cup bad[w]) \cap Deleted = {},
           NEW s \in Solutions, Ran(rows[s]) # {}, ~Due(s)
    PROVE  (ok[w] \cup bad[w]) \cap Ran(rows[s]) # {}
<1> DEFINE mine == ok[w] \cup bad[w]
           stored == Ran(rows[s])
<1>1. PICK m \in sent : /\ stored \subseteq m.tests
                        /\ \A t \in stored, u \in m.tests \ stored : t < u
  BY DEF FirstInv, FirstTestsOK
<1>2. /\ job[w] \in sent /\ mine \subseteq job[w].tests
      /\ \A t \in mine, u \in job[w].tests \ mine : t < u
  BY DEF FirstInv, OrphanInv, TypeInv, HoldersOK, RunsOK, JudgeOK, ToRun
<1>3. mine \subseteq 1..created /\ mine \subseteq tests /\ stored \subseteq tests
  BY <1>2 DEF FirstInv, SnapshotsOK, KeysOK, Deleted
<1>4. tests \subseteq Int
  BY JudgingAssumption DEF FirstInv, OrphanInv, TypeInv, TypeOK
<1>5. PICK r \in stored, n \in mine : TRUE
  OBVIOUS
<1>6. r \in tests /\ n \in tests /\ r \in Int /\ n \in Int
  BY <1>3, <1>4, <1>5
<1>7. CASE n <= r
  <2>1. n \in m.tests
    BY <1>1, <1>5, <1>6, <1>7 DEF FirstInv, SnapshotsOK
  <2>2. ~(r < n)
    BY <1>6, <1>7
  <2>3. n \in stored
    BY <1>1, <1>5, <2>1, <2>2
  <2> QED BY <1>5, <2>3
<1>8. CASE r <= n
  <2>1. r \in job[w].tests
    BY <1>2, <1>5, <1>6, <1>8 DEF FirstInv, SnapshotsOK
  <2>2. ~(n < r)
    BY <1>6, <1>8
  <2>3. r \in mine
    BY <1>2, <1>5, <2>1, <2>2
  <2> QED BY <1>5, <2>3
<1> QED BY <1>6, <1>7, <1>8

\* The first result wins, for any number of slaves, resubmits and crashes and
\* whatever tests are added and deleted: while no new judging is due, the keys
\* of the runs keep a slave from putting another judging's in their place.
THEOREM FirstWins == Spec => FirstVerdictWins
<1>1. Init => FirstInv
  BY OrphanInit
  DEF FirstInv, Init, JudgeOK, SnapshotsOK, KeysOK, FirstTestsOK, EmptyRow, Ran
<1>2. FirstInv /\ [Next]_vars => FirstInv'
  BY OrphanStep, JudgeStep, SnapshotsStep, KeysStep, FirstTestsStep
  DEF FirstInv, OrphanInv
<1>3. FirstInv /\ [Next]_vars =>
        [ \A w \in Workers, s \in Solutions :
            /\ Judge(w)
            /\ Ran(rows[s]) # {} /\ ~Due(s)
            /\ Ran(rows'[s]) # {}
            => rows'[s] = rows[s] ]_vars
  <2> SUFFICES ASSUME FirstInv, NEW w \in Workers, NEW s \in Solutions,
                      Judge(w), Ran(rows[s]) # {}, ~Due(s), Ran(rows'[s]) # {}
               PROVE  rows'[s] = rows[s]
    OBVIOUS
  <2>1. ASSUME pc[w] # "idle", rows'[s].ok = ok[w], rows'[s].bad = bad[w],
               ~Refused(s, ok[w] \cup bad[w])
        PROVE  FALSE
    <3>1. /\ (ok[w] \cup bad[w]) \cap Ran(rows[s]) = {}
          /\ (ok[w] \cup bad[w]) \cap Deleted = {}
      BY <2>1 DEF Refused
    <3>2. ok[w] \cup bad[w] # {}
      BY <2>1 DEF Ran
    <3> QED BY <2>1, <3>1, <3>2, CommonTest
  <2> QED BY <2>1, SlaveRow DEF FirstInv
<1> QED BY <1>1, <1>2, <1>3, PTL DEF Spec, FirstVerdictWins
=============================================================================
