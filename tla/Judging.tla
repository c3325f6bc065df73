------------------------------- MODULE Judging -------------------------------
(***************************************************************************)
(* The judging pipeline of the Dudge contest system: the web tier's EJBs   *)
(* (DudgeBean, SolutionBean, TestBean) that accept solutions, put them     *)
(* again and edit the tests of a problem; the JMS queue "dudgesolutions";  *)
(* and the slaves, whose message-driven bean (SolutionsQueue) and session  *)
(* bean (SlaveBean) compile a solution, run it on the tests that were      *)
(* serialized into the message, and store every stage of the judging       *)
(* through SolutionBean.saveSolution.                                      *)
(*                                                                         *)
(* One problem is modelled; its tests are database identifiers taken from  *)
(* a sequence, so a later test has a greater identifier.  A slave's tests  *)
(* are sorted by identifier (Test.compareTo).  A step is a database        *)
(* transaction or a stage of a slave between two of them.                  *)
(***************************************************************************)
EXTENDS Integers, FiniteSets

CONSTANTS
    Solutions,    \* identifiers of solutions
    Clients,      \* web threads that submit or resubmit
    Workers,      \* slave threads: instances of the message-driven bean
    MaxTests,     \* bound: tests ever created
    InitialTests, \* tests the problem has at the start
    MaxSends,     \* bound: messages ever sent
    MaxCrashes,   \* bound: crashes of a slave
    RunAllTests   \* solutions of contests whose ContestTraits.isRunAllTests

ASSUME JudgingAssumption ==
    /\ MaxTests \in Nat /\ InitialTests \in 0..MaxTests
    /\ MaxSends \in Nat /\ MaxCrashes \in Nat
    /\ RunAllTests \subseteq Solutions

VARIABLES
    rows,     \* rows[s]: the solution's row and its runs, as committed
    tests,    \* the identifiers of the problem's tests
    created,  \* the last test identifier handed out
    healthy,  \* the problem's healthy flag
    queue,    \* messages waiting in the JMS queue
    sends,    \* number of messages made so far
    sent,     \* history: every message made, read by the properties only
    tx,       \* tx[c]: the client's open transaction
    pc,       \* pc[w]: stage of the slave thread
    job,      \* job[w]: the message the slave thread works on
    ok,       \* ok[w]: tests passed so far
    bad,      \* bad[w]: tests failed so far
    crashes   \* crashes so far

vars == <<rows, tests, created, healthy, queue, sends, sent, tx, pc, job,
          ok, bad, crashes>>

webVars   == <<tests, created, sends, sent, tx>>
slaveVars == <<pc, job, ok, bad, crashes>>

TestIds  == 1..MaxTests
Deleted  == (1..created) \ tests

\* SolutionStatus; ABSENT is a row that no transaction has committed yet.
\* DISQUALIFIED is left out: no code sets it.
Pending  == {"NEW", "COMPILING", "RUNNING"}
Final    == {"COMPILATION_ERROR", "INTERNAL_ERROR", "PROCESSED"}
Statuses == Pending \cup Final \cup {"ABSENT"}

\* A Solution serialized by getSolutionEager: its tests as they were then.
\* Its status is NEW and it has no runs, whoever sends it.
Message == [id : 1..MaxSends, sol : Solutions, tests : SUBSET TestIds]

NoTx     == [kind |-> "none"]
NoJob    == [id |-> 0]
EmptyRow == [status |-> "ABSENT", ok |-> {}, bad |-> {}]

Ran(row) == row.ok \cup row.bad

Init ==
    /\ rows = [s \in Solutions |-> EmptyRow]
    /\ tests = 1..InitialTests
    /\ created = InitialTests
    /\ healthy = (InitialTests = 0)
    /\ queue = {}
    /\ sends = 0
    /\ sent = {}
    /\ tx = [c \in Clients |-> NoTx]
    /\ pc = [w \in Workers |-> "idle"]
    /\ job = [w \in Workers |-> NoJob]
    /\ ok = [w \in Workers |-> {}]
    /\ bad = [w \in Workers |-> {}]
    /\ crashes = 0
-----------------------------------------------------------------------------
(* The web tier: DudgeBean and TestBean.  A client's transaction is open    *)
(* from its reads to its commit, so other transactions commit in between.   *)

\* sendJMSMessageToSolutionsQueue of the solution read eagerly: the session
\* joins the EJB's transaction, as the container of the repository's resource
\* files has it, so the message leaves with the commit.  tx[c] also holds what
\* the open transaction has read of the row it is going to write.
Send(c, kind, s) ==
    LET m == [id |-> sends + 1, sol |-> s, tests |-> tests]
    IN  /\ sends < MaxSends
        /\ sends' = sends + 1
        /\ sent' = sent \cup {m}
        /\ tx' = [tx EXCEPT ![c] = [kind |-> kind, msg |-> m,
                                    read |-> rows[s].status,
                                    listed |-> Ran(rows[s])]]
        /\ UNCHANGED queue

\* DudgeBean.submitSolution: a new solution, with a fresh identifier.
Submit(c, s) ==
    /\ tx[c] = NoTx
    /\ \A m \in sent : m.sol # s
    /\ Send(c, "submit", s)
    /\ UNCHANGED <<rows, tests, created, healthy, slaveVars>>

\* DudgeBean.resubmitSolution: whatever the status, and removing the runs
\* the transaction has read.
Resubmit(c, s) ==
    /\ tx[c] = NoTx
    /\ rows[s].status # "ABSENT"
    /\ Send(c, "resubmit", s)
    /\ UNCHANGED <<rows, tests, created, healthy, slaveVars>>

\* What the commit of t makes of the row: a submit inserts it; a resubmit
\* deletes the runs it had read, by their keys, and writes the status only if
\* it changed it (the persistence context writes changed fields).
Committed(t, row) ==
    IF t.kind = "submit"
      THEN [status |-> "NEW", ok |-> {}, bad |-> {}]
      ELSE [status |-> IF t.read = "NEW" THEN row.status ELSE "NEW",
            ok |-> row.ok \ t.listed, bad |-> row.bad \ t.listed]

Commit(c) ==
    /\ tx[c] # NoTx
    /\ LET t == tx[c]
           s == t.msg.sol
       IN  /\ rows' = [rows EXCEPT ![s] = Committed(t, @)]
           /\ queue' = queue \cup {t.msg}
    /\ tx' = [tx EXCEPT ![c] = NoTx]
    /\ UNCHANGED <<tests, created, healthy, sends, sent, slaveVars>>

\* A RuntimeException of the EJB or a failed commit.
Rollback(c) ==
    /\ tx[c] # NoTx
    /\ tx' = [tx EXCEPT ![c] = NoTx]
    /\ UNCHANGED <<rows, tests, created, healthy, queue, sends, sent, slaveVars>>

\* Mutant of AddTest: the identifier is not taken from the sequence.
AddTestReusingId ==
    /\ created < MaxTests
    /\ tests' = tests \cup {created + 1}
    /\ healthy' = FALSE
    /\ UNCHANGED <<rows, created, queue, sends, sent, tx, slaveVars>>

\* TestBean.addTest: the identifier comes from the sequence.
AddTest ==
    /\ created < MaxTests
    /\ created' = created + 1
    /\ tests' = tests \cup {created + 1}
    /\ healthy' = FALSE
    /\ UNCHANGED <<rows, queue, sends, sent, tx, slaveVars>>

\* TestBean.modifyTest, of which only the flag is kept.
ModifyTest ==
    /\ tests # {}
    /\ healthy' = FALSE
    /\ UNCHANGED <<rows, queue, webVars, slaveVars>>

\* TestBean.deleteTest: the foreign key fk_runs_2 refuses it while a run of
\* the test is stored.  The flag is left alone.
DeleteTest(t) ==
    /\ t \in tests
    /\ \A s \in Solutions : t \notin Ran(rows[s])
    /\ tests' = tests \ {t}
    /\ UNCHANGED <<rows, created, healthy, queue, sends, sent, tx, slaveVars>>

-----------------------------------------------------------------------------
(* The slaves: SolutionsQueue.onMessage and SlaveBean.testSolution, which   *)
(* runs outside the transaction of the message.  The message is consumed    *)
(* when onMessage returns, which it always does: every Throwable is caught. *)

\* Mutant of Refused: the key of a run just removed is not in the way.
RefusedByForeignKey(s, runs) ==
    rows[s].status = "ABSENT" \/ runs \cap Deleted # {}

\* SolutionBean.saveSolution fails, and its transaction rolls back, if the row
\* is not there (null is dereferenced), if a run to store has the key of a run
\* just removed (em.merge of a removed instance), or if it is a run of a
\* deleted test (foreign key).
Refused(s, runs) ==
    \/ rows[s].status = "ABSENT"
    \/ runs \cap Ran(rows[s]) # {}
    \/ runs \cap Deleted # {}

\* Mutant of Save: the stored runs are not removed first.
SaveKeepingRuns(s, status, passed, failed) ==
    /\ ~Refused(s, passed \cup failed)
    /\ rows' = [rows EXCEPT ![s] = [status |-> status, ok |-> @.ok \cup passed,
                                   bad |-> @.bad \cup failed]]
    /\ healthy' = (healthy \/ failed = {})

\* Mutant of Save: the runs are added to the stored ones, equal keys too.
SaveAddingRuns(s, status, passed, failed) ==
    /\ rows[s].status # "ABSENT" /\ (passed \cup failed) \cap Deleted = {}
    /\ rows' = [rows EXCEPT ![s] = [status |-> status, ok |-> @.ok \cup passed,
                                   bad |-> @.bad \cup failed]]
    /\ healthy' = (healthy \/ failed = {})

\* SolutionBean.saveSolution: status and runs are replaced, and the problem
\* becomes healthy if none of the runs stored failed.
Save(s, status, passed, failed) ==
    /\ ~Refused(s, passed \cup failed)
    /\ rows' = [rows EXCEPT ![s] =
                   [status |-> status, ok |-> passed, bad |-> failed]]
    /\ healthy' = (healthy \/ failed = {})

Idle(w) ==
    /\ pc' = [pc EXCEPT ![w] = "idle"]
    /\ job' = [job EXCEPT ![w] = NoJob]
    /\ ok' = [ok EXCEPT ![w] = {}]
    /\ bad' = [bad EXCEPT ![w] = {}]

Goto(w, stage) ==
    /\ pc' = [pc EXCEPT ![w] = stage]
    /\ UNCHANGED <<job, ok, bad>>

\* Several beans take messages concurrently, so no order is relied on.
Receive(w) ==
    /\ pc[w] = "idle"
    /\ \E m \in queue :
          /\ queue' = queue \ {m}
          /\ job' = [job EXCEPT ![w] = m]
    /\ pc' = [pc EXCEPT ![w] = "taken"]
    /\ UNCHANGED <<rows, healthy, webVars, ok, bad, crashes>>

StoreCompiling(w) ==
    /\ pc[w] = "taken"
    /\ \/ Save(job[w].sol, "COMPILING", {}, {}) /\ Goto(w, "compiling")
       \/ /\ Refused(job[w].sol, {})
          /\ Goto(w, "failed")
          /\ UNCHANGED <<rows, healthy>>
    /\ UNCHANGED <<queue, webVars, crashes>>

\* SourceCompiler.compile: compiled, errors in the source, or an exception
\* (no file, the compiler did not end in 30 seconds).
Compile(w) ==
    /\ pc[w] = "compiling"
    /\ \E result \in {"compiled", "notCompiled", "failed"} : Goto(w, result)
    /\ UNCHANGED <<rows, healthy, queue, webVars, crashes>>

\* No save after the first one can find the row missing: rows are never deleted.
StoreCompilationError(w) ==
    /\ pc[w] = "notCompiled"
    /\ Save(job[w].sol, "COMPILATION_ERROR", {}, {})
    /\ Idle(w)
    /\ UNCHANGED <<queue, webVars, crashes>>

StoreRunning(w) ==
    /\ pc[w] = "compiled"
    /\ Save(job[w].sol, "RUNNING", {}, {})
    /\ Goto(w, "running")
    /\ UNCHANGED <<queue, webVars, crashes>>

ToRun(w) == job[w].tests \ (ok[w] \cup bad[w])

\* Mutant of LoopDone: the loop does not break at a failure.
LoopDoneNoBreak(w) == ToRun(w) = {}

\* Mutant of LoopDone: the contest's trait is not looked at.
LoopDoneAlwaysBreak(w) == ToRun(w) = {} \/ bad[w] # {}

LoopDone(w) == ToRun(w) = {} \/ (bad[w] # {} /\ job[w].sol \notin RunAllTests)

\* One turn of the loop over the sorted tests: passed, failed (a limit, a
\* runtime error or a wrong answer), or an exception (result 13 of the
\* launcher, an I/O error).  The launcher is taken to return.
RunTest(w) ==
    /\ pc[w] = "running"
    /\ ~LoopDone(w)
    /\ \E t \in ToRun(w) :
          /\ \A u \in ToRun(w) : t <= u
          /\ \/ /\ ok' = [ok EXCEPT ![w] = @ \cup {t}]
                /\ UNCHANGED <<pc, bad>>
             \/ /\ bad' = [bad EXCEPT ![w] = @ \cup {t}]
                /\ UNCHANGED <<pc, ok>>
             \/ /\ pc' = [pc EXCEPT ![w] = "failed"]
                /\ UNCHANGED <<ok, bad>>
    /\ UNCHANGED <<rows, healthy, queue, webVars, job, crashes>>

StoreProcessed(w) ==
    /\ pc[w] = "running"
    /\ LoopDone(w)
    /\ \/ Save(job[w].sol, "PROCESSED", ok[w], bad[w]) /\ Idle(w)
       \/ /\ Refused(job[w].sol, ok[w] \cup bad[w])
          /\ Goto(w, "failed")
          /\ UNCHANGED <<rows, healthy>>
    /\ UNCHANGED <<queue, webVars, crashes>>

\* Mutant of StoreFailure: the exception is only logged.
StoreFailureUnsaved(w) ==
    /\ pc[w] = "failed"
    /\ Idle(w)
    /\ UNCHANGED <<rows, healthy, queue, webVars, crashes>>

\* The catch blocks of testSolution: the runs made so far are stored with
\* INTERNAL_ERROR.  If that save fails too, onMessage swallows the exception.
StoreFailure(w) ==
    /\ pc[w] = "failed"
    /\ \/ Save(job[w].sol, "INTERNAL_ERROR", ok[w], bad[w])
       \/ /\ Refused(job[w].sol, ok[w] \cup bad[w])
          /\ UNCHANGED <<rows, healthy>>
    /\ Idle(w)
    /\ UNCHANGED <<queue, webVars, crashes>>

\* Mutant of Crash: the message was acknowledged when it was received.
CrashAcknowledged(w) ==
    /\ crashes < MaxCrashes
    /\ pc[w] # "idle"
    /\ crashes' = crashes + 1
    /\ Idle(w)
    /\ UNCHANGED <<rows, healthy, queue, webVars>>

\* The slave's process dies: the message was not consumed and comes back.
Crash(w) ==
    /\ crashes < MaxCrashes
    /\ pc[w] # "idle"
    /\ crashes' = crashes + 1
    /\ queue' = queue \cup {job[w]}
    /\ Idle(w)
    /\ UNCHANGED <<rows, healthy, webVars>>

Judge(w) ==
    \/ Receive(w)      \/ StoreCompiling(w) \/ Compile(w)
    \/ StoreRunning(w) \/ RunTest(w)        \/ StoreProcessed(w)
    \/ StoreFailure(w) \/ StoreCompilationError(w)

Next ==
    \/ \E c \in Clients, s \in Solutions : Submit(c, s) \/ Resubmit(c, s)
    \/ \E c \in Clients : Commit(c) \/ Rollback(c)
    \/ AddTest \/ ModifyTest \/ \E t \in TestIds : DeleteTest(t)
    \/ \E w \in Workers : Judge(w) \/ Crash(w)

Spec == Init /\ [][Next]_vars

\* Application server threads run: an open transaction ends and a slave
\* thread makes its next step.  Nobody is obliged to submit or to crash.
FairSpec ==
    /\ Spec
    /\ \A c \in Clients : WF_vars(Commit(c) \/ Rollback(c))
    /\ \A w \in Workers : WF_vars(Judge(w))
-----------------------------------------------------------------------------
(* Properties *)

TxType ==
    {NoTx} \cup [kind : {"submit", "resubmit"}, msg : Message,
                 read : Statuses, listed : SUBSET TestIds]

Stages == {"idle", "taken", "compiling", "compiled", "notCompiled",
           "running", "failed"}

\* The variables have their types; the tests are identifiers the sequence has
\* handed out, and the queue holds messages that were made.
TypeOK ==
    /\ rows \in [Solutions -> [status : Statuses, ok : SUBSET TestIds,
                               bad : SUBSET TestIds]]
    /\ created \in 0..MaxTests /\ tests \in SUBSET (1..created)
    /\ healthy \in BOOLEAN
    /\ sent \in SUBSET Message /\ queue \in SUBSET sent
    /\ sends \in 0..MaxSends
    /\ tx \in [Clients -> TxType]
    /\ pc \in [Workers -> Stages]
    /\ job \in [Workers -> {NoJob} \cup Message]
    /\ ok \in [Workers -> SUBSET TestIds]
    /\ bad \in [Workers -> SUBSET TestIds]
    /\ crashes \in 0..MaxCrashes

\* A fresh judging of s is due: its message has not been begun.
Due(s) ==
    \/ \E m \in queue : m.sol = s
    \/ \E w \in Workers : pc[w] = "taken" /\ job[w].sol = s

InFlight(s) ==
    \/ \E m \in queue : m.sol = s
    \/ \E w \in Workers : pc[w] # "idle" /\ job[w].sol = s

\* A test that was serialized with s has been deleted since.
LostTest(s) == \E m \in sent : m.sol = s /\ m.tests \cap Deleted # {}

\* The runs of one uninterrupted judging on the tests of a message: they go
\* through the tests in order, and stop early only at a failure.
Complete(s, passed, failed, snap) ==
    LET ran == passed \cup failed
    IN  /\ ran \subseteq snap
        /\ \A t \in ran, u \in snap \ ran : t < u
        /\ passed \cap failed = {}
        /\ s \notin RunAllTests => \A t \in failed, u \in ran : u <= t
        /\ ran = snap \/ (s \notin RunAllTests /\ failed # {})

\* No verdict is made of pieces: a PROCESSED row for which no new judging is
\* due holds exactly the runs of one complete judging, on the tests one of its
\* messages carried, however saves, resubmits, crashes and redeliveries of
\* several slaves interleave (SolutionBean.saveSolution replaces runs).
VerdictComplete ==
    \A s \in Solutions :
        rows[s].status = "PROCESSED" /\ ~Due(s) =>
            \E m \in sent :
                m.sol = s /\ Complete(s, rows[s].ok, rows[s].bad, m.tests)

\* Runs shown beside a pending status are left over from an older judging,
\* and then a new judging, which will wipe them, is due (a resubmit that
\* commits after a slave's last save leaves them).
LeftoversAreWiped ==
    \A s \in Solutions :
        rows[s].status \in Pending /\ Ran(rows[s]) # {} =>
            rows[s].status = "NEW" /\ Due(s)

\* Runs of two judgings are never mixed in a row, however many slaves judge a
\* solution at once: they are all of one message's tests, a test has one
\* result, and nothing is run after a failure that ends the loop (runs are
\* deleted and inserted in one transaction of saveSolution, and only deleted
\* by a resubmit).
RunsNotMixed ==
    \A s \in Solutions :
        LET row == rows[s]
        IN  Ran(row) # {} =>
            /\ \E m \in sent : m.sol = s /\ Ran(row) \subseteq m.tests
            /\ row.ok \cap row.bad = {}
            /\ s \notin RunAllTests => \A t \in row.bad, u \in Ran(row) : u <= t

\* No solution is forgotten: a solution with a pending status has a message in
\* the queue or a slave at work on it, unless a test its message carried was
\* deleted (then its last save and the error save are refused, and
\* onMessage has swallowed the exception).
NoOrphan ==
    \A s \in Solutions :
        rows[s].status \in Pending => InFlight(s) \/ LostTest(s)

\* The first result wins: while no new judging is due, a slave never replaces
\* the runs of a row by the runs of another judging of the same solution; only
\* a wipe (a new attempt that stores COMPILING, RUNNING or an early error)
\* comes between.  While one is due they may be replaced: a resubmit that read
\* the status NEW can take some runs of a PROCESSED row away when it commits,
\* and the ones left are then in nobody's way.
FirstVerdictWins ==
    [][ \A w \in Workers, s \in Solutions :
            /\ Judge(w)
            /\ Ran(rows[s]) # {} /\ ~Due(s)
            /\ Ran(rows'[s]) # {}
            => rows'[s] = rows[s] ]_vars

\* Every accepted solution is eventually judged, unless a test its message
\* carried is deleted: crashes, redeliveries and refused saves do not leave it
\* pending for ever.
EventuallyJudged ==
    \A s \in Solutions :
        rows[s].status \in Pending ~> (rows[s].status \in Final \/ LostTest(s))

\* What the comment at SolutionBean.java:209 says of saveSolution: the problem
\* is marked healthy when a solution has passed all tests.
HealthyMeansPassed ==
    [][ ~healthy /\ healthy' =>
            \E s \in Solutions : /\ rows'[s] # rows[s]
                                 /\ rows'[s].status = "PROCESSED"
                                 /\ rows'[s].bad = {} ]_vars

=============================================================================
