-------------------------- MODULE DtestCallsProofs --------------------------
(***************************************************************************)
(* What MCDtestCalls checks of its two machines, proved: the machine with  *)
(* one call from the results of DtestUnixProofs with the constants of that *)
(* machine, the machine with several from the same results as they stand,  *)
(* whatever the calls, the pipes and the limits are.                       *)
(***************************************************************************)
EXTENDS MCDtestCalls, DtestUnixProofs

\* The results about a launcher with the constants of the lone call.
Single ==
    INSTANCE DtestUnixProofs WITH
        Calls <- {Lone}, PipeSize <- 4, ReadSize <- 2, OutLimit <- 2,
        CpuMsec <- 1000, MaxOut <- 4, MaxErr <- 2, ExitCodes <- {0, 1, 13},
        MayCrash <- TRUE, MaySleep <- TRUE, ForkMayFail <- TRUE

-----------------------------------------------------------------------------
(* One and Single are the same machine: their definitions are the same      *)
(* word for word, and only their names tell them apart.                     *)

\* Both have the same variables.
LEMMA SameVars == One!vars = Single!vars
  BY DEF One!threadVars, Single!threadVars, One!pipeVars, Single!pipeVars,
         One!vars, Single!vars

\* Both start in the same states.
LEMMA SameInit == One!Init <=> Single!Init
  BY DEF One!Running, Single!Running, One!NoProcess, Single!NoProcess,
         One!Init, Single!Init

\* The thread of a call takes the same steps in both.
LEMMA SameThread ==
    ASSUME NEW c PROVE One!Thread(c) <=> Single!Thread(c)
<1>1. /\ One!MakePipes(c) <=> Single!MakePipes(c)
      /\ One!ForkSolution(c) <=> Single!ForkSolution(c)
      /\ One!CloseWriteEnds(c) <=> Single!CloseWriteEnds(c)
      /\ One!ForkKiller(c) <=> Single!ForkKiller(c)
  BY DEF One!threadVars, Single!threadVars, One!pipeVars, Single!pipeVars,
         One!JVM, Single!JVM, One!Sol, Single!Sol, One!Killer, Single!Killer,
         One!Inherits, Single!Inherits, One!Goto, Single!Goto, One!MakePipes,
         Single!MakePipes, One!ForkSolution, Single!ForkSolution,
         One!CloseWriteEnds, Single!CloseWriteEnds, One!ForkKiller,
         Single!ForkKiller
<1>2. /\ One!ReadOutput(c) <=> Single!ReadOutput(c)
      /\ One!ReadErrors(c) <=> Single!ReadErrors(c)
  BY DEF One!threadVars, Single!threadVars, One!Sol, Single!Sol, One!Signaled,
         Single!Signaled, One!EndOfFile, Single!EndOfFile, One!Goto,
         Single!Goto, One!Least, Single!Least, One!Killed, Single!Killed,
         One!Beyond, Single!Beyond, One!ReadOutput, Single!ReadOutput,
         One!NextTurn, Single!NextTurn, One!ReadErrors, Single!ReadErrors
<1>3. /\ One!WaitSolution(c) <=> Single!WaitSolution(c)
      /\ One!WaitKiller(c) <=> Single!WaitKiller(c)
      /\ One!Reap(c) <=> Single!Reap(c)
  BY DEF One!threadVars, Single!threadVars, One!pipeVars, Single!pipeVars,
         One!Sol, Single!Sol, One!Killer, Single!Killer, One!Garbage,
         Single!Garbage, One!Goto, Single!Goto, One!WaitSolution,
         Single!WaitSolution, One!Children, Single!Children, One!Zombies,
         Single!Zombies, One!Reaped, Single!Reaped, One!WaitKiller,
         Single!WaitKiller, One!Reap, Single!Reap
<1>4. One!Judge(c) <=> Single!Judge(c)
  BY DEF One!pipeVars, Single!pipeVars, One!Results, Single!Results,
         One!InternalError, Single!InternalError, One!Goto, Single!Goto,
         One!CpuBonus, Single!CpuBonus, One!OverCpu, Single!OverCpu,
         One!JudgedStatus, Single!JudgedStatus, One!Verdict, Single!Verdict,
         One!Judge, Single!Judge
<1> QED BY <1>1, <1>2, <1>3, <1>4 DEF One!Thread, Single!Thread

\* And so do its processes.
LEMMA SameProcesses ==
    ASSUME NEW c
    PROVE  /\ One!Setup(c) <=> Single!Setup(c)
           /\ One!Solution(c) <=> Single!Solution(c)
           /\ One!FeederEnds(c) <=> Single!FeederEnds(c)
           /\ One!KillerEnds(c) <=> Single!KillerEnds(c)
  BY DEF One!threadVars, Single!threadVars, One!pipeVars, Single!pipeVars,
         One!Sol, Single!Sol, One!Feeder, Single!Feeder, One!Killer,
         Single!Killer, One!InternalError, Single!InternalError, One!Exited,
         Single!Exited, One!Signaled, Single!Signaled, One!Inherits,
         Single!Inherits, One!Closes, Single!Closes, One!Ends, Single!Ends,
         One!Setup, Single!Setup, One!Wants, Single!Wants, One!Write,
         Single!Write, One!CpuKillAt, Single!CpuKillAt, One!Exit, Single!Exit,
         One!FeederEnds, Single!FeederEnds, One!KillerEnds, Single!KillerEnds,
         One!Solution, Single!Solution

\* Both take the same steps.
LEMMA SameNext == One!Next <=> Single!Next
<1>1. One!Terminated <=> Single!Terminated
  BY DEF One!threadVars, Single!threadVars, One!pipeVars, Single!pipeVars,
         One!vars, Single!vars, One!Terminated, Single!Terminated
<1> QED BY <1>1, SameThread, SameProcesses DEF One!Next, Single!Next

\* What the run asks of the lone call is what is proved of Single.
LEMMA SameProperties ==
    /\ One!TypeOK <=> Single!TypeOK
    /\ One!VerdictTrue <=> Single!VerdictTrue
    /\ One!OutputWhole <=> Single!OutputWhole
    /\ One!NoChildLeft <=> Single!NoChildLeft
  BY DEF One!JVM, Single!JVM, One!Sol, Single!Sol, One!Feeder, Single!Feeder,
         One!Killer, Single!Killer, One!Results, Single!Results,
         One!InternalError, Single!InternalError, One!Exited, Single!Exited,
         One!Signaled, Single!Signaled, One!Children, Single!Children,
         One!CpuBonus, Single!CpuBonus, One!OverCpu, Single!OverCpu,
         One!CpuKillAt, Single!CpuKillAt, One!Places, Single!Places,
         One!Msecs, Single!Msecs, One!Status, Single!Status, One!Processes,
         Single!Processes, One!TypeOK, Single!TypeOK, One!Ended, Single!Ended,
         One!VerdictTrue, Single!VerdictTrue, One!OutputWhole,
         Single!OutputWhole, One!NoChildLeft, Single!NoChildLeft

-----------------------------------------------------------------------------
(* The invariant of both machines.                                          *)

\* The lone call has the invariant of the launcher and that of a call whose
\* children nobody else takes; the others have that of the launcher.
CallsInv ==
    /\ alone \in BOOLEAN
    /\ alone => Single!IInv /\ Single!LoneOK(Lone)
    /\ ~alone => IInv

\* Each machine starts in its invariant.
LEMMA CallsStart == CallsInit => CallsInv
<1>1. ASSUME alone = TRUE, One!Init PROVE CallsInv
  <2>1. Single!Init
    BY <1>1, SameInit
  <2>2. Single!IInv
    BY <2>1, Single!InvInit
  <2>3. Single!LoneOK(Lone)
    BY <2>1, Single!LoneInit
  <2> QED BY <1>1, <2>2, <2>3 DEF CallsInv
<1>2. ASSUME alone = FALSE, Init PROVE CallsInv
  BY <1>2, InvInit DEF CallsInv
<1> QED BY <1>1, <1>2 DEF CallsInit

\* A step of either machine keeps the invariant of that machine.
LEMMA CallsStay == CallsInv /\ [CallsNext]_allVars => CallsInv'
<1> SUFFICES ASSUME CallsInv, [CallsNext]_allVars PROVE CallsInv'
  OBVIOUS
<1>1. alone' = alone
  BY DEF CallsNext, LoneStep, PairStep, allVars
<1>2. CASE alone
  <2>1. [Single!Next]_(Single!vars)
    <3>1. CASE LoneStep
      BY <3>1, SameNext DEF LoneStep
    <3>2. CASE UNCHANGED allVars
      BY <3>2 DEF allVars, vars, threadVars, pipeVars, Single!vars,
                  Single!threadVars, Single!pipeVars
    <3> QED BY <1>2, <3>1, <3>2 DEF CallsNext, PairStep
  <2>2. Single!IInv /\ Single!LoneOK(Lone)
    BY <1>2 DEF CallsInv
  <2>3. Single!IInv'
    BY <2>1, <2>2, Single!InvStep
  <2>4. Single!LoneOK(Lone)'
    BY <2>1, <2>2, Single!LoneKept
  <2> QED BY <1>1, <1>2, <2>3, <2>4 DEF CallsInv
<1>3. CASE ~alone
  <2>1. [Next]_vars
    BY <1>3 DEF CallsNext, LoneStep, PairStep, allVars
  <2>2. IInv'
    BY <1>3, <2>1, InvStep DEF CallsInv
  <2> QED BY <1>1, <1>3, <2>2 DEF CallsInv
<1> QED BY <1>2, <1>3

\* The invariant holds on both machines.
LEMMA CallsKept == CallsSpec => []CallsInv
  BY CallsStart, CallsStay, PTL DEF CallsSpec

-----------------------------------------------------------------------------
(* The theorems.                                                            *)

\* The variables of both machines have their types.
THEOREM BothTyped == CallsSpec => []CallsTyped
<1>1. CallsInv => CallsTyped
  BY SameProperties DEF CallsInv, CallsTyped, IInv, Single!IInv
<1> QED BY <1>1, CallsKept, PTL

\* The verdict of the call that has the Java process for itself is true of
\* what its solution did, whatever that solution does and whichever fork
\* fails.
THEOREM LoneVerdictHolds == CallsSpec => []LoneVerdictTrue
<1>1. CallsInv => LoneVerdictTrue
  BY SameProperties, Single!LoneMeans DEF CallsInv, LoneVerdictTrue
<1> QED BY <1>1, CallsKept, PTL

\* Alone or with any number of other calls, nothing that a solution wrote
\* within the limit is lost.
THEOREM BothWhole == CallsSpec => []CallsOutputWhole
<1>1. CallsInv => CallsOutputWhole
  BY SameProperties, WholeMeans, Single!WholeMeans DEF CallsInv, CallsOutputWhole
<1> QED BY <1>1, CallsKept, PTL

\* Alone or with any number of other calls that take each other's children in
\* their loops of waitpid(-1), a call that has returned leaves no child behind.
THEOREM BothReap == CallsSpec => []CallsNoChildLeft
<1>1. CallsInv => CallsNoChildLeft
  BY SameProperties, ReapedMeans, Single!ReapedMeans DEF CallsInv, CallsNoChildLeft
<1> QED BY <1>1, CallsKept, PTL
=============================================================================
