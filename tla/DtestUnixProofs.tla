--------------------------- MODULE DtestUnixProofs ---------------------------
(* Theorems of the launcher, for any number of calls in one Java process,   *)
(* every size of the pipes and of a read, all limits and exit codes, and    *)
(* whatever may fail.                                                       *)
EXTENDS DtestUnix, TLAPS

\* The steps of a call: those of its thread and of its processes.
Step(c) == Thread(c) \/ Setup(c) \/ Solution(c) \/ FeederEnds(c) \/ KillerEnds(c)

\* The thread has read both streams to their ends.
Waits == {"wait", "waitKiller", "judge", "reap"}

\* Whoever may still write holds the write end, so an end of file stays one;
\* and the thread waits for the solution only when it has seen it.
WritersOK(c) ==
    /\ pc[c] \in {"piped", "forked"} => JVM \in writers[c]
    /\ sol[c].state \in {"setup", "runs"} => Sol(c) \in writers[c]
    /\ pc[c] = "errors" /\ ~more[c] => writers[c] = {} /\ out[c] = 0
    /\ pc[c] \in Waits \/ (pc[c] = "done" /\ sol[c].state # "none") =>
          writers[c] = {} /\ out[c] = 0 /\ err[c] = 0

\* Before the fork, or if it fails, there is no process and nothing is written.
UnforkedOK(c) ==
    /\ pc[c] \in {"new", "piped"} => sol[c].state = "none"
    /\ sol[c].state = "none" =>
          /\ pc[c] \in {"new", "piped", "done"} /\ killer[c] = "none"
          /\ sol[c].wrote = 0 /\ taken[c] = 0 /\ ~over[c]
          /\ out[c] = 0 /\ err[c] = 0

\* A unit that was written has been taken, or is in the pipe, until the limit
\* is exceeded.
CountOK(c) ==
    /\ ~over[c] => taken[c] + out[c] = sol[c].wrote
    /\ over[c] => sol[c].wrote > OutLimit

\* What was waited for is gone.
GoneOK(c) ==
    /\ pc[c] \in {"waitKiller", "judge", "reap"} => sol[c].state = "reaped"
    /\ pc[c] \in {"judge", "reap"} => killer[c] \in {"reaped", "failed"}
    /\ pc[c] = "done" /\ sol[c].state # "none" =>
          sol[c].state = "reaped" /\ killer[c] \in {"reaped", "failed"}

\* A solution that is about to write has something left to write.
WantOK(c) ==
    /\ sol[c].want = "output" => sol[c].wrote < MaxOut
    /\ sol[c].want = "errors" => sol[c].wroteErr < MaxErr

CallOK(c) ==
    WritersOK(c) /\ UnforkedOK(c) /\ CountOK(c) /\ GoneOK(c) /\ WantOK(c)

IInv == TypeOK /\ \A c \in Calls : CallOK(c)

\* The record of a solution's process.
Process == [state : {"none", "setup", "runs", "zombie", "reaped"},
            status : Status,
            want : {"nothing", "output", "errors", "sleep"},
            wrote : 0..MaxOut, wroteErr : 0..MaxErr]

-----------------------------------------------------------------------------
(* Operators of the model.                                                  *)

\* The processes of the calls have different names.
LEMMA Names ==
    ASSUME NEW c, NEW d
    PROVE  /\ Sol(c) # JVM /\ Feeder(c) # JVM /\ Killer(c) # JVM
           /\ Sol(c) # Feeder(d) /\ Sol(c) # Killer(d) /\ Feeder(c) # Killer(d)
           /\ Sol(c) = Sol(d) => c = d
           /\ Killer(c) = Killer(d) => c = d
  BY DEF Sol, Feeder, Killer, JVM

\* A read takes some of what there is, and something if there is anything.
LEMMA LeastOf ==
    ASSUME NEW n \in Nat
    PROVE  /\ Least(n, ReadSize) \in 0..n
           /\ Least(n, ReadSize) = 0 <=> n = 0
  BY DtestAssumption DEF Least

\* To inherit write ends, and to close them, never opens a pipe again.
LEMMA WritersKept ==
    ASSUME TypeOK, NEW d \in Calls, NEW p, p # JVM, p # Sol(d),
           Closes(p) \/ (\E q \in Processes : Inherits(p, q))
    PROVE  /\ writers[d] = {} => writers'[d] = {}
           /\ JVM \in writers[d] => JVM \in writers'[d]
           /\ Sol(d) \in writers[d] => Sol(d) \in writers'[d]
  BY DEF Closes, Inherits, TypeOK

\* Which children there are, and which of them have ended.
LEMMA ZombieNames ==
    ASSUME NEW d \in Calls
    PROVE  /\ Sol(d) \in Zombies <=> sol[d].state = "zombie"
           /\ Killer(d) \in Zombies <=> killer[d] = "zombie"
<1>1. Sol(d) \in Zombies <=> \E e \in Calls : sol[e].state = "zombie" /\ Sol(d) = Sol(e)
  BY Names DEF Zombies
<1>2. Killer(d) \in Zombies <=> \E e \in Calls : killer[e] = "zombie" /\ Killer(d) = Killer(e)
  BY Names DEF Zombies
<1> QED BY <1>1, <1>2, Names

\* What waiting for some child does to the children of a call.
LEMMA ReapedKeeps ==
    ASSUME TypeOK, NEW p \in Zombies, Reaped(p), NEW d \in Calls
    PROVE  /\ \/ sol'[d] = sol[d]
              \/ /\ sol[d].state = "zombie"
                 /\ sol'[d] = [sol[d] EXCEPT !.state = "reaped"]
           /\ \/ killer'[d] = killer[d]
              \/ killer[d] = "zombie" /\ killer'[d] = "reaped"
<1> sol \in [Calls -> Process]
  BY DEF TypeOK, Process
<1>1. p = Sol(d) => sol[d].state = "zombie"
  BY ZombieNames
<1>2. p = Killer(d) => killer[d] = "zombie"
  BY ZombieNames
<1>3. sol'[d] = IF p = Sol(d) THEN [sol[d] EXCEPT !.state = "reaped"] ELSE sol[d]
  BY DEF Reaped
<1>4. killer'[d] = IF p = Killer(d) THEN "reaped" ELSE killer[d]
  BY DEF Reaped
<1> QED BY <1>1, <1>2, <1>3, <1>4

-----------------------------------------------------------------------------
(* Types.                                                                   *)

\* The initial values have their types.
LEMMA TypeInit == Init => TypeOK
<1> SUFFICES ASSUME Init PROVE TypeOK
  OBVIOUS
<1> USE DtestAssumption DEF Init
<1>1. Running \in Status
  BY DEF Running, Status, Msecs
<1>2. NoProcess \in [state : {"none", "setup", "runs", "zombie", "reaped"},
                     status : Status,
                     want : {"nothing", "output", "errors", "sleep"},
                     wrote : 0..MaxOut, wroteErr : 0..MaxErr]
  BY <1>1 DEF NoProcess
<1>3. sol \in [Calls -> [state : {"none", "setup", "runs", "zombie", "reaped"},
                          status : Status,
                          want : {"nothing", "output", "errors", "sleep"},
                          wrote : 0..MaxOut, wroteErr : 0..MaxErr]]
  BY <1>2
<1>4. over \in [Calls -> BOOLEAN] /\ more \in [Calls -> BOOLEAN]
      /\ late \in [Calls -> BOOLEAN] /\ feeder \in [Calls -> BOOLEAN]
  OBVIOUS
<1>5. /\ pc \in [Calls -> Places] /\ taken \in [Calls -> 0..OutLimit]
      /\ seen \in [Calls -> Status] /\ result \in [Calls -> Results]
      /\ killer \in [Calls -> {"none", "sleeps", "zombie", "reaped", "failed"}]
      /\ out \in [Calls -> 0..PipeSize] /\ err \in [Calls -> 0..PipeSize]
      /\ writers \in [Calls -> SUBSET Processes]
  BY <1>1 DEF Places, Results
<1> QED BY <1>3, <1>4, <1>5 DEF TypeOK

\* The names of the processes are processes.
LEMMA NamesType ==
    ASSUME NEW c \in Calls
    PROVE  {JVM, Sol(c), Feeder(c), Killer(c)} \subseteq Processes
  BY DEF Processes

\* Inheriting and closing write ends keeps their type.
LEMMA WritersType ==
    ASSUME TypeOK, NEW p \in Processes,
           Closes(p) \/ (\E q \in Processes : Inherits(p, q))
    PROVE  writers' \in [Calls -> SUBSET Processes]
  BY DEF TypeOK, Closes, Inherits

\* Reaping a child changes the state of that child alone.
LEMMA ReapedType ==
    ASSUME TypeOK, NEW p \in Zombies, Reaped(p)
    PROVE  /\ sol' \in [Calls -> Process]
           /\ killer' \in [Calls -> {"none", "sleeps", "zombie", "reaped", "failed"}]
  BY DEF TypeOK, Reaped, Process

\* An ending solution becomes a zombie and closes its ends of the pipes.
LEMMA EndsType ==
    ASSUME TypeOK, NEW c \in Calls, NEW status \in Status, Ends(c, status)
    PROVE  /\ sol' \in [Calls -> Process]
           /\ writers' \in [Calls -> SUBSET Processes]
<1>1. Sol(c) \in Processes
  BY NamesType
<1>2. writers' \in [Calls -> SUBSET Processes]
  BY <1>1, WritersType DEF Ends
<1>3. sol \in [Calls -> Process] /\ sol[c] \in Process
  BY DEF TypeOK, Process
<1>4. [sol[c] EXCEPT !.state = "zombie", !.status = status] \in Process
  BY <1>3 DEF Process
<1>5. sol' = [sol EXCEPT ![c] = [sol[c] EXCEPT !.state = "zombie", !.status = status]]
  BY <1>3 DEF Ends
<1>6. sol' \in [Calls -> Process]
  BY <1>3, <1>4, <1>5
<1> QED BY <1>2, <1>6

-----------------------------------------------------------------------------
(* What a step of one call does to the others.                              *)

\* All that a step of another call may do to the call d: wait for its children
\* that have ended, and close write ends or let heirs of them inherit.
Keeps(d) ==
    /\ pc'[d] = pc[d] /\ taken'[d] = taken[d]
    /\ over'[d] = over[d] /\ more'[d] = more[d]
    /\ out'[d] = out[d] /\ err'[d] = err[d]
    /\ \/ sol'[d] = sol[d]
       \/ /\ sol[d].state = "zombie"
          /\ sol'[d] = [sol[d] EXCEPT !.state = "reaped"]
    /\ \/ killer'[d] = killer[d]
       \/ killer[d] = "zombie" /\ killer'[d] = "reaped"
    /\ writers[d] = {} => writers'[d] = {}
    /\ JVM \in writers[d] => JVM \in writers'[d]
    /\ Sol(d) \in writers[d] => Sol(d) \in writers'[d]

\* A call whose variables a step leaves alone, but for what others may do to
\* it, keeps its invariant.
LEMMA KeptOK ==
    ASSUME TypeOK, NEW d \in Calls, CallOK(d), Keeps(d)
    PROVE  CallOK(d)'
<1>1. sol[d] \in Process
  BY DEF TypeOK, Process
<1>2. /\ sol'[d].wrote = sol[d].wrote /\ sol'[d].wroteErr = sol[d].wroteErr
      /\ sol'[d].want = sol[d].want
      /\ sol'[d].state = sol[d].state
         \/ (sol[d].state = "zombie" /\ sol'[d].state = "reaped")
  BY <1>1 DEF Keeps, Process
<1> USE <1>2 DEF CallOK, Keeps
<1>3. WritersOK(d)'
  BY DEF WritersOK
<1>4. UnforkedOK(d)'
  BY DEF UnforkedOK
<1>5. CountOK(d)'
  BY DEF CountOK
<1>6. GoneOK(d)' /\ WantOK(d)'
  BY DEF GoneOK, WantOK
<1> QED BY <1>3, <1>4, <1>5, <1>6

\* A step of one call's thread does to another call only what Keeps allows: it
\* may take the status of its dead child.
LEMMA ThreadKeeps ==
    ASSUME TypeOK, NEW c \in Calls, Thread(c), NEW d \in Calls \ {c}
    PROVE  Keeps(d)
<1> USE DEF Goto, threadVars, pipeVars
<1>0. /\ pc \in [Calls -> Places] /\ taken \in [Calls -> 0..OutLimit]
      /\ over \in [Calls -> BOOLEAN] /\ more \in [Calls -> BOOLEAN]
      /\ sol \in [Calls -> Process]
      /\ out \in [Calls -> 0..PipeSize] /\ err \in [Calls -> 0..PipeSize]
      /\ killer \in [Calls -> {"none", "sleeps", "zombie", "reaped", "failed"}]
      /\ writers \in [Calls -> SUBSET Processes]
  BY DEF TypeOK, Process
<1>1. CASE MakePipes(c)
  BY <1>0, <1>1 DEF MakePipes, Keeps
<1>2. CASE ForkSolution(c)
  <2>1. CASE UNCHANGED writers
    BY <1>0, <1>2, <2>1 DEF ForkSolution, Keeps
  <2>2. CASE Inherits(Sol(c), JVM)
    <3>1. /\ writers[d] = {} => writers'[d] = {}
          /\ JVM \in writers[d] => JVM \in writers'[d]
          /\ Sol(d) \in writers[d] => Sol(d) \in writers'[d]
      BY <1>0, <2>2 DEF Inherits
    <3> QED BY <1>0, <1>2, <3>1 DEF ForkSolution, Keeps
  <2> QED BY <1>2, <2>1, <2>2 DEF ForkSolution
<1>3. CASE CloseWriteEnds(c)
  BY <1>0, <1>3 DEF CloseWriteEnds, Keeps
<1>4. CASE ForkKiller(c)
  <2>1. CASE UNCHANGED writers
    BY <1>0, <1>4, <2>1 DEF ForkKiller, Keeps
  <2>2. CASE Inherits(Killer(c), JVM)
    <3>1. /\ writers[d] = {} => writers'[d] = {}
          /\ JVM \in writers[d] => JVM \in writers'[d]
          /\ Sol(d) \in writers[d] => Sol(d) \in writers'[d]
      BY <1>0, <2>2 DEF Inherits
    <3> QED BY <1>0, <1>4, <3>1 DEF ForkKiller, Keeps
  <2> QED BY <1>4, <2>1, <2>2 DEF ForkKiller
<1>5. CASE ReadOutput(c)
  <2>1. /\ writers'[d] = writers[d] \/ writers'[d] = writers[d] \ {Sol(c)}
        /\ sol'[d] = sol[d]
    BY <1>0, <1>5 DEF ReadOutput, Killed
  <2>2. /\ writers[d] = {} => writers'[d] = {}
        /\ JVM \in writers[d] => JVM \in writers'[d]
        /\ Sol(d) \in writers[d] => Sol(d) \in writers'[d]
    BY <2>1, Names
  <2>3. /\ pc'[d] = pc[d] /\ taken'[d] = taken[d] /\ over'[d] = over[d]
        /\ more'[d] = more[d] /\ out'[d] = out[d] /\ err' = err
        /\ killer' = killer
    BY <1>0, <1>5 DEF ReadOutput
  <2> QED BY <2>1, <2>2, <2>3 DEF Keeps
<1>6. CASE ReadErrors(c)
  BY <1>0, <1>6 DEF ReadErrors, Keeps
<1>7. CASE WaitSolution(c)
  BY <1>0, <1>7 DEF WaitSolution, Keeps
<1>8. CASE WaitKiller(c)
  <2>1. \/ sol' = sol /\ killer' = killer
        \/ \E p \in Zombies : Reaped(p)
    BY <1>8, ZombieNames DEF WaitKiller
  <2>2. /\ \/ sol'[d] = sol[d]
           \/ /\ sol[d].state = "zombie"
              /\ sol'[d] = [sol[d] EXCEPT !.state = "reaped"]
        /\ \/ killer'[d] = killer[d]
           \/ killer[d] = "zombie" /\ killer'[d] = "reaped"
    BY <2>1, ReapedKeeps
  <2> QED BY <1>0, <1>8, <2>2 DEF WaitKiller, Keeps
<1>9. CASE Judge(c)
  BY <1>0, <1>9 DEF Judge, Keeps
<1>10. CASE Reap(c)
  <2>1. \/ sol' = sol /\ killer' = killer
        \/ \E p \in Zombies : Reaped(p)
    BY <1>10 DEF Reap
  <2>2. /\ \/ sol'[d] = sol[d]
           \/ /\ sol[d].state = "zombie"
              /\ sol'[d] = [sol[d] EXCEPT !.state = "reaped"]
        /\ \/ killer'[d] = killer[d]
           \/ killer[d] = "zombie" /\ killer'[d] = "reaped"
    BY <2>1, ReapedKeeps
  <2> QED BY <1>0, <1>10, <2>2 DEF Reap, Keeps
<1> QED
  BY <1>1, <1>2, <1>3, <1>4, <1>5, <1>6, <1>7, <1>8, <1>9, <1>10 DEF Thread

\* A step of one call's child processes does to another call only what Keeps
\* allows.
LEMMA ProcessKeeps ==
    ASSUME TypeOK, NEW c \in Calls,
           Setup(c) \/ Solution(c) \/ FeederEnds(c) \/ KillerEnds(c),
           NEW d \in Calls \ {c}
    PROVE  Keeps(d)
<1> USE DEF threadVars, pipeVars
<1>0. /\ sol \in [Calls -> Process]
      /\ out \in [Calls -> 0..PipeSize] /\ err \in [Calls -> 0..PipeSize]
      /\ killer \in [Calls -> {"none", "sleeps", "zombie", "reaped", "failed"}]
      /\ writers \in [Calls -> SUBSET Processes]
  BY DEF TypeOK, Process
<1>1. ASSUME \/ UNCHANGED writers
             \/ \E p \in {Sol(c), Feeder(c), Killer(c)} :
                    Closes(p) \/ (\E q \in Processes : Inherits(p, q))
      PROVE  /\ writers[d] = {} => writers'[d] = {}
             /\ JVM \in writers[d] => JVM \in writers'[d]
             /\ Sol(d) \in writers[d] => Sol(d) \in writers'[d]
  BY <1>1, WritersKept, Names
<1>2. CASE Setup(c)
  <2>1. /\ writers[d] = {} => writers'[d] = {}
        /\ JVM \in writers[d] => JVM \in writers'[d]
        /\ Sol(d) \in writers[d] => Sol(d) \in writers'[d]
    BY <1>1, <1>2, NamesType DEF Setup, Ends
  <2> QED BY <1>0, <1>2, <2>1 DEF Setup, Ends, Keeps
<1>3. CASE Wants(c)
  BY <1>0, <1>3 DEF Wants, Keeps
<1>4. CASE Write(c)
  BY <1>0, <1>4 DEF Write, Keeps
<1>5. CASE Exit(c)
  <2>1. /\ writers[d] = {} => writers'[d] = {}
        /\ JVM \in writers[d] => JVM \in writers'[d]
        /\ Sol(d) \in writers[d] => Sol(d) \in writers'[d]
    BY <1>1, <1>5 DEF Exit, Ends
  <2> QED BY <1>0, <1>5, <2>1 DEF Exit, Ends, Keeps
<1>6. CASE FeederEnds(c)
  <2>1. /\ writers[d] = {} => writers'[d] = {}
        /\ JVM \in writers[d] => JVM \in writers'[d]
        /\ Sol(d) \in writers[d] => Sol(d) \in writers'[d]
    BY <1>1, <1>6 DEF FeederEnds
  <2> QED BY <1>0, <1>6, <2>1 DEF FeederEnds, Keeps
<1>7. CASE KillerEnds(c)
  <2>1. /\ writers[d] = {} => writers'[d] = {}
        /\ JVM \in writers[d] => JVM \in writers'[d]
        /\ Sol(d) \in writers[d] => Sol(d) \in writers'[d]
    BY <1>1, <1>7 DEF KillerEnds
  <2> QED BY <1>0, <1>7, <2>1 DEF KillerEnds, Keeps
<1> QED BY <1>2, <1>3, <1>4, <1>5, <1>6, <1>7 DEF Solution

-----------------------------------------------------------------------------
(* What a step of a call does to the call itself.                           *)

\* The types of the variables, under short names for the steps below.
LEMMA Typed ==
    ASSUME TypeOK
    PROVE  /\ pc \in [Calls -> Places] /\ taken \in [Calls -> 0..OutLimit]
           /\ over \in [Calls -> BOOLEAN] /\ more \in [Calls -> BOOLEAN]
           /\ seen \in [Calls -> Status] /\ late \in [Calls -> BOOLEAN]
           /\ result \in [Calls -> Results] /\ sol \in [Calls -> Process]
           /\ feeder \in [Calls -> BOOLEAN]
           /\ killer \in [Calls -> {"none", "sleeps", "zombie", "reaped", "failed"}]
           /\ out \in [Calls -> 0..PipeSize] /\ err \in [Calls -> 0..PipeSize]
           /\ writers \in [Calls -> SUBSET Processes]
           /\ 0..OutLimit \subseteq Nat /\ 0..PipeSize \subseteq Nat
           /\ 0..MaxOut \subseteq Nat
  BY DtestAssumption DEF TypeOK, Process

\* A thread that moves on moves alone.
LEMMA PlacesType ==
    ASSUME TypeOK, NEW c \in Calls, NEW place \in Places, Goto(c, place)
    PROVE  pc' \in [Calls -> Places] /\ pc'[c] = place
  BY DEF TypeOK, Goto

\* Making the pipes keeps the invariant of the call.
LEMMA MakePipesOwn ==
    ASSUME IInv, NEW c \in Calls, MakePipes(c)
    PROVE  TypeOK' /\ CallOK(c)'
<1> USE DEF MakePipes, IInv, CallOK
<1>0. TypeOK /\ "piped" \in Places
  BY DEF Places
<1>1. pc' \in [Calls -> Places] /\ pc'[c] = "piped"
  BY <1>0, PlacesType
<1>2. writers' \in [Calls -> SUBSET Processes] /\ writers'[c] = {JVM}
  BY <1>0, Typed, NamesType
<1>3. TypeOK'
  BY <1>0, <1>1, <1>2 DEF TypeOK, threadVars, pipeVars
<1>4. CallOK(c)'
  BY <1>1, <1>2
  DEF WritersOK, UnforkedOK, CountOK, GoneOK, WantOK, Waits, threadVars, pipeVars
<1> QED BY <1>3, <1>4

\* Forking the solution, or failing to, keeps the invariant of the call.
LEMMA ForkSolutionOwn ==
    ASSUME IInv, NEW c \in Calls, ForkSolution(c)
    PROVE  TypeOK' /\ CallOK(c)'
<1> USE DEF IInv, threadVars, pipeVars
<1>0. TypeOK /\ {"forked", "done"} \subseteq Places /\ CallOK(c)
  BY DEF Places
<1>1. CASE UNCHANGED <<sol, writers>> /\ Goto(c, "done")
  <2>1. pc' \in [Calls -> Places] /\ pc'[c] = "done"
    BY <1>0, <1>1, PlacesType
  <2>2. TypeOK'
    BY <1>0, <1>1, <2>1 DEF TypeOK, ForkSolution
  <2>3. sol[c].state = "none"
    BY <1>0 DEF CallOK, UnforkedOK, ForkSolution
  <2>4. CallOK(c)'
    BY <1>0, <1>1, <2>1, <2>3
    DEF CallOK, WritersOK, UnforkedOK, CountOK, GoneOK, WantOK, Waits, ForkSolution
  <2> QED BY <2>2, <2>4
<1>2. CASE /\ sol' = [sol EXCEPT ![c].state = "setup"]
           /\ Inherits(Sol(c), JVM) /\ Goto(c, "forked")
  <2> PICK r \in Process : r = [sol[c] EXCEPT !.state = "setup"]
    BY <1>0, Typed DEF Process
  <2>1. pc' \in [Calls -> Places] /\ pc'[c] = "forked"
    BY <1>0, <1>2, PlacesType
  <2>2. sol' \in [Calls -> Process] /\ sol'[c] = r
    BY <1>0, <1>2, Typed
  <2>3. writers' \in [Calls -> SUBSET Processes]
    BY <1>0, <1>2, NamesType, WritersType
  <2>4. JVM \in writers'[c] /\ Sol(c) \in writers'[c]
    BY <1>0, <1>2 DEF CallOK, WritersOK, Inherits, ForkSolution
  <2>5. TypeOK'
    BY <1>0, <2>1, <2>2, <2>3 DEF TypeOK, ForkSolution, Process
  <2>6. /\ r.state = "setup" /\ r.wrote = sol[c].wrote
        /\ r.wroteErr = sol[c].wroteErr /\ r.want = sol[c].want
    BY <1>0, Typed DEF Process
  <2>7. CallOK(c)'
    BY <1>0, <2>1, <2>2, <2>4, <2>6
    DEF CallOK, WritersOK, UnforkedOK, CountOK, GoneOK, WantOK, Waits, ForkSolution
  <2> QED BY <2>5, <2>7
<1> QED BY <1>1, <1>2 DEF ForkSolution

\* Closing the parent's write ends keeps the invariant of the call.
LEMMA CloseWriteEndsOwn ==
    ASSUME IInv, NEW c \in Calls, CloseWriteEnds(c)
    PROVE  TypeOK' /\ CallOK(c)'
<1> USE DEF CloseWriteEnds, IInv, threadVars, pipeVars
<1>0. TypeOK /\ "closed" \in Places /\ CallOK(c)
  BY DEF Places
<1>1. pc' \in [Calls -> Places] /\ pc'[c] = "closed"
  BY <1>0, PlacesType
<1>2. writers' \in [Calls -> SUBSET Processes] /\ writers'[c] = writers[c] \ {JVM}
  BY <1>0, Typed
<1>3. TypeOK'
  BY <1>0, <1>1, <1>2 DEF TypeOK
<1>4. CallOK(c)'
  BY <1>0, <1>1, <1>2, Names
  DEF CallOK, WritersOK, UnforkedOK, CountOK, GoneOK, WantOK, Waits
<1> QED BY <1>3, <1>4

\* Forking the sleeper that kills the solution keeps the invariant of the call.
LEMMA ForkKillerOwn ==
    ASSUME IInv, NEW c \in Calls, ForkKiller(c)
    PROVE  TypeOK' /\ CallOK(c)'
<1> USE DEF ForkKiller, IInv, threadVars, pipeVars
<1>0. TypeOK /\ "output" \in Places /\ CallOK(c)
  BY DEF Places
<1>1. pc' \in [Calls -> Places] /\ pc'[c] = "output"
  BY <1>0, PlacesType
<1>2. killer' \in [Calls -> {"none", "sleeps", "zombie", "reaped", "failed"}]
  BY <1>0, Typed
<1>3. /\ writers' \in [Calls -> SUBSET Processes]
      /\ Sol(c) \in writers[c] => Sol(c) \in writers'[c]
  <2>1. CASE UNCHANGED writers
    BY <1>0, <2>1, Typed
  <2>2. CASE Inherits(Killer(c), JVM)
    BY <1>0, <2>2, NamesType, WritersType, WritersKept, Names
  <2> QED BY <2>1, <2>2
<1>4. TypeOK'
  BY <1>0, <1>1, <1>2, <1>3 DEF TypeOK
<1>5. CallOK(c)'
  BY <1>0, <1>1, <1>3
  DEF CallOK, WritersOK, UnforkedOK, CountOK, GoneOK, WantOK, Waits
<1> QED BY <1>4, <1>5

\* The heart of the matter: what a read takes is taken or beyond the limit, and
\* a read that returns nothing has seen the end of the output.
LEMMA ReadOutputOwn ==
    ASSUME IInv, NEW c \in Calls, ReadOutput(c)
    PROVE  TypeOK' /\ CallOK(c)'
<1> USE DEF IInv
<1>0. TypeOK /\ "errors" \in Places /\ CallOK(c) /\ pc[c] = "output"
  BY DEF Places, ReadOutput
<1> PICK n \in Nat : n = Least(out[c], ReadSize)
  BY <1>0, Typed, LeastOf
<1> PICK beyond \in BOOLEAN : beyond = Beyond(c, n)
  BY Zenon DEF Beyond
<1>1. /\ pc' = [pc EXCEPT ![c] = "errors"]
      /\ more' = [more EXCEPT ![c] = n > 0]
      /\ out' = [out EXCEPT ![c] = out[c] - n]
      /\ over' = [over EXCEPT ![c] = over[c] \/ beyond]
      /\ taken' = [taken EXCEPT ![c] = IF beyond THEN taken[c] ELSE taken[c] + n]
      /\ sol' = IF beyond THEN Killed(c) ELSE sol
      /\ writers' = IF beyond /\ sol[c].state = "runs"
                      THEN [d \in Calls |-> writers[d] \ {Sol(c)}] ELSE writers
      /\ UNCHANGED <<seen, late, result, feeder, killer, err>>
      /\ out[c] > 0 \/ writers[c] = {}
  BY DEF ReadOutput, Goto, EndOfFile
<1>2. n \in 0..out[c] /\ (n = 0 <=> out[c] = 0) /\ out[c] \in 0..PipeSize
      /\ taken[c] \in 0..OutLimit /\ OutLimit \in Nat /\ PipeSize \in Nat
  BY <1>0, LeastOf, Typed, DtestAssumption
<1>3. /\ beyond => taken[c] + n > OutLimit
      /\ ~beyond => taken[c] + n <= OutLimit
  <2>1. beyond <=> n > 0 /\ taken[c] + n > OutLimit
    BY Zenon DEF Beyond
  <2> QED BY <1>2, <2>1
<1>4. pc' \in [Calls -> Places] /\ pc'[c] = "errors"
  BY <1>0, <1>1, Typed
<1>5. out' \in [Calls -> 0..PipeSize] /\ out'[c] = out[c] - n
  <2>1. out[c] - n \in 0..PipeSize
    BY <1>2
  <2> QED BY <1>0, <1>1, <2>1, Typed
<1>6. /\ taken' \in [Calls -> 0..OutLimit]
      /\ taken'[c] = IF beyond THEN taken[c] ELSE taken[c] + n
  <2>1. (IF beyond THEN taken[c] ELSE taken[c] + n) \in 0..OutLimit
    BY <1>2, <1>3
  <2> QED BY <1>0, <1>1, <2>1, Typed
<1>7. over' \in [Calls -> BOOLEAN] /\ (over'[c] <=> over[c] \/ beyond)
  <2>1. (over[c] \/ beyond) \in BOOLEAN
    OBVIOUS
  <2> QED BY <1>0, <1>1, <2>1, Typed
<1>8. more' \in [Calls -> BOOLEAN] /\ (more'[c] <=> n > 0)
  <2>1. (n > 0) \in BOOLEAN
    OBVIOUS
  <2> QED BY <1>0, <1>1, <2>1, Typed
<1>9. /\ sol' \in [Calls -> Process] /\ sol'[c].wrote = sol[c].wrote
      /\ sol'[c].wroteErr = sol[c].wroteErr
      /\ sol'[c].want \in {"nothing", sol[c].want}
      /\ sol'[c].state = IF beyond /\ sol[c].state = "runs"
                           THEN "zombie" ELSE sol[c].state
  <2>1. Signaled("SIGKILL", 0) \in Status
    BY DEF Signaled, Status, Msecs
  <2>2. sol[c] \in Process /\ sol \in [Calls -> Process]
    BY <1>0, Typed
  <2>3. CASE beyond /\ sol[c].state = "runs"
    <3> PICK r \in Process : r = [sol[c] EXCEPT !.state = "zombie", !.want = "nothing",
                                   !.status = Signaled("SIGKILL", 0)]
      BY <2>1, <2>2 DEF Process
    <3>1. sol' = [sol EXCEPT ![c] = r]
      BY <1>1, <2>2, <2>3 DEF Killed
    <3>2. /\ r.wrote = sol[c].wrote /\ r.state = "zombie"
          /\ r.wroteErr = sol[c].wroteErr /\ r.want = "nothing"
      BY <2>2 DEF Process
    <3> QED BY <2>2, <2>3, <3>1, <3>2
  <2>4. CASE ~(beyond /\ sol[c].state = "runs")
    BY <1>1, <2>2, <2>4 DEF Killed
  <2> QED BY <2>3, <2>4
<1>10. /\ writers' \in [Calls -> SUBSET Processes]
       /\ writers[c] = {} => writers'[c] = {}
       /\ ~(beyond /\ sol[c].state = "runs") => writers'[c] = writers[c]
  BY <1>0, <1>1, Typed
<1>11. TypeOK'
  <2>1. UNCHANGED <<seen, late, result, feeder, killer, err>>
    BY <1>1
  <2>2. /\ over' \in [Calls -> BOOLEAN] /\ more' \in [Calls -> BOOLEAN]
        /\ late' \in [Calls -> BOOLEAN] /\ feeder' \in [Calls -> BOOLEAN]
    BY <1>0, <1>7, <1>8, <2>1, Typed
  <2>3. /\ seen' \in [Calls -> Status] /\ result' \in [Calls -> Results]
        /\ killer' \in [Calls -> {"none", "sleeps", "zombie", "reaped", "failed"}]
        /\ err' \in [Calls -> 0..PipeSize]
    BY <1>0, <2>1, Typed
  <2>4. /\ pc' \in [Calls -> Places] /\ taken' \in [Calls -> 0..OutLimit]
        /\ sol' \in [Calls -> Process] /\ out' \in [Calls -> 0..PipeSize]
        /\ writers' \in [Calls -> SUBSET Processes]
    BY <1>4, <1>5, <1>6, <1>9, <1>10
  <2> QED BY <2>2, <2>3, <2>4 DEF TypeOK, Process
<1>12. WritersOK(c)'
  <2>1. sol'[c].state \in {"setup", "runs"} => Sol(c) \in writers'[c]
    BY <1>0, <1>9, <1>10 DEF CallOK, WritersOK
  <2>2. ~more'[c] => writers'[c] = {} /\ out'[c] = 0
    BY <1>1, <1>2, <1>5, <1>8, <1>10
  <2> QED BY <1>4, <2>1, <2>2 DEF WritersOK, Waits
<1>13. UnforkedOK(c)'
  <2>1. sol[c].state # "none"
    BY <1>0 DEF CallOK, UnforkedOK
  <2> QED BY <1>4, <1>9, <2>1 DEF UnforkedOK
<1>14. CountOK(c)'
  <2>1. sol[c].wrote \in Nat
    BY <1>0, Typed DEF Process
  <2> QED
    BY <1>0, <1>2, <1>3, <1>5, <1>6, <1>7, <1>9, <2>1 DEF CallOK, CountOK
<1>15. GoneOK(c)' /\ WantOK(c)'
  BY <1>0, <1>4, <1>9 DEF CallOK, GoneOK, WantOK
<1> QED BY <1>11, <1>12, <1>13, <1>14, <1>15 DEF CallOK

\* Reading the error pipe to its end keeps the invariant of the call.
LEMMA ReadErrorsOwn ==
    ASSUME IInv, NEW c \in Calls, ReadErrors(c)
    PROVE  TypeOK' /\ CallOK(c)'
<1> USE DEF IInv
<1>0. TypeOK /\ CallOK(c) /\ pc[c] = "errors"
  BY DEF ReadErrors
<1> PICK n \in Nat : n = Least(err[c], ReadSize)
  BY <1>0, Typed, LeastOf
<1>1. /\ pc' = [pc EXCEPT ![c] = IF NextTurn(c, n) THEN "output" ELSE "wait"]
      /\ err' = [err EXCEPT ![c] = err[c] - n]
      /\ UNCHANGED <<threadVars, sol, feeder, killer, out, writers>>
  BY DEF ReadErrors, Goto
<1>2. n \in 0..err[c] /\ (n = 0 <=> err[c] = 0) /\ err[c] \in 0..PipeSize
      /\ PipeSize \in Nat
  BY <1>0, LeastOf, Typed, DtestAssumption
<1>3. /\ pc' \in [Calls -> Places] /\ pc'[c] \in {"output", "wait"}
      /\ pc'[c] = "wait" => ~more[c] /\ n = 0
  BY <1>0, <1>1, <1>2, Typed DEF Places, NextTurn
<1>4. err' \in [Calls -> 0..PipeSize] /\ err'[c] = err[c] - n
  <2>1. err[c] - n \in 0..PipeSize
    BY <1>2
  <2> QED BY <1>0, <1>1, <2>1, Typed
<1>5. TypeOK'
  BY <1>0, <1>1, <1>3, <1>4 DEF TypeOK, threadVars
<1>6. sol[c].state # "none"
  BY <1>0 DEF CallOK, UnforkedOK
<1>7. pc'[c] = "wait" => writers[c] = {} /\ out[c] = 0 /\ err'[c] = 0
  BY <1>0, <1>2, <1>3, <1>4 DEF CallOK, WritersOK
<1>8. CallOK(c)'
  BY <1>0, <1>1, <1>3, <1>6, <1>7
  DEF CallOK, WritersOK, UnforkedOK, CountOK, GoneOK, WantOK, Waits, threadVars
<1> QED BY <1>5, <1>8

\* Waiting for the solution, or finding its status taken, keeps the invariant
\* of the call.
LEMMA WaitSolutionOwn ==
    ASSUME IInv, NEW c \in Calls, WaitSolution(c)
    PROVE  TypeOK' /\ CallOK(c)'
<1> USE DEF IInv
<1>0. TypeOK /\ CallOK(c) /\ pc[c] = "wait" /\ "waitKiller" \in Places
  BY DEF WaitSolution, Places
<1>1. pc' \in [Calls -> Places] /\ pc'[c] = "waitKiller"
  BY <1>0, PlacesType DEF WaitSolution
<1>2. /\ sol' \in [Calls -> Process] /\ sol'[c].state = "reaped"
      /\ sol'[c].wrote = sol[c].wrote /\ sol'[c].wroteErr = sol[c].wroteErr
      /\ sol'[c].want = sol[c].want
  <2>1. sol[c] \in Process /\ sol \in [Calls -> Process]
    BY <1>0, Typed
  <2> PICK r \in Process : r = [sol[c] EXCEPT !.state = "reaped"]
    BY <2>1 DEF Process
  <2>2. /\ r.state = "reaped" /\ r.wrote = sol[c].wrote
        /\ r.wroteErr = sol[c].wroteErr /\ r.want = sol[c].want
    BY <2>1 DEF Process
  <2>3. \/ sol' = [sol EXCEPT ![c] = r]
        \/ sol' = sol /\ sol[c].state = "reaped"
    BY <2>1 DEF WaitSolution
  <2> QED BY <2>1, <2>2, <2>3
<1>3. seen' \in [Calls -> Status]
  <2>1. Garbage \in Status
    BY DEF Garbage, Status, Msecs
  <2>2. sol[c].status \in Status
    BY <1>0, Typed DEF Process
  <2> QED BY <1>0, <2>1, <2>2, Typed DEF WaitSolution
<1>4. UNCHANGED <<taken, over, more, late, result, feeder, killer, out, err, writers>>
  BY DEF WaitSolution, pipeVars
<1>5. TypeOK'
  BY <1>0, <1>1, <1>2, <1>3, <1>4 DEF TypeOK, Process
<1>6. CallOK(c)'
  BY <1>0, <1>1, <1>2, <1>4
  DEF CallOK, WritersOK, UnforkedOK, CountOK, GoneOK, WantOK, Waits
<1> QED BY <1>5, <1>6

\* After it has waited for somebody, a thread's own killer is gone, or was
\* never there.
LEMMA WaitKillerOwn ==
    ASSUME IInv, NEW c \in Calls, WaitKiller(c)
    PROVE  TypeOK' /\ CallOK(c)'
<1> USE DEF IInv
<1>0. TypeOK /\ CallOK(c) /\ pc[c] = "waitKiller" /\ "judge" \in Places
  BY DEF WaitKiller, Places
<1>1. pc' \in [Calls -> Places] /\ pc'[c] = "judge"
  BY <1>0, PlacesType DEF WaitKiller
<1>2. sol[c].state = "reaped"
  BY <1>0 DEF CallOK, GoneOK
<1>3. /\ sol' \in [Calls -> Process] /\ sol'[c] = sol[c]
      /\ killer' \in [Calls -> {"none", "sleeps", "zombie", "reaped", "failed"}]
      /\ killer'[c] \in {"reaped", "failed"}
  <2>1. CASE killer[c] = "zombie" /\ Reaped(Killer(c))
    <3>1. Killer(c) \in Zombies
      BY <2>1, ZombieNames
    <3>2. killer'[c] = "reaped"
      BY <2>1 DEF Reaped
    <3> QED BY <1>0, <1>2, <2>1, <3>1, <3>2, ReapedType, ReapedKeeps
  <2>2. CASE killer[c] = "failed" /\ \E p \in Zombies : Reaped(p)
    BY <1>0, <1>2, <2>2, ReapedType, ReapedKeeps
  <2>3. CASE sol' = sol /\ killer' = killer /\ killer[c] \in {"reaped", "failed"}
    BY <1>0, <2>3, Typed
  <2> QED BY <2>1, <2>2, <2>3 DEF WaitKiller
<1>4. late' \in [Calls -> BOOLEAN]
  BY <1>0, Typed DEF WaitKiller
<1>5. UNCHANGED <<taken, over, more, seen, result, feeder, out, err, writers>>
  BY DEF WaitKiller, pipeVars
<1>6. TypeOK'
  BY <1>0, <1>1, <1>3, <1>4, <1>5 DEF TypeOK, Process
<1>7. CallOK(c)'
  BY <1>0, <1>1, <1>2, <1>3, <1>5
  DEF CallOK, WritersOK, UnforkedOK, CountOK, GoneOK, WantOK, Waits
<1> QED BY <1>6, <1>7

\* Choosing the verdict keeps the invariant of the call.
LEMMA JudgeOwn ==
    ASSUME IInv, NEW c \in Calls, Judge(c)
    PROVE  TypeOK' /\ CallOK(c)'
<1> USE DEF IInv
<1>0. TypeOK /\ CallOK(c) /\ pc[c] = "judge" /\ "reap" \in Places
  BY DEF Judge, Places
<1>1. pc' \in [Calls -> Places] /\ pc'[c] = "reap"
  BY <1>0, PlacesType DEF Judge
<1>2. Verdict(c) \subseteq Results
  <2>1. JudgedStatus(seen[c]) \subseteq Results
    BY DEF JudgedStatus, Results
  <2>2. late[c] \in BOOLEAN /\ over[c] \in BOOLEAN
    BY <1>0, Typed
  <2> QED BY <2>1, <2>2 DEF Verdict, Results
<1>3. result' \in [Calls -> Results]
  BY <1>0, <1>2, Typed DEF Judge
<1>4. UNCHANGED <<taken, over, more, seen, late, sol, feeder, killer, out, err, writers>>
  BY DEF Judge, pipeVars
<1>5. TypeOK'
  BY <1>0, <1>1, <1>3, <1>4 DEF TypeOK
<1>6. CallOK(c)'
  BY <1>0, <1>1, <1>4
  DEF CallOK, WritersOK, UnforkedOK, CountOK, GoneOK, WantOK, Waits
<1> QED BY <1>5, <1>6

\* Waiting for the remaining child keeps the invariant of the call.
LEMMA ReapOwn ==
    ASSUME IInv, NEW c \in Calls, Reap(c)
    PROVE  TypeOK' /\ CallOK(c)'
<1> USE DEF IInv
<1>0. TypeOK /\ CallOK(c) /\ pc[c] = "reap" /\ "done" \in Places
  BY DEF Reap, Places
<1>1. pc' \in [Calls -> Places] /\ pc'[c] \in {"reap", "done"}
  BY <1>0, PlacesType, Typed DEF Reap
<1>2. sol[c].state = "reaped" /\ killer[c] \in {"reaped", "failed"}
  BY <1>0 DEF CallOK, GoneOK
<1>3. /\ sol' \in [Calls -> Process] /\ sol'[c] = sol[c]
      /\ killer' \in [Calls -> {"none", "sleeps", "zombie", "reaped", "failed"}]
      /\ killer'[c] = killer[c]
  <2>1. CASE \E p \in Zombies : Reaped(p)
    BY <1>0, <1>2, <2>1, ReapedType, ReapedKeeps
  <2>2. CASE sol' = sol /\ killer' = killer
    BY <1>0, <2>2, Typed
  <2> QED BY <2>1, <2>2 DEF Reap
<1>4. UNCHANGED <<threadVars, feeder, out, err, writers>>
  BY DEF Reap, pipeVars
<1>5. TypeOK'
  BY <1>0, <1>1, <1>3, <1>4 DEF TypeOK, Process, threadVars
<1>6. CallOK(c)'
  BY <1>0, <1>1, <1>2, <1>3, <1>4
  DEF CallOK, WritersOK, UnforkedOK, CountOK, GoneOK, WantOK, Waits, threadVars
<1> QED BY <1>5, <1>6

\* A step in which only the solution and the write ends change, and the
\* solution writes nothing.
LEMMA QuietSolution ==
    ASSUME TypeOK, NEW c \in Calls, CallOK(c),
           sol' \in [Calls -> Process], writers' \in [Calls -> SUBSET Processes],
           feeder' \in [Calls -> BOOLEAN],
           UNCHANGED <<pc, threadVars, killer, pipeVars>>,
           sol[c].state \in {"setup", "runs"},
           sol'[c].state \in {"runs", "zombie"}, sol'[c].wrote = sol[c].wrote,
           sol'[c].state = "runs" => Sol(c) \in writers'[c],
           JVM \in writers[c] => JVM \in writers'[c], WantOK(c)'
    PROVE  TypeOK' /\ CallOK(c)'
<1> USE DEF threadVars, pipeVars
<1>1. TypeOK'
  BY DEF TypeOK, Process
<1>2. /\ pc[c] \notin Waits /\ pc[c] # "done" /\ Sol(c) \in writers[c]
      /\ pc[c] \notin {"new", "piped"}
      /\ ~(pc[c] = "errors" /\ ~more[c])
  BY DEF CallOK, WritersOK, UnforkedOK
<1>3. WritersOK(c)'
  BY <1>2 DEF CallOK, WritersOK, Waits
<1>4. UnforkedOK(c)' /\ CountOK(c)' /\ GoneOK(c)'
  BY <1>2 DEF CallOK, UnforkedOK, CountOK, GoneOK, WantOK, Waits
<1> QED BY <1>1, <1>3, <1>4 DEF CallOK

\* A solution that ends closes its ends of the pipes.
LEMMA EndsOwn ==
    ASSUME TypeOK, NEW c \in Calls, CallOK(c), NEW status \in Status,
           Ends(c, status), sol[c].state \in {"setup", "runs"},
           feeder' \in [Calls -> BOOLEAN],
           UNCHANGED <<pc, threadVars, killer, pipeVars>>
    PROVE  TypeOK' /\ CallOK(c)'
<1>1. sol \in [Calls -> Process] /\ sol[c] \in Process
  BY Typed
<1>2. /\ sol' \in [Calls -> Process]
      /\ writers' \in [Calls -> SUBSET Processes]
  BY EndsType
<1>3. /\ sol'[c].state = "zombie" /\ sol'[c].wrote = sol[c].wrote
      /\ sol'[c].wroteErr = sol[c].wroteErr /\ sol'[c].want = sol[c].want
  BY <1>1 DEF Ends, Process
<1>4. WantOK(c)'
  BY <1>3 DEF CallOK, WantOK
<1>5. JVM \in writers[c] => JVM \in writers'[c]
  BY Names DEF Ends, Closes, TypeOK
<1> QED BY <1>2, <1>3, <1>4, <1>5, QuietSolution

\* The solution's redirections and limits before exec keep the invariant of the
\* call.
LEMMA SetupOwn ==
    ASSUME IInv, NEW c \in Calls, Setup(c)
    PROVE  TypeOK' /\ CallOK(c)'
<1>0. /\ TypeOK /\ CallOK(c) /\ sol[c].state = "setup"
      /\ UNCHANGED <<pc, threadVars, killer, pipeVars>>
  BY DEF IInv, Setup
<1>1. sol \in [Calls -> Process] /\ sol[c] \in Process /\ feeder \in [Calls -> BOOLEAN]
  BY <1>0, Typed
<1>2. CASE /\ sol' = [sol EXCEPT ![c].state = "runs"]
           /\ feeder' = [feeder EXCEPT ![c] = TRUE]
           /\ Inherits(Feeder(c), Sol(c))
  <2> PICK r \in Process : r = [sol[c] EXCEPT !.state = "runs"]
    BY <1>1 DEF Process
  <2>1. sol' \in [Calls -> Process] /\ sol'[c] = r
    BY <1>1, <1>2
  <2>2. /\ r.state = "runs" /\ r.wrote = sol[c].wrote
        /\ r.wroteErr = sol[c].wroteErr /\ r.want = sol[c].want
    BY <1>1 DEF Process
  <2>3. writers' \in [Calls -> SUBSET Processes]
    BY <1>0, <1>2, NamesType, WritersType
  <2>4. /\ Sol(c) \in writers'[c]
        /\ JVM \in writers[c] => JVM \in writers'[c]
    BY <1>0, <1>2, NamesType, WritersKept, Names DEF CallOK, WritersOK
  <2>5. feeder' \in [Calls -> BOOLEAN]
    BY <1>1, <1>2
  <2>6. WantOK(c)'
    BY <1>0, <2>1, <2>2 DEF CallOK, WantOK
  <2> QED BY <1>0, <2>1, <2>2, <2>3, <2>4, <2>5, <2>6, QuietSolution
<1>3. CASE Ends(c, Exited(InternalError)) /\ UNCHANGED feeder
  <2>1. Exited(InternalError) \in Status
    BY DEF Exited, Status, Msecs
  <2> QED BY <1>0, <1>1, <1>3, <2>1, EndsOwn
<1> QED BY <1>2, <1>3 DEF Setup

\* The solution choosing what to do next keeps the invariant of the call.
LEMMA WantsOwn ==
    ASSUME IInv, NEW c \in Calls, Wants(c)
    PROVE  TypeOK' /\ CallOK(c)'
<1>0. /\ TypeOK /\ CallOK(c) /\ sol[c].state = "runs"
      /\ UNCHANGED <<pc, threadVars, feeder, killer, pipeVars, writers>>
  BY DEF IInv, Wants
<1>1. /\ sol \in [Calls -> Process] /\ sol[c] \in Process
      /\ feeder \in [Calls -> BOOLEAN] /\ writers \in [Calls -> SUBSET Processes]
  BY <1>0, Typed
<1>2. PICK want \in {"output", "errors", "sleep"} :
        /\ sol' = [sol EXCEPT ![c].want = want]
        /\ want = "output" => sol[c].wrote < MaxOut
        /\ want = "errors" => sol[c].wroteErr < MaxErr
  BY DEF Wants
<1> PICK r \in Process : r = [sol[c] EXCEPT !.want = want]
  BY <1>1 DEF Process
<1>3. sol' \in [Calls -> Process] /\ sol'[c] = r
  BY <1>1, <1>2
<1>4. /\ r.state = "runs" /\ r.wrote = sol[c].wrote
      /\ r.wroteErr = sol[c].wroteErr /\ r.want = want
  BY <1>0, <1>1 DEF Process
<1>5. Sol(c) \in writers'[c]
  BY <1>0 DEF CallOK, WritersOK
<1>6. WantOK(c)'
  BY <1>2, <1>3, <1>4 DEF WantOK
<1> QED BY <1>0, <1>1, <1>3, <1>4, <1>5, <1>6, QuietSolution

\* What is written is in the pipe.
LEMMA WriteOwn ==
    ASSUME IInv, NEW c \in Calls, Write(c)
    PROVE  TypeOK' /\ CallOK(c)'
<1>0. /\ TypeOK /\ CallOK(c) /\ sol[c].state = "runs"
      /\ UNCHANGED <<pc, threadVars, feeder, killer, writers>>
  BY DEF IInv, Write
<1>1. /\ sol \in [Calls -> Process] /\ sol[c] \in Process
      /\ out \in [Calls -> 0..PipeSize] /\ err \in [Calls -> 0..PipeSize]
      /\ PipeSize \in Nat /\ MaxOut \in Nat /\ MaxErr \in Nat
      /\ taken[c] \in Nat /\ OutLimit \in Nat
  BY <1>0, Typed, DtestAssumption
<1>2. /\ pc[c] \notin Waits /\ pc[c] # "done" /\ pc[c] \notin {"new", "piped"}
      /\ ~(pc[c] = "errors" /\ ~more[c])
      /\ Sol(c) \in writers[c]
  BY <1>0 DEF CallOK, WritersOK, UnforkedOK
<1>3. ASSUME NEW r \in Process, NEW o \in 0..PipeSize, NEW e \in 0..PipeSize,
             sol' = [sol EXCEPT ![c] = r],
             out' = [out EXCEPT ![c] = o], err' = [err EXCEPT ![c] = e],
             r.state = "runs", r.want = "nothing",
             r.wrote = sol[c].wrote + (o - out[c]), o >= out[c]
      PROVE  TypeOK' /\ CallOK(c)'
  <2>1. sol' \in [Calls -> Process] /\ sol'[c] = r
    BY <1>1, <1>3
  <2>2. /\ out' \in [Calls -> 0..PipeSize] /\ out'[c] = o
        /\ err' \in [Calls -> 0..PipeSize]
    BY <1>1, <1>3
  <2>3. TypeOK'
    BY <1>0, <2>1, <2>2 DEF TypeOK, Process, threadVars
  <2>4. WritersOK(c)' /\ UnforkedOK(c)' /\ GoneOK(c)' /\ WantOK(c)'
    <3>1. pc' = pc /\ writers' = writers /\ more' = more
      BY <1>0 DEF threadVars
    <3>2. WritersOK(c)'
      BY <1>0, <1>2, <1>3, <2>1, <3>1 DEF CallOK, WritersOK
    <3> QED BY <1>2, <1>3, <2>1, <3>1, <3>2 DEF UnforkedOK, GoneOK, WantOK, Waits
  <2>5. /\ sol[c].wrote \in Nat /\ out[c] \in Nat /\ o \in Nat
        /\ taken'[c] = taken[c] /\ (over'[c] <=> over[c])
    BY <1>0, <1>1 DEF Process, threadVars
  <2>6. CountOK(c)'
    BY <1>0, <1>1, <1>3, <2>1, <2>2, <2>5 DEF CallOK, CountOK
  <2> QED BY <2>3, <2>4, <2>6 DEF CallOK
<1>4. CASE /\ sol[c].want = "output" /\ out[c] < PipeSize
           /\ out' = [out EXCEPT ![c] = @ + 1]
           /\ sol' = [sol EXCEPT ![c].want = "nothing", ![c].wrote = @ + 1]
           /\ UNCHANGED err
  <2>1. sol[c].wrote < MaxOut
    BY <1>0, <1>4 DEF CallOK, WantOK
  <2>2. /\ sol[c].wrote \in Nat /\ out[c] \in Nat
        /\ sol[c].wrote + 1 \in 0..MaxOut /\ out[c] + 1 \in 0..PipeSize
    BY <1>1, <1>4, <2>1 DEF Process
  <2> PICK r \in Process :
        r = [sol[c] EXCEPT !.want = "nothing", !.wrote = sol[c].wrote + 1]
    BY <1>1, <2>2 DEF Process
  <2>3. sol' = [sol EXCEPT ![c] = r]
    BY <1>1, <1>4
  <2>4. r.state = "runs" /\ r.want = "nothing" /\ r.wrote = sol[c].wrote + 1
    BY <1>0, <1>1 DEF Process
  <2>5. /\ out' = [out EXCEPT ![c] = out[c] + 1]
        /\ err' = [err EXCEPT ![c] = err[c]] /\ err[c] \in 0..PipeSize
    BY <1>1, <1>4
  <2>6. r.wrote = sol[c].wrote + ((out[c] + 1) - out[c])
    BY <2>2, <2>4
  <2>7. out[c] + 1 >= out[c]
    BY <2>2
  <2> QED BY <1>3, <2>2, <2>3, <2>4, <2>5, <2>6, <2>7
<1>5. CASE /\ sol[c].want = "errors" /\ err[c] < PipeSize
           /\ err' = [err EXCEPT ![c] = @ + 1]
           /\ sol' = [sol EXCEPT ![c].want = "nothing", ![c].wroteErr = @ + 1]
           /\ UNCHANGED out
  <2>1. sol[c].wroteErr < MaxErr
    BY <1>0, <1>5 DEF CallOK, WantOK
  <2>2. /\ sol[c].wrote \in Nat /\ out[c] \in Nat
        /\ sol[c].wroteErr + 1 \in 0..MaxErr /\ err[c] + 1 \in 0..PipeSize
    BY <1>1, <1>5, <2>1 DEF Process
  <2> PICK r \in Process :
        r = [sol[c] EXCEPT !.want = "nothing", !.wroteErr = sol[c].wroteErr + 1]
    BY <1>1, <2>2 DEF Process
  <2>3. sol' = [sol EXCEPT ![c] = r]
    BY <1>1, <1>5
  <2>4. r.state = "runs" /\ r.want = "nothing" /\ r.wrote = sol[c].wrote
    BY <1>0, <1>1 DEF Process
  <2>5. /\ err' = [err EXCEPT ![c] = err[c] + 1]
        /\ out' = [out EXCEPT ![c] = out[c]] /\ out[c] \in 0..PipeSize
    BY <1>1, <1>5
  <2>6. r.wrote = sol[c].wrote + (out[c] - out[c])
    BY <2>2, <2>4
  <2>7. out[c] >= out[c]
    BY <2>2
  <2> QED BY <1>3, <2>2, <2>3, <2>4, <2>5, <2>6, <2>7
<1> QED BY <1>4, <1>5 DEF Write

\* The solution's end keeps the invariant of the call.
LEMMA ExitOwn ==
    ASSUME IInv, NEW c \in Calls, Exit(c)
    PROVE  TypeOK' /\ CallOK(c)'
<1>1. PICK status \in Status : Ends(c, status)
  BY DEF Exit, Exited, Signaled, Status, Msecs
<1>2. /\ sol[c].state = "runs"
      /\ UNCHANGED <<pc, threadVars, feeder, killer, pipeVars>>
  BY DEF Exit
<1>3. TypeOK /\ CallOK(c) /\ feeder \in [Calls -> BOOLEAN]
  BY Typed DEF IInv
<1> QED BY <1>1, <1>2, <1>3, EndsOwn

\* The end of the process that feeds the input keeps the invariant of the call.
LEMMA FeederEndsOwn ==
    ASSUME IInv, NEW c \in Calls, FeederEnds(c)
    PROVE  TypeOK' /\ CallOK(c)'
<1>0. /\ TypeOK /\ CallOK(c)
      /\ UNCHANGED <<pc, threadVars, sol, killer, pipeVars>>
  BY DEF IInv, FeederEnds
<1>1. feeder' \in [Calls -> BOOLEAN]
  BY <1>0, Typed DEF FeederEnds
<1>2. writers' \in [Calls -> SUBSET Processes]
  BY <1>0, NamesType, WritersType DEF FeederEnds
<1>3. /\ writers[c] = {} => writers'[c] = {}
      /\ JVM \in writers[c] => JVM \in writers'[c]
      /\ Sol(c) \in writers[c] => Sol(c) \in writers'[c]
  BY <1>0, WritersKept, Names DEF FeederEnds
<1>4. TypeOK'
  BY <1>0, <1>1, <1>2 DEF TypeOK, threadVars, pipeVars
<1>5. CallOK(c)'
  BY <1>0, <1>3
  DEF CallOK, WritersOK, UnforkedOK, CountOK, GoneOK, WantOK, Waits, threadVars, pipeVars
<1> QED BY <1>4, <1>5

\* The sleeper's end, before it could kill, keeps the invariant of the call.
LEMMA KillerEndsOwn ==
    ASSUME IInv, NEW c \in Calls, KillerEnds(c)
    PROVE  TypeOK' /\ CallOK(c)'
<1>0. /\ TypeOK /\ CallOK(c) /\ killer[c] = "sleeps"
      /\ UNCHANGED <<pc, threadVars, sol, feeder, pipeVars>>
  BY DEF IInv, KillerEnds
<1>1. killer' \in [Calls -> {"none", "sleeps", "zombie", "reaped", "failed"}]
  BY <1>0, Typed DEF KillerEnds
<1>2. writers' \in [Calls -> SUBSET Processes]
  BY <1>0, NamesType, WritersType DEF KillerEnds
<1>3. /\ writers[c] = {} => writers'[c] = {}
      /\ JVM \in writers[c] => JVM \in writers'[c]
      /\ Sol(c) \in writers[c] => Sol(c) \in writers'[c]
  BY <1>0, WritersKept, Names DEF KillerEnds
<1>4. TypeOK'
  BY <1>0, <1>1, <1>2 DEF TypeOK, threadVars, pipeVars
<1>5. sol[c].state # "none"
  BY <1>0 DEF CallOK, UnforkedOK
<1>6. pc[c] \notin {"judge", "reap", "done"}
  BY <1>0, <1>5 DEF CallOK, GoneOK
<1>7. CallOK(c)'
  BY <1>0, <1>3, <1>5, <1>6
  DEF CallOK, WritersOK, UnforkedOK, CountOK, GoneOK, WantOK, Waits, threadVars, pipeVars
<1> QED BY <1>4, <1>7

-----------------------------------------------------------------------------
\* The initial state satisfies the inductive invariant.
LEMMA InvInit == Init => IInv
<1> SUFFICES ASSUME Init PROVE \A c \in Calls : CallOK(c)
  BY TypeInit DEF IInv
<1> SUFFICES ASSUME NEW c \in Calls PROVE CallOK(c)
  OBVIOUS
<1>1. /\ pc[c] = "new" /\ sol[c] = NoProcess /\ killer[c] = "none"
      /\ taken[c] = 0 /\ out[c] = 0 /\ err[c] = 0
  BY DEF Init
<1>2. ~over[c]
  BY DEF Init
<1> QED
  BY <1>1, <1>2
  DEF CallOK, WritersOK, UnforkedOK, CountOK, GoneOK, WantOK, Waits, NoProcess

\* Every step keeps the inductive invariant of every call.
LEMMA InvStep == IInv /\ [Next]_vars => IInv'
<1> SUFFICES ASSUME IInv, [Next]_vars PROVE IInv'
  OBVIOUS
<1>1. CASE UNCHANGED vars
  BY <1>1
  DEF vars, threadVars, pipeVars, IInv, TypeOK, CallOK, WritersOK, UnforkedOK,
      CountOK, GoneOK, WantOK
<1>2. ASSUME NEW c \in Calls, Step(c)
      PROVE  IInv'
  <2>1. TypeOK' /\ CallOK(c)'
    BY <1>2, MakePipesOwn, ForkSolutionOwn, CloseWriteEndsOwn, ForkKillerOwn,
       ReadOutputOwn, ReadErrorsOwn, WaitSolutionOwn, WaitKillerOwn, JudgeOwn,
       ReapOwn, SetupOwn, WantsOwn, WriteOwn, ExitOwn, FeederEndsOwn, KillerEndsOwn
    DEF Step, Thread, Solution
  <2>2. ASSUME NEW d \in Calls \ {c} PROVE CallOK(d)'
    <3>1. Keeps(d)
      BY <1>2, ThreadKeeps, ProcessKeeps DEF Step, IInv
    <3> QED BY <3>1, KeptOK DEF IInv
  <2> QED BY <2>1, <2>2 DEF IInv
<1> QED BY <1>1, <1>2 DEF Next, Terminated, Step

\* Type correctness of the launcher, for any number of calls that share the
\* children and the open files of one process.
THEOREM LauncherTyped == Spec => []TypeOK
<1>1. IInv => TypeOK
  BY DEF IInv
<1> QED BY <1>1, InvInit, InvStep, PTL DEF Spec

\* The invariant says that the output is whole: the count of what was read is
\* exact, and a thread that waits has seen the ends of both files.
LEMMA WholeMeans == IInv => OutputWhole
<1>1. ASSUME IInv PROVE OutputWhole
  <2> SUFFICES ASSUME NEW c \in Calls,
                      pc[c] \in {"wait", "waitKiller", "judge", "reap", "done"}
               PROVE  /\ sol[c].state # "none" => Ended(c)
                      /\ out[c] = 0 /\ err[c] = 0
                      /\ over[c] <=> sol[c].wrote > OutLimit
                      /\ ~over[c] => taken[c] = sol[c].wrote
    BY DEF OutputWhole
  <2>1. /\ taken[c] \in 0..OutLimit /\ OutLimit \in Nat
        /\ sol[c].state \in {"none", "setup", "runs", "zombie", "reaped"}
    BY <1>1, Typed, DtestAssumption DEF IInv, Process
  <2>2. CallOK(c)
    BY <1>1 DEF IInv
  <2>3. out[c] = 0 /\ err[c] = 0
    BY <2>2 DEF CallOK, WritersOK, UnforkedOK, Waits
  <2>4. sol[c].state # "none" => Ended(c)
    BY <2>1, <2>2 DEF CallOK, WritersOK, Waits, Ended
  <2>5. sol[c].wrote \in Nat /\ taken[c] \in Nat
    BY <1>1, Typed DEF IInv, Process
  <2>6. /\ ~over[c] => taken[c] = sol[c].wrote
        /\ over[c] => sol[c].wrote > OutLimit
    BY <2>2, <2>3, <2>5 DEF CallOK, CountOK
  <2>7. over[c] <=> sol[c].wrote > OutLimit
    BY <2>1, <2>5, <2>6
  <2> QED BY <2>3, <2>4, <2>6, <2>7
<1> QED BY <1>1

\* Nothing the solution wrote within the limit is lost: the loop over the two
\* pipes ends at the ends of both files, however the processes of other calls
\* inherit the pipes.
THEOREM NothingLost == Spec => []OutputWhole
  BY InvInit, InvStep, WholeMeans, PTL DEF Spec

\* The invariant says that a call which has returned has no child left.
LEMMA ReapedMeans == IInv => NoChildLeft
<1>1. ASSUME IInv PROVE NoChildLeft
  <2> SUFFICES ASSUME NEW c \in Calls, pc[c] = "done"
               PROVE  Sol(c) \notin Children /\ Killer(c) \notin Children
    BY DEF NoChildLeft
  <2>1. /\ sol[c].state \in {"none", "reaped"}
        /\ killer[c] \notin {"sleeps", "zombie"}
    BY <1>1 DEF IInv, CallOK, UnforkedOK, GoneOK
  <2> QED BY <2>1, Names DEF Children
<1> QED BY <1>1

\* A call that has returned leaves no child, even when calls take each other's
\* children in their loops of waitpid(-1).
THEOREM NoChildForgotten == Spec => []NoChildLeft
  BY InvInit, InvStep, ReapedMeans, PTL DEF Spec

-----------------------------------------------------------------------------
(* The verdict of a call that is alone in its process.                      *)

\* The statuses a process can end with.
EndStatus ==
    {Exited(code) : code \in ExitCodes \cup {InternalError}}
        \cup {Signaled(sig, ms) : sig \in {"SIGKILL", "SIGSEGV"}, ms \in Msecs}

Waited == {"waitKiller", "judge", "reap", "done"}

\* Nobody else takes the children of a call that is alone: what it is told is
\* the status its solution ended with, and its killer is there to be waited
\* for unless its fork failed.
LoneOK(c) ==
    /\ sol[c].state \in {"none", "setup", "runs"} => sol[c].status = Running
    /\ Ended(c) => sol[c].status \in EndStatus
    /\ pc[c] \notin Waited => sol[c].state # "reaped"
    /\ pc[c] \in Waited /\ sol[c].state # "none" => seen[c] = sol[c].status
    /\ pc[c] \notin {"judge", "reap", "done"} => killer[c] # "reaped"
    /\ pc[c] \in {"new", "piped", "forked", "closed"} => killer[c] = "none"
    /\ late[c] => killer[c] = "failed"
    /\ pc[c] \notin {"reap", "done"} \/ sol[c].state = "none" =>
          result[c] = "INTERNAL_ERROR"
    /\ pc[c] \in {"reap", "done"} /\ sol[c].state # "none" =>
          result[c] \in Verdict(c)

\* At the start a lone call has nothing to be wrong about.
LEMMA LoneInit == ASSUME Init, NEW c \in Calls PROVE LoneOK(c)
<1>1. /\ pc[c] = "new" /\ sol[c] = NoProcess /\ killer[c] = "none"
      /\ result[c] = "INTERNAL_ERROR"
  BY DEF Init
<1>2. ~late[c]
  BY DEF Init
<1> QED BY <1>1, <1>2 DEF LoneOK, NoProcess, Ended, Waited

\* Steps after which the thread has not yet waited for the solution, and which
\* do nothing to what it will be told.
LEMMA LoneBefore ==
    ASSUME NEW c \in Calls, LoneOK(c), pc[c] \notin Waited, pc'[c] \notin Waited,
           UNCHANGED <<late, result>>,
           killer'[c] # "reaped", killer[c] = "failed" => killer'[c] = "failed",
           pc'[c] \in {"new", "piped", "forked", "closed"} => killer'[c] = "none",
           sol'[c].state \in {"none", "setup", "runs", "zombie"},
           sol'[c].state # "zombie" => sol'[c].status = Running,
           sol'[c].state = "zombie" => sol'[c].status \in EndStatus
    PROVE  LoneOK(c)'
<1>1. late'[c] => killer'[c] = "failed"
  BY DEF LoneOK
<1>2. result'[c] = "INTERNAL_ERROR"
  BY DEF LoneOK, Waited
<1>3. pc'[c] \notin {"judge", "reap", "done"}
  BY DEF Waited
<1> QED BY <1>1, <1>2, <1>3 DEF LoneOK, Ended

\* Steps of the thread after it has waited, which do nothing to the solution.
LEMMA LoneAfter ==
    ASSUME NEW c \in Calls, LoneOK(c),
           pc[c] \in {"waitKiller", "judge", "reap"},
           pc'[c] \in {"judge", "reap", "done"},
           sol'[c] = sol[c], sol[c].state = "reaped", UNCHANGED <<seen, over>>,
           late'[c] => killer'[c] = "failed",
           pc'[c] \in {"reap", "done"} => result'[c] \in Verdict(c)',
           pc'[c] = "judge" => pc[c] = "waitKiller" /\ UNCHANGED result
    PROVE  LoneOK(c)'
<1>1. pc'[c] = "judge" => result'[c] = "INTERNAL_ERROR"
  <2> HAVE pc'[c] = "judge"
  <2>1. pc[c] = "waitKiller" /\ result' = result
    OBVIOUS
  <2>2. result[c] = "INTERNAL_ERROR"
    BY <2>1 DEF LoneOK
  <2> QED BY <2>1, <2>2
<1>2. sol'[c].status \in EndStatus /\ seen'[c] = sol'[c].status
  BY DEF LoneOK, Waited, Ended
<1>3. sol'[c].state = "reaped" /\ pc'[c] \in Waited
  BY DEF Waited
<1>4. pc'[c] \notin {"new", "piped", "forked", "closed"}
  OBVIOUS
<1>5. (pc'[c] \in {"reap", "done"} /\ sol'[c].state # "none" =>
          result'[c] \in Verdict(c)')
  OBVIOUS
<1>6. pc'[c] \notin {"reap", "done"} \/ sol'[c].state = "none" =>
          result'[c] = "INTERNAL_ERROR"
  BY <1>1, <1>3
<1> QED BY <1>2, <1>3, <1>4, <1>5, <1>6 DEF LoneOK

\* The thread of a lone call takes its own child's status, and judges by it.
LEMMA LoneThread ==
    ASSUME IInv, NEW c \in Calls, LoneOK(c), Thread(c)
    PROVE  LoneOK(c)'
<1>0. TypeOK /\ CallOK(c)
  BY DEF IInv
<1>1. /\ pc \in [Calls -> Places] /\ sol \in [Calls -> Process]
      /\ seen \in [Calls -> Status] /\ late \in [Calls -> BOOLEAN]
      /\ killer \in [Calls -> {"none", "sleeps", "zombie", "reaped", "failed"}]
      /\ result \in [Calls -> Results] /\ sol[c] \in Process
  BY <1>0, Typed
<1>2. sol[c].state \in {"none", "setup", "runs", "zombie", "reaped"}
  BY <1>1 DEF Process
<1>3. ASSUME pc[c] \notin Waited
      PROVE  /\ sol[c].state \in {"none", "setup", "runs", "zombie"}
             /\ sol[c].state # "zombie" => sol[c].status = Running
             /\ sol[c].state = "zombie" => sol[c].status \in EndStatus
             /\ killer[c] # "reaped"
             /\ pc[c] \in {"new", "piped", "forked", "closed"} => killer[c] = "none"
  BY <1>2, <1>3 DEF LoneOK, Ended, Waited
<1>4. CASE MakePipes(c) \/ CloseWriteEnds(c) \/ ReadErrors(c)
  <2>1. /\ pc[c] \notin Waited /\ pc'[c] \notin Waited
        /\ UNCHANGED <<late, result, sol, killer>>
        /\ pc'[c] \in {"new", "piped", "forked", "closed"} =>
              pc[c] \in {"new", "piped", "forked", "closed"}
    BY <1>1, <1>4
    DEF MakePipes, CloseWriteEnds, ReadErrors, Goto, threadVars, Waited
  <2> QED BY <1>3, <2>1, LoneBefore
<1>5. CASE ForkSolution(c)
  <2>1. pc[c] = "piped" /\ UNCHANGED <<late, result, killer, seen>>
    BY <1>5 DEF ForkSolution, threadVars
  <2>2. sol[c].state = "none"
    BY <1>0, <2>1 DEF CallOK, UnforkedOK
  <2>3. CASE pc'[c] = "done" /\ sol' = sol
    <3>1. result'[c] = "INTERNAL_ERROR" /\ (late'[c] => killer'[c] = "failed")
      BY <2>1 DEF LoneOK
    <3> QED BY <1>3, <2>1, <2>2, <2>3, <3>1 DEF LoneOK, Ended, Waited
  <2>4. CASE pc'[c] = "forked" /\ sol' = [sol EXCEPT ![c].state = "setup"]
    <3>1. sol'[c].state = "setup" /\ sol'[c].status = Running
      BY <1>1, <1>3, <2>1, <2>2, <2>4 DEF Process, Waited
    <3>2. pc[c] \notin Waited /\ pc'[c] \notin Waited
      BY <2>1, <2>4 DEF Waited
    <3> QED BY <1>3, <2>1, <3>1, <3>2, LoneBefore
  <2> QED BY <1>1, <1>5, <2>3, <2>4 DEF ForkSolution, Goto
<1>6. CASE ForkKiller(c)
  <2>1. /\ pc[c] = "closed" /\ pc'[c] = "output" /\ UNCHANGED <<late, result, sol>>
        /\ killer'[c] \in {"sleeps", "failed"}
    BY <1>1, <1>6 DEF ForkKiller, Goto, threadVars
  <2>2. pc[c] \notin Waited /\ pc'[c] \notin Waited
    BY <2>1 DEF Waited
  <2>3. killer[c] = "none"
    BY <1>3, <2>1, <2>2
  <2> QED BY <1>3, <2>1, <2>2, <2>3, LoneBefore
<1>7. CASE ReadOutput(c)
  <2>1. /\ pc[c] = "output" /\ pc'[c] = "errors" /\ UNCHANGED <<late, result, killer>>
        /\ sol' = sol \/ sol' = Killed(c)
    BY <1>1, <1>7 DEF ReadOutput, Goto
  <2>2. pc[c] \notin Waited /\ pc'[c] \notin Waited
    BY <2>1 DEF Waited
  <2>3. /\ sol'[c].state \in {"none", "setup", "runs", "zombie"}
        /\ sol'[c].state # "zombie" => sol'[c].status = Running
        /\ sol'[c].state = "zombie" => sol'[c].status \in EndStatus
    <3>1. CASE sol' = sol
      BY <1>3, <2>2, <3>1
    <3>2. CASE /\ sol[c].state = "runs"
               /\ sol' = [sol EXCEPT ![c].state = "zombie", ![c].want = "nothing",
                                     ![c].status = Signaled("SIGKILL", 0)]
      <4>1. sol'[c].state = "zombie" /\ sol'[c].status = Signaled("SIGKILL", 0)
        BY <1>1, <3>2 DEF Process
      <4>2. Signaled("SIGKILL", 0) \in EndStatus
        BY DEF EndStatus, Msecs
      <4> QED BY <4>1, <4>2
    <3> QED BY <2>1, <3>1, <3>2 DEF Killed
  <2> QED BY <1>3, <2>1, <2>2, <2>3, LoneBefore
<1>8. CASE WaitSolution(c)
  <2>1. /\ pc[c] = "wait" /\ pc'[c] = "waitKiller"
        /\ UNCHANGED <<late, result, killer>>
    BY <1>1, <1>8 DEF WaitSolution, Goto
  <2>2. pc[c] \notin Waited
    BY <2>1 DEF Waited
  <2>3. /\ sol[c].state = "zombie" /\ seen'[c] = sol[c].status
        /\ sol' = [sol EXCEPT ![c].state = "reaped"]
    BY <1>1, <1>3, <1>8, <2>2 DEF WaitSolution
  <2>4. sol'[c].state = "reaped" /\ sol'[c].status = sol[c].status
    BY <1>1, <2>3 DEF Process
  <2>5. result'[c] = "INTERNAL_ERROR"
    <3>1. result[c] = "INTERNAL_ERROR"
      BY <2>1 DEF LoneOK
    <3> QED BY <2>1, <3>1
  <2>6. late'[c] => killer'[c] = "failed"
    BY <2>1 DEF LoneOK
  <2>7. killer'[c] # "reaped" /\ sol'[c].status \in EndStatus
    BY <1>3, <2>1, <2>2, <2>3, <2>4
  <2> QED BY <2>1, <2>3, <2>4, <2>5, <2>6, <2>7 DEF LoneOK, Ended, Waited
<1>9. CASE WaitKiller(c)
  <2>1. /\ pc[c] = "waitKiller" /\ pc'[c] = "judge" /\ UNCHANGED <<over, seen, result>>
    BY <1>1, <1>9 DEF WaitKiller, Goto
  <2>2. sol[c].state = "reaped" /\ killer[c] # "reaped"
    BY <1>0, <2>1 DEF CallOK, GoneOK, LoneOK
  <2>3. /\ sol'[c] = sol[c]
        /\ late'[c] => killer'[c] = "failed"
    <3>1. CASE killer[c] = "zombie" /\ Reaped(Killer(c)) /\ UNCHANGED late
      <4>1. Killer(c) \in Zombies
        BY <3>1, ZombieNames
      <4> QED BY <1>0, <2>2, <3>1, <4>1, ReapedKeeps DEF LoneOK
    <3>2. CASE killer[c] = "failed" /\ (\E p \in Zombies : Reaped(p)) /\ UNCHANGED late
      BY <1>0, <2>2, <3>2, ReapedKeeps DEF LoneOK
    <3>3. CASE killer[c] = "failed" /\ UNCHANGED <<sol, killer>>
      BY <3>3
    <3> QED BY <1>9, <2>2, <3>1, <3>2, <3>3 DEF WaitKiller
  <2> QED BY <2>1, <2>2, <2>3, LoneAfter
<1>10. CASE Judge(c)
  <2>1. /\ pc[c] = "judge" /\ pc'[c] = "reap"
        /\ UNCHANGED <<over, seen, late, sol, killer>>
    BY <1>1, <1>10 DEF Judge, Goto
  <2>2. sol[c].state = "reaped"
    BY <1>0, <2>1 DEF CallOK, GoneOK
  <2>3. result'[c] \in Verdict(c)
    BY <1>1, <1>10 DEF Judge
  <2>4. Verdict(c)' = Verdict(c)
    BY <2>1 DEF Verdict, JudgedStatus
  <2>5. late'[c] => killer'[c] = "failed"
    BY <2>1 DEF LoneOK
  <2> QED BY <2>1, <2>2, <2>3, <2>4, <2>5, LoneAfter
<1>11. CASE Reap(c)
  <2>1. /\ pc[c] = "reap" /\ pc'[c] \in {"reap", "done"}
        /\ UNCHANGED <<over, seen, late, result>>
    BY <1>1, <1>11 DEF Reap, Goto, threadVars
  <2>2. sol[c].state = "reaped" /\ killer[c] \in {"reaped", "failed"}
    BY <1>0, <2>1 DEF CallOK, GoneOK
  <2>3. sol'[c] = sol[c] /\ killer'[c] = killer[c]
    BY <1>0, <1>11, <2>2, ReapedKeeps DEF Reap
  <2>4. result'[c] \in Verdict(c)
    BY <2>1, <2>2 DEF LoneOK
  <2>5. Verdict(c)' = Verdict(c)
    BY <2>1 DEF Verdict, JudgedStatus
  <2>6. late'[c] => killer'[c] = "failed"
    BY <2>1, <2>3 DEF LoneOK
  <2> QED BY <2>1, <2>2, <2>3, <2>4, <2>5, <2>6, LoneAfter
<1> QED BY <1>4, <1>5, <1>6, <1>7, <1>8, <1>9, <1>10, <1>11 DEF Thread

\* A lone call's children end with the status its verdict will be made of.
LEMMA LoneProcess ==
    ASSUME IInv, NEW c \in Calls, LoneOK(c),
           Setup(c) \/ Solution(c) \/ FeederEnds(c) \/ KillerEnds(c)
    PROVE  LoneOK(c)'
<1>0. TypeOK /\ CallOK(c)
  BY DEF IInv
<1>1. /\ sol \in [Calls -> Process] /\ sol[c] \in Process
      /\ killer \in [Calls -> {"none", "sleeps", "zombie", "reaped", "failed"}]
  BY <1>0, Typed
<1>2. sol[c].state \in {"none", "setup", "runs", "zombie", "reaped"}
  BY <1>1 DEF Process
<1>3. UNCHANGED <<pc, late, result, seen, over>>
  BY DEF Setup, Solution, Wants, Write, Exit, FeederEnds, KillerEnds, threadVars
<1>4. CASE FeederEnds(c) \/ KillerEnds(c)
  <2>1. /\ UNCHANGED sol
        /\ killer'[c] = killer[c] \/ (killer[c] = "sleeps" /\ killer'[c] = "zombie")
    BY <1>1, <1>4 DEF FeederEnds, KillerEnds
  <2>2. Verdict(c)' = Verdict(c)
    BY <1>3 DEF Verdict, JudgedStatus
  <2>3. late'[c] => killer'[c] = "failed"
    BY <1>3, <2>1 DEF LoneOK
  <2>4. pc'[c] \in {"new", "piped", "forked", "closed"} => killer'[c] = "none"
    BY <1>3, <2>1 DEF LoneOK
  <2>5. pc'[c] \notin {"judge", "reap", "done"} => killer'[c] # "reaped"
    BY <1>3, <2>1 DEF LoneOK
  <2> QED BY <1>3, <2>1, <2>2, <2>3, <2>4, <2>5 DEF LoneOK, Ended
<1>5. CASE Setup(c) \/ Solution(c)
  <2>1. sol[c].state \in {"setup", "runs"} /\ UNCHANGED killer
    BY <1>5 DEF Setup, Solution, Wants, Write, Exit
  <2>2. pc[c] \notin Waited
    BY <1>0, <2>1 DEF CallOK, GoneOK, WritersOK, Waits, Waited
  <2>3. /\ sol'[c].state \in {"runs", "zombie"}
        /\ sol'[c].state # "zombie" => sol'[c].status = sol[c].status
        /\ sol'[c].state = "zombie" => sol'[c].status \in EndStatus
    <3>1. ASSUME NEW status \in EndStatus, Ends(c, status)
          PROVE  sol'[c].state = "zombie" /\ sol'[c].status \in EndStatus
      BY <1>1, <3>1 DEF Ends, Process
    <3>2. CASE Setup(c)
      <4>1. Exited(InternalError) \in EndStatus
        BY DEF EndStatus
      <4>2. CASE Ends(c, Exited(InternalError))
        BY <3>1, <4>1, <4>2
      <4>3. CASE sol' = [sol EXCEPT ![c].state = "runs"]
        BY <1>1, <4>3 DEF Process
      <4> QED BY <3>2, <4>2, <4>3 DEF Setup
    <3>3. CASE Wants(c) \/ Write(c)
      BY <1>1, <3>3 DEF Wants, Write, Process
    <3>4. CASE Exit(c)
      <4>1. \E status \in EndStatus : Ends(c, status)
        BY <3>4 DEF Exit, EndStatus, Msecs
      <4> QED BY <3>1, <4>1
    <3> QED BY <1>5, <3>2, <3>3, <3>4 DEF Solution
  <2>4. sol[c].status = Running
    BY <2>1 DEF LoneOK
  <2>5. /\ killer[c] # "reaped"
        /\ pc[c] \in {"new", "piped", "forked", "closed"} => killer[c] = "none"
    BY <2>2 DEF LoneOK, Waited
  <2> QED BY <1>3, <2>1, <2>2, <2>3, <2>4, <2>5, LoneBefore
<1> QED BY <1>4, <1>5

\* What the verdict says of the status a process ended with.
LEMMA VerdictMeaning ==
    ASSUME NEW st \in EndStatus
    PROVE  /\ "PASSED" \in JudgedStatus(st) <=> st = Exited(0)
           /\ "OUTPUT_LIMIT" \notin JudgedStatus(st)
           /\ "TIME_LIMIT" \in JudgedStatus(st) => OverCpu(st.msec)
           /\ \E r \in Results : JudgedStatus(st) = {r}
<1>1. CASE \E code \in ExitCodes \cup {InternalError} : st = Exited(code)
  <2> PICK code \in ExitCodes \cup {InternalError} : st = Exited(code)
    BY <1>1
  <2>1. st.end = "exit" /\ st.code = code
    BY DEF Exited
  <2>2. st = Exited(0) <=> code = 0
    BY DEF Exited
  <2>3. CASE code = 0
    BY <2>1, <2>2, <2>3 DEF JudgedStatus, InternalError, Results
  <2>4. CASE code = InternalError
    BY <2>1, <2>2, <2>4 DEF JudgedStatus, InternalError, Results
  <2>5. CASE code \notin {0, InternalError}
    BY <2>1, <2>2, <2>5 DEF JudgedStatus, InternalError, Results
  <2> QED BY <2>3, <2>4, <2>5
<1>2. CASE \E sig \in {"SIGKILL", "SIGSEGV"}, ms \in Msecs : st = Signaled(sig, ms)
  <2> PICK sig \in {"SIGKILL", "SIGSEGV"}, ms \in Msecs : st = Signaled(sig, ms)
    BY <1>2
  <2>1. st.end = sig /\ st.msec = ms /\ st # Exited(0)
    BY DEF Signaled, Exited
  <2>2. CASE OverCpu(ms)
    BY <2>1, <2>2 DEF JudgedStatus, Results
  <2>3. CASE ~OverCpu(ms) /\ sig = "SIGSEGV"
    BY <2>1, <2>3 DEF JudgedStatus, Results
  <2>4. CASE ~OverCpu(ms) /\ sig = "SIGKILL"
    BY <2>1, <2>4 DEF JudgedStatus, Results
  <2> QED BY <2>2, <2>3, <2>4
<1> QED BY <1>1, <1>2 DEF EndStatus

\* A limit in whole seconds is exceeded when the kernel enforces it.
LEMMA WholeSeconds ==
    ASSUME CpuMsec >= 1000, CpuMsec % 1000 = 0
    PROVE  OverCpu(CpuKillAt)
<1>1. CpuMsec \in Nat
  BY DtestAssumption
<1>2. CpuMsec = 1000 * (CpuMsec \div 1000) + (CpuMsec % 1000)
  BY <1>1
<1>3. CpuKillAt = CpuMsec
  BY <1>1, <1>2 DEF CpuKillAt
<1> QED BY <1>1, <1>3 DEF OverCpu, CpuBonus

\* The verdict of a call that has its process for itself is true, for every
\* size of the pipes and every limit: nothing is uninitialized, and what the
\* thread is told is what its solution did.
LEMMA LoneTrue ==
    ASSUME IInv, NEW c \in Calls, LoneOK(c), pc[c] = "done", killer[c] # "failed"
    PROVE  LET s == sol[c]
           IN  /\ result[c] = "PASSED" <=>
                      Ended(c) /\ s.status = Exited(0) /\ s.wrote <= OutLimit
               /\ result[c] = "OUTPUT_LIMIT" <=> s.wrote > OutLimit
               /\ result[c] = "TIME_LIMIT" => OverCpu(s.status.msec)
               /\ /\ s.status = Signaled("SIGKILL", CpuKillAt)
                  /\ s.wrote <= OutLimit /\ CpuMsec >= 1000 /\ CpuMsec % 1000 = 0
                  => result[c] = "TIME_LIMIT"
<1>0. /\ TypeOK /\ CallOK(c) /\ sol[c] \in Process /\ OutLimit \in Nat
      /\ sol[c].wrote \in Nat
  BY Typed, DtestAssumption DEF IInv, Process
<1>1. CASE sol[c].state = "none"
  <2>1. result[c] = "INTERNAL_ERROR" /\ sol[c].wrote = 0 /\ sol[c].status = Running
    BY <1>0, <1>1 DEF LoneOK, CallOK, UnforkedOK
  <2>2. ~Ended(c) /\ Running # Signaled("SIGKILL", CpuKillAt)
    BY <1>1 DEF Ended, Running, Signaled
  <2> QED BY <1>0, <2>1, <2>2
<1>2. CASE sol[c].state # "none"
  <2>1. /\ Ended(c) /\ sol[c].status \in EndStatus /\ seen[c] = sol[c].status
        /\ result[c] \in Verdict(c) /\ ~late[c]
    BY <1>0, <1>2 DEF LoneOK, CallOK, GoneOK, Ended, Waited
  <2>2. over[c] <=> sol[c].wrote > OutLimit
    <3>1. taken[c] \in 0..OutLimit
      BY <1>0, Typed
    <3>2. ~over[c] => sol[c].wrote = taken[c] + out[c] /\ out[c] = 0
      BY <1>0, <1>2 DEF CallOK, CountOK, WritersOK
    <3> QED BY <1>0, <3>1, <3>2 DEF CallOK, CountOK
  <2>3. CASE over[c]
    <3>1. result[c] = "OUTPUT_LIMIT"
      BY <2>1, <2>3 DEF Verdict
    <3> QED BY <1>0, <2>2, <2>3, <3>1
  <2>4. CASE ~over[c]
    <3>1. result[c] \in JudgedStatus(sol[c].status)
      BY <2>1, <2>4 DEF Verdict
    <3> PICK r \in Results : JudgedStatus(sol[c].status) = {r}
      BY <2>1, VerdictMeaning
    <3>2. result[c] = r
      BY <3>1
    <3>3. sol[c].status = Signaled("SIGKILL", CpuKillAt) /\ CpuMsec >= 1000
             /\ CpuMsec % 1000 = 0 => r = "TIME_LIMIT"
      <4> SUFFICES ASSUME sol[c].status = Signaled("SIGKILL", CpuKillAt),
                          OverCpu(CpuKillAt)
                   PROVE  JudgedStatus(sol[c].status) = {"TIME_LIMIT"}
        BY WholeSeconds
      <4> QED BY DEF Signaled, JudgedStatus
    <3>4. /\ r = "PASSED" <=> sol[c].status = Exited(0)
          /\ r # "OUTPUT_LIMIT"
          /\ r = "TIME_LIMIT" => OverCpu(sol[c].status.msec)
      BY <2>1, VerdictMeaning
    <3> QED BY <1>0, <2>1, <2>2, <2>4, <3>2, <3>3, <3>4
  <2> QED BY <2>3, <2>4
<1> QED BY <1>1, <1>2

\* Every step of the only call and of its processes keeps what is known of it.
LEMMA LoneKept ==
    ASSUME NEW c, Calls = {c}
    PROVE  IInv /\ LoneOK(c) /\ [Next]_vars => LoneOK(c)'
<1> SUFFICES ASSUME IInv, LoneOK(c), [Next]_vars PROVE LoneOK(c)'
  OBVIOUS
<1>1. CASE UNCHANGED vars
  BY <1>1
  DEF vars, threadVars, pipeVars, LoneOK, Ended, Verdict, JudgedStatus
<1>2. CASE Thread(c)
  BY <1>2, LoneThread
<1>3. CASE Setup(c) \/ Solution(c) \/ FeederEnds(c) \/ KillerEnds(c)
  BY <1>3, LoneProcess
<1> QED BY <1>1, <1>2, <1>3 DEF Next, Terminated

\* What is known of the only call makes its verdict true.
LEMMA LoneMeans ==
    ASSUME NEW c, Calls = {c} PROVE IInv /\ LoneOK(c) => VerdictTrue
  BY LoneTrue DEF VerdictTrue

\* A call that has the Java process for itself returns a true verdict, however
\* its solution, the feeder and the killer interleave with it and whichever
\* fork fails.
THEOREM LoneVerdict == ASSUME NEW c, Calls = {c} PROVE Spec => []VerdictTrue
<1>1. Init => IInv /\ LoneOK(c)
  BY InvInit, LoneInit
<1>2. IInv /\ LoneOK(c) /\ [Next]_vars => (IInv /\ LoneOK(c))'
  BY InvStep, LoneKept
<1> QED BY <1>1, <1>2, LoneMeans, PTL DEF Spec
=============================================================================
