------------------------------ MODULE DtestUnix ------------------------------
(***************************************************************************)
(* The launcher of the slaves on Unix: check_solution_as_user of dtest.    *)
(* Every call runs in a thread of the slave's Java process ("the JVM"): it *)
(* makes two pipes, forks the solution (which forks a feeder for its       *)
(* standard input), forks a killer, reads the pipes in turn to their ends, *)
(* waits for both children and judges what they did.                       *)
(*                                                                         *)
(* Calls of several threads share the JVM's children and its open files: a *)
(* process forked while another call holds the write ends of its pipes     *)
(* inherits them, and waitpid(-1) takes anybody's child.  Process          *)
(* identifiers are taken not to be reused.  Bytes are counted in units.    *)
(***************************************************************************)
EXTENDS Integers

CONSTANTS
    Calls,      \* calls of checkSolution, each in a thread of its own
    PipeSize,   \* units a pipe holds
    ReadSize,   \* units one read takes at most (out_buf_size)
    OutLimit,   \* limits.out_bytes
    CpuMsec,    \* limits.cpu_msec
    MaxOut,     \* bound: units a solution writes to its output
    MaxErr,     \* bound: units a solution writes to its error stream
    ExitCodes,  \* codes a solution may exit with
    MayCrash,   \* whether a solution may crash
    MaySleep,   \* whether a solution may sleep for ever
    ForkMayFail \* whether fork and the child's preparations may fail

ASSUME DtestAssumption ==
    /\ PipeSize \in Nat \ {0} /\ ReadSize \in Nat \ {0}
    /\ OutLimit \in Nat /\ CpuMsec \in Nat
    /\ MaxOut \in Nat /\ MaxErr \in Nat
    /\ ExitCodes \subseteq 0..255
    /\ MayCrash \in BOOLEAN /\ MaySleep \in BOOLEAN
    /\ ForkMayFail \in BOOLEAN

VARIABLES
    pc,      \* pc[c]: where the call's thread is
    taken,   \* taken[c]: units written to the caller's stream
    over,    \* over[c]: is_out_limit
    more,    \* more[c]: the loop's flag: this turn has read something
    seen,    \* seen[c]: what wait4 told of the solution
    late,    \* late[c]: is_sol_timeout
    result,  \* result[c]: what the call returns
    sol,     \* sol[c]: the solution's process
    feeder,  \* feeder[c]: whether the feeder runs
    killer,  \* killer[c]: state of the killer's process
    out,     \* out[c]: units in the pipe of the solution's output
    err,     \* err[c]: units in the pipe of its error stream
    writers  \* writers[c]: processes that hold the write ends of the pipes

threadVars == <<taken, over, more, seen, late, result>>
pipeVars   == <<out, err>>
vars == <<pc, threadVars, sol, feeder, killer, pipeVars, writers>>

JVM       == <<"JVM">>
Sol(c)    == <<"solution", c>>
Feeder(c) == <<"feeder", c>>
Killer(c) == <<"killer", c>>

Results == {"PASSED", "TIME_LIMIT", "MEMORY_LIMIT", "OUTPUT_LIMIT",
            "RUNTIME_ERROR", "INTERNAL_ERROR"}
InternalError == 13   \* DTEST_INTERNAL_ERROR, as an exit code

\* How a process ends: it exits with a code, or a signal terminates it after
\* some milliseconds of processor time.
Exited(code)       == [end |-> "exit", code |-> code, msec |-> 0]
Signaled(sig, ms)  == [end |-> sig, code |-> 0, msec |-> ms]
Running            == [end |-> "none", code |-> 0, msec |-> 0]
Garbage            == [end |-> "garbage", code |-> 0, msec |-> 0]

NoProcess == [state |-> "none", status |-> Running, want |-> "nothing",
              wrote |-> 0, wroteErr |-> 0]

Init ==
    /\ pc = [c \in Calls |-> "new"]
    /\ taken = [c \in Calls |-> 0]
    /\ over = [c \in Calls |-> FALSE]
    /\ more = [c \in Calls |-> FALSE]
    /\ seen = [c \in Calls |-> Running]
    /\ late = [c \in Calls |-> FALSE]
    /\ result = [c \in Calls |-> "INTERNAL_ERROR"]
    /\ sol = [c \in Calls |-> NoProcess]
    /\ feeder = [c \in Calls |-> FALSE]
    /\ killer = [c \in Calls |-> "none"]
    /\ out = [c \in Calls |-> 0]
    /\ err = [c \in Calls |-> 0]
    /\ writers = [c \in Calls |-> {}]

\* A child inherits the write ends its parent holds; a dead process, none.
Inherits(child, parent) ==
    writers' = [d \in Calls |-> IF parent \in writers[d]
                                  THEN writers[d] \cup {child} ELSE writers[d]]
Closes(p) == writers' = [d \in Calls |-> writers[d] \ {p}]

EndOfFile(c) == writers[c] = {}

Goto(c, place) == pc' = [pc EXCEPT ![c] = place]
-----------------------------------------------------------------------------
(* The thread of a call.                                                    *)

MakePipes(c) ==
    /\ pc[c] = "new"
    /\ writers' = [writers EXCEPT ![c] = {JVM}]
    /\ Goto(c, "piped")
    /\ UNCHANGED <<threadVars, sol, feeder, killer, pipeVars>>

ForkSolution(c) ==
    /\ pc[c] = "piped"
    /\ \/ /\ sol' = [sol EXCEPT ![c].state = "setup"]
          /\ Inherits(Sol(c), JVM)
          /\ Goto(c, "forked")
       \/ /\ ForkMayFail          \* returns at once: the pipes stay open
          /\ Goto(c, "done")
          /\ UNCHANGED <<sol, writers>>
    /\ UNCHANGED <<threadVars, feeder, killer, pipeVars>>

\* Mutant of CloseWriteEnds: the write ends stay open in the JVM.
KeepWriteEnds(c) ==
    /\ pc[c] = "forked"
    /\ Goto(c, "closed")
    /\ UNCHANGED <<threadVars, sol, feeder, killer, pipeVars, writers>>

CloseWriteEnds(c) ==
    /\ pc[c] = "forked"
    /\ writers' = [writers EXCEPT ![c] = @ \ {JVM}]
    /\ Goto(c, "closed")
    /\ UNCHANGED <<threadVars, sol, feeder, killer, pipeVars>>

\* kill_after; -1 is kept as the killer's identifier if fork fails.
ForkKiller(c) ==
    /\ pc[c] = "closed"
    /\ \/ /\ killer' = [killer EXCEPT ![c] = "sleeps"]
          /\ Inherits(Killer(c), JVM)
       \/ /\ ForkMayFail
          /\ killer' = [killer EXCEPT ![c] = "failed"]
          /\ UNCHANGED writers
    /\ Goto(c, "output")
    /\ UNCHANGED <<threadVars, sol, feeder, pipeVars>>

Least(i, j) == IF i < j THEN i ELSE j

\* SIGKILL of a solution that has ended changes nothing.
Killed(c) ==
    IF sol[c].state = "runs"
      THEN [sol EXCEPT ![c].state = "zombie", ![c].want = "nothing",
                       ![c].status = Signaled("SIGKILL", 0)]
      ELSE sol

\* Mutant of Beyond: the limit is off by one.
BeyondByOne(c, n) == n > 0 /\ taken[c] + n > OutLimit + 1

Beyond(c, n) == n > 0 /\ taken[c] + n > OutLimit

\* A blocking read of the output: it returns some units, or the end of file
\* when no process holds the write end.  Units beyond the limit are dropped.
ReadOutput(c) ==
    /\ pc[c] = "output"
    /\ out[c] > 0 \/ EndOfFile(c)
    /\ LET n == Least(out[c], ReadSize)
           beyond == Beyond(c, n)
       IN  /\ more' = [more EXCEPT ![c] = n > 0]
           /\ out' = [out EXCEPT ![c] = @ - n]
           /\ over' = [over EXCEPT ![c] = @ \/ beyond]
           /\ taken' = [taken EXCEPT ![c] = IF beyond THEN @ ELSE @ + n]
           /\ sol' = IF beyond THEN Killed(c) ELSE sol
           /\ writers' = IF beyond /\ sol[c].state = "runs"
                           THEN [d \in Calls |-> writers[d] \ {Sol(c)}]
                           ELSE writers
    /\ Goto(c, "errors")
    /\ UNCHANGED <<seen, late, result, feeder, killer, err>>

\* Mutant of NextTurn: the loop ends when one of the streams has ended.
NextTurnOfBoth(c, n) == more[c] /\ n > 0

NextTurn(c, n) == more[c] \/ n > 0

\* A blocking read of the error stream, the end of a turn of the loop.
ReadErrors(c) ==
    /\ pc[c] = "errors"
    /\ err[c] > 0 \/ EndOfFile(c)
    /\ LET n == Least(err[c], ReadSize)
       IN  /\ err' = [err EXCEPT ![c] = @ - n]
           /\ Goto(c, IF NextTurn(c, n) THEN "output" ELSE "wait")
    /\ UNCHANGED <<threadVars, sol, feeder, killer, out, writers>>

\* wait4 of the solution; if somebody else has taken it, sol_ex_st and ru are
\* left as they were: uninitialized.
WaitSolution(c) ==
    /\ pc[c] = "wait"
    /\ \/ /\ sol[c].state = "zombie"
          /\ seen' = [seen EXCEPT ![c] = sol[c].status]
          /\ sol' = [sol EXCEPT ![c].state = "reaped"]
       \/ /\ sol[c].state = "reaped"
          /\ seen' = [seen EXCEPT ![c] = Garbage]
          /\ UNCHANGED sol
    /\ Goto(c, "waitKiller")
    /\ UNCHANGED <<taken, over, more, late, result, feeder, killer, pipeVars,
                   writers>>

\* The children of the JVM, and those of them that have ended.
Children ==
    {Sol(d) : d \in {e \in Calls : sol[e].state \notin {"none", "reaped"}}}
        \cup {Killer(d) : d \in {e \in Calls : killer[e] \in {"sleeps", "zombie"}}}
Zombies ==
    {Sol(d) : d \in {e \in Calls : sol[e].state = "zombie"}}
        \cup {Killer(d) : d \in {e \in Calls : killer[e] = "zombie"}}

Reaped(p) ==
    /\ sol' = [d \in Calls |-> IF p = Sol(d)
                                 THEN [sol[d] EXCEPT !.state = "reaped"] ELSE sol[d]]
    /\ killer' = [d \in Calls |-> IF p = Killer(d) THEN "reaped" ELSE killer[d]]

\* Mutant of WaitKiller: the killer is not waited for.
WaitKillerNot(c) ==
    /\ pc[c] = "waitKiller"
    /\ Goto(c, "judge")
    /\ UNCHANGED <<threadVars, sol, feeder, killer, pipeVars, writers>>

\* waitpid of the killer, whose raw status is that of _exit(2) and never 1;
\* of anybody if its fork failed; of nobody, and an uninitialized status, if
\* it is gone.
WaitKiller(c) ==
    /\ pc[c] = "waitKiller"
    /\ \/ /\ killer[c] = "zombie"
          /\ Reaped(Killer(c))
          /\ UNCHANGED late
       \/ /\ killer[c] = "failed"
          /\ \E p \in Zombies : Reaped(p)
          /\ UNCHANGED late
       \/ /\ killer[c] = "reaped" \/ (killer[c] = "failed" /\ Children = {})
          /\ \E b \in BOOLEAN : late' = [late EXCEPT ![c] = b]
          /\ UNCHANGED <<sol, killer>>
    /\ Goto(c, "judge")
    /\ UNCHANGED <<taken, over, more, seen, result, feeder, pipeVars, writers>>

CpuBonus == 50   \* cpu_msec_bonus

\* limits.cpu_msec - cpu_msec_bonus is unsigned: it wraps below zero, and
\* then nothing exceeds it.
OverCpu(msec) == CpuMsec >= CpuBonus /\ msec > CpuMsec - CpuBonus

\* What the wait status, alone, is judged to be.  A garbage status may be
\* anything that is decided from it.
JudgedStatus(st) ==
    CASE st.end = "garbage" -> Results \ {"OUTPUT_LIMIT"}
      [] st.end = "exit" /\ st.code = 0 -> {"PASSED"}
      [] st.end = "exit" /\ st.code = InternalError -> {"INTERNAL_ERROR"}
      [] st.end = "exit" /\ st.code \notin {0, InternalError} -> {"RUNTIME_ERROR"}
      [] st.end \in {"SIGKILL", "SIGSEGV"} /\ OverCpu(st.msec) -> {"TIME_LIMIT"}
      [] st.end = "SIGSEGV" /\ ~OverCpu(st.msec) -> {"MEMORY_LIMIT"}
      [] OTHER -> {"RUNTIME_ERROR"}

\* Mutant of Verdict: the exit status is looked at before the output limit.
VerdictStatusFirst(c) ==
    IF late[c] THEN {"TIME_LIMIT"} ELSE JudgedStatus(seen[c])

Verdict(c) ==
    CASE late[c] -> {"TIME_LIMIT"}
      [] ~late[c] /\ over[c] -> {"OUTPUT_LIMIT"}
      [] ~late[c] /\ ~over[c] -> JudgedStatus(seen[c])

Judge(c) ==
    /\ pc[c] = "judge"
    /\ \E r \in Verdict(c) : result' = [result EXCEPT ![c] = r]
    /\ Goto(c, "reap")
    /\ UNCHANGED <<taken, over, more, seen, late, sol, feeder, killer, pipeVars,
                   writers>>

\* The loop of waitpid(-1, NULL, WNOHANG), until it finds no ended child.
Reap(c) ==
    /\ pc[c] = "reap"
    /\ \/ /\ \E p \in Zombies : Reaped(p)
          /\ UNCHANGED pc
       \/ /\ Zombies = {}
          /\ Goto(c, "done")
          /\ UNCHANGED <<sol, killer>>
    /\ UNCHANGED <<threadVars, feeder, pipeVars, writers>>

Thread(c) ==
    \/ MakePipes(c)  \/ ForkSolution(c) \/ CloseWriteEnds(c) \/ ForkKiller(c)
    \/ ReadOutput(c) \/ ReadErrors(c)   \/ WaitSolution(c)   \/ WaitKiller(c)
    \/ Judge(c)      \/ Reap(c)
-----------------------------------------------------------------------------
(* The processes of a call.                                                 *)

Ends(c, status) ==
    /\ sol' = [sol EXCEPT ![c].state = "zombie", ![c].status = status]
    /\ Closes(Sol(c))

\* The child forks the feeder, redirects its streams and becomes the solution.
\* (If the exec fails the feeder is there all the same.)
Setup(c) ==
    /\ sol[c].state = "setup"
    /\ \/ /\ sol' = [sol EXCEPT ![c].state = "runs"]
          /\ feeder' = [feeder EXCEPT ![c] = TRUE]
          /\ Inherits(Feeder(c), Sol(c))
       \/ /\ ForkMayFail
          /\ Ends(c, Exited(InternalError))
          /\ UNCHANGED feeder
    /\ UNCHANGED <<pc, threadVars, killer, pipeVars>>

\* The solution chooses to write, and is blocked while the pipe is full; or to
\* wait for what never comes.
Wants(c) ==
    /\ sol[c].state = "runs" /\ sol[c].want = "nothing"
    /\ \/ /\ sol[c].wrote < MaxOut
          /\ sol' = [sol EXCEPT ![c].want = "output"]
       \/ /\ sol[c].wroteErr < MaxErr
          /\ sol' = [sol EXCEPT ![c].want = "errors"]
       \/ /\ MaySleep
          /\ sol' = [sol EXCEPT ![c].want = "sleep"]
    /\ UNCHANGED <<pc, threadVars, feeder, killer, pipeVars, writers>>

Write(c) ==
    /\ sol[c].state = "runs"
    /\ \/ /\ sol[c].want = "output" /\ out[c] < PipeSize
          /\ out' = [out EXCEPT ![c] = @ + 1]
          /\ sol' = [sol EXCEPT ![c].want = "nothing", ![c].wrote = @ + 1]
          /\ UNCHANGED err
       \/ /\ sol[c].want = "errors" /\ err[c] < PipeSize
          /\ err' = [err EXCEPT ![c] = @ + 1]
          /\ sol' = [sol EXCEPT ![c].want = "nothing", ![c].wroteErr = @ + 1]
          /\ UNCHANGED out
    /\ UNCHANGED <<pc, threadVars, feeder, killer, writers>>

\* RLIMIT_CPU is set to whole seconds, and the kernel takes 0 for 1.  The hard
\* limit is the soft one, at which the kernel sends SIGKILL.
CpuKillAt == IF CpuMsec < 1000 THEN 1000 ELSE 1000 * (CpuMsec \div 1000)

\* The solution exits, crashes (early, or when its processor time is almost
\* used up), or runs into its limit of processor time.
Exit(c) ==
    /\ sol[c].state = "runs" /\ sol[c].want = "nothing"
    /\ \/ \E code \in ExitCodes : Ends(c, Exited(code))
       \/ /\ MayCrash
          /\ \E msec \in {0, CpuKillAt - 1} : Ends(c, Signaled("SIGSEGV", msec))
       \/ Ends(c, Signaled("SIGKILL", CpuKillAt))
    /\ UNCHANGED <<pc, threadVars, feeder, killer, pipeVars>>

\* The feeder has written the input, or the solution has ended.
FeederEnds(c) ==
    /\ feeder[c]
    /\ feeder' = [feeder EXCEPT ![c] = FALSE]
    /\ Closes(Feeder(c))
    /\ UNCHANGED <<pc, threadVars, sol, killer, pipeVars>>

\* The killer's sleep ends: it exits with 2, before it could kill.
KillerEnds(c) ==
    /\ killer[c] = "sleeps"
    /\ killer' = [killer EXCEPT ![c] = "zombie"]
    /\ Closes(Killer(c))
    /\ UNCHANGED <<pc, threadVars, sol, feeder, pipeVars>>

Solution(c) == Wants(c) \/ Write(c) \/ Exit(c)

Terminated == /\ \A c \in Calls : pc[c] = "done" /\ ~feeder[c]
              /\ \A c \in Calls : killer[c] # "sleeps"
              /\ UNCHANGED vars

Next ==
    \/ \E c \in Calls : \/ Thread(c) \/ Setup(c) \/ Solution(c)
                        \/ FeederEnds(c) \/ KillerEnds(c)
    \/ Terminated

Spec == Init /\ [][Next]_vars

\* The kernel runs the threads and the processes that are ready: an endless
\* computation ends at the limit of processor time.  A feeder ends once its
\* reader has; before that the solution may leave it blocked.
FairSpec ==
    /\ Spec
    /\ \A c \in Calls :
          /\ WF_vars(Thread(c)) /\ WF_vars(Setup(c)) /\ WF_vars(Solution(c))
          /\ WF_vars(FeederEnds(c) /\ sol[c].state \in {"zombie", "reaped"})
          /\ WF_vars(KillerEnds(c))
-----------------------------------------------------------------------------
(* Properties *)

Places == {"new", "piped", "forked", "closed", "output", "errors", "wait",
           "waitKiller", "judge", "reap", "done"}

Msecs == {0, CpuKillAt - 1, CpuKillAt}
Status == [end : {"none", "garbage", "exit", "SIGKILL", "SIGSEGV"},
           code : ExitCodes \cup {0, InternalError}, msec : Msecs]
Processes == {JVM} \cup {Sol(c) : c \in Calls} \cup {Feeder(c) : c \in Calls}
                   \cup {Killer(c) : c \in Calls}

\* The variables have their types, and the pipes hold what fits.
TypeOK ==
    /\ pc \in [Calls -> Places]
    /\ taken \in [Calls -> 0..OutLimit]
    /\ over \in [Calls -> BOOLEAN] /\ more \in [Calls -> BOOLEAN]
    /\ seen \in [Calls -> Status] /\ late \in [Calls -> BOOLEAN]
    /\ result \in [Calls -> Results]
    /\ sol \in [Calls -> [state : {"none", "setup", "runs", "zombie", "reaped"},
                          status : Status,
                          want : {"nothing", "output", "errors", "sleep"},
                          wrote : 0..MaxOut, wroteErr : 0..MaxErr]]
    /\ feeder \in [Calls -> BOOLEAN]
    /\ killer \in [Calls -> {"none", "sleeps", "zombie", "reaped", "failed"}]
    /\ out \in [Calls -> 0..PipeSize] /\ err \in [Calls -> 0..PipeSize]
    /\ writers \in [Calls -> SUBSET Processes]

Ended(c) == sol[c].state \in {"zombie", "reaped"}

\* The verdict of a call that has the JVM for itself is true of the solution's
\* process: it passed iff the process exited with 0 within the output limit,
\* the output limit is reported iff it was exceeded, and a time limit only of
\* a process that used its processor time, and of every process the kernel
\* stopped for it if the limit is in whole seconds (RLIMIT_CPU counts seconds:
\* at 1500 ms a solution is stopped after 1000 and not reported so).
VerdictTrue ==
    \A c \in Calls :
        LET s == sol[c]
        IN  pc[c] = "done" /\ killer[c] # "failed" =>
            /\ result[c] = "PASSED" <=>
                   Ended(c) /\ s.status = Exited(0) /\ s.wrote <= OutLimit
            /\ result[c] = "OUTPUT_LIMIT" <=> s.wrote > OutLimit
            /\ result[c] = "TIME_LIMIT" => OverCpu(s.status.msec)
            /\ /\ s.status = Signaled("SIGKILL", CpuKillAt)
               /\ s.wrote <= OutLimit /\ CpuMsec >= 1000 /\ CpuMsec % 1000 = 0
               => result[c] = "TIME_LIMIT"

\* Nothing the solution wrote is lost: once the call waits for it, it has
\* ended, its pipes are empty, and the caller has all of its output unless
\* the limit was exceeded; whatever the other calls' processes inherited.
OutputWhole ==
    \A c \in Calls :
        pc[c] \in {"wait", "waitKiller", "judge", "reap", "done"} =>
            /\ sol[c].state # "none" => Ended(c)
            /\ out[c] = 0 /\ err[c] = 0
            /\ over[c] <=> sol[c].wrote > OutLimit
            /\ ~over[c] => taken[c] = sol[c].wrote

\* A call that has returned leaves no child behind, running or ended, as the
\* comment on the loop of waitpid(-1) wants, even if several calls take each
\* other's children.
NoChildLeft ==
    \A c \in Calls :
        pc[c] = "done" => {Sol(c), Killer(c)} \cap Children = {}

\* Thread and solution wait for each other: one stream is read while the
\* solution is blocked on the other one.
Stuck(c) ==
    /\ sol[c].state = "runs"
    /\ \/ /\ pc[c] = "output" /\ out[c] = 0
          /\ sol[c].want = "errors" /\ err[c] = PipeSize
       \/ /\ pc[c] = "errors" /\ err[c] = 0
          /\ sol[c].want = "output" /\ out[c] = PipeSize

\* Every call returns.
CallsReturn == \A c \in Calls : pc[c] # "new" ~> pc[c] = "done"

\* Every call returns, unless some solution and its thread are stuck on each
\* other: processes that inherited other calls' pipes, children that were
\* taken by another call and failed forks only ever delay it.
ReturnsUnlessStuck ==
    \A c \in Calls :
        pc[c] # "new" ~> (pc[c] = "done" \/ \E d \in Calls : Stuck(d))

\* What the comment at dtest_unix.cpp:294 says of DTEST_PASSED: the task has
\* run successfully.
PassedMeansSuccess ==
    \A c \in Calls :
        pc[c] = "done" /\ result[c] = "PASSED" => sol[c].status = Exited(0)
=============================================================================
