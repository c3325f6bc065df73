---------------------------- MODULE MCDtestCalls ----------------------------
(***************************************************************************)
(* Two machines, one of them in each behaviour: one on which a call is     *)
(* alone and its solution may do anything that fits in the pipes, and one  *)
(* with two calls in one JVM, whose busy solutions write more than the     *)
(* pipes hold (its constants are those of the configuration).              *)
(***************************************************************************)
EXTENDS DtestUnix

CONSTANT Lone      \* the call of the first machine

VARIABLE alone     \* whether the machine is the first one

allVars == <<alone, vars>>

One ==
    INSTANCE DtestUnix WITH
        Calls <- {Lone}, PipeSize <- 4, ReadSize <- 2, OutLimit <- 2,
        CpuMsec <- 1000, MaxOut <- 4, MaxErr <- 2, ExitCodes <- {0, 1, 13},
        MayCrash <- TRUE, MaySleep <- TRUE, ForkMayFail <- TRUE

CallsInit == \/ alone = TRUE /\ One!Init
             \/ alone = FALSE /\ Init

LoneStep == alone /\ One!Next /\ UNCHANGED alone
PairStep == ~alone /\ Next /\ UNCHANGED alone

CallsNext == LoneStep \/ PairStep

\* The fairness of DtestUnix for the two calls.
CallsFair ==
    \A c \in Calls :
        /\ WF_allVars(~alone /\ Thread(c) /\ UNCHANGED alone)
        /\ WF_allVars(~alone /\ Setup(c) /\ UNCHANGED alone)
        /\ WF_allVars(~alone /\ Solution(c) /\ UNCHANGED alone)
        /\ WF_allVars(/\ ~alone /\ FeederEnds(c) /\ UNCHANGED alone
                      /\ sol[c].state \in {"zombie", "reaped"})
        /\ WF_allVars(~alone /\ KillerEnds(c) /\ UNCHANGED alone)

CallsSpec == CallsInit /\ [][CallsNext]_allVars /\ CallsFair

-----------------------------------------------------------------------------
\* The variables of both machines have their types.
CallsTyped == IF alone THEN One!TypeOK ELSE TypeOK

\* The verdict of the lone call is true of its solution's process: see
\* VerdictTrue.
LoneVerdictTrue == alone => One!VerdictTrue

\* Alone or not, nothing that a solution wrote within the limit is lost.
CallsOutputWhole == IF alone THEN One!OutputWhole ELSE OutputWhole

\* And no child is left behind when a call has returned.
CallsNoChildLeft == IF alone THEN One!NoChildLeft ELSE NoChildLeft

\* Each of the two calls returns, unless it and its solution are stuck on the
\* two pipes.
PairReturnsUnlessStuck ==
    \A c \in Calls :
        ~alone /\ pc[c] # "new"
          ~> alone \/ pc[c] = "done" \/ \E d \in Calls : Stuck(d)
=============================================================================
