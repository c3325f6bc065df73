------------------------------- MODULE Channel -------------------------------
(***************************************************************************)
(* What PacketSocket promises to both ends of sequence2: packets arrive    *)
(* whole, once, in the order in which they were sent, and each of them     *)
(* arrives; when the connection breaks, the last ones may be lost.         *)
(***************************************************************************)
EXTENDS Naturals, Sequences, SequencesExt

CONSTANT Packets

VARIABLES
    queue, \* packets sent and not yet given to the listener
    given, \* packets given to the listener
    open   \* the connection has not been closed

vars == <<queue, given, open>>

Init == queue = <<>> /\ given = <<>> /\ open = TRUE

Send(p) ==
    /\ open
    /\ queue' = Append(queue, p)
    /\ UNCHANGED <<given, open>>

Give ==
    /\ queue # <<>>
    /\ given' = Append(given, Head(queue))
    /\ queue' = Tail(queue)
    /\ UNCHANGED open

Break ==
    /\ open
    /\ open' = FALSE
    /\ \E rest \in Prefixes(queue) : queue' = rest
    /\ UNCHANGED given

Next == (\E p \in Packets : Send(p)) \/ Give \/ Break

\* What never happens to the packets; and that each of them arrives.
SafeSpec == Init /\ [][Next]_vars

Spec == SafeSpec /\ WF_vars(Give)
=============================================================================
