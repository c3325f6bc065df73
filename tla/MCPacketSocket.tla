--------------------------- MODULE MCPacketSocket ---------------------------
(* PacketSocket on small packets, for TLC. *)
EXTENDS PacketSocket, TLC

CONSTANTS p1, p2, p3, p4

\* One packet without data, one that just fills the buffer, two for which it
\* has to grow.
MCPackets == {p1, p2, p3, p4}
MCPayload == p1 :> 0 @@ p2 :> 1 @@ p3 :> 3 @@ p4 :> 4
=============================================================================
