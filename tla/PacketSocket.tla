---------------------------- MODULE PacketSocket ----------------------------
(***************************************************************************)
(* SocketStreamLib's PacketSocket: one direction of a connection.  Several *)
(* threads send packets under one lock; a packet goes out as a header with *)
(* its length and then its data, in as many pieces as TCP takes.  The      *)
(* other end collects what it receives in a buffer, which grows to the     *)
(* largest packet, and cuts it into packets again.                         *)
(*                                                                         *)
(* A byte is a pair of a packet and a position, so that a byte of one      *)
(* packet is never taken for one of another.  The length in a header is    *)
(* that of the packet its first byte belongs to.                           *)
(***************************************************************************)
EXTENDS Integers, Sequences, SequencesExt

CONSTANTS
    Packets,    \* packets, each of which is sent once at most
    Payload,    \* Payload[p]: how many bytes of data it has
    Header,     \* sizeof(int), what the length takes
    BufferSize, \* what the buffer holds at first
    Window      \* bytes TCP takes before the other end has read them

ASSUME PacketAssumption ==
    /\ Payload \in [Packets -> Nat]
    /\ Header \in Nat \ {0}
    /\ BufferSize \in Nat /\ BufferSize > Header
    /\ Window \in Nat \ {0}

VARIABLES
    sent,    \* packets for which Send was called
    lock,    \* a thread of the sending end is inside mLock
    part,    \* bytes that the current SendFunction has left to send
    rest,    \* bytes of the SendFunction after it
    wire,    \* bytes in the connection
    open,    \* the sending end has not closed the connection
    at,      \* where the receiving thread is
    first,   \* firstReadAttempt
    blocking,\* SetBlocking: a client's socket blocks, the server's do not
    buffer,  \* mpBuffer up to mReaded
    length,  \* mBufferLength
    size,    \* mPackageSize
    header,  \* mbOnHeader
    given    \* history: what OnPacketReceived was called with, headers included

sender   == <<sent, lock, part, rest>>
receiver == <<at, first, blocking, buffer, length, size, header, given>>
vars     == <<sender, wire, open, receiver>>

Size(p) == Header + Payload[p]

\* The bytes of a packet from one position to another.
Bytes(p, from, to) == [i \in 1..(to - from + 1) |-> <<p, from + i - 1>>]

Whole(p) == Bytes(p, 1, Size(p))

Init ==
    /\ sent = {} /\ lock = FALSE /\ part = <<>> /\ rest = <<>>
    /\ wire = <<>> /\ open = TRUE
    /\ at = "select" /\ first = TRUE /\ blocking \in BOOLEAN
    /\ buffer = <<>> /\ length = BufferSize /\ size = 0 /\ header = TRUE
    /\ given = <<>>
-----------------------------------------------------------------------------
(* The sending end.                                                         *)

\* Mutant of Enter: Send does not wait for the lock, and one packet's header
\* gets into another packet.
EnterUnlocked(p) ==
    /\ p \notin sent /\ open
    /\ sent' = sent \cup {p}
    /\ lock' = TRUE
    /\ part' = Bytes(p, 1, Header)
    /\ rest' = part \o rest \o Bytes(p, Header + 1, Size(p))
    /\ UNCHANGED <<wire, open, receiver>>

\* Send: the lock is taken, and the header goes first.
Enter(p) ==
    /\ ~lock /\ p \notin sent
    /\ sent' = sent \cup {p}
    /\ IF open
         THEN /\ lock' = TRUE
              /\ part' = Bytes(p, 1, Header)
              /\ rest' = Bytes(p, Header + 1, Size(p))
         ELSE UNCHANGED <<lock, part, rest>>
    /\ UNCHANGED <<wire, open, receiver>>

\* SendFunction: send takes a part of what is left, and waits if it can take
\* nothing.
SendPiece ==
    /\ lock /\ part # <<>> /\ Len(wire) < Window
    /\ \E n \in 1..Len(part) :
          /\ Len(wire) + n <= Window
          /\ wire' = wire \o SubSeq(part, 1, n)
          /\ part' = SubSeq(part, n + 1, Len(part))
    /\ UNCHANGED <<sent, lock, rest, open, receiver>>

\* The second call of SendFunction, or the end of Send.
SendNext ==
    /\ lock /\ part = <<>>
    /\ part' = rest
    /\ rest' = <<>>
    /\ lock' = (rest # <<>>)
    /\ UNCHANGED <<sent, wire, open, receiver>>

\* The connection is closed, by whichever thread or by a failure: what is being
\* sent is given up, and some of what TCP holds may be lost.
Close ==
    /\ open
    /\ open' = FALSE
    /\ lock' = FALSE /\ part' = <<>> /\ rest' = <<>>
    /\ wire' \in Prefixes(wire)
    /\ UNCHANGED <<sent, receiver>>
-----------------------------------------------------------------------------
(* The receiving end.                                                       *)

\* ProcessConnection is called when select has found something to read.
Process ==
    /\ at = "select" /\ (blocking \/ wire # <<>> \/ ~open)
    /\ at' = "parse"
    /\ first' = TRUE
    /\ UNCHANGED <<sender, wire, open, blocking, buffer, length, size, header, given>>

\* ParseData, one turn of its loop at a time: the length of a packet.
ReadHeader ==
    /\ at = "parse" /\ Len(buffer) >= Header /\ header
    /\ size' = Size(Head(buffer)[1])
    /\ header' = FALSE
    /\ UNCHANGED <<sender, wire, open, at, first, blocking, buffer, length, given>>

\* Mutant of Grow: the buffer stays as it is.
GrowNot ==
    /\ at = "parse" /\ Len(buffer) >= Header /\ ~header
    /\ size > length
    /\ at' = "recv"
    /\ UNCHANGED <<sender, wire, open, first, blocking, buffer, length, size, header,
                   given>>

\* The buffer is too small for the packet.
Grow ==
    /\ at = "parse" /\ Len(buffer) >= Header /\ ~header
    /\ size > length
    /\ length' = size
    /\ at' = "recv"
    /\ UNCHANGED <<sender, wire, open, first, blocking, buffer, size, header, given>>

\* What is left in the buffer after a packet.
Given == SubSeq(buffer, size + 1, Len(buffer))

Give ==
    /\ at = "parse" /\ Len(buffer) >= Header /\ ~header
    /\ size <= length /\ size <= Len(buffer)
    /\ given' = Append(given, SubSeq(buffer, 1, size))
    /\ buffer' = Given
    /\ header' = TRUE
    /\ UNCHANGED <<sender, wire, open, at, first, blocking, length, size>>

\* The loop ends with an incomplete header or packet.
ParseEnd ==
    /\ at = "parse"
    /\ \/ Len(buffer) < Header
       \/ ~header /\ size <= length /\ Len(buffer) < size
    /\ at' = "recv"
    /\ UNCHANGED <<sender, wire, open, first, blocking, buffer, length, size, header,
                   given>>

\* Mutant of AfterRecv: what was received is not looked at until the next time.
AfterRecvUnparsed == IF wire' = <<>> /\ ~blocking THEN "select" ELSE "parse"

\* ProcessConnection always parses what it has received.
AfterRecv == "parse"

\* Mutant of Room: the whole buffer, as if nothing had been read yet.
RoomWhole == length

\* What recv may put into the buffer.
Room == length - Len(buffer)

Receive ==
    /\ at = "recv" /\ wire # <<>> /\ Room > 0
    /\ \E n \in 1..Len(wire) :
          /\ n <= Room
          /\ buffer' = buffer \o SubSeq(wire, 1, n)
          /\ wire' = SubSeq(wire, n + 1, Len(wire))
    /\ first' = FALSE
    /\ at' = AfterRecv
    /\ UNCHANGED <<sender, open, blocking, length, size, header, given>>

\* recv returns 0 at the end of the connection, and also if there is no room
\* for a byte; it fails if there is nothing to read and it may not wait.  The
\* server then calls ProcessConnection again, unless it had read nothing; the
\* client calls it once.
ReceiveNothing ==
    /\ at = "recv"
    /\ \/ Room = 0
       \/ wire = <<>> /\ (~open \/ ~blocking)
    /\ at' = IF first \/ blocking THEN "ended" ELSE "select"
    /\ UNCHANGED <<sender, wire, open, first, blocking, buffer, length, size, header,
                   given>>

Reader ==
    \/ Process \/ ReadHeader \/ Grow \/ Give \/ ParseEnd
    \/ Receive \/ ReceiveNothing

Sender == SendPiece \/ SendNext

Next ==
    \/ \E p \in Packets : Enter(p)
    \/ Sender \/ Close \/ Reader

Spec == Init /\ [][Next]_vars

\* Whoever is inside Send and the receiving thread run on.
FairSpec == Spec /\ WF_vars(Sender) /\ WF_vars(Reader)
-----------------------------------------------------------------------------
(* Properties *)

\* The variables have their types, and the buffer holds what was read.
TypeOK ==
    /\ sent \subseteq Packets /\ lock \in BOOLEAN
    /\ part \in Seq(Packets \X Nat) /\ rest \in Seq(Packets \X Nat)
    /\ wire \in Seq(Packets \X Nat) /\ Len(wire) <= Window
    /\ open \in BOOLEAN /\ first \in BOOLEAN /\ blocking \in BOOLEAN
    /\ at \in {"select", "parse", "recv", "ended"}
    /\ buffer \in Seq(Packets \X Nat) /\ Len(buffer) <= length
    /\ length \in Nat /\ size \in Nat /\ header \in BOOLEAN

\* recv is never called without room for a byte, which would return 0 and pass
\* for the end of the connection; so the socket is given up only when the other
\* end has closed it.
NotDropped ==
    /\ at = "recv" => Len(buffer) < length
    /\ at = "ended" => ~open

\* While the receiving thread waits in select, nothing is left in the buffer
\* that it could give to the listener.
NothingLeft ==
    at = "select" /\ Len(buffer) >= Header =>
        Len(buffer) < Size(Head(buffer)[1])

IsLast(byte) == byte[2] = Size(byte[1])

\* The packets whose last bytes are in a sequence of bytes.
Lasts(bytes) ==
    LET upTo[n \in 0..Len(bytes)] ==
            IF n = 0 THEN <<>>
            ELSE IF IsLast(bytes[n]) THEN Append(upTo[n - 1], bytes[n][1])
            ELSE upTo[n - 1]
    IN  upTo[Len(bytes)]

\* The bytes sent and not given, in their order.
Stream == buffer \o wire \o part \o rest

\* A packet counts as sent and not given as long as its last byte is somewhere
\* on the way.
OnTheWay == Lasts(Stream)

\* What the listener was given, "garbled" unless it is just one packet.
GivenPackets ==
    [i \in DOMAIN given |->
        LET packets == {p \in Packets : given[i] = Whole(p)}
        IN  IF packets = {} THEN "garbled" ELSE CHOOSE p \in packets : TRUE]

Fifo == INSTANCE Channel WITH queue <- OnTheWay, given <- GivenPackets

\* However TCP cuts the packets, the listener gets them whole, once and in
\* order, and gets each of them.
ImplementsChannel == Fifo!Spec
=============================================================================
