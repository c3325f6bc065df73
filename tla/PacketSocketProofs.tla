------------------------- MODULE PacketSocketProofs -------------------------
(* Theorems of PacketSocket, for every set of packets, every size of the    *)
(* buffer and of the header, and everything TCP may hold.                   *)
EXTENDS PacketSocket, SumProofs, SequenceTheorems, TLAPS

Byte == Packets \X Nat

\* What the buffer holds and knows of its first packet.
BufferOK ==
    /\ length >= BufferSize
    /\ ~header => /\ Len(buffer) >= Header
                  /\ size = Size(Head(buffer)[1])

\* ParseData has given all it could.
Parsed ==
    at \in {"recv", "select"} =>
        \/ Len(buffer) < Header
        \/ ~header /\ Len(buffer) < size

\* recv is called with room; the first time, it finds something to read, or the
\* end of the connection.
RecvOK ==
    /\ at = "recv" => Len(buffer) < length
    /\ at \in {"parse", "recv"} /\ first /\ ~blocking => wire # <<>> \/ ~open
    /\ at = "ended" => ~open

IInv == TypeOK /\ BufferOK /\ Parsed /\ RecvOK
-----------------------------------------------------------------------------
\* Bytes of a packet are a sequence of bytes.
LEMMA BytesType ==
    ASSUME NEW p \in Packets, NEW from \in Nat, NEW to \in Nat, from >= 1
    PROVE  Bytes(p, from, to) \in Seq(Byte)
<1>. DEFINE n == IF to - from + 1 >= 0 THEN to - from + 1 ELSE 0
<1>1. n \in Nat
  OBVIOUS
<1>2. 1..(to - from + 1) = 1..n
  OBVIOUS
<1>3. Bytes(p, from, to) \in [1..n -> Byte]
  BY <1>2 DEF Bytes, Byte
<1>. QED
  BY <1>1, <1>3 DEF Byte

\* A packet takes at least its header.
LEMMA SizeType == ASSUME NEW p \in Packets PROVE Size(p) \in Nat /\ Size(p) >= Header
  BY PacketAssumption DEF Size

\* The initial state satisfies the inductive invariant.
LEMMA InvInit == Init => IInv
<1>. SUFFICES ASSUME Init PROVE IInv
  OBVIOUS
<1>. USE PacketAssumption DEF Init
<1>1. TypeOK
  <2>1. <<>> \in Seq(Packets \X Nat) /\ Len(<<>>) = 0
    BY EmptySeq
  <2>2. lock \in BOOLEAN /\ open \in BOOLEAN /\ first \in BOOLEAN
        /\ blocking \in BOOLEAN /\ header \in BOOLEAN
    BY Zenon
  <2>. QED
    BY <2>1, <2>2 DEF TypeOK
<1>2. BufferOK
  BY DEF BufferOK
<1>3. Parsed /\ RecvOK
  BY DEF Parsed, RecvOK
<1>. QED
  BY <1>1, <1>2, <1>3 DEF IInv
-----------------------------------------------------------------------------
(* The sending end leaves the receiver alone, and the wire only grows there. *)

\* What a step of the sending end keeps.
LEMMA SenderKeeps ==
    ASSUME BufferOK, Parsed, RecvOK, UNCHANGED <<receiver, open>>,
           wire # <<>> => wire' # <<>>
    PROVE  BufferOK' /\ Parsed' /\ RecvOK'
<1>. USE DEF receiver
<1>1. BufferOK'
  BY DEF BufferOK
<1>2. Parsed'
  BY DEF Parsed
<1>3. RecvOK'
  BY DEF RecvOK
<1>. QED
  BY <1>1, <1>2, <1>3

\* The sender's side leaves what the receiver knows alone.
LEMMA EnterStep ==
    ASSUME IInv, NEW p \in Packets, Enter(p)
    PROVE  IInv'
<1>. USE PacketAssumption
<1>1. /\ Size(p) \in Nat
      /\ Bytes(p, 1, Header) \in Seq(Byte)
      /\ Bytes(p, Header + 1, Size(p)) \in Seq(Byte)
  BY SizeType, BytesType
<1>2. TypeOK'
  BY <1>1 DEF IInv, TypeOK, Enter, receiver, Byte
<1>3. BufferOK' /\ Parsed' /\ RecvOK'
  BY SenderKeeps DEF IInv, Enter
<1>. QED
  BY <1>2, <1>3 DEF IInv

\* A cut of a sequence of bytes.
LEMMA CutType ==
    ASSUME NEW s \in Seq(Byte), NEW m \in Nat, NEW n \in Nat, m >= 1, n <= Len(s)
    PROVE  /\ SubSeq(s, m, n) \in Seq(Byte)
           /\ Len(SubSeq(s, m, n)) = IF m <= n THEN n - m + 1 ELSE 0
           /\ \A i \in 1..(n - m + 1) : SubSeq(s, m, n)[i] = s[m + i - 1]
<1>1. \A i \in m..n : s[i] \in Byte
  BY ElementOfSeq
<1>. QED
  BY <1>1, SubSeqProperties

\* What send takes joins the wire and leaves the part being sent.
LEMMA SendPieceStep ==
    ASSUME IInv, SendPiece
    PROVE  IInv'
<1>1. PICK n \in 1..Len(part) :
            /\ Len(wire) + n <= Window
            /\ wire' = wire \o SubSeq(part, 1, n)
            /\ part' = SubSeq(part, n + 1, Len(part))
  BY DEF SendPiece
<1>. /\ part \in Seq(Byte) /\ wire \in Seq(Byte)
     /\ Len(part) \in Nat /\ n \in Nat /\ n >= 1 /\ n <= Len(part)
  BY DEF IInv, TypeOK, Byte
<1>2. /\ SubSeq(part, 1, n) \in Seq(Byte) /\ Len(SubSeq(part, 1, n)) = n
      /\ SubSeq(part, n + 1, Len(part)) \in Seq(Byte)
  BY CutType
<1>3. wire' \in Seq(Byte) /\ Len(wire') = Len(wire) + n
  BY <1>1, <1>2
<1>4. TypeOK'
  BY <1>1, <1>2, <1>3 DEF IInv, TypeOK, SendPiece, receiver, Byte
<1>5. wire' # <<>>
  BY <1>3
<1>6. BufferOK' /\ Parsed' /\ RecvOK'
  BY <1>5, SenderKeeps DEF IInv, SendPiece
<1>. QED
  BY <1>4, <1>6 DEF IInv

\* The second part follows the first, and the lock is released after it.
LEMMA SendNextStep ==
    ASSUME IInv, SendNext
    PROVE  IInv'
<1>1. TypeOK'
  BY DEF IInv, TypeOK, SendNext, receiver
<1>2. BufferOK' /\ Parsed' /\ RecvOK'
  BY SenderKeeps DEF IInv, SendNext
<1>. QED
  BY <1>1, <1>2 DEF IInv

\* A closed connection may lose what was on the wire, but is seen to be closed.
LEMMA CloseStep ==
    ASSUME IInv, Close
    PROVE  IInv'
<1>1. PICK n \in 0..Len(wire) : wire' = SubSeq(wire, 1, n)
  BY DEF Close, Prefixes
<1>. wire \in Seq(Byte) /\ Len(wire) \in Nat /\ n \in Nat /\ n <= Len(wire)
  BY DEF IInv, TypeOK, Byte
<1>2. wire' \in Seq(Byte) /\ Len(wire') = n
  BY <1>1, CutType
<1>3. TypeOK'
  <2>1. Len(wire') <= Window
    BY <1>2, PacketAssumption DEF IInv, TypeOK
  <2>2. lock' \in BOOLEAN /\ open' \in BOOLEAN
    BY DEF Close
  <2>3. <<>> \in Seq(Packets \X Nat)
    BY EmptySeq
  <2>. QED
    BY <1>2, <2>1, <2>2, <2>3 DEF IInv, TypeOK, Close, receiver, Byte
<1>4. BufferOK' /\ Parsed'
  BY DEF IInv, BufferOK, Parsed, Close, receiver
<1>5. RecvOK'
  BY DEF IInv, RecvOK, Close, receiver
<1>. QED
  BY <1>3, <1>4, <1>5 DEF IInv
-----------------------------------------------------------------------------
(* The receiving end. *)

\* ProcessConnection is called when there is something to receive, or the end.
LEMMA ProcessStep ==
    ASSUME IInv, Process
    PROVE  IInv'
<1>. USE DEF IInv, Process, sender
<1>1. TypeOK'
  BY DEF TypeOK
<1>2. BufferOK' /\ Parsed'
  BY DEF BufferOK, Parsed
<1>3. RecvOK'
  BY DEF RecvOK
<1>. QED
  BY <1>1, <1>2, <1>3

\* The first byte of the buffer is one of a packet.
LEMMA HeadType ==
    ASSUME TypeOK, Len(buffer) >= Header
    PROVE  Size(Head(buffer)[1]) \in Nat /\ Size(Head(buffer)[1]) >= Header
<1>1. Len(buffer) >= 1 /\ buffer \in Seq(Byte)
  BY PacketAssumption DEF TypeOK, Byte
<1>2. Head(buffer) \in Byte
  BY <1>1
<1>3. Head(buffer)[1] \in Packets
  BY <1>2 DEF Byte
<1>. QED
  BY <1>3, SizeType

\* The size read is that of the packet whose header is at the head of the
\* buffer.
LEMMA ReadHeaderStep ==
    ASSUME IInv, ReadHeader
    PROVE  IInv'
<1>. USE DEF IInv, ReadHeader, sender
<1>1. TypeOK'
  BY HeadType DEF TypeOK
<1>2. BufferOK' /\ Parsed'
  BY DEF BufferOK, Parsed
<1>3. RecvOK'
  BY DEF RecvOK
<1>. QED
  BY <1>1, <1>2, <1>3

\* A buffer grown to the packet's size has room for what is missing of it.
LEMMA GrowStep ==
    ASSUME IInv, Grow
    PROVE  IInv'
<1>. USE DEF IInv, Grow, sender
<1>1. TypeOK'
  BY DEF TypeOK
<1>2. BufferOK' /\ Parsed'
  BY PacketAssumption DEF BufferOK, Parsed, TypeOK
<1>3. RecvOK'
  BY DEF RecvOK, TypeOK
<1>. QED
  BY <1>1, <1>2, <1>3

\* After a packet was handed over, the length of the next is not known yet.
LEMMA GiveStep ==
    ASSUME IInv, Give
    PROVE  IInv'
<1>. USE DEF IInv, Give, sender
<1>. /\ buffer \in Seq(Byte) /\ Len(buffer) \in Nat
     /\ size \in Nat /\ length \in Nat /\ size <= Len(buffer)
  BY DEF TypeOK, Byte
<1>1. buffer' \in Seq(Byte) /\ Len(buffer') <= Len(buffer)
  BY CutType DEF Given
<1>2. TypeOK'
  BY <1>1 DEF TypeOK, Byte
<1>3. BufferOK' /\ Parsed'
  BY DEF BufferOK, Parsed
<1>4. RecvOK'
  BY DEF RecvOK
<1>. QED
  BY <1>2, <1>3, <1>4

\* ParseData ends for want of bytes only, and then there is room for them.
LEMMA ParseEndStep ==
    ASSUME IInv, ParseEnd
    PROVE  IInv'
<1>. USE PacketAssumption DEF IInv, ParseEnd, sender
<1>1. TypeOK'
  BY DEF TypeOK
<1>2. BufferOK' /\ Parsed'
  BY DEF BufferOK, Parsed
<1>3. RecvOK'
  BY DEF RecvOK, BufferOK, TypeOK
<1>. QED
  BY <1>1, <1>2, <1>3

\* What recv puts into the buffer fits, and is looked at next.
LEMMA ReceiveStep ==
    ASSUME IInv, Receive
    PROVE  IInv'
<1>1. PICK n \in 1..Len(wire) :
            /\ n <= Room
            /\ buffer' = buffer \o SubSeq(wire, 1, n)
            /\ wire' = SubSeq(wire, n + 1, Len(wire))
  BY DEF Receive
<1>. /\ buffer \in Seq(Byte) /\ wire \in Seq(Byte)
     /\ Len(buffer) \in Nat /\ Len(wire) \in Nat /\ length \in Nat
     /\ n \in Nat /\ n >= 1 /\ n <= Len(wire)
  BY DEF IInv, TypeOK, Byte
<1>2. /\ SubSeq(wire, 1, n) \in Seq(Byte) /\ Len(SubSeq(wire, 1, n)) = n
      /\ SubSeq(wire, n + 1, Len(wire)) \in Seq(Byte)
      /\ Len(SubSeq(wire, n + 1, Len(wire))) <= Len(wire)
  BY CutType
<1>3. /\ buffer' \in Seq(Byte) /\ Len(buffer') = Len(buffer) + n
      /\ \A i \in 1..Len(buffer) : buffer'[i] = buffer[i]
  BY <1>1, <1>2
<1>4. TypeOK'
  <2>1. Len(buffer') <= length /\ Len(wire') <= Window
    BY <1>1, <1>2, <1>3, PacketAssumption DEF IInv, TypeOK, Room
  <2>. QED
    BY <1>1, <1>2, <1>3, <2>1 DEF IInv, TypeOK, Receive, AfterRecv, sender, Byte
<1>5. BufferOK'
  <2>1. CASE header
    BY <2>1 DEF IInv, BufferOK, Receive
  <2>2. CASE ~header
    <3>1. Len(buffer) >= 1
      BY <2>2, PacketAssumption DEF IInv, BufferOK
    <3>2. Head(buffer') = Head(buffer)
      BY <3>1, <1>3
    <3>. QED
      BY <2>2, <3>2, <1>3, PacketAssumption DEF IInv, BufferOK, Receive
  <2>. QED
    BY <2>1, <2>2
<1>6. Parsed' /\ RecvOK'
  BY DEF Parsed, RecvOK, Receive, AfterRecv
<1>. QED
  BY <1>4, <1>5, <1>6 DEF IInv

\* As there is room, recv that returns nothing has found the end of the
\* connection.
LEMMA ReceiveNothingStep ==
    ASSUME IInv, ReceiveNothing
    PROVE  IInv'
<1>. USE DEF IInv, ReceiveNothing, sender
<1>1. TypeOK'
  BY DEF TypeOK
<1>2. BufferOK' /\ Parsed'
  BY DEF BufferOK, Parsed
<1>3. Room # 0
  BY DEF Room, RecvOK, TypeOK
<1>4. RecvOK'
  BY <1>3 DEF RecvOK
<1>. QED
  BY <1>1, <1>2, <1>4
-----------------------------------------------------------------------------
\* Every step keeps the inductive invariant.
LEMMA InvNext == IInv /\ [Next]_vars => IInv'
<1>. SUFFICES ASSUME IInv, [Next]_vars PROVE IInv'
  OBVIOUS
<1>1. CASE \E p \in Packets : Enter(p)
  BY <1>1, EnterStep
<1>2. CASE Sender
  BY <1>2, SendPieceStep, SendNextStep DEF Sender
<1>3. CASE Close
  BY <1>3, CloseStep
<1>4. CASE Reader
  BY <1>4, ProcessStep, ReadHeaderStep, GrowStep, GiveStep, ParseEndStep,
     ReceiveStep, ReceiveNothingStep DEF Reader
<1>5. CASE UNCHANGED vars
  BY <1>5 DEF vars, sender, receiver, IInv, TypeOK, BufferOK, Parsed, RecvOK
<1>. QED
  BY <1>1, <1>2, <1>3, <1>4, <1>5 DEF Next

\* The variables have their types, and the buffer is never overrun by recv.
THEOREM TypeCorrect == Spec => []TypeOK
<1>1. Init => IInv
  BY InvInit
<1>2. IInv /\ [Next]_vars => IInv'
  BY InvNext
<1>3. IInv => TypeOK
  BY DEF IInv
<1>. QED
  BY <1>1, <1>2, <1>3, PTL DEF Spec

\* recv always has room for a byte, and the receiving thread gives up a socket
\* only after the other end has closed it (ProcessConnection's return value).
THEOREM SocketNotDropped == Spec => []NotDropped
<1>1. Init => IInv
  BY InvInit
<1>2. IInv /\ [Next]_vars => IInv'
  BY InvNext
<1>3. IInv => NotDropped
  BY DEF IInv, RecvOK, NotDropped
<1>. QED
  BY <1>1, <1>2, <1>3, PTL DEF Spec

\* A thread that waits in select has given everything whole that it had read
\* (ProcessConnection parses before each recv).
THEOREM NothingIsLeft == Spec => []NothingLeft
<1>1. Init => IInv
  BY InvInit
<1>2. IInv /\ [Next]_vars => IInv'
  BY InvNext
<1>3. IInv => NothingLeft
  BY PacketAssumption DEF IInv, TypeOK, Parsed, BufferOK, NothingLeft
<1>. QED
  BY <1>1, <1>2, <1>3, PTL DEF Spec
-----------------------------------------------------------------------------
(* Lasts of a sequence of bytes.  Induction over a position is on the set of *)
(* the positions of which the fact holds.                                    *)

\* A set of positions that holds 0 and with each its successor holds them all.
LEMMA Upwards ==
    ASSUME NEW N \in Nat, NEW S, 0 \in S,
           \A n \in 1..N : n - 1 \in S => n \in S
    PROVE  \A n \in 0..N : n \in S
<1> DEFINE Bad == {n \in 0..N : n \notin S}
<1> SUFFICES ASSUME Bad # {} PROVE FALSE
  OBVIOUS
<1>1. PICK n \in Bad : \A m \in Bad : n <= m
  <2>1. Bad \subseteq Nat
    OBVIOUS
  <2> HIDE DEF Bad
  <2> QED BY <2>1, LeastNumber
<1>2. n \in 1..N /\ n - 1 \in 0..N
  BY <1>1
<1>3. n - 1 \in S
  BY <1>1, <1>2
<1> QED BY <1>1, <1>2, <1>3

\* One more byte after the packets q.
More(q, byte) == IF IsLast(byte) THEN Append(q, byte[1]) ELSE q

\* g gives the packets whose last bytes are in the first n bytes, n up to N.
UpTo(s, N, g) == g = [n \in 0..N |-> IF n = 0 THEN <<>> ELSE More(g[n - 1], s[n])]

Counted(s) == CHOOSE g : UpTo(s, Len(s), g)

\* There is such a function for every sequence.
LEMMA UpToExists ==
    ASSUME NEW s, NEW N \in Nat PROVE \E g : UpTo(s, N, g)
<1> DEFINE S == {n \in 0..N : \E g : UpTo(s, n, g)}
<1>1. 0 \in S
  <2>1. UpTo(s, 0, [n \in 0..0 |-> <<>>])
    BY DEF UpTo
  <2> QED BY <2>1
<1>2. ASSUME NEW n \in 1..N, n - 1 \in S PROVE n \in S
  <2> PICK h : UpTo(s, n - 1, h)
    BY <1>2
  <2> DEFINE g == [m \in 0..n |-> IF m = n THEN More(h[n - 1], s[n]) ELSE h[m]]
  <2>1. ASSUME NEW m \in 0..n
        PROVE  g[m] = IF m = 0 THEN <<>> ELSE More(g[m - 1], s[m])
    <3>1. CASE m = n
      BY <3>1
    <3>2. CASE m # n
      <4>1. m \in 0..(n - 1) /\ (m # 0 => m - 1 \in 0..(n - 1) /\ m - 1 \in 0..n /\ m - 1 # n)
        BY <3>2
      <4>2. h[m] = IF m = 0 THEN <<>> ELSE More(h[m - 1], s[m])
        BY <4>1 DEF UpTo
      <4> QED BY <3>2, <4>1, <4>2
    <3> QED BY <3>1, <3>2
  <2>2. UpTo(s, n, g)
    BY <2>1 DEF UpTo
  <2> QED BY <2>2
<1> HIDE DEF S
<1>3. N \in S
  BY <1>1, <1>2, Upwards
<1> QED BY <1>3 DEF S

\* Lasts, one byte after the other.
LEMMA LastsCounted ==
    ASSUME NEW s \in Seq(Byte)
    PROVE  /\ Lasts(s) = Counted(s)[Len(s)]
           /\ Counted(s)[0] = <<>>
           /\ \A n \in 1..Len(s) : Counted(s)[n] = More(Counted(s)[n - 1], s[n])
<1>1. Len(s) \in Nat
  OBVIOUS
<1>2. UpTo(s, Len(s), Counted(s))
  BY <1>1, UpToExists DEF Counted
<1>3. Lasts(s) = Counted(s)[Len(s)]
  BY DEF Lasts, Counted, UpTo, More
<1> QED BY <1>1, <1>2, <1>3 DEF UpTo

\* The packets counted are packets.
LEMMA CountedType ==
    ASSUME NEW s \in Seq(Byte)
    PROVE  \A n \in 0..Len(s) : Counted(s)[n] \in Seq(Packets)
<1> DEFINE S == {n \in 0..Len(s) : Counted(s)[n] \in Seq(Packets)}
<1>1. 0 \in S
  <2>1. Counted(s)[0] = <<>> /\ 0 \in 0..Len(s)
    BY LastsCounted
  <2>2. <<>> \in Seq(Packets)
    BY EmptySeq
  <2>3. Counted(s)[0] \in Seq(Packets)
    BY <2>1, <2>2
  <2> QED BY <2>1, <2>3
<1>2. ASSUME NEW n \in 1..Len(s), n - 1 \in S PROVE n \in S
  <2>1. s[n] \in Byte /\ Counted(s)[n - 1] \in Seq(Packets)
    BY <1>2
  <2>2. s[n][1] \in Packets
    BY <2>1 DEF Byte
  <2>3. Counted(s)[n] = More(Counted(s)[n - 1], s[n])
    BY LastsCounted
  <2>4. Counted(s)[n] \in Seq(Packets)
    BY <2>1, <2>2, <2>3 DEF More
  <2> QED BY <2>4
<1>3. Len(s) \in Nat
  OBVIOUS
<1> HIDE DEF S
<1>4. \A n \in 0..Len(s) : n \in S
  BY <1>1, <1>2, <1>3, Upwards
<1> QED BY <1>4 DEF S

\* The count of the first bytes depends on nothing but these bytes.
LEMMA CountedSame ==
    ASSUME NEW s \in Seq(Byte), NEW t \in Seq(Byte), NEW N \in Nat,
           N <= Len(s), N <= Len(t), \A i \in 1..N : s[i] = t[i]
    PROVE  \A n \in 0..N : Counted(s)[n] = Counted(t)[n]
<1> DEFINE S == {n \in 0..N : Counted(s)[n] = Counted(t)[n]}
<1>1. 0 \in S
  BY LastsCounted
<1>2. ASSUME NEW n \in 1..N, n - 1 \in S PROVE n \in S
  <2>1. n \in 1..Len(s) /\ n \in 1..Len(t)
    OBVIOUS
  <2>2. Counted(s)[n] = More(Counted(s)[n - 1], s[n])
    BY <2>1, LastsCounted
  <2>3. Counted(t)[n] = More(Counted(t)[n - 1], t[n])
    BY <2>1, LastsCounted
  <2> QED BY <1>2, <2>2, <2>3
<1> HIDE DEF S
<1>3. \A n \in 0..N : n \in S
  BY <1>1, <1>2, Upwards
<1> QED BY <1>3 DEF S

\* Bytes none of which is a last one add no packet.
LEMMA CountedQuiet ==
    ASSUME NEW s \in Seq(Byte), NEW m \in Nat, NEW N \in Nat, m + N <= Len(s),
           \A i \in (m + 1)..(m + N) : ~IsLast(s[i])
    PROVE  Counted(s)[m + N] = Counted(s)[m]
<1> DEFINE S == {n \in 0..N : Counted(s)[m + n] = Counted(s)[m]}
<1>1. 0 \in S
  OBVIOUS
<1>2. ASSUME NEW n \in 1..N, n - 1 \in S PROVE n \in S
  <2>1. m + n \in 1..Len(s) /\ m + n \in (m + 1)..(m + N) /\ m + n - 1 = m + (n - 1)
    OBVIOUS
  <2>2. Counted(s)[m + n] = More(Counted(s)[m + n - 1], s[m + n])
    BY <2>1, LastsCounted
  <2> QED BY <1>2, <2>1, <2>2 DEF More
<1> HIDE DEF S
<1>3. N \in 0..N
  OBVIOUS
<1>4. N \in S
  BY <1>1, <1>2, <1>3, Upwards
<1> QED BY <1>4 DEF S

\* What is counted in fewer bytes comes first in what is counted in more.
LEMMA CountedPrefix ==
    ASSUME NEW s \in Seq(Byte), NEW m \in Nat, m <= Len(s)
    PROVE  Counted(s)[m] \in Prefixes(Lasts(s))
<1> DEFINE First(n) == /\ Len(Counted(s)[m]) <= Len(Counted(s)[n])
                       /\ Counted(s)[m] = SubSeq(Counted(s)[n], 1, Len(Counted(s)[m]))
           N == Len(s) - m
           S == {n \in 0..N : First(m + n)}
<1>0. Counted(s)[m] \in Seq(Packets) /\ Counted(s)[Len(s)] \in Seq(Packets)
  BY CountedType
<1>1. 0 \in S
  BY <1>0
<1>2. ASSUME NEW n \in 1..N, n - 1 \in S PROVE n \in S
  <2>1. m + n \in 1..Len(s) /\ m + n - 1 = m + (n - 1) /\ m + n - 1 \in 0..Len(s)
    OBVIOUS
  <2>2. Counted(s)[m + n] = More(Counted(s)[m + n - 1], s[m + n])
    BY <2>1, LastsCounted
  <2>3. Counted(s)[m + n - 1] \in Seq(Packets) /\ s[m + n] \in Byte
    BY <2>1, CountedType
  <2>4. First(m + n - 1)
    BY <1>2, <2>1
  <2> DEFINE a == Counted(s)[m]
             q == Counted(s)[m + n - 1]
             r == Counted(s)[m + n]
  <2>5. a \in Seq(Packets) /\ q \in Seq(Packets) /\ Len(a) <= Len(q)
        /\ a = SubSeq(q, 1, Len(a))
    BY <1>0, <2>3, <2>4
  <2>6. r = q \/ (s[m + n][1] \in Packets /\ r = Append(q, s[m + n][1]))
    BY <2>2, <2>3 DEF More, Byte
  <2> HIDE DEF a, q, r
  <2>7. Len(a) <= Len(r) /\ a = SubSeq(r, 1, Len(a))
    BY <2>5, <2>6
  <2> QED BY <2>7 DEF a, r
<1>3. N \in Nat /\ N \in 0..N
  OBVIOUS
<1> HIDE DEF S
<1>4. N \in S
  BY <1>1, <1>2, <1>3, Upwards
<1>5. First(m + N) /\ m + N = Len(s)
  BY <1>4 DEF S
<1>6. Lasts(s) = Counted(s)[Len(s)]
  BY LastsCounted
<1> QED BY <1>0, <1>5, <1>6 DEF Prefixes

\* Bytes that hold just one packet, before other bytes, are that packet before
\* the other packets.
LEMMA CountedAfter ==
    ASSUME NEW s \in Seq(Byte), NEW t \in Seq(Byte), NEW k \in Nat, NEW p \in Packets,
           Len(s) = k + Len(t), \A i \in 1..Len(t) : t[i] = s[k + i],
           Counted(s)[k] = <<p>>
    PROVE  Lasts(s) = <<p>> \o Lasts(t)
<1> DEFINE N == Len(t)
           S == {n \in 0..N : Counted(s)[k + n] = <<p>> \o Counted(t)[n]}
<1>0. /\ \A i \in 1..Len(s) : Counted(s)[i] = More(Counted(s)[i - 1], s[i])
      /\ \A i \in 1..Len(t) : Counted(t)[i] = More(Counted(t)[i - 1], t[i])
      /\ Counted(t)[0] = <<>>
  BY LastsCounted
<1>1. 0 \in S
  <2>1. <<p>> \o <<>> = <<p>>
    OBVIOUS
  <2>2. k + 0 = k /\ 0 \in 0..N
    OBVIOUS
  <2> QED BY <1>0, <2>1, <2>2
<1>2. ASSUME NEW n \in 1..N, n - 1 \in S PROVE n \in S
  <2>1. k + n \in 1..Len(s) /\ k + n - 1 = k + (n - 1) /\ n - 1 \in 0..Len(t)
    OBVIOUS
  <2>2. Counted(s)[k + n] = More(Counted(s)[k + n - 1], s[k + n])
    BY <1>0, <2>1
  <2>3. Counted(t)[n] = More(Counted(t)[n - 1], t[n])
    BY <1>0
  <2>4. Counted(t)[n - 1] \in Seq(Packets) /\ t[n] \in Byte
    BY <2>1, CountedType
  <2>5. Counted(s)[k + n - 1] = <<p>> \o Counted(t)[n - 1]
    BY <1>2, <2>1
  <2> DEFINE q == Counted(t)[n - 1]
  <2>6. More(<<p>> \o q, t[n]) = <<p>> \o More(q, t[n])
    <3>1. q \in Seq(Packets) /\ t[n][1] \in Packets /\ <<p>> \in Seq(Packets)
      BY <2>4 DEF Byte
    <3> HIDE DEF q
    <3>2. Append(<<p>> \o q, t[n][1]) = <<p>> \o Append(q, t[n][1])
      BY <3>1
    <3> QED BY <3>2 DEF More
  <2>7. t[n] = s[k + n]
    OBVIOUS
  <2>8. Counted(s)[k + n] = <<p>> \o Counted(t)[n]
    BY <2>2, <2>3, <2>5, <2>6, <2>7
  <2> QED BY <2>8
<1>3. N \in Nat /\ N \in 0..N
  OBVIOUS
<1> HIDE DEF S
<1>4. N \in S
  BY <1>1, <1>2, <1>3, Upwards
<1>5. Lasts(s) = Counted(s)[Len(s)] /\ Lasts(t) = Counted(t)[N]
  BY LastsCounted
<1> QED BY <1>4, <1>5 DEF S
-----------------------------------------------------------------------------
(* The bytes of packets, one after the other.                               *)

\* Two sequences of bytes, one after the other.
LEMMA Joined ==
    ASSUME NEW s \in Seq(Byte), NEW t \in Seq(Byte)
    PROVE  /\ Len(s) \in Nat /\ Len(t) \in Nat
           /\ s \o t \in Seq(Byte) /\ Len(s \o t) = Len(s) + Len(t)
           /\ \A i \in 1..Len(s) : (s \o t)[i] = s[i]
           /\ \A i \in 1..Len(t) : (s \o t)[Len(s) + i] = t[i]
  OBVIOUS

\* Positions go up by one within a packet and start again after its last byte.
Chained(s) ==
    \A i \in 1..Len(s) :
        /\ s[i][2] >= 1 /\ s[i][2] <= Size(s[i][1])
        /\ i = 1 => s[i][2] = 1
        /\ i < Len(s) => IF IsLast(s[i]) THEN s[i + 1][2] = 1
                                         ELSE s[i + 1] = <<s[i][1], s[i][2] + 1>>

\* A whole packet, byte by byte.
LEMMA WholeBytes ==
    ASSUME NEW p \in Packets
    PROVE  /\ Size(p) \in Nat /\ Size(p) >= 1
           /\ Whole(p) \in Seq(Byte) /\ Len(Whole(p)) = Size(p)
           /\ \A i \in 1..Size(p) : Whole(p)[i] = <<p, i>>
<1>1. Size(p) \in Nat /\ Size(p) >= 1
  BY SizeType, PacketAssumption
<1>2. Whole(p) = [i \in 1..Size(p) |-> <<p, i>>]
  <2>1. Size(p) - 1 + 1 = Size(p) /\ \A i \in 1..Size(p) : 1 + i - 1 = i
    BY <1>1
  <2> QED BY <2>1 DEF Whole, Bytes
<1>3. Whole(p) \in [1..Size(p) -> Byte]
  BY <1>2 DEF Byte
<1>4. Whole(p) \in Seq(Byte) /\ Len(Whole(p)) = Size(p)
  BY <1>1, <1>3, IsASeq, LenProperties
<1> QED BY <1>1, <1>2, <1>4

\* A whole packet is that of one packet only.
LEMMA WholeOfOne ==
    ASSUME NEW p \in Packets, NEW q \in Packets, Whole(p) = Whole(q)
    PROVE  p = q
<1>1. Whole(p)[1] = <<p, 1>> /\ Whole(q)[1] = <<q, 1>>
  BY WholeBytes
<1> QED BY <1>1

\* A packet sent after whole packets.
LEMMA ChainedSend ==
    ASSUME NEW s \in Seq(Byte), Chained(s), s # <<>> => IsLast(s[Len(s)]),
           NEW p \in Packets
    PROVE  LET t == s \o Whole(p)
           IN  /\ t \in Seq(Byte) /\ Chained(t)
               /\ IsLast(t[Len(t)])
               /\ Lasts(t) = Append(Lasts(s), p)
<1> DEFINE t == s \o Whole(p)
           k == Len(s)
           n == Size(p)
<1>1. /\ n \in Nat /\ n >= 1 /\ k \in Nat
      /\ Whole(p) \in Seq(Byte) /\ Len(Whole(p)) = n
      /\ \A i \in 1..n : Whole(p)[i] = <<p, i>>
  BY WholeBytes
<1>2. /\ t \in Seq(Byte) /\ Len(t) = k + n
      /\ \A i \in 1..k : t[i] = s[i]
      /\ \A i \in 1..n : t[k + i] = <<p, i>>
  BY <1>1
<1> HIDE DEF t
<1>3. \A i \in (k + 1)..(k + n) : t[i] = <<p, i - k>>
  <2> TAKE i \in (k + 1)..(k + n)
  <2>1. i - k \in 1..n /\ k + (i - k) = i
    BY <1>1
  <2> QED BY <1>2, <2>1
<1>4. Chained(t)
  <2> SUFFICES ASSUME NEW i \in 1..(k + n)
               PROVE  /\ t[i][2] >= 1 /\ t[i][2] <= Size(t[i][1])
                      /\ i = 1 => t[i][2] = 1
                      /\ i < k + n => IF IsLast(t[i]) THEN t[i + 1][2] = 1
                                      ELSE t[i + 1] = <<t[i][1], t[i][2] + 1>>
    BY <1>2 DEF Chained
  <2>1. CASE i < k
    <3>1. i \in 1..k /\ i + 1 \in 1..k
      BY <1>1, <2>1
    <3>2. t[i] = s[i] /\ t[i + 1] = s[i + 1]
      BY <1>2, <3>1
    <3> QED BY <2>1, <3>1, <3>2 DEF Chained
  <2>2. CASE i = k
    <3>1. i \in 1..k /\ k + 1 \in (k + 1)..(k + n) /\ k + 1 - k = 1
      BY <1>1, <2>2
    <3>2. t[i] = s[i] /\ t[i + 1] = <<p, 1>> /\ IsLast(s[i])
      BY <1>1, <1>2, <1>3, <2>2, <3>1
    <3>3. t[i + 1][2] = 1
      BY <3>2
    <3>4. s[i][2] >= 1 /\ s[i][2] <= Size(s[i][1]) /\ (i = 1 => s[i][2] = 1)
      BY <3>1 DEF Chained
    <3> QED BY <3>2, <3>3, <3>4
  <2>3. CASE i > k
    <3>1. i \in (k + 1)..(k + n) /\ i - k \in 1..n
      BY <1>1, <2>3
    <3>2. t[i] = <<p, i - k>> /\ t[i][1] = p /\ t[i][2] = i - k
      BY <1>3, <3>1
    <3>3. ASSUME i < k + n PROVE t[i + 1] = <<p, i - k + 1>> /\ ~IsLast(t[i])
      <4>1. i + 1 \in (k + 1)..(k + n) /\ i + 1 - k = i - k + 1 /\ i - k # n
        BY <1>1, <3>1, <3>3
      <4> QED BY <1>3, <3>2, <4>1 DEF IsLast
    <3> QED BY <1>1, <3>1, <3>2, <3>3
  <2> QED BY <1>1, <2>1, <2>2, <2>3
<1>5. IsLast(t[k + n])
  BY <1>1, <1>3 DEF IsLast
<1>6. Lasts(t) = Append(Lasts(s), p)
  <2>0. t \in Seq(Byte) /\ k \in 0..k /\ k <= Len(s) /\ k <= Len(t) /\ k + n \in 1..Len(t)
    BY <1>1, <1>2
  <2>1. Counted(t)[k] = Counted(s)[k]
    <3>1. \A i \in 1..k : t[i] = s[i]
      BY <1>2
    <3>2. \A m \in 0..k : Counted(t)[m] = Counted(s)[m]
      <4> HIDE DEF k
      <4> QED BY <1>1, <2>0, <3>1, CountedSame
    <3> QED BY <2>0, <3>2
  <2>2. Counted(t)[k + (n - 1)] = Counted(t)[k]
    <3>1. \A i \in (k + 1)..(k + (n - 1)) : ~IsLast(t[i])
      BY <1>1, <1>3 DEF IsLast
    <3>2. n - 1 \in Nat /\ k + (n - 1) <= Len(t)
      BY <1>1, <1>2
    <3> HIDE DEF k, n
    <3> QED BY <1>1, <2>0, <3>1, <3>2, CountedQuiet
  <2>3. PICK j \in 1..Len(t) : j = k + n
    BY <2>0
  <2>4. /\ j - 1 = k + (n - 1) /\ t[j][1] = p /\ IsLast(t[j]) /\ Len(t) = j
    BY <1>1, <1>2, <1>3, <1>5, <2>3
  <2>5. Counted(t)[j] = More(Counted(t)[j - 1], t[j])
    BY <2>0, LastsCounted
  <2>6. Counted(t)[j - 1] = Counted(s)[k]
    BY <2>1, <2>2, <2>4
  <2>7. Counted(t)[j] = Append(Counted(s)[k], p)
    BY <2>4, <2>5, <2>6 DEF More
  <2> QED BY <1>2, <2>4, <2>7, LastsCounted
<1> QED BY <1>2, <1>4, <1>5, <1>6 DEF t

\* What is left of the bytes when the last ones are lost.
LEMMA ChainedCut ==
    ASSUME NEW s \in Seq(Byte), Chained(s), NEW k \in 0..Len(s)
    PROVE  LET t == SubSeq(s, 1, k)
           IN  t \in Seq(Byte) /\ Chained(t) /\ Lasts(t) \in Prefixes(Lasts(s))
<1> DEFINE t == SubSeq(s, 1, k)
<1>0. k \in Nat /\ Len(s) \in Nat /\ k <= Len(s)
  OBVIOUS
<1>1. t \in Seq(Byte) /\ Len(t) = k /\ \A i \in 1..k : t[i] = s[i]
  BY <1>0, CutType
<1> HIDE DEF t
<1>2. Chained(t)
  <2> SUFFICES ASSUME NEW i \in 1..k
               PROVE  /\ t[i][2] >= 1 /\ t[i][2] <= Size(t[i][1])
                      /\ i = 1 => t[i][2] = 1
                      /\ i < k => IF IsLast(t[i]) THEN t[i + 1][2] = 1
                                  ELSE t[i + 1] = <<t[i][1], t[i][2] + 1>>
    BY <1>1 DEF Chained
  <2>1. i \in 1..Len(s) /\ t[i] = s[i]
    BY <1>0, <1>1
  <2>2. i < k => i < Len(s) /\ t[i + 1] = s[i + 1]
    BY <1>0, <1>1
  <2> QED BY <2>1, <2>2 DEF Chained
<1>3. Counted(t)[k] = Counted(s)[k]
  BY <1>0, <1>1, CountedSame
<1>4. Lasts(t) = Counted(s)[k]
  BY <1>1, <1>3, LastsCounted
<1> QED BY <1>0, <1>1, <1>2, <1>4, CountedPrefix DEF t

\* The first packet among the bytes, when all of it is there.
LEMMA ChainedFront ==
    ASSUME NEW s \in Seq(Byte), Chained(s), NEW p \in Packets,
           Len(s) >= Size(p), s[1][1] = p
    PROVE  \A i \in 1..Size(p) : s[i] = <<p, i>>
<1> DEFINE n == Size(p)
           S == {i \in 0..(n - 1) : s[i + 1] = <<p, i + 1>>}
<1>1. n \in Nat /\ n >= 1 /\ Len(s) \in Nat /\ n - 1 \in Nat
  BY WholeBytes
<1>2. 0 \in S
  <2>1. 1 \in 1..Len(s) /\ s[1] \in Byte
    BY <1>1
  <2>2. s[1][2] = 1
    BY <2>1 DEF Chained
  <2>3. s[1] = <<p, 1>>
    BY <2>1, <2>2 DEF Byte
  <2> QED BY <1>1, <2>3
<1>3. ASSUME NEW i \in 1..(n - 1), i - 1 \in S PROVE i \in S
  <2>1. s[i] = <<p, i>>
    BY <1>1, <1>3
  <2>2. i \in 1..Len(s) /\ i < Len(s) /\ i # n
    BY <1>1
  <2>3. ~IsLast(s[i])
    BY <2>1, <2>2 DEF IsLast
  <2>4. s[i + 1] = <<s[i][1], s[i][2] + 1>>
    BY <2>2, <2>3 DEF Chained
  <2>5. s[i + 1] = <<p, i + 1>>
    BY <2>1, <2>4
  <2> QED BY <1>1, <2>5
<1> HIDE DEF S
<1>4. \A i \in 0..(n - 1) : i \in S
  BY <1>1, <1>2, <1>3, Upwards
<1>5. ASSUME NEW i \in 1..n PROVE s[i] = <<p, i>>
  <2>1. i - 1 \in 0..(n - 1) /\ i - 1 + 1 = i
    BY <1>1
  <2>2. s[i - 1 + 1] = <<p, i - 1 + 1>>
    BY <1>4, <2>1 DEF S
  <2> QED BY <2>1, <2>2
<1> QED BY <1>5

\* What follows the first packet.
LEMMA ChainedGive ==
    ASSUME NEW s \in Seq(Byte), Chained(s), NEW p \in Packets, NEW t \in Seq(Byte),
           Len(s) = Size(p) + Len(t), s[1][1] = p,
           \A i \in 1..Len(t) : t[i] = s[Size(p) + i]
    PROVE  Chained(t) /\ Lasts(s) = <<p>> \o Lasts(t)
<1> DEFINE n == Size(p)
<1>1. n \in Nat /\ n >= 1 /\ Len(s) \in Nat /\ Len(t) \in Nat
  BY WholeBytes
<1>2. \A i \in 1..n : s[i] = <<p, i>>
  BY <1>1, ChainedFront
<1>3. n \in 1..n /\ IsLast(s[n])
  BY <1>1, <1>2 DEF IsLast
<1>4. Chained(t)
  <2> SUFFICES ASSUME NEW i \in 1..Len(t)
               PROVE  /\ t[i][2] >= 1 /\ t[i][2] <= Size(t[i][1])
                      /\ i = 1 => t[i][2] = 1
                      /\ i < Len(t) => IF IsLast(t[i]) THEN t[i + 1][2] = 1
                                       ELSE t[i + 1] = <<t[i][1], t[i][2] + 1>>
    BY DEF Chained
  <2> HIDE DEF n
  <2>1. n + i \in 1..Len(s) /\ t[i] = s[n + i]
    BY <1>1 DEF n
  <2>2. t[i][2] >= 1 /\ t[i][2] <= Size(t[i][1])
    BY <2>1 DEF Chained
  <2>3. i = 1 => t[i][2] = 1
    <3> HAVE i = 1
    <3>1. n \in 1..Len(s) /\ n < Len(s) /\ t[i] = s[n + 1]
      BY <1>1, <2>1
    <3> QED BY <1>3, <3>1 DEF Chained
  <2>4. ASSUME i < Len(t)
        PROVE  IF IsLast(t[i]) THEN t[i + 1][2] = 1
               ELSE t[i + 1] = <<t[i][1], t[i][2] + 1>>
    <3>1. n + i < Len(s) /\ i + 1 \in 1..Len(t) /\ n + (i + 1) = n + i + 1
      BY <1>1, <2>4 DEF n
    <3>2. t[i + 1] = s[n + i + 1]
      BY <3>1 DEF n
    <3> QED BY <2>1, <3>1, <3>2 DEF Chained
  <2> QED BY <2>2, <2>3, <2>4
<1>5. Counted(s)[n] = <<p>>
  <2>1. Counted(s)[0 + (n - 1)] = Counted(s)[0]
    <3>1. \A i \in (0 + 1)..(0 + (n - 1)) : ~IsLast(s[i])
      BY <1>1, <1>2 DEF IsLast
    <3>2. 0 + (n - 1) <= Len(s) /\ n - 1 \in Nat
      BY <1>1
    <3> HIDE DEF n
    <3> QED BY <3>1, <3>2, CountedQuiet
  <2>2. Counted(s)[0] = <<>> /\ Counted(s)[n] = More(Counted(s)[n - 1], s[n])
    BY <1>1, LastsCounted
  <2>3. 0 + (n - 1) = n - 1 /\ s[n][1] = p
    BY <1>1, <1>2, <1>3
  <2>4. Append(<<>>, p) = <<p>>
    OBVIOUS
  <2> QED BY <1>3, <2>1, <2>2, <2>3, <2>4 DEF More
<1> QED BY <1>1, <1>4, <1>5, CountedAfter
-----------------------------------------------------------------------------
(* Each step is a step of the channel, or changes nothing there.            *)

Wholes == {Whole(p) : p \in Packets}

\* What is on the way is packets one after the other, complete unless the
\* connection has been closed; nothing is left to send outside of the lock; and
\* the listener was given nothing but whole packets.
StreamOK ==
    /\ Chained(Stream)
    /\ open /\ Stream # <<>> => IsLast(Stream[Len(Stream)])
    /\ ~lock => part = <<>> /\ rest = <<>>
    /\ given \in Seq(Wholes)

StreamInv == IInv /\ StreamOK

\* What is on the way is a sequence of bytes whose length is the sum of its
\* four parts.
LEMMA StreamType ==
    ASSUME TypeOK
    PROVE  /\ buffer \in Seq(Byte) /\ wire \in Seq(Byte)
           /\ part \in Seq(Byte) /\ rest \in Seq(Byte) /\ Stream \in Seq(Byte)
           /\ Len(Stream) = Len(buffer) + Len(wire) + Len(part) + Len(rest)
<1>1. /\ buffer \in Seq(Byte) /\ wire \in Seq(Byte)
      /\ part \in Seq(Byte) /\ rest \in Seq(Byte)
  BY DEF TypeOK, Byte
<1> QED BY <1>1 DEF Stream

\* In the first states nothing is on the way.
LEMMA StreamInit == Init => StreamOK
<1> SUFFICES ASSUME Init PROVE StreamOK
  OBVIOUS
<1>1. Stream = <<>>
  BY DEF Init, Stream
<1>2. Chained(<<>>)
  BY DEF Chained
<1>3. given \in Seq(Wholes)
  BY EmptySeq DEF Init
<1> QED BY <1>1, <1>2, <1>3 DEF Init, StreamOK

\* Steps that only move bytes on their way.
LEMMA StreamMoves ==
    ASSUME StreamOK, UNCHANGED <<Stream, open, given>>,
           ~lock' => part' = <<>> /\ rest' = <<>>
    PROVE  StreamOK' /\ UNCHANGED Fifo!vars
<1>1. UNCHANGED OnTheWay
  BY DEF OnTheWay
<1>2. UNCHANGED GivenPackets
  BY DEF GivenPackets
<1>3. UNCHANGED Fifo!vars
  BY <1>1, <1>2 DEF Fifo!vars
<1>4. StreamOK'
  BY DEF StreamOK
<1> QED BY <1>3, <1>4

\* The sending end moves bytes from one place to the next.
LEMMA SenderMoves ==
    ASSUME StreamInv, Sender PROVE UNCHANGED Stream
<1>. /\ buffer \in Seq(Byte) /\ wire \in Seq(Byte)
     /\ part \in Seq(Byte) /\ rest \in Seq(Byte)
  BY StreamType DEF StreamInv, IInv
<1>1. CASE SendPiece
  <2> PICK n \in 1..Len(part) : /\ wire' = wire \o SubSeq(part, 1, n)
                                /\ part' = SubSeq(part, n + 1, Len(part))
    BY <1>1 DEF SendPiece
  <2>1. UNCHANGED <<buffer, rest>>
    BY <1>1 DEF SendPiece, receiver
  <2> DEFINE a == SubSeq(part, 1, n)
             b == SubSeq(part, n + 1, Len(part))
  <2>2. n \in Nat /\ n >= 1 /\ n <= Len(part) /\ Len(part) \in Nat
    OBVIOUS
  <2>3. a \in Seq(Byte) /\ b \in Seq(Byte)
    BY <2>2, CutType
  <2>4. a \o b = part
    BY <2>2
  <2> HIDE DEF a, b
  <2>5. buffer \o (wire \o a) \o b \o rest = buffer \o wire \o (a \o b) \o rest
    BY <2>3
  <2> QED BY <2>1, <2>4, <2>5 DEF Stream, a, b
<1>2. CASE SendNext
  <2>1. part = <<>> /\ part' = rest /\ rest' = <<>> /\ UNCHANGED <<buffer, wire>>
    BY <1>2 DEF SendNext, receiver
  <2>2. buffer \o wire \o <<>> \o rest = buffer \o wire \o rest \o <<>>
    OBVIOUS
  <2> QED BY <2>1, <2>2 DEF Stream
<1> QED BY <1>1, <1>2 DEF Sender

\* And so does recv.
LEMMA ReceiveMoves ==
    ASSUME StreamInv, Receive PROVE UNCHANGED Stream
<1>. /\ buffer \in Seq(Byte) /\ wire \in Seq(Byte)
     /\ part \in Seq(Byte) /\ rest \in Seq(Byte)
  BY StreamType DEF StreamInv, IInv
<1> PICK n \in 1..Len(wire) : /\ buffer' = buffer \o SubSeq(wire, 1, n)
                              /\ wire' = SubSeq(wire, n + 1, Len(wire))
  BY DEF Receive
<1>1. UNCHANGED <<part, rest>>
  BY DEF Receive, sender
<1> DEFINE a == SubSeq(wire, 1, n)
           b == SubSeq(wire, n + 1, Len(wire))
<1>2. n \in Nat /\ n >= 1 /\ n <= Len(wire) /\ Len(wire) \in Nat
  OBVIOUS
<1>3. a \in Seq(Byte) /\ b \in Seq(Byte)
  BY <1>2, CutType
<1>4. a \o b = wire
  BY <1>2
<1> HIDE DEF a, b
<1>5. (buffer \o a) \o b \o part \o rest = buffer \o (a \o b) \o part \o rest
  BY <1>3
<1> QED BY <1>1, <1>4, <1>5 DEF Stream, a, b

\* Send on an open connection is Send of the channel; on a closed one it does
\* nothing.
LEMMA EnterSends ==
    ASSUME StreamInv, NEW p \in Packets, Enter(p)
    PROVE  StreamOK' /\ [Fifo!Next]_(Fifo!vars)
<1>. /\ buffer \in Seq(Byte) /\ wire \in Seq(Byte) /\ Stream \in Seq(Byte)
  BY StreamType DEF StreamInv, IInv
<1>0. UNCHANGED <<buffer, wire, given, open>> /\ ~lock
      /\ Chained(Stream) /\ part = <<>> /\ rest = <<>> /\ given \in Seq(Wholes)
  BY DEF Enter, receiver, StreamInv, StreamOK
<1>1. CASE ~open
  <2>1. UNCHANGED <<Stream, lock, part, rest>>
    BY <1>0, <1>1 DEF Enter, Stream
  <2>2. StreamOK' /\ UNCHANGED Fifo!vars
    BY <1>0, <2>1, StreamMoves DEF StreamInv
  <2> QED BY <2>2
<1>2. CASE open
  <2> DEFINE a == Bytes(p, 1, Header)
             b == Bytes(p, Header + 1, Size(p))
  <2>1. part' = a /\ rest' = b /\ lock' = TRUE
    BY <1>2 DEF Enter
  <2>2. /\ Header \in Nat /\ Header >= 1 /\ Size(p) \in Nat /\ Size(p) >= Header
        /\ a \in Seq(Byte) /\ b \in Seq(Byte)
    BY SizeType, BytesType, PacketAssumption
  <2>3. a \o b = Whole(p)
    <3>1. /\ a = [i \in 1..Header |-> <<p, i>>]
          /\ b = [i \in 1..(Size(p) - Header) |-> <<p, Header + i>>]
      <4>1. /\ Header - 1 + 1 = Header /\ \A i \in 1..Header : 1 + i - 1 = i
            /\ Size(p) - (Header + 1) + 1 = Size(p) - Header
            /\ \A i \in 1..(Size(p) - Header) : Header + 1 + i - 1 = Header + i
        BY <2>2
      <4> QED BY <4>1 DEF Bytes
    <3>2. Len(a) = Header /\ Len(b) = Size(p) - Header
      BY <2>2, <3>1
    <3> HIDE DEF a, b
    <3>3. /\ Whole(p) \in Seq(Byte) /\ Len(Whole(p)) = Size(p)
          /\ \A i \in 1..Size(p) : Whole(p)[i] = <<p, i>>
      BY WholeBytes
    <3>4. a \o b \in Seq(Byte) /\ Len(a \o b) = Size(p)
      <4>1. a \o b \in Seq(Byte) /\ Len(a \o b) = Len(a) + Len(b)
        BY <2>2, Joined
      <4> QED BY <2>2, <3>2, <4>1
    <3>5. ASSUME NEW i \in 1..Size(p) PROVE (a \o b)[i] = <<p, i>>
      <4>1. CASE i <= Header
        BY <2>2, <3>1, <3>2, <4>1
      <4>2. CASE i > Header
        <5>1. i - Header \in 1..(Size(p) - Header) /\ Header + (i - Header) = i
          BY <2>2, <4>2
        <5> DEFINE j == i - Header
        <5>2. j \in 1..Len(b) /\ Len(a) + j = i /\ Header + j = i
          BY <3>2, <5>1
        <5> HIDE DEF j
        <5>3. (a \o b)[Len(a) + j] = b[j]
          BY <2>2, <5>2, Joined
        <5>4. b[j] = <<p, Header + j>>
          BY <3>1, <3>2, <5>2
        <5>5. (a \o b)[i] = b[j]
          BY <5>2, <5>3
        <5>6. b[j] = <<p, i>>
          BY <5>2, <5>4
        <5> QED BY <5>5, <5>6
      <4>3. i <= Header \/ i > Header
        BY <2>2
      <4> QED BY <4>1, <4>2, <4>3, Zenon
    <3> QED BY <3>3, <3>4, <3>5, SeqEqual
  <2>4. Stream' = Stream \o Whole(p)
    <3>1. Stream = buffer \o wire
      BY <1>0 DEF Stream
    <3>2. Stream' = buffer \o wire \o a \o b
      BY <1>0, <2>1 DEF Stream
    <3> HIDE DEF a, b
    <3>3. buffer \o wire \o a \o b = (buffer \o wire) \o (a \o b)
      BY <2>2
    <3> QED BY <2>3, <3>1, <3>2, <3>3
  <2>5. /\ Chained(Stream') /\ IsLast(Stream'[Len(Stream')])
        /\ Lasts(Stream') = Append(Lasts(Stream), p)
    <3>1. Stream # <<>> => IsLast(Stream[Len(Stream)])
      BY <1>2 DEF StreamInv, StreamOK
    <3> QED BY <1>0, <2>4, <3>1, ChainedSend
  <2>6. StreamOK'
    BY <1>0, <2>1, <2>5 DEF StreamOK
  <2>7. OnTheWay' = Append(OnTheWay, p)
    BY <2>5 DEF OnTheWay
  <2>8. UNCHANGED <<GivenPackets, open>>
    BY <1>0 DEF GivenPackets
  <2>9. Fifo!Send(p)
    BY <1>2, <2>7, <2>8 DEF Fifo!Send
  <2> QED BY <2>6, <2>9 DEF Fifo!Next
<1> QED BY <1>1, <1>2

\* A connection that is closed loses the last packets at most.
LEMMA CloseBreaks ==
    ASSUME StreamInv, Close
    PROVE  StreamOK' /\ [Fifo!Next]_(Fifo!vars)
<1>. /\ buffer \in Seq(Byte) /\ wire \in Seq(Byte) /\ Stream \in Seq(Byte)
     /\ part \in Seq(Byte) /\ rest \in Seq(Byte)
     /\ Len(Stream) = Len(buffer) + Len(wire) + Len(part) + Len(rest)
  BY StreamType DEF StreamInv, IInv
<1>1. PICK n \in 0..Len(wire) : wire' = SubSeq(wire, 1, n)
  BY DEF Close, Prefixes
<1>2. /\ open /\ ~open' /\ part' = <<>> /\ rest' = <<>>
      /\ UNCHANGED <<buffer, given>>
      /\ Chained(Stream) /\ given \in Seq(Wholes)
  BY DEF Close, receiver, StreamInv, StreamOK
<1> DEFINE k == Len(buffer) + n
<1>3. k \in 0..Len(Stream) /\ n \in Nat /\ n <= Len(wire)
  OBVIOUS
<1>4. Stream' = SubSeq(Stream, 1, k)
  <2>1. Stream' = buffer \o SubSeq(wire, 1, n)
    BY <1>1, <1>2, <1>3, CutType DEF Stream
  <2> DEFINE t == part \o rest
  <2>2. t \in Seq(Byte) /\ Stream = buffer \o wire \o t
    BY DEF Stream
  <2> HIDE DEF t
  <2>3. SubSeq(buffer \o wire \o t, 1, Len(buffer) + n) = buffer \o SubSeq(wire, 1, n)
    <3> DEFINE r == SubSeq(buffer \o wire \o t, 1, k)
               a == SubSeq(wire, 1, n)
    <3>1. a \in Seq(Byte) /\ Len(a) = n /\ \A i \in 1..n : a[i] = wire[1 + i - 1]
      BY <1>3, CutType
    <3>2. r \in Seq(Byte) /\ Len(r) = k /\ \A i \in 1..k : r[i] = Stream[1 + i - 1]
      BY <1>3, <2>2, CutType
    <3>3. /\ \A i \in 1..Len(buffer) : Stream[i] = buffer[i]
          /\ \A i \in 1..Len(wire) : Stream[Len(buffer) + i] = wire[i]
      BY <2>2
    <3>4. ASSUME NEW i \in 1..k PROVE r[i] = (buffer \o a)[i]
      <4>1. r[i] = Stream[i]
        BY <1>3, <3>2
      <4> HIDE DEF r, a
      <4>2. CASE i <= Len(buffer)
        BY <3>1, <3>3, <4>1, <4>2
      <4>3. CASE i > Len(buffer)
        <5> DEFINE j == i - Len(buffer)
        <5>1. j \in 1..n /\ j \in 1..Len(wire) /\ Len(buffer) + j = i
          BY <1>3, <4>3
        <5> HIDE DEF j
        <5>2. (buffer \o a)[Len(buffer) + j] = a[j]
          BY <3>1, <5>1, Joined
        <5>3. a[j] = wire[j] /\ Stream[Len(buffer) + j] = wire[j]
          BY <3>1, <3>3, <5>1
        <5> QED BY <4>1, <5>1, <5>2, <5>3
      <4>4. i \in Int /\ Len(buffer) \in Int
        BY Joined
      <4>5. i <= Len(buffer) \/ i > Len(buffer)
        BY <4>4
      <4> QED BY <4>2, <4>3, <4>5, Zenon
    <3> HIDE DEF r, a
    <3>5. buffer \o a \in Seq(Byte) /\ Len(buffer \o a) = k
      BY <3>1, Joined
    <3>6. r = buffer \o a
      BY <3>2, <3>4, <3>5, SeqEqual
    <3> QED BY <3>6 DEF r, a
  <2> QED BY <2>1, <2>2, <2>3
<1>5. Chained(Stream') /\ Lasts(Stream') \in Prefixes(Lasts(Stream))
  BY <1>2, <1>3, <1>4, ChainedCut
<1>6. StreamOK'
  BY <1>2, <1>5 DEF StreamOK
<1>7. \E q \in Prefixes(OnTheWay) : OnTheWay' = q
  BY <1>5 DEF OnTheWay
<1>8. UNCHANGED GivenPackets
  BY <1>2 DEF GivenPackets
<1>9. open' = FALSE
  BY DEF Close
<1>10. Fifo!Break
  BY <1>2, <1>7, <1>8, <1>9 DEF Fifo!Break, Fifo!Prefixes, Prefixes
<1> QED BY <1>6, <1>10 DEF Fifo!Next

\* What ParseData cuts from the buffer is the packet that was sent first.
LEMMA GiveGives ==
    ASSUME StreamInv, Give
    PROVE  StreamOK' /\ [Fifo!Next]_(Fifo!vars)
<1>. /\ buffer \in Seq(Byte) /\ wire \in Seq(Byte) /\ Stream \in Seq(Byte)
     /\ part \in Seq(Byte) /\ rest \in Seq(Byte)
     /\ Len(Stream) = Len(buffer) + Len(wire) + Len(part) + Len(rest)
  BY StreamType DEF StreamInv, IInv
<1>0. /\ given' = Append(given, SubSeq(buffer, 1, size))
      /\ buffer' = SubSeq(buffer, size + 1, Len(buffer))
      /\ UNCHANGED <<wire, part, rest, lock, open>>
      /\ Len(buffer) >= Header /\ size <= Len(buffer) /\ ~header
      /\ Chained(Stream) /\ given \in Seq(Wholes)
      /\ size = Size(Head(buffer)[1])
  BY DEF Give, Given, sender, StreamInv, StreamOK, IInv, BufferOK
<1> DEFINE p == buffer[1][1]
<1>1. Len(buffer) \in Nat /\ Len(buffer) >= 1 /\ Head(buffer) = buffer[1]
  BY <1>0, PacketAssumption
<1>2. p \in Packets /\ size = Size(p)
  BY <1>0, <1>1 DEF Byte
<1>3. size \in Nat /\ size >= 1
  BY <1>2, WholeBytes
<1> DEFINE u == wire \o part \o rest
<1>4. /\ SubSeq(buffer, 1, size) \in Seq(Byte)
      /\ Len(SubSeq(buffer, 1, size)) = size
      /\ \A i \in 1..size : SubSeq(buffer, 1, size)[i] = buffer[i]
  BY <1>0, <1>3, CutType
<1>5. /\ buffer' \in Seq(Byte) /\ Len(buffer') = Len(buffer) - size
      /\ \A i \in 1..(Len(buffer) - size) : buffer'[i] = buffer[size + i]
  <2>1. /\ Len(buffer) - (size + 1) + 1 = Len(buffer) - size
        /\ \A i \in 1..(Len(buffer) - size) : (size + 1) + i - 1 = size + i
        /\ size + 1 \in Nat /\ size + 1 >= 1
    BY <1>1, <1>3
  <2>2. /\ SubSeq(buffer, size + 1, Len(buffer)) \in Seq(Byte)
        /\ Len(SubSeq(buffer, size + 1, Len(buffer)))
              = IF size + 1 <= Len(buffer) THEN Len(buffer) - (size + 1) + 1 ELSE 0
        /\ \A i \in 1..(Len(buffer) - (size + 1) + 1) :
              SubSeq(buffer, size + 1, Len(buffer))[i] = buffer[(size + 1) + i - 1]
    BY <1>1, <2>1, CutType
  <2>3. Len(buffer') = Len(buffer) - size
    BY <1>0, <1>1, <1>3, <2>2
  <2> QED BY <1>0, <2>1, <2>2, <2>3
<1>6. /\ u \in Seq(Byte) /\ Stream = buffer \o u /\ Stream' = buffer' \o u
  <2>1. \A b \in Seq(Byte) : b \o wire \o part \o rest = b \o (wire \o part \o rest)
    OBVIOUS
  <2>2. Stream' = buffer' \o wire \o part \o rest
    BY <1>0 DEF Stream
  <2>3. wire \o part \in Seq(Byte) /\ u \in Seq(Byte)
    BY Joined
  <2>4. Stream' = buffer' \o u
    BY <1>5, <2>1, <2>2
  <2>5. Stream = buffer \o u
    BY <2>1 DEF Stream
  <2> QED BY <2>3, <2>4, <2>5
<1> HIDE DEF p, u
<1>7. /\ Stream' \in Seq(Byte) /\ Len(Stream) = size + Len(Stream')
      /\ \A i \in 1..Len(Stream') : Stream'[i] = Stream[size + i]
      /\ \A i \in 1..size : Stream[i] = buffer[i]
  <2>1. Len(u) \in Nat /\ Stream' \in Seq(Byte)
        /\ Len(Stream') = Len(buffer) - size + Len(u)
        /\ Len(Stream) = Len(buffer) + Len(u)
    <3>1. /\ buffer' \o u \in Seq(Byte) /\ Len(buffer' \o u) = Len(buffer') + Len(u)
          /\ Len(buffer \o u) = Len(buffer) + Len(u) /\ Len(u) \in Nat
      BY <1>5, <1>6, Joined
    <3>2. Stream' \in Seq(Byte) /\ Len(Stream') = Len(buffer') + Len(u)
      BY <1>6, <3>1
    <3>3. Len(Stream) = Len(buffer) + Len(u)
      BY <1>6, <3>1
    <3>4. Len(buffer') = Len(buffer) - size
      BY <1>5
    <3> QED BY <3>1, <3>2, <3>3, <3>4
  <2>2. Len(Stream) = size + Len(Stream')
    <3>1. \A a \in Nat, b \in Nat, d \in Nat : a + d = b + (a - b + d)
      OBVIOUS
    <3>2. Len(buffer) + Len(u) = size + (Len(buffer) - size + Len(u))
      BY <1>1, <1>3, <2>1, <3>1, Zenon
    <3> QED BY <2>1, <3>2, Zenon
  <2>3. ASSUME NEW i \in 1..Len(Stream') PROVE Stream'[i] = Stream[size + i]
    <3>1. CASE i <= Len(buffer) - size
      <4>1. Stream'[i] = buffer'[i]
        BY <1>5, <1>6, <3>1
      <4>2. i \in 1..(Len(buffer) - size) /\ size + i \in 1..Len(buffer)
        BY <1>1, <1>3, <2>1, <3>1
      <4>3. Stream[size + i] = buffer[size + i]
        BY <1>6, <4>2
      <4> QED BY <1>5, <4>1, <4>2, <4>3
    <3>2. CASE i > Len(buffer) - size
      <4> DEFINE j == i - (Len(buffer) - size)
      <4>1. j \in 1..Len(u) /\ i = Len(buffer') + j /\ size + i = Len(buffer) + j
        <5>1. /\ Len(buffer) \in Nat /\ size \in Nat /\ size <= Len(buffer)
              /\ Len(u) \in Nat /\ Len(buffer') = Len(buffer) - size
              /\ Len(Stream') = Len(buffer) - size + Len(u)
          BY <1>0, <1>1, <1>3, <1>5, <2>1
        <5> QED BY <3>2, <5>1
      <4> HIDE DEF j
      <4>2. Stream'[Len(buffer') + j] = u[j]
        BY <1>5, <1>6, <4>1, Joined
      <4>3. Stream[Len(buffer) + j] = u[j]
        BY <1>6, <4>1, Joined
      <4> QED BY <4>1, <4>2, <4>3
    <3> QED BY <1>1, <1>3, <3>1, <3>2
  <2>4. \A i \in 1..size : Stream[i] = buffer[i]
    BY <1>0, <1>1, <1>3, <1>6
  <2> QED BY <2>1, <2>2, <2>3, <2>4
<1>8. Stream[1][1] = p /\ Len(Stream) >= Size(p)
  <2>1. 1 \in 1..size /\ Len(Stream') \in Nat
    BY <1>3, <1>7
  <2>2. Stream[1] = buffer[1]
    BY <1>7, <2>1
  <2>3. Stream[1][1] = p
    BY <2>2 DEF p
  <2>4. Len(Stream) >= size
    BY <1>3, <1>7, <2>1
  <2> QED BY <1>2, <2>3, <2>4
<1>9. Chained(Stream') /\ Lasts(Stream) = <<p>> \o Lasts(Stream')
  <2>1. /\ Len(Stream) = Size(p) + Len(Stream')
        /\ \A i \in 1..Len(Stream') : Stream'[i] = Stream[Size(p) + i]
    BY <1>2, <1>7
  <2> QED BY <1>0, <1>2, <1>7, <1>8, <2>1, ChainedGive
<1>10. SubSeq(buffer, 1, size) = Whole(p)
  <2>1. \A i \in 1..Size(p) : Stream[i] = <<p, i>>
    BY <1>0, <1>2, <1>8, ChainedFront
  <2>2. \A i \in 1..size : SubSeq(buffer, 1, size)[i] = Whole(p)[i]
    BY <1>2, <1>4, <1>7, <2>1, WholeBytes
  <2>3. Whole(p) \in Seq(Byte) /\ Len(Whole(p)) = size
    BY <1>2, WholeBytes
  <2>4. Len(SubSeq(buffer, 1, size)) = Len(Whole(p))
    BY <1>4, <2>3
  <2>5. \A i \in 1..Len(SubSeq(buffer, 1, size)) :
           SubSeq(buffer, 1, size)[i] = Whole(p)[i]
    BY <1>4, <2>2
  <2>6. SubSeq(buffer, 1, size) \in Seq(Byte)
    BY <1>4
  <2> DEFINE f == SubSeq(buffer, 1, size)
  <2> HIDE DEF f
  <2> QED BY <2>3, <2>4, <2>5, <2>6, SeqEqual DEF f
<1>11. given' = Append(given, Whole(p)) /\ given' \in Seq(Wholes)
  <2>1. given' = Append(given, Whole(p))
    BY <1>0, <1>10
  <2>2. Whole(p) \in Wholes
    BY <1>2 DEF Wholes
  <2> DEFINE w == Whole(p)
  <2> HIDE DEF w
  <2>3. w \in Wholes /\ given' = Append(given, w)
    BY <2>1, <2>2 DEF w
  <2>4. given' \in Seq(Wholes)
    <3>1. given \in Seq(Wholes)
      BY <1>0
    <3> QED BY <2>3, <3>1, AppendProperties
  <2> QED BY <2>1, <2>4
<1>12. StreamOK'
  <2>1. open' /\ Stream' # <<>> => IsLast(Stream'[Len(Stream')])
    <3> HAVE open' /\ Stream' # <<>>
    <3>1. open /\ Stream # <<>>
      BY <1>0, <1>3, <1>7
    <3>2. Len(Stream') \in 1..Len(Stream')
      BY <1>7
    <3>3. Stream'[Len(Stream')] = Stream[Len(Stream)]
      BY <1>7, <3>2
    <3> QED BY <3>1, <3>3 DEF StreamInv, StreamOK
  <2>2. ~lock' => part' = <<>> /\ rest' = <<>>
    BY <1>0 DEF StreamInv, StreamOK
  <2> QED BY <1>9, <1>11, <2>1, <2>2 DEF StreamOK
<1>13. GivenPackets' = Append(GivenPackets, p)
  <2> DEFINE Which(x) ==
               LET packets == {q \in Packets : x = Whole(q)}
               IN  IF packets = {} THEN "garbled" ELSE CHOOSE q \in packets : TRUE
             n == Len(given)
  <2>1. /\ n \in Nat /\ DOMAIN given = 1..n /\ DOMAIN given' = 1..(n + 1)
        /\ \A i \in 1..n : given'[i] = given[i]
        /\ given'[n + 1] = Whole(p)
    <3>1. given \in Seq(Wholes) /\ Whole(p) \in Wholes
      BY <1>0, <1>2 DEF Wholes
    <3>2. \A g \in Seq(Wholes), w \in Wholes :
             /\ Len(g) \in Nat /\ DOMAIN g = 1..Len(g)
             /\ DOMAIN Append(g, w) = 1..(Len(g) + 1)
             /\ \A i \in 1..Len(g) : Append(g, w)[i] = g[i]
             /\ Append(g, w)[Len(g) + 1] = w
      OBVIOUS
    <3>3. given' = Append(given, Whole(p))
      BY <1>11
    <3> DEFINE w == Whole(p)
    <3> HIDE DEF w
    <3>4. given \in Seq(Wholes) /\ w \in Wholes /\ given' = Append(given, w)
      BY <3>1, <3>3 DEF w
    <3>5. /\ n \in Nat /\ DOMAIN given = 1..n /\ DOMAIN given' = 1..(n + 1)
          /\ \A i \in 1..n : given'[i] = given[i]
          /\ given'[n + 1] = w
      BY <3>2, <3>4
    <3> QED BY <3>5 DEF w
  <2>3. Which(given'[n + 1]) = p
    <3>1. {q \in Packets : given'[n + 1] = Whole(q)} = {p}
      BY <1>2, <2>1, WholeOfOne
    <3> QED BY <3>1
  <2>4. GivenPackets = [i \in 1..n |-> Which(given[i])]
    BY <2>1 DEF GivenPackets
  <2>5. GivenPackets' = [i \in 1..(n + 1) |-> Which(given'[i])]
    BY <2>1 DEF GivenPackets
  <2> HIDE DEF Which, n
  <2>2. \A i \in 1..n : Which(given'[i]) = Which(given[i])
    BY <2>1
  <2>6. Append(GivenPackets, p) = [i \in 1..(n + 1) |-> IF i = n + 1 THEN p ELSE Which(given[i])]
    BY <2>1, <2>4
  <2> QED BY <2>1, <2>2, <2>3, <2>5, <2>6
<1>14. OnTheWay # <<>> /\ Head(OnTheWay) = p /\ OnTheWay' = Tail(OnTheWay)
  <2>1. Lasts(Stream') \in Seq(Packets)
    BY <1>7, LastsCounted, CountedType
  <2>2. OnTheWay = <<p>> \o Lasts(Stream') /\ OnTheWay' = Lasts(Stream')
    BY <1>9 DEF OnTheWay
  <2> QED BY <1>2, <2>1, <2>2
<1>15. Fifo!Give
  BY <1>0, <1>13, <1>14 DEF Fifo!Give
<1> QED BY <1>12, <1>15 DEF Fifo!Next

\* Every step keeps the order of the bytes and is one of the channel.
LEMMA StreamStep ==
    StreamInv /\ [Next]_vars => StreamInv' /\ [Fifo!Next]_(Fifo!vars)
<1> SUFFICES ASSUME StreamInv, [Next]_vars
             PROVE  StreamOK' /\ [Fifo!Next]_(Fifo!vars)
  BY InvNext DEF StreamInv
<1>1. CASE \E p \in Packets : Enter(p)
  BY <1>1, EnterSends
<1>2. CASE Sender
  <2>1. UNCHANGED <<open, given>> /\ (~lock' => part' = <<>> /\ rest' = <<>>)
    BY <1>2 DEF Sender, SendPiece, SendNext, receiver, StreamInv, StreamOK
  <2>2. StreamOK' /\ UNCHANGED Fifo!vars
    BY <1>2, <2>1, SenderMoves, StreamMoves DEF StreamInv
  <2> QED BY <2>2
<1>3. CASE Close
  BY <1>3, CloseBreaks
<1>4. CASE Give
  BY <1>4, GiveGives
<1>5. CASE Process \/ ReadHeader \/ Grow \/ ParseEnd \/ ReceiveNothing \/ UNCHANGED vars
  <2>1. UNCHANGED <<buffer, wire, part, rest, lock, open, given>>
    BY <1>5 DEF Process, ReadHeader, Grow, ParseEnd, ReceiveNothing, vars, sender,
                receiver
  <2>2. UNCHANGED Stream /\ (~lock' => part' = <<>> /\ rest' = <<>>)
    BY <2>1 DEF Stream, StreamInv, StreamOK
  <2>3. StreamOK' /\ UNCHANGED Fifo!vars
    BY <2>1, <2>2, StreamMoves DEF StreamInv
  <2> QED BY <2>3
<1>6. CASE Receive
  <2>1. UNCHANGED <<open, given, lock, part, rest>>
    BY <1>6 DEF Receive, sender
  <2>2. ~lock' => part' = <<>> /\ rest' = <<>>
    BY <2>1 DEF StreamInv, StreamOK
  <2>3. StreamOK' /\ UNCHANGED Fifo!vars
    BY <1>6, <2>1, <2>2, ReceiveMoves, StreamMoves DEF StreamInv
  <2> QED BY <2>3
<1> QED BY <1>1, <1>2, <1>3, <1>4, <1>5, <1>6 DEF Next, Reader

\* PacketSocket implements Channel: however TCP cuts and joins the bytes and
\* whoever sends, the listener gets whole packets, once and in the order in
\* which they were sent, and a break loses the last ones only.
THEOREM StreamIsChannel == Spec => Fifo!SafeSpec
<1>1. Init => StreamInv
  BY InvInit, StreamInit DEF StreamInv
<1>2. Init => Fifo!Init
  <2> SUFFICES ASSUME Init PROVE Fifo!Init
    OBVIOUS
  <2>1. Stream = <<>> /\ given = <<>> /\ open = TRUE
    BY DEF Init, Stream
  <2>2. <<>> \in Seq(Byte) /\ Len(<<>>) = 0
    BY EmptySeq
  <2>3. OnTheWay = <<>>
    BY <2>1, <2>2, LastsCounted DEF OnTheWay
  <2>4. GivenPackets = <<>>
    BY <2>1 DEF GivenPackets
  <2> QED BY <2>1, <2>3, <2>4 DEF Fifo!Init
<1> QED BY <1>1, <1>2, StreamStep, PTL DEF Spec, Fifo!SafeSpec
=============================================================================
