------------------------- MODULE ContestServerProofs -------------------------
(* Theorems of the server of sequence2, for every set of contestants,        *)
(* connections and tasks, every capacity of a connection and every number of *)
(* submissions, passes and clients that quit.  Each part of the invariant    *)
(* rests on the types, and on the parts before it.                           *)
EXTENDS ContestServer, SumProofs, FunctionTheorems, SequenceTheorems

-----------------------------------------------------------------------------
(* The invariant.  First what the threads, the users and the wires hold.    *)

Entries == [kind : {"register"}, name : Names]
             \cup [kind : {"login"}, name : Names, right : BOOLEAN]
Packets == Entries \cup [kind : {"task"}, task : Tasks]

\* Where the network thread works on a packet of a connection.
Serving == {"find", "add", "sort", "welcome", "tasks", "refuse", "lock", "delete"}

NetTyped ==
    net \in {Selects}
            \cup [at : Serving, conn : Conns,
                  packet : Packets \cup [kind : {"close"}]]
            \cup [at : {"answer"}, conn : Conns, name : Names,
                  message : {"disconnect", "task"}]
            \cup [at : {"push", "signal"}, job : Submission]

ChkTyped ==
    chk \in [at : {"wait", "drain", "sort"}]
            \cup [at : {"lock", "check", "solved"}, job : Submission]
            \cup [at : {"reply"}, job : Submission, sort : BOOLEAN]

\* A pass goes over the users of the list, first to copy their rows, then to
\* send; the list stays as it is, because the window's thread has its lock.
RowType == [name : Names, tasks : [Tasks -> Int], solved : Nat]
Passes  == [at : {"rows", "send"}, sends : BOOLEAN, i : Nat \ {0}, n : Nat,
            rows : Seq(RowType)]

GuiTyped ==
    /\ gui \in [at : {"idle"}] \cup Passes
    /\ listLock \in {Null, "gui"}
    /\ listLock = "gui" <=> gui.at # "idle"
    /\ gui.at # "idle" =>
          /\ gui.n = Len(order)
          /\ Len(gui.rows) = IF gui.i <= gui.n THEN gui.i - 1 ELSE gui.n
    /\ gui.at = "send" => gui.i - gui.n \in 1..gui.n

UsersTyped ==
    /\ order \in Seq(Names) /\ IsInjective(order)
    /\ user \in [Names -> [conn : Conns \cup {Null}, tasks : [Tasks -> Int],
                           solved : Nat, time : Int]]
    /\ userLock \in [Names -> {Null, "net", "chk", "gui"}]
    /\ queue \in Seq(Submission) /\ event \in BOOLEAN
    /\ score \in [Names -> [Tasks -> [fails : Nat, ok : BOOLEAN]]]
    /\ doubled \subseteq Names

WiresTyped ==
    /\ link \in [Conns -> {"none", "open", "shut", "deleted"}]
    /\ toServer \in [Conns -> Seq(Packets)]
    /\ inbox \in [Conns -> Seq(Messages)]
    /\ \A c \in Conns : Len(inbox[c]) <= Capacity
    /\ client \in [Conns -> [at : {"none", "dialog", "entered", "sent", "gone"},
                             send : BOOLEAN, box : Messages \cup {"none"}]]

\* What the network thread looks for, once FindUser has answered.
FoundOK ==
    /\ net.at = "add" => /\ net.packet.kind = "register"
                         /\ net.packet.name \notin Range(order)
    /\ net.at = "lock" =>
          \/ net.packet.kind = "login" /\ net.packet.name \in Range(order)
          \/ net.packet.kind \in {"task", "close"} /\ Bound(net.conn) # {}

TypeInv ==
    NetTyped /\ ChkTyped /\ GuiTyped /\ UsersTyped /\ WiresTyped /\ FoundOK

-----------------------------------------------------------------------------
(* Types.                                                                   *)

\* SortUsers keeps the users: its result lists the same names once each.
LEMMA SortKeeps ==
    ASSUME order \in Seq(Names), IsInjective(order), SortUsers
    PROVE  /\ order' \in Seq(Names) /\ IsInjective(order')
           /\ Len(order') = Len(order) /\ Range(order') = Range(order)
           /\ IsSorted(order')
<1> DEFINE D == DOMAIN order
<1>1. /\ order' \in [D -> Range(order)] /\ Range(order') = Range(order)
      /\ IsSorted(order')
  BY DEF SortUsers, Sorted
<1>2. D = 1..Len(order) /\ Range(order) \subseteq Names /\ Len(order) \in Nat
  BY DEF Range
<1>3. order' \in Seq(Names) /\ Len(order') = Len(order)
  BY <1>1, <1>2
<1>4. IsFiniteSet(D)
  BY <1>2, FS_Interval
<1>5. order \in Surjection(D, Range(order)) /\ order' \in Surjection(D, Range(order))
  <2>1. order \in [D -> Names] /\ order' \in [D -> Range(order)]
    BY <1>1
  <2> QED BY <1>1, <2>1, Fun_RangeProperties
<1>6. order \in Injection(D, Range(order))
  BY <1>2 DEF Injection, IsInjective, Range
<1>7. order' \in Injection(D, Range(order))
  BY <1>4, <1>5, <1>6, FS_Surjection
<1>8. IsInjective(order')
  BY <1>1, <1>7 DEF Injection, IsInjective
<1> QED BY <1>1, <1>3, <1>8

\* The initial values have their types.
LEMMA TypeInit == Init => TypeInv
<1> SUFFICES ASSUME Init PROVE TypeInv
  OBVIOUS
<1> USE ServerAssumption DEF Init
<1>1. NetTyped /\ ChkTyped /\ GuiTyped /\ FoundOK
  BY DEF NetTyped, ChkTyped, GuiTyped, FoundOK, Selects
<1>2. UsersTyped
  <2>1. NewUser \in [conn : Conns \cup {Null}, tasks : [Tasks -> Int],
                     solved : Nat, time : Int]
    BY DEF NewUser
  <2>2. order \in Seq(Names) /\ IsInjective(order) /\ queue \in Seq(Submission)
    BY DEF IsInjective
  <2> QED BY <2>1, <2>2 DEF UsersTyped
<1>3. WiresTyped
  BY DEF WiresTyped
<1> QED BY <1>1, <1>2, <1>3 DEF TypeInv

\* Sending to a client that can take a packet keeps within its capacity.
LEMMA SentType ==
    ASSUME WiresTyped, NEW c, NEW packet \in Messages, CanSend(c),
           Sent(c, packet)
    PROVE  /\ inbox' \in [Conns -> Seq(Messages)]
           /\ \A d \in Conns : Len(inbox'[d]) <= Capacity
<1>1. CASE link[c] # "open"
  BY <1>1 DEF Sent, WiresTyped
<1>2. CASE link[c] = "open"
  <2>1. inbox' = [inbox EXCEPT ![c] = Append(@, packet)] /\ Len(inbox[c]) < Capacity
    BY <1>2 DEF Sent, CanSend
  <2>2. ASSUME NEW d \in Conns
        PROVE  inbox'[d] \in Seq(Messages) /\ Len(inbox'[d]) <= Capacity
    <3>1. inbox[d] \in Seq(Messages) /\ Len(inbox[d]) <= Capacity
      BY DEF WiresTyped
    <3>2. CASE d = c
      <4>1. inbox'[d] = Append(inbox[d], packet)
        BY <2>1, <3>2 DEF WiresTyped
      <4> QED BY <2>1, <3>1, <3>2, <4>1, ServerAssumption
    <3>3. CASE d # c
      BY <2>1, <3>1, <3>3 DEF WiresTyped
    <3> QED BY <3>2, <3>3
  <2> QED BY <2>1, <2>2 DEF WiresTyped
<1> QED BY <1>1, <1>2

\* The network thread goes on with its packet.
LEMMA NetGotoType ==
    ASSUME NetTyped, net.at \in Serving, NEW place \in Serving, NetGoto(place)
    PROVE  /\ NetTyped' /\ net'.at = place
           /\ net'.conn = net.conn /\ net'.packet = net.packet
           /\ net.conn \in Conns /\ net.packet \in Packets \cup [kind : {"close"}]
  BY DEF NetTyped, NetGoto, Serving, Selects

\* The user that findUser returns for a connection is one of the list.
LEMMA BoundType ==
    ASSUME order \in Seq(Names), NEW c, Bound(c) # {}
    PROVE  /\ FirstBound(c) \in Range(order) /\ FirstBound(c) \in Names
           /\ user[FirstBound(c)].conn = c
<1>1. Bound(c) \subseteq 1..Len(order) /\ Len(order) \in Nat
  BY DEF Bound
<1>2. PICK i \in Bound(c) : \A j \in Bound(c) : i <= j
  <2>1. Bound(c) \subseteq Nat
    BY <1>1
  <2> QED BY <2>1, LeastNumber
<1>3. PICK k \in Bound(c) : FirstBound(c) = order[k]
  BY <1>2 DEF FirstBound
<1> QED BY <1>1, <1>3 DEF Bound, Range

\* Accepting a connection keeps the types.
LEMMA AcceptType ==
    ASSUME TypeInv, NEW c \in Conns, Accept(c)
    PROVE  TypeInv'
<1>1. UNCHANGED <<users, queue, event, net, chk, gui, toServer, inbox>>
  BY DEF Accept
<1>2. /\ link' \in [Conns -> {"none", "open", "shut", "deleted"}]
      /\ client' \in [Conns -> [at : {"none", "dialog", "entered", "sent", "gone"},
                                send : BOOLEAN, box : Messages \cup {"none"}]]
  BY DEF Accept, TypeInv, WiresTyped
<1> QED
  BY <1>1, <1>2
  DEF TypeInv, NetTyped, ChkTyped, GuiTyped, UsersTyped, WiresTyped, FoundOK,
      Bound, users

\* Receiving a packet keeps the types.
LEMMA ReceiveType ==
    ASSUME TypeInv, NEW c \in Conns, Receive(c)
    PROVE  TypeInv'
<1>1. UNCHANGED <<users, queue, event, chk, gui, link, inbox, client>>
  BY DEF Receive
<1>2. toServer[c] \in Seq(Packets) /\ toServer[c] # <<>>
  BY DEF Receive, TypeInv, WiresTyped
<1>3. Head(toServer[c]) \in Packets /\ Tail(toServer[c]) \in Seq(Packets)
  BY <1>2
<1>4. toServer' \in [Conns -> Seq(Packets)]
  BY <1>3 DEF Receive, TypeInv, WiresTyped
<1>5. NetTyped' /\ net'.at = "find"
  BY <1>3 DEF Receive, NetTyped, Serving
<1> QED
  BY <1>1, <1>4, <1>5
  DEF TypeInv, ChkTyped, GuiTyped, UsersTyped, WiresTyped, FoundOK, users

\* A lost connection keeps the types.
LEMMA HangupType ==
    ASSUME TypeInv, NEW c \in Conns, Hangup(c)
    PROVE  TypeInv'
<1>1. UNCHANGED <<users, queue, event, chk, gui, wires>>
  BY DEF Hangup
<1>2. NetTyped' /\ net'.at = "find"
  BY DEF Hangup, NetTyped, Serving
<1> QED
  BY <1>1, <1>2
  DEF TypeInv, ChkTyped, GuiTyped, UsersTyped, WiresTyped, FoundOK, users, wires

\* What the network thread does with its packet, leaving the others alone.
LEMMA FindType ==
    ASSUME TypeInv, Find
    PROVE  TypeInv'
<1>1. UNCHANGED <<users, queue, event, chk, gui, wires>>
  BY DEF Find
<1>2. /\ net.at = "find" /\ net.at \in Serving
      /\ net.conn \in Conns /\ net.packet \in Packets \cup [kind : {"close"}]
  BY DEF Find, TypeInv, NetTyped, Selects, Serving
<1>3. net.packet.kind \in {"register", "login", "task", "close"}
  BY <1>2 DEF Packets, Entries
<1>4. NetTyped' /\ FoundOK'
  <2>1. CASE net' = Selects
    BY <2>1 DEF NetTyped, FoundOK, Selects
  <2>2. CASE \E place \in {"refuse", "lock", "add", "delete"} :
               /\ NetGoto(place)
               /\ place = "add" => /\ net.packet.kind = "register"
                                   /\ ~Known(net.packet, net.conn)
               /\ place = "lock" => /\ net.packet.kind # "register"
                                    /\ Known(net.packet, net.conn)
    <3> PICK place \in {"refuse", "lock", "add", "delete"} :
               /\ NetGoto(place)
               /\ place = "add" => /\ net.packet.kind = "register"
                                   /\ ~Known(net.packet, net.conn)
               /\ place = "lock" => /\ net.packet.kind # "register"
                                    /\ Known(net.packet, net.conn)
      BY <2>2
    <3>1. /\ NetTyped' /\ net'.at = place
          /\ net'.conn = net.conn /\ net'.packet = net.packet
      BY <1>2, NetGotoType DEF TypeInv, Serving
    <3> QED BY <1>1, <1>3, <3>1 DEF FoundOK, Known, Bound, users
  <2> QED BY <1>3, <2>1, <2>2 DEF Find
<1> QED
  BY <1>1, <1>4 DEF TypeInv, ChkTyped, GuiTyped, UsersTyped, WiresTyped, users, wires

\* Appending a user to the list keeps the types.
LEMMA AddUserType ==
    ASSUME TypeInv, AddUser
    PROVE  TypeInv'
<1>1. UNCHANGED <<listLock, userLock, score, doubled, queue, event, chk, gui, wires>>
  BY DEF AddUser
<1>2. net.at = "add" /\ net.at \in Serving
  BY DEF AddUser, Serving
<1>3. /\ NetTyped' /\ net'.at = "sort"
      /\ net.conn \in Conns /\ net.packet \in Packets \cup [kind : {"close"}]
  BY <1>2, NetGotoType DEF AddUser, TypeInv, Serving
<1>4. net.packet.name \in Names /\ net.packet.name \notin Range(order)
  BY <1>2, <1>3 DEF TypeInv, FoundOK, Packets, Entries
<1>5. listLock = Null /\ gui.at = "idle"
  BY ServerAssumption DEF AddUser, Free, TypeInv, GuiTyped
<1>6. order' \in Seq(Names) /\ IsInjective(order')
  <2>1. order \in Seq(Names) /\ IsInjective(order)
    BY DEF TypeInv, UsersTyped
  <2>2. order' = Append(order, net.packet.name)
    BY DEF AddUser
  <2>3. \A i \in DOMAIN order : order[i] # net.packet.name
    BY <1>4 DEF Range
  <2> QED BY <1>4, <2>1, <2>2, <2>3 DEF IsInjective
<1>7. user' \in [Names -> [conn : Conns \cup {Null}, tasks : [Tasks -> Int],
                           solved : Nat, time : Int]]
  BY <1>3 DEF AddUser, TypeInv, UsersTyped
<1> QED
  BY <1>1, <1>3, <1>5, <1>6, <1>7
  DEF TypeInv, ChkTyped, GuiTyped, UsersTyped, WiresTyped, FoundOK, wires

\* A sort, by the network thread or by the checker, needs the list's lock free.
LEMMA SortType ==
    ASSUME TypeInv, SortUsers, UNCHANGED <<user, listLock, gui>>
    PROVE  /\ order' \in Seq(Names) /\ IsInjective(order')
           /\ Range(order') = Range(order) /\ IsSorted(order')
           /\ GuiTyped'
           /\ \A c : Bound(c) # {} => Bound(c)' # {}
<1>1. /\ order' \in Seq(Names) /\ IsInjective(order')
      /\ Range(order') = Range(order) /\ IsSorted(order')
  BY SortKeeps DEF TypeInv, UsersTyped
<1>2. GuiTyped'
  BY ServerAssumption DEF SortUsers, Free, TypeInv, GuiTyped
<1>3. ASSUME NEW c, NEW i \in Bound(c)
      PROVE  Bound(c)' # {}
  <2>1. PICK j \in DOMAIN order' : order'[j] = order[i]
    BY <1>1, <1>3 DEF Bound, Range
  <2>2. j \in Bound(c)'
    BY <1>3, <2>1 DEF Bound
  <2> QED BY <2>2
<1> QED BY <1>1, <1>2, <1>3

\* Sorting the list permutes it, so its members stay users.
LEMMA SortAfterAddType ==
    ASSUME TypeInv, SortAfterAdd
    PROVE  TypeInv'
<1>1. UNCHANGED <<user, listLock, userLock, score, doubled, queue, event, chk, gui,
                  wires>>
  BY DEF SortAfterAdd
<1>2. NetTyped' /\ net'.at = "welcome"
  BY NetGotoType DEF SortAfterAdd, TypeInv, Serving
<1>3. order' \in Seq(Names) /\ IsInjective(order') /\ GuiTyped'
  BY <1>1, SortType DEF SortAfterAdd
<1> QED
  BY <1>1, <1>2, <1>3
  DEF TypeInv, ChkTyped, UsersTyped, WiresTyped, FoundOK, wires

\* The network thread sends something and then works on no lookup.
LEMMA NetSendType ==
    ASSUME TypeInv, Welcome \/ Refuse \/ Answer
    PROVE  TypeInv'
<1>1. /\ UNCHANGED <<order, user, listLock, score, doubled, queue, event, chk, gui,
                     link, toServer, client>>
      /\ \/ UNCHANGED userLock
         \/ userLock' = [userLock EXCEPT ![net.name] = Null]
  BY DEF Welcome, Refuse, Answer, users
<1>2. /\ inbox' \in [Conns -> Seq(Messages)]
      /\ \A c \in Conns : Len(inbox'[c]) <= Capacity
  <2>1. PICK packet \in Messages : CanSend(net.conn) /\ Sent(net.conn, packet)
    BY DEF Welcome, Refuse, Answer, Messages, TypeInv, NetTyped, Selects, Serving
  <2> QED BY <2>1, SentType DEF TypeInv
<1>3. NetTyped' /\ FoundOK'
  <2>1. CASE net' = Selects
    BY <2>1 DEF NetTyped, FoundOK, Selects
  <2>2. CASE net.at \in Serving /\ NetGoto("tasks")
    BY <2>2, NetGotoType DEF TypeInv, FoundOK, Serving
  <2> QED BY <2>1, <2>2 DEF Welcome, Refuse, Answer, Serving
<1> QED
  BY <1>1, <1>2, <1>3 DEF TypeInv, ChkTyped, GuiTyped, UsersTyped, WiresTyped

\* The user the network thread has found is one of the list.
LEMMA TargetType ==
    ASSUME TypeInv, net.at = "lock"
    PROVE  Target \in Names /\ Target \in Range(order)
<1>1. Range(order) \subseteq Names
  BY DEF TypeInv, UsersTyped, Range
<1> QED
  BY <1>1, BoundType DEF TypeInv, FoundOK, Target, UsersTyped

\* The regions the network thread runs under the mutex keep the types.
LEMMA LockedType ==
    ASSUME TypeInv, Locked
    PROVE  TypeInv'
<1> DEFINE n == Target
<1>1. /\ UNCHANGED <<order, listLock, score, queue, event, chk, gui, wires>>
      /\ net.at = "lock"
  BY DEF Locked
<1>2. n \in Names
  BY <1>1, TargetType
<1>3. /\ net \in [at : Serving, conn : Conns,
                  packet : Packets \cup [kind : {"close"}]]
      /\ net.at \in Serving
  BY <1>1 DEF TypeInv, NetTyped, Serving, Selects
<1> HIDE DEF n
<1>4. /\ NetTyped' /\ FoundOK'
      /\ user' \in [Names -> [conn : Conns \cup {Null}, tasks : [Tasks -> Int],
                              solved : Nat, time : Int]]
      /\ userLock' \in [Names -> {Null, "net", "chk", "gui"}]
      /\ doubled' \subseteq Names
  <2>1. CASE /\ net.packet.kind = "login"
             /\ user' = [user EXCEPT ![n].conn = net.conn]
             /\ NetGoto("welcome")
             /\ UNCHANGED <<userLock, doubled>>
    <3>1. NetTyped' /\ net'.at = "welcome"
      BY <1>3, <2>1, NetGotoType DEF TypeInv, Serving
    <3> QED BY <1>3, <2>1, <3>1 DEF TypeInv, UsersTyped, FoundOK
  <2>2. CASE /\ userLock' = [userLock EXCEPT ![n] = "net"]
             /\ \E message \in {"disconnect", "task"} :
                   net' = [at |-> "answer", conn |-> net.conn, name |-> n,
                           message |-> message]
             /\ UNCHANGED <<user, doubled>>
    <3>1. NetTyped' /\ net'.at = "answer"
      BY <1>2, <1>3, <2>2 DEF NetTyped
    <3> QED BY <2>2, <3>1 DEF TypeInv, UsersTyped, FoundOK
  <2>3. CASE /\ net.packet.kind = "task"
             /\ net' = [at |-> "push",
                        job |-> [name |-> n, task |-> net.packet.task]]
             /\ doubled' \in {doubled, doubled \cup {n}}
             /\ UNCHANGED <<user, userLock>>
    <3>1. net.packet.task \in Tasks
      BY <1>3, <2>3 DEF Packets, Entries
    <3>2. NetTyped' /\ net'.at = "push"
      BY <1>2, <2>3, <3>1 DEF NetTyped, Submission
    <3> QED BY <1>2, <2>3, <3>2 DEF TypeInv, UsersTyped, FoundOK
  <2>4. CASE /\ Unbind(n)
             /\ NetGoto("delete")
             /\ UNCHANGED <<userLock, doubled>>
    <3>1. NetTyped' /\ net'.at = "delete"
      BY <1>3, <2>4, NetGotoType DEF TypeInv, Serving
    <3> QED BY <2>4, <3>1 DEF Unbind, TypeInv, UsersTyped, FoundOK
  <2> QED BY <2>1, <2>2, <2>3, <2>4 DEF Locked, n
<1> QED
  BY <1>1, <1>4 DEF TypeInv, ChkTyped, GuiTyped, UsersTyped, WiresTyped, wires

\* Deleting a client and pushing a submission keep the types.
LEMMA DeleteType ==
    ASSUME TypeInv, Delete \/ AddTask
    PROVE  TypeInv'
<1>1. CASE Delete
  <2>1. NetTyped' /\ net'.at = "select"
    BY <1>1 DEF Delete, NetTyped, Selects
  <2>2. link' \in [Conns -> {"none", "open", "shut", "deleted"}]
    BY <1>1 DEF Delete, TypeInv, WiresTyped
  <2> QED
    BY <1>1, <2>1, <2>2
    DEF Delete, TypeInv, ChkTyped, GuiTyped, UsersTyped, WiresTyped, FoundOK, users
<1>2. CASE AddTask
  <2>1. UNCHANGED <<users, chk, gui, wires>>
    BY <1>2 DEF AddTask
  <2>2. net \in [at : {"push", "signal"}, job : Submission]
    BY <1>2 DEF AddTask, TypeInv, NetTyped, Serving, Selects
  <2>3. NetTyped' /\ net'.at \in {"signal", "select"}
    BY <1>2, <2>2 DEF AddTask, NetGoto, NetTyped, Selects
  <2>4. queue' \in Seq(Submission) /\ event' \in BOOLEAN
    <3>1. net.job \in Submission
      BY <2>2
    <3>2. Append(queue, net.job) \in Seq(Submission)
      BY <3>1 DEF TypeInv, UsersTyped
    <3> QED BY <1>2, <3>2 DEF AddTask, TypeInv, UsersTyped
  <2> QED
    BY <2>1, <2>3, <2>4
    DEF TypeInv, ChkTyped, GuiTyped, UsersTyped, WiresTyped, FoundOK, users, wires
<1> QED BY <1>1, <1>2

\* The network thread keeps the types.
LEMMA NetworkType == TypeInv /\ Network => TypeInv'
  BY AcceptType, ReceiveType, HangupType, FindType, AddUserType, SortAfterAddType,
     NetSendType, LockedType, DeleteType DEF Network

\* The checker's thread, which writes a user's score.
LEMMA ScoreType ==
    ASSUME TypeInv, Check \/ CountSolved
    PROVE  /\ user' \in [Names -> [conn : Conns \cup {Null}, tasks : [Tasks -> Int],
                                   solved : Nat, time : Int]]
           /\ score' \in [Names -> [Tasks -> [fails : Nat, ok : BOOLEAN]]]
           /\ \A n \in Names : user'[n].conn = user[n].conn
           /\ ChkTyped' /\ chk'.at \in {"solved", "reply"} /\ chk'.job = chk.job
<1> DEFINE n == chk.job.name
           t == chk.job.task
<1>1. /\ chk \in [at : {"lock", "check", "solved"}, job : Submission]
      /\ n \in Names /\ t \in Tasks
  BY DEF Check, CountSolved, TypeInv, ChkTyped, Submission
<1>2. /\ user[n] \in [conn : Conns \cup {Null}, tasks : [Tasks -> Int],
                      solved : Nat, time : Int]
      /\ user[n].tasks[t] \in Int
      /\ score[n][t] \in [fails : Nat, ok : BOOLEAN]
  BY <1>1 DEF TypeInv, UsersTyped
<1>3. ChkTyped' /\ chk'.at \in {"solved", "reply"} /\ chk'.job = chk.job
  <2>1. CASE chk' = [chk EXCEPT !.at = "solved"]
    BY <1>1, <2>1 DEF ChkTyped
  <2>2. CASE \E b \in BOOLEAN : chk' = [at |-> "reply", job |-> chk.job, sort |-> b]
    BY <1>1, <2>2 DEF ChkTyped
  <2> QED BY <2>1, <2>2 DEF Check, CountSolved, ChkGoto
<1> HIDE DEF n, t
<1>4. CASE user' = Solved(n, t) /\ score' = [score EXCEPT ![n][t].ok = TRUE]
  <2>1. (1 - user[n].tasks[t]) \in Int
        /\ user[n].time + ((1 - user[n].tasks[t]) - 1) * 20 \in Int
    BY <1>2
  <2> QED BY <1>1, <1>2, <1>3, <1>4, <2>1 DEF Solved, TypeInv, UsersTyped
<1>5. CASE /\ user' = [user EXCEPT ![n].tasks[t] = @ - 1]
           /\ score' = [score EXCEPT ![n][t].fails = @ + 1]
  <2>1. user[n].tasks[t] - 1 \in Int /\ score[n][t].fails + 1 \in Nat
    BY <1>2
  <2> QED BY <1>1, <1>2, <1>3, <1>5, <2>1 DEF TypeInv, UsersTyped
<1>6. CASE UNCHANGED <<user, score>>
  BY <1>3, <1>6 DEF TypeInv, UsersTyped
<1>7. CASE user' = [user EXCEPT ![n].solved = @ + 1] /\ UNCHANGED score
  <2>1. user[n].solved + 1 \in Nat
    BY <1>2
  <2> QED BY <1>1, <1>2, <1>3, <1>7, <2>1 DEF TypeInv, UsersTyped
<1> QED BY <1>4, <1>5, <1>6, <1>7 DEF Check, CountSolved, n, t

\* The checking thread keeps the types.
LEMMA CheckerType == TypeInv /\ Checker => TypeInv'
<1> SUFFICES ASSUME TypeInv, Checker PROVE TypeInv'
  OBVIOUS
<1> USE DEF TypeInv, NetTyped, GuiTyped, UsersTyped, WiresTyped, FoundOK, Bound
<1>1. CASE WaitForTasks
  <2>1. ChkTyped'
    BY <1>1 DEF WaitForTasks, ChkGoto, ChkTyped
  <2> QED BY <1>1, <2>1 DEF WaitForTasks, users, wires
<1>2. CASE TakeTask
  <2>1. queue # <<>> => Head(queue) \in Submission /\ Tail(queue) \in Seq(Submission)
    OBVIOUS
  <2>2. ChkTyped' /\ queue' \in Seq(Submission)
    <3> HIDE DEF NetTyped, GuiTyped, WiresTyped, FoundOK, Bound
    <3>0. queue \in Seq(Submission) /\ chk.at = "drain"
      BY <1>2 DEF TakeTask
    <3>1. CASE queue = <<>>
      <4>1. chk' = [chk EXCEPT !.at = "wait"] /\ queue' = queue
        BY <1>2, <3>1 DEF TakeTask, ChkGoto
      <4>2. chk \in [at : {"wait", "drain", "sort"}]
        BY <3>0 DEF ChkTyped
      <4> HIDE DEF TypeInv, UsersTyped
      <4> QED BY <3>0, <4>1, <4>2 DEF ChkTyped
    <3>2. CASE queue # <<>>
      <4>1. chk' = [at |-> "lock", job |-> Head(queue)] /\ queue' = Tail(queue)
        BY <1>2, <3>2 DEF TakeTask
      <4> HIDE DEF TypeInv, UsersTyped
      <4> QED BY <2>1, <3>2, <4>1 DEF ChkTyped
    <3> QED BY <3>1, <3>2
  <2> QED BY <1>2, <2>2 DEF TakeTask, users, wires
<1>3. CASE LockUser
  <2>1. ChkTyped'
    BY <1>3 DEF LockUser, ChkGoto, ChkTyped
  <2>2. userLock' \in [Names -> {Null, "net", "chk", "gui"}]
    BY <1>3 DEF LockUser
  <2> QED BY <1>3, <2>1, <2>2 DEF LockUser, wires
<1>4. CASE Check \/ CountSolved
  <2>1. /\ user' \in [Names -> [conn : Conns \cup {Null}, tasks : [Tasks -> Int],
                                solved : Nat, time : Int]]
        /\ score' \in [Names -> [Tasks -> [fails : Nat, ok : BOOLEAN]]]
        /\ \A n \in Names : user'[n].conn = user[n].conn
        /\ ChkTyped'
    BY <1>4, ScoreType
  <2>2. UNCHANGED <<order, listLock, userLock, doubled, queue, event, net, gui, wires>>
    BY <1>4 DEF Check, CountSolved
  <2>3. \A c : Bound(c)' = Bound(c)
    <3>1. \A i \in DOMAIN order : order[i] \in Names
      OBVIOUS
    <3> HIDE DEF TypeInv, NetTyped, GuiTyped, UsersTyped, WiresTyped, FoundOK
    <3>2. order' = order /\ \A i \in DOMAIN order : user'[order[i]].conn = user[order[i]].conn
      BY <2>1, <2>2, <3>1
    <3> QED BY <3>2
  <2> QED BY <2>1, <2>2, <2>3 DEF wires
<1>5. CASE Reply
  <2>1. ChkTyped'
    BY <1>5 DEF Reply, AfterReply, ChkTyped
  <2>2. /\ inbox' \in [Conns -> Seq(Messages)]
        /\ \A c \in Conns : Len(inbox'[c]) <= Capacity
    <3>1. "task" \in Messages
      BY DEF Messages
    <3> QED BY <1>5, <3>1, SentType DEF Reply
  <2>3. userLock' \in [Names -> {Null, "net", "chk", "gui"}]
    BY <1>5 DEF Reply
  <2> QED BY <1>5, <2>1, <2>2, <2>3 DEF Reply
<1>6. CASE SortSolved
  <2>1. ChkTyped'
    BY <1>6 DEF SortSolved, ChkGoto, ChkTyped
  <2>2. /\ order' \in Seq(Names) /\ IsInjective(order')
        /\ Range(order') = Range(order) /\ GuiTyped'
        /\ \A c : Bound(c) # {} => Bound(c)' # {}
    <3> USE DEF SortSolved
    <3> HIDE DEF TypeInv, NetTyped, GuiTyped, UsersTyped, WiresTyped, FoundOK, Bound
    <3> QED BY <1>6, SortType
  <2>3. FoundOK'
    <3> HIDE DEF Bound
    <3> QED BY <1>6, <2>2 DEF SortSolved
  <2> QED BY <1>6, <2>1, <2>2, <2>3 DEF SortSolved, wires
<1> QED BY <1>1, <1>2, <1>3, <1>4, <1>5, <1>6 DEF Checker

\* The window's refresh keeps the types.
LEMMA WindowType == TypeInv /\ Window => TypeInv'
<1> SUFFICES ASSUME TypeInv, Window PROVE TypeInv'
  OBVIOUS
<1>1. UNCHANGED <<order, user, score, doubled, queue, event, net, chk, link, toServer,
                  client>>
  BY DEF Window, StartPass, CopyRow, LockReceiver, SendMonitor, EndPass, users, wires
<1>2. userLock' \in [Names -> {Null, "net", "chk", "gui"}]
  BY DEF Window, StartPass, CopyRow, LockReceiver, SendMonitor, EndPass, users,
         TypeInv, UsersTyped
<1>3. /\ inbox' \in [Conns -> Seq(Messages)]
      /\ \A c \in Conns : Len(inbox'[c]) <= Capacity
  <2>1. CASE SendMonitor
    <3>1. "monitor" \in Messages
      BY DEF Messages
    <3> QED BY <2>1, <3>1, SentType DEF SendMonitor, TypeInv
  <2>2. CASE UNCHANGED inbox
    BY <2>2 DEF TypeInv, WiresTyped
  <2> QED BY <2>1, <2>2
          DEF Window, StartPass, CopyRow, LockReceiver, EndPass, wires
<1>4. GuiTyped'
  <2>0. order \in Seq(Names) /\ Len(order) \in Nat /\ ServerAssumption
    BY ServerAssumption DEF TypeInv, UsersTyped
  <2>1. CASE StartPass
    BY <1>1, <2>0, <2>1 DEF StartPass, GuiTyped, Passes
  <2>2. gui.at \in {"rows", "send"} =>
            /\ gui \in Passes
            /\ listLock = "gui" /\ gui.n = Len(order)
            /\ Len(gui.rows) = IF gui.i <= gui.n THEN gui.i - 1 ELSE gui.n
            /\ gui.at = "send" => gui.i - gui.n \in 1..gui.n
    BY DEF TypeInv, GuiTyped, Passes
  <2>3. CASE CopyRow
    <3> DEFINE row == [name |-> order[gui.i], tasks |-> user[order[gui.i]].tasks,
                       solved |-> user[order[gui.i]].solved]
    <3>0. /\ gui \in Passes /\ gui.n = Len(order) /\ listLock = "gui"
          /\ gui.i <= gui.n /\ gui.at = "rows" /\ Len(gui.rows) = gui.i - 1
      BY <2>2, <2>3 DEF CopyRow
    <3>1. row \in RowType
      <4>1. gui.i \in 1..Len(order)
        BY <2>0, <3>0 DEF Passes
      <4>2. order[gui.i] \in Names
        BY <2>0, <4>1
      <4> QED BY <4>2 DEF TypeInv, UsersTyped, RowType
    <3>2. /\ gui' = [gui EXCEPT !.i = @ + 1, !.rows = Append(@, row)]
          /\ listLock' = listLock
      BY <2>3 DEF CopyRow, users
    <3> HIDE DEF row
    <3>3. /\ gui.i + 1 \in Nat \ {0} /\ Append(gui.rows, row) \in Seq(RowType)
          /\ Len(Append(gui.rows, row)) = gui.i
      BY <3>0, <3>1 DEF Passes
    <3>4. /\ gui' \in Passes /\ gui'.at = "rows" /\ gui'.i = gui.i + 1
          /\ gui'.n = gui.n /\ gui'.rows = Append(gui.rows, row)
      BY <3>0, <3>2, <3>3 DEF Passes
    <3>5. gui.i \in Nat /\ gui.n \in Nat
      BY <3>0 DEF Passes
    <3> QED BY <1>1, <3>0, <3>2, <3>3, <3>4, <3>5 DEF GuiTyped
  <2>4. CASE LockReceiver
    <3>0. /\ gui \in Passes /\ gui.n = Len(order) /\ listLock' = "gui"
          /\ gui.i > gui.n /\ gui.at = "rows" /\ Len(gui.rows) = gui.n
          /\ gui.i - gui.n \in 1..gui.n
      BY <2>0, <2>2, <2>4 DEF LockReceiver, Passes
    <3>1. gui' = [gui EXCEPT !.i = @ + 1] \/ gui' = [gui EXCEPT !.at = "send"]
      BY <2>4 DEF LockReceiver
    <3>2. gui.i + 1 \in Nat \ {0} /\ gui.i \in Nat /\ gui.n \in Nat
      BY <3>0 DEF Passes
    <3>3. CASE gui' = [gui EXCEPT !.i = @ + 1]
      <4>1. /\ gui' \in Passes /\ gui'.at = "rows" /\ gui'.i = gui.i + 1
            /\ gui'.n = gui.n /\ gui'.rows = gui.rows
        BY <3>0, <3>2, <3>3 DEF Passes
      <4> QED BY <1>1, <3>0, <3>2, <4>1 DEF GuiTyped
    <3>4. CASE gui' = [gui EXCEPT !.at = "send"]
      <4>1. /\ gui' \in Passes /\ gui'.at = "send" /\ gui'.i = gui.i
            /\ gui'.n = gui.n /\ gui'.rows = gui.rows
        BY <3>0, <3>2, <3>4 DEF Passes
      <4> QED BY <1>1, <3>0, <3>2, <4>1 DEF GuiTyped
    <3> QED BY <3>1, <3>3, <3>4
  <2>5. CASE SendMonitor
    <3>0. /\ gui \in Passes /\ gui.n = Len(order) /\ listLock' = "gui"
          /\ Len(gui.rows) = IF gui.i <= gui.n THEN gui.i - 1 ELSE gui.n
          /\ gui.i - gui.n \in 1..gui.n
      BY <2>2, <2>5 DEF SendMonitor
    <3>1. gui' = [gui EXCEPT !.at = "rows", !.i = @ + 1]
      BY <2>5 DEF SendMonitor
    <3>2. gui.i + 1 \in Nat \ {0} /\ gui.i \in Nat /\ gui.n \in Nat
      BY <3>0 DEF Passes
    <3>3. /\ gui' \in Passes /\ gui'.at = "rows" /\ gui'.i = gui.i + 1
          /\ gui'.n = gui.n /\ gui'.rows = gui.rows
      BY <3>0, <3>1, <3>2 DEF Passes
    <3> QED BY <1>1, <3>0, <3>2, <3>3 DEF GuiTyped
  <2>6. CASE EndPass
    BY <2>0, <2>6 DEF EndPass, GuiTyped
  <2> QED BY <2>1, <2>3, <2>4, <2>5, <2>6 DEF Window
<1> QED
  BY <1>1, <1>2, <1>3, <1>4
  DEF TypeInv, NetTyped, ChkTyped, UsersTyped, WiresTyped, FoundOK, Bound

\* What the clients send, and their leaving, keep the types.
LEMMA ClientType ==
    ASSUME TypeInv, NEW c \in Conns,
           \/ Client(c) \/ Quit(c)
           \/ \E n \in Names : Enter(c, n)
           \/ \E t \in Tasks : PressSend(c, t)
    PROVE  TypeInv'
<1>1. UNCHANGED <<users, queue, event, net, chk, gui>>
  BY DEF Client, Read, Confirm, Quit, Enter, PressSend
<1>2. WiresTyped'
  <2> USE DEF TypeInv, WiresTyped, Messages
  <2>1. CASE Read(c)
    <3>1. inbox[c] \in Seq(Messages) /\ inbox[c] # <<>> /\ Len(inbox[c]) <= Capacity
      BY <2>1 DEF Read
    <3>2. /\ Head(inbox[c]) \in Messages /\ Tail(inbox[c]) \in Seq(Messages)
          /\ Len(Tail(inbox[c])) <= Capacity
      BY <3>1, ServerAssumption
    <3>3. /\ inbox' \in [Conns -> Seq(Messages)]
          /\ \A d \in Conns : Len(inbox'[d]) <= Capacity
      BY <2>1, <3>2 DEF Read
    <3>4. client' \in [Conns -> [at : {"none", "dialog", "entered", "sent", "gone"},
                                 send : BOOLEAN, box : Messages \cup {"none"}]]
      BY <2>1, <3>2 DEF Read
    <3> QED BY <2>1, <3>3, <3>4 DEF Read
  <2>2. CASE Leave(c) /\ UNCHANGED toServer
    BY <2>2, ServerAssumption DEF Leave
  <2>3. CASE Confirm(c) /\ ~Leave(c)
    BY <2>3 DEF Confirm
  <2>4. ASSUME NEW n \in Names, Enter(c, n)
        PROVE  WiresTyped'
    <3>1. PICK p \in Entries : toServer' = [toServer EXCEPT ![c] = Append(@, p)]
      BY <2>4 DEF Enter, Entries
    <3>2. Append(toServer[c], p) \in Seq(Packets)
      BY DEF Packets
    <3> QED BY <2>4, <3>1, <3>2 DEF Enter
  <2>5. ASSUME NEW t \in Tasks, PressSend(c, t)
        PROVE  WiresTyped'
    <3>1. toServer[c] \in Seq(Packets) /\ [kind |-> "task", task |-> t] \in Packets
      BY DEF Packets
    <3>2. Append(toServer[c], [kind |-> "task", task |-> t]) \in Seq(Packets)
      BY <3>1
    <3>3. toServer' \in [Conns -> Seq(Packets)]
      BY <2>5, <3>2 DEF PressSend
    <3>4. client' \in [Conns -> [at : {"none", "dialog", "entered", "sent", "gone"},
                                 send : BOOLEAN, box : Messages \cup {"none"}]]
      <4>1. client' = [client EXCEPT ![c].send = FALSE, ![c].at = "sent"]
        BY <2>5 DEF PressSend
      <4> HIDE DEF TypeInv
      <4>2. client \in [Conns -> [at : {"none", "dialog", "entered", "sent", "gone"},
                                 send : BOOLEAN, box : Messages \cup {"none"}]]
        BY DEF TypeInv
      <4> HIDE DEF WiresTyped, Messages
      <4> QED BY <4>1, <4>2
    <3> QED BY <2>5, <3>3, <3>4 DEF PressSend
  <2> QED BY <2>1, <2>2, <2>3, <2>4, <2>5 DEF Client, Confirm, Quit
<1> QED
  BY <1>1, <1>2
  DEF TypeInv, NetTyped, ChkTyped, GuiTyped, UsersTyped, FoundOK, Bound, users

\* Every step keeps the types.
LEMMA TypeStep == TypeInv /\ [Next]_vars => TypeInv'
<1> SUFFICES ASSUME TypeInv, [Next]_vars PROVE TypeInv'
  OBVIOUS
<1>1. CASE UNCHANGED vars
  BY <1>1 DEF vars, users, wires, TypeInv, NetTyped, ChkTyped, GuiTyped, UsersTyped,
              WiresTyped, FoundOK, Bound
<1>2. CASE Next
  BY <1>2, NetworkType, CheckerType, WindowType, ClientType DEF Next
<1> QED BY <1>1, <1>2

\* Type correctness of the server and its clients: threads, users, locks and
\* connections keep their types, no name is in the list twice and no connection
\* ever holds more than its capacity towards the client, whoever sends.
THEOREM ServerTyped == Spec => []TypeOK
<1>1. TypeInv => TypeOK
  BY DEF TypeInv, GuiTyped, UsersTyped, WiresTyped, TypeOK
<1> QED BY <1>1, TypeInit, TypeStep, PTL DEF Spec
-----------------------------------------------------------------------------
-----------------------------------------------------------------------------
(* Then how connections, clients and users belong together.                 *)

\* Only task packets are on their way: a client has entered a name once.
OnlyTasks(c) == \A i \in DOMAIN toServer[c] : toServer[c][i].kind = "task"

\* What the server knows of a connection agrees with what its client is at.
LinkOK ==
    \A c \in Conns :
        /\ link[c] = "none" <=> client[c].at = "none"
        /\ link[c] = "open" <=> client[c].at \in {"dialog", "entered", "sent"}
        /\ client[c].send \/ client[c].box # "none" =>
              client[c].at \in {"entered", "sent"}
        /\ client[c].at \in {"none", "dialog"} \/ link[c] = "deleted" =>
              toServer[c] = <<>>
        /\ \A i \in DOMAIN toServer[c] : toServer[c][i].kind # "task" => i = 1

\* A connection whose name was received: its client is past the dialog and is
\* not deleted, and it does not enter a name again.
Past(c) ==
    link[c] \in {"open", "shut"} /\ client[c].at # "dialog" /\ OnlyTasks(c)

ServedOK ==
    net.at \in Serving =>
        /\ Past(net.conn)
        /\ net.packet.kind = "close" =>
              link[net.conn] = "shut" /\ toServer[net.conn] = <<>>

\* Connections belong to different users of the list, and none to a user while
\* its name is looked for or once it is about to be deleted.
BoundOK ==
    /\ \A n \in Names, c \in Conns :
          user[n].conn = c => n \in Range(order) /\ Past(c)
    /\ \A m, n \in Names :
          user[m].conn = user[n].conn /\ user[m].conn # Null => m = n
    /\ \/ net.at \in {"find", "add", "lock"} /\ net.packet.kind \in {"register", "login"}
       \/ net.at = "delete"
       => \A n \in Names : user[n].conn # net.conn
    /\ net.at = "delete" => net.packet.kind = "close"

LinkInv == TypeInv /\ LinkOK /\ ServedOK /\ BoundOK

\* Before the first connection no client is linked to anything.
LEMMA LinkInit == Init => LinkInv
<1> SUFFICES ASSUME Init PROVE LinkInv
  OBVIOUS
<1>1. TypeInv
  BY TypeInit
<1>2. LinkOK
  BY DEF Init, LinkOK
<1>3. ServedOK /\ BoundOK
  BY ServerAssumption DEF Init, ServedOK, BoundOK, Selects, NewUser, Serving
<1> QED BY <1>1, <1>2, <1>3 DEF LinkInv

\* The name or the closing of a connection that no user has.
Unowned ==
    \/ net.at \in {"find", "add", "lock"} /\ net.packet.kind \in {"register", "login"}
    \/ net.at = "delete"

\* A step that leaves connections, clients and users as they are: the network
\* thread goes on with its packet, or is done with it.
LEMMA LinkKeeps ==
    ASSUME LinkInv, TypeInv', UNCHANGED <<link, toServer, client>>,
           Range(order') = Range(order),
           \A n \in Names : user'[n].conn = user[n].conn,
           \/ UNCHANGED net
           \/ net'.at \notin Serving
           \/ /\ net.at \in Serving
              /\ net'.conn = net.conn /\ net'.packet = net.packet,
           Unowned' => \A n \in Names : user[n].conn # net'.conn,
           net'.at = "delete" => net'.packet.kind = "close"
    PROVE  LinkInv'
<1>1. LinkOK'
  BY DEF LinkInv, LinkOK
<1>2. \A c : Past(c) <=> Past(c)'
  BY DEF Past, OnlyTasks
<1>3. ServedOK'
  BY <1>2 DEF LinkInv, ServedOK
<1>4. BoundOK'
  BY <1>2 DEF LinkInv, BoundOK, Unowned
<1> QED BY <1>1, <1>3, <1>4 DEF LinkInv

\* A step of a client, or of the wires below the threads: what is past stays so.
LEMMA WireKeeps ==
    ASSUME LinkInv, TypeInv', LinkOK', UNCHANGED <<order, user, net>>,
           \A c \in Conns : Past(c) => Past(c)',
           net.at \in Serving /\ net.packet.kind = "close" =>
               link'[net.conn] = "shut" /\ toServer'[net.conn] = <<>>
    PROVE  LinkInv'
<1>1. net.at \in Serving => net.conn \in Conns
  BY DEF LinkInv, TypeInv, NetTyped, Serving, Selects
<1>2. ServedOK'
  BY <1>1 DEF LinkInv, ServedOK
<1>3. \A n \in Names : user[n].conn # Null => user[n].conn \in Conns
  BY DEF LinkInv, TypeInv, UsersTyped
<1>4. BoundOK'
  BY <1>3 DEF LinkInv, BoundOK
<1> QED BY <1>2, <1>4 DEF LinkInv

\* An accepted connection is new to the server: no user of the list has it.
LEMMA AcceptLink ==
    ASSUME LinkInv, NEW c \in Conns, Accept(c)
    PROVE  LinkInv'
<1>1. TypeInv'
  BY AcceptType DEF LinkInv
<1>2. /\ link' = [link EXCEPT ![c] = "open"] /\ client' = [client EXCEPT ![c].at = "dialog"]
      /\ UNCHANGED <<order, user, net, toServer>>
      /\ net.at = "select" /\ link[c] = "none"
  BY DEF Accept, users
<1>3. \A d \in Conns : d # c => link'[d] = link[d] /\ client'[d] = client[d]
  BY <1>2 DEF LinkInv, TypeInv, WiresTyped
<1>4. /\ link'[c] = "open" /\ client'[c].at = "dialog"
      /\ client'[c].send = client[c].send /\ client'[c].box = client[c].box
  BY <1>2 DEF LinkInv, TypeInv, WiresTyped
<1>5. /\ client[c].at = "none" /\ toServer[c] = <<>>
      /\ ~client[c].send /\ client[c].box = "none"
  BY <1>2 DEF LinkInv, LinkOK, TypeInv, WiresTyped
<1>6. LinkOK'
  BY <1>2, <1>3, <1>4, <1>5 DEF LinkInv, LinkOK
<1>7. \A d \in Conns : Past(d) => Past(d)'
  BY <1>2, <1>3 DEF Past, OnlyTasks
<1>8. net.at \notin Serving
  BY <1>2 DEF Serving
<1> QED BY <1>1, <1>2, <1>6, <1>7, <1>8, WireKeeps

\* A packet is received from a connection that is not deleted, and enters a
\* name once.
LEMMA ReceiveLink ==
    ASSUME LinkInv, NEW c \in Conns, Receive(c)
    PROVE  LinkInv'
<1> DEFINE p == Head(toServer[c])
<1>1. TypeInv'
  BY ReceiveType DEF LinkInv
<1>2. /\ net' = [at |-> "find", conn |-> c, packet |-> p]
      /\ toServer' = [toServer EXCEPT ![c] = Tail(@)]
      /\ UNCHANGED <<order, user, link, client>>
  BY DEF Receive, users
<1>3. toServer[c] \in Seq(Packets) /\ toServer[c] # <<>>
  BY DEF Receive, LinkInv, TypeInv, WiresTyped
<1>4. p = toServer[c][1] /\ p \in Packets /\ 1 \in DOMAIN toServer[c]
  BY <1>3
<1>5. \A i \in DOMAIN Tail(toServer[c]) :
          i + 1 \in DOMAIN toServer[c] /\ Tail(toServer[c])[i] = toServer[c][i + 1]
          /\ i + 1 # 1
  BY <1>3
<1>6. /\ toServer'[c] = Tail(toServer[c])
      /\ \A d \in Conns : d # c => toServer'[d] = toServer[d]
  BY <1>2 DEF LinkInv, TypeInv, WiresTyped
<1>7. \A i \in DOMAIN toServer'[c] : toServer'[c][i].kind = "task"
  BY <1>5, <1>6 DEF LinkInv, LinkOK
<1>8. /\ client[c].at \notin {"none", "dialog"} /\ link[c] \in {"open", "shut"}
  BY <1>3 DEF LinkInv, LinkOK, TypeInv, WiresTyped
<1>9. LinkOK'
  BY <1>2, <1>6, <1>7, <1>8 DEF LinkInv, LinkOK
<1>10. Past(c)' /\ \A d \in Conns : Past(d) => Past(d)'
  BY <1>2, <1>6, <1>7, <1>8 DEF Past, OnlyTasks
<1>11. net'.at = "find" /\ net'.conn = c /\ net'.packet = p
  BY <1>2
<1>12. p.kind # "close"
  BY <1>4 DEF Packets, Entries
<1>13. ServedOK'
  BY <1>10, <1>11, <1>12 DEF ServedOK
<1>14. p.kind # "task" => \A n \in Names : user[n].conn # c
  <2> SUFFICES ASSUME NEW n \in Names, user[n].conn = c
               PROVE  p.kind = "task"
    OBVIOUS
  <2>1. Past(c)
    BY ServerAssumption DEF LinkInv, BoundOK
  <2> QED BY <1>4, <2>1 DEF Past, OnlyTasks
<1>15. BoundOK'
  <2>1. \A n \in Names, d \in Conns :
            user'[n].conn = d => n \in Range(order)' /\ Past(d)'
    BY <1>2, <1>10 DEF LinkInv, BoundOK
  <2>2. \A m, n \in Names :
            user'[m].conn = user'[n].conn /\ user'[m].conn # Null => m = n
    BY <1>2 DEF LinkInv, BoundOK
  <2> QED BY <1>2, <1>11, <1>14, <2>1, <2>2, <1>4 DEF BoundOK, Packets, Entries
<1> QED BY <1>1, <1>9, <1>13, <1>15 DEF LinkInv

\* A lost connection is looked up after everything it had sent was served.
LEMMA HangupLink ==
    ASSUME LinkInv, NEW c \in Conns, Hangup(c)
    PROVE  LinkInv'
<1>1. TypeInv'
  BY HangupType DEF LinkInv
<1>2. /\ net' = [at |-> "find", conn |-> c, packet |-> [kind |-> "close"]]
      /\ UNCHANGED <<order, user, link, client, toServer>>
      /\ link[c] = "shut" /\ toServer[c] = <<>>
  BY DEF Hangup, users, wires
<1>3. LinkOK' /\ \A d : Past(d)' <=> Past(d)
  BY <1>2 DEF LinkInv, LinkOK, Past, OnlyTasks
<1>4. net'.at = "find" /\ net'.conn = c /\ net'.packet.kind = "close"
  BY <1>2
<1>5. Past(c)
  BY <1>2 DEF LinkInv, LinkOK, Past, OnlyTasks
<1>6. ServedOK'
  BY <1>2, <1>3, <1>4, <1>5 DEF ServedOK
<1>7. BoundOK'
  BY <1>2, <1>3, <1>4 DEF LinkInv, BoundOK
<1> QED BY <1>1, <1>3, <1>6, <1>7 DEF LinkInv

\* A connection reaches the deletion only if no user has it.
LEMMA FindLink ==
    ASSUME LinkInv, Find
    PROVE  LinkInv'
<1>1. TypeInv'
  BY FindType DEF LinkInv
<1>2. UNCHANGED <<order, user, link, client, toServer>> /\ net.at = "find"
  BY DEF Find, users, wires
<1>3. /\ net \in [at : Serving, conn : Conns,
                  packet : Packets \cup [kind : {"close"}]]
      /\ net.at \in Serving
  BY <1>2 DEF LinkInv, TypeInv, NetTyped, Serving, Selects
<1>4. net.packet.kind \in {"register", "login", "task", "close"}
  BY <1>3 DEF Packets, Entries
<1>5. \/ net' = Selects
      \/ \E place \in {"refuse", "lock", "add", "delete"} :
            /\ NetGoto(place)
            /\ place = "add" => net.packet.kind = "register"
            /\ place = "delete" => net.packet.kind = "close" /\ Bound(net.conn) = {}
  BY <1>4 DEF Find, Known
<1>6. CASE net' = Selects
  BY <1>1, <1>2, <1>6, LinkKeeps DEF Unowned, Selects, Serving
<1>7. ASSUME NEW place \in {"refuse", "lock", "add", "delete"}, NetGoto(place),
             place = "add" => net.packet.kind = "register",
             place = "delete" => net.packet.kind = "close" /\ Bound(net.conn) = {}
      PROVE  LinkInv'
  <2>1. net'.at = place /\ net'.conn = net.conn /\ net'.packet = net.packet
    BY <1>3, <1>7 DEF NetGoto
  <2>2. ASSUME Unowned', NEW n \in Names, user[n].conn = net.conn
        PROVE  FALSE
    <3>1. n \in Range(order)
      BY <1>3, <2>2, ServerAssumption DEF LinkInv, BoundOK
    <3>2. PICK i \in DOMAIN order : order[i] = n
      BY <3>1 DEF Range
    <3>3. i \in Bound(net.conn)
      BY <2>2, <3>2 DEF Bound
    <3>4. place # "delete"
      BY <1>7, <3>3
    <3>5. net.packet.kind \in {"register", "login"}
      BY <2>1, <2>2, <3>4 DEF Unowned
    <3> QED BY <1>2, <2>2, <3>5 DEF LinkInv, BoundOK
  <2> QED BY <1>1, <1>2, <1>3, <1>7, <2>1, <2>2, LinkKeeps
<1> QED BY <1>5, <1>6, <1>7

\* The user appended to the list gets a connection that no other user has.
LEMMA AddUserLink ==
    ASSUME LinkInv, AddUser
    PROVE  LinkInv'
<1> DEFINE n == net.packet.name
           c == net.conn
<1>1. TypeInv'
  BY AddUserType DEF LinkInv
<1>2. /\ UNCHANGED <<link, client, toServer>> /\ net.at = "add"
      /\ order' = Append(order, n)
      /\ user' = [user EXCEPT ![n].conn = c]
      /\ NetGoto("sort")
  BY DEF AddUser, wires
<1>3. /\ net \in [at : Serving, conn : Conns,
                  packet : Packets \cup [kind : {"close"}]]
      /\ net.at \in Serving /\ c \in Conns
      /\ net.packet.kind = "register" /\ n \in Names /\ n \notin Range(order)
  BY <1>2 DEF LinkInv, TypeInv, NetTyped, FoundOK, Serving, Selects, Packets, Entries
<1>4. /\ net'.at = "sort" /\ net'.conn = c /\ net'.packet = net.packet
      /\ Past(c) /\ \A m \in Names : user[m].conn # c
  BY <1>2, <1>3 DEF NetGoto, LinkInv, ServedOK, BoundOK
<1>5. Range(order') = Range(order) \cup {n}
  <2>1. order \in Seq(Names)
    BY DEF LinkInv, TypeInv, UsersTyped
  <2>2. /\ DOMAIN order' = (DOMAIN order) \cup {Len(order) + 1}
        /\ order'[Len(order) + 1] = n
        /\ \A i \in DOMAIN order : order'[i] = order[i]
    BY <1>2, <1>3, <2>1
  <2> QED BY <2>2 DEF Range
<1>6. user'[n].conn = c /\ \A m \in Names : m # n => user'[m].conn = user[m].conn
  BY <1>2, <1>3 DEF LinkInv, TypeInv, UsersTyped
<1> HIDE DEF n, c
<1>7. LinkOK' /\ \A d : Past(d)' <=> Past(d)
  BY <1>2 DEF LinkInv, LinkOK, Past, OnlyTasks
<1>8. ServedOK'
  BY <1>2, <1>3, <1>4, <1>7 DEF ServedOK
<1>9. BoundOK'
  <2>1. \A m \in Names, d \in Conns :
            user'[m].conn = d => m \in Range(order)' /\ Past(d)'
    BY <1>4, <1>5, <1>6, <1>7 DEF LinkInv, BoundOK
  <2>2. \A k, m \in Names :
            user'[k].conn = user'[m].conn /\ user'[k].conn # Null => k = m
    BY <1>4, <1>6 DEF LinkInv, BoundOK
  <2> HIDE DEF Past
  <2> QED BY <1>4, <1>7, <2>1, <2>2 DEF BoundOK
<1> QED BY <1>1, <1>7, <1>8, <1>9 DEF LinkInv

\* Steps of the network thread after which it works on the same packet, or on
\* none, and the users keep their connections.
LEMMA NetSameLink ==
    ASSUME LinkInv, SortAfterAdd \/ Welcome \/ Refuse \/ Answer \/ AddTask
    PROVE  LinkInv'
<1>1. TypeInv'
  BY SortAfterAddType, NetSendType, DeleteType DEF LinkInv
<1>2. UNCHANGED <<link, client, toServer, user>>
  BY DEF SortAfterAdd, Welcome, Refuse, Answer, AddTask, users, wires
<1>3. Range(order') = Range(order)
  BY SortKeeps DEF SortAfterAdd, Welcome, Refuse, Answer, AddTask, users, wires,
                   LinkInv, TypeInv, UsersTyped
<1>4. \/ net' = Selects
      \/ NetGoto("signal") /\ net.at = "push"
      \/ \E place \in {"welcome", "tasks"} : NetGoto(place) /\ net.at \in Serving
  BY DEF SortAfterAdd, Welcome, Refuse, Answer, AddTask, Serving
<1>5. net'.at \notin {"find", "add", "lock", "delete"}
      /\ \/ net'.at \notin Serving
         \/ net.at \in Serving /\ net'.conn = net.conn /\ net'.packet = net.packet
  <2>1. CASE net' = Selects
    BY <2>1 DEF Selects, Serving
  <2>2. CASE NetGoto("signal") /\ net.at = "push"
    BY <2>2 DEF NetGoto, LinkInv, TypeInv, NetTyped, Serving, Selects
  <2>3. CASE \E place \in {"welcome", "tasks"} : NetGoto(place) /\ net.at \in Serving
    BY <2>3, NetGotoType DEF LinkInv, TypeInv, Serving
  <2> QED BY <1>4, <2>1, <2>2, <2>3
<1> QED BY <1>1, <1>2, <1>3, <1>5, LinkKeeps DEF Unowned

\* With the user locked, a login binds the connection to it, and a lost
\* connection is unbound before it is deleted.
LEMMA LockedLink ==
    ASSUME LinkInv, Locked
    PROVE  LinkInv'
<1> DEFINE n == Target
           c == net.conn
<1>1. TypeInv'
  BY LockedType DEF LinkInv
<1>2. UNCHANGED <<order, link, client, toServer>> /\ net.at = "lock"
  BY DEF Locked, wires
<1>3. n \in Names /\ n \in Range(order)
  BY <1>2, TargetType DEF LinkInv
<1>4. /\ net \in [at : Serving, conn : Conns,
                  packet : Packets \cup [kind : {"close"}]]
      /\ net.at \in Serving /\ c \in Conns /\ Past(c)
  BY <1>2 DEF LinkInv, TypeInv, NetTyped, Serving, Selects, ServedOK
<1>5. net.packet.kind = "close" => user[n].conn = c
  BY <1>2, BoundType DEF LinkInv, TypeInv, FoundOK, UsersTyped, Target
<1> HIDE DEF n, c
<1>6. LinkOK' /\ \A d : Past(d)' <=> Past(d)
  BY <1>2 DEF LinkInv, LinkOK, Past, OnlyTasks
<1>7. CASE UNCHANGED user /\ net'.at \notin Serving
  BY <1>1, <1>2, <1>7, LinkKeeps DEF Unowned, Serving
<1>8. CASE /\ net.packet.kind = "login"
           /\ user' = [user EXCEPT ![n].conn = c]
           /\ NetGoto("welcome")
  <2>1. net'.at = "welcome" /\ net'.conn = c /\ net'.packet = net.packet
    BY <1>4, <1>8 DEF NetGoto, c
  <2>2. \A m \in Names : user[m].conn # c
    BY <1>2, <1>8 DEF LinkInv, BoundOK, c
  <2>3. user'[n].conn = c /\ \A m \in Names : m # n => user'[m].conn = user[m].conn
    BY <1>3, <1>8 DEF LinkInv, TypeInv, UsersTyped
  <2>4. \A m \in Names, d \in Conns :
            user'[m].conn = d => m \in Range(order)' /\ Past(d)'
    BY <1>2, <1>3, <1>4, <1>6, <2>3 DEF LinkInv, BoundOK
  <2>5. \A k, m \in Names :
            user'[k].conn = user'[m].conn /\ user'[k].conn # Null => k = m
    BY <2>2, <2>3 DEF LinkInv, BoundOK
  <2>6. BoundOK'
    BY <2>1, <2>4, <2>5 DEF BoundOK
  <2>7. ServedOK'
    BY <1>2, <1>4, <1>6, <1>8, <2>1 DEF ServedOK, c
  <2> QED BY <1>1, <1>6, <2>6, <2>7 DEF LinkInv
<1>9. CASE net.packet.kind = "close" /\ Unbind(n) /\ NetGoto("delete")
  <2>1. net'.at = "delete" /\ net'.conn = c /\ net'.packet = net.packet
    BY <1>4, <1>9 DEF NetGoto, c
  <2>2. \A m \in Names : m # n => user[m].conn # c
    <3>1. c # Null
      BY <1>4, ServerAssumption
    <3> QED BY <1>3, <1>5, <1>9, <3>1 DEF LinkInv, BoundOK
  <2>3. user'[n].conn = Null /\ \A m \in Names : m # n => user'[m].conn = user[m].conn
    BY <1>3, <1>9 DEF Unbind, LinkInv, TypeInv, UsersTyped
  <2>4. \A m \in Names, d \in Conns :
            user'[m].conn = d => m \in Range(order)' /\ Past(d)'
    BY <1>2, <1>4, <1>6, <2>3, ServerAssumption DEF LinkInv, BoundOK
  <2>5. \A k, m \in Names :
            user'[k].conn = user'[m].conn /\ user'[k].conn # Null => k = m
    BY <2>3 DEF LinkInv, BoundOK
  <2>6. \A m \in Names : user'[m].conn # c
    BY <1>4, <2>2, <2>3, ServerAssumption
  <2>7. BoundOK'
    BY <1>9, <2>1, <2>4, <2>5, <2>6 DEF BoundOK
  <2>8. ServedOK'
    BY <1>2, <1>4, <1>6, <1>9, <2>1 DEF LinkInv, ServedOK, c
  <2> QED BY <1>1, <1>6, <2>7, <2>8 DEF LinkInv
<1> QED BY <1>7, <1>8, <1>9 DEF Locked, n, c, Serving

\* The connection that is deleted belongs to no user, so nothing refers to it
\* afterwards.
LEMMA DeleteLink ==
    ASSUME LinkInv, Delete
    PROVE  LinkInv'
<1> DEFINE c == net.conn
<1>1. TypeInv'
  BY DeleteType DEF LinkInv
<1>2. /\ UNCHANGED <<order, user, client, toServer>> /\ net.at = "delete"
      /\ link' = [link EXCEPT ![c] = "deleted"] /\ net' = Selects
  BY DEF Delete, users
<1>3. /\ c \in Conns /\ net.packet.kind = "close" /\ link[c] = "shut"
      /\ toServer[c] = <<>> /\ \A n \in Names : user[n].conn # c
  BY <1>2 DEF LinkInv, TypeInv, NetTyped, Serving, Selects, ServedOK, BoundOK
<1>4. link'[c] = "deleted" /\ \A d \in Conns : d # c => link'[d] = link[d]
  BY <1>2, <1>3 DEF LinkInv, TypeInv, WiresTyped
<1> HIDE DEF c
<1>5. LinkOK'
  BY <1>2, <1>3, <1>4 DEF LinkInv, LinkOK
<1>6. \A d \in Conns : d # c /\ Past(d) => Past(d)'
  BY <1>2, <1>4 DEF Past, OnlyTasks
<1>7. net'.at \notin Serving
  BY <1>2 DEF Selects, Serving
<1>8. ServedOK' /\ net'.at \notin {"find", "add", "lock", "delete"}
  BY <1>7 DEF ServedOK, Serving
<1>9. \A n \in Names, d \in Conns :
          user[n].conn = d => d # c /\ n \in Range(order) /\ Past(d)
  BY <1>3 DEF LinkInv, BoundOK
<1>10. \A n \in Names, d \in Conns :
           user'[n].conn = d => n \in Range(order)' /\ Past(d)'
  BY <1>2, <1>6, <1>9
<1>11. BoundOK'
  BY <1>2, <1>8, <1>10 DEF LinkInv, BoundOK
<1> QED BY <1>1, <1>5, <1>8, <1>11 DEF LinkInv

\* Every step of the network thread keeps the links right.
LEMMA NetworkLink == LinkInv /\ Network => LinkInv'
  BY AcceptLink, ReceiveLink, HangupLink, FindLink, AddUserLink, NetSameLink,
     LockedLink, DeleteLink DEF Network

\* The checker and the window's thread change neither connections nor owners.
LEMMA ThreadsLink ==
    ASSUME LinkInv, Checker \/ Window
    PROVE  LinkInv'
<1>1. TypeInv'
  BY CheckerType, WindowType DEF LinkInv
<1>2. UNCHANGED <<link, client, toServer, net>>
  BY DEF Checker, WaitForTasks, TakeTask, LockUser, Check, CountSolved, Reply,
         SortSolved, Window, StartPass, CopyRow, LockReceiver, SendMonitor,
         EndPass, wires
<1>3. \A n \in Names : user'[n].conn = user[n].conn
  BY ScoreType
  DEF Checker, WaitForTasks, TakeTask, LockUser, Reply, SortSolved, Window,
      StartPass, CopyRow, LockReceiver, SendMonitor, EndPass, users, LinkInv
<1>4. Range(order') = Range(order)
  BY SortKeeps
  DEF Checker, WaitForTasks, TakeTask, LockUser, Check, CountSolved, Reply,
      SortSolved, Window, StartPass, CopyRow, LockReceiver, SendMonitor, EndPass,
      users, LinkInv, TypeInv, UsersTyped
<1>5. /\ Unowned' => \A n \in Names : user[n].conn # net'.conn
      /\ net'.at = "delete" => net'.packet.kind = "close"
  BY <1>2 DEF Unowned, LinkInv, BoundOK
<1> QED BY <1>1, <1>2, <1>3, <1>4, <1>5, LinkKeeps

\* A contestant enters a name once, sends only after it, and leaves for good.
LEMMA ClientLink ==
    ASSUME LinkInv, NEW c \in Conns,
           \/ Client(c) \/ Quit(c)
           \/ \E n \in Names : Enter(c, n)
           \/ \E t \in Tasks : PressSend(c, t)
    PROVE  LinkInv'
<1>1. TypeInv'
  BY ClientType DEF LinkInv
<1>2. UNCHANGED <<order, user, net>>
  BY DEF Client, Read, Confirm, Quit, Enter, PressSend, users
<1>3. /\ link \in [Conns -> {"none", "open", "shut", "deleted"}]
      /\ toServer \in [Conns -> Seq(Packets)]
      /\ client \in [Conns -> [at : {"none", "dialog", "entered", "sent", "gone"},
                               send : BOOLEAN, box : Messages \cup {"none"}]]
  BY DEF LinkInv, TypeInv, WiresTyped
<1>4. LinkOK
  BY DEF LinkInv
<1>5. CASE Leave(c) /\ UNCHANGED toServer /\ client[c].at \in {"dialog", "entered", "sent"}
  <2>1. /\ link'[c] = "shut" /\ client'[c] = [at |-> "gone", send |-> FALSE, box |-> "none"]
        /\ \A d \in Conns : d # c => link'[d] = link[d] /\ client'[d] = client[d]
    BY <1>3, <1>5 DEF Leave
  <2>2. link[c] = "open"
    BY <1>4, <1>5 DEF LinkOK
  <2>3. LinkOK'
    BY <1>4, <1>5, <2>1 DEF LinkOK
  <2>4. \A d \in Conns : Past(d) => Past(d)'
    BY <1>5, <2>1 DEF Past, OnlyTasks
  <2>5. net.at \in Serving /\ net.packet.kind = "close" =>
            link'[net.conn] = "shut" /\ toServer'[net.conn] = <<>>
    BY <1>3, <1>5, <2>1 DEF LinkInv, ServedOK, Past, TypeInv, NetTyped, Serving, Selects
  <2> QED BY <1>1, <1>2, <2>3, <2>4, <2>5, WireKeeps
<1>6. CASE /\ UNCHANGED <<link, toServer>>
           /\ \A d \in Conns : d # c => client'[d] = client[d]
           /\ client[c].at \in {"entered", "sent"} /\ client'[c].at \in {"entered", "sent"}
  <2>1. LinkOK'
    BY <1>4, <1>6 DEF LinkOK
  <2>2. \A d \in Conns : Past(d) => Past(d)'
    BY <1>6 DEF Past, OnlyTasks
  <2>3. net.at \in Serving /\ net.packet.kind = "close" =>
            link'[net.conn] = "shut" /\ toServer'[net.conn] = <<>>
    BY <1>6 DEF LinkInv, ServedOK
  <2> QED BY <1>1, <1>2, <2>1, <2>2, <2>3, WireKeeps
<1>7. ASSUME NEW p \in Packets, UNCHANGED link,
             toServer' = [toServer EXCEPT ![c] = Append(@, p)],
             \A d \in Conns : d # c => client'[d] = client[d],
             client'[c].at \in {"entered", "sent"},
             \/ client[c].at = "dialog"
             \/ client[c].at \in {"entered", "sent"} /\ p.kind = "task"
      PROVE  LinkInv'
  <2>1. /\ toServer[c] \in Seq(Packets) /\ toServer'[c] = Append(toServer[c], p)
        /\ \A d \in Conns : d # c => toServer'[d] = toServer[d]
    BY <1>3, <1>7
  <2>2. /\ DOMAIN toServer'[c] = DOMAIN toServer[c] \cup {Len(toServer[c]) + 1}
        /\ toServer'[c][Len(toServer[c]) + 1] = p
        /\ \A i \in DOMAIN toServer[c] : toServer'[c][i] = toServer[c][i]
        /\ toServer[c] = <<>> => Len(toServer[c]) + 1 = 1
    BY <2>1
  <2>3. link[c] = "open" /\ (client[c].at = "dialog" => toServer[c] = <<>>)
    BY <1>4, <1>7 DEF LinkOK
  <2>4. LinkOK'
    <3>1. \A i \in DOMAIN toServer'[c] : toServer'[c][i].kind # "task" => i = 1
      BY <1>4, <1>7, <2>2, <2>3 DEF LinkOK
    <3>2. ASSUME NEW d \in Conns
          PROVE  /\ link'[d] = "none" <=> client'[d].at = "none"
                 /\ link'[d] = "open" <=> client'[d].at \in {"dialog", "entered", "sent"}
                 /\ client'[d].send \/ client'[d].box # "none" =>
                       client'[d].at \in {"entered", "sent"}
                 /\ client'[d].at \in {"none", "dialog"} \/ link'[d] = "deleted" =>
                       toServer'[d] = <<>>
                 /\ \A i \in DOMAIN toServer'[d] : toServer'[d][i].kind # "task" => i = 1
      <4>1. CASE d = c
        BY <1>7, <2>3, <3>1, <4>1
      <4>2. CASE d # c
        BY <1>4, <1>7, <2>1, <4>2 DEF LinkOK
      <4> QED BY <4>1, <4>2
    <3> QED BY <3>2 DEF LinkOK
  <2>5. \A d \in Conns : Past(d) => Past(d)'
    <3>1. Past(c) => Past(c)'
      BY <1>7, <2>2 DEF Past, OnlyTasks
    <3>2. \A d \in Conns : d # c /\ Past(d) => Past(d)'
      BY <1>7, <2>1 DEF Past, OnlyTasks
    <3> QED BY <3>1, <3>2
  <2>6. net.at \in Serving => net.conn \in Conns
    BY DEF LinkInv, TypeInv, NetTyped, Serving, Selects
  <2>7. net.at \in Serving /\ net.packet.kind = "close" =>
            link'[net.conn] = "shut" /\ toServer'[net.conn] = <<>>
    BY <1>7, <2>1, <2>3, <2>6 DEF LinkInv, ServedOK
  <2> QED BY <1>1, <1>2, <2>4, <2>5, <2>7, WireKeeps
<1>8. CASE Read(c)
  <2>1. /\ UNCHANGED <<link, toServer>> /\ client[c].at \in {"entered", "sent"}
        /\ client'[c].at = client[c].at
        /\ \A d \in Conns : d # c => client'[d] = client[d]
    BY <1>3, <1>8 DEF Read
  <2> QED BY <1>6, <2>1
<1>9. CASE Confirm(c)
  <2>1. client[c].at \in {"entered", "sent"}
    BY <1>4, <1>9 DEF Confirm, LinkOK
  <2>2. CASE client[c].box = "disconnect"
    BY <1>5, <1>9, <2>1, <2>2 DEF Confirm
  <2>3. CASE client[c].box # "disconnect"
    <3>1. client' = [client EXCEPT ![c].box = "none",
                               ![c].send = @ \/ client[c].box = "task",
                               ![c].at = IF client[c].box = "task" THEN "entered" ELSE @]
      BY <1>9, <2>3 DEF Confirm
    <3>2. /\ client'[c].at \in {"entered", client[c].at}
          /\ \A d \in Conns : d # c => client'[d] = client[d]
      BY <1>3, <3>1
    <3> QED BY <1>6, <1>9, <2>1, <2>3, <3>2 DEF Confirm
  <2> QED BY <2>2, <2>3
<1>10. CASE Quit(c)
  BY <1>5, <1>10 DEF Quit
<1>11. ASSUME NEW n \in Names, Enter(c, n)
       PROVE  LinkInv'
  <2>1. PICK p \in Packets : toServer' = [toServer EXCEPT ![c] = Append(@, p)]
    BY <1>11 DEF Enter, Packets, Entries
  <2>2. /\ UNCHANGED link /\ client[c].at = "dialog" /\ client'[c].at = "entered"
        /\ \A d \in Conns : d # c => client'[d] = client[d]
    BY <1>3, <1>11 DEF Enter
  <2> QED BY <1>7, <2>1, <2>2
<1>12. ASSUME NEW t \in Tasks, PressSend(c, t)
       PROVE  LinkInv'
  <2> DEFINE p == [kind |-> "task", task |-> t]
  <2>1. p \in Packets /\ p.kind = "task"
    BY DEF Packets
  <2>2. /\ UNCHANGED link /\ toServer' = [toServer EXCEPT ![c] = Append(@, p)]
        /\ client' = [client EXCEPT ![c].send = FALSE, ![c].at = "sent"]
    BY <1>12 DEF PressSend
  <2>3. client[c].at \in {"entered", "sent"}
    BY <1>4, <1>12 DEF PressSend, LinkOK
  <2>4. /\ client'[c].at = "sent"
        /\ \A d \in Conns : d # c => client'[d] = client[d]
    BY <1>3, <2>2
  <2> HIDE DEF p
  <2> QED BY <1>7, <2>1, <2>2, <2>3, <2>4
<1> QED BY <1>8, <1>9, <1>10, <1>11, <1>12 DEF Client

\* Every step of the server keeps the links right; the other threads touch
\* none.
LEMMA LinkStep == LinkInv /\ [Next]_vars => LinkInv'
<1> SUFFICES ASSUME LinkInv, [Next]_vars PROVE LinkInv'
  OBVIOUS
<1>1. CASE UNCHANGED vars
  <2>1. TypeInv'
    BY <1>1, TypeStep DEF LinkInv
  <2>2. UNCHANGED <<order, user, net, link, toServer, client>>
    BY <1>1 DEF vars, users, wires
  <2> QED BY <2>1, <2>2 DEF LinkInv, LinkOK, ServedOK, BoundOK, Past, OnlyTasks
<1>2. CASE Next
  BY <1>2, NetworkLink, ThreadsLink, ClientLink DEF Next
<1> QED BY <1>1, <1>2

\* The links are right in every reachable state.
LEMMA Links == Spec => []LinkInv
  BY LinkInit, LinkStep, PTL DEF Spec

\* No thread of the server can reach a deleted connection: one that a user of
\* the list still has is never deleted, because the network thread takes it
\* from its user, whose lock it holds, before it deletes it, and nobody enters
\* a name on it again.
THEOREM ConnectionsLive == Spec => []NoUseAfterDelete
<1>1. LinkInv => NoUseAfterDelete
  BY DEF LinkInv, BoundOK, Past, TypeInv, UsersTyped, NoUseAfterDelete
<1> QED BY <1>1, Links, PTL

-----------------------------------------------------------------------------
(* The places.                                                              *)

\* The places are right or a sort is to come.
SortOK ==
    \/ IsSorted(order)
    \/ net.at = "sort"
    \/ chk.at \in {"solved", "sort"}
    \/ chk.at = "reply" /\ chk.sort

\* The order of the list depends on the users' results alone.
LEMMA SortedSame ==
    ASSUME order \in Seq(Names), UNCHANGED order,
           \A n \in Names : /\ user'[n].solved = user[n].solved
                            /\ user'[n].time = user[n].time
    PROVE  IsSorted(order)' <=> IsSorted(order)
<1>1. \A i \in DOMAIN order : order[i] \in Names
  OBVIOUS
<1> QED BY <1>1 DEF IsSorted, Before

\* Only the checker's results and the sorting of the list touch the places.
LEMMA ResultsSame ==
    ASSUME TypeInv, Next, ~Check, ~CountSolved
    PROVE  \A n \in Names : /\ user'[n].solved = user[n].solved
                            /\ user'[n].time = user[n].time
                            /\ user'[n].tasks = user[n].tasks
<1>1. user \in [Names -> [conn : Conns \cup {Null}, tasks : [Tasks -> Int],
                          solved : Nat, time : Int]]
  BY DEF TypeInv, UsersTyped
<1>2. \/ user' = user
      \/ \E n \in Names, c \in Conns \cup {Null} : user' = [user EXCEPT ![n].conn = c]
  <2>1. CASE Network
    <3>1. CASE AddUser
      <4>1. net.packet.name \in Names /\ net.conn \in Conns
        BY <3>1 DEF AddUser, TypeInv, NetTyped, FoundOK, Serving, Selects, Packets,
                    Entries
      <4> QED BY <3>1, <4>1 DEF AddUser
    <3>2. CASE Locked
      <4>1. Target \in Names /\ net.conn \in Conns
        BY <3>2, TargetType DEF Locked, TypeInv, NetTyped, Serving, Selects
      <4> QED BY <3>2, <4>1 DEF Locked, Unbind
    <3> QED BY <2>1, <3>1, <3>2
            DEF Network, Accept, Receive, Hangup, Find, SortAfterAdd, Welcome, Refuse,
                Answer, Delete, AddTask, users
  <2>2. CASE Checker \/ Window
    BY <2>2 DEF Checker, WaitForTasks, TakeTask, LockUser, Reply, SortSolved, Window,
                StartPass, CopyRow, LockReceiver, SendMonitor, EndPass, users
  <2>3. CASE \E c \in Conns : \/ Client(c) \/ Quit(c)
                              \/ \E n \in Names : Enter(c, n)
                              \/ \E t \in Tasks : PressSend(c, t)
    BY <2>3 DEF Client, Read, Confirm, Quit, Enter, PressSend, users
  <2> QED BY <2>1, <2>2, <2>3 DEF Next
<1> QED BY <1>1, <1>2

\* An empty list is sorted.
LEMMA SortInit == Init => SortOK
  BY DEF Init, SortOK, IsSorted

\* A step that disturbs the places is followed by the sort in the same locked
\* region.
LEMMA SortStep == TypeInv /\ SortOK /\ [Next]_vars => SortOK'
<1> SUFFICES ASSUME TypeInv, SortOK, [Next]_vars PROVE SortOK'
  OBVIOUS
<1>1. order \in Seq(Names)
  BY DEF TypeInv, UsersTyped
<1>2. CASE UNCHANGED vars
  BY <1>2 DEF vars, users, SortOK, IsSorted, Before
<1>3. CASE Check
  <2>1. chk.at = "check" /\ UNCHANGED <<order, net>>
    BY <1>3 DEF Check
  <2>2. chk \in [at : {"lock", "check", "solved"}, job : Submission]
    BY <2>1 DEF TypeInv, ChkTyped
  <2>3. \/ chk'.at = "solved"
        \/ UNCHANGED user
        \/ user' = [user EXCEPT ![chk.job.name].tasks[chk.job.task] = @ - 1]
    BY <1>3, <2>2 DEF Check, ChkGoto
  <2>4. \/ chk'.at = "solved"
        \/ \A n \in Names : /\ user'[n].solved = user[n].solved
                            /\ user'[n].time = user[n].time
    <3>1. ASSUME NEW n \in Names, NEW t \in Tasks,
                 user' = [user EXCEPT ![n].tasks[t] = @ - 1]
          PROVE  \A m \in Names : /\ user'[m].solved = user[m].solved
                                  /\ user'[m].time = user[m].time
      <4>1. user \in [Names -> [conn : Conns \cup {Null}, tasks : [Tasks -> Int],
                                solved : Nat, time : Int]]
        BY DEF TypeInv, UsersTyped
      <4> QED BY <3>1, <4>1
    <3>2. chk.job.name \in Names /\ chk.job.task \in Tasks
      BY <2>2 DEF Submission
    <3> QED BY <2>3, <3>1, <3>2
  <2>5. chk'.at = "solved" \/ (IsSorted(order)' <=> IsSorted(order))
    BY <1>1, <2>1, <2>4, SortedSame
  <2> QED BY <2>1, <2>5 DEF SortOK
<1>4. CASE CountSolved
  BY <1>4 DEF CountSolved, SortOK
<1>5. CASE SortAfterAdd \/ SortSolved
  <2>1. IsSorted(order') /\ UNCHANGED user
    BY <1>1, <1>5, SortKeeps DEF SortAfterAdd, SortSolved, TypeInv, UsersTyped
  <2> QED BY <2>1 DEF SortOK, IsSorted, Before
<1>6. CASE AddUser
  <2>1. net'.at = "sort"
    BY <1>6 DEF AddUser, NetGoto, TypeInv, NetTyped, Serving, Selects
  <2> QED BY <2>1 DEF SortOK
<1>7. CASE /\ Next /\ ~Check /\ ~CountSolved /\ ~SortAfterAdd /\ ~SortSolved
           /\ ~AddUser
  <2>1. UNCHANGED order
    BY <1>7 DEF Next, Network, Accept, Receive, Hangup, Find, Welcome, Refuse, Locked,
                Answer, Delete, AddTask, Checker, WaitForTasks, TakeTask, LockUser,
                Reply, Window, StartPass, CopyRow, LockReceiver, SendMonitor, EndPass,
                Client, Read, Confirm, Quit, Enter, PressSend, users
  <2>2. IsSorted(order)' <=> IsSorted(order)
    BY <1>1, <1>7, <2>1, SortedSame, ResultsSame
  <2>3. net.at = "sort" => net' = net
    BY <1>7 DEF Next, Network, Accept, Receive, Hangup, Find, Welcome, Refuse, Locked,
                Answer, Delete, AddTask, Checker, WaitForTasks, TakeTask, LockUser,
                Reply, Window, StartPass, CopyRow, LockReceiver, SendMonitor, EndPass,
                Client, Read, Confirm, Quit, Enter, PressSend
  <2>4. \/ chk' = chk
        \/ WaitForTasks \/ TakeTask \/ LockUser \/ Reply
    BY <1>7 DEF Next, Network, Accept, Receive, Hangup, Find, Welcome, Refuse, Locked,
                Answer, Delete, AddTask, Checker, Window, StartPass, CopyRow,
                LockReceiver, SendMonitor, EndPass, Client, Read, Confirm, Quit, Enter,
                PressSend
  <2>5. \/ chk' = chk
        \/ chk.at \notin {"solved", "sort", "reply"}
        \/ chk.at = "reply" /\ chk.sort /\ chk'.at = "sort"
        \/ chk.at = "reply" /\ ~chk.sort
    BY <2>4 DEF WaitForTasks, TakeTask, LockUser, Reply, AfterReply
  <2> QED BY <2>2, <2>3, <2>5 DEF SortOK
<1> QED BY <1>2, <1>3, <1>4, <1>5, <1>6, <1>7

\* The types of the server's variables hold in every reachable state.
LEMMA Types == Spec => []TypeInv
  BY TypeInit, TypeStep, PTL DEF Spec

\* The places are right, except while a result is being entered, whoever
\* registers or is checked meanwhile: a solved task and a new user are always
\* followed by a sort, and nothing else changes a place.
THEOREM PlacesRight == Spec => []BoardSorted
<1>1. SortOK => BoardSorted
  BY DEF SortOK, BoardSorted
<1>2. Spec => []SortOK
  BY SortInit, SortStep, Types, PTL DEF Spec
<1> QED BY <1>1, <1>2, PTL

-----------------------------------------------------------------------------
(* The locks.                                                               *)

\* A lock held across a step is held by the thread that is inside.
LocksOK ==
    \A n \in Names :
        /\ userLock[n] = "net" <=> net.at = "answer" /\ net.name = n
        /\ userLock[n] = "chk" <=>
              chk.at \in {"check", "solved", "reply"} /\ chk.job.name = n
        /\ userLock[n] = "gui" <=> gui.at = "send" /\ order[gui.i - gui.n] = n

\* While a pass goes on, the list stays as it is: its lock is held.
LEMMA ListStays ==
    ASSUME TypeInv, [Next]_vars, gui.at # "idle"
    PROVE  UNCHANGED order
<1>1. ~Free(listLock)
  BY ServerAssumption DEF TypeInv, GuiTyped, Free
<1>2. CASE UNCHANGED vars
  BY <1>2 DEF vars, users
<1>3. CASE Next
  BY <1>1, <1>3
  DEF Next, Network, Accept, Receive, Hangup, Find, AddUser, SortAfterAdd, SortUsers,
      Welcome, Refuse, Locked, Answer, Delete, AddTask, Checker, WaitForTasks,
      TakeTask, LockUser, Check, CountSolved, Reply, SortSolved, Window, StartPass,
      CopyRow, LockReceiver, SendMonitor, EndPass, Client, Read, Confirm, Quit, Enter,
      PressSend, users
<1> QED BY <1>2, <1>3

\* At the start nobody is inside a locked region.
LEMMA LocksInit == Init => LocksOK
  BY ServerAssumption DEF Init, LocksOK, Selects

\* Steps of the network thread.
LEMMA NetLocks ==
    ASSUME TypeInv, LocksOK, Network
    PROVE  LocksOK'
<1>0. [Next]_vars
  BY DEF Next
<1>1. UNCHANGED <<chk, gui>> /\ (gui.at = "send" => UNCHANGED order)
  <2>1. UNCHANGED <<chk, gui>>
    BY DEF Network, Accept, Receive, Hangup, Find, AddUser, SortAfterAdd, Welcome,
           Refuse, Locked, Answer, Delete, AddTask
  <2> QED BY <1>0, <2>1, ListStays
<1>2. CASE net.at # "answer" /\ net'.at # "answer" /\ UNCHANGED userLock
  BY <1>1, <1>2 DEF LocksOK
<1>3. ASSUME NEW n \in Names, net.at # "answer", Free(userLock[n]),
             userLock' = [userLock EXCEPT ![n] = "net"],
             net'.at = "answer", net'.name = n
      PROVE  LocksOK'
  <2>1. userLock'[n] = "net" /\ \A m \in Names : m # n => userLock'[m] = userLock[m]
    BY <1>3 DEF TypeInv, UsersTyped
  <2>2. Null \notin {"net", "chk", "gui"}
    BY ServerAssumption
  <2> QED BY <1>1, <1>3, <2>1, <2>2 DEF LocksOK, Free
<1>4. CASE Answer
  <2>1. /\ userLock' = [userLock EXCEPT ![net.name] = Null] /\ net' = Selects
        /\ net.at = "answer" /\ net.name \in Names
    BY <1>4 DEF Answer, TypeInv, NetTyped, Serving, Selects
  <2>2. /\ userLock'[net.name] = Null /\ net'.at # "answer"
        /\ \A m \in Names : m # net.name => userLock'[m] = userLock[m]
    BY <2>1 DEF TypeInv, UsersTyped, Selects
  <2>3. Null \notin {"net", "chk", "gui"}
    BY ServerAssumption
  <2> QED BY <1>1, <2>1, <2>2, <2>3 DEF LocksOK
<1>5. CASE Locked
  <2>1. net.at = "lock" /\ Target \in Names /\ Free(userLock[Target])
    BY <1>5, TargetType DEF Locked
  <2>2. CASE UNCHANGED userLock /\ (NetGoto("welcome") \/ NetGoto("delete"))
    <3>1. net'.at # "answer"
      BY <2>1, <2>2 DEF NetGoto, TypeInv, NetTyped, Serving, Selects
    <3> QED BY <1>2, <2>1, <2>2, <3>1
  <2>3. CASE UNCHANGED userLock /\ \E job : net' = [at |-> "push", job |-> job]
    BY <1>2, <2>1, <2>3
  <2>4. CASE /\ userLock' = [userLock EXCEPT ![Target] = "net"]
             /\ \E message : net' = [at |-> "answer", conn |-> net.conn,
                                     name |-> Target, message |-> message]
    <3>1. net'.at = "answer" /\ net'.name = Target
      BY <2>4
    <3> QED BY <1>3, <2>1, <2>4, <3>1
  <2> QED BY <1>5, <2>2, <2>3, <2>4 DEF Locked
<1>6. CASE AddTask
  <2>1. UNCHANGED userLock /\ net.at \in {"push", "signal"}
    BY <1>6 DEF AddTask, users
  <2>2. net'.at # "answer"
    BY <1>6, <2>1 DEF AddTask, NetGoto, TypeInv, NetTyped, Serving, Selects
  <2> QED BY <1>2, <2>1, <2>2
<1>7. CASE Find \/ AddUser \/ SortAfterAdd \/ Welcome \/ Refuse \/ Delete
  <2>1. UNCHANGED userLock /\ net.at \in Serving
    BY <1>7 DEF Find, AddUser, SortAfterAdd, Welcome, Refuse, Delete, users, Serving
  <2>2. net' = Selects \/ \E place \in Serving : NetGoto(place)
    <3>1. CASE Find
      <4>1. net.packet \in Packets \cup [kind : {"close"}]
        BY <2>1 DEF TypeInv, NetTyped, Serving, Selects
      <4>2. net.packet.kind \in {"register", "login", "task", "close"}
        BY <4>1 DEF Packets, Entries
      <4> QED BY <3>1, <4>2 DEF Find, Serving
    <3> QED BY <1>7, <3>1 DEF AddUser, SortAfterAdd, Welcome, Refuse, Delete, Serving
  <2>3. net'.at # "answer"
    BY <2>1, <2>2, NetGotoType DEF Selects, Serving, TypeInv
  <2> QED BY <1>2, <2>1, <2>3 DEF Serving
<1>8. CASE \E c \in Conns : Accept(c) \/ Receive(c) \/ Hangup(c)
  <2>1. UNCHANGED userLock /\ net.at = "select" /\ net'.at # "answer"
    BY <1>8 DEF Accept, Receive, Hangup, users
  <2> QED BY <1>2, <2>1
<1> QED BY <1>4, <1>5, <1>6, <1>7, <1>8 DEF Network

\* Steps of the checker.
LEMMA CheckerLocks ==
    ASSUME TypeInv, LocksOK, Checker
    PROVE  LocksOK'
<1> DEFINE Holds == chk.at \in {"check", "solved", "reply"}
<1>0. [Next]_vars
  BY DEF Next
<1>1. UNCHANGED <<net, gui>> /\ (gui.at = "send" => UNCHANGED order)
  <2>1. UNCHANGED <<net, gui>>
    BY DEF Checker, WaitForTasks, TakeTask, LockUser, Check, CountSolved, Reply,
           SortSolved
  <2> QED BY <1>0, <2>1, ListStays
<1>2. CASE UNCHANGED userLock /\ ~Holds /\ ~Holds'
  BY <1>1, <1>2 DEF LocksOK
<1>3. CASE UNCHANGED userLock /\ Holds /\ Holds' /\ chk'.job = chk.job
  BY <1>1, <1>3 DEF LocksOK
<1>4. CASE WaitForTasks \/ TakeTask \/ SortSolved
  <2>1. UNCHANGED userLock /\ chk.at \in {"wait", "drain", "sort"}
    BY <1>4 DEF WaitForTasks, TakeTask, SortSolved, users
  <2>2. chk \in [at : {"wait", "drain", "sort"}]
    BY <2>1 DEF TypeInv, ChkTyped
  <2>3. chk'.at \in {"wait", "drain", "lock"}
    BY <1>4, <2>2 DEF WaitForTasks, TakeTask, SortSolved, ChkGoto
  <2> QED BY <1>2, <2>1, <2>3
<1>5. CASE Check \/ CountSolved
  <2>1. UNCHANGED userLock /\ Holds
    BY <1>5 DEF Check, CountSolved
  <2>2. Holds' /\ chk'.job = chk.job
    BY <1>5, ScoreType
  <2> QED BY <1>3, <2>1, <2>2
<1>6. CASE LockUser
  <2> DEFINE n == chk.job.name
  <2>1. /\ chk.at = "lock" /\ Free(userLock[n])
        /\ userLock' = [userLock EXCEPT ![n] = "chk"]
        /\ chk' = [chk EXCEPT !.at = "check"]
    BY <1>6 DEF LockUser, ChkGoto
  <2>2. chk \in [at : {"lock", "check", "solved"}, job : Submission] /\ n \in Names
    BY <2>1 DEF TypeInv, ChkTyped, Submission
  <2>3. chk'.at = "check" /\ chk'.job.name = n
    BY <2>1, <2>2
  <2> HIDE DEF n
  <2>4. userLock'[n] = "chk" /\ \A m \in Names : m # n => userLock'[m] = userLock[m]
    BY <2>1, <2>2 DEF TypeInv, UsersTyped
  <2>5. Null \notin {"net", "chk", "gui"}
    BY ServerAssumption
  <2> QED BY <1>1, <2>1, <2>2, <2>3, <2>4, <2>5 DEF LocksOK, Free
<1>7. CASE Reply
  <2> DEFINE n == chk.job.name
  <2>1. /\ chk.at = "reply" /\ n \in Names
        /\ userLock' = [userLock EXCEPT ![n] = Null]
        /\ chk'.at \in {"sort", "drain"}
    BY <1>7 DEF Reply, AfterReply, TypeInv, ChkTyped, Submission
  <2> HIDE DEF n
  <2>2. userLock'[n] = Null /\ \A m \in Names : m # n => userLock'[m] = userLock[m]
    BY <2>1 DEF TypeInv, UsersTyped
  <2>3. Null \notin {"net", "chk", "gui"}
    BY ServerAssumption
  <2> QED BY <1>1, <2>1, <2>2, <2>3 DEF LocksOK, n
<1> QED BY <1>4, <1>5, <1>6, <1>7 DEF Checker

\* Steps of the window's thread.
LEMMA WindowLocks ==
    ASSUME TypeInv, LocksOK, Window
    PROVE  LocksOK'
<1>1. UNCHANGED <<net, chk, order>>
  BY DEF Window, StartPass, CopyRow, LockReceiver, SendMonitor, EndPass, users
<1>2. gui.at \in {"rows", "send"} =>
          /\ gui \in Passes /\ gui.n = Len(order)
          /\ gui.at = "send" => gui.i - gui.n \in 1..gui.n
  BY DEF TypeInv, GuiTyped, Passes
<1>3. order \in Seq(Names) /\ userLock \in [Names -> {Null, "net", "chk", "gui"}]
  BY DEF TypeInv, UsersTyped
<1>4. Null \notin {"net", "chk", "gui"}
  BY ServerAssumption
<1>5. CASE UNCHANGED userLock /\ gui.at # "send" /\ gui'.at # "send"
  BY <1>1, <1>5 DEF LocksOK
<1>6. CASE StartPass \/ CopyRow \/ EndPass
  <2>1. UNCHANGED userLock /\ gui.at # "send"
    BY <1>6 DEF StartPass, CopyRow, EndPass, users
  <2>2. gui'.at # "send"
    <3>1. CASE CopyRow
      <4>1. gui \in Passes /\ gui.at = "rows"
        BY <1>2, <3>1 DEF CopyRow
      <4> QED BY <3>1, <4>1 DEF CopyRow, Passes
    <3>2. CASE StartPass \/ EndPass
      BY <3>2 DEF StartPass, EndPass
    <3> QED BY <1>6, <3>1, <3>2
  <2> QED BY <1>5, <2>1, <2>2
<1>7. CASE LockReceiver
  <2> DEFINE n == order[gui.i - gui.n]
  <2>1. /\ gui \in Passes /\ gui.at = "rows" /\ gui.i - gui.n \in 1..Len(order)
        /\ Free(userLock[n])
        /\ \/ gui' = [gui EXCEPT !.i = @ + 1] /\ UNCHANGED userLock
           \/ /\ userLock' = [userLock EXCEPT ![n] = "gui"]
              /\ gui' = [gui EXCEPT !.at = "send"]
    BY <1>2, <1>7 DEF LockReceiver
  <2>2. n \in Names
    BY <1>3, <2>1
  <2> HIDE DEF n
  <2>3. CASE gui' = [gui EXCEPT !.i = @ + 1] /\ UNCHANGED userLock
    <3>1. gui'.at # "send"
      BY <2>1, <2>3 DEF Passes
    <3> QED BY <1>5, <2>1, <2>3, <3>1
  <2>4. CASE /\ userLock' = [userLock EXCEPT ![n] = "gui"]
             /\ gui' = [gui EXCEPT !.at = "send"]
    <3>1. gui'.at = "send" /\ gui'.i = gui.i /\ gui'.n = gui.n
      BY <2>1, <2>4 DEF Passes
    <3>2. userLock'[n] = "gui" /\ \A m \in Names : m # n => userLock'[m] = userLock[m]
      BY <1>3, <2>2, <2>4
    <3> QED BY <1>1, <1>4, <2>1, <2>2, <3>1, <3>2 DEF LocksOK, Free, n
  <2> QED BY <2>1, <2>3, <2>4
<1>8. CASE SendMonitor
  <2> DEFINE n == order[gui.i - gui.n]
  <2>1. /\ gui \in Passes /\ gui.at = "send" /\ gui.i - gui.n \in 1..Len(order)
        /\ userLock' = [userLock EXCEPT ![n] = Null]
        /\ gui' = [gui EXCEPT !.at = "rows", !.i = @ + 1]
    BY <1>2, <1>8 DEF SendMonitor
  <2>2. n \in Names
    BY <1>3, <2>1
  <2>3. gui'.at # "send"
    BY <2>1 DEF Passes
  <2> HIDE DEF n
  <2>4. userLock'[n] = Null /\ \A m \in Names : m # n => userLock'[m] = userLock[m]
    BY <1>3, <2>1, <2>2
  <2> QED BY <1>1, <1>4, <2>1, <2>3, <2>4 DEF LocksOK, n
<1> QED BY <1>6, <1>7, <1>8 DEF Window

\* The mutexes are taken on entering a region and released on leaving it.
LEMMA LocksStep == TypeInv /\ LocksOK /\ [Next]_vars => LocksOK'
<1> SUFFICES ASSUME TypeInv, LocksOK, [Next]_vars PROVE LocksOK'
  OBVIOUS
<1>1. CASE UNCHANGED vars
  BY <1>1 DEF vars, users, LocksOK
<1>2. CASE \E c \in Conns : \/ Client(c) \/ Quit(c)
                            \/ \E n \in Names : Enter(c, n)
                            \/ \E t \in Tasks : PressSend(c, t)
  <2>1. UNCHANGED <<net, chk, gui, order, userLock>>
    BY <1>2 DEF Client, Read, Confirm, Quit, Enter, PressSend, users
  <2> QED BY <2>1 DEF LocksOK
<1> QED BY <1>1, <1>2, NetLocks, CheckerLocks, WindowLocks DEF Next

\* A user's lock that a thread holds across a step names that thread: no two
\* threads are ever inside with the same user.
THEOREM LocksHeld == Spec => []LocksOK
  BY LocksInit, LocksStep, Types, PTL DEF Spec

-----------------------------------------------------------------------------
(* The submissions and the scores.                                          *)

Pushing(job)  == net.at = "push" /\ net.job = job
Checking(job) == chk.at \in {"lock", "check", "solved", "reply"} /\ chk.job = job
Unscored(job) == chk.at \in {"lock", "check"} /\ chk.job = job

\* A submission of a user without overlapping ones is pending once, and its
\* task is not solved before it has been scored.
OnceOK ==
    \A job \in Submission : job.name \notin doubled =>
        /\ \A i, j \in DOMAIN queue : queue[i] = job /\ queue[j] = job => i = j
        /\ Checking(job) => job \notin Range(queue)
        /\ Pushing(job) => ~Checking(job) /\ job \notin Range(queue)
        /\ score[job.name][job.task].ok =>
              job \notin Range(queue) /\ ~Pushing(job) /\ ~Unscored(job)

\* What the checks add up to, also between the two writes of a solved task.
SolvedBy(n) == {t \in Tasks : score[n][t].ok}
Cost(n) == [t \in Tasks |-> IF score[n][t].ok THEN 20 * score[n][t].fails ELSE 0]
Entering(n) == chk.at = "solved" /\ chk.job.name = n

ScoreOK ==
    \A n \in Names : n \notin doubled =>
        /\ \A t \in Tasks :
              user[n].tasks[t] = IF score[n][t].ok THEN score[n][t].fails + 1
                                                   ELSE -score[n][t].fails
        /\ user[n].solved + (IF Entering(n) THEN 1 ELSE 0) = Cardinality(SolvedBy(n))
        /\ user[n].time = SumFunction(Cost(n))

\* Before the first submission nothing is pending and every score is zero.
LEMMA ScoreInit == Init => OnceOK /\ ScoreOK
<1> SUFFICES ASSUME Init PROVE OnceOK /\ ScoreOK
  OBVIOUS
<1>1. OnceOK
  BY DEF Init, OnceOK, Pushing, Checking, Unscored, Selects, Range, Submission
<1>2. ASSUME NEW n \in Names
      PROVE  /\ \A t \in Tasks : /\ user[n].tasks[t] = 0 /\ ~score[n][t].ok
                                 /\ score[n][t].fails = 0
             /\ user[n].solved = 0 /\ user[n].time = 0 /\ ~Entering(n)
  BY DEF Init, NewUser, Entering
<1>3. ASSUME NEW n \in Names
      PROVE  Cardinality(SolvedBy(n)) = 0 /\ SumFunction(Cost(n)) = 0
  <2>1. SolvedBy(n) = {} /\ Cost(n) = [t \in Tasks |-> 0]
    BY <1>2 DEF SolvedBy, Cost
  <2> HIDE DEF Cost
  <2> QED BY <2>1, FS_EmptySet, SumZero, ServerAssumption
<1>4. ScoreOK
  BY <1>2, <1>3 DEF ScoreOK
<1> QED BY <1>1, <1>4

\* Nothing new is pending, and nothing is solved that was not.
LEMMA OnceKeeps ==
    ASSUME OnceOK, UNCHANGED queue, doubled \subseteq doubled',
           \A n \in Names, t \in Tasks : score'[n][t].ok = score[n][t].ok,
           \A job \in Submission : /\ Pushing(job)' => Pushing(job)
                                   /\ Checking(job)' => Checking(job)
                                   /\ Unscored(job)' => Unscored(job)
    PROVE  OnceOK'
<1>1. \A job \in Submission : job.name \in Names /\ job.task \in Tasks
  BY DEF Submission
<1> QED BY <1>1 DEF OnceOK

\* A task that is not solved is taken, and the user is marked if it is pending.
LEMMA LockedOnce ==
    ASSUME TypeInv, OnceOK, ScoreOK, Locked
    PROVE  OnceOK'
<1> DEFINE n == Target
           pushed == [name |-> n, task |-> net.packet.task]
<1>1. /\ UNCHANGED <<queue, score, chk>> /\ net.at = "lock" /\ doubled \subseteq doubled'
  BY DEF Locked
<1>2. n \in Names
  BY <1>1, TargetType
<1>3. net \in [at : Serving, conn : Conns,
               packet : Packets \cup [kind : {"close"}]]
  BY <1>1 DEF TypeInv, NetTyped, Serving, Selects
<1>4. \A job \in Submission : /\ Checking(job)' <=> Checking(job)
                              /\ Unscored(job)' <=> Unscored(job)
                              /\ ~Pushing(job)
  BY <1>1 DEF Checking, Unscored, Pushing
<1>5. CASE net'.at # "push"
  BY <1>1, <1>4, <1>5, OnceKeeps DEF Pushing
<1>6. CASE /\ net.packet.kind = "task" /\ ~Accepted(n, net.packet.task)
           /\ net' = [at |-> "push", job |-> pushed]
           /\ doubled' = IF Pending(pushed) THEN doubled \cup {n} ELSE doubled
  <2>1. net.packet.task \in Tasks /\ pushed \in Submission
    BY <1>2, <1>3, <1>6 DEF Packets, Entries, Submission
  <2>2. pushed.name = n /\ pushed.task = net.packet.task
    OBVIOUS
  <2>3. \A job \in Submission : Pushing(job)' <=> job = pushed
    BY <1>6 DEF Pushing
  <2> HIDE DEF pushed
  <2>4. n \notin doubled' => ~Checking(pushed) /\ pushed \notin Range(queue)
    BY <1>6 DEF Pending, Checking
  <2>5. n \notin doubled' => ~score[n][net.packet.task].ok
    <3>1. /\ score[n][net.packet.task].fails \in Nat
          /\ ~(user[n].tasks[net.packet.task] > 0)
      BY <1>2, <1>6, <2>1 DEF TypeInv, UsersTyped, Accepted
    <3> QED BY <1>1, <1>2, <2>1, <3>1 DEF ScoreOK
  <2>6. ASSUME NEW job \in Submission, job.name \notin doubled'
        PROVE  /\ \A i, j \in DOMAIN queue' : queue'[i] = job /\ queue'[j] = job => i = j
               /\ Checking(job)' => job \notin Range(queue')
               /\ Pushing(job)' => ~Checking(job)' /\ job \notin Range(queue')
               /\ score'[job.name][job.task].ok =>
                     job \notin Range(queue') /\ ~Pushing(job)' /\ ~Unscored(job)'
    BY <1>1, <1>4, <2>2, <2>3, <2>4, <2>5, <2>6 DEF OnceOK
  <2> QED BY <2>6 DEF OnceOK
<1>7. \/ UNCHANGED net \/ net'.at # "push"
      \/ /\ net.packet.kind = "task" /\ ~Accepted(n, net.packet.task)
         /\ net' = [at |-> "push", job |-> pushed]
         /\ doubled' = IF Pending(pushed) THEN doubled \cup {n} ELSE doubled
  <2>1. CASE NetGoto("welcome") \/ NetGoto("delete")
    BY <1>3, <2>1 DEF NetGoto
  <2>2. CASE \E message : net' = [at |-> "answer", conn |-> net.conn,
                                  name |-> Target, message |-> message]
    BY <2>2
  <2> HIDE DEF n, pushed
  <2> QED BY <2>1, <2>2 DEF Locked, n, pushed
<1> QED BY <1>1, <1>5, <1>6, <1>7

\* A submission pushed to the queue was not there before.
LEMMA AddTaskOnce ==
    ASSUME TypeInv, OnceOK, AddTask
    PROVE  OnceOK'
<1>1. /\ UNCHANGED <<score, doubled, chk>>
      /\ net \in [at : {"push", "signal"}, job : Submission]
  BY DEF AddTask, users, TypeInv, NetTyped, Serving, Selects
<1>2. \A job : (Checking(job)' <=> Checking(job)) /\ (Unscored(job)' <=> Unscored(job))
  BY <1>1 DEF Checking, Unscored
<1>3. CASE net.at = "signal"
  <2>1. UNCHANGED queue /\ net' = Selects
    BY <1>3 DEF AddTask
  <2>2. \A job : ~Pushing(job)'
    BY <2>1 DEF Pushing, Selects
  <2> QED BY <1>1, <1>2, <2>1, <2>2, OnceKeeps
<1>4. CASE net.at = "push"
  <2>1. queue' = Append(queue, net.job) /\ net'.at = "signal" /\ net.job \in Submission
    BY <1>1, <1>4 DEF AddTask, NetGoto
  <2>2. queue \in Seq(Submission)
    BY DEF TypeInv, UsersTyped
  <2>3. /\ DOMAIN queue' = (DOMAIN queue) \cup {Len(queue) + 1}
        /\ queue'[Len(queue) + 1] = net.job
        /\ \A i \in DOMAIN queue : queue'[i] = queue[i]
    BY <2>1, <2>2
  <2>4. Range(queue') = Range(queue) \cup {net.job}
    BY <2>3 DEF Range
  <2>5. \A job : (Pushing(job) <=> job = net.job) /\ ~Pushing(job)'
    BY <1>4, <2>1 DEF Pushing
  <2>6. ASSUME NEW job \in Submission, job.name \notin doubled'
        PROVE  /\ \A i, j \in DOMAIN queue' : queue'[i] = job /\ queue'[j] = job => i = j
               /\ Checking(job)' => job \notin Range(queue')
               /\ score'[job.name][job.task].ok =>
                     job \notin Range(queue') /\ ~Unscored(job)'
    <3>1. CASE job = net.job
      <4>1. job \notin Range(queue) /\ ~Checking(job)
        BY <1>1, <2>5, <2>6, <3>1 DEF OnceOK
      <4>2. \A i \in DOMAIN queue : queue[i] # job
        BY <4>1 DEF Range
      <4>3. ~score[job.name][job.task].ok
        BY <1>1, <2>5, <2>6, <3>1 DEF OnceOK
      <4> QED BY <1>1, <1>2, <2>3, <4>1, <4>2, <4>3
    <3>2. CASE job # net.job
      BY <1>1, <1>2, <2>3, <2>4, <2>6, <3>2 DEF OnceOK
    <3> QED BY <3>1, <3>2
  <2> QED BY <2>5, <2>6 DEF OnceOK
<1> QED BY <1>1, <1>3, <1>4

\* The checker takes the submission out of the queue it looks at.
LEMMA TakeTaskOnce ==
    ASSUME TypeInv, OnceOK, TakeTask
    PROVE  OnceOK'
<1>1. UNCHANGED <<score, doubled, net>> /\ chk.at = "drain"
  BY DEF TakeTask, users
<1>2. \A job : (Pushing(job)' <=> Pushing(job)) /\ ~Checking(job) /\ ~Unscored(job)
  BY <1>1 DEF Pushing, Checking, Unscored
<1>3. queue \in Seq(Submission)
  BY DEF TypeInv, UsersTyped
<1>4. CASE queue = <<>>
  <2>1. UNCHANGED queue /\ chk' = [chk EXCEPT !.at = "wait"]
    BY <1>4 DEF TakeTask, ChkGoto
  <2>2. chk'.at = "wait"
    <3>1. chk \in [at : {"wait", "drain", "sort"}]
      BY <1>1 DEF TypeInv, ChkTyped
    <3> QED BY <2>1, <3>1
  <2>3. \A job : ~Checking(job)' /\ ~Unscored(job)'
    BY <2>2 DEF Checking, Unscored
  <2> QED BY <1>1, <1>2, <2>1, <2>3, OnceKeeps
<1>5. CASE queue # <<>>
  <2>1. chk' = [at |-> "lock", job |-> Head(queue)] /\ queue' = Tail(queue)
    BY <1>5 DEF TakeTask
  <2>2. \A job : /\ Checking(job)' <=> job = queue[1]
                 /\ Unscored(job)' <=> job = queue[1]
    BY <1>3, <1>5, <2>1 DEF Checking, Unscored
  <2>3. /\ 1 \in DOMAIN queue
        /\ \A i \in DOMAIN queue' : /\ i + 1 \in DOMAIN queue /\ i + 1 # 1
                                    /\ i \in Int /\ queue'[i] = queue[i + 1]
    BY <1>3, <1>5, <2>1
  <2>4. queue[1] \in Range(queue) /\ Range(queue') \subseteq Range(queue)
    BY <2>3 DEF Range
  <2>5. ASSUME NEW job \in Submission, job.name \notin doubled'
        PROVE  /\ \A i, j \in DOMAIN queue' : queue'[i] = job /\ queue'[j] = job => i = j
               /\ Checking(job)' => job \notin Range(queue')
               /\ Pushing(job)' => ~Checking(job)' /\ job \notin Range(queue')
               /\ score'[job.name][job.task].ok =>
                     job \notin Range(queue') /\ ~Pushing(job)' /\ ~Unscored(job)'
    <3>0. \A i, j \in DOMAIN queue : queue[i] = job /\ queue[j] = job => i = j
      BY <1>1, <2>5 DEF OnceOK
    <3>1. \A i, j \in DOMAIN queue' : queue'[i] = job /\ queue'[j] = job => i = j
      <4> SUFFICES ASSUME NEW i \in DOMAIN queue', NEW j \in DOMAIN queue',
                          queue'[i] = job, queue'[j] = job
                   PROVE  i = j
        OBVIOUS
      <4>1. i + 1 = j + 1
        BY <2>3, <3>0
      <4> QED BY <2>3, <4>1
    <3>2. job = queue[1] => job \notin Range(queue')
      BY <2>3, <3>0 DEF Range
    <3> QED BY <1>1, <1>2, <2>2, <2>4, <2>5, <3>1, <3>2 DEF OnceOK
  <2> QED BY <2>5 DEF OnceOK
<1> QED BY <1>4, <1>5

\* A check that succeeds leaves no other submission of the task pending.
LEMMA CheckOnce ==
    ASSUME TypeInv, OnceOK, Check
    PROVE  OnceOK'
<1> DEFINE job == chk.job
<1>1. /\ UNCHANGED <<queue, doubled, net>> /\ chk.at = "check"
      /\ chk'.at \in {"solved", "reply"} /\ chk'.job = job
  BY ScoreType DEF Check
<1>2. /\ job \in Submission /\ job.name \in Names /\ job.task \in Tasks
      /\ \A other \in Submission :
            other.name = job.name /\ other.task = job.task => other = job
  BY <1>1 DEF TypeInv, ChkTyped, Submission
<1>3. \A other : /\ Pushing(other)' <=> Pushing(other)
                 /\ Checking(other)' <=> Checking(other)
                 /\ ~Unscored(other)' /\ (Checking(other) <=> other = job)
  BY <1>1 DEF Pushing, Checking, Unscored
<1>4. score \in [Names -> [Tasks -> [fails : Nat, ok : BOOLEAN]]]
  BY DEF TypeInv, UsersTyped
<1>5. \/ score' = [score EXCEPT ![job.name][job.task].ok = TRUE]
      \/ score' = [score EXCEPT ![job.name][job.task].fails = @ + 1]
      \/ UNCHANGED score
  BY DEF Check
<1> HIDE DEF job
<1>6. ASSUME NEW other \in Submission, other # job
      PROVE  score'[other.name][other.task].ok = score[other.name][other.task].ok
  <2> DEFINE n == job.name
             t == job.task
             m == other.name
             u == other.task
  <2>1. /\ n \in Names /\ t \in Tasks /\ m \in Names /\ u \in Tasks
        /\ m # n \/ u # t
    BY <1>2, <1>6 DEF Submission
  <2> HIDE DEF n, t, m, u
  <2>2. CASE score' = [score EXCEPT ![n][t].ok = TRUE]
    BY <1>4, <2>1, <2>2 DEF m, u
  <2>3. CASE score' = [score EXCEPT ![n][t].fails = @ + 1]
    <3>1. score[n][t].fails + 1 \in Nat
      BY <1>4, <2>1
    <3> QED BY <1>4, <2>1, <2>3, <3>1 DEF m, u
  <2> QED BY <1>5, <2>2, <2>3 DEF n, t
<1>7. ASSUME NEW other \in Submission, other.name \notin doubled
      PROVE  /\ \A i, j \in DOMAIN queue' : queue'[i] = other /\ queue'[j] = other => i = j
             /\ Checking(other)' => other \notin Range(queue')
             /\ Pushing(other)' => ~Checking(other)' /\ other \notin Range(queue')
             /\ score'[other.name][other.task].ok =>
                   other \notin Range(queue') /\ ~Pushing(other)'
  BY <1>1, <1>3, <1>6, <1>7 DEF OnceOK
<1> QED BY <1>1, <1>3, <1>7 DEF OnceOK

\* Without overlapping submissions of one task, one is pending once at most.
LEMMA OnceStep == TypeInv /\ OnceOK /\ ScoreOK /\ [Next]_vars => OnceOK'
<1> SUFFICES ASSUME TypeInv, OnceOK, ScoreOK, [Next]_vars PROVE OnceOK'
  OBVIOUS
<1>1. CASE UNCHANGED vars
  BY <1>1, OnceKeeps DEF vars, users, Pushing, Checking, Unscored
<1>2. CASE /\ Next /\ ~Locked /\ ~AddTask /\ ~TakeTask /\ ~Check
  <2>1. UNCHANGED <<queue, doubled, score>>
    BY <1>2 DEF Next, Network, Accept, Receive, Hangup, Find, AddUser, SortAfterAdd,
                Welcome, Refuse, Answer, Delete, Checker, WaitForTasks, LockUser,
                CountSolved, Reply, SortSolved, Window, StartPass, CopyRow,
                LockReceiver, SendMonitor, EndPass, Client, Read, Confirm, Quit, Enter,
                PressSend, users
  <2>2. \A job : Pushing(job)' => Pushing(job)
    <3>1. CASE UNCHANGED net
      BY <3>1 DEF Pushing
    <3>2. CASE \E c \in Conns : Receive(c) \/ Hangup(c)
      BY <3>2 DEF Receive, Hangup, Pushing
    <3>3. CASE Answer
      BY <3>3 DEF Answer, Pushing, Selects
    <3>4. CASE Find \/ AddUser \/ SortAfterAdd \/ Welcome \/ Refuse \/ Delete
      <4>0. net.at \in Serving
        BY <3>4 DEF Find, AddUser, SortAfterAdd, Welcome, Refuse, Delete, Serving
      <4>1. net \in [at : Serving, conn : Conns,
                     packet : Packets \cup [kind : {"close"}]]
        BY <4>0 DEF TypeInv, NetTyped, Serving, Selects
      <4>2. net.packet.kind \in {"register", "login", "task", "close"}
        BY <4>1 DEF Packets, Entries
      <4>3. \/ net' = Selects
            \/ \E place \in Serving : NetGoto(place)
        BY <3>4, <4>2 DEF Find, AddUser, SortAfterAdd, Welcome, Refuse, Delete, Serving
      <4>4. net'.at # "push"
        BY <4>1, <4>3 DEF NetGoto, Selects, Serving
      <4> QED BY <4>4 DEF Pushing
    <3> QED BY <1>2, <3>1, <3>2, <3>3, <3>4
            DEF Next, Network, Accept, Checker, WaitForTasks, LockUser, CountSolved,
                Reply, SortSolved, Window, StartPass, CopyRow, LockReceiver,
                SendMonitor, EndPass, Client, Read, Confirm, Quit, Enter, PressSend
  <2>3. \A job : (Checking(job)' => Checking(job)) /\ (Unscored(job)' => Unscored(job))
    <3>1. CASE UNCHANGED chk
      BY <3>1 DEF Checking, Unscored
    <3>2. CASE WaitForTasks \/ SortSolved
      <4>1. chk'.at = "drain"
        BY <3>2 DEF WaitForTasks, SortSolved, ChkGoto, TypeInv, ChkTyped
      <4> QED BY <4>1 DEF Checking, Unscored
    <3>3. CASE LockUser
      <4>1. chk.at = "lock" /\ chk'.job = chk.job
        BY <3>3 DEF LockUser, ChkGoto, TypeInv, ChkTyped
      <4> QED BY <4>1 DEF Checking, Unscored
    <3>4. CASE CountSolved
      <4>1. chk.at = "solved" /\ chk'.at = "reply" /\ chk'.job = chk.job
        BY <3>4 DEF CountSolved
      <4> QED BY <4>1 DEF Checking, Unscored
    <3>5. CASE Reply
      <4>1. chk'.at \in {"sort", "drain"}
        BY <3>5 DEF Reply, AfterReply
      <4> QED BY <4>1 DEF Checking, Unscored
    <3> QED BY <1>2, <3>1, <3>2, <3>3, <3>4, <3>5
            DEF Next, Network, Accept, Receive, Hangup, Find, AddUser, SortAfterAdd,
                Welcome, Refuse, Answer, Delete, Checker, Window, StartPass, CopyRow,
                LockReceiver, SendMonitor, EndPass, Client, Read, Confirm, Quit, Enter,
                PressSend
  <2> QED BY <2>1, <2>2, <2>3, OnceKeeps
<1> QED BY <1>1, <1>2, LockedOnce, AddTaskOnce, TakeTaskOnce, CheckOnce

\* Costs and counts of the tasks of a user, as the sums are over finite sets.
LEMMA CostType ==
    ASSUME TypeInv, NEW n \in Names
    PROVE  /\ Cost(n) \in [Tasks -> Int] /\ SumFunction(Cost(n)) \in Int
           /\ IsFiniteSet(SolvedBy(n)) /\ Cardinality(SolvedBy(n)) \in Nat
<1>1. Cost(n) \in [Tasks -> Int]
  BY DEF TypeInv, UsersTyped, Cost
<1>2. SolvedBy(n) \in SUBSET Tasks
  BY DEF SolvedBy
<1> HIDE DEF Cost
<1> QED BY <1>1, <1>2, SumType, FS_Subset, FS_CardinalityType, ServerAssumption

\* A check of a task that is not solved, of a user without overlapping ones.
LEMMA CheckScore ==
    ASSUME TypeInv, OnceOK, ScoreOK, Check
    PROVE  ScoreOK'
<1>1. /\ UNCHANGED doubled /\ chk.at = "check"
      /\ chk'.at \in {"solved", "reply"} /\ chk'.job = chk.job
  BY ScoreType DEF Check
<1>2. PICK n \in Names, t \in Tasks :
          n = chk.job.name /\ t = chk.job.task /\ chk.job \in Submission
  BY <1>1 DEF TypeInv, ChkTyped, Submission
<1>3. n \notin doubled => ~score[n][t].ok
  BY <1>1, <1>2 DEF OnceOK, Unscored
<1>4. \A m \in Names : ~Entering(m) /\ (Entering(m)' <=> chk'.at = "solved" /\ m = n)
  BY <1>1, <1>2 DEF Entering
<1>5. /\ user \in [Names -> [conn : Conns \cup {Null}, tasks : [Tasks -> Int],
                             solved : Nat, time : Int]]
      /\ score \in [Names -> [Tasks -> [fails : Nat, ok : BOOLEAN]]]
  BY DEF TypeInv, UsersTyped
<1>6. \/ /\ user' = Solved(n, t)
         /\ score' = [score EXCEPT ![n][t].ok = TRUE]
         /\ chk'.at = "solved"
      \/ /\ user' = [user EXCEPT ![n].tasks[t] = @ - 1]
         /\ score' = [score EXCEPT ![n][t].fails = @ + 1]
         /\ chk'.at = "reply"
      \/ UNCHANGED <<user, score>> /\ chk'.at = "reply"
  <2>1. chk \in [at : {"lock", "check", "solved"}, job : Submission]
    BY <1>1 DEF TypeInv, ChkTyped
  <2>2. ChkGoto("solved") => chk'.at = "solved"
    BY <2>1 DEF ChkGoto
  <2> QED BY <1>2, <2>2 DEF Check
<1>7. TypeInv'
  BY CheckerType DEF Checker
<1>8. \A m \in Names : m # n => user'[m] = user[m] /\ score'[m] = score[m]
  BY <1>2, <1>5, <1>6 DEF Solved
<1>9. ASSUME NEW m \in Names, m # n
      PROVE  SolvedBy(m)' = SolvedBy(m) /\ Cost(m)' = Cost(m)
  BY <1>8, <1>9 DEF SolvedBy, Cost
<1>10. ASSUME NEW m \in Names, m \notin doubled', m # n
       PROVE  /\ \A u \in Tasks :
                    user'[m].tasks[u] = IF score'[m][u].ok THEN score'[m][u].fails + 1
                                                           ELSE -score'[m][u].fails
              /\ user'[m].solved + (IF Entering(m)' THEN 1 ELSE 0)
                    = Cardinality(SolvedBy(m)')
              /\ user'[m].time = SumFunction(Cost(m)')
  BY <1>1, <1>4, <1>8, <1>9, <1>10 DEF ScoreOK
<1>11. ASSUME n \notin doubled'
       PROVE  /\ \A u \in Tasks :
                    user'[n].tasks[u] = IF score'[n][u].ok THEN score'[n][u].fails + 1
                                                           ELSE -score'[n][u].fails
              /\ user'[n].solved + (IF Entering(n)' THEN 1 ELSE 0)
                    = Cardinality(SolvedBy(n)')
              /\ user'[n].time = SumFunction(Cost(n)')
  <2>1. /\ ~score[n][t].ok /\ score[n][t].fails \in Nat
        /\ user[n].tasks[t] = -score[n][t].fails
        /\ user[n].solved = Cardinality(SolvedBy(n))
        /\ user[n].time = SumFunction(Cost(n))
        /\ \A u \in Tasks : user[n].tasks[u] = IF score[n][u].ok
                                THEN score[n][u].fails + 1 ELSE -score[n][u].fails
    BY <1>1, <1>2, <1>3, <1>4, <1>5, <1>11 DEF ScoreOK
  <2>2. /\ user[n].solved \in Nat /\ user[n].time \in Int
        /\ Cost(n) \in [Tasks -> Int] /\ SumFunction(Cost(n)) \in Int
        /\ IsFiniteSet(SolvedBy(n)) /\ Cardinality(SolvedBy(n)) \in Nat
    BY <1>2, <1>5, CostType
  <2>3. CASE UNCHANGED <<user, score>> /\ chk'.at = "reply"
    <3>1. SolvedBy(n)' = SolvedBy(n) /\ Cost(n)' = Cost(n)
      BY <2>3 DEF SolvedBy, Cost
    <3> QED BY <1>2, <1>4, <2>1, <2>2, <2>3, <3>1
  <2>4. CASE /\ user' = [user EXCEPT ![n].tasks[t] = @ - 1]
             /\ score' = [score EXCEPT ![n][t].fails = @ + 1]
             /\ chk'.at = "reply"
    <3>1. /\ user'[n].solved = user[n].solved /\ user'[n].time = user[n].time
          /\ user'[n].tasks[t] = user[n].tasks[t] - 1
          /\ \A u \in Tasks : u # t => user'[n].tasks[u] = user[n].tasks[u]
      BY <1>2, <1>5, <2>4
    <3>2. /\ score'[n][t].ok = score[n][t].ok
          /\ score'[n][t].fails = score[n][t].fails + 1
          /\ \A u \in Tasks : u # t => score'[n][u] = score[n][u]
      BY <1>2, <1>5, <2>4
    <3>3. SolvedBy(n)' = SolvedBy(n) /\ Cost(n)' = Cost(n)
      BY <2>1, <3>2 DEF SolvedBy, Cost
    <3>4. \A u \in Tasks :
              user'[n].tasks[u] = IF score'[n][u].ok THEN score'[n][u].fails + 1
                                                     ELSE -score'[n][u].fails
      <4> SUFFICES ASSUME NEW u \in Tasks
                   PROVE  user'[n].tasks[u] =
                             IF score'[n][u].ok THEN score'[n][u].fails + 1
                                                ELSE -score'[n][u].fails
        OBVIOUS
      <4>1. CASE u = t
        <5>1. ~score'[n][t].ok /\ user'[n].tasks[t] = -score'[n][t].fails
          BY <2>1, <3>1, <3>2
        <5> QED BY <4>1, <5>1
      <4>2. CASE u # t
        BY <2>1, <3>1, <3>2, <4>2
      <4> QED BY <4>1, <4>2
    <3>5. user'[n].solved + (IF Entering(n)' THEN 1 ELSE 0) = Cardinality(SolvedBy(n)')
      BY <1>2, <1>4, <2>1, <2>2, <2>4, <3>1, <3>3
    <3>6. user'[n].time = SumFunction(Cost(n)')
      BY <2>1, <3>1, <3>3
    <3> QED BY <3>4, <3>5, <3>6
  <2>5. CASE /\ user' = Solved(n, t)
             /\ score' = [score EXCEPT ![n][t].ok = TRUE]
             /\ chk'.at = "solved"
    <3>1. /\ user'[n].solved = user[n].solved
          /\ user'[n].tasks[t] = 1 - user[n].tasks[t]
          /\ user'[n].time = user[n].time + ((1 - user[n].tasks[t]) - 1) * 20
          /\ \A u \in Tasks : u # t => user'[n].tasks[u] = user[n].tasks[u]
      BY <1>2, <1>5, <2>5 DEF Solved
    <3>2. /\ score'[n][t].ok = TRUE
          /\ score'[n][t].fails = score[n][t].fails
          /\ \A u \in Tasks : u # t => score'[n][u] = score[n][u]
      BY <1>2, <1>5, <2>5
    <3>3. SolvedBy(n)' = SolvedBy(n) \cup {t} /\ t \notin SolvedBy(n)
      BY <1>2, <2>1, <3>2 DEF SolvedBy
    <3>4. Cardinality(SolvedBy(n)') = Cardinality(SolvedBy(n)) + 1
      BY <2>2, <3>3, FS_AddElement
    <3>5. /\ \A u \in Tasks \ {t} : Cost(n)[u] = Cost(n)'[u]
          /\ Cost(n)[t] = 0 /\ Cost(n)'[t] = 20 * score[n][t].fails
      BY <1>2, <2>1, <3>2 DEF Cost
    <3>6. Cost(n)' \in [Tasks -> Int]
      <4>1. \A u \in Tasks : score'[n][u].fails \in Nat
        BY <1>2, <1>7 DEF TypeInv, UsersTyped
      <4> QED BY <4>1 DEF Cost
    <3>7. SumFunction(Cost(n)') = SumFunction(Cost(n)) + 20 * score[n][t].fails
      <4> DEFINE e == Cost(n)
                 f == Cost(n)'
      <4>1. /\ e \in [Tasks -> Int] /\ f \in [Tasks -> Int] /\ IsFiniteSet(Tasks)
            /\ \A u \in Tasks \ {t} : e[u] = f[u]
            /\ e[t] = 0 /\ f[t] = 20 * score[n][t].fails
        BY <2>2, <3>5, <3>6, ServerAssumption
      <4> HIDE DEF e, f
      <4>2. SumFunction(f) = SumFunction(e) + (f[t] - e[t])
        BY <1>2, <4>1, SumChange
      <4>3. f[t] - e[t] = 20 * score[n][t].fails
        BY <2>1, <4>1
      <4> QED BY <4>2, <4>3 DEF e, f
    <3>8. \A u \in Tasks :
              user'[n].tasks[u] = IF score'[n][u].ok THEN score'[n][u].fails + 1
                                                     ELSE -score'[n][u].fails
      BY <2>1, <3>1, <3>2
    <3>9. user'[n].time = user[n].time + 20 * score[n][t].fails
      BY <2>1, <2>2, <3>1
    <3> QED BY <1>2, <1>4, <2>1, <2>2, <2>5, <3>1, <3>4, <3>7, <3>8, <3>9
  <2> QED BY <1>6, <2>3, <2>4, <2>5
<1>12. ASSUME NEW m \in Names, m \notin doubled'
       PROVE  /\ \A u \in Tasks :
                    user'[m].tasks[u] = IF score'[m][u].ok THEN score'[m][u].fails + 1
                                                           ELSE -score'[m][u].fails
              /\ user'[m].solved + (IF Entering(m)' THEN 1 ELSE 0)
                    = Cardinality(SolvedBy(m)')
              /\ user'[m].time = SumFunction(Cost(m)')
  <2>1. CASE m = n
    BY <1>11, <1>12, <2>1
  <2>2. CASE m # n
    BY <1>10, <1>12, <2>2
  <2> QED BY <2>1, <2>2
<1> QED BY <1>12 DEF ScoreOK

\* Each of the two writes of a result keeps the sums in step with the table.
LEMMA ScoreStep == TypeInv /\ OnceOK /\ ScoreOK /\ [Next]_vars => ScoreOK'
<1> SUFFICES ASSUME TypeInv, OnceOK, ScoreOK, [Next]_vars PROVE ScoreOK'
  OBVIOUS
<1>1. ASSUME UNCHANGED score, doubled \subseteq doubled',
             \A n \in Names : /\ user'[n].time = user[n].time
                              /\ user'[n].tasks = user[n].tasks
                              /\ user'[n].solved + (IF Entering(n)' THEN 1 ELSE 0)
                                    = user[n].solved + (IF Entering(n) THEN 1 ELSE 0)
      PROVE  ScoreOK'
  <2>1. \A n \in Names : SolvedBy(n)' = SolvedBy(n) /\ Cost(n)' = Cost(n)
    BY <1>1 DEF SolvedBy, Cost
  <2> QED BY <1>1, <2>1 DEF ScoreOK
<1>2. CASE UNCHANGED vars
  <2>1. UNCHANGED <<user, score, doubled, chk>>
    BY <1>2 DEF vars, users
  <2>2. \A n : Entering(n)' <=> Entering(n)
    BY <2>1 DEF Entering
  <2> QED BY <1>1, <2>1, <2>2
<1>3. CASE CountSolved
  <2>1. PICK m \in Names : m = chk.job.name
    BY <1>3 DEF CountSolved, TypeInv, ChkTyped, Submission
  <2>2. /\ user' = [user EXCEPT ![m].solved = @ + 1] /\ UNCHANGED <<score, doubled>>
        /\ chk.at = "solved" /\ chk'.at = "reply"
    BY <1>3, <2>1 DEF CountSolved
  <2>3. \A n \in Names : ~Entering(n)' /\ (Entering(n) <=> n = m)
    BY <2>1, <2>2 DEF Entering
  <2>4. /\ user'[m].solved = user[m].solved + 1 /\ user[m].solved \in Nat
        /\ user'[m].time = user[m].time /\ user'[m].tasks = user[m].tasks
        /\ \A n \in Names : n # m => user'[n] = user[n]
    BY <2>1, <2>2 DEF TypeInv, UsersTyped
  <2>5. \A n \in Names : user'[n].solved + 0 = user[n].solved + (IF n = m THEN 1 ELSE 0)
    BY <2>4 DEF TypeInv, UsersTyped
  <2>6. \A n \in Names : user'[n].solved + (IF Entering(n)' THEN 1 ELSE 0)
                            = user[n].solved + (IF Entering(n) THEN 1 ELSE 0)
    BY <2>3, <2>5
  <2> QED BY <1>1, <2>2, <2>4, <2>6
<1>4. CASE Next /\ ~Check /\ ~CountSolved
  <2>1. UNCHANGED score /\ doubled \subseteq doubled'
    BY <1>4 DEF Next, Network, Accept, Receive, Hangup, Find, AddUser, SortAfterAdd,
                Welcome, Refuse, Locked, Answer, Delete, AddTask, Checker, WaitForTasks,
                TakeTask, LockUser, Reply, SortSolved, Window, StartPass, CopyRow,
                LockReceiver, SendMonitor, EndPass, Client, Read, Confirm, Quit, Enter,
                PressSend, users
  <2>2. \A n \in Names : Entering(n)' <=> Entering(n)
    <3>1. CASE UNCHANGED chk
      BY <3>1 DEF Entering
    <3>2. CASE WaitForTasks \/ TakeTask \/ LockUser \/ Reply \/ SortSolved
      <4>1. chk.at # "solved"
        BY <3>2 DEF WaitForTasks, TakeTask, LockUser, Reply, SortSolved
      <4>2. CASE (TakeTask /\ queue # <<>>) \/ Reply
        <5>1. chk'.at # "solved"
          BY <4>2 DEF TakeTask, Reply, AfterReply
        <5> QED BY <4>1, <5>1 DEF Entering
      <4>3. CASE \E place \in {"wait", "drain", "check"} : ChkGoto(place)
        <5>1. chk'.at # "solved"
          BY <4>3 DEF ChkGoto, TypeInv, ChkTyped
        <5> QED BY <4>1, <5>1 DEF Entering
      <4> QED BY <3>2, <4>2, <4>3 DEF WaitForTasks, TakeTask, LockUser, SortSolved
    <3> QED BY <1>4, <3>1, <3>2
            DEF Next, Network, Accept, Receive, Hangup, Find, AddUser, SortAfterAdd,
                Welcome, Refuse, Locked, Answer, Delete, AddTask, Checker, Window,
                StartPass, CopyRow, LockReceiver, SendMonitor, EndPass, Client, Read,
                Confirm, Quit, Enter, PressSend
  <2>3. \A n \in Names : /\ user'[n].solved = user[n].solved
                         /\ user'[n].time = user[n].time
                         /\ user'[n].tasks = user[n].tasks
    BY <1>4, ResultsSame
  <2> QED BY <1>1, <2>1, <2>2, <2>3
<1> QED BY <1>2, <1>3, <1>4, CheckScore

\* The submissions and the sums are right in every reachable state.
LEMMA Scores == Spec => [](TypeInv /\ OnceOK /\ ScoreOK)
<1> DEFINE Inv == TypeInv /\ OnceOK /\ ScoreOK
<1>1. Init => Inv
  BY TypeInit, ScoreInit
<1>2. Inv /\ [Next]_vars => Inv'
  BY TypeStep, OnceStep, ScoreStep
<1> QED BY <1>1, <1>2, PTL DEF Spec

\* A score is what the checks add up to, for a user no two of whose submissions
\* of a task were pending at once: its failures, its attempts, the number of its
\* solved tasks and its penalties, in whatever order the threads run.
THEOREM ScoresAddUp == Spec => []ScoreTrue
<1>1. TypeInv /\ ScoreOK => ScoreTrue
  <2> SUFFICES ASSUME TypeInv, ScoreOK, NEW n \in Names, n \notin doubled,
                      ~(chk.at = "solved" /\ chk.job.name = n)
               PROVE  /\ \A t \in Tasks : user[n].tasks[t] =
                             IF score[n][t].ok THEN score[n][t].fails + 1
                                               ELSE -score[n][t].fails
                      /\ user[n].solved = Cardinality({t \in Tasks : score[n][t].ok})
                      /\ user[n].time = SumFunction(
                            [t \in Tasks |-> IF score[n][t].ok
                                               THEN 20 * score[n][t].fails ELSE 0])
    BY DEF ScoreTrue
  <2>1. user[n].solved \in Nat
    BY DEF TypeInv, UsersTyped
  <2>2. /\ \A t \in Tasks : user[n].tasks[t] = IF score[n][t].ok
                                THEN score[n][t].fails + 1 ELSE -score[n][t].fails
        /\ user[n].solved + (IF Entering(n) THEN 1 ELSE 0) = Cardinality(SolvedBy(n))
        /\ user[n].time = SumFunction(Cost(n))
    BY DEF ScoreOK
  <2>3. ~Entering(n)
    BY DEF Entering
  <2>4. user[n].solved = Cardinality(SolvedBy(n))
    BY <2>1, <2>2, <2>3
  <2> QED BY <2>2, <2>4 DEF SolvedBy, Cost
<1> QED BY <1>1, Scores, PTL

-----------------------------------------------------------------------------
(* The monitor and the backup.                                              *)

\* The rows copied so far are those of the first users of the list, each copied
\* when nobody was entering a result of that user.
Whole(row, except) ==
    row.name \notin except =>
        row.solved = Cardinality({t \in Tasks : row.tasks[t] > 0})

RowsOK ==
    gui.at # "idle" =>
        \A i \in DOMAIN gui.rows :
            gui.rows[i].name = order[i] /\ Whole(gui.rows[i], doubled)

\* Before the first refresh the window has copied no row.
LEMMA RowsInit == Init => RowsOK
  BY DEF Init, RowsOK

\* With its lock free, a user's result is entered completely.
LEMMA RowRight ==
    ASSUME TypeInv, LocksOK, ScoreOK, NEW n \in Names, Free(userLock[n]), n \notin doubled
    PROVE  user[n].solved = Cardinality({t \in Tasks : user[n].tasks[t] > 0})
<1>1. ~Entering(n)
  BY ServerAssumption DEF LocksOK, Entering, Free
<1>2. user[n].solved \in Nat /\ \A t \in Tasks : score[n][t].fails \in Nat
  BY DEF TypeInv, UsersTyped
<1>3. {t \in Tasks : user[n].tasks[t] > 0} = SolvedBy(n)
  <2>1. \A t \in Tasks : /\ score[n][t].fails \in Nat
                         /\ user[n].tasks[t] = IF score[n][t].ok
                                THEN score[n][t].fails + 1 ELSE -score[n][t].fails
    BY <1>2 DEF ScoreOK
  <2>2. \A t \in Tasks : user[n].tasks[t] > 0 <=> score[n][t].ok
    BY <2>1
  <2> QED BY <2>2 DEF SolvedBy
<1>4. user[n].solved + (IF Entering(n) THEN 1 ELSE 0) = Cardinality(SolvedBy(n))
  BY DEF ScoreOK
<1>5. user[n].solved = Cardinality(SolvedBy(n))
  BY <1>1, <1>2, <1>4
<1> QED BY <1>3, <1>5

\* A row is copied under the mutex of the users, so never from a user between
\* the two writes of a result.
LEMMA RowsStep ==
    ASSUME TypeInv, LocksOK, ScoreOK, RowsOK, [Next]_vars
    PROVE  RowsOK'
<1>1. doubled \subseteq doubled'
  BY DEF Next, vars, Network, Accept, Receive, Hangup, Find, AddUser, SortAfterAdd,
         Welcome, Refuse, Locked, Answer, Delete, AddTask, Checker, WaitForTasks,
         TakeTask, LockUser, Check, CountSolved, Reply, SortSolved, Window, StartPass,
         CopyRow, LockReceiver, SendMonitor, EndPass, Client, Read, Confirm, Quit, Enter,
         PressSend, users
<1>2. gui.at # "idle" => UNCHANGED order
  BY ListStays
<1>3. CASE gui'.at = "idle"
  BY <1>3 DEF RowsOK
<1>4. CASE gui.at # "idle" /\ gui'.rows = gui.rows
  <2>1. \A row : Whole(row, doubled) => Whole(row, doubled')
    BY <1>1 DEF Whole
  <2> QED BY <1>2, <1>4, <2>1 DEF RowsOK
<1>5. CASE UNCHANGED gui
  BY <1>3, <1>4, <1>5
<1>6. CASE StartPass
  BY <1>6 DEF StartPass, RowsOK
<1>7. CASE EndPass
  BY <1>3, <1>7 DEF EndPass
<1>8. gui.at \in {"rows", "send"} =>
          /\ gui \in Passes /\ gui.n = Len(order)
          /\ Len(gui.rows) = IF gui.i <= gui.n THEN gui.i - 1 ELSE gui.n
  BY DEF TypeInv, GuiTyped, Passes
<1>9. CASE LockReceiver \/ SendMonitor
  <2>1. gui \in Passes
    BY <1>8, <1>9 DEF LockReceiver, SendMonitor
  <2>2. \/ gui' = [gui EXCEPT !.i = @ + 1]
        \/ gui' = [gui EXCEPT !.at = "send"]
        \/ gui' = [gui EXCEPT !.at = "rows", !.i = @ + 1]
    BY <1>9 DEF LockReceiver, SendMonitor
  <2>3. gui'.rows = gui.rows
    BY <2>1, <2>2 DEF Passes
  <2> QED BY <1>4, <1>9, <2>3 DEF LockReceiver, SendMonitor
<1>10. CASE CopyRow
  <2>1. /\ gui \in Passes /\ gui.n = Len(order) /\ gui.i <= gui.n
        /\ Len(gui.rows) = gui.i - 1 /\ gui.at = "rows"
    BY <1>8, <1>10 DEF CopyRow
  <2>2. order \in Seq(Names)
    BY DEF TypeInv, UsersTyped
  <2>3. gui.i \in 1..Len(order)
    BY <2>1, <2>2 DEF Passes
  <2>4. PICK n \in Names : n = order[gui.i]
    BY <2>2, <2>3
  <2> DEFINE row == [name |-> n, tasks |-> user[n].tasks, solved |-> user[n].solved]
  <2>5. /\ Free(userLock[n])
        /\ gui' = [gui EXCEPT !.i = @ + 1, !.rows = Append(@, row)]
        /\ UNCHANGED <<order, doubled>>
    BY <1>10, <2>4 DEF CopyRow, RowReadable, users
  <2>6. row.name = order[gui.i] /\ row.tasks = user[n].tasks /\ row.solved = user[n].solved
    BY <2>4
  <2>7. row \in RowType
    BY DEF TypeInv, UsersTyped, RowType
  <2>8. Whole(row, doubled)
    BY <2>4, <2>5, <2>6, RowRight DEF Whole
  <2> HIDE DEF row
  <2>9. gui'.rows = Append(gui.rows, row) /\ gui.rows \in Seq(RowType)
    BY <2>1, <2>5 DEF Passes
  <2>10. /\ DOMAIN gui'.rows = DOMAIN gui.rows \cup {gui.i}
         /\ gui'.rows[gui.i] = row
         /\ \A i \in DOMAIN gui.rows : gui'.rows[i] = gui.rows[i]
    <3>1. Len(gui.rows) + 1 = gui.i
      BY <2>1, <2>3
    <3> QED BY <2>7, <2>9, <3>1
  <2>11. ASSUME NEW i \in DOMAIN gui'.rows
         PROVE  gui'.rows[i].name = order'[i] /\ Whole(gui'.rows[i], doubled')
    <3>1. CASE i = gui.i
      BY <2>5, <2>6, <2>8, <2>10, <3>1
    <3>2. CASE i \in DOMAIN gui.rows
      BY <2>1, <2>5, <2>10, <3>2 DEF RowsOK
    <3> QED BY <2>10, <3>1, <3>2
  <2> QED BY <2>11 DEF RowsOK
<1> QED BY <1>5, <1>6, <1>7, <1>9, <1>10
        DEF Next, vars, Network, Accept, Receive, Hangup, Find, AddUser, SortAfterAdd,
            Welcome, Refuse, Locked, Answer, Delete, AddTask, Checker, WaitForTasks,
            TakeTask, LockUser, Check, CountSolved, Reply, SortSolved, Window, Client,
            Read, Confirm, Quit, Enter, PressSend

\* A monitor or a backup has every user once, in the order of the list, and no
\* row of a user whose result is half written, although the checker scores and
\* the list is waited for while it is made.
THEOREM RowsAreWhole == Spec => []RowsWhole
<1>1. TypeInv /\ RowsOK => RowsWhole
  BY DEF TypeInv, GuiTyped, RowsOK, RowsWhole, Whole
<1>2. Spec => []RowsOK
  BY RowsInit, RowsStep, Scores, LocksHeld, PTL DEF Spec
<1> QED BY <1>1, <1>2, Types, PTL

=============================================================================
