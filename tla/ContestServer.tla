---------------------------- MODULE ContestServer ----------------------------
(***************************************************************************)
(* The server of sequence2 and its clients.  The server has three threads  *)
(* that share the list of users: the network thread, which serves every    *)
(* connection; the checker, which drains a queue of submissions; and the   *)
(* window's thread ("gui"), which publishes the monitor and writes the     *)
(* backup on a timer.  They are kept apart by one lock on the list and one *)
(* lock per user.  A Send blocks, with whatever locks its thread holds,    *)
(* while the client's end of the connection is full.                       *)
(*                                                                         *)
(* A client logs in once per connection, and reads in a thread of its own  *)
(* that stops at every message box until the contestant has confirmed it.  *)
(*                                                                         *)
(* Packets are whole here (PacketSocket has a module of its own), the      *)
(* minutes of a contest are left out of its penalties, and the backup file *)
(* is written but never read.                                              *)
(***************************************************************************)
EXTENDS Integers, FiniteSets, Sequences, Functions

CONSTANTS
    Names,        \* names under which contestants register
    Conns,        \* connections ever made
    Tasks,        \* tasks of the contest
    Null,         \* no connection, and no owner of a lock
    Capacity,     \* packets a connection holds towards the client
    LargeSources, \* a source is larger than what a connection holds
    MaxSubmits,   \* bound: submissions ever sent
    MaxPasses,    \* bound: passes of the window's thread over the users
    MaxQuits      \* bound: clients ever closed by their contestant

ASSUME ServerAssumption ==
    /\ Null \notin Conns /\ Null \notin {"net", "chk", "gui"}
    /\ IsFiniteSet(Tasks)
    /\ Capacity \in Nat \ {0} /\ LargeSources \in BOOLEAN
    /\ MaxSubmits \in Nat /\ MaxPasses \in Nat /\ MaxQuits \in Nat

VARIABLES
    order,    \* smUsers: the registered names, in the order of the monitor
    user,     \* user[n]: the User
    listLock, \* who holds smUserListAccessCriticalSection across a step
    userLock, \* userLock[n]: who holds the user's mLock across a step
    queue,    \* the checker's mTasks
    event,    \* mNewTasksEvent, an auto-reset event
    net,      \* the network thread
    chk,      \* the checker's thread
    gui,      \* the window's thread
    link,     \* link[c]: the server's end of the connection
    toServer, \* toServer[c]: packets on their way to the server
    inbox,    \* inbox[c]: packets on their way to the client
    client,   \* client[c]: the client program
    count,    \* submissions, passes and quits so far
    score,    \* history: score[n][t]: what the checker has found of a task
    doubled   \* history: users two of whose submissions of a task overlapped

users == <<order, user, listLock, userLock, score, doubled>>
wires == <<link, toServer, inbox, client>>
vars  == <<users, queue, event, net, chk, gui, wires, count>>

NewUser  == [conn |-> Null, tasks |-> [t \in Tasks |-> 0], solved |-> 0, time |-> 0]
Selects  == [at |-> "select"]
Submission == [name : Names, task : Tasks]

Init ==
    /\ order = <<>>
    /\ user = [n \in Names |-> NewUser]
    /\ listLock = Null
    /\ userLock = [n \in Names |-> Null]
    /\ queue = <<>> /\ event = FALSE
    /\ net = Selects
    /\ chk = [at |-> "wait"]
    /\ gui = [at |-> "idle"]
    /\ link = [c \in Conns |-> "none"]
    /\ toServer = [c \in Conns |-> <<>>]
    /\ inbox = [c \in Conns |-> <<>>]
    /\ client = [c \in Conns |-> [at |-> "none", send |-> FALSE, box |-> "none"]]
    /\ count = [submits |-> 0, passes |-> 0, quits |-> 0]
    /\ score = [n \in Names |-> [t \in Tasks |-> [fails |-> 0, ok |-> FALSE]]]
    /\ doubled = {}

\* PacketSocket.Send returns at once if the client has closed its end.
CanSend(c) == link[c] # "open" \/ Len(inbox[c]) < Capacity

Sent(c, packet) ==
    inbox' = IF link[c] = "open" THEN [inbox EXCEPT ![c] = Append(@, packet)]
                                 ELSE inbox

Free(lock) == lock = Null

\* SortCompare: more solved first, then less time.  std::sort leaves equal
\* users in any order.
Before(m, n) ==
    \/ user[m].solved > user[n].solved
    \/ user[m].solved = user[n].solved /\ user[m].time < user[n].time

IsSorted(s) == \A i, j \in DOMAIN s : i < j => ~Before(s[j], s[i])

Sorted == {s \in [DOMAIN order -> Range(order)] :
              Range(s) = Range(order) /\ IsSorted(s)}

SortUsers == Free(listLock) /\ order' \in Sorted
-----------------------------------------------------------------------------
(* The network thread.  FindUser, AddUser and SortUsers take the list lock  *)
(* and let it go, so they are steps that need it free.                      *)

NetGoto(place) == net' = [net EXCEPT !.at = place]

\* A connection is made and accepted.
Accept(c) ==
    /\ net.at = "select" /\ link[c] = "none"
    /\ link' = [link EXCEPT ![c] = "open"]
    /\ client' = [client EXCEPT ![c].at = "dialog"]
    /\ UNCHANGED <<users, queue, event, net, chk, gui, toServer, inbox, count>>

Receive(c) ==
    /\ net.at = "select" /\ toServer[c] # <<>>
    /\ net' = [at |-> "find", conn |-> c, packet |-> Head(toServer[c])]
    /\ toServer' = [toServer EXCEPT ![c] = Tail(@)]
    /\ UNCHANGED <<users, queue, event, chk, gui, link, inbox, client, count>>

\* ProcessConnection finds nothing more to read.
Hangup(c) ==
    /\ net.at = "select" /\ link[c] = "shut" /\ toServer[c] = <<>>
    /\ net' = [at |-> "find", conn |-> c, packet |-> [kind |-> "close"]]
    /\ UNCHANGED <<users, queue, event, chk, gui, wires, count>>

\* FindUser by connection finds the first user that has it.
Bound(c) == {i \in DOMAIN order : user[order[i]].conn = c}
FirstBound(c) == order[CHOOSE i \in Bound(c) : \A j \in Bound(c) : i <= j]

\* Mutant of Known: the user is looked for by the connection only.
KnownByConn(packet, c) == Bound(c) # {}

Known(packet, c) ==
    IF packet.kind \in {"register", "login"} THEN packet.name \in Range(order)
                                             ELSE Bound(c) # {}

Find ==
    /\ net.at = "find" /\ Free(listLock)
    /\ LET kind == net.packet.kind
       IN  IF Known(net.packet, net.conn)
             THEN NetGoto(IF kind = "register" THEN "refuse" ELSE "lock")
             ELSE CASE kind = "register" -> NetGoto("add")
                    [] kind = "login" -> NetGoto("refuse")
                    [] kind = "task" -> net' = Selects
                    [] kind = "close" -> NetGoto("delete")
    /\ UNCHANGED <<users, queue, event, chk, gui, wires, count>>

AddUser ==
    /\ net.at = "add" /\ Free(listLock)
    /\ order' = Append(order, net.packet.name)
    /\ user' = [user EXCEPT ![net.packet.name].conn = net.conn]
    /\ NetGoto("sort")
    /\ UNCHANGED <<listLock, userLock, score, doubled, queue, event, chk, gui,
                   wires, count>>

SortAfterAdd ==
    /\ net.at = "sort"
    /\ SortUsers
    /\ NetGoto("welcome")
    /\ UNCHANGED <<user, listLock, userLock, score, doubled, queue, event, chk,
                   gui, wires, count>>

\* A message box at the client, then the list of tasks, which lets it send.
Welcome ==
    /\ net.at \in {"welcome", "tasks"} /\ CanSend(net.conn)
    /\ \/ net.at = "welcome" /\ Sent(net.conn, "login") /\ NetGoto("tasks")
       \/ net.at = "tasks" /\ Sent(net.conn, "tasks") /\ net' = Selects
    /\ UNCHANGED <<users, queue, event, chk, gui, link, toServer, client, count>>

Refuse ==
    /\ net.at = "refuse" /\ CanSend(net.conn)
    /\ Sent(net.conn, "disconnect")
    /\ net' = Selects
    /\ UNCHANGED <<users, queue, event, chk, gui, link, toServer, client, count>>

\* The user the network thread works on, once FindUser has returned it.
Target == IF net.packet.kind = "login" THEN net.packet.name
                                       ELSE FirstBound(net.conn)

\* Mutant of Accepted: the check is for a task already tried.
AcceptedUntried(n, t) == user[n].tasks[t] < 0

\* OnTask: a task that is already solved is not taken.
Accepted(n, t) == user[n].tasks[t] > 0

\* Mutant of Unbind: the user keeps the connection.
UnbindNot(n) == user' = user

Unbind(n) == user' = [user EXCEPT ![n].conn = Null]

\* Submissions being checked, or waiting for it.
Pending(job) ==
    \/ job \in Range(queue)
    \/ chk.at \in {"lock", "check", "solved", "reply"} /\ chk.job = job

\* What the network thread does with the user locked: a wrong password and a
\* task already solved are answered with the lock held.
Locked ==
    /\ net.at = "lock" /\ Free(userLock[Target])
    /\ LET n == Target
           answer(message) ==
               /\ userLock' = [userLock EXCEPT ![n] = "net"]
               /\ net' = [at |-> "answer", conn |-> net.conn, name |-> n,
                          message |-> message]
               /\ UNCHANGED <<user, doubled>>
       IN  \/ /\ net.packet.kind = "login" /\ net.packet.right
              /\ user' = [user EXCEPT ![n].conn = net.conn]
              /\ NetGoto("welcome")
              /\ UNCHANGED <<userLock, doubled>>
           \/ /\ net.packet.kind = "login" /\ ~net.packet.right
              /\ answer("disconnect")
           \/ /\ net.packet.kind = "task" /\ Accepted(n, net.packet.task)
              /\ answer("task")
           \/ /\ net.packet.kind = "task" /\ ~Accepted(n, net.packet.task)
              /\ LET job == [name |-> n, task |-> net.packet.task]
                 IN  /\ net' = [at |-> "push", job |-> job]
                     /\ doubled' = IF Pending(job) THEN doubled \cup {n} ELSE doubled
              /\ UNCHANGED <<user, userLock>>
           \/ /\ net.packet.kind = "close"
              /\ Unbind(n)
              /\ NetGoto("delete")
              /\ UNCHANGED <<userLock, doubled>>
    /\ UNCHANGED <<order, listLock, score, queue, event, chk, gui,
                   wires, count>>

\* Mutant of Answer: a task already solved is not answered.
AnswerSilent ==
    /\ net.at = "answer"
    /\ userLock' = [userLock EXCEPT ![net.name] = Null]
    /\ net' = Selects
    /\ UNCHANGED <<order, user, listLock, score, doubled, queue, event, chk, gui,
                   wires, count>>

Answer ==
    /\ net.at = "answer" /\ CanSend(net.conn)
    /\ Sent(net.conn, net.message)
    /\ userLock' = [userLock EXCEPT ![net.name] = Null]
    /\ net' = Selects
    /\ UNCHANGED <<order, user, listLock, score, doubled, queue, event, chk, gui,
                   link, toServer, client, count>>

Delete ==
    /\ net.at = "delete"
    /\ link' = [link EXCEPT ![net.conn] = "deleted"]
    /\ net' = Selects
    /\ UNCHANGED <<users, queue, event, chk, gui, toServer, inbox, client, count>>

\* Mutant of AddTask: the event is set before the submission is in the queue.
AddTaskSignalFirst ==
    /\ \/ /\ net.at = "push"
          /\ event' = TRUE
          /\ NetGoto("signal")
          /\ UNCHANGED queue
       \/ /\ net.at = "signal"
          /\ queue' = Append(queue, net.job)
          /\ net' = Selects
          /\ UNCHANGED event
    /\ UNCHANGED <<users, chk, gui, wires, count>>

\* Checker::AddTask: the queue has a lock of its own, and the event comes last.
AddTask ==
    /\ \/ /\ net.at = "push"
          /\ queue' = Append(queue, net.job)
          /\ NetGoto("signal")
          /\ UNCHANGED event
       \/ /\ net.at = "signal"
          /\ event' = TRUE
          /\ net' = Selects
          /\ UNCHANGED queue
    /\ UNCHANGED <<users, chk, gui, wires, count>>

Network ==
    \/ \E c \in Conns : Accept(c) \/ Receive(c) \/ Hangup(c)
    \/ Find \/ AddUser \/ SortAfterAdd \/ Welcome \/ Refuse
    \/ Locked \/ Answer \/ Delete \/ AddTask
-----------------------------------------------------------------------------
(* The checker's thread.  It holds the user's lock for the whole check.     *)

ChkGoto(place) == chk' = [chk EXCEPT !.at = place]

WaitForTasks ==
    /\ chk.at = "wait" /\ event
    /\ event' = FALSE
    /\ ChkGoto("drain")
    /\ UNCHANGED <<users, queue, net, gui, wires, count>>

TakeTask ==
    /\ chk.at = "drain"
    /\ IF queue = <<>>
         THEN ChkGoto("wait") /\ UNCHANGED queue
         ELSE /\ chk' = [at |-> "lock", job |-> Head(queue)]
              /\ queue' = Tail(queue)
    /\ UNCHANGED <<users, event, net, gui, wires, count>>

LockUser ==
    /\ chk.at = "lock" /\ Free(userLock[chk.job.name])
    /\ userLock' = [userLock EXCEPT ![chk.job.name] = "chk"]
    /\ ChkGoto("check")
    /\ UNCHANGED <<order, user, listLock, score, doubled, queue, event, net, gui,
                   wires, count>>

\* OnCheckResult of eCheckOk: the number of failures, kept negative, turns into
\* the number of attempts, and each failure costs 20 minutes.
Solved(n, t) ==
    LET attempts == 1 - user[n].tasks[t]
    IN  [user EXCEPT ![n].tasks[t] = attempts,
                     ![n].time = @ + (attempts - 1) * 20]

\* OnCheckResult: the first writes of a solved task, a failure, or a compile or
\* internal error, which leaves the user alone.
Check ==
    /\ chk.at = "check"
    /\ LET n == chk.job.name
           t == chk.job.task
       IN  \/ /\ user' = Solved(n, t)
              /\ score' = [score EXCEPT ![n][t].ok = TRUE]
              /\ ChkGoto("solved")
           \/ /\ user' = [user EXCEPT ![n].tasks[t] = @ - 1]
              /\ score' = [score EXCEPT ![n][t].fails = @ + 1]
              /\ chk' = [at |-> "reply", job |-> chk.job, sort |-> FALSE]
           \/ /\ chk' = [at |-> "reply", job |-> chk.job, sort |-> FALSE]
              /\ UNCHANGED <<user, score>>
    /\ UNCHANGED <<order, listLock, userLock, doubled, queue, event, net, gui,
                   wires, count>>

CountSolved ==
    /\ chk.at = "solved"
    /\ user' = [user EXCEPT ![chk.job.name].solved = @ + 1]
    /\ chk' = [at |-> "reply", job |-> chk.job, sort |-> TRUE]
    /\ UNCHANGED <<order, listLock, userLock, score, doubled, queue, event, net,
                   gui, wires, count>>

\* Mutant of AfterReply: the users are not sorted.
AfterReplyUnsorted == [at |-> "drain"]

AfterReply == IF chk.sort THEN [at |-> "sort"] ELSE [at |-> "drain"]

\* The answer goes to the connection the user has now; then Unlock.
Reply ==
    /\ chk.at = "reply"
    /\ LET c == user[chk.job.name].conn
       IN  IF c = Null THEN UNCHANGED inbox ELSE CanSend(c) /\ Sent(c, "task")
    /\ userLock' = [userLock EXCEPT ![chk.job.name] = Null]
    /\ chk' = AfterReply
    /\ UNCHANGED <<order, user, listLock, score, doubled, queue, event, net, gui,
                   link, toServer, client, count>>

\* Mutant of SortSolved: the list is sorted without its lock.
SortSolvedUnlocked ==
    /\ chk.at = "sort"
    /\ order' \in Sorted
    /\ ChkGoto("drain")
    /\ UNCHANGED <<user, listLock, userLock, score, doubled, queue, event, net,
                   gui, wires, count>>

SortSolved ==
    /\ chk.at = "sort"
    /\ SortUsers
    /\ ChkGoto("drain")
    /\ UNCHANGED <<user, listLock, userLock, score, doubled, queue, event, net,
                   gui, wires, count>>

Checker ==
    \/ WaitForTasks \/ TakeTask \/ LockUser \/ Check \/ CountSolved \/ Reply
    \/ SortSolved
-----------------------------------------------------------------------------
(* The window's thread: SendMonitor, and MakeBackup or _RefreshUserList,    *)
(* which do the same without sending.  The list lock is held throughout.    *)

StartPass ==
    /\ gui.at = "idle" /\ count.passes < MaxPasses /\ Free(listLock)
    /\ listLock' = "gui"
    /\ count' = [count EXCEPT !.passes = @ + 1]
    /\ \E sends \in BOOLEAN :
          gui' = [at |-> "rows", sends |-> sends, i |-> 1, n |-> Len(order),
                  rows |-> <<>>]
    /\ UNCHANGED <<order, user, userLock, score, doubled, queue, event, net, chk,
                   wires>>

\* Mutant of RowReadable: the user's lock is not taken.
RowReadableAlways(n) == n \in Names

RowReadable(n) == Free(userLock[n])

CopyRow ==
    /\ gui.at = "rows" /\ gui.i <= gui.n
    /\ LET n == order[gui.i]
       IN  /\ RowReadable(n)
           /\ gui' = [gui EXCEPT !.i = @ + 1,
                         !.rows = Append(@, [name |-> n, tasks |-> user[n].tasks,
                                             solved |-> user[n].solved])]
    /\ UNCHANGED <<users, queue, event, net, chk, wires, count>>

\* The second loop sends the monitor, each time with the user locked.
LockReceiver ==
    /\ gui.at = "rows" /\ gui.i > gui.n /\ gui.sends
    /\ \E i \in 1..gui.n :
          /\ i = gui.i - gui.n
          /\ Free(userLock[order[i]])
          /\ IF user[order[i]].conn = Null
               THEN gui' = [gui EXCEPT !.i = @ + 1] /\ UNCHANGED userLock
               ELSE /\ userLock' = [userLock EXCEPT ![order[i]] = "gui"]
                    /\ gui' = [gui EXCEPT !.at = "send"]
    /\ UNCHANGED <<order, user, listLock, score, doubled, queue, event, net, chk,
                   wires, count>>

SendMonitor ==
    /\ gui.at = "send"
    /\ LET n == order[gui.i - gui.n]
       IN  /\ CanSend(user[n].conn)
           /\ Sent(user[n].conn, "monitor")
           /\ userLock' = [userLock EXCEPT ![n] = Null]
    /\ gui' = [gui EXCEPT !.at = "rows", !.i = @ + 1]
    /\ UNCHANGED <<order, user, listLock, score, doubled, queue, event, net, chk,
                   link, toServer, client, count>>

EndPass ==
    /\ gui.at = "rows"
    /\ gui.i > IF gui.sends THEN 2 * gui.n ELSE gui.n
    /\ listLock' = Null
    /\ gui' = [at |-> "idle"]
    /\ UNCHANGED <<order, user, userLock, score, doubled, queue, event, net, chk,
                   wires, count>>

Window == StartPass \/ CopyRow \/ LockReceiver \/ SendMonitor \/ EndPass
-----------------------------------------------------------------------------
(* The clients.                                                             *)

\* The client's window is inside a Send that the server does not take.
InSend(c) == LargeSources /\ \E i \in DOMAIN toServer[c] : toServer[c][i].kind = "task"

\* The dialog shown after connecting: one registration or one login.
Enter(c, n) ==
    /\ client[c].at = "dialog"
    /\ \E p \in [kind : {"register"}, name : {n}]
                \cup [kind : {"login"}, name : {n}, right : BOOLEAN] :
          toServer' = [toServer EXCEPT ![c] = Append(@, p)]
    /\ client' = [client EXCEPT ![c].at = "entered"]
    /\ UNCHANGED <<users, queue, event, net, chk, gui, link, inbox, count>>

\* The reading thread: every message is a box, whose owner is the window, so
\* nothing can be sent meanwhile.
Read(c) ==
    /\ client[c].at \in {"entered", "sent"} /\ client[c].box = "none"
    /\ inbox[c] # <<>> /\ ~InSend(c)
    /\ inbox' = [inbox EXCEPT ![c] = Tail(@)]
    /\ client' = CASE Head(inbox[c]) = "tasks" -> [client EXCEPT ![c].send = TRUE]
                   [] Head(inbox[c]) = "monitor" -> client
                   [] OTHER -> [client EXCEPT ![c].box = Head(inbox[c])]
    /\ UNCHANGED <<users, queue, event, net, chk, gui, link, toServer, count>>

\* The client's end is closed: what the server still sends is lost.
Leave(c) ==
    /\ link' = [link EXCEPT ![c] = "shut"]
    /\ inbox' = [inbox EXCEPT ![c] = <<>>]
    /\ client' = [client EXCEPT ![c] = [at |-> "gone", send |-> FALSE, box |-> "none"]]

Confirm(c) ==
    /\ client[c].box # "none"
    /\ IF client[c].box = "disconnect"
         THEN Leave(c)
         ELSE /\ client' = [client EXCEPT ![c].box = "none",
                               ![c].send = @ \/ client[c].box = "task",
                               ![c].at = IF client[c].box = "task" THEN "entered" ELSE @]
              /\ UNCHANGED <<link, inbox>>
    /\ UNCHANGED <<users, queue, event, net, chk, gui, toServer, count>>

PressSend(c, t) ==
    /\ client[c].send /\ client[c].box = "none" /\ count.submits < MaxSubmits
    /\ count' = [count EXCEPT !.submits = @ + 1]
    /\ client' = [client EXCEPT ![c].send = FALSE, ![c].at = "sent"]
    /\ toServer' = [toServer EXCEPT ![c] = Append(@, [kind |-> "task", task |-> t])]
    /\ UNCHANGED <<users, queue, event, net, chk, gui, link, inbox>>

\* The contestant closes the client, or cancels its dialog.
Quit(c) ==
    /\ client[c].at \in {"dialog", "entered", "sent"} /\ count.quits < MaxQuits
    /\ Leave(c)
    /\ count' = [count EXCEPT !.quits = @ + 1]
    /\ UNCHANGED <<users, queue, event, net, chk, gui, toServer>>

Client(c) == Read(c) \/ Confirm(c)

Next ==
    \/ Network \/ Checker \/ Window
    \/ \E c \in Conns :
          \/ Client(c) \/ Quit(c)
          \/ \E n \in Names : Enter(c, n)
          \/ \E t \in Tasks : PressSend(c, t)

Spec == Init /\ [][Next]_vars

\* Threads run; checks end; contestants confirm the boxes they are shown.
FairSpec ==
    /\ Spec
    /\ WF_vars(Network) /\ WF_vars(Checker) /\ WF_vars(Window)
    /\ \A c \in Conns : WF_vars(Client(c))
-----------------------------------------------------------------------------
(* Properties *)

Messages == {"login", "tasks", "disconnect", "task", "monitor"}

\* The variables have their types.
TypeOK ==
    /\ order \in Seq(Names) /\ IsInjective(order)
    /\ \A n \in Names : /\ user[n].conn \in Conns \cup {Null}
                        /\ user[n].tasks \in [Tasks -> Int]
                        /\ user[n].solved \in Nat /\ user[n].time \in Int
    /\ listLock \in {Null, "gui"}
    /\ userLock \in [Names -> {Null, "net", "chk", "gui"}]
    /\ queue \in Seq(Submission) /\ event \in BOOLEAN
    /\ link \in [Conns -> {"none", "open", "shut", "deleted"}]
    /\ \A c \in Conns : Len(inbox[c]) <= Capacity /\ inbox[c] \in Seq(Messages)
    /\ \A c \in Conns : client[c].box \in Messages \cup {"none"}

\* No thread can reach a connection that has been deleted: a user's connection
\* is cleared, with its lock, before the network thread deletes it.
NoUseAfterDelete ==
    \A n \in Names : user[n].conn # Null => link[user[n].conn] # "deleted"

\* A score is what the checks add up to, if no two submissions of a task were
\* pending at once: a task shows its failures, or its attempts once solved;
\* solved and time count the solved ones (OnCheckResult's signs, and OnTask's
\* refusal of a task that is solved).
ScoreTrue ==
    \A n \in Names :
        n \notin doubled /\ ~(chk.at = "solved" /\ chk.job.name = n) =>
            LET s == score[n]
                solved == {t \in Tasks : s[t].ok}
                cost == [t \in Tasks |-> IF s[t].ok THEN 20 * s[t].fails ELSE 0]
            IN  /\ \A t \in Tasks : user[n].tasks[t] =
                                        IF s[t].ok THEN s[t].fails + 1 ELSE -s[t].fails
                /\ user[n].solved = Cardinality(solved)
                /\ user[n].time = SumFunction(cost)

\* A monitor or a backup has every user once, in the order of the list, and no
\* row of a user whose result is half written, although the checker scores and
\* sorts while it is made.
RowsWhole ==
    gui.at # "idle" =>
        /\ gui.n = Len(order)
        /\ \A i \in DOMAIN gui.rows :
              LET row == gui.rows[i]
              IN  /\ row.name = order[i]
                  /\ row.name \notin doubled =>
                        row.solved = Cardinality({t \in Tasks : row.tasks[t] > 0})

\* The places are right, except while a result is being entered: only a solved
\* task and a new user call for a sort.
BoardSorted ==
    chk.at \notin {"solved", "reply", "sort"} /\ net.at # "sort" => IsSorted(order)

\* Whom a thread waits for: the owner of a lock, or, if it sends to a client
\* that is itself inside a Send, the network thread, which alone can read that.
WaitsFor(thread) ==
    LET owner(lock) == {lock} \ {Null}
        sends(c) == IF ~CanSend(c) /\ InSend(c) THEN {"net"} ELSE {}
    IN  CASE thread = "net" /\ net.at \in {"find", "add", "sort"} -> owner(listLock)
          [] thread = "net" /\ net.at = "lock" -> owner(userLock[Target])
          [] thread = "net" /\ net.at \in {"welcome", "tasks", "refuse", "answer"} ->
                sends(net.conn)
          [] thread = "chk" /\ chk.at = "lock" -> owner(userLock[chk.job.name])
          [] thread = "chk" /\ chk.at = "sort" -> owner(listLock)
          [] thread = "chk" /\ chk.at = "reply" /\ user[chk.job.name].conn # Null ->
                sends(user[chk.job.name].conn)
          [] thread = "gui" /\ gui.at = "rows" ->
                UNION {owner(userLock[order[i]]) : i \in {gui.i, gui.i - gui.n} \cap 1..gui.n}
          [] thread = "gui" /\ gui.at = "send" ->
                sends(user[order[gui.i - gui.n]].conn)
          [] OTHER -> {}

\* The network thread waits, through the others, for itself.
Embrace ==
    LET first  == WaitsFor("net")
        second == UNION {WaitsFor(t) : t \in first}
        third  == UNION {WaitsFor(t) : t \in second}
    IN  "net" \in first \cup second \cup third

\* Every packet is taken and every submission judged, whoever holds the locks
\* when: the threads never wait for each other, unless a client stops reading
\* because it is itself inside a Send that the network thread does not take.
Served ==
    /\ \A c \in Conns : toServer[c] # <<>> ~> (toServer[c] = <<>> \/ Embrace)
    /\ queue # <<>> ~> (queue = <<>> \/ Embrace)

\* A client that has sent a task can send again, unless its account was taken
\* over by another connection: the answer to a check, or to a task already
\* solved, is what enables its button.
SendAgain ==
    \A c \in Conns :
        client[c].at = "sent" ~> \/ client[c].at # "sent"
                                 \/ Bound(c) = {}
                                 \/ Embrace
=============================================================================
