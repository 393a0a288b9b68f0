----------------------------- MODULE EpollReactor -----------------------------
(***************************************************************************)
(* src/src/epoll_reactor.cpp: an echo server on one thread, with a table   *)
(* of slots, a callback per slot (recvdata or senddata) that is also what  *)
(* epoll watches the slot for, and a heap of timers that closes idle       *)
(* connections.  Clients connect, send, read what comes back, end their    *)
(* stream or reset the connection at any time.                             *)
(*                                                                         *)
(* One event is one step, except the accept loop, whose turns are steps.   *)
(* The time of a timer is what is left until it: Tick takes one from all.  *)
(* A connection is its own descriptor: the server holds no descriptor      *)
(* that it has closed, so their reuse cannot be told.                      *)
(***************************************************************************)
EXTENDS TimerHeap, FiniteSets

CONSTANTS
  Conn,       \* clients, each with a connection at a time
  None,       \* no connection: fd -1
  MaxEvents,  \* MAX_EVENTS, the slots for clients
  Idle,       \* IDLE_TIMEOUT
  MaxWait,    \* MAX_WAIT_MS
  BufMax,     \* BUFLEN - 1
  MaxBytes,   \* bound: bytes a client sends over one connection
  WireMax,    \* bytes the kernel takes before the client reads them
  MaxLate     \* bound: how long a timer that is due waits for the loop

ASSUME ReactorAssumption ==
  /\ None \notin Conn
  /\ {MaxEvents, Idle, MaxWait, BufMax, WireMax} \subseteq Nat \ {0}
  /\ {MaxBytes, MaxLate} \subseteq Nat

VARIABLES
  pc,       \* "poll" (in epoll_wait), "dispatch", "accept", "expire"
  timeout,  \* what is left of the time epoll_wait may block
  pending,  \* events of this epoll_wait that are not handled yet
  status,   \* [Slots -> BOOLEAN], on epoll or not
  fd,       \* [Slots -> Conn or None]
  mode,     \* [Slots -> call_back, which goes with EPOLLIN or EPOLLOUT]
  buf,      \* [Slots -> the first len bytes of buf]
  sendpos,  \* [Slots -> bytes of buf sent]
  timers,   \* g_heap, hidx and expire
  backlog,  \* connections not accepted yet
  conn,     \* [Conn -> "none", "backlog", "open": accepted, not closed]
  peer,     \* [Conn -> "up", "fin", "reset"]
  sent,     \* [Conn -> bytes the client has sent; byte i is <<c, i>>]
  taken,    \* [Conn -> bytes of these recv has taken]
  got,      \* [Conn -> bytes send has given to the kernel]
  unread,   \* [Conn -> how many of them the client has not read]
  quiet     \* history: [Conn -> time since data last came or went]

slots == <<status, fd, mode, buf, sendpos>>
clients == <<peer, sent, taken, got, unread>>
reactorVars == <<pc, timeout, pending, slots, timers, backlog, conn, clients, quiet>>

Slots == 1 .. MaxEvents
Listener == MaxEvents + 1      \* its slot is the last of g_events

ReactorInit ==
  /\ pc = "poll" /\ timeout = MaxWait /\ pending = {}
  /\ status = [s \in Slots |-> FALSE]
  /\ fd = [s \in Slots |-> None]
  /\ mode = [s \in Slots |-> "recvdata"]
  /\ buf = [s \in Slots |-> <<>>]
  /\ sendpos = [s \in Slots |-> 0]
  /\ timers = [heap |-> <<>>, hidx |-> [s \in Slots |-> 0],
               expire |-> [s \in Slots |-> 0]]
  /\ backlog = <<>>
  /\ conn = [c \in Conn |-> "none"]
  /\ peer = [c \in Conn |-> "up"]
  /\ sent = [c \in Conn |-> 0] /\ taken = [c \in Conn |-> 0]
  /\ got = [c \in Conn |-> <<>>] /\ unread = [c \in Conn |-> 0]
  /\ quiet = [c \in Conn |-> 0]

-----------------------------------------------------------------------------
(* Clients and time *)

\* What a client does before it is accepted is met only after, and the
\* clean-up looks at nothing that clients do.
Seen(c) == pc # "expire" /\ conn[c] = "open"

Connect(c) ==
  /\ pc # "expire"
  /\ conn[c] = "none"
  /\ conn' = [conn EXCEPT ![c] = "backlog"]
  /\ backlog' = Append(backlog, c)
  /\ UNCHANGED <<pc, timeout, pending, slots, timers, clients, quiet>>

ClientSends(c) ==
  /\ Seen(c) /\ peer[c] = "up"
  /\ sent[c] < MaxBytes
  /\ sent' = [sent EXCEPT ![c] = @ + 1]
  /\ UNCHANGED <<pc, timeout, pending, slots, timers, backlog, conn, peer,
                 taken, got, unread, quiet>>

ClientReads(c) ==
  /\ Seen(c) /\ peer[c] # "reset"
  /\ unread[c] > 0
  /\ unread' = [unread EXCEPT ![c] = @ - 1]
  /\ UNCHANGED <<pc, timeout, pending, slots, timers, backlog, conn, peer,
                 sent, taken, got, quiet>>

\* The client ends its stream, or the connection is reset.
ClientEnds(c, how) ==
  /\ Seen(c) /\ peer[c] \notin {"reset", how}
  /\ peer' = [peer EXCEPT ![c] = how]
  /\ UNCHANGED <<pc, timeout, pending, slots, timers, backlog, conn,
                 sent, taken, got, unread, quiet>>

\* One unit of time, in epoll_wait or in the handlers; the clean-up reads the
\* clock once, so none passes in it.
Tick ==
  /\ pc = "poll" \/ (pc = "dispatch" /\ pending = {})
  /\ \A s \in InHeap(timers) : timers.expire[s] > -MaxLate
  /\ timeout' = IF timeout > 0 THEN timeout - 1 ELSE 0
  /\ timers' = [timers EXCEPT !.expire =
                  [s \in Slots |-> IF s \in InHeap(timers) THEN @[s] - 1 ELSE @[s]]]
  /\ quiet' = [c \in Conn |-> IF conn[c] = "open" THEN quiet[c] + 1 ELSE 0]
  /\ UNCHANGED <<pc, pending, slots, backlog, conn, clients>>

-----------------------------------------------------------------------------
(* conn_close *)

\* The time of a slot that has no timer is read by nobody.
Forgotten(H) ==
  [H EXCEPT !.expire = [s \in Slots |-> IF s \in InHeap(H) THEN @[s] ELSE 0]]

\* The client is told, and may connect again.
ConnectionGone(c) ==
  /\ conn' = [conn EXCEPT ![c] = "none"]
  /\ peer' = [peer EXCEPT ![c] = "up"]
  /\ sent' = [sent EXCEPT ![c] = 0]
  /\ taken' = [taken EXCEPT ![c] = 0]
  /\ got' = [got EXCEPT ![c] = <<>>]
  /\ unread' = [unread EXCEPT ![c] = 0]
  /\ quiet' = [quiet EXCEPT ![c] = 0]

\* Faulty variant: the timer stays in the heap.
ConnCloseLeavesTimer(s) ==
  /\ status' = [status EXCEPT ![s] = FALSE]
  /\ fd' = [fd EXCEPT ![s] = None]
  /\ buf' = [buf EXCEPT ![s] = <<>>]
  /\ sendpos' = [sendpos EXCEPT ![s] = 0]
  /\ UNCHANGED <<mode, timers>>
  /\ IF fd[s] = None
     THEN UNCHANGED <<conn, clients, quiet>>
     ELSE ConnectionGone(fd[s])

\* Faulty variant: the next connection finds the sendpos of this one.
ConnCloseLeavesSendpos(s) ==
  /\ timers' = Forgotten(TimerDel(timers, s))
  /\ status' = [status EXCEPT ![s] = FALSE]
  /\ fd' = [fd EXCEPT ![s] = None]
  /\ buf' = [buf EXCEPT ![s] = <<>>]
  /\ UNCHANGED <<mode, sendpos>>
  /\ IF fd[s] = None
     THEN UNCHANGED <<conn, clients, quiet>>
     ELSE ConnectionGone(fd[s])

\* Timer, epoll, descriptor; close(-1) does nothing.
ConnClose(s) ==
  /\ timers' = Forgotten(TimerDel(timers, s))
  /\ status' = [status EXCEPT ![s] = FALSE]
  /\ fd' = [fd EXCEPT ![s] = None]
  /\ buf' = [buf EXCEPT ![s] = <<>>]
  /\ sendpos' = [sendpos EXCEPT ![s] = 0]
  /\ UNCHANGED mode
  /\ IF fd[s] = None
     THEN UNCHANGED <<conn, clients, quiet>>
     ELSE ConnectionGone(fd[s])

-----------------------------------------------------------------------------
(* The head of main's loop *)

\* Faulty variant: the wait is not cut to the first timer.
BlockForMaxWait == timeout' = MaxWait /\ pc' = "poll"

\* The time of the first timer, at most MaxWait, and epoll_wait.
Block ==
  LET diff == Time(timers, 1)
  IN /\ timeout' = IF timers.heap = <<>> \/ diff >= MaxWait THEN MaxWait
                   ELSE IF diff <= 0 THEN 0
                   ELSE diff
     /\ pc' = "poll"

Readable(c) == sent[c] > taken[c] \/ peer[c] = "fin"
Writable(c) == unread[c] < WireMax

\* EPOLLERR and EPOLLHUP are reported whatever the slot is watched for.
Ready ==
  {[slot |-> s, re |-> "ERR"] :
     s \in {t \in Slots : status[t] /\ peer[fd[t]] = "reset"}}
  \cup {[slot |-> s, re |-> "IN"] :
     s \in {t \in Slots : /\ status[t] /\ mode[t] = "recvdata"
                          /\ peer[fd[t]] # "reset" /\ Readable(fd[t])}}
  \cup {[slot |-> s, re |-> "OUT"] :
     s \in {t \in Slots : /\ status[t] /\ mode[t] = "senddata"
                          /\ peer[fd[t]] # "reset" /\ Writable(fd[t])}}
  \cup {[slot |-> Listener, re |-> "IN"] : c \in {d \in Conn : conn[d] = "backlog"}}

EpollReturns ==
  /\ pc = "poll"
  /\ Ready # {} \/ timeout = 0
  /\ pending' = Ready
  /\ pc' = "dispatch"
  /\ timeout' = 0
  /\ UNCHANGED <<slots, timers, backlog, conn, clients, quiet>>

\* EINTR
EpollInterrupted ==
  /\ pc = "poll"
  /\ Block
  /\ UNCHANGED <<pending, slots, timers, backlog, conn, clients, quiet>>

-----------------------------------------------------------------------------
(* The events *)

Handle(s, re) ==
  /\ pc = "dispatch"
  /\ [slot |-> s, re |-> re] \in pending
  /\ pending' = pending \ {[slot |-> s, re |-> re]}
  /\ UNCHANGED <<timeout, backlog>>

HandleError(s) ==
  /\ Handle(s, "ERR")
  /\ ConnClose(s)
  /\ UNCHANGED pc

\* recvdata with data: keep it, renew the timer, wait for room to send.
RecvData(s) ==
  LET c == fd[s] IN
  /\ Handle(s, "IN")
  /\ \E n \in 1 .. BufMax :
       /\ taken[c] + n <= sent[c]
       /\ buf' = [buf EXCEPT ![s] = [i \in 1 .. n |-> <<c, taken[c] + i>>]]
       /\ taken' = [taken EXCEPT ![c] = @ + n]
  /\ sendpos' = [sendpos EXCEPT ![s] = 0]
  /\ timers' = TimerRefresh(timers, s, Idle)
  /\ quiet' = [quiet EXCEPT ![c] = 0]
  /\ mode' = [mode EXCEPT ![s] = "senddata"]
  /\ UNCHANGED <<pc, status, fd, conn, peer, sent, got, unread>>

\* recvdata at the end of the stream, or with an error.
RecvCloses(s) ==
  /\ Handle(s, "IN")
  /\ \/ peer[fd[s]] = "fin" /\ sent[fd[s]] = taken[fd[s]]
     \/ peer[fd[s]] = "reset"
  /\ ConnClose(s)
  /\ UNCHANGED pc

\* Faulty variant: what was sent is not remembered, as if all went at once.
SendDataOnce(s) ==
  LET c == fd[s] IN
  /\ Handle(s, "OUT")
  /\ peer[c] # "reset"
  /\ \E n \in 1 .. WireMax - unread[c] :
       /\ n <= Len(buf[s])
       /\ got' = [got EXCEPT ![c] = @ \o SubSeq(buf[s], 1, n)]
       /\ unread' = [unread EXCEPT ![c] = @ + n]
  /\ mode' = [mode EXCEPT ![s] = "recvdata"]
  /\ timers' = TimerRefresh(timers, s, Idle)
  /\ quiet' = [quiet EXCEPT ![c] = 0]
  /\ UNCHANGED <<pc, status, fd, buf, sendpos, conn, peer, sent, taken>>

\* Faulty variant: only what comes in renews the timer.
SendDataQuietly(s) ==
  LET c == fd[s] IN
  /\ Handle(s, "OUT")
  /\ peer[c] # "reset"
  /\ \E n \in 1 .. WireMax - unread[c] :
       LET done == sendpos[s] + n IN
       /\ done <= Len(buf[s])
       /\ got' = [got EXCEPT ![c] = @ \o SubSeq(buf[s], sendpos[s] + 1, done)]
       /\ unread' = [unread EXCEPT ![c] = @ + n]
       /\ sendpos' = [sendpos EXCEPT ![s] = done]
       /\ mode' = [mode EXCEPT ![s] = IF done = Len(buf[s]) THEN "recvdata"
                                                           ELSE "senddata"]
  /\ quiet' = [quiet EXCEPT ![c] = 0]
  /\ UNCHANGED <<pc, status, fd, buf, timers, conn, peer, sent, taken>>

\* senddata: n of the bytes left; after the last one back to reading.
SendData(s) ==
  LET c == fd[s] IN
  /\ Handle(s, "OUT")
  /\ peer[c] # "reset"
  /\ \E n \in 1 .. WireMax - unread[c] :
       LET done == sendpos[s] + n IN
       /\ done <= Len(buf[s])
       /\ got' = [got EXCEPT ![c] = @ \o SubSeq(buf[s], sendpos[s] + 1, done)]
       /\ unread' = [unread EXCEPT ![c] = @ + n]
       /\ sendpos' = [sendpos EXCEPT ![s] = done]
       /\ mode' = [mode EXCEPT ![s] = IF done = Len(buf[s]) THEN "recvdata"
                                                           ELSE "senddata"]
  /\ timers' = TimerRefresh(timers, s, Idle)
  /\ quiet' = [quiet EXCEPT ![c] = 0]
  /\ UNCHANGED <<pc, status, fd, buf, conn, peer, sent, taken>>

\* EINTR or EAGAIN: the slot stays on epoll.
SendAgain(s) ==
  /\ Handle(s, "OUT")
  /\ UNCHANGED <<pc, slots, timers, conn, clients, quiet>>

SendFails(s) ==
  /\ Handle(s, "OUT")
  /\ peer[fd[s]] = "reset"
  /\ ConnClose(s)
  /\ UNCHANGED pc

-----------------------------------------------------------------------------
(* acceptconn *)

AcceptStarts ==
  /\ Handle(Listener, "IN")
  /\ pc' = "accept"
  /\ UNCHANGED <<slots, timers, conn, clients, quiet>>

FreeSlots == {s \in Slots : ~status[s]}

\* The first slot that is not on epoll.
Accept ==
  /\ pc = "accept"
  /\ backlog # <<>> /\ FreeSlots # {}
  /\ LET c == Head(backlog)
         s == CHOOSE f \in FreeSlots : \A g \in FreeSlots : f <= g
     IN /\ status' = [status EXCEPT ![s] = TRUE]
        /\ fd' = [fd EXCEPT ![s] = c]
        /\ mode' = [mode EXCEPT ![s] = "recvdata"]
        /\ buf' = [buf EXCEPT ![s] = <<>>]
        /\ sendpos' = [sendpos EXCEPT ![s] = 0]
        /\ timers' = TimerAdd(timers, s, Idle)
        /\ conn' = [conn EXCEPT ![c] = "open"]
        /\ quiet' = [quiet EXCEPT ![c] = 0]
  /\ backlog' = Tail(backlog)
  /\ UNCHANGED <<pc, timeout, pending, clients>>

\* Closed at once: no slot is free, which ends the loop, or fcntl failed.
Refuse ==
  /\ pc = "accept"
  /\ backlog # <<>>
  /\ ConnectionGone(Head(backlog))
  /\ backlog' = Tail(backlog)
  /\ pc' = IF FreeSlots = {} THEN "dispatch" ELSE "accept"
  /\ UNCHANGED <<timeout, pending, slots, timers>>

\* EAGAIN, or an error of accept.
AcceptEnds ==
  /\ pc = "accept"
  /\ pc' = "dispatch"
  /\ UNCHANGED <<timeout, pending, slots, timers, backlog, conn, clients, quiet>>

-----------------------------------------------------------------------------
(* timer_expire_process *)

DispatchEnds ==
  /\ pc = "dispatch" /\ pending = {}
  /\ pc' = "expire"
  /\ UNCHANGED <<timeout, pending, slots, timers, backlog, conn, clients, quiet>>

Due == timers.heap # <<>> /\ Time(timers, 1) <= 0

Expire ==
  /\ pc = "expire" /\ Due
  /\ ConnClose(timers.heap[1])
  /\ UNCHANGED <<pc, timeout, pending, backlog>>

ExpireEnds ==
  /\ pc = "expire" /\ ~Due
  /\ Block
  /\ UNCHANGED <<pending, slots, timers, backlog, conn, clients, quiet>>

-----------------------------------------------------------------------------

Loop ==
  \/ EpollReturns \/ AcceptStarts \/ Accept \/ Refuse \/ AcceptEnds
  \/ DispatchEnds \/ Expire \/ ExpireEnds
  \/ \E s \in Slots : \/ HandleError(s) \/ RecvData(s) \/ RecvCloses(s)
                      \/ SendData(s) \/ SendAgain(s) \/ SendFails(s)

Client(c) == \/ Connect(c) \/ ClientSends(c) \/ ClientReads(c)
             \/ \E how \in {"fin", "reset"} : ClientEnds(c, how)

ReactorNext == Loop \/ EpollInterrupted \/ Tick \/ \E c \in Conn : Client(c)

\* The thread runs.
ReactorFairness == WF_reactorVars(Loop)

ReactorSpec == ReactorInit /\ [][ReactorNext]_reactorVars /\ ReactorFairness

\* recv fails with EINTR or EAGAIN after the slot was taken off epoll.
RecvInterrupted(s) ==
  /\ Handle(s, "IN")
  /\ status' = [status EXCEPT ![s] = FALSE]
  /\ UNCHANGED <<pc, fd, mode, buf, sendpos, timers, conn, clients, quiet>>

\* Bound: one slot at a time that recv left off epoll, until its timer ends.
Undisturbed == IsHeap(timers) /\ \A s \in Slots : fd[s] # None => status[s]

NextInterrupted ==
  ReactorNext \/ (Undisturbed /\ \E s \in Slots : RecvInterrupted(s))

InterruptedSpec == ReactorInit /\ [][NextInterrupted]_reactorVars /\ ReactorFairness

-----------------------------------------------------------------------------
(* Properties *)

\* The types of the variables.
ReactorTypeOK ==
  /\ pc \in {"poll", "dispatch", "accept", "expire"}
  /\ timeout \in 0 .. MaxWait
  /\ pending \subseteq [slot : Slots \cup {Listener}, re : {"IN", "OUT", "ERR"}]
  /\ status \in [Slots -> BOOLEAN]
  /\ fd \in [Slots -> Conn \cup {None}]
  /\ mode \in [Slots -> {"recvdata", "senddata"}]
  /\ \A s \in Slots : Len(buf[s]) <= BufMax /\ sendpos[s] \in 0 .. Len(buf[s])
  /\ timers.hidx \in [Slots -> 0 .. MaxEvents]
  /\ timers.expire \in [Slots -> -MaxLate .. Idle]
  /\ conn \in [Conn -> {"none", "backlog", "open"}]
  /\ peer \in [Conn -> {"up", "fin", "reset"}]
  /\ quiet \in [Conn -> 0 .. Idle + MaxLate]

\* The slots, epoll, the timers and the descriptors agree: a slot is on epoll
\* when it has a descriptor, an accepted connection has one slot, and the
\* heap holds the slots in use, each once, in order and found by its hidx.
SlotsAgree ==
  /\ \A s \in Slots : status[s] <=> fd[s] # None
  /\ \A c \in Conn : conn[c] = "open" <=> \E s \in Slots : fd[s] = c
  /\ \A s, t \in Slots : fd[s] = fd[t] /\ fd[s] # None => s = t
  /\ IsHeap(timers)
  /\ InHeap(timers) = {s \in Slots : fd[s] # None}

\* epoll_wait blocks past no timer.
WakesForTimers ==
  pc = "poll" => \A s \in Slots : fd[s] # None =>
                   timeout <= timers.expire[s] \/ timeout = 0

\* Each client is given its own bytes, in order: what recv took and senddata
\* has not sent is still in the slot's buffer, and the slot waits for room
\* exactly while there is some.
EchoInOrder ==
  \A s \in Slots : fd[s] # None =>
    LET c == fd[s]
        left == SubSeq(buf[s], sendpos[s] + 1, Len(buf[s]))
    IN /\ got[c] \o left = [i \in 1 .. taken[c] |-> <<c, i>>]
       /\ mode[s] = "senddata" <=> left # <<>>

\* The clean-up closes the connections that were quiet for Idle, and leaves
\* none of them open.
IdleAreClosed ==
  [][pc = "expire" => \A c \in Conn :
       /\ conn[c] = "open" /\ conn'[c] # "open" => quiet[c] >= Idle
       /\ pc' = "poll" /\ conn[c] = "open" => quiet[c] < Idle]_reactorVars

\* The clean-up ends: conn_close takes the first timer out of the heap.
ExpiryEnds == pc = "expire" ~> pc # "expire"
=============================================================================
