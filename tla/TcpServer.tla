------------------------------ MODULE TcpServer ------------------------------
(***************************************************************************)
(* The life of the connections of a TcpServer, from the Acceptor on the    *)
(* base loop to the closing of the descriptor: who owns a TcpConnection,   *)
(* which functors about it travel between the base loop and its IO loop,   *)
(* what the poller of its loop has registered, and what the acceptor does  *)
(* when descriptors run out.                                               *)
(*                                                                         *)
(* A TcpConnection is destroyed when the last shared_ptr to it goes; here  *)
(* that is Alive becoming false, and nothing has to be done for it.  Each  *)
(* event handler and functor is one step: other threads only see what it   *)
(* leaves in queues, owners and state_.  EventLoop.tla and                 *)
(* TcpConnection.tla have the inside of the loop and of a connection.      *)
(***************************************************************************)
EXTENDS Naturals, FiniteSets, Sequences

CONSTANTS
  Conn,       \* bound: connections accepted in all
  Clients,    \* bound: clients that connect in all
  Fds,        \* descriptors the process may have open for connections
  Base,       \* the base loop
  IoLoops,    \* the loops of the IO threads, if there are any
  Accept,     \* stands for the listening channel
  None        \* no connection, no descriptor

ASSUME ServerAssumption ==
  /\ IoLoops # {} /\ Base \notin IoLoops
  /\ Accept \notin Conn /\ None \notin Conn \cup Fds
  /\ Clients \in Nat

Loop == IoLoops \cup {Base}

VARIABLES
  state,        \* [Conn -> state_], "none" before newConnection
  pool,         \* the loops connections go to, chosen by setThreadNum
  backlog,      \* clients in the kernel's accept queue
  clients,      \* clients that have connected so far
  idleFd,       \* the acceptor has idleFd_ open
  fd, loop,     \* [Conn -> Fds], [Conn -> Loop]: fixed by newConnection
  connections,  \* connections_ of the server
  status,       \* [Conn -> status_ of its channel]
  channels,     \* [Loop -> SUBSET Conn]: channels_ of its poller
  epoll,        \* [Loop -> SUBSET Conn]: its kernel interest list
  lpc,          \* [Loop -> where its thread is]
  active,       \* [Loop -> activeChannels_ not handled yet]
  queue,        \* [Loop -> alreadyFunctors_]
  batch, pos,   \* [Loop -> functors swapped out], and how many have run; they
                \* are destroyed together when the batch is done
  user, upc,    \* another thread: the connection it holds, and where it is
  ups, downs    \* [Conn -> Nat]: calls of the connection callback

shape == <<pool, fd, loop>>
acceptor == <<backlog, clients, idleFd>>
registration == <<status, channels, epoll>>
loops == <<lpc, active, batch, pos>>
thread == <<user, upc>>
calls == <<ups, downs>>
vars == <<state, shape, acceptor, connections, registration, loops, queue,
          thread, calls>>

Functor(op, c) == [op |-> op, conn |-> c]

\* Functors made with std::bind or a lambda that captures a TcpConnectionPtr
\* own their connection; those of send, shutdown and forceClose capture this.
Owns(f, c) == f.op # "call" /\ f.conn = c

Alive(c) ==
  \/ c \in connections
  \/ user = c
  \/ \E l \in Loop : \/ \E i \in 1 .. Len(queue[l]) : Owns(queue[l][i], c)
                     \/ \E i \in 1 .. Len(batch[l]) : Owns(batch[l][i], c)

Init ==
  /\ state = [c \in Conn |-> "none"]
  /\ pool \in {{Base}, IoLoops}
  /\ backlog = 0 /\ clients = 0 /\ idleFd = TRUE
  /\ fd = [c \in Conn |-> None]
  /\ loop = [c \in Conn |-> Base]
  /\ connections = {}
  /\ status = [c \in Conn |-> "kNew"]
  /\ channels = [l \in Loop |-> {}]
  /\ epoll = [l \in Loop |-> {}]
  /\ lpc = [l \in Loop |-> "poll"]
  /\ active = [l \in Loop |-> {}]
  /\ queue = [l \in Loop |-> <<>>]
  /\ batch = [l \in Loop |-> <<>>]
  /\ pos = [l \in Loop |-> 0]
  /\ user = None /\ upc = "idle"
  /\ ups = [c \in Conn |-> 0]
  /\ downs = [c \in Conn |-> 0]

QueueInLoop(l, f) == queue' = [queue EXCEPT ![l] = Append(@, f)]

-----------------------------------------------------------------------------
(* Channel and Poller, for the channel of c on loop l *)

\* enableReading on a new channel: EPOLL_CTL_ADD.
EnableReading(l, c) ==
  /\ status' = [status EXCEPT ![c] = "kAdded"]
  /\ channels' = [channels EXCEPT ![l] = @ \cup {c}]
  /\ epoll' = [epoll EXCEPT ![l] = @ \cup {c}]

\* disableAll: EPOLL_CTL_DEL.  (On a channel that is kDeleted it would add it
\* again, without events; connectDestroyed does that and removes it at once.)
DisableAll(l, c) ==
  /\ status' = [status EXCEPT ![c] = "kDeleted"]
  /\ epoll' = [epoll EXCEPT ![l] = @ \ {c}]
  /\ UNCHANGED channels

\* disableAll and remove, as connectDestroyed calls them.
RemoveChannel(l, c) ==
  /\ status' = [status EXCEPT ![c] = "kNew"]
  /\ epoll' = [epoll EXCEPT ![l] = @ \ {c}]
  /\ channels' = [channels EXCEPT ![l] = @ \ {c}]

-----------------------------------------------------------------------------
(* TcpConnection and TcpServer, on the thread of loop l *)

ConnectEstablished(l, c) ==
  /\ state' = [state EXCEPT ![c] = "kConnected"]
  /\ EnableReading(l, c)
  /\ ups' = [ups EXCEPT ![c] = @ + 1]
  /\ UNCHANGED downs

\* Faulty variants: connectDestroyed is not posted; connections_ keeps c.
EraseOnly(c) == connections' = connections \ {c} /\ UNCHANGED queue

PostOnly(c) ==
  /\ QueueInLoop(loop[c], Functor("destroy", c))
  /\ UNCHANGED connections

RemoveConnectionInLoop(c) ==
  /\ connections' = connections \ {c}
  /\ QueueInLoop(loop[c], Functor("destroy", c))

\* removeConnection: at once on the base loop, else posted to it.
RemoveConnection(l, c) ==
  IF l = Base THEN RemoveConnectionInLoop(c)
  ELSE QueueInLoop(Base, Functor("remove", c)) /\ UNCHANGED connections

\* handleClose and forceCloseInLoop on a connection that is not down yet.
HandleClose(l, c) ==
  /\ state' = [state EXCEPT ![c] = "kDisconnected"]
  /\ DisableAll(l, c)
  /\ downs' = [downs EXCEPT ![c] = @ + 1]
  /\ UNCHANGED ups
  /\ RemoveConnection(l, c)

ConnectDestroyed(l, c) ==
  /\ state' = [state EXCEPT ![c] = "kDisconnected"]
  /\ RemoveChannel(l, c)
  /\ UNCHANGED calls

-----------------------------------------------------------------------------
(* The loops *)

\* epoll_wait reports some of the descriptors that are open and registered, or
\* none; on the base loop also the listening one when a client waits.
Poll(l) ==
  /\ lpc[l] = "poll"
  /\ \E ready \in SUBSET {c \in epoll[l] : Alive(c)} :
       active' = [active EXCEPT ![l] =
                    IF l = Base /\ backlog > 0 THEN ready \cup {Accept} ELSE ready]
  /\ lpc' = [lpc EXCEPT ![l] = "dispatch"]
  /\ UNCHANGED <<state, shape, acceptor, connections, registration, batch, pos,
                 queue, thread, calls>>

Connect ==
  /\ clients < Clients
  /\ clients' = clients + 1
  /\ backlog' = backlog + 1
  /\ UNCHANGED <<state, shape, idleFd, connections, registration, loops, queue,
                 thread, calls>>

\* Acceptor::handleRead goes on until accept fails.
Accepting == lpc[Base] = "dispatch" /\ Accept \in active[Base]

FreeFds == {f \in Fds : \A c \in Conn : Alive(c) => fd[c] # f}

\* accept, and newConnection for connection c: the kernel returns a descriptor
\* that is not open, the pool one of its loops.
NewConnection(c) ==
  /\ Accepting /\ idleFd
  /\ backlog > 0
  /\ state[c] = "none"
  /\ backlog' = backlog - 1
  /\ \E f \in FreeFds, l \in pool :
       /\ fd' = [fd EXCEPT ![c] = f]
       /\ loop' = [loop EXCEPT ![c] = l]
       /\ connections' = connections \cup {c}
       /\ IF l = Base
          THEN ConnectEstablished(l, c) /\ UNCHANGED queue
          ELSE /\ state' = [state EXCEPT ![c] = "kConnecting"]
               /\ QueueInLoop(l, Functor("establish", c))
               /\ UNCHANGED <<registration, calls>>
  /\ UNCHANGED <<pool, clients, idleFd, loops, thread>>

\* accept, but getsockname fails, and the descriptor is closed again.
NewConnectionFails ==
  /\ Accepting /\ idleFd
  /\ backlog > 0
  /\ FreeFds # {}
  /\ backlog' = backlog - 1
  /\ UNCHANGED <<state, shape, clients, idleFd, connections, registration, loops,
                 queue, thread, calls>>

\* EMFILE: idleFd_ is closed, opened again, and accept tried again.
AcceptFull ==
  /\ Accepting
  /\ idleFd => backlog > 0 /\ FreeFds = {}
  /\ idleFd' = ~idleFd
  /\ UNCHANGED <<state, shape, backlog, clients, connections, registration, loops,
                 queue, thread, calls>>

\* accept returns EAGAIN, or fails with any other errno, which may cost the
\* client that waits or leave it in the backlog.
AcceptDone ==
  /\ Accepting /\ idleFd
  /\ \/ UNCHANGED backlog
     \/ backlog > 0 /\ backlog' = backlog - 1
  /\ active' = [active EXCEPT ![Base] = @ \ {Accept}]
  /\ UNCHANGED <<state, shape, clients, idleFd, connections, registration, lpc,
                 batch, pos, queue, thread, calls>>

\* Faulty variant: handleClose does not test for kDisconnected.
HandleEventAgain(l, c) ==
  /\ lpc[l] = "dispatch"
  /\ c \in active[l] \ {Accept}
  /\ active' = [active EXCEPT ![l] = @ \ {c}]
  /\ Alive(c) /\ HandleClose(l, c)
  /\ UNCHANGED <<shape, acceptor, lpc, batch, pos, thread>>

\* Channel::handleEvent: the tie is taken; the handlers find the connection
\* down, or read and write, or close it.  (What they do to a connection that
\* no longer exists is undefined, and left out; see ActiveChannelsExist.)
HandleEvent(l, c) ==
  /\ lpc[l] = "dispatch"
  /\ c \in active[l] \ {Accept}
  /\ active' = [active EXCEPT ![l] = @ \ {c}]
  /\ \/ UNCHANGED <<state, registration, connections, queue, calls>>
     \/ state[c] # "kDisconnected" /\ Alive(c) /\ HandleClose(l, c)
  /\ UNCHANGED <<shape, acceptor, lpc, batch, pos, thread>>

\* Faulty variant: nor does forceCloseInLoop.
ForceCloseAgain(l, c) ==
  /\ lpc[l] = "dispatch"
  /\ loop[c] = l
  /\ state[c] \in {"kConnected", "kDisconnected"}
  /\ Alive(c)
  /\ HandleClose(l, c)
  /\ UNCHANGED <<shape, acceptor, loops, thread>>

\* forceClose from another callback of the same loop: another connection's, or
\* a timer's (the heartbeat), which may run in the middle of a dispatch.
ForceClose(l, c) ==
  /\ lpc[l] = "dispatch"
  /\ loop[c] = l
  /\ state[c] = "kConnected"
  /\ Alive(c)
  /\ HandleClose(l, c)
  /\ UNCHANGED <<shape, acceptor, loops, thread>>

SwapPending(l) ==
  /\ lpc[l] = "dispatch"
  /\ active[l] = {}
  /\ batch' = [batch EXCEPT ![l] = queue[l]]
  /\ queue' = [queue EXCEPT ![l] = <<>>]
  /\ pos' = [pos EXCEPT ![l] = 0]
  /\ lpc' = [lpc EXCEPT ![l] = "run"]
  /\ UNCHANGED <<state, shape, acceptor, connections, registration, active, thread,
                 calls>>

NextFunctor(l) == batch[l][pos[l] + 1]

\* A functor of send, shutdown or forceClose ("call") may close the connection
\* too; on one that no longer exists its behaviour is undefined.
RunFunctor(l) ==
  /\ lpc[l] = "run"
  /\ pos[l] < Len(batch[l])
  /\ pos' = [pos EXCEPT ![l] = @ + 1]
  /\ LET f == NextFunctor(l)
         c == f.conn
     IN \/ /\ f.op = "establish"
           /\ ConnectEstablished(l, c)
           /\ UNCHANGED <<connections, queue>>
        \/ /\ f.op = "remove"
           /\ RemoveConnectionInLoop(c)
           /\ UNCHANGED <<state, registration, calls>>
        \/ /\ f.op = "destroy"
           /\ ConnectDestroyed(l, c)
           /\ UNCHANGED <<connections, queue>>
        \/ /\ f.op = "call"
           /\ UNCHANGED <<state, registration, connections, queue, calls>>
        \/ /\ f.op = "call"
           /\ Alive(c) /\ state[c] # "kDisconnected"
           /\ HandleClose(l, c)
  /\ UNCHANGED <<shape, acceptor, lpc, active, batch, thread>>

\* The batch is destroyed, and with it the owners in it.
BatchDone(l) ==
  /\ lpc[l] = "run"
  /\ pos[l] = Len(batch[l])
  /\ batch' = [batch EXCEPT ![l] = <<>>]
  /\ pos' = [pos EXCEPT ![l] = 0]
  /\ lpc' = [lpc EXCEPT ![l] = "poll"]
  /\ UNCHANGED <<state, shape, acceptor, connections, registration, active, queue,
                 thread, calls>>

-----------------------------------------------------------------------------
(* Another thread of the program *)

\* It gets hold of a connection that has been announced.
UserHold(c) ==
  /\ upc = "idle"
  /\ ups[c] > 0 /\ Alive(c)
  /\ user' = c /\ upc' = "hold"
  /\ UNCHANGED <<state, shape, acceptor, connections, registration, loops, queue,
                 calls>>

\* send looks at state_ first; shutdown and forceClose do not.
UserCheck ==
  /\ upc = "hold"
  /\ state[user] # "kDisconnected"
  /\ upc' = "push"
  /\ UNCHANGED <<state, shape, acceptor, connections, registration, loops, queue,
                 user, calls>>

\* The functor, which captures this, is queued on the connection's loop.
UserPush ==
  /\ upc \in {"hold", "push"}
  /\ QueueInLoop(loop[user], Functor("call", user))
  /\ upc' = "pushed"
  /\ UNCHANGED <<state, shape, acceptor, connections, registration, loops, user,
                 calls>>

\* It lets go of the connection.
UserRelease ==
  /\ upc \in {"hold", "pushed"}
  /\ user' = None
  /\ upc' = IF upc = "hold" THEN "idle" ELSE "over"
  /\ UNCHANGED <<state, shape, acceptor, connections, registration, loops, queue,
                 calls>>

-----------------------------------------------------------------------------

\* Bound: clients for whom no connection is left can only fail.
AllAccepted == \A c \in Conn : state[c] # "none"

LoopStep(l) ==
  \/ SwapPending(l) \/ RunFunctor(l) \/ BatchDone(l)
  \/ \E c \in Conn : HandleEvent(l, c)
  \/ l = Base /\ (AcceptFull \/ AcceptDone \/ \E c \in Conn : NewConnection(c))
  \/ l = Base /\ AllAccepted /\ NewConnectionFails

Next ==
  \/ \E l \in Loop : \/ Poll(l) \/ LoopStep(l)
                     \/ \E c \in Conn : ForceClose(l, c)
  \/ Connect \/ NewConnectionFails
  \/ \E c \in Conn : UserHold(c)
  \/ UserCheck \/ UserPush \/ UserRelease

\* The loops' threads run, and are woken when something is queued for them or
\* a client waits; a thread that holds a connection lets go of it.
Fairness ==
  /\ \A l \in Loop : WF_vars(LoopStep(l))
  /\ \A l \in Loop :
       WF_vars((queue[l] # <<>> \/ (l = Base /\ backlog > 0)) /\ Poll(l))
  /\ WF_vars(upc = "push" /\ UserPush) /\ WF_vars(UserRelease)

Spec == Init /\ [][Next]_vars /\ Fairness

-----------------------------------------------------------------------------
(* Properties *)

\* Where teardown functors for c that have not run are.
IsTeardown(f, c) == f.op \in {"remove", "destroy"} /\ f.conn = c

Teardowns(c) ==
  UNION {{<<l, "queue", i>> : i \in {j \in 1 .. Len(queue[l]) :
                                      IsTeardown(queue[l][j], c)}}
         \cup {<<l, "batch", i>> : i \in {j \in pos[l] + 1 .. Len(batch[l]) :
                                           IsTeardown(batch[l][j], c)}}
         : l \in Loop}

\* Types.
TypeOK ==
  /\ state \in [Conn -> {"none", "kConnecting", "kConnected", "kDisconnected"}]
  /\ pool \subseteq Loop
  /\ backlog \in 0 .. clients /\ clients \in 0 .. Clients
  /\ idleFd \in BOOLEAN
  /\ fd \in [Conn -> Fds \cup {None}]
  /\ loop \in [Conn -> Loop]
  /\ connections \subseteq Conn
  /\ status \in [Conn -> {"kNew", "kAdded", "kDeleted"}]
  /\ channels \in [Loop -> SUBSET Conn]
  /\ epoll \in [Loop -> SUBSET Conn]
  /\ lpc \in [Loop -> {"poll", "dispatch", "run"}]
  /\ active \in [Loop -> SUBSET (Conn \cup {Accept})]
  /\ \A l \in Loop : pos[l] \in 0 .. Len(batch[l])
  /\ user \in Conn \cup {None}
  /\ upc \in {"idle", "hold", "push", "pushed", "over"}
  /\ ups \in [Conn -> 0 .. 1] /\ downs \in [Conn -> 0 .. 1]

\* Every channel a dispatch still has to handle belongs to a connection that
\* exists, even if an earlier callback of the same dispatch closed it: this is
\* why removeConnectionInLoop queues connectDestroyed instead of calling it.
ActiveChannelsExist ==
  \A l \in Loop : \A c \in active[l] \ {Accept} : Alive(c)

\* What a poller has in channels_ belongs to a connection that exists and has
\* been handed to its loop, so that a descriptor the kernel hands out again is
\* never found there (the assertion in updateChannel), and the destructor of a
\* connection has no channel to deregister (the comment on it).
RegistrationsExist ==
  \A l \in Loop : \A c \in channels[l] : Alive(c) /\ loop[c] = l

\* A functor finds its connection existing, as the class comment of
\* TcpConnection wants of what is posted to the loop, and connectEstablished
\* finds it kConnecting.  This is about the functors of the server; those that
\* send, shutdown and forceClose post capture `this` and do not keep it.
FunctorFindsConnection(f) ==
  Alive(f.conn) /\ (f.op = "establish" => state[f.conn] = "kConnecting")

NextFunctors == {NextFunctor(l) : l \in {k \in Loop : pos[k] < Len(batch[k])}}

FunctorsFindConnection ==
  \A f \in NextFunctors : f.op # "call" => FunctorFindsConnection(f)

\* Wherever the server keeps a connection between two steps, in the results of
\* a poll, in a poller or in a functor, the connection is there when it is used.
ReachedConnectionsExist ==
  ActiveChannelsExist /\ RegistrationsExist /\ FunctorsFindConnection

\* A connection that is down has one step of its teardown ahead of it, never
\* two, until its channel is out of the poller; then it has none.
OneTeardown ==
  \A c \in Conn :
    Cardinality(Teardowns(c)) =
      IF state[c] = "kDisconnected" /\ c \in channels[loop[c]] THEN 1 ELSE 0

\* A connection that goes down is destroyed, and its descriptor closed, once
\* nobody else uses it; unless the acceptor has run out of descriptors, when
\* the base loop may not get round to it.
ClosedIsDestroyed ==
  \A c \in Conn : state[c] = "kDisconnected" ~> (~Alive(c) \/ ~idleFd)
=============================================================================
