# Formal models of My_TcpServer

This directory models the C++ network library and chat server of
`src/Refactoring_mytcpserver`, and the thread pool and epoll reactor of the older `src/src`, in TLA+. TLC checks the models on small instances, and
TLAPS proves what matters most for every instance. The first section is an
inventory of the repository, the rest describes what has been built and what is to come.

- [1. Inventory](#1-inventory)
- [2. Modules and how they correspond to the code](#2-modules-and-how-they-correspond-to-the-code)
- [3. Runs, bounds and fairness](#3-runs-bounds-and-fairness)
- [4. Proofs](#4-proofs)
- [5. Where the code and its documents disagree](#5-where-the-code-and-its-documents-disagree)
- [6. What is not modelled](#6-what-is-not-modelled)
- [7. Plan](#7-plan)

To check a run: `tlc -config MCEventLoop.cfg EventLoop`; to check the proofs:
`tlapm EventLoop_proofs.tla`, and so for every other `_proofs` module. `PROJECT.json` lists the runs, maps each definition to the
lines it models, and has the hazards with the properties that watch over them.

## 1. Inventory

The repository has two generations of a TCP server. The older one (`src/src`) is a set of
single-file exercises; the newer one (`src/Refactoring_mytcpserver`) is a muduo-like
library and a chat server built with it.

### The network library (`src/net`, `include/net`)

| Component | State it keeps | Operations | What makes it correct |
|---|---|---|---|
| **EventLoop** | `quit_`, `alreadyFunctors_` under a mutex, `callingPendingFunctors_`, the eventfd | `loop`, `quit`, `runInLoop`, `queueInLoop`, `doPendingFunctors` | no wakeup is lost; tasks run once, in order, on the loop's thread; `quit` ends the loop whoever calls it and whenever |
| **EventLoopThread(Pool)** | `loop_`, `exiting_`, `started_`, mutex and condition variable per thread; `loops_`, `next_` | `start`, `startLoop`, `getNextLoop`, `threadFunc`, destructors | `startLoop` returns a usable loop; the destructors end; nobody calls a loop that is gone |
| **Channel, Poller** | `events_`, `revents_`, `tied_`, `index_`; `channels_` by descriptor | `update`, `remove`, `poll`, `handleEvent` | a channel in the results or in `channels_` exists; a reused descriptor is not found there |
| **TcpConnection** | `state_`, input and output buffer, the channel | `send`, `shutdown`, `forceClose`, the four event handlers, `connectEstablished`, `connectDestroyed` | bytes in order; write interest exact; `shutdown` after the last byte; down once |
| **TcpServer, Acceptor** | `connections_`; the listening channel, `idleFd_` | `newConnection`, `removeConnection(InLoop)`, `handleRead` | each connection is torn down once, across two loops, and destroyed; clients are answered when descriptors run out |
| **TimerQueue, Timer** | the ordered set of timers, the timerfd | `addTimer`, `handleRead`, `getExpired`, `reset` | the timerfd is armed for the first timer; timers run in order, each at its time or after it, and none is lost |
| **Buffer** | a vector with reader and writer index | `append`, `retrieve`, `readFd`, `makeSpace` | it is a byte queue |
| Socket, InetAddress, Logger | - | system calls, formatting | - |

A loop's thread runs callbacks of channels, then the functors queued for it. Other threads
reach a loop only through `queueInLoop` (mutex and eventfd) and `quit`. A connection is made
on the base loop, handed to an IO loop by a functor, and on close goes back to the base loop
(to leave `connections_`) and again to its IO loop (to leave the poller), each time in a
functor. Who owns the object meanwhile is decided by `shared_ptr` captures and `Channel::tie`.

### The chat server (`src/protocol`, `src/session`, `src/service`, `src/dao`, `examples/chatserver.cpp`)

| Component | State it keeps | Operations | What makes it correct |
|---|---|---|---|
| **Codec** | - | `encode`, `tryDecode` | decodes what was encoded, however it is cut into reads; a bad length is fatal |
| **ChatServer** | `_clients` (heartbeat) | `onConnection`, `onMessage`, `checkTimeouts` | the table follows the connections; a silent connection is closed |
| **SessionManager** | `_online`, `_connectionToUid` | `bind`, `remove`, `sendTo`, `uidOf` | the two tables agree and name only live connections |
| **User/Friend/MessageService** and their **DAOs** | MySQL tables over one connection | register, login, search, apply, accept, reject, list, send text, list chats | friendship is mutual and follows accepted applies; what a client was told is stored |
| Database, Config, Crypto, Json | the MySQL handle | connect, execute | - |

`ChatServer` runs on one reactor (`io_threads = 0`, `SessionManager.h:20-22`): frames, timers
and closes are handled one after the other, but a send inside a handler can find the peer
gone and run `onConnection` for it on the spot.

### The older generation (`src/src`)

`threadpool.cpp` (bounded queue, workers, an adjusting thread, destruction; correct if counters
are exact, no task or producer is left behind, and destruction ends);
`epoll_reactor.cpp` (a table of slots `g_events`, each with descriptor, callback, buffer and timer; the timer
heap `g_heap`; `recvdata`, `senddata`, `acceptconn`, `conn_close`, `timer_expire_process`; correct if
slots, epoll, descriptors and heap agree, bytes go back in order to who sent them, idle
connections and no others are closed, and the loop wakes for the first timer); and the echo servers
`epoll.cpp`, `select.cpp`, `my_tcp.cpp`, `my_tcp_thread.cpp` with `wrap.c`.

### Which behaviours are hard

Lost wakeups; the handshake and the destruction of loop threads; the life of a connection
between two loops and a third thread; half-close against hang-up; descriptors that run out;
callbacks that change the table their caller is using; a transaction that fails or dies half
way; frames cut anywhere by reads and writes; slots that are used again while their timers, events and
buffers are kept apart from their status. `PROJECT.json`, "hazards", has each at its line.

## 2. Modules and how they correspond to the code

| Module | Models | Abstract specification |
|---|---|---|
| `EventLoop` | `EventLoop.cpp`, and `Poller::poll` as the wait | `TaskQueue` |
| `EventLoop_proofs` | theorems about `EventLoop` and `EventLoopThreadPool` | |
| `EventLoopThreadPool` | `EventLoopThread.cpp`, `EventLoopThreadPool.cpp`, and what of a loop they touch | |
| `TcpConnection` | `TcpConnection.cpp`, `Channel::handleEvent`, socket and peer | `ByteStream` |
| `TcpConnection_proofs` | theorems about `TcpConnection` | |
| `TcpServer` | `TcpServer.cpp`, `Acceptor.cpp`, the registrations of `Poller.cpp`, ownership | |
| `TcpServer_proofs` | theorems about `TcpServer` | |
| `TimerQueue` | `TimerQueue.cpp`, `Timer.h`, `runAt/After/Every`, the two clocks | |
| `TimerQueue_proofs` | theorems about `TimerQueue` | |
| `ChatServer` | `chatserver.cpp`, `SessionManager.cpp` | |
| `ChatServer_proofs` | theorems about `ChatServer` | |
| `Services` | the three services and their DAOs, MySQL's transactions as external | |
| `Services_proofs` | theorems about `Services` | |
| `ThreadPool` | `src/src/threadpool.cpp` | |
| `Buffer` | `Buffer.cpp`, `Buffer.h`, as operators on a record | |
| `Codec` | `Codec.cpp`, the header of `Protocol.h`, as operators over `Buffer` | |
| `ProtocolEcho` | `protocol_echo_server.cpp`, `Buffer::readFd`, and the input and output of `TcpConnection.cpp`, over `Codec` | `FrameStream` |
| `ProtocolEcho_proofs` | theorems about `Buffer`, `Codec` and `ProtocolEcho` | |
| `MCProtocolEcho` | the frames of its run | |
| `TimerHeap` | the heap of `epoll_reactor.cpp`, as operators on a record | |
| `EpollReactor` | the rest of `src/src/epoll_reactor.cpp`, over `TimerHeap` | |
| `MCEpollReactor` | its symmetry, and the heap alone | |
| `Legacy_proofs` | theorems about `ThreadPool`, `TimerHeap` and `EpollReactor` | |

**EventLoop.** `pc` is where the loop's thread is: in user code before `loop()`, at the test
of `quit_`, in `epoll_wait`, in the event handlers, between swap and end of
`doPendingFunctors`, or in a functor. A foreign thread's `queueInLoop` is two steps, the push
under the mutex and the write to the eventfd, and everything may happen between them;
`quit()` is likewise the store and the wakeup. A task is `<<thread, number>>`. The local
vector of `doPendingFunctors` is `batch`. `fresh` is TRUE until the first swap: what the
loop's own thread queues before that gets no wakeup, and the first wait may hold it for
`kPollTimeMs`, which is why `TaskWaiting` exempts it.

**TaskQueue** is what users of a loop rely on: a FIFO that gives each task to the loop once
at most, and none after it has stopped. `EventLoop` implements it with
`queue <- batch \o pending`.

**EventLoopThreadPool.** The owner starts the pool, takes loops, may call `quit()` on one,
and destroys the pool; each worker constructs its loop, publishes it, waits for `started_`,
runs and takes `loop_` back. Critical sections are single steps except where the mutex is
held across one (the destructor's `quit()`), where it is a variable. `notify_one` picks one
of the waiters; a wait can end by itself. Its initial predicate, specification and invariant are `PoolInit`,
`PoolSpec` and `PoolTypeOK`, so that one module can speak of it and of `EventLoop`.

**TcpConnection.** One connection on its loop's thread. Events of a dispatch are handled in
the order of `handleEventWithGuard`; after each user callback the user may call `send`,
`shutdown` and `forceClose`, and other threads post them. `write` takes any part of the data.
The peer sends, ends its stream or resets at any time. Bytes are the numbers of their
positions, so that order and loss show.

**ByteStream** is the promise to a user: accepted bytes reach the wire in order, the end of the
stream is sent after the last of them, and nothing follows it.

**TcpServer.** A handler or functor is one step; queues, swapped batches (their functors are
destroyed together at the end of the batch), `activeChannels_`, `channels_`, the kernel's
interest list and a thread with a `TcpConnectionPtr` are state. `Alive(c)` says whether
anybody owns the connection: `connections_`, a functor that captures a pointer, or the user.
A descriptor is free again when its connection is not alive. `pool` is fixed in `Init`: the
base loop alone, or the IO loops.

**TimerQueue.** A timer is its sequence number, `timers_` is a set of them ordered by `Before`, which
is `Entry::operator<`. `handleRead` is a step up to `getExpired`, one step for each callback and one
for `reset`; a callback, another channel's or another functor may add timers, and other threads
post them. The timerfd is off, armed for a time, or expired (readable). It counts the monotonic
clock `clock`, while timers are compared with the system clock `clock + shift`, as
`Timestamp::now` takes it; somebody may set the system clock once. `Expire` is the kernel, `Tick` is time.

**ChatServer.** One frame is one step. `Down` is `onConnection` for connections that go
down, and it is part of the step whose send found them gone. Time has units of five seconds.

**Services.** `stored` is what survives the connection, `seen` is what the connection sees;
they differ only in a transaction. Each write is a step with three outcomes: done, failed (the
handler's `rollback`), or the connection lost, when a `COMMIT` or an `INSERT` may have been
done. The process may die between any two steps. A query answers truly, or "no" because it
failed. Passwords, searches and lists change nothing and are left out. `TransactionInv` says how far
`seen` is ahead of `stored` at each statement, and that the row which `SELECT ... FOR UPDATE`
locked is still pending and still the decider's.

**ThreadPool.** `pthread_cond_wait` divides a critical section in two steps and may end by itself;
`pthread_cond_signal` wakes one waiter, any. `adjust_thread` reads queue and live number under one
lock, busy number under another, and `shutdown` under none. A slot whose thread has exited may or may
not look dead to `is_thread_alive`, because `pthread_kill` on a thread that is not joined
answers differently in different versions of the C library, and `pthread_create` may fail: both are the choice of
the set of new threads. `threadpool_destroy` may be called while
others are in `threadpool_add`, but no new call is made after it; `main` does not even do that.

**Buffer, Codec.** The vector of a buffer is a sequence and its indices are numbers, counted from 0 as in the
code; `MakeSpace` decides as `makeSpace` does between moving what is readable and growing. A number is decoded from
its bytes, lowest first. The value of a byte, the sizes of the header's fields, of the prepended area and of the first
vector, and the limit are parameters. `Weight` and `Number` are recursive functions, not operators, and the powers of the
byte are products, because the prover reasons about both. `FrameType` is the `Frame` of `Protocol.h`: numbers that fit their
bytes.

**ProtocolEcho.** The peer's frames are a stream of bytes; `readFd` takes any part of it into what is writable and,
if that is filled, into `extrabuf`, at most `Window` bytes each time, what the kernel keeps for a reader. Each turn of the loop of `tryDecode`, and each `send` of `onMessage`, is a step. The
other things a connection does (closing, calls of other threads, errors) are in `TcpConnection`, which has sequences in
the place of these buffers. Output that is left at `forceClose` is dropped, as in the code.

**FrameStream** is what the decoder promises: the frames sent come out whole, once and in order, and the stream
breaks exactly at the first body over the limit. `ProtocolEcho` implements it, with `fatal` for `broken`.

**TimerHeap, EpollReactor.** `status`, `fd`, `mode` (the callback, which always goes with one of `EPOLLIN` and
`EPOLLOUT`), `buf` (its first `len` bytes) and `sendpos` are the fields of a slot; `timers` has `g_heap`, `hidx` and
`expire`. A turn of the loop of `heap_up` or `heap_down` is an operator (`UpTurn`, `DownTurn`) that changes nothing where the
loop has ended, so that a fixed number of turns is as good as the loop: `i` of them for a timer that goes up from place `i`, as
many as the heap has timers for one that goes down. One event is one step, except that each turn of the accept loop and of `timer_expire_process` is one. A timer's time is
kept as what is left until it, so that `Tick` is the clock. A client is its own descriptor: the server never holds a
descriptor that it has closed, so their reuse cannot be told. Clients act only once accepted (before, nobody looks), and not
during the clean-up, which looks at nothing they do. The definitions have names of their own (`ReactorInit`, `ReactorNext`,
`ReactorSpec`, `ReactorTypeOK`), because one module of proofs extends this module and `ThreadPool`. `ReactorSpec` leaves out one thing the code can meet: a `recv` that
fails with `EINTR` or `EAGAIN` after `epoll_wait` has reported the slot. `InterruptedSpec` adds it; see section 5 for what comes of it.

A property that names two or three others is their conjunction (`ChannelFollowsState`, `StreamsAreFinished`,
`ReachedConnectionsExist`, `CalledLoopsExist`, `OwnerReturns`, `RequestsAreServed`, `CallersReturn`,
`TablesFollowConnections`); its parts are stated one by one above it.

Operators introduced as "Faulty variant" are bugs somebody could make in the definition
that follows; no specification uses them. `PROJECT.json`, "mutants", says which property finds
each of them.

## 3. Runs, bounds and fairness

| Run | Instance | What it shows |
|---|---|---|
| `event_loop` | 2 threads, one call for each of them and for user code in the loop | the loop never sleeps on work it was given (`NoLostWakeup`), FIFO refinement, every task of another thread runs, every quit ends the loop (`RequestsAreServed`) |
| `pool` | 2 threads, 2 `getNextLoop` calls | returned loops are usable and the destructor finds its loop (`CalledLoopsExist`), the handshake and the destruction end (`OwnerReturns`) |
| `tcp_connection` | 3 bytes to send, 2 chunks received one by one, 2 posted calls | `ByteStream` refinement, exact write interest and down once (`ChannelFollowsState`), `shutdown` finishes, output drains and input is handed over before the end (`StreamsAreFinished`) |
| `tcp_server` | 2 connections over 2 descriptors, 3 clients, base and IO loop or base alone | channels in use exist, no stale registration, functors of the server find their connection (`ReachedConnectionsExist`), one teardown, closed connections are destroyed |
| `chat_server` | 2 connections, 2 users, 2 frames a message, heartbeat 2 and limit 7 units | heartbeat and session tables follow the connections (`TablesFollowConnections`), silent ones are closed |
| `chat_relogin` | same | violation: a user with a second login is taken off line |
| `services` | 3 users, 2 applies, 1 message | friendship is mutual and matches accepted applies, successes told are stored, the receiver decides once |
| `timer_queue` | 2 timers, delays to 2, interval 2, monotonic clock to 4, system clock set by 1 either way | the timerfd is armed for who waits, no timer is lost or runs twice, order, each due timer runs |
| `thread_pool` | 2 producers with a task each, queue of 1, 1 to 3 workers, one started or retired at a time | counters are exact, tasks run, producers get room and destruction comes to an end (`CallersReturn`) |
| `protocol_echo` | 3 frames with bodies of 0 to 2 bytes and a limit of 1, bytes of 2 values, a header of 1 + 2 + 1 bytes, a vector of 2, `extrabuf` of 3, reads of 3 at most | no byte is lost or moved, the decoder is a `FrameStream`, the input buffer does not grow past the longest frame and what a read brings behind it, proper frames all come back |
| `epoll_reactor` | 3 clients, 2 slots, idle after 2 units, wait of at most 2, buffer of 2, 2 bytes a connection, room for 1 byte on the way back, handlers that take up to 1 unit | slots, epoll, descriptors and heap agree, the wait ends with the first timer, echo in order, idle connections and no others are closed |
| `reactor_interrupted` | 2 clients, 1 byte, with `RecvInterrupted` | violation: the clean-up never ends |

*Why the bounds are enough.* Each interesting case needs few actors. Two calling threads
and the loop give every order of push, wakeup, swap, read of the eventfd and quit around one another; the
safety part is proved without the bounds. A third byte makes a short write leave a rest that
is short again. Two connections are what it takes for one to be in the results, or to reuse the
descriptor, while the other goes. The unit of the heartbeat divides both of its times, so
that the ratio of 10 s to 35 s is exact. Two applies can cross, repeat, or be decided
differently; a third user can try to decide one that is not his. Two timers
can be due together, or one be added, earlier or later, while the other is in a batch; the clock goes on
long enough for a repeating timer to come back, and the proofs do without these bounds. One to three workers
are what it takes to grow, shrink below what was sampled, and use a slot again; with room for one task, the
second producer has to wait. Two values of a byte and a body length of two bytes make the header cut inside a number; a body over the
limit is one byte longer than one at it; a first vector shorter than a frame makes both buffers move and grow, and two reads of 3 can end behind a second whole frame, which the same call must decode. A third client finds
both slots taken or takes one that was just given up, two bytes over a way back of one byte make sends partial. More
than two timers the reactor's run would need many clients for: the assumption `HeapOperations` of
`MCEpollReactor` tries `TimerAdd`, `TimerDel` and `TimerRefresh` on every heap of up to five timers with times 1 to 4, and the proofs
have any heap. The clients are
alike, so the run uses their symmetry; it has no liveness property. Bounds that stop the system
(calls, bytes, clients) are named in the modules; deadlock is checked except where the
system really stops (loop left, pool gone, connection down).

*Fairness.* `EventLoop`: the loop's thread takes its steps and user code returns; a thread
that has pushed goes on to its `wakeup()`. There is none on the timeout of `epoll_wait` and on
unrelated I/O, so liveness does not come from them. `EventLoopThreadPool`: every thread
runs; a mutex is only held for a bounded time. `TcpConnection`: the loop runs (weak); a peer
that stays reads on, so that `epoll_wait` reports the socket writable again and again and one
write in so many takes all that is left (strong, on just these two). `TcpServer`: the loops
run, wake up for what is queued (that they do is what `event_loop` shows), and a thread lets
go of its connection. `TimerQueue`: the loop
runs and comes back from `epoll_wait` when the timerfd or the eventfd is readable, the kernel lets
the timerfd expire, time goes on (to `MaxClock`, by which `DueTimerRuns` takes only timers that can be
due), threads queue what they have made. `ThreadPool`: each thread gets the lock in the end and
tasks return; nobody has to add or to destroy. `ProtocolEcho`: the loop runs while there is something to read or to write, and the peer reads on
(each write takes a byte at least). `EpollReactor`: its one thread runs; only `reactor_interrupted` needs it.
`ChatServer`, `Services` and the run `epoll_reactor` have safety properties only.

## 4. Proofs

`EventLoop_proofs` proves, for any finite or infinite set of threads and any bound on the
number of calls (`EventLoopAssumption`: the loop's own thread is not one of them, and the bound
is a natural number):

- `TypeCorrect`: `Spec => []TypeOK`. Besides types: the flag `callingPendingFunctors_` is up
  exactly while a batch is worked on.
- `NoWakeupIsLost`: `Spec => []NoLostWakeup`. `NoLostWakeup` speaks of `epoll_wait` only and is not
  inductive: the step into `epoll_wait` needs to know that what is queued has a wakeup on its way.
  `WakeInv` extends it over the whole time from the swap of the queue to the next
  read of the eventfd: in this time a task of another thread has a thread at its
  `wakeup()` or a non-zero eventfd, and a task queued by a functor has the eventfd, because
  `callingPendingFunctors_` is up. The steps that could break it are the read of the
  eventfd (after which the loop is bound to swap before it sleeps) and the end of a
  batch (which leaves the eventfd alone).
- `LoopIsTaskQueue`: the initial state is one of `TaskQueue`, and each step is a step of it or a
  stutter. The refinement has no fairness; the proof uses `TypeCorrect` for the sequences.

`TcpConnection_proofs` proves, for any number of bytes, of the peer's chunks and of calls from other threads, and any
size of a read (`ConnectionAssumption`: the bounds are naturals, and a read is of at least one chunk):

- `TypeCorrect`: `Spec => []TypeOK`. Besides types: no event of a dispatch is left behind, and a chunk is in the kernel's
  queue until it is handed over.
- `ChannelIsRight`: `Spec => []ChannelFollowsState`. It is not inductive: `connectEstablished` sets the events of the channel
  to reading, which is right only because nothing can have been sent before (`FreshInv`: no call reaches a connection
  in `kConnecting`, neither from its thread nor from the queue).
- `ConnectionIsByteStream`: `Spec => ImplementsByteStream`. `StreamInv` says that the bytes on the wire and those in the
  buffer are together the accepted bytes in order (`InOrder`), and that after the end of the stream no output is left and the
  state is past `kConnected`. `WritingKeepsOrder` and `QueueingKeepsOrder` are its two moves; the direct write of
  `sendInLoop` is one after the other, from an empty buffer. There is one lemma for each function of the loop's thread
  (`SendStep`, `CloseStep`, `ShutdownStep`, `WriteOutStep`), used by every action that calls it.

`Services_proofs` proves, for any sets of users, applies and messages
(`ServicesAssumption`: `NoRow` is no row, no pair of users, no decision and no fact):

- `TypeCorrect`: `Spec => []TypeOK`. Besides types: a transaction is open exactly from the lock of an
  apply to the end of its transaction, so no request runs in the transaction of another.
- `FriendshipIsMutual`: `Spec => []FriendsMatchApplies`. The tables the invariant speaks of change at
  the `COMMIT`, to what the connection has seen until then, so it is not inductive:
  nothing in it says what that is. `TransactionInv` does: at the `COMMIT`, `seen` is `stored` with one
  pending row decided and, if accepted, both directions of its friendship. The lemma
  `StoredStep` sums up what a step can do to `stored` (nothing, one row more, a commit), and the proof
  goes through these cases.
- `ToldIsNeverLost`: `Spec => []ToldIsStored`, along the same cases: a fact about the tables stays true
  (`HoldsOn`: the row a commit decides was pending, and "accepted" or "rejected" was never told of it),
  and what `Answer` tells is true because `fact` is set at the commit.
- `DecidedByReceiver`: `Spec => ReceiverDecidesOnce`, the action property, from `StoredStep` too.

`TimerQueue_proofs` proves, for any number of timers, any delays and shifts, and a clock that goes any distance
(`TimerQueueAssumption`: the bounds are naturals, the interval is positive):

- `TypeCorrect`: `Spec => []TypeOK`. Besides types: the timers of a batch were due when it was taken.
- `TimerfdIsArmed`: `Spec => []TimerfdArmed`. With `TypeOK` it is inductive. `InsertArmed` is the
  heart of it: a timer that precedes none of those waiting is later than one of them, so the
  timerfd need not move, and one that precedes all of them arms it for itself. It holds when a callback in
  a batch has armed the timerfd for its own timer, because `reset` arms it for the first of all.
- `TimersRunInOrder`: `Spec => RunsInOrder`, from `BatchFirst`: while a batch runs, what stays in `timers_` is
  later than the whole batch, unless a callback of it has added it.
- `TimersAreKept`: `Spec => []NoTimerLost`. That a timer which has run has nothing more to come needs to know that it was in one
  place only: `Placed` says so of the five places between its maker and the batch, and that neither queue of functors has it twice.

`ProtocolEcho_proofs` proves, for any value of a byte, any sizes of the header's numbers, of the limit, the prepended
area, the first vector, `extrabuf` and the kernel's buffer, and any frames that fit their header (`BufferAssumption`,
`CodecAssumption`, `EchoAssumption`: the sizes are naturals, positive where the code's are; a byte has two values at
least). `Buffers` is every vector of bytes with its two indices in order.

- `NewBufferIsEmpty`, `RetrieveTakesFirst`, `AppendAddsLast`: creating, `retrieve` and `append` stay in `Buffers`;
  `retrieve(n)` leaves `Readable` without its first n bytes, `append` adds behind it. The lemma `MakeSpaceMakesRoom`
  has the two branches of `makeSpace`: moved or grown, the readable bytes are the same and the room is enough, and it
  grows only if moving would not do.
- `NumberOfBytes`: the bytes `appendLe` writes for a number are read back as that number; `FrameIsDecoded`: if what a
  buffer holds, with what is still to come, begins with the bytes of a frame, and `tryDecode` takes it for whole, it
  returns that frame and leaves what is behind it. These are inductions, over the bytes of a number and over the
  frames of a stream. The library's induction theorems are out of the prover's reach, but a set of naturals that is
  not empty has a least element (`LeastNumber`, from the well-foundedness of `<`), so a set with 0 and with each
  successor is all of `Nat` (`AllNumbers`), and from that `StepsExist` and `StepsAgree` give the recursive functions
  `Weight`, `Number` and `Encoded` their values, and `StepsFollow` what every step keeps.
- `TypeCorrect`, `NoByteIsLost`, `InputIsBounded`: `TypeOK`, `NoByteLost`, `InputBounded` hold in every state.
- `DecoderIsFrameStream`: `Spec => ImplementsFrameStream`, step by step: `PeerSends` is `Send`, `DecodeFrame` is
  `Deliver`, `DecodeFatal` is `Break`, all else stutters.

  The invariant of all four is `EchoInv`. `NoByteLost` alone says nothing of where frames begin: `FramesLeft` says
  that the frames sent are those handled and others, and that the input buffer and the unread bytes are together the
  encoding of these others, so that the decoder always stands at the start of a frame. `NothingWhole` (outside
  `tryDecode` the buffer has no whole frame) is why less than a frame waits when `readFd` is called, on which the
  bound of the vector rests, and `FatalEnds` is why nothing is read after a header that cannot be.

  The bound was wrong before it was proved. It said that the vector holds at most a frame and two reads, for any
  input. The attempt to prove it showed that a read which fills the vector is followed by a second one that makes it
  grow, and the next read may fill the larger vector: TLC, with eight frames of a header each, found a vector above
  the bound. What ends the growth is how much one read can find, and that is not in the code but in the kernel:
  `Window`.

`TcpServer_proofs` proves, for any sets of connections, descriptors and IO loops and any number of clients
(`ServerAssumption`: there is an IO loop, the base loop is none of them, `Accept` and `None` are no connections):

- `TypeCorrect`: `Spec => []TypeOK`, with no callback of a connection called twice.
- `ReachedExist`: `Spec => []ReachedConnectionsExist`: results of a poll, pollers and the server's own functors reach
  only connections that are there.
- `TeardownIsOne`: `Spec => []OneTeardown`: a connection that is down and still registered has exactly one functor of
  its teardown ahead.

  None of these is inductive, because who keeps a connection changes hands: the table, then the functor of
  `removeConnection` in the base loop's queue, then that of `connectDestroyed` in its own. `ServerInv` follows it.
  `StageOf` says of each state of a connection who keeps it and where it may be registered (only on its own loop, only
  after it was announced). `FunctorsFit` says of each functor that waits, in a queue or in the rest of a batch, what
  it takes for granted when it will run; `OneEach` that a connection has one functor of the server at a time;
  `TeardownAhead` that a teardown once begun is not dropped. Functors are spoken of by their places (loop, queue or
  batch, index): an append, a swap and a step through a batch each change the set of places in one way (`Moves`), and
  the steps in the life of a connection are proved over that. `ThreadInv` is for the thread that holds a pointer.

For `EventLoopThreadPool`, `EventLoop_proofs` proves, for any number of threads and calls, whoever quits the loops
(`PoolAssumption`: there is at least one thread):

- `PoolTypeCorrect`: `PoolSpec => []PoolTypeOK`. Besides types: a mutex is held across steps by the destructor of its
  thread object only.
- `CalledLoopsAreThere`: `PoolSpec => []CalledLoopsExist`. That the pointer a caller holds leads to a loop depends on
  what both sides of the handshake have done: `PoolInv` says that a thread goes beyond its wait only after `startLoop`
  has taken the pointer, that `exiting_` is set only after that, so that `startLoop` cannot return null, that `loop_`
  is set exactly from the first critical section to the last, and that the thread leaves `loop()` only because of
  `quit_`.

`ChatServer_proofs` proves, for any sets of connections and users, any number of frames in a message and any heartbeat
times (`ChatAssumption`: `None` is no connection and no user, the period is positive):

- `TypeCorrect`: `Spec => []TypeOK`. Besides types: of a message nothing is left when `onMessage` has returned.
- `TablesAreRight`: `Spec => []TablesFollowConnections`. The session tables are in step with every connection but
  those that have logged in as a second user, or after they had gone down in the middle of their frames (`misused`): what one of
  these does reaches the entries of no other. `DownKeeps` is the lemma all ways down share,
  `BoundInStep` is a login.
- `NoneStaysSilent`: `Spec => []SilentAreClosed`. The invariant counts more closely than the property: between two
  heartbeats a connection that is up has been silent for at most `Limit` and what the clock has gone since the last one.

`Legacy_proofs` proves for the thread pool, for any numbers of threads, adders and tasks (`ThreadPoolAssumption`: the bounds are naturals in order):

- `CountersAreRight`: `Spec => []TypeOK`, of which the most is that `busy_thr_num` and, until the destruction,
  `live_thr_num` are the numbers of threads they stand for. The steps that change a counter are `OneMoves` (one thread goes
  from one state to another) and `GrowStep` (several slots are filled at once; the sets of threads are disjoint and finite). The
  strengthening is that one who is in `threadpool_add` has a task left.

`Legacy_proofs` proves for the heap, for any number of slots and any heap of them (`Shaped`: a slot in the heap is at the place its
`hidx` says, and no other slot has one; `InOrder`: no parent is later than its child):

- `TimerAddKeeps`, `TimerDelKeeps`, `TimerRefreshKeeps`: the result is `Shaped` and `InOrder`, its timers are those of before
  with, or without, the one slot, and no other slot's time has changed (`HasTimers`). What a turn keeps is said of the times
  alone, as a sequence: `GoesUpAt` is a heap in order but for one place and its parent, `GoesDownAt` one in order but for one
  place and its children, and `HoleAt` one with a place where any time may be. Both orders also say that the children of the place are not
  earlier than its parent, without which an exchange would break what lies across it. A turn leads from such an order to the same
  at another place, or to a heap in order; that `i` turns, or as many as there are timers, are enough is an induction on the turns
  (`UpTurnsExist`, `DownTurnsExist`: the recursive functions exist; the place halves, or doubles, at least). `timer_del` and
  `timer_refresh` do not know which way the timer has to go and try both: `UpThenDownKeeps`. That `timer_add` has room in
  `g_heap` is the pigeonhole principle (`HeapHasRoom`): places are slots, none is there twice, and one slot is not there.
- `RootIsFirst` is the lemma the loop rests on: the first timer is the earliest.

and for the reactor, for any sets of clients, any number of slots and any sizes and times (`ReactorAssumption`: `None` is no
client, and the bounds are naturals, positive where the code's are), of `ReactorSpec`:

- `ReactorInvariant`: `ReactorSpec => []ReactorInv`, and from it `ReactorTypes` (`ReactorTypeOK`), `SlotsAndTimersAgree`
  (`SlotsAgree`), `ReactorWakes` (`WakesForTimers`) and `EchoesInOrder` (`EchoInOrder`).
- `CleanUpIsForTheIdle`: `ReactorSpec => IdleAreClosed`, the action property.

  None of the four invariants is inductive. `SlotsAgree` needs the backlog (`ConnInv`): an `accept` hands out a client that is there
  once and has no slot. `EchoInOrder` and `SlotsAgree` need `PendingInv`: results of one `epoll_wait` are handled one after
  another, and an event must not be for a slot that another one closed or turned from reading to writing. A slot has one
  event at a time, and so nothing of an earlier one is left for it. `WakesForTimers` needs `RootIsFirst` where the wait
  begins; while the wait lasts, the clock goes for the timers and for what is left of it alike. `IdleAreClosed` speaks of how long a
  client was quiet, the code of a timer: `QuietInv` says that the two add up to `Idle` for each slot in use, which holds because every
  event that makes a client not quiet refreshes the timer in the same step. That the clean-up leaves none
  behind is `RootIsFirst` again: it stops at the first timer that is not due.

The strengthenings (`WakeInv`, `StreamInv`, `TransactionInv`, `BatchFirst`, `Placed`, `ChatInv`, `PoolInv`, `ServerInv`, `EchoInv`,
`ReactorInv`) are not listed in the runs: what follows from them is.

Every invariant, every action property and every refinement of the passing runs is stated by a theorem. Model-checked only:

- what is temporal under fairness, because liveness and ENABLED are beyond the prover: `RequestsAreServed`, `OwnerReturns`,
  `StreamsAreFinished`, `ClosedIsDestroyed`, `DueTimerRuns`, `TaskRuns`, `CallersReturn` and `AllEchoed`;
- the two violations of section 5 (`LatestIsOnline`, `ExpiryEnds`), which are about what the code does on one path.

## 5. Where the code and its documents disagree

Two are shown by runs of their own; `PROJECT.json`, "findings", quotes the lines.

- *Interrupted recv* (`epoll_reactor.cpp:238`). `recvdata` takes its slot off epoll before it looks at what `recv`
  returned. After `EINTR` or `EAGAIN`, "not an error, wait for the next event", no event can come. Then
  `acceptconn` gives the slot to the next client, the timer is in the heap twice, and `timer_expire_process`
  meets a first timer that `conn_close` does not take out: the server hangs.
- *Second login* (`SessionManager.cpp:30`). When the older of two connections of a user
  goes, the user is off line.

Noted without a run, each seen in the models' behaviours:

- *EMFILE* (`Acceptor.cpp:57`). The idle descriptor is closed and opened again
  without the `accept` between that the comment describes ("make room, accept and close, to tell the peer"): the client is not told, and
  the base loop spins in `handleRead` and does not get to give descriptors back (`AcceptFull`).
- *Calls of other threads* (`TcpConnection.cpp:156`, 224, 249). `send`, `shutdown` and
  `forceClose` post a raw `this`, although `TcpConnection.h:51` calls `send` thread-safe: the connection can be closed and
  released before the functor runs (`UserPush`, and `Owns`, which leaves these functors out).
- *quit() by the owner* (`EventLoop.cpp:72`). The store lets the loop's thread destroy the
  object that `wakeup()` is then called on (`OwnerQuit`, `CallWakeup`).

- *Second user, login when down* (`SessionManager.cpp:15`, `chatserver.cpp:257`). A connection that logs in as a second user stays
  online for the first, and one that logs in after it went down stays in both tables (`LoginFrame`, `misused`).

Also: after both ends of stream `POLLHUP` closes the connection after one read and the rest
of the input is dropped (`Channel.cpp:53`), though `shutdown()` "only closes the write end"
(`TcpConnection.h:55`); `InputIsHandedOver` exempts this case. A query that fails counts as "no pending apply" (`FriendDao.cpp:234`), so a second one can
be stored. `threadpool_destroy` wakes only `queue_not_empty` (`threadpool.cpp:73`): a producer
that waits for room at that moment never returns -1, as lines 150-156 mean it to; `AddEnds` without
its `\/ shutdown` fails. Where `pthread_kill` succeeds on a thread that has exited, the slots of
retired workers are never used again (`threadpool.cpp:210`). The update of `acceptApply` answers "already handled" when its
statement fails (`FriendDao.cpp:500-505`); the push 1019 goes out before the answer 1018,
against the order in the comment of `handleSendText`; a high-water-mark callback is made on
every append above the mark.

## 6. What is not modelled

- `~TcpServer` with connections up: no program of the repository reaches it.
- Several IO threads under `ChatServer`: its header rules them out.
- Logging, addresses, socket options, configuration, JSON, passwords, hashing: data and
  formatting that no state depends on. Of requests, only the outcome of their validation matters.
- `echo_server.cpp` and the older echo servers (`epoll.cpp`, `select.cpp`, `my_tcp.cpp`, `my_tcp_thread.cpp`, `wrap.c`): no
  state shared between clients.
- In the older reactor: an error on the listening socket (`conn_close` would close it for good), failures of
  `epoll_ctl`, and the end of the main loop when `epoll_wait` fails.
- `searchUsers`, `listFriends` and `listConversations`: they only read, and shape JSON.
- In the older pool: a `pthread_create` of `threadpool_create` that fails (`threadpool.cpp:372` does not look, and the live number
  would be too high for good).
- Memory errors as such. Where an object may be gone, a property says it is not (`Alive`).

## 7. Plan

Done: every module of section 2, and the proofs of section 4.

What would come next: a run of the reactor with liveness (a client that keeps reading gets its bytes back), which needs the
symmetry given up; and `~TcpServer` with connections up, once a program uses it.
