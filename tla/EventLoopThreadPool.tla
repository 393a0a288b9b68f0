------------------------- MODULE EventLoopThreadPool -------------------------
(***************************************************************************)
(* EventLoopThread and EventLoopThreadPool: the owner starts one thread    *)
(* after the other, waits until each has published its EventLoop, hands    *)
(* the loops out in turn, and destroys the thread objects in turn (quit,   *)
(* notify, join).                                                          *)
(*                                                                         *)
(* Each thread object has a mutex and one condition variable on which both *)
(* sides wait.  A critical section is one step, but for the destructor's:  *)
(* the quit() it makes inside has a store and a wakeup between which the   *)
(* loop's thread runs.  An EventLoop is abstracted to quit_, its eventfd   *)
(* and where its thread is; EventLoop.tla has the rest.  No name here is   *)
(* one of EventLoop's, so that a module can extend both.                   *)
(***************************************************************************)
EXTENDS Integers

CONSTANTS
  NumThreads,   \* numThreads_
  MaxTurns,     \* bound: calls the owner makes on the loops it was given
  Quitters      \* who else calls quit(): "owner" on a loop it got from
                \* startLoop, "loop" from a callback on its own thread

ASSUME PoolAssumption ==
  /\ NumThreads \in Nat \ {0}
  /\ MaxTurns \in Nat
  /\ Quitters \subseteq {"owner", "loop"}

Worker == 1 .. NumThreads

VARIABLES
  opc,        \* where the owner is
  cur,        \* the thread object the owner starts, calls or destroys
  loop,       \* [Worker -> BOOLEAN]: loop_ is not null
  exiting,    \* exiting_
  started,    \* started_
  dtorLock,   \* the destructor holds mutex_ across steps
  waiting,    \* [Worker -> SUBSET {"owner", "worker"}]: blocked in cond_.wait
  wpc,        \* where each thread is
  quits,       \* quit_ of its EventLoop
  wakeupFd,    \* the eventfd of its EventLoop is readable
  loops,      \* [Worker -> {"none", "null", "loop"}]: what startLoop returned
  next,       \* next_
  served      \* calls of getNextLoop made

owner == <<opc, cur, loops, next, served>>
poolVars == <<opc, cur, loop, exiting, started, dtorLock, waiting, wpc, quits,
          wakeupFd, loops, next, served>>

\* The EventLoop, a local variable of threadFunc, exists.
Alive(w) == wpc[w] \notin {"none", "construct", "finished"}

PoolInit ==
  /\ opc = "start"
  /\ cur = 1
  /\ loop = [w \in Worker |-> FALSE]
  /\ exiting = [w \in Worker |-> FALSE]
  /\ started = [w \in Worker |-> FALSE]
  /\ dtorLock = [w \in Worker |-> FALSE]
  /\ waiting = [w \in Worker |-> {}]
  /\ wpc = [w \in Worker |-> "none"]
  /\ quits = [w \in Worker |-> FALSE]
  /\ wakeupFd = [w \in Worker |-> FALSE]
  /\ loops = [w \in Worker |-> "none"]
  /\ next = 1
  /\ served = 0

\* cond_.notify_one on w's condition variable, with s already waiting there.
NotifyOneAmong(w, s) ==
  IF s = {} THEN waiting' = [waiting EXCEPT ![w] = {}]
  ELSE \E t \in s : waiting' = [waiting EXCEPT ![w] = s \ {t}]

NotifyOne(w) == NotifyOneAmong(w, waiting[w])

\* The standard lets a wait return unasked.
SpuriousWakeup(w) ==
  /\ \E t \in waiting[w] : waiting' = [waiting EXCEPT ![w] = @ \ {t}]
  /\ UNCHANGED <<owner, loop, exiting, started, dtorLock, wpc, quits, wakeupFd>>

-----------------------------------------------------------------------------
(* The owner: EventLoopThreadPool::start, startLoop, getNextLoop, destructors *)

\* startLoop up to its wait: the thread is created with the mutex held, so it
\* cannot have published its loop yet.
StartLoop ==
  /\ opc = "start"
  /\ cur \in Worker
  /\ wpc' = [wpc EXCEPT ![cur] = "construct"]
  /\ waiting' = [waiting EXCEPT ![cur] = @ \cup {"owner"}]
  /\ opc' = "wait"
  /\ UNCHANGED <<cur, loop, exiting, started, dtorLock, quits, wakeupFd, loops,
                 next, served>>

\* The wait in startLoop returns with the mutex: wait again, or return loop_.
StartLoopAwake ==
  /\ opc = "wait"
  /\ "owner" \notin waiting[cur]
  /\ \/ /\ ~loop[cur] /\ ~exiting[cur]
        /\ waiting' = [waiting EXCEPT ![cur] = @ \cup {"owner"}]
        /\ UNCHANGED <<opc, cur, started, loops>>
     \/ /\ loop[cur] \/ exiting[cur]
        /\ loops' = [loops EXCEPT ![cur] = IF loop[cur] THEN "loop" ELSE "null"]
        /\ started' = [started EXCEPT ![cur] = TRUE]
        /\ NotifyOne(cur)
        /\ opc' = "start"
        /\ cur' = cur + 1
  /\ UNCHANGED <<loop, exiting, dtorLock, wpc, quits, wakeupFd, next, served>>

AllStarted ==
  /\ opc = "start"
  /\ cur \notin Worker
  /\ opc' = "serve"
  /\ UNCHANGED <<cur, loop, exiting, started, dtorLock, waiting, wpc, quits,
                 wakeupFd, loops, next, served>>

\* getNextLoop, and a queueInLoop on the loop it returns, up to the wakeup.
CallNextLoop ==
  /\ opc = "serve"
  /\ served < MaxTurns
  /\ cur' = next
  /\ next' = (next % NumThreads) + 1
  /\ served' = served + 1
  /\ opc' = "call"
  /\ UNCHANGED <<loop, exiting, started, dtorLock, waiting, wpc, quits, wakeupFd,
                 loops>>

\* quit() on a loop got from startLoop, up to the wakeup.
OwnerQuit(w) ==
  /\ "owner" \in Quitters
  /\ opc = "serve"
  /\ ~quits[w]
  /\ cur' = w
  /\ quits' = [quits EXCEPT ![w] = TRUE]
  /\ opc' = "call"
  /\ UNCHANGED <<loop, exiting, started, dtorLock, waiting, wpc, wakeupFd, loops,
                 next, served>>

\* The wakeup that ends queueInLoop and quit.
CallWakeup ==
  /\ opc = "call"
  /\ wakeupFd' = [wakeupFd EXCEPT ![cur] = TRUE]
  /\ opc' = "serve"
  /\ UNCHANGED <<cur, loop, exiting, started, dtorLock, waiting, wpc, quits,
                 loops, next, served>>

\* The pool goes: its thread objects are destroyed from the first to the last.
DestroyPool ==
  /\ opc = "serve"
  /\ opc' = "dtor"
  /\ cur' = 1
  /\ UNCHANGED <<loop, exiting, started, dtorLock, waiting, wpc, quits, wakeupFd,
                 loops, next, served>>

\* ~EventLoopThread: lock, exiting_ = true, and the store of loop_->quit().
DtorLock ==
  /\ opc = "dtor"
  /\ cur \in Worker
  /\ exiting' = [exiting EXCEPT ![cur] = TRUE]
  /\ \/ /\ loop[cur]
        /\ quits' = [quits EXCEPT ![cur] = TRUE]
        /\ dtorLock' = [dtorLock EXCEPT ![cur] = TRUE]
        /\ opc' = "dtorQuit"
        /\ UNCHANGED waiting
     \/ /\ ~loop[cur]
        /\ NotifyOne(cur)
        /\ opc' = "join"
        /\ UNCHANGED <<quits, dtorLock>>
  /\ UNCHANGED <<cur, loop, started, wpc, wakeupFd, loops, next, served>>

\* Faulty variant: the mutex is not released.
DtorJoinsLocked ==
  /\ opc = "dtorQuit"
  /\ wakeupFd' = [wakeupFd EXCEPT ![cur] = TRUE]
  /\ NotifyOne(cur)
  /\ opc' = "join"
  /\ UNCHANGED <<cur, loop, exiting, started, dtorLock, wpc, quits, loops, next,
                 served>>

\* The wakeup of loop_->quit(), notify_one, unlock.
DtorWakeup ==
  /\ opc = "dtorQuit"
  /\ wakeupFd' = [wakeupFd EXCEPT ![cur] = TRUE]
  /\ NotifyOne(cur)
  /\ dtorLock' = [dtorLock EXCEPT ![cur] = FALSE]
  /\ opc' = "join"
  /\ UNCHANGED <<cur, loop, exiting, started, wpc, quits, loops, next, served>>

DtorJoin ==
  /\ opc = "join"
  /\ wpc[cur] = "finished"
  /\ opc' = "dtor"
  /\ cur' = cur + 1
  /\ UNCHANGED <<loop, exiting, started, dtorLock, waiting, wpc, quits, wakeupFd,
                 loops, next, served>>

PoolGone ==
  /\ opc = "dtor"
  /\ cur \notin Worker
  /\ opc' = "gone"
  /\ UNCHANGED <<cur, loop, exiting, started, dtorLock, waiting, wpc, quits,
                 wakeupFd, loops, next, served>>

-----------------------------------------------------------------------------
(* threadFunc *)

Goto(w, at) == wpc' = [wpc EXCEPT ![w] = at]

\* EventLoop loop;
Construct(w) ==
  /\ wpc[w] = "construct"
  /\ Goto(w, "publish")
  /\ UNCHANGED <<owner, loop, exiting, started, dtorLock, waiting, quits, wakeupFd>>

\* Faulty variant: the loop is published without notify_one.
PublishSilently(w) ==
  /\ wpc[w] = "publish"
  /\ ~dtorLock[w]
  /\ loop' = [loop EXCEPT ![w] = TRUE]
  /\ IF started[w] THEN Goto(w, "init") /\ UNCHANGED waiting
     ELSE /\ Goto(w, "wait")
          /\ waiting' = [waiting EXCEPT ![w] = @ \cup {"worker"}]
  /\ UNCHANGED <<owner, exiting, started, dtorLock, quits, wakeupFd>>

\* The first critical section up to its wait; owner and worker never both hold
\* the mutex, and the owner in startLoop has released it.
Publish(w) ==
  /\ wpc[w] = "publish"
  /\ ~dtorLock[w]
  /\ IF exiting[w]
     THEN /\ NotifyOne(w)
          /\ Goto(w, "destruct")
          /\ UNCHANGED loop
     ELSE /\ loop' = [loop EXCEPT ![w] = TRUE]
          /\ IF started[w]
             THEN NotifyOne(w) /\ Goto(w, "init")
             ELSE /\ Goto(w, "wait")
                  /\ IF waiting[w] = {}
                     THEN waiting' = [waiting EXCEPT ![w] = {"worker"}]
                     ELSE \E t \in waiting[w] : waiting' =
                            [waiting EXCEPT ![w] = (@ \ {t}) \cup {"worker"}]
  /\ UNCHANGED <<owner, exiting, started, dtorLock, quits, wakeupFd>>

\* The wait for started_ returns with the mutex.
PublishAwake(w) ==
  /\ wpc[w] = "wait"
  /\ "worker" \notin waiting[w]
  /\ ~dtorLock[w]
  /\ IF ~started[w] /\ ~exiting[w]
     THEN /\ waiting' = [waiting EXCEPT ![w] = @ \cup {"worker"}]
          /\ UNCHANGED <<wpc, loop>>
     ELSE IF ~started[w]
     THEN /\ loop' = [loop EXCEPT ![w] = FALSE]
          /\ NotifyOne(w)
          /\ Goto(w, "destruct")
     ELSE Goto(w, "init") /\ UNCHANGED <<waiting, loop>>
  /\ UNCHANGED <<owner, exiting, started, dtorLock, quits, wakeupFd>>

\* callback_(&loop), then loop.loop() is entered.
InitCallback(w) ==
  /\ wpc[w] = "init"
  /\ Goto(w, "test")
  /\ UNCHANGED <<owner, loop, exiting, started, dtorLock, waiting, quits, wakeupFd>>

\* The test of quit_ in EventLoop::loop.
LoopTest(w) ==
  /\ wpc[w] = "test"
  /\ Goto(w, IF quits[w] THEN "left" ELSE "poll")
  /\ UNCHANGED <<owner, loop, exiting, started, dtorLock, waiting, quits, wakeupFd>>

\* epoll_wait returns because of the eventfd; handleWakeupRead clears it.
LoopWakeup(w) ==
  /\ wpc[w] = "poll"
  /\ wakeupFd[w]
  /\ wakeupFd' = [wakeupFd EXCEPT ![w] = FALSE]
  /\ Goto(w, "test")
  /\ UNCHANGED <<owner, loop, exiting, started, dtorLock, waiting, quits>>

\* It returns because of other I/O, or of kPollTimeMs.
LoopOther(w) ==
  /\ wpc[w] = "poll"
  /\ Goto(w, "test")
  /\ UNCHANGED <<owner, loop, exiting, started, dtorLock, waiting, quits, wakeupFd>>

\* A callback on the loop's own thread calls quit().
SelfQuit(w) ==
  /\ "loop" \in Quitters
  /\ wpc[w] \in {"init", "test"}
  /\ ~quits[w]
  /\ quits' = [quits EXCEPT ![w] = TRUE]
  /\ UNCHANGED <<owner, loop, exiting, started, dtorLock, waiting, wpc, wakeupFd>>

\* Faulty variant: loop_ is taken down without the mutex.
UnpublishUnlocked(w) ==
  /\ wpc[w] = "left"
  /\ loop' = [loop EXCEPT ![w] = FALSE]
  /\ exiting' = [exiting EXCEPT ![w] = TRUE]
  /\ NotifyOne(w)
  /\ Goto(w, "destruct")
  /\ UNCHANGED <<owner, started, dtorLock, quits, wakeupFd>>

\* loop() has returned: the last critical section.
Unpublish(w) ==
  /\ wpc[w] = "left"
  /\ ~dtorLock[w]
  /\ loop' = [loop EXCEPT ![w] = FALSE]
  /\ exiting' = [exiting EXCEPT ![w] = TRUE]
  /\ NotifyOne(w)
  /\ Goto(w, "destruct")
  /\ UNCHANGED <<owner, started, dtorLock, quits, wakeupFd>>

\* threadFunc returns; its EventLoop is destroyed and the thread ends.
Destruct(w) ==
  /\ wpc[w] = "destruct"
  /\ Goto(w, "finished")
  /\ UNCHANGED <<owner, loop, exiting, started, dtorLock, waiting, quits, wakeupFd>>

-----------------------------------------------------------------------------

StartStep == StartLoop \/ StartLoopAwake \/ AllStarted
DtorStep == DtorLock \/ DtorWakeup \/ DtorJoin \/ PoolGone

WorkerStep(w) ==
  \/ Construct(w) \/ Publish(w) \/ PublishAwake(w) \/ InitCallback(w)
  \/ LoopTest(w) \/ LoopWakeup(w) \/ Unpublish(w) \/ Destruct(w)

PoolNext ==
  \/ StartStep \/ DtorStep \/ CallNextLoop \/ CallWakeup \/ DestroyPool
  \/ \E w \in Worker :
       \/ WorkerStep(w) \/ OwnerQuit(w) \/ SelfQuit(w) \/ LoopOther(w)
       \/ SpuriousWakeup(w)

\* Threads that are not blocked run.  Nobody relies on a spurious wakeup, on the
\* poll timeout or on anybody choosing to quit.
PoolFairness ==
  /\ WF_poolVars(StartStep)
  /\ WF_poolVars(CallWakeup)
  /\ WF_poolVars(DtorStep)
  /\ \A w \in Worker : WF_poolVars(WorkerStep(w))

PoolSpec == PoolInit /\ [][PoolNext]_poolVars /\ PoolFairness

-----------------------------------------------------------------------------
(* Properties *)

\* Types; the mutex is held across steps by the destructor of cur only.
PoolTypeOK ==
  /\ opc \in {"start", "wait", "serve", "call", "dtor", "dtorQuit", "join",
              "gone"}
  /\ cur \in 1 .. NumThreads + 1
  /\ loop \in [Worker -> BOOLEAN]
  /\ exiting \in [Worker -> BOOLEAN]
  /\ started \in [Worker -> BOOLEAN]
  /\ dtorLock = [w \in Worker |-> opc = "dtorQuit" /\ w = cur]
  /\ waiting \in [Worker -> SUBSET {"owner", "worker"}]
  /\ wpc \in [Worker -> {"none", "construct", "publish", "wait", "init", "test",
                         "poll", "left", "destruct", "finished"}]
  /\ quits \in [Worker -> BOOLEAN]
  /\ wakeupFd \in [Worker -> BOOLEAN]
  /\ loops \in [Worker -> {"none", "null", "loop"}]
  /\ next \in Worker
  /\ served \in 0 .. MaxTurns

\* startLoop returns a loop that exists and that is in use until somebody quits
\* it: the pointer can be used at once (the started_ handshake).
ReturnedLoopUsable ==
  \A w \in Worker :
    /\ loops[w] # "null"
    /\ loops[w] = "loop" /\ ~quits[w] => Alive(w)

\* loop_ never points to a destroyed EventLoop, so that the quit() made by the
\* destructor, which may race with the loop's thread leaving loop() of its own
\* accord, is made on a live loop from its store to its wakeup.
DestructorFindsLoop ==
  /\ \A w \in Worker : loop[w] => Alive(w)
  /\ opc = "dtorQuit" => Alive(cur)

\* The loops that startLoop hands out and the destructor quits are there: the
\* pointer is published neither too early nor too late, whoever quits a loop.
CalledLoopsExist == ReturnedLoopUsable /\ DestructorFindsLoop

\* startLoop returns: neither side of the handshake sleeps through the other's
\* notification.
StartReturns == opc = "wait" ~> opc = "serve"

\* The destructors return: every thread is woken, leaves its loop and is joined.
DestructionEnds == opc = "dtor" ~> opc = "gone"

\* The owner's calls return: neither start() nor the destruction hangs.
OwnerReturns == StartReturns /\ DestructionEnds

=============================================================================
