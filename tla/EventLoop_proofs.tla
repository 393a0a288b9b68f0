--------------------------- MODULE EventLoop_proofs ---------------------------
(***************************************************************************)
(* Proofs about EventLoop, for any set of threads and any number of calls, *)
(* and about EventLoopThreadPool, which runs such loops, for any number of *)
(* threads and whoever quits them.                                         *)
(***************************************************************************)
EXTENDS EventLoop, EventLoopThreadPool, SequenceTheorems, TLAPS

-----------------------------------------------------------------------------
(* Types *)

\* The task a call creates is a task.
LEMMA NewTaskType ==
  ASSUME NEW t \in AllThreads, calls \in [AllThreads -> 0 .. MaxCalls],
         calls[t] < MaxCalls
  PROVE  NewTask(t) \in Task
BY EventLoopAssumption DEF NewTask, Task

\* The initial state is well typed.
LEMMA TypeInit == Init => TypeOK
<1> SUFFICES ASSUME Init PROVE TypeOK
  OBVIOUS
<1> USE DEF Init
<1>1. pending \in Seq(Task) /\ batch \in Seq(Task) /\ ran \in Seq(Task)
  OBVIOUS
<1>2. calls \in [AllThreads -> 0 .. MaxCalls]
  BY EventLoopAssumption
<1>3. tpc \in [Threads -> {"idle", "wake"}]
  OBVIOUS
<1>4. pc \in LoopPcs /\ ~(pc \in {"run", "functor"})
  BY DEF LoopPcs
<1>5. QED BY <1>1, <1>2, <1>3, <1>4 DEF TypeOK

\* Every step keeps the state well typed.
LEMMA TypeNext == TypeOK /\ [Next]_vars => TypeOK'
<1> SUFFICES ASSUME TypeOK, [Next]_vars PROVE TypeOK'
  OBVIOUS
<1> USE EventLoopAssumption DEF TypeOK, LoopPcs, Channels
<1>1. ASSUME NEW t \in Threads, QueueInLoop(t) PROVE TypeOK'
  <2>1. t \in AllThreads /\ NewTask(t) \in Task
    BY <1>1, NewTaskType DEF QueueInLoop, CountCall, AllThreads
  <2>2. pending' \in Seq(Task)
    BY <1>1, <2>1 DEF QueueInLoop
  <2>3. QED BY <1>1, <2>1, <2>2 DEF QueueInLoop, CountCall
<1>2. ASSUME NEW t \in Threads, Quit(t) PROVE TypeOK'
  BY <1>2 DEF Quit, CountCall, AllThreads
<1>3. ASSUME NEW t \in Threads, Wakeup(t) PROVE TypeOK'
  BY <1>3 DEF Wakeup
<1>4. CASE LoopQueueInLoop
  <2>1. Self \in AllThreads /\ NewTask(Self) \in Task
    BY <1>4, NewTaskType DEF LoopQueueInLoop, CountCall, AllThreads
  <2>2. QED BY <1>4, <2>1 DEF LoopQueueInLoop, CountCall
<1>5. CASE LoopRunInLoop
  <2>1. Self \in AllThreads /\ NewTask(Self) \in Task
    BY <1>5, NewTaskType DEF LoopRunInLoop, CountCall, AllThreads
  <2>2. QED BY <1>5, <2>1 DEF LoopRunInLoop, CountCall
<1>6. CASE LoopQuit
  BY <1>6 DEF LoopQuit
<1>7. CASE Return
  BY <1>7 DEF Return, InUserCode
<1>8. CASE TestQuit
  BY <1>8 DEF TestQuit
<1>9. CASE PollWakeup \/ PollIo \/ PollTimeout
  BY <1>9 DEF PollWakeup, PollIo, PollTimeout, Polled
<1>10. CASE HandleWakeupRead
  BY <1>10 DEF HandleWakeupRead
<1>11. CASE HandleEvent
  BY <1>11 DEF HandleEvent
<1>12. CASE SwapPending
  <2>1. <<>> \in Seq(Task)
    OBVIOUS
  <2>2. QED BY <1>12, <2>1 DEF SwapPending
<1>13. CASE RunFunctor
  <2>1. Head(batch) \in Task /\ Tail(batch) \in Seq(Task)
    BY <1>13 DEF RunFunctor
  <2>2. QED BY <1>13, <2>1 DEF RunFunctor
<1>14. CASE BatchDone
  BY <1>14 DEF BatchDone
<1>15. CASE UNCHANGED vars
  BY <1>15 DEF vars
<1>16. QED
  BY <1>1, <1>2, <1>3, <1>4, <1>5, <1>6, <1>7, <1>8, <1>9, <1>10, <1>11,
     <1>12, <1>13, <1>14, <1>15 DEF Next, LoopStep, UserStep

\* The state of the loop always has its type, and callingPendingFunctors_ is up
\* exactly while a batch is being worked on.
THEOREM TypeCorrect == Spec => []TypeOK
BY TypeInit, TypeNext, PTL DEF Spec

-----------------------------------------------------------------------------
(* No lost wakeup *)

\* A task that another thread appends is a task waiting, and one the loop's own
\* thread appends before its first swap does not make one wait.
LEMMA AppendWaiting ==
  ASSUME TypeOK, NEW task \in Task, pending' = Append(pending, task),
         fresh' = fresh, TaskWaiting', fresh, task[1] = Self
  PROVE  TaskWaiting
<1>1. PICK i \in 1 .. Len(pending') : pending'[i][1] # Self
  BY DEF TaskWaiting
<1>2. i # Len(pending) + 1
  BY <1>1 DEF TypeOK
<1>3. i \in 1 .. Len(pending) /\ pending'[i] = pending[i]
  BY <1>1, <1>2 DEF TypeOK
<1>4. QED BY <1>1, <1>3 DEF TaskWaiting

\* The strengthened invariant holds at the start.
LEMMA WakeInit == Init => WakeInv
BY DEF Init, WakeInv, TaskWaiting

\* Every step keeps it.
LEMMA WakeNext == TypeOK /\ WakeInv /\ [Next]_vars => WakeInv'
<1> SUFFICES ASSUME TypeOK, WakeInv, [Next]_vars PROVE WakeInv'
  OBVIOUS
<1> USE DEF WakeInv, WakeupDue
<1>1. ASSUME NEW t \in Threads, QueueInLoop(t) PROVE WakeInv'
  <2>1. tpc'[t] = "wake"
    BY <1>1 DEF QueueInLoop, TypeOK
  <2>2. QED BY <1>1, <2>1 DEF QueueInLoop
<1>2. ASSUME NEW t \in Threads, Quit(t) PROVE WakeInv'
  <2>1. tpc'[t] = "wake"
    BY <1>2 DEF Quit, TypeOK
  <2>2. QED BY <1>2, <2>1 DEF Quit
<1>3. ASSUME NEW t \in Threads, Wakeup(t) PROVE WakeInv'
  <2>1. eventfd' > 0
    BY <1>3 DEF Wakeup, TypeOK
  <2>2. QED BY <1>3, <2>1 DEF Wakeup
<1>4. CASE LoopQueueInLoop
  <2>1. CASE pc = "user"
    <3>1. fresh /\ fresh' = fresh /\ ~calling /\ eventfd' = eventfd
      BY <1>4, <2>1 DEF LoopQueueInLoop, TypeOK
    <3>2. NewTask(Self) \in Task /\ NewTask(Self)[1] = Self
      BY <1>4, NewTaskType DEF LoopQueueInLoop, CountCall, AllThreads, TypeOK,
                               NewTask
    <3>3. TaskWaiting' => TaskWaiting
      BY <1>4, <3>1, <3>2, AppendWaiting DEF LoopQueueInLoop
    <3>4. QED BY <1>4, <2>1, <3>1, <3>3 DEF LoopQueueInLoop
  <2>2. CASE pc = "functor"
    <3>1. eventfd' > 0
      BY <1>4, <2>2 DEF LoopQueueInLoop, TypeOK
    <3>2. QED BY <1>4, <2>2, <3>1 DEF LoopQueueInLoop
  <2>3. CASE pc = "callback"
    BY <1>4, <2>3 DEF LoopQueueInLoop
  <2>4. QED BY <1>4, <2>1, <2>2, <2>3 DEF LoopQueueInLoop, InUserCode
<1>5. CASE LoopRunInLoop \/ LoopQuit
  BY <1>5 DEF LoopRunInLoop, LoopQuit, TaskWaiting, InUserCode
<1>6. CASE Return
  BY <1>6 DEF Return, InUserCode, TaskWaiting
<1>7. CASE TestQuit
  BY <1>7 DEF TestQuit, TaskWaiting
<1>8. CASE PollWakeup \/ PollIo \/ PollTimeout
  BY <1>8 DEF PollWakeup, PollIo, PollTimeout, Polled
<1>9. CASE HandleWakeupRead \/ HandleEvent
  BY <1>9 DEF HandleWakeupRead, HandleEvent
<1>10. CASE SwapPending
  <2>1. ~TaskWaiting'
    BY <1>10 DEF SwapPending, TaskWaiting
  <2>2. QED BY <1>10, <2>1 DEF SwapPending
<1>11. CASE RunFunctor \/ BatchDone
  BY <1>11 DEF RunFunctor, BatchDone, TaskWaiting
<1>12. CASE UNCHANGED vars
  BY <1>12 DEF vars, TaskWaiting
<1>13. QED
  BY <1>1, <1>2, <1>3, <1>4, <1>5, <1>6, <1>7, <1>8, <1>9, <1>10, <1>11,
     <1>12 DEF Next, LoopStep, UserStep

\* No wakeup is lost: while the loop sleeps in epoll_wait on a quit request or
\* on a task it has to come back for, the eventfd is readable or a thread is
\* about to write it.
THEOREM NoWakeupIsLost == Spec => []NoLostWakeup
<1>1. WakeInv => NoLostWakeup
  BY DEF WakeInv, NoLostWakeup
<1>2. QED
  BY TypeInit, TypeNext, WakeInit, WakeNext, <1>1, PTL DEF Spec

-----------------------------------------------------------------------------
(* EventLoop implements TaskQueue *)

\* Appending to the second of two sequences appends to their concatenation.
LEMMA AppendToConcat ==
  ASSUME NEW S, NEW s \in Seq(S), NEW u \in Seq(S), NEW e \in S
  PROVE  s \o Append(u, e) = Append(s \o u, e)
<1> DEFINE left == s \o Append(u, e)
           right == Append(s \o u, e)
<1>1. left \in Seq(S) /\ right \in Seq(S) /\ Len(left) = Len(right)
  OBVIOUS
<1>2. ASSUME NEW i \in 1 .. Len(left) PROVE left[i] = right[i]
  OBVIOUS
<1> HIDE DEF left, right
<1>3. left = right
  BY <1>1, <1>2, SeqEqual
<1>4. QED BY <1>3 DEF left, right

\* Head and tail of a concatenation are those of its first part.
LEMMA ConcatFront ==
  ASSUME NEW S, NEW s \in Seq(S), NEW u \in Seq(S), s # <<>>
  PROVE  /\ s \o u # <<>>
         /\ Head(s \o u) = Head(s)
         /\ Tail(s \o u) = Tail(s) \o u
<1>1. Len(s) > 0 /\ Len(s \o u) > 0 /\ s \o u \in Seq(S)
  OBVIOUS
<1> DEFINE left == Tail(s \o u)
           right == Tail(s) \o u
<1>2. left \in Seq(S) /\ right \in Seq(S) /\ Len(left) = Len(right)
  BY <1>1
<1>3. ASSUME NEW i \in 1 .. Len(left) PROVE left[i] = right[i]
  BY <1>1
<1>4. Head(s \o u) = Head(s) /\ s \o u # <<>>
  BY <1>1
<1> HIDE DEF left, right
<1>5. left = right
  BY <1>2, <1>3, SeqEqual
<1>6. QED BY <1>4, <1>5 DEF left, right

\* The loop starts as an empty queue.
LEMMA RefinementInit == Init => Queue!Init
BY DEF Init, Queue!Init

\* Every step of the loop is a step of the queue, or leaves it as it is.
LEMMA RefinementNext == TypeOK /\ [Next]_vars => [Queue!Next]_(Queue!vars)
<1> SUFFICES ASSUME TypeOK, [Next]_vars PROVE [Queue!Next]_(Queue!vars)
  OBVIOUS
<1> USE DEF Queue!vars
<1>1. ASSUME NEW t \in AllThreads, calls[t] < MaxCalls,
             pending' = Append(pending, NewTask(t)),
             batch' = batch, ran' = ran, pc' = pc
      PROVE  Queue!Next
  <2>1. NewTask(t) \in Task
    BY <1>1, NewTaskType DEF TypeOK
  <2>2. (batch \o pending)' = Append(batch \o pending, NewTask(t))
    BY <1>1, <2>1, AppendToConcat DEF TypeOK
  <2>3. Queue!Accept(NewTask(t))
    BY <1>1, <2>2 DEF Queue!Accept
  <2>4. QED BY <2>1, <2>3 DEF Queue!Next
<1>2. ASSUME NEW t \in Threads, QueueInLoop(t) PROVE Queue!Next
  BY <1>1, <1>2 DEF QueueInLoop, CountCall, AllThreads
<1>3. CASE LoopQueueInLoop
  BY <1>1, <1>3 DEF LoopQueueInLoop, CountCall, AllThreads
<1>4. CASE LoopRunInLoop
  <2>1. NewTask(Self) \in Task
    BY <1>4, NewTaskType DEF LoopRunInLoop, CountCall, AllThreads, TypeOK
  <2>2. Queue!RunNow(NewTask(Self))
    BY <1>4 DEF LoopRunInLoop, InUserCode, Queue!RunNow
  <2>3. QED BY <2>1, <2>2 DEF Queue!Next
<1>5. CASE RunFunctor
  <2>1. /\ batch \o pending # <<>>
        /\ Head(batch \o pending) = Head(batch)
        /\ Tail(batch \o pending) = Tail(batch) \o pending
    BY <1>5, ConcatFront DEF RunFunctor, TypeOK
  <2>2. Queue!Serve
    BY <1>5, <2>1 DEF RunFunctor, Queue!Serve
  <2>3. QED BY <2>2 DEF Queue!Next
<1>6. CASE TestQuit
  BY <1>6 DEF TestQuit, Queue!Next, Queue!Stop
<1>7. CASE SwapPending
  <2>1. batch = <<>>
    BY <1>7 DEF SwapPending, TypeOK
  <2>2. QED BY <1>7, <2>1 DEF SwapPending, TypeOK
<1>8. ASSUME NEW t \in Threads, Quit(t) \/ Wakeup(t)
      PROVE  UNCHANGED Queue!vars
  BY <1>8 DEF Quit, Wakeup
<1>9. CASE \/ LoopQuit \/ Return \/ PollWakeup \/ PollIo \/ PollTimeout
           \/ HandleWakeupRead \/ HandleEvent \/ BatchDone
  BY <1>9 DEF LoopQuit, Return, InUserCode, PollWakeup, PollIo, PollTimeout,
              Polled, HandleWakeupRead, HandleEvent, BatchDone
<1>10. CASE UNCHANGED vars
  BY <1>10 DEF vars
<1>11. QED
  BY <1>2, <1>3, <1>4, <1>5, <1>6, <1>7, <1>8, <1>9, <1>10
  DEF Next, LoopStep, UserStep

\* The loop implements the FIFO of TaskQueue: tasks are started in the order of
\* the calls that queued them, once at most, and none after loop() returned.
THEOREM LoopIsTaskQueue == Spec => ImplementsTaskQueue
BY TypeInit, TypeNext, RefinementInit, RefinementNext, PTL
DEF Spec, ImplementsTaskQueue, Queue!Spec

-----------------------------------------------------------------------------
(* EventLoopThreadPool *)


\* How far the owner has come: the threads that have been made, and those
\* whose startLoop has returned.
Made(w) == opc \in {"start", "wait"} => w < cur \/ (w = cur /\ opc = "wait")
Returned(w) == opc \in {"start", "wait"} => w < cur

\* Where a thread is when its loop is published, and when its startLoop must
\* have returned before it went there.
Published == {"wait", "init", "test", "poll", "left"}
Beyond == {"init", "test", "poll", "left", "destruct", "finished"}

\* A thread, its pointer, its handshake and its end.  In particular a thread
\* goes beyond its handshake only when startLoop has taken its loop, and
\* leaves the loop only because of quit_.
WorkerInv(w) ==
  /\ wpc[w] = "none" <=> ~Made(w)
  /\ started[w] <=> Returned(w)
  /\ loops[w] = IF started[w] THEN "loop" ELSE "none"
  /\ loop[w] <=> wpc[w] \in Published
  /\ started[w] => wpc[w] \in {"wait"} \cup Beyond
  /\ wpc[w] \in Beyond => started[w]
  /\ exiting[w] => started[w]
  /\ wpc[w] \in {"left", "destruct", "finished"} => quits[w]

\* What the destructor holds the mutex for.
OwnerInv ==
  /\ opc \in {"wait", "call", "dtorQuit", "join"} => cur \in Worker
  /\ opc = "dtorQuit" => loop[cur]

PoolInv == PoolTypeOK /\ OwnerInv /\ \A w \in Worker : WorkerInv(w)

\* The invariant says what the run checks.
LEMMA PoolInvImplies == PoolInv => CalledLoopsExist
<1> SUFFICES ASSUME PoolInv PROVE CalledLoopsExist
  OBVIOUS
<1>1. ReturnedLoopUsable
  BY DEF PoolInv, WorkerInv, ReturnedLoopUsable, Alive, Beyond
<1>2. DestructorFindsLoop
  BY DEF PoolInv, OwnerInv, WorkerInv, DestructorFindsLoop, Alive, Published
<1> QED
  BY <1>1, <1>2 DEF CalledLoopsExist

\* The turn goes round among the threads.
LEMMA NextInTurn ==
  ASSUME NEW n \in Worker
  PROVE  (n % NumThreads) + 1 \in Worker
BY PoolAssumption, SMTT(30) DEF Worker

\* notify_one wakes one of those that wait, or nobody.
LEMMA NotifyType ==
  ASSUME PoolTypeOK, NEW w \in Worker, NotifyOne(w)
  PROVE  waiting' \in [Worker -> SUBSET {"owner", "worker"}]
BY DEF PoolTypeOK, NotifyOne, NotifyOneAmong

\* The initial state has the invariant.
LEMMA PoolStarts == PoolInit => PoolInv
<1> SUFFICES ASSUME PoolInit PROVE PoolInv
  OBVIOUS
<1>1. PoolTypeOK
  <2>1. dtorLock = [w \in Worker |-> opc = "dtorQuit" /\ w = cur]
    BY DEF PoolInit
  <2>2. loop \in [Worker -> BOOLEAN] /\ exiting \in [Worker -> BOOLEAN]
        /\ started \in [Worker -> BOOLEAN] /\ quits \in [Worker -> BOOLEAN]
        /\ wakeupFd \in [Worker -> BOOLEAN]
    BY DEF PoolInit
  <2>3. cur \in 1 .. NumThreads + 1 /\ next \in Worker /\ served \in 0 .. MaxTurns
    BY PoolAssumption DEF PoolInit, Worker
  <2> QED
    BY <2>1, <2>2, <2>3 DEF PoolInit, PoolTypeOK
<1>2. OwnerInv
  BY DEF PoolInit, OwnerInv
<1>3. ASSUME NEW w \in Worker PROVE WorkerInv(w)
  BY PoolAssumption DEF PoolInit, WorkerInv, Made, Returned, Worker, Published, Beyond
<1> QED
  BY <1>1, <1>2, <1>3 DEF PoolInv

-----------------------------------------------------------------------------

\* A step of the owner that starts threads keeps the invariant.
LEMMA StartNext == PoolInv /\ StartStep => PoolInv'
<1> SUFFICES ASSUME PoolInv, StartStep PROVE PoolInv'
  OBVIOUS
<1> USE PoolAssumption
<1>1. CASE StartLoop
  <2>1. PoolTypeOK'
    BY <1>1 DEF PoolInv, PoolTypeOK, StartLoop, Worker
  <2>2. OwnerInv'
    BY <1>1 DEF OwnerInv, StartLoop
  <2>3. ASSUME NEW w \in Worker PROVE WorkerInv(w)'
    BY <1>1 DEF PoolInv, PoolTypeOK, WorkerInv, StartLoop, Made, Returned, Worker,
                Published, Beyond
  <2> QED
    BY <2>1, <2>2, <2>3 DEF PoolInv
<1>2. CASE StartLoopAwake
  <2>1. cur \in Worker /\ WorkerInv(cur) /\ ~exiting[cur]
    BY <1>2 DEF PoolInv, OwnerInv, WorkerInv, StartLoopAwake, Returned, Worker
  <2>2. CASE UNCHANGED <<opc, cur, started, loops>>
    <3>1. PoolTypeOK'
      BY <1>2, <2>1, <2>2 DEF PoolInv, PoolTypeOK, StartLoopAwake
    <3>2. OwnerInv'
      BY <1>2, <2>2 DEF PoolInv, OwnerInv, StartLoopAwake
    <3>3. ASSUME NEW w \in Worker PROVE WorkerInv(w)'
      BY <1>2, <2>2 DEF PoolInv, WorkerInv, StartLoopAwake, Made, Returned
    <3> QED
      BY <3>1, <3>2, <3>3 DEF PoolInv
  <2>3. CASE loop[cur] /\ loops' = [loops EXCEPT ![cur] = "loop"]
              /\ started' = [started EXCEPT ![cur] = TRUE]
              /\ NotifyOne(cur) /\ opc' = "start" /\ cur' = cur + 1
    <3>0. waiting' \in [Worker -> SUBSET {"owner", "worker"}]
      BY <2>1, <2>3, NotifyType DEF PoolInv
    <3>1. PoolTypeOK'
      BY <1>2, <2>1, <2>3, <3>0 DEF PoolInv, PoolTypeOK, StartLoopAwake, Worker
    <3>2. OwnerInv'
      BY <2>3 DEF OwnerInv
    <3>3. ASSUME NEW w \in Worker PROVE WorkerInv(w)'
      BY <1>2, <2>1, <2>3 DEF PoolInv, PoolTypeOK, WorkerInv, StartLoopAwake, Made, Returned,
         Worker, Published, Beyond
    <3> QED
      BY <3>1, <3>2, <3>3 DEF PoolInv
  <2> QED
    BY <1>2, <2>1, <2>2, <2>3 DEF StartLoopAwake
<1>3. CASE AllStarted
  <2>1. PoolTypeOK'
    BY <1>3 DEF PoolInv, PoolTypeOK, AllStarted
  <2>2. OwnerInv'
    BY <1>3 DEF OwnerInv, AllStarted
  <2>3. ASSUME NEW w \in Worker PROVE WorkerInv(w)'
    BY <1>3 DEF PoolInv, PoolTypeOK, WorkerInv, AllStarted, Made, Returned, Worker
  <2> QED
    BY <2>1, <2>2, <2>3 DEF PoolInv
<1> QED
  BY <1>1, <1>2, <1>3 DEF StartStep

\* A step of the owner that leaves the handshake alone, and every thread where
\* it is; it may quit a loop.
LEMMA OwnerKeeps ==
  ASSUME PoolInv, opc \notin {"start", "wait"}, opc' \notin {"start", "wait"},
         UNCHANGED <<started, loops, loop, wpc>>,
         \A w \in Worker : exiting'[w] => exiting[w] \/ started[w],
         \A w \in Worker : quits[w] => quits'[w]
  PROVE  \A w \in Worker : WorkerInv(w)'
BY DEF PoolInv, WorkerInv, Made, Returned

\* Calls on the loops keep the invariant.
LEMMA CallNext ==
  ASSUME PoolInv,
         CallNextLoop \/ CallWakeup \/ DestroyPool \/ (\E w \in Worker : OwnerQuit(w))
  PROVE  PoolInv'
<1> USE PoolAssumption
<1>1. PoolTypeOK'
  <2>1. CASE CallNextLoop
    <3>1. next' \in Worker /\ cur' \in 1 .. NumThreads + 1
      BY <2>1, NextInTurn DEF PoolInv, PoolTypeOK, CallNextLoop, Worker
    <3>2. served' \in 0 .. MaxTurns
      BY <2>1 DEF PoolInv, PoolTypeOK, CallNextLoop
    <3> QED
      BY <2>1, <3>1, <3>2 DEF PoolInv, PoolTypeOK, CallNextLoop
  <2>2. CASE CallWakeup
    BY <2>2 DEF PoolInv, PoolTypeOK, CallWakeup
  <2>3. CASE DestroyPool
    BY <2>3 DEF PoolInv, PoolTypeOK, DestroyPool
  <2>4. ASSUME NEW w \in Worker, OwnerQuit(w) PROVE PoolTypeOK'
    BY <2>4 DEF PoolInv, PoolTypeOK, OwnerQuit, Worker
  <2> QED
    BY <2>1, <2>2, <2>3, <2>4
<1>2. OwnerInv'
  BY DEF PoolInv, PoolTypeOK, OwnerInv, CallNextLoop, CallWakeup, DestroyPool, OwnerQuit
<1>3. \A w \in Worker : WorkerInv(w)'
  <2>1. /\ opc \notin {"start", "wait"} /\ opc' \notin {"start", "wait"}
        /\ UNCHANGED <<started, loops, loop, wpc, exiting>>
        /\ \A w \in Worker : quits[w] => quits'[w]
    BY DEF PoolInv, PoolTypeOK, CallNextLoop, CallWakeup, DestroyPool, OwnerQuit
  <2> QED
    BY <2>1, OwnerKeeps
<1> QED
  BY <1>1, <1>2, <1>3 DEF PoolInv

\* So do the destructors.
LEMMA DtorNext == PoolInv /\ DtorStep => PoolInv'
<1> SUFFICES ASSUME PoolInv, DtorStep PROVE PoolInv'
  OBVIOUS
<1> USE PoolAssumption
<1>1. opc \in {"dtor", "dtorQuit", "join"}
      /\ opc' \in {"dtor", "dtorQuit", "join", "gone"}
  BY DEF DtorStep, DtorLock, DtorWakeup, DtorJoin, PoolGone
<1>2. \A w \in Worker : started[w]
  BY <1>1 DEF PoolInv, WorkerInv, Returned
<1>3. (cur \in Worker /\ (DtorLock \/ DtorWakeup \/ DtorJoin)) \/ PoolGone
  BY DEF PoolInv, OwnerInv, DtorStep, DtorLock, DtorWakeup, DtorJoin
<1>4. waiting' \in [Worker -> SUBSET {"owner", "worker"}]
  BY <1>3, NotifyType DEF PoolInv, PoolTypeOK, DtorLock, DtorWakeup, DtorJoin, PoolGone
<1>5. PoolTypeOK'
  <2>1. CASE DtorLock
    BY <1>3, <1>4, <2>1 DEF PoolInv, PoolTypeOK, DtorLock
  <2>2. CASE DtorWakeup
    BY <1>3, <1>4, <2>2 DEF PoolInv, PoolTypeOK, DtorWakeup
  <2>3. CASE DtorJoin
    BY <1>3, <2>3 DEF PoolInv, PoolTypeOK, OwnerInv, DtorJoin, Worker
  <2>4. CASE PoolGone
    BY <2>4 DEF PoolInv, PoolTypeOK, PoolGone
  <2> QED
    BY <2>1, <2>2, <2>3, <2>4 DEF DtorStep
<1>6. OwnerInv'
  BY <1>3 DEF PoolInv, PoolTypeOK, OwnerInv, DtorLock, DtorWakeup, DtorJoin, PoolGone
<1>7. \A w \in Worker : WorkerInv(w)'
  <2>1. /\ UNCHANGED <<started, loops, loop, wpc>>
        /\ \A w \in Worker : quits[w] => quits'[w]
    BY <1>3 DEF PoolInv, PoolTypeOK, DtorLock, DtorWakeup, DtorJoin, PoolGone
  <2> QED
    BY <1>1, <1>2, <2>1, OwnerKeeps
<1> QED
  BY <1>5, <1>6, <1>7 DEF PoolInv

-----------------------------------------------------------------------------

\* A thread that moves, and whose own part of the invariant holds again, leaves
\* the rest as it is, as long as it does not take down a loop that is being quit.
LEMMA ThreadMoves ==
  ASSUME PoolInv, NEW v \in Worker, PoolTypeOK', UNCHANGED owner,
         UNCHANGED started,
         \A w \in Worker \ {v} :
            /\ wpc'[w] = wpc[w] /\ loop'[w] = loop[w]
            /\ exiting'[w] = exiting[w] /\ quits'[w] = quits[w],
         dtorLock[v] => loop'[v] = loop[v],
         WorkerInv(v)'
  PROVE  PoolInv'
<1>1. OwnerInv'
  BY DEF PoolInv, PoolTypeOK, OwnerInv, owner
<1>2. ASSUME NEW w \in Worker \ {v} PROVE WorkerInv(w)'
  BY <1>2 DEF PoolInv, WorkerInv, owner, Made, Returned
<1> QED
  BY <1>1, <1>2 DEF PoolInv

\* The critical sections of threadFunc keep the invariant.
LEMMA SectionNext ==
  ASSUME PoolInv, NEW v \in Worker, Publish(v) \/ PublishAwake(v) \/ Unpublish(v)
  PROVE  PoolInv'
<1> USE PoolAssumption
<1>1. UNCHANGED <<owner, started, dtorLock, quits, wakeupFd>> /\ ~dtorLock[v]
  BY DEF Publish, PublishAwake, Unpublish
<1>2. WorkerInv(v)
  BY DEF PoolInv
<1>3. CASE Publish(v)
  <2>1. ~started[v] /\ ~exiting[v]
    BY <1>2, <1>3 DEF WorkerInv, Publish, Beyond
  <2>2. /\ loop' = [loop EXCEPT ![v] = TRUE] /\ exiting' = exiting
        /\ wpc' = [wpc EXCEPT ![v] = "wait"]
        /\ waiting' \in [Worker -> SUBSET {"owner", "worker"}]
    BY <1>3, <2>1 DEF PoolInv, PoolTypeOK, Publish, Goto
  <2>3. PoolTypeOK'
    BY <1>1, <2>2 DEF PoolInv, PoolTypeOK, owner
  <2>4. WorkerInv(v)'
    BY <1>1, <1>2, <1>3, <2>1, <2>2 DEF PoolInv, PoolTypeOK, WorkerInv, owner, Made, Returned,
       Publish, Published, Beyond
  <2> QED
    BY <1>1, <2>2, <2>3, <2>4, ThreadMoves DEF PoolInv, PoolTypeOK
<1>4. CASE PublishAwake(v)
  <2>1. ~started[v] => ~exiting[v]
    BY <1>2 DEF WorkerInv
  <2>2. /\ loop' = loop /\ exiting' = exiting
        /\ wpc' = wpc \/ (started[v] /\ wpc' = [wpc EXCEPT ![v] = "init"])
        /\ waiting' \in [Worker -> SUBSET {"owner", "worker"}]
    BY <1>4, <2>1 DEF PoolInv, PoolTypeOK, PublishAwake, Goto
  <2>3. PoolTypeOK'
    BY <1>1, <2>2 DEF PoolInv, PoolTypeOK, owner
  <2>4. WorkerInv(v)'
    BY <1>1, <1>2, <1>4, <2>2 DEF PoolInv, PoolTypeOK, WorkerInv, owner, Made, Returned,
       PublishAwake, Published, Beyond
  <2> QED
    BY <1>1, <2>2, <2>3, <2>4, ThreadMoves DEF PoolInv, PoolTypeOK
<1>5. CASE Unpublish(v)
  <2>1. /\ loop' = [loop EXCEPT ![v] = FALSE]
        /\ exiting' = [exiting EXCEPT ![v] = TRUE]
        /\ wpc' = [wpc EXCEPT ![v] = "destruct"]
        /\ waiting' \in [Worker -> SUBSET {"owner", "worker"}]
    BY <1>5, NotifyType DEF PoolInv, Unpublish, Goto
  <2>2. PoolTypeOK'
    BY <1>1, <2>1 DEF PoolInv, PoolTypeOK, owner
  <2>3. WorkerInv(v)'
    BY <1>1, <1>2, <1>5, <2>1 DEF PoolInv, PoolTypeOK, WorkerInv, owner, Made, Returned,
       Unpublish, Published, Beyond
  <2> QED
    BY <1>1, <2>1, <2>2, <2>3, ThreadMoves DEF PoolInv, PoolTypeOK
<1> QED
  BY <1>3, <1>4, <1>5

\* The other steps of a thread do.
LEMMA LoopNext ==
  ASSUME PoolInv, NEW v \in Worker,
         \/ Construct(v) \/ InitCallback(v) \/ LoopTest(v) \/ LoopWakeup(v)
         \/ LoopOther(v) \/ Destruct(v) \/ SelfQuit(v) \/ SpuriousWakeup(v)
  PROVE  PoolInv'
<1>1. UNCHANGED <<owner, loop, exiting, started, dtorLock>>
  BY DEF Construct, InitCallback, LoopTest, LoopWakeup, LoopOther, Destruct,
         SelfQuit, SpuriousWakeup
<1>2. PoolTypeOK'
  <2>1. wpc' \in [Worker -> {"none", "construct", "publish", "wait", "init", "test",
                            "poll", "left", "destruct", "finished"}]
    BY DEF PoolInv, PoolTypeOK, Construct, InitCallback, LoopTest, LoopWakeup, LoopOther,
           Destruct, SelfQuit, SpuriousWakeup, Goto
  <2>2. quits' \in [Worker -> BOOLEAN]
    BY DEF PoolInv, PoolTypeOK, Construct, InitCallback, LoopTest, LoopWakeup, LoopOther,
           Destruct, SelfQuit, SpuriousWakeup
  <2>3. wakeupFd' \in [Worker -> BOOLEAN]
    BY DEF PoolInv, PoolTypeOK, Construct, InitCallback, LoopTest, LoopWakeup, LoopOther,
           Destruct, SelfQuit, SpuriousWakeup
  <2>4. waiting' \in [Worker -> SUBSET {"owner", "worker"}]
    BY DEF PoolInv, PoolTypeOK, Construct, InitCallback, LoopTest, LoopWakeup, LoopOther,
           Destruct, SelfQuit, SpuriousWakeup
  <2> QED
    BY <1>1, <2>1, <2>2, <2>3, <2>4 DEF PoolInv, PoolTypeOK, owner
<1>3. \A w \in Worker \ {v} : wpc'[w] = wpc[w] /\ quits'[w] = quits[w]
  BY DEF PoolInv, PoolTypeOK, Construct, InitCallback, LoopTest, LoopWakeup, LoopOther,
         Destruct, SelfQuit, SpuriousWakeup, Goto
<1>4. WorkerInv(v)'
  BY <1>1 DEF PoolInv, PoolTypeOK, WorkerInv, owner, Made, Returned, Published, Beyond,
     Construct, InitCallback, LoopTest, LoopWakeup, LoopOther, Destruct, SelfQuit,
     SpuriousWakeup, Goto
<1> QED
  BY <1>1, <1>2, <1>3, <1>4, ThreadMoves

\* Every step keeps the invariant.
LEMMA PoolSteps == PoolInv /\ [PoolNext]_poolVars => PoolInv'
<1>1. ASSUME PoolInv, UNCHANGED poolVars PROVE PoolInv'
  <2>1. PoolTypeOK' /\ OwnerInv'
    BY <1>1 DEF PoolInv, PoolTypeOK, OwnerInv, poolVars
  <2>2. ASSUME NEW w \in Worker PROVE WorkerInv(w)'
    BY <1>1 DEF PoolInv, WorkerInv, poolVars, Made, Returned
  <2> QED
    BY <2>1, <2>2 DEF PoolInv
<1> QED
  BY <1>1, StartNext, CallNext, DtorNext, SectionNext, LoopNext DEF PoolNext, WorkerStep

\* Types; the mutex of a thread object is held across steps by its destructor
\* only.
THEOREM PoolTypeCorrect == PoolSpec => []PoolTypeOK
<1>1. PoolInv => PoolTypeOK
  BY DEF PoolInv
<1> QED
  BY <1>1, PoolStarts, PoolSteps, PTL DEF PoolSpec

\* A loop that startLoop has returned exists until somebody quits it, and the
\* destructor calls quit() on loops that exist, for any number of threads.
THEOREM CalledLoopsAreThere == PoolSpec => []CalledLoopsExist
BY PoolInvImplies, PoolStarts, PoolSteps, PTL DEF PoolSpec
=============================================================================
