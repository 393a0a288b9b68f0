------------------------------ MODULE EventLoop ------------------------------
(***************************************************************************)
(* One EventLoop object (src/net/EventLoop.cpp): the thread that owns it   *)
(* and the threads that post functors to it or ask it to quit.             *)
(*                                                                         *)
(* The queue alreadyFunctors_ is only touched under mutex_, so a push and  *)
(* the swap are one step each.  The wakeup that follows a push, or a store *)
(* to quit_, is a step of its own: it is done after the unlock, and the    *)
(* loop may run in between.                                                *)
(***************************************************************************)
EXTENDS Naturals, Sequences

CONSTANTS
  Threads,   \* the threads other than the loop's own
  Self,      \* the loop's own thread
  MaxCalls   \* bound: calls of queueInLoop, runInLoop and quit per thread

ASSUME EventLoopAssumption ==
  /\ Self \notin Threads
  /\ MaxCalls \in Nat

VARIABLES
  pc,        \* where the loop's thread is
  tpc,       \* where each other thread is: "idle", or "wake" (must still wake)
  quit,      \* quit_
  calling,   \* callingPendingFunctors_
  pending,   \* alreadyFunctors_
  batch,     \* the local vector of doPendingFunctors, what is left of it
  eventfd,   \* the counter behind wakeupFd_
  active,    \* activeChannels_ not handled yet
  ran,       \* history: the tasks started, in order
  calls,     \* calls made so far by each thread; the number names the task
  fresh      \* history: the loop has not swapped the queue yet

vars == <<pc, tpc, quit, calling, pending, batch, eventfd, active, ran, calls,
          fresh>>

AllThreads == Threads \cup {Self}
Task == AllThreads \X (1 .. MaxCalls)
Channels == {"wakeup", "io"}
LoopPcs == {"user", "test", "poll", "dispatch", "callback", "run", "functor",
            "exited"}

\* User code runs on the loop's thread: before loop() is called (the thread
\* initialiser), in a channel's callback, or in a functor.
InUserCode == pc \in {"user", "callback", "functor"}

Init ==
  /\ pc = "user"
  /\ tpc = [t \in Threads |-> "idle"]
  /\ quit = FALSE
  /\ calling = FALSE
  /\ pending = <<>>
  /\ batch = <<>>
  /\ eventfd = 0
  /\ active = {}
  /\ ran = <<>>
  /\ calls = [t \in AllThreads |-> 0]
  /\ fresh = TRUE

-----------------------------------------------------------------------------
(* Other threads *)

NewTask(t) == <<t, calls[t] + 1>>

CountCall(t) ==
  /\ calls[t] < MaxCalls
  /\ calls' = [calls EXCEPT ![t] = @ + 1]

\* Faulty variant: the push is not followed by a wakeup.
QueueInLoopAsleep(t) ==
  /\ tpc[t] = "idle"
  /\ CountCall(t)
  /\ pending' = Append(pending, NewTask(t))
  /\ UNCHANGED <<pc, tpc, quit, calling, batch, eventfd, active, ran, fresh>>

\* queueInLoop, and runInLoop which does the same off the loop's thread: the
\* push, under the mutex.
QueueInLoop(t) ==
  /\ tpc[t] = "idle"
  /\ CountCall(t)
  /\ pending' = Append(pending, NewTask(t))
  /\ tpc' = [tpc EXCEPT ![t] = "wake"]
  /\ UNCHANGED <<pc, quit, calling, batch, eventfd, active, ran, fresh>>

\* quit(): the store to the atomic quit_.
Quit(t) ==
  /\ tpc[t] = "idle"
  /\ CountCall(t)
  /\ quit' = TRUE
  /\ tpc' = [tpc EXCEPT ![t] = "wake"]
  /\ UNCHANGED <<pc, calling, pending, batch, eventfd, active, ran, fresh>>

\* wakeup(): the write to the eventfd that ends both calls.
Wakeup(t) ==
  /\ tpc[t] = "wake"
  /\ eventfd' = eventfd + 1
  /\ tpc' = [tpc EXCEPT ![t] = "idle"]
  /\ UNCHANGED <<pc, quit, calling, pending, batch, active, ran, calls, fresh>>

-----------------------------------------------------------------------------
(* User code on the loop's thread *)

\* Faulty variant: queueInLoop tests only isInLoopThread().
LoopQueueInLoopAsleep ==
  /\ InUserCode
  /\ CountCall(Self)
  /\ pending' = Append(pending, NewTask(Self))
  /\ UNCHANGED <<pc, tpc, quit, calling, batch, eventfd, active, ran, fresh>>

\* queueInLoop from the loop's thread wakes only while functors are running;
\* nothing else reads the eventfd meanwhile, so push and write are one step.
LoopQueueInLoop ==
  /\ InUserCode
  /\ CountCall(Self)
  /\ pending' = Append(pending, NewTask(Self))
  /\ eventfd' = IF calling THEN eventfd + 1 ELSE eventfd
  /\ UNCHANGED <<pc, tpc, quit, calling, batch, active, ran, fresh>>

\* runInLoop from the loop's thread calls the functor on the spot.
LoopRunInLoop ==
  /\ InUserCode
  /\ CountCall(Self)
  /\ ran' = Append(ran, NewTask(Self))
  /\ UNCHANGED <<pc, tpc, quit, calling, pending, batch, eventfd, active, fresh>>

\* quit() from the loop's thread does not wake.
LoopQuit ==
  /\ InUserCode
  /\ ~quit
  /\ quit' = TRUE
  /\ UNCHANGED <<pc, tpc, calling, pending, batch, eventfd, active, ran, calls,
                 fresh>>

\* The user code returns to its caller.
Return ==
  /\ InUserCode
  /\ pc' = CASE pc = "user"     -> "test"
             [] pc = "callback" -> "dispatch"
             [] pc = "functor"  -> "run"
  /\ UNCHANGED <<tpc, quit, calling, pending, batch, eventfd, active, ran,
                 calls, fresh>>

-----------------------------------------------------------------------------
(* loop() *)

\* The test at the top of the while loop.
TestQuit ==
  /\ pc = "test"
  /\ pc' = IF quit THEN "exited" ELSE "poll"
  /\ UNCHANGED <<tpc, quit, calling, pending, batch, eventfd, active, ran,
                 calls, fresh>>

\* epoll_wait returns the channels in ready.
Polled(ready) ==
  /\ pc = "poll"
  /\ active' = ready
  /\ pc' = "dispatch"
  /\ UNCHANGED <<tpc, quit, calling, pending, batch, eventfd, ran, calls, fresh>>

\* The eventfd is readable, and perhaps another descriptor too.
PollWakeup ==
  /\ eventfd > 0
  /\ \E ready \in {{"wakeup"}, Channels} : Polled(ready)

\* Other descriptors only: the eventfd is not readable, or did not fit among
\* the events of one epoll_wait.
PollIo == Polled({"io"})

\* kPollTimeMs have passed.
PollTimeout == eventfd = 0 /\ Polled({})

\* handleWakeupRead: reading an eventfd resets its counter.
HandleWakeupRead ==
  /\ pc = "dispatch"
  /\ "wakeup" \in active
  /\ eventfd' = 0
  /\ active' = active \ {"wakeup"}
  /\ UNCHANGED <<pc, tpc, quit, calling, pending, batch, ran, calls, fresh>>

\* Another active channel: its callback is user code.
HandleEvent ==
  /\ pc = "dispatch"
  /\ "io" \in active
  /\ active' = active \ {"io"}
  /\ pc' = "callback"
  /\ UNCHANGED <<tpc, quit, calling, pending, batch, eventfd, ran, calls, fresh>>

\* Faulty variant: a copy instead of a swap.
CopyPending ==
  /\ pc = "dispatch"
  /\ active = {}
  /\ calling' = TRUE
  /\ batch' = pending
  /\ fresh' = FALSE
  /\ pc' = "run"
  /\ UNCHANGED <<tpc, quit, pending, eventfd, active, ran, calls>>

\* doPendingFunctors: the flag, and the swap under the mutex.
SwapPending ==
  /\ pc = "dispatch"
  /\ active = {}
  /\ calling' = TRUE
  /\ batch' = pending
  /\ pending' = <<>>
  /\ fresh' = FALSE
  /\ pc' = "run"
  /\ UNCHANGED <<tpc, quit, eventfd, active, ran, calls>>

RunFunctor ==
  /\ pc = "run"
  /\ batch # <<>>
  /\ ran' = Append(ran, Head(batch))
  /\ batch' = Tail(batch)
  /\ pc' = "functor"
  /\ UNCHANGED <<tpc, quit, calling, pending, eventfd, active, calls, fresh>>

\* Faulty variant: callingPendingFunctors_ is not taken down.
BatchDoneKeepsFlag ==
  /\ pc = "run"
  /\ batch = <<>>
  /\ pc' = "test"
  /\ UNCHANGED <<tpc, quit, calling, pending, batch, eventfd, active, ran,
                 calls, fresh>>

BatchDone ==
  /\ pc = "run"
  /\ batch = <<>>
  /\ calling' = FALSE
  /\ pc' = "test"
  /\ UNCHANGED <<tpc, quit, pending, batch, eventfd, active, ran, calls, fresh>>

-----------------------------------------------------------------------------

LoopStep ==
  \/ Return \/ TestQuit \/ PollWakeup \/ HandleWakeupRead \/ HandleEvent
  \/ SwapPending \/ RunFunctor \/ BatchDone

UserStep == LoopQueueInLoop \/ LoopRunInLoop \/ LoopQuit

Next ==
  \/ LoopStep \/ UserStep \/ PollIo \/ PollTimeout
  \/ \E t \in Threads : QueueInLoop(t) \/ Quit(t) \/ Wakeup(t)

\* The loop's thread runs as long as it is not blocked in epoll_wait, user
\* code returns, and a thread that has pushed goes on to its wakeup.  Neither
\* the timeout nor other I/O is relied on to end a wait.
Fairness ==
  /\ WF_vars(LoopStep)
  /\ \A t \in Threads : WF_vars(Wakeup(t))

Spec == Init /\ [][Next]_vars /\ Fairness

-----------------------------------------------------------------------------
(* Properties *)

\* Types; the flag callingPendingFunctors_ is up exactly while a batch is being
\* worked on, and nothing of a batch is left when it is taken down.
TypeOK ==
  /\ pc \in LoopPcs
  /\ tpc \in [Threads -> {"idle", "wake"}]
  /\ quit \in BOOLEAN
  /\ calling \in BOOLEAN /\ (calling <=> pc \in {"run", "functor"})
  /\ pending \in Seq(Task)
  /\ batch \in Seq(Task) /\ (batch # <<>> => calling)
  /\ eventfd \in Nat
  /\ active \in SUBSET Channels
  /\ ran \in Seq(Task)
  /\ calls \in [AllThreads -> 0 .. MaxCalls]
  /\ fresh \in BOOLEAN

\* There is a task that the loop's thread has to come back for: one of another
\* thread, or any task once the loop has been round once.
\* (Only what the loop's own thread queues before its first swap is exempt:
\* the first wait of the loop may hold it up for kPollTimeMs.)
TaskWaiting ==
  \/ \E i \in 1 .. Len(pending) : pending[i][1] # Self
  \/ ~fresh /\ pending # <<>>

WakeupDue == eventfd > 0 \/ \E t \in Threads : tpc[t] = "wake"

\* No wakeup is lost: the loop never sleeps in epoll_wait on work that was
\* given to it unless the eventfd is readable or a thread is about to make it
\* so (queueInLoop's test `!isInLoopThread() || callingPendingFunctors_`, and
\* quit()).
NoLostWakeup == pc = "poll" /\ (quit \/ TaskWaiting) => WakeupDue

\* NoLostWakeup made inductive: from the moment it swaps the queue until it has
\* read the eventfd again, the loop cannot have seen a task that is queued, so
\* a wakeup is due for it all that time and not only in epoll_wait.
WakeInv ==
  /\ pc = "user" => fresh
  /\ pc \in {"user", "test", "poll", "run", "functor"} /\ TaskWaiting => WakeupDue
  /\ pc = "poll" /\ quit => WakeupDue

\* The loop implements a FIFO of tasks: what the swap took out still comes
\* before what has been queued since, each task runs once at most, and none
\* runs after loop() has returned.
Queue == INSTANCE TaskQueue WITH
           queue <- batch \o pending, stopped <- (pc = "exited")
ImplementsTaskQueue == Queue!Spec

\* A task another thread queued is run, unless the loop is made to quit, and
\* without the help of a timeout or of unrelated I/O.
HasRun(task) == \E i \in 1 .. Len(ran) : ran[i] = task
QueuedTaskRuns ==
  \A t \in Threads : \A n \in 1 .. MaxCalls :
    (\E i \in 1 .. Len(pending) : pending[i] = <<t, n>>)
      ~> (HasRun(<<t, n>>) \/ pc = "exited")

\* A quit request, made by any thread at any time (before loop() is entered,
\* during epoll_wait, from a functor), ends the loop.
QuitEndsLoop == quit ~> pc = "exited"

\* What is asked of the loop gets done: the task queued, and quit().
RequestsAreServed == QueuedTaskRuns /\ QuitEndsLoop

=============================================================================
