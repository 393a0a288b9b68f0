------------------------------ MODULE ThreadPool ------------------------------
(***************************************************************************)
(* The thread pool of the older generation: a bounded queue of tasks,      *)
(* workers, a thread that adjusts their number, and destruction.  A        *)
(* critical section is one step; pthread_cond_wait divides it in two, and  *)
(* may end by itself.                                                      *)
(***************************************************************************)
EXTENDS Integers, Sequences, FiniteSets

CONSTANTS
  Adder,         \* threads that call threadpool_add
  MaxTasks,      \* bound: tasks each of them adds
  MinThreads,    \* min_thr_num
  MaxThreads,    \* max_thr_num
  QueueMax,      \* queue_max_size
  MinWait,       \* MIN_WAIT_TASK_NUM
  Vary           \* DEFAULT_THREAD_VARY

ASSUME ThreadPoolAssumption ==
  /\ MaxTasks \in Nat /\ MinThreads \in Nat \ {0}
  /\ MaxThreads \in Nat /\ MinThreads <= MaxThreads
  /\ QueueMax \in Nat \ {0} /\ MinWait \in Nat /\ Vary \in Nat \ {0}

VARIABLES
  task_queue,  \* the tasks in the ring, from queue_front
  live,        \* live_thr_num
  busy,        \* busy_thr_num
  wait_exit,   \* wait_exit_thr_num
  shutdown,
  threads,     \* what the thread of each slot is doing
  adder,       \* where each adder is
  added,       \* tasks it has added
  adjust,      \* where adjust_thread is
  sample,      \* what it has read: queue_size, live_thr_num, busy_thr_num
  destroy,     \* where threadpool_destroy is
  ran          \* history: tasks started

pool == <<task_queue, live, busy, wait_exit, shutdown>>
vars == <<pool, threads, adder, added, adjust, sample, destroy, ran>>

Slot == 1 .. MaxThreads
Task == Adder \X (1 .. MaxTasks)
Size == Len(task_queue)

Init ==
  /\ task_queue = <<>> /\ live = MinThreads /\ busy = 0 /\ wait_exit = 0
  /\ shutdown = FALSE
  /\ threads = [i \in Slot |-> IF i <= MinThreads THEN "lock" ELSE "none"]
  /\ adder = [p \in Adder |-> "idle"] /\ added = [p \in Adder |-> 0]
  /\ adjust = "test" /\ sample = [size |-> 0, live |-> 0, busy |-> 0]
  /\ destroy = "idle" /\ ran = {}

-----------------------------------------------------------------------------
(* The condition variables: a thread that is woken has to lock again *)

Woken(state) == [x \in DOMAIN state |-> IF state[x] = "wait" THEN "awake"
                                                             ELSE state[x]]

\* Faulty variant: the producers are not woken.
NoBroadcast == UNCHANGED adder

\* pthread_cond_signal wakes one of those that wait, if any.
SignalNotEmpty ==
  IF \E i \in Slot : threads[i] = "wait"
  THEN \E i \in Slot : /\ threads[i] = "wait"
                       /\ threads' = [threads EXCEPT ![i] = "awake"]
  ELSE UNCHANGED threads

BroadcastNotEmpty == threads' = Woken(threads)
BroadcastNotFull == adder' = Woken(adder)

SpuriousWakeup ==
  /\ \/ \E i \in Slot : /\ threads[i] = "wait"
                        /\ threads' = [threads EXCEPT ![i] = "awake"]
                        /\ UNCHANGED adder
     \/ \E p \in Adder : /\ adder[p] = "wait"
                         /\ adder' = [adder EXCEPT ![p] = "awake"]
                         /\ UNCHANGED threads
  /\ UNCHANGED <<pool, added, adjust, sample, destroy, ran>>

-----------------------------------------------------------------------------
(* threadpool_add; no call is begun once threadpool_destroy has been, but    *)
(* some may be under way                                                   *)

CallAdd(p) ==
  /\ adder[p] = "idle" /\ added[p] < MaxTasks
  /\ destroy = "idle"
  /\ adder' = [adder EXCEPT ![p] = "lock"]
  /\ UNCHANGED <<pool, threads, added, adjust, sample, destroy, ran>>

\* The queue is full: the adder waits.
AddWaits(p) ==
  /\ adder[p] \in {"lock", "awake"}
  /\ Size = QueueMax /\ ~shutdown
  /\ adder' = [adder EXCEPT ![p] = "wait"]
  /\ UNCHANGED <<pool, threads, added, adjust, sample, destroy, ran>>

\* It returns -1.
AddRefused(p) ==
  /\ adder[p] \in {"lock", "awake"}
  /\ shutdown
  /\ adder' = [adder EXCEPT ![p] = "idle"]
  /\ UNCHANGED <<pool, threads, added, adjust, sample, destroy, ran>>

AddTask(p) ==
  /\ adder[p] \in {"lock", "awake"}
  /\ Size < QueueMax /\ ~shutdown
  /\ task_queue' = Append(task_queue, <<p, added[p] + 1>>)
  /\ added' = [added EXCEPT ![p] = @ + 1]
  /\ SignalNotEmpty
  /\ adder' = [adder EXCEPT ![p] = "idle"]
  /\ UNCHANGED <<live, busy, wait_exit, shutdown, adjust, sample, destroy, ran>>

-----------------------------------------------------------------------------
(* threadpool_thread *)

Becomes(i, state) == threads' = [threads EXCEPT ![i] = state]

\* Faulty variant of the next: whatever there is to do.
MayExitAnyway(i) == threads[i] = "awake" /\ wait_exit > 0

\* After pthread_cond_wait: there is a place among the threads to leave, and
\* nothing to do.
MayExit(i) == threads[i] = "awake" /\ wait_exit > 0 /\ task_queue = <<>>

Exits(i) == MayExit(i) /\ live > MinThreads

ThreadExits(i) ==
  /\ Exits(i)
  /\ wait_exit' = wait_exit - 1 /\ live' = live - 1
  /\ Becomes(i, "exited")
  /\ UNCHANGED <<task_queue, busy, shutdown, adder, added, adjust, sample, destroy,
                 ran>>

\* The top of the inner loop: after the lock, or after a wait that has not
\* ended the thread.
Tests(i) == threads[i] \in {"lock", "awake"} /\ ~Exits(i)
UsesPlace(i) == wait_exit' = IF MayExit(i) THEN wait_exit - 1 ELSE wait_exit

ThreadWaits(i) ==
  /\ Tests(i)
  /\ task_queue = <<>> /\ ~shutdown
  /\ UsesPlace(i)
  /\ Becomes(i, "wait")
  /\ UNCHANGED <<task_queue, live, busy, shutdown, adder, added, adjust, sample,
                 destroy, ran>>

ThreadEnds(i) ==
  /\ Tests(i)
  /\ shutdown
  /\ UsesPlace(i)
  /\ Becomes(i, "exited")
  /\ UNCHANGED <<task_queue, live, busy, shutdown, adder, added, adjust, sample,
                 destroy, ran>>

TakeTask(i) ==
  /\ Tests(i)
  /\ task_queue # <<>> /\ ~shutdown
  /\ task_queue' = Tail(task_queue)
  /\ ran' = ran \cup {Head(task_queue)}
  /\ BroadcastNotFull
  /\ Becomes(i, "taken")
  /\ UNCHANGED <<live, busy, wait_exit, shutdown, added, adjust, sample, destroy>>

StartWork(i) ==
  /\ threads[i] = "taken"
  /\ busy' = busy + 1
  /\ Becomes(i, "work")
  /\ UNCHANGED <<task_queue, live, wait_exit, shutdown, adder, added, adjust,
                 sample, destroy, ran>>

\* The task returns.
EndWork(i) ==
  /\ threads[i] = "work"
  /\ busy' = busy - 1
  /\ Becomes(i, "lock")
  /\ UNCHANGED <<task_queue, live, wait_exit, shutdown, adder, added, adjust,
                 sample, destroy, ran>>

Thread(i) ==
  \/ ThreadExits(i) \/ ThreadWaits(i) \/ ThreadEnds(i) \/ TakeTask(i)
  \/ StartWork(i) \/ EndWork(i)

-----------------------------------------------------------------------------
(* adjust_thread; it reads shutdown without the lock *)

AdjustTest ==
  /\ adjust \in {"test", "sleep"}
  /\ adjust' = IF shutdown THEN "exited"
               ELSE IF adjust = "test" THEN "sleep" ELSE "sample"
  /\ UNCHANGED <<pool, threads, adder, added, sample, destroy, ran>>

AdjustSample ==
  /\ adjust = "sample"
  /\ sample' = [sample EXCEPT !.size = Size, !.live = live]
  /\ adjust' = "sampleBusy"
  /\ UNCHANGED <<pool, threads, adder, added, destroy, ran>>

AdjustSampleBusy ==
  /\ adjust = "sampleBusy"
  /\ sample' = [sample EXCEPT !.busy = busy]
  /\ adjust' = "grow"
  /\ UNCHANGED <<pool, threads, adder, added, destroy, ran>>

ShouldGrow == sample.size >= MinWait /\ sample.live < MaxThreads
ShouldShrink == sample.busy * 2 < sample.live /\ sample.live > MinThreads

AdjustNoGrowth ==
  /\ adjust = "grow" /\ ~ShouldGrow
  /\ adjust' = "shrink"
  /\ UNCHANGED <<pool, threads, adder, added, sample, destroy, ran>>

\* is_thread_alive of a thread that has exited and is not joined: pthread_kill
\* says one or the other, by the version of the C library.
LooksDead(i) == threads[i] = "none" \/ threads[i] = "exited"

\* Faulty variant of the next: live_thr_num as it was sampled.
AdjustGrowBlindly ==
  /\ adjust = "grow" /\ ShouldGrow
  /\ \E new \in SUBSET {i \in Slot : LooksDead(i)} :
       /\ Cardinality(new) <= Vary
       /\ threads' = [i \in Slot |-> IF i \in new THEN "lock" ELSE threads[i]]
       /\ live' = sample.live + Cardinality(new)
  /\ adjust' = "shrink"
  /\ UNCHANGED <<task_queue, busy, wait_exit, shutdown, adder, added, sample,
                 destroy, ran>>

\* Threads are made in up to Vary of the slots that look free, while there are
\* fewer than MaxThreads; pthread_create may fail, and is_thread_alive may take
\* a thread that has exited to be alive.
AdjustGrow ==
  /\ adjust = "grow" /\ ShouldGrow
  /\ \E new \in SUBSET {i \in Slot : LooksDead(i)} :
       /\ Cardinality(new) <= Vary /\ live + Cardinality(new) <= MaxThreads
       /\ threads' = [i \in Slot |-> IF i \in new THEN "lock" ELSE threads[i]]
       /\ live' = live + Cardinality(new)
  /\ adjust' = "shrink"
  /\ UNCHANGED <<task_queue, busy, wait_exit, shutdown, adder, added, sample,
                 destroy, ran>>

\* Up to Vary of the idle threads are to leave.
AdjustShrink ==
  /\ adjust = "shrink"
  /\ IF ShouldShrink
     THEN wait_exit' = Vary /\ BroadcastNotEmpty
     ELSE UNCHANGED <<wait_exit, threads>>
  /\ adjust' = "test"
  /\ sample' = [size |-> 0, live |-> 0, busy |-> 0]
  /\ UNCHANGED <<task_queue, live, busy, shutdown, adder, added, destroy, ran>>

Adjust ==
  \/ AdjustTest \/ AdjustSample \/ AdjustSampleBusy
  \/ AdjustNoGrowth \/ AdjustGrow \/ AdjustShrink

-----------------------------------------------------------------------------
(* threadpool_destroy *)

Destroy ==
  /\ destroy = "idle"
  /\ shutdown' = TRUE
  /\ BroadcastNotEmpty
  /\ destroy' = "joinAdjust"
  /\ UNCHANGED <<task_queue, live, busy, wait_exit, adder, added, adjust, sample,
                 ran>>

JoinAdjust ==
  /\ destroy = "joinAdjust" /\ adjust = "exited"
  /\ destroy' = "joinThreads"
  /\ UNCHANGED <<pool, threads, adder, added, adjust, sample, ran>>

\* All threads are joined, and threadpool_free.
Free ==
  /\ destroy = "joinThreads"
  /\ \A i \in Slot : threads[i] \in {"none", "exited"}
  /\ destroy' = "freed"
  /\ UNCHANGED <<pool, threads, adder, added, adjust, sample, ran>>

Finished == destroy = "freed" /\ UNCHANGED vars

\* A call of threadpool_add goes on, unless the pool is gone from under it.
AddReturns(p) ==
  /\ destroy # "freed"
  /\ AddWaits(p) \/ AddRefused(p) \/ AddTask(p)

Next ==
  \/ \E p \in Adder : CallAdd(p) \/ AddReturns(p)
  \/ \E i \in Slot : Thread(i)
  \/ Adjust \/ SpuriousWakeup
  \/ Destroy \/ JoinAdjust \/ Free \/ Finished

\* Every thread runs and gets the lock in the end, tasks return; nobody has to
\* call threadpool_add or threadpool_destroy.
Spec ==
  /\ Init /\ [][Next]_vars
  /\ \A p \in Adder : WF_vars(AddReturns(p))
  /\ \A i \in Slot : WF_vars(Thread(i))
  /\ WF_vars(Adjust) /\ WF_vars(JoinAdjust) /\ WF_vars(Free)

-----------------------------------------------------------------------------
(* Properties *)

Running == {i \in Slot : threads[i] \notin {"none", "exited"}}

\* Types, and the counters are what they count, though they are kept under two
\* mutexes and threads start, end and are told to end at any time: live_thr_num
\* threads run (those that end in a shutdown are counted on), between
\* min_thr_num and max_thr_num, and busy_thr_num threads are at a task.
TypeOK ==
  /\ task_queue \in Seq(Task) /\ Size <= QueueMax
  /\ wait_exit \in 0 .. Vary /\ shutdown \in BOOLEAN
  /\ threads \in [Slot -> {"none", "lock", "wait", "awake", "taken", "work",
                           "exited"}]
  /\ adder \in [Adder -> {"idle", "lock", "wait", "awake"}]
  /\ added \in [Adder -> 0 .. MaxTasks] /\ ran \subseteq Task
  /\ adjust \in {"test", "sleep", "sample", "sampleBusy", "grow", "shrink",
                 "exited"}
  /\ sample \in [size : Nat, live : Nat, busy : Nat]
  /\ destroy \in {"idle", "joinAdjust", "joinThreads", "freed"}
  /\ busy = Cardinality({i \in Slot : threads[i] = "work"})
  /\ live \in MinThreads .. MaxThreads
  /\ ~shutdown => live = Cardinality(Running)

\* A task that has been accepted runs, unless the pool is shut down: it is never
\* left to threads that sleep, whoever has been told to leave and whichever
\* signal it was that woke whom.
TaskRuns == \A p \in Adder, n \in 1 .. MaxTasks :
  added[p] >= n ~> <<p, n>> \in ran \/ shutdown

\* threadpool_destroy ends, whatever the threads are doing when it is called.
DestroyEnds == shutdown ~> destroy = "freed"

\* threadpool_add that waits for room returns, unless the pool is shut down:
\* each task taken makes room for somebody.
AddEnds == \A p \in Adder : adder[p] = "wait" ~> adder[p] = "idle" \/ shutdown

\* The calls that may block return, to those who add and to who destroys.
CallersReturn == DestroyEnds /\ AddEnds

===============================================================================
