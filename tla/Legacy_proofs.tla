--------------------------- MODULE Legacy_proofs ---------------------------
(***************************************************************************)
(* Proofs about the two modules of the legacy code in src/src.             *)
(*                                                                         *)
(* ThreadPool, for any number of threads, adders and tasks: the counters   *)
(* are what they count.                                                    *)
(*                                                                         *)
(* TimerHeap and EpollReactor, for any number of slots and clients: each   *)
(* operation of the heap leaves a heap with the right timers in it, and    *)
(* the reactor's slots, timers, buffers and connections agree.             *)
(***************************************************************************)
EXTENDS ThreadPool, EpollReactor, FiniteSetTheorems, SequenceTheorems,
        WellFoundedInduction, TLAPS

-----------------------------------------------------------------------------
(* ThreadPool: the invariant *)

ThreadState == {"none", "lock", "wait", "awake", "taken", "work", "exited"}
AdderState == {"idle", "lock", "wait", "awake"}

\* The threads that run, and those at a task, when t says what each is doing.
RunningIn(t) == {i \in Slot : t[i] \notin {"none", "exited"}}
WorkingIn(t) == {i \in Slot : t[i] = "work"}

\* What a step of the threads keeps.
ThreadsInv ==
  /\ threads \in [Slot -> ThreadState]
  /\ busy = Cardinality(WorkingIn(threads))
  /\ live \in MinThreads .. MaxThreads
  /\ ~shutdown => live = Cardinality(RunningIn(threads))
  /\ wait_exit \in 0 .. Vary /\ shutdown \in BOOLEAN

\* What the queue and those who add to it keep: an adder that is in
\* threadpool_add has a task left.
QueueInv ==
  /\ task_queue \in Seq(Task) /\ Size <= QueueMax
  /\ adder \in [Adder -> AdderState]
  /\ added \in [Adder -> 0 .. MaxTasks] /\ ran \subseteq Task
  /\ \A p \in Adder : adder[p] # "idle" => added[p] < MaxTasks

\* What adjust_thread and threadpool_destroy keep.
ControlInv ==
  /\ adjust \in {"test", "sleep", "sample", "sampleBusy", "grow", "shrink",
                 "exited"}
  /\ sample \in [size : Nat, live : Nat, busy : Nat]
  /\ destroy \in {"idle", "joinAdjust", "joinThreads", "freed"}

PoolInv == ThreadsInv /\ QueueInv /\ ControlInv

\* The invariant says what the runs check.
LEMMA InvImplies == PoolInv => TypeOK
BY DEF PoolInv, ThreadsInv, QueueInv, ControlInv, TypeOK, Running, RunningIn,
       WorkingIn, ThreadState, AdderState

-----------------------------------------------------------------------------
(* Counting threads *)

\* The sets that are counted are finite.
LEMMA CountsAreFinite ==
  ASSUME NEW S \in SUBSET Slot
  PROVE  IsFiniteSet(S) /\ Cardinality(S) \in Nat
<1>1. IsFiniteSet(Slot)
  BY FS_Interval, ThreadPoolAssumption DEF Slot
<1>2. IsFiniteSet(S)
  BY <1>1, FS_Subset
<1> QED
  BY <1>2, FS_CardinalityType

\* One thread that goes from a state to another.
LEMMA OneMoves ==
  ASSUME threads \in [Slot -> ThreadState], NEW i \in Slot, NEW s \in ThreadState,
         NEW t, t = [threads EXCEPT ![i] = s]
  PROVE  /\ t \in [Slot -> ThreadState]
         /\ (threads[i] \in {"none", "exited"} <=> s \in {"none", "exited"})
              => RunningIn(t) = RunningIn(threads)
         /\ s = "exited" => RunningIn(t) = RunningIn(threads) \ {i}
         /\ threads[i] # "work" /\ s # "work" => WorkingIn(t) = WorkingIn(threads)
         /\ s = "work" => WorkingIn(t) = WorkingIn(threads) \cup {i}
         /\ s # "work" => WorkingIn(t) = WorkingIn(threads) \ {i}
<1>1. t \in [Slot -> ThreadState]
  OBVIOUS
<1>2. \A j \in Slot : t[j] = IF j = i THEN s ELSE threads[j]
  OBVIOUS
<1> QED
  BY <1>1, <1>2 DEF RunningIn, WorkingIn

\* Waking threads that wait changes none of the counts.
LEMMA WakingKeeps ==
  ASSUME threads \in [Slot -> ThreadState], NEW t \in [Slot -> ThreadState],
         \A j \in Slot : t[j] = threads[j] \/ (threads[j] = "wait" /\ t[j] = "awake")
  PROVE  RunningIn(t) = RunningIn(threads) /\ WorkingIn(t) = WorkingIn(threads)
BY DEF RunningIn, WorkingIn

\* Broadcasts and signals only wake.
LEMMA WokenType ==
  ASSUME threads \in [Slot -> ThreadState]
  PROVE  /\ Woken(threads) \in [Slot -> ThreadState]
         /\ \A j \in Slot : \/ Woken(threads)[j] = threads[j]
                            \/ threads[j] = "wait" /\ Woken(threads)[j] = "awake"
BY DEF Woken, ThreadState

\* So does a signal.
LEMMA SignalType ==
  ASSUME threads \in [Slot -> ThreadState], SignalNotEmpty
  PROVE  /\ threads' \in [Slot -> ThreadState]
         /\ \A j \in Slot : \/ threads'[j] = threads[j]
                            \/ threads[j] = "wait" /\ threads'[j] = "awake"
BY DEF SignalNotEmpty, ThreadState

\* Those who wait for room are woken and stay in threadpool_add.
LEMMA AddersWoken ==
  ASSUME QueueInv, BroadcastNotFull
  PROVE  /\ adder' \in [Adder -> AdderState]
         /\ \A p \in Adder : adder'[p] # "idle" => adder[p] # "idle"
BY DEF QueueInv, BroadcastNotFull, Woken, AdderState

\* A step that wakes threads, or leaves them as they are.
LEMMA WakeStep ==
  ASSUME ThreadsInv, threads' \in [Slot -> ThreadState],
         \A j \in Slot : \/ threads'[j] = threads[j]
                         \/ threads[j] = "wait" /\ threads'[j] = "awake",
         UNCHANGED <<busy, live>>, wait_exit' \in 0 .. Vary,
         shutdown' \in BOOLEAN, shutdown => shutdown'
  PROVE  ThreadsInv'
<1>1. RunningIn(threads') = RunningIn(threads) /\ WorkingIn(threads') = WorkingIn(threads)
  BY WakingKeeps DEF ThreadsInv
<1>2. /\ busy' = Cardinality(WorkingIn(threads'))
      /\ live' \in MinThreads .. MaxThreads
      /\ ~shutdown' => live' = Cardinality(RunningIn(threads'))
  BY <1>1 DEF ThreadsInv
<1> QED
  BY <1>2 DEF ThreadsInv, RunningIn, WorkingIn

\* A step that leaves the threads alone.
LEMMA ThreadsKept ==
  ASSUME ThreadsInv, UNCHANGED <<threads, live, busy, wait_exit, shutdown>>
  PROVE  ThreadsInv'
BY DEF ThreadsInv, RunningIn, WorkingIn

\* A step that leaves the queue alone.
LEMMA QueueKept ==
  ASSUME QueueInv, UNCHANGED <<task_queue, adder, added, ran>>
  PROVE  QueueInv'
BY DEF QueueInv, Size

-----------------------------------------------------------------------------

\* A thread that uses a place among those to leave, or none.
LEMMA PlaceType ==
  ASSUME ThreadsInv, NEW i \in Slot, UsesPlace(i)
  PROVE  wait_exit' \in 0 .. Vary
BY ThreadPoolAssumption DEF ThreadsInv, UsesPlace, MayExit

\* The initial state has the invariant.
LEMMA PoolInit == Init => PoolInv
<1> SUFFICES ASSUME Init PROVE PoolInv
  OBVIOUS
<1> USE ThreadPoolAssumption
<1>1. threads = [i \in Slot |-> IF i <= MinThreads THEN "lock" ELSE "none"]
  BY DEF Init
<1>2. threads \in [Slot -> ThreadState]
  BY <1>1 DEF ThreadState
<1>3. RunningIn(threads) = 1 .. MinThreads
  BY <1>1 DEF RunningIn, Slot
<1>4. Cardinality(1 .. MinThreads) = MinThreads
  BY FS_Interval
<1>5. WorkingIn(threads) = {}
  BY <1>1 DEF WorkingIn
<1>6. Cardinality({}) = 0
  BY FS_EmptySet
<1>7. live = MinThreads /\ busy = 0 /\ wait_exit = 0 /\ shutdown = FALSE
  BY DEF Init
<1>8. ThreadsInv
  <2>1. busy = Cardinality(WorkingIn(threads)) /\ live = Cardinality(RunningIn(threads))
    BY <1>3, <1>4, <1>5, <1>6, <1>7
  <2>2. live \in MinThreads .. MaxThreads /\ wait_exit \in 0 .. Vary
    BY <1>7
  <2> QED
    BY <1>2, <1>7, <2>1, <2>2 DEF ThreadsInv
<1>9. QueueInv
  <2>1. task_queue = << >> /\ adder = [p \in Adder |-> "idle"]
        /\ added = [p \in Adder |-> 0] /\ ran = {}
    BY DEF Init
  <2>2. task_queue \in Seq(Task) /\ Size = 0
    BY <2>1 DEF Size
  <2> QED
    BY <2>1, <2>2 DEF QueueInv, AdderState
<1>10. ControlInv
  BY DEF Init, ControlInv
<1> QED
  BY <1>8, <1>9, <1>10 DEF PoolInv

\* A step of a thread keeps the counts.
LEMMA ThreadNext ==
  ASSUME PoolInv, NEW i \in Slot, Thread(i)
  PROVE  PoolInv'
<1> USE ThreadPoolAssumption
<1>1. ThreadsInv /\ QueueInv /\ ControlInv
  BY DEF PoolInv
<1>2. /\ threads \in [Slot -> ThreadState] /\ live \in Int /\ busy \in Nat
      /\ busy = Cardinality(WorkingIn(threads))
      /\ IsFiniteSet(WorkingIn(threads)) /\ IsFiniteSet(RunningIn(threads))
  <2>1. WorkingIn(threads) \in SUBSET Slot /\ RunningIn(threads) \in SUBSET Slot
    BY DEF WorkingIn, RunningIn
  <2> QED
    BY <1>1, <2>1, CountsAreFinite DEF ThreadsInv
<1>3. UNCHANGED <<adjust, sample, destroy>>
  BY DEF Thread, ThreadExits, ThreadWaits, ThreadEnds, TakeTask, StartWork, EndWork
<1>4. ControlInv'
  BY <1>1, <1>3 DEF ControlInv
<1>5. ASSUME UNCHANGED <<task_queue, adder, added, ran>> PROVE QueueInv'
  BY <1>1, <1>5, QueueKept
\* With the counts of the step's own set of threads and numbers.
<1>6. ASSUME threads' \in [Slot -> ThreadState],
             busy' = Cardinality(WorkingIn(threads')),
             live' \in MinThreads .. MaxThreads,
             ~shutdown' => live' = Cardinality(RunningIn(threads')),
             wait_exit' \in 0 .. Vary, shutdown' = shutdown
      PROVE  ThreadsInv'
  BY <1>1, <1>6 DEF ThreadsInv, WorkingIn, RunningIn
<1>7. CASE ThreadExits(i)
  <2>1. /\ threads[i] = "awake" /\ wait_exit > 0 /\ live > MinThreads
        /\ wait_exit' = wait_exit - 1 /\ live' = live - 1
        /\ threads' = [threads EXCEPT ![i] = "exited"]
        /\ UNCHANGED <<busy, shutdown, task_queue, adder, added, ran>>
    BY <1>7 DEF ThreadExits, Exits, MayExit, Becomes
  <2>2. /\ threads' \in [Slot -> ThreadState]
        /\ RunningIn(threads') = RunningIn(threads) \ {i}
        /\ WorkingIn(threads') = WorkingIn(threads)
    <3>1. "exited" \in ThreadState
      BY DEF ThreadState
    <3> QED
      BY <1>2, <2>1, <3>1, OneMoves
  <2>3. i \in RunningIn(threads)
    BY <2>1 DEF RunningIn
  <2>4. Cardinality(RunningIn(threads')) = Cardinality(RunningIn(threads)) - 1
    <3>1. Cardinality(RunningIn(threads) \ {i}) = Cardinality(RunningIn(threads)) - 1
      BY <1>2, <2>3, FS_RemoveElement
    <3> QED
      BY <2>2, <3>1
  <2>5. ~shutdown' => live' = Cardinality(RunningIn(threads'))
    BY <1>1, <2>1, <2>4 DEF ThreadsInv
  <2>6. live' \in MinThreads .. MaxThreads /\ wait_exit' \in 0 .. Vary
    BY <1>1, <2>1 DEF ThreadsInv
  <2>7. ThreadsInv'
    BY <1>2, <1>6, <2>1, <2>2, <2>5, <2>6
  <2> QED
    BY <1>4, <1>5, <2>1, <2>7 DEF PoolInv
<1>8. CASE ThreadWaits(i)
  <2>1. /\ threads[i] \in {"lock", "awake"} /\ UsesPlace(i)
        /\ threads' = [threads EXCEPT ![i] = "wait"]
        /\ UNCHANGED <<live, busy, shutdown, task_queue, adder, added, ran>>
    BY <1>8 DEF ThreadWaits, Tests, Becomes
  <2>2. /\ threads' \in [Slot -> ThreadState]
        /\ RunningIn(threads') = RunningIn(threads)
        /\ WorkingIn(threads') = WorkingIn(threads)
    <3>1. "wait" \in ThreadState
      BY DEF ThreadState
    <3> QED
      BY <1>2, <2>1, <3>1, OneMoves
  <2>3. wait_exit' \in 0 .. Vary
    BY <1>1, <2>1, PlaceType
  <2>4. ThreadsInv'
    BY <1>1, <1>6, <2>1, <2>2, <2>3 DEF ThreadsInv
  <2> QED
    BY <1>4, <1>5, <2>1, <2>4 DEF PoolInv
<1>9. CASE ThreadEnds(i)
  <2>1. /\ threads[i] \in {"lock", "awake"} /\ UsesPlace(i) /\ shutdown
        /\ threads' = [threads EXCEPT ![i] = "exited"]
        /\ UNCHANGED <<live, busy, shutdown, task_queue, adder, added, ran>>
    BY <1>9 DEF ThreadEnds, Tests, Becomes
  <2>2. /\ threads' \in [Slot -> ThreadState]
        /\ WorkingIn(threads') = WorkingIn(threads)
    <3>1. "exited" \in ThreadState
      BY DEF ThreadState
    <3> QED
      BY <1>2, <2>1, <3>1, OneMoves
  <2>3. wait_exit' \in 0 .. Vary
    BY <1>1, <2>1, PlaceType
  <2>4. ThreadsInv'
    BY <1>1, <1>6, <2>1, <2>2, <2>3 DEF ThreadsInv
  <2> QED
    BY <1>4, <1>5, <2>1, <2>4 DEF PoolInv
<1>10. CASE TakeTask(i)
  <2>1. /\ threads[i] \in {"lock", "awake"} /\ task_queue # << >>
        /\ task_queue' = Tail(task_queue) /\ ran' = ran \cup {Head(task_queue)}
        /\ BroadcastNotFull
        /\ threads' = [threads EXCEPT ![i] = "taken"]
        /\ UNCHANGED <<live, busy, wait_exit, shutdown, added>>
    BY <1>10 DEF TakeTask, Tests, Becomes
  <2>2. /\ threads' \in [Slot -> ThreadState]
        /\ RunningIn(threads') = RunningIn(threads)
        /\ WorkingIn(threads') = WorkingIn(threads)
    <3>1. "taken" \in ThreadState
      BY DEF ThreadState
    <3> QED
      BY <1>2, <2>1, <3>1, OneMoves
  <2>3. ThreadsInv'
    BY <1>1, <1>6, <2>1, <2>2 DEF ThreadsInv
  <2>4. /\ Head(task_queue) \in Task /\ task_queue' \in Seq(Task)
        /\ Len(task_queue') = Len(task_queue) - 1
    BY <1>1, <2>1, HeadTailProperties DEF QueueInv
  <2>5. Size' <= QueueMax
    <3>1. Len(task_queue) \in Nat /\ Len(task_queue) <= QueueMax
      BY <1>1, LenProperties DEF QueueInv, Size
    <3> QED
      BY <2>4, <3>1 DEF Size
  <2>6. /\ adder' \in [Adder -> AdderState]
        /\ \A p \in Adder : adder'[p] # "idle" => adder[p] # "idle"
    BY <1>1, <2>1, AddersWoken
  <2>7. QueueInv'
    BY <1>1, <2>1, <2>4, <2>5, <2>6 DEF QueueInv
  <2> QED
    BY <1>4, <2>3, <2>7 DEF PoolInv
<1>11. CASE StartWork(i)
  <2>1. /\ threads[i] = "taken" /\ busy' = busy + 1
        /\ threads' = [threads EXCEPT ![i] = "work"]
        /\ UNCHANGED <<live, wait_exit, shutdown, task_queue, adder, added, ran>>
    BY <1>11 DEF StartWork, Becomes
  <2>2. /\ threads' \in [Slot -> ThreadState]
        /\ RunningIn(threads') = RunningIn(threads)
        /\ WorkingIn(threads') = WorkingIn(threads) \cup {i}
    <3>1. "work" \in ThreadState
      BY DEF ThreadState
    <3> QED
      BY <1>2, <2>1, <3>1, OneMoves
  <2>3. i \notin WorkingIn(threads)
    BY <2>1 DEF WorkingIn
  <2>4. busy' = Cardinality(WorkingIn(threads'))
    BY <1>2, <2>1, <2>2, <2>3, FS_AddElement
  <2>5. ThreadsInv'
    BY <1>1, <1>6, <2>1, <2>2, <2>4 DEF ThreadsInv
  <2> QED
    BY <1>4, <1>5, <2>1, <2>5 DEF PoolInv
<1>12. CASE EndWork(i)
  <2>1. /\ threads[i] = "work" /\ busy' = busy - 1
        /\ threads' = [threads EXCEPT ![i] = "lock"]
        /\ UNCHANGED <<live, wait_exit, shutdown, task_queue, adder, added, ran>>
    BY <1>12 DEF EndWork, Becomes
  <2>2. /\ threads' \in [Slot -> ThreadState]
        /\ RunningIn(threads') = RunningIn(threads)
        /\ WorkingIn(threads') = WorkingIn(threads) \ {i}
    <3>1. "lock" \in ThreadState
      BY DEF ThreadState
    <3> QED
      BY <1>2, <2>1, <3>1, OneMoves
  <2>3. i \in WorkingIn(threads)
    BY <2>1 DEF WorkingIn
  <2>4. busy' = Cardinality(WorkingIn(threads'))
    BY <1>2, <2>1, <2>2, <2>3, FS_RemoveElement
  <2>5. ThreadsInv'
    BY <1>1, <1>6, <2>1, <2>2, <2>4 DEF ThreadsInv
  <2> QED
    BY <1>4, <1>5, <2>1, <2>5 DEF PoolInv
<1> QED
  BY <1>7, <1>8, <1>9, <1>10, <1>11, <1>12 DEF Thread

\* So does a step of a thread that adds.
LEMMA AdderNext ==
  ASSUME PoolInv, NEW p \in Adder, CallAdd(p) \/ AddReturns(p)
  PROVE  PoolInv'
<1> USE ThreadPoolAssumption
<1>1. ThreadsInv /\ QueueInv /\ ControlInv
  BY DEF PoolInv
<1>2. UNCHANGED <<adjust, sample, destroy>>
  BY DEF CallAdd, AddReturns, AddWaits, AddRefused, AddTask
<1>3. ControlInv'
  BY <1>1, <1>2 DEF ControlInv
<1>4. ASSUME NEW a \in AdderState, adder' = [adder EXCEPT ![p] = a],
             a # "idle" => added[p] < MaxTasks,
             UNCHANGED <<pool, threads, added, ran>>
      PROVE  PoolInv'
  <2>1. UNCHANGED <<threads, live, busy, wait_exit, shutdown, task_queue, added, ran>>
    BY <1>4 DEF pool
  <2>2. ThreadsInv'
    BY <1>1, <2>1, ThreadsKept
  <2>3. adder' \in [Adder -> AdderState]
    BY <1>1, <1>4 DEF QueueInv
  <2>4. \A q \in Adder : adder'[q] # "idle" => added'[q] < MaxTasks
    BY <1>1, <1>4, <2>1 DEF QueueInv
  <2>5. QueueInv'
    BY <1>1, <2>1, <2>3, <2>4 DEF QueueInv, Size
  <2> QED
    BY <1>3, <2>2, <2>5 DEF PoolInv
<1>5. CASE CallAdd(p)
  BY <1>4, <1>5 DEF CallAdd, AdderState
<1>6. CASE AddWaits(p)
  BY <1>1, <1>4, <1>6 DEF AddWaits, AdderState, QueueInv
<1>7. CASE AddRefused(p)
  BY <1>4, <1>7 DEF AddRefused, AdderState
<1>8. CASE AddTask(p)
  <2>1. /\ adder[p] # "idle" /\ Size < QueueMax
        /\ task_queue' = Append(task_queue, <<p, added[p] + 1>>)
        /\ added' = [added EXCEPT ![p] = added[p] + 1]
        /\ SignalNotEmpty
        /\ adder' = [adder EXCEPT ![p] = "idle"]
        /\ UNCHANGED <<live, busy, wait_exit, shutdown, ran>>
    BY <1>8 DEF AddTask
  <2>2. ThreadsInv'
    BY <1>1, <2>1, SignalType, WakeStep DEF ThreadsInv
  <2>3. added[p] \in Nat /\ added[p] + 1 \in 1 .. MaxTasks
    BY <1>1, <2>1 DEF QueueInv
  <2>4. added' \in [Adder -> 0 .. MaxTasks]
    BY <1>1, <2>1, <2>3 DEF QueueInv
  <2>5. /\ task_queue' \in Seq(Task) /\ Len(task_queue') = Len(task_queue) + 1
    BY <1>1, <2>1, <2>3, AppendProperties DEF QueueInv, Task
  <2>6. Size' <= QueueMax
    <3>1. Len(task_queue) \in Nat /\ Len(task_queue) < QueueMax
      BY <1>1, <2>1, LenProperties DEF QueueInv, Size
    <3> QED
      BY <2>5, <3>1 DEF Size
  <2>7. adder' \in [Adder -> AdderState]
    BY <1>1, <2>1 DEF QueueInv, AdderState
  <2>8. \A q \in Adder : adder'[q] # "idle" => added'[q] < MaxTasks
    BY <1>1, <2>1 DEF QueueInv
  <2>9. QueueInv'
    BY <1>1, <2>1, <2>4, <2>5, <2>6, <2>7, <2>8 DEF QueueInv
  <2> QED
    BY <1>3, <2>2, <2>9 DEF PoolInv
<1> QED
  BY <1>5, <1>6, <1>7, <1>8 DEF AddReturns

\* Making threads in some of the slots that look free.
LEMMA GrowStep ==
  ASSUME ThreadsInv, NEW new \in SUBSET {i \in Slot : LooksDead(i)},
         live + Cardinality(new) <= MaxThreads,
         threads' = [i \in Slot |-> IF i \in new THEN "lock" ELSE threads[i]],
         live' = live + Cardinality(new), UNCHANGED <<busy, wait_exit, shutdown>>
  PROVE  ThreadsInv'
<1>1. /\ threads \in [Slot -> ThreadState] /\ live \in Int /\ MinThreads <= live
      /\ busy = Cardinality(WorkingIn(threads))
      /\ ~shutdown => live = Cardinality(RunningIn(threads))
      /\ wait_exit \in 0 .. Vary /\ shutdown \in BOOLEAN
      /\ MinThreads \in Nat /\ MaxThreads \in Nat
  BY ThreadPoolAssumption DEF ThreadsInv
<1>2. \A i \in Slot : threads'[i] = IF i \in new THEN "lock" ELSE threads[i]
  OBVIOUS
<1>3. threads' \in [Slot -> ThreadState]
  BY <1>1 DEF ThreadState
<1>4. \A i \in new : i \in Slot /\ threads[i] \in {"none", "exited"}
  BY DEF LooksDead
<1>5. RunningIn(threads') = RunningIn(threads) \cup new
  BY <1>2, <1>4 DEF RunningIn
<1>6. RunningIn(threads) \cap new = {}
  BY <1>4 DEF RunningIn
<1>7. WorkingIn(threads') = WorkingIn(threads)
  BY <1>2, <1>4 DEF WorkingIn
<1>8. /\ IsFiniteSet(new) /\ Cardinality(new) \in Nat
      /\ IsFiniteSet(RunningIn(threads)) /\ Cardinality(RunningIn(threads)) \in Nat
  <2>1. new \in SUBSET Slot /\ RunningIn(threads) \in SUBSET Slot
    BY DEF RunningIn
  <2> QED
    BY <2>1, CountsAreFinite
<1>9. Cardinality(RunningIn(threads) \cup new)
        = Cardinality(RunningIn(threads)) + Cardinality(new)
  <2>1. Cardinality(RunningIn(threads) \cup new)
          = Cardinality(RunningIn(threads)) + Cardinality(new)
              - Cardinality(RunningIn(threads) \cap new)
    BY <1>8, FS_Union
  <2>2. Cardinality({}) = 0
    BY FS_EmptySet
  <2> QED
    <3> DEFINE r == Cardinality(RunningIn(threads))
               n == Cardinality(new)
               u == Cardinality(RunningIn(threads) \cup new)
    <3>1. u = r + n - 0
      BY <1>6, <2>1, <2>2
    <3>2. r \in Nat /\ n \in Nat
      BY <1>8
    <3> HIDE DEF r, n, u
    <3>3. u = r + n
      BY <3>1, <3>2
    <3> QED
      BY <3>3 DEF r, n, u
<1>10. ~shutdown' => live' = Cardinality(RunningIn(threads'))
  BY <1>1, <1>5, <1>9
<1>11. live' \in MinThreads .. MaxThreads
  BY <1>1, <1>8
<1>12. busy' = Cardinality(WorkingIn(threads'))
  BY <1>1, <1>7
<1> QED
  BY <1>1, <1>3, <1>10, <1>11, <1>12 DEF ThreadsInv, RunningIn, WorkingIn

\* So does a step of adjust_thread.
LEMMA AdjustNext ==
  ASSUME PoolInv, Adjust
  PROVE  PoolInv'
<1> USE ThreadPoolAssumption
<1>1. ThreadsInv /\ QueueInv /\ ControlInv
  BY DEF PoolInv
<1>2. UNCHANGED <<task_queue, adder, added, ran, destroy>>
  BY DEF Adjust, AdjustTest, AdjustSample, AdjustSampleBusy, AdjustNoGrowth,
         AdjustGrow, AdjustShrink, pool
<1>3. QueueInv'
  BY <1>1, <1>2, QueueKept
<1>4. /\ Size \in Nat /\ live \in Nat /\ busy \in Nat
      /\ sample \in [size : Nat, live : Nat, busy : Nat]
  <2>1. Size \in Nat
    BY <1>1, LenProperties DEF QueueInv, Size
  <2>2. live \in Nat
    BY <1>1 DEF ThreadsInv
  <2>3. busy \in Nat
    <3>1. WorkingIn(threads) \in SUBSET Slot
      BY DEF WorkingIn
    <3> QED
      BY <1>1, <3>1, CountsAreFinite DEF ThreadsInv
  <2> QED
    BY <1>1, <2>1, <2>2, <2>3 DEF ControlInv
<1>5. ASSUME UNCHANGED <<pool, threads>>,
             adjust' \in {"test", "sleep", "sample", "sampleBusy", "grow", "shrink",
                          "exited"},
             sample' \in [size : Nat, live : Nat, busy : Nat]
      PROVE  PoolInv'
  <2>1. UNCHANGED <<threads, live, busy, wait_exit, shutdown>>
    BY <1>5 DEF pool
  <2>2. ThreadsInv'
    BY <1>1, <2>1, ThreadsKept
  <2>3. ControlInv'
    BY <1>1, <1>2, <1>5 DEF ControlInv
  <2> QED
    BY <1>3, <2>2, <2>3 DEF PoolInv
<1>6. CASE AdjustTest
  BY <1>4, <1>5, <1>6 DEF AdjustTest
<1>7. CASE AdjustSample
  BY <1>4, <1>5, <1>7 DEF AdjustSample
<1>8. CASE AdjustSampleBusy
  BY <1>4, <1>5, <1>8 DEF AdjustSampleBusy
<1>9. CASE AdjustNoGrowth
  BY <1>4, <1>5, <1>9 DEF AdjustNoGrowth
<1>10. CASE AdjustGrow
  <2>1. ThreadsInv'
    BY <1>1, <1>10, GrowStep DEF AdjustGrow
  <2>2. ControlInv'
    BY <1>1, <1>2, <1>10 DEF ControlInv, AdjustGrow
  <2> QED
    BY <1>3, <2>1, <2>2 DEF PoolInv
<1>11. CASE AdjustShrink
  <2>1. ControlInv'
    BY <1>1, <1>2, <1>11 DEF ControlInv, AdjustShrink
  <2>2. /\ UNCHANGED <<busy, live, shutdown>>
        /\ \/ wait_exit' = Vary /\ threads' = Woken(threads)
           \/ UNCHANGED <<wait_exit, threads>>
    BY <1>11 DEF AdjustShrink, BroadcastNotEmpty
  <2>3. CASE wait_exit' = Vary /\ threads' = Woken(threads)
    <3>1. wait_exit' \in 0 .. Vary /\ shutdown' \in BOOLEAN
      BY <1>1, <2>2, <2>3 DEF ThreadsInv
    <3>2. ThreadsInv'
      BY <1>1, <2>2, <2>3, <3>1, WokenType, WakeStep DEF ThreadsInv
    <3> QED
      BY <1>3, <2>1, <3>2 DEF PoolInv
  <2>4. CASE UNCHANGED <<wait_exit, threads>>
    BY <1>1, <1>3, <2>1, <2>2, <2>4, ThreadsKept DEF PoolInv
  <2> QED
    BY <2>2, <2>3, <2>4
<1> QED
  BY <1>6, <1>7, <1>8, <1>9, <1>10, <1>11 DEF Adjust

\* And so does a wakeup for nothing, and every step of threadpool_destroy.
LEMMA OtherNext ==
  ASSUME PoolInv,
         SpuriousWakeup \/ Destroy \/ JoinAdjust \/ Free \/ UNCHANGED vars
  PROVE  PoolInv'
<1> USE ThreadPoolAssumption
<1>1. ThreadsInv /\ QueueInv /\ ControlInv
  BY DEF PoolInv
<1>2. CASE SpuriousWakeup
  <2>1. UNCHANGED <<task_queue, live, busy, wait_exit, shutdown, added, ran,
                    adjust, sample, destroy>>
    BY <1>2 DEF SpuriousWakeup, pool
  <2>2. ControlInv'
    BY <1>1, <2>1 DEF ControlInv
  <2>3. ASSUME NEW i \in Slot, threads[i] = "wait",
               threads' = [threads EXCEPT ![i] = "awake"], UNCHANGED adder
        PROVE  PoolInv'
    <3>1. /\ threads' \in [Slot -> ThreadState]
          /\ \A j \in Slot : \/ threads'[j] = threads[j]
                             \/ threads[j] = "wait" /\ threads'[j] = "awake"
      BY <1>1, <2>3 DEF ThreadsInv, ThreadState
    <3>2. wait_exit' \in 0 .. Vary /\ shutdown' \in BOOLEAN
      BY <1>1, <2>1 DEF ThreadsInv
    <3>3. ThreadsInv'
      BY <1>1, <2>1, <3>1, <3>2, WakeStep
    <3> QED
      BY <1>1, <2>1, <2>2, <2>3, <3>3, QueueKept DEF PoolInv
  <2>4. ASSUME NEW p \in Adder, adder[p] = "wait",
               adder' = [adder EXCEPT ![p] = "awake"], UNCHANGED threads
        PROVE  PoolInv'
    <3>1. /\ adder' \in [Adder -> AdderState]
          /\ \A q \in Adder : adder'[q] # "idle" => adder[q] # "idle"
      BY <1>1, <2>4 DEF QueueInv, AdderState
    <3>2. QueueInv'
      BY <1>1, <2>1, <3>1 DEF QueueInv, Size
    <3> QED
      BY <1>1, <2>1, <2>2, <2>4, <3>2, ThreadsKept DEF PoolInv
  <2> QED
    BY <1>2, <2>3, <2>4 DEF SpuriousWakeup
<1>3. CASE Destroy
  <2>1. /\ shutdown' = TRUE /\ threads' = Woken(threads) /\ destroy' = "joinAdjust"
        /\ UNCHANGED <<task_queue, live, busy, wait_exit, adder, added, adjust,
                       sample, ran>>
    BY <1>3 DEF Destroy, BroadcastNotEmpty
  <2>2. wait_exit' \in 0 .. Vary
    BY <1>1, <2>1 DEF ThreadsInv
  <2>3. ThreadsInv'
    BY <1>1, <2>1, <2>2, WokenType, WakeStep DEF ThreadsInv
  <2>4. ControlInv'
    BY <1>1, <2>1 DEF ControlInv
  <2> QED
    BY <1>1, <2>1, <2>3, <2>4, QueueKept DEF PoolInv
<1>4. CASE JoinAdjust \/ Free \/ UNCHANGED vars
  <2>1. /\ UNCHANGED <<task_queue, live, busy, wait_exit, shutdown, threads, adder,
                       added, adjust, sample, ran>>
        /\ destroy' \in {destroy, "joinThreads", "freed"}
    BY <1>4 DEF JoinAdjust, Free, vars, pool
  <2>2. ControlInv'
    BY <1>1, <2>1 DEF ControlInv
  <2> QED
    BY <1>1, <2>1, <2>2, ThreadsKept, QueueKept DEF PoolInv
<1> QED
  BY <1>2, <1>3, <1>4

\* Every step keeps the invariant.
LEMMA PoolNext == PoolInv /\ [Next]_vars => PoolInv'
BY ThreadNext, AdderNext, AdjustNext, OtherNext DEF Next, Finished

\* The counters are what they count, between their bounds, and the queue never
\* exceeds its size, for any numbers of threads, adders and tasks.
THEOREM CountersAreRight == Spec => []TypeOK
BY PoolInit, PoolNext, InvImplies, PTL DEF Spec

-----------------------------------------------------------------------------
(* Turns *)

\* A set of numbers that is not empty has a least element.
LEMMA LeastNumber ==
  ASSUME NEW T \in SUBSET Nat, T # {}
  PROVE  \E m \in T : \A k \in T : m <= k
<1> DEFINE R == OpToRel(<, Nat)
<1>1. \A k, m \in Nat : k < m => <<k, m>> \in R
  BY DEF OpToRel
<1>2. IsWellFoundedOn(R, Nat)
  BY NatLessThanWellFounded
<1> HIDE DEF R
<1>3. PICK m \in T : \A k \in T : ~ (<<k, m>> \in R)
  BY <1>2, WFMin
<1>4. ASSUME NEW k \in T PROVE m <= k
  <2>1. k \in Nat /\ m \in Nat
    OBVIOUS
  <2>2. ~ (k < m)
    BY <1>1, <1>3, <2>1
  <2> QED
    BY <2>1, <2>2
<1> QED
  BY <1>4

\* Induction: a set of numbers with 0 and the next of each is all of them.
LEMMA AllNumbers ==
  ASSUME NEW T \in SUBSET Nat, 0 \in T, \A n \in T : n + 1 \in T
  PROVE  T = Nat
<1> SUFFICES ASSUME Nat \ T # {} PROVE FALSE
  OBVIOUS
<1>1. PICK m \in Nat \ T : \A k \in Nat \ T : m <= k
  BY LeastNumber
<1>2. m # 0
  OBVIOUS
<1>3. m - 1 \in Nat /\ ~ (m <= m - 1)
  BY <1>1, <1>2
<1>4. m - 1 \in T
  BY <1>1, <1>3
<1>5. (m - 1) + 1 \in T
  BY <1>4
<1> QED
  BY <1>5

\* f goes up n turns from place i of H, or down.
GoesUp(f, H, i, n) ==
  f = [k \in 0 .. n |-> IF k = 0 THEN [H |-> H, at |-> i] ELSE UpTurn(f[k - 1])]
GoesDown(f, H, i, n) ==
  f = [k \in 0 .. n |-> IF k = 0 THEN [H |-> H, at |-> i] ELSE DownTurn(f[k - 1])]

\* There is a function that goes up n turns.
LEMMA UpTurnsExist ==
  ASSUME NEW H, NEW i
  PROVE  \A n \in Nat : \E f : GoesUp(f, H, i, n)
<1> DEFINE T == {n \in Nat : \E f : GoesUp(f, H, i, n)}
<1>1. 0 \in T
  <2> DEFINE f == [k \in 0 .. 0 |-> [H |-> H, at |-> i]]
  <2>1. f = [k \in 0 .. 0 |-> IF k = 0 THEN [H |-> H, at |-> i] ELSE UpTurn(f[k - 1])]
    OBVIOUS
  <2> QED
    BY <2>1 DEF GoesUp
<1>2. ASSUME NEW n \in T PROVE n + 1 \in T
  <2>1. n \in Nat
    OBVIOUS
  <2>2. PICK f : GoesUp(f, H, i, n)
    OBVIOUS
  <2> DEFINE start == [H |-> H, at |-> i]
             g == [k \in 0 .. n + 1 |-> IF k <= n THEN f[k] ELSE UpTurn(f[n])]
  <2> HIDE DEF start
  <2>3. f = [k \in 0 .. n |-> IF k = 0 THEN start ELSE UpTurn(f[k - 1])]
    BY <2>2 DEF GoesUp, start
  <2>4. f[0] = start /\ \A k \in 1 .. n : f[k] = UpTurn(f[k - 1])
    BY <2>1, <2>3
  <2>5. g[0] = start /\ \A k \in 1 .. n + 1 : g[k] = UpTurn(g[k - 1])
    BY <2>1, <2>4
  <2>6. g = [k \in 0 .. n + 1 |-> IF k = 0 THEN start ELSE UpTurn(g[k - 1])]
    <3>1. \A k \in 0 .. n + 1 : g[k] = IF k = 0 THEN start ELSE UpTurn(g[k - 1])
      BY <2>1, <2>5
    <3>2. g = [k \in 0 .. n + 1 |-> g[k]]
      OBVIOUS
    <3> HIDE DEF g
    <3> QED
      BY <3>1, <3>2
  <2> HIDE DEF g
  <2>7. GoesUp(g, H, i, n + 1)
    BY <2>6 DEF GoesUp, start
  <2> QED
    BY <2>1, <2>7
<1>3. T = Nat
  <2> HIDE DEF T
  <2>1. T \in SUBSET Nat
    BY DEF T
  <2> QED
    BY <1>1, <1>2, <2>1, AllNumbers
<1> QED
  BY <1>3

\* HeapUp is where i turns lead.
LEMMA HeapUpIs ==
  ASSUME NEW H, NEW i \in Nat
  PROVE  \E f : GoesUp(f, H, i, i) /\ HeapUp(H, i) = f[i].H
<1> DEFINE f == CHOOSE up : GoesUp(up, H, i, i)
<1>1. \E up : GoesUp(up, H, i, i)
  BY UpTurnsExist
<1>2. GoesUp(f, H, i, i)
  BY <1>1
<1>3. HeapUp(H, i) = f[i].H
  BY Zenon DEF HeapUp, GoesUp
<1> QED
  BY <1>2, <1>3

\* There is a function that goes down n turns.
LEMMA DownTurnsExist ==
  ASSUME NEW H, NEW i
  PROVE  \A n \in Nat : \E f : GoesDown(f, H, i, n)
<1> DEFINE T == {n \in Nat : \E f : GoesDown(f, H, i, n)}
<1>1. 0 \in T
  <2> DEFINE f == [k \in 0 .. 0 |-> [H |-> H, at |-> i]]
  <2>1. f = [k \in 0 .. 0 |-> IF k = 0 THEN [H |-> H, at |-> i] ELSE DownTurn(f[k - 1])]
    OBVIOUS
  <2> QED
    BY <2>1 DEF GoesDown
<1>2. ASSUME NEW n \in T PROVE n + 1 \in T
  <2>1. n \in Nat
    OBVIOUS
  <2>2. PICK f : GoesDown(f, H, i, n)
    OBVIOUS
  <2> DEFINE start == [H |-> H, at |-> i]
             g == [k \in 0 .. n + 1 |-> IF k <= n THEN f[k] ELSE DownTurn(f[n])]
  <2> HIDE DEF start
  <2>3. f = [k \in 0 .. n |-> IF k = 0 THEN start ELSE DownTurn(f[k - 1])]
    BY <2>2 DEF GoesDown, start
  <2>4. f[0] = start /\ \A k \in 1 .. n : f[k] = DownTurn(f[k - 1])
    BY <2>1, <2>3
  <2>5. g[0] = start /\ \A k \in 1 .. n + 1 : g[k] = DownTurn(g[k - 1])
    BY <2>1, <2>4
  <2>6. g = [k \in 0 .. n + 1 |-> IF k = 0 THEN start ELSE DownTurn(g[k - 1])]
    <3>1. \A k \in 0 .. n + 1 : g[k] = IF k = 0 THEN start ELSE DownTurn(g[k - 1])
      BY <2>1, <2>5
    <3>2. g = [k \in 0 .. n + 1 |-> g[k]]
      OBVIOUS
    <3> HIDE DEF g
    <3> QED
      BY <3>1, <3>2
  <2> HIDE DEF g
  <2>7. GoesDown(g, H, i, n + 1)
    BY <2>6 DEF GoesDown, start
  <2> QED
    BY <2>1, <2>7
<1>3. T = Nat
  <2> HIDE DEF T
  <2>1. T \in SUBSET Nat
    BY DEF T
  <2> QED
    BY <1>1, <1>2, <2>1, AllNumbers
<1> QED
  BY <1>3

\* HeapDown is where as many turns as there are timers lead.
LEMMA HeapDownIs ==
  ASSUME NEW H, NEW i, Len(H.heap) \in Nat
  PROVE  \E f : GoesDown(f, H, i, Len(H.heap)) /\ HeapDown(H, i) = f[Len(H.heap)].H
<1> DEFINE f == CHOOSE up : GoesDown(up, H, i, Len(H.heap))
<1>1. \E up : GoesDown(up, H, i, Len(H.heap))
  BY DownTurnsExist
<1>2. GoesDown(f, H, i, Len(H.heap))
  BY <1>1
<1>3. HeapDown(H, i) = f[Len(H.heap)].H
  BY Zenon DEF HeapDown, GoesDown
<1> QED
  BY <1>2, <1>3

-----------------------------------------------------------------------------
(* The order of a heap *)

\* Places 1 .. n have times t, and no child is earlier than its parent.
Order(t, n) == \A j \in 2 .. n : t[j \div 2] <= t[j]

\* The children of place a are not earlier than the parent of a.
AcrossInOrder(t, n, a) ==
  a > 1 => \A j \in 2 .. n : j \div 2 = a => t[a \div 2] <= t[j]

\* Order where a has any time between its neighbours' times; but for a and its
\* parent; but for a and its children.
HoleAt(t, n, a) ==
  /\ \A j \in 2 .. n : j # a /\ j \div 2 # a => t[j \div 2] <= t[j]
  /\ AcrossInOrder(t, n, a)
GoesUpAt(t, n, a) ==
  /\ \A j \in 2 .. n : j # a => t[j \div 2] <= t[j]
  /\ AcrossInOrder(t, n, a)
GoesDownAt(t, n, a) ==
  /\ \A j \in 2 .. n : j \div 2 # a => t[j \div 2] <= t[j]
  /\ AcrossInOrder(t, n, a)

Exchanged(t, a, b) == [t EXCEPT ![a] = t[b], ![b] = t[a]]

\* The parent's place.
LEMMA Halves ==
  ASSUME NEW j \in Nat, j > 1
  PROVE  j \div 2 \in Nat /\ j \div 2 >= 1 /\ j \div 2 < j
OBVIOUS

\* The places whose parent is a.
LEMMA Children ==
  ASSUME NEW j \in Nat, NEW a \in Nat
  PROVE  j \div 2 = a <=> j = 2 * a \/ j = 2 * a + 1
OBVIOUS

\* A heap in order is so around every place.
LEMMA OrderAround ==
  ASSUME NEW n \in Nat, NEW t \in [1 .. n -> Int], NEW a \in 1 .. n, Order(t, n)
  PROVE  HoleAt(t, n, a) /\ GoesUpAt(t, n, a) /\ GoesDownAt(t, n, a)
<1>1. AcrossInOrder(t, n, a)
  <2> SUFFICES ASSUME a > 1, NEW j \in 2 .. n, j \div 2 = a
               PROVE  t[a \div 2] <= t[j]
    BY DEF AcrossInOrder
  <2>1. a \div 2 \in 1 .. n
    BY Halves
  <2>2. t[a \div 2] <= t[a]
    BY DEF Order
  <2>3. t[j \div 2] <= t[j]
    BY DEF Order
  <2>4. t[a \div 2] \in Int /\ t[a] \in Int /\ t[j] \in Int
    BY <2>1
  <2> QED
    BY <2>2, <2>3, <2>4
<1> QED
  BY <1>1 DEF Order, HoleAt, GoesUpAt, GoesDownAt

\* Up one turn: a is earlier than its parent, and they change places.
LEMMA UpKeepsOrder ==
  ASSUME NEW n \in Nat, NEW t \in [1 .. n -> Int], NEW a \in 2 .. n,
         HoleAt(t, n, a), t[a] < t[a \div 2]
  PROVE  GoesUpAt(Exchanged(t, a \div 2, a), n, a \div 2)
<1> DEFINE p == a \div 2
           u == Exchanged(t, p, a)
<1>1. p \in 1 .. n /\ p < a
  BY Halves
<1>2. u[p] = t[a] /\ u[a] = t[p] /\ \A j \in 1 .. n : j # p /\ j # a => u[j] = t[j]
  BY <1>1 DEF Exchanged
<1>3. \A j \in 2 .. n : j \div 2 \in 1 .. n /\ j \div 2 < j
  BY Halves
<1>4. \A j \in 2 .. n : j # a /\ j \div 2 # a => t[j \div 2] <= t[j]
  BY DEF HoleAt
<1>5. \A j \in 2 .. n : j \div 2 = a => t[p] <= t[j]
  BY DEF HoleAt, AcrossInOrder
<1> HIDE DEF u
<1>6. ASSUME NEW j \in 2 .. n, j # p PROVE u[j \div 2] <= u[j]
  <2> DEFINE q == j \div 2
  <2>1. q \in 1 .. n /\ q < j
    BY <1>3
  <2>2. j # a /\ q # a => t[q] <= t[j]
    BY <1>4
  <2>3. q = a => t[p] <= t[j]
    BY <1>5
  <2>4. j = a => q = p
    OBVIOUS
  <2> HIDE DEF q
  <2>5. p \in 1 .. n
    BY <1>1
  <2> HIDE DEF p
  <2>6. u[q] <= u[j]
    <3>1. CASE j = a
      BY <3>1, <1>2, <1>6, <2>1, <2>4, <2>5 DEF p
    <3>2. CASE j # a /\ q = a
      BY <3>2, <1>2, <1>6, <2>1, <2>3, <2>5
    <3>3. CASE j # a /\ q = p
      BY <3>3, <1>2, <1>6, <2>1, <2>2, <2>5 DEF p
    <3>4. CASE j # a /\ q # a /\ q # p
      BY <3>4, <1>2, <1>6, <2>1, <2>2, <2>5
    <3> QED
      BY <3>1, <3>2, <3>3, <3>4
  <2> QED
    BY <2>6 DEF q
<1>7. ASSUME p > 1, NEW j \in 2 .. n, j \div 2 = p PROVE u[p \div 2] <= u[j]
  <2> DEFINE r == p \div 2
  <2>1. r \in 1 .. n /\ r < p
    BY <1>3, <1>1, <1>7
  <2>2. t[r] <= t[p]
    BY <1>4, <1>1, <1>7, <2>1
  <2>3. j # a => t[p] <= t[j]
    BY <1>4, <1>1, <1>7
  <2>4. j > p
    BY <1>3, <1>7
  <2> HIDE DEF r, p
  <2>5. u[r] = t[r]
    BY <1>1, <1>2, <2>1
  <2>6. u[j] = IF j = a THEN t[p] ELSE t[j]
    BY <1>1, <1>2, <2>4
  <2>7. u[r] <= u[j]
    BY <1>1, <2>1, <2>2, <2>3, <2>5, <2>6
  <2> QED
    BY <2>7 DEF r, p
<1>8. GoesUpAt(u, n, p)
  <2> HIDE DEF p
  <2> QED
    BY <1>6, <1>7 DEF GoesUpAt, AcrossInOrder
<1> QED
  BY <1>8 DEF u

\* Down one turn: c, a child of a, is earlier than a and not later than the
\* other child, and changes places with a.
LEMMA DownKeepsOrder ==
  ASSUME NEW n \in Nat, NEW t \in [1 .. n -> Int], NEW a \in 1 .. n, NEW c \in 2 .. n,
         c \div 2 = a, GoesDownAt(t, n, a), t[c] < t[a],
         \A j \in 2 .. n : j \div 2 = a => t[c] <= t[j]
  PROVE  GoesDownAt(Exchanged(t, c, a), n, c)
<1> DEFINE u == Exchanged(t, c, a)
<1>1. a < c
  BY Halves
<1>2. u[c] = t[a] /\ u[a] = t[c] /\ \A j \in 1 .. n : j # c /\ j # a => u[j] = t[j]
  BY <1>1 DEF Exchanged
<1>3. \A j \in 2 .. n : j \div 2 \in 1 .. n /\ j \div 2 < j
  BY Halves
<1>4. \A j \in 2 .. n : j \div 2 # a => t[j \div 2] <= t[j]
  BY DEF GoesDownAt
<1>5. a > 1 => \A j \in 2 .. n : j \div 2 = a => t[a \div 2] <= t[j]
  BY DEF GoesDownAt, AcrossInOrder
<1> HIDE DEF u
<1>6. ASSUME NEW j \in 2 .. n, j \div 2 # c PROVE u[j \div 2] <= u[j]
  <2> DEFINE q == j \div 2
  <2>1. q \in 1 .. n /\ q < j
    BY <1>3
  <2>2. q # a => t[q] <= t[j]
    BY <1>4
  <2>3. q = a => t[c] <= t[j]
    OBVIOUS
  <2>4. j = a => t[q] <= t[c]
    BY <1>5
  <2>5. j = c => q = a
    OBVIOUS
  <2>6. q # c
    BY <1>6
  <2> HIDE DEF q
  <2>7. u[q] <= u[j]
    <3>1. CASE j = c
      BY <3>1, <1>2, <2>1, <2>5
    <3>2. CASE j = a
      BY <3>2, <1>1, <1>2, <2>1, <2>4, <2>6
    <3>3. CASE j # a /\ j # c /\ q = a
      BY <3>3, <1>2, <2>1, <2>3
    <3>4. CASE j # a /\ j # c /\ q # a
      BY <3>4, <1>2, <2>1, <2>2, <2>6
    <3> QED
      BY <3>1, <3>2, <3>3, <3>4
  <2> QED
    BY <2>7 DEF q
<1>7. ASSUME NEW j \in 2 .. n, j \div 2 = c PROVE u[c \div 2] <= u[j]
  <2>1. t[c] <= t[j]
    BY <1>4, <1>1, <1>7
  <2>2. j > c
    BY <1>3, <1>7
  <2>3. u[j] = t[j] /\ u[a] = t[c]
    BY <1>1, <1>2, <2>2
  <2> QED
    BY <2>1, <2>3
<1>8. GoesDownAt(u, n, c)
  BY <1>6, <1>7 DEF GoesDownAt, AcrossInOrder
<1> QED
  BY <1>8 DEF u

\* At the root, or not earlier than the parent: nothing is left but the
\* children.
LEMMA UpRests ==
  ASSUME NEW n \in Nat, NEW t \in [1 .. n -> Int], NEW a \in 1 .. n,
         a = 1 \/ t[a \div 2] <= t[a]
  PROVE  /\ HoleAt(t, n, a) => GoesDownAt(t, n, a)
         /\ GoesUpAt(t, n, a) => Order(t, n)
<1>1. ASSUME HoleAt(t, n, a) PROVE GoesDownAt(t, n, a)
  <2>1. ASSUME NEW j \in 2 .. n, j \div 2 # a PROVE t[j \div 2] <= t[j]
    <3>1. CASE j = a
      BY <3>1
    <3>2. CASE j # a
      BY <3>2, <1>1, <2>1 DEF HoleAt
    <3> QED
      BY <3>1, <3>2
  <2> QED
    BY <1>1, <2>1 DEF HoleAt, GoesDownAt
<1>2. GoesUpAt(t, n, a) => Order(t, n)
  BY DEF GoesUpAt, Order
<1> QED
  BY <1>1, <1>2

\* The first timer is the earliest.
LEMMA RootIsFirst ==
  ASSUME NEW n \in Nat, NEW t \in [1 .. n -> Int], Order(t, n)
  PROVE  \A i \in 1 .. n : t[1] <= t[i]
<1> SUFFICES ASSUME NEW i0 \in 1 .. n, ~ (t[1] <= t[i0]) PROVE FALSE
  OBVIOUS
<1> DEFINE T == {i \in 1 .. n : ~ (t[1] <= t[i])}
<1>1. T \in SUBSET Nat /\ T # {}
  OBVIOUS
<1> HIDE DEF T
<1>2. PICK m \in T : \A k \in T : m <= k
  BY <1>1, LeastNumber
<1>3. m \in 1 .. n /\ ~ (t[1] <= t[m])
  BY DEF T
<1>4. m > 1
  BY <1>3
<1>5. m \div 2 \in 1 .. n /\ m \div 2 < m
  BY <1>3, <1>4, Halves
<1>6. t[m \div 2] <= t[m]
  BY <1>3, <1>4 DEF Order
<1>7. m \div 2 \in T
  BY <1>3, <1>5, <1>6 DEF T
<1>8. m <= m \div 2
  BY <1>2, <1>7
<1> DEFINE q == m \div 2
<1> HIDE DEF q
<1>9. q \in 1 .. n /\ q < m /\ m <= q
  BY <1>5, <1>8 DEF q
<1> QED
  BY <1>3, <1>9

-----------------------------------------------------------------------------
(* The operations of the heap *)

\* A heap of slots where each slot is found at its place.
Shaped(H) ==
  /\ H \in [heap : Seq(Slots), hidx : [Slots -> 0 .. MaxEvents],
            expire : [Slots -> Int]]
  /\ \A i \in 1 .. Len(H.heap) : H.hidx[H.heap[i]] = i
  /\ \A s \in Slots : H.hidx[s] # 0 =>
       H.hidx[s] \in 1 .. Len(H.heap) /\ H.heap[H.hidx[s]] = s

Times(H) == [i \in 1 .. Len(H.heap) |-> Time(H, i)]
InOrder(H) == Order(Times(H), Len(H.heap))

\* R is a heap of the timers of H, maybe at other places.
Kept(H, R) ==
  /\ Shaped(R)
  /\ Len(R.heap) = Len(H.heap) /\ R.expire = H.expire
  /\ \A s \in Slots : R.hidx[s] = 0 <=> H.hidx[s] = 0

\* A function on 1 .. n is a sequence of that length.
LEMMA FunctionIsSeq ==
  ASSUME NEW S, NEW n \in Nat, NEW f \in [1 .. n -> S]
  PROVE  f \in Seq(S) /\ Len(f) = n
<1>1. f \in Seq(S)
  BY SeqDef
<1>2. DOMAIN f = 1 .. Len(f) /\ Len(f) \in Nat /\ DOMAIN f = 1 .. n
  BY <1>1, LenProperties
<1>3. \A m \in Nat : 1 .. m = 1 .. n => m = n
  <2> SUFFICES ASSUME NEW m \in Nat, 1 .. m = 1 .. n PROVE m = n
    OBVIOUS
  <2>1. m \in 1 .. m \/ m = 0
    OBVIOUS
  <2>2. n \in 1 .. n \/ n = 0
    OBVIOUS
  <2> QED
    BY <2>1, <2>2
<1> QED
  BY <1>1, <1>2, <1>3

\* The fields of a heap.
LEMMA Fields ==
  ASSUME NEW H, Shaped(H)
  PROVE  /\ H.heap \in Seq(Slots) /\ Len(H.heap) \in Nat
         /\ H.heap \in [1 .. Len(H.heap) -> Slots]
         /\ H.hidx \in [Slots -> 0 .. MaxEvents] /\ H.expire \in [Slots -> Int]
         /\ Times(H) \in [1 .. Len(H.heap) -> Int]
         /\ H = [heap |-> H.heap, hidx |-> H.hidx, expire |-> H.expire]
<1>1. H.heap \in Seq(Slots) /\ H.hidx \in [Slots -> 0 .. MaxEvents]
      /\ H.expire \in [Slots -> Int]
      /\ H = [heap |-> H.heap, hidx |-> H.hidx, expire |-> H.expire]
  BY DEF Shaped
<1>2. Len(H.heap) \in Nat /\ H.heap \in [1 .. Len(H.heap) -> Slots]
  BY <1>1
<1>3. Times(H) \in [1 .. Len(H.heap) -> Int]
  BY <1>1, <1>2 DEF Times, Time
<1> QED
  BY <1>1, <1>2, <1>3

\* A heap of the right shape in order is a heap, and hidx tells its timers.
LEMMA HeapIs ==
  ASSUME NEW H, Shaped(H)
  PROVE  /\ InOrder(H) <=> IsHeap(H)
         /\ InHeap(H) = {s \in Slots : H.hidx[s] # 0}
<1>1. H.heap \in [1 .. Len(H.heap) -> Slots] /\ H.hidx \in [Slots -> 0 .. MaxEvents]
      /\ Len(H.heap) \in Nat
  BY Fields
<1>2. /\ \A i \in 1 .. Len(H.heap) : H.hidx[H.heap[i]] = i
      /\ \A s \in Slots : H.hidx[s] # 0 =>
           H.hidx[s] \in 1 .. Len(H.heap) /\ H.heap[H.hidx[s]] = s
  BY DEF Shaped
<1>3. \A j \in 2 .. Len(H.heap) : j \in 1 .. Len(H.heap) /\ j \div 2 \in 1 .. Len(H.heap)
  BY <1>1, Halves
<1>4. InOrder(H) <=> \A j \in 2 .. Len(H.heap) : Time(H, j \div 2) <= Time(H, j)
  BY <1>3 DEF InOrder, Order, Times
<1>5. DOMAIN H.heap = 1 .. Len(H.heap) /\ DOMAIN H.hidx = Slots
  BY <1>1
<1>6. InOrder(H) <=> IsHeap(H)
  BY <1>2, <1>4, <1>5 DEF IsHeap
<1>7. InHeap(H) = {s \in Slots : H.hidx[s] # 0}
  BY <1>1, <1>2, <1>5 DEF InHeap
<1> QED
  BY <1>6, <1>7

\* What is kept twice is kept.
LEMMA KeptTwice ==
  ASSUME NEW H, NEW J, NEW R, Kept(H, J), Kept(J, R)
  PROVE  Kept(H, R)
BY DEF Kept

\* Two timers change places.
LEMMA SwapKeeps ==
  ASSUME NEW H, Shaped(H),
         NEW i \in 1 .. Len(H.heap), NEW j \in 1 .. Len(H.heap), i # j
  PROVE  /\ Kept(H, HeapSwap(H, i, j))
         /\ Times(HeapSwap(H, i, j)) = Exchanged(Times(H), i, j)
<1> DEFINE R == HeapSwap(H, i, j)
           n == Len(H.heap)
           h == [H.heap EXCEPT ![i] = H.heap[j], ![j] = H.heap[i]]
           x == [H.hidx EXCEPT ![H.heap[j]] = i, ![H.heap[i]] = j]
<1>1. R.heap = h /\ R.hidx = x /\ R.expire = H.expire
      /\ R = [heap |-> h, hidx |-> x, expire |-> H.expire]
  BY DEF HeapSwap
<1>2. H.heap \in Seq(Slots) /\ n \in Nat /\ H.heap \in [1 .. n -> Slots]
      /\ H.hidx \in [Slots -> 0 .. MaxEvents] /\ H.expire \in [Slots -> Int]
  BY Fields
<1>3. /\ \A k \in 1 .. n : H.hidx[H.heap[k]] = k
      /\ \A s \in Slots : H.hidx[s] # 0 => H.hidx[s] \in 1 .. n /\ H.heap[H.hidx[s]] = s
  BY DEF Shaped
<1>4. n <= MaxEvents
  <2>1. n \in 1 .. n
    BY <1>2
  <2>2. H.hidx[H.heap[n]] = n /\ H.heap[n] \in Slots
    BY <1>2, <1>3, <2>1
  <2>3. H.hidx[H.heap[n]] \in 0 .. MaxEvents
    BY <1>2, <2>2
  <2> QED
    BY <2>2, <2>3
<1>5. h \in Seq(Slots) /\ Len(h) = n /\ h \in [1 .. n -> Slots]
  <2>1. h \in [1 .. n -> Slots]
    BY <1>2
  <2> HIDE DEF h, n
  <2> QED
    BY <1>2, <2>1, FunctionIsSeq
<1>6. h[i] = H.heap[j] /\ h[j] = H.heap[i]
      /\ \A k \in 1 .. n : k # i /\ k # j => h[k] = H.heap[k]
  BY <1>2
<1>7. H.heap[i] # H.heap[j]
  BY <1>3
<1>8. x \in [Slots -> 0 .. MaxEvents]
  <2>1. i \in 0 .. MaxEvents /\ j \in 0 .. MaxEvents
    BY <1>2, <1>4, ReactorAssumption DEF n
  <2> DEFINE hi == H.hidx
             a == H.heap[i]
             b == H.heap[j]
  <2>2. hi \in [Slots -> 0 .. MaxEvents]
    BY <1>2
  <2>3. x = [hi EXCEPT ![b] = i, ![a] = j]
    OBVIOUS
  <2> HIDE DEF x, a, b, hi
  <2> QED
    BY <2>1, <2>2, <2>3
<1>9. x[H.heap[j]] = i /\ x[H.heap[i]] = j
      /\ \A s \in Slots : s # H.heap[i] /\ s # H.heap[j] => x[s] = H.hidx[s]
  BY <1>2, <1>7
<1> HIDE DEF h, x, R, n
<1>11. i \in 1 .. n /\ j \in 1 .. n
  BY DEF n
<1>10. ASSUME NEW k \in 1 .. n PROVE x[h[k]] = k
  <2>1. CASE k = i
    BY <2>1, <1>6, <1>9
  <2>2. CASE k = j
    BY <2>2, <1>6, <1>9
  <2>3. CASE k # i /\ k # j
    <3>1. h[k] = H.heap[k] /\ H.heap[k] \in Slots
      BY <2>3, <1>2, <1>6
    <3>2. H.hidx[H.heap[k]] = k /\ H.hidx[H.heap[i]] = i /\ H.hidx[H.heap[j]] = j
      BY <1>3, <1>11
    <3> QED
      BY <2>3, <3>1, <3>2, <1>9
  <2> QED
    BY <2>1, <2>2, <2>3
<1>12. \A s \in Slots : x[s] # 0 => x[s] \in 1 .. n /\ h[x[s]] = s
  <2> SUFFICES ASSUME NEW s \in Slots, x[s] # 0 PROVE x[s] \in 1 .. n /\ h[x[s]] = s
    OBVIOUS
  <2>1. CASE s = H.heap[j]
    BY <2>1, <1>6, <1>9, <1>11
  <2>2. CASE s = H.heap[i]
    BY <2>2, <1>6, <1>9, <1>11
  <2>3. CASE s # H.heap[i] /\ s # H.heap[j]
    <3>1. x[s] = H.hidx[s] /\ x[s] \in 1 .. n /\ H.heap[x[s]] = s
      BY <2>3, <1>3, <1>9
    <3>2. x[s] # i /\ x[s] # j
      BY <2>3, <3>1
    <3> QED
      BY <3>1, <3>2, <1>6
  <2> QED
    BY <2>1, <2>2, <2>3
<1>13. ASSUME NEW s \in Slots PROVE x[s] = 0 <=> H.hidx[s] = 0
  <2>1. H.hidx[H.heap[i]] = i /\ H.hidx[H.heap[j]] = j /\ i # 0 /\ j # 0
    BY <1>3, <1>11
  <2>2. CASE s = H.heap[j]
    BY <2>1, <2>2, <1>9
  <2>3. CASE s = H.heap[i]
    BY <2>1, <2>3, <1>9
  <2>4. CASE s # H.heap[i] /\ s # H.heap[j]
    BY <2>4, <1>9
  <2> QED
    BY <2>2, <2>3, <2>4
<1>14. Shaped(R)
  BY <1>1, <1>2, <1>5, <1>8, <1>10, <1>12 DEF Shaped
<1>15. Kept(H, R)
  BY <1>1, <1>5, <1>13, <1>14 DEF Kept, n
<1>16. Times(R) = Exchanged(Times(H), i, j)
  <2> DEFINE e == H.expire
             t == [k \in 1 .. n |-> e[H.heap[k]]]
  <2>1. Times(H) = t
    BY DEF Times, Time, n
  <2>2. Times(R) = [k \in 1 .. n |-> e[h[k]]]
    BY <1>1, <1>5 DEF Times, Time
  <2>3. Exchanged(t, i, j) = [k \in 1 .. n |-> IF k = j THEN t[i]
                                              ELSE IF k = i THEN t[j] ELSE t[k]]
    BY <1>11 DEF Exchanged
  <2>4. \A k \in 1 .. n : e[h[k]] = IF k = j THEN t[i]
                                    ELSE IF k = i THEN t[j] ELSE t[k]
    BY <1>6, <1>11
  <2> HIDE DEF t, e
  <2> QED
    BY <2>1, <2>2, <2>3, <2>4
<1> QED
  BY <1>15, <1>16 DEF R

\* p is where k turns up from place i of H may have led.
UpFrom(H, i, p, k) ==
  /\ Kept(H, p.H)
  /\ p.at \in 1 .. Len(H.heap)
  /\ \/ p.H = H /\ p.at = i
     \/ GoesUpAt(Times(p.H), Len(H.heap), p.at)
  /\ p.at <= i - k \/ p.at = 1 \/ Time(p.H, p.at \div 2) <= Time(p.H, p.at)

\* A turn of heap_up.
LEMMA UpOneTurn ==
  ASSUME NEW H, NEW i \in 1 .. Len(H.heap), NEW p, NEW k \in Nat,
         Shaped(H), HoleAt(Times(H), Len(H.heap), i), UpFrom(H, i, p, k)
  PROVE  UpFrom(H, i, UpTurn(p), k + 1)
<1> DEFINE n == Len(H.heap)
           J == p.H
           a == p.at
           t == Times(J)
<1>1. Shaped(J) /\ Len(J.heap) = n /\ a \in 1 .. n
  BY DEF UpFrom, Kept
<1>2. n \in Nat /\ t \in [1 .. n -> Int]
  BY <1>1, Fields
<1>3. HoleAt(t, n, a)
  <2>1. CASE J = H /\ a = i
    BY <2>1
  <2>2. CASE GoesUpAt(t, n, a)
    BY <2>2 DEF GoesUpAt, HoleAt
  <2> QED
    BY <2>1, <2>2 DEF UpFrom
<1>4. \A m \in 1 .. n : t[m] = Time(J, m)
  BY <1>1 DEF Times
<1>5. CASE a = 1 \/ Time(J, a \div 2) <= Time(J, a)
  <2>1. UpTurn(p) = p
    BY <1>5 DEF UpTurn
  <2> QED
    BY <1>5, <2>1 DEF UpFrom
<1>6. CASE a # 1 /\ ~ (Time(J, a \div 2) <= Time(J, a))
  <2> DEFINE b == a \div 2
             R == HeapSwap(J, b, a)
  <2>1. a \in 2 .. n /\ b \in 1 .. n /\ b < a
    BY <1>1, <1>6, Halves
  <2>2. t[b] \in Int /\ t[a] \in Int /\ t[b] = Time(J, b) /\ t[a] = Time(J, a)
    BY <1>1, <1>2, <1>4, <2>1
  <2>3. t[a] < t[b]
    BY <1>6, <2>2
  <2>4. GoesUpAt(Exchanged(t, b, a), n, b)
    BY <1>2, <1>3, <2>1, <2>3, UpKeepsOrder
  <2>5. b # a /\ b \in 1 .. Len(J.heap) /\ a \in 1 .. Len(J.heap)
    BY <1>1, <2>1
  <2>6. Kept(J, R) /\ Times(R) = Exchanged(t, b, a)
    BY <1>1, <2>5, SwapKeeps
  <2>7. UpTurn(p) = [H |-> R, at |-> b]
    BY <1>6 DEF UpTurn
  <2>8. Kept(H, R)
    BY <2>6, KeptTwice DEF UpFrom
  <2>9. a <= i - k
    BY <1>6 DEF UpFrom
  <2>10. b <= i - (k + 1)
    <3> HIDE DEF b, a
    <3> QED
      BY <2>1, <2>9
  <2> HIDE DEF R, b, t
  <2>11. UpTurn(p).H = R /\ UpTurn(p).at = b
    BY <2>7
  <2> QED
    BY <2>1, <2>4, <2>6, <2>8, <2>10, <2>11 DEF UpFrom
<1> QED
  BY <1>5, <1>6

\* heap_up from the place of a timer that may be earlier than its parent.
LEMMA HeapUpKeeps ==
  ASSUME NEW H, NEW i \in 1 .. Len(H.heap),
         Shaped(H), HoleAt(Times(H), Len(H.heap), i)
  PROVE  /\ Kept(H, HeapUp(H, i))
         /\ \/ HeapUp(H, i) = H /\ GoesDownAt(Times(H), Len(H.heap), i)
            \/ InOrder(HeapUp(H, i))
<1> DEFINE n == Len(H.heap)
<1>1. n \in Nat /\ i \in Nat /\ i \in 1 .. n
  BY Fields
<1>2. PICK f : GoesUp(f, H, i, i) /\ HeapUp(H, i) = f[i].H
  BY <1>1, HeapUpIs
<1> DEFINE start == [H |-> H, at |-> i]
<1>3. f[0] = start /\ \A k \in 1 .. i : f[k] = UpTurn(f[k - 1])
  <2> HIDE DEF start
  <2>1. f = [k \in 0 .. i |-> IF k = 0 THEN start ELSE UpTurn(f[k - 1])]
    BY <1>2 DEF GoesUp, start
  <2> QED
    BY <1>1, <2>1
<1> DEFINE T == {k \in Nat : k <= i => UpFrom(H, i, f[k], k)}
<1>4. 0 \in T
  <2>1. f[0].H = H /\ f[0].at = i
    BY <1>3
  <2>2. Kept(H, H)
    BY DEF Kept
  <2>3. UpFrom(H, i, f[0], 0)
    BY <1>1, <2>1, <2>2 DEF UpFrom
  <2> QED
    BY <2>3
<1>5. ASSUME NEW k \in T PROVE k + 1 \in T
  <2>1. k \in Nat
    OBVIOUS
  <2> SUFFICES ASSUME k + 1 <= i PROVE UpFrom(H, i, f[k + 1], k + 1)
    BY <2>1
  <2>2. k <= i /\ k + 1 \in 1 .. i /\ (k + 1) - 1 = k
    BY <1>1, <2>1
  <2>3. UpFrom(H, i, f[k], k)
    BY <2>2
  <2>4. f[k + 1] = UpTurn(f[(k + 1) - 1])
    BY <1>3, <2>2
  <2>5. f[k + 1] = UpTurn(f[k])
    BY <2>2, <2>4
  <2>6. UpFrom(H, i, UpTurn(f[k]), k + 1)
    BY <1>1, <2>1, <2>3, UpOneTurn
  <2> QED
    BY <2>5, <2>6
<1>6. T = Nat
  <2> HIDE DEF T
  <2>1. T \in SUBSET Nat
    BY DEF T
  <2> QED
    BY <1>4, <1>5, <2>1, AllNumbers
<1> DEFINE p == f[i]
<1>7. UpFrom(H, i, p, i)
  BY <1>1, <1>6
<1> HIDE DEF p, T
<1>8. Kept(H, p.H) /\ p.at \in 1 .. n
  BY <1>7 DEF UpFrom
<1>9. p.at = 1 \/ Time(p.H, p.at \div 2) <= Time(p.H, p.at)
  <2>1. ~ (p.at <= i - i)
    BY <1>1, <1>8
  <2> QED
    BY <1>7, <2>1 DEF UpFrom
<1>10. Shaped(p.H) /\ Len(p.H.heap) = n
  BY <1>8 DEF Kept
<1> DEFINE t == Times(p.H)
<1>11. t \in [1 .. n -> Int] /\ \A m \in 1 .. n : t[m] = Time(p.H, m)
  <2>1. t \in [1 .. n -> Int]
    BY <1>10, Fields
  <2> QED
    BY <1>10, <2>1 DEF Times
<1>12. p.at = 1 \/ t[p.at \div 2] <= t[p.at]
  <2> SUFFICES ASSUME p.at # 1 PROVE t[p.at \div 2] <= t[p.at]
    OBVIOUS
  <2>1. p.at \div 2 \in 1 .. n
    BY <1>1, <1>8, Halves
  <2> QED
    BY <1>8, <1>9, <1>11, <2>1
<1> HIDE DEF t
<1>13. /\ HoleAt(t, n, p.at) => GoesDownAt(t, n, p.at)
       /\ GoesUpAt(t, n, p.at) => Order(t, n)
  BY <1>1, <1>8, <1>11, <1>12, UpRests
<1>14. \/ p.H = H /\ GoesDownAt(Times(H), n, i)
       \/ InOrder(p.H)
  <2>1. CASE p.H = H /\ p.at = i
    BY <2>1, <1>13 DEF t
  <2>2. CASE GoesUpAt(t, n, p.at)
    BY <2>2, <1>10, <1>13 DEF t, InOrder
  <2> QED
    BY <2>1, <2>2, <1>7 DEF UpFrom, t
<1> QED
  BY <1>2, <1>8, <1>14 DEF p

\* The earlier child of place a, if that is earlier than a.
LEMMA SmallestIs ==
  ASSUME NEW H, Shaped(H), NEW a \in 1 .. Len(H.heap), NEW t, t = Times(H)
  PROVE  \/ /\ Smallest(H, a) = a
            /\ \A j \in 2 .. Len(H.heap) : j \div 2 = a => t[a] <= t[j]
         \/ /\ Smallest(H, a) \in 2 .. Len(H.heap)
            /\ Smallest(H, a) \div 2 = a /\ Smallest(H, a) # a
            /\ t[Smallest(H, a)] < t[a]
            /\ \A j \in 2 .. Len(H.heap) :
                 j \div 2 = a => t[Smallest(H, a)] <= t[j]
<1> DEFINE n == Len(H.heap)
           l == IF 2 * a <= n /\ Time(H, 2 * a) < Time(H, a) THEN 2 * a ELSE a
           c == Smallest(H, a)
<1>1. n \in Nat /\ a \in 1 .. n /\ t \in [1 .. n -> Int]
  BY Fields
<1>2. \A m \in 1 .. n : t[m] = Time(H, m) /\ t[m] \in Int
  <2>1. \A m \in 1 .. n : t[m] = Time(H, m)
    BY DEF Times
  <2> QED
    BY <1>1, <2>1
<1>3. c = IF 2 * a + 1 <= n /\ Time(H, 2 * a + 1) < Time(H, l) THEN 2 * a + 1 ELSE l
  BY DEF Smallest
<1>4. \A j \in 2 .. n : j \div 2 = a <=> j = 2 * a \/ j = 2 * a + 1
  BY <1>1, Children
<1> HIDE DEF c, n
<1>5. CASE ~ (2 * a <= n)
  <2>1. c = a /\ \A j \in 2 .. n : ~ (j \div 2 = a)
    BY <1>1, <1>3, <1>4, <1>5
  <2> QED
    BY <2>1 DEF c, n
<1>6. CASE 2 * a <= n
  <2>1. 2 * a \in 2 .. n /\ 2 * a # a /\ t[2 * a] = Time(H, 2 * a) /\ t[a] = Time(H, a)
        /\ t[2 * a] \in Int /\ t[a] \in Int
    BY <1>1, <1>2, <1>6
  <2>2. l \in {a, 2 * a} /\ t[l] = Time(H, l) /\ t[l] <= t[a] /\ t[l] <= t[2 * a]
        /\ (l # a => t[l] < t[a]) /\ t[l] \in Int
    BY <2>1
  <2> HIDE DEF l
  <2>3. CASE 2 * a + 1 <= n
    <3>1. 2 * a + 1 \in 2 .. n /\ 2 * a + 1 # a /\ t[2 * a + 1] = Time(H, 2 * a + 1)
          /\ t[2 * a + 1] \in Int
      BY <1>1, <1>2, <2>3
    <3>2. CASE t[2 * a + 1] < t[l]
      <4>1. c = 2 * a + 1 /\ t[c] < t[a] /\ t[c] <= t[2 * a]
        BY <1>3, <2>2, <2>3, <3>1, <3>2, <2>1
      <4>2. c \in 2 .. n /\ c \div 2 = a /\ c # a
        BY <1>4, <3>1, <4>1
      <4>3. \A j \in 2 .. n : j \div 2 = a => t[c] <= t[j]
        BY <1>4, <3>1, <4>1
      <4> QED
        BY <4>1, <4>2, <4>3 DEF c, n
    <3>3. CASE ~ (t[2 * a + 1] < t[l])
      <4>1. c = l /\ t[l] <= t[2 * a + 1]
        BY <1>3, <2>2, <2>3, <3>1, <3>3
      <4>2. \A j \in 2 .. n : j \div 2 = a => t[c] <= t[j]
        BY <1>4, <2>2, <4>1
      <4>3. CASE l = a
        BY <4>1, <4>2, <4>3 DEF c, n
      <4>4. CASE l = 2 * a
        <5>1. c \in 2 .. n /\ c \div 2 = a /\ c # a /\ t[c] < t[a]
          BY <1>4, <2>1, <2>2, <4>1, <4>4
        <5> QED
          BY <4>2, <5>1 DEF c, n
      <4> QED
        BY <2>2, <4>3, <4>4
    <3> QED
      BY <3>2, <3>3
  <2>4. CASE ~ (2 * a + 1 <= n)
    <3>1. c = l
      BY <1>3, <2>4
    <3>2. \A j \in 2 .. n : j \div 2 = a => t[c] <= t[j]
      BY <1>1, <1>4, <2>2, <2>4, <3>1
    <3>3. CASE l = a
      BY <3>1, <3>2, <3>3 DEF c, n
    <3>4. CASE l = 2 * a
      <4>1. c \in 2 .. n /\ c \div 2 = a /\ c # a /\ t[c] < t[a]
        BY <1>4, <2>1, <2>2, <3>1, <3>4
      <4> QED
        BY <3>2, <4>1 DEF c, n
    <3> QED
      BY <2>2, <3>3, <3>4
  <2> QED
    BY <2>3, <2>4
<1> QED
  BY <1>5, <1>6

\* p is where k turns down from place i of H may have led.
DownFrom(H, i, p, k) ==
  /\ Kept(H, p.H)
  /\ p.at \in 1 .. Len(H.heap)
  /\ GoesDownAt(Times(p.H), Len(H.heap), p.at)
  /\ p.at >= i + k \/ Smallest(p.H, p.at) = p.at

\* A turn of heap_down.
LEMMA DownOneTurn ==
  ASSUME NEW H, NEW i \in 1 .. Len(H.heap), NEW p, NEW k \in Nat,
         Shaped(H), DownFrom(H, i, p, k)
  PROVE  DownFrom(H, i, DownTurn(p), k + 1)
<1> DEFINE n == Len(H.heap)
           J == p.H
           a == p.at
           t == Times(J)
           c == Smallest(J, a)
<1>1. Shaped(J) /\ Len(J.heap) = n /\ a \in 1 .. n
  BY DEF DownFrom, Kept
<1>2. n \in Nat /\ t \in [1 .. n -> Int]
  BY <1>1, Fields
<1>3. GoesDownAt(t, n, a)
  BY DEF DownFrom
<1>4. CASE c = a
  <2>1. DownTurn(p) = p
    BY <1>4 DEF DownTurn
  <2> QED
    BY <1>4, <2>1 DEF DownFrom
<1>5. CASE c # a
  <2> DEFINE R == HeapSwap(J, c, a)
  <2>1. c \in 2 .. n /\ c \div 2 = a /\ t[c] < t[a]
        /\ \A j \in 2 .. n : j \div 2 = a => t[c] <= t[j]
    <3> HIDE DEF c, t
    <3>1. \/ /\ c = a
             /\ \A j \in 2 .. n : j \div 2 = a => t[a] <= t[j]
          \/ /\ c \in 2 .. n
             /\ c \div 2 = a /\ c # a
             /\ t[c] < t[a]
             /\ \A j \in 2 .. n : j \div 2 = a => t[c] <= t[j]
      BY <1>1, SmallestIs DEF c, t
    <3> QED
      BY <1>5, <3>1
  <2> HIDE DEF c, t, J, a, n
  <2>2. GoesDownAt(Exchanged(t, c, a), n, c)
    BY <1>1, <1>2, <1>3, <2>1, DownKeepsOrder
  <2>3. c \in 1 .. Len(J.heap) /\ a \in 1 .. Len(J.heap)
    BY <1>1, <2>1
  <2>4. Kept(J, R) /\ Times(R) = Exchanged(t, c, a)
    BY <1>1, <1>5, <2>3, SwapKeeps DEF t
  <2>5. DownTurn(p) = [H |-> R, at |-> c]
    BY <1>5 DEF DownTurn, c, J, a
  <2>6. Kept(H, R)
    BY <2>4, KeptTwice DEF DownFrom, J
  <2>7. a >= i + k
    BY <1>5 DEF DownFrom, a, c, J
  <2>8. c > a /\ a \in Nat
    BY <1>1, <1>2, <2>1, Halves
  <2>9. c >= i + (k + 1)
    BY <1>2, <2>1, <2>7, <2>8 DEF n
  <2> HIDE DEF R
  <2>10. DownTurn(p).H = R /\ DownTurn(p).at = c
    BY <2>5
  <2> QED
    BY <2>1, <2>2, <2>4, <2>6, <2>9, <2>10, <1>2 DEF DownFrom, n
<1> QED
  BY <1>4, <1>5

\* heap_down from the place of a timer that may be later than its children.
LEMMA HeapDownKeeps ==
  ASSUME NEW H, NEW i \in 1 .. Len(H.heap),
         Shaped(H), GoesDownAt(Times(H), Len(H.heap), i)
  PROVE  Kept(H, HeapDown(H, i)) /\ InOrder(HeapDown(H, i))
<1> DEFINE n == Len(H.heap)
<1>1. n \in Nat /\ i \in Nat /\ i \in 1 .. n
  BY Fields
<1>2. PICK f : GoesDown(f, H, i, n) /\ HeapDown(H, i) = f[n].H
  BY <1>1, HeapDownIs
<1> DEFINE start == [H |-> H, at |-> i]
<1>3. f[0] = start /\ \A k \in 1 .. n : f[k] = DownTurn(f[k - 1])
  <2> HIDE DEF start
  <2>1. f = [k \in 0 .. n |-> IF k = 0 THEN start ELSE DownTurn(f[k - 1])]
    BY <1>2 DEF GoesDown, start
  <2> HIDE DEF n
  <2> QED
    BY <1>1, <2>1
<1> DEFINE T == {k \in Nat : k <= n => DownFrom(H, i, f[k], k)}
<1>4. 0 \in T
  <2>1. f[0].H = H /\ f[0].at = i
    BY <1>3
  <2>2. Kept(H, H)
    BY DEF Kept
  <2>3. DownFrom(H, i, f[0], 0)
    BY <1>1, <2>1, <2>2 DEF DownFrom
  <2> QED
    BY <2>3
<1>5. ASSUME NEW k \in T PROVE k + 1 \in T
  <2>1. k \in Nat
    OBVIOUS
  <2> SUFFICES ASSUME k + 1 <= n PROVE DownFrom(H, i, f[k + 1], k + 1)
    BY <2>1
  <2>2. k <= n /\ k + 1 \in 1 .. n /\ (k + 1) - 1 = k
    <3> HIDE DEF n
    <3> QED
      BY <1>1, <2>1
  <2>3. DownFrom(H, i, f[k], k)
    BY <2>2
  <2>4. f[k + 1] = DownTurn(f[(k + 1) - 1])
    BY <1>3, <2>2
  <2>5. f[k + 1] = DownTurn(f[k])
    BY <2>2, <2>4
  <2>6. DownFrom(H, i, DownTurn(f[k]), k + 1)
    BY <1>1, <2>1, <2>3, DownOneTurn
  <2> QED
    BY <2>5, <2>6
<1>6. T = Nat
  <2> HIDE DEF T
  <2>1. T \in SUBSET Nat
    BY DEF T
  <2> QED
    BY <1>4, <1>5, <2>1, AllNumbers
<1> DEFINE p == f[n]
<1>7. DownFrom(H, i, p, n)
  BY <1>1, <1>6
<1> HIDE DEF p, T
<1>8. Kept(H, p.H) /\ p.at \in 1 .. n /\ GoesDownAt(Times(p.H), n, p.at)
  BY <1>7 DEF DownFrom
<1>9. Smallest(p.H, p.at) = p.at
  <2>1. ~ (p.at >= i + n)
    <3> HIDE DEF n
    <3> QED
      BY <1>1, <1>8
  <2> QED
    BY <1>7, <2>1 DEF DownFrom
<1>10. Shaped(p.H) /\ Len(p.H.heap) = n
  BY <1>8 DEF Kept
<1> DEFINE t == Times(p.H)
           a == p.at
<1> HIDE DEF t, a
<1>11. \A j \in 2 .. n : j \div 2 = a => t[a] <= t[j]
  <2> DEFINE c == Smallest(p.H, a)
  <2> HIDE DEF c
  <2>1. \/ /\ c = a
           /\ \A j \in 2 .. n : j \div 2 = a => t[a] <= t[j]
        \/ /\ c \in 2 .. n
           /\ c \div 2 = a /\ c # a
           /\ t[c] < t[a]
           /\ \A j \in 2 .. n : j \div 2 = a => t[c] <= t[j]
    BY <1>8, <1>10, SmallestIs DEF c, t, a
  <2>2. c = a
    BY <1>9 DEF c, a
  <2> QED
    BY <2>1, <2>2
<1>12. \A j \in 2 .. n : j \div 2 # a => t[j \div 2] <= t[j]
  BY <1>8 DEF GoesDownAt, t, a
<1>13. Order(t, n)
  <2> SUFFICES ASSUME NEW j \in 2 .. n PROVE t[j \div 2] <= t[j]
    BY DEF Order
  <2>1. CASE j \div 2 = a
    BY <2>1, <1>11
  <2>2. CASE j \div 2 # a
    BY <2>2, <1>12
  <2> QED
    BY <2>1, <2>2
<1>14. InOrder(p.H)
  BY <1>10, <1>13 DEF InOrder, t
<1> QED
  BY <1>2, <1>8, <1>14 DEF p

\* R is a heap in order, its timers are those of H and s, due at e.
HasTimers(R, S, e) ==
  /\ Shaped(R) /\ InOrder(R)
  /\ {q \in Slots : R.hidx[q] # 0} = S
  /\ R.expire = e

\* What is kept of a heap is the set of its timers and when they are due.
LEMMA KeptTimers ==
  ASSUME NEW H, NEW R, Kept(H, R), InOrder(R)
  PROVE  HasTimers(R, {q \in Slots : H.hidx[q] # 0}, H.expire)
BY DEF Kept, HasTimers

\* The hole at a place is there for every time that place may have, also when
\* the last places are cut off.
LEMMA HoleHasAnyTime ==
  ASSUME NEW n \in Nat, NEW m \in Nat, NEW t, NEW u, NEW a \in 1 .. n, n <= m,
         \A k \in 1 .. n : k # a => u[k] = t[k], HoleAt(t, m, a)
  PROVE  HoleAt(u, n, a)
<1>1. ASSUME NEW j \in 2 .. n PROVE j \in 2 .. m /\ j \in 1 .. n /\ j \div 2 \in 1 .. n
  BY Halves
<1>2. ASSUME NEW j \in 2 .. n, j # a, j \div 2 # a PROVE u[j \div 2] <= u[j]
  <2>1. t[j \div 2] <= t[j]
    BY <1>1, <1>2 DEF HoleAt
  <2>2. u[j] = t[j] /\ u[j \div 2] = t[j \div 2]
    BY <1>1, <1>2
  <2> QED
    BY <2>1, <2>2
<1>3. ASSUME a > 1, NEW j \in 2 .. n, j \div 2 = a PROVE u[a \div 2] <= u[j]
  <2>1. t[a \div 2] <= t[j]
    BY <1>1, <1>3 DEF HoleAt, AcrossInOrder
  <2>2. j # a /\ a \div 2 # a /\ a \div 2 \in 1 .. n
    BY <1>3, Halves
  <2>3. u[j] = t[j] /\ u[a \div 2] = t[a \div 2]
    BY <1>1, <2>2
  <2> QED
    BY <2>1, <2>3
<1> QED
  BY <1>2, <1>3 DEF HoleAt, AcrossInOrder

\* There are n numbers in 1 .. n.
LEMMA FirstNumbers ==
  ASSUME NEW n \in Nat
  PROVE  IsFiniteSet(1 .. n) /\ Cardinality(1 .. n) = n
<1> DEFINE one == 1
<1> HIDE DEF one
<1>1. /\ IsFiniteSet(one .. n)
      /\ Cardinality(one .. n) = IF one > n THEN 0 ELSE n - one + 1
  BY FS_Interval DEF one
<1> QED
  BY <1>1 DEF one

\* While a slot has no timer the heap has room.
LEMMA HeapHasRoom ==
  ASSUME NEW H, Shaped(H), NEW s \in Slots, H.hidx[s] = 0
  PROVE  Len(H.heap) + 1 \in 1 .. MaxEvents
<1> DEFINE n == Len(H.heap)
<1>1. n \in Nat /\ H.heap \in [1 .. n -> Slots] /\ MaxEvents \in Nat /\ MaxEvents > 0
  BY Fields, ReactorAssumption
<1>2. \A k \in 1 .. n : H.hidx[H.heap[k]] = k
  BY DEF Shaped
<1>3. \A k \in 1 .. n : H.heap[k] \in Slots \ {s}
  BY <1>1, <1>2
<1>4. IsFiniteSet(Slots) /\ Cardinality(Slots) = MaxEvents
  BY <1>1, FirstNumbers DEF Slots
<1>5. IsFiniteSet(Slots \ {s}) /\ Cardinality(Slots \ {s}) = MaxEvents - 1
  BY <1>4, FS_RemoveElement
<1>6. IsFiniteSet(1 .. n) /\ Cardinality(1 .. n) = n
  BY <1>1, FirstNumbers
<1> HIDE DEF n
<1>7. n <= MaxEvents - 1
  <2> SUFFICES ASSUME ~ (n <= MaxEvents - 1) PROVE FALSE
    OBVIOUS
  <2>1. Cardinality(1 .. n) > Cardinality(Slots \ {s})
    BY <1>1, <1>5, <1>6
  <2> DEFINE f == [k \in 1 .. n |-> H.heap[k]]
  <2>2. f \in [1 .. n -> Slots \ {s}]
    BY <1>3
  <2>3. \E x, y \in 1 .. n : x # y /\ f[x] = f[y]
    <3> DEFINE S == 1 .. n
               R == Slots \ {s}
    <3> HIDE DEF f, S, R
    <3>1. Cardinality(R) < Cardinality(S)
      BY <1>1, <1>5, <1>6, <2>1 DEF R, S
    <3>2. IsFiniteSet(R) /\ IsFiniteSet(S) /\ f \in [S -> R]
      BY <1>5, <1>6, <2>2 DEF R, S
    <3>3. \E x, y \in S : x # y /\ f[x] = f[y]
      BY <3>1, <3>2, FS_PigeonHole
    <3> QED
      BY <3>3 DEF S
  <2> QED
    BY <1>2, <2>3
<1> QED
  BY <1>1, <1>7 DEF n

\* timer_add for a slot that has no timer.
THEOREM TimerAddKeeps ==
  ASSUME NEW H, Shaped(H), InOrder(H), NEW s \in Slots, H.hidx[s] = 0, NEW when \in Int
  PROVE  HasTimers(TimerAdd(H, s, when), {q \in Slots : H.hidx[q] # 0} \cup {s},
                   [H.expire EXCEPT ![s] = when])
<1> DEFINE n == Len(H.heap)
           h == Append(H.heap, s)
           x == [H.hidx EXCEPT ![s] = n + 1]
           e == [H.expire EXCEPT ![s] = when]
           J == [heap |-> h, hidx |-> x, expire |-> e]
           t == Times(H)
           u == Times(J)
<1>1. H.heap \in Seq(Slots) /\ n \in Nat /\ H.heap \in [1 .. n -> Slots]
      /\ H.hidx \in [Slots -> 0 .. MaxEvents] /\ H.expire \in [Slots -> Int]
      /\ t \in [1 .. n -> Int]
  BY Fields
<1>2. /\ \A k \in 1 .. n : H.hidx[H.heap[k]] = k
      /\ \A q \in Slots : H.hidx[q] # 0 => H.hidx[q] \in 1 .. n /\ H.heap[H.hidx[q]] = q
  BY DEF Shaped
<1>3. n + 1 \in 1 .. MaxEvents
  BY HeapHasRoom
<1>4. h \in Seq(Slots) /\ Len(h) = n + 1 /\ h[n + 1] = s
      /\ \A k \in 1 .. n : h[k] = H.heap[k]
  BY <1>1
<1>5. J.heap = h /\ J.hidx = x /\ J.expire = e
  OBVIOUS
<1>6. \A k \in 1 .. n : H.heap[k] \in Slots /\ H.heap[k] # s
  BY <1>1, <1>2
<1>7. x \in [Slots -> 0 .. MaxEvents] /\ x[s] = n + 1
      /\ \A q \in Slots : q # s => x[q] = H.hidx[q]
  <2> HIDE DEF n
  <2> QED
    BY <1>1, <1>3
<1>8. e \in [Slots -> Int]
  BY <1>1
<1>9. TimerAdd(H, s, when) = HeapUp(J, n + 1)
  BY DEF TimerAdd
<1> HIDE DEF h, x, n
<1>10. J \in [heap : Seq(Slots), hidx : [Slots -> 0 .. MaxEvents], expire : [Slots -> Int]]
  BY <1>4, <1>7, <1>8
<1>11. \A k \in 1 .. n + 1 : x[h[k]] = k
  <2> SUFFICES ASSUME NEW k \in 1 .. n + 1 PROVE x[h[k]] = k
    OBVIOUS
  <2>1. CASE k = n + 1
    BY <2>1, <1>4, <1>7
  <2>2. CASE k # n + 1
    <3>1. k \in 1 .. n
      BY <2>2, <1>1
    <3> QED
      BY <3>1, <1>2, <1>4, <1>6, <1>7
  <2> QED
    BY <2>1, <2>2
<1>12. \A q \in Slots : x[q] # 0 => x[q] \in 1 .. n + 1 /\ h[x[q]] = q
  <2> SUFFICES ASSUME NEW q \in Slots, x[q] # 0 PROVE x[q] \in 1 .. n + 1 /\ h[x[q]] = q
    OBVIOUS
  <2>1. CASE q = s
    BY <2>1, <1>1, <1>4, <1>7
  <2>2. CASE q # s
    <3>1. x[q] = H.hidx[q] /\ x[q] \in 1 .. n /\ H.heap[x[q]] = q
      BY <2>2, <1>2, <1>7
    <3>2. x[q] \in 1 .. n + 1
      BY <3>1, <1>1
    <3> QED
      BY <3>1, <3>2, <1>4
  <2> QED
    BY <2>1, <2>2
<1> HIDE DEF e
<1>13. Shaped(J)
  <2> HIDE DEF J
  <2> QED
    BY <1>4, <1>5, <1>10, <1>11, <1>12 DEF Shaped
<1>14. \A k \in 1 .. n : u[k] = t[k]
  <2>1. \A k \in 1 .. n : u[k] = e[h[k]] /\ t[k] = H.expire[H.heap[k]]
    BY <1>1, <1>4, <1>5 DEF Times, Time, n
  <2>2. \A q \in Slots : q # s => e[q] = H.expire[q]
    BY <1>1 DEF e
  <2> HIDE DEF u, t
  <2> QED
    BY <1>4, <1>6, <2>1, <2>2
<1>15. HoleAt(u, n + 1, n + 1)
  <2>1. \A j \in 2 .. n + 1 : j \div 2 \in 1 .. n
    <3> SUFFICES ASSUME NEW j \in 2 .. n + 1 PROVE j \div 2 \in 1 .. n
      OBVIOUS
    <3>1. j \div 2 \in Nat /\ j \div 2 >= 1 /\ j \div 2 < j
      BY <1>1, Halves
    <3> QED
      BY <1>1, <3>1
  <2>2. \A j \in 2 .. n + 1 : j # n + 1 => j \in 2 .. n /\ j \in 1 .. n
    BY <1>1
  <2>3. \A j \in 2 .. n : t[j \div 2] <= t[j]
    BY DEF InOrder, Order, n
  <2>4. ~ (n + 1 \in 1 .. n)
    BY <1>1
  <2> HIDE DEF u, t
  <2>5. \A j \in 2 .. n + 1 : j # n + 1 => u[j \div 2] <= u[j]
    BY <1>14, <2>1, <2>2, <2>3
  <2> QED
    BY <2>1, <2>4, <2>5 DEF HoleAt, AcrossInOrder
<1> DEFINE R == HeapUp(J, n + 1)
<1> HIDE DEF J, R
<1>16. Len(J.heap) = n + 1
  BY <1>4, <1>5
<1>17. n + 1 \in 1 .. Len(J.heap)
  BY <1>1, <1>16
<1>18. Kept(J, R) /\ \/ R = J /\ GoesDownAt(u, n + 1, n + 1)
                     \/ InOrder(R)
  BY <1>13, <1>15, <1>16, <1>17, HeapUpKeeps DEF R, u
<1>19. InOrder(R)
  <2> SUFFICES ASSUME R = J, GoesDownAt(u, n + 1, n + 1) PROVE InOrder(J)
    BY <1>18
  <2>1. \A j \in 2 .. n + 1 : j \div 2 # n + 1
    <3> SUFFICES ASSUME NEW j \in 2 .. n + 1 PROVE j \div 2 # n + 1
      OBVIOUS
    <3>1. j \div 2 < j
      BY <1>1, Halves
    <3> QED
      BY <1>1, <3>1
  <2>2. Order(u, n + 1)
    BY <2>1 DEF GoesDownAt, Order
  <2> QED
    BY <2>2, <1>16 DEF InOrder, u
<1>20. {q \in Slots : J.hidx[q] # 0} = {q \in Slots : H.hidx[q] # 0} \cup {s}
  BY <1>1, <1>5, <1>7
<1>21. HasTimers(R, {q \in Slots : J.hidx[q] # 0}, J.expire)
  BY <1>18, <1>19, KeptTimers
<1> QED
  BY <1>5, <1>9, <1>20, <1>21 DEF R, e

\* After heap_up from a hole, heap_down from there ends in order.
LEMMA UpThenDownKeeps ==
  ASSUME NEW J, Shaped(J), NEW i \in 1 .. Len(J.heap), HoleAt(Times(J), Len(J.heap), i),
         NEW a \in 1 .. Len(J.heap), HeapUp(J, i) = J => a = i
  PROVE  HasTimers(HeapDown(HeapUp(J, i), a), {q \in Slots : J.hidx[q] # 0}, J.expire)
<1> DEFINE U == HeapUp(J, i)
           n == Len(J.heap)
<1> HIDE DEF U
<1>1. Kept(J, U) /\ \/ U = J /\ GoesDownAt(Times(J), n, i)
                    \/ InOrder(U)
  BY HeapUpKeeps DEF U
<1>2. Shaped(U) /\ Len(U.heap) = n
  BY <1>1 DEF Kept
<1>3. n \in Nat /\ Times(U) \in [1 .. n -> Int]
  BY <1>2, Fields
<1>4. GoesDownAt(Times(U), n, a)
  <2>1. CASE U = J /\ GoesDownAt(Times(J), n, i)
    BY <2>1 DEF U
  <2>2. CASE InOrder(U)
    BY <2>2, <1>2, <1>3, OrderAround DEF InOrder
  <2> QED
    BY <1>1, <2>1, <2>2
<1> DEFINE R == HeapDown(U, a)
<1>5. Kept(U, R) /\ InOrder(R)
  BY <1>2, <1>4, HeapDownKeeps
<1>6. Kept(J, R)
  BY <1>1, <1>5, KeptTwice
<1>7. HasTimers(R, {q \in Slots : J.hidx[q] # 0}, J.expire)
  BY <1>5, <1>6, KeptTimers
<1> QED
  BY <1>7 DEF U

\* timer_refresh for a slot with a timer or without.
THEOREM TimerRefreshKeeps ==
  ASSUME NEW H, Shaped(H), InOrder(H), NEW s \in Slots, NEW when \in Int
  PROVE  HasTimers(TimerRefresh(H, s, when), {q \in Slots : H.hidx[q] # 0} \cup {s},
                   [H.expire EXCEPT ![s] = when])
<1>1. CASE H.hidx[s] = 0
  <2>1. TimerRefresh(H, s, when) = TimerAdd(H, s, when)
    BY <1>1 DEF TimerRefresh
  <2> QED
    BY <1>1, <2>1, TimerAddKeeps
<1>2. CASE H.hidx[s] # 0
  <2> DEFINE n == Len(H.heap)
             i == H.hidx[s]
             e == [H.expire EXCEPT ![s] = when]
             J == [heap |-> H.heap, hidx |-> H.hidx, expire |-> e]
             U == HeapUp(J, i)
             t == Times(H)
             u == Times(J)
  <2>1. H.heap \in Seq(Slots) /\ n \in Nat /\ H.heap \in [1 .. n -> Slots]
        /\ H.hidx \in [Slots -> 0 .. MaxEvents] /\ H.expire \in [Slots -> Int]
        /\ t \in [1 .. n -> Int]
        /\ H = [heap |-> H.heap, hidx |-> H.hidx, expire |-> H.expire]
    BY Fields
  <2>2. /\ \A k \in 1 .. n : H.hidx[H.heap[k]] = k
        /\ \A q \in Slots : H.hidx[q] # 0 => H.hidx[q] \in 1 .. n /\ H.heap[H.hidx[q]] = q
    BY DEF Shaped
  <2>3. J.heap = H.heap /\ J.hidx = H.hidx /\ J.expire = e
    OBVIOUS
  <2>4. e \in [Slots -> Int] /\ \A q \in Slots : q # s => e[q] = H.expire[q]
    BY <2>1
  <2>5. [H EXCEPT !.expire = [@ EXCEPT ![s] = when]] = J
    <3> DEFINE h == H.heap
               x == H.hidx
               d == H.expire
    <3> HIDE DEF h, x, d
    <3>1. H = [heap |-> h, hidx |-> x, expire |-> d]
      BY <2>1 DEF h, x, d
    <3>2. [H EXCEPT !.expire = [@ EXCEPT ![s] = when]]
          = [heap |-> h, hidx |-> x, expire |-> [d EXCEPT ![s] = when]]
      BY <3>1
    <3> QED
      BY <3>2 DEF h, x, d
  <2>6. TimerRefresh(H, s, when) = HeapDown(U, U.hidx[s])
    BY <1>2, <2>5 DEF TimerRefresh
  <2> HIDE DEF e
  <2>7. Shaped(J)
    <3>1. J \in [heap : Seq(Slots), hidx : [Slots -> 0 .. MaxEvents], expire : [Slots -> Int]]
      BY <2>1, <2>4
    <3> HIDE DEF J
    <3> QED
      BY <2>2, <2>3, <3>1 DEF Shaped
  <2>8. i \in 1 .. n /\ H.heap[i] = s
    BY <1>2, <2>2
  <2>9. \A k \in 1 .. n : k # i => u[k] = t[k]
    <3>1. \A k \in 1 .. n : u[k] = e[H.heap[k]] /\ t[k] = H.expire[H.heap[k]]
      BY <2>1, <2>3 DEF Times, Time
    <3>2. \A k \in 1 .. n : k # i => H.heap[k] \in Slots /\ H.heap[k] # s
      BY <2>1, <2>2
    <3> HIDE DEF u, t
    <3> QED
      BY <2>4, <3>1, <3>2
  <2> HIDE DEF J
  <2>10. Len(J.heap) = n
    BY <2>3
  <2>11. HoleAt(u, n, i)
    <3>1. HoleAt(t, n, i)
      BY <2>1, <2>8, OrderAround DEF InOrder
    <3>2. n <= n
      BY <2>1
    <3> HIDE DEF u, t, n, i
    <3> QED
      BY <2>1, <2>8, <2>9, <3>1, <3>2, HoleHasAnyTime
  <2> HIDE DEF i, n
  <2>12. Kept(J, U)
    BY <2>7, <2>8, <2>10, <2>11, HeapUpKeeps
  <2>13. U.hidx[s] \in 1 .. Len(J.heap)
    <3>1. U.hidx[s] # 0
      BY <1>2, <2>3, <2>12 DEF Kept
    <3>2. U.hidx[s] \in 1 .. Len(U.heap) /\ Len(U.heap) = Len(J.heap)
      BY <2>12, <3>1 DEF Kept, Shaped
    <3> QED
      BY <3>2
  <2>14. U = J => U.hidx[s] = i
    BY <2>3 DEF i
  <2> DEFINE a == U.hidx[s]
  <2>15. HasTimers(HeapDown(U, a), {q \in Slots : J.hidx[q] # 0}, J.expire)
    <3> HIDE DEF a
    <3>1. a \in 1 .. Len(J.heap) /\ (U = J => a = i)
      BY <2>13, <2>14 DEF a
    <3> QED
      BY <2>7, <2>8, <2>10, <2>11, <3>1, UpThenDownKeeps
  <2>16. {q \in Slots : J.hidx[q] # 0} = {q \in Slots : H.hidx[q] # 0} \cup {s}
    BY <1>2, <2>3
  <2> QED
    BY <2>3, <2>6, <2>15, <2>16 DEF e
<1> QED
  BY <1>1, <1>2

\* timer_del for a slot with a timer or without.
THEOREM TimerDelKeeps ==
  ASSUME NEW H, Shaped(H), InOrder(H), NEW s \in Slots
  PROVE  HasTimers(TimerDel(H, s), {q \in Slots : H.hidx[q] # 0} \ {s}, H.expire)
<1> DEFINE n == Len(H.heap) - 1
           i == H.hidx[s]
           last == H.heap[n + 1]
           x == [H.hidx EXCEPT ![s] = 0]
           h == SubSeq(H.heap, 1, n)
           cut == [heap |-> h, hidx |-> x, expire |-> H.expire]
           y == [x EXCEPT ![last] = i]
           g == [h EXCEPT ![i] = last]
           put == [heap |-> g, hidx |-> y, expire |-> H.expire]
           t == Times(H)
<1>1. H.heap \in Seq(Slots) /\ Len(H.heap) \in Nat /\ H.heap \in [1 .. Len(H.heap) -> Slots]
      /\ H.hidx \in [Slots -> 0 .. MaxEvents] /\ H.expire \in [Slots -> Int]
      /\ t \in [1 .. Len(H.heap) -> Int]
  BY Fields
<1>2. /\ \A k \in 1 .. Len(H.heap) : H.hidx[H.heap[k]] = k
      /\ \A q \in Slots : H.hidx[q] # 0 =>
           H.hidx[q] \in 1 .. Len(H.heap) /\ H.heap[H.hidx[q]] = q
  BY DEF Shaped
<1>3. CASE i = 0
  <2>1. TimerDel(H, s) = H
    BY <1>3 DEF TimerDel
  <2>2. {q \in Slots : H.hidx[q] # 0} \ {s} = {q \in Slots : H.hidx[q] # 0}
    BY <1>3
  <2> QED
    BY <2>1, <2>2 DEF HasTimers
<1>4. ASSUME i # 0 PROVE n \in Nat /\ i \in 1 .. n + 1 /\ H.heap[i] = s /\ Len(H.heap) = n + 1
  <2>1. i \in 1 .. Len(H.heap) /\ H.heap[i] = s
    BY <1>2, <1>4
  <2> DEFINE m == Len(H.heap)
  <2>2. m \in Nat /\ i \in 1 .. m /\ n = m - 1
    BY <1>1, <2>1
  <2> HIDE DEF m, n, i
  <2>3. n \in Nat /\ i \in 1 .. n + 1 /\ m = n + 1
    BY <2>2
  <2> QED
    BY <2>1, <2>3 DEF m, i
<1>5. ASSUME i # 0
      PROVE  /\ h \in Seq(Slots) /\ Len(h) = n /\ h \in [1 .. n -> Slots]
             /\ \A k \in 1 .. n : h[k] = H.heap[k] /\ k \in 1 .. n + 1
             /\ x \in [Slots -> 0 .. MaxEvents] /\ x[s] = 0
             /\ \A q \in Slots : q # s => x[q] = H.hidx[q]
  <2>1. n \in Nat /\ Len(H.heap) = n + 1
    BY <1>4, <1>5
  <2>2. x \in [Slots -> 0 .. MaxEvents] /\ x[s] = 0
        /\ \A q \in Slots : q # s => x[q] = H.hidx[q]
    BY <1>1, ReactorAssumption
  <2>3. h \in [1 .. n -> Slots] /\ \A k \in 1 .. n : h[k] = H.heap[k] /\ k \in 1 .. n + 1
    <3> DEFINE w == H.heap
    <3>1. h = SubSeq(w, 1, n) /\ w \in Seq(Slots) /\ Len(w) = n + 1
      BY <1>1, <2>1
    <3> HIDE DEF h, n, w
    <3>2. /\ h = [k \in 1 .. n |-> w[k]]
          /\ \A k \in 1 .. n : k \in 1 .. n + 1 /\ w[k] \in Slots
      BY <2>1, <3>1
    <3> QED
      BY <3>2 DEF w
  <2> HIDE DEF h, n
  <2>4. h \in Seq(Slots) /\ Len(h) = n
    BY <2>1, <2>3, FunctionIsSeq
  <2> QED
    BY <2>2, <2>3, <2>4
<1>6. CASE i # 0 /\ i = n + 1
  <2>1. n \in Nat /\ H.heap[n + 1] = s /\ Len(H.heap) = n + 1
    BY <1>4, <1>6
  <2>2. TimerDel(H, s) = cut
    BY <1>6 DEF TimerDel
  <2>3. cut.heap = h /\ cut.hidx = x /\ cut.expire = H.expire
    OBVIOUS
  <2>4. /\ h \in Seq(Slots) /\ Len(h) = n /\ h \in [1 .. n -> Slots]
        /\ \A k \in 1 .. n : h[k] = H.heap[k] /\ k \in 1 .. n + 1
        /\ x \in [Slots -> 0 .. MaxEvents] /\ x[s] = 0
        /\ \A q \in Slots : q # s => x[q] = H.hidx[q]
    BY <1>5, <1>6
  <2>5. H.hidx[s] = n + 1
    BY <1>6
  <2> HIDE DEF h, x, n
  <2>6. \A k \in 1 .. n : x[h[k]] = k
    <3> SUFFICES ASSUME NEW k \in 1 .. n PROVE x[h[k]] = k
      OBVIOUS
    <3>1. H.hidx[H.heap[k]] = k /\ H.heap[k] = h[k] /\ h[k] \in Slots
      BY <1>2, <2>1, <2>4
    <3>2. h[k] # s
      BY <2>1, <2>5, <3>1
    <3> QED
      BY <2>4, <3>1, <3>2
  <2>7. \A q \in Slots : x[q] # 0 => x[q] \in 1 .. n /\ h[x[q]] = q
    <3> SUFFICES ASSUME NEW q \in Slots, x[q] # 0 PROVE x[q] \in 1 .. n /\ h[x[q]] = q
      OBVIOUS
    <3>1. q # s /\ x[q] = H.hidx[q]
      BY <2>4
    <3>2. x[q] \in 1 .. n + 1 /\ H.heap[x[q]] = q
      BY <1>2, <2>1, <3>1
    <3>3. x[q] # n + 1
      BY <2>1, <3>1, <3>2
    <3>4. x[q] \in 1 .. n
      BY <2>1, <3>2, <3>3
    <3> QED
      BY <2>4, <3>2, <3>4
  <2>8. Shaped(cut)
    <3>1. cut \in [heap : Seq(Slots), hidx : [Slots -> 0 .. MaxEvents], expire : [Slots -> Int]]
      BY <1>1, <2>4
    <3> HIDE DEF cut
    <3> QED
      BY <2>3, <2>4, <2>6, <2>7, <3>1 DEF Shaped
  <2>9. InOrder(cut)
    <3> DEFINE u == Times(cut)
    <3>1. \A k \in 1 .. n : u[k] = t[k]
      BY <2>1, <2>3, <2>4 DEF Times, Time
    <3>2. \A j \in 2 .. n : j \in 2 .. n + 1 /\ j \in 1 .. n /\ j \div 2 \in 1 .. n
      <4> SUFFICES ASSUME NEW j \in 2 .. n
                   PROVE  j \in 2 .. n + 1 /\ j \in 1 .. n /\ j \div 2 \in 1 .. n
        OBVIOUS
      <4>1. j \div 2 \in Nat /\ j \div 2 >= 1 /\ j \div 2 < j
        BY <2>1, Halves
      <4> QED
        BY <2>1, <4>1
    <3>3. \A j \in 2 .. n + 1 : t[j \div 2] <= t[j]
      BY <2>1 DEF InOrder, Order
    <3> HIDE DEF u, t, cut
    <3>4. Order(u, n)
      BY <3>1, <3>2, <3>3 DEF Order
    <3> QED
      BY <2>3, <2>4, <3>4 DEF InOrder, u
  <2>10. {q \in Slots : x[q] # 0} = {q \in Slots : H.hidx[q] # 0} \ {s}
    BY <2>4
  <2> QED
    BY <2>2, <2>3, <2>8, <2>9, <2>10 DEF HasTimers
<1>7. CASE i # 0 /\ i # n + 1
  <2>1. n \in Nat /\ i \in 1 .. n /\ H.heap[i] = s /\ Len(H.heap) = n + 1 /\ H.hidx[s] = i
    <3> HIDE DEF n
    <3>1. n \in Nat /\ i \in 1 .. n + 1 /\ H.heap[i] = s /\ Len(H.heap) = n + 1
      BY <1>4, <1>7
    <3>2. i \in 1 .. n
      BY <1>7, <3>1
    <3> QED
      BY <3>1, <3>2
  <2>2. TimerDel(H, s) = HeapDown(HeapUp(put, i), i)
    BY <1>7 DEF TimerDel
  <2>3. put.heap = g /\ put.hidx = y /\ put.expire = H.expire
    OBVIOUS
  <2>4. /\ h \in Seq(Slots) /\ Len(h) = n /\ h \in [1 .. n -> Slots]
        /\ \A k \in 1 .. n : h[k] = H.heap[k] /\ k \in 1 .. n + 1
        /\ x \in [Slots -> 0 .. MaxEvents] /\ x[s] = 0
        /\ \A q \in Slots : q # s => x[q] = H.hidx[q]
    BY <1>5, <1>7
  <2>5. last \in Slots /\ H.hidx[last] = n + 1 /\ last # s /\ H.heap[n + 1] = last
    <3> HIDE DEF n
    <3>1. n + 1 \in 1 .. Len(H.heap)
      BY <2>1
    <3>2. last \in Slots /\ H.hidx[last] = n + 1
      BY <1>1, <1>2, <3>1
    <3>3. H.heap[n + 1] = last
      OBVIOUS
    <3> HIDE DEF last
    <3> QED
      BY <2>1, <3>2, <3>3
  <2>6. y \in [Slots -> 0 .. MaxEvents] /\ y[last] = i
        /\ \A q \in Slots : q # last => y[q] = x[q]
    <3>1. i \in 0 .. MaxEvents
      BY <1>1
    <3> HIDE DEF i, last, x
    <3> QED
      BY <2>4, <2>5, <3>1
  <2>7. g \in [1 .. n -> Slots] /\ g[i] = last /\ \A k \in 1 .. n : k # i => g[k] = h[k]
    <3> HIDE DEF i, last, h, n
    <3> QED
      BY <2>1, <2>4, <2>5
  <2>8. g \in Seq(Slots) /\ Len(g) = n
    <3> HIDE DEF g, n
    <3> QED
      BY <2>1, <2>7, FunctionIsSeq
  <2> HIDE DEF h, x, n, y, g, i, last, t
  <2>9. \A k \in 1 .. n : y[g[k]] = k
    <3> SUFFICES ASSUME NEW k \in 1 .. n PROVE y[g[k]] = k
      OBVIOUS
    <3>1. CASE k = i
      BY <3>1, <2>6, <2>7
    <3>2. CASE k # i
      <4>1. H.hidx[H.heap[k]] = k /\ H.heap[k] = h[k] /\ h[k] \in Slots /\ g[k] = h[k]
        BY <3>2, <1>2, <2>1, <2>4, <2>7
      <4>2. h[k] # s
        BY <3>2, <2>1, <4>1
      <4>3. h[k] # last
        BY <2>1, <2>5, <4>1
      <4> QED
        BY <2>4, <2>6, <4>1, <4>2, <4>3
    <3> QED
      BY <3>1, <3>2
  <2>10. \A q \in Slots : y[q] # 0 => y[q] \in 1 .. n /\ g[y[q]] = q
    <3> SUFFICES ASSUME NEW q \in Slots, y[q] # 0 PROVE y[q] \in 1 .. n /\ g[y[q]] = q
      OBVIOUS
    <3>1. CASE q = last
      BY <3>1, <2>1, <2>6, <2>7
    <3>2. CASE q # last
      <4>1. q # s /\ y[q] = H.hidx[q]
        BY <3>2, <2>4, <2>6
      <4>2. y[q] \in 1 .. n + 1 /\ H.heap[y[q]] = q
        BY <1>2, <2>1, <4>1
      <4>3. y[q] # n + 1 /\ y[q] # i
        BY <3>2, <2>1, <2>5, <4>1, <4>2
      <4>4. y[q] \in 1 .. n
        BY <2>1, <4>2, <4>3
      <4> QED
        BY <2>4, <2>7, <4>2, <4>3, <4>4
    <3> QED
      BY <3>1, <3>2
  <2>11. Shaped(put)
    <3>1. put \in [heap : Seq(Slots), hidx : [Slots -> 0 .. MaxEvents], expire : [Slots -> Int]]
      BY <1>1, <2>6, <2>8
    <3> HIDE DEF put
    <3> QED
      BY <2>3, <2>8, <2>9, <2>10, <3>1 DEF Shaped
  <2> DEFINE u == Times(put)
  <2>12. \A k \in 1 .. n : k # i => u[k] = t[k]
    <3>1. \A k \in 1 .. n : u[k] = H.expire[g[k]] /\ t[k] = H.expire[H.heap[k]]
      BY <2>1, <2>3, <2>4, <2>8 DEF Times, Time, t
    <3> HIDE DEF u
    <3> QED
      BY <2>4, <2>7, <3>1
  <2> HIDE DEF put
  <2>13. Len(put.heap) = n
    BY <2>3, <2>8
  <2>14. HoleAt(u, n, i)
    <3>1. i \in 1 .. Len(H.heap)
      BY <2>1
    <3>2. HoleAt(t, Len(H.heap), i)
      BY <1>1, <3>1, OrderAround DEF InOrder, t
    <3>3. HoleAt(t, n + 1, i) /\ n <= n + 1 /\ n + 1 \in Nat
      BY <2>1, <3>2
    <3> DEFINE m == n + 1
    <3> HIDE DEF u, m
    <3>4. HoleAt(t, m, i) /\ n <= m /\ m \in Nat
      BY <3>3 DEF m
    <3> QED
      BY <2>1, <2>12, <3>4, HoleHasAnyTime
  <2>15. HasTimers(HeapDown(HeapUp(put, i), i), {q \in Slots : put.hidx[q] # 0}, put.expire)
    BY <2>1, <2>11, <2>13, <2>14, UpThenDownKeeps
  <2>16. {q \in Slots : put.hidx[q] # 0} = {q \in Slots : H.hidx[q] # 0} \ {s}
    BY <2>1, <2>3, <2>4, <2>5, <2>6
  <2> QED
    BY <2>2, <2>3, <2>15, <2>16
<1> QED
  BY <1>3, <1>6, <1>7

-----------------------------------------------------------------------------
(* The inductive invariant *)

Used == {s \in Slots : fd[s] # None}

\* The slots: one is on epoll when it has a descriptor, no two have the same,
\* and what is sent of a buffer is part of it.
SlotsInv ==
  /\ status \in [Slots -> BOOLEAN] /\ fd \in [Slots -> Conn \cup {None}]
  /\ mode \in [Slots -> {"recvdata", "senddata"}]
  /\ buf \in [Slots -> Seq(Conn \X Nat)] /\ sendpos \in [Slots -> Nat]
  /\ \A s \in Slots : Len(buf[s]) <= BufMax /\ sendpos[s] <= Len(buf[s])
  /\ \A s \in Slots : status[s] <=> fd[s] # None
  /\ \A s, t \in Slots : fd[s] = fd[t] /\ fd[s] # None => s = t

\* The heap: it is in order and has a timer for each slot in use.
HeapInv ==
  /\ HasTimers(timers, Used, timers.expire)
  /\ timers.expire \in [Slots -> -MaxLate .. Idle]
  /\ \A s \in Slots : fd[s] = None => timers.expire[s] = 0

\* The connections: the backlog has each that waits once, each that is open
\* has a slot, and the others are as new.
ConnInv ==
  /\ conn \in [Conn -> {"none", "backlog", "open"}]
  /\ backlog \in Seq(Conn)
  /\ \A i, j \in 1 .. Len(backlog) : backlog[i] = backlog[j] => i = j
  /\ \A c \in Conn : conn[c] = "backlog" <=> \E i \in 1 .. Len(backlog) : backlog[i] = c
  /\ \A c \in Conn : conn[c] = "open" <=> \E s \in Slots : fd[s] = c

\* The bytes: what a client got and what is left of its slot's buffer are what
\* recv took, and the slot waits for room exactly while some is left.
EchoInv ==
  /\ peer \in [Conn -> {"up", "fin", "reset"}]
  /\ sent \in [Conn -> Nat] /\ taken \in [Conn -> Nat] /\ unread \in [Conn -> Nat]
  /\ got \in [Conn -> Seq(Conn \X Nat)]
  /\ EchoInOrder
  /\ \A c \in Conn : conn[c] # "open" => got[c] = <<>> /\ taken[c] = 0

\* The time: a connection was quiet for what its timer has run of Idle.
QuietInv ==
  /\ quiet \in [Conn -> Int]
  /\ \A s \in Slots : fd[s] # None => quiet[fd[s]] + timers.expire[s] = Idle
  /\ \A c \in Conn : conn[c] # "open" => quiet[c] = 0

\* An event is for a slot in use, and for what the slot is watched for.
EventIs(e) ==
  e.slot \in Slots =>
    /\ fd[e.slot] # None
    /\ e.re = "IN" => mode[e.slot] = "recvdata"
    /\ e.re = "OUT" => mode[e.slot] = "senddata"

\* A slot has one event at a time.
PendingInv ==
  /\ pending \subseteq [slot : Slots \cup {Listener}, re : {"IN", "OUT", "ERR"}]
  /\ \A e \in pending : EventIs(e)
  /\ \A e, f \in pending : e.slot = f.slot => e = f

\* The loop: no event is left after dispatch.
LoopInv ==
  /\ pc \in {"poll", "dispatch", "accept", "expire"}
  /\ timeout \in 0 .. MaxWait
  /\ PendingInv
  /\ pc \in {"poll", "expire"} => pending = {}
  /\ WakesForTimers

DataInv == SlotsInv /\ HeapInv /\ ConnInv /\ EchoInv /\ QuietInv
ReactorInv == DataInv /\ LoopInv

\* Times in the same order leave the heap in order.
LEMMA NewTimes ==
  ASSUME NEW H, NEW S, NEW e, HasTimers(H, S, e), NEW d \in [Slots -> Int],
         \A q, r \in S : e[q] <= e[r] => d[q] <= d[r]
  PROVE  HasTimers([H EXCEPT !.expire = d], S, d)
<1> DEFINE R == [heap |-> H.heap, hidx |-> H.hidx, expire |-> d]
           n == Len(H.heap)
<1>1. Shaped(H) /\ InOrder(H) /\ {q \in Slots : H.hidx[q] # 0} = S /\ H.expire = e
  BY DEF HasTimers
<1>2. H.heap \in Seq(Slots) /\ n \in Nat /\ H.heap \in [1 .. n -> Slots]
      /\ H.hidx \in [Slots -> 0 .. MaxEvents] /\ H.expire \in [Slots -> Int]
      /\ H = [heap |-> H.heap, hidx |-> H.hidx, expire |-> H.expire]
  BY <1>1, Fields
<1>3. [H EXCEPT !.expire = d] = R
  <2> DEFINE h == H.heap
             x == H.hidx
             o == H.expire
  <2> HIDE DEF h, x, o
  <2>1. H = [heap |-> h, hidx |-> x, expire |-> o]
    BY <1>2 DEF h, x, o
  <2>2. [H EXCEPT !.expire = d] = [heap |-> h, hidx |-> x, expire |-> d]
    BY <2>1
  <2> QED
    BY <2>2 DEF h, x
<1>4. R.heap = H.heap /\ R.hidx = H.hidx /\ R.expire = d
  OBVIOUS
<1>5. Shaped(R)
  <2>1. R \in [heap : Seq(Slots), hidx : [Slots -> 0 .. MaxEvents], expire : [Slots -> Int]]
    BY <1>2
  <2> HIDE DEF R
  <2> QED
    BY <1>1, <1>4, <2>1 DEF Shaped
<1>6. \A k \in 1 .. n : H.heap[k] \in S
  <2> SUFFICES ASSUME NEW k \in 1 .. n PROVE H.heap[k] \in S
    OBVIOUS
  <2>1. H.hidx[H.heap[k]] = k /\ k # 0 /\ H.heap[k] \in Slots
    BY <1>1, <1>2 DEF Shaped
  <2> QED
    BY <1>1, <2>1
<1> HIDE DEF R, n
<1>7. InOrder(R)
  <2>1. Len(R.heap) = n
    BY <1>4 DEF n
  <2> SUFFICES ASSUME NEW j \in 2 .. n PROVE Times(R)[j \div 2] <= Times(R)[j]
    BY <2>1 DEF InOrder, Order
  <2>2. j \in 1 .. n /\ j \div 2 \in 1 .. n
    <3>1. n \in Nat /\ j \in Nat /\ j > 1 /\ j <= n
      BY <1>2
    <3>2. j \div 2 \in Nat /\ j \div 2 >= 1 /\ j \div 2 < j
      BY <3>1, Halves
    <3> QED
      BY <3>1, <3>2
  <2> DEFINE i == j \div 2
             q == H.heap[i]
             r == H.heap[j]
  <2>3. Times(H)[i] = e[q] /\ Times(H)[j] = e[r]
    BY <1>1, <2>2 DEF Times, Time, n
  <2>4. Times(R)[i] = d[q] /\ Times(R)[j] = d[r]
    BY <1>4, <2>1, <2>2 DEF Times, Time
  <2>5. Times(H)[i] <= Times(H)[j]
    BY <1>1 DEF InOrder, Order, n
  <2>6. q \in S /\ r \in S
    BY <1>6, <2>2
  <2> HIDE DEF q, r
  <2>7. d[q] <= d[r]
    BY <2>3, <2>5, <2>6
  <2> QED
    BY <2>4, <2>7
<1> QED
  BY <1>1, <1>3, <1>4, <1>5, <1>7 DEF HasTimers

\* The timers of a heap.
LEMMA TimersIn ==
  ASSUME NEW H, NEW S, NEW e, HasTimers(H, S, e)
  PROVE  InHeap(H) = S /\ IsHeap(H) /\ e \in [Slots -> Int] /\ H.expire = e
         /\ S \subseteq Slots
<1>1. Shaped(H) /\ InOrder(H) /\ {q \in Slots : H.hidx[q] # 0} = S /\ H.expire = e
  BY DEF HasTimers
<1>2. InHeap(H) = S /\ IsHeap(H)
  BY <1>1, HeapIs
<1>3. e \in [Slots -> Int]
  BY <1>1, Fields
<1> QED
  BY <1>1, <1>2, <1>3

\* The slots that have no timer are given the time 0.
LEMMA ForgottenKeeps ==
  ASSUME NEW H, NEW S, NEW e, HasTimers(H, S, e)
  PROVE  HasTimers(Forgotten(H), S, [q \in Slots |-> IF q \in S THEN e[q] ELSE 0])
<1> DEFINE d == [q \in Slots |-> IF q \in S THEN e[q] ELSE 0]
<1>1. InHeap(H) = S /\ e \in [Slots -> Int] /\ H.expire = e /\ S \subseteq Slots
  BY TimersIn
<1>2. Forgotten(H) = [H EXCEPT !.expire = d]
  <2>1. Forgotten(H) = [H EXCEPT !.expire = [q \in Slots |-> IF q \in InHeap(H) THEN H.expire[q] ELSE 0]]
    <3> DEFINE I == InHeap(H)
               x == H.expire
    <3>1. Forgotten(H) = [H EXCEPT !.expire = [q \in Slots |-> IF q \in InHeap(H) THEN @[q] ELSE 0]]
      BY DEF Forgotten
    <3> HIDE DEF I
    <3> QED
      BY <3>1 DEF I
  <2>2. [q \in Slots |-> IF q \in InHeap(H) THEN H.expire[q] ELSE 0] = d
    BY <1>1
  <2> QED
    BY <2>1, <2>2
<1>3. d \in [Slots -> Int] /\ \A q, r \in S : e[q] <= e[r] => d[q] <= d[r]
  BY <1>1
<1> HIDE DEF d
<1>4. HasTimers([H EXCEPT !.expire = d], S, d)
  BY <1>3, NewTimes
<1> QED
  BY <1>2, <1>4 DEF d

\* The first timer is due first.
LEMMA FirstTimer ==
  ASSUME NEW H, NEW S, NEW e, HasTimers(H, S, e)
  PROVE  /\ H.heap = <<>> => S = {}
         /\ H.heap # <<>> =>
              /\ H.heap[1] \in S /\ Time(H, 1) = e[H.heap[1]] /\ Time(H, 1) \in Int
              /\ \A q \in S : Time(H, 1) <= e[q]
<1> DEFINE n == Len(H.heap)
           t == Times(H)
<1>1. Shaped(H) /\ InOrder(H) /\ {q \in Slots : H.hidx[q] # 0} = S /\ H.expire = e
  BY DEF HasTimers
<1>2. H.heap \in Seq(Slots) /\ n \in Nat /\ H.heap \in [1 .. n -> Slots]
      /\ H.expire \in [Slots -> Int] /\ t \in [1 .. n -> Int]
  BY <1>1, Fields
<1>3. /\ \A k \in 1 .. n : H.hidx[H.heap[k]] = k
      /\ \A q \in Slots : H.hidx[q] # 0 => H.hidx[q] \in 1 .. n /\ H.heap[H.hidx[q]] = q
  BY <1>1 DEF Shaped
<1>4. ASSUME H.heap = <<>> PROVE S = {}
  <2>1. n = 0
    BY <1>4
  <2>2. 1 .. n = {}
    BY <2>1
  <2> QED
    BY <1>1, <1>3, <2>2
<1>5. ASSUME H.heap # <<>>
      PROVE  /\ H.heap[1] \in S /\ Time(H, 1) = e[H.heap[1]] /\ Time(H, 1) \in Int
             /\ \A q \in S : Time(H, 1) <= e[q]
  <2>1. 1 \in 1 .. n
    <3>1. n # 0
      BY <1>2, <1>5
    <3> HIDE DEF n
    <3> QED
      BY <1>2, <3>1
  <2>2. H.heap[1] \in Slots /\ H.hidx[H.heap[1]] = 1
    BY <1>2, <1>3, <2>1
  <2>3. H.heap[1] \in S /\ Time(H, 1) = e[H.heap[1]] /\ Time(H, 1) \in Int
    BY <1>1, <1>2, <2>2 DEF Time
  <2>4. ASSUME NEW q \in S PROVE Time(H, 1) <= e[q]
    <3>1. H.hidx[q] \in 1 .. n /\ H.heap[H.hidx[q]] = q
      BY <1>1, <1>3
    <3>2. t[1] = Time(H, 1) /\ t[H.hidx[q]] = e[q]
      BY <1>1, <2>1, <3>1 DEF Times, Time
    <3>3. \A i \in 1 .. n : t[1] <= t[i]
      <4> HIDE DEF t, n
      <4>1. Order(t, n)
        BY <1>1 DEF InOrder, t, n
      <4> QED
        BY <1>2, <4>1, RootIsFirst
    <3> QED
      BY <3>1, <3>2, <3>3
  <2> QED
    BY <2>3, <2>4
<1> QED
  BY <1>4, <1>5

\* The invariant says what the runs check.
LEMMA ReactorInvImplies == ReactorInv => ReactorTypeOK /\ SlotsAgree
<1> SUFFICES ASSUME ReactorInv PROVE ReactorTypeOK /\ SlotsAgree
  OBVIOUS
<1>1. InHeap(timers) = Used /\ IsHeap(timers)
  BY TimersIn DEF ReactorInv, DataInv, HeapInv
<1>2. SlotsAgree
  BY <1>1 DEF SlotsAgree, ReactorInv, DataInv, SlotsInv, ConnInv, Used
<1>3. timers.hidx \in [Slots -> 0 .. MaxEvents] /\ timers.expire \in [Slots -> -MaxLate .. Idle]
  <2>1. Shaped(timers)
    BY DEF ReactorInv, DataInv, HeapInv, HasTimers
  <2> QED
    BY <2>1, Fields DEF ReactorInv, DataInv, HeapInv
<1>4. \A s \in Slots : Len(buf[s]) <= BufMax /\ sendpos[s] \in 0 .. Len(buf[s])
  <2>1. \A s \in Slots : sendpos[s] \in Nat /\ Len(buf[s]) \in Nat
    BY DEF ReactorInv, DataInv, SlotsInv
  <2> QED
    BY <2>1 DEF ReactorInv, DataInv, SlotsInv
<1>5. quiet \in [Conn -> 0 .. Idle + MaxLate]
  <2>1. quiet \in [Conn -> Int] /\ Idle \in Nat /\ MaxLate \in Nat
    BY ReactorAssumption DEF ReactorInv, DataInv, QuietInv
  <2>2. ASSUME NEW c \in Conn PROVE quiet[c] \in 0 .. Idle + MaxLate
    <3>1. CASE conn[c] = "open"
      <4>1. PICK s \in Slots : fd[s] = c
        BY <3>1 DEF ReactorInv, DataInv, ConnInv
      <4>2. c # None
        BY ReactorAssumption
      <4>3. quiet[c] + timers.expire[s] = Idle
        BY <4>1, <4>2 DEF ReactorInv, DataInv, QuietInv
      <4>4. timers.expire[s] \in -MaxLate .. Idle
        BY <1>3
      <4> QED
        BY <2>1, <4>3, <4>4
    <3>2. CASE conn[c] # "open"
      BY <2>1, <3>2 DEF ReactorInv, DataInv, QuietInv
    <3> QED
      BY <3>1, <3>2
  <2> QED
    BY <2>1, <2>2
<1>6. ReactorTypeOK
  BY <1>3, <1>4, <1>5 DEF ReactorTypeOK, ReactorInv, DataInv, SlotsInv, ConnInv, EchoInv, LoopInv,
                              PendingInv
<1> QED
  BY <1>2, <1>6

\* It holds at first.
LEMMA ReactorInitInv == ReactorInit => ReactorInv
<1> SUFFICES ASSUME ReactorInit PROVE ReactorInv
  OBVIOUS
<1> USE ReactorAssumption
<1>1. SlotsInv
  <2>1. \A s \in Slots : Len(buf[s]) = 0 /\ sendpos[s] = 0 /\ fd[s] = None
    BY DEF ReactorInit
  <2>2. status \in [Slots -> BOOLEAN] /\ fd \in [Slots -> Conn \cup {None}]
        /\ mode \in [Slots -> {"recvdata", "senddata"}]
        /\ buf \in [Slots -> Seq(Conn \X Nat)] /\ sendpos \in [Slots -> Nat]
    BY DEF ReactorInit
  <2>3. \A s \in Slots : status[s] = FALSE
    BY DEF ReactorInit
  <2> QED
    BY <2>1, <2>2, <2>3 DEF SlotsInv
<1>2. HeapInv
  <2> DEFINE H == timers
             zero == [s \in Slots |-> 0]
  <2>1. H.heap = <<>> /\ H.hidx = zero /\ H.expire = zero
        /\ H = [heap |-> <<>>, hidx |-> zero, expire |-> zero]
    BY DEF ReactorInit
  <2>2. Shaped(H)
    <3>1. H \in [heap : Seq(Slots), hidx : [Slots -> 0 .. MaxEvents], expire : [Slots -> Int]]
      BY <2>1
    <3>2. 1 .. Len(H.heap) = {}
      BY <2>1
    <3>3. \A s \in Slots : H.hidx[s] = 0
      BY <2>1
    <3> QED
      BY <3>1, <3>2, <3>3 DEF Shaped
  <2>3. InOrder(H)
    <3>1. 2 .. Len(H.heap) = {}
      BY <2>1
    <3> QED
      BY <3>1 DEF InOrder, Order
  <2>4. {s \in Slots : H.hidx[s] # 0} = Used
    BY <2>1 DEF Used, ReactorInit
  <2> QED
    BY <2>1, <2>2, <2>3, <2>4 DEF HeapInv, HasTimers
<1>3. ConnInv
  <2>1. backlog \in Seq(Conn) /\ 1 .. Len(backlog) = {}
    BY DEF ReactorInit
  <2>2. \A s \in Slots : fd[s] \notin Conn
    BY DEF ReactorInit
  <2> QED
    BY <2>1, <2>2 DEF ConnInv, ReactorInit
<1>4. EchoInv
  <2>1. EchoInOrder
    BY DEF EchoInOrder, ReactorInit
  <2>2. got \in [Conn -> Seq(Conn \X Nat)]
    BY DEF ReactorInit
  <2> QED
    BY <2>1, <2>2 DEF EchoInv, ReactorInit
<1>5. QuietInv
  BY DEF QuietInv, ReactorInit
<1>6. LoopInv
  BY DEF LoopInv, PendingInv, WakesForTimers, ReactorInit
<1> QED
  BY <1>1, <1>2, <1>3, <1>4, <1>5, <1>6 DEF ReactorInv, DataInv

-----------------------------------------------------------------------------
(* What is kept: the slots, the heap, the connections, the bytes, the time *)

\* What is in the slot of a client and what the client got.
Echo(c, g, k, b, p, m) ==
  LET left == SubSeq(b, p + 1, Len(b))
  IN /\ g \o left = [i \in 1 .. k |-> <<c, i>>]
     /\ m = "senddata" <=> left # <<>>

\* EchoInOrder says this of each slot in use.
LEMMA EchoOfSlots ==
  EchoInOrder <=>
    \A s \in Slots : fd[s] # None =>
      Echo(fd[s], got[fd[s]], taken[fd[s]], buf[s], sendpos[s], mode[s])
BY DEF EchoInOrder, Echo

\* And so after a step.
LEMMA EchoOfSlotsNext ==
  EchoInOrder' <=>
    \A s \in Slots : fd'[s] # None =>
      Echo(fd'[s], got'[fd'[s]], taken'[fd'[s]], buf'[s], sendpos'[s], mode'[s])
BY DEF EchoInOrder, Echo

\* The bytes of a buffer from p on, and what of them is sent to q.
LEMMA Left ==
  ASSUME NEW S, NEW b \in Seq(S), NEW p \in Nat, NEW q \in Nat, p <= q, q <= Len(b)
  PROVE  /\ SubSeq(b, p + 1, q) \in Seq(S) /\ SubSeq(b, q + 1, Len(b)) \in Seq(S)
         /\ SubSeq(b, q + 1, Len(b)) # <<>> <=> q < Len(b)
         /\ SubSeq(b, p + 1, q) \o SubSeq(b, q + 1, Len(b)) = SubSeq(b, p + 1, Len(b))
<1> DEFINE n == Len(b)
           x == SubSeq(b, p + 1, q)
           y == SubSeq(b, q + 1, n)
           z == SubSeq(b, p + 1, n)
<1>1. n \in Nat /\ \A i \in 1 .. n : b[i] \in S
  OBVIOUS
<1> HIDE DEF n
<1>2. x \in Seq(S) /\ Len(x) = q - p /\ \A i \in 1 .. q - p : x[i] = b[p + i]
  <2>1. x = [i \in 1 .. q - p |-> b[p + i]] /\ q - p \in Nat
    BY <1>1
  <2>2. \A i \in 1 .. q - p : p + i \in 1 .. n
    BY <1>1 DEF n
  <2>3. x \in [1 .. q - p -> S]
    BY <1>1, <2>1, <2>2
  <2> HIDE DEF x
  <2> DEFINE m == q - p
  <2> HIDE DEF m
  <2>4. m \in Nat /\ x \in [1 .. m -> S]
    BY <2>1, <2>3 DEF m
  <2>5. x \in Seq(S) /\ Len(x) = m
    BY <2>4, FunctionIsSeq
  <2> QED
    BY <2>1, <2>5 DEF m
<1>3. y \in Seq(S) /\ Len(y) = n - q /\ \A i \in 1 .. n - q : y[i] = b[q + i]
  <2>1. y = [i \in 1 .. n - q |-> b[q + i]] /\ n - q \in Nat
    BY <1>1 DEF n
  <2>2. \A i \in 1 .. n - q : q + i \in 1 .. n
    BY <1>1
  <2>3. y \in [1 .. n - q -> S]
    BY <1>1, <2>1, <2>2
  <2> HIDE DEF y
  <2> DEFINE m == n - q
  <2> HIDE DEF m
  <2>4. m \in Nat /\ y \in [1 .. m -> S]
    BY <2>1, <2>3 DEF m
  <2>5. y \in Seq(S) /\ Len(y) = m
    BY <2>4, FunctionIsSeq
  <2> QED
    BY <2>1, <2>5 DEF m
<1>4. z = [i \in 1 .. n - p |-> b[p + i]] /\ n - p \in Nat
  BY <1>1 DEF n
<1>5. y # <<>> <=> q < n
  <2>2. q <= n
    BY DEF n
  <2> HIDE DEF y
  <2>1. y # <<>> <=> Len(y) # 0
    BY <1>3
  <2> QED
    BY <1>1, <1>3, <2>1, <2>2
<1>6. x \o y = z
  <2> HIDE DEF x, y, z
  <2>1. q - p \in Nat /\ n - q \in Nat /\ (q - p) + (n - q) = n - p
    BY <1>1 DEF n
  <2>2. /\ x \o y \in Seq(S) /\ Len(x \o y) = n - p
        /\ \A i \in 1 .. n - p :
             (x \o y)[i] = IF i <= q - p THEN x[i] ELSE y[i - (q - p)]
    <3>1. /\ x \o y \in Seq(S) /\ Len(x \o y) = Len(x) + Len(y)
          /\ \A i \in 1 .. Len(x) + Len(y) :
               (x \o y)[i] = IF i <= Len(x) THEN x[i] ELSE y[i - Len(x)]
      BY <1>2, <1>3, ConcatProperties
    <3>2. Len(x) = q - p /\ Len(x) + Len(y) = n - p
      BY <1>2, <1>3, <2>1
    <3> QED
      BY <3>1, <3>2
  <2>3. \A i \in 1 .. n - p :
          (IF i <= q - p THEN x[i] ELSE y[i - (q - p)]) = b[p + i]
    <3> SUFFICES ASSUME NEW i \in 1 .. n - p
                 PROVE  (IF i <= q - p THEN x[i] ELSE y[i - (q - p)]) = b[p + i]
      OBVIOUS
    <3>1. CASE i <= q - p
      <4>1. i \in 1 .. q - p
        BY <2>1, <3>1
      <4> QED
        BY <1>2, <3>1, <4>1
    <3>2. CASE ~ (i <= q - p)
      <4>1. i - (q - p) \in 1 .. n - q /\ q + (i - (q - p)) = p + i
        BY <1>1, <2>1, <3>2
      <4>2. y[i - (q - p)] = b[q + (i - (q - p))]
        BY <1>3, <4>1
      <4> QED
        BY <3>2, <4>1, <4>2
    <3> QED
      BY <3>1, <3>2
  <2> DEFINE w == x \o y
             m == n - p
  <2> HIDE DEF w, m
  <2>4. w \in Seq(S) /\ Len(w) = m /\ \A i \in 1 .. m : w[i] = b[p + i]
    BY <2>2, <2>3 DEF w, m
  <2>5. w = [i \in 1 .. m |-> b[p + i]]
    BY <2>4
  <2> QED
    BY <1>4, <2>5 DEF w, m
<1> QED
  BY <1>2, <1>3, <1>5, <1>6 DEF n

\* recvdata puts the next bytes in a buffer of which nothing is left.
LEMMA EchoAfterRecv ==
  ASSUME NEW c \in Conn, NEW g \in Seq(Conn \X Nat), NEW k \in Nat,
         NEW b \in Seq(Conn \X Nat), NEW p \in Nat, p <= Len(b),
         NEW n \in Nat, n > 0, Echo(c, g, k, b, p, "recvdata")
  PROVE  /\ [i \in 1 .. n |-> <<c, k + i>>] \in Seq(Conn \X Nat)
         /\ Len([i \in 1 .. n |-> <<c, k + i>>]) = n
         /\ Echo(c, g, k + n, [i \in 1 .. n |-> <<c, k + i>>], 0, "senddata")
<1> DEFINE d == [i \in 1 .. n |-> <<c, k + i>>]
           left == SubSeq(b, p + 1, Len(b))
<1>1. d \in Seq(Conn \X Nat) /\ Len(d) = n /\ \A i \in 1 .. n : d[i] = <<c, k + i>>
  <2>1. d \in [1 .. n -> Conn \X Nat] /\ \A i \in 1 .. n : d[i] = <<c, k + i>>
    OBVIOUS
  <2> HIDE DEF d
  <2> QED
    BY <2>1, FunctionIsSeq
<1>2. left = <<>> /\ g \o left = [i \in 1 .. k |-> <<c, i>>]
  BY DEF Echo
<1> HIDE DEF d, left
<1>3. g = [i \in 1 .. k |-> <<c, i>>]
  BY <1>2
<1>4. Len(g) = k /\ \A i \in 1 .. k : g[i] = <<c, i>>
  <2>1. g \in [1 .. k -> Conn \X Nat]
    BY <1>3
  <2>2. Len(g) = k
    BY <2>1, FunctionIsSeq
  <2> QED
    BY <1>3, <2>2
<1>5. SubSeq(d, 0 + 1, Len(d)) = d
  <2>1. SubSeq(d, 1, n) = [i \in 1 .. n |-> d[i]]
    BY <1>1
  <2>2. d = [i \in 1 .. n |-> d[i]]
    BY <1>1
  <2> QED
    BY <1>1, <2>1, <2>2
<1>6. g \o d = [i \in 1 .. k + n |-> <<c, i>>]
  <2>1. /\ g \o d \in Seq(Conn \X Nat) /\ Len(g \o d) = k + n
        /\ \A i \in 1 .. k + n : (g \o d)[i] = IF i <= k THEN g[i] ELSE d[i - k]
    <3> DEFINE B == Conn \X Nat
    <3> HIDE DEF B
    <3>1. g \in Seq(B) /\ d \in Seq(B)
      BY <1>1 DEF B
    <3>2. /\ g \o d \in Seq(B) /\ Len(g \o d) = k + n
          /\ \A i \in 1 .. k + n : (g \o d)[i] = IF i <= k THEN g[i] ELSE d[i - k]
      BY <1>1, <1>4, <3>1, ConcatProperties
    <3> QED
      BY <3>2 DEF B
  <2>2. \A i \in 1 .. k + n : (IF i <= k THEN g[i] ELSE d[i - k]) = <<c, i>>
    <3> SUFFICES ASSUME NEW i \in 1 .. k + n
                 PROVE  (IF i <= k THEN g[i] ELSE d[i - k]) = <<c, i>>
      OBVIOUS
    <3>1. CASE i <= k
      <4>1. i \in 1 .. k
        BY <3>1
      <4> QED
        BY <1>4, <3>1, <4>1
    <3>2. CASE ~ (i <= k)
      <4>1. i - k \in 1 .. n /\ k + (i - k) = i
        BY <3>2
      <4> QED
        BY <1>1, <3>2, <4>1
    <3> QED
      BY <3>1, <3>2
  <2> DEFINE w == g \o d
             m == k + n
  <2> HIDE DEF w, m
  <2>3. w \in Seq(Conn \X Nat) /\ Len(w) = m /\ \A i \in 1 .. m : w[i] = <<c, i>>
    BY <2>1, <2>2 DEF w, m
  <2>4. w = [i \in 1 .. m |-> <<c, i>>]
    BY <2>3
  <2> QED
    BY <2>4 DEF w, m
<1>7. d # <<>>
  BY <1>1
<1>8. Echo(c, g, k + n, d, 0, "senddata")
  BY <1>5, <1>6, <1>7 DEF Echo
<1> QED
  BY <1>1, <1>8 DEF d

Associative(B) ==
  \A s \in Seq(B), t \in Seq(B), u \in Seq(B) : (s \o t) \o u = s \o (t \o u)

\* Joining is associative.
LEMMA JoinAssociative ==
  ASSUME NEW B
  PROVE  Associative(B)
BY ConcatAssociative DEF Associative

\* senddata gives the kernel some of the bytes left.
LEMMA EchoAfterSend ==
  ASSUME NEW c \in Conn, NEW g \in Seq(Conn \X Nat), NEW k \in Nat,
         NEW b \in Seq(Conn \X Nat), NEW p \in Nat, NEW q \in Nat,
         p <= q, q <= Len(b), NEW m, Echo(c, g, k, b, p, m)
  PROVE  /\ g \o SubSeq(b, p + 1, q) \in Seq(Conn \X Nat)
         /\ Echo(c, g \o SubSeq(b, p + 1, q), k, b, q,
                 IF q = Len(b) THEN "recvdata" ELSE "senddata")
<1> DEFINE x == SubSeq(b, p + 1, q)
           y == SubSeq(b, q + 1, Len(b))
           z == SubSeq(b, p + 1, Len(b))
<1>1. x \in Seq(Conn \X Nat) /\ y \in Seq(Conn \X Nat) /\ x \o y = z
      /\ (y # <<>> <=> q < Len(b))
  BY Left
<1>2. g \o z = [i \in 1 .. k |-> <<c, i>>]
  BY DEF Echo
<1>3. (g \o x) \o y = g \o (x \o y)
  <2> DEFINE B == Conn \X Nat
  <2> HIDE DEF x, y, B
  <2>1. g \in Seq(B) /\ x \in Seq(B) /\ y \in Seq(B)
    BY <1>1 DEF B
  <2>2. Associative(B)
    BY JoinAssociative
  <2> QED
    BY <2>1, <2>2, Zenon DEF Associative
<1>4. g \o x \in Seq(Conn \X Nat)
  <2> HIDE DEF x
  <2> QED
    BY <1>1
<1>5. (IF q = Len(b) THEN "recvdata" ELSE "senddata") = "senddata" <=> y # <<>>
  <2>1. Len(b) \in Nat
    OBVIOUS
  <2> QED
    BY <1>1, <2>1
<1>6. (g \o x) \o y = [i \in 1 .. k |-> <<c, i>>]
  <2> HIDE DEF x, y, z
  <2> QED
    BY <1>1, <1>2, <1>3
<1> QED
  BY <1>4, <1>5, <1>6 DEF Echo

\* DataInv stays when nothing of it changes.
LEMMA DataStays ==
  ASSUME DataInv, UNCHANGED <<slots, timers, backlog, conn, clients, quiet>>
  PROVE  DataInv'
<1> USE DEF slots, clients
<1>1. SlotsInv'
  BY DEF DataInv, SlotsInv
<1>2. HeapInv'
  BY DEF DataInv, HeapInv, Used
<1>3. ConnInv'
  BY DEF DataInv, ConnInv
<1>4. EchoInv'
  <2>1. EchoInOrder'
    BY DEF DataInv, EchoInv, EchoInOrder
  <2> QED
    BY <2>1 DEF DataInv, EchoInv
<1>5. QuietInv'
  BY DEF DataInv, QuietInv
<1> QED
  BY <1>1, <1>2, <1>3, <1>4, <1>5 DEF DataInv

\* What DataInv says of a slot in use and its connection.
LEMMA SlotInUse ==
  ASSUME DataInv, NEW s \in Slots, fd[s] # None
  PROVE  /\ fd[s] \in Conn /\ conn[fd[s]] = "open" /\ status[s]
         /\ \A q \in Slots : q # s => fd[q] # fd[s]
         /\ Used \subseteq Slots /\ s \in Used
         /\ buf[s] \in Seq(Conn \X Nat) /\ Len(buf[s]) \in Nat
         /\ sendpos[s] \in Nat /\ sendpos[s] <= Len(buf[s])
         /\ got[fd[s]] \in Seq(Conn \X Nat) /\ taken[fd[s]] \in Nat
         /\ Echo(fd[s], got[fd[s]], taken[fd[s]], buf[s], sendpos[s], mode[s])
<1>1. fd[s] \in Conn
  BY DEF DataInv, SlotsInv
<1>2. conn[fd[s]] = "open"
  BY <1>1 DEF DataInv, ConnInv
<1>3. status[s] /\ \A q \in Slots : q # s => fd[q] # fd[s]
  BY DEF DataInv, SlotsInv
<1>4. Used \subseteq Slots /\ s \in Used
  BY DEF Used
<1>5. buf[s] \in Seq(Conn \X Nat) /\ sendpos[s] \in Nat /\ sendpos[s] <= Len(buf[s])
  BY DEF DataInv, SlotsInv
<1>6. got[fd[s]] \in Seq(Conn \X Nat) /\ taken[fd[s]] \in Nat
  BY <1>1 DEF DataInv, EchoInv
<1>7. Echo(fd[s], got[fd[s]], taken[fd[s]], buf[s], sendpos[s], mode[s])
  BY EchoOfSlots DEF DataInv, EchoInv
<1>8. Len(buf[s]) \in Nat
  BY <1>5
<1> QED
  BY <1>1, <1>2, <1>3, <1>4, <1>5, <1>6, <1>7, <1>8

\* conn_close, of a slot in use.
LEMMA CloseKeeps ==
  ASSUME DataInv, NEW s \in Slots, fd[s] # None, ConnClose(s), UNCHANGED backlog
  PROVE  DataInv'
<1> DEFINE c == fd[s]
           H == TimerDel(timers, s)
           S == Used \ {s}
           e == timers.expire
           d == [q \in Slots |-> IF q \in S THEN e[q] ELSE 0]
<1>1. c \in Conn /\ c # None /\ conn[c] = "open"
      /\ \A q \in Slots : q # s => fd[q] # c
  BY SlotInUse
<1>2. /\ timers' = Forgotten(H)
      /\ status' = [status EXCEPT ![s] = FALSE]
      /\ fd' = [fd EXCEPT ![s] = None]
      /\ buf' = [buf EXCEPT ![s] = <<>>]
      /\ sendpos' = [sendpos EXCEPT ![s] = 0]
      /\ mode' = mode
      /\ conn' = [conn EXCEPT ![c] = "none"]
      /\ peer' = [peer EXCEPT ![c] = "up"]
      /\ sent' = [sent EXCEPT ![c] = 0]
      /\ taken' = [taken EXCEPT ![c] = 0]
      /\ got' = [got EXCEPT ![c] = <<>>]
      /\ unread' = [unread EXCEPT ![c] = 0]
      /\ quiet' = [quiet EXCEPT ![c] = 0]
  BY DEF ConnClose, ConnectionGone
<1> HIDE DEF c
<1>3. fd \in [Slots -> Conn \cup {None}] /\ fd'[s] = None
      /\ \A q \in Slots : q # s => fd'[q] = fd[q]
  BY <1>2 DEF DataInv, SlotsInv
<1>4. SlotsInv'
  <2>1. /\ status' \in [Slots -> BOOLEAN] /\ fd' \in [Slots -> Conn \cup {None}]
        /\ mode' \in [Slots -> {"recvdata", "senddata"}]
        /\ buf' \in [Slots -> Seq(Conn \X Nat)] /\ sendpos' \in [Slots -> Nat]
    BY <1>2 DEF DataInv, SlotsInv
  <2>2. \A q \in Slots : Len(buf'[q]) <= BufMax /\ sendpos'[q] <= Len(buf'[q])
    <3>1. Len(<<>>) = 0 /\ BufMax \in Nat
      BY ReactorAssumption
    <3> QED
      BY <1>2, <3>1 DEF DataInv, SlotsInv
  <2>3. \A q \in Slots : status'[q] <=> fd'[q] # None
    BY <1>2, <1>3 DEF DataInv, SlotsInv
  <2>4. \A q, t \in Slots : fd'[q] = fd'[t] /\ fd'[q] # None => q = t
    BY <1>3 DEF DataInv, SlotsInv
  <2> QED
    BY <2>1, <2>2, <2>3, <2>4 DEF SlotsInv
<1>5. HasTimers(timers', S, d)
  <2>1. Shaped(timers) /\ InOrder(timers) /\ {q \in Slots : timers.hidx[q] # 0} = Used
    BY DEF DataInv, HeapInv, HasTimers
  <2>2. HasTimers(H, S, e)
    BY <2>1, TimerDelKeeps
  <2> HIDE DEF H, S, e
  <2>3. HasTimers(Forgotten(H), S, [q \in Slots |-> IF q \in S THEN e[q] ELSE 0])
    BY <2>2, ForgottenKeeps
  <2> QED
    BY <1>2, <2>3
<1>6. timers'.expire = d
  BY <1>5, TimersIn
<1>7. \A q \in Slots : fd'[q] # None => q # s /\ timers'.expire[q] = e[q] /\ q \in S
  BY <1>3, <1>6 DEF Used
<1>8. HeapInv'
  <2>1. Used' = S
    BY <1>3 DEF Used
  <2>2. e \in [Slots -> -MaxLate .. Idle] /\ Idle \in Nat /\ MaxLate \in Nat
    BY ReactorAssumption DEF DataInv, HeapInv
  <2>3. d \in [Slots -> -MaxLate .. Idle]
    <3> HIDE DEF e, S
    <3> QED
      BY <2>2
  <2>4. \A q \in Slots : fd'[q] = None => d[q] = 0
    BY <1>3 DEF Used
  <2> HIDE DEF d, S
  <2> QED
    BY <1>5, <1>6, <2>1, <2>3, <2>4 DEF HeapInv
<1>9. \A x \in Conn : x # c => conn'[x] = conn[x] /\ peer'[x] = peer[x]
        /\ taken'[x] = taken[x] /\ got'[x] = got[x] /\ quiet'[x] = quiet[x]
  BY <1>2 DEF DataInv, ConnInv, EchoInv, QuietInv
<1>10. conn'[c] = "none" /\ got'[c] = <<>> /\ taken'[c] = 0 /\ quiet'[c] = 0
  BY <1>1, <1>2 DEF DataInv, ConnInv, EchoInv, QuietInv
<1>11. ConnInv'
  <2>1. conn' \in [Conn -> {"none", "backlog", "open"}]
    BY <1>2 DEF DataInv, ConnInv
  <2>2. \A x \in Conn : conn'[x] = "backlog" <=> \E i \in 1 .. Len(backlog) : backlog[i] = x
    BY <1>1, <1>9, <1>10 DEF DataInv, ConnInv
  <2>3. \A x \in Conn : conn'[x] = "open" <=> \E q \in Slots : fd'[q] = x
    <3> SUFFICES ASSUME NEW x \in Conn
                 PROVE  conn'[x] = "open" <=> \E q \in Slots : fd'[q] = x
      OBVIOUS
    <3>1. CASE x = c
      <4>1. \A q \in Slots : fd'[q] # c
        BY <1>1, <1>3
      <4> QED
        BY <3>1, <4>1, <1>10
    <3>2. CASE x # c
      <4>1. \A q \in Slots : fd'[q] = x <=> fd[q] = x
        BY <3>2, <1>3, ReactorAssumption DEF c
      <4> QED
        BY <3>2, <4>1, <1>9 DEF DataInv, ConnInv
    <3> QED
      BY <3>1, <3>2
  <2> QED
    BY <2>1, <2>2, <2>3 DEF DataInv, ConnInv
<1>12. EchoInv'
  <2>1. /\ peer' \in [Conn -> {"up", "fin", "reset"}]
        /\ sent' \in [Conn -> Nat] /\ taken' \in [Conn -> Nat] /\ unread' \in [Conn -> Nat]
        /\ got' \in [Conn -> Seq(Conn \X Nat)]
    <3>1. /\ peer \in [Conn -> {"up", "fin", "reset"}]
          /\ sent \in [Conn -> Nat] /\ taken \in [Conn -> Nat] /\ unread \in [Conn -> Nat]
          /\ got \in [Conn -> Seq(Conn \X Nat)]
      BY DEF DataInv, EchoInv
    <3>2. got' \in [Conn -> Seq(Conn \X Nat)]
      <4> DEFINE B == Seq(Conn \X Nat)
                 none == <<>>
      <4>1. none \in B /\ got \in [Conn -> B] /\ got' = [got EXCEPT ![c] = none]
        BY <3>1, <1>2
      <4> HIDE DEF B, none
      <4>2. got' \in [Conn -> B]
        BY <4>1
      <4> QED
        BY <4>2 DEF B
    <3>3. sent' \in [Conn -> Nat] /\ taken' \in [Conn -> Nat] /\ unread' \in [Conn -> Nat]
      BY <3>1, <1>2
    <3>4. peer' \in [Conn -> {"up", "fin", "reset"}]
      BY <3>1, <1>2
    <3> QED
      BY <3>2, <3>3, <3>4
  <2>2. EchoInOrder'
    <3> SUFFICES ASSUME NEW q \in Slots, fd'[q] # None
                 PROVE  Echo(fd'[q], got'[fd'[q]], taken'[fd'[q]], buf'[q], sendpos'[q], mode'[q])
      BY EchoOfSlotsNext
    <3>1. q # s /\ fd'[q] = fd[q] /\ fd[q] # c /\ fd[q] # None
      BY <1>1, <1>3
    <3>2. Echo(fd[q], got[fd[q]], taken[fd[q]], buf[q], sendpos[q], mode[q]) /\ fd[q] \in Conn
      BY <3>1, SlotInUse
    <3>3. buf'[q] = buf[q] /\ sendpos'[q] = sendpos[q] /\ mode'[q] = mode[q]
      BY <1>2, <3>1 DEF DataInv, SlotsInv
    <3>4. got'[fd[q]] = got[fd[q]] /\ taken'[fd[q]] = taken[fd[q]]
      BY <1>9, <3>1, <3>2
    <3> QED
      BY <3>1, <3>2, <3>3, <3>4
  <2>3. \A x \in Conn : conn'[x] # "open" => got'[x] = <<>> /\ taken'[x] = 0
    BY <1>9, <1>10 DEF DataInv, EchoInv
  <2> QED
    BY <2>1, <2>2, <2>3 DEF EchoInv
<1>13. QuietInv'
  <2>1. quiet' \in [Conn -> Int]
    <3>1. quiet \in [Conn -> Int] /\ 0 \in Int
      BY DEF DataInv, QuietInv
    <3>2. quiet' = [quiet EXCEPT ![c] = 0]
      BY <1>2
    <3> QED
      BY <3>1, <3>2
  <2>2. \A q \in Slots : fd'[q] # None => quiet'[fd'[q]] + timers'.expire[q] = Idle
    <3> SUFFICES ASSUME NEW q \in Slots, fd'[q] # None
                 PROVE  quiet'[fd'[q]] + timers'.expire[q] = Idle
      OBVIOUS
    <3>1. q # s /\ fd'[q] = fd[q] /\ fd[q] # c /\ fd[q] # None /\ timers'.expire[q] = e[q]
      BY <1>1, <1>3, <1>7
    <3>2. fd[q] \in Conn
      BY <1>3, <3>1
    <3>3. quiet[fd[q]] + e[q] = Idle
      BY <3>1 DEF DataInv, QuietInv
    <3>4. quiet'[fd[q]] = quiet[fd[q]]
      BY <1>9, <3>1, <3>2
    <3> QED
      BY <3>1, <3>3, <3>4
  <2>3. \A x \in Conn : conn'[x] # "open" => quiet'[x] = 0
    BY <1>9, <1>10 DEF DataInv, QuietInv
  <2> QED
    BY <2>1, <2>2, <2>3 DEF QuietInv
<1> QED
  BY <1>4, <1>8, <1>11, <1>12, <1>13 DEF DataInv

\* The timer of a slot in use is renewed as data comes or goes.
LEMMA RenewKeeps ==
  ASSUME DataInv, NEW s \in Slots, fd[s] # None,
         timers' = TimerRefresh(timers, s, Idle), quiet' = [quiet EXCEPT ![fd[s]] = 0],
         fd' = fd, conn' = conn
  PROVE  HeapInv' /\ QuietInv'
<1> DEFINE e == timers.expire
           d == [e EXCEPT ![s] = Idle]
<1>1. fd[s] \in Conn /\ conn[fd[s]] = "open" /\ Used \subseteq Slots /\ s \in Used
      /\ \A q \in Slots : q # s => fd[q] # fd[s]
  BY SlotInUse
<1>2. Idle \in Nat /\ MaxLate \in Nat /\ Idle \in Int
  BY ReactorAssumption
<1>3. HasTimers(timers', Used, d)
  <2>1. Shaped(timers) /\ InOrder(timers) /\ {q \in Slots : timers.hidx[q] # 0} = Used
    BY DEF DataInv, HeapInv, HasTimers
  <2>2. HasTimers(TimerRefresh(timers, s, Idle), {q \in Slots : timers.hidx[q] # 0} \cup {s}, d)
    BY <2>1, <1>2, TimerRefreshKeeps
  <2>3. Used \cup {s} = Used
    BY <1>1
  <2> QED
    BY <2>1, <2>2, <2>3
<1>4. timers'.expire = d
  BY <1>3, TimersIn
<1>5. e \in [Slots -> -MaxLate .. Idle]
  BY DEF DataInv, HeapInv
<1>6. d \in [Slots -> -MaxLate .. Idle] /\ d[s] = Idle /\ \A q \in Slots : q # s => d[q] = e[q]
  <2> HIDE DEF e
  <2> QED
    BY <1>2, <1>5
<1> HIDE DEF d
<1>7. HeapInv'
  <2>1. Used' = Used
    BY DEF Used
  <2>2. \A q \in Slots : fd[q] = None => d[q] = 0
    <3>1. \A q \in Slots : fd[q] = None => q # s /\ e[q] = 0
      BY DEF DataInv, HeapInv
    <3> QED
      BY <3>1, <1>6
  <2> QED
    BY <1>3, <1>4, <1>6, <2>1, <2>2 DEF HeapInv
<1>8. QuietInv'
  <2>1. quiet \in [Conn -> Int]
    BY DEF DataInv, QuietInv
  <2>2. quiet' \in [Conn -> Int] /\ quiet'[fd[s]] = 0
        /\ \A x \in Conn : x # fd[s] => quiet'[x] = quiet[x]
    BY <2>1, <1>1
  <2>3. \A q \in Slots : fd[q] # None => quiet'[fd[q]] + d[q] = Idle
    <3> SUFFICES ASSUME NEW q \in Slots, fd[q] # None PROVE quiet'[fd[q]] + d[q] = Idle
      OBVIOUS
    <3>1. CASE q = s
      BY <3>1, <1>2, <1>6, <2>2
    <3>2. CASE q # s
      <4>1. fd[q] \in Conn /\ fd[q] # fd[s]
        BY <3>2, <1>1 DEF DataInv, SlotsInv
      <4>2. quiet[fd[q]] + e[q] = Idle
        BY DEF DataInv, QuietInv
      <4> QED
        BY <3>2, <4>1, <4>2, <1>6, <2>2
    <3> QED
      BY <3>1, <3>2
  <2>4. \A x \in Conn : conn[x] # "open" => quiet'[x] = 0
    BY <1>1, <2>2 DEF DataInv, QuietInv
  <2> QED
    BY <1>4, <2>2, <2>3, <2>4 DEF QuietInv
<1> QED
  BY <1>7, <1>8

\* What a client has in its slot and what it got change together.
LEMMA EchoKeeps ==
  ASSUME DataInv, NEW s \in Slots, fd[s] # None, fd' = fd, conn' = conn, peer' = peer,
         sent' = sent, unread' \in [Conn -> Nat], NEW g \in Seq(Conn \X Nat), NEW k \in Nat,
         got' = [got EXCEPT ![fd[s]] = g], taken' = [taken EXCEPT ![fd[s]] = k],
         Echo(fd[s], g, k, buf'[s], sendpos'[s], mode'[s]),
         \A q \in Slots : q # s =>
           buf'[q] = buf[q] /\ sendpos'[q] = sendpos[q] /\ mode'[q] = mode[q]
  PROVE  EchoInv'
<1>1. fd[s] \in Conn /\ conn[fd[s]] = "open" /\ \A q \in Slots : q # s => fd[q] # fd[s]
  BY SlotInUse
<1>2. got \in [Conn -> Seq(Conn \X Nat)] /\ taken \in [Conn -> Nat]
  BY DEF DataInv, EchoInv
<1> DEFINE B == Seq(Conn \X Nat)
<1>3. got \in [Conn -> B] /\ g \in B
  BY <1>2
<1> HIDE DEF B
<1>4. got' \in [Conn -> B] /\ got'[fd[s]] = g
      /\ \A x \in Conn : x # fd[s] => got'[x] = got[x]
  BY <1>1, <1>3
<1>5. taken' \in [Conn -> Nat] /\ taken'[fd[s]] = k
      /\ \A x \in Conn : x # fd[s] => taken'[x] = taken[x]
  BY <1>1, <1>2
<1>6. EchoInOrder'
  <2> SUFFICES ASSUME NEW q \in Slots, fd'[q] # None
               PROVE  Echo(fd'[q], got'[fd'[q]], taken'[fd'[q]], buf'[q], sendpos'[q], mode'[q])
    BY EchoOfSlotsNext
  <2>1. CASE q = s
    BY <2>1, <1>4, <1>5
  <2>2. CASE q # s
    <3>1. Echo(fd[q], got[fd[q]], taken[fd[q]], buf[q], sendpos[q], mode[q])
          /\ fd[q] \in Conn /\ fd[q] # fd[s]
      BY <2>2, <1>1, SlotInUse
    <3>2. buf'[q] = buf[q] /\ sendpos'[q] = sendpos[q] /\ mode'[q] = mode[q]
      BY <2>2
    <3>3. got'[fd[q]] = got[fd[q]] /\ taken'[fd[q]] = taken[fd[q]]
      BY <3>1, <1>4, <1>5
    <3> QED
      BY <3>1, <3>2, <3>3
  <2> QED
    BY <2>1, <2>2
<1>7. \A x \in Conn : conn[x] # "open" => got'[x] = <<>> /\ taken'[x] = 0
  BY <1>1, <1>4, <1>5 DEF DataInv, EchoInv
<1> QED
  BY <1>4, <1>5, <1>6, <1>7 DEF DataInv, EchoInv, B

\* recvdata, of a slot that waits for data.
LEMMA RecvKeeps ==
  ASSUME DataInv, NEW s \in Slots, fd[s] # None, mode[s] = "recvdata", RecvData(s)
  PROVE  DataInv'
<1> DEFINE c == fd[s]
<1>1. /\ c \in Conn /\ buf[s] \in Seq(Conn \X Nat) /\ sendpos[s] \in Nat
      /\ sendpos[s] <= Len(buf[s]) /\ got[c] \in Seq(Conn \X Nat) /\ taken[c] \in Nat
      /\ Echo(c, got[c], taken[c], buf[s], sendpos[s], "recvdata")
  BY SlotInUse
<1>2. PICK n \in 1 .. BufMax :
        /\ buf' = [buf EXCEPT ![s] = [i \in 1 .. n |-> <<c, taken[c] + i>>]]
        /\ taken' = [taken EXCEPT ![c] = @ + n]
  BY DEF RecvData
<1>3. /\ sendpos' = [sendpos EXCEPT ![s] = 0]
      /\ timers' = TimerRefresh(timers, s, Idle)
      /\ quiet' = [quiet EXCEPT ![c] = 0]
      /\ mode' = [mode EXCEPT ![s] = "senddata"]
      /\ status' = status /\ fd' = fd /\ conn' = conn /\ peer' = peer
      /\ sent' = sent /\ got' = got /\ unread' = unread /\ backlog' = backlog
  BY DEF RecvData, Handle
<1> HIDE DEF c
<1>4. n \in Nat /\ n > 0 /\ n <= BufMax /\ BufMax \in Nat
  BY ReactorAssumption
<1> DEFINE b == [i \in 1 .. n |-> <<c, taken[c] + i>>]
           k == taken[c] + n
<1>5. b \in Seq(Conn \X Nat) /\ Len(b) = n /\ Echo(c, got[c], k, b, 0, "senddata")
  <2> DEFINE g == got[c]
             h == taken[c]
             o == buf[s]
             p == sendpos[s]
             B == Seq(Conn \X Nat)
  <2>1. /\ c \in Conn /\ g \in B /\ h \in Nat /\ o \in B /\ p \in Nat
        /\ p <= Len(o) /\ Echo(c, g, h, o, p, "recvdata")
    BY <1>1
  <2> HIDE DEF g, h, o, p
  <2>2. /\ [i \in 1 .. n |-> <<c, h + i>>] \in Seq(Conn \X Nat)
        /\ Len([i \in 1 .. n |-> <<c, h + i>>]) = n
        /\ Echo(c, g, h + n, [i \in 1 .. n |-> <<c, h + i>>], 0, "senddata")
    BY <1>4, <2>1, EchoAfterRecv
  <2> QED
    BY <2>2 DEF g, h
<1> HIDE DEF b
<1>6. buf' = [buf EXCEPT ![s] = b]
  BY <1>2 DEF b
<1>7. /\ buf \in [Slots -> Seq(Conn \X Nat)] /\ sendpos \in [Slots -> Nat]
      /\ mode \in [Slots -> {"recvdata", "senddata"}]
      /\ \A q \in Slots : Len(buf[q]) <= BufMax /\ sendpos[q] <= Len(buf[q])
  BY DEF DataInv, SlotsInv
<1>8. buf' \in [Slots -> Seq(Conn \X Nat)]
  <2> DEFINE B == Seq(Conn \X Nat)
  <2>1. buf \in [Slots -> B] /\ b \in B
    BY <1>5, <1>7
  <2> HIDE DEF B
  <2>2. buf' \in [Slots -> B]
    BY <2>1, <1>6
  <2> QED
    BY <2>2 DEF B
<1>9. sendpos' \in [Slots -> Nat] /\ mode' \in [Slots -> {"recvdata", "senddata"}]
  BY <1>3, <1>7
<1>10. /\ buf'[s] = b /\ sendpos'[s] = 0 /\ mode'[s] = "senddata"
       /\ \A q \in Slots : q # s =>
            buf'[q] = buf[q] /\ sendpos'[q] = sendpos[q] /\ mode'[q] = mode[q]
  BY <1>3, <1>6, <1>7
<1>11. SlotsInv'
  <2>1. \A q \in Slots : Len(buf'[q]) <= BufMax /\ sendpos'[q] <= Len(buf'[q])
    <3> SUFFICES ASSUME NEW q \in Slots
                 PROVE  Len(buf'[q]) <= BufMax /\ sendpos'[q] <= Len(buf'[q])
      OBVIOUS
    <3>1. CASE q = s
      BY <3>1, <1>4, <1>5, <1>10
    <3>2. CASE q # s
      BY <3>2, <1>7, <1>10
    <3> QED
      BY <3>1, <3>2
  <2> QED
    BY <2>1, <1>3, <1>8, <1>9 DEF DataInv, SlotsInv
<1>12. HeapInv' /\ QuietInv'
  BY <1>3, RenewKeeps DEF c
<1>13. ConnInv'
  BY <1>3 DEF DataInv, ConnInv
<1>14. EchoInv'
  <2>1. taken' = [taken EXCEPT ![c] = k] /\ k \in Nat
    BY <1>1, <1>2, <1>4
  <2> HIDE DEF k
  <2>2. got' = [got EXCEPT ![c] = got[c]] /\ unread' \in [Conn -> Nat]
    BY <1>3 DEF DataInv, EchoInv
  <2> DEFINE g == got[c]
  <2> HIDE DEF g
  <2>3. got' = [got EXCEPT ![c] = g] /\ g \in Seq(Conn \X Nat)
        /\ Echo(c, g, k, buf'[s], sendpos'[s], mode'[s])
    BY <2>2, <1>1, <1>5, <1>10 DEF g
  <2> QED
    BY <1>3, <1>10, <2>1, <2>2, <2>3, EchoKeeps DEF c
<1> QED
  BY <1>11, <1>12, <1>13, <1>14 DEF DataInv

\* senddata, of some of the bytes left.
LEMMA SendKeeps ==
  ASSUME DataInv, NEW s \in Slots, fd[s] # None, SendData(s)
  PROVE  DataInv'
<1> DEFINE c == fd[s]
           p == sendpos[s]
           b == buf[s]
<1>1. /\ c \in Conn /\ b \in Seq(Conn \X Nat) /\ p \in Nat /\ Len(b) \in Nat
      /\ got[c] \in Seq(Conn \X Nat) /\ taken[c] \in Nat
      /\ Echo(c, got[c], taken[c], b, p, mode[s])
  BY SlotInUse
<1>2. unread \in [Conn -> Nat] /\ unread[c] \in Nat /\ WireMax \in Nat
  BY <1>1, ReactorAssumption DEF DataInv, EchoInv
<1>3. PICK n \in 1 .. WireMax - unread[c] :
        /\ p + n <= Len(b)
        /\ got' = [got EXCEPT ![c] = @ \o SubSeq(b, p + 1, p + n)]
        /\ unread' = [unread EXCEPT ![c] = @ + n]
        /\ sendpos' = [sendpos EXCEPT ![s] = p + n]
        /\ mode' = [mode EXCEPT ![s] = IF p + n = Len(b) THEN "recvdata" ELSE "senddata"]
  BY DEF SendData
<1>4. /\ timers' = TimerRefresh(timers, s, Idle)
      /\ quiet' = [quiet EXCEPT ![c] = 0]
      /\ status' = status /\ fd' = fd /\ conn' = conn /\ peer' = peer
      /\ sent' = sent /\ taken' = taken /\ buf' = buf /\ backlog' = backlog
  BY DEF SendData, Handle
<1> HIDE DEF c, p, b
<1> DEFINE q == p + n
           x == SubSeq(b, p + 1, q)
           g == got[c] \o x
           m == IF q = Len(b) THEN "recvdata" ELSE "senddata"
<1>5. n \in Nat /\ q \in Nat /\ p <= q /\ q <= Len(b)
  <2> DEFINE room == WireMax - unread[c]
  <2>1. room \in Int
    BY <1>2
  <2> HIDE DEF room
  <2>2. n \in Nat
    BY <2>1 DEF room
  <2>3. p \in Nat /\ q <= Len(b)
    BY <1>1, <1>3
  <2> QED
    BY <2>2, <2>3
<1>6. /\ got' = [got EXCEPT ![c] = @ \o x] /\ sendpos' = [sendpos EXCEPT ![s] = q]
      /\ mode' = [mode EXCEPT ![s] = m]
  BY <1>3
<1> HIDE DEF q
<1>7. g \in Seq(Conn \X Nat) /\ Echo(c, g, taken[c], b, q, m)
  BY <1>1, <1>5, EchoAfterSend
<1>8. m \in {"recvdata", "senddata"}
  OBVIOUS
<1>9. got' = [got EXCEPT ![c] = g]
  <2>1. got \in [Conn -> Seq(Conn \X Nat)]
    BY DEF DataInv, EchoInv
  <2> HIDE DEF x
  <2> QED
    BY <1>1, <1>6, <2>1
<1> HIDE DEF g, m
<1>10. unread' \in [Conn -> Nat]
  <2>1. unread' = [unread EXCEPT ![c] = @ + n]
    BY <1>3
  <2>2. unread[c] + n \in Nat
    BY <1>2, <1>5
  <2> QED
    BY <1>1, <1>2, <2>1, <2>2
<1>11. /\ sendpos \in [Slots -> Nat] /\ mode \in [Slots -> {"recvdata", "senddata"}]
       /\ \A r \in Slots : Len(buf[r]) <= BufMax /\ sendpos[r] <= Len(buf[r])
  BY DEF DataInv, SlotsInv
<1>12. /\ sendpos' \in [Slots -> Nat] /\ mode' \in [Slots -> {"recvdata", "senddata"}]
       /\ sendpos'[s] = q /\ mode'[s] = m
       /\ \A r \in Slots : r # s =>
            buf'[r] = buf[r] /\ sendpos'[r] = sendpos[r] /\ mode'[r] = mode[r]
  BY <1>4, <1>5, <1>6, <1>8, <1>11
<1>13. SlotsInv'
  <2>1. \A r \in Slots : Len(buf'[r]) <= BufMax /\ sendpos'[r] <= Len(buf'[r])
    BY <1>4, <1>5, <1>11, <1>12 DEF b
  <2> QED
    BY <2>1, <1>4, <1>12 DEF DataInv, SlotsInv
<1>14. HeapInv' /\ QuietInv'
  BY <1>4, RenewKeeps DEF c
<1>15. ConnInv'
  BY <1>4 DEF DataInv, ConnInv
<1>16. EchoInv'
  <2> DEFINE k == taken[c]
  <2>1. taken' = [taken EXCEPT ![c] = k]
    BY <1>4 DEF DataInv, EchoInv
  <2>2. k \in Nat
    BY <1>1
  <2> HIDE DEF k
  <2>3. Echo(c, g, k, buf'[s], sendpos'[s], mode'[s])
    BY <1>4, <1>7, <1>12 DEF b, k
  <2> QED
    BY <1>4, <1>7, <1>9, <1>10, <1>12, <2>1, <2>2, <2>3, EchoKeeps DEF c
<1> QED
  BY <1>13, <1>14, <1>15, <1>16 DEF DataInv

\* w has each of its connections once.
Once(w) == \A i, j \in 1 .. Len(w) : w[i] = w[j] => i = j
In(w, x) == \E i \in 1 .. Len(w) : w[i] = x

\* The first connection leaves the backlog.
LEMMA HeadLeaves ==
  ASSUME NEW w \in Seq(Conn), w # <<>>, Once(w)
  PROVE  /\ Head(w) \in Conn /\ In(w, Head(w))
         /\ Tail(w) \in Seq(Conn) /\ Once(Tail(w))
         /\ \A x \in Conn : In(Tail(w), x) <=> x # Head(w) /\ In(w, x)
<1> DEFINE n == Len(w)
           t == Tail(w)
           h == Head(w)
<1>1. n \in Nat /\ n > 0 /\ h = w[1] /\ 1 \in 1 .. n /\ \A i \in 1 .. n : w[i] \in Conn
  <2>1. n \in Nat /\ n # 0
    OBVIOUS
  <2>2. h = w[1]
    BY <2>1
  <2>3. \A i \in 1 .. n : w[i] \in Conn
    OBVIOUS
  <2> HIDE DEF n
  <2> QED
    BY <2>1, <2>2, <2>3
<1>2. t \in Seq(Conn) /\ Len(t) = n - 1 /\ \A i \in 1 .. n - 1 : t[i] = w[i + 1]
  OBVIOUS
<1>3. \A i, j \in 1 .. n : w[i] = w[j] => i = j
  BY DEF Once
<1> HIDE DEF n, t, h
<1>4. Once(t)
  <2> SUFFICES ASSUME NEW i \in 1 .. n - 1, NEW j \in 1 .. n - 1, t[i] = t[j]
               PROVE  i = j
    BY <1>2 DEF Once
  <2>1. i + 1 \in 1 .. n /\ j + 1 \in 1 .. n /\ w[i + 1] = w[j + 1]
    BY <1>1, <1>2
  <2>2. i + 1 = j + 1
    BY <1>3, <2>1
  <2> QED
    BY <2>2
<1>5. ASSUME NEW x \in Conn PROVE In(t, x) <=> x # h /\ In(w, x)
  <2>1. ASSUME In(t, x) PROVE x # h /\ In(w, x)
    <3>1. PICK i \in 1 .. n - 1 : t[i] = x
      BY <1>2, <2>1 DEF In
    <3>2. i + 1 \in 1 .. n /\ i + 1 # 1 /\ w[i + 1] = x
      BY <1>1, <1>2, <3>1
    <3>3. x # h
      BY <1>1, <1>3, <3>2
    <3> QED
      BY <3>2, <3>3 DEF In, n
  <2>2. ASSUME x # h, In(w, x) PROVE In(t, x)
    <3>1. PICK i \in 1 .. n : w[i] = x
      BY <2>2 DEF In, n
    <3>2. i # 1
      BY <1>1, <2>2, <3>1
    <3>3. i - 1 \in 1 .. n - 1 /\ (i - 1) + 1 = i
      BY <1>1, <3>1, <3>2
    <3>4. t[i - 1] = x
      BY <1>2, <3>1, <3>3
    <3> QED
      BY <1>2, <3>3, <3>4 DEF In
  <2> QED
    BY <2>1, <2>2
<1>6. h \in Conn /\ In(w, h)
  BY <1>1 DEF In, n
<1> QED
  BY <1>2, <1>4, <1>5, <1>6 DEF t, h

\* A connection that is not in the backlog joins it.
LEMMA LastJoins ==
  ASSUME NEW w \in Seq(Conn), Once(w), NEW c \in Conn, ~ In(w, c)
  PROVE  /\ Append(w, c) \in Seq(Conn) /\ Once(Append(w, c))
         /\ \A x \in Conn : In(Append(w, c), x) <=> x = c \/ In(w, x)
<1> DEFINE n == Len(w)
           t == Append(w, c)
<1>1. n \in Nat /\ t \in Seq(Conn) /\ Len(t) = n + 1 /\ t[n + 1] = c
      /\ \A i \in 1 .. n : t[i] = w[i]
  OBVIOUS
<1>2. \A i, j \in 1 .. n : w[i] = w[j] => i = j
  BY DEF Once
<1>3. \A i \in 1 .. n : w[i] # c
  BY DEF In
<1> HIDE DEF n, t
<1>4. \A i \in 1 .. n + 1 : i = n + 1 \/ i \in 1 .. n
  BY <1>1
<1>5. Once(t)
  BY <1>1, <1>2, <1>3, <1>4 DEF Once
<1>6. ASSUME NEW x \in Conn PROVE In(t, x) <=> x = c \/ In(w, x)
  <2>1. ASSUME In(t, x), x # c PROVE In(w, x)
    BY <1>1, <1>4, <2>1 DEF In, n
  <2>2. ASSUME In(w, x) PROVE In(t, x)
    <3>1. PICK i \in 1 .. n : w[i] = x
      BY <2>2 DEF In, n
    <3>2. i \in 1 .. n + 1 /\ t[i] = x
      BY <1>1, <3>1
    <3> QED
      BY <1>1, <3>2 DEF In
  <2>3. n + 1 \in 1 .. n + 1
    BY <1>1
  <2>4. In(t, c)
    BY <1>1, <2>3 DEF In
  <2> QED
    BY <2>1, <2>2, <2>4
<1> QED
  BY <1>1, <1>5, <1>6 DEF t

\* ConnInv, said with these.
LEMMA BacklogIs ==
  ConnInv <=>
    /\ conn \in [Conn -> {"none", "backlog", "open"}]
    /\ backlog \in Seq(Conn) /\ Once(backlog)
    /\ \A c \in Conn : conn[c] = "backlog" <=> In(backlog, c)
    /\ \A c \in Conn : conn[c] = "open" <=> \E s \in Slots : fd[s] = c
BY DEF ConnInv, Once, In

\* And after a step.
LEMMA BacklogIsNext ==
  ConnInv' <=>
    /\ conn' \in [Conn -> {"none", "backlog", "open"}]
    /\ backlog' \in Seq(Conn) /\ Once(backlog')
    /\ \A c \in Conn : conn'[c] = "backlog" <=> In(backlog', c)
    /\ \A c \in Conn : conn'[c] = "open" <=> \E s \in Slots : fd'[s] = c
BY DEF ConnInv, Once, In

\* The bytes and the clocks of those that are not connected stay as new.
LEMMA NobodyNew ==
  ASSUME DataInv, NEW c \in Conn, conn[c] # "open"
  PROVE  got[c] = <<>> /\ taken[c] = 0 /\ quiet[c] = 0 /\ \A s \in Slots : fd[s] # c
BY DEF DataInv, EchoInv, QuietInv, ConnInv

\* A client connects.
LEMMA ConnectKeeps ==
  ASSUME DataInv, NEW c \in Conn, Connect(c)
  PROVE  DataInv'
<1> USE DEF slots, clients
<1>1. conn[c] = "none" /\ conn' = [conn EXCEPT ![c] = "backlog"]
      /\ backlog' = Append(backlog, c)
      /\ UNCHANGED <<slots, timers, clients, quiet>>
  BY DEF Connect
<1>2. /\ conn \in [Conn -> {"none", "backlog", "open"}]
      /\ backlog \in Seq(Conn) /\ Once(backlog)
      /\ \A x \in Conn : conn[x] = "backlog" <=> In(backlog, x)
      /\ \A x \in Conn : conn[x] = "open" <=> \E s \in Slots : fd[s] = x
  BY BacklogIs DEF DataInv
<1>3. ~ In(backlog, c)
  BY <1>1, <1>2
<1>4. /\ backlog' \in Seq(Conn) /\ Once(backlog')
      /\ \A x \in Conn : In(backlog', x) <=> x = c \/ In(backlog, x)
  <2> DEFINE w == backlog
             v == Append(w, c)
  <2>1. w \in Seq(Conn) /\ Once(w) /\ ~ In(w, c)
    BY <1>2, <1>3
  <2> HIDE DEF w
  <2>2. /\ v \in Seq(Conn) /\ Once(v)
        /\ \A x \in Conn : In(v, x) <=> x = c \/ In(w, x)
    BY <2>1, LastJoins
  <2>3. backlog' = v
    BY <1>1 DEF w
  <2> HIDE DEF v
  <2> QED
    BY <2>2, <2>3 DEF w
<1>5. conn' \in [Conn -> {"none", "backlog", "open"}] /\ conn'[c] = "backlog"
      /\ \A x \in Conn : x # c => conn'[x] = conn[x]
  BY <1>1, <1>2
<1>6. \A x \in Conn : conn'[x] = "backlog" <=> In(backlog', x)
  BY <1>2, <1>4, <1>5
<1>7. \A x \in Conn : conn'[x] = "open" <=> \E s \in Slots : fd'[s] = x
  <2>1. fd' = fd
    BY <1>1
  <2> QED
    BY <1>1, <1>2, <1>5, <2>1
<1>8. ConnInv'
  BY <1>4, <1>5, <1>6, <1>7, BacklogIsNext
<1>9. SlotsInv'
  BY <1>1 DEF DataInv, SlotsInv
<1>10. HeapInv'
  BY <1>1 DEF DataInv, HeapInv, Used
<1>11. \A x \in Conn : conn'[x] # "open" => conn[x] # "open"
  BY <1>1, <1>5
<1>12. EchoInv'
  <2>1. EchoInOrder'
    BY <1>1 DEF DataInv, EchoInv, EchoInOrder
  <2> QED
    BY <1>1, <1>11, <2>1 DEF DataInv, EchoInv
<1>13. QuietInv'
  BY <1>1, <1>11 DEF DataInv, QuietInv
<1> QED
  BY <1>8, <1>9, <1>10, <1>12, <1>13 DEF DataInv

\* A client sends, reads, ends its stream or resets the connection.
LEMMA ClientKeeps ==
  ASSUME DataInv, UNCHANGED <<slots, timers, backlog, conn, taken, got, quiet>>,
         peer' \in [Conn -> {"up", "fin", "reset"}],
         sent' \in [Conn -> Nat], unread' \in [Conn -> Nat]
  PROVE  DataInv'
<1> USE DEF slots
<1>1. SlotsInv'
  BY DEF DataInv, SlotsInv
<1>2. HeapInv'
  BY DEF DataInv, HeapInv, Used
<1>3. ConnInv'
  BY DEF DataInv, ConnInv
<1>4. EchoInv'
  <2>1. EchoInOrder'
    BY DEF DataInv, EchoInv, EchoInOrder
  <2> QED
    BY <2>1 DEF DataInv, EchoInv
<1>5. QuietInv'
  BY DEF DataInv, QuietInv
<1> QED
  BY <1>1, <1>2, <1>3, <1>4, <1>5 DEF DataInv

\* A unit of time.
LEMMA TickKeeps ==
  ASSUME DataInv, Tick
  PROVE  DataInv' /\ \A s \in Slots : fd[s] # None => timers'.expire[s] = timers.expire[s] - 1
<1> USE DEF slots, clients
<1> DEFINE e == timers.expire
           d == [s \in Slots |-> IF s \in Used THEN e[s] - 1 ELSE e[s]]
<1>1. HasTimers(timers, Used, e) /\ e \in [Slots -> -MaxLate .. Idle]
      /\ \A s \in Slots : fd[s] = None => e[s] = 0
  BY DEF DataInv, HeapInv
<1>2. InHeap(timers) = Used /\ Used \subseteq Slots
  BY <1>1, TimersIn
<1>3. \A s \in Used : e[s] > -MaxLate
  BY <1>2 DEF Tick
<1>4. MaxLate \in Nat /\ Idle \in Nat
  BY ReactorAssumption
<1>5. timers' = [timers EXCEPT !.expire = d]
  <2>1. timers' = [timers EXCEPT !.expire =
                    [s \in Slots |-> IF s \in InHeap(timers) THEN @[s] - 1 ELSE @[s]]]
    BY DEF Tick
  <2>2. timers' = [timers EXCEPT !.expire =
                    [s \in Slots |-> IF s \in InHeap(timers) THEN timers.expire[s] - 1
                                     ELSE timers.expire[s]]]
    <3> DEFINE I == InHeap(timers)
    <3>1. timers' = [timers EXCEPT !.expire = [s \in Slots |-> IF s \in I THEN @[s] - 1 ELSE @[s]]]
      BY <2>1
    <3> HIDE DEF I
    <3>2. timers' = [timers EXCEPT !.expire =
                       [s \in Slots |-> IF s \in I THEN timers.expire[s] - 1 ELSE timers.expire[s]]]
      BY <3>1
    <3> QED
      BY <3>2 DEF I
  <2> QED
    BY <1>2, <2>2
<1>6. d \in [Slots -> Int] /\ d \in [Slots -> -MaxLate .. Idle]
      /\ (\A q, r \in Used : e[q] <= e[r] => d[q] <= d[r])
      /\ (\A s \in Used : d[s] = e[s] - 1) /\ \A s \in Slots : s \notin Used => d[s] = e[s]
  <2> DEFINE U == Used
  <2>1. e \in [Slots -> -MaxLate .. Idle] /\ (\A s \in U : e[s] > -MaxLate) /\ U \subseteq Slots
        /\ d = [s \in Slots |-> IF s \in U THEN e[s] - 1 ELSE e[s]]
    BY <1>1, <1>2, <1>3
  <2> HIDE DEF e, d, U
  <2>2. d \in [Slots -> Int] /\ d \in [Slots -> -MaxLate .. Idle]
        /\ (\A q, r \in U : e[q] <= e[r] => d[q] <= d[r])
        /\ (\A s \in U : d[s] = e[s] - 1) /\ \A s \in Slots : s \notin U => d[s] = e[s]
    BY <1>4, <2>1
  <2> QED
    BY <2>2 DEF U
<1> HIDE DEF d
<1>7. HasTimers(timers', Used, d)
  BY <1>1, <1>5, <1>6, NewTimes
<1>8. timers'.expire = d
  BY <1>7, TimersIn
<1>9. UNCHANGED <<slots, backlog, conn, clients>>
      /\ quiet' = [c \in Conn |-> IF conn[c] = "open" THEN quiet[c] + 1 ELSE 0]
  BY DEF Tick
<1>10. HeapInv'
  <2>1. Used' = Used /\ fd' = fd
    BY <1>9 DEF Used
  <2>2. \A s \in Slots : fd[s] = None => d[s] = 0
    BY <1>1, <1>6 DEF Used
  <2> QED
    BY <1>6, <1>7, <1>8, <2>1, <2>2 DEF HeapInv
<1>11. \A s \in Slots : fd[s] # None => d[s] = e[s] - 1
  BY <1>6 DEF Used
<1>12. QuietInv'
  <2>1. quiet \in [Conn -> Int]
    BY DEF DataInv, QuietInv
  <2>2. quiet' \in [Conn -> Int] /\ (\A c \in Conn : conn[c] = "open" => quiet'[c] = quiet[c] + 1)
        /\ \A c \in Conn : conn[c] # "open" => quiet'[c] = 0
    BY <1>9, <2>1
  <2>3. ASSUME NEW s \in Slots, fd[s] # None PROVE quiet'[fd[s]] + d[s] = Idle
    <3>1. fd[s] \in Conn /\ conn[fd[s]] = "open"
      BY <2>3, SlotInUse
    <3>2. quiet[fd[s]] + e[s] = Idle
      BY <2>3 DEF DataInv, QuietInv
    <3>3. e[s] \in Int /\ quiet[fd[s]] \in Int
      BY <1>1, <2>1, <3>1
    <3>4. d[s] = e[s] - 1 /\ quiet'[fd[s]] = quiet[fd[s]] + 1
      BY <2>3, <3>1, <1>11, <2>2
    <3> QED
      BY <1>4, <3>2, <3>3, <3>4
  <2> QED
    BY <1>8, <1>9, <2>2, <2>3 DEF QuietInv
<1>13. SlotsInv'
  BY <1>9 DEF DataInv, SlotsInv
<1>14. ConnInv'
  BY <1>9 DEF DataInv, ConnInv
<1>15. EchoInv'
  <2>1. EchoInOrder'
    BY <1>9 DEF DataInv, EchoInv, EchoInOrder
  <2> QED
    BY <1>9, <2>1 DEF DataInv, EchoInv
<1> QED
  BY <1>8, <1>10, <1>11, <1>12, <1>13, <1>14, <1>15 DEF DataInv

\* The first of the free slots is one.
LEMMA FirstFree ==
  ASSUME FreeSlots # {}
  PROVE  (CHOOSE f \in FreeSlots : \A g \in FreeSlots : f <= g) \in FreeSlots
<1>1. FreeSlots \in SUBSET Nat
  BY DEF FreeSlots, Slots
<1>2. \E f \in FreeSlots : \A g \in FreeSlots : f <= g
  BY <1>1, LeastNumber
<1> QED
  BY <1>2

\* accept gives the first connection of the backlog a slot and a timer.
LEMMA AcceptKeeps ==
  ASSUME DataInv, Accept
  PROVE  /\ DataInv'
         /\ \A s \in Slots : fd[s] # None => fd'[s] = fd[s] /\ mode'[s] = mode[s]
<1> DEFINE c == Head(backlog)
           s == CHOOSE f \in FreeSlots : \A g \in FreeSlots : f <= g
           e == timers.expire
           d == [e EXCEPT ![s] = Idle]
<1>1. backlog # <<>> /\ FreeSlots # {}
  BY DEF Accept
<1>2. /\ status' = [status EXCEPT ![s] = TRUE]
      /\ fd' = [fd EXCEPT ![s] = c]
      /\ mode' = [mode EXCEPT ![s] = "recvdata"]
      /\ buf' = [buf EXCEPT ![s] = <<>>]
      /\ sendpos' = [sendpos EXCEPT ![s] = 0]
      /\ timers' = TimerAdd(timers, s, Idle)
      /\ conn' = [conn EXCEPT ![c] = "open"]
      /\ quiet' = [quiet EXCEPT ![c] = 0]
      /\ backlog' = Tail(backlog)
      /\ UNCHANGED clients
  BY DEF Accept
<1>3. s \in FreeSlots
  BY <1>1, FirstFree
<1>4. /\ conn \in [Conn -> {"none", "backlog", "open"}]
      /\ backlog \in Seq(Conn) /\ Once(backlog)
      /\ \A x \in Conn : conn[x] = "backlog" <=> In(backlog, x)
      /\ \A x \in Conn : conn[x] = "open" <=> \E q \in Slots : fd[q] = x
  BY BacklogIs DEF DataInv
<1>5. /\ c \in Conn /\ In(backlog, c)
      /\ Tail(backlog) \in Seq(Conn) /\ Once(Tail(backlog))
      /\ \A x \in Conn : In(Tail(backlog), x) <=> x # c /\ In(backlog, x)
  BY <1>1, <1>4, HeadLeaves
<1> HIDE DEF c, s
<1>6. s \in Slots /\ fd[s] = None /\ timers.hidx[s] = 0 /\ s \notin Used
  <2>1. s \in Slots /\ ~ status[s]
    BY <1>3 DEF FreeSlots
  <2>2. fd[s] = None
    BY <2>1 DEF DataInv, SlotsInv
  <2>3. {q \in Slots : timers.hidx[q] # 0} = Used
    BY DEF DataInv, HeapInv, HasTimers
  <2>4. s \notin Used
    BY <2>2 DEF Used
  <2> QED
    BY <2>1, <2>2, <2>3, <2>4
<1>7. conn[c] = "backlog" /\ got[c] = <<>> /\ taken[c] = 0 /\ (\A q \in Slots : fd[q] # c) /\ c # None
  <2>1. conn[c] = "backlog"
    BY <1>4, <1>5
  <2> QED
    BY <1>5, <2>1, NobodyNew, ReactorAssumption
<1>8. fd' \in [Slots -> Conn \cup {None}] /\ fd'[s] = c /\ \A q \in Slots : q # s => fd'[q] = fd[q]
  BY <1>2, <1>5, <1>6 DEF DataInv, SlotsInv
<1>9. /\ mode \in [Slots -> {"recvdata", "senddata"}]
      /\ buf \in [Slots -> Seq(Conn \X Nat)] /\ sendpos \in [Slots -> Nat]
      /\ status \in [Slots -> BOOLEAN]
  BY DEF DataInv, SlotsInv
<1>10. mode'[s] = "recvdata" /\ buf'[s] = <<>> /\ sendpos'[s] = 0 /\ status'[s]
       /\ \A q \in Slots : q # s => /\ mode'[q] = mode[q] /\ buf'[q] = buf[q]
                                    /\ sendpos'[q] = sendpos[q] /\ status'[q] = status[q]
  BY <1>2, <1>6, <1>9
<1>11. SlotsInv'
  <2>1. status' \in [Slots -> BOOLEAN] /\ mode' \in [Slots -> {"recvdata", "senddata"}]
        /\ sendpos' \in [Slots -> Nat]
    BY <1>2, <1>9
  <2>2. buf' \in [Slots -> Seq(Conn \X Nat)]
    <3> DEFINE B == Seq(Conn \X Nat)
               none == <<>>
    <3>1. none \in B /\ buf \in [Slots -> B] /\ buf' = [buf EXCEPT ![s] = none]
      BY <1>2, <1>9
    <3> HIDE DEF B, none
    <3>2. buf' \in [Slots -> B]
      BY <3>1
    <3> QED
      BY <3>2 DEF B
  <2>3. \A q \in Slots : Len(buf'[q]) <= BufMax /\ sendpos'[q] <= Len(buf'[q])
    <3>1. Len(<<>>) = 0 /\ BufMax \in Nat
      BY ReactorAssumption
    <3> QED
      BY <1>10, <3>1 DEF DataInv, SlotsInv
  <2>4. \A q \in Slots : status'[q] <=> fd'[q] # None
    <3>1. \A q \in Slots : status[q] <=> fd[q] # None
      BY DEF DataInv, SlotsInv
    <3>2. ASSUME NEW q \in Slots, q # s PROVE status'[q] <=> fd'[q] # None
      BY <3>1, <3>2, <1>8, <1>10
    <3>3. status'[s] <=> fd'[s] # None
      BY <1>7, <1>8, <1>10
    <3> QED
      BY <3>2, <3>3
  <2>5. \A q, r \in Slots : fd'[q] = fd'[r] /\ fd'[q] # None => q = r
    <3>1. \A q, r \in Slots : fd[q] = fd[r] /\ fd[q] # None => q = r
      BY DEF DataInv, SlotsInv
    <3> SUFFICES ASSUME NEW q \in Slots, NEW r \in Slots, fd'[q] = fd'[r], fd'[q] # None
                 PROVE  q = r
      OBVIOUS
    <3>2. CASE q # s /\ r # s
      BY <3>1, <3>2, <1>8
    <3>3. CASE q = s /\ r # s
      BY <3>3, <1>7, <1>8
    <3>4. CASE q # s /\ r = s
      BY <3>4, <1>7, <1>8
    <3> QED
      BY <3>2, <3>3, <3>4
  <2> QED
    BY <1>8, <2>1, <2>2, <2>3, <2>4, <2>5 DEF SlotsInv
<1>12. Idle \in Nat /\ MaxLate \in Nat /\ Idle \in Int
  BY ReactorAssumption
<1>13. HasTimers(timers', Used \cup {s}, d)
  <2>1. Shaped(timers) /\ InOrder(timers) /\ {q \in Slots : timers.hidx[q] # 0} = Used
    BY DEF DataInv, HeapInv, HasTimers
  <2>2. HasTimers(TimerAdd(timers, s, Idle), {q \in Slots : timers.hidx[q] # 0} \cup {s}, d)
    BY <2>1, <1>6, <1>12, TimerAddKeeps
  <2> QED
    BY <1>2, <2>1, <2>2
<1>14. timers'.expire = d
  BY <1>13, TimersIn
<1>15. d \in [Slots -> -MaxLate .. Idle] /\ d[s] = Idle /\ \A q \in Slots : q # s => d[q] = e[q]
  <2>1. e \in [Slots -> -MaxLate .. Idle]
    BY DEF DataInv, HeapInv
  <2> HIDE DEF e
  <2> QED
    BY <1>6, <1>12, <2>1
<1> HIDE DEF d
<1>16. HeapInv'
  <2>1. Used' = Used \cup {s}
    BY <1>6, <1>7, <1>8 DEF Used
  <2>2. \A q \in Slots : fd'[q] = None => d[q] = 0
    <3>1. \A q \in Slots : fd[q] = None => e[q] = 0
      BY DEF DataInv, HeapInv
    <3> QED
      BY <3>1, <1>7, <1>8, <1>15
  <2> QED
    BY <1>13, <1>14, <1>15, <2>1, <2>2 DEF HeapInv
<1>17. conn' \in [Conn -> {"none", "backlog", "open"}] /\ conn'[c] = "open"
       /\ \A x \in Conn : x # c => conn'[x] = conn[x]
  BY <1>2, <1>4, <1>5
<1>18. ConnInv'
  <2>1. \A x \in Conn : conn'[x] = "backlog" <=> In(backlog', x)
    BY <1>2, <1>4, <1>5, <1>17
  <2>2. \A x \in Conn : conn'[x] = "open" <=> \E q \in Slots : fd'[q] = x
    <3> SUFFICES ASSUME NEW x \in Conn
                 PROVE  conn'[x] = "open" <=> \E q \in Slots : fd'[q] = x
      OBVIOUS
    <3>1. CASE x = c
      BY <3>1, <1>6, <1>8, <1>17
    <3>2. CASE x # c
      <4>1. x # None
        BY ReactorAssumption
      <4>2. \A q \in Slots : fd'[q] = x <=> fd[q] = x
        BY <3>2, <4>1, <1>6, <1>8
      <4> QED
        BY <3>2, <4>2, <1>4, <1>17
    <3> QED
      BY <3>1, <3>2
  <2> QED
    BY <1>2, <1>5, <1>17, <2>1, <2>2, BacklogIsNext
<1>19. EchoInv'
  <2> USE DEF clients
  <2>1. EchoInOrder'
    <3> SUFFICES ASSUME NEW q \in Slots, fd'[q] # None
                 PROVE  Echo(fd'[q], got'[fd'[q]], taken'[fd'[q]], buf'[q], sendpos'[q], mode'[q])
      BY EchoOfSlotsNext
    <3>1. CASE q = s
      <4>1. got'[c] = <<>> /\ taken'[c] = 0
        BY <1>2, <1>7
      <4>2. Echo(c, <<>>, 0, <<>>, 0, "recvdata")
        BY DEF Echo
      <4> QED
        BY <3>1, <4>1, <4>2, <1>8, <1>10
    <3>2. CASE q # s
      <4>1. fd'[q] = fd[q] /\ fd[q] # None
        BY <3>2, <1>8
      <4>2. Echo(fd[q], got[fd[q]], taken[fd[q]], buf[q], sendpos[q], mode[q])
        BY <4>1, SlotInUse
      <4> QED
        BY <3>2, <4>1, <4>2, <1>2, <1>10
    <3> QED
      BY <3>1, <3>2
  <2>2. \A x \in Conn : conn'[x] # "open" => conn[x] # "open"
    BY <1>7, <1>17
  <2> QED
    BY <1>2, <2>1, <2>2 DEF DataInv, EchoInv
<1>20. QuietInv'
  <2>1. quiet' \in [Conn -> Int] /\ quiet'[c] = 0
        /\ \A x \in Conn : x # c => quiet'[x] = quiet[x]
    BY <1>2, <1>5 DEF DataInv, QuietInv
  <2>2. ASSUME NEW q \in Slots, fd'[q] # None PROVE quiet'[fd'[q]] + d[q] = Idle
    <3>1. CASE q = s
      BY <3>1, <1>8, <1>12, <1>15, <2>1
    <3>2. CASE q # s
      <4>1. fd'[q] = fd[q] /\ fd[q] # None /\ d[q] = e[q]
        BY <2>2, <3>2, <1>8, <1>15
      <4>2. fd[q] \in Conn /\ fd[q] # c
        BY <4>1, <1>7 DEF DataInv, SlotsInv
      <4>3. quiet[fd[q]] + e[q] = Idle
        BY <4>1 DEF DataInv, QuietInv
      <4> QED
        BY <4>1, <4>2, <4>3, <2>1
    <3> QED
      BY <3>1, <3>2
  <2>3. \A x \in Conn : conn'[x] # "open" => quiet'[x] = 0
    BY <1>7, <1>17, <2>1 DEF DataInv, QuietInv
  <2> QED
    BY <1>14, <2>1, <2>2, <2>3 DEF QuietInv
<1>21. \A q \in Slots : fd[q] # None => fd'[q] = fd[q] /\ mode'[q] = mode[q]
  BY <1>6, <1>8, <1>10
<1> QED
  BY <1>11, <1>16, <1>18, <1>19, <1>20, <1>21 DEF DataInv

\* The first connection of the backlog is closed at once.
LEMMA RefuseKeeps ==
  ASSUME DataInv, Refuse
  PROVE  DataInv'
<1> USE DEF slots
<1> DEFINE c == Head(backlog)
<1>1. backlog # <<>> /\ backlog' = Tail(backlog) /\ UNCHANGED <<slots, timers>>
  BY DEF Refuse
<1>2. /\ conn' = [conn EXCEPT ![c] = "none"]
      /\ peer' = [peer EXCEPT ![c] = "up"]
      /\ sent' = [sent EXCEPT ![c] = 0]
      /\ taken' = [taken EXCEPT ![c] = 0]
      /\ got' = [got EXCEPT ![c] = <<>>]
      /\ unread' = [unread EXCEPT ![c] = 0]
      /\ quiet' = [quiet EXCEPT ![c] = 0]
  BY DEF Refuse, ConnectionGone
<1>3. /\ conn \in [Conn -> {"none", "backlog", "open"}]
      /\ backlog \in Seq(Conn) /\ Once(backlog)
      /\ \A x \in Conn : conn[x] = "backlog" <=> In(backlog, x)
      /\ \A x \in Conn : conn[x] = "open" <=> \E q \in Slots : fd[q] = x
  BY BacklogIs DEF DataInv
<1>4. /\ c \in Conn /\ In(backlog, c)
      /\ Tail(backlog) \in Seq(Conn) /\ Once(Tail(backlog))
      /\ \A x \in Conn : In(Tail(backlog), x) <=> x # c /\ In(backlog, x)
  BY <1>1, <1>3, HeadLeaves
<1> HIDE DEF c
<1>5. conn[c] = "backlog" /\ got[c] = <<>> /\ taken[c] = 0 /\ quiet[c] = 0
  <2>1. conn[c] = "backlog"
    BY <1>3, <1>4
  <2> QED
    BY <1>4, <2>1, NobodyNew
<1>6. conn' \in [Conn -> {"none", "backlog", "open"}] /\ conn'[c] = "none"
      /\ \A x \in Conn : x # c => conn'[x] = conn[x]
  BY <1>2, <1>3, <1>4
<1>7. got' = got /\ taken' = taken /\ quiet' = quiet
  <2>1. got \in [Conn -> Seq(Conn \X Nat)] /\ taken \in [Conn -> Nat] /\ quiet \in [Conn -> Int]
    BY DEF DataInv, EchoInv, QuietInv
  <2>2. got' = got
    BY <1>2, <1>5, <2>1
  <2>3. taken' = taken /\ quiet' = quiet
    BY <1>2, <1>5, <2>1
  <2> QED
    BY <2>2, <2>3
<1>8. SlotsInv'
  BY <1>1 DEF DataInv, SlotsInv
<1>9. HeapInv'
  BY <1>1 DEF DataInv, HeapInv, Used
<1>10. ConnInv'
  <2>1. \A x \in Conn : conn'[x] = "backlog" <=> In(backlog', x)
    BY <1>1, <1>3, <1>4, <1>6
  <2>2. \A x \in Conn : conn'[x] = "open" <=> \E q \in Slots : fd'[q] = x
    <3>1. fd' = fd
      BY <1>1
    <3> QED
      BY <1>3, <1>5, <1>6, <3>1
  <2> QED
    BY <1>1, <1>4, <1>6, <2>1, <2>2, BacklogIsNext
<1>11. EchoInv'
  <2>1. EchoInOrder'
    BY <1>1, <1>7 DEF DataInv, EchoInv, EchoInOrder
  <2>2. \A x \in Conn : conn'[x] # "open" => got'[x] = <<>> /\ taken'[x] = 0
    BY <1>5, <1>6, <1>7 DEF DataInv, EchoInv
  <2>3. /\ peer' \in [Conn -> {"up", "fin", "reset"}]
        /\ sent' \in [Conn -> Nat] /\ unread' \in [Conn -> Nat]
    BY <1>2 DEF DataInv, EchoInv
  <2> QED
    BY <1>7, <2>1, <2>2, <2>3 DEF DataInv, EchoInv
<1>12. QuietInv'
  <2>1. \A x \in Conn : conn'[x] # "open" => quiet'[x] = 0
    BY <1>5, <1>6, <1>7 DEF DataInv, QuietInv
  <2> QED
    BY <1>1, <1>7, <2>1 DEF DataInv, QuietInv
<1> QED
  BY <1>8, <1>9, <1>10, <1>11, <1>12 DEF DataInv

-----------------------------------------------------------------------------
(* What is kept: the loop *)

\* The events that are left are for slots that stay as they are.
LEMMA EventsStay ==
  ASSUME PendingInv, pending' \subseteq pending,
         \A e \in pending' : e.slot \in Slots =>
           fd'[e.slot] = fd[e.slot] /\ mode'[e.slot] = mode[e.slot]
  PROVE  PendingInv'
<1>1. \A e \in pending' : EventIs(e)'
  BY DEF PendingInv, EventIs
<1> QED
  BY <1>1 DEF PendingInv

\* An event is handled, and what changes is in its slot.
LEMMA HandleKeeps ==
  ASSUME LoopInv, NEW s \in Slots, NEW re, Handle(s, re), pc' = pc,
         \A q \in Slots : q # s => fd'[q] = fd[q] /\ mode'[q] = mode[q]
  PROVE  LoopInv'
<1> DEFINE e == [slot |-> s, re |-> re]
<1>1. pc = "dispatch" /\ e \in pending /\ pending' = pending \ {e} /\ timeout' = timeout
  BY DEF Handle
<1>2. \A f \in pending' : f \in pending /\ f # e
  BY <1>1
<1>3. \A f \in pending' : f.slot # s
  BY <1>1, <1>2 DEF LoopInv, PendingInv
<1>4. PendingInv'
  <2>1. PendingInv /\ pending' \subseteq pending
    BY <1>2 DEF LoopInv
  <2>2. \A f \in pending' : f.slot \in Slots =>
          fd'[f.slot] = fd[f.slot] /\ mode'[f.slot] = mode[f.slot]
    BY <1>3
  <2> QED
    BY <2>1, <2>2, EventsStay
<1> QED
  BY <1>1, <1>4 DEF LoopInv, WakesForTimers

\* What a handled event says of its slot.
LEMMA HandledIs ==
  ASSUME LoopInv, NEW s \in Slots, NEW re, Handle(s, re)
  PROVE  /\ fd[s] # None
         /\ re = "IN" => mode[s] = "recvdata"
<1> DEFINE e == [slot |-> s, re |-> re]
<1>1. e \in pending /\ e.slot = s /\ e.re = re
  BY DEF Handle
<1>2. EventIs(e)
  BY <1>1 DEF LoopInv, PendingInv
<1> QED
  BY <1>1, <1>2 DEF EventIs

\* The time to block is at most that of the first timer.
LEMMA BlockWakes ==
  ASSUME DataInv, Block, timers' = timers, fd' = fd
  PROVE  /\ timeout' \in 0 .. MaxWait
         /\ \A s \in Slots : fd[s] # None => timeout' <= timers.expire[s] \/ timeout' = 0
<1> DEFINE first == Time(timers, 1)
           e == timers.expire
<1>1. MaxWait \in Nat
  BY ReactorAssumption
<1>2. timeout' = IF timers.heap = <<>> \/ first >= MaxWait THEN MaxWait
                 ELSE IF first <= 0 THEN 0
                 ELSE first
  BY DEF Block
<1>3. /\ timers.heap = <<>> => Used = {}
      /\ timers.heap # <<>> => first \in Int /\ \A q \in Used : first <= e[q]
  BY FirstTimer DEF DataInv, HeapInv
<1>4. e \in [Slots -> Int]
  BY TimersIn DEF DataInv, HeapInv
<1> HIDE DEF first, e
<1>5. CASE timers.heap = <<>>
  BY <1>1, <1>2, <1>3, <1>5 DEF Used
<1>6. CASE timers.heap # <<>>
  <2>1. timeout' \in 0 .. MaxWait /\ (timeout' <= first \/ timeout' = 0)
    BY <1>1, <1>2, <1>3, <1>6
  <2>2. \A q \in Slots : fd[q] # None => first <= e[q] /\ e[q] \in Int
    BY <1>3, <1>4, <1>6 DEF Used
  <2>3. \A q \in Slots : fd[q] # None => timeout' <= e[q] \/ timeout' = 0
    BY <1>1, <1>3, <1>6, <2>1, <2>2
  <2> QED
    BY <2>1, <2>3 DEF e
<1> QED
  BY <1>5, <1>6

\* epoll_wait returns one event of each slot that is ready.
LEMMA EpollReturnsKeeps ==
  ASSUME DataInv, LoopInv, EpollReturns
  PROVE  LoopInv'
<1> USE DEF slots
<1>1. pending' = Ready /\ pc' = "dispatch" /\ timeout' = 0 /\ fd' = fd /\ mode' = mode
  BY DEF EpollReturns
<1>2. Listener \notin Slots /\ MaxWait \in Nat
  BY ReactorAssumption DEF Listener, Slots
<1>3. ASSUME NEW e \in Ready
      PROVE  \/ /\ e = [slot |-> Listener, re |-> "IN"]
             \/ /\ e.slot \in Slots /\ status[e.slot]
                /\ e = [slot |-> e.slot, re |-> e.re]
                /\ \/ e.re = "ERR" /\ peer[fd[e.slot]] = "reset"
                   \/ e.re = "IN" /\ peer[fd[e.slot]] # "reset" /\ mode[e.slot] = "recvdata"
                   \/ e.re = "OUT" /\ peer[fd[e.slot]] # "reset" /\ mode[e.slot] = "senddata"
  BY DEF Ready
<1>4. \A q \in Slots : status[q] => fd[q] # None
  BY DEF DataInv, SlotsInv
<1>5. pending' \subseteq [slot : Slots \cup {Listener}, re : {"IN", "OUT", "ERR"}]
  BY <1>1, <1>3
<1>6. \A e \in pending' : EventIs(e)'
  <2> SUFFICES ASSUME NEW e \in Ready, e.slot \in Slots
               PROVE  /\ fd[e.slot] # None
                      /\ e.re = "IN" => mode[e.slot] = "recvdata"
                      /\ e.re = "OUT" => mode[e.slot] = "senddata"
    BY <1>1 DEF EventIs
  <2> QED
    BY <1>2, <1>3, <1>4
<1>7. \A e, f \in pending' : e.slot = f.slot => e = f
  <2> SUFFICES ASSUME NEW e \in Ready, NEW f \in Ready, e.slot = f.slot PROVE e = f
    BY <1>1
  <2>1. CASE e = [slot |-> Listener, re |-> "IN"]
    <3>1. e.slot = Listener
      BY <2>1
    <3> QED
      BY <2>1, <3>1, <1>2, <1>3
  <2>2. CASE e # [slot |-> Listener, re |-> "IN"]
    <3>1. e.slot \in Slots /\ e.slot # Listener /\ e = [slot |-> e.slot, re |-> e.re]
      BY <2>2, <1>2, <1>3
    <3>2. f # [slot |-> Listener, re |-> "IN"]
      BY <3>1
    <3>3. f = [slot |-> f.slot, re |-> f.re]
      BY <3>2, <1>3
    <3>4. e.re = f.re
      BY <2>2, <3>2, <1>3
    <3> QED
      BY <3>1, <3>3, <3>4
  <2> QED
    BY <2>1, <2>2
<1> QED
  BY <1>1, <1>2, <1>5, <1>6, <1>7 DEF LoopInv, PendingInv, WakesForTimers

\* A unit of time goes from the time to block as from the timers.
LEMMA TickLoop ==
  ASSUME DataInv, LoopInv, Tick
  PROVE  LoopInv'
<1> USE DEF slots
<1>1. pc' = pc /\ pending' = pending /\ fd' = fd /\ mode' = mode
      /\ timeout' = IF timeout > 0 THEN timeout - 1 ELSE 0
  BY DEF Tick
<1>2. timeout \in 0 .. MaxWait /\ MaxWait \in Nat
  BY ReactorAssumption DEF LoopInv
<1>3. timeout' \in 0 .. MaxWait
  BY <1>1, <1>2
<1>4. PendingInv'
  BY <1>1, EventsStay DEF LoopInv
<1>5. WakesForTimers'
  <2> SUFFICES ASSUME pc = "poll", NEW s \in Slots, fd[s] # None
               PROVE  timeout' <= timers'.expire[s] \/ timeout' = 0
    BY <1>1 DEF WakesForTimers
  <2>1. timers'.expire[s] = timers.expire[s] - 1
    BY TickKeeps
  <2>2. timeout <= timers.expire[s] \/ timeout = 0
    BY DEF LoopInv, WakesForTimers
  <2>3. timers.expire[s] \in Int
    <3>1. timers.expire \in [Slots -> Int]
      BY TimersIn DEF DataInv, HeapInv
    <3> QED
      BY <3>1
  <2> QED
    BY <1>1, <1>2, <2>1, <2>2, <2>3
<1> QED
  BY <1>1, <1>3, <1>4, <1>5 DEF LoopInv

\* Steps that change nothing the loop looks at.
LEMMA LoopStays ==
  ASSUME LoopInv, UNCHANGED <<pc, timeout, pending, slots, timers>>
  PROVE  LoopInv'
<1> USE DEF slots
<1>1. PendingInv'
  BY EventsStay DEF LoopInv
<1> QED
  BY <1>1 DEF LoopInv, WakesForTimers

\* conn_close changes no other slot.
LEMMA CloseChanges ==
  ASSUME DataInv, NEW s \in Slots, ConnClose(s)
  PROVE  \A q \in Slots : q # s => fd'[q] = fd[q] /\ mode'[q] = mode[q]
BY DEF ConnClose, DataInv, SlotsInv

\* A step of the thread keeps the invariant.
LEMMA LoopStep ==
  ASSUME ReactorInv, Loop
  PROVE  ReactorInv'
<1> USE DEF slots, clients
<1>1. DataInv /\ LoopInv
  BY DEF ReactorInv
<1>2. CASE EpollReturns
  <2>1. DataInv'
    BY <1>1, <1>2, DataStays DEF EpollReturns
  <2> QED
    BY <1>1, <1>2, <2>1, EpollReturnsKeeps DEF ReactorInv
<1>3. CASE AcceptStarts
  <2>1. DataInv'
    BY <1>1, <1>3, DataStays DEF AcceptStarts, Handle
  <2>2. pc' = "accept" /\ timeout' = timeout /\ pending' \subseteq pending /\ fd' = fd /\ mode' = mode
    BY <1>3 DEF AcceptStarts, Handle
  <2>3. PendingInv'
    BY <1>1, <2>2, EventsStay DEF LoopInv
  <2> QED
    BY <1>1, <2>1, <2>2, <2>3 DEF ReactorInv, LoopInv, WakesForTimers
<1>4. CASE Accept
  <2>1. DataInv' /\ \A s \in Slots : fd[s] # None => fd'[s] = fd[s] /\ mode'[s] = mode[s]
    BY <1>1, <1>4, AcceptKeeps
  <2>2. pc' = pc /\ pc = "accept" /\ timeout' = timeout /\ pending' = pending
    BY <1>4 DEF Accept
  <2>3. \A e \in pending : e.slot \in Slots => fd[e.slot] # None
    BY <1>1 DEF LoopInv, PendingInv, EventIs
  <2>4. PendingInv'
    BY <1>1, <2>1, <2>2, <2>3, EventsStay DEF LoopInv
  <2> QED
    BY <1>1, <2>1, <2>2, <2>4 DEF ReactorInv, LoopInv, WakesForTimers
<1>5. CASE Refuse
  <2>1. DataInv'
    BY <1>1, <1>5, RefuseKeeps
  <2>2. pc' \in {"dispatch", "accept"} /\ timeout' = timeout /\ pending' = pending
        /\ fd' = fd /\ mode' = mode
    BY <1>5 DEF Refuse
  <2>3. PendingInv'
    BY <1>1, <2>2, EventsStay DEF LoopInv
  <2> QED
    BY <1>1, <2>1, <2>2, <2>3 DEF ReactorInv, LoopInv, WakesForTimers
<1>6. CASE AcceptEnds
  <2>1. DataInv'
    BY <1>1, <1>6, DataStays DEF AcceptEnds
  <2>2. pc' = "dispatch" /\ timeout' = timeout /\ pending' = pending /\ fd' = fd /\ mode' = mode
    BY <1>6 DEF AcceptEnds
  <2>3. PendingInv'
    BY <1>1, <2>2, EventsStay DEF LoopInv
  <2> QED
    BY <1>1, <2>1, <2>2, <2>3 DEF ReactorInv, LoopInv, WakesForTimers
<1>7. CASE DispatchEnds
  <2>1. DataInv'
    BY <1>1, <1>7, DataStays DEF DispatchEnds
  <2>2. pc' = "expire" /\ timeout' = timeout /\ pending' = pending /\ pending = {}
        /\ fd' = fd /\ mode' = mode
    BY <1>7 DEF DispatchEnds
  <2>3. PendingInv'
    BY <1>1, <2>2, EventsStay DEF LoopInv
  <2> QED
    BY <1>1, <2>1, <2>2, <2>3 DEF ReactorInv, LoopInv, WakesForTimers
<1>8. CASE Expire
  <2> DEFINE s == timers.heap[1]
  <2>1. s \in Slots /\ fd[s] # None
    BY <1>1, <1>8, FirstTimer DEF Expire, Due, DataInv, HeapInv, Used
  <2>2. ConnClose(s) /\ pc' = pc /\ pc = "expire" /\ timeout' = timeout
        /\ pending' = pending /\ backlog' = backlog
    BY <1>8 DEF Expire
  <2> HIDE DEF s
  <2>3. DataInv'
    BY <1>1, <2>1, <2>2, CloseKeeps
  <2>4. pending = {}
    BY <1>1, <2>2 DEF LoopInv
  <2>5. PendingInv'
    BY <1>1, <2>2, <2>4, EventsStay DEF LoopInv
  <2> QED
    BY <1>1, <2>2, <2>3, <2>5 DEF ReactorInv, LoopInv, WakesForTimers
<1>9. CASE ExpireEnds
  <2>1. DataInv'
    BY <1>1, <1>9, DataStays DEF ExpireEnds
  <2>2. pc = "expire" /\ Block /\ pending' = pending /\ fd' = fd /\ mode' = mode /\ timers' = timers
    BY <1>9 DEF ExpireEnds
  <2>3. PendingInv'
    BY <1>1, <2>2, EventsStay DEF LoopInv
  <2>4. pc' = "poll"
    BY <2>2 DEF Block
  <2>5. timeout' \in 0 .. MaxWait /\ WakesForTimers'
    BY <1>1, <2>2, BlockWakes DEF WakesForTimers
  <2> QED
    BY <1>1, <2>1, <2>2, <2>3, <2>4, <2>5 DEF ReactorInv, LoopInv
<1>10. CASE \E s \in Slots : HandleError(s) \/ RecvCloses(s) \/ SendFails(s)
  <2>1. PICK s \in Slots, re \in {"ERR", "IN", "OUT"} :
          Handle(s, re) /\ ConnClose(s) /\ pc' = pc
    BY <1>10 DEF HandleError, RecvCloses, SendFails
  <2>2. fd[s] # None
    BY <1>1, <2>1, HandledIs
  <2>3. DataInv'
    BY <1>1, <2>1, <2>2, CloseKeeps DEF Handle
  <2>4. LoopInv'
    BY <1>1, <2>1, CloseChanges, HandleKeeps
  <2> QED
    BY <2>3, <2>4 DEF ReactorInv
<1>11. CASE \E s \in Slots : RecvData(s)
  <2>1. PICK s \in Slots : RecvData(s)
    BY <1>11
  <2>2. Handle(s, "IN") /\ pc' = pc /\ fd' = fd /\ mode' = [mode EXCEPT ![s] = "senddata"]
    BY <2>1 DEF RecvData
  <2>3. fd[s] # None /\ mode[s] = "recvdata"
    BY <1>1, <2>2, HandledIs
  <2>4. DataInv'
    BY <1>1, <2>1, <2>3, RecvKeeps
  <2>5. \A q \in Slots : q # s => fd'[q] = fd[q] /\ mode'[q] = mode[q]
    BY <1>1, <2>2 DEF DataInv, SlotsInv
  <2>6. LoopInv'
    BY <1>1, <2>2, <2>5, HandleKeeps
  <2> QED
    BY <2>4, <2>6 DEF ReactorInv
<1>12. CASE \E s \in Slots : SendData(s)
  <2>1. PICK s \in Slots : SendData(s)
    BY <1>12
  <2>2. Handle(s, "OUT") /\ pc' = pc /\ fd' = fd
    BY <2>1 DEF SendData
  <2>3. fd[s] # None
    BY <1>1, <2>2, HandledIs
  <2>4. DataInv'
    BY <1>1, <2>1, <2>3, SendKeeps
  <2>5. \A q \in Slots : q # s => mode'[q] = mode[q]
    <3>1. \E w : mode' = [mode EXCEPT ![s] = w]
      BY <2>1 DEF SendData
    <3> QED
      BY <1>1, <3>1 DEF DataInv, SlotsInv
  <2>6. LoopInv'
    BY <1>1, <2>2, <2>5, HandleKeeps
  <2> QED
    BY <2>4, <2>6 DEF ReactorInv
<1>13. CASE \E s \in Slots : SendAgain(s)
  <2>1. PICK s \in Slots : SendAgain(s)
    BY <1>13
  <2>2. Handle(s, "OUT") /\ UNCHANGED <<pc, slots, timers, conn, clients, quiet>>
        /\ UNCHANGED backlog
    BY <2>1 DEF SendAgain, Handle
  <2>3. DataInv'
    BY <1>1, <2>2, DataStays
  <2>4. LoopInv'
    BY <1>1, <2>2, HandleKeeps
  <2> QED
    BY <2>3, <2>4 DEF ReactorInv
<1> QED
  BY <1>2, <1>3, <1>4, <1>5, <1>6, <1>7, <1>8, <1>9, <1>10, <1>11, <1>12, <1>13 DEF Loop

\* A step of a client keeps the invariant.
LEMMA ClientStep ==
  ASSUME ReactorInv, NEW c \in Conn, Client(c)
  PROVE  ReactorInv'
<1> USE DEF clients
<1>1. DataInv /\ LoopInv
  BY DEF ReactorInv
<1>2. /\ peer \in [Conn -> {"up", "fin", "reset"}]
      /\ sent \in [Conn -> Nat] /\ unread \in [Conn -> Nat]
  BY <1>1 DEF DataInv, EchoInv
<1>3. CASE Connect(c)
  <2>1. LoopInv'
    BY <1>1, <1>3, LoopStays DEF Connect
  <2> QED
    BY <1>1, <1>3, <2>1, ConnectKeeps DEF ReactorInv
<1>4. CASE ClientSends(c)
  <2>1. LoopInv'
    BY <1>1, <1>4, LoopStays DEF ClientSends
  <2>2. sent' \in [Conn -> Nat]
    BY <1>2, <1>4 DEF ClientSends
  <2>3. UNCHANGED <<slots, timers, backlog, conn, taken, got, quiet, peer, unread>>
    BY <1>4 DEF ClientSends
  <2>4. DataInv'
    BY <1>1, <1>2, <2>2, <2>3, ClientKeeps
  <2> QED
    BY <2>1, <2>4 DEF ReactorInv
<1>5. CASE ClientReads(c)
  <2>1. LoopInv'
    BY <1>1, <1>5, LoopStays DEF ClientReads
  <2>2. unread' \in [Conn -> Nat]
    <3>1. unread[c] \in Nat /\ unread[c] > 0 /\ unread' = [unread EXCEPT ![c] = @ - 1]
      BY <1>2, <1>5 DEF ClientReads
    <3>2. unread[c] - 1 \in Nat
      BY <3>1
    <3> QED
      BY <1>2, <3>1, <3>2
  <2>3. UNCHANGED <<slots, timers, backlog, conn, taken, got, quiet, peer, sent>>
    BY <1>5 DEF ClientReads
  <2>4. DataInv'
    BY <1>1, <1>2, <2>2, <2>3, ClientKeeps
  <2> QED
    BY <2>1, <2>4 DEF ReactorInv
<1>6. CASE \E how \in {"fin", "reset"} : ClientEnds(c, how)
  <2>1. LoopInv'
    BY <1>1, <1>6, LoopStays DEF ClientEnds
  <2>2. peer' \in [Conn -> {"up", "fin", "reset"}]
    BY <1>2, <1>6 DEF ClientEnds
  <2>3. UNCHANGED <<slots, timers, backlog, conn, taken, got, quiet, sent, unread>>
    BY <1>6 DEF ClientEnds
  <2>4. DataInv'
    BY <1>1, <1>2, <2>2, <2>3, ClientKeeps
  <2> QED
    BY <2>1, <2>4 DEF ReactorInv
<1> QED
  BY <1>3, <1>4, <1>5, <1>6 DEF Client

\* Every step keeps the invariant.
LEMMA ReactorStep == ReactorInv /\ [ReactorNext]_reactorVars => ReactorInv'
<1> SUFFICES ASSUME ReactorInv, [ReactorNext]_reactorVars PROVE ReactorInv'
  OBVIOUS
<1>1. DataInv /\ LoopInv
  BY DEF ReactorInv
<1>2. CASE Loop
  BY <1>2, LoopStep
<1>3. CASE EpollInterrupted
  <2>1. DataInv'
    BY <1>1, <1>3, DataStays DEF EpollInterrupted
  <2>2. pc = "poll" /\ Block /\ pending' = pending /\ fd' = fd /\ mode' = mode /\ timers' = timers
    BY <1>3 DEF EpollInterrupted, slots
  <2>3. PendingInv'
    BY <1>1, <2>2, EventsStay DEF LoopInv
  <2>4. pc' = "poll"
    BY <2>2 DEF Block
  <2>5. timeout' \in 0 .. MaxWait /\ WakesForTimers'
    BY <1>1, <2>2, BlockWakes DEF WakesForTimers
  <2> QED
    BY <1>1, <2>1, <2>2, <2>3, <2>4, <2>5 DEF ReactorInv, LoopInv
<1>4. CASE Tick
  BY <1>1, <1>4, TickKeeps, TickLoop DEF ReactorInv
<1>5. CASE \E c \in Conn : Client(c)
  BY <1>5, ClientStep
<1>6. CASE UNCHANGED reactorVars
  BY <1>1, <1>6, DataStays, LoopStays DEF reactorVars, ReactorInv
<1> QED
  BY <1>2, <1>3, <1>4, <1>5, <1>6 DEF ReactorNext

-----------------------------------------------------------------------------
(* Theorems *)

\* The inductive invariant holds in every state the reactor reaches.
THEOREM ReactorInvariant == ReactorSpec => []ReactorInv
<1>1. ReactorInit => ReactorInv
  BY ReactorInitInv
<1>2. ReactorInv /\ [ReactorNext]_reactorVars => ReactorInv'
  BY ReactorStep
<1> QED
  BY <1>1, <1>2, PTL DEF ReactorSpec

\* The variables of the reactor have their types, with any number of clients
\* and slots.
THEOREM ReactorTypes == ReactorSpec => []ReactorTypeOK
<1>1. ReactorInv => ReactorTypeOK
  BY ReactorInvImplies
<1> QED
  BY <1>1, ReactorInvariant, PTL

\* The slots, epoll, the timers and the descriptors agree, and the heap is in
\* order after each of its operations.
THEOREM SlotsAndTimersAgree == ReactorSpec => []SlotsAgree
<1>1. ReactorInv => SlotsAgree
  BY ReactorInvImplies
<1> QED
  BY <1>1, ReactorInvariant, PTL

\* epoll_wait blocks past the timer of no connection.
THEOREM ReactorWakes == ReactorSpec => []WakesForTimers
<1>1. ReactorInv => WakesForTimers
  BY DEF ReactorInv, LoopInv
<1> QED
  BY <1>1, ReactorInvariant, PTL

\* What a client is given and what is left in its slot are the bytes it sent,
\* in order.
THEOREM EchoesInOrder == ReactorSpec => []EchoInOrder
<1>1. ReactorInv => EchoInOrder
  BY DEF ReactorInv, DataInv, EchoInv
<1> QED
  BY <1>1, ReactorInvariant, PTL

\* The clean-up closes only connections that were quiet for Idle, and ends
\* when there are none left.
THEOREM CleanUpIsForTheIdle == ReactorSpec => IdleAreClosed
<1> DEFINE A == pc = "expire" => \A c \in Conn :
                  /\ conn[c] = "open" /\ conn'[c] # "open" => quiet[c] >= Idle
                  /\ pc' = "poll" /\ conn[c] = "open" => quiet[c] < Idle
<1>1. ReactorInv /\ [ReactorNext]_reactorVars => [A]_reactorVars
  <2> SUFFICES ASSUME ReactorInv, ReactorNext, pc = "expire", NEW c \in Conn, conn[c] = "open"
               PROVE  /\ conn'[c] # "open" => quiet[c] >= Idle
                      /\ pc' = "poll" => quiet[c] < Idle
    OBVIOUS
  <2>1. DataInv /\ Idle \in Nat
    BY ReactorAssumption DEF ReactorInv
  <2>2. PICK s \in Slots : fd[s] = c
    BY <2>1 DEF DataInv, ConnInv
  <2>3. c # None /\ quiet[c] \in Int /\ quiet[c] + timers.expire[s] = Idle /\ s \in Used
    BY <2>1, <2>2, ReactorAssumption DEF DataInv, QuietInv, Used
  <2>4. timers.expire \in [Slots -> Int] /\ timers.expire[s] \in Int
    BY <2>1, TimersIn DEF DataInv, HeapInv
  <2> DEFINE first == Time(timers, 1)
             r == timers.heap[1]
  <2>5. timers.heap # <<>> /\ r \in Used /\ first = timers.expire[r] /\ first \in Int
        /\ first <= timers.expire[s]
    BY <2>1, <2>3, FirstTimer DEF DataInv, HeapInv
  <2>6. CASE Expire
    <3>1. first <= 0 /\ ConnClose(r) /\ pc' = "expire"
      BY <2>6 DEF Expire, Due
    <3>2. ASSUME conn'[c] # "open" PROVE quiet[c] >= Idle
      <4>1. fd[r] # None /\ r \in Slots
        BY <2>5 DEF Used
      <4>2. conn' = [conn EXCEPT ![fd[r]] = "none"]
        BY <3>1, <4>1 DEF ConnClose, ConnectionGone
      <4>3. c = fd[r]
        BY <3>2, <4>2, <2>1 DEF DataInv, ConnInv
      <4>4. r = s
        BY <2>1, <2>2, <2>3, <4>1, <4>3 DEF DataInv, SlotsInv
      <4> HIDE DEF first, r
      <4> QED
        BY <2>1, <2>3, <2>4, <2>5, <3>1, <4>4
    <3> QED
      BY <3>1, <3>2
  <2>7. CASE ExpireEnds
    <3>1. ~ (first <= 0) /\ conn' = conn
      BY <2>5, <2>7 DEF ExpireEnds, Due
    <3> HIDE DEF first, r
    <3>2. quiet[c] < Idle
      BY <2>1, <2>3, <2>4, <2>5, <3>1
    <3> QED
      BY <3>1, <3>2
  <2> QED
    BY <2>6, <2>7 DEF ReactorNext, Loop, Client, EpollReturns, EpollInterrupted, AcceptStarts,
       Accept, Refuse, AcceptEnds, DispatchEnds, HandleError, RecvData, RecvCloses, SendData,
       SendAgain, SendFails, Handle, Tick, Connect, ClientSends, ClientReads, ClientEnds, Seen
<1> QED
  BY <1>1, ReactorInvariant, PTL DEF ReactorSpec, IdleAreClosed
=============================================================================
