--------------------------- MODULE TimerQueue_proofs ---------------------------
(***************************************************************************)
(* Proofs about TimerQueue, for any number of timers, any intervals and    *)
(* delays, and a clock that goes any distance.                             *)
(***************************************************************************)
EXTENDS TimerQueue, TLAPS

-----------------------------------------------------------------------------
(* Types *)

\* What resetTimerfd leaves in the timerfd.
LEMMA ResetTimerfdType ==
  ASSUME TypeOK, NEW when \in Int, ResetTimerfd(when)
  PROVE  /\ fd' \in [state : {"off", "armed", "expired"}, at : Nat]
         /\ fd'.state = "armed"
         /\ fd'.at <= clock \/ fd'.at = when - shift
BY DEF ResetTimerfd, TypeOK, Now

\* What addTimer does to the variables on the loop's thread.
LEMMA AddTimerType ==
  ASSUME TypeOK, AddTimer
  PROVE  \E s \in Timer :
           /\ s = made + 1 /\ made' = s /\ s \notin 1 .. made
           /\ due' \in [Timer -> Int] /\ interval' \in [Timer -> {0, Interval}]
           /\ \A q \in 1 .. made : due'[q] = due[q] /\ interval'[q] = interval[q]
           /\ AddTimerInLoop(s, due')
<1>1. PICK s \in Timer, when \in Times, i \in {0, Interval} :
        NewTimer(s, when, i) /\ AddTimerInLoop(s, due')
  BY DEF AddTimer
<1>2. when \in Int
  BY TimerQueueAssumption DEF Times, Now, TypeOK
<1>3. s = made + 1 /\ made' = s /\ s \notin 1 .. made
  BY <1>1 DEF NewTimer, TypeOK, Timer
<1>4. due' = [due EXCEPT ![s] = when] /\ interval' = [interval EXCEPT ![s] = i]
  BY <1>1 DEF NewTimer
<1>5. due' \in [Timer -> Int] /\ interval' \in [Timer -> {0, Interval}]
  BY <1>2, <1>4 DEF TypeOK
<1>6. \A q \in 1 .. made : due'[q] = due[q] /\ interval'[q] = interval[q]
  BY <1>3, <1>4, TimerQueueAssumption DEF TypeOK, Timer
<1>7. QED BY <1>1, <1>3, <1>5, <1>6

\* Inserting a timer keeps the types of what it changes.
LEMMA InsertType ==
  ASSUME TypeOK, NEW s \in Timer, NEW d \in [Timer -> Int], AddTimerInLoop(s, d)
  PROVE  /\ timers' = timers \cup {s}
         /\ late' = IF pc = "run" THEN late \cup {s} ELSE late
         /\ fd' \in [state : {"off", "armed", "expired"}, at : Nat]
<1>1. d[s] \in Int
  OBVIOUS
<1>2. QED BY <1>1, ResetTimerfdType DEF AddTimerInLoop, TypeOK

\* The initial state is well typed.
LEMMA TypeInit == Init => TypeOK
<1> SUFFICES ASSUME Init PROVE TypeOK
  OBVIOUS
<1>1. posted \in Seq(1 .. made) /\ functors \in Seq(1 .. made)
  BY DEF Init
<1>2. due \in [Timer -> Int] /\ interval \in [Timer -> {0, Interval}]
  BY DEF Init
<1>3. fd \in [state : {"off", "armed", "expired"}, at : Nat]
  BY DEF Init, Off
<1>4. made = 0 /\ made \in 0 .. MaxTimers
  BY TimerQueueAssumption DEF Init
<1>5. clock \in Nat /\ shift \in Int /\ shift = 0 /\ readAt \in Int
  BY DEF Init
<1>6. /\ making = {} /\ timers = {} /\ expired = {} /\ done = {} /\ late = {}
      /\ rung = {} /\ pc = "poll" /\ ready = FALSE
  BY DEF Init
<1>7. adjusted = FALSE
  BY DEF Init
<1>8. QED BY <1>1, <1>2, <1>3, <1>4, <1>5, <1>6, <1>7 DEF TypeOK

\* The functors queued and taken are still sequences of timers when there is
\* one more.
LEMMA PostedType ==
  ASSUME TypeOK, made' = made + 1
  PROVE  posted \in Seq(1 .. made') /\ functors \in Seq(1 .. made')
<1>1. 1 .. made \subseteq 1 .. made'
  BY DEF TypeOK
<1>2. QED BY <1>1 DEF TypeOK

\* Every step keeps the state well typed.
LEMMA TypeNext == TypeOK /\ [Next]_vars => TypeOK'
<1> SUFFICES ASSUME TypeOK, [Next]_vars PROVE TypeOK'
  OBVIOUS
<1>0. \A s \in 1 .. made : s \in Timer
  BY TimerQueueAssumption DEF TypeOK, Timer
<1>1. CASE MakeTimer
  <2>1. PICK s \in Timer, when \in Times, i \in {0, Interval} :
          NewTimer(s, when, i) /\ making' = making \cup {s}
    BY <1>1 DEF MakeTimer
  <2>2. when \in Int
    BY TimerQueueAssumption DEF Times, Now, TypeOK
  <2>3. s = made + 1 /\ made' = s /\ made' \in 0 .. MaxTimers
    BY <2>1, TimerQueueAssumption DEF NewTimer, Timer, TypeOK
  <2>4. due' = [due EXCEPT ![s] = when] /\ interval' = [interval EXCEPT ![s] = i]
    BY <2>1 DEF NewTimer
  <2>5. due' \in [Timer -> Int] /\ interval' \in [Timer -> {0, Interval}]
    BY <2>2, <2>4 DEF TypeOK
  <2>6. posted' \in Seq(1 .. made') /\ functors' \in Seq(1 .. made')
    BY <1>1, <2>3, PostedType DEF MakeTimer
  <2>7. \A q \in 1 .. made : due'[q] = due[q]
    BY <2>3, <2>4, <1>0 DEF TypeOK
  <2>8. /\ clock' = clock /\ shift' = shift /\ adjusted' = adjusted
        /\ timers' = timers /\ fd' = fd /\ pc' = pc /\ ready' = ready
        /\ readAt' = readAt /\ expired' = expired /\ done' = done
        /\ late' = late /\ rung' = rung
    BY <1>1 DEF MakeTimer, world, batch
  <2>9. \A q \in expired' : due'[q] <= readAt'
    BY <2>7, <2>8 DEF TypeOK
  <2>10. /\ making' \subseteq 1 .. made' /\ timers' \subseteq 1 .. made'
         /\ expired' \subseteq 1 .. made' /\ rung' \subseteq 1 .. made'
    BY <2>1, <2>3, <2>8 DEF TypeOK
  <2>11. QED
    BY <2>3, <2>5, <2>6, <2>8, <2>9, <2>10 DEF TypeOK
<1>2. ASSUME NEW s \in Timer, QueueTimer(s) PROVE TypeOK'
  <2>1. posted' \in Seq(1 .. made') /\ functors' \in Seq(1 .. made')
    BY <1>2 DEF QueueTimer, TypeOK
  <2>2. QED BY <1>2, <2>1 DEF QueueTimer, TypeOK, world, queue, batch
<1>3. CASE Poll
  BY <1>3 DEF Poll, TypeOK, world, queue, batch
<1>4. CASE HandleEvent
  <2>1. PICK s \in Timer :
           /\ s = made + 1 /\ made' = s /\ s \notin 1 .. made
           /\ due' \in [Timer -> Int] /\ interval' \in [Timer -> {0, Interval}]
           /\ \A q \in 1 .. made : due'[q] = due[q] /\ interval'[q] = interval[q]
           /\ AddTimerInLoop(s, due')
    BY <1>4, AddTimerType DEF HandleEvent
  <2>2. posted' \in Seq(1 .. made') /\ functors' \in Seq(1 .. made')
    BY <1>4, <2>1, PostedType DEF HandleEvent, queue
  <2>3. /\ timers' = timers \cup {s} /\ late' = late
        /\ fd' \in [state : {"off", "armed", "expired"}, at : Nat]
    BY <1>4, <2>1, InsertType DEF HandleEvent
  <2>4. made' \in 0 .. MaxTimers
    BY <2>1, TimerQueueAssumption DEF Timer, TypeOK
  <2>5. /\ clock' = clock /\ shift' = shift /\ adjusted' = adjusted
        /\ making' = making /\ pc' = pc /\ ready' = ready /\ readAt' = readAt
        /\ expired' = expired /\ done' = done /\ rung' = rung
    BY <1>4 DEF HandleEvent, world, queue, batch
  <2>6. /\ making' \subseteq 1 .. made' /\ timers' \subseteq 1 .. made'
        /\ expired' \subseteq 1 .. made' /\ rung' \subseteq 1 .. made'
    BY <2>1, <2>3, <2>5 DEF TypeOK
  <2>7. \A q \in expired' : due'[q] <= readAt'
    BY <2>1, <2>5 DEF TypeOK
  <2>8. QED
    BY <2>1, <2>2, <2>3, <2>4, <2>5, <2>6, <2>7 DEF TypeOK
<1>5. CASE HandleRead
  <2>1. fd' \in [state : {"off", "armed", "expired"}, at : Nat]
    BY <1>5 DEF HandleRead, Off
  <2>2. readAt' = Now /\ Now \in Int
    BY <1>5 DEF HandleRead, TypeOK, Now
  <2>3. expired' \subseteq timers /\ \A s \in expired' : due[s] <= readAt'
    BY <1>5, <2>2 DEF HandleRead
  <2>4. timers' \subseteq 1 .. made /\ expired' \subseteq 1 .. made
    BY <1>5, <2>3 DEF HandleRead, TypeOK
  <2>5. QED BY <1>5, <2>1, <2>2, <2>3, <2>4 DEF HandleRead, TypeOK, world, queue
<1>6. CASE HandleReadFails
  BY <1>6 DEF HandleReadFails, TypeOK, world, queue, batch
<1>7. CASE RunTimer
  <2>1. /\ \E s \in expired \ done :
             /\ done' = done \cup {s}
             /\ rung' = IF interval[s] = 0 THEN rung \cup {s} ELSE rung
        /\ pc = "run" /\ pc' = pc /\ ready' = ready /\ making' = making
        /\ posted' = posted /\ functors' = functors /\ readAt' = readAt /\ expired' = expired
        /\ clock' = clock /\ shift' = shift /\ adjusted' = adjusted
    BY <1>7 DEF RunTimer, world, queue
  <2>2. CASE UNCHANGED <<made, due, interval, timers, fd, late>>
    BY <2>1, <2>2 DEF TypeOK
  <2>3. CASE AddTimer
    <3>1. PICK s \in Timer :
             /\ s = made + 1 /\ made' = s /\ s \notin 1 .. made
             /\ due' \in [Timer -> Int] /\ interval' \in [Timer -> {0, Interval}]
             /\ \A q \in 1 .. made : due'[q] = due[q] /\ interval'[q] = interval[q]
             /\ AddTimerInLoop(s, due')
      BY <2>3, AddTimerType
    <3>2. posted' \in Seq(1 .. made') /\ functors' \in Seq(1 .. made')
      BY <2>1, <3>1, PostedType
    <3>3. /\ timers' = timers \cup {s} /\ late' = late \cup {s}
          /\ fd' \in [state : {"off", "armed", "expired"}, at : Nat]
      BY <2>1, <3>1, InsertType
    <3>4. made' \in 0 .. MaxTimers
      BY <3>1, TimerQueueAssumption DEF Timer, TypeOK
    <3>5. done' \subseteq expired' /\ rung' \subseteq 1 .. made'
      BY <2>1, <3>1 DEF TypeOK
    <3>6. QED BY <2>1, <3>1, <3>2, <3>3, <3>4, <3>5 DEF TypeOK
  <2>4. QED BY <1>7, <2>2, <2>3 DEF RunTimer
<1>8. CASE Reset
  <2>1. due' \in [Timer -> Int]
    <3>1. Interval \in Int /\ readAt \in Int
      BY TimerQueueAssumption DEF TypeOK
    <3>2. ASSUME NEW s \in Timer
          PROVE  (IF s \in expired /\ interval[s] > 0 THEN readAt + interval[s]
                                                     ELSE due[s]) \in Int
      <4>1. interval[s] \in {0, Interval} /\ due[s] \in Int
        BY DEF TypeOK
      <4>2. readAt + interval[s] \in Int
        BY <3>1, <4>1
      <4>3. QED BY <4>1, <4>2
    <3>3. QED BY <1>8, <3>2 DEF Reset, Restarted
  <2>2. timers' \subseteq 1 .. made
    BY <1>8 DEF Reset, TypeOK
  <2>3. fd' \in [state : {"off", "armed", "expired"}, at : Nat]
    <3>1. CASE timers' = {}
      BY <1>8, <3>1 DEF Reset, TypeOK
    <3>2. CASE timers' # {}
      <4>1. PICK s \in timers' : ResetTimerfd(due'[s])
        BY <1>8, <3>2 DEF Reset
      <4>2. due'[s] \in Int
        BY <1>0, <2>1, <2>2
      <4>3. QED BY <4>1, <4>2, ResetTimerfdType
    <3>3. QED BY <3>1, <3>2
  <2>4. QED BY <1>8, <2>1, <2>2, <2>3 DEF Reset, TypeOK, world, queue
<1>9. CASE EventsDone
  BY <1>9 DEF EventsDone, TypeOK, world, queue, batch
<1>10. CASE RunFunctor
  <2>1. Head(functors) \in 1 .. made /\ Tail(functors) \in Seq(1 .. made)
    BY <1>10 DEF RunFunctor, TypeOK
  <2>2. /\ timers' = timers \cup {Head(functors)} /\ late' = late
        /\ fd' \in [state : {"off", "armed", "expired"}, at : Nat]
    BY <1>0, <1>10, <2>1, InsertType DEF RunFunctor, TypeOK
  <2>3. QED BY <1>10, <2>1, <2>2 DEF RunFunctor, TypeOK, world, queue, batch
<1>11. CASE FunctorsDone
  BY <1>11 DEF FunctorsDone, TypeOK, world, queue, batch
<1>12. CASE Expire
  BY <1>12 DEF Expire, TypeOK, world, queue, batch
<1>13. CASE Tick
  BY <1>13 DEF Tick, TypeOK, queue, batch
<1>14. CASE SetSystemClock
  BY <1>14, TimerQueueAssumption DEF SetSystemClock, TypeOK, queue, batch
<1>15. CASE UNCHANGED vars
  BY <1>15 DEF vars, TypeOK, world, queue, batch
<1>16. QED
  BY <1>1, <1>2, <1>3, <1>4, <1>5, <1>6, <1>7, <1>8, <1>9, <1>10, <1>11,
     <1>12, <1>13, <1>14, <1>15 DEF Next, LoopStep

\* Types, and the timers of a batch were due when it was taken.
THEOREM TypeCorrect == Spec => []TypeOK
BY TypeInit, TypeNext, PTL DEF Spec

-----------------------------------------------------------------------------
(* The timerfd *)

\* What TimerfdArmed says of a timerfd, a set of timers and their times.
Armed(f, set, d) ==
  \/ f.state = "expired"
  \/ /\ f.state = "armed"
     /\ adjusted \/ f.at <= clock \/ \A s \in set : f.at <= d[s]

\* Inserting a timer leaves the timerfd armed for it and for the others.
LEMMA InsertArmed ==
  ASSUME TypeOK, timers # {} => Armed(fd, timers, due),
         NEW s \in Timer, NEW d \in [Timer -> Int],
         \A q \in timers : d[q] = due[q],
         AddTimerInLoop(s, d)
  PROVE  Armed(fd', timers \cup {s}, d)
<1>0. /\ d[s] \in Int /\ clock \in Nat /\ shift \in Int /\ (~adjusted => shift = 0)
      /\ fd \in [state : {"off", "armed", "expired"}, at : Nat]
      /\ \A q \in timers : q \in Timer /\ d[q] \in Int
  BY TimerQueueAssumption DEF TypeOK, Timer
<1>1. CASE \A q \in timers : Before(d, s, q)
  <2>1. ResetTimerfd(d[s])
    BY <1>1 DEF AddTimerInLoop
  <2>2. /\ fd' \in [state : {"off", "armed", "expired"}, at : Nat]
        /\ fd'.state = "armed" /\ (fd'.at <= clock \/ fd'.at = d[s] - shift)
    BY <1>0, <2>1, ResetTimerfdType
  <2>3. \A q \in timers \cup {s} : d[s] <= d[q]
    BY <1>0, <1>1 DEF Before
  <2>4. CASE adjusted \/ fd'.at <= clock
    BY <2>2, <2>4 DEF Armed
  <2>5. CASE ~adjusted /\ fd'.at = d[s] - shift
    <3>1. fd'.at = d[s]
      BY <1>0, <2>5
    <3>2. QED BY <2>2, <2>3, <3>1 DEF Armed
  <2>6. QED BY <2>2, <2>4, <2>5
<1>2. CASE ~\A q \in timers : Before(d, s, q)
  <2>1. fd' = fd
    BY <1>2 DEF AddTimerInLoop
  <2>2. PICK q \in timers : ~Before(d, s, q)
    BY <1>2
  <2>3. d[q] <= d[s]
    BY <1>0, <2>2 DEF Before
  <2>4. Armed(fd, timers, due)
    OBVIOUS
  <2>5. (\A r \in timers : fd.at <= due[r]) => \A r \in timers \cup {s} : fd.at <= d[r]
    BY <1>0, <2>3
  <2>6. QED BY <2>1, <2>4, <2>5 DEF Armed
<1>3. QED BY <1>1, <1>2

\* Every step keeps TimerfdArmed.  What is left to show of a step that leaves
\* timers and timerfd alone is that time only passes.
LEMMA ArmedNext == TypeOK /\ TimerfdArmed /\ [Next]_vars => TimerfdArmed'
<1> SUFFICES ASSUME TypeOK, TimerfdArmed, [Next]_vars PROVE TimerfdArmed'
  OBVIOUS
<1>0. /\ \A s \in 1 .. made : s \in Timer
      /\ timers \subseteq 1 .. made /\ clock \in Nat
      /\ fd \in [state : {"off", "armed", "expired"}, at : Nat]
  BY TimerQueueAssumption DEF TypeOK, Timer
<1>a. pc # "run" => (timers # {} => Armed(fd, timers, due))
  BY DEF TimerfdArmed, Armed
<1>1. CASE MakeTimer
  <2>1. PICK s \in Timer, when \in Times : s = made + 1 /\ due' = [due EXCEPT ![s] = when]
    BY <1>1 DEF MakeTimer, NewTimer
  <2>2. \A q \in timers : due'[q] = due[q]
    BY <1>0, <2>1 DEF TypeOK
  <2>3. QED BY <1>1, <2>2 DEF MakeTimer, TimerfdArmed, world
<1>2. ASSUME NEW s \in Timer, QueueTimer(s) PROVE TimerfdArmed'
  BY <1>2 DEF QueueTimer, TimerfdArmed, world
<1>3. CASE Poll \/ HandleReadFails \/ EventsDone \/ FunctorsDone
  BY <1>3 DEF Poll, HandleReadFails, EventsDone, FunctorsDone, TimerfdArmed, world
<1>4. CASE HandleEvent
  <2>1. PICK s \in Timer :
           /\ s \notin 1 .. made /\ due' \in [Timer -> Int]
           /\ \A q \in 1 .. made : due'[q] = due[q]
           /\ AddTimerInLoop(s, due')
    BY <1>4, AddTimerType DEF HandleEvent
  <2>2. Armed(fd', timers \cup {s}, due')
    BY <1>0, <1>a, <1>4, <2>1, InsertArmed DEF HandleEvent
  <2>3. timers' = timers \cup {s}
    BY <2>1 DEF AddTimerInLoop
  <2>4. QED BY <1>4, <2>2, <2>3 DEF HandleEvent, Armed, TimerfdArmed, world
<1>5. CASE HandleRead
  BY <1>5 DEF HandleRead, TimerfdArmed
<1>6. CASE RunTimer
  BY <1>6 DEF RunTimer, TimerfdArmed
<1>7. CASE Reset
  <2>1. SUFFICES ASSUME timers' # {} PROVE TimerfdArmed'
    BY DEF TimerfdArmed
  <2>2. PICK s \in timers' : First(due', s, timers') /\ ResetTimerfd(due'[s])
    BY <1>7, <2>1 DEF Reset
  <2>3. /\ due' \in [Timer -> Int] /\ timers' \subseteq 1 .. made
        /\ clock' = clock /\ shift' = shift /\ adjusted' = adjusted
    BY <1>7, TypeNext DEF Reset, TypeOK, world, queue
  <2>4. due'[s] \in Int /\ \A q \in timers' : due'[q] \in Int
    BY <1>0, <2>3
  <2>5. /\ fd' \in [state : {"off", "armed", "expired"}, at : Nat]
        /\ fd'.state = "armed" /\ (fd'.at <= clock \/ fd'.at = due'[s] - shift)
    BY <2>2, <2>4, ResetTimerfdType
  <2>6. \A q \in timers' : due'[s] <= due'[q]
    BY <2>2, <2>4 DEF First, Before
  <2>7. shift \in Int /\ (~adjusted => shift = 0)
    BY DEF TypeOK
  <2>8. CASE adjusted \/ fd'.at <= clock
    BY <2>3, <2>5, <2>8 DEF TimerfdArmed
  <2>9. CASE ~adjusted /\ fd'.at = due'[s] - shift
    <3>1. fd'.at = due'[s]
      BY <2>4, <2>7, <2>9
    <3>2. QED BY <2>5, <2>6, <3>1 DEF TimerfdArmed
  <2>10. QED BY <2>5, <2>8, <2>9
<1>8. CASE RunFunctor
  <2>1. Head(functors) \in 1 .. made
    BY <1>8 DEF RunFunctor, TypeOK
  <2>2. Armed(fd', timers \cup {Head(functors)}, due)
    BY <1>0, <1>a, <1>8, <2>1, InsertArmed DEF RunFunctor, TypeOK
  <2>3. timers' = timers \cup {Head(functors)}
    BY <1>8 DEF RunFunctor, AddTimerInLoop
  <2>4. QED BY <1>8, <2>2, <2>3 DEF RunFunctor, Armed, TimerfdArmed, world
<1>9. CASE Expire
  BY <1>9 DEF Expire, TimerfdArmed
<1>10. CASE Tick
  BY <1>0, <1>10 DEF Tick, TimerfdArmed
<1>11. CASE SetSystemClock
  BY <1>11 DEF SetSystemClock, TimerfdArmed
<1>12. CASE UNCHANGED vars
  BY <1>12 DEF vars, TimerfdArmed, world
<1>13. QED
  BY <1>1, <1>2, <1>3, <1>4, <1>5, <1>6, <1>7, <1>8, <1>9, <1>10, <1>11,
     <1>12 DEF Next, LoopStep

\* The timerfd is never left disarmed, or armed too late, while timers wait.
THEOREM TimerfdIsArmed == Spec => []TimerfdArmed
<1>1. Init => TimerfdArmed
  BY DEF Init, TimerfdArmed
<1>2. QED BY <1>1, TypeInit, TypeNext, ArmedNext, PTL DEF Spec

-----------------------------------------------------------------------------
(* The order of a batch *)

\* What waits while a batch runs is later than all of it, unless a callback of
\* the batch added it.
BatchFirst == pc = "run" => \A q \in timers \ late : due[q] > readAt

\* Every step keeps BatchFirst.
LEMMA BatchFirstNext == TypeOK /\ BatchFirst /\ [Next]_vars => BatchFirst'
<1> SUFFICES ASSUME TypeOK, BatchFirst, [Next]_vars, pc' = "run" PROVE BatchFirst'
  BY DEF BatchFirst
<1>0. \A s \in timers : s \in 1 .. made /\ s \in Timer /\ due[s] \in Int
  BY TimerQueueAssumption DEF TypeOK, Timer
<1>1. CASE MakeTimer
  <2>1. PICK s \in Timer, when \in Times : s = made + 1 /\ due' = [due EXCEPT ![s] = when]
    BY <1>1 DEF MakeTimer, NewTimer
  <2>2. \A q \in timers : due'[q] = due[q]
    BY <1>0, <2>1 DEF TypeOK
  <2>3. QED BY <1>1, <2>2 DEF MakeTimer, BatchFirst, batch
<1>2. CASE HandleRead
  <2>1. readAt' = Now /\ Now \in Int /\ due' = due /\ late' = {}
    BY <1>2 DEF HandleRead, TypeOK, Now
  <2>2. timers' = timers \ {s \in timers : due[s] <= Now}
    BY <1>2 DEF HandleRead
  <2>3. QED BY <1>0, <2>1, <2>2 DEF BatchFirst
<1>3. CASE RunTimer
  <2>1. pc = "run" /\ readAt' = readAt
    BY <1>3 DEF RunTimer
  <2>2. CASE UNCHANGED <<made, due, interval, timers, fd, late>>
    BY <2>1, <2>2 DEF BatchFirst
  <2>3. CASE AddTimer
    <3>1. PICK s \in Timer : /\ \A q \in 1 .. made : due'[q] = due[q]
                             /\ AddTimerInLoop(s, due')
      BY <2>3, AddTimerType
    <3>2. timers' = timers \cup {s} /\ late' = late \cup {s}
      BY <2>1, <3>1 DEF AddTimerInLoop
    <3>3. QED BY <1>0, <2>1, <3>1, <3>2 DEF BatchFirst
  <2>4. QED BY <1>3, <2>2, <2>3 DEF RunTimer
<1>4. CASE \/ Poll \/ HandleEvent \/ HandleReadFails \/ Reset
           \/ EventsDone \/ RunFunctor \/ FunctorsDone
  BY <1>4 DEF Poll, HandleEvent, HandleReadFails, Reset, EventsDone, RunFunctor,
              FunctorsDone
<1>5. CASE \/ Expire \/ Tick \/ SetSystemClock \/ UNCHANGED vars
           \/ \E s \in Timer : QueueTimer(s)
  BY <1>5 DEF Expire, Tick, SetSystemClock, QueueTimer, vars, batch, BatchFirst
<1>6. QED
  BY <1>1, <1>2, <1>3, <1>4, <1>5 DEF Next, LoopStep

\* Timers run by their times, and in the order of their making at equal times.
THEOREM TimersRunInOrder == Spec => RunsInOrder
<1> DEFINE InOrder ==
      \A s \in Timer : s \in done' \ done =>
        \A q \in (timers \ late) \cup (expired \ done') :
          due[s] < due[q] \/ (due[s] = due[q] /\ s < q)
<1>1. TypeOK /\ BatchFirst /\ [Next]_vars => InOrder
  <2> SUFFICES ASSUME TypeOK, BatchFirst, [Next]_vars,
                      NEW s \in Timer, s \in done' \ done,
                      NEW q \in (timers \ late) \cup (expired \ done')
               PROVE  due[s] < due[q] \/ (due[s] = due[q] /\ s < q)
    OBVIOUS
  <2>1. RunTimer
    <3>1. CASE MakeTimer \/ Poll \/ HandleEvent \/ Expire \/ Tick \/ SetSystemClock
      BY <3>1 DEF MakeTimer, Poll, HandleEvent, Expire, Tick, SetSystemClock, batch
    <3>2. CASE \/ HandleRead \/ HandleReadFails \/ Reset \/ EventsDone
               \/ RunFunctor \/ FunctorsDone
      BY <3>2 DEF HandleRead, HandleReadFails, Reset, EventsDone, RunFunctor,
                  FunctorsDone, batch
    <3>3. CASE UNCHANGED vars \/ \E r \in Timer : QueueTimer(r)
      BY <3>3 DEF vars, QueueTimer, batch
    <3>4. QED BY <3>1, <3>2, <3>3 DEF Next, LoopStep
  <2>2. /\ s \in expired \ done /\ done' = done \cup {s} /\ pc = "run"
        /\ First(due, s, expired \ done)
    BY <2>1 DEF RunTimer
  <2>3. /\ s \in Int /\ q \in Int /\ due[s] \in Int /\ due[q] \in Int
        /\ readAt \in Int /\ due[s] <= readAt
    BY <2>2, TimerQueueAssumption DEF TypeOK, Timer
  <2>4. CASE q \in timers \ late
    BY <2>2, <2>3, <2>4 DEF BatchFirst
  <2>5. CASE q \in expired \ done'
    <3>1. q # s /\ ~Before(due, q, s)
      BY <2>2, <2>5 DEF First
    <3>2. QED BY <2>3, <3>1 DEF Before
  <2>6. QED BY <2>4, <2>5
<1>2. Init => BatchFirst
  BY DEF Init, BatchFirst
<1>3. QED
  BY <1>1, <1>2, TypeInit, TypeNext, BatchFirstNext, PTL DEF Spec, RunsInOrder

-----------------------------------------------------------------------------
(* Where each timer is *)

Elems(q) == {q[k] : k \in 1 .. Len(q)}
Distinct(q) == \A i, j \in 1 .. Len(q) : q[i] = q[j] => i = j

\* A timer is in one place at most: with the thread that has made it, queued
\* or taken as a functor, in timers_, or in the batch.  What doPendingFunctors
\* takes, it uses up.
Placed ==
  /\ Distinct(posted) /\ Distinct(functors)
  /\ pc # "functors" => functors = <<>>
  /\ \A s \in making : s \notin timers \cup Elems(posted) \cup Elems(functors) \cup expired
  /\ \A s \in timers : s \notin Elems(posted) \cup Elems(functors) \cup expired
  /\ \A s \in Elems(posted) : s \notin Elems(functors) \cup expired
  /\ \A s \in Elems(functors) : s \notin expired

\* The batch's part of Waiting.
ToRun == {s \in expired : s \notin done \/ interval[s] > 0}

\* The timers that wait, by place.
LEMMA WaitingIs ==
  Waiting = making \cup timers \cup Elems(posted) \cup Elems(functors) \cup ToRun
BY DEF Waiting, Elems, ToRun

\* What a queue contains when a functor is added.
LEMMA AppendElems ==
  ASSUME NEW S, NEW q \in Seq(S), NEW s \in S
  PROVE  /\ Elems(Append(q, s)) = Elems(q) \cup {s}
         /\ Distinct(q) /\ s \notin Elems(q) => Distinct(Append(q, s))
<1> DEFINE r == Append(q, s)
<1>1. /\ Len(q) \in Nat /\ Len(r) = Len(q) + 1 /\ r[Len(r)] = s
      /\ \A k \in 1 .. Len(q) : r[k] = q[k]
  OBVIOUS
<1>2. 1 .. Len(r) = 1 .. Len(q) \cup {Len(r)}
  BY <1>1
<1> HIDE DEF r
<1>3. Elems(r) = Elems(q) \cup {s}
  BY <1>1, <1>2 DEF Elems
<1>4. Distinct(q) /\ s \notin Elems(q) => Distinct(r)
  BY <1>1, <1>2 DEF Elems, Distinct
<1> QED
  BY <1>3, <1>4 DEF r

\* And when the first is taken.
LEMMA TailElems ==
  ASSUME NEW S, NEW q \in Seq(S), q # <<>>, Distinct(q)
  PROVE  /\ Head(q) \in Elems(q) /\ Elems(Tail(q)) = Elems(q) \ {Head(q)}
         /\ Distinct(Tail(q))
<1> DEFINE r == Tail(q)
<1>1. /\ Len(q) \in Nat \ {0} /\ Len(r) = Len(q) - 1 /\ Head(q) = q[1]
      /\ \A k \in 1 .. Len(r) : r[k] = q[k + 1]
  OBVIOUS
<1> HIDE DEF r
<1>2. Head(q) \in Elems(q)
  BY <1>1 DEF Elems
<1>3. ASSUME NEW x \in Elems(r) PROVE x \in Elems(q) \ {Head(q)}
  <2>1. PICK k \in 1 .. Len(r) : x = r[k]
    BY DEF Elems
  <2>2. k + 1 \in 1 .. Len(q) /\ x = q[k + 1] /\ k + 1 # 1
    BY <1>1, <2>1
  <2> QED
    BY <1>1, <2>2 DEF Elems, Distinct
<1>4. ASSUME NEW x \in Elems(q) \ {Head(q)} PROVE x \in Elems(r)
  <2>1. PICK k \in 1 .. Len(q) : x = q[k]
    BY DEF Elems
  <2>2. k - 1 \in 1 .. Len(r) /\ x = r[k - 1]
    BY <1>1, <2>1
  <2> QED
    BY <2>2 DEF Elems
<1>5. Distinct(r)
  <2> SUFFICES ASSUME NEW i \in 1 .. Len(r), NEW j \in 1 .. Len(r), r[i] = r[j]
               PROVE  i = j
    BY DEF Distinct
  <2>1. i + 1 \in 1 .. Len(q) /\ j + 1 \in 1 .. Len(q) /\ q[i + 1] = q[j + 1]
    BY <1>1
  <2> QED
    BY <2>1 DEF Distinct
<1> QED
  BY <1>2, <1>3, <1>4, <1>5 DEF r

\* An empty queue.
LEMMA EmptyElems == Elems(<<>>) = {} /\ Distinct(<<>>)
BY DEF Elems, Distinct

\* All timers of the queues are timers that have been made.
LEMMA ElemsMade ==
  ASSUME TypeOK
  PROVE  Elems(posted) \subseteq 1 .. made /\ Elems(functors) \subseteq 1 .. made
BY DEF TypeOK, Elems

\* A step that leaves every timer where it is.
LEMMA PlacesKept ==
  ASSUME Placed, NoTimerLost,
         UNCHANGED <<made, interval, queue, timers, expired, done, rung>>,
         pc' = "functors" \/ pc # "functors" \/ functors = <<>>
  PROVE  Placed' /\ NoTimerLost'
<1>1. Placed'
  BY DEF Placed, queue, Elems, Distinct
<1>2. NoTimerLost'
  BY DEF NoTimerLost, Waiting, queue
<1> QED
  BY <1>1, <1>2

\* A timer that has just been made, and is in timers_ or with another thread.
LEMMA NewPlace ==
  ASSUME TypeOK, Placed, NoTimerLost, made' = made + 1,
         \/ making' = making \cup {made'} /\ timers' = timers
         \/ timers' = timers \cup {made'} /\ making' = making,
         \A q \in 1 .. made : interval'[q] = interval[q],
         UNCHANGED <<posted, functors, pc, expired, done, rung>>
  PROVE  Placed' /\ NoTimerLost'
<1>0. made \in Nat
  BY TimerQueueAssumption DEF TypeOK
<1>1. /\ made' \notin 1 .. made /\ 1 .. made' = 1 .. made \cup {made'}
      /\ making \subseteq 1 .. made /\ timers \subseteq 1 .. made
      /\ expired \subseteq 1 .. made /\ done \subseteq expired
      /\ rung \subseteq 1 .. made
  <2>1. made' \notin 1 .. made /\ 1 .. made' = 1 .. made \cup {made'}
    BY <1>0
  <2> QED
    BY <2>1 DEF TypeOK
<1>2. Elems(posted)' = Elems(posted) /\ Elems(functors)' = Elems(functors)
  BY DEF Elems
<1>3. Distinct(posted)' = Distinct(posted) /\ Distinct(functors)' = Distinct(functors)
  BY DEF Distinct
<1>4. Placed'
  <2>1. /\ made' \notin making /\ made' \notin timers /\ made' \notin Elems(posted)
        /\ made' \notin Elems(functors) /\ made' \notin expired
    BY <1>1, ElemsMade
  <2> QED
    BY <1>2, <1>3, <2>1 DEF Placed
<1>5. ToRun' = ToRun
  BY <1>1 DEF ToRun
<1>6. /\ Waiting = making \cup timers \cup Elems(posted) \cup Elems(functors) \cup ToRun
      /\ Waiting' = making' \cup timers' \cup Elems(posted) \cup Elems(functors) \cup ToRun
  BY <1>2, <1>5, WaitingIs DEF Waiting, Elems, ToRun
<1>7. Waiting' = Waiting \cup {made'}
  BY <1>6
<1>8. NoTimerLost'
  BY <1>1, <1>7 DEF NoTimerLost
<1> QED
  BY <1>4, <1>8

\* A callback of the batch has returned, and has added the timers of new.
LEMMA RunPlace ==
  ASSUME TypeOK, Placed, NoTimerLost, NEW s \in expired \ done, NEW new,
         done' = done \cup {s},
         rung' = IF interval[s] = 0 THEN rung \cup {s} ELSE rung,
         timers' = timers \cup new, new \cap (1 .. made) = {},
         1 .. made' = 1 .. made \cup new,
         \A q \in 1 .. made : interval'[q] = interval[q],
         UNCHANGED <<queue, expired, pc>>
  PROVE  Placed' /\ NoTimerLost'
<1>1. /\ making \subseteq 1 .. made /\ expired \subseteq 1 .. made /\ rung \subseteq 1 .. made
      /\ making' = making /\ posted' = posted /\ functors' = functors
  BY DEF TypeOK, queue
<1>2. Elems(posted)' = Elems(posted) /\ Elems(functors)' = Elems(functors)
  BY <1>1 DEF Elems
<1>3. Placed'
  <2>1. Distinct(posted)' = Distinct(posted) /\ Distinct(functors)' = Distinct(functors)
    BY <1>1 DEF Distinct
  <2>2. \A q \in new : /\ q \notin making /\ q \notin Elems(posted)
                      /\ q \notin Elems(functors) /\ q \notin expired
    BY <1>1, ElemsMade
  <2> QED
    BY <1>1, <1>2, <2>1, <2>2 DEF Placed
<1>4. ToRun' = IF interval[s] = 0 THEN ToRun \ {s} ELSE ToRun
  <2>1. s \in 1 .. made
    BY <1>1
  <2>2. Interval \in Nat /\ interval[s] \in {0, Interval}
    BY <2>1, TimerQueueAssumption DEF TypeOK, Timer
  <2>3. interval[s] = 0 \/ interval[s] > 0
    BY <2>2
  <2>4. \A q \in expired : interval'[q] = interval[q]
    BY <1>1
  <2> QED
    BY <2>3, <2>4 DEF ToRun
<1>5. s \in ToRun /\ s \notin making \cup timers \cup Elems(posted) \cup Elems(functors)
  BY DEF ToRun, Placed
<1>6. /\ Waiting = making \cup timers \cup Elems(posted) \cup Elems(functors) \cup ToRun
      /\ Waiting' = making \cup timers' \cup Elems(posted) \cup Elems(functors) \cup ToRun'
  BY <1>1, <1>2, WaitingIs DEF Waiting, Elems, ToRun
<1>7. Waiting' = new \cup (IF interval[s] = 0 THEN Waiting \ {s} ELSE Waiting)
  BY <1>4, <1>5, <1>6
<1>8. s \in 1 .. made /\ s \notin new
  BY <1>1
<1>9. NoTimerLost'
  BY <1>1, <1>5, <1>6, <1>7, <1>8 DEF NoTimerLost
<1> QED
  BY <1>3, <1>9

\* reset puts the timers that repeat back into timers_.
LEMMA ResetPlace ==
  ASSUME TypeOK, Placed, NoTimerLost, Reset
  PROVE  Placed' /\ NoTimerLost'
<1>1. /\ timers' = timers \cup ToRun /\ expired' = {} /\ pc = "run" /\ pc' # "functors"
      /\ UNCHANGED <<made, making, posted, functors, interval, rung>>
  BY DEF Reset, ToRun, queue
<1>2. Elems(posted)' = Elems(posted) /\ Elems(functors)' = Elems(functors)
  BY <1>1 DEF Elems
<1>3. ToRun \subseteq expired
  BY DEF ToRun
<1>4. Placed'
  <2>1. Distinct(posted)' = Distinct(posted) /\ Distinct(functors)' = Distinct(functors)
    BY <1>1 DEF Distinct
  <2> QED
    BY <1>1, <1>2, <1>3, <2>1 DEF Placed
<1>5. ToRun' = {}
  BY <1>1 DEF ToRun
<1>6. /\ Waiting = making \cup timers \cup Elems(posted) \cup Elems(functors) \cup ToRun
      /\ Waiting' = making \cup timers' \cup Elems(posted) \cup Elems(functors)
  BY <1>1, <1>2, <1>5, WaitingIs DEF Waiting, Elems, ToRun
<1>7. NoTimerLost'
  BY <1>1, <1>6 DEF NoTimerLost
<1> QED
  BY <1>4, <1>7

\* handleRead takes the batch out of timers_.
LEMMA ReadPlace ==
  ASSUME TypeOK, Placed, NoTimerLost, HandleRead
  PROVE  Placed' /\ NoTimerLost'
<1>1. /\ expired' \subseteq timers /\ timers' = timers \ expired' /\ done' = {}
      /\ pc # "functors" /\ pc' # "functors" /\ expired = {}
      /\ UNCHANGED <<made, making, posted, functors, interval, rung>>
  BY DEF HandleRead, queue, TypeOK
<1>2. Elems(posted)' = Elems(posted) /\ Elems(functors)' = Elems(functors)
  BY <1>1 DEF Elems
<1>3. Placed'
  <2>1. Distinct(posted)' = Distinct(posted) /\ Distinct(functors)' = Distinct(functors)
    BY <1>1 DEF Distinct
  <2> QED
    BY <1>1, <1>2, <2>1 DEF Placed
<1>4. ToRun = {} /\ ToRun' = expired'
  BY <1>1 DEF ToRun
<1>5. /\ Waiting = making \cup timers \cup Elems(posted) \cup Elems(functors)
      /\ Waiting' = making \cup timers' \cup Elems(posted) \cup Elems(functors)
                       \cup expired'
  BY <1>1, <1>2, <1>4, WaitingIs DEF Waiting, Elems, ToRun
<1>6. NoTimerLost'
  BY <1>1, <1>5 DEF NoTimerLost
<1> QED
  BY <1>3, <1>6

\* A thread queues a timer, doPendingFunctors takes the queue and runs what it
\* has taken: each moves timers from one place to the next.
LEMMA QueuePlace ==
  ASSUME TypeOK, Placed, NoTimerLost,
         EventsDone \/ RunFunctor \/ (\E s \in Timer : QueueTimer(s))
  PROVE  Placed' /\ NoTimerLost'
<1>0. posted \in Seq(1 .. made) /\ functors \in Seq(1 .. made) /\ making \subseteq 1 .. made
  BY DEF TypeOK
<1>1. UNCHANGED <<made, interval, expired, done, rung>>
  BY DEF EventsDone, RunFunctor, QueueTimer, batch
<1>2. ToRun' = ToRun
  BY <1>1 DEF ToRun
<1>3. Waiting' = making' \cup timers' \cup Elems(posted') \cup Elems(functors') \cup ToRun
  BY <1>2 DEF Waiting, Elems, ToRun
<1>4. ASSUME Placed',
             making' \cup timers' \cup Elems(posted') \cup Elems(functors')
               = making \cup timers \cup Elems(posted) \cup Elems(functors)
      PROVE  Placed' /\ NoTimerLost'
  <2>1. Waiting' = Waiting
    BY <1>3, <1>4, WaitingIs
  <2> QED
    BY <1>1, <1>4, <2>1 DEF NoTimerLost
<1>5. CASE EventsDone
  <2>1. /\ pc # "functors" /\ pc' = "functors" /\ functors = <<>>
        /\ functors' = posted /\ posted' = <<>> /\ timers' = timers /\ making' = making
    BY <1>5 DEF EventsDone, Placed
  <2>2. Elems(functors') = Elems(posted) /\ Elems(posted') = {} /\ Elems(functors) = {}
    BY <2>1, EmptyElems
  <2>3. Distinct(posted') /\ Distinct(functors')
    BY <2>1, EmptyElems DEF Placed
  <2>4. Placed'
    BY <1>1, <2>1, <2>2, <2>3 DEF Placed
  <2> QED
    BY <1>4, <2>1, <2>2, <2>4
<1>6. CASE RunFunctor
  <2> DEFINE h == Head(functors)
  <2>1. /\ pc = "functors" /\ pc' = pc /\ functors # <<>> /\ functors' = Tail(functors)
        /\ posted' = posted /\ timers' = timers \cup {h} /\ making' = making
    BY <1>6 DEF RunFunctor, AddTimerInLoop
  <2>2. h \in Elems(functors) /\ Elems(functors') = Elems(functors) \ {h} /\ Distinct(functors')
    BY <1>0, <2>1, TailElems DEF Placed
  <2> HIDE DEF h
  <2>3. Placed'
    BY <1>1, <2>1, <2>2 DEF Placed
  <2> QED
    BY <1>4, <2>1, <2>2, <2>3
<1>7. ASSUME NEW s \in Timer, QueueTimer(s) PROVE Placed' /\ NoTimerLost'
  <2>1. /\ s \in making /\ making' = making \ {s} /\ posted' = Append(posted, s)
        /\ functors' = functors /\ timers' = timers /\ pc' = pc
    BY <1>7 DEF QueueTimer
  <2>2. s \in 1 .. made /\ s \notin Elems(posted)
    BY <1>0, <2>1 DEF Placed
  <2>3. Elems(posted') = Elems(posted) \cup {s} /\ Distinct(posted')
    <3> DEFINE S == 1 .. made
    <3>1. posted \in Seq(S) /\ s \in S
      BY <1>0, <2>2
    <3> HIDE DEF S
    <3>2. /\ Elems(Append(posted, s)) = Elems(posted) \cup {s}
          /\ Distinct(posted) /\ s \notin Elems(posted) => Distinct(Append(posted, s))
      BY <3>1, AppendElems
    <3> QED
      BY <2>1, <2>2, <3>2 DEF Placed
  <2>4. Placed'
    BY <1>1, <2>1, <2>2, <2>3 DEF Placed
  <2> QED
    BY <1>4, <2>1, <2>3, <2>4
<1> QED
  BY <1>5, <1>6, <1>7

\* Every step leaves each timer in one place, and none without one.
LEMMA PlacedNext ==
  TypeOK /\ Placed /\ NoTimerLost /\ [Next]_vars => Placed' /\ NoTimerLost'
<1> SUFFICES ASSUME TypeOK, Placed, NoTimerLost, [Next]_vars
             PROVE  Placed' /\ NoTimerLost'
  OBVIOUS
<1>1. CASE MakeTimer
  <2>1. PICK s \in Timer, when \in Times, i \in {0, Interval} :
          NewTimer(s, when, i) /\ making' = making \cup {s}
    BY <1>1 DEF MakeTimer
  <2>2. s = made + 1 /\ made' = s /\ interval' = [interval EXCEPT ![s] = i]
    BY <2>1 DEF NewTimer
  <2>3. \A q \in 1 .. made : interval'[q] = interval[q]
    BY <2>2, TimerQueueAssumption DEF TypeOK, Timer
  <2> QED
    BY <1>1, <2>1, <2>2, <2>3, NewPlace DEF MakeTimer, batch
<1>2. CASE HandleEvent
  <2>1. PICK s \in Timer :
           /\ s = made + 1 /\ made' = s /\ \A q \in 1 .. made : interval'[q] = interval[q]
           /\ timers' = timers \cup {s}
    BY <1>2, AddTimerType DEF HandleEvent, AddTimerInLoop
  <2> QED
    BY <1>2, <2>1, NewPlace DEF HandleEvent, queue, batch
<1>3. CASE RunTimer
  <2>1. PICK s \in expired \ done :
           /\ done' = done \cup {s}
           /\ rung' = IF interval[s] = 0 THEN rung \cup {s} ELSE rung
    BY <1>3 DEF RunTimer
  <2>2. pc' = pc /\ queue' = queue /\ expired' = expired
    BY <1>3 DEF RunTimer
  <2>3. CASE UNCHANGED <<made, due, interval, timers, fd, late>>
    <3>1. timers' = timers \cup {} /\ {} \cap (1 .. made) = {} /\ 1 .. made' = 1 .. made \cup {}
      BY <2>3
    <3> QED
      BY <2>1, <2>2, <2>3, <3>1, RunPlace
  <2>4. CASE AddTimer
    <3>1. PICK t \in Timer :
             /\ t = made + 1 /\ made' = t /\ \A q \in 1 .. made : interval'[q] = interval[q]
             /\ timers' = timers \cup {t}
      BY <2>4, AddTimerType DEF AddTimerInLoop
    <3>2. {t} \cap (1 .. made) = {} /\ 1 .. made' = 1 .. made \cup {t}
      <4>1. made \in Nat
        BY TimerQueueAssumption DEF TypeOK
      <4> QED
        BY <3>1, <4>1
    <3> QED
      BY <2>1, <2>2, <3>1, <3>2, RunPlace
  <2> QED
    BY <1>3, <2>3, <2>4 DEF RunTimer
<1>4. CASE \/ Poll \/ HandleReadFails \/ FunctorsDone \/ Expire \/ Tick
           \/ SetSystemClock \/ UNCHANGED vars
  <2>1. /\ UNCHANGED <<made, interval, queue, timers, expired, done, rung>>
        /\ pc' = "functors" \/ pc # "functors" \/ functors = <<>>
    BY <1>4 DEF Poll, HandleReadFails, FunctorsDone, Expire, Tick, SetSystemClock,
                vars, batch
  <2> QED
    BY <2>1, PlacesKept
<1> QED
  BY <1>1, <1>2, <1>3, <1>4, ReadPlace, ResetPlace, QueuePlace DEF Next, LoopStep

\* No timer is lost between its maker, the queue, timers_ and a batch, and one
\* that runs once runs once, for any number of timers.
THEOREM TimersAreKept == Spec => []NoTimerLost
<1>1. Init => Placed /\ NoTimerLost
  <2> SUFFICES ASSUME Init PROVE Placed /\ NoTimerLost
    OBVIOUS
  <2>1. /\ Elems(posted) = {} /\ Elems(functors) = {} /\ Distinct(posted)
        /\ Distinct(functors) /\ ToRun = {}
    BY EmptyElems DEF Init, ToRun
  <2>2. Placed
    BY <2>1 DEF Init, Placed
  <2>3. Waiting = {} /\ rung = {} /\ 1 .. made = {}
    BY <2>1, WaitingIs DEF Init
  <2> QED
    BY <2>2, <2>3 DEF NoTimerLost
<1> QED
  BY <1>1, TypeInit, TypeNext, PlacedNext, PTL DEF Spec

=============================================================================
