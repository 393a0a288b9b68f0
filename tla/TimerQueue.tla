------------------------------ MODULE TimerQueue ------------------------------
(***************************************************************************)
(* The timers of an EventLoop: a set ordered by time and sequence number,  *)
(* and one timerfd armed for the first of them, which is a channel of the  *)
(* loop like any other.  Timers are added by callbacks on the loop's       *)
(* thread, and by other threads through queueInLoop.                       *)
(*                                                                         *)
(* The timerfd counts the monotonic clock; the times of timers are read    *)
(* from the system clock (Timestamp::now), which somebody may set.         *)
(***************************************************************************)
EXTENDS Integers, Sequences

CONSTANTS
  MaxTimers,  \* bound: timers constructed
  MaxClock,   \* bound: where the monotonic clock stops
  MaxDelay,   \* bound: how far ahead runAt and runAfter are asked for
  Interval,   \* what runEvery is asked for
  MaxShift    \* bound: by how much the system clock is set ahead or back

ASSUME TimerQueueAssumption ==
  /\ MaxTimers \in Nat /\ MaxClock \in Nat /\ MaxDelay \in Nat /\ MaxShift \in Nat
  /\ Interval \in Nat \ {0}

VARIABLES
  clock,     \* the monotonic clock
  shift,     \* the system clock is clock + shift
  adjusted,  \* the system clock has been set; it is set once
  made,      \* timers constructed so far; a timer is its sequence number
  due,       \* Timer::expiration_
  interval,  \* Timer::interval_, 0 of a timer that runs once
  making,    \* timers that other threads have constructed and not queued yet
  posted,    \* the functors with addTimerInLoop in the loop's queue
  functors,  \* those that doPendingFunctors has taken out of it
  timers,    \* timers_
  fd,        \* the timerfd: its state, and the time it is armed for
  pc,        \* where the loop is
  ready,     \* the timerfd is in the results of epoll_wait
  readAt,    \* handleRead: now
  expired,   \* handleRead: expired
  done,      \* handleRead: those of expired whose callback has run
  late,      \* history: the timers inserted since expired was taken
  rung       \* history: the timers that run once and have run

world == <<clock, shift, adjusted>>
batch == <<readAt, expired, done>>
queue == <<making, posted, functors>>
vars == <<world, made, due, interval, queue, timers, fd, pc, ready, batch, late,
          rung>>

Timer == 1 .. MaxTimers

Off == [state |-> "off", at |-> 0]

\* Timestamp::now()
Now == clock + shift

Init ==
  /\ clock = 0 /\ shift = 0 /\ adjusted = FALSE
  /\ made = 0 /\ due = [s \in Timer |-> 0] /\ interval = [s \in Timer |-> 0]
  /\ making = {} /\ posted = <<>> /\ functors = <<>> /\ timers = {}
  /\ fd = Off
  /\ pc = "poll" /\ ready = FALSE
  /\ readAt = 0 /\ expired = {} /\ done = {}
  /\ late = {} /\ rung = {}

-----------------------------------------------------------------------------
(* The queue *)

\* Faulty variant of the next: by the time only.
BeforeInTime(d, s, q) == d[s] < d[q]

\* Entry::operator<, for the times d.
Before(d, s, q) ==
  \/ d[s] < d[q]
  \/ (d[s] = d[q]) /\ (s < q)

\* s is set.begin(), for the times d.
First(d, s, set) == \A q \in set : ~Before(d, q, s)

\* Faulty variant of the next: a time that has passed gives zero, which
\* disarms the timerfd.
ResetTimerfdZero(when) ==
  fd' = IF when <= Now THEN Off
                       ELSE [state |-> "armed", at |-> clock + (when - Now)]

\* resetTimerfd: for the time that is left, or at once for one that has passed.
ResetTimerfd(when) ==
  fd' = [state |-> "armed",
         at |-> IF when <= Now THEN clock ELSE clock + (when - Now)]

\* addTimerInLoop and insert: the timerfd is armed anew for a timer that
\* precedes all others.
AddTimerInLoop(s, d) ==
  /\ timers' = timers \cup {s}
  /\ late' = IF pc = "run" THEN late \cup {s} ELSE late
  /\ IF \A q \in timers : Before(d, s, q)
     THEN ResetTimerfd(d[s])
     ELSE UNCHANGED fd

\* A Timer for runAt or runAfter, or for runEvery.
NewTimer(s, when, i) ==
  /\ made < MaxTimers
  /\ s = made + 1
  /\ \/ i = 0 /\ when \in Now - 1 .. Now + MaxDelay
     \/ i = Interval /\ when = Now + Interval
  /\ made' = s
  /\ due' = [due EXCEPT ![s] = when]
  /\ interval' = [interval EXCEPT ![s] = i]

Times == Now - 1 .. Now + MaxDelay + Interval

\* addTimer on the loop's thread.
AddTimer ==
  \E s \in Timer, when \in Times, i \in {0, Interval} :
    NewTimer(s, when, i) /\ AddTimerInLoop(s, due')

\* addTimer of another thread: the Timer is made, then queued.
MakeTimer ==
  \E s \in Timer, when \in Times, i \in {0, Interval} :
    /\ NewTimer(s, when, i)
    /\ making' = making \cup {s}
    /\ UNCHANGED <<world, posted, functors, timers, fd, pc, ready, batch, late,
                    rung>>

QueueTimer(s) ==
  /\ s \in making
  /\ making' = making \ {s}
  /\ posted' = Append(posted, s)
  /\ UNCHANGED <<world, made, due, interval, functors, timers, fd, pc, ready,
                 batch, late, rung>>

-----------------------------------------------------------------------------
(* The loop *)

\* epoll_wait returns: for the timerfd, for the wakeup, for another
\* descriptor, or because its time is up.
Poll ==
  /\ pc = "poll"
  /\ pc' = "events" /\ ready' = (fd.state = "expired")
  /\ UNCHANGED <<world, made, due, interval, queue, timers, fd, batch,
                 late, rung>>

\* A callback of another channel, before or after handleRead, or another
\* functor adds a timer.
HandleEvent ==
  /\ pc \in {"events", "functors"}
  /\ AddTimer
  /\ UNCHANGED <<world, queue, pc, ready, batch, rung>>

\* Faulty variant of the next: the timers that are due stay in timers_.
HandleReadKeeps ==
  /\ pc = "events" /\ ready
  /\ fd.state = "expired"
  /\ fd' = Off
  /\ readAt' = Now
  /\ expired' = {s \in timers : due[s] <= Now}
  /\ done' = {} /\ late' = {} /\ ready' = FALSE
  /\ pc' = "run"
  /\ UNCHANGED <<world, made, due, interval, queue, timers, rung>>

\* Faulty variant of the next: the first timer is taken to be due.
HandleReadTakesFirst ==
  /\ pc = "events" /\ ready
  /\ fd.state = "expired"
  /\ fd' = Off
  /\ readAt' = Now
  /\ expired' = {s \in timers : due[s] <= Now \/ First(due, s, timers)}
  /\ timers' = timers \ expired'
  /\ done' = {} /\ late' = {} /\ ready' = FALSE
  /\ pc' = "run"
  /\ UNCHANGED <<world, made, due, interval, queue, rung>>

\* handleRead up to getExpired.
HandleRead ==
  /\ pc = "events" /\ ready
  /\ fd.state = "expired"
  /\ fd' = Off
  /\ readAt' = Now
  /\ expired' = {s \in timers : due[s] <= Now}
  /\ timers' = timers \ expired'
  /\ done' = {} /\ late' = {} /\ ready' = FALSE
  /\ pc' = "run"
  /\ UNCHANGED <<world, made, due, interval, queue, rung>>

\* The read finds nothing: the timerfd was armed anew after epoll_wait.
HandleReadFails ==
  /\ pc = "events" /\ ready
  /\ fd.state # "expired"
  /\ ready' = FALSE
  /\ UNCHANGED <<world, made, due, interval, queue, timers, fd, pc,
                 batch, late, rung>>

\* Timer::run, of the first of expired that has not run; the callback may add
\* a timer.
RunTimer ==
  /\ pc = "run"
  /\ \E s \in expired \ done :
       /\ First(due, s, expired \ done)
       /\ done' = done \cup {s}
       /\ rung' = IF interval[s] = 0 THEN rung \cup {s} ELSE rung
  /\ \/ AddTimer
     \/ UNCHANGED <<made, due, interval, timers, fd, late>>
  /\ UNCHANGED <<world, queue, pc, ready, readAt, expired>>

\* What reset makes of the times: a timer that repeats is due an interval after
\* handleRead began.
Restarted ==
  [s \in Timer |-> IF s \in expired /\ interval[s] > 0 THEN readAt + interval[s]
                                                       ELSE due[s]]

\* Faulty variant of the next: the timerfd is armed for the timers that
\* repeat, not for what else is waiting.
ResetRepeatingOnly ==
  /\ pc = "run" /\ done = expired
  /\ due' = Restarted
  /\ LET again == {s \in expired : interval[s] > 0}
     IN /\ timers' = timers \cup again
        /\ IF again = {} THEN UNCHANGED fd
           ELSE \E s \in again : First(due', s, again) /\ ResetTimerfd(due'[s])
  /\ readAt' = 0 /\ expired' = {} /\ done' = {} /\ late' = {}
  /\ pc' = "events"
  /\ UNCHANGED <<world, made, interval, queue, ready, rung>>

\* reset: the timers that repeat are inserted again, and the timerfd is armed
\* for the first timer.
Reset ==
  /\ pc = "run" /\ done = expired
  /\ due' = Restarted
  /\ timers' = timers \cup {s \in expired : interval[s] > 0}
  /\ IF timers' = {} THEN UNCHANGED fd
     ELSE \E s \in timers' : First(due', s, timers') /\ ResetTimerfd(due'[s])
  /\ readAt' = 0 /\ expired' = {} /\ done' = {} /\ late' = {}
  /\ pc' = "events"
  /\ UNCHANGED <<world, made, interval, queue, ready, rung>>

\* doPendingFunctors takes the queue.
EventsDone ==
  /\ pc = "events" /\ ~ready
  /\ pc' = "functors"
  /\ functors' = posted /\ posted' = <<>>
  /\ UNCHANGED <<world, made, due, interval, making, timers, fd, ready, batch,
                 late, rung>>

\* doPendingFunctors calls addTimerInLoop.
RunFunctor ==
  /\ pc = "functors" /\ functors # <<>>
  /\ AddTimerInLoop(Head(functors), due)
  /\ functors' = Tail(functors)
  /\ UNCHANGED <<world, made, due, interval, making, posted, pc, ready, batch,
                 rung>>

FunctorsDone ==
  /\ pc = "functors" /\ functors = <<>>
  /\ pc' = "poll"
  /\ UNCHANGED <<world, made, due, interval, queue, timers, fd, ready,
                 batch, late, rung>>

-----------------------------------------------------------------------------
(* Time *)

\* The kernel: the timerfd's time has come.
Expire ==
  /\ fd.state = "armed" /\ fd.at <= clock
  /\ fd' = [state |-> "expired", at |-> 0]
  /\ UNCHANGED <<world, made, due, interval, queue, timers, pc, ready,
                 batch, late, rung>>

Tick ==
  /\ clock < MaxClock
  /\ clock' = clock + 1
  /\ UNCHANGED <<shift, adjusted, made, due, interval, queue, timers, fd,
                 pc, ready, batch, late, rung>>

\* Somebody sets the system clock.
SetSystemClock ==
  /\ ~adjusted
  /\ shift' \in -MaxShift .. MaxShift /\ shift' # 0
  /\ adjusted' = TRUE
  /\ UNCHANGED <<clock, made, due, interval, queue, timers, fd, pc,
                 ready, batch, late, rung>>

LoopStep ==
  \/ HandleRead \/ HandleReadFails \/ RunTimer \/ Reset
  \/ EventsDone \/ RunFunctor \/ FunctorsDone

Next ==
  \/ MakeTimer \/ \E s \in Timer : QueueTimer(s)
  \/ Poll \/ HandleEvent \/ LoopStep
  \/ Expire \/ Tick \/ SetSystemClock

\* epoll_wait returns for the timerfd and for the eventfd.
PollReady == (fd.state = "expired" \/ posted # <<>>) /\ Poll

Spec ==
  /\ Init /\ [][Next]_vars
  /\ WF_vars(LoopStep) /\ WF_vars(PollReady)
  /\ WF_vars(Expire) /\ WF_vars(Tick)
  /\ \A s \in Timer : WF_vars(QueueTimer(s))

-----------------------------------------------------------------------------
(* Properties *)

\* Timers that have a run to come: on their way to timers_, in it, or in the
\* batch and to run, or to be inserted again.
Waiting ==
  making \cup timers
  \cup {posted[k] : k \in 1 .. Len(posted)}
  \cup {functors[k] : k \in 1 .. Len(functors)}
  \cup {s \in expired : s \notin done \/ interval[s] > 0}

\* Types; there is a batch in handleRead only, and what is in it was due when
\* it was taken, even if the timerfd was early by a system clock set back.
TypeOK ==
  /\ clock \in Nat /\ shift \in Int /\ adjusted \in BOOLEAN
  /\ ~adjusted => shift = 0
  /\ made \in 0 .. MaxTimers
  /\ due \in [Timer -> Int] /\ interval \in [Timer -> {0, Interval}]
  /\ making \subseteq 1 .. made /\ timers \subseteq 1 .. made
  /\ posted \in Seq(1 .. made) /\ functors \in Seq(1 .. made)
  /\ fd \in [state : {"off", "armed", "expired"}, at : Nat]
  /\ pc \in {"poll", "events", "run", "functors"} /\ ready \in BOOLEAN
  /\ readAt \in Int
  /\ expired \subseteq 1 .. made /\ done \subseteq expired
  /\ late \subseteq timers /\ rung \subseteq 1 .. made
  /\ \A s \in expired : due[s] <= readAt
  /\ pc # "run" => expired = {} /\ late = {}

\* Outside handleRead, the timerfd of a queue with timers is readable, or due,
\* or armed no later than for any of them (if nobody sets the system clock),
\* whatever timers callbacks and other threads add, and for whatever times.
TimerfdArmed ==
  (pc # "run" /\ timers # {}) =>
    \/ fd.state = "expired"
    \/ /\ fd.state = "armed"
       /\ \/ adjusted
          \/ fd.at <= clock
          \/ \A s \in timers : fd.at <= due[s]

\* A timer that runs once runs once, and is then in no list; every other
\* timer, and one that repeats for ever, has its next run to come.
NoTimerLost ==
  /\ rung \cap Waiting = {}
  /\ rung \cup Waiting = 1 .. made

\* Timers run in the order of their times, and of their making if the times
\* are equal: when one runs, none that precedes it is waiting, unless it was
\* added by a callback of the same batch.
RunsInOrder ==
  [][\A s \in Timer : s \in done' \ done =>
       \A q \in (timers \ late) \cup (expired \ done') :
         due[s] < due[q] \/ (due[s] = due[q] /\ s < q)]_vars

\* A timer whose time has come runs, in whatever callback or thread it was
\* added, and even if the system clock is set.  (The clock stops at MaxClock,
\* by which only timers of these times have come.)
TimeComes(s) ==
  s \in Waiting /\ due[s] + MaxShift <= MaxClock
DueTimerRuns == \A s \in Timer : TimeComes(s) ~> ~TimeComes(s)
=============================================================================
