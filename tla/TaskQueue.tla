------------------------------ MODULE TaskQueue ------------------------------
(***************************************************************************)
(* What an EventLoop promises to the threads that give it work: one queue, *)
(* served in the order of the calls, one task at a time, each task at most *)
(* once, until the loop stops.  EventLoop implements this specification.   *)
(***************************************************************************)
EXTENDS Sequences

CONSTANT Task

VARIABLES
  queue,    \* the tasks accepted and not started
  ran,      \* the tasks started, in order
  stopped   \* the loop has left loop(); nothing runs any more

vars == <<queue, ran, stopped>>

Init == queue = <<>> /\ ran = <<>> /\ stopped = FALSE

\* Work is accepted at any time, also after the loop has stopped.
Accept(t) ==
  /\ queue' = Append(queue, t)
  /\ UNCHANGED <<ran, stopped>>

\* The oldest task starts.
Serve ==
  /\ ~stopped
  /\ queue # <<>>
  /\ ran' = Append(ran, Head(queue))
  /\ queue' = Tail(queue)
  /\ UNCHANGED stopped

\* A caller already on the loop's thread runs its task on the spot.
RunNow(t) ==
  /\ ~stopped
  /\ ran' = Append(ran, t)
  /\ UNCHANGED <<queue, stopped>>

Stop == ~stopped /\ stopped' = TRUE /\ UNCHANGED <<queue, ran>>

Next == Serve \/ Stop \/ \E t \in Task : Accept(t) \/ RunNow(t)

Spec == Init /\ [][Next]_vars
=============================================================================
