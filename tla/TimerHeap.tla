------------------------------ MODULE TimerHeap ------------------------------
(***************************************************************************)
(* The timer heap of src/src/epoll_reactor.cpp: a binary heap of slots     *)
(* ordered by their times, with each slot's place in it, so that a timer   *)
(* can be moved or taken out from the middle.                              *)
(*                                                                         *)
(* H is a record of heap, the array g_heap as a sequence; hidx, the place  *)
(* of each slot in it; and expire, the time of each slot.  Places are      *)
(* counted from 1, and 0 stands for the -1 of the code.                    *)
(***************************************************************************)
EXTENDS Integers, Sequences

Time(H, i) == H.expire[H.heap[i]]
InHeap(H) == {H.heap[i] : i \in DOMAIN H.heap}

HeapSwap(H, i, j) ==
  [heap   |-> [H.heap EXCEPT ![i] = H.heap[j], ![j] = H.heap[i]],
   hidx   |-> [H.hidx EXCEPT ![H.heap[j]] = i, ![H.heap[i]] = j],
   expire |-> H.expire]

\* A turn of the loop of heap_up, from place at; where it ends, another turn
\* changes nothing.
UpTurn(p) ==
  IF p.at = 1 \/ Time(p.H, p.at \div 2) <= Time(p.H, p.at)
  THEN p
  ELSE [H |-> HeapSwap(p.H, p.at \div 2, p.at), at |-> p.at \div 2]

\* It has at most i turns.
HeapUp(H, i) ==
  LET up[k \in 0 .. i] == IF k = 0 THEN [H |-> H, at |-> i] ELSE UpTurn(up[k - 1])
  IN up[i].H

\* The child to change places with, or i: the right one only if it is
\* earlier than the left one.
Smallest(H, i) ==
  LET In(k) == k <= Len(H.heap)
      l == IF In(2 * i) /\ Time(H, 2 * i) < Time(H, i) THEN 2 * i ELSE i
  IN IF In(2 * i + 1) /\ Time(H, 2 * i + 1) < Time(H, l) THEN 2 * i + 1 ELSE l

DownTurn(p) ==
  LET small == Smallest(p.H, p.at)
  IN IF small = p.at THEN p ELSE [H |-> HeapSwap(p.H, small, p.at), at |-> small]

\* It has fewer turns than the heap has timers.
HeapDown(H, i) ==
  LET down[k \in 0 .. Len(H.heap)] ==
        IF k = 0 THEN [H |-> H, at |-> i] ELSE DownTurn(down[k - 1])
  IN down[Len(H.heap)].H

TimerAdd(H, s, when) ==
  LET n == Len(H.heap) + 1
  IN HeapUp([heap |-> Append(H.heap, s),
             hidx |-> [H.hidx EXCEPT ![s] = n],
             expire |-> [H.expire EXCEPT ![s] = when]], n)

\* The last of the heap takes the place of s, and moves up or down from it.
TimerDel(H, s) ==
  LET i    == H.hidx[s]
      n    == Len(H.heap) - 1
      last == H.heap[n + 1]
      cut  == [heap   |-> SubSeq(H.heap, 1, n),
               hidx   |-> [H.hidx EXCEPT ![s] = 0],
               expire |-> H.expire]
      put  == [heap   |-> [cut.heap EXCEPT ![i] = last],
               hidx   |-> [cut.hidx EXCEPT ![last] = i],
               expire |-> H.expire]
  IN IF i = 0 THEN H
     ELSE IF i = n + 1 THEN cut
     ELSE HeapDown(HeapUp(put, i), i)

TimerRefresh(H, s, when) ==
  IF H.hidx[s] = 0
  THEN TimerAdd(H, s, when)
  ELSE LET i == H.hidx[s]
           set == HeapUp([H EXCEPT !.expire = [@ EXCEPT ![s] = when]], i)
       IN HeapDown(set, set.hidx[s])

\* What the operations keep: parents are not later than their children, and
\* hidx is the inverse of heap.
IsHeap(H) ==
  /\ \A i \in 2 .. Len(H.heap) : Time(H, i \div 2) <= Time(H, i)
  /\ \A i \in DOMAIN H.heap : H.hidx[H.heap[i]] = i
  /\ \A s \in DOMAIN H.hidx : H.hidx[s] # 0 => H.heap[H.hidx[s]] = s
=============================================================================
