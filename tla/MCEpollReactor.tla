---------------------------- MODULE MCEpollReactor ----------------------------
(***************************************************************************)
(* EpollReactor for TLC: clients are alike, and the heap is tried alone on *)
(* more timers than the connections of the run.                            *)
(***************************************************************************)
EXTENDS EpollReactor, TLC

ClientSymmetry == Permutations(Conn)

\* Heaps of n timers, up to the names of the slots, with times in 1 .. 4;
\* slot n + 1 has none.
Heaps(n) ==
  {H \in {[heap |-> [i \in 1 .. n |-> i],
           hidx |-> [s \in 1 .. n + 1 |-> IF s <= n THEN s ELSE 0],
           expire |-> e] : e \in [1 .. n + 1 -> 1 .. 4]} : IsHeap(H)}

\* Each operation returns a heap with the timers it should have.
ASSUME HeapOperations ==
  \A n \in 0 .. 5 : \A H \in Heaps(n) : \A when \in 1 .. 4 :
    LET Is(J, members) == IsHeap(J) /\ InHeap(J) = members
    IN /\ Is(TimerAdd(H, n + 1, when), 1 .. n + 1)
       /\ \A s \in 1 .. n : /\ Is(TimerDel(H, s), (1 .. n) \ {s})
                            /\ Is(TimerRefresh(H, s, when), 1 .. n)
=============================================================================
