----------------------------- MODULE FrameStream -----------------------------
(***************************************************************************)
(* What a stream of frames promises to who reads it: the frames sent come  *)
(* out whole, once and in order, and it breaks at the first one whose body *)
(* is too long, neither before nor after.                                  *)
(***************************************************************************)
EXTENDS Naturals, Sequences

CONSTANT MaxBody

VARIABLES
  sent,     \* frames written to the stream
  handled,  \* frames that came out
  broken    \* nothing more will come out

vars == <<sent, handled, broken>>

Init == sent = <<>> /\ handled = <<>> /\ broken = FALSE

Waiting == Len(handled) < Len(sent)
First == sent[Len(handled) + 1]

Send ==
  /\ Len(sent') = Len(sent) + 1
  /\ SubSeq(sent', 1, Len(sent)) = sent
  /\ UNCHANGED <<handled, broken>>

Deliver ==
  /\ ~broken /\ Waiting
  /\ Len(First.body) <= MaxBody
  /\ handled' = Append(handled, First)
  /\ UNCHANGED <<sent, broken>>

Break ==
  /\ ~broken /\ Waiting
  /\ Len(First.body) > MaxBody
  /\ broken' = TRUE
  /\ UNCHANGED <<sent, handled>>

Next == Send \/ Deliver \/ Break

Spec == Init /\ [][Next]_vars
=============================================================================
