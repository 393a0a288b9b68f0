------------------------------ MODULE ByteStream ------------------------------
(***************************************************************************)
(* What the sending side of a connection promises to its user: the bytes   *)
(* accepted go out in order, once, with nothing in between; the end of the *)
(* stream is announced only after the last of them; after that, or after   *)
(* the connection is closed, nothing follows.                              *)
(***************************************************************************)
EXTENDS Naturals, Sequences

VARIABLES
  accepted,   \* how many bytes were accepted; byte i is the i-th of them
  wire,       \* the bytes given to the kernel
  fin,        \* the end of the stream was announced
  closed      \* the connection is down

vars == <<accepted, wire, fin, closed>>

Init == accepted = 0 /\ wire = <<>> /\ fin = FALSE /\ closed = FALSE

Iota(n) == [i \in 1 .. n |-> i]

\* Some bytes are accepted, and some of those accepted are written.
Transfer ==
  /\ ~closed /\ ~fin
  /\ accepted' \in Nat /\ accepted' >= accepted
  /\ Len(wire') \in Len(wire) .. accepted'
  /\ wire' = Iota(Len(wire'))
  /\ UNCHANGED <<fin, closed>>

\* The end of the stream: everything accepted has been written.
Finish ==
  /\ ~closed /\ ~fin
  /\ Len(wire) = accepted
  /\ fin' = TRUE
  /\ UNCHANGED <<accepted, wire, closed>>

Close == ~closed /\ closed' = TRUE /\ UNCHANGED <<accepted, wire, fin>>

Next == Transfer \/ Finish \/ Close

Spec == Init /\ [][Next]_vars
=============================================================================
