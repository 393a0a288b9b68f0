-------------------------------- MODULE Buffer --------------------------------
(***************************************************************************)
(* The buffer of a connection (src/net/Buffer.cpp, include/net/Buffer.h):  *)
(* a vector of bytes and two indices into it.  What is readable lies       *)
(* between them; before it is the room to prepend, after it the room to    *)
(* write.                                                                  *)
(*                                                                         *)
(* A buffer is a record of mem, the vector as a sequence, and of reader    *)
(* and writer, the indices as the code counts them, from 0.                *)
(***************************************************************************)
EXTENDS Naturals, Sequences

CONSTANT CheapPrepend   \* kCheapPrepend

ASSUME BufferAssumption == CheapPrepend \in Nat

Zeros(n) == [i \in 1 .. n |-> 0]

NewBuffer(size) ==
  [mem |-> Zeros(CheapPrepend + size), reader |-> CheapPrepend, writer |-> CheapPrepend]

ReadableBytes(b) == b.writer - b.reader
WritableBytes(b) == Len(b.mem) - b.writer
PrependableBytes(b) == b.reader

\* What peek() points to: readable byte i counts from 0.
Peek(b, i) == b.mem[b.reader + i + 1]
Readable(b) == SubSeq(b.mem, b.reader + 1, b.writer)

RetrieveAll(b) == [b EXCEPT !.reader = CheapPrepend, !.writer = CheapPrepend]

Retrieve(b, n) ==
  IF n < ReadableBytes(b) THEN [b EXCEPT !.reader = @ + n] ELSE RetrieveAll(b)

\* Faulty variant: the vector grows even where moving the data would do.
MakeSpaceAlwaysGrows(b, n) == [b EXCEPT !.mem = @ \o Zeros(b.writer + n - Len(@))]

\* Faulty variant: writer stays where it was when the data is moved.
MakeSpaceKeepsWriter(b, n) ==
  IF WritableBytes(b) + PrependableBytes(b) < n + CheapPrepend
  THEN [b EXCEPT !.mem = @ \o Zeros(b.writer + n - Len(@))]
  ELSE [b EXCEPT !.mem = SubSeq(@, 1, CheapPrepend) \o Readable(b)
                         \o SubSeq(@, CheapPrepend + ReadableBytes(b) + 1, Len(@)),
                 !.reader = CheapPrepend]

\* Called when less than n bytes can be written: resize to writer + n, or
\* move what is readable to the front.
MakeSpace(b, n) ==
  IF WritableBytes(b) + PrependableBytes(b) < n + CheapPrepend
  THEN [b EXCEPT !.mem = @ \o Zeros(b.writer + n - Len(@))]
  ELSE [mem |-> SubSeq(b.mem, 1, CheapPrepend) \o Readable(b)
                \o SubSeq(b.mem, CheapPrepend + ReadableBytes(b) + 1, Len(b.mem)),
        reader |-> CheapPrepend,
        writer |-> CheapPrepend + ReadableBytes(b)]

EnsureWritableBytes(b, n) == IF WritableBytes(b) < n THEN MakeSpace(b, n) ELSE b

\* Data copied to beginWrite(), and refreshWrite.
Written(b, data) ==
  [mem |-> [i \in DOMAIN b.mem |-> IF i \in b.writer + 1 .. b.writer + Len(data)
                                   THEN data[i - b.writer] ELSE b.mem[i]],
   reader |-> b.reader,
   writer |-> b.writer + Len(data)]

AppendBytes(b, data) == Written(EnsureWritableBytes(b, Len(data)), data)

IsBuffer(b) ==
  /\ CheapPrepend <= b.reader /\ b.reader <= b.writer
  /\ b.writer <= Len(b.mem)
=============================================================================
