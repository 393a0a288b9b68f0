-------------------------------- MODULE Codec --------------------------------
(***************************************************************************)
(* The frames of include/protocol/Protocol.h and what src/protocol/        *)
(* Codec.cpp does with bytes: a header of three numbers, lowest byte       *)
(* first, and a body.  Sizes and the byte are parameters.                  *)
(***************************************************************************)
EXTENDS Buffer

CONSTANTS
  Byte,     \* values of a byte: 256
  IdSize,   \* bytes of msgid: 2
  LenSize,  \* bytes of bodyLen: 4
  SeqSize,  \* bytes of seq: 4
  MaxBody   \* kMaxBodySize

ASSUME CodecAssumption ==
  /\ Byte \in Nat /\ Byte > 1
  /\ {IdSize, LenSize, SeqSize} \subseteq Nat \ {0}
  /\ MaxBody \in Nat

BodyLenOffset == IdSize
SeqOffset == IdSize + LenSize
HeaderSize == IdSize + LenSize + SeqSize

\* What shifting by n bytes multiplies with, and how many numbers n bytes hold.
Weight(n) ==
  LET w[i \in 0 .. n] == IF i = 0 THEN 1 ELSE w[i - 1] * Byte
  IN w[n]

\* A number as n bytes, and back.
LittleEndian(v, n) == [i \in 1 .. n |-> (v \div Weight(i - 1)) % Byte]

Number(s) ==
  LET v[i \in 0 .. Len(s)] == IF i = 0 THEN 0 ELSE v[i - 1] + s[i] * Weight(i - 1)
  IN v[Len(s)]

\* A frame is a record of msgId, seq and body; its numbers fit their bytes.
FrameType ==
  {f \in [msgId : 0 .. Weight(IdSize) - 1, seq : 0 .. Weight(SeqSize) - 1,
          body : Seq(0 .. Byte - 1)] : Len(f.body) < Weight(LenSize)}

Encode(f) ==
  LittleEndian(f.msgId, IdSize) \o LittleEndian(Len(f.body), LenSize)
    \o LittleEndian(f.seq, SeqSize) \o f.body

\* The number in n bytes of what is readable, from offset.
Field(b, offset, n) == Number([i \in 1 .. n |-> Peek(b, offset + i - 1)])

BodyLen(b) == Field(b, BodyLenOffset, LenSize)
Total(b) == HeaderSize + BodyLen(b)

HasHeader(b) == ReadableBytes(b) >= HeaderSize

\* Faulty variant: a body of the limit is refused.
TooLongAtLimit(b) == HasHeader(b) /\ BodyLen(b) >= MaxBody

TooLong(b) == HasHeader(b) /\ BodyLen(b) > MaxBody

Complete(b) == HasHeader(b) /\ ~TooLong(b) /\ ReadableBytes(b) >= Total(b)

FirstFrame(b) ==
  [msgId |-> Field(b, 0, IdSize),
   seq |-> Field(b, SeqOffset, SeqSize),
   body |-> [i \in 1 .. BodyLen(b) |-> Peek(b, HeaderSize + i - 1)]]
=============================================================================
