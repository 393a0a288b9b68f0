------------------------- MODULE ProtocolEcho_proofs -------------------------
(***************************************************************************)
(* Proofs about the bytes of one connection, for any sizes of the header,  *)
(* the byte, the limit, the buffers and the reads, and for any frames:     *)
(*                                                                         *)
(*   a buffer is a queue of bytes, whatever makeSpace chooses;             *)
(*   what was encoded is decoded, behind whatever the buffer holds of it;  *)
(*   no byte is lost between the peer and the way back, and the decoder    *)
(*   implements a stream of frames.                                        *)
(***************************************************************************)
EXTENDS ProtocolEcho, Integers, SequenceTheorems, WellFoundedInduction, TLAPS

-----------------------------------------------------------------------------
(* Buffer: appending adds at the end, retrieving takes from the front *)

\* Indices in order within their vector.
Indexed(m, r, w) == CheapPrepend <= r /\ r <= w /\ w <= Len(m)

Buf(m, r, w) == [mem |-> m, reader |-> r, writer |-> w]

\* Every buffer of bytes whose indices are in order.
Buffers ==
  {b \in [mem : Seq(Nat), reader : Nat, writer : Nat] : IsBuffer(b)}

\* Zeros are bytes, as many as asked for.
LEMMA ZerosAreBytes ==
  ASSUME NEW n \in Nat
  PROVE  Zeros(n) \in Seq(Nat) /\ Len(Zeros(n)) = n
<1>1. Zeros(n) \in [1 .. n -> Nat]
  BY DEF Zeros
<1>2. Zeros(n) \in Seq(Nat)
  BY <1>1, SeqDef
<1>3. DOMAIN Zeros(n) = 1 .. n /\ DOMAIN Zeros(n) = 1 .. Len(Zeros(n))
  BY <1>1, <1>2, LenProperties
<1>4. Len(Zeros(n)) \in Nat
  BY <1>2, LenProperties
<1> QED
  BY <1>2, <1>3, <1>4

\* A buffer is its vector and its two indices, in order.
LEMMA BufferParts ==
  ASSUME NEW b \in Buffers
  PROVE  \E m \in Seq(Nat), r \in Nat, w \in Nat : b = Buf(m, r, w) /\ Indexed(m, r, w)
<1>1. b \in [mem : Seq(Nat), reader : Nat, writer : Nat] /\ IsBuffer(b)
  BY DEF Buffers
<1>2. b = Buf(b.mem, b.reader, b.writer)
  BY <1>1 DEF Buf
<1>3. b.mem \in Seq(Nat) /\ b.reader \in Nat /\ b.writer \in Nat
  BY <1>1
<1>4. Indexed(b.mem, b.reader, b.writer)
  BY <1>1 DEF Indexed, IsBuffer
<1> QED
  BY <1>2, <1>3, <1>4

\* A vector and two indices in order make a buffer.
LEMMA PartsAreBuffer ==
  ASSUME NEW m \in Seq(Nat), NEW r \in Nat, NEW w \in Nat, Indexed(m, r, w)
  PROVE  Buf(m, r, w) \in Buffers
BY DEF Buffers, IsBuffer, Buf, Indexed

\* What the accessors read of a buffer given by its parts.
LEMMA PartsOfBuf ==
  ASSUME NEW m \in Seq(Nat), NEW r \in Nat, NEW w \in Nat
  PROVE  /\ Readable(Buf(m, r, w)) = SubSeq(m, r + 1, w)
         /\ ReadableBytes(Buf(m, r, w)) = w - r
         /\ WritableBytes(Buf(m, r, w)) = Len(m) - w
         /\ PrependableBytes(Buf(m, r, w)) = r
         /\ Buf(m, r, w).mem = m
<1>1. Buf(m, r, w).mem = m /\ Buf(m, r, w).reader = r /\ Buf(m, r, w).writer = w
  BY DEF Buf
<1> QED
  BY <1>1 DEF Readable, ReadableBytes, WritableBytes, PrependableBytes

\* A slice of the vector, byte by byte; an empty one may start one past the end.
LEMMA SliceIs ==
  ASSUME NEW m \in Seq(Nat), NEW a \in Nat, NEW c \in Nat, a <= c, c <= Len(m)
  PROVE  /\ SubSeq(m, a + 1, c) \in Seq(Nat)
         /\ Len(SubSeq(m, a + 1, c)) = c - a
         /\ \A i \in 1 .. c - a : SubSeq(m, a + 1, c)[i] = m[a + i]
<1>1. \A i \in a + 1 .. c : m[i] \in Nat
  BY ElementOfSeq, LenProperties
<1>2. /\ SubSeq(m, a + 1, c) \in Seq(Nat)
      /\ Len(SubSeq(m, a + 1, c)) = IF a + 1 <= c THEN c - (a + 1) + 1 ELSE 0
      /\ \A i \in 1 .. c - (a + 1) + 1 : SubSeq(m, a + 1, c)[i] = m[(a + 1) + i - 1]
  BY <1>1, SubSeqProperties
<1>3. \A i \in 1 .. c - a : (a + 1) + i - 1 = a + i /\ i \in 1 .. c - (a + 1) + 1
  OBVIOUS
<1> QED
  BY <1>2, <1>3

\* A slice that starts and ends as another with the same bytes is that one.
LEMMA SameSlice ==
  ASSUME NEW m \in Seq(Nat), NEW a \in Nat, NEW c \in Nat, a <= c, c <= Len(m),
         NEW s \in Seq(Nat), Len(s) = c - a,
         \A i \in 1 .. c - a : m[a + i] = s[i]
  PROVE  SubSeq(m, a + 1, c) = s
<1>1. SubSeq(m, a + 1, c) \in Seq(Nat) /\ Len(SubSeq(m, a + 1, c)) = Len(s)
  BY SliceIs
<1>2. \A i \in 1 .. Len(s) : SubSeq(m, a + 1, c)[i] = s[i]
  BY SliceIs
<1> QED
  BY <1>1, <1>2, SeqEqual

\* Two byte sequences end to end, byte by byte.
LEMMA ConcatIs ==
  ASSUME NEW s \in Seq(Nat), NEW t \in Seq(Nat)
  PROVE  /\ s \o t \in Seq(Nat)
         /\ Len(s \o t) = Len(s) + Len(t)
         /\ \A i \in 1 .. Len(s) : (s \o t)[i] = s[i]
         /\ \A i \in 1 .. Len(t) : (s \o t)[Len(s) + i] = t[i]
<1>1. /\ s \o t \in Seq(Nat)
      /\ Len(s \o t) = Len(s) + Len(t)
      /\ \A j \in 1 .. Len(s) + Len(t) :
           (s \o t)[j] = IF j <= Len(s) THEN s[j] ELSE t[j - Len(s)]
  BY ConcatProperties
<1>2. Len(s) \in Nat /\ Len(t) \in Nat
  BY LenProperties
<1>3. \A i \in 1 .. Len(s) : (s \o t)[i] = s[i]
  BY <1>1, <1>2
<1>4. ASSUME NEW i \in 1 .. Len(t)
      PROVE  (s \o t)[Len(s) + i] = t[i]
  <2>1. /\ Len(s) + i \in 1 .. Len(s) + Len(t)
        /\ ~ (Len(s) + i <= Len(s)) /\ (Len(s) + i) - Len(s) = i
    BY <1>2
  <2> QED
    BY <1>1, <2>1
<1> QED
  BY <1>1, <1>3, <1>4

\* A new buffer is a buffer with nothing to read, and room for what it was
\* made for.
THEOREM NewBufferIsEmpty ==
  ASSUME NEW size \in Nat
  PROVE  /\ NewBuffer(size) \in Buffers
         /\ Readable(NewBuffer(size)) = << >>
         /\ WritableBytes(NewBuffer(size)) = size
<1> DEFINE z == Zeros(CheapPrepend + size)
<1>1. CheapPrepend \in Nat
  BY BufferAssumption DEF BufferAssumption
<1>2. z \in Seq(Nat) /\ Len(z) = CheapPrepend + size
  BY <1>1, ZerosAreBytes
<1>3. NewBuffer(size) = Buf(z, CheapPrepend, CheapPrepend)
  BY DEF NewBuffer, Buf
<1> HIDE DEF z
<1>4. Indexed(z, CheapPrepend, CheapPrepend)
  BY <1>1, <1>2 DEF Indexed
<1>5. /\ Readable(NewBuffer(size)) = SubSeq(z, CheapPrepend + 1, CheapPrepend)
      /\ WritableBytes(NewBuffer(size)) = Len(z) - CheapPrepend
  <2>1. /\ Readable(Buf(z, CheapPrepend, CheapPrepend))
             = SubSeq(z, CheapPrepend + 1, CheapPrepend)
        /\ WritableBytes(Buf(z, CheapPrepend, CheapPrepend)) = Len(z) - CheapPrepend
    BY <1>1, <1>2, PartsOfBuf
  <2> QED
    BY <1>3, <2>1
<1>6. SubSeq(z, CheapPrepend + 1, CheapPrepend) = << >>
  BY <1>1, SubSeqEmpty
<1>7. NewBuffer(size) \in Buffers
  BY <1>1, <1>2, <1>3, <1>4, PartsAreBuffer
<1> QED
  BY <1>1, <1>2, <1>5, <1>6, <1>7

\* retrieve(n) takes the first n bytes, or all if there are no more, and
\* leaves a buffer.
THEOREM RetrieveTakesFirst ==
  ASSUME NEW b \in Buffers, NEW n \in Nat
  PROVE  /\ Retrieve(b, n) \in Buffers
         /\ Readable(Retrieve(b, n)) = SubSeq(Readable(b), n + 1, ReadableBytes(b))
<1>1. PICK m \in Seq(Nat), r \in Nat, w \in Nat : b = Buf(m, r, w) /\ Indexed(m, r, w)
  BY BufferParts
<1>2. ReadableBytes(b) = w - r /\ Readable(b) = SubSeq(m, r + 1, w)
  BY <1>1, PartsOfBuf
<1>3. Len(m) \in Nat /\ CheapPrepend \in Nat
  BY LenProperties, BufferAssumption DEF BufferAssumption
<1>4. CASE n < w - r
  <2>1. Retrieve(b, n) = Buf(m, r + n, w)
    BY <1>1, <1>2, <1>4 DEF Buf, Retrieve
  <2>2. r + n \in Nat /\ Indexed(m, r + n, w)
    BY <1>1, <1>3, <1>4 DEF Indexed
  <2>3. Retrieve(b, n) \in Buffers
    BY <2>1, <2>2, PartsAreBuffer
  <2>4. Readable(Retrieve(b, n)) = SubSeq(m, (r + n) + 1, w)
    <3> DEFINE q == r + n
    <3>1. q \in Nat
      BY <2>2
    <3> HIDE DEF q
    <3>2. Readable(Buf(m, q, w)) = SubSeq(m, q + 1, w)
      BY <3>1, PartsOfBuf
    <3> QED
      BY <2>1, <3>2 DEF q
  <2> DEFINE s == SubSeq(m, r + 1, w)
             t == SubSeq(s, n + 1, w - r)
  <2>5. /\ s \in Seq(Nat) /\ Len(s) = w - r
        /\ \A i \in 1 .. w - r : s[i] = m[r + i]
    BY <1>1, <1>3, SliceIs DEF Indexed
  <2> HIDE DEF s
  <2>6. w - r \in Nat /\ n <= w - r
    BY <1>4
  <2>7. /\ t \in Seq(Nat) /\ Len(t) = (w - r) - n
        /\ \A i \in 1 .. (w - r) - n : t[i] = s[n + i]
    BY <2>5, <2>6, SliceIs
  <2> HIDE DEF t
  <2>8. \A i \in 1 .. w - (r + n) : m[(r + n) + i] = t[i]
    <3>1. \A i \in 1 .. w - (r + n) :
            /\ i \in 1 .. (w - r) - n /\ n + i \in 1 .. w - r
            /\ r + (n + i) = (r + n) + i
      BY <1>4
    <3> QED
      BY <2>5, <2>7, <3>1
  <2>9. /\ r + n \in Nat /\ r + n <= w /\ w <= Len(m)
        /\ Len(t) = w - (r + n)
    BY <1>1, <1>4, <2>7 DEF Indexed
  <2>10. SubSeq(m, (r + n) + 1, w) = t
    BY <2>7, <2>8, <2>9, SameSlice
  <2> QED
    BY <1>2, <2>3, <2>4, <2>10 DEF s, t
<1>5. CASE ~ (n < w - r)
  <2>1. Retrieve(b, n) = Buf(m, CheapPrepend, CheapPrepend)
    BY <1>1, <1>2, <1>5 DEF Buf, Retrieve, RetrieveAll
  <2>2. Indexed(m, CheapPrepend, CheapPrepend)
    BY <1>1, <1>3 DEF Indexed
  <2>3. Retrieve(b, n) \in Buffers
    BY <1>3, <2>1, <2>2, PartsAreBuffer
  <2>4. Readable(Retrieve(b, n)) = SubSeq(m, CheapPrepend + 1, CheapPrepend)
    BY <1>3, <2>1, PartsOfBuf
  <2>5. SubSeq(m, CheapPrepend + 1, CheapPrepend) = << >>
    BY <1>3, SubSeqEmpty
  <2>6. w - r \in Int /\ n + 1 \in Int /\ w - r < n + 1
    BY <1>5
  <2>7. SubSeq(Readable(b), n + 1, w - r) = << >>
    BY <2>6, SubSeqEmpty
  <2> QED
    BY <1>2, <2>3, <2>4, <2>5, <2>7
<1> QED
  BY <1>4, <1>5

\* makeSpace(n), by its two branches.
LEMMA MakeSpaceBranches ==
  ASSUME NEW m \in Seq(Nat), NEW r \in Nat, NEW w \in Nat, NEW n \in Nat
  PROVE  MakeSpace(Buf(m, r, w), n) =
           IF (Len(m) - w) + r < n + CheapPrepend
           THEN Buf(m \o Zeros(w + n - Len(m)), r, w)
           ELSE Buf(SubSeq(m, 1, CheapPrepend) \o SubSeq(m, r + 1, w)
                      \o SubSeq(m, CheapPrepend + (w - r) + 1, Len(m)),
                    CheapPrepend, CheapPrepend + (w - r))
<1> DEFINE b == Buf(m, r, w)
<1>1. b.mem = m /\ b.reader = r /\ b.writer = w
  BY DEF Buf
<1>2. /\ WritableBytes(b) = Len(m) - w /\ PrependableBytes(b) = r
      /\ ReadableBytes(b) = w - r /\ Readable(b) = SubSeq(m, r + 1, w)
  BY PartsOfBuf
<1>3. [b EXCEPT !.mem = m \o Zeros(w + n - Len(m))] = Buf(m \o Zeros(w + n - Len(m)), r, w)
  <2> DEFINE g == m \o Zeros(w + n - Len(m))
  <2> HIDE DEF g
  <2>1. [b EXCEPT !.mem = g] = Buf(g, r, w)
    BY DEF Buf
  <2> QED
    BY <2>1 DEF g
<1> HIDE DEF b
<1>4. CASE (Len(m) - w) + r < n + CheapPrepend
  <2>1. MakeSpace(b, n) = [b EXCEPT !.mem = m \o Zeros(w + n - Len(m))]
    BY <1>1, <1>2, <1>4 DEF MakeSpace
  <2> QED
    BY <1>3, <1>4, <2>1 DEF b
<1>5. CASE ~ ((Len(m) - w) + r < n + CheapPrepend)
  <2>1. MakeSpace(b, n) =
          [mem |-> SubSeq(m, 1, CheapPrepend) \o SubSeq(m, r + 1, w)
                     \o SubSeq(m, CheapPrepend + (w - r) + 1, Len(m)),
           reader |-> CheapPrepend, writer |-> CheapPrepend + (w - r)]
    BY <1>1, <1>2, <1>5 DEF MakeSpace
  <2> QED
    BY <1>5, <2>1 DEF b, Buf
<1> QED
  BY <1>4, <1>5

\* makeSpace(n) keeps what is readable and makes room for n bytes; it grows
\* the vector only when the room before and behind together is not enough.
LEMMA MakeSpaceMakesRoom ==
  ASSUME NEW b \in Buffers, NEW n \in Nat, WritableBytes(b) < n
  PROVE  /\ MakeSpace(b, n) \in Buffers
         /\ Readable(MakeSpace(b, n)) = Readable(b)
         /\ n <= WritableBytes(MakeSpace(b, n))
         /\ CheapPrepend + ReadableBytes(b) + n <= Len(b.mem)
              => Len(MakeSpace(b, n).mem) = Len(b.mem)
         /\ \/ Len(MakeSpace(b, n).mem) = Len(b.mem)
            \/ Len(MakeSpace(b, n).mem) < CheapPrepend + ReadableBytes(b) + 2 * n
<1>1. PICK m \in Seq(Nat), r \in Nat, w \in Nat : b = Buf(m, r, w) /\ Indexed(m, r, w)
  BY BufferParts
<1>2. /\ Len(m) \in Nat /\ CheapPrepend \in Nat
      /\ CheapPrepend <= r /\ r <= w /\ w <= Len(m)
  BY <1>1, LenProperties, BufferAssumption DEF Indexed, BufferAssumption
<1>3. /\ ReadableBytes(b) = w - r /\ Readable(b) = SubSeq(m, r + 1, w)
      /\ Len(m) - w < n /\ b.mem = m
  BY <1>1, PartsOfBuf
<1> DEFINE s == SubSeq(m, r + 1, w)
<1>4. s \in Seq(Nat) /\ Len(s) = w - r /\ \A i \in 1 .. w - r : s[i] = m[r + i]
  BY <1>2, SliceIs
<1> HIDE DEF s
<1>5. CASE (Len(m) - w) + r < n + CheapPrepend
  <2> DEFINE k == w + n - Len(m)
             z == Zeros(k)
             g == m \o z
  <2>1. k \in Nat /\ Len(m) + k = w + n
    BY <1>2, <1>3
  <2>2. z \in Seq(Nat) /\ Len(z) = k
    BY <2>1, ZerosAreBytes
  <2> HIDE DEF k, z
  <2>3. g \in Seq(Nat) /\ Len(g) = w + n /\ \A i \in 1 .. Len(m) : g[i] = m[i]
    BY <2>1, <2>2, ConcatIs
  <2>4. MakeSpace(b, n) = Buf(g, r, w)
    BY <1>1, <1>5, MakeSpaceBranches DEF k, z
  <2> HIDE DEF g
  <2>5. Indexed(g, r, w)
    BY <1>2, <2>3 DEF Indexed
  <2>6. SubSeq(g, r + 1, w) = s
    <3>1. \A i \in 1 .. w - r : r + i \in 1 .. Len(m)
      BY <1>2
    <3>2. \A i \in 1 .. w - r : g[r + i] = s[i]
      BY <1>4, <2>3, <3>1
    <3> QED
      BY <1>2, <1>4, <2>3, <2>5, <3>2, SameSlice DEF Indexed
  <2>7. MakeSpace(b, n) \in Buffers
    BY <2>3, <2>4, <2>5, PartsAreBuffer
  <2>8. Readable(MakeSpace(b, n)) = Readable(b)
    <3>1. Readable(Buf(g, r, w)) = SubSeq(g, r + 1, w)
      BY <2>3, PartsOfBuf
    <3> QED
      BY <1>3, <2>4, <2>6, <3>1 DEF s
  <2>9. WritableBytes(MakeSpace(b, n)) = Len(g) - w /\ MakeSpace(b, n).mem = g
    <3>1. WritableBytes(Buf(g, r, w)) = Len(g) - w /\ Buf(g, r, w).mem = g
      BY <2>3, PartsOfBuf
    <3> QED
      BY <2>4, <3>1
  <2>10. n <= WritableBytes(MakeSpace(b, n))
    BY <2>3, <2>9
  <2>11. ~ (CheapPrepend + ReadableBytes(b) + n <= Len(b.mem))
    BY <1>2, <1>3, <1>5
  <2>12. Len(MakeSpace(b, n).mem) < CheapPrepend + ReadableBytes(b) + 2 * n
    <3>1. w + n < CheapPrepend + (w - r) + 2 * n
      BY <1>2, <1>5
    <3> QED
      BY <1>3, <2>3, <2>9, <3>1
  <2> QED
    BY <2>7, <2>8, <2>10, <2>11, <2>12
<1>6. CASE ~ ((Len(m) - w) + r < n + CheapPrepend)
  <2> DEFINE e == CheapPrepend + (w - r)
             front == SubSeq(m, 1, CheapPrepend)
             back == SubSeq(m, e + 1, Len(m))
             g == front \o s \o back
  <2>1. e \in Nat /\ e <= Len(m) /\ CheapPrepend <= e /\ CheapPrepend <= Len(m)
        /\ e - CheapPrepend = w - r /\ n <= Len(m) - e
    BY <1>2, <1>3, <1>6
  <2> HIDE DEF e
  <2>2. front \in Seq(Nat) /\ Len(front) = CheapPrepend
    <3>1. 0 \in Nat /\ 0 <= CheapPrepend /\ 0 + 1 = 1 /\ CheapPrepend - 0 = CheapPrepend
      BY <1>2
    <3>2. SubSeq(m, 0 + 1, CheapPrepend) \in Seq(Nat)
          /\ Len(SubSeq(m, 0 + 1, CheapPrepend)) = CheapPrepend - 0
      BY <1>2, <2>1, <3>1, SliceIs
    <3> QED
      BY <3>1, <3>2
  <2>3. back \in Seq(Nat) /\ Len(back) = Len(m) - e
    BY <1>2, <2>1, SliceIs
  <2> HIDE DEF front, back
  <2> DEFINE f == front \o s
  <2>4. f \in Seq(Nat) /\ Len(f) = e
        /\ \A i \in 1 .. w - r : f[CheapPrepend + i] = s[i]
    <3>1. f \in Seq(Nat) /\ Len(f) = Len(front) + Len(s)
          /\ \A i \in 1 .. Len(s) : f[Len(front) + i] = s[i]
      BY <1>4, <2>2, ConcatIs
    <3> QED
      BY <1>4, <2>1, <2>2, <3>1 DEF e
  <2> HIDE DEF f
  <2>5. g = f \o back
    BY DEF f
  <2> HIDE DEF g
  <2>6. g \in Seq(Nat) /\ Len(g) = Len(f) + Len(back) /\ \A i \in 1 .. e : g[i] = f[i]
    BY <2>3, <2>4, <2>5, ConcatIs
  <2>7. Len(g) = Len(m)
    BY <1>2, <2>1, <2>3, <2>4, <2>6
  <2>8. MakeSpace(b, n) = Buf(g, CheapPrepend, e)
    BY <1>1, <1>6, MakeSpaceBranches DEF g, front, back, e, s
  <2>9. Indexed(g, CheapPrepend, e)
    BY <1>2, <2>1, <2>7 DEF Indexed
  <2>10. SubSeq(g, CheapPrepend + 1, e) = s
    <3>1. \A i \in 1 .. w - r : CheapPrepend + i \in 1 .. e
      BY <1>2, <2>1
    <3>2. \A i \in 1 .. e - CheapPrepend : g[CheapPrepend + i] = s[i]
      BY <2>1, <2>4, <2>6, <3>1
    <3> QED
      BY <1>2, <1>4, <2>1, <2>6, <2>7, <3>2, SameSlice
  <2>11. MakeSpace(b, n) \in Buffers
    BY <1>2, <2>1, <2>6, <2>8, <2>9, PartsAreBuffer
  <2>12. Readable(MakeSpace(b, n)) = Readable(b)
    <3>1. Readable(Buf(g, CheapPrepend, e)) = SubSeq(g, CheapPrepend + 1, e)
      BY <1>2, <2>1, <2>6, PartsOfBuf
    <3> QED
      BY <1>3, <2>8, <2>10, <3>1 DEF s
  <2>13. WritableBytes(MakeSpace(b, n)) = Len(g) - e /\ MakeSpace(b, n).mem = g
    <3>1. /\ WritableBytes(Buf(g, CheapPrepend, e)) = Len(g) - e
          /\ Buf(g, CheapPrepend, e).mem = g
      BY <1>2, <2>1, <2>6, PartsOfBuf
    <3> QED
      BY <2>8, <3>1
  <2> QED
    BY <1>3, <2>1, <2>7, <2>11, <2>12, <2>13
<1> QED
  BY <1>5, <1>6

\* ensureWritableBytes(n) keeps what is readable, leaves room for n bytes, and
\* grows the vector only when it must.
LEMMA EnsureMakesRoom ==
  ASSUME NEW b \in Buffers, NEW n \in Nat
  PROVE  /\ EnsureWritableBytes(b, n) \in Buffers
         /\ Readable(EnsureWritableBytes(b, n)) = Readable(b)
         /\ n <= WritableBytes(EnsureWritableBytes(b, n))
         /\ CheapPrepend + ReadableBytes(b) + n <= Len(b.mem)
              => Len(EnsureWritableBytes(b, n).mem) = Len(b.mem)
         /\ \/ Len(EnsureWritableBytes(b, n).mem) = Len(b.mem)
            \/ Len(EnsureWritableBytes(b, n).mem) < CheapPrepend + ReadableBytes(b) + 2 * n
<1>1. WritableBytes(b) \in Int
  <2>1. PICK m \in Seq(Nat), r \in Nat, w \in Nat : b = Buf(m, r, w) /\ Indexed(m, r, w)
    BY BufferParts
  <2>2. WritableBytes(b) = Len(m) - w /\ Len(m) \in Nat
    BY <2>1, PartsOfBuf, LenProperties
  <2> QED
    BY <2>2
<1>2. CASE WritableBytes(b) < n
  <2>1. EnsureWritableBytes(b, n) = MakeSpace(b, n)
    BY <1>2 DEF EnsureWritableBytes
  <2> QED
    BY <1>2, <2>1, MakeSpaceMakesRoom
<1>3. CASE ~ (WritableBytes(b) < n)
  <2>1. EnsureWritableBytes(b, n) = b
    BY <1>3 DEF EnsureWritableBytes
  <2> QED
    BY <1>1, <1>3, <2>1
<1> QED
  BY <1>2, <1>3

\* Data written where it fits comes after what is readable, and the vector
\* keeps its length.
LEMMA WrittenAddsLast ==
  ASSUME NEW b \in Buffers, NEW data \in Seq(Nat), Len(data) <= WritableBytes(b)
  PROVE  /\ Written(b, data) \in Buffers
         /\ Readable(Written(b, data)) = Readable(b) \o data
         /\ Len(Written(b, data).mem) = Len(b.mem)
<1>1. PICK m \in Seq(Nat), r \in Nat, w \in Nat : b = Buf(m, r, w) /\ Indexed(m, r, w)
  BY BufferParts
<1>2. /\ Len(m) \in Nat /\ CheapPrepend \in Nat /\ Len(data) \in Nat
      /\ CheapPrepend <= r /\ r <= w /\ w <= Len(m)
  BY <1>1, LenProperties, BufferAssumption DEF Indexed, BufferAssumption
<1>3. /\ Readable(b) = SubSeq(m, r + 1, w)
      /\ Len(data) <= Len(m) - w /\ b.mem = m /\ b.writer = w /\ b.reader = r
  <2>1. b.writer = w /\ b.reader = r
    BY <1>1 DEF Buf
  <2> QED
    BY <1>1, <2>1, PartsOfBuf
<1> DEFINE d == Len(data)
           g == [i \in DOMAIN m |-> IF i \in w + 1 .. w + d THEN data[i - w] ELSE m[i]]
           s == SubSeq(m, r + 1, w)
<1>4. Written(b, data) = Buf(g, r, w + d)
  BY <1>3 DEF Written, Buf
<1>5. DOMAIN m = 1 .. Len(m)
  BY LenProperties
<1>6. g \in Seq(Nat) /\ Len(g) = Len(m)
  <2>1. ASSUME NEW i \in 1 .. Len(m)
        PROVE  (IF i \in w + 1 .. w + d THEN data[i - w] ELSE m[i]) \in Nat
    <3>1. CASE i \in w + 1 .. w + d
      <4>1. i - w \in 1 .. Len(data)
        BY <1>2, <3>1
      <4> QED
        BY <3>1, <4>1, ElementOfSeq
    <3>2. CASE ~ (i \in w + 1 .. w + d)
      BY <3>2, ElementOfSeq
    <3> QED
      BY <3>1, <3>2
  <2>2. g \in [1 .. Len(m) -> Nat]
    BY <1>5, <2>1
  <2> HIDE DEF g
  <2>3. g \in Seq(Nat)
    BY <1>2, <2>2, SeqDef
  <2>4. DOMAIN g = 1 .. Len(m) /\ DOMAIN g = 1 .. Len(g) /\ Len(g) \in Nat
    BY <2>2, <2>3, LenProperties
  <2> QED
    BY <1>2, <2>3, <2>4
<1>7. s \in Seq(Nat) /\ Len(s) = w - r /\ \A i \in 1 .. w - r : s[i] = m[r + i]
  BY <1>2, SliceIs
<1> HIDE DEF s
<1> DEFINE t == s \o data
<1>8. /\ t \in Seq(Nat) /\ Len(t) = (w - r) + d
      /\ \A i \in 1 .. w - r : t[i] = s[i]
      /\ \A i \in 1 .. d : t[(w - r) + i] = data[i]
  <2>1. /\ t \in Seq(Nat) /\ Len(t) = Len(s) + Len(data)
        /\ \A i \in 1 .. Len(s) : t[i] = s[i]
        /\ \A i \in 1 .. Len(data) : t[Len(s) + i] = data[i]
    BY <1>7, ConcatIs
  <2> QED
    BY <1>7, <2>1
<1> HIDE DEF t
<1>9. \A i \in 1 .. Len(m) :
        g[i] = IF i \in w + 1 .. w + d THEN data[i - w] ELSE m[i]
  BY <1>5
<1> HIDE DEF g, d
<1>10. d \in Nat /\ d <= Len(m) - w
  BY <1>2, <1>3 DEF d
<1>11. ASSUME NEW i \in 1 .. (w + d) - r
       PROVE  g[r + i] = t[i]
  <2>1. r + i \in 1 .. Len(m)
    BY <1>2, <1>10
  <2>2. CASE i <= w - r
    <3>1. i \in 1 .. w - r /\ ~ (r + i \in w + 1 .. w + d)
      BY <1>2, <1>10, <2>2
    <3> QED
      BY <1>7, <1>8, <1>9, <2>1, <3>1
  <2>3. CASE ~ (i <= w - r)
    <3> DEFINE j == i - (w - r)
    <3>1. j \in 1 .. d /\ i = (w - r) + j /\ (r + i) - w = j
          /\ r + i \in w + 1 .. w + d
      BY <1>2, <1>10, <2>3
    <3> HIDE DEF j
    <3> QED
      BY <1>8, <1>9, <2>1, <3>1
  <2> QED
    BY <2>2, <2>3
<1>12. /\ w + d \in Nat /\ r <= w + d /\ w + d <= Len(g)
       /\ Len(t) = (w + d) - r
  BY <1>2, <1>6, <1>8, <1>10
<1>13. SubSeq(g, r + 1, w + d) = t
  BY <1>6, <1>8, <1>11, <1>12, SameSlice
<1>14. Indexed(g, r, w + d)
  BY <1>2, <1>12 DEF Indexed
<1>15. Written(b, data) \in Buffers
  BY <1>4, <1>6, <1>12, <1>14, PartsAreBuffer
<1>16. Readable(Written(b, data)) = t /\ Written(b, data).mem = g
  <2> DEFINE v == w + d
  <2>1. v \in Nat
    BY <1>12
  <2> HIDE DEF v
  <2>2. Readable(Buf(g, r, v)) = SubSeq(g, r + 1, v) /\ Buf(g, r, v).mem = g
    BY <1>6, <2>1, PartsOfBuf
  <2> QED
    BY <1>4, <1>13, <2>2 DEF v
<1> QED
  BY <1>3, <1>6, <1>15, <1>16 DEF s, t

\* append adds its data after what is readable, whatever the room, and leaves
\* a buffer; the vector grows only when the data would not fit even with what
\* is readable moved to the front.
THEOREM AppendAddsLast ==
  ASSUME NEW b \in Buffers, NEW data \in Seq(Nat)
  PROVE  /\ AppendBytes(b, data) \in Buffers
         /\ Readable(AppendBytes(b, data)) = Readable(b) \o data
         /\ CheapPrepend + ReadableBytes(b) + Len(data) <= Len(b.mem)
              => Len(AppendBytes(b, data).mem) = Len(b.mem)
         /\ \/ Len(AppendBytes(b, data).mem) = Len(b.mem)
            \/ Len(AppendBytes(b, data).mem)
                 < CheapPrepend + ReadableBytes(b) + 2 * Len(data)
<1> DEFINE c == EnsureWritableBytes(b, Len(data))
<1>1. Len(data) \in Nat
  BY LenProperties
<1>2. /\ c \in Buffers /\ Readable(c) = Readable(b)
      /\ Len(data) <= WritableBytes(c)
      /\ CheapPrepend + ReadableBytes(b) + Len(data) <= Len(b.mem)
           => Len(c.mem) = Len(b.mem)
      /\ \/ Len(c.mem) = Len(b.mem)
         \/ Len(c.mem) < CheapPrepend + ReadableBytes(b) + 2 * Len(data)
  BY <1>1, EnsureMakesRoom
<1>3. AppendBytes(b, data) = Written(c, data)
  BY DEF AppendBytes
<1> HIDE DEF c
<1> QED
  BY <1>2, <1>3, WrittenAddsLast

-----------------------------------------------------------------------------
(* Recursive functions over 0 .. n: one exists, and it follows its steps *)

\* Concatenation of bytes is associative.
LEMMA Associative ==
  \A s \in Seq(Nat), t \in Seq(Nat), u \in Seq(Nat) : (s \o t) \o u = s \o (t \o u)
BY ConcatAssociative

\* A set of numbers that is not empty has a least element.
LEMMA LeastNumber ==
  ASSUME NEW T \in SUBSET Nat, T # {}
  PROVE  \E m \in T : \A k \in T : m <= k
<1> DEFINE R == OpToRel(<, Nat)
<1>1. \A k, m \in Nat : k < m => <<k, m>> \in R
  BY DEF OpToRel
<1>2. IsWellFoundedOn(R, Nat)
  BY NatLessThanWellFounded
<1> HIDE DEF R
<1>3. PICK m \in T : \A k \in T : ~ (<<k, m>> \in R)
  BY <1>2, WFMin
<1>4. ASSUME NEW k \in T PROVE m <= k
  <2>1. k \in Nat /\ m \in Nat
    OBVIOUS
  <2>2. ~ (k < m)
    BY <1>1, <1>3, <2>1
  <2> QED
    BY <2>1, <2>2
<1> QED
  BY <1>4

\* Induction: a set of numbers with 0 and the next of each is all of them.
LEMMA AllNumbers ==
  ASSUME NEW T \in SUBSET Nat, 0 \in T, \A n \in T : n + 1 \in T
  PROVE  T = Nat
<1> SUFFICES ASSUME Nat \ T # {} PROVE FALSE
  OBVIOUS
<1>1. PICK m \in Nat \ T : \A k \in Nat \ T : m <= k
  BY LeastNumber
<1>2. m # 0
  OBVIOUS
<1>3. m - 1 \in Nat /\ ~ (m <= m - 1)
  BY <1>1, <1>2
<1>4. m - 1 \in T
  BY <1>1, <1>3
<1>5. (m - 1) + 1 \in T
  BY <1>4
<1> QED
  BY <1>5

\* g has n steps within S.
AreSteps(g, n, S) == \A i \in 1 .. n : g[i] \in [S -> S]

\* f goes through n steps from a, step i with g[i].
Steps(f, n, a, g) == f[0] = a /\ \A i \in 1 .. n : f[i] = g[i][f[i - 1]]

\* Recursion: there is a function that goes through n steps.
LEMMA StepsExist ==
  ASSUME NEW S, NEW a \in S, NEW n \in Nat, NEW g, AreSteps(g, n, S)
  PROVE  \E f \in [0 .. n -> S] : Steps(f, n, a, g)
<1> DEFINE T == {m \in Nat : m <= n => \E f \in [0 .. m -> S] : Steps(f, m, a, g)}
<1>1. 0 \in T
  <2> DEFINE f == [i \in 0 .. 0 |-> a]
  <2>1. f \in [0 .. 0 -> S] /\ f[0] = a
    OBVIOUS
  <2> HIDE DEF f
  <2>2. Steps(f, 0, a, g)
    BY <2>1 DEF Steps
  <2> QED
    BY <2>1, <2>2
<1>2. ASSUME NEW m \in T PROVE m + 1 \in T
  <2> SUFFICES ASSUME m + 1 <= n
               PROVE  \E f \in [0 .. m + 1 -> S] : Steps(f, m + 1, a, g)
    OBVIOUS
  <2>1. m \in Nat /\ m <= n
    OBVIOUS
  <2>2. PICK h \in [0 .. m -> S] : Steps(h, m, a, g)
    BY <2>1
  <2> DEFINE f == [i \in 0 .. m + 1 |-> IF i = m + 1 THEN g[m + 1][h[m]] ELSE h[i]]
  <2>3. g[m + 1] \in [S -> S] /\ h[m] \in S
    BY <2>1 DEF AreSteps
  <2>4. g[m + 1][h[m]] \in S
    BY <2>3
  <2>5. f \in [0 .. m + 1 -> S]
    BY <2>1, <2>4
  <2>6. f[m + 1] = g[m + 1][h[m]] /\ \A i \in 0 .. m : f[i] = h[i]
    BY <2>1
  <2> HIDE DEF f
  <2>7. Steps(f, m + 1, a, g)
    <3>1. f[0] = a
      BY <2>1, <2>2, <2>6 DEF Steps
    <3>2. ASSUME NEW i \in 1 .. m + 1 PROVE f[i] = g[i][f[i - 1]]
      <4>1. CASE i = m + 1
        BY <2>1, <2>6, <4>1
      <4>2. CASE i # m + 1
        <5>1. i \in 1 .. m /\ i - 1 \in 0 .. m /\ i \in 0 .. m
          BY <2>1, <4>2
        <5> QED
          BY <2>2, <2>6, <5>1 DEF Steps
      <4> QED
        BY <4>1, <4>2
    <3> QED
      BY <3>1, <3>2 DEF Steps
  <2> QED
    BY <2>5, <2>7
<1>3. T = Nat
  <2>1. T \in SUBSET Nat
    OBVIOUS
  <2> HIDE DEF T
  <2> QED
    BY <1>1, <1>2, <2>1, AllNumbers
<1> QED
  BY <1>3

\* Two functions that go through the same steps agree, as far as both go.
LEMMA StepsAgree ==
  ASSUME NEW n \in Nat, NEW a, NEW f, NEW h, NEW g,
         Steps(f, n, a, g), Steps(h, n, a, g)
  PROVE  \A i \in 0 .. n : f[i] = h[i]
<1> DEFINE T == {m \in Nat : m <= n => f[m] = h[m]}
<1>1. 0 \in T
  BY DEF Steps
<1>2. ASSUME NEW m \in T PROVE m + 1 \in T
  <2> SUFFICES ASSUME m + 1 <= n PROVE f[m + 1] = h[m + 1]
    OBVIOUS
  <2>1. m + 1 \in 1 .. n /\ (m + 1) - 1 = m /\ f[m] = h[m]
    OBVIOUS
  <2> QED
    BY <2>1 DEF Steps
<1>3. T = Nat
  <2>1. T \in SUBSET Nat
    OBVIOUS
  <2> HIDE DEF T
  <2> QED
    BY <1>1, <1>2, <2>1, AllNumbers
<1>4. \A i \in 0 .. n : i \in T
  BY <1>3
<1> QED
  BY <1>4
\* c takes n steps with g, as long as it is in S.
Follows(c, n, S, g) == \A i \in 1 .. n : c[i - 1] \in S => c[i] = g[i][c[i - 1]]

\* Whatever starts from a and takes step i with g[i], as long as it stays in S,
\* stays in S.
LEMMA StepsFollow ==
  ASSUME NEW S, NEW a \in S, NEW n \in Nat, NEW g, AreSteps(g, n, S),
         NEW c, c[0] = a, Follows(c, n, S, g)
  PROVE  Steps(c, n, a, g) /\ \A i \in 0 .. n : c[i] \in S
<1> DEFINE T == {m \in Nat : m <= n => c[m] \in S}
<1>1. 0 \in T
  OBVIOUS
<1>2. ASSUME NEW m \in T PROVE m + 1 \in T
  <2> SUFFICES ASSUME m + 1 <= n PROVE c[m + 1] \in S
    OBVIOUS
  <2>1. m + 1 \in 1 .. n /\ (m + 1) - 1 = m /\ c[m] \in S
    OBVIOUS
  <2>2. c[m + 1] = g[m + 1][c[m]] /\ g[m + 1] \in [S -> S]
    BY <2>1 DEF AreSteps, Follows
  <2> QED
    BY <2>1, <2>2
<1>3. T = Nat
  <2>1. T \in SUBSET Nat
    OBVIOUS
  <2> HIDE DEF T
  <2> QED
    BY <1>1, <1>2, <2>1, AllNumbers
<1>4. \A i \in 0 .. n : c[i] \in S
  BY <1>3
<1>5. \A i \in 1 .. n : i - 1 \in 0 .. n
  OBVIOUS
<1> QED
  BY <1>4, <1>5 DEF Steps, Follows

-----------------------------------------------------------------------------
(* Weight and Number *)

\* Numbers from 1.
Positive == Nat \ {0}

\* One more byte.
MoreWeight == [i \in Nat |-> [x \in Positive |-> x * Byte]]

\* A function with the recursion of Weight.
IsWeights(w, n) == w = [i \in 0 .. n |-> IF i = 0 THEN 1 ELSE w[i - 1] * Byte]

\* What the recursion of Weight defines.
LEMMA WeightIsChosen ==
  ASSUME NEW n \in Nat
  PROVE  Weight(n) = (CHOOSE w : IsWeights(w, n))[n]
BY Zenon DEF Weight, IsWeights

\* The recursion of Weight has a solution, and it goes through steps.
LEMMA WeightSteps ==
  ASSUME NEW n \in Nat
  PROVE  \E w : /\ Steps(w, n, 1, MoreWeight) /\ Weight(n) = w[n]
                /\ \A i \in 0 .. n : w[i] \in Positive
<1> DEFINE g == MoreWeight
           one == 1
<1>1. Byte \in Nat /\ Byte > 1
  BY CodecAssumption DEF CodecAssumption
<1>2. /\ AreSteps(g, n, Positive)
      /\ \A i \in 1 .. n, x \in Positive : g[i][x] = x * Byte
  <2>1. \A x \in Positive : x * Byte \in Positive
    BY <1>1 DEF Positive
  <2>2. \A i \in 1 .. n : g[i] = [x \in Positive |-> x * Byte]
    BY DEF MoreWeight
  <2> HIDE DEF g
  <2> QED
    BY <2>1, <2>2 DEF AreSteps
<1>3. one = 1 /\ one \in Positive
  BY DEF Positive
<1> HIDE DEF g, one
<1>4. PICK f \in [0 .. n -> Positive] : Steps(f, n, one, g)
  BY <1>2, <1>3, StepsExist
<1>5. IsWeights(f, n)
  <2>1. ASSUME NEW i \in 0 .. n
        PROVE  f[i] = IF i = 0 THEN 1 ELSE f[i - 1] * Byte
    <3>1. CASE i = 0
      BY <1>3, <1>4, <3>1 DEF Steps
    <3>2. CASE i # 0
      <4>1. i \in 1 .. n /\ i - 1 \in 0 .. n
        BY <3>2
      <4>2. f[i] = g[i][f[i - 1]] /\ f[i - 1] \in Positive
        BY <1>4, <4>1 DEF Steps
      <4> QED
        BY <1>2, <3>2, <4>1, <4>2
    <3> QED
      BY <3>1, <3>2
  <2> QED
    BY <1>4, <2>1 DEF IsWeights
<1> DEFINE c == CHOOSE w : IsWeights(w, n)
<1>6. IsWeights(c, n)
  BY <1>5
<1>7. Weight(n) = c[n]
  BY WeightIsChosen
<1> HIDE DEF c
<1>8. c[0] = one /\ \A i \in 1 .. n : c[i] = c[i - 1] * Byte
  <2>1. \A i \in 0 .. n : c[i] = IF i = 0 THEN 1 ELSE c[i - 1] * Byte
    BY <1>6 DEF IsWeights
  <2>2. \A i \in 1 .. n : i \in 0 .. n /\ i # 0
    OBVIOUS
  <2> QED
    BY <1>3, <2>1, <2>2
<1>9. Follows(c, n, Positive, g)
  BY <1>2, <1>8 DEF Follows
<1>10. Steps(c, n, one, g) /\ \A i \in 0 .. n : c[i] \in Positive
  BY <1>2, <1>3, <1>8, <1>9, StepsFollow
<1> QED
  BY <1>3, <1>7, <1>10 DEF g

\* No byte counts 1, and each byte multiplies with what a byte can be.
LEMMA WeightGrows ==
  /\ Weight(0) = 1
  /\ \A n \in Nat : Weight(n) \in Positive /\ Weight(n + 1) = Weight(n) * Byte
<1>1. \A n \in Nat : Weight(n) \in Positive
  <2> SUFFICES ASSUME NEW n \in Nat PROVE Weight(n) \in Positive
    OBVIOUS
  <2>1. n \in 0 .. n
    OBVIOUS
  <2> QED
    BY <2>1, WeightSteps
<1>2. Weight(0) = 1
  <2>1. PICK w : Steps(w, 0, 1, MoreWeight) /\ Weight(0) = w[0]
    BY WeightSteps
  <2> QED
    BY <2>1 DEF Steps
<1>3. ASSUME NEW n \in Nat PROVE Weight(n + 1) = Weight(n) * Byte
  <2>1. PICK v : Steps(v, n, 1, MoreWeight) /\ Weight(n) = v[n]
    BY WeightSteps
  <2> DEFINE k == n + 1
  <2>2. k \in Nat /\ n \in 1 - 1 .. k /\ k \in 1 .. k /\ k - 1 = n
    OBVIOUS
  <2>3. \A i \in 1 .. n : i \in 1 .. k
    OBVIOUS
  <2> HIDE DEF k
  <2>4. PICK w : /\ Steps(w, k, 1, MoreWeight) /\ Weight(k) = w[k]
                 /\ \A i \in 0 .. k : w[i] \in Positive
    BY <2>2, WeightSteps
  <2>5. Steps(w, n, 1, MoreWeight)
    BY <2>3, <2>4 DEF Steps
  <2>6. \A i \in 0 .. n : v[i] = w[i]
    BY <2>1, <2>5, StepsAgree
  <2>7. v[n] = w[n]
    BY <2>6
  <2>8. w[k] = MoreWeight[k][w[n]] /\ w[n] \in Positive
    BY <2>2, <2>4 DEF Steps
  <2>9. Weight(k) = w[n] * Byte
    BY <2>2, <2>4, <2>8 DEF MoreWeight
  <2> QED
    BY <2>1, <2>7, <2>9 DEF k
<1> QED
  BY <1>1, <1>2, <1>3

\* Bytes of a number, each with its weight.
MoreNumber(s) == [i \in 1 .. Len(s) |-> [x \in Nat |-> x + s[i] * Weight(i - 1)]]

\* A function with the recursion of Number.
IsNumbers(v, s) ==
  v = [i \in 0 .. Len(s) |-> IF i = 0 THEN 0 ELSE v[i - 1] + s[i] * Weight(i - 1)]

\* What the recursion of Number defines.
LEMMA NumberIsChosen ==
  ASSUME NEW s
  PROVE  Number(s) = (CHOOSE v : IsNumbers(v, s))[Len(s)]
BY Zenon DEF Number, IsNumbers

\* The recursion of Number has a solution, and it goes through steps.
LEMMA NumberSteps ==
  ASSUME NEW s \in Seq(Nat)
  PROVE  \E v : /\ v[0] = 0 /\ Number(s) = v[Len(s)]
                /\ \A i \in 1 .. Len(s) : v[i] = v[i - 1] + s[i] * Weight(i - 1)
                /\ \A i \in 0 .. Len(s) : v[i] \in Nat
<1> DEFINE g == MoreNumber(s)
           n == Len(s)
           zero == 0
           d == [i \in 1 .. n |-> s[i] * Weight(i - 1)]
<1>1. n \in Nat /\ \A i \in 1 .. n : s[i] \in Nat
  BY LenProperties, ElementOfSeq
<1>2. \A i \in 1 .. n : i - 1 \in Nat /\ Weight(i - 1) \in Nat
  <2> SUFFICES ASSUME NEW i \in 1 .. n PROVE i - 1 \in Nat /\ Weight(i - 1) \in Nat
    OBVIOUS
  <2>1. i - 1 \in Nat
    BY <1>1
  <2> QED
    BY <2>1, WeightGrows DEF Positive
<1>3. \A i \in 1 .. n : d[i] = s[i] * Weight(i - 1) /\ d[i] \in Nat
  BY <1>1, <1>2
<1>4. /\ AreSteps(g, n, Nat)
      /\ \A i \in 1 .. n, x \in Nat : g[i][x] = x + d[i]
  <2>1. \A i \in 1 .. n : g[i] = [x \in Nat |-> x + d[i]]
    BY DEF MoreNumber
  <2> HIDE DEF g, d
  <2>2. \A i \in 1 .. n : [x \in Nat |-> x + d[i]] \in [Nat -> Nat]
    BY <1>3
  <2> QED
    BY <1>3, <2>1, <2>2 DEF AreSteps
<1>5. zero = 0 /\ zero \in Nat
  OBVIOUS
<1> HIDE DEF g, n, zero, d
<1>6. PICK f \in [0 .. n -> Nat] : Steps(f, n, zero, g)
  BY <1>1, <1>4, <1>5, StepsExist
<1>7. IsNumbers(f, s)
  <2>1. ASSUME NEW i \in 0 .. n
        PROVE  f[i] = IF i = 0 THEN 0 ELSE f[i - 1] + s[i] * Weight(i - 1)
    <3>1. CASE i = 0
      BY <1>5, <1>6, <3>1 DEF Steps
    <3>2. CASE i # 0
      <4>1. i \in 1 .. n /\ i - 1 \in 0 .. n
        BY <1>1, <3>2
      <4>2. f[i] = g[i][f[i - 1]] /\ f[i - 1] \in Nat
        BY <1>6, <4>1 DEF Steps
      <4> QED
        BY <1>3, <1>4, <3>2, <4>1, <4>2
    <3> QED
      BY <3>1, <3>2
  <2> QED
    BY <1>6, <2>1 DEF IsNumbers, n
<1> DEFINE c == CHOOSE v : IsNumbers(v, s)
<1>8. IsNumbers(c, s)
  BY <1>7
<1>9. Number(s) = c[Len(s)]
  BY NumberIsChosen
<1> HIDE DEF c
<1>10. c[0] = zero /\ \A i \in 1 .. n : c[i] = c[i - 1] + d[i]
  <2>1. \A i \in 0 .. n : c[i] = IF i = 0 THEN 0 ELSE c[i - 1] + s[i] * Weight(i - 1)
    BY <1>8 DEF IsNumbers, n
  <2>2. \A i \in 1 .. n : i \in 0 .. n /\ i # 0
    BY <1>1
  <2>3. 0 \in 0 .. n
    BY <1>1
  <2> QED
    BY <1>3, <1>5, <2>1, <2>2, <2>3
<1>11. Follows(c, n, Nat, g)
  BY <1>4, <1>10 DEF Follows
<1>12. Steps(c, n, zero, g) /\ \A i \in 0 .. n : c[i] \in Nat
  BY <1>1, <1>4, <1>5, <1>10, <1>11, StepsFollow
<1> QED
  BY <1>3, <1>5, <1>9, <1>10, <1>12 DEF n

\* The bytes of a number are bytes, as many as asked for.
LEMMA LittleEndianBytes ==
  ASSUME NEW v \in Nat, NEW n \in Nat
  PROVE  /\ LittleEndian(v, n) \in Seq(Nat) /\ Len(LittleEndian(v, n)) = n
         /\ \A i \in 1 .. n : LittleEndian(v, n)[i] = (v \div Weight(i - 1)) % Byte
<1> DEFINE s == LittleEndian(v, n)
<1>1. Byte \in Nat /\ Byte > 1
  BY CodecAssumption DEF CodecAssumption
<1>2. \A i \in 1 .. n : (v \div Weight(i - 1)) % Byte \in Nat
  <2> SUFFICES ASSUME NEW i \in 1 .. n PROVE (v \div Weight(i - 1)) % Byte \in Nat
    OBVIOUS
  <2>1. Weight(i - 1) \in Nat /\ Weight(i - 1) # 0
    BY WeightGrows DEF Positive
  <2>2. v \div Weight(i - 1) \in Nat
    BY <2>1
  <2> QED
    BY <1>1, <2>2
<1>3. s \in [1 .. n -> Nat] /\ \A i \in 1 .. n : s[i] = (v \div Weight(i - 1)) % Byte
  BY <1>2 DEF LittleEndian
<1> HIDE DEF s
<1>4. s \in Seq(Nat)
  BY <1>3, SeqDef
<1>5. DOMAIN s = 1 .. n /\ DOMAIN s = 1 .. Len(s) /\ Len(s) \in Nat
  BY <1>3, <1>4, LenProperties
<1>6. Len(s) = n
  BY <1>5
<1> QED
  BY <1>3, <1>4, <1>6 DEF s

\* One more byte of a number: the rest by the next weight.
LEMMA OneByteMore ==
  ASSUME NEW v \in Nat, NEW w \in Nat, w > 0
  PROVE  v % (w * Byte) = (v % w) + ((v \div w) % Byte) * w
<1>1. Byte \in Nat /\ Byte > 1
  BY CodecAssumption DEF CodecAssumption
<1> DEFINE q == v \div w
           r == v % w
           h == q \div Byte
           d == q % Byte
<1>2. q \in Nat /\ r \in 0 .. w - 1 /\ v = q * w + r
  OBVIOUS
<1> HIDE DEF q, r
<1>3. h \in Nat /\ d \in 0 .. Byte - 1 /\ q = h * Byte + d
  BY <1>1, <1>2
<1> HIDE DEF h, d
<1>4. v = h * (w * Byte) + (d * w + r)
  BY <1>1, <1>2, <1>3
<1>5. d * w + r \in 0 .. w * Byte - 1
  <2>1. d * w <= (Byte - 1) * w /\ d * w \in Nat
    BY <1>1, <1>3
  <2>2. (Byte - 1) * w = w * Byte - w
    BY <1>1
  <2> QED
    BY <1>1, <1>2, <2>1, <2>2
<1> DEFINE x == d * w + r
           p == w * Byte
<1>6. p \in Nat /\ p > 0 /\ x \in 0 .. p - 1 /\ v = h * p + x
  BY <1>1, <1>4, <1>5
<1> HIDE DEF x, p
<1>7. v % p = x
  BY <1>3, <1>6
<1> QED
  BY <1>2, <1>3, <1>7 DEF x, p, r, d, q

\* A number that fits n bytes is what its n bytes say.
THEOREM NumberOfBytes ==
  ASSUME NEW v \in Nat, NEW n \in Nat, v < Weight(n)
  PROVE  Number(LittleEndian(v, n)) = v
<1> DEFINE s == LittleEndian(v, n)
<1>1. /\ s \in Seq(Nat) /\ Len(s) = n
      /\ \A i \in 1 .. n : s[i] = (v \div Weight(i - 1)) % Byte
  BY LittleEndianBytes
<1> HIDE DEF s
<1>2. PICK c : /\ c[0] = 0 /\ Number(s) = c[n]
               /\ \A i \in 1 .. n : c[i] = c[i - 1] + s[i] * Weight(i - 1)
  BY <1>1, NumberSteps
<1> DEFINE T == {m \in Nat : m <= n => c[m] = v % Weight(m)}
<1>3. 0 \in T
  <2>1. v % 1 = 0
    OBVIOUS
  <2> QED
    BY <1>2, <2>1, WeightGrows
<1>4. ASSUME NEW m \in T PROVE m + 1 \in T
  <2> SUFFICES ASSUME m + 1 <= n PROVE c[m + 1] = v % Weight(m + 1)
    OBVIOUS
  <2>1. m + 1 \in 1 .. n /\ (m + 1) - 1 = m /\ m \in Nat /\ c[m] = v % Weight(m)
    OBVIOUS
  <2> HIDE DEF T
  <2>2. Weight(m) \in Nat /\ Weight(m) > 0 /\ Weight(m + 1) = Weight(m) * Byte
    BY <2>1, WeightGrows DEF Positive
  <2>3. c[m + 1] = c[m] + s[m + 1] * Weight(m)
    BY <1>2, <2>1
  <2>4. s[m + 1] = (v \div Weight(m)) % Byte
    BY <1>1, <2>1
  <2>5. v % (Weight(m) * Byte) = (v % Weight(m)) + ((v \div Weight(m)) % Byte) * Weight(m)
    BY <2>2, OneByteMore
  <2> QED
    BY <2>1, <2>2, <2>3, <2>4, <2>5
<1>5. T = Nat
  <2>1. T \in SUBSET Nat
    OBVIOUS
  <2> HIDE DEF T
  <2> QED
    BY <1>3, <1>4, <2>1, AllNumbers
<1>6. c[n] = v % Weight(n)
  <2>1. n \in T
    BY <1>5
  <2> QED
    BY <2>1
<1>7. Weight(n) \in Nat
  BY WeightGrows DEF Positive
<1> QED
  BY <1>2, <1>6, <1>7 DEF s

-----------------------------------------------------------------------------
(* Encode and Encoded *)

\* The bytes of an encoded frame: header of three numbers, and the body.
LEMMA EncodeParts ==
  ASSUME NEW f \in FrameType
  PROVE  /\ f.msgId \in Nat /\ f.seq \in Nat /\ f.body \in Seq(Nat)
         /\ f.msgId < Weight(IdSize) /\ f.seq < Weight(SeqSize)
         /\ Len(f.body) \in Nat /\ Len(f.body) < Weight(LenSize)
         /\ f = [msgId |-> f.msgId, seq |-> f.seq, body |-> f.body]
<1>1. Byte \in Nat /\ {IdSize, LenSize, SeqSize} \subseteq Nat
  BY CodecAssumption DEF CodecAssumption
<1>2. /\ f \in [msgId : 0 .. Weight(IdSize) - 1, seq : 0 .. Weight(SeqSize) - 1,
                body : Seq(0 .. Byte - 1)]
      /\ Len(f.body) < Weight(LenSize)
  BY DEF FrameType
<1>3. f.msgId \in 0 .. Weight(IdSize) - 1 /\ f.seq \in 0 .. Weight(SeqSize) - 1
      /\ f.body \in Seq(0 .. Byte - 1)
  BY <1>2
<1>4. Weight(IdSize) \in Nat /\ Weight(SeqSize) \in Nat
  BY <1>1, WeightGrows DEF Positive
<1>5. f.body \in Seq(Nat) /\ Len(f.body) \in Nat
  <2>1. 0 .. Byte - 1 \subseteq Nat
    OBVIOUS
  <2>2. f.body \in Seq(Nat)
    BY <1>3, <2>1, SeqMonotonic
  <2> QED
    BY <2>2, LenProperties
<1>6. f = [msgId |-> f.msgId, seq |-> f.seq, body |-> f.body]
  BY <1>2
<1> QED
  BY <1>2, <1>3, <1>4, <1>5, <1>6

\* s is four sequences end to end.
Pieces(s, a, b, c, d) ==
  /\ s \in Seq(Nat) /\ Len(s) = Len(a) + Len(b) + Len(c) + Len(d)
  /\ \A i \in 1 .. Len(a) : s[i] = a[i]
  /\ \A i \in 1 .. Len(b) : s[Len(a) + i] = b[i]
  /\ \A i \in 1 .. Len(c) : s[Len(a) + Len(b) + i] = c[i]
  /\ \A i \in 1 .. Len(d) : s[Len(a) + Len(b) + Len(c) + i] = d[i]

\* Four sequences end to end, and where each one starts.
LEMMA FourPieces ==
  ASSUME NEW a \in Seq(Nat), NEW b \in Seq(Nat), NEW c \in Seq(Nat), NEW d \in Seq(Nat),
         NEW s, s = a \o b \o c \o d
  PROVE  Pieces(s, a, b, c, d)
<1>1. Len(a) \in Nat /\ Len(b) \in Nat /\ Len(c) \in Nat /\ Len(d) \in Nat
  BY LenProperties
<1> DEFINE ab == a \o b
           abc == ab \o c
<1>2. /\ ab \in Seq(Nat) /\ Len(ab) = Len(a) + Len(b)
      /\ \A i \in 1 .. Len(a) : ab[i] = a[i]
      /\ \A i \in 1 .. Len(b) : ab[Len(a) + i] = b[i]
  BY ConcatIs
<1> HIDE DEF ab
<1>3. /\ abc \in Seq(Nat) /\ Len(abc) = Len(ab) + Len(c)
      /\ \A i \in 1 .. Len(ab) : abc[i] = ab[i]
      /\ \A i \in 1 .. Len(c) : abc[Len(ab) + i] = c[i]
  BY <1>2, ConcatIs
<1> HIDE DEF abc
<1>4. /\ s \in Seq(Nat) /\ Len(s) = Len(abc) + Len(d)
      /\ \A i \in 1 .. Len(abc) : s[i] = abc[i]
      /\ \A i \in 1 .. Len(d) : s[Len(abc) + i] = d[i]
  <2>1. s = abc \o d
    BY DEF abc, ab
  <2>2. /\ abc \o d \in Seq(Nat) /\ Len(abc \o d) = Len(abc) + Len(d)
        /\ \A i \in 1 .. Len(abc) : (abc \o d)[i] = abc[i]
        /\ \A i \in 1 .. Len(d) : (abc \o d)[Len(abc) + i] = d[i]
    BY <1>3, ConcatIs
  <2> QED
    BY <2>1, <2>2
<1>5. \A i \in 1 .. Len(a) : i \in 1 .. Len(ab) /\ i \in 1 .. Len(abc)
  BY <1>1, <1>2, <1>3
<1>6. ASSUME NEW i \in 1 .. Len(b)
      PROVE  Len(a) + i \in 1 .. Len(ab) /\ Len(a) + i \in 1 .. Len(abc)
  <2>1. Len(ab) = Len(a) + Len(b) /\ Len(abc) = Len(ab) + Len(c)
    BY <1>2, <1>3
  <2> HIDE DEF abc, ab
  <2> QED
    BY <1>1, <2>1
<1>7. \A i \in 1 .. Len(c) : Len(ab) + i \in 1 .. Len(abc)
  BY <1>1, <1>2, <1>3
<1>8. \A i \in 1 .. Len(a) : s[i] = a[i]
  BY <1>2, <1>3, <1>4, <1>5
<1>9. \A i \in 1 .. Len(b) : s[Len(a) + i] = b[i]
  BY <1>2, <1>3, <1>4, <1>6
<1>10. \A i \in 1 .. Len(c) : s[Len(a) + Len(b) + i] = c[i]
  BY <1>2, <1>3, <1>4, <1>7
<1>11. \A i \in 1 .. Len(d) : s[Len(a) + Len(b) + Len(c) + i] = d[i]
  BY <1>2, <1>3, <1>4
<1>12. Len(s) = Len(a) + Len(b) + Len(c) + Len(d)
  BY <1>1, <1>2, <1>3, <1>4
<1> QED
  BY <1>4, <1>8, <1>9, <1>10, <1>11, <1>12 DEF Pieces

\* An encoded frame, byte by byte.
LEMMA EncodeIs ==
  ASSUME NEW f \in FrameType
  PROVE  /\ Encode(f) \in Seq(Nat) /\ Len(Encode(f)) = HeaderSize + Len(f.body)
         /\ \A i \in 1 .. IdSize : Encode(f)[i] = LittleEndian(f.msgId, IdSize)[i]
         /\ \A i \in 1 .. LenSize :
              Encode(f)[BodyLenOffset + i] = LittleEndian(Len(f.body), LenSize)[i]
         /\ \A i \in 1 .. SeqSize :
              Encode(f)[SeqOffset + i] = LittleEndian(f.seq, SeqSize)[i]
         /\ \A i \in 1 .. Len(f.body) : Encode(f)[HeaderSize + i] = f.body[i]
<1> DEFINE a == LittleEndian(f.msgId, IdSize)
           b == LittleEndian(Len(f.body), LenSize)
           c == LittleEndian(f.seq, SeqSize)
           d == f.body
<1>1. IdSize \in Nat /\ LenSize \in Nat /\ SeqSize \in Nat
  BY CodecAssumption DEF CodecAssumption
<1>2. /\ a \in Seq(Nat) /\ b \in Seq(Nat) /\ c \in Seq(Nat) /\ d \in Seq(Nat)
      /\ Len(a) = IdSize /\ Len(b) = LenSize /\ Len(c) = SeqSize
  BY <1>1, EncodeParts, LittleEndianBytes
<1>3. Encode(f) = a \o b \o c \o d
  BY DEF Encode
<1> HIDE DEF a, b, c
<1> DEFINE s == Encode(f)
<1> HIDE DEF s
<1>4. Pieces(s, a, b, c, d)
  <2>1. s = a \o b \o c \o d
    BY <1>3 DEF s
  <2> QED
    BY <1>2, <2>1, FourPieces
<1>5. Encode(f) = s
  BY DEF s
<1>6. BodyLenOffset = Len(a) /\ SeqOffset = Len(a) + Len(b)
      /\ HeaderSize = Len(a) + Len(b) + Len(c)
  BY <1>2 DEF BodyLenOffset, SeqOffset, HeaderSize
<1>7. Len(Encode(f)) = HeaderSize + Len(f.body)
  BY <1>4, <1>5, <1>6 DEF Pieces
<1>8. \A i \in 1 .. IdSize : Encode(f)[i] = a[i]
  BY <1>2, <1>4, <1>5 DEF Pieces
<1>9. \A i \in 1 .. LenSize : Encode(f)[BodyLenOffset + i] = b[i]
  BY <1>2, <1>4, <1>5, <1>6 DEF Pieces
<1>10. \A i \in 1 .. SeqSize : Encode(f)[SeqOffset + i] = c[i]
  BY <1>2, <1>4, <1>5, <1>6 DEF Pieces
<1>11. \A i \in 1 .. Len(f.body) : Encode(f)[HeaderSize + i] = f.body[i]
  BY <1>4, <1>5, <1>6 DEF Pieces
<1>12. Encode(f) \in Seq(Nat)
  BY <1>4, <1>5 DEF Pieces
<1> QED
  BY <1>7, <1>8, <1>9, <1>10, <1>11, <1>12 DEF a, b, c

\* The bytes of one more frame.
MoreEncoded(fs) == [i \in 1 .. Len(fs) |-> [p \in Seq(Nat) |-> p \o Encode(fs[i])]]

\* A function with the recursion of Encoded.
IsEncodeds(e, fs) ==
  e = [i \in 0 .. Len(fs) |-> IF i = 0 THEN <<>> ELSE e[i - 1] \o Encode(fs[i])]

\* What the recursion of Encoded defines.
LEMMA EncodedIsChosen ==
  ASSUME NEW fs
  PROVE  Encoded(fs) = (CHOOSE e : IsEncodeds(e, fs))[Len(fs)]
BY Zenon DEF Encoded, IsEncodeds

\* The recursion of Encoded has a solution, and it goes through steps.
LEMMA EncodedSteps ==
  ASSUME NEW fs \in Seq(FrameType)
  PROVE  \E e : /\ Steps(e, Len(fs), <<>>, MoreEncoded(fs))
                /\ Encoded(fs) = e[Len(fs)]
                /\ \A i \in 0 .. Len(fs) : e[i] \in Seq(Nat)
<1> DEFINE g == MoreEncoded(fs)
           n == Len(fs)
           none == <<>>
           S == Seq(Nat)
<1>1. n \in Nat /\ \A i \in 1 .. n : Encode(fs[i]) \in S
  <2>1. n \in Nat /\ \A i \in 1 .. n : fs[i] \in FrameType
    BY LenProperties, ElementOfSeq
  <2> QED
    BY <2>1, EncodeIs
<1>2. \A p \in S, i \in 1 .. n : p \o Encode(fs[i]) \in S
  BY <1>1, ConcatProperties
<1>3. none = <<>> /\ none \in S
  BY EmptySeq
<1> HIDE DEF none, S
<1>4. /\ AreSteps(g, n, S)
      /\ \A i \in 1 .. n, p \in S : g[i][p] = p \o Encode(fs[i])
  <2>1. \A i \in 1 .. n : g[i] = [p \in S |-> p \o Encode(fs[i])]
    BY DEF MoreEncoded, S
  <2> HIDE DEF g
  <2>2. \A i \in 1 .. n : [p \in S |-> p \o Encode(fs[i])] \in [S -> S]
    BY <1>2
  <2> QED
    BY <2>1, <2>2 DEF AreSteps
<1> HIDE DEF g, n
<1>5. PICK f \in [0 .. n -> S] : Steps(f, n, none, g)
  BY <1>1, <1>3, <1>4, StepsExist
<1>6. IsEncodeds(f, fs)
  <2>1. ASSUME NEW i \in 0 .. n
        PROVE  f[i] = IF i = 0 THEN <<>> ELSE f[i - 1] \o Encode(fs[i])
    <3>1. CASE i = 0
      BY <1>3, <1>5, <3>1 DEF Steps
    <3>2. CASE i # 0
      <4>1. i \in 1 .. n /\ i - 1 \in 0 .. n
        BY <1>1, <3>2
      <4>2. f[i] = g[i][f[i - 1]] /\ f[i - 1] \in S
        BY <1>5, <4>1 DEF Steps
      <4> QED
        BY <1>4, <3>2, <4>1, <4>2
    <3> QED
      BY <3>1, <3>2
  <2> QED
    BY <1>5, <2>1 DEF IsEncodeds, n
<1> DEFINE c == CHOOSE e : IsEncodeds(e, fs)
<1>7. IsEncodeds(c, fs)
  BY <1>6
<1>8. Encoded(fs) = c[Len(fs)]
  BY EncodedIsChosen
<1> HIDE DEF c
<1>9. c[0] = none /\ \A i \in 1 .. n : c[i] = c[i - 1] \o Encode(fs[i])
  <2>1. \A i \in 0 .. n : c[i] = IF i = 0 THEN <<>> ELSE c[i - 1] \o Encode(fs[i])
    BY <1>7 DEF IsEncodeds, n
  <2>2. \A i \in 1 .. n : i \in 0 .. n /\ i # 0
    BY <1>1
  <2>3. 0 \in 0 .. n
    BY <1>1
  <2> QED
    BY <1>3, <2>1, <2>2, <2>3
<1>10. Follows(c, n, S, g)
  BY <1>4, <1>9 DEF Follows
<1>11. Steps(c, n, none, g) /\ \A i \in 0 .. n : c[i] \in S
  BY <1>1, <1>3, <1>4, <1>9, <1>10, StepsFollow
<1> QED
  BY <1>3, <1>8, <1>11 DEF n, g, S

\* The steps of Encoded, for its length.
LEMMA EncodedGrows ==
  ASSUME NEW fs \in Seq(FrameType)
  PROVE  \E e : /\ e[0] = <<>> /\ Encoded(fs) = e[Len(fs)]
                /\ \A i \in 0 .. Len(fs) : e[i] \in Seq(Nat)
                /\ \A i \in 1 .. Len(fs) : e[i] = e[i - 1] \o Encode(fs[i])
<1>1. PICK e : /\ Steps(e, Len(fs), <<>>, MoreEncoded(fs))
               /\ Encoded(fs) = e[Len(fs)]
               /\ \A i \in 0 .. Len(fs) : e[i] \in Seq(Nat)
  BY EncodedSteps
<1>2. Len(fs) \in Nat
  BY LenProperties
<1>3. ASSUME NEW i \in 1 .. Len(fs)
      PROVE  e[i] = e[i - 1] \o Encode(fs[i])
  <2>1. i - 1 \in 0 .. Len(fs)
    BY <1>2
  <2>2. e[i] = MoreEncoded(fs)[i][e[i - 1]] /\ e[i - 1] \in Seq(Nat)
    BY <1>1, <2>1 DEF Steps
  <2> QED
    BY <2>2 DEF MoreEncoded
<1>4. e[0] = <<>>
  BY <1>1 DEF Steps
<1> QED
  BY <1>1, <1>3, <1>4

\* No frames have no bytes.
LEMMA EncodedOfNone == Encoded(<<>>) = <<>>
<1>1. <<>> \in Seq(FrameType) /\ Len(<<>>) = 0
  BY EmptySeq
<1> DEFINE none == <<>>
<1> HIDE DEF none
<1>2. none \in Seq(FrameType) /\ Len(none) = 0
  BY <1>1 DEF none
<1>3. PICK e : e[0] = <<>> /\ Encoded(none) = e[Len(none)]
  BY <1>2, EncodedGrows
<1> QED
  BY <1>2, <1>3 DEF none

\* Encoded frames are bytes.
LEMMA EncodedBytes ==
  ASSUME NEW fs \in Seq(FrameType)
  PROVE  Encoded(fs) \in Seq(Nat)
<1>1. Len(fs) \in 0 .. Len(fs)
  BY LenProperties
<1> QED
  BY <1>1, EncodedGrows

\* The first frame's bytes come first.
LEMMA EncodedFirst ==
  ASSUME NEW fs \in Seq(FrameType), fs # <<>>
  PROVE  Encoded(fs) = Encode(Head(fs)) \o Encoded(Tail(fs))
<1> DEFINE t == Tail(fs)
           n == Len(t)
           first == Encode(Head(fs))
<1>1. /\ t \in Seq(FrameType) /\ Head(fs) \in FrameType /\ n \in Nat /\ Len(fs) = n + 1
      /\ \A i \in 1 .. n : t[i] = fs[i + 1]
  <2>1. /\ t \in Seq(FrameType) /\ Head(fs) \in FrameType /\ n = Len(fs) - 1
        /\ \A i \in 1 .. n : t[i] = fs[i + 1]
    BY HeadTailProperties
  <2>2. n \in Nat /\ Len(fs) \in Nat
    BY <2>1, LenProperties
  <2> QED
    BY <2>1, <2>2
<1>2. fs[1] = Head(fs)
  OBVIOUS
<1>3. first \in Seq(Nat)
  BY <1>1, EncodeIs
<1>4. PICK e : /\ e[0] = <<>> /\ Encoded(fs) = e[Len(fs)]
               /\ \A i \in 0 .. Len(fs) : e[i] \in Seq(Nat)
               /\ \A i \in 1 .. Len(fs) : e[i] = e[i - 1] \o Encode(fs[i])
  BY EncodedGrows
<1> HIDE DEF t
<1>5. PICK d : /\ d[0] = <<>> /\ Encoded(t) = d[n]
               /\ \A i \in 0 .. n : d[i] \in Seq(Nat)
               /\ \A i \in 1 .. n : d[i] = d[i - 1] \o Encode(t[i])
  BY <1>1, EncodedGrows
<1> HIDE DEF n
<1> DEFINE T == {m \in Nat : m <= n => e[m + 1] = first \o d[m]}
<1>6. 0 \in T
  <2>1. 1 \in 1 .. Len(fs) /\ 1 - 1 = 0
    BY <1>1
  <2>2. e[1] = e[0] \o Encode(fs[1])
    BY <1>4, <2>1
  <2> HIDE DEF first
  <2>3. e[1] = <<>> \o first
    BY <1>2, <1>4, <2>2 DEF first
  <2>4. <<>> \o first = first /\ first \o <<>> = first
    BY <1>3, ConcatEmptySeq
  <2>5. e[0 + 1] = first \o d[0]
    BY <1>5, <2>3, <2>4
  <2> QED
    BY <2>5
<1> HIDE DEF first
<1>7. ASSUME NEW m \in T PROVE m + 1 \in T
  <2> SUFFICES ASSUME m + 1 <= n PROVE e[(m + 1) + 1] = first \o d[m + 1]
    OBVIOUS
  <2> DEFINE k == m + 1
  <2>1. /\ k \in 1 .. n /\ k - 1 = m /\ m \in 0 .. n /\ e[k] = first \o d[m]
        /\ k + 1 \in 1 .. Len(fs) /\ (k + 1) - 1 = k
    BY <1>1
  <2> HIDE DEF T, k
  <2>2. e[k + 1] = e[k] \o Encode(fs[k + 1]) /\ d[k] = d[m] \o Encode(t[k])
    BY <1>4, <1>5, <2>1
  <2>3. t[k] = fs[k + 1] /\ t[k] \in FrameType
    BY <1>1, <2>1, ElementOfSeq DEF n
  <2>4. Encode(t[k]) \in Seq(Nat) /\ d[m] \in Seq(Nat)
    BY <1>5, <2>1, <2>3, EncodeIs
  <2>5. (first \o d[m]) \o Encode(t[k]) = first \o (d[m] \o Encode(t[k]))
    <3> DEFINE x == d[m]
               y == Encode(t[k])
    <3>1. x \in Seq(Nat) /\ y \in Seq(Nat)
      BY <2>4
    <3> HIDE DEF x, y
    <3>2. (first \o x) \o y = first \o (x \o y)
      BY <1>3, <3>1, Associative
    <3> QED
      BY <3>2 DEF x, y
  <2>6. e[k + 1] = first \o d[k]
    BY <2>1, <2>2, <2>3, <2>5
  <2> QED
    BY <2>6 DEF k
<1>8. T = Nat
  <2>1. T \in SUBSET Nat
    OBVIOUS
  <2> HIDE DEF T
  <2> QED
    BY <1>6, <1>7, <2>1, AllNumbers
<1>9. e[n + 1] = first \o d[n]
  <2>1. n \in T
    BY <1>1, <1>8
  <2> QED
    BY <2>1
<1> QED
  BY <1>1, <1>4, <1>5, <1>9 DEF t, first

\* One more frame adds its bytes at the end.
LEMMA EncodedLast ==
  ASSUME NEW fs \in Seq(FrameType), NEW f \in FrameType
  PROVE  Encoded(Append(fs, f)) = Encoded(fs) \o Encode(f)
<1> DEFINE gs == Append(fs, f)
           n == Len(fs)
<1>1. n \in Nat
  BY LenProperties
<1>2. /\ gs \in Seq(FrameType) /\ Len(gs) = n + 1 /\ gs[n + 1] = f
      /\ \A i \in 1 .. n : gs[i] = fs[i]
  BY AppendProperties
<1> HIDE DEF gs
<1>3. PICK e : /\ e[0] = <<>> /\ Encoded(fs) = e[n]
               /\ \A i \in 0 .. n : e[i] \in Seq(Nat)
               /\ \A i \in 1 .. n : e[i] = e[i - 1] \o Encode(fs[i])
  BY EncodedGrows
<1> HIDE DEF n
<1>4. PICK d : /\ d[0] = <<>> /\ Encoded(gs) = d[n + 1]
               /\ \A i \in 1 .. n + 1 : d[i] = d[i - 1] \o Encode(gs[i])
  <2> DEFINE k == Len(gs)
  <2>1. PICK d : /\ d[0] = <<>> /\ Encoded(gs) = d[k]
                 /\ \A i \in 1 .. k : d[i] = d[i - 1] \o Encode(gs[i])
    BY <1>2, EncodedGrows
  <2>2. k = n + 1
    BY <1>2
  <2> HIDE DEF k
  <2> QED
    BY <2>1, <2>2
<1> DEFINE T == {m \in Nat : m <= n => d[m] = e[m]}
<1>5. 0 \in T
  BY <1>3, <1>4
<1>6. ASSUME NEW m \in T PROVE m + 1 \in T
  <2> SUFFICES ASSUME m + 1 <= n PROVE d[m + 1] = e[m + 1]
    OBVIOUS
  <2>1. m + 1 \in 1 .. n /\ m + 1 \in 1 .. n + 1 /\ (m + 1) - 1 = m /\ d[m] = e[m]
    BY <1>1
  <2>2. gs[m + 1] = fs[m + 1]
    BY <1>2, <2>1
  <2>3. e[m + 1] = e[m] \o Encode(fs[m + 1])
    BY <1>3, <2>1
  <2>4. d[m + 1] = d[m] \o Encode(gs[m + 1])
    BY <1>4, <2>1
  <2> HIDE DEF T
  <2> QED
    BY <2>1, <2>2, <2>3, <2>4
<1>7. T = Nat
  <2>1. T \in SUBSET Nat
    OBVIOUS
  <2> HIDE DEF T
  <2> QED
    BY <1>5, <1>6, <2>1, AllNumbers
<1>8. d[n] = e[n]
  <2>1. n \in T
    BY <1>1, <1>7
  <2> QED
    BY <2>1, <1>1
<1>9. n + 1 \in 1 .. n + 1 /\ (n + 1) - 1 = n
  BY <1>1
<1>10. d[n + 1] = d[n] \o Encode(f)
  BY <1>2, <1>4, <1>9
<1> QED
  BY <1>3, <1>4, <1>8, <1>10 DEF gs

-----------------------------------------------------------------------------
(* The decoder over a buffer *)

\* What is readable is bytes, and peek sees them.
LEMMA ReadableIs ==
  ASSUME NEW b \in Buffers
  PROVE  /\ Readable(b) \in Seq(Nat) /\ Len(Readable(b)) = ReadableBytes(b)
         /\ ReadableBytes(b) \in Nat
         /\ \A i \in 0 .. ReadableBytes(b) - 1 : Peek(b, i) = Readable(b)[i + 1]
<1>1. PICK m \in Seq(Nat), r \in Nat, w \in Nat : b = Buf(m, r, w) /\ Indexed(m, r, w)
  BY BufferParts
<1>2. /\ Len(m) \in Nat /\ CheapPrepend \in Nat
      /\ CheapPrepend <= r /\ r <= w /\ w <= Len(m)
  BY <1>1, LenProperties, BufferAssumption DEF Indexed, BufferAssumption
<1>3. /\ ReadableBytes(b) = w - r /\ Readable(b) = SubSeq(m, r + 1, w)
      /\ b.mem = m /\ b.reader = r
  BY <1>1, PartsOfBuf DEF Buf
<1> DEFINE s == SubSeq(m, r + 1, w)
<1>4. s \in Seq(Nat) /\ Len(s) = w - r /\ \A i \in 1 .. w - r : s[i] = m[r + i]
  BY <1>2, SliceIs
<1> HIDE DEF s
<1>5. ASSUME NEW i \in 0 .. (w - r) - 1
      PROVE  Peek(b, i) = s[i + 1]
  <2>1. i + 1 \in 1 .. w - r /\ r + (i + 1) = r + i + 1
    BY <1>2
  <2>2. Peek(b, i) = m[r + i + 1]
    BY <1>3 DEF Peek
  <2> QED
    BY <1>4, <2>1, <2>2
<1> QED
  BY <1>2, <1>3, <1>4, <1>5 DEF s

\* A field is the number whose bytes it holds.
LEMMA FieldIs ==
  ASSUME NEW b \in Buffers, NEW offset \in Nat, NEW n \in Nat,
         offset + n <= ReadableBytes(b), NEW v \in Nat, v < Weight(n),
         \A i \in 1 .. n : Readable(b)[offset + i] = LittleEndian(v, n)[i]
  PROVE  Field(b, offset, n) = v
<1> DEFINE s == LittleEndian(v, n)
<1>1. s = [i \in 1 .. n |-> s[i]]
  BY DEF LittleEndian
<1>2. ASSUME NEW i \in 1 .. n
      PROVE  Peek(b, offset + i - 1) = s[i]
  <2>1. /\ offset + i - 1 \in 0 .. ReadableBytes(b) - 1
        /\ (offset + i - 1) + 1 = offset + i
    BY ReadableIs
  <2>2. Peek(b, offset + i - 1) = Readable(b)[(offset + i - 1) + 1]
    BY <2>1, ReadableIs
  <2> QED
    BY <2>1, <2>2
<1>3. Number(s) = v
  BY NumberOfBytes
<1> HIDE DEF s
<1>4. [i \in 1 .. n |-> Peek(b, offset + i - 1)] = s
  BY <1>1, <1>2
<1> QED
  BY <1>3, <1>4 DEF Field

\* The sizes of a header.
LEMMA HeaderSizes ==
  /\ IdSize \in Nat /\ LenSize \in Nat /\ SeqSize \in Nat /\ MaxBody \in Nat
  /\ BodyLenOffset \in Nat /\ SeqOffset \in Nat /\ HeaderSize \in Nat
  /\ BodyLenOffset + LenSize = SeqOffset /\ SeqOffset + SeqSize = HeaderSize
  /\ IdSize <= HeaderSize /\ HeaderSize > 0 /\ BodyLenOffset = IdSize
BY CodecAssumption DEF CodecAssumption, BodyLenOffset, SeqOffset, HeaderSize

\* A buffer that begins with the bytes of a frame, as far as it goes.
Begins(b, rest, f, t) == Readable(b) \o rest = Encode(f) \o t

\* It has the byte of the frame in every place that both have.
LEMMA BeginsBytes ==
  ASSUME NEW b \in Buffers, NEW f \in FrameType, NEW rest \in Seq(Nat), NEW t \in Seq(Nat),
         Begins(b, rest, f, t),
         NEW i \in 1 .. Len(Encode(f)), i <= ReadableBytes(b)
  PROVE  Readable(b)[i] = Encode(f)[i]
<1> DEFINE r == Readable(b)
           e == Encode(f)
<1>1. /\ r \in Seq(Nat) /\ Len(r) = ReadableBytes(b) /\ ReadableBytes(b) \in Nat
      /\ e \in Seq(Nat) /\ r \o rest = e \o t
  BY ReadableIs, EncodeIs DEF Begins
<1> HIDE DEF r, e
<1>2. \A j \in 1 .. Len(r) : (r \o rest)[j] = r[j]
  BY <1>1, ConcatIs
<1>3. \A j \in 1 .. Len(e) : (e \o t)[j] = e[j]
  BY <1>1, ConcatIs
<1>4. i \in 1 .. Len(e) /\ i \in 1 .. Len(r)
  <2>1. i \in 1 .. Len(e)
    BY DEF e
  <2>2. Len(e) \in Nat
    BY <1>1, LenProperties
  <2> QED
    BY <1>1, <2>1, <2>2
<1>5. r[i] = e[i]
  BY <1>1, <1>2, <1>3, <1>4
<1> QED
  BY <1>5 DEF r, e

\* A header that is there says what the frame is.
LEMMA HeaderOfFrame ==
  ASSUME NEW b \in Buffers, NEW f \in FrameType, NEW rest \in Seq(Nat), NEW t \in Seq(Nat),
         Begins(b, rest, f, t), HasHeader(b)
  PROVE  /\ BodyLen(b) = Len(f.body)
         /\ Field(b, 0, IdSize) = f.msgId
         /\ Field(b, SeqOffset, SeqSize) = f.seq
         /\ Total(b) = Len(Encode(f))
<1>1. HeaderSize <= ReadableBytes(b) /\ ReadableBytes(b) \in Nat
  BY ReadableIs, HeaderSizes DEF HasHeader
<1>2. Len(f.body) \in Nat /\ Len(Encode(f)) = HeaderSize + Len(f.body)
  BY EncodeParts, EncodeIs
<1>3. \A i \in 1 .. HeaderSize : Readable(b)[i] = Encode(f)[i]
  <2>1. \A i \in 1 .. HeaderSize : i \in 1 .. Len(Encode(f)) /\ i <= ReadableBytes(b)
    BY <1>1, <1>2, HeaderSizes
  <2> QED
    BY <2>1, BeginsBytes
<1>4. BodyLen(b) = Len(f.body)
  <2>1. ASSUME NEW i \in 1 .. LenSize
        PROVE  Readable(b)[BodyLenOffset + i] = LittleEndian(Len(f.body), LenSize)[i]
    <3>1. BodyLenOffset + i \in 1 .. HeaderSize
      BY HeaderSizes
    <3> QED
      BY <1>3, <3>1, EncodeIs
  <2>2. BodyLenOffset + LenSize <= ReadableBytes(b)
    BY <1>1, HeaderSizes
  <2>3. Len(f.body) < Weight(LenSize)
    BY EncodeParts
  <2>4. Field(b, BodyLenOffset, LenSize) = Len(f.body)
    BY <1>2, <2>1, <2>2, <2>3, HeaderSizes, FieldIs
  <2> QED
    BY <2>4 DEF BodyLen
<1>5. Field(b, 0, IdSize) = f.msgId
  <2>1. ASSUME NEW i \in 1 .. IdSize
        PROVE  Readable(b)[0 + i] = LittleEndian(f.msgId, IdSize)[i]
    <3>1. i \in 1 .. HeaderSize /\ 0 + i = i
      BY HeaderSizes
    <3> QED
      BY <1>3, <3>1, EncodeIs
  <2>2. 0 \in Nat /\ 0 + IdSize <= ReadableBytes(b)
    BY <1>1, HeaderSizes
  <2>3. f.msgId \in Nat /\ f.msgId < Weight(IdSize)
    BY EncodeParts
  <2> QED
    BY <2>1, <2>2, <2>3, HeaderSizes, FieldIs
<1>6. Field(b, SeqOffset, SeqSize) = f.seq
  <2>1. ASSUME NEW i \in 1 .. SeqSize
        PROVE  Readable(b)[SeqOffset + i] = LittleEndian(f.seq, SeqSize)[i]
    <3>1. SeqOffset + i \in 1 .. HeaderSize
      BY HeaderSizes
    <3> QED
      BY <1>3, <3>1, EncodeIs
  <2>2. SeqOffset + SeqSize <= ReadableBytes(b)
    BY <1>1, HeaderSizes
  <2>3. f.seq \in Nat /\ f.seq < Weight(SeqSize)
    BY EncodeParts
  <2> QED
    BY <2>1, <2>2, <2>3, HeaderSizes, FieldIs
<1> QED
  BY <1>2, <1>4, <1>5, <1>6 DEF Total

\* A frame that is there whole is the one that is decoded, and retrieving it
\* leaves what follows.
THEOREM FrameIsDecoded ==
  ASSUME NEW b \in Buffers, NEW f \in FrameType, NEW rest \in Seq(Nat), NEW t \in Seq(Nat),
         Begins(b, rest, f, t), Complete(b)
  PROVE  /\ FirstFrame(b) = f /\ Len(f.body) <= MaxBody
         /\ Retrieve(b, Total(b)) \in Buffers
         /\ Readable(b) = Encode(f) \o Readable(Retrieve(b, Total(b)))
         /\ Readable(Retrieve(b, Total(b))) \o rest = t
<1> DEFINE r == Readable(b)
           e == Encode(f)
           k == Len(e)
           n == ReadableBytes(b)
           d == SubSeq(r, k + 1, n)
<1>1. /\ HasHeader(b) /\ BodyLen(b) <= MaxBody /\ Total(b) <= n
      /\ n \in Nat /\ r \in Seq(Nat) /\ Len(r) = n
  <2>1. HasHeader(b) /\ ~ (BodyLen(b) > MaxBody) /\ n >= Total(b)
    BY DEF Complete, TooLong
  <2>2. BodyLen(b) = Len(f.body) /\ Total(b) = Len(Encode(f))
    BY <2>1, HeaderOfFrame
  <2>3. Len(f.body) \in Nat /\ Len(Encode(f)) \in Nat
    BY EncodeParts, EncodeIs, LenProperties
  <2>4. n \in Nat /\ r \in Seq(Nat) /\ Len(r) = n
    BY ReadableIs
  <2> QED
    BY <2>1, <2>2, <2>3, <2>4, HeaderSizes
<1>2. /\ BodyLen(b) = Len(f.body) /\ Field(b, 0, IdSize) = f.msgId
      /\ Field(b, SeqOffset, SeqSize) = f.seq /\ Total(b) = k
  BY <1>1, HeaderOfFrame
<1>3. /\ Len(f.body) \in Nat /\ k = HeaderSize + Len(f.body) /\ k \in Nat
      /\ e \in Seq(Nat) /\ f.body \in Seq(Nat)
      /\ f = [msgId |-> f.msgId, seq |-> f.seq, body |-> f.body]
  BY EncodeParts, EncodeIs, HeaderSizes
<1>4. \A i \in 1 .. k : r[i] = e[i]
  <2>1. \A i \in 1 .. k : i \in 1 .. Len(Encode(f)) /\ i <= ReadableBytes(b)
    BY <1>1, <1>2, <1>3
  <2> QED
    BY <2>1, BeginsBytes
<1>5. FirstFrame(b) = f
  <2>1. ASSUME NEW i \in 1 .. Len(f.body)
        PROVE  Peek(b, HeaderSize + i - 1) = f.body[i]
    <3>1. /\ HeaderSize + i - 1 \in 0 .. ReadableBytes(b) - 1
          /\ (HeaderSize + i - 1) + 1 = HeaderSize + i /\ HeaderSize + i \in 1 .. k
      <4> HIDE DEF k
      <4>1. k <= ReadableBytes(b) /\ ReadableBytes(b) \in Nat
        BY <1>1, <1>2
      <4>2. HeaderSize \in Nat /\ k = HeaderSize + Len(f.body) /\ Len(f.body) \in Nat
        BY <1>3, HeaderSizes
      <4> QED
        BY <4>1, <4>2
    <3>2. Peek(b, HeaderSize + i - 1) = r[(HeaderSize + i - 1) + 1]
      BY <3>1, ReadableIs
    <3>3. e[HeaderSize + i] = f.body[i]
      BY EncodeIs
    <3> QED
      BY <1>4, <3>1, <3>2, <3>3
  <2>2. f.body = [i \in 1 .. Len(f.body) |-> f.body[i]]
    BY <1>3, LenProperties
  <2>3. [i \in 1 .. BodyLen(b) |-> Peek(b, HeaderSize + i - 1)] = f.body
    BY <1>2, <2>1, <2>2
  <2> QED
    BY <1>2, <1>3, <2>3 DEF FirstFrame
<1>6. /\ Retrieve(b, Total(b)) \in Buffers
      /\ Readable(Retrieve(b, Total(b))) = d
  BY <1>2, <1>3, RetrieveTakesFirst
<1> HIDE DEF r, e, k, n
<1>7. /\ d \in Seq(Nat) /\ Len(d) = n - k
      /\ \A i \in 1 .. n - k : d[i] = r[k + i]
  <2>1. k \in Nat /\ n \in Nat /\ k <= n /\ n <= Len(r)
    BY <1>1, <1>2, <1>3
  <2> QED
    BY <1>1, <2>1, SliceIs
<1> HIDE DEF d
<1>8. r = e \o d
  <2> DEFINE s == e \o d
  <2>1. /\ s \in Seq(Nat) /\ Len(s) = k + Len(d)
        /\ \A i \in 1 .. k : s[i] = e[i]
        /\ \A i \in 1 .. Len(d) : s[k + i] = d[i]
    BY <1>3, <1>7, ConcatIs DEF k
  <2> HIDE DEF s
  <2>2. ASSUME NEW i \in 1 .. Len(r) PROVE r[i] = s[i]
    <3>1. CASE i <= k
      BY <1>3, <1>4, <2>1, <3>1
    <3>2. CASE ~ (i <= k)
      <4> DEFINE j == i - k
      <4>1. j \in 1 .. n - k /\ i = k + j
        BY <1>1, <1>3, <3>2
      <4> HIDE DEF j
      <4> QED
        BY <1>7, <2>1, <4>1
    <3> QED
      BY <3>1, <3>2
  <2>3. Len(r) = Len(s)
    BY <1>1, <1>2, <1>3, <1>7, <2>1
  <2>4. r = s
    BY <1>1, <2>1, <2>2, <2>3, SeqEqual
  <2> QED
    BY <2>4 DEF s
<1>9. d \o rest = t
  <2>1. r \o rest = e \o t
    BY DEF Begins, r, e
  <2>2. r \o rest = e \o (d \o rest)
    BY <1>3, <1>7, <1>8, Associative
  <2>3. d \o rest \in Seq(Nat)
    BY <1>7, ConcatProperties
  <2> QED
    BY <1>3, <2>1, <2>2, <2>3, ConcatSimplifications
<1> QED
  BY <1>1, <1>2, <1>5, <1>6, <1>8, <1>9 DEF r, e

\* A slice is two slices end to end.
LEMMA TwoSlices ==
  ASSUME NEW m \in Seq(Nat), NEW a \in Nat, NEW c \in Nat, NEW e \in Nat,
         a <= c, c <= e, e <= Len(m)
  PROVE  SubSeq(m, a + 1, e) = SubSeq(m, a + 1, c) \o SubSeq(m, c + 1, e)
<1> DEFINE s == SubSeq(m, a + 1, c)
           t == SubSeq(m, c + 1, e)
           u == s \o t
<1>1. Len(m) \in Nat
  BY LenProperties
<1>2. s \in Seq(Nat) /\ Len(s) = c - a /\ \A i \in 1 .. c - a : s[i] = m[a + i]
  BY <1>1, SliceIs
<1>3. t \in Seq(Nat) /\ Len(t) = e - c /\ \A i \in 1 .. e - c : t[i] = m[c + i]
  BY <1>1, SliceIs
<1> HIDE DEF s, t
<1>4. /\ u \in Seq(Nat) /\ Len(u) = Len(s) + Len(t)
      /\ \A i \in 1 .. Len(s) : u[i] = s[i]
      /\ \A i \in 1 .. Len(t) : u[Len(s) + i] = t[i]
  BY <1>2, <1>3, ConcatIs
<1> HIDE DEF u
<1>5. Len(u) = e - a
  BY <1>2, <1>3, <1>4
<1>6. ASSUME NEW i \in 1 .. e - a PROVE m[a + i] = u[i]
  <2>1. CASE i <= c - a
    <3>1. i \in 1 .. c - a
      BY <2>1
    <3> QED
      BY <1>2, <1>4, <3>1
  <2>2. CASE ~ (i <= c - a)
    <3> DEFINE j == i - (c - a)
    <3>1. j \in 1 .. e - c /\ i = (c - a) + j /\ a + i = c + j
      BY <2>2
    <3> HIDE DEF j
    <3> QED
      BY <1>2, <1>3, <1>4, <3>1
  <2> QED
    BY <2>1, <2>2
<1>7. a <= e
  OBVIOUS
<1>8. SubSeq(m, a + 1, e) = u
  BY <1>4, <1>5, <1>6, <1>7, SameSlice
<1> QED
  BY <1>8 DEF u, s, t

\* All of a sequence, and none of it.
LEMMA WholeSlice ==
  ASSUME NEW m \in Seq(Nat)
  PROVE  SubSeq(m, 1, Len(m)) = m
BY SubSeqFull

\* What is readable, in two parts: the first n bytes, and what stays when they
\* are retrieved.
LEMMA RetrieveSplits ==
  ASSUME NEW b \in Buffers, NEW n \in Nat, n <= ReadableBytes(b)
  PROVE  /\ SubSeq(Readable(b), 1, n) \in Seq(Nat)
         /\ Retrieve(b, n) \in Buffers
         /\ Readable(b) = SubSeq(Readable(b), 1, n) \o Readable(Retrieve(b, n))
<1> DEFINE r == Readable(b)
           k == ReadableBytes(b)
           zero == 0
<1>1. r \in Seq(Nat) /\ Len(r) = k /\ k \in Nat
  BY ReadableIs
<1>2. Retrieve(b, n) \in Buffers /\ Readable(Retrieve(b, n)) = SubSeq(r, n + 1, k)
  BY RetrieveTakesFirst
<1> HIDE DEF r, k
<1>3. zero \in Nat /\ zero <= n /\ n <= k /\ zero + 1 = 1
  BY DEF k
<1> HIDE DEF zero
<1>4. SubSeq(r, zero + 1, k) = SubSeq(r, zero + 1, n) \o SubSeq(r, n + 1, k)
  BY <1>1, <1>3, TwoSlices
<1>5. SubSeq(r, 1, k) = r
  BY <1>1, WholeSlice
<1>6. SubSeq(r, zero + 1, n) \in Seq(Nat)
  BY <1>1, <1>3, SliceIs
<1> QED
  BY <1>2, <1>3, <1>4, <1>5, <1>6 DEF r, k

\* A sequence in two parts, the first n bytes and the others.
LEMMA SplitAt ==
  ASSUME NEW m \in Seq(Nat), NEW n \in 0 .. Len(m)
  PROVE  /\ SubSeq(m, 1, n) \in Seq(Nat)
         /\ SubSeq(m, n + 1, Len(m)) \in Seq(Nat)
         /\ m = SubSeq(m, 1, n) \o SubSeq(m, n + 1, Len(m))
<1> DEFINE zero == 0
           k == Len(m)
<1>1. k \in Nat
  BY LenProperties
<1>2. /\ zero \in Nat /\ zero <= n /\ n <= k /\ zero + 1 = 1 /\ n \in Nat
      /\ k <= Len(m)
  BY <1>1
<1>3. SubSeq(m, 1, k) = m
  BY WholeSlice
<1> HIDE DEF zero, k
<1>4. SubSeq(m, zero + 1, k) = SubSeq(m, zero + 1, n) \o SubSeq(m, n + 1, k)
  BY <1>1, <1>2, TwoSlices
<1>5. SubSeq(m, zero + 1, n) \in Seq(Nat) /\ SubSeq(m, n + 1, k) \in Seq(Nat)
  BY <1>1, <1>2, SliceIs
<1> QED
  BY <1>2, <1>3, <1>4, <1>5 DEF k

\* Three sequences end to end, wherever one starts to put them together.
Assoc(p, q, s) == (p \o q) \o s = p \o (q \o s)

\* So it is with bytes.
LEMMA BytesAssoc == \A p, q, s \in Seq(Nat) : Assoc(p, q, s)
BY Associative DEF Assoc

\* Bytes x and y that waited behind r, with d before it and t behind them, are
\* now in it.
Moved(d, r, x, y, t) ==
  /\ ((r \o x) \o y) \o t = r \o (x \o (y \o t))
  /\ (d \o ((r \o x) \o y)) \o t = (d \o r) \o (x \o (y \o t))

\* Bytes that waited behind a buffer are now in it: nothing changed end to end.
LEMMA MovedBytes ==
  ASSUME NEW d \in Seq(Nat), NEW r \in Seq(Nat), NEW x \in Seq(Nat), NEW y \in Seq(Nat),
         NEW t \in Seq(Nat)
  PROVE  Moved(d, r, x, y, t)
<1>1. PICK rx \in Seq(Nat) : rx = r \o x
  BY ConcatIs
<1>2. PICK yt \in Seq(Nat) : yt = y \o t
  BY ConcatIs
<1>3. PICK v \in Seq(Nat) : v = rx \o y
  BY ConcatIs
<1>4. PICK w \in Seq(Nat) : w = x \o yt
  BY ConcatIs
<1>5. Assoc(rx, y, t) /\ Assoc(r, x, yt) /\ Assoc(d, v, t) /\ Assoc(d, r, w)
  BY BytesAssoc
<1>6. v \o t = r \o w
  BY <1>1, <1>2, <1>3, <1>4, <1>5 DEF Assoc
<1>7. (d \o v) \o t = d \o (v \o t) /\ (d \o r) \o w = d \o (r \o w)
  BY <1>5 DEF Assoc
<1> QED
  BY <1>1, <1>2, <1>3, <1>4, <1>6, <1>7 DEF Moved

\* A buffer in which neither a whole frame waits nor one too long holds less
\* than the longest frame.
LEMMA NothingWholeIsShort ==
  ASSUME NEW b \in Buffers, ~ Complete(b), ~ TooLong(b)
  PROVE  ReadableBytes(b) < HeaderSize + MaxBody
<1>1. ReadableBytes(b) \in Nat /\ HeaderSize \in Nat /\ MaxBody \in Nat
  BY ReadableIs, HeaderSizes
<1>2. CASE ~ HasHeader(b)
  BY <1>1, <1>2 DEF HasHeader
<1>3. CASE HasHeader(b)
  <2>1. BodyLen(b) \in Nat
    <3> DEFINE s == [i \in 1 .. LenSize |-> Peek(b, BodyLenOffset + i - 1)]
    <3>1. HeaderSize <= ReadableBytes(b)
      BY <1>1, <1>3 DEF HasHeader
    <3>2. ASSUME NEW i \in 1 .. LenSize
          PROVE  Peek(b, BodyLenOffset + i - 1) \in Nat
      <4> DEFINE j == BodyLenOffset + i
      <4>1. /\ j \in 1 .. ReadableBytes(b) /\ BodyLenOffset + i - 1 = j - 1
            /\ j - 1 \in 0 .. ReadableBytes(b) - 1 /\ (j - 1) + 1 = j
        BY <1>1, <3>1, HeaderSizes
      <4> HIDE DEF j
      <4>2. Peek(b, j - 1) = Readable(b)[j]
        BY <4>1, ReadableIs
      <4>3. Readable(b) \in Seq(Nat) /\ Len(Readable(b)) = ReadableBytes(b)
        BY ReadableIs
      <4>4. Readable(b)[j] \in Nat
        BY <4>1, <4>3, ElementOfSeq
      <4> QED
        BY <4>1, <4>2, <4>4
    <3>3. s \in [1 .. LenSize -> Nat]
      BY <3>2
    <3> HIDE DEF s
    <3>4. s \in Seq(Nat)
      BY <3>3, HeaderSizes, SeqDef
    <3>5. Number(s) \in Nat
      <4>1. PICK v : Number(s) = v[Len(s)] /\ \A i \in 0 .. Len(s) : v[i] \in Nat
        BY <3>4, NumberSteps
      <4>2. Len(s) \in 0 .. Len(s)
        BY <3>4, LenProperties
      <4> QED
        BY <4>1, <4>2
    <3> QED
      BY <3>5 DEF s, BodyLen, Field
  <2>2. ReadableBytes(b) < Total(b)
    BY <1>1, <1>3, <2>1 DEF Complete, Total
  <2>3. BodyLen(b) <= MaxBody
    BY <1>1, <1>3, <2>1 DEF TooLong
  <2> QED
    BY <1>1, <2>1, <2>2, <2>3 DEF Total
<1> QED
  BY <1>2, <1>3

\* If encoded frames begin in a buffer that has a header, there is a first one,
\* and its bytes come first.
LEMMA FirstBegins ==
  ASSUME NEW b \in Buffers, NEW rest \in Seq(Nat), NEW left \in Seq(FrameType),
         Readable(b) \o rest = Encoded(left), HasHeader(b)
  PROVE  /\ left # <<>> /\ Head(left) \in FrameType /\ Tail(left) \in Seq(FrameType)
         /\ Encoded(Tail(left)) \in Seq(Nat)
         /\ Begins(b, rest, Head(left), Encoded(Tail(left)))
<1>1. left # <<>>
  <2> SUFFICES ASSUME left = <<>> PROVE FALSE
    OBVIOUS
  <2>1. Readable(b) \o rest = <<>>
    BY EncodedOfNone
  <2>2. Readable(b) \in Seq(Nat) /\ Len(Readable(b)) = ReadableBytes(b)
    BY ReadableIs
  <2>3. Readable(b) = <<>>
    BY <2>1, <2>2, ConcatSimplifications
  <2>4. ReadableBytes(b) = 0
    BY <2>2, <2>3, EmptySeq
  <2> QED
    BY <2>4, HeaderSizes DEF HasHeader
<1>2. Head(left) \in FrameType /\ Tail(left) \in Seq(FrameType)
  BY <1>1, HeadTailProperties
<1>3. Encoded(Tail(left)) \in Seq(Nat)
  BY <1>2, EncodedBytes
<1>4. Encoded(left) = Encode(Head(left)) \o Encoded(Tail(left))
  BY <1>1, EncodedFirst
<1> QED
  BY <1>1, <1>2, <1>3, <1>4 DEF Begins

\* Retrieving all leaves nothing whole.
LEMMA NothingAfterAll ==
  ASSUME NEW b \in Buffers
  PROVE  /\ RetrieveAll(b) \in Buffers /\ RetrieveAll(b).mem = b.mem
         /\ ~ Complete(RetrieveAll(b)) /\ ~ TooLong(RetrieveAll(b))
<1>1. PICK m \in Seq(Nat), r \in Nat, w \in Nat : b = Buf(m, r, w) /\ Indexed(m, r, w)
  BY BufferParts
<1>2. /\ Len(m) \in Nat /\ CheapPrepend \in Nat
      /\ CheapPrepend <= r /\ r <= w /\ w <= Len(m)
  BY <1>1, LenProperties, BufferAssumption DEF Indexed, BufferAssumption
<1>3. RetrieveAll(b) = Buf(m, CheapPrepend, CheapPrepend) /\ b.mem = m
  <2> DEFINE n == w - r
  <2>1. ReadableBytes(b) = w - r /\ n \in Nat /\ ~ (n < w - r)
    BY <1>1, <1>2, PartsOfBuf
  <2> HIDE DEF n
  <2>2. Retrieve(b, n) = Buf(m, CheapPrepend, CheapPrepend)
    BY <1>1, <2>1 DEF Buf, Retrieve, RetrieveAll
  <2>3. Retrieve(b, n) = RetrieveAll(b)
    BY <2>1 DEF Retrieve
  <2>4. b.mem = m
    BY <1>1 DEF Buf
  <2> QED
    BY <2>2, <2>3, <2>4
<1>4. Buf(m, CheapPrepend, CheapPrepend) \in Buffers
  BY <1>2, PartsAreBuffer DEF Indexed
<1>5. /\ ReadableBytes(Buf(m, CheapPrepend, CheapPrepend)) = 0
      /\ Buf(m, CheapPrepend, CheapPrepend).mem = m
  <2> DEFINE c == CheapPrepend
  <2>1. c \in Nat
    BY <1>2
  <2> HIDE DEF c
  <2>2. ReadableBytes(Buf(m, c, c)) = c - c /\ Buf(m, c, c).mem = m
    BY <2>1, PartsOfBuf
  <2> QED
    BY <2>1, <2>2 DEF c
<1>6. ~ HasHeader(Buf(m, CheapPrepend, CheapPrepend))
  BY <1>5, HeaderSizes DEF HasHeader
<1> QED
  BY <1>3, <1>4, <1>5, <1>6 DEF Complete, TooLong

\* retrieve leaves the vector as it is.
LEMMA RetrieveKeepsMem ==
  ASSUME NEW b \in Buffers, NEW n \in Nat
  PROVE  Retrieve(b, n).mem = b.mem
<1>1. PICK m \in Seq(Nat), r \in Nat, w \in Nat : b = Buf(m, r, w)
  BY BufferParts
<1> QED
  BY <1>1 DEF Retrieve, RetrieveAll, Buf

-----------------------------------------------------------------------------
(* The invariant, and the steps *)

\* The types of all variables.
EchoTypes ==
  /\ pc \in {"poll", "decode", "reply"}
  /\ sent \in Seq(FrameType) /\ frames \in Seq(FrameType) /\ handled \in Seq(FrameType)
  /\ stream \in Seq(Nat) /\ wire \in Seq(Nat) /\ read \in 0 .. Len(stream)
  /\ input \in Buffers /\ output \in Buffers
  /\ fatal \in BOOLEAN /\ writing \in BOOLEAN /\ closed \in BOOLEAN

\* After a header that cannot be nothing is read or decoded any more.
FatalEnds ==
  /\ closed => fatal
  /\ fatal => pc = "reply" \/ (pc = "poll" /\ closed)

\* Outside tryDecode no whole frame waits in the input buffer, nor a header that
\* cannot be.
NothingWhole == pc # "decode" => ~ Complete(input) /\ ~ TooLong(input)

\* Bytes that were not read.
Rest == SubSeq(stream, read + 1, Len(stream))

\* What was decoded is a first part of what was sent, and what waits, in the
\* buffer and behind it, is the bytes of the other part.
FramesLeft ==
  ~ fatal => \E left \in Seq(FrameType) :
               sent = handled \o left /\ Readable(input) \o Rest = Encoded(left)

EchoInv ==
  /\ EchoTypes /\ FatalEnds /\ NothingWhole
  /\ FramesLeft /\ NoByteLost /\ InputBounded

\* Bytes that came back or are on their way back.
Back == wire \o Readable(output) \o Encoded(frames)

\* Unread bytes of m from a on, cut after k and n bytes into x, y and t.
Cut(m, a, k, n, x, y, t) ==
  /\ x \in Seq(Nat) /\ Len(x) = k /\ y \in Seq(Nat) /\ Len(y) = n /\ t \in Seq(Nat)
  /\ SubSeq(m, a + 1, Len(m)) = x \o (y \o t)

\* Slices cut them so.
LEMMA ThreeSlices ==
  ASSUME NEW m \in Seq(Nat), NEW a \in Nat, NEW c \in Nat, NEW d \in Nat,
         a <= c, c <= d, d <= Len(m)
  PROVE  Cut(m, a, c - a, d - c,
             SubSeq(m, a + 1, c), SubSeq(m, c + 1, d), SubSeq(m, d + 1, Len(m)))
<1> DEFINE e == Len(m)
<1>1. e \in Nat /\ d <= e /\ c <= e /\ a <= e /\ a <= d /\ e <= Len(m) /\ c <= Len(m)
  BY LenProperties
<1> HIDE DEF e
<1>2. SubSeq(m, a + 1, c) \in Seq(Nat) /\ Len(SubSeq(m, a + 1, c)) = c - a
  BY <1>1, SliceIs
<1>3. SubSeq(m, c + 1, d) \in Seq(Nat) /\ Len(SubSeq(m, c + 1, d)) = d - c
  BY <1>1, SliceIs
<1>4. SubSeq(m, d + 1, e) \in Seq(Nat)
  BY <1>1, SliceIs
<1>5. SubSeq(m, a + 1, e) = SubSeq(m, a + 1, c) \o SubSeq(m, c + 1, e)
  BY <1>1, TwoSlices
<1>6. SubSeq(m, c + 1, e) = SubSeq(m, c + 1, d) \o SubSeq(m, d + 1, e)
  BY <1>1, TwoSlices
<1> QED
  BY <1>2, <1>3, <1>4, <1>5, <1>6 DEF e, Cut

\* So two reads cut them.
LEMMA RestSplits ==
  ASSUME NEW m \in Seq(Nat), NEW a \in Nat, NEW k \in Nat, NEW n \in Nat,
         a + k + n <= Len(m),
         NEW x, x = SubSeq(m, a + 0 + 1, a + 0 + k),
         NEW y, y = SubSeq(m, a + k + 1, a + k + n),
         NEW t, t = SubSeq(m, (a + k + n) + 1, Len(m))
  PROVE  Cut(m, a, k, n, x, y, t)
<1>1. PICK c \in Nat : c = a + k
  OBVIOUS
<1>2. PICK d \in Nat : d = a + k + n
  OBVIOUS
<1>3. a <= c /\ c <= d /\ d <= Len(m) /\ c - a = k /\ d - c = n
  BY <1>1, <1>2
<1>4. Cut(m, a, c - a, d - c,
          SubSeq(m, a + 1, c), SubSeq(m, c + 1, d), SubSeq(m, d + 1, Len(m)))
  BY <1>3, ThreeSlices
<1>5. x = SubSeq(m, a + 1, c) /\ y = SubSeq(m, c + 1, d) /\ t = SubSeq(m, d + 1, Len(m))
  <2>1. a + 0 + 1 = a + 1 /\ a + 0 + k = c
    BY <1>1
  <2> QED
    BY <1>1, <1>2, <2>1
<1> QED
  BY <1>3, <1>4, <1>5

\* readFd: both buffers of bytes stay what they are, what was read is readable
\* after what was, and the vector stays within its bound.
LEMMA ReadFdReads ==
  ASSUME NEW b \in Buffers, NEW x \in Seq(Nat), NEW y \in Seq(Nat),
         Len(x) <= WritableBytes(b), Len(x) <= Window, Len(y) <= Extra,
         ReadableBytes(b) < HeaderSize + MaxBody
  PROVE  /\ AppendBytes(Written(b, x), y) \in Buffers
         /\ Readable(AppendBytes(Written(b, x), y)) = (Readable(b) \o x) \o y
         /\ \/ Len(AppendBytes(Written(b, x), y).mem) = Len(b.mem)
            \/ Len(AppendBytes(Written(b, x), y).mem)
                 < CheapPrepend + HeaderSize + MaxBody + Window + 2 * Extra
<1> DEFINE c == Written(b, x)
           d == AppendBytes(c, y)
<1>1. c \in Buffers /\ Readable(c) = Readable(b) \o x /\ Len(c.mem) = Len(b.mem)
  BY WrittenAddsLast
<1> HIDE DEF c
<1>2. /\ d \in Buffers /\ Readable(d) = Readable(c) \o y
      /\ \/ Len(d.mem) = Len(c.mem)
         \/ Len(d.mem) < CheapPrepend + ReadableBytes(c) + 2 * Len(y)
  BY <1>1, AppendAddsLast
<1> HIDE DEF d
<1>3. ReadableBytes(c) = ReadableBytes(b) + Len(x)
  <2>1. Readable(b) \in Seq(Nat) /\ Len(Readable(b)) = ReadableBytes(b)
    BY ReadableIs
  <2>2. Len(Readable(c)) = ReadableBytes(c)
    BY <1>1, ReadableIs
  <2>3. Len(Readable(b) \o x) = Len(Readable(b)) + Len(x)
    BY <2>1, ConcatIs
  <2> QED
    BY <1>1, <2>1, <2>2, <2>3
<1>4. /\ Len(x) \in Nat /\ Len(y) \in Nat /\ ReadableBytes(b) \in Nat
      /\ CheapPrepend \in Nat /\ HeaderSize \in Nat /\ MaxBody \in Nat
      /\ Window \in Nat /\ Extra \in Nat /\ Len(d.mem) \in Nat
  <2>1. Len(x) \in Nat /\ Len(y) \in Nat /\ ReadableBytes(b) \in Nat
    BY LenProperties, ReadableIs
  <2>2. d.mem \in Seq(Nat)
    BY <1>2 DEF Buffers
  <2> QED
    BY <2>1, <2>2, LenProperties, HeaderSizes, BufferAssumption, EchoAssumption
    DEF BufferAssumption, EchoAssumption
<1>5. \/ Len(d.mem) = Len(b.mem)
      \/ Len(d.mem) < CheapPrepend + HeaderSize + MaxBody + Window + 2 * Extra
  <2>1. CASE Len(d.mem) = Len(c.mem)
    BY <1>1, <2>1
  <2>2. CASE Len(d.mem) < CheapPrepend + ReadableBytes(c) + 2 * Len(y)
    BY <1>3, <1>4, <2>2
  <2> QED
    BY <1>2, <2>1, <2>2
<1> QED
  BY <1>1, <1>2, <1>5 DEF d, c

\* What goes back is bytes.
LEMMA BackIsBytes ==
  ASSUME EchoTypes
  PROVE  /\ Back \in Seq(Nat) /\ Rest \in Seq(Nat) /\ Readable(input) \in Seq(Nat)
         /\ Readable(output) \in Seq(Nat) /\ Encoded(frames) \in Seq(Nat)
<1>1. Readable(input) \in Seq(Nat) /\ Readable(output) \in Seq(Nat)
  BY ReadableIs DEF EchoTypes
<1>2. Encoded(frames) \in Seq(Nat) /\ wire \in Seq(Nat)
  BY EncodedBytes DEF EchoTypes
<1>3. wire \o Readable(output) \in Seq(Nat)
  BY <1>1, <1>2, ConcatIs
<1>4. Back \in Seq(Nat)
  BY <1>2, <1>3, ConcatIs DEF Back
<1>5. Rest \in Seq(Nat)
  <2> DEFINE e == Len(stream)
  <2>1. stream \in Seq(Nat) /\ e \in Nat /\ read \in Nat /\ read <= e /\ e <= Len(stream)
    BY LenProperties DEF EchoTypes
  <2> HIDE DEF e
  <2>2. SubSeq(stream, read + 1, e) \in Seq(Nat)
    BY <2>1, SliceIs
  <2> QED
    BY <2>2 DEF Rest, e
<1> QED
  BY <1>1, <1>2, <1>4, <1>5

\* handleRead.
LEMMA ReadStep ==
  ASSUME EchoInv, HandleRead
  PROVE  EchoInv'
<1>1. /\ pc = "poll" /\ ~ closed /\ ReadFd /\ pc' = "decode"
      /\ UNCHANGED <<sent, stream, frames, fatal, output, writing, wire, closed, handled>>
  BY DEF HandleRead, peerSide, outSide
<1>2. ~ fatal /\ EchoTypes
  BY <1>1 DEF EchoInv, FatalEnds
<1>3. PICK k \in 0 .. WritableBytes(input), n \in 0 .. Extra :
        /\ k <= Window /\ read + k + n <= Len(stream)
        /\ read' = read + k + n
        /\ input' = AppendBytes(Written(input, Arrived(0, k)), Arrived(k, n))
  BY <1>1 DEF ReadFd
<1> DEFINE x == Arrived(0, k)
           y == Arrived(k, n)
           t == SubSeq(stream, (read + k + n) + 1, Len(stream))
<1>4. /\ stream \in Seq(Nat) /\ read \in Nat /\ k \in Nat /\ n \in Nat
      /\ Len(stream) \in Nat /\ k <= WritableBytes(input) /\ n <= Extra
  BY <1>2, <1>3, LenProperties DEF EchoTypes
<1>5. /\ x \in Seq(Nat) /\ Len(x) = k /\ y \in Seq(Nat) /\ Len(y) = n /\ t \in Seq(Nat)
      /\ Rest = x \o (y \o t)
  <2>1. x = SubSeq(stream, read + 0 + 1, read + 0 + k)
        /\ y = SubSeq(stream, read + k + 1, read + k + n)
    BY DEF Arrived
  <2>2. Rest = SubSeq(stream, read + 1, Len(stream))
    BY DEF Rest
  <2>3. t = SubSeq(stream, (read + k + n) + 1, Len(stream))
    OBVIOUS
  <2> HIDE DEF x, y, t
  <2>4. Cut(stream, read, k, n, x, y, t)
    BY <1>3, <1>4, <2>1, <2>3, RestSplits
  <2> QED
    BY <2>2, <2>4 DEF Cut
<1>6. Rest' = t
  BY <1>1, <1>3 DEF Rest
<1> HIDE DEF x, y, t
<1>7. input \in Buffers /\ ReadableBytes(input) < HeaderSize + MaxBody
  BY <1>1, <1>2, NothingWholeIsShort DEF EchoInv, EchoTypes, NothingWhole
<1>8. /\ input' \in Buffers
      /\ Readable(input') = (Readable(input) \o x) \o y
      /\ \/ Len(input'.mem) = Len(input.mem)
         \/ Len(input'.mem) < CheapPrepend + HeaderSize + MaxBody + Window + 2 * Extra
  <2> DEFINE d == AppendBytes(Written(input, x), y)
  <2>1. /\ d \in Buffers /\ Readable(d) = (Readable(input) \o x) \o y
        /\ \/ Len(d.mem) = Len(input.mem)
           \/ Len(d.mem) < CheapPrepend + HeaderSize + MaxBody + Window + 2 * Extra
    BY <1>3, <1>4, <1>5, <1>7, ReadFdReads
  <2>2. input' = d
    BY <1>3 DEF x, y
  <2> HIDE DEF d
  <2> QED
    BY <2>1, <2>2
<1>9. EchoTypes'
  <2>1. read' \in 0 .. Len(stream)
    BY <1>3, <1>4
  <2> QED
    BY <1>1, <1>2, <1>8, <2>1 DEF EchoTypes
<1>10. FatalEnds' /\ NothingWhole'
  BY <1>1, <1>2 DEF FatalEnds, NothingWhole
<1>11. InputBounded'
  <2>1. InputBounded
    BY DEF EchoInv
  <2> QED
    BY <1>8, <2>1 DEF InputBounded
<1> DEFINE r == Readable(input)
<1>12. Back \in Seq(Nat) /\ r \in Seq(Nat)
  BY <1>2, BackIsBytes
<1> HIDE DEF r
<1>13. /\ ((r \o x) \o y) \o t = r \o (x \o (y \o t))
       /\ (Back \o ((r \o x) \o y)) \o t = (Back \o r) \o (x \o (y \o t))
  <2>1. Moved(Back, r, x, y, t)
    BY <1>5, <1>12, MovedBytes
  <2> QED
    BY <2>1 DEF Moved
<1>14. FramesLeft'
  <2>1. PICK left \in Seq(FrameType) :
          sent = handled \o left /\ Readable(input) \o Rest = Encoded(left)
    BY <1>2 DEF EchoInv, FramesLeft
  <2>2. Readable(input') \o Rest' = Encoded(left)
    BY <1>5, <1>6, <1>8, <1>13, <2>1 DEF r
  <2> QED
    BY <1>1, <2>1, <2>2 DEF FramesLeft
<1>15. NoByteLost'
  <2>1. stream = (Back \o r) \o Rest
    BY <1>2 DEF EchoInv, NoByteLost, Back, Rest, r
  <2>2. stream = (Back \o Readable(input')) \o Rest'
    BY <1>5, <1>6, <1>8, <1>13, <2>1 DEF r
  <2>3. Back' = Back /\ stream' = stream
    BY <1>1 DEF Back
  <2> QED
    BY <2>2, <2>3 DEF NoByteLost, Back, Rest
<1> QED
  BY <1>9, <1>10, <1>11, <1>14, <1>15 DEF EchoInv

\* What waits in the input buffer and behind it, if the stream is sound, begins
\* with the first frame that was not decoded, as soon as its header is there.
LEMMA NextFrame ==
  ASSUME EchoInv, ~ fatal, HasHeader(input)
  PROVE  \E left \in Seq(FrameType) :
           /\ sent = handled \o left /\ left # <<>>
           /\ Head(left) \in FrameType /\ Tail(left) \in Seq(FrameType)
           /\ Encoded(Tail(left)) \in Seq(Nat)
           /\ Begins(input, Rest, Head(left), Encoded(Tail(left)))
<1>1. PICK left \in Seq(FrameType) :
        sent = handled \o left /\ Readable(input) \o Rest = Encoded(left)
  BY DEF EchoInv, FramesLeft
<1>2. input \in Buffers /\ Rest \in Seq(Nat)
  BY BackIsBytes DEF EchoInv, EchoTypes
<1>3. /\ left # <<>> /\ Head(left) \in FrameType /\ Tail(left) \in Seq(FrameType)
      /\ Encoded(Tail(left)) \in Seq(Nat)
      /\ Begins(input, Rest, Head(left), Encoded(Tail(left)))
  BY <1>1, <1>2, FirstBegins
<1> QED
  BY <1>1, <1>3

\* Sequences of frames: the first of those left moves to the end of those
\* handled.
LEMMA OneMoved ==
  ASSUME NEW h \in Seq(FrameType), NEW left \in Seq(FrameType), left # <<>>
  PROVE  h \o left = Append(h, Head(left)) \o Tail(left)
<1> DEFINE f == Head(left)
           t == Tail(left)
           a == Append(h, f)
           s == h \o left
           u == a \o t
<1>1. /\ f \in FrameType /\ t \in Seq(FrameType) /\ Len(t) = Len(left) - 1
      /\ \A i \in 1 .. Len(t) : t[i] = left[i + 1]
  BY HeadTailProperties
<1>2. f = left[1]
  OBVIOUS
<1>3. Len(h) \in Nat /\ Len(left) \in Nat /\ Len(left) # 0
  BY LenProperties, EmptySeq
<1> HIDE DEF f, t
<1>4. /\ a \in Seq(FrameType) /\ Len(a) = Len(h) + 1 /\ a[Len(h) + 1] = f
      /\ \A i \in 1 .. Len(h) : a[i] = h[i]
  BY <1>1, AppendProperties
<1> HIDE DEF a
<1>5. /\ s \in Seq(FrameType) /\ Len(s) = Len(h) + Len(left)
      /\ \A i \in 1 .. Len(h) + Len(left) :
           s[i] = IF i <= Len(h) THEN h[i] ELSE left[i - Len(h)]
  BY ConcatProperties
<1>6. /\ u \in Seq(FrameType) /\ Len(u) = Len(a) + Len(t)
      /\ \A i \in 1 .. Len(a) + Len(t) :
           u[i] = IF i <= Len(a) THEN a[i] ELSE t[i - Len(a)]
  BY <1>1, <1>4, ConcatProperties
<1> HIDE DEF s, u
<1>7. Len(a) + Len(t) = Len(h) + Len(left) /\ Len(s) = Len(u)
  BY <1>1, <1>3, <1>4, <1>5, <1>6
<1>8. ASSUME NEW i \in 1 .. Len(s) PROVE s[i] = u[i]
  <2>1. i \in 1 .. Len(h) + Len(left) /\ i \in 1 .. Len(a) + Len(t)
    BY <1>5, <1>7
  <2>2. CASE i <= Len(h)
    <3>1. i \in 1 .. Len(h) /\ i <= Len(a)
      BY <1>3, <1>4, <2>1, <2>2
    <3> QED
      BY <1>4, <1>5, <1>6, <2>1, <2>2, <3>1
  <2>3. CASE i = Len(h) + 1
    <3>1. ~ (i <= Len(h)) /\ i - Len(h) = 1 /\ i <= Len(a)
      BY <1>3, <1>4, <2>3
    <3> QED
      BY <1>2, <1>4, <1>5, <1>6, <2>1, <2>3, <3>1
  <2>4. CASE i > Len(h) + 1
    <3> DEFINE j == i - Len(a)
    <3>1. /\ ~ (i <= Len(h)) /\ ~ (i <= Len(a)) /\ i - Len(h) = j + 1
          /\ j \in 1 .. Len(t)
      BY <1>1, <1>3, <1>4, <2>1, <2>4
    <3>2. s[i] = left[i - Len(h)]
      BY <1>5, <2>1, <3>1
    <3>3. u[i] = t[j]
      BY <1>6, <2>1, <3>1
    <3> HIDE DEF j
    <3>4. t[j] = left[j + 1]
      BY <1>1, <3>1
    <3> QED
      BY <3>1, <3>2, <3>3, <3>4
  <2> QED
    BY <1>3, <2>1, <2>2, <2>3, <2>4
<1>9. s = u
  BY <1>5, <1>6, <1>7, <1>8, SeqEqual
<1> QED
  BY <1>9 DEF s, u, a, f, t

\* A frame appended to the second part of a sequence is appended to the whole.
LEMMA AppendBehind ==
  ASSUME NEW h \in Seq(FrameType), NEW left \in Seq(FrameType), NEW f \in FrameType
  PROVE  Append(h \o left, f) = h \o Append(left, f)
<1>1. h \o left \in Seq(FrameType)
  BY ConcatProperties
<1>2. Append(h \o left, f) = (h \o left) \o <<f>>
  BY <1>1, AppendIsConcat
<1>3. Append(left, f) = left \o <<f>>
  BY AppendIsConcat
<1>4. <<f>> \in Seq(FrameType)
  OBVIOUS
<1>5. (h \o left) \o <<f>> = h \o (left \o <<f>>)
  BY <1>4, ConcatAssociative
<1> QED
  BY <1>2, <1>3, <1>5

\* tryDecode finds a whole frame.
LEMMA DecodeFrameStep ==
  ASSUME EchoInv, DecodeFrame
  PROVE  EchoInv'
<1>1. /\ pc = "decode" /\ Complete(input)
      /\ frames' = Append(frames, FirstFrame(input))
      /\ handled' = Append(handled, FirstFrame(input))
      /\ input' = Retrieve(input, Total(input))
      /\ UNCHANGED <<pc, sent, stream, read, fatal, output, writing, wire, closed>>
  BY DEF DecodeFrame, peerSide, outSide
<1>2. ~ fatal /\ EchoTypes /\ HasHeader(input)
  BY <1>1 DEF EchoInv, FatalEnds, Complete
<1>3. PICK left \in Seq(FrameType) :
        /\ sent = handled \o left /\ left # <<>>
        /\ Head(left) \in FrameType /\ Tail(left) \in Seq(FrameType)
        /\ Encoded(Tail(left)) \in Seq(Nat)
        /\ Begins(input, Rest, Head(left), Encoded(Tail(left)))
  BY <1>2, NextFrame
<1> DEFINE f == Head(left)
           more == Tail(left)
           t == Encoded(more)
           e == Encode(f)
           d == Readable(input')
<1>4. f \in FrameType /\ more \in Seq(FrameType) /\ t \in Seq(Nat)
  BY <1>3
<1>5. /\ input \in Buffers /\ handled \in Seq(FrameType) /\ frames \in Seq(FrameType)
      /\ Rest \in Seq(Nat) /\ Back \in Seq(Nat) /\ wire \o Readable(output) \in Seq(Nat)
  <2>1. wire \o Readable(output) \in Seq(Nat)
    BY <1>2, BackIsBytes, ConcatIs DEF EchoTypes
  <2> QED
    BY <1>2, <2>1, BackIsBytes DEF EchoTypes
<1> HIDE DEF f, more, t, e, d
<1>6. /\ FirstFrame(input) = f /\ input' \in Buffers
      /\ Readable(input) = e \o d /\ d \o Rest = t
  <2>1. Begins(input, Rest, f, t)
    BY <1>3 DEF f, t, more
  <2>2. /\ FirstFrame(input) = f
        /\ Retrieve(input, Total(input)) \in Buffers
        /\ Readable(input) = Encode(f) \o Readable(Retrieve(input, Total(input)))
        /\ Readable(Retrieve(input, Total(input))) \o Rest = t
    BY <1>1, <1>4, <1>5, <2>1, FrameIsDecoded
  <2> QED
    BY <1>1, <2>2 DEF e, d
<1>7. e \in Seq(Nat) /\ d \in Seq(Nat)
  BY <1>4, <1>6, EncodeIs, ReadableIs DEF e, d
<1>8. frames' = Append(frames, f) /\ handled' = Append(handled, f)
  BY <1>1, <1>6
<1>9. EchoTypes'
  <2>1. frames' \in Seq(FrameType) /\ handled' \in Seq(FrameType)
    BY <1>4, <1>5, <1>8, AppendProperties
  <2> QED
    BY <1>1, <1>2, <1>6, <2>1 DEF EchoTypes
<1>10. FatalEnds' /\ NothingWhole'
  BY <1>1, <1>2 DEF EchoInv, FatalEnds, NothingWhole
<1>11. InputBounded'
  <2>1. InputBounded
    BY DEF EchoInv
  <2>2. Total(input) \in Nat
    <3>1. Total(input) = Len(Encode(Head(left)))
      BY <1>2, <1>3, <1>5, HeaderOfFrame
    <3> QED
      BY <1>7, <3>1, LenProperties DEF e, f
  <2>3. input'.mem = input.mem
    BY <1>1, <1>5, <2>2, RetrieveKeepsMem
  <2> QED
    BY <2>1, <2>3 DEF InputBounded
<1>12. Rest' = Rest
  BY <1>1 DEF Rest
<1>13. FramesLeft'
  <2>1. sent = Append(handled, f) \o more
    BY <1>3, <1>5, OneMoved DEF f, more
  <2>2. sent' = handled' \o more
    BY <1>1, <1>8, <2>1
  <2>3. Readable(input') \o Rest' = Encoded(more)
    BY <1>6, <1>12 DEF t, d
  <2> QED
    BY <1>4, <2>2, <2>3 DEF FramesLeft
<1>14. NoByteLost'
  <2> DEFINE p == wire \o Readable(output)
             g == Encoded(frames)
  <2>1. stream = ((p \o g) \o Readable(input)) \o Rest
    BY <1>2 DEF EchoInv, NoByteLost, Rest
  <2>2. Encoded(frames') = g \o e
    BY <1>4, <1>5, <1>8, EncodedLast DEF e
  <2>3. g \in Seq(Nat) /\ p \in Seq(Nat) /\ p \o g \in Seq(Nat)
    BY <1>2, <1>5, BackIsBytes DEF Back
  <2>4. p' = p
    BY <1>1
  <2> HIDE DEF p, g
  <2>5. Assoc(p \o g, e, d) /\ Assoc(p, g, e)
    BY <1>7, <2>3, BytesAssoc
  <2>6. (p \o g) \o Readable(input) = (p \o (g \o e)) \o d
    BY <1>6, <2>5 DEF Assoc
  <2>7. stream' = ((p \o Encoded(frames')) \o Readable(input')) \o Rest'
    BY <1>1, <1>12, <2>1, <2>2, <2>6 DEF d
  <2>8. wire' \o Readable(output') = p
    BY <2>4 DEF p
  <2> QED
    BY <2>7, <2>8 DEF NoByteLost, Rest
<1> QED
  BY <1>9, <1>10, <1>11, <1>13, <1>14 DEF EchoInv

\* The peer sends a frame.
LEMMA PeerSendsStep ==
  ASSUME EchoInv, NEW f \in Frames, PeerSends(f)
  PROVE  EchoInv'
<1>1. /\ sent' = Append(sent, f) /\ stream' = stream \o Encode(f)
      /\ UNCHANGED <<pc, read, input, frames, fatal, output, writing, wire, closed, handled>>
  BY DEF PeerSends, inSide, outSide
<1>2. EchoTypes /\ f \in FrameType
  BY EchoAssumption DEF EchoInv, EchoAssumption
<1> DEFINE e == Encode(f)
<1>3. /\ e \in Seq(Nat) /\ stream \in Seq(Nat) /\ read \in Nat /\ read <= Len(stream)
      /\ Len(stream) \in Nat /\ Len(e) \in Nat
  BY <1>2, EncodeIs, LenProperties DEF EchoTypes
<1>4. Back \in Seq(Nat) /\ Rest \in Seq(Nat) /\ Readable(input) \in Seq(Nat)
  BY <1>2, BackIsBytes
<1> HIDE DEF e
<1>5. /\ stream' = stream \o e /\ stream' \in Seq(Nat)
      /\ Len(stream') = Len(stream) + Len(e)
  <2>1. stream' = stream \o e
    BY <1>1 DEF e
  <2> QED
    BY <1>3, <2>1, ConcatIs
<1>6. EchoTypes'
  <2>1. read' \in 0 .. Len(stream')
    BY <1>1, <1>3, <1>5
  <2>2. sent' \in Seq(FrameType)
    BY <1>1, <1>2, AppendProperties DEF EchoTypes
  <2> QED
    BY <1>1, <1>2, <1>5, <2>1, <2>2 DEF EchoTypes
<1>7. FatalEnds' /\ NothingWhole' /\ InputBounded'
  BY <1>1 DEF EchoInv, FatalEnds, NothingWhole, InputBounded
<1>8. Rest' = Rest \o e
  <2>1. stream = SubSeq(stream, 1, read) \o Rest
    <3>1. read \in 0 .. Len(stream)
      BY <1>3
    <3>2. stream = SubSeq(stream, 1, read) \o SubSeq(stream, read + 1, Len(stream))
      BY <1>3, <3>1, SplitAt
    <3> QED
      BY <3>2 DEF Rest
  <2> DEFINE p == SubSeq(stream, 1, read)
             u == p \o Rest
             k == Len(stream) + Len(e)
  <2>2. p \in Seq(Nat) /\ Len(p) = read /\ Len(Rest) = Len(stream) - read
    <3>1. p \in Seq(Nat)
      BY <1>3, SplitAt
    <3>2. Len(Rest) = Len(stream) - read
      <4> DEFINE c == Len(stream)
      <4>1. c \in Nat /\ read <= c /\ c <= Len(stream)
        BY <1>3
      <4> HIDE DEF c
      <4>2. Len(SubSeq(stream, read + 1, c)) = c - read
        BY <1>3, <4>1, SliceIs
      <4> QED
        BY <4>2 DEF Rest, c
    <3>3. Len(stream) = Len(p) + Len(Rest)
      BY <1>4, <2>1, <3>1, ConcatIs
    <3>4. Len(p) \in Nat /\ Len(Rest) \in Nat
      BY <1>4, <3>1, LenProperties
    <3> QED
      BY <1>3, <3>1, <3>2, <3>3, <3>4
  <2> HIDE DEF p
  <2>3. Rest \o e \in Seq(Nat) /\ Len(Rest \o e) = Len(Rest) + Len(e)
    BY <1>3, <1>4, ConcatIs
  <2>4. stream' = p \o (Rest \o e)
    <3>1. Assoc(p, Rest, e)
      BY <1>3, <1>4, <2>2, BytesAssoc
    <3>2. stream = p \o Rest
      BY <2>1 DEF p
    <3> QED
      BY <1>5, <3>1, <3>2 DEF Assoc
  <2> DEFINE s == Rest \o e
  <2> HIDE DEF s
  <2>5. s \in Seq(Nat) /\ Len(s) = k - read /\ stream' = p \o s
    BY <1>3, <2>2, <2>3, <2>4 DEF s
  <2>6. \A i \in 1 .. Len(s) : (p \o s)[Len(p) + i] = s[i]
    BY <2>2, <2>5, ConcatIs
  <2> DEFINE m == stream'
  <2>7. m \in Seq(Nat) /\ Len(m) = k /\ \A i \in 1 .. k - read : m[read + i] = s[i]
    BY <1>5, <2>2, <2>5, <2>6
  <2>8. k \in Nat /\ read <= k /\ k <= Len(m)
    BY <1>3, <2>7
  <2> HIDE DEF m, k
  <2>9. SubSeq(m, read + 1, k) = s
    BY <1>3, <2>5, <2>7, <2>8, SameSlice
  <2> QED
    BY <1>1, <2>7, <2>9 DEF Rest, m, s
<1>9. FramesLeft'
  <2> SUFFICES ASSUME ~ fatal
               PROVE  \E left \in Seq(FrameType) :
                        sent' = handled \o left
                          /\ Readable(input) \o Rest' = Encoded(left)
    BY <1>1 DEF FramesLeft
  <2>1. PICK left \in Seq(FrameType) :
          sent = handled \o left /\ Readable(input) \o Rest = Encoded(left)
    BY DEF EchoInv, FramesLeft
  <2> DEFINE more == Append(left, f)
  <2>2. more \in Seq(FrameType)
    BY <1>2, AppendProperties
  <2>3. Encoded(more) = Encoded(left) \o e
    BY <1>2, EncodedLast DEF e
  <2>4. Readable(input) \o Rest' = Encoded(more)
    <3>1. Assoc(Readable(input), Rest, e)
      BY <1>3, <1>4, BytesAssoc
    <3> QED
      BY <1>8, <2>1, <2>3, <3>1 DEF Assoc
  <2>5. sent' = handled \o more
    BY <1>1, <1>2, <2>1, AppendBehind DEF EchoTypes
  <2> HIDE DEF more
  <2> QED
    BY <2>2, <2>4, <2>5
<1>10. NoByteLost'
  <2> SUFFICES ASSUME ~ fatal
               PROVE  stream' = (Back \o Readable(input)) \o Rest'
    BY <1>1 DEF NoByteLost, Rest, Back
  <2> DEFINE p == Back \o Readable(input)
  <2>1. stream = p \o Rest
    BY DEF EchoInv, NoByteLost, Rest, Back
  <2>2. p \in Seq(Nat)
    BY <1>4, ConcatIs
  <2> HIDE DEF p
  <2>3. Assoc(p, Rest, e)
    BY <1>3, <1>4, <2>2, BytesAssoc
  <2>4. stream' = p \o Rest'
    BY <1>5, <1>8, <2>1, <2>3 DEF Assoc
  <2> QED
    BY <2>4 DEF p
<1> QED
  BY <1>6, <1>7, <1>9, <1>10 DEF EchoInv

\* What the peer and the input buffer keep when neither is touched.
InKept ==
  /\ pc' \in {"poll", "decode", "reply"}
  /\ UNCHANGED <<sent, stream, read, input, fatal, handled>>

\* Then what waits for the decoder, and the vector, is what it was.
LEMMA InKeptStep ==
  ASSUME EchoInv, InKept
  PROVE  /\ FramesLeft' /\ InputBounded' /\ Rest' = Rest
         /\ input' = input /\ input \in Buffers
<1>1. /\ sent' = sent /\ stream' = stream /\ read' = read /\ input' = input
      /\ fatal' = fatal /\ handled' = handled
  BY DEF InKept
<1>2. Rest' = Rest
  BY <1>1 DEF Rest
<1>3. FramesLeft'
  BY <1>1, <1>2 DEF EchoInv, FramesLeft
<1>4. InputBounded'
  BY <1>1 DEF EchoInv, InputBounded
<1> QED
  BY <1>1, <1>2, <1>3, <1>4 DEF EchoInv, EchoTypes

\* tryDecode finds a header that cannot be.
LEMMA DecodeFatalStep ==
  ASSUME EchoInv, DecodeFatal
  PROVE  EchoInv'
<1>1. /\ pc = "decode" /\ fatal' = TRUE /\ input' = RetrieveAll(input) /\ pc' = "reply"
      /\ UNCHANGED <<sent, stream, read, frames, output, writing, wire, closed, handled>>
  BY DEF DecodeFatal, peerSide, outSide
<1>2. EchoTypes
  BY DEF EchoInv
<1>3. /\ input' \in Buffers /\ input'.mem = input.mem
      /\ ~ Complete(input') /\ ~ TooLong(input')
  <2>1. input \in Buffers
    BY <1>2 DEF EchoTypes
  <2>2. /\ RetrieveAll(input) \in Buffers /\ RetrieveAll(input).mem = input.mem
        /\ ~ Complete(RetrieveAll(input)) /\ ~ TooLong(RetrieveAll(input))
    BY <2>1, NothingAfterAll
  <2> QED
    BY <1>1, <2>2
<1>4. EchoTypes'
  BY <1>1, <1>2, <1>3 DEF EchoTypes
<1>5. FatalEnds'
  BY <1>1 DEF EchoInv, FatalEnds
<1>6. NothingWhole'
  BY <1>3 DEF NothingWhole
<1>7. InputBounded'
  BY <1>3 DEF EchoInv, InputBounded
<1>8. FramesLeft' /\ NoByteLost'
  BY <1>1 DEF FramesLeft, NoByteLost
<1> QED
  BY <1>4, <1>5, <1>6, <1>7, <1>8 DEF EchoInv

\* tryDecode finds nothing whole.
LEMMA DecodeEndsStep ==
  ASSUME EchoInv, DecodeEnds
  PROVE  EchoInv'
<1>1. /\ pc = "decode" /\ ~ Complete(input) /\ ~ TooLong(input) /\ pc' = "reply"
      /\ UNCHANGED <<sent, stream, read, input, frames, fatal, output, writing, wire,
                     closed, handled>>
  BY DEF DecodeEnds, peerSide, inSide, outSide
<1>2. InKept
  BY <1>1 DEF InKept
<1>3. /\ FramesLeft' /\ InputBounded' /\ Rest' = Rest
      /\ input' = input /\ input \in Buffers
  BY <1>2, InKeptStep
<1>4. EchoTypes' /\ FatalEnds' /\ NothingWhole'
  BY <1>1 DEF EchoInv, EchoTypes, FatalEnds, NothingWhole
<1>5. NoByteLost'
  BY <1>1 DEF EchoInv, NoByteLost
<1> QED
  BY <1>3, <1>4, <1>5 DEF EchoInv

\* onMessage has answered all frames.
LEMMA ReplyEndsStep ==
  ASSUME EchoInv, ReplyEnds
  PROVE  EchoInv'
<1>1. /\ pc = "reply" /\ closed' = fatal /\ pc' = "poll"
      /\ UNCHANGED <<sent, stream, read, input, frames, fatal, output, writing, wire,
                     handled>>
  BY DEF ReplyEnds, peerSide, inSide, outSide
<1>2. InKept
  BY <1>1 DEF InKept
<1>3. /\ FramesLeft' /\ InputBounded' /\ Rest' = Rest
      /\ input' = input /\ input \in Buffers
  BY <1>2, InKeptStep
<1>4. EchoTypes'
  BY <1>1 DEF EchoInv, EchoTypes
<1>5. FatalEnds' /\ NothingWhole'
  BY <1>1 DEF EchoInv, FatalEnds, NothingWhole
<1>6. NoByteLost'
  BY <1>1 DEF EchoInv, NoByteLost
<1> QED
  BY <1>3, <1>4, <1>5, <1>6 DEF EchoInv

\* send appends its data to what is on its way back, at once or in the buffer.
LEMMA SendAdds ==
  ASSUME EchoTypes, NEW data \in Seq(Nat), SendInLoop(data)
  PROVE  /\ output' \in Buffers /\ wire' \in Seq(Nat) /\ writing' \in BOOLEAN
         /\ wire' \o Readable(output') = (wire \o Readable(output)) \o data
<1> DEFINE r == Readable(output)
           d == Readable(output')
<1>1. /\ output \in Buffers /\ wire \in Seq(Nat) /\ writing \in BOOLEAN
      /\ r \in Seq(Nat) /\ Len(r) = ReadableBytes(output)
  BY ReadableIs DEF EchoTypes
<1>2. ASSUME NEW x \in Seq(Nat), output' = AppendBytes(output, x)
      PROVE  output' \in Buffers /\ d = r \o x
  <2>1. /\ AppendBytes(output, x) \in Buffers
        /\ Readable(AppendBytes(output, x)) = Readable(output) \o x
    BY <1>1, AppendAddsLast
  <2> QED
    BY <1>2, <2>1
<1>3. CASE /\ ReadableBytes(output) = 0 /\ ~ writing
           /\ \E n \in 0 .. Len(data) :
                /\ wire' = wire \o SubSeq(data, 1, n)
                /\ IF n < Len(data)
                   THEN /\ output' = AppendBytes(output, SubSeq(data, n + 1, Len(data)))
                        /\ writing' = TRUE
                   ELSE UNCHANGED <<output, writing>>
  <2>1. PICK n \in 0 .. Len(data) :
          /\ wire' = wire \o SubSeq(data, 1, n)
          /\ IF n < Len(data)
             THEN /\ output' = AppendBytes(output, SubSeq(data, n + 1, Len(data)))
                  /\ writing' = TRUE
             ELSE UNCHANGED <<output, writing>>
    BY <1>3
  <2>2. r = <<>>
    BY <1>1, <1>3, EmptySeq
  <2> DEFINE x == SubSeq(data, 1, n)
             y == SubSeq(data, n + 1, Len(data))
  <2>3. x \in Seq(Nat) /\ y \in Seq(Nat)
    BY SplitAt
  <2>4. data = x \o y
    BY SplitAt
  <2>5. wire' = wire \o x
    BY <2>1
  <2>6. wire' \in Seq(Nat)
    BY <1>1, <2>3, <2>5, ConcatIs
  <2>7. wire \o r = wire
    BY <1>1, <2>2, ConcatEmptySeq
  <2>8. CASE n < Len(data)
    <3>1. output' = AppendBytes(output, y) /\ writing' = TRUE
      BY <2>1, <2>8
    <3> HIDE DEF x, y
    <3>2. output' \in Buffers /\ d = r \o y
      BY <1>2, <2>3, <3>1
    <3>3. d = y
      BY <2>2, <2>3, <3>2, ConcatEmptySeq
    <3>4. Assoc(wire, x, y)
      BY <1>1, <2>3, BytesAssoc
    <3>5. wire' \o d = (wire \o r) \o data
      BY <2>4, <2>5, <2>7, <3>3, <3>4 DEF Assoc
    <3> QED
      BY <2>6, <3>1, <3>2, <3>5
  <2>9. CASE ~ (n < Len(data))
    <3>1. output' = output /\ writing' = writing
      BY <2>1, <2>9
    <3>2. n = Len(data)
      BY <2>9, LenProperties
    <3>3. x = data
      BY <3>2, WholeSlice
    <3> HIDE DEF x, y
    <3>4. d = <<>>
      BY <2>2, <3>1
    <3>5. wire' \o d = wire'
      BY <2>6, <3>4, ConcatEmptySeq
    <3>6. wire' \o d = (wire \o r) \o data
      BY <2>5, <2>7, <3>3, <3>5
    <3> QED
      BY <1>1, <2>6, <3>1, <3>6
  <2> QED
    BY <2>8, <2>9
<1>4. CASE /\ ReadableBytes(output) > 0 \/ writing
           /\ output' = AppendBytes(output, data)
           /\ writing' = TRUE
           /\ UNCHANGED wire
  <2>1. output' \in Buffers /\ d = r \o data
    BY <1>2, <1>4
  <2>2. Assoc(wire, r, data)
    BY <1>1, BytesAssoc
  <2>3. wire' \o d = (wire \o r) \o data
    BY <1>4, <2>1, <2>2 DEF Assoc
  <2> QED
    BY <1>1, <1>4, <2>1, <2>3
<1> QED
  BY <1>3, <1>4 DEF SendInLoop

\* onMessage answers a frame.
LEMMA ReplyStep ==
  ASSUME EchoInv, Reply
  PROVE  EchoInv'
<1>1. /\ pc = "reply" /\ frames # <<>> /\ SendInLoop(Encode(Head(frames)))
      /\ frames' = Tail(frames)
      /\ UNCHANGED <<pc, sent, stream, read, input, fatal, closed, handled>>
  BY DEF Reply, peerSide, inSide
<1>2. EchoTypes
  BY DEF EchoInv
<1> DEFINE e == Encode(Head(frames))
<1>3. /\ Head(frames) \in FrameType /\ Tail(frames) \in Seq(FrameType)
      /\ Encoded(frames) = e \o Encoded(Tail(frames))
  BY <1>1, <1>2, HeadTailProperties, EncodedFirst DEF EchoTypes
<1>4. e \in Seq(Nat)
  BY <1>3, EncodeIs
<1> HIDE DEF e
<1>5. SendInLoop(e)
  BY <1>1 DEF e
<1>6. /\ output' \in Buffers /\ wire' \in Seq(Nat) /\ writing' \in BOOLEAN
      /\ wire' \o Readable(output') = (wire \o Readable(output)) \o e
  BY <1>2, <1>4, <1>5, SendAdds
<1>7. InKept
  BY <1>1, <1>2 DEF InKept, EchoTypes
<1>8. /\ FramesLeft' /\ InputBounded' /\ Rest' = Rest
      /\ input' = input /\ input \in Buffers
  BY <1>7, InKeptStep
<1>9. EchoTypes'
  BY <1>1, <1>2, <1>3, <1>6 DEF EchoTypes
<1>10. FatalEnds' /\ NothingWhole'
  BY <1>1 DEF EchoInv, FatalEnds, NothingWhole
<1>11. Back' = Back
  <2> DEFINE p == wire \o Readable(output)
             t == Encoded(Tail(frames))
  <2>1. p \in Seq(Nat) /\ t \in Seq(Nat)
    BY <1>2, <1>3, BackIsBytes, EncodedBytes, ConcatIs DEF EchoTypes
  <2>2. Back = p \o (e \o t)
    BY <1>3 DEF Back
  <2>3. Back' = (p \o e) \o t
    BY <1>1, <1>6 DEF Back
  <2> HIDE DEF p, t
  <2>4. Assoc(p, e, t)
    BY <1>4, <2>1, BytesAssoc
  <2> QED
    BY <2>2, <2>3, <2>4 DEF Assoc
<1>12. NoByteLost'
  <2>1. ~ fatal => stream = (Back \o Readable(input)) \o Rest
    BY DEF EchoInv, NoByteLost, Back, Rest
  <2>2. ~ fatal' => stream' = (Back' \o Readable(input')) \o Rest'
    BY <1>1, <1>8, <1>11, <2>1
  <2> QED
    BY <2>2 DEF NoByteLost, Back, Rest
<1> QED
  BY <1>8, <1>9, <1>10, <1>12 DEF EchoInv

\* handleWrite.
LEMMA WriteStep ==
  ASSUME EchoInv, HandleWrite
  PROVE  EchoInv'
<1>1. /\ pc = "poll" /\ ~ closed
      /\ UNCHANGED <<pc, sent, stream, read, input, frames, fatal, closed, handled>>
  BY DEF HandleWrite, peerSide, inSide
<1>2. EchoTypes
  BY DEF EchoInv
<1>3. PICK n \in 1 .. ReadableBytes(output) :
        /\ wire' = wire \o SubSeq(Readable(output), 1, n)
        /\ output' = Retrieve(output, n)
        /\ writing' = (n < ReadableBytes(output))
  BY DEF HandleWrite
<1> DEFINE r == Readable(output)
           x == SubSeq(r, 1, n)
           d == Readable(output')
<1>4. /\ output \in Buffers /\ wire \in Seq(Nat) /\ r \in Seq(Nat)
      /\ ReadableBytes(output) \in Nat /\ n \in Nat /\ n <= ReadableBytes(output)
  BY <1>2, ReadableIs DEF EchoTypes
<1>5. /\ x \in Seq(Nat) /\ output' \in Buffers /\ r = x \o d
  BY <1>3, <1>4, RetrieveSplits
<1>6. d \in Seq(Nat)
  BY <1>5, ReadableIs
<1>7. wire' = wire \o x
  BY <1>3
<1> HIDE DEF x, d, r
<1>8. wire' \in Seq(Nat)
  BY <1>4, <1>5, <1>7, ConcatIs
<1>9. wire' \o d = wire \o r
  <2>1. Assoc(wire, x, d)
    BY <1>4, <1>5, <1>6, BytesAssoc
  <2> QED
    BY <1>5, <1>7, <2>1 DEF Assoc
<1>10. InKept
  BY <1>1, <1>2 DEF InKept, EchoTypes
<1>11. /\ FramesLeft' /\ InputBounded' /\ Rest' = Rest
       /\ input' = input /\ input \in Buffers
  BY <1>10, InKeptStep
<1>12. EchoTypes'
  <2>1. writing' \in BOOLEAN
    BY <1>3
  <2> QED
    BY <1>1, <1>2, <1>5, <1>8, <2>1 DEF EchoTypes
<1>13. FatalEnds' /\ NothingWhole'
  BY <1>1 DEF EchoInv, FatalEnds, NothingWhole
<1>14. NoByteLost'
  <2>1. wire' \o Readable(output') = wire \o Readable(output)
    BY <1>9 DEF r, d
  <2>2. Back' = Back
    BY <1>1, <2>1 DEF Back
  <2>3. ~ fatal => stream = (Back \o Readable(input)) \o Rest
    BY DEF EchoInv, NoByteLost, Back, Rest
  <2>4. ~ fatal' => stream' = (Back' \o Readable(input')) \o Rest'
    BY <1>1, <1>11, <2>2, <2>3
  <2> QED
    BY <2>4 DEF NoByteLost, Back, Rest
<1> QED
  BY <1>11, <1>12, <1>13, <1>14 DEF EchoInv

-----------------------------------------------------------------------------
(* The theorems *)

\* A new buffer has nothing readable, and its first size.
LEMMA NewBufferIs ==
  /\ NewBuffer(InitialSize) \in Buffers
  /\ Readable(NewBuffer(InitialSize)) = <<>>
  /\ ReadableBytes(NewBuffer(InitialSize)) = 0
  /\ Len(NewBuffer(InitialSize).mem) = CheapPrepend + InitialSize
<1>1. InitialSize \in Nat
  BY EchoAssumption DEF EchoAssumption
<1>2. /\ NewBuffer(InitialSize) \in Buffers
      /\ Readable(NewBuffer(InitialSize)) = <<>>
  BY <1>1, NewBufferIsEmpty
<1>3. ReadableBytes(NewBuffer(InitialSize)) = 0
  <2>1. Len(<<>>) = 0
    OBVIOUS
  <2> QED
    BY <1>2, <2>1, ReadableIs
<1>4. Len(NewBuffer(InitialSize).mem) = CheapPrepend + InitialSize
  <2>1. CheapPrepend + InitialSize \in Nat
    BY <1>1, BufferAssumption DEF BufferAssumption
  <2> QED
    BY <2>1, ZerosAreBytes DEF NewBuffer
<1> QED
  BY <1>2, <1>3, <1>4

\* The first state.
LEMMA EchoStarts == Init => EchoInv
<1> SUFFICES ASSUME Init PROVE EchoInv
  OBVIOUS
<1>1. /\ pc = "poll" /\ sent = <<>> /\ stream = <<>> /\ read = 0
      /\ input = NewBuffer(InitialSize) /\ frames = <<>> /\ fatal = FALSE
      /\ output = NewBuffer(InitialSize) /\ writing = FALSE /\ wire = <<>>
      /\ closed = FALSE /\ handled = <<>>
  BY DEF Init
<1>2. /\ input \in Buffers /\ Readable(input) = <<>> /\ ReadableBytes(input) = 0
      /\ Len(input.mem) = CheapPrepend + InitialSize
  BY <1>1, NewBufferIs
<1>3. output \in Buffers /\ Readable(output) = <<>>
  BY <1>1, NewBufferIs
<1>4. <<>> \in Seq(FrameType) /\ <<>> \in Seq(Nat) /\ Len(<<>>) = 0
  OBVIOUS
<1>5. EchoTypes
  <2>1. read \in 0 .. Len(stream)
    BY <1>1, <1>4
  <2>2. /\ sent \in Seq(FrameType) /\ frames \in Seq(FrameType)
        /\ handled \in Seq(FrameType) /\ stream \in Seq(Nat) /\ wire \in Seq(Nat)
    BY <1>1, <1>4
  <2> QED
    BY <1>1, <1>2, <1>3, <2>1, <2>2 DEF EchoTypes
<1>6. FatalEnds
  BY <1>1 DEF FatalEnds
<1>7. NothingWhole
  <2>1. ~ HasHeader(input)
    BY <1>2, HeaderSizes DEF HasHeader
  <2> QED
    BY <2>1 DEF NothingWhole, Complete, TooLong
<1>8. Rest = <<>>
  <2>1. SubSeq(<<>>, 0 + 1, 0) = <<>>
    OBVIOUS
  <2> QED
    BY <1>1, <1>4, <2>1 DEF Rest
<1>9. Encoded(<<>>) = <<>>
  BY EncodedOfNone
<1>10. <<>> \o <<>> = <<>>
  OBVIOUS
<1>11. FramesLeft
  <2>1. sent = handled \o <<>>
    BY <1>1, <1>10
  <2>2. Readable(input) \o Rest = Encoded(<<>>)
    BY <1>2, <1>8, <1>9, <1>10
  <2> QED
    BY <1>4, <2>1, <2>2 DEF FramesLeft
<1>12. NoByteLost
  <2>1. SubSeq(stream, read + 1, Len(stream)) = <<>>
    BY <1>8 DEF Rest
  <2> QED
    BY <1>1, <1>2, <1>3, <1>9, <1>10, <2>1 DEF NoByteLost
<1>13. InputBounded
  <2>1. Len(input.mem) <= CheapPrepend + InitialSize
    BY <1>2, EchoAssumption, BufferAssumption DEF EchoAssumption, BufferAssumption
  <2> QED
    BY <2>1 DEF InputBounded
<1> QED
  BY <1>5, <1>6, <1>7, <1>11, <1>12, <1>13 DEF EchoInv

\* A step that changes nothing.
LEMMA EchoStutters ==
  ASSUME EchoInv, UNCHANGED vars
  PROVE  EchoInv'
BY DEF vars, peerSide, inSide, outSide, EchoInv, EchoTypes, FatalEnds, NothingWhole,
       FramesLeft, NoByteLost, InputBounded, Rest

\* Every step keeps the invariant.
LEMMA EchoSteps == EchoInv /\ [Next]_vars => EchoInv'
<1> SUFFICES ASSUME EchoInv, [Next]_vars PROVE EchoInv'
  OBVIOUS
<1>1. CASE UNCHANGED vars
  BY <1>1, EchoStutters
<1>2. CASE \E f \in Frames : PeerSends(f)
  BY <1>2, PeerSendsStep
<1>3. CASE HandleRead
  BY <1>3, ReadStep
<1>4. CASE DecodeFrame
  BY <1>4, DecodeFrameStep
<1>5. CASE DecodeFatal
  BY <1>5, DecodeFatalStep
<1>6. CASE DecodeEnds
  BY <1>6, DecodeEndsStep
<1>7. CASE Reply
  BY <1>7, ReplyStep
<1>8. CASE ReplyEnds
  BY <1>8, ReplyEndsStep
<1>9. CASE HandleWrite
  BY <1>9, WriteStep
<1> QED
  BY <1>1, <1>2, <1>3, <1>4, <1>5, <1>6, <1>7, <1>8, <1>9 DEF Next, Server

\* The invariant holds in every state.
LEMMA EchoInvHolds == Spec => []EchoInv
BY EchoStarts, EchoSteps, PTL DEF Spec

\* Every variable has its type, and the indices of both buffers stay in order
\* within their vectors, in every state of the connection.
THEOREM TypeCorrect == Spec => []TypeOK
<1>1. EchoInv => TypeOK
  <2> SUFFICES ASSUME EchoTypes PROVE TypeOK
    BY DEF EchoInv
  <2>1. IsBuffer(input) /\ IsBuffer(output)
    BY DEF EchoTypes, Buffers
  <2> QED
    BY <2>1 DEF EchoTypes, TypeOK
<1> QED
  BY <1>1, EchoInvHolds, PTL

\* Wherever reads and writes cut the stream, and however the buffers are moved
\* and grown, no byte is lost, doubled or out of its place until a header cannot
\* be.
THEOREM NoByteIsLost == Spec => []NoByteLost
<1>1. EchoInv => NoByteLost
  BY DEF EchoInv
<1> QED
  BY <1>1, EchoInvHolds, PTL

\* However much goes through it, the vector of the input buffer stays within its
\* first size, or what the longest frame, one read of all that the kernel keeps
\* and two of extrabuf need.
THEOREM InputIsBounded == Spec => []InputBounded
<1>1. EchoInv => InputBounded
  BY DEF EchoInv
<1> QED
  BY <1>1, EchoInvHolds, PTL

-----------------------------------------------------------------------------

\* Initial states of the decoder are those of the stream of frames.
LEMMA StreamStarts == Init => F!Init
BY DEF Init, F!Init

\* The first frame that did not come out is the first of those left.
LEMMA FirstIsNext ==
  ASSUME NEW left \in Seq(FrameType), left # <<>>, handled \in Seq(FrameType),
         sent = handled \o left
  PROVE  F!Waiting /\ F!First = Head(left)
<1>1. Len(handled) \in Nat /\ Len(left) \in Nat /\ Len(left) # 0
  BY LenProperties, EmptySeq
<1>2. /\ Len(sent) = Len(handled) + Len(left)
      /\ \A i \in 1 .. Len(handled) + Len(left) :
           sent[i] = IF i <= Len(handled) THEN handled[i] ELSE left[i - Len(handled)]
  BY ConcatProperties
<1> DEFINE i == Len(handled) + 1
<1>3. i \in 1 .. Len(handled) + Len(left) /\ ~ (i <= Len(handled)) /\ i - Len(handled) = 1
  BY <1>1
<1> HIDE DEF i
<1>4. sent[i] = left[1]
  BY <1>2, <1>3
<1>5. Head(left) = left[1]
  OBVIOUS
<1> QED
  BY <1>1, <1>2, <1>4, <1>5 DEF i, F!Waiting, F!First

\* What the peer sends is sent on it.
LEMMA SendsImplement ==
  ASSUME EchoInv, NEW f \in Frames, PeerSends(f)
  PROVE  F!Send
<1>1. sent' = Append(sent, f) /\ UNCHANGED <<fatal, handled>>
  BY DEF PeerSends
<1>2. sent \in Seq(FrameType) /\ f \in FrameType
  BY EchoAssumption DEF EchoInv, EchoTypes, EchoAssumption
<1>3. Len(sent') = Len(sent) + 1 /\ SubSeq(sent', 1, Len(sent)) = sent
  BY <1>1, <1>2
<1> QED
  BY <1>1, <1>3 DEF F!Send

\* A frame that tryDecode finds comes out.
LEMMA DecodeImplements ==
  ASSUME EchoInv, DecodeFrame
  PROVE  F!Deliver
<1>1. /\ pc = "decode" /\ Complete(input)
      /\ handled' = Append(handled, FirstFrame(input)) /\ UNCHANGED <<sent, fatal>>
  BY DEF DecodeFrame, peerSide
<1>2. /\ ~ fatal /\ HasHeader(input) /\ handled \in Seq(FrameType)
      /\ input \in Buffers /\ Rest \in Seq(Nat)
  BY <1>1, BackIsBytes DEF EchoInv, EchoTypes, FatalEnds, Complete
<1>3. PICK left \in Seq(FrameType) :
        /\ sent = handled \o left /\ left # <<>>
        /\ Head(left) \in FrameType /\ Encoded(Tail(left)) \in Seq(Nat)
        /\ Begins(input, Rest, Head(left), Encoded(Tail(left)))
  BY <1>2, NextFrame
<1>4. FirstFrame(input) = Head(left) /\ Len(Head(left).body) <= MaxBody
  BY <1>1, <1>2, <1>3, FrameIsDecoded
<1>5. F!Waiting /\ F!First = Head(left)
  BY <1>2, <1>3, FirstIsNext
<1> QED
  BY <1>1, <1>2, <1>4, <1>5 DEF F!Deliver

\* A header that cannot be is that of a frame whose body is too long.
LEMMA FatalImplements ==
  ASSUME EchoInv, DecodeFatal
  PROVE  F!Break
<1>1. /\ pc = "decode" /\ TooLong(input) /\ fatal' = TRUE /\ UNCHANGED <<sent, handled>>
  BY DEF DecodeFatal, peerSide
<1>2. /\ ~ fatal /\ HasHeader(input) /\ handled \in Seq(FrameType)
      /\ input \in Buffers /\ Rest \in Seq(Nat) /\ BodyLen(input) > MaxBody
  BY <1>1, BackIsBytes DEF EchoInv, EchoTypes, FatalEnds, TooLong
<1>3. PICK left \in Seq(FrameType) :
        /\ sent = handled \o left /\ left # <<>>
        /\ Head(left) \in FrameType /\ Encoded(Tail(left)) \in Seq(Nat)
        /\ Begins(input, Rest, Head(left), Encoded(Tail(left)))
  BY <1>2, NextFrame
<1>4. BodyLen(input) = Len(Head(left).body)
  BY <1>2, <1>3, HeaderOfFrame
<1>5. F!Waiting /\ F!First = Head(left)
  BY <1>2, <1>3, FirstIsNext
<1> QED
  BY <1>1, <1>2, <1>4, <1>5 DEF F!Break

\* Every step of the echo is one of the stream of frames, or none.
LEMMA StepsImplement == EchoInv /\ [Next]_vars => [F!Next]_(F!vars)
<1> SUFFICES ASSUME EchoInv, [Next]_vars PROVE [F!Next]_(F!vars)
  OBVIOUS
<1>1. CASE \E f \in Frames : PeerSends(f)
  BY <1>1, SendsImplement DEF F!Next
<1>2. CASE DecodeFrame
  BY <1>2, DecodeImplements DEF F!Next
<1>3. CASE DecodeFatal
  BY <1>3, FatalImplements DEF F!Next
<1>4. CASE HandleRead \/ DecodeEnds \/ Reply \/ ReplyEnds \/ HandleWrite \/ UNCHANGED vars
  BY <1>4 DEF HandleRead, DecodeEnds, Reply, ReplyEnds, HandleWrite, vars, peerSide, F!vars
<1> QED
  BY <1>1, <1>2, <1>3, <1>4 DEF Next, Server

\* readFd and tryDecode together are a stream of frames: those sent come out
\* whole, once and in order, and it breaks exactly at a body over the limit.
THEOREM DecoderIsFrameStream == Spec => ImplementsFrameStream
BY StreamStarts, StepsImplement, EchoInvHolds, PTL DEF Spec, ImplementsFrameStream, F!Spec
=============================================================================
