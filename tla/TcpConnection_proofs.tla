------------------------- MODULE TcpConnection_proofs -------------------------
(***************************************************************************)
(* Proofs about TcpConnection, for any number of bytes, chunks and calls,  *)
(* and any size of a read: its types, that its channel follows its state   *)
(* and its output, and that it is a ByteStream.                            *)
(***************************************************************************)
EXTENDS TcpConnection, Integers, SequenceTheorems, TLAPS

-----------------------------------------------------------------------------
(* Bytes in order *)

\* The bytes w are written, the bytes o wait, and together they are the bytes
\* from 1 to a in their order.
InOrder(w, o, a) ==
  /\ Len(w) + Len(o) = a
  /\ \A i \in 1 .. Len(w) : w[i] = i
  /\ \A i \in 1 .. Len(o) : o[i] = Len(w) + i

\* Two sequences end to end, element by element.
LEMMA ConcatIs ==
  ASSUME NEW s \in Seq(Nat), NEW t \in Seq(Nat)
  PROVE  /\ s \o t \in Seq(Nat)
         /\ Len(s \o t) = Len(s) + Len(t)
         /\ \A i \in 1 .. Len(s) : (s \o t)[i] = s[i]
         /\ \A i \in 1 .. Len(t) : (s \o t)[Len(s) + i] = t[i]
<1>1. /\ s \o t \in Seq(Nat)
      /\ Len(s \o t) = Len(s) + Len(t)
      /\ \A j \in 1 .. Len(s) + Len(t) :
           (s \o t)[j] = IF j <= Len(s) THEN s[j] ELSE t[j - Len(s)]
  BY ConcatProperties
<1>2. Len(s) \in Nat /\ Len(t) \in Nat
  BY LenProperties
<1>3. \A i \in 1 .. Len(s) : (s \o t)[i] = s[i]
  BY <1>1, <1>2
<1>4. ASSUME NEW i \in 1 .. Len(t)
      PROVE  (s \o t)[Len(s) + i] = t[i]
  <2>1. /\ Len(s) + i \in 1 .. Len(s) + Len(t)
        /\ ~ (Len(s) + i <= Len(s)) /\ (Len(s) + i) - Len(s) = i
    BY <1>2
  <2> QED
    BY <1>1, <2>1
<1> QED
  BY <1>1, <1>3, <1>4

\* The first k elements of a sequence, and the rest.
LEMMA SplitIs ==
  ASSUME NEW s \in Seq(Nat), NEW k \in 0 .. Len(s)
  PROVE  /\ First(s, k) \in Seq(Nat) /\ Len(First(s, k)) = k
         /\ \A i \in 1 .. k : First(s, k)[i] = s[i]
         /\ Rest(s, k) \in Seq(Nat) /\ Len(Rest(s, k)) = Len(s) - k
         /\ \A i \in 1 .. Len(s) - k : Rest(s, k)[i] = s[k + i]
<1>1. Len(s) \in Nat /\ k \in Nat /\ k <= Len(s)
  BY LenProperties
<1>2. /\ \A i \in 1 .. k : s[i] \in Nat
      /\ \A i \in k + 1 .. Len(s) : s[i] \in Nat
  BY <1>1, ElementOfSeq
<1>3. /\ SubSeq(s, 1, k) \in Seq(Nat)
      /\ Len(SubSeq(s, 1, k)) = IF 1 <= k THEN k - 1 + 1 ELSE 0
      /\ \A i \in 1 .. k - 1 + 1 : SubSeq(s, 1, k)[i] = s[1 + i - 1]
  BY <1>1, <1>2, SubSeqProperties
<1>4. /\ SubSeq(s, k + 1, Len(s)) \in Seq(Nat)
      /\ Len(SubSeq(s, k + 1, Len(s))) =
           IF k + 1 <= Len(s) THEN Len(s) - (k + 1) + 1 ELSE 0
      /\ \A i \in 1 .. Len(s) - (k + 1) + 1 :
           SubSeq(s, k + 1, Len(s))[i] = s[(k + 1) + i - 1]
  BY <1>1, <1>2, SubSeqProperties
<1>5. /\ First(s, k) \in Seq(Nat) /\ Len(First(s, k)) = k
      /\ \A i \in 1 .. k : First(s, k)[i] = s[i]
  <2>1. \A i \in 1 .. k : i \in 1 .. k - 1 + 1 /\ 1 + i - 1 = i
    BY <1>1
  <2> QED
    BY <1>1, <1>3, <2>1 DEF First
<1>6. /\ Rest(s, k) \in Seq(Nat) /\ Len(Rest(s, k)) = Len(s) - k
      /\ \A i \in 1 .. Len(s) - k : Rest(s, k)[i] = s[k + i]
  <2>1. \A i \in 1 .. Len(s) - k :
          i \in 1 .. Len(s) - (k + 1) + 1 /\ (k + 1) + i - 1 = k + i
    BY <1>1
  <2> QED
    BY <1>1, <1>4, <2>1 DEF Rest
<1> QED
  BY <1>5, <1>6

\* A sequence is empty exactly when its length is 0.
LEMMA EmptyIs ==
  ASSUME NEW s \in Seq(Nat)
  PROVE  s = << >> <=> Len(s) = 0
BY EmptySeq

\* Writing the first k of the bytes that wait keeps them all in order.
LEMMA WritingKeepsOrder ==
  ASSUME NEW w \in Seq(Nat), NEW o \in Seq(Nat), NEW a \in Nat, InOrder(w, o, a),
         NEW k \in 0 .. Len(o)
  PROVE  InOrder(w \o First(o, k), Rest(o, k), a)
<1> DEFINE f == First(o, k)
           r == Rest(o, k)
           v == w \o f
<1>1. /\ f \in Seq(Nat) /\ Len(f) = k /\ \A i \in 1 .. k : f[i] = o[i]
      /\ r \in Seq(Nat) /\ Len(r) = Len(o) - k
      /\ \A i \in 1 .. Len(o) - k : r[i] = o[k + i]
  BY SplitIs
<1> HIDE DEF f, r
<1>2. /\ v \in Seq(Nat) /\ Len(v) = Len(w) + Len(f)
      /\ \A i \in 1 .. Len(w) : v[i] = w[i]
      /\ \A i \in 1 .. Len(f) : v[Len(w) + i] = f[i]
  BY <1>1, ConcatIs
<1> HIDE DEF v
<1>3. Len(w) \in Nat /\ Len(o) \in Nat /\ k \in Nat /\ k <= Len(o)
  BY LenProperties
<1>4. /\ Len(w) + Len(o) = a
      /\ \A i \in 1 .. Len(w) : w[i] = i
      /\ \A i \in 1 .. Len(o) : o[i] = Len(w) + i
  BY DEF InOrder
<1>5. Len(v) + Len(r) = a
  <2>1. /\ Len(v) = Len(w) + k /\ Len(r) = Len(o) - k
        /\ Len(w) + Len(o) = a
    BY <1>1, <1>2, <1>4
  <2> DEFINE lw == Len(w)
             lo == Len(o)
  <2>2. lw \in Nat /\ lo \in Nat
    BY <1>3
  <2> HIDE DEF lw, lo
  <2>3. k \in Nat /\ (lw + k) + (lo - k) = lw + lo
    BY <1>3, <2>2
  <2> QED
    BY <2>1, <2>3 DEF lw, lo
<1>6. ASSUME NEW i \in 1 .. Len(v) PROVE v[i] = i
  <2>1. CASE i <= Len(w)
    <3>1. i \in 1 .. Len(w)
      BY <1>1, <1>2, <1>3, <2>1
    <3> QED
      BY <1>2, <1>4, <3>1
  <2>2. CASE ~ (i <= Len(w))
    <3> DEFINE j == i - Len(w)
    <3>1. /\ j \in 1 .. k /\ j \in 1 .. Len(o)
          /\ i = Len(w) + j
      BY <1>1, <1>2, <1>3, <2>2
    <3>2. k = Len(f)
      BY <1>1
    <3> HIDE DEF j
    <3> QED
      BY <1>1, <1>2, <1>4, <3>1, <3>2
  <2> QED
    BY <2>1, <2>2
<1>7. ASSUME NEW i \in 1 .. Len(r) PROVE r[i] = Len(v) + i
  <2>1. /\ i \in 1 .. Len(o) - k /\ k + i \in 1 .. Len(o)
        /\ Len(w) + (k + i) = Len(v) + i
    BY <1>1, <1>2, <1>3
  <2> QED
    BY <1>1, <1>4, <2>1
<1> QED
  BY <1>5, <1>6, <1>7 DEF InOrder, v, f, r

\* The bytes sendInLoop is given are the next ones.
LEMMA BytesAre ==
  ASSUME accepted \in Nat, NEW n \in Nat
  PROVE  /\ Bytes(n) \in Seq(Nat) /\ Len(Bytes(n)) = n
         /\ \A i \in 1 .. n : Bytes(n)[i] = accepted + i
<1>1. Bytes(n) \in [1 .. n -> Nat]
  BY DEF Bytes
<1>2. Bytes(n) \in Seq(Nat)
  BY <1>1, SeqDef
<1>3. DOMAIN Bytes(n) = 1 .. n /\ DOMAIN Bytes(n) = 1 .. Len(Bytes(n))
      /\ Len(Bytes(n)) \in Nat
  BY <1>1, <1>2, LenProperties
<1> QED
  BY <1>2, <1>3 DEF Bytes

\* Queueing them behind what waits keeps all bytes in order.
LEMMA QueueingKeepsOrder ==
  ASSUME accepted \in Nat, NEW w \in Seq(Nat), NEW o \in Seq(Nat),
         InOrder(w, o, accepted), NEW n \in Nat
  PROVE  InOrder(w, o \o Bytes(n), accepted + n)
<1> DEFINE b == Bytes(n)
           p == o \o b
<1>1. b \in Seq(Nat) /\ Len(b) = n /\ \A i \in 1 .. n : b[i] = accepted + i
  BY BytesAre
<1> HIDE DEF b
<1>2. /\ p \in Seq(Nat) /\ Len(p) = Len(o) + Len(b)
      /\ \A i \in 1 .. Len(o) : p[i] = o[i]
      /\ \A i \in 1 .. Len(b) : p[Len(o) + i] = b[i]
  BY <1>1, ConcatIs
<1> HIDE DEF p
<1>3. Len(w) \in Nat /\ Len(o) \in Nat
  BY LenProperties
<1>4. /\ Len(w) + Len(o) = accepted
      /\ \A i \in 1 .. Len(w) : w[i] = i
      /\ \A i \in 1 .. Len(o) : o[i] = Len(w) + i
  BY DEF InOrder
<1>5. /\ Len(p) = Len(o) + n /\ Len(w) + Len(o) = accepted
      /\ Len(w) + Len(p) = accepted + n
  <2>1. Len(p) = Len(o) + n /\ Len(w) + Len(o) = accepted
    BY <1>1, <1>2, <1>4
  <2> QED
    BY <1>3, <2>1
<1>6. ASSUME NEW i \in 1 .. Len(p) PROVE p[i] = Len(w) + i
  <2>1. CASE i <= Len(o)
    <3>1. i \in 1 .. Len(o)
      BY <1>1, <1>2, <1>3, <2>1
    <3> QED
      BY <1>2, <1>4, <3>1
  <2>2. CASE ~ (i <= Len(o))
    <3> DEFINE j == i - Len(o)
    <3>1. j \in 1 .. n /\ i = Len(o) + j
      BY <1>3, <1>5, <2>2
    <3>2. (Len(w) + Len(o)) + j = Len(w) + i
      BY <1>3, <3>1
    <3> HIDE DEF j
    <3> QED
      BY <1>1, <1>2, <1>5, <3>1, <3>2
  <2> QED
    BY <2>1, <2>2
<1> QED
  BY <1>4, <1>5, <1>6 DEF InOrder, p, b

-----------------------------------------------------------------------------
(* Types *)

\* The types of what the functions of the loop's thread change.
CoreTypes ==
  /\ state \in {"kDisconnected", "kConnecting", "kConnected", "kDisconnecting"}
  /\ events \in SUBSET {"R", "W"}
  /\ out \in Seq(Nat) /\ wire \in Seq(Nat)
  /\ accepted \in Nat
  /\ fin \in BOOLEAN
  /\ downs \in Nat

\* The types of the rest.
OtherTypes ==
  /\ posted \in Seq({"send", "shutdown", "forceClose"})
  /\ posts \in 0 .. MaxPosts
  /\ pc \in {"poll", "dispatch", "message", "written"}
  /\ revents \in SUBSET {"IN", "OUT", "ERR", "HUP"}
  /\ pc = "poll" => revents = {}
  /\ inq \in Nat /\ received \in Nat
  /\ peerSent \in 0 .. MaxChunks /\ inq + received = peerSent
  /\ peer \in {"open", "fin", "reset"}

\* Together they are the type invariant.
LEMMA TypesAre == TypeOK <=> CoreTypes /\ OtherTypes
BY DEF TypeOK, CoreTypes, OtherTypes

\* handleClose keeps the types.
LEMMA CloseTypes ==
  ASSUME CoreTypes, HandleClose, UNCHANGED <<sending, fin>>
  PROVE  CoreTypes'
<1>1. UNCHANGED <<out, wire, accepted, fin>>
  BY DEF sending
<1>2. CASE state = "kDisconnected"
  BY <1>1, <1>2 DEF CoreTypes, HandleClose
<1>3. CASE state # "kDisconnected"
  <2>1. state' = "kDisconnected" /\ events' = {} /\ downs' \in Nat
    BY <1>3 DEF CoreTypes, HandleClose
  <2> QED
    BY <1>1, <2>1 DEF CoreTypes
<1> QED
  BY <1>2, <1>3

\* So does sendInLoop.
LEMMA SendTypes ==
  ASSUME CoreTypes, NEW n \in Nat, SendInLoop(n), UNCHANGED fin
  PROVE  CoreTypes'
<1> USE DEF CoreTypes
<1>1. Bytes(n) \in Seq(Nat) /\ Len(Bytes(n)) = n
  BY BytesAre
<1>2. accepted + n \in Nat
  OBVIOUS
<1>3. out \o Bytes(n) \in Seq(Nat)
  BY <1>1, ConcatIs
<1>4. ASSUME NEW k \in 0 .. n
      PROVE  /\ wire \o First(Bytes(n), k) \in Seq(Nat)
             /\ out \o Rest(Bytes(n), k) \in Seq(Nat)
  <2>1. First(Bytes(n), k) \in Seq(Nat) /\ Rest(Bytes(n), k) \in Seq(Nat)
    BY <1>1, SplitIs
  <2> QED
    BY <2>1, ConcatIs
<1>5. (events \cup {"W"}) \in SUBSET {"R", "W"}
  OBVIOUS
<1> HIDE DEF CoreTypes
<1>6. CASE UNCHANGED <<state, events, sending, downs>>
  BY <1>6 DEF CoreTypes, sending
<1>7. CASE HandleClose /\ UNCHANGED sending
  BY <1>7, CloseTypes
<1>8. CASE /\ \E k \in 0 .. n :
               /\ wire' = wire \o First(Bytes(n), k)
               /\ out' = out \o Rest(Bytes(n), k)
               /\ events' = IF k < n THEN events \cup {"W"} ELSE events
           /\ accepted' = accepted + n
           /\ UNCHANGED <<state, downs>>
  BY <1>2, <1>4, <1>5, <1>8 DEF CoreTypes
<1>9. CASE /\ out' = out \o Bytes(n)
           /\ events' = events \cup {"W"}
           /\ accepted' = accepted + n
           /\ UNCHANGED <<state, wire, downs>>
  BY <1>2, <1>3, <1>5, <1>9 DEF CoreTypes
<1> QED
  BY <1>6, <1>7, <1>8, <1>9 DEF SendInLoop

\* So does shutdownInLoop.
LEMMA ShutdownTypes ==
  ASSUME CoreTypes, ShutdownInLoop, UNCHANGED <<sending, downs>>
  PROVE  CoreTypes'
<1>1. CASE state \in {"kDisconnected", "kConnecting"}
  BY <1>1 DEF CoreTypes, ShutdownInLoop, sending
<1>2. CASE ~ (state \in {"kDisconnected", "kConnecting"})
  <2>1. fin' \in BOOLEAN
    BY <1>2 DEF CoreTypes, ShutdownInLoop
  <2>2. state' = "kDisconnecting" /\ events' \in SUBSET {"R", "W"}
    BY <1>2 DEF CoreTypes, ShutdownInLoop
  <2> QED
    BY <2>1, <2>2 DEF CoreTypes, sending
<1> QED
  BY <1>1, <1>2

\* A write event of k bytes does.
LEMMA WriteOutTypes ==
  ASSUME CoreTypes, NEW k \in 0 .. Len(out), WriteOut(k), UNCHANGED fin
  PROVE  CoreTypes' /\ pc' \in {pc, "written"}
<1>1. First(out, k) \in Seq(Nat) /\ Rest(out, k) \in Seq(Nat)
  BY SplitIs DEF CoreTypes
<1>2. wire \o First(out, k) \in Seq(Nat)
  BY <1>1, ConcatIs DEF CoreTypes
<1>3. events' \in SUBSET {"R", "W"} /\ pc' \in {pc, "written"}
  BY DEF CoreTypes, WriteOut
<1> QED
  BY <1>1, <1>2, <1>3 DEF CoreTypes, WriteOut

\* The initial state is well typed.
LEMMA TypeInit == Init => TypeOK
<1> SUFFICES ASSUME Init PROVE TypeOK
  OBVIOUS
<1>1. out \in Seq(Nat) /\ wire \in Seq(Nat)
  BY DEF Init
<1>2. posted \in Seq({"send", "shutdown", "forceClose"})
  BY DEF Init
<1>3. CoreTypes
  BY <1>1 DEF Init, CoreTypes
<1>4. OtherTypes
  BY <1>2, ConnectionAssumption DEF Init, OtherTypes
<1> QED
  BY <1>3, <1>4, TypesAre

\* Every step keeps the state well typed.
LEMMA TypeNext == TypeOK /\ [Next]_vars => TypeOK'
<1> SUFFICES ASSUME CoreTypes, OtherTypes, [Next]_vars
             PROVE  CoreTypes' /\ OtherTypes'
  BY TypesAre DEF TypeOK, CoreTypes, OtherTypes
<1> USE ConnectionAssumption
<1>1. CASE ConnectEstablished
  BY <1>1 DEF ConnectEstablished, CoreTypes, OtherTypes, sending, userSide, peerSide
<1>2. CASE Poll
  BY <1>2 DEF Poll, CoreTypes, OtherTypes, sending, userSide, peerSide
<1>3. CASE HandleRead
  <2>1. CoreTypes'
    <3>1. CASE UNCHANGED <<state, events, downs>>
      BY <1>3, <3>1 DEF HandleRead, CoreTypes, sending
    <3>2. CASE HandleClose
      BY <1>3, <3>2, CloseTypes DEF HandleRead
    <3> QED
      BY <1>3, <3>1, <3>2 DEF HandleRead
  <2>2. /\ inq' \in Nat /\ received' \in Nat /\ inq' + received' = inq + received
        /\ pc' \in {"dispatch", "message"}
    <3>1. CASE UNCHANGED <<pc, inq, received>>
      BY <1>3, <3>1 DEF HandleRead, OtherTypes
    <3>2. CASE /\ LET k == IF inq < ReadMax THEN inq ELSE ReadMax
                  IN inq' = inq - k /\ received' = received + k
               /\ pc' = "message"
      BY <3>2 DEF OtherTypes
    <3> QED
      BY <1>3, <3>1, <3>2 DEF HandleRead
  <2>3. revents' \in SUBSET {"IN", "OUT", "ERR", "HUP"}
    BY <1>3 DEF HandleRead, OtherTypes
  <2>4. UNCHANGED <<posted, posts, peerSent, peer>>
    BY <1>3 DEF HandleRead, userSide
  <2> QED
    BY <2>1, <2>2, <2>3, <2>4 DEF OtherTypes
<1>4. CASE MessageDone
  BY <1>4 DEF MessageDone, CoreTypes, OtherTypes, sending, userSide, peerSide
<1>5. CASE HandleWrite
  <2>1. CoreTypes' /\ pc' \in {pc, "written"}
    <3>1. CASE UNCHANGED <<state, events, sending, downs, pc>>
      BY <1>5, <3>1 DEF HandleWrite, CoreTypes, sending
    <3>2. ASSUME NEW k \in 0 .. Len(out), WriteOut(k)
          PROVE  CoreTypes' /\ pc' \in {pc, "written"}
      BY <1>5, <3>2, WriteOutTypes DEF HandleWrite
    <3>3. CASE HandleClose /\ UNCHANGED <<sending, pc>>
      BY <1>5, <3>3, CloseTypes DEF HandleWrite
    <3> QED
      BY <1>5, <3>1, <3>2, <3>3 DEF HandleWrite
  <2>2. pc = "dispatch" /\ revents' \in SUBSET {"IN", "OUT", "ERR", "HUP"}
    BY <1>5 DEF HandleWrite, OtherTypes
  <2>3. UNCHANGED <<userSide, peerSide>>
    BY <1>5 DEF HandleWrite
  <2> QED
    BY <2>1, <2>2, <2>3 DEF OtherTypes, userSide, peerSide
<1>6. CASE WriteDone
  <2>1. CoreTypes'
    <3>1. CASE state = "kDisconnecting"
      BY <1>6, <3>1, ShutdownTypes DEF WriteDone
    <3>2. CASE state # "kDisconnecting"
      BY <1>6, <3>2 DEF WriteDone, CoreTypes, sending
    <3> QED
      BY <3>1, <3>2
  <2> QED
    BY <1>6, <2>1 DEF WriteDone, OtherTypes, userSide, peerSide
<1>7. CASE HandleErrorOrHup
  <2>1. CoreTypes'
    BY <1>7, CloseTypes DEF HandleErrorOrHup
  <2> QED
    BY <1>7, <2>1 DEF HandleErrorOrHup, OtherTypes, userSide, peerSide
<1>8. CASE DispatchDone
  BY <1>8 DEF DispatchDone, CoreTypes, OtherTypes, sending, userSide, peerSide
<1>9. CASE RunPosted
  <2>1. CoreTypes'
    <3>1. CASE SendInLoop(1) /\ UNCHANGED fin
      BY <3>1, SendTypes
    <3>2. CASE ShutdownInLoop /\ UNCHANGED <<sending, downs>>
      BY <3>2, ShutdownTypes
    <3>3. CASE HandleClose /\ UNCHANGED <<sending, fin>>
      BY <3>3, CloseTypes
    <3>4. Head(posted) \in {"send", "shutdown", "forceClose"}
      BY <1>9, HeadTailProperties DEF RunPosted, OtherTypes
    <3> QED
      BY <1>9, <3>1, <3>2, <3>3, <3>4 DEF RunPosted
  <2>2. posted' \in Seq({"send", "shutdown", "forceClose"})
    BY <1>9, HeadTailProperties DEF RunPosted, OtherTypes
  <2>3. UNCHANGED <<posts, pc, revents, peerSide>>
    BY <1>9 DEF RunPosted
  <2> QED
    BY <2>1, <2>2, <2>3 DEF OtherTypes, peerSide
<1>10. ASSUME NEW n \in 1 .. MaxBytes, UserSend(n) PROVE CoreTypes' /\ OtherTypes'
  <2>1. CoreTypes'
    BY <1>10, SendTypes DEF UserSend
  <2> QED
    BY <1>10, <2>1 DEF UserSend, OtherTypes, userSide, peerSide
<1>11. CASE UserShutdown
  <2>1. CoreTypes'
    BY <1>11, ShutdownTypes DEF UserShutdown
  <2> QED
    BY <1>11, <2>1 DEF UserShutdown, OtherTypes, userSide, peerSide
<1>12. CASE UserForceClose
  <2>1. CoreTypes'
    BY <1>12, CloseTypes DEF UserForceClose
  <2> QED
    BY <1>12, <2>1 DEF UserForceClose, OtherTypes, userSide, peerSide
<1>13. ASSUME NEW call \in {"send", "shutdown", "forceClose"}, Post(call)
       PROVE  CoreTypes' /\ OtherTypes'
  <2>1. posted' \in Seq({"send", "shutdown", "forceClose"})
    BY <1>13, AppendProperties DEF Post, OtherTypes
  <2>2. posts' \in 0 .. MaxPosts
    BY <1>13 DEF Post, OtherTypes
  <2>3. UNCHANGED <<state, events, sending, fin, pc, revents, peerSide, downs>>
    BY <1>13 DEF Post
  <2> QED
    BY <2>1, <2>2, <2>3 DEF CoreTypes, OtherTypes, sending, peerSide
<1>14. CASE PeerSend
  <2>1. /\ inq' \in Nat /\ peerSent' \in 0 .. MaxChunks
        /\ inq' + received = peerSent'
    BY <1>14 DEF PeerSend, OtherTypes
  <2> QED
    BY <1>14, <2>1 DEF PeerSend, CoreTypes, OtherTypes, sending, userSide
<1>15. CASE PeerFin
  BY <1>15 DEF PeerFin, CoreTypes, OtherTypes, sending, userSide
<1>16. CASE PeerReset
  BY <1>16 DEF PeerReset, CoreTypes, OtherTypes, sending, userSide
<1>17. CASE UNCHANGED vars
  BY <1>17 DEF vars, CoreTypes, OtherTypes
<1> QED
  BY <1>1, <1>2, <1>3, <1>4, <1>5, <1>6, <1>7, <1>8, <1>9, <1>10, <1>11, <1>12,
     <1>13, <1>14, <1>15, <1>16, <1>17 DEF Next, Dispatch

\* Types, for any bounds: an event that is reported is handled before the loop
\* goes back to epoll_wait, and no chunk of the peer's is lost in between.
THEOREM TypeCorrect == Spec => []TypeOK
BY TypeInit, TypeNext, PTL DEF Spec

-----------------------------------------------------------------------------
(* The channel and the stream *)

\* What the functions of the loop's thread keep: the channel follows state and
\* output, the bytes are in order, and the end of the stream comes after them.
StreamInv ==
  /\ ChannelFollowsState
  /\ InOrder(wire, out, accepted)
  /\ fin => out = << >> /\ state \in {"kDisconnecting", "kDisconnected"}

\* Before connectEstablished nothing has been asked of the connection.
FreshInv ==
  state = "kConnecting" =>
    events = {} /\ out = << >> /\ posted = << >> /\ pc = "poll"

\* What such a function does to the abstract stream.
StreamStep == [Stream!Next]_(Stream!vars)

\* The bytes of the stream that are on the wire, in order.
LEMMA WireIsIota ==
  ASSUME NEW w \in Seq(Nat), \A i \in 1 .. Len(w) : w[i] = i
  PROVE  w = Stream!Iota(Len(w))
<1> DEFINE t == [i \in 1 .. Len(w) |-> i]
<1>1. Len(w) \in Nat
  BY LenProperties
<1>2. t \in [1 .. Len(w) -> Nat]
  BY <1>1
<1>3. t \in Seq(Nat)
  BY <1>1, <1>2, SeqDef
<1>4. \A i \in 1 .. Len(w) : t[i] = w[i]
  OBVIOUS
<1>5. DOMAIN t = 1 .. Len(w)
  OBVIOUS
<1> HIDE DEF t
<1>6. DOMAIN t = 1 .. Len(t) /\ Len(t) \in Nat
  BY <1>3, LenProperties
<1>7. Len(t) = Len(w)
  BY <1>1, <1>5, <1>6
<1>8. t = w
  BY <1>3, <1>4, <1>7, SeqEqual
<1> QED
  BY <1>8 DEF t, Stream!Iota

\* Accepting and writing, when the bytes stay in order, is a Transfer.
LEMMA TransferStep ==
  ASSUME CoreTypes, CoreTypes', state # "kDisconnected", ~fin,
         UNCHANGED <<state, fin>>, accepted <= accepted', Len(wire) <= Len(wire'),
         InOrder(wire', out', accepted')
  PROVE  StreamStep
<1>1. accepted \in Nat /\ accepted' \in Nat /\ wire' \in Seq(Nat) /\ wire \in Seq(Nat)
      /\ out' \in Seq(Nat)
  BY DEF CoreTypes
<1>2. Len(wire) \in Nat /\ Len(wire') \in Nat /\ Len(out') \in Nat
  BY <1>1, LenProperties
<1>3. /\ Len(wire') + Len(out') = accepted'
      /\ \A i \in 1 .. Len(wire') : wire'[i] = i
  BY DEF InOrder
<1>4. wire' = Stream!Iota(Len(wire'))
  BY <1>1, <1>3, WireIsIota
<1>5. Len(wire') \in Len(wire) .. accepted'
  BY <1>1, <1>2, <1>3
<1>6. Stream!Transfer
  BY <1>1, <1>4, <1>5 DEF Stream!Transfer
<1> QED
  BY <1>6 DEF StreamStep, Stream!Next

\* handleClose closes the stream, once.
LEMMA CloseStep ==
  ASSUME CoreTypes, StreamInv, state # "kConnecting",
         HandleClose, UNCHANGED <<sending, fin>>
  PROVE  StreamInv' /\ StreamStep /\ state' # "kConnecting"
<1>1. UNCHANGED <<out, wire, accepted, fin>>
  BY DEF sending
<1>2. CASE state = "kDisconnected"
  <2>1. UNCHANGED <<state, events, downs>>
    BY <1>2 DEF HandleClose
  <2>2. StreamInv'
    BY <1>1, <2>1 DEF StreamInv, ChannelFollowsState, WriteInterest, DownOnce, InOrder
  <2> QED
    BY <1>1, <1>2, <2>1, <2>2 DEF StreamStep, Stream!vars
<1>3. CASE state # "kDisconnected"
  <2>1. state' = "kDisconnected" /\ events' = {} /\ downs' = downs + 1
    BY <1>3 DEF HandleClose
  <2>2. downs' = 1
    BY <1>3, <2>1 DEF StreamInv, ChannelFollowsState, DownOnce
  <2>3. ChannelFollowsState'
    BY <2>1, <2>2 DEF ChannelFollowsState, WriteInterest, DownOnce
  <2>4. InOrder(wire, out, accepted)'
    BY <1>1 DEF StreamInv, InOrder
  <2>5. StreamInv'
    BY <1>1, <2>1, <2>3, <2>4 DEF StreamInv
  <2>6. Stream!Close
    BY <1>1, <1>3, <2>1 DEF Stream!Close
  <2> QED
    BY <2>1, <2>5, <2>6 DEF StreamStep, Stream!Next
<1> QED
  BY <1>2, <1>3

\* sendInLoop adds to the stream, or closes it, or does nothing to it.
LEMMA SendStep ==
  ASSUME CoreTypes, StreamInv, state # "kConnecting",
         NEW n \in Nat \ {0}, SendInLoop(n), UNCHANGED fin
  PROVE  StreamInv' /\ StreamStep /\ state' # "kConnecting"
<1>1. CoreTypes'
  BY SendTypes
<1>2. CASE UNCHANGED <<state, events, sending, downs>>
  <2>1. UNCHANGED <<state, events, out, wire, accepted, downs>>
    BY <1>2 DEF sending
  <2>2. StreamInv'
    BY <2>1 DEF StreamInv, ChannelFollowsState, WriteInterest, DownOnce, InOrder
  <2> QED
    BY <2>1, <2>2 DEF StreamStep, Stream!vars
<1>3. CASE HandleClose /\ UNCHANGED sending
  BY <1>3, CloseStep
<1>4. ASSUME state \notin {"kDisconnected", "kDisconnecting"},
             UNCHANGED <<state, downs>>, accepted' = accepted + n,
             Len(wire) <= Len(wire'), InOrder(wire', out', accepted'),
             "W" \in events' <=> out' # << >>
      PROVE  StreamInv' /\ StreamStep /\ state' # "kConnecting"
  <2>1. ~fin /\ ~fin' /\ state # "kDisconnected"
    BY <1>4 DEF StreamInv
  <2>2. ChannelFollowsState'
    BY <1>4 DEF StreamInv, ChannelFollowsState, WriteInterest, DownOnce
  <2>3. InOrder(wire, out, accepted)'
    BY <1>4 DEF InOrder
  <2>4. StreamInv'
    BY <2>1, <2>2, <2>3 DEF StreamInv
  <2>5. accepted <= accepted'
    BY <1>4 DEF CoreTypes
  <2>6. StreamStep
    BY <1>1, <1>4, <2>1, <2>5, TransferStep
  <2> QED
    BY <1>4, <2>4, <2>6
<1>5. /\ accepted \in Nat /\ out \in Seq(Nat) /\ wire \in Seq(Nat)
      /\ InOrder(wire, out, accepted)
  BY DEF CoreTypes, StreamInv
<1> DEFINE b == Bytes(n)
<1>6. b \in Seq(Nat) /\ Len(b) = n /\ n \in Nat /\ n > 0
  BY <1>5, BytesAre
<1>7. InOrder(wire, out \o b, accepted + n)
  BY <1>5, QueueingKeepsOrder
<1> HIDE DEF b
<1>8. ASSUME state \notin {"kDisconnected", "kDisconnecting"}, CanWriteNow,
             NEW k \in 0 .. n,
             wire' = wire \o First(b, k), out' = out \o Rest(b, k),
             events' = IF k < n THEN events \cup {"W"} ELSE events,
             accepted' = accepted + n, UNCHANGED <<state, downs>>
      PROVE  StreamInv' /\ StreamStep /\ state' # "kConnecting"
  <2>1. out = << >> /\ "W" \notin events
    BY <1>8 DEF CanWriteNow
  <2>2. k \in 0 .. Len(b)
    BY <1>6
  <2>3. /\ First(b, k) \in Seq(Nat) /\ Len(First(b, k)) = k
        /\ Rest(b, k) \in Seq(Nat) /\ Len(Rest(b, k)) = n - k
    BY <1>6, <2>2, SplitIs
  <2>4. out \o b = b /\ out \o Rest(b, k) = Rest(b, k)
    BY <1>6, <2>1, <2>3, ConcatEmptySeq
  <2>5. InOrder(wire, b, accepted + n) /\ accepted + n \in Nat
    BY <1>5, <1>7, <2>4
  <2>6. InOrder(wire \o First(b, k), Rest(b, k), accepted + n)
    BY <1>5, <1>6, <2>2, <2>5, WritingKeepsOrder
  <2>7. InOrder(wire', out', accepted')
    BY <1>8, <2>4, <2>6
  <2>8. Len(wire) <= Len(wire')
    <3>1. Len(wire') = Len(wire) + Len(First(b, k))
      BY <1>5, <1>8, <2>3, ConcatIs
    <3>2. Len(wire) \in Nat /\ k \in Nat
      BY <1>5, LenProperties
    <3> QED
      BY <2>3, <3>1, <3>2
  <2>9. "W" \in events' <=> out' # << >>
    <3>1. out' \in Seq(Nat) /\ Len(out') = n - k
      BY <1>8, <2>3, <2>4
    <3>2. out' # << >> <=> n - k # 0
      BY <3>1, EmptyIs
    <3> QED
      BY <1>6, <1>8, <2>1, <3>2
  <2> QED
    BY <1>4, <1>8, <2>7, <2>8, <2>9
<1>9. ASSUME state \notin {"kDisconnected", "kDisconnecting"},
             out' = out \o b, events' = events \cup {"W"},
             accepted' = accepted + n, UNCHANGED <<state, wire, downs>>
      PROVE  StreamInv' /\ StreamStep /\ state' # "kConnecting"
  <2>1. InOrder(wire', out', accepted')
    BY <1>7, <1>9
  <2>2. Len(wire) <= Len(wire')
    BY <1>5, <1>9, LenProperties
  <2>3. out' # << >>
    <3>1. out' \in Seq(Nat) /\ Len(out') = Len(out) + n
      BY <1>5, <1>6, <1>9, ConcatIs
    <3>2. Len(out) \in Nat
      BY <1>5, LenProperties
    <3>3. Len(out') # 0
      BY <1>6, <3>1, <3>2
    <3> QED
      BY <3>1, <3>3, EmptyIs
  <2>4. "W" \in events'
    BY <1>9
  <2> QED
    BY <1>4, <1>9, <2>1, <2>2, <2>3, <2>4
<1> QED
  BY <1>2, <1>3, <1>8, <1>9 DEF SendInLoop, b

\* shutdownInLoop ends the stream when nothing waits, and otherwise keeps it.
LEMMA ShutdownStep ==
  ASSUME CoreTypes, StreamInv, state # "kConnecting",
         ShutdownInLoop, UNCHANGED <<sending, downs>>
  PROVE  StreamInv' /\ StreamStep /\ state' # "kConnecting"
<1>1. UNCHANGED <<out, wire, accepted, downs>>
  BY DEF sending
<1>2. InOrder(wire, out, accepted)'
  BY <1>1 DEF StreamInv, InOrder
<1>3. CASE state = "kDisconnected"
  <2>1. UNCHANGED <<state, events, fin>>
    BY <1>3 DEF ShutdownInLoop
  <2>2. StreamInv'
    BY <1>1, <1>2, <2>1 DEF StreamInv, ChannelFollowsState, WriteInterest, DownOnce
  <2> QED
    BY <1>1, <1>3, <2>1, <2>2 DEF StreamStep, Stream!vars
<1>4. CASE state # "kDisconnected"
  <2>1. /\ state' = "kDisconnecting"
        /\ fin' = (fin \/ (out = << >> /\ "W" \notin events))
        /\ events' = IF out # << >> THEN events \cup {"W"} ELSE events
    BY <1>4 DEF ShutdownInLoop
  <2>2. "W" \in events <=> out # << >>
    BY <1>4 DEF StreamInv, ChannelFollowsState, WriteInterest
  <2>3. "W" \in events' <=> out' # << >>
    BY <1>1, <2>1, <2>2
  <2>4. downs' = 0
    BY <1>1, <1>4 DEF StreamInv, ChannelFollowsState, DownOnce
  <2>5. ChannelFollowsState'
    BY <2>1, <2>3, <2>4 DEF ChannelFollowsState, WriteInterest, DownOnce
  <2>6. fin' => out' = << >>
    BY <1>1, <2>1 DEF StreamInv
  <2>7. StreamInv'
    BY <1>2, <2>1, <2>5, <2>6 DEF StreamInv
  <2>8. CASE fin' = fin
    BY <1>1, <1>4, <2>1, <2>7, <2>8 DEF StreamStep, Stream!vars
  <2>9. CASE fin' # fin
    <3>1. ~fin /\ fin' = TRUE /\ out = << >>
      BY <2>1, <2>9 DEF CoreTypes
    <3>2. Len(wire) + Len(out) = accepted /\ Len(wire) \in Nat
      BY LenProperties DEF StreamInv, InOrder, CoreTypes
    <3>3. Len(wire) = accepted
      BY <3>1, <3>2
    <3>4. Stream!Finish
      BY <1>1, <1>4, <2>1, <3>1, <3>3 DEF Stream!Finish
    <3> QED
      BY <2>1, <2>7, <3>4 DEF StreamStep, Stream!Next
  <2> QED
    BY <2>1, <2>7, <2>8, <2>9
<1> QED
  BY <1>3, <1>4

\* A write event moves bytes from the buffer to the wire.
LEMMA WriteOutStep ==
  ASSUME CoreTypes, StreamInv, state \notin {"kConnecting", "kDisconnected"},
         NEW k \in 0 .. Len(out), WriteOut(k), UNCHANGED fin
  PROVE  StreamInv' /\ StreamStep /\ state' # "kConnecting"
<1>1. CoreTypes'
  BY WriteOutTypes
<1>2. /\ wire' = wire \o First(out, k) /\ out' = Rest(out, k)
      /\ UNCHANGED <<state, accepted, downs>>
  BY DEF WriteOut
<1>3. /\ accepted \in Nat /\ out \in Seq(Nat) /\ wire \in Seq(Nat)
      /\ InOrder(wire, out, accepted)
      /\ Len(out) \in Nat /\ Len(wire) \in Nat
  BY LenProperties DEF CoreTypes, StreamInv
<1>4. /\ First(out, k) \in Seq(Nat) /\ Len(First(out, k)) = k
      /\ Rest(out, k) \in Seq(Nat) /\ Len(Rest(out, k)) = Len(out) - k
  BY <1>3, SplitIs
<1>5. InOrder(wire', out', accepted')
  BY <1>2, <1>3, WritingKeepsOrder
<1>6. out' # << >> <=> k # Len(out)
  <2>1. out' \in Seq(Nat) /\ Len(out') = Len(out) - k
    BY <1>2, <1>4
  <2>2. Len(out') = 0 <=> k = Len(out)
    BY <1>3, <2>1
  <2> QED
    BY <2>1, <2>2, EmptyIs
<1>7. "W" \in events' <=> out' # << >>
  <2>1. CASE k = Len(out)
    BY <1>6, <2>1 DEF WriteOut
  <2>2. CASE k # Len(out)
    BY <1>6, <2>2 DEF WriteOut
  <2> QED
    BY <2>1, <2>2
<1>8. ChannelFollowsState'
  BY <1>2, <1>7 DEF StreamInv, ChannelFollowsState, WriteInterest, DownOnce
<1>9. Len(wire') = Len(wire) + k
  BY <1>2, <1>3, <1>4, ConcatIs
<1>10. fin => out' = << >> /\ wire' = wire
  <2> SUFFICES ASSUME fin PROVE out' = << >> /\ wire' = wire
    OBVIOUS
  <2>1. out = << >>
    BY DEF StreamInv
  <2>2. Len(out) = 0
    BY <2>1
  <2>3. k = 0
    BY <2>2
  <2>4. First(out, k) = << >>
    BY <1>4, <2>3, EmptyIs
  <2>5. wire' = wire
    BY <1>2, <1>3, <2>4, ConcatEmptySeq
  <2> QED
    BY <1>6, <2>2, <2>3, <2>5
<1>11. InOrder(wire, out, accepted)'
  BY <1>5 DEF InOrder
<1>12. StreamInv'
  BY <1>2, <1>8, <1>10, <1>11 DEF StreamInv
<1>13. CASE fin
  BY <1>2, <1>10, <1>12, <1>13 DEF StreamStep, Stream!vars
<1>14. CASE ~fin
  <2>1. accepted <= accepted' /\ Len(wire) <= Len(wire')
    BY <1>2, <1>3, <1>9
  <2> QED
    BY <1>1, <1>2, <1>5, <1>12, <1>14, <2>1, TransferStep
<1> QED
  BY <1>2, <1>12, <1>13, <1>14

\* The initial state has the invariant and is one of ByteStream.
LEMMA StreamInit == Init => StreamInv /\ FreshInv /\ Stream!Init
<1> SUFFICES ASSUME Init PROVE StreamInv /\ FreshInv /\ Stream!Init
  OBVIOUS
<1>1. ChannelFollowsState
  BY DEF Init, ChannelFollowsState, WriteInterest, DownOnce
<1>2. InOrder(wire, out, accepted)
  <2>1. wire = << >> /\ out = << >> /\ accepted = 0
    BY DEF Init
  <2>2. Len(wire) = 0 /\ Len(out) = 0
    BY <2>1
  <2> QED
    BY <2>1, <2>2 DEF InOrder
<1>3. StreamInv /\ FreshInv
  BY <1>1, <1>2 DEF Init, StreamInv, FreshInv
<1>4. Stream!Init
  BY DEF Init, Stream!Init
<1> QED
  BY <1>3, <1>4

\* A step that leaves the connection itself alone.
LEMMA OtherStep ==
  ASSUME StreamInv, UNCHANGED <<state, events, sending, fin, downs>>
  PROVE  StreamInv' /\ StreamStep
<1>1. UNCHANGED <<state, events, out, wire, accepted, fin, downs>>
  BY DEF sending
<1>2. StreamInv'
  BY <1>1 DEF StreamInv, ChannelFollowsState, WriteInterest, DownOnce, InOrder
<1> QED
  BY <1>1, <1>2 DEF StreamStep, Stream!vars

\* Every step keeps the invariant and is one of ByteStream, or none.
LEMMA StreamNext ==
  TypeOK /\ StreamInv /\ FreshInv /\ [Next]_vars
    => StreamInv' /\ FreshInv' /\ StreamStep
<1> SUFFICES ASSUME CoreTypes, OtherTypes, StreamInv, FreshInv, [Next]_vars
             PROVE  StreamInv' /\ FreshInv' /\ StreamStep
  BY TypesAre
<1>1. CASE ConnectEstablished
  <2>1. /\ state = "kConnecting" /\ state' = "kConnected" /\ events' = {"R"}
        /\ UNCHANGED <<out, wire, accepted, fin, downs>>
    BY <1>1 DEF ConnectEstablished, sending
  <2>2. out = << >>
    BY <2>1 DEF FreshInv
  <2>3. ChannelFollowsState'
    BY <2>1, <2>2 DEF StreamInv, ChannelFollowsState, WriteInterest, DownOnce
  <2>4. InOrder(wire, out, accepted)' /\ ~fin
    BY <2>1 DEF StreamInv, InOrder
  <2>5. StreamInv'
    BY <2>1, <2>3, <2>4 DEF StreamInv
  <2> QED
    BY <2>1, <2>5 DEF FreshInv, StreamStep, Stream!vars
<1>2. ASSUME UNCHANGED <<state, events, sending, fin, downs>>,
             state = "kConnecting" => UNCHANGED <<posted, pc>>
      PROVE  StreamInv' /\ FreshInv' /\ StreamStep
  BY <1>2, OtherStep DEF FreshInv, sending
<1>3. CASE Poll
  <2>1. state # "kConnecting"
    BY <1>3 DEF Poll, FreshInv
  <2> QED
    BY <1>2, <1>3, <2>1 DEF Poll
<1>4. CASE Dispatch
  <2>1. state # "kConnecting"
    BY <1>4 DEF Dispatch, HandleRead, MessageDone, HandleWrite, WriteDone,
                HandleErrorOrHup, DispatchDone, FreshInv
  <2>2. CASE UNCHANGED <<state, events, sending, fin, downs>>
    BY <1>2, <2>1, <2>2
  <2>3. ASSUME HandleClose, UNCHANGED <<sending, fin>>
        PROVE  StreamInv' /\ FreshInv' /\ StreamStep
    BY <2>1, <2>3, CloseStep DEF FreshInv
  <2>4. CASE HandleRead
    BY <2>2, <2>3, <2>4 DEF HandleRead
  <2>5. CASE HandleWrite
    <3>1. ASSUME state # "kDisconnected", NEW k \in 0 .. Len(out), WriteOut(k),
                 UNCHANGED fin
          PROVE  StreamInv' /\ FreshInv' /\ StreamStep
      BY <2>1, <3>1, WriteOutStep DEF FreshInv
    <3> QED
      BY <2>2, <2>3, <2>5, <3>1 DEF HandleWrite
  <2>6. CASE WriteDone
    <3>1. CASE state = "kDisconnecting"
      BY <2>1, <2>6, <3>1, ShutdownStep DEF WriteDone, FreshInv
    <3>2. CASE state # "kDisconnecting"
      BY <2>2, <2>6, <3>2 DEF WriteDone
    <3> QED
      BY <3>1, <3>2
  <2>7. CASE HandleErrorOrHup
    BY <2>3, <2>7 DEF HandleErrorOrHup
  <2>8. CASE MessageDone \/ DispatchDone
    BY <2>2, <2>8 DEF MessageDone, DispatchDone
  <2> QED
    BY <1>4, <2>4, <2>5, <2>6, <2>7, <2>8 DEF Dispatch
<1>5. CASE RunPosted
  <2>1. state # "kConnecting"
    BY <1>5 DEF RunPosted, FreshInv
  <2>2. Head(posted) \in {"send", "shutdown", "forceClose"}
    BY <1>5, HeadTailProperties DEF RunPosted, OtherTypes
  <2>3. CASE SendInLoop(1) /\ UNCHANGED fin
    BY <2>1, <2>3, SendStep DEF FreshInv
  <2>4. CASE ShutdownInLoop /\ UNCHANGED <<sending, downs>>
    BY <2>1, <2>4, ShutdownStep DEF FreshInv
  <2>5. CASE HandleClose /\ UNCHANGED <<sending, fin>>
    BY <2>1, <2>5, CloseStep DEF FreshInv
  <2> QED
    BY <1>5, <2>2, <2>3, <2>4, <2>5 DEF RunPosted
<1>6. ASSUME NEW n \in 1 .. MaxBytes, UserSend(n)
      PROVE  StreamInv' /\ FreshInv' /\ StreamStep
  <2>1. n \in Nat \ {0}
    BY ConnectionAssumption
  <2>2. state # "kConnecting" /\ SendInLoop(n) /\ UNCHANGED fin
    BY <1>6 DEF UserSend, InLoopCall
  <2> QED
    BY <2>1, <2>2, SendStep DEF FreshInv
<1>7. CASE UserShutdown
  BY <1>7, ShutdownStep DEF UserShutdown, InLoopCall, FreshInv
<1>8. CASE UserForceClose
  BY <1>8, CloseStep DEF UserForceClose, InLoopCall, FreshInv
<1>9. ASSUME NEW call \in {"send", "shutdown", "forceClose"}, Post(call)
      PROVE  StreamInv' /\ FreshInv' /\ StreamStep
  BY <1>2, <1>9 DEF Post
<1>10. CASE PeerSend \/ PeerFin \/ PeerReset
  BY <1>2, <1>10 DEF PeerSend, PeerFin, PeerReset, userSide
<1>11. CASE UNCHANGED vars
  BY <1>2, <1>11 DEF vars, sending
<1> QED
  BY <1>1, <1>3, <1>4, <1>5, <1>6, <1>7, <1>8, <1>9, <1>10, <1>11 DEF Next

\* The channel asks for write events exactly while output waits, and for none
\* once the connection is down, which it goes once: whatever the peer, the
\* callbacks and other threads do.
THEOREM ChannelIsRight == Spec => []ChannelFollowsState
<1>1. StreamInv => ChannelFollowsState
  BY DEF StreamInv
<1> QED
  BY <1>1, TypeInit, TypeNext, StreamInit, StreamNext, PTL DEF Spec

\* The connection is a ByteStream: what sendInLoop has accepted goes out in
\* order and once, and the end of the stream after the last of it.
THEOREM ConnectionIsByteStream == Spec => ImplementsByteStream
BY TypeInit, TypeNext, StreamInit, StreamNext, PTL
   DEF Spec, ImplementsByteStream, Stream!Spec, StreamStep
=============================================================================
