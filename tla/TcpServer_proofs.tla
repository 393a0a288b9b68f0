--------------------------- MODULE TcpServer_proofs ---------------------------
(***************************************************************************)
(* Proofs about TcpServer, for any number of connections, descriptors and  *)
(* loops: wherever the server keeps a connection, it is there when used,   *)
(* and a connection that is down is torn down by one functor at a time.    *)
(***************************************************************************)
EXTENDS TcpServer, FiniteSetTheorems, SequenceTheorems, TLAPS

FunctorType == [op : {"establish", "remove", "destroy", "call"}, conn : Conn]

\* The connection has been given to the user.
Announced == {"kConnected", "kDisconnected"}

\* The places of the functors that have not run, and the functor at a place.
QueuePlaces ==
  {p \in Loop \X {"queue"} \X Nat : p[3] \in 1 .. Len(queue[p[1]])}
BatchPlaces ==
  {p \in Loop \X {"batch"} \X Nat : p[3] \in pos[p[1]] + 1 .. Len(batch[p[1]])}
Places == QueuePlaces \cup BatchPlaces

FunctorAt(p) == IF p[2] = "queue" THEN queue[p[1]][p[3]] ELSE batch[p[1]][p[3]]

-----------------------------------------------------------------------------
(* The inductive invariant *)

\* What a functor that waits on loop l says of its connection: how far it has
\* come, that it runs where the connection lives, or for "remove" on the base
\* loop, and who still keeps it.
FunctorFits(f, l) ==
  /\ f.op = "establish" => state[f.conn] = "kConnecting" /\ l = loop[f.conn]
  /\ f.op = "remove" =>
       /\ state[f.conn] = "kDisconnected" /\ l = Base
       /\ f.conn \in connections /\ f.conn \in channels[loop[f.conn]]
  /\ f.op = "destroy" =>
       /\ state[f.conn] = "kDisconnected" /\ l = loop[f.conn]
       /\ f.conn \in channels[l]
  /\ f.op = "call" => state[f.conn] \in Announced /\ l = loop[f.conn]

FunctorsFit == \A p \in Places : FunctorFits(FunctorAt(p), p[1])

\* A connection has one functor of the server at a time.
OneEach ==
  \A p, q \in Places :
    /\ FunctorAt(p).op # "call" /\ FunctorAt(q).op # "call"
    /\ FunctorAt(p).conn = FunctorAt(q).conn
    => p = q

\* One that is down and still registered has a teardown ahead.
TeardownAhead ==
  \A c \in Conn :
    state[c] = "kDisconnected" /\ c \in channels[loop[c]] =>
      \E p \in Places : IsTeardown(FunctorAt(p), c)

FunctorsInv == FunctorsFit /\ OneEach /\ TeardownAhead

\* What the stage of a connection says of who keeps it and where it is
\* registered.
StageOf(c) ==
  /\ ups[c] = IF state[c] \in Announced THEN 1 ELSE 0
  /\ downs[c] = IF state[c] = "kDisconnected" THEN 1 ELSE 0
  /\ state[c] = "none" => c \notin connections
  /\ state[c] \in {"kConnecting", "kConnected"} => c \in connections
  /\ state[c] = "kConnected" => c \in channels[loop[c]]
  /\ \A l \in Loop :
       /\ c \in channels[l] => l = loop[c] /\ state[c] \in Announced
       /\ c \in epoll[l] => c \in channels[l]

StageInv == \A c \in Conn : StageOf(c)

ConnTypes ==
  /\ state \in [Conn -> {"none", "kConnecting", "kConnected", "kDisconnected"}]
  /\ fd \in [Conn -> Fds \cup {None}] /\ loop \in [Conn -> Loop]
  /\ connections \subseteq Conn
  /\ status \in [Conn -> {"kNew", "kAdded", "kDeleted"}]
  /\ channels \in [Loop -> SUBSET Conn] /\ epoll \in [Loop -> SUBSET Conn]
  /\ ups \in [Conn -> 0 .. 1] /\ downs \in [Conn -> 0 .. 1]

\* A loop dispatches only while it has the results of its poll, which are
\* registered, and holds a batch only while it runs it.
LoopsInv ==
  /\ lpc \in [Loop -> {"poll", "dispatch", "run"}]
  /\ active \in [Loop -> SUBSET (Conn \cup {Accept})]
  /\ \A l \in Loop : active[l] # {} => lpc[l] = "dispatch"
  /\ \A l \in Loop : active[l] \ {Accept} \subseteq channels[l]

QueuesInv ==
  /\ queue \in [Loop -> Seq(FunctorType)] /\ batch \in [Loop -> Seq(FunctorType)]
  /\ pos \in [Loop -> Nat]
  /\ \A l \in Loop : pos[l] <= Len(batch[l])
  /\ \A l \in Loop : lpc[l] # "run" => batch[l] = <<>>

AcceptorTypes ==
  /\ pool \subseteq Loop
  /\ clients \in Nat /\ clients <= Clients
  /\ backlog \in Nat /\ backlog <= clients
  /\ idleFd \in BOOLEAN

\* A thread that holds a connection holds one that was announced.
ThreadInv ==
  /\ user \in Conn \cup {None}
  /\ upc \in {"idle", "hold", "push", "pushed", "over"}
  /\ upc \in {"hold", "push", "pushed"} =>
       user \in Conn /\ state[user] \in Announced

ServerInv ==
  /\ ConnTypes /\ StageInv /\ LoopsInv /\ QueuesInv /\ FunctorsInv
  /\ AcceptorTypes /\ ThreadInv

-----------------------------------------------------------------------------
(* The places of functors *)

\* Functors leave the places in G and f arrives at those in N.
Moves(G, N, f) ==
  /\ Places' = (Places \ G) \cup N
  /\ \A p \in Places \ G : FunctorAt(p)' = FunctorAt(p)
  /\ \A p \in N : FunctorAt(p)' = f /\ p \notin Places

NewPlace(l) == <<l, "queue", Len(queue[l]) + 1>>
RunPlace(l) == <<l, "batch", pos[l] + 1>>

\* A place, part by part.
LEMMA PlaceParts ==
  ASSUME NEW p \in Places
  PROVE  /\ p = <<p[1], p[2], p[3]>>
         /\ p[1] \in Loop /\ p[2] \in {"queue", "batch"} /\ p[3] \in Nat
         /\ p \in QueuePlaces <=> p[2] = "queue"
         /\ p \in BatchPlaces <=> p[2] = "batch"
BY DEF Places, QueuePlaces, BatchPlaces

\* What is at a place is a functor.
LEMMA PlaceType ==
  ASSUME QueuesInv, NEW p \in Places
  PROVE  FunctorAt(p) \in FunctorType
<1>1. CASE p[2] = "queue"
  <2>1. queue[p[1]] \in Seq(FunctorType) /\ p[3] \in 1 .. Len(queue[p[1]])
    BY <1>1, PlaceParts DEF QueuePlaces, QueuesInv
  <2> QED
    BY <1>1, <2>1, ElementOfSeq DEF FunctorAt
<1>2. CASE p[2] = "batch"
  <2>1. /\ batch[p[1]] \in Seq(FunctorType)
        /\ p[3] \in pos[p[1]] + 1 .. Len(batch[p[1]]) /\ pos[p[1]] \in Nat
    BY <1>2, PlaceParts DEF BatchPlaces, QueuesInv
  <2>2. p[3] \in 1 .. Len(batch[p[1]])
    BY <2>1
  <2> QED
    BY <1>2, <2>1, <2>2, ElementOfSeq DEF FunctorAt
<1> QED
  BY <1>1, <1>2, PlaceParts

\* What queueInLoop does to the queues.
LEMMA QueueGrows ==
  ASSUME QueuesInv, NEW l \in Loop, NEW f \in FunctorType, QueueInLoop(l, f)
  PROVE  /\ queue' \in [Loop -> Seq(FunctorType)]
         /\ QueuePlaces' = QueuePlaces \cup {NewPlace(l)}
         /\ NewPlace(l) \notin Places
         /\ \A p \in QueuePlaces : FunctorAt(p)' = FunctorAt(p)
         /\ \A p \in {NewPlace(l)} : FunctorAt(p)' = f
<1> DEFINE n == Len(queue[l])
           longer == Append(queue[l], f)
<1>1. queue[l] \in Seq(FunctorType) /\ n \in Nat
  BY LenProperties DEF QueuesInv
<1>2. /\ longer \in Seq(FunctorType)
      /\ Len(longer) = n + 1
      /\ \A i \in 1 .. n : longer[i] = queue[l][i]
      /\ longer[n + 1] = f
  BY <1>1, AppendProperties
<1>3. \A k \in Loop : queue'[k] = IF k = l THEN longer ELSE queue[k]
  BY DEF QueueInLoop, QueuesInv
<1>4. queue' \in [Loop -> Seq(FunctorType)]
  BY <1>2 DEF QueueInLoop, QueuesInv
<1> HIDE DEF longer
<1>5. \A k \in Loop, i \in Nat :
        i \in 1 .. Len(queue'[k]) <=>
          i \in 1 .. Len(queue[k]) \/ (k = l /\ i = n + 1)
  <2>1. \A i \in Nat : i \in 1 .. n + 1 <=> i \in 1 .. n \/ i = n + 1
    BY <1>1
  <2> QED
    BY <1>2, <1>3, <2>1
<1>6. QueuePlaces' = QueuePlaces \cup {NewPlace(l)}
  <2>1. \A p \in Loop \X {"queue"} \X Nat :
          p \in QueuePlaces' <=> p \in QueuePlaces \/ p = NewPlace(l)
    BY <1>1, <1>5 DEF QueuePlaces, NewPlace
  <2>2. NewPlace(l) \in Loop \X {"queue"} \X Nat
    BY <1>1 DEF NewPlace
  <2> QED
    BY <2>1, <2>2 DEF QueuePlaces
<1>7. ASSUME NEW p \in QueuePlaces
      PROVE  FunctorAt(p)' = FunctorAt(p)
  <2>1. p[2] = "queue" /\ p[1] \in Loop /\ p[3] \in 1 .. Len(queue[p[1]])
    BY DEF QueuePlaces
  <2>2. queue'[p[1]][p[3]] = queue[p[1]][p[3]]
    BY <1>2, <1>3, <2>1
  <2> QED
    BY <2>1, <2>2 DEF FunctorAt
<1>8. ASSUME NEW p \in {NewPlace(l)}
      PROVE  FunctorAt(p)' = f /\ p \notin Places
  <2>1. p[1] = l /\ p[2] = "queue" /\ p[3] = n + 1
    BY DEF NewPlace
  <2>2. FunctorAt(p)' = f
    BY <2>1, <1>2, <1>3 DEF FunctorAt
  <2>3. n + 1 \notin 1 .. n
    BY <1>1
  <2> QED
    BY <2>1, <2>2, <2>3 DEF Places, QueuePlaces, BatchPlaces
<1> QED
  BY <1>4, <1>6, <1>7, <1>8

\* Queues that are left alone.
LEMMA QueueKept ==
  ASSUME UNCHANGED queue
  PROVE  /\ QueuePlaces' = QueuePlaces
         /\ \A p \in QueuePlaces : FunctorAt(p)' = FunctorAt(p)
BY DEF QueuePlaces, FunctorAt

\* Batches that are left alone.
LEMMA BatchKept ==
  ASSUME UNCHANGED <<batch, pos>>
  PROVE  /\ BatchPlaces' = BatchPlaces
         /\ \A p \in BatchPlaces : FunctorAt(p)' = FunctorAt(p)
BY DEF BatchPlaces, FunctorAt

\* A functor is taken from a batch.
LEMMA BatchSteps ==
  ASSUME QueuesInv, NEW l \in Loop, pos[l] < Len(batch[l]),
         pos' = [pos EXCEPT ![l] = @ + 1], UNCHANGED batch
  PROVE  /\ RunPlace(l) \in BatchPlaces /\ FunctorAt(RunPlace(l)) = NextFunctor(l)
         /\ BatchPlaces' = BatchPlaces \ {RunPlace(l)}
         /\ \A p \in BatchPlaces : FunctorAt(p)' = FunctorAt(p)
         /\ pos' \in [Loop -> Nat]
         /\ \A k \in Loop : pos'[k] <= Len(batch'[k])
<1>1. /\ pos[l] \in Nat /\ Len(batch[l]) \in Nat
      /\ \A k \in Loop : pos'[k] = IF k = l THEN pos[l] + 1 ELSE pos[k]
      /\ \A k \in Loop : pos[k] \in Nat /\ Len(batch[k]) \in Nat
  BY LenProperties DEF QueuesInv
<1>2. RunPlace(l) \in Loop \X {"batch"} \X Nat
  BY <1>1 DEF RunPlace
<1>3. RunPlace(l) \in BatchPlaces /\ FunctorAt(RunPlace(l)) = NextFunctor(l)
  BY <1>1, <1>2 DEF BatchPlaces, RunPlace, FunctorAt, NextFunctor
<1>4. BatchPlaces' = BatchPlaces \ {RunPlace(l)}
  <2>1. \A p \in Loop \X {"batch"} \X Nat :
          p[3] \in pos'[p[1]] + 1 .. Len(batch[p[1]]) <=>
            p[3] \in pos[p[1]] + 1 .. Len(batch[p[1]]) /\ p # RunPlace(l)
    BY <1>1 DEF RunPlace
  <2> QED
    BY <2>1 DEF BatchPlaces
<1>5. \A p \in BatchPlaces : FunctorAt(p)' = FunctorAt(p)
  BY DEF BatchPlaces, FunctorAt
<1>6. pos' \in [Loop -> Nat] /\ \A k \in Loop : pos'[k] <= Len(batch'[k])
  BY <1>1 DEF QueuesInv
<1> QED
  BY <1>3, <1>4, <1>5, <1>6

-----------------------------------------------------------------------------
(* What becomes of the functors *)

\* Nothing moves, and what functors are judged by stays.
LEMMA FunctorsKept ==
  ASSUME FunctorsInv,
         UNCHANGED <<state, loop, connections, channels, queue, batch, pos>>
  PROVE  FunctorsInv'
<1>1. Places' = Places /\ \A p \in Places : FunctorAt(p)' = FunctorAt(p)
  BY QueueKept, BatchKept DEF Places
<1>2. \A g, k : FunctorFits(g, k)' <=> FunctorFits(g, k)
  BY DEF FunctorFits, Announced
<1>3. FunctorsFit' /\ OneEach'
  BY <1>1, <1>2 DEF FunctorsInv, FunctorsFit, OneEach
<1>4. TeardownAhead'
  BY <1>1 DEF FunctorsInv, TeardownAhead, IsTeardown
<1> QED
  BY <1>3, <1>4 DEF FunctorsInv

\* Functors of send, shutdown and forceClose come and go.
LEMMA CallsMove ==
  ASSUME QueuesInv, FunctorsInv,
         NEW G \in SUBSET Places, NEW N, NEW f \in FunctorType, Moves(G, N, f),
         \A p \in G : FunctorAt(p).op = "call", f.op = "call",
         \A p \in N : FunctorFits(f, p[1]),
         UNCHANGED <<state, loop, connections, channels>>
  PROVE  FunctorsInv'
<1> DEFINE Here == Places \ G
<1>1. /\ Places' = Here \cup N
      /\ \A p \in Here : FunctorAt(p)' = FunctorAt(p)
      /\ \A p \in N : FunctorAt(p)' = f
  BY DEF Moves
<1>2. \A g, k : FunctorFits(g, k)' <=> FunctorFits(g, k)
  BY DEF FunctorFits, Announced
<1>3. FunctorsFit'
  BY <1>1, <1>2 DEF FunctorsInv, FunctorsFit
<1>4. OneEach'
  BY <1>1 DEF FunctorsInv, OneEach
<1>5. TeardownAhead'
  BY <1>1 DEF FunctorsInv, TeardownAhead, IsTeardown
<1> QED
  BY <1>3, <1>4, <1>5 DEF FunctorsInv

\* A step in the life of connection c, which leaves the others alone: what
\* waits for c, apart from what goes, are calls.
LEMMA OwnFunctorsMove ==
  ASSUME QueuesInv, FunctorsInv, NEW c \in Conn,
         NEW G \in SUBSET Places, NEW N, NEW f \in FunctorType, Moves(G, N, f),
         \A p \in G : FunctorAt(p).conn = c, f.conn = c,
         \A d \in Conn \ {c} :
           /\ state'[d] = state[d] /\ loop'[d] = loop[d]
           /\ d \in connections' <=> d \in connections
           /\ \A l \in Loop : d \in channels'[l] <=> d \in channels[l],
         loop \in [Conn -> Loop],
         \A p \in Places \ G : FunctorAt(p).conn = c => FunctorAt(p).op = "call",
         \/ \A p \in Places \ G : FunctorAt(p).conn # c
         \/ state'[c] \in Announced /\ loop'[c] = loop[c],
         \A p \in N : FunctorFits(f, p[1])',
         \A p, q \in N : p = q,
         state'[c] = "kDisconnected" /\ c \in channels'[loop'[c]] =>
           N # {} /\ IsTeardown(f, c)
  PROVE  FunctorsInv'
<1> DEFINE Here == Places \ G
<1>1. /\ Places' = Here \cup N
      /\ \A p \in Here : FunctorAt(p)' = FunctorAt(p)
      /\ \A p \in N : FunctorAt(p)' = f
  BY DEF Moves
<1>2. \A p \in Places : FunctorAt(p) \in FunctorType /\ p[1] \in Loop
  BY PlaceType, PlaceParts
<1>3. ASSUME NEW g \in FunctorType, NEW k \in Loop, g.conn # c, FunctorFits(g, k)
      PROVE  FunctorFits(g, k)'
  BY <1>3 DEF FunctorFits, FunctorType, Announced
<1>4. ASSUME NEW p \in Here
      PROVE  FunctorFits(FunctorAt(p), p[1])'
  <2>1. FunctorFits(FunctorAt(p), p[1])
    BY DEF FunctorsInv, FunctorsFit
  <2>2. CASE FunctorAt(p).conn # c
    BY <1>1, <1>2, <1>3, <2>1, <2>2
  <2>3. CASE FunctorAt(p).conn = c
    BY <1>1, <2>1, <2>3 DEF FunctorFits, Announced
  <2> QED
    BY <2>2, <2>3
<1>5. FunctorsFit'
  BY <1>1, <1>4 DEF FunctorsFit
<1>6. OneEach'
  BY <1>1 DEF FunctorsInv, OneEach
<1>7. ASSUME NEW d \in Conn, state'[d] = "kDisconnected", d \in channels'[loop'[d]]
      PROVE  \E p \in Places' : IsTeardown(FunctorAt(p), d)'
  <2>1. CASE d = c
    BY <1>1, <1>7, <2>1 DEF IsTeardown
  <2>2. CASE d # c
    <3>1. PICK p \in Places : IsTeardown(FunctorAt(p), d)
      BY <1>7, <2>2 DEF FunctorsInv, TeardownAhead
    <3> QED
      BY <1>1, <2>2, <3>1 DEF IsTeardown
  <2> QED
    BY <2>1, <2>2
<1>8. TeardownAhead'
  BY <1>7 DEF TeardownAhead
<1> QED
  BY <1>5, <1>6, <1>8 DEF FunctorsInv

\* What waits for a connection: nothing before it is accepted, only calls
\* while it is kConnected, at most one functor of the server, and beside
\* connectEstablished nothing.
LEMMA WaitingFunctors ==
  ASSUME QueuesInv, FunctorsInv, NEW c \in Conn
  PROVE  \A p \in Places : FunctorAt(p).conn = c =>
           /\ state[c] = "kConnected" => FunctorAt(p).op = "call"
           /\ state[c] # "none"
           /\ FunctorAt(p).op # "call" =>
                \A q \in Places : FunctorAt(q).conn = c /\ q # p =>
                                    FunctorAt(q).op = "call"
           /\ FunctorAt(p).op = "establish" =>
                \A q \in Places : FunctorAt(q).conn = c => q = p
<1> SUFFICES ASSUME NEW p \in Places, FunctorAt(p).conn = c
    PROVE  /\ state[c] = "kConnected" => FunctorAt(p).op = "call"
           /\ state[c] # "none"
           /\ FunctorAt(p).op # "call" =>
                \A q \in Places : FunctorAt(q).conn = c /\ q # p =>
                                    FunctorAt(q).op = "call"
           /\ FunctorAt(p).op = "establish" =>
                \A q \in Places : FunctorAt(q).conn = c => q = p
  OBVIOUS
<1>1. FunctorFits(FunctorAt(p), p[1])
  BY DEF FunctorsInv, FunctorsFit
<1>2. FunctorAt(p).op \in {"establish", "remove", "destroy", "call"}
  BY PlaceType DEF FunctorType
<1>3. FunctorAt(p).op # "call" =>
        \A q \in Places : FunctorAt(q).conn = c /\ q # p => FunctorAt(q).op = "call"
  BY DEF FunctorsInv, OneEach
<1>4. ASSUME FunctorAt(p).op = "establish", NEW q \in Places, FunctorAt(q).conn = c, q # p
      PROVE  FALSE
  <2>1. FunctorAt(q).op = "call" /\ state[c] = "kConnecting"
    BY <1>1, <1>3, <1>4 DEF FunctorFits
  <2>2. FunctorFits(FunctorAt(q), q[1])
    BY DEF FunctorsInv, FunctorsFit
  <2> QED
    BY <1>4, <2>1, <2>2 DEF FunctorFits, Announced
<1> QED
  BY <1>1, <1>2, <1>3, <1>4 DEF FunctorFits, Announced

\* The queue becomes the batch: every functor keeps its loop and its turn.
LEMMA SwapKeeps ==
  ASSUME QueuesInv, FunctorsInv, NEW l \in Loop, batch[l] = <<>>,
         batch' = [batch EXCEPT ![l] = queue[l]],
         queue' = [queue EXCEPT ![l] = <<>>], pos' = [pos EXCEPT ![l] = 0],
         UNCHANGED <<state, loop, connections, channels>>
  PROVE  FunctorsInv'
<1> DEFINE From(p) == IF p[1] = l THEN <<l, "queue", p[3]>> ELSE p
           To(p) == IF p[1] = l THEN <<l, "batch", p[3]>> ELSE p
<1>1. \A k \in Loop : /\ batch'[k] = IF k = l THEN queue[l] ELSE batch[k]
                      /\ queue'[k] = IF k = l THEN <<>> ELSE queue[k]
                      /\ pos'[k] = IF k = l THEN 0 ELSE pos[k]
  BY DEF QueuesInv
<1>2. Len(queue[l]) \in Nat /\ Len(<<>>) = 0 /\ pos[l] \in Nat
  BY LenProperties DEF QueuesInv
<1>3. ASSUME NEW p \in Places'
      PROVE  /\ From(p) \in Places /\ FunctorAt(p)' = FunctorAt(From(p))
             /\ From(p)[1] = p[1] /\ p = To(From(p))
  <2>1. /\ p = <<p[1], p[2], p[3]>> /\ p[1] \in Loop /\ p[3] \in Nat
        /\ \/ p[2] = "queue" /\ p[3] \in 1 .. Len(queue'[p[1]])
           \/ p[2] = "batch" /\ p[3] \in pos'[p[1]] + 1 .. Len(batch'[p[1]])
    BY DEF Places, QueuePlaces, BatchPlaces
  <2>2. CASE p[1] = l
    <3>1. p[2] = "batch" /\ p[3] \in 1 .. Len(queue[l])
      BY <1>1, <1>2, <2>1, <2>2
    <3>2. From(p) = <<l, "queue", p[3]>> /\ From(p) \in Places
      BY <2>1, <2>2, <3>1 DEF Places, QueuePlaces
    <3>3. FunctorAt(p)' = FunctorAt(From(p))
      BY <1>1, <2>2, <3>1, <3>2 DEF FunctorAt
    <3> QED
      BY <2>1, <2>2, <3>1, <3>2, <3>3
  <2>3. CASE p[1] # l
    BY <1>1, <2>1, <2>3 DEF Places, QueuePlaces, BatchPlaces, FunctorAt
  <2> QED
    BY <2>2, <2>3
<1>4. ASSUME NEW q \in Places
      PROVE  \E p \in Places' : FunctorAt(p)' = FunctorAt(q)
  <2>1. /\ q = <<q[1], q[2], q[3]>> /\ q[1] \in Loop /\ q[3] \in Nat
        /\ \/ q[2] = "queue" /\ q[3] \in 1 .. Len(queue[q[1]])
           \/ q[2] = "batch" /\ q[3] \in pos[q[1]] + 1 .. Len(batch[q[1]])
    BY DEF Places, QueuePlaces, BatchPlaces
  <2>2. CASE q[1] = l
    <3>1. q[2] = "queue" /\ q[3] \in 1 .. Len(queue[l])
      BY <1>2, <2>1, <2>2
    <3>2. <<l, "batch", q[3]>> \in Places'
      BY <1>1, <2>1, <3>1 DEF Places, BatchPlaces
    <3>3. FunctorAt(<<l, "batch", q[3]>>)' = FunctorAt(q)
      BY <1>1, <2>2, <3>1 DEF FunctorAt
    <3> QED
      BY <3>2, <3>3
  <2>3. CASE q[1] # l
    BY <1>1, <2>1, <2>3 DEF Places, QueuePlaces, BatchPlaces, FunctorAt
  <2> QED
    BY <2>2, <2>3
<1>5. \A g, k : FunctorFits(g, k)' <=> FunctorFits(g, k)
  BY DEF FunctorFits, Announced
<1> HIDE DEF From, To
<1>6. FunctorsFit'
  BY <1>3, <1>5 DEF FunctorsInv, FunctorsFit
<1>7. OneEach'
  BY <1>3 DEF FunctorsInv, OneEach
<1>8. TeardownAhead'
  BY <1>4 DEF FunctorsInv, TeardownAhead, IsTeardown
<1> QED
  BY <1>6, <1>7, <1>8 DEF FunctorsInv

\* A batch that has run is dropped.
LEMMA DoneKeeps ==
  ASSUME QueuesInv, FunctorsInv, NEW l \in Loop, pos[l] = Len(batch[l]),
         batch' = [batch EXCEPT ![l] = <<>>], pos' = [pos EXCEPT ![l] = 0],
         UNCHANGED <<queue, state, loop, connections, channels>>
  PROVE  FunctorsInv'
<1>1. \A k \in Loop : /\ batch'[k] = IF k = l THEN <<>> ELSE batch[k]
                      /\ pos'[k] = IF k = l THEN 0 ELSE pos[k]
  BY DEF QueuesInv
<1>2. pos[l] \in Nat /\ Len(<<>>) = 0
  BY DEF QueuesInv
<1>3. BatchPlaces' = BatchPlaces
  <2>1. \A p \in Loop \X {"batch"} \X Nat :
          p[3] \in pos'[p[1]] + 1 .. Len(batch'[p[1]]) <=>
            p[3] \in pos[p[1]] + 1 .. Len(batch[p[1]])
    BY <1>1, <1>2
  <2> QED
    BY <2>1 DEF BatchPlaces
<1>4. \A p \in BatchPlaces : FunctorAt(p)' = FunctorAt(p)
  <2>1. \A p \in BatchPlaces : p[1] \in Loop /\ p[2] = "batch" /\ p[1] # l
    BY <1>2 DEF BatchPlaces
  <2> QED
    BY <1>1, <2>1 DEF FunctorAt
<1>5. Places' = Places /\ \A p \in Places : FunctorAt(p)' = FunctorAt(p)
  BY <1>3, <1>4, QueueKept DEF Places
<1>6. \A g, k : FunctorFits(g, k)' <=> FunctorFits(g, k)
  BY DEF FunctorFits, Announced
<1>7. FunctorsFit' /\ OneEach'
  BY <1>5, <1>6 DEF FunctorsInv, FunctorsFit, OneEach
<1>8. TeardownAhead'
  BY <1>5 DEF FunctorsInv, TeardownAhead, IsTeardown
<1> QED
  BY <1>7, <1>8 DEF FunctorsInv

-----------------------------------------------------------------------------
(* The steps in the life of a connection *)

CoreInv == ConnTypes /\ StageInv /\ FunctorsInv

\* The stages of the other connections stay.
LEMMA OneStage ==
  ASSUME ConnTypes, StageInv, NEW c \in Conn, StageOf(c)',
         \A d \in Conn \ {c} :
           /\ state'[d] = state[d] /\ loop'[d] = loop[d]
           /\ ups'[d] = ups[d] /\ downs'[d] = downs[d]
           /\ d \in connections' <=> d \in connections
           /\ \A l \in Loop : /\ d \in channels'[l] <=> d \in channels[l]
                              /\ d \in epoll'[l] <=> d \in epoll[l]
  PROVE  StageInv'
<1> SUFFICES ASSUME NEW d \in Conn \ {c} PROVE StageOf(d)'
  BY DEF StageInv
<1>1. StageOf(d)
  BY DEF StageInv
<1>2. d \in channels'[loop'[d]] <=> d \in channels[loop[d]]
  BY DEF ConnTypes
<1> QED
  BY <1>1, <1>2 DEF StageOf, Announced

CloseFunctor(l, c) == Functor(IF l = Base THEN "destroy" ELSE "remove", c)

\* handleClose queues the next step of the teardown on the base loop.
LEMMA CloseQueues ==
  ASSUME NEW l \in Loop, NEW c \in Conn, loop[c] = l, HandleClose(l, c)
  PROVE  QueueInLoop(Base, CloseFunctor(l, c)) /\ CloseFunctor(l, c) \in FunctorType
BY DEF HandleClose, RemoveConnection, RemoveConnectionInLoop, CloseFunctor, Functor,
       FunctorType

\* handleClose, perhaps from a functor that captures this.
LEMMA Closes ==
  ASSUME QueuesInv, CoreInv, NEW l \in Loop, NEW c \in Conn,
         state[c] = "kConnected", loop[c] = l,
         NEW G \in SUBSET Places, \A p \in G : FunctorAt(p).conn = c,
         Moves(G, {NewPlace(Base)}, CloseFunctor(l, c)),
         HandleClose(l, c), UNCHANGED <<fd, loop>>
  PROVE  CoreInv'
<1>1. /\ state' = [state EXCEPT ![c] = "kDisconnected"]
      /\ status' = [status EXCEPT ![c] = "kDeleted"]
      /\ epoll' = [epoll EXCEPT ![l] = @ \ {c}]
      /\ downs' = [downs EXCEPT ![c] = @ + 1]
      /\ ups' = ups /\ channels' = channels
      /\ connections' = IF l = Base THEN connections \ {c} ELSE connections
  BY DEF HandleClose, DisableAll, RemoveConnection, RemoveConnectionInLoop
<1>2. StageOf(c)
  BY DEF CoreInv, StageInv
<1>3. downs[c] = 0
  BY <1>2 DEF StageOf
<1>4. ConnTypes'
  <2>1. /\ state' \in [Conn -> {"none", "kConnecting", "kConnected", "kDisconnected"}]
        /\ status' \in [Conn -> {"kNew", "kAdded", "kDeleted"}]
        /\ fd' \in [Conn -> Fds \cup {None}] /\ loop' \in [Conn -> Loop]
        /\ ups' \in [Conn -> 0 .. 1]
    BY <1>1 DEF CoreInv, ConnTypes
  <2>2. downs' \in [Conn -> 0 .. 1]
    BY <1>1, <1>3 DEF CoreInv, ConnTypes
  <2>3. /\ connections' \subseteq Conn /\ channels' \in [Loop -> SUBSET Conn]
        /\ epoll' \in [Loop -> SUBSET Conn]
    BY <1>1 DEF CoreInv, ConnTypes
  <2> QED
    BY <2>1, <2>2, <2>3 DEF ConnTypes
<1>5. /\ state'[c] = "kDisconnected" /\ downs'[c] = 1 /\ ups'[c] = 1
      /\ c \in channels'[loop'[c]] /\ (l # Base => c \in connections')
  BY <1>1, <1>2, <1>3 DEF CoreInv, ConnTypes, StageOf, Announced
<1>6. /\ \A d \in Conn \ {c} :
           /\ state'[d] = state[d] /\ loop'[d] = loop[d]
           /\ ups'[d] = ups[d] /\ downs'[d] = downs[d]
           /\ d \in connections' <=> d \in connections
           /\ \A k \in Loop : /\ d \in channels'[k] <=> d \in channels[k]
                              /\ d \in epoll'[k] <=> d \in epoll[k]
      /\ \A k \in Loop : c \in epoll'[k] => c \in epoll[k]
  BY <1>1 DEF CoreInv, ConnTypes
<1>7. StageOf(c)'
  BY <1>1, <1>2, <1>5, <1>6 DEF StageOf, Announced
<1>8. StageInv'
  BY <1>6, <1>7, OneStage DEF CoreInv
<1> DEFINE f == CloseFunctor(l, c)
<1>9. f \in FunctorType /\ f.conn = c /\ IsTeardown(f, c)
  BY DEF CloseFunctor, Functor, FunctorType, IsTeardown
<1>10. FunctorFits(f, Base)'
  BY <1>5 DEF CloseFunctor, Functor, FunctorFits
<1>11. \A p \in {NewPlace(Base)} : p[1] = Base
  BY DEF NewPlace
<1>12. \A p \in Places : FunctorAt(p).conn = c => FunctorAt(p).op = "call"
  BY WaitingFunctors DEF CoreInv
<1> HIDE DEF f
<1>13. Moves(G, {NewPlace(Base)}, f)
  BY DEF f
<1>14. FunctorsInv'
  BY <1>5, <1>6, <1>9, <1>10, <1>11, <1>12, <1>13, OwnFunctorsMove
     DEF CoreInv, ConnTypes, Announced
<1> QED
  BY <1>4, <1>8, <1>14 DEF CoreInv

\* When the server's functor for a connection goes, only calls stay behind.
LEMMA OthersAreCalls ==
  ASSUME QueuesInv, FunctorsInv, NEW c \in Conn, NEW r \in Places,
         FunctorAt(r).conn = c, FunctorAt(r).op # "call"
  PROVE  \A p \in Places \ {r} : FunctorAt(p).conn = c => FunctorAt(p).op = "call"
BY WaitingFunctors

\* connectEstablished, posted to the IO loop by newConnection.
LEMMA Establishes ==
  ASSUME QueuesInv, CoreInv, NEW l \in Loop, NEW c \in Conn,
         NEW r \in Places, FunctorAt(r) = Functor("establish", c), r[1] = l,
         Moves({r}, {}, Functor("establish", c)),
         ConnectEstablished(l, c), UNCHANGED <<fd, loop, connections>>
  PROVE  CoreInv'
<1>1. /\ state' = [state EXCEPT ![c] = "kConnected"]
      /\ status' = [status EXCEPT ![c] = "kAdded"]
      /\ epoll' = [epoll EXCEPT ![l] = @ \cup {c}]
      /\ channels' = [channels EXCEPT ![l] = @ \cup {c}]
      /\ ups' = [ups EXCEPT ![c] = @ + 1] /\ downs' = downs
  BY DEF ConnectEstablished, EnableReading
<1>2. StageOf(c)
  BY DEF CoreInv, StageInv
<1>3. state[c] = "kConnecting" /\ l = loop[c]
  BY DEF CoreInv, FunctorsInv, FunctorsFit, FunctorFits, Functor
<1>4. ups[c] = 0 /\ downs[c] = 0 /\ c \in connections
  BY <1>2, <1>3 DEF StageOf, Announced
<1>5. ConnTypes'
  <2>1. /\ state' \in [Conn -> {"none", "kConnecting", "kConnected", "kDisconnected"}]
        /\ status' \in [Conn -> {"kNew", "kAdded", "kDeleted"}]
        /\ fd' \in [Conn -> Fds \cup {None}] /\ loop' \in [Conn -> Loop]
        /\ downs' \in [Conn -> 0 .. 1]
    BY <1>1 DEF CoreInv, ConnTypes
  <2>2. ups' \in [Conn -> 0 .. 1]
    BY <1>1, <1>4 DEF CoreInv, ConnTypes
  <2>3. /\ connections' \subseteq Conn /\ channels' \in [Loop -> SUBSET Conn]
        /\ epoll' \in [Loop -> SUBSET Conn]
    BY <1>1 DEF CoreInv, ConnTypes
  <2> QED
    BY <2>1, <2>2, <2>3 DEF ConnTypes
<1>6. state'[c] = "kConnected" /\ ups'[c] = 1 /\ downs'[c] = 0 /\ c \in channels'[loop'[c]]
  BY <1>1, <1>3, <1>4 DEF CoreInv, ConnTypes
<1>7. /\ \A d \in Conn \ {c} :
           /\ state'[d] = state[d] /\ loop'[d] = loop[d]
           /\ ups'[d] = ups[d] /\ downs'[d] = downs[d]
           /\ d \in connections' <=> d \in connections
           /\ \A k \in Loop : /\ d \in channels'[k] <=> d \in channels[k]
                              /\ d \in epoll'[k] <=> d \in epoll[k]
      /\ \A k \in Loop : /\ c \in channels'[k] <=> c \in channels[k] \/ k = l
                         /\ c \in epoll'[k] <=> c \in epoll[k] \/ k = l
  BY <1>1 DEF CoreInv, ConnTypes
<1>8. StageOf(c)'
  BY <1>2, <1>3, <1>4, <1>6, <1>7 DEF StageOf, Announced
<1>9. StageInv'
  BY <1>7, <1>8, OneStage DEF CoreInv
<1> DEFINE f == Functor("establish", c)
<1>10. f \in FunctorType /\ f.conn = c /\ f.op # "call"
  BY DEF Functor, FunctorType
<1>11. Moves({r}, {}, f) /\ FunctorAt(r) = f
  OBVIOUS
<1> HIDE DEF f
<1>12. \A p \in Places \ {r} : FunctorAt(p).conn = c => FunctorAt(p).op = "call"
  BY <1>10, <1>11, OthersAreCalls DEF CoreInv
<1> DEFINE N == {}
<1>13. /\ \A p \in {r} : FunctorAt(p).conn = c
       /\ \A p \in N : FunctorFits(f, p[1])'
       /\ \A p, q \in N : p = q
       /\ Moves({r}, N, f) /\ {r} \in SUBSET Places
       /\ state'[c] \in Announced /\ loop'[c] = loop[c] /\ state'[c] # "kDisconnected"
  BY <1>6, <1>10, <1>11 DEF Announced
<1> HIDE DEF N
<1>14. FunctorsInv'
  BY <1>7, <1>10, <1>11, <1>12, <1>13, OwnFunctorsMove DEF CoreInv, ConnTypes
<1> QED
  BY <1>5, <1>9, <1>14 DEF CoreInv

\* removeConnectionInLoop, posted to the base loop by removeConnection.
LEMMA Removes ==
  ASSUME QueuesInv, CoreInv, NEW c \in Conn,
         NEW r \in Places, FunctorAt(r) = Functor("remove", c),
         Moves({r}, {NewPlace(loop[c])}, Functor("destroy", c)),
         RemoveConnectionInLoop(c),
         UNCHANGED <<state, fd, loop, registration, calls>>
  PROVE  CoreInv'
<1>1. connections' = connections \ {c} /\ channels' = channels
  BY DEF RemoveConnectionInLoop, registration
<1>2. StageOf(c) /\ loop[c] \in Loop
  BY DEF CoreInv, StageInv, ConnTypes
<1>3. state[c] = "kDisconnected" /\ c \in channels[loop[c]]
  BY DEF CoreInv, FunctorsInv, FunctorsFit, FunctorFits, Functor
<1>4. ConnTypes'
  BY <1>1 DEF CoreInv, ConnTypes, registration, calls
<1>5. StageInv'
  BY <1>1, <1>3 DEF CoreInv, StageInv, StageOf, registration, calls, Announced
<1> DEFINE f == Functor("destroy", c)
<1>6. f \in FunctorType /\ f.conn = c /\ IsTeardown(f, c)
  BY DEF Functor, FunctorType, IsTeardown
<1>7. FunctorFits(f, loop[c])'
  BY <1>1, <1>3 DEF FunctorFits, Functor
<1>8. \A p \in {NewPlace(loop[c])} : p[1] = loop[c]
  BY DEF NewPlace
<1>9. \A p \in {NewPlace(loop[c])} : FunctorFits(f, p[1])'
  BY <1>7, <1>8 DEF FunctorFits
<1>10. FunctorAt(r).conn = c /\ FunctorAt(r).op # "call"
  BY DEF Functor
<1>11. Moves({r}, {NewPlace(loop[c])}, f)
  OBVIOUS
<1> HIDE DEF f
<1>12. \A p \in Places \ {r} : FunctorAt(p).conn = c => FunctorAt(p).op = "call"
  BY <1>10, OthersAreCalls DEF CoreInv
<1>13. FunctorsInv'
  BY <1>1, <1>3, <1>6, <1>9, <1>10, <1>11, <1>12, OwnFunctorsMove
     DEF CoreInv, ConnTypes, Announced, registration
<1> QED
  BY <1>4, <1>5, <1>13 DEF CoreInv

\* connectDestroyed, on the connection's loop.
LEMMA Destroys ==
  ASSUME QueuesInv, CoreInv, NEW l \in Loop, NEW c \in Conn,
         NEW r \in Places, FunctorAt(r) = Functor("destroy", c), r[1] = l,
         Moves({r}, {}, Functor("destroy", c)),
         ConnectDestroyed(l, c), UNCHANGED <<fd, loop, connections>>
  PROVE  CoreInv'
<1>1. /\ state' = [state EXCEPT ![c] = "kDisconnected"]
      /\ status' = [status EXCEPT ![c] = "kNew"]
      /\ epoll' = [epoll EXCEPT ![l] = @ \ {c}]
      /\ channels' = [channels EXCEPT ![l] = @ \ {c}]
      /\ ups' = ups /\ downs' = downs
  BY DEF ConnectDestroyed, RemoveChannel, calls
<1>2. StageOf(c)
  BY DEF CoreInv, StageInv
<1>3. state[c] = "kDisconnected" /\ l = loop[c]
  BY DEF CoreInv, FunctorsInv, FunctorsFit, FunctorFits, Functor
<1>4. ConnTypes'
  <2>1. /\ state' \in [Conn -> {"none", "kConnecting", "kConnected", "kDisconnected"}]
        /\ status' \in [Conn -> {"kNew", "kAdded", "kDeleted"}]
        /\ fd' \in [Conn -> Fds \cup {None}] /\ loop' \in [Conn -> Loop]
        /\ downs' \in [Conn -> 0 .. 1] /\ ups' \in [Conn -> 0 .. 1]
    BY <1>1 DEF CoreInv, ConnTypes
  <2>2. /\ connections' \subseteq Conn /\ channels' \in [Loop -> SUBSET Conn]
        /\ epoll' \in [Loop -> SUBSET Conn]
    BY <1>1 DEF CoreInv, ConnTypes
  <2> QED
    BY <2>1, <2>2 DEF ConnTypes
<1>5. /\ \A d \in Conn \ {c} :
           /\ state'[d] = state[d] /\ loop'[d] = loop[d]
           /\ ups'[d] = ups[d] /\ downs'[d] = downs[d]
           /\ d \in connections' <=> d \in connections
           /\ \A k \in Loop : /\ d \in channels'[k] <=> d \in channels[k]
                              /\ d \in epoll'[k] <=> d \in epoll[k]
      /\ \A k \in Loop : /\ c \in channels'[k] <=> c \in channels[k] /\ k # l
                         /\ c \in epoll'[k] <=> c \in epoll[k] /\ k # l
      /\ state'[c] = "kDisconnected" /\ loop'[c] = l /\ l \in Loop
  BY <1>1, <1>3 DEF CoreInv, ConnTypes
<1>6. StageOf(c)'
  BY <1>1, <1>2, <1>3, <1>5 DEF StageOf, Announced
<1>7. StageInv'
  BY <1>5, <1>6, OneStage DEF CoreInv
<1> DEFINE f == Functor("destroy", c)
<1>8. f \in FunctorType /\ f.conn = c /\ f.op # "call"
  BY DEF Functor, FunctorType
<1>9. Moves({r}, {}, f) /\ FunctorAt(r) = f
  OBVIOUS
<1> HIDE DEF f
<1>10. \A p \in Places \ {r} : FunctorAt(p).conn = c => FunctorAt(p).op = "call"
  BY <1>8, <1>9, OthersAreCalls DEF CoreInv
<1> DEFINE N == {}
<1>11. /\ \A p \in {r} : FunctorAt(p).conn = c
       /\ \A p \in N : FunctorFits(f, p[1])'
       /\ \A p, q \in N : p = q
       /\ Moves({r}, N, f) /\ {r} \in SUBSET Places
       /\ state'[c] \in Announced /\ loop'[c] = loop[c] /\ c \notin channels'[loop'[c]]
  BY <1>3, <1>5, <1>8, <1>9 DEF Announced
<1> HIDE DEF N
<1>12. FunctorsInv'
  BY <1>5, <1>8, <1>9, <1>10, <1>11, OwnFunctorsMove DEF CoreInv, ConnTypes
<1> QED
  BY <1>4, <1>7, <1>12 DEF CoreInv

\* newConnection on the base loop: the connection is established at once.
LEMMA AcceptsHere ==
  ASSUME QueuesInv, CoreInv, NEW l \in Loop, NEW c \in Conn, state[c] = "none",
         NEW x \in Fds, fd' = [fd EXCEPT ![c] = x],
         loop' = [loop EXCEPT ![c] = l], connections' = connections \cup {c},
         ConnectEstablished(l, c), UNCHANGED <<queue, batch, pos>>
  PROVE  CoreInv'
<1>1. /\ state' = [state EXCEPT ![c] = "kConnected"]
      /\ status' = [status EXCEPT ![c] = "kAdded"]
      /\ epoll' = [epoll EXCEPT ![l] = @ \cup {c}]
      /\ channels' = [channels EXCEPT ![l] = @ \cup {c}]
      /\ ups' = [ups EXCEPT ![c] = @ + 1] /\ downs' = downs
  BY DEF ConnectEstablished, EnableReading
<1>2. StageOf(c)
  BY DEF CoreInv, StageInv
<1>3. ups[c] = 0 /\ downs[c] = 0 /\ \A k \in Loop : c \notin channels[k] /\ c \notin epoll[k]
  BY <1>2 DEF StageOf, Announced
<1>4. ConnTypes'
  <2>1. /\ state' \in [Conn -> {"none", "kConnecting", "kConnected", "kDisconnected"}]
        /\ status' \in [Conn -> {"kNew", "kAdded", "kDeleted"}]
        /\ fd' \in [Conn -> Fds \cup {None}] /\ loop' \in [Conn -> Loop]
        /\ downs' \in [Conn -> 0 .. 1]
    BY <1>1 DEF CoreInv, ConnTypes
  <2>2. ups' \in [Conn -> 0 .. 1]
    BY <1>1, <1>3 DEF CoreInv, ConnTypes
  <2>3. /\ connections' \subseteq Conn /\ channels' \in [Loop -> SUBSET Conn]
        /\ epoll' \in [Loop -> SUBSET Conn]
    BY <1>1 DEF CoreInv, ConnTypes
  <2> QED
    BY <2>1, <2>2, <2>3 DEF ConnTypes
<1>5. /\ state'[c] = "kConnected" /\ ups'[c] = 1 /\ downs'[c] = 0
      /\ loop'[c] = l /\ c \in channels'[loop'[c]] /\ c \in connections'
  BY <1>1, <1>3 DEF CoreInv, ConnTypes
<1>6. /\ \A d \in Conn \ {c} :
           /\ state'[d] = state[d] /\ loop'[d] = loop[d]
           /\ ups'[d] = ups[d] /\ downs'[d] = downs[d]
           /\ d \in connections' <=> d \in connections
           /\ \A k \in Loop : /\ d \in channels'[k] <=> d \in channels[k]
                              /\ d \in epoll'[k] <=> d \in epoll[k]
      /\ \A k \in Loop : /\ c \in channels'[k] <=> k = l
                         /\ c \in epoll'[k] <=> k = l
  BY <1>1, <1>3 DEF CoreInv, ConnTypes
<1>7. StageOf(c)'
  BY <1>5, <1>6 DEF StageOf, Announced
<1>8. StageInv'
  BY <1>6, <1>7, OneStage DEF CoreInv
<1> DEFINE f == Functor("call", c)
           N == {}
<1>9. f \in FunctorType /\ f.conn = c
  BY DEF Functor, FunctorType
<1>10. /\ \A p \in N : FunctorAt(p).conn = c /\ FunctorFits(f, p[1])'
       /\ \A p, q \in N : p = q
       /\ Moves(N, N, f) /\ N \in SUBSET Places
  BY QueueKept, BatchKept DEF Moves, Places
<1>11. \A p \in Places \ N : FunctorAt(p).conn # c
  BY WaitingFunctors DEF CoreInv
<1> HIDE DEF f, N
<1>12. /\ \A p \in Places \ N : FunctorAt(p).conn = c => FunctorAt(p).op = "call"
       /\ \A p \in N : FunctorAt(p).conn = c
       /\ \A p \in N : FunctorFits(f, p[1])'
       /\ state'[c] # "kDisconnected" /\ loop \in [Conn -> Loop]
  BY <1>5, <1>10, <1>11 DEF CoreInv, ConnTypes
<1>13. FunctorsInv'
  BY <1>6, <1>9, <1>10, <1>11, <1>12, OwnFunctorsMove DEF CoreInv
<1> QED
  BY <1>4, <1>8, <1>13 DEF CoreInv

\* newConnection for another loop: connectEstablished is posted to it.
LEMMA AcceptsThere ==
  ASSUME QueuesInv, CoreInv, NEW l \in Loop, NEW c \in Conn, state[c] = "none",
         NEW x \in Fds, fd' = [fd EXCEPT ![c] = x],
         loop' = [loop EXCEPT ![c] = l], connections' = connections \cup {c},
         state' = [state EXCEPT ![c] = "kConnecting"],
         Moves({}, {NewPlace(l)}, Functor("establish", c)),
         UNCHANGED <<registration, calls>>
  PROVE  CoreInv'
<1>1. UNCHANGED <<status, channels, epoll, ups, downs>>
  BY DEF registration, calls
<1>2. StageOf(c)
  BY DEF CoreInv, StageInv
<1>3. ups[c] = 0 /\ downs[c] = 0 /\ \A k \in Loop : c \notin channels[k] /\ c \notin epoll[k]
  BY <1>2 DEF StageOf, Announced
<1>4. ConnTypes'
  BY <1>1 DEF CoreInv, ConnTypes
<1>5. state'[c] = "kConnecting" /\ loop'[c] = l /\ c \in connections'
  BY DEF CoreInv, ConnTypes
<1>6. \A d \in Conn \ {c} :
           /\ state'[d] = state[d] /\ loop'[d] = loop[d]
           /\ ups'[d] = ups[d] /\ downs'[d] = downs[d]
           /\ d \in connections' <=> d \in connections
           /\ \A k \in Loop : /\ d \in channels'[k] <=> d \in channels[k]
                              /\ d \in epoll'[k] <=> d \in epoll[k]
  BY <1>1 DEF CoreInv, ConnTypes
<1>7. StageOf(c)'
  BY <1>1, <1>3, <1>5 DEF StageOf, Announced
<1>8. StageInv'
  BY <1>6, <1>7, OneStage DEF CoreInv
<1> DEFINE f == Functor("establish", c)
           G == {}
<1>9. f \in FunctorType /\ f.conn = c /\ FunctorFits(f, l)'
  BY <1>5 DEF Functor, FunctorType, FunctorFits
<1>10. \A p \in {NewPlace(l)} : p[1] = l
  BY DEF NewPlace
<1>11. \A p \in {NewPlace(l)} : FunctorFits(f, p[1])'
  BY <1>9, <1>10 DEF FunctorFits
<1>12. /\ \A p \in G : FunctorAt(p).conn = c
       /\ Moves(G, {NewPlace(l)}, f) /\ G \in SUBSET Places
  OBVIOUS
<1>13. \A p \in Places \ G : FunctorAt(p).conn # c
  BY WaitingFunctors DEF CoreInv
<1> HIDE DEF f, G
<1>14. /\ \A p \in Places \ G : FunctorAt(p).conn = c => FunctorAt(p).op = "call"
       /\ state'[c] # "kDisconnected" /\ loop \in [Conn -> Loop]
       /\ \A p, q \in {NewPlace(l)} : p = q
  BY <1>5, <1>13 DEF CoreInv, ConnTypes
<1>15. FunctorsInv'
  BY <1>6, <1>9, <1>11, <1>12, <1>13, <1>14, OwnFunctorsMove DEF CoreInv
<1> QED
  BY <1>4, <1>8, <1>15 DEF CoreInv

-----------------------------------------------------------------------------
(* The steps keep the invariant *)

\* A connection that has been announced stays announced.
StaysAnnounced ==
  \A c \in Conn : state[c] \in Announced => state'[c] \in Announced

\* A thread that does nothing keeps what it knows.
LEMMA ThreadKept ==
  ASSUME ThreadInv, UNCHANGED thread, StaysAnnounced
  PROVE  ThreadInv'
BY DEF ThreadInv, thread, StaysAnnounced, Announced

\* Connections and functors that are left alone.
LEMMA CoreKept ==
  ASSUME CoreInv, UNCHANGED <<state, fd, loop, connections, registration, calls,
                              queue, batch, pos>>
  PROVE  CoreInv'
<1>1. ConnTypes' /\ StageInv'
  BY DEF CoreInv, ConnTypes, StageInv, StageOf, registration, calls, Announced
<1>2. FunctorsInv'
  BY FunctorsKept DEF CoreInv, registration
<1> QED
  BY <1>1, <1>2 DEF CoreInv

\* A poll finds what is registered.
LEMMA PollStep ==
  ASSUME ServerInv, NEW l \in Loop, Poll(l)
  PROVE  ServerInv'
<1> USE DEF Poll, shape, acceptor, registration, thread, calls
<1>1. CoreInv'
  BY CoreKept DEF ServerInv, CoreInv
<1>2. LoopsInv'
  <2>1. \A c \in Conn : c \in epoll[l] => c \in channels[l]
    BY DEF ServerInv, StageInv, StageOf
  <2>2. epoll[l] \subseteq Conn
    BY DEF ServerInv, ConnTypes
  <2>3. PICK ready \in SUBSET {c \in epoll[l] : Alive(c)} :
          active' = [active EXCEPT ![l] =
                       IF l = Base /\ backlog > 0 THEN ready \cup {Accept} ELSE ready]
    OBVIOUS
  <2>4. ready \subseteq Conn /\ ready \subseteq channels[l]
    BY <2>1, <2>2
  <2>5. active' \in [Loop -> SUBSET (Conn \cup {Accept})]
    BY <2>3, <2>4 DEF ServerInv, LoopsInv
  <2>6. \A k \in Loop :
          /\ active'[k] \ {Accept} \subseteq channels'[k]
          /\ active'[k] # {} => lpc'[k] = "dispatch"
    BY <2>3, <2>4 DEF ServerInv, LoopsInv
  <2>7. lpc' \in [Loop -> {"poll", "dispatch", "run"}]
    BY DEF ServerInv, LoopsInv
  <2> QED
    BY <2>5, <2>6, <2>7 DEF LoopsInv
<1>3. QueuesInv'
  BY DEF ServerInv, QueuesInv, LoopsInv
<1>4. ThreadInv' /\ AcceptorTypes'
  BY DEF ServerInv, ThreadInv, AcceptorTypes, Announced
<1> QED
  BY <1>1, <1>2, <1>3, <1>4 DEF ServerInv, CoreInv

\* Steps of clients and of the acceptor that reach no connection.
LEMMA AcceptorSteps ==
  ASSUME ServerInv, Connect \/ NewConnectionFails \/ AcceptFull \/ AcceptDone
  PROVE  ServerInv'
<1> USE DEF Connect, NewConnectionFails, AcceptFull, AcceptDone, shape, acceptor,
            registration, loops, thread, calls
<1>1. CoreInv'
  BY CoreKept DEF ServerInv, CoreInv
<1>2. LoopsInv'
  <2>1. CASE UNCHANGED <<active, channels, lpc>>
    BY <2>1 DEF ServerInv, LoopsInv
  <2>2. CASE AcceptDone
    <3>1. Base \in Loop
      BY DEF Loop
    <3>2. active' \in [Loop -> SUBSET (Conn \cup {Accept})]
      BY <2>2, <3>1 DEF ServerInv, LoopsInv
    <3>3. \A k \in Loop : active'[k] \subseteq active[k]
      BY <2>2 DEF ServerInv, LoopsInv
    <3> QED
      BY <2>2, <3>2, <3>3 DEF ServerInv, LoopsInv
  <2> QED
    BY <2>1, <2>2
<1>3. QueuesInv'
  BY DEF ServerInv, QueuesInv
<1>4. ThreadInv'
  BY DEF ServerInv, ThreadInv, Announced
<1>5. AcceptorTypes'
  <2>1. /\ pool' \subseteq Loop
        /\ clients' \in Nat /\ clients' <= Clients
        /\ backlog' \in Nat /\ backlog' <= clients'
    BY ServerAssumption DEF ServerInv, AcceptorTypes
  <2>2. idleFd' \in BOOLEAN
    BY DEF ServerInv, AcceptorTypes
  <2> QED
    BY <2>1, <2>2 DEF AcceptorTypes
<1> QED
  BY <1>1, <1>2, <1>3, <1>4, <1>5 DEF ServerInv, CoreInv

\* A loop swaps out what is queued.
LEMMA SwapStep ==
  ASSUME ServerInv, NEW l \in Loop, SwapPending(l)
  PROVE  ServerInv'
<1> USE DEF SwapPending, shape, acceptor, registration, thread, calls
<1>1. CoreInv'
  <2>1. ConnTypes' /\ StageInv'
    BY DEF ServerInv, ConnTypes, StageInv, StageOf, Announced
  <2>2. batch[l] = <<>>
    BY DEF ServerInv, QueuesInv
  <2>3. FunctorsInv'
    BY <2>2, SwapKeeps DEF ServerInv
  <2> QED
    BY <2>1, <2>3 DEF CoreInv
<1>2. LoopsInv'
  BY DEF ServerInv, LoopsInv
<1>3. QueuesInv'
  <2>1. <<>> \in Seq(FunctorType) /\ queue[l] \in Seq(FunctorType)
        /\ Len(queue[l]) \in Nat
    BY LenProperties, EmptySeq DEF ServerInv, QueuesInv
  <2>2. /\ queue' \in [Loop -> Seq(FunctorType)] /\ batch' \in [Loop -> Seq(FunctorType)]
        /\ pos' \in [Loop -> Nat]
    BY <2>1 DEF ServerInv, QueuesInv
  <2>3. \A k \in Loop : /\ pos'[k] <= Len(batch'[k])
                        /\ lpc'[k] # "run" => batch'[k] = <<>>
    BY <2>1 DEF ServerInv, QueuesInv, LoopsInv
  <2> QED
    BY <2>2, <2>3 DEF QueuesInv
<1>4. ThreadInv' /\ AcceptorTypes'
  BY DEF ServerInv, ThreadInv, AcceptorTypes, Announced
<1> QED
  BY <1>1, <1>2, <1>3, <1>4 DEF ServerInv, CoreInv

\* A loop is done with a batch.
LEMMA DoneStep ==
  ASSUME ServerInv, NEW l \in Loop, BatchDone(l)
  PROVE  ServerInv'
<1> USE DEF BatchDone, shape, acceptor, registration, thread, calls
<1>1. CoreInv'
  <2>1. ConnTypes' /\ StageInv'
    BY DEF ServerInv, ConnTypes, StageInv, StageOf, Announced
  <2>2. FunctorsInv'
    BY DoneKeeps DEF ServerInv
  <2> QED
    BY <2>1, <2>2 DEF CoreInv
<1>2. LoopsInv'
  BY DEF ServerInv, LoopsInv
<1>3. QueuesInv'
  <2>1. <<>> \in Seq(FunctorType) /\ Len(<<>>) = 0
    BY EmptySeq
  <2>2. /\ batch' \in [Loop -> Seq(FunctorType)] /\ pos' \in [Loop -> Nat]
    BY <2>1 DEF ServerInv, QueuesInv
  <2>3. \A k \in Loop : /\ pos'[k] <= Len(batch'[k])
                        /\ lpc'[k] # "run" => batch'[k] = <<>>
    BY <2>1 DEF ServerInv, QueuesInv, LoopsInv
  <2> QED
    BY <2>2, <2>3 DEF ServerInv, QueuesInv
<1>4. ThreadInv' /\ AcceptorTypes'
  BY DEF ServerInv, ThreadInv, AcceptorTypes, Announced
<1> QED
  BY <1>1, <1>2, <1>3, <1>4 DEF ServerInv, CoreInv

\* A loop that goes on with what it was dispatching.
LEMMA LoopsStep ==
  ASSUME LoopsInv, UNCHANGED lpc,
         active' \in [Loop -> SUBSET (Conn \cup {Accept})],
         \A k \in Loop : active'[k] \subseteq active[k],
         \A k \in Loop : active[k] = {} \/ channels[k] \subseteq channels'[k]
  PROVE  LoopsInv'
BY DEF LoopsInv

\* What queueInLoop leaves of the queues' types.
LEMMA QueuesStep ==
  ASSUME QueuesInv, queue' \in [Loop -> Seq(FunctorType)], UNCHANGED <<batch, pos, lpc>>
  PROVE  QueuesInv'
BY DEF QueuesInv

\* queueInLoop, when no functor is taken.
LEMMA QueueMoves ==
  ASSUME QueuesInv, NEW l \in Loop, NEW f \in FunctorType, QueueInLoop(l, f),
         UNCHANGED <<batch, pos>>
  PROVE  Moves({}, {NewPlace(l)}, f) /\ queue' \in [Loop -> Seq(FunctorType)]
BY QueueGrows, BatchKept DEF Moves, Places

\* newConnection.
LEMMA NewConnectionStep ==
  ASSUME ServerInv, NEW c \in Conn, NewConnection(c)
  PROVE  ServerInv'
<1>1. PICK x \in FreeFds, l \in pool :
        /\ fd' = [fd EXCEPT ![c] = x]
        /\ loop' = [loop EXCEPT ![c] = l]
        /\ connections' = connections \cup {c}
        /\ IF l = Base
           THEN ConnectEstablished(l, c) /\ UNCHANGED queue
           ELSE /\ state' = [state EXCEPT ![c] = "kConnecting"]
                /\ QueueInLoop(l, Functor("establish", c))
                /\ UNCHANGED <<registration, calls>>
  BY DEF NewConnection
<1>2. /\ state[c] = "none" /\ backlog > 0 /\ backlog' = backlog - 1
      /\ UNCHANGED <<pool, clients, idleFd, lpc, active, batch, pos, user, upc>>
  BY DEF NewConnection, loops, thread
<1>3. l \in Loop /\ x \in Fds
  BY DEF ServerInv, AcceptorTypes, FreeFds
<1>4. QueuesInv /\ CoreInv
  BY DEF ServerInv, CoreInv
<1>5. /\ CoreInv' /\ queue' \in [Loop -> Seq(FunctorType)]
      /\ \A k \in Loop : channels[k] \subseteq channels'[k]
  <2>1. CASE l = Base
    <3>1. CoreInv'
      BY <1>1, <1>2, <1>3, <1>4, <2>1, AcceptsHere
    <3>2. \A k \in Loop : channels[k] \subseteq channels'[k]
      BY <1>1, <2>1 DEF ConnectEstablished, EnableReading, ServerInv, ConnTypes
    <3> QED
      BY <1>1, <2>1, <3>1, <3>2 DEF ServerInv, QueuesInv
  <2>2. CASE l # Base
    <3>1. Functor("establish", c) \in FunctorType
      BY DEF Functor, FunctorType
    <3>2. /\ Moves({}, {NewPlace(l)}, Functor("establish", c))
          /\ queue' \in [Loop -> Seq(FunctorType)]
      BY <1>1, <1>2, <1>3, <1>4, <2>2, <3>1, QueueMoves
    <3>3. CoreInv'
      BY <1>1, <1>2, <1>3, <1>4, <2>2, <3>2, AcceptsThere
    <3> QED
      BY <1>1, <2>2, <3>2, <3>3 DEF registration
  <2> QED
    BY <2>1, <2>2
<1>6. LoopsInv' /\ QueuesInv'
  BY <1>2, <1>5, LoopsStep, QueuesStep DEF ServerInv, LoopsInv
<1>7. StaysAnnounced
  BY <1>1, <1>2 DEF StaysAnnounced, ConnectEstablished, ServerInv, ConnTypes, Announced
<1>8. ThreadInv'
  BY <1>2, <1>7, ThreadKept DEF ServerInv, thread
<1>9. AcceptorTypes'
  BY <1>2 DEF ServerInv, AcceptorTypes
<1> QED
  BY <1>5, <1>6, <1>8, <1>9 DEF ServerInv, CoreInv

\* handleClose, outside of the functors.
LEMMA CloseStep ==
  ASSUME ServerInv, NEW l \in Loop, NEW c \in Conn,
         state[c] = "kConnected", loop[c] = l, HandleClose(l, c),
         active' \in [Loop -> SUBSET (Conn \cup {Accept})],
         \A k \in Loop : active'[k] \subseteq active[k],
         UNCHANGED <<shape, acceptor, lpc, batch, pos, thread>>
  PROVE  ServerInv'
<1>1. QueuesInv /\ CoreInv /\ Base \in Loop
  BY DEF ServerInv, CoreInv, Loop
<1>2. UNCHANGED <<pool, fd, loop, backlog, clients, idleFd, user, upc>>
  BY DEF shape, acceptor, thread
<1>3. /\ Moves({}, {NewPlace(Base)}, CloseFunctor(l, c))
      /\ queue' \in [Loop -> Seq(FunctorType)]
  BY <1>1, CloseQueues, QueueMoves
<1>4. CoreInv'
  <2> DEFINE G == {}
  <2>1. G \in SUBSET Places /\ \A p \in G : FunctorAt(p).conn = c
    OBVIOUS
  <2>2. Moves(G, {NewPlace(Base)}, CloseFunctor(l, c))
    BY <1>3
  <2> HIDE DEF G
  <2> QED
    BY <1>1, <1>2, <2>1, <2>2, Closes
<1>5. UNCHANGED channels /\ StaysAnnounced
  BY DEF HandleClose, DisableAll, StaysAnnounced, ServerInv, ConnTypes, Announced
<1>6. LoopsInv' /\ QueuesInv'
  BY <1>3, <1>5, LoopsStep, QueuesStep DEF ServerInv
<1>7. ThreadInv'
  BY <1>5, ThreadKept DEF ServerInv
<1>8. AcceptorTypes'
  BY <1>2 DEF ServerInv, AcceptorTypes
<1> QED
  BY <1>4, <1>6, <1>7, <1>8 DEF ServerInv, CoreInv

\* forceClose from a callback of the same loop.
LEMMA ForceCloseStep ==
  ASSUME ServerInv, NEW l \in Loop, NEW c \in Conn, ForceClose(l, c)
  PROVE  ServerInv'
<1>1. UNCHANGED <<lpc, active, batch, pos>>
  BY DEF ForceClose, loops
<1> QED
  BY <1>1, CloseStep DEF ForceClose, ServerInv, LoopsInv

\* An event of a connection is handled.
LEMMA HandleEventStep ==
  ASSUME ServerInv, NEW l \in Loop, NEW c \in Conn, HandleEvent(l, c)
  PROVE  ServerInv'
<1>1. /\ active' \in [Loop -> SUBSET (Conn \cup {Accept})]
      /\ \A k \in Loop : active'[k] \subseteq active[k]
  BY DEF HandleEvent, ServerInv, LoopsInv
<1>2. c \in channels[l]
  BY DEF HandleEvent, ServerInv, LoopsInv
<1>3. loop[c] = l /\ state[c] \in Announced
  BY <1>2 DEF ServerInv, StageInv, StageOf
<1>4. CASE UNCHANGED <<state, registration, connections, queue, calls>>
  <2>1. CoreInv'
    BY <1>4, CoreKept DEF HandleEvent, ServerInv, CoreInv, shape
  <2>2. LoopsInv' /\ QueuesInv'
    BY <1>1, <1>4, LoopsStep, QueuesStep
       DEF HandleEvent, ServerInv, registration, QueuesInv
  <2>3. ThreadInv' /\ AcceptorTypes'
    BY <1>4 DEF HandleEvent, ServerInv, ThreadInv, AcceptorTypes, Announced, shape,
                acceptor, thread
  <2> QED
    BY <2>1, <2>2, <2>3 DEF ServerInv, CoreInv
<1>5. CASE state[c] # "kDisconnected" /\ Alive(c) /\ HandleClose(l, c)
  BY <1>1, <1>3, <1>5, CloseStep DEF HandleEvent, Announced
<1> QED
  BY <1>4, <1>5 DEF HandleEvent

\* A functor is taken, and perhaps one queued.
LEMMA RunMoves ==
  ASSUME QueuesInv, NEW l \in Loop, pos[l] < Len(batch[l]),
         pos' = [pos EXCEPT ![l] = @ + 1], UNCHANGED batch
  PROVE  /\ RunPlace(l) \in Places /\ RunPlace(l)[1] = l
         /\ FunctorAt(RunPlace(l)) = NextFunctor(l)
         /\ UNCHANGED queue => \A f : Moves({RunPlace(l)}, {}, f)
         /\ \A k \in Loop, f \in FunctorType :
              QueueInLoop(k, f) =>
                /\ Moves({RunPlace(l)}, {NewPlace(k)}, f)
                /\ queue' \in [Loop -> Seq(FunctorType)]
<1>1. /\ RunPlace(l) \in BatchPlaces /\ FunctorAt(RunPlace(l)) = NextFunctor(l)
      /\ BatchPlaces' = BatchPlaces \ {RunPlace(l)}
      /\ \A p \in BatchPlaces : FunctorAt(p)' = FunctorAt(p)
  BY BatchSteps
<1>2. RunPlace(l)[1] = l /\ RunPlace(l) \notin QueuePlaces
  BY DEF RunPlace, QueuePlaces
<1>3. UNCHANGED queue => \A f : Moves({RunPlace(l)}, {}, f)
  BY <1>1, <1>2, QueueKept DEF Moves, Places
<1>4. ASSUME NEW k \in Loop, NEW f \in FunctorType, QueueInLoop(k, f)
      PROVE  /\ Moves({RunPlace(l)}, {NewPlace(k)}, f)
             /\ queue' \in [Loop -> Seq(FunctorType)]
  BY <1>1, <1>2, <1>4, QueueGrows DEF Moves, Places
<1> QED
  BY <1>1, <1>2, <1>3, <1>4 DEF Places

\* A functor of the batch runs.
LEMMA RunFunctorStep ==
  ASSUME ServerInv, NEW l \in Loop, RunFunctor(l)
  PROVE  ServerInv'
<1> DEFINE f == NextFunctor(l)
           c == f.conn
           r == RunPlace(l)
<1>1. /\ lpc[l] = "run" /\ pos[l] < Len(batch[l])
      /\ pos' = [pos EXCEPT ![l] = @ + 1]
      /\ UNCHANGED <<pool, fd, loop, backlog, clients, idleFd, lpc, active, batch,
                     user, upc>>
  BY DEF RunFunctor, shape, acceptor, thread
<1>2. QueuesInv /\ CoreInv /\ Base \in Loop
  BY DEF ServerInv, CoreInv, Loop
<1>3. /\ r \in Places /\ r[1] = l /\ FunctorAt(r) = f
      /\ UNCHANGED queue => \A g : Moves({r}, {}, g)
      /\ \A k \in Loop, g \in FunctorType :
           QueueInLoop(k, g) =>
             /\ Moves({r}, {NewPlace(k)}, g)
             /\ queue' \in [Loop -> Seq(FunctorType)]
  BY <1>1, <1>2, RunMoves
<1>4. f \in FunctorType /\ c \in Conn /\ FunctorFits(f, l)
  BY <1>2, <1>3, PlaceType DEF FunctorType, CoreInv, FunctorsInv, FunctorsFit
<1>5. \/ f.op = "establish" /\ ConnectEstablished(l, c) /\ UNCHANGED <<connections, queue>>
      \/ /\ f.op = "remove" /\ RemoveConnectionInLoop(c)
         /\ UNCHANGED <<state, registration, calls>>
      \/ f.op = "destroy" /\ ConnectDestroyed(l, c) /\ UNCHANGED <<connections, queue>>
      \/ f.op = "call" /\ UNCHANGED <<state, registration, connections, queue, calls>>
      \/ f.op = "call" /\ state[c] # "kDisconnected" /\ HandleClose(l, c)
  BY DEF RunFunctor
<1>6. f = Functor(f.op, c)
  BY <1>4 DEF FunctorType, Functor
<1> HIDE DEF f, c, r
<1>7. /\ CoreInv' /\ StaysAnnounced /\ queue' \in [Loop -> Seq(FunctorType)]
      /\ \A k \in Loop : k = l \/ channels[k] \subseteq channels'[k]
  <2>1. CASE f.op = "establish" /\ ConnectEstablished(l, c)
             /\ UNCHANGED <<connections, queue>>
    <3>1. CoreInv'
      BY <1>1, <1>2, <1>3, <1>4, <1>6, <2>1, Establishes
    <3> QED
      BY <1>4, <2>1, <3>1 DEF ConnectEstablished, EnableReading, StaysAnnounced, Announced,
                       ServerInv, ConnTypes, QueuesInv
  <2>2. CASE f.op = "remove" /\ RemoveConnectionInLoop(c)
             /\ UNCHANGED <<state, registration, calls>>
    <3>1. loop[c] \in Loop /\ Functor("destroy", c) \in FunctorType
      BY <1>4 DEF ServerInv, ConnTypes, Functor, FunctorType
    <3>2. /\ Moves({r}, {NewPlace(loop[c])}, Functor("destroy", c))
          /\ queue' \in [Loop -> Seq(FunctorType)]
      BY <1>3, <2>2, <3>1 DEF RemoveConnectionInLoop
    <3>3. CoreInv'
      BY <1>1, <1>2, <1>3, <1>4, <1>6, <2>2, <3>2, Removes
    <3> QED
      BY <2>2, <3>2, <3>3 DEF StaysAnnounced, registration
  <2>3. CASE f.op = "destroy" /\ ConnectDestroyed(l, c)
             /\ UNCHANGED <<connections, queue>>
    <3>1. CoreInv'
      BY <1>1, <1>2, <1>3, <1>4, <1>6, <2>3, Destroys
    <3> QED
      BY <1>4, <2>3, <3>1 DEF ConnectDestroyed, RemoveChannel, StaysAnnounced, Announced,
                       ServerInv, ConnTypes, QueuesInv
  <2>4. CASE f.op = "call" /\ UNCHANGED <<state, registration, connections, queue, calls>>
    <3>1. CoreInv'
      <4> DEFINE N == {}
      <4>1. FunctorsInv'
        <5>1. /\ \A p \in N : FunctorFits(f, p[1])
              /\ Moves({r}, N, f) /\ {r} \in SUBSET Places
              /\ \A p \in {r} : FunctorAt(p).op = "call"
          BY <1>3, <2>4
        <5> HIDE DEF N
        <5> QED
          BY <1>1, <1>2, <1>4, <2>4, <5>1, CallsMove DEF CoreInv, registration
      <4>2. ConnTypes' /\ StageInv'
        BY <1>1, <1>2, <2>4 DEF CoreInv, ConnTypes, StageInv, StageOf, Announced,
                                registration, calls
      <4> QED
        BY <4>1, <4>2 DEF CoreInv
    <3> QED
      BY <1>2, <2>4, <3>1 DEF StaysAnnounced, registration, QueuesInv
  <2>5. CASE f.op = "call" /\ state[c] # "kDisconnected" /\ HandleClose(l, c)
    <3>1. state[c] = "kConnected" /\ loop[c] = l
      BY <1>4, <2>5 DEF c, FunctorFits, Announced
    <3>2. /\ Moves({r}, {NewPlace(Base)}, CloseFunctor(l, c))
          /\ queue' \in [Loop -> Seq(FunctorType)]
      BY <1>2, <1>3, <1>4, <2>5, <3>1, CloseQueues
    <3>3. {r} \in SUBSET Places /\ \A p \in {r} : FunctorAt(p).conn = c
      BY <1>3 DEF c
    <3>4. CoreInv'
      BY <1>1, <1>2, <1>4, <2>5, <3>1, <3>2, <3>3, Closes
    <3> QED
      BY <1>4, <2>5, <3>2, <3>4 DEF HandleClose, DisableAll, StaysAnnounced, Announced,
                                    ServerInv, ConnTypes
  <2> QED
    BY <1>5, <2>1, <2>2, <2>3, <2>4, <2>5
<1>8. LoopsInv'
  <2>1. active[l] = {}
    BY <1>1 DEF ServerInv, LoopsInv
  <2> QED
    BY <1>1, <1>7, <2>1, LoopsStep DEF ServerInv, LoopsInv
<1>9. QueuesInv'
  <2>1. pos' \in [Loop -> Nat] /\ \A k \in Loop : pos'[k] <= Len(batch'[k])
    BY <1>1, <1>2, BatchSteps
  <2> QED
    BY <1>1, <1>2, <1>7, <2>1 DEF QueuesInv
<1>10. ThreadInv'
  BY <1>1, <1>7, ThreadKept DEF ServerInv, thread
<1>11. AcceptorTypes'
  BY <1>1 DEF ServerInv, AcceptorTypes
<1> QED
  BY <1>7, <1>8, <1>9, <1>10, <1>11 DEF ServerInv, CoreInv

\* The steps of a thread that holds a connection.
LEMMA UserStep ==
  ASSUME ServerInv,
         (\E c \in Conn : UserHold(c)) \/ UserCheck \/ UserPush \/ UserRelease
  PROVE  ServerInv'
<1>1. UNCHANGED <<state, shape, acceptor, connections, registration, loops, calls>>
  BY DEF UserHold, UserCheck, UserPush, UserRelease
<1>2. ThreadInv'
  <2>1. CASE \E c \in Conn : UserHold(c)
    <3>1. PICK c \in Conn : UserHold(c)
      BY <2>1
    <3>2. state[c] \in Announced
      BY <3>1 DEF ServerInv, StageInv, StageOf, UserHold
    <3> QED
      BY <3>1, <3>2 DEF UserHold, ThreadInv, Announced
  <2>2. CASE UserCheck \/ UserPush \/ UserRelease
    BY <1>1, <2>2 DEF UserCheck, UserPush, UserRelease, ServerInv, ThreadInv, Announced
  <2> QED
    BY <2>1, <2>2
<1>3. CASE UserPush
  <2> DEFINE f == Functor("call", user)
             l == loop[user]
             G == {}
  <2>1. user \in Conn /\ state[user] \in Announced
    BY <1>3 DEF UserPush, ServerInv, ThreadInv
  <2>2. f \in FunctorType /\ f.op = "call" /\ l \in Loop /\ FunctorFits(f, l)
    BY <2>1 DEF Functor, FunctorType, FunctorFits, ServerInv, ConnTypes
  <2>3. Moves(G, {NewPlace(l)}, f) /\ queue' \in [Loop -> Seq(FunctorType)]
    BY <1>1, <1>3, <2>2, QueueMoves DEF UserPush, ServerInv, loops
  <2>4. /\ \A p \in {NewPlace(l)} : p[1] = l
        /\ G \in SUBSET Places /\ \A p \in G : FunctorAt(p).op = "call"
    BY DEF NewPlace
  <2> HIDE DEF f, l, G
  <2>5. FunctorsInv'
    BY <1>1, <2>2, <2>3, <2>4, CallsMove DEF ServerInv, shape, registration
  <2>6. CoreInv'
    BY <1>1, <2>5 DEF ServerInv, CoreInv, ConnTypes, StageInv, StageOf, Announced, shape,
                      registration, calls
  <2> QED
    BY <1>1, <1>2, <2>3, <2>6, QueuesStep DEF ServerInv, CoreInv, LoopsInv, AcceptorTypes,
                      shape, acceptor, registration, loops
<1>4. CASE UNCHANGED queue
  <2>1. CoreInv'
    BY <1>1, <1>4, CoreKept DEF ServerInv, CoreInv, shape, loops
  <2> QED
    BY <1>1, <1>2, <1>4, <2>1 DEF ServerInv, CoreInv, LoopsInv, AcceptorTypes, QueuesInv,
                      shape, acceptor, registration, loops
<1> QED
  BY <1>3, <1>4 DEF UserHold, UserCheck, UserRelease

-----------------------------------------------------------------------------
(* Theorems *)

\* The initial states.
LEMMA InitInv == Init => ServerInv
<1> SUFFICES ASSUME Init PROVE ServerInv
  OBVIOUS
<1> USE DEF Init
<1>1. ConnTypes
  BY DEF ConnTypes, Loop
<1>2. StageInv
  BY DEF StageInv, StageOf, Announced
<1>3. LoopsInv /\ ThreadInv
  BY DEF LoopsInv, ThreadInv
<1>4. QueuesInv
  BY EmptySeq DEF QueuesInv
<1>5. Places = {}
  <2>1. \A l \in Loop : Len(queue[l]) = 0 /\ Len(batch[l]) = 0 /\ pos[l] = 0
    BY EmptySeq
  <2> QED
    BY <2>1 DEF Places, QueuePlaces, BatchPlaces
<1>6. FunctorsInv
  BY <1>5 DEF FunctorsInv, FunctorsFit, OneEach, TeardownAhead
<1>7. AcceptorTypes
  BY ServerAssumption DEF AcceptorTypes, Loop
<1> QED
  BY <1>1, <1>2, <1>3, <1>4, <1>6, <1>7 DEF ServerInv

\* Every step keeps the invariant.
LEMMA StepInv == ServerInv /\ [Next]_vars => ServerInv'
<1> SUFFICES ASSUME ServerInv, [Next]_vars PROVE ServerInv'
  OBVIOUS
<1>1. ASSUME NEW l \in Loop, Poll(l) PROVE ServerInv'
  BY <1>1, PollStep
<1>2. ASSUME NEW l \in Loop, LoopStep(l) PROVE ServerInv'
  <2>1. CASE SwapPending(l)
    BY <2>1, SwapStep
  <2>2. CASE RunFunctor(l)
    BY <2>2, RunFunctorStep
  <2>3. CASE BatchDone(l)
    BY <2>3, DoneStep
  <2>4. CASE \E c \in Conn : HandleEvent(l, c)
    BY <2>4, HandleEventStep
  <2>5. CASE AcceptFull \/ AcceptDone \/ NewConnectionFails
    BY <2>5, AcceptorSteps
  <2>6. CASE \E c \in Conn : NewConnection(c)
    BY <2>6, NewConnectionStep
  <2> QED
    BY <1>2, <2>1, <2>2, <2>3, <2>4, <2>5, <2>6 DEF LoopStep
<1>3. ASSUME NEW l \in Loop, NEW c \in Conn, ForceClose(l, c) PROVE ServerInv'
  BY <1>3, ForceCloseStep
<1>4. CASE Connect \/ NewConnectionFails
  BY <1>4, AcceptorSteps
<1>5. CASE (\E c \in Conn : UserHold(c)) \/ UserCheck \/ UserPush \/ UserRelease
  BY <1>5, UserStep
<1>6. CASE UNCHANGED vars
  <2>1. CoreInv'
    BY <1>6, CoreKept DEF ServerInv, CoreInv, vars, shape, loops
  <2>2. LoopsInv' /\ QueuesInv'
    BY <1>6 DEF ServerInv, LoopsInv, QueuesInv, vars, registration, loops
  <2>3. AcceptorTypes' /\ ThreadInv'
    BY <1>6 DEF ServerInv, AcceptorTypes, ThreadInv, vars, shape, acceptor, thread, Announced
  <2> QED
    BY <2>1, <2>2, <2>3 DEF ServerInv, CoreInv
<1> QED
  BY <1>1, <1>2, <1>3, <1>4, <1>5, <1>6 DEF Next

LEMMA Invariance == Spec => []ServerInv
BY InitInv, StepInv, PTL DEF Spec

\* The variables keep their types, whatever the number of connections, of
\* descriptors and of loops; no callback of a connection is called twice.
THEOREM TypeCorrect == Spec => []TypeOK
<1>1. ServerInv => TypeOK
  <2> SUFFICES ASSUME ServerInv PROVE TypeOK
    OBVIOUS
  <2>1. \A l \in Loop : pos[l] \in 0 .. Len(batch[l])
    BY LenProperties DEF ServerInv, QueuesInv
  <2>2. backlog \in 0 .. clients /\ clients \in 0 .. Clients
    BY ServerAssumption DEF ServerInv, AcceptorTypes
  <2>3. /\ pool \subseteq Loop /\ idleFd \in BOOLEAN
        /\ user \in Conn \cup {None}
        /\ upc \in {"idle", "hold", "push", "pushed", "over"}
        /\ lpc \in [Loop -> {"poll", "dispatch", "run"}]
        /\ active \in [Loop -> SUBSET (Conn \cup {Accept})]
    BY DEF ServerInv, AcceptorTypes, ThreadInv, LoopsInv
  <2> QED
    BY <2>1, <2>2, <2>3 DEF TypeOK, ServerInv, ConnTypes
<1> QED
  BY <1>1, Invariance, PTL

\* A functor of the server that waits keeps its connection.
LEMMA KeptByFunctor ==
  ASSUME ServerInv, NEW p \in Places, FunctorAt(p).op # "call"
  PROVE  Alive(FunctorAt(p).conn)
<1>1. CASE p[2] = "queue"
  <2>1. p[1] \in Loop /\ p[3] \in 1 .. Len(queue[p[1]])
    BY <1>1, PlaceParts DEF QueuePlaces
  <2>2. Owns(queue[p[1]][p[3]], FunctorAt(p).conn)
    BY <1>1 DEF Owns, FunctorAt
  <2> QED
    BY <2>1, <2>2 DEF Alive
<1>2. CASE p[2] = "batch"
  <2>1. p[1] \in Loop /\ p[3] \in pos[p[1]] + 1 .. Len(batch[p[1]]) /\ pos[p[1]] \in Nat
    BY <1>2, PlaceParts DEF BatchPlaces, ServerInv, QueuesInv
  <2>2. p[3] \in 1 .. Len(batch[p[1]])
    BY <2>1
  <2>3. Owns(batch[p[1]][p[3]], FunctorAt(p).conn)
    BY <1>2 DEF Owns, FunctorAt
  <2> QED
    BY <2>1, <2>2, <2>3 DEF Alive
<1> QED
  BY <1>1, <1>2, PlaceParts

\* A registered connection exists: it is kConnected and in connections_, or
\* its teardown keeps it.
LEMMA RegisteredExist ==
  ASSUME ServerInv, NEW l \in Loop, NEW c \in channels[l]
  PROVE  c \in Conn /\ Alive(c) /\ loop[c] = l
<1>1. c \in Conn
  BY DEF ServerInv, ConnTypes
<1>2. l = loop[c] /\ state[c] \in Announced
  BY <1>1 DEF ServerInv, StageInv, StageOf
<1>3. CASE state[c] = "kConnected"
  BY <1>1, <1>2, <1>3 DEF ServerInv, StageInv, StageOf, Alive
<1>4. CASE state[c] = "kDisconnected"
  <2>1. PICK p \in Places : IsTeardown(FunctorAt(p), c)
    BY <1>1, <1>2, <1>4 DEF ServerInv, FunctorsInv, TeardownAhead
  <2> QED
    BY <1>1, <1>2, <2>1, KeptByFunctor DEF IsTeardown
<1> QED
  BY <1>2, <1>3, <1>4 DEF Announced

\* Where the server keeps a connection between two steps, in the results of a
\* poll, in a poller or in a functor of its own, the connection is there when
\* it is used: the weak tie of the channel and the queued connectDestroyed do
\* what they are for.
THEOREM ReachedExist == Spec => []ReachedConnectionsExist
<1>1. ServerInv => ReachedConnectionsExist
  <2> SUFFICES ASSUME ServerInv PROVE ReachedConnectionsExist
    OBVIOUS
  <2>1. ActiveChannelsExist
    BY RegisteredExist DEF ActiveChannelsExist, ServerInv, LoopsInv
  <2>2. RegistrationsExist
    BY RegisteredExist DEF RegistrationsExist
  <2>3. ASSUME NEW l \in Loop, pos[l] < Len(batch[l]), NextFunctor(l).op # "call"
        PROVE  FunctorFindsConnection(NextFunctor(l))
    <3>1. pos[l] \in Nat /\ Len(batch[l]) \in Nat
      BY LenProperties DEF ServerInv, QueuesInv
    <3>2. RunPlace(l) \in Places /\ FunctorAt(RunPlace(l)) = NextFunctor(l)
      BY <2>3, <3>1 DEF RunPlace, Places, BatchPlaces, FunctorAt, NextFunctor
    <3>3. FunctorFits(NextFunctor(l), RunPlace(l)[1])
      BY <3>2 DEF ServerInv, FunctorsInv, FunctorsFit
    <3> QED
      BY <2>3, <3>2, <3>3, KeptByFunctor DEF FunctorFindsConnection, FunctorFits
  <2>4. FunctorsFindConnection
    BY <2>3 DEF FunctorsFindConnection, NextFunctors
  <2> QED
    BY <2>1, <2>2, <2>4 DEF ReachedConnectionsExist
<1> QED
  BY <1>1, Invariance, PTL

\* What OneTeardown counts are places of functors.
LEMMA TeardownPlaces ==
  ASSUME QueuesInv, NEW c \in Conn
  PROVE  Teardowns(c) = {p \in Places : IsTeardown(FunctorAt(p), c)}
<1>1. ASSUME NEW p \in Teardowns(c)
      PROVE  p \in Places /\ IsTeardown(FunctorAt(p), c)
  <2>1. PICK l \in Loop :
          \/ \E i \in 1 .. Len(queue[l]) :
               p = <<l, "queue", i>> /\ IsTeardown(queue[l][i], c)
          \/ \E i \in pos[l] + 1 .. Len(batch[l]) :
               p = <<l, "batch", i>> /\ IsTeardown(batch[l][i], c)
    BY DEF Teardowns
  <2>2. CASE p[2] = "queue"
    <3>1. PICK i \in 1 .. Len(queue[l]) :
            p = <<l, "queue", i>> /\ IsTeardown(queue[l][i], c)
      BY <2>1, <2>2
    <3> QED
      BY <3>1 DEF Places, QueuePlaces, FunctorAt
  <2>3. CASE p[2] = "batch"
    <3>1. PICK i \in pos[l] + 1 .. Len(batch[l]) :
            p = <<l, "batch", i>> /\ IsTeardown(batch[l][i], c)
      BY <2>1, <2>3
    <3>2. i \in Nat
      BY <3>1, LenProperties DEF QueuesInv
    <3> QED
      BY <3>1, <3>2 DEF Places, BatchPlaces, FunctorAt
  <2> QED
    BY <2>1, <2>2, <2>3
<1>2. ASSUME NEW p \in Places, IsTeardown(FunctorAt(p), c)
      PROVE  p \in Teardowns(c)
  <2>1. CASE p[2] = "queue"
    <3>1. /\ p = <<p[1], "queue", p[3]>> /\ p[1] \in Loop
          /\ p[3] \in 1 .. Len(queue[p[1]]) /\ IsTeardown(queue[p[1]][p[3]], c)
      BY <1>2, <2>1, PlaceParts DEF QueuePlaces, FunctorAt
    <3> QED
      BY <3>1 DEF Teardowns
  <2>2. CASE p[2] = "batch"
    <3>1. /\ p = <<p[1], "batch", p[3]>> /\ p[1] \in Loop
          /\ p[3] \in pos[p[1]] + 1 .. Len(batch[p[1]])
          /\ IsTeardown(batch[p[1]][p[3]], c)
      BY <1>2, <2>2, PlaceParts DEF BatchPlaces, FunctorAt
    <3> QED
      BY <3>1 DEF Teardowns
  <2> QED
    BY <2>1, <2>2, PlaceParts
<1> QED
  BY <1>1, <1>2

\* A connection that is down has one step of its teardown ahead, on the base
\* loop or on its own, until its channel is out of the poller, then none: it
\* is neither torn down twice nor left behind.
THEOREM TeardownIsOne == Spec => []OneTeardown
<1>1. ServerInv => OneTeardown
  <2> SUFFICES ASSUME ServerInv, NEW c \in Conn
      PROVE  Cardinality(Teardowns(c)) =
               IF state[c] = "kDisconnected" /\ c \in channels[loop[c]] THEN 1 ELSE 0
    BY DEF OneTeardown
  <2> DEFINE T == {p \in Places : IsTeardown(FunctorAt(p), c)}
  <2>1. \A p \in T : state[c] = "kDisconnected" /\ c \in channels[loop[c]]
    BY DEF ServerInv, FunctorsInv, FunctorsFit, FunctorFits, IsTeardown
  <2>2. \A p, q \in T : p = q
    BY DEF ServerInv, FunctorsInv, OneEach, IsTeardown
  <2>3. state[c] = "kDisconnected" /\ c \in channels[loop[c]] => T # {}
    BY DEF ServerInv, FunctorsInv, TeardownAhead
  <2>4. Teardowns(c) = T
    BY TeardownPlaces DEF ServerInv
  <2> HIDE DEF T
  <2>5. CASE T = {}
    BY <2>3, <2>4, <2>5, FS_EmptySet
  <2>6. CASE T # {}
    <3>1. PICK p \in T : TRUE
      BY <2>6
    <3>2. T = {p}
      BY <2>2, <3>1
    <3> QED
      BY <2>1, <2>4, <3>1, <3>2, FS_Singleton
  <2> QED
    BY <2>5, <2>6
<1> QED
  BY <1>1, Invariance, PTL
=============================================================================
