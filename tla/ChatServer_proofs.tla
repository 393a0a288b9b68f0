-------------------------- MODULE ChatServer_proofs --------------------------
(***************************************************************************)
(* Proofs about ChatServer, for any sets of connections and users, any     *)
(* number of frames in a message and any heartbeat times.                  *)
(***************************************************************************)
EXTENDS ChatServer, Integers, TLAPS

Status == {"none", "up", "down"}

\* The types of the session tables.
TablesType(t) ==
  /\ t.online \in [Uid -> Conn \cup {None}]
  /\ t.uidOf \in [Conn -> Uid \cup {None}]

\* The session tables are in step with each other and with the connections,
\* but for those in X.
InStep(t, s, X) ==
  /\ \A c \in Conn \ X : t.uidOf[c] # None => s[c] = "up"
  /\ \A u \in Uid : t.online[u] \notin X \cup {None} => t.uidOf[t.online[u]] = u

\* What Down changes, as it should be: the heartbeat table and the sessions
\* follow the connections.
TablesInv ==
  /\ state \in [Conn -> Status]
  /\ TablesType(Tables)
  /\ HeartbeatTracksUp
  /\ InStep(Tables, state, misused)

\* The rest: types, what a message leaves behind, and what no connection that
\* is up has exceeded at this time of the heartbeat.
RestInv ==
  /\ idle \in [Conn -> Nat]
  /\ cur \in Conn \cup {None}
  /\ cur # None => state[cur] # "none"
  /\ frames \in 0 .. MaxFrames /\ fatal \in BOOLEAN
  /\ cur = None => frames = 0 /\ ~fatal
  /\ clock \in 0 .. Period
  /\ latest \in [Uid -> Conn \cup {None}]
  /\ misused \subseteq Conn
  /\ \A c \in Conn : state[c] = "up" => idle[c] <= Limit + clock

ChatInv == TablesInv /\ RestInv

\* The invariant says what the runs check.
LEMMA InvImplies ==
  ChatInv => TypeOK /\ TablesFollowConnections /\ SilentAreClosed
<1> SUFFICES ASSUME ChatInv
             PROVE  TypeOK /\ TablesFollowConnections /\ SilentAreClosed
  OBVIOUS
<1>1. online \in [Uid -> Conn \cup {None}] /\ uidOf \in [Conn -> Uid \cup {None}]
  BY DEF ChatInv, TablesInv, TablesType, Tables
<1>2. clients \subseteq Conn
  BY DEF ChatInv, TablesInv, HeartbeatTracksUp
<1>3. TypeOK
  BY <1>1, <1>2 DEF ChatInv, TablesInv, RestInv, TypeOK, Status
<1>4. SessionsAreUp
  BY DEF ChatInv, TablesInv, InStep, Tables, SessionsAreUp
<1>5. SilentAreClosed
  <2>1. clock \in Nat /\ clock <= Period /\ Limit \in Nat /\ Period \in Nat
    BY ChatAssumption DEF ChatInv, RestInv
  <2>2. ASSUME NEW c \in Conn, state[c] = "up" PROVE idle[c] <= Limit + Period
    <3>1. idle[c] \in Nat /\ idle[c] <= Limit + clock
      BY <2>2 DEF ChatInv, RestInv
    <3> QED
      BY <2>1, <3>1
  <2> QED
    BY <2>2 DEF SilentAreClosed
<1> QED
  BY <1>3, <1>4, <1>5 DEF ChatInv, TablesInv, TablesFollowConnections

\* remove() takes connections out of both tables, and leaves the rest in step.
LEMMA RemovedInStep ==
  ASSUME NEW t, TablesType(t), NEW s \in [Conn -> Status], NEW X, InStep(t, s, X),
         NEW D \in SUBSET Conn, NEW s2 \in [Conn -> Status],
         \A c \in Conn : c \notin D => s2[c] = s[c]
  PROVE  InStep(Removed(t, D), s2, X)
<1> DEFINE r == Removed(t, D)
<1>1. /\ r.online = [u \in Uid |-> IF \E c \in D : t.uidOf[c] = u THEN None
                                   ELSE t.online[u]]
      /\ r.uidOf = [c \in Conn |-> IF c \in D THEN None ELSE t.uidOf[c]]
  BY DEF Removed
<1> HIDE DEF r
<1>2. ASSUME NEW c \in Conn \ X, r.uidOf[c] # None PROVE s2[c] = "up"
  BY <1>1, <1>2 DEF InStep
<1>3. ASSUME NEW u \in Uid, r.online[u] \notin X \cup {None} PROVE r.uidOf[r.online[u]] = u
  <2>1. r.online[u] = t.online[u] /\ ~ \E c \in D : t.uidOf[c] = u
    BY <1>1, <1>3
  <2>2. t.online[u] \in Conn /\ t.uidOf[t.online[u]] = u
    BY <1>3, <2>1 DEF InStep, TablesType
  <2>3. t.online[u] \notin D
    BY <2>1, <2>2
  <2> QED
    BY <1>1, <2>1, <2>2, <2>3
<1> QED
  BY <1>2, <1>3 DEF InStep, r

\* Its result is of the type of the tables.
LEMMA RemovedType ==
  ASSUME NEW t, TablesType(t), NEW D \in SUBSET Conn
  PROVE  TablesType(Removed(t, D))
BY DEF TablesType, Removed

\* Connections going down keep the tables in step, whichever tables they find.
LEMMA DownKeeps ==
  ASSUME TablesInv, NEW D \in SUBSET Conn, NEW t, TablesType(t),
         InStep(t, state, misused'), Down(D, t)
  PROVE  /\ TablesInv'
         /\ \A c \in Conn : /\ state'[c] = "up" => state[c] = "up"
                            /\ state'[c] = "none" => state[c] = "none"
                            /\ c \in D => state'[c] # "up"
<1> DEFINE gone == {c \in D : state[c] = "up"}
           r == Removed(t, gone)
<1>1. /\ state' = [c \in Conn |-> IF c \in gone THEN "down" ELSE state[c]]
      /\ clients' = clients \ gone
      /\ online' = r.online /\ uidOf' = r.uidOf
  BY DEF Down
<1>2. state \in [Conn -> Status] /\ clients = {c \in Conn : state[c] = "up"}
  BY DEF TablesInv, HeartbeatTracksUp
<1>3. gone \in SUBSET Conn
  OBVIOUS
<1>4. TablesType(r)
  BY <1>3, RemovedType
<1>5. state' \in [Conn -> Status]
  BY <1>1, <1>2 DEF Status
<1>6. \A c \in Conn : c \notin gone => state'[c] = state[c]
  BY <1>1
<1>7. InStep(r, state', misused')
  BY <1>2, <1>3, <1>5, <1>6, RemovedInStep
<1>8. \A c \in Conn : state'[c] = IF c \in gone THEN "down" ELSE state[c]
  BY <1>1
<1>9. HeartbeatTracksUp'
  BY <1>1, <1>2, <1>8 DEF HeartbeatTracksUp
<1>10. Tables'.online = r.online /\ Tables'.uidOf = r.uidOf
  BY <1>1 DEF Tables
<1>11. TablesType(Tables)'
  BY <1>4, <1>10 DEF TablesType
<1>12. InStep(Tables, state, misused)'
  BY <1>7, <1>10 DEF InStep
<1>13. TablesInv'
  BY <1>5, <1>9, <1>11, <1>12 DEF TablesInv
<1> QED
  BY <1>8, <1>13

\* bind() for a connection that is up and has no other user, or is one of those
\* the tables need not follow any more.
LEMMA BoundInStep ==
  ASSUME TablesInv, NEW u \in Uid, NEW c \in Conn, NEW X, misused \subseteq X,
         c \notin X => uidOf[c] \in {None, u} /\ state[c] = "up"
  PROVE  /\ TablesType(Bound(u, c))
         /\ InStep(Bound(u, c), state, X)
<1> DEFINE t == Bound(u, c)
<1>1. /\ t.online = [online EXCEPT ![u] = c]
      /\ t.uidOf = [uidOf EXCEPT ![c] = u]
  BY DEF Bound
<1>2. online \in [Uid -> Conn \cup {None}] /\ uidOf \in [Conn -> Uid \cup {None}]
  BY DEF TablesInv, TablesType, Tables
<1> HIDE DEF t
<1>3. TablesType(t)
  BY <1>1, <1>2 DEF TablesType
<1>4. /\ \A d \in Conn \ X : uidOf[d] # None => state[d] = "up"
      /\ \A v \in Uid : online[v] \notin X \cup {None} => uidOf[online[v]] = v
  BY DEF TablesInv, InStep, Tables
<1>5. ASSUME NEW d \in Conn \ X, t.uidOf[d] # None PROVE state[d] = "up"
  BY <1>1, <1>2, <1>4, <1>5
<1>6. ASSUME NEW v \in Uid, t.online[v] \notin X \cup {None} PROVE t.uidOf[t.online[v]] = v
  <2>1. CASE v = u
    BY <1>1, <1>2, <2>1
  <2>2. CASE v # u
    <3>1. t.online[v] = online[v] /\ online[v] \in Conn /\ uidOf[online[v]] = v
      BY <1>1, <1>2, <1>4, <1>6, <2>2
    <3>2. online[v] # c
      BY <1>6, <2>2, <3>1, ChatAssumption
    <3> QED
      BY <1>1, <1>2, <3>1, <3>2
  <2> QED
    BY <2>1, <2>2
<1> QED
  BY <1>3, <1>5, <1>6 DEF InStep, t

\* A step in which connections go down, of the tables as they are.
LEMMA DownStep ==
  ASSUME ChatInv, NEW D \in SUBSET Conn, Down(D, Tables), UNCHANGED misused
  PROVE  /\ TablesInv'
         /\ \A c \in Conn : /\ state'[c] = "up" => state[c] = "up"
                            /\ state'[c] = "none" => state[c] = "none"
                            /\ c \in D => state'[c] # "up"
<1>1. TablesInv /\ TablesType(Tables) /\ InStep(Tables, state, misused')
  BY DEF ChatInv, TablesInv
<1> QED
  BY <1>1, DownKeeps

\* What is left of RestInv when connections have gone down and no time has passed.
LEMMA RestKept ==
  ASSUME RestInv, UNCHANGED <<idle, clock, latest, misused>>,
         \A c \in Conn : /\ state'[c] = "up" => state[c] = "up"
                         /\ state'[c] = "none" => state[c] = "none",
         cur' \in {cur, None}, frames' \in 0 .. MaxFrames, fatal' \in BOOLEAN,
         cur' = None => frames' = 0 /\ ~fatal'
  PROVE  RestInv'
<1>1. cur' # None => state'[cur'] # "none"
  BY DEF RestInv
<1>2. \A c \in Conn : state'[c] = "up" => idle'[c] <= Limit + clock'
  BY DEF RestInv
<1> QED
  BY <1>1, <1>2 DEF RestInv

\* A frame leaves a count of frames, and nothing else, of the message.
LEMMA FrameCounted ==
  ASSUME RestInv, NextFrame
  PROVE  frames' \in 0 .. MaxFrames /\ cur # None /\ cur \in Conn
BY ChatAssumption DEF RestInv, NextFrame

\* The initial state has the invariant.
LEMMA ChatInit == Init => ChatInv
<1> SUFFICES ASSUME Init PROVE ChatInv
  OBVIOUS
<1>1. /\ state = [c \in Conn |-> "none"] /\ clients = {}
      /\ online = [u \in Uid |-> None] /\ uidOf = [c \in Conn |-> None]
  BY DEF Init
<1>2. TablesType(Tables)
  BY <1>1 DEF TablesType, Tables
<1>3. InStep(Tables, state, misused)
  BY <1>1 DEF InStep, Tables
<1>4. HeartbeatTracksUp
  BY <1>1 DEF HeartbeatTracksUp
<1>5. TablesInv
  BY <1>1, <1>2, <1>3, <1>4 DEF TablesInv, Status
<1>6. RestInv
  <2>1. /\ cur = None /\ frames = 0 /\ fatal = FALSE /\ clock = 0 /\ misused = {}
        /\ idle = [c \in Conn |-> 0] /\ latest = [u \in Uid |-> None]
    BY DEF Init
  <2>2. frames \in 0 .. MaxFrames /\ clock \in 0 .. Period
    BY <2>1, ChatAssumption
  <2>3. idle \in [Conn -> Nat] /\ latest \in [Uid -> Conn \cup {None}]
    BY <2>1
  <2>4. \A c \in Conn : state[c] # "up"
    BY <1>1
  <2> QED
    BY <2>1, <2>2, <2>3, <2>4 DEF RestInv
<1> QED
  BY <1>5, <1>6 DEF ChatInv

\* Every step keeps it.
LEMMA ChatNext == ChatInv /\ [Next]_vars => ChatInv'
<1> SUFFICES ASSUME ChatInv, [Next]_vars PROVE ChatInv'
  OBVIOUS
<1> USE ChatAssumption
<1>1. TablesInv /\ RestInv
  BY DEF ChatInv
<1>2. ASSUME NEW c \in Conn, Up(c) PROVE ChatInv'
  <2>1. /\ state' = [state EXCEPT ![c] = "up"] /\ state[c] = "none"
        /\ clients' = clients \cup {c} /\ idle' = [idle EXCEPT ![c] = 0]
        /\ UNCHANGED <<online, uidOf, cur, frames, fatal, clock, latest, misused>>
    BY <1>2 DEF Up, sessions, message, history
  <2>2. state' \in [Conn -> Status]
    BY <1>1, <2>1 DEF TablesInv, Status
  <2>3. \A d \in Conn : state'[d] = IF d = c THEN "up" ELSE state[d]
    BY <1>1, <2>1 DEF TablesInv
  <2>4. HeartbeatTracksUp'
    BY <1>1, <2>1, <2>3 DEF TablesInv, HeartbeatTracksUp
  <2>5. TablesType(Tables)'
    BY <1>1, <2>1 DEF TablesInv, TablesType, Tables
  <2>6. InStep(Tables, state, misused)'
    BY <1>1, <2>1, <2>3 DEF TablesInv, InStep, Tables
  <2>7. TablesInv'
    BY <2>2, <2>4, <2>5, <2>6 DEF TablesInv
  <2>8. idle' \in [Conn -> Nat]
    BY <1>1, <2>1 DEF RestInv
  <2>9. ASSUME NEW d \in Conn, state'[d] = "up" PROVE idle'[d] <= Limit + clock'
    <3>1. CASE d = c
      BY <1>1, <2>1, <3>1 DEF RestInv
    <3>2. CASE d # c
      BY <1>1, <2>1, <2>3, <2>9, <3>2 DEF RestInv
    <3> QED
      BY <3>1, <3>2
  <2>10. cur' = None
    BY <1>2, <2>1 DEF Up
  <2>11. RestInv'
    BY <1>1, <2>1, <2>8, <2>9, <2>10 DEF RestInv
  <2> QED
    BY <2>7, <2>11 DEF ChatInv
<1>3. ASSUME NEW c \in Conn, PeerClose(c) PROVE ChatInv'
  <2>1. /\ Down({c}, Tables)
        /\ UNCHANGED <<idle, cur, frames, fatal, clock, latest, misused>>
    BY <1>3 DEF PeerClose, message, history
  <2>2. {c} \in SUBSET Conn
    OBVIOUS
  <2>3. /\ TablesInv'
        /\ \A d \in Conn : /\ state'[d] = "up" => state[d] = "up"
                           /\ state'[d] = "none" => state[d] = "none"
    BY <2>1, <2>2, DownStep
  <2>4. /\ frames' \in 0 .. MaxFrames /\ fatal' \in BOOLEAN
        /\ cur' = None => frames' = 0 /\ ~fatal'
    BY <1>1, <2>1 DEF RestInv
  <2>5. RestInv'
    BY <1>1, <2>1, <2>3, <2>4, RestKept
  <2> QED
    BY <2>3, <2>5 DEF ChatInv
<1>4. ASSUME NEW c \in Conn, Message(c) PROVE ChatInv'
  <2>1. /\ state[c] = "up" /\ cur' = c
        /\ idle' = IF c \in clients THEN [idle EXCEPT ![c] = 0] ELSE idle
        /\ frames' \in 0 .. MaxFrames /\ fatal' \in BOOLEAN
        /\ UNCHANGED <<state, clients, online, uidOf, clock, latest, misused>>
    BY <1>4 DEF Message, sessions, history
  <2>2. TablesInv'
    BY <1>1, <2>1 DEF TablesInv, TablesType, InStep, Tables, HeartbeatTracksUp
  <2>3. idle' \in [Conn -> Nat]
    BY <1>1, <2>1 DEF RestInv
  <2>4. \A d \in Conn : idle'[d] = idle[d] \/ idle'[d] = 0
    BY <1>1, <2>1 DEF RestInv
  <2>5. \A d \in Conn : state'[d] = "up" => idle'[d] <= Limit + clock'
    BY <1>1, <2>1, <2>4 DEF RestInv
  <2>6. cur' \in Conn /\ cur' # None /\ state'[cur'] # "none"
    BY <2>1
  <2>7. RestInv'
    BY <1>1, <2>1, <2>3, <2>5, <2>6 DEF RestInv
  <2> QED
    BY <2>2, <2>7 DEF ChatInv
<1>5. ASSUME NEW u \in Uid, LoginFrame(u) PROVE ChatInv'
  <2>1. frames' \in 0 .. MaxFrames /\ cur # None /\ cur \in Conn
    BY <1>1, <1>5, FrameCounted DEF LoginFrame
  <2>2. PICK lost \in SUBSET {cur} : Down(lost, Bound(u, cur))
    BY <1>5 DEF LoginFrame
  <2>3. /\ latest' = [latest EXCEPT ![u] = cur]
        /\ misused' = IF uidOf[cur] \notin {None, u} \/ state[cur] = "down"
                      THEN misused \cup {cur} ELSE misused
        /\ UNCHANGED <<idle, cur, fatal, clock>>
    BY <1>5 DEF LoginFrame
  <2>4. misused' \subseteq Conn /\ misused \subseteq misused'
    BY <1>1, <2>1, <2>3 DEF RestInv
  <2>5. cur \notin misused' => uidOf[cur] \in {None, u} /\ state[cur] = "up"
    <3>1. state[cur] \in {"up", "down"}
      BY <1>1, <2>1 DEF RestInv, TablesInv, Status
    <3> QED
      BY <2>3, <3>1
  <2>6. TablesType(Bound(u, cur)) /\ InStep(Bound(u, cur), state, misused')
    BY <1>1, <2>1, <2>4, <2>5, BoundInStep
  <2>7. lost \in SUBSET Conn
    BY <2>1
  <2>8. /\ TablesInv'
        /\ \A d \in Conn : /\ state'[d] = "up" => state[d] = "up"
                           /\ state'[d] = "none" => state[d] = "none"
    BY <1>1, <2>2, <2>6, <2>7, DownKeeps
  <2>9. latest' \in [Uid -> Conn \cup {None}]
    BY <1>1, <2>1, <2>3 DEF RestInv
  <2>10. /\ \A d \in Conn : state'[d] = "up" => idle'[d] <= Limit + clock'
         /\ state'[cur'] # "none"
    BY <1>1, <2>1, <2>3, <2>8 DEF RestInv
  <2>11. RestInv'
    BY <1>1, <2>1, <2>3, <2>4, <2>9, <2>10 DEF RestInv
  <2> QED
    BY <2>8, <2>11 DEF ChatInv
<1>6. ASSUME NEW D \in SUBSET Conn, Down(D, Tables), NextFrame,
             UNCHANGED <<idle, cur, fatal, clock, latest, misused>>
      PROVE  ChatInv'
  <2>1. frames' \in 0 .. MaxFrames /\ cur # None
    BY <1>1, <1>6, FrameCounted
  <2>2. /\ TablesInv'
        /\ \A d \in Conn : /\ state'[d] = "up" => state[d] = "up"
                           /\ state'[d] = "none" => state[d] = "none"
    BY <1>6, DownStep
  <2>3. fatal' \in BOOLEAN
    BY <1>1, <1>6 DEF RestInv
  <2>4. RestInv'
    BY <1>1, <1>6, <2>1, <2>2, <2>3, RestKept
  <2> QED
    BY <2>2, <2>4 DEF ChatInv
<1>7. ASSUME NEW u \in Uid, PushFrame(u) PROVE ChatInv'
  <2>1. PICK lost \in SUBSET ({cur} \cup Reachable(u)) : Down(lost, Tables)
    BY <1>7 DEF PushFrame
  <2>2. NextFrame /\ UNCHANGED <<idle, cur, fatal, clock, latest, misused>>
    BY <1>7 DEF PushFrame, history
  <2>3. cur \in Conn
    BY <1>1, <2>2, FrameCounted
  <2>4. lost \in SUBSET Conn
    BY <2>3 DEF Reachable
  <2> QED
    BY <1>6, <2>1, <2>2, <2>4
<1>8. CASE OtherFrame
  <2>1. PICK lost \in SUBSET {cur} : Down(lost, Tables)
    BY <1>8 DEF OtherFrame
  <2>2. NextFrame /\ UNCHANGED <<idle, cur, fatal, clock, latest, misused>>
    BY <1>8 DEF OtherFrame, history
  <2>3. lost \in SUBSET Conn
    BY <1>1, <2>2, FrameCounted
  <2> QED
    BY <1>6, <2>1, <2>2, <2>3
<1>9. CASE MessageDone
  <2> DEFINE D == IF fatal THEN {cur} ELSE {}
  <2>1. /\ cur # None /\ frames = 0 /\ Down(D, Tables) /\ cur' = None /\ fatal' = FALSE
        /\ UNCHANGED <<idle, frames, clock, latest, misused>>
    BY <1>9 DEF MessageDone, history
  <2>2. D \in SUBSET Conn
    BY <1>1, <2>1 DEF RestInv
  <2> HIDE DEF D
  <2>3. /\ TablesInv'
        /\ \A d \in Conn : /\ state'[d] = "up" => state[d] = "up"
                           /\ state'[d] = "none" => state[d] = "none"
    BY <2>1, <2>2, DownStep
  <2>4. frames' \in 0 .. MaxFrames /\ frames' = 0
    BY <1>1, <2>1 DEF RestInv
  <2>5. RestInv'
    BY <1>1, <2>1, <2>3, <2>4, RestKept
  <2> QED
    BY <2>3, <2>5 DEF ChatInv
<1>10. CASE CheckTimeouts
  <2> DEFINE expired == {c \in clients : idle[c] > Limit}
  <2>1. /\ Down(expired, Tables) /\ clock' = 0 /\ cur = None
        /\ UNCHANGED <<idle, cur, frames, fatal, latest, misused>>
    BY <1>10 DEF CheckTimeouts, message, history
  <2>2. clients = {c \in Conn : state[c] = "up"}
    BY <1>1 DEF TablesInv, HeartbeatTracksUp
  <2>3. /\ expired \in SUBSET Conn
        /\ \A d \in Conn : state[d] = "up" /\ d \notin expired => ~ (idle[d] > Limit)
    BY <2>2
  <2> HIDE DEF expired
  <2>4. /\ TablesInv'
        /\ \A d \in Conn : /\ state'[d] = "up" => state[d] = "up"
                           /\ d \in expired => state'[d] # "up"
    BY <2>1, <2>3, DownStep
  <2>5. ASSUME NEW d \in Conn, state'[d] = "up" PROVE idle'[d] <= Limit + clock'
    <3>1. ~ (idle[d] > Limit) /\ idle[d] \in Nat
      BY <1>1, <2>3, <2>4, <2>5 DEF RestInv
    <3> QED
      BY <2>1, <3>1
  <2>6. RestInv'
    BY <1>1, <2>1, <2>5 DEF RestInv
  <2> QED
    BY <2>4, <2>6 DEF ChatInv
<1>11. CASE Tick
  <2>1. /\ cur = None /\ clock < Period /\ clock' = clock + 1
        /\ idle' = [c \in Conn |-> IF state[c] = "up" THEN idle[c] + 1 ELSE idle[c]]
        /\ UNCHANGED <<state, clients, online, uidOf, cur, frames, fatal, latest, misused>>
    BY <1>11 DEF Tick, sessions, message, history
  <2>2. TablesInv'
    BY <1>1, <2>1 DEF TablesInv, TablesType, InStep, Tables, HeartbeatTracksUp
  <2>3. idle' \in [Conn -> Nat] /\ clock' \in 0 .. Period
    BY <1>1, <2>1 DEF RestInv
  <2>4. ASSUME NEW d \in Conn, state'[d] = "up" PROVE idle'[d] <= Limit + clock'
    <3>1. idle'[d] = idle[d] + 1 /\ idle[d] <= Limit + clock /\ idle[d] \in Nat
          /\ clock \in Nat
      BY <1>1, <2>1, <2>4 DEF RestInv
    <3> QED
      BY <2>1, <3>1
  <2>5. RestInv'
    BY <1>1, <2>1, <2>3, <2>4 DEF RestInv
  <2> QED
    BY <2>2, <2>5 DEF ChatInv
<1>12. CASE UNCHANGED vars
  <2>1. UNCHANGED <<state, clients, idle, online, uidOf, cur, frames, fatal, clock,
                    latest, misused>>
    BY <1>12 DEF vars, heartbeat, sessions, message, history
  <2>2. TablesInv'
    BY <1>1, <2>1 DEF TablesInv, TablesType, InStep, Tables, HeartbeatTracksUp
  <2>3. RestInv'
    BY <1>1, <2>1 DEF RestInv
  <2> QED
    BY <2>2, <2>3 DEF ChatInv
<1> QED
  BY <1>2, <1>3, <1>4, <1>5, <1>7, <1>8, <1>9, <1>10, <1>11, <1>12 DEF Next

\* Types, and nothing of a message is left when onMessage has returned.
THEOREM TypeCorrect == Spec => []TypeOK
BY ChatInit, ChatNext, InvImplies, PTL DEF Spec

\* The heartbeat table holds the connections that are up and no others, and,
\* as long as every connection logs in properly, so do both session tables.
THEOREM TablesAreRight == Spec => []TablesFollowConnections
BY ChatInit, ChatNext, InvImplies, PTL DEF Spec

\* No connection stays up in silence for longer than Limit and one heartbeat.
THEOREM NoneStaysSilent == Spec => []SilentAreClosed
BY ChatInit, ChatNext, InvImplies, PTL DEF Spec
=============================================================================
