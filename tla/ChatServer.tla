------------------------------ MODULE ChatServer ------------------------------
(***************************************************************************)
(* examples/chatserver.cpp on its single reactor: the heartbeat table      *)
(* _clients, the session tables of SessionManager, and the callbacks that  *)
(* change them.  A frame is what it does to these tables (log in, push to  *)
(* a user, anything else); the answers of the services are in their own    *)
(* module.  One frame is one step: a send in it, to the client or to the   *)
(* user it is pushed to, can find the peer gone, and the connection        *)
(* callback for "down" then runs inside the send.                          *)
(*                                                                         *)
(* Time is counted in units that divide both heartbeat times.              *)
(***************************************************************************)
EXTENDS Naturals, FiniteSets

CONSTANTS
  Conn,       \* bound: connections made in all
  Uid,        \* users
  None,       \* no connection, no user (uid 0)
  MaxFrames,  \* bound: frames one tryDecode returns
  Period,     \* startHeartbeat: 10 s
  Limit       \* checkTimeouts: 35 s

ASSUME ChatAssumption ==
  /\ None \notin Conn \cup Uid
  /\ MaxFrames \in Nat
  /\ Period \in Nat \ {0} /\ Limit \in Nat

VARIABLES
  state,     \* [Conn -> {"none", "up", "down"}]
  clients,   \* the connections in _clients
  idle,      \* [Conn -> time since lastActive]
  online,    \* _online
  uidOf,     \* _connectionToUid
  cur,       \* the connection onMessage runs for, or None
  frames,    \* frames of it not handled yet
  fatal,     \* tryDecode found a bad header
  clock,     \* time since the last checkTimeouts
  latest,    \* history: [Uid -> the connection that logged in last]
  misused    \* history: the connections that logged in as a second user, or
             \* after they had gone down in the middle of their frames

heartbeat == <<clients, idle>>
sessions == <<online, uidOf>>
message == <<cur, frames, fatal>>
history == <<latest, misused>>
vars == <<state, heartbeat, sessions, message, clock, history>>

Init ==
  /\ state = [c \in Conn |-> "none"]
  /\ clients = {}
  /\ idle = [c \in Conn |-> 0]
  /\ online = [u \in Uid |-> None]
  /\ uidOf = [c \in Conn |-> None]
  /\ cur = None /\ frames = 0 /\ fatal = FALSE
  /\ clock = 0
  /\ latest = [u \in Uid |-> None]
  /\ misused = {}

-----------------------------------------------------------------------------
(* SessionManager; the tables as they are, and after a bind *)

Tables == [online |-> online, uidOf |-> uidOf]

Bound(u, c) == [online |-> [online EXCEPT ![u] = c],
                uidOf  |-> [uidOf EXCEPT ![c] = u]]

\* Faulty variant of the next: only the table of the connections is cleared.
HalfRemoved(t, D) ==
  [online |-> t.online,
   uidOf  |-> [c \in Conn |-> IF c \in D THEN None ELSE t.uidOf[c]]]

\* remove(), for the connections in D.
Removed(t, D) ==
  [online |-> [u \in Uid |-> IF \E c \in D : t.uidOf[c] = u THEN None
                             ELSE t.online[u]],
   uidOf  |-> [c \in Conn |-> IF c \in D THEN None ELSE t.uidOf[c]]]

\* The user a push for u would reach: sendTo's tests.
Reachable(u) == {c \in Conn : online[u] = c /\ state[c] = "up"}

-----------------------------------------------------------------------------
(* The connection callback *)

Up(c) ==
  /\ cur = None
  /\ state[c] = "none"
  /\ state' = [state EXCEPT ![c] = "up"]
  /\ clients' = clients \cup {c}
  /\ idle' = [idle EXCEPT ![c] = 0]
  /\ UNCHANGED <<sessions, message, clock, history>>

\* Those in D that are not down yet go down; t are the session tables so far.
Down(D, t) ==
  LET gone == {c \in D : state[c] = "up"}
      after == Removed(t, gone)
  IN /\ state' = [c \in Conn |-> IF c \in gone THEN "down" ELSE state[c]]
     /\ clients' = clients \ gone
     /\ online' = after.online /\ uidOf' = after.uidOf

\* The peer closes, or the connection breaks.
PeerClose(c) ==
  /\ cur = None
  /\ state[c] = "up"
  /\ Down({c}, Tables)
  /\ UNCHANGED <<idle, message, clock, history>>

-----------------------------------------------------------------------------
(* onMessage *)

\* touch() and tryDecode.
Message(c) ==
  /\ cur = None
  /\ state[c] = "up"
  /\ cur' = c
  /\ idle' = IF c \in clients THEN [idle EXCEPT ![c] = 0] ELSE idle
  /\ frames' \in 0 .. MaxFrames
  /\ fatal' \in BOOLEAN
  /\ UNCHANGED <<state, clients, sessions, clock, history>>

NextFrame ==
  /\ cur # None /\ frames > 0
  /\ frames' = frames - 1

\* A login that succeeds, and its answer, which may find the client gone.
LoginFrame(u) ==
  /\ NextFrame
  /\ \E lost \in SUBSET {cur} : Down(lost, Bound(u, cur))
  /\ latest' = [latest EXCEPT ![u] = cur]
  /\ misused' = IF uidOf[cur] \notin {None, u} \/ state[cur] = "down"
                THEN misused \cup {cur} ELSE misused
  /\ UNCHANGED <<idle, cur, fatal, clock>>

\* A request of a logged-in user that pushes a frame to u: a friend request, the
\* answer to one, a text message.
PushFrame(u) ==
  /\ NextFrame
  /\ uidOf[cur] # None
  /\ \E lost \in SUBSET ({cur} \cup Reachable(u)) : Down(lost, Tables)
  /\ UNCHANGED <<idle, cur, fatal, clock, history>>

\* Any other frame: registration, a login that fails, searches, lists, the
\* client's heartbeat, a request without login, an unknown msgid.
OtherFrame ==
  /\ NextFrame
  /\ \E lost \in SUBSET {cur} : Down(lost, Tables)
  /\ UNCHANGED <<idle, cur, fatal, clock, history>>

\* Faulty variant of the next: fatal outlives the call.
MessageDoneKeepsFatal ==
  /\ cur # None /\ frames = 0
  /\ Down(IF fatal THEN {cur} ELSE {}, Tables)
  /\ cur' = None
  /\ UNCHANGED <<idle, frames, fatal, clock, history>>

\* After the frames: forceClose if the header was bad.
MessageDone ==
  /\ cur # None /\ frames = 0
  /\ Down(IF fatal THEN {cur} ELSE {}, Tables)
  /\ cur' = None /\ fatal' = FALSE
  /\ UNCHANGED <<idle, frames, clock, history>>

-----------------------------------------------------------------------------
(* The heartbeat *)

\* Faulty variant of the next: checkTimeouts takes the connections out of
\* _clients and does not close them.
TimeoutsForgotten ==
  /\ cur = None
  /\ clock = Period
  /\ clock' = 0
  /\ clients' = {c \in clients : idle[c] <= Limit}
  /\ UNCHANGED <<state, idle, sessions, message, history>>

\* checkTimeouts: the expired leave _clients first, then forceClose.
CheckTimeouts ==
  /\ cur = None
  /\ clock = Period
  /\ clock' = 0
  /\ LET expired == {c \in clients : idle[c] > Limit} IN Down(expired, Tables)
  /\ UNCHANGED <<idle, message, history>>

\* Time passes between the callbacks; the timer is not late.
Tick ==
  /\ cur = None
  /\ clock < Period
  /\ clock' = clock + 1
  /\ idle' = [c \in Conn |-> IF state[c] = "up" THEN idle[c] + 1 ELSE idle[c]]
  /\ UNCHANGED <<state, clients, sessions, message, history>>

-----------------------------------------------------------------------------

Next ==
  \/ \E c \in Conn : Up(c) \/ PeerClose(c) \/ Message(c)
  \/ \E u \in Uid : LoginFrame(u) \/ PushFrame(u)
  \/ OtherFrame \/ MessageDone \/ CheckTimeouts \/ Tick

Spec == Init /\ [][Next]_vars

-----------------------------------------------------------------------------
(* Properties *)

\* Types; nothing of a message is left when onMessage has returned.
TypeOK ==
  /\ state \in [Conn -> {"none", "up", "down"}]
  /\ clients \subseteq Conn
  /\ idle \in [Conn -> Nat]
  /\ online \in [Uid -> Conn \cup {None}]
  /\ uidOf \in [Conn -> Uid \cup {None}]
  /\ cur \in Conn \cup {None}
  /\ frames \in 0 .. MaxFrames /\ fatal \in BOOLEAN
  /\ cur = None => frames = 0 /\ ~fatal
  /\ clock \in 0 .. Period
  /\ latest \in [Uid -> Conn \cup {None}]
  /\ misused \subseteq Conn

\* The heartbeat table holds the connections that are up: one that has gone is
\* not kept in it (_clients owns a TcpConnectionPtr, so it would keep the
\* descriptor open), and none that is up escapes the heartbeat, whichever of
\* the peer, a send, a bad frame or checkTimeouts takes it down.
HeartbeatTracksUp == clients = {c \in Conn : state[c] = "up"}

\* A silent connection is closed by the first heartbeat after Limit.
SilentAreClosed ==
  \A c \in Conn : state[c] = "up" => idle[c] <= Limit + Period

\* For a connection that logs in as one user only, and not after it has gone
\* down, whatever the other connections do: the table has it online only for
\* its own user, and once it has gone down it has left both tables
\* (SessionManager::remove keeps them in step); else pushes for one user would
\* reach another, and the table would keep a dead connection and its descriptor.
SessionsAreUp ==
  /\ \A c \in Conn \ misused : uidOf[c] # None => state[c] = "up"
  /\ \A u \in Uid : online[u] \notin misused \cup {None} => uidOf[online[u]] = u

\* The heartbeat and the session tables follow the connections, through every
\* callback that runs inside another.
TablesFollowConnections == HeartbeatTracksUp /\ SessionsAreUp

\* "Later pushes go to the connection bound last" (SessionManager.h): the user
\* stays online while the connection of the latest login is up.
LatestIsOnline ==
  \A u \in Uid :
    LET c == latest[u]
    IN misused = {} /\ c # None /\ state[c] = "up" => online[u] = c
=============================================================================
