------------------------------- MODULE Services -------------------------------
(***************************************************************************)
(* UserService, FriendService and MessageService with their DAOs: the      *)
(* requests that write to the database, statement by statement, over the   *)
(* one MySQL connection of the process.  The handlers run one after the    *)
(* other on the reactor's thread; a statement may fail, the connection may *)
(* be lost (a COMMIT or an INSERT may then have been done or not), and the *)
(* process may die and be started again between any two statements.        *)
(*                                                                         *)
(* Requests refused before their first write, and the lists and searches,  *)
(* change nothing and are no steps.                                        *)
(***************************************************************************)
EXTENDS FiniteSets

CONSTANTS
  Uid,      \* bound: users
  ApplyId,  \* bound: rows of friend_apply
  MsgId,    \* bound: rows of messages
  NoRow     \* no such row

VARIABLES
  stored,  \* the tables, as they are if the connection ends now
  seen,    \* the tables, as the connection sees them
  inTxn,   \* a transaction is open
  link,    \* the connection is up
  pc,      \* the statement the handler is at
  req,     \* the decision on an apply it handles, in a transaction
  fact,    \* the success it is about to tell
  told     \* history: the successes clients have been told of, in answers
           \* and in pushes

db == <<stored, seen, inTxn, link>>
vars == <<db, pc, req, fact, told>>

Row == [from : Uid, to : Uid, status : {"pending", "accepted", "rejected"}]
Tables == [users : SUBSET Uid,
           apply : [ApplyId -> Row \cup {NoRow}],
           friends : SUBSET (Uid \X Uid),
           messages : [MsgId -> (Uid \X Uid) \cup {NoRow}]]

\* What a client can be told: a registration, an apply sent, accepted or
\* rejected, a text message.
Fact == ({"registered"} \X Uid)
        \cup ({"applied", "accepted", "rejected"} \X ApplyId)
        \cup ({"text"} \X MsgId)

Decision == [by : Uid, id : ApplyId, accept : BOOLEAN]

ASSUME ServicesAssumption ==
  /\ NoRow \notin Row /\ NoRow \notin Uid \X Uid
  /\ NoRow \notin Decision /\ NoRow \notin Fact

Empty == [users |-> {}, apply |-> [i \in ApplyId |-> NoRow], friends |-> {},
          messages |-> [n \in MsgId |-> NoRow]]

Init ==
  /\ stored = Empty /\ seen = Empty
  /\ inTxn = FALSE /\ link = TRUE
  /\ pc = "idle" /\ req = NoRow /\ fact = NoRow
  /\ told = {}

-----------------------------------------------------------------------------
(* The connection, as MySQL keeps it *)

\* The connection ends; what of an open transaction or of the statement in
\* progress is kept is one of kept.
LinkEnds(kept) ==
  /\ stored' \in kept
  /\ seen' = stored'
  /\ inTxn' = FALSE

\* Outside a transaction a statement is stored at once.
Execute(tables) ==
  /\ seen' = tables
  /\ stored' = IF inTxn THEN stored ELSE tables
  /\ UNCHANGED <<inTxn, link>>

\* START TRANSACTION: it commits what is open.
Begin ==
  /\ stored' = seen /\ inTxn' = TRUE
  /\ UNCHANGED <<seen, link>>

Rollback ==
  /\ seen' = stored /\ inTxn' = FALSE
  /\ UNCHANGED <<stored, link>>

\* What a SELECT answers to a question with the answer b: a DAO answers "no"
\* when it fails.
Asked(b) == {b, FALSE}

-----------------------------------------------------------------------------
(* Requests of one INSERT *)

\* The INSERT is executed and the answer is next; or the connection is lost
\* with it, and the client is told of a database error.
Insert(tables, success) ==
  \/ /\ Execute(tables)
     /\ pc' = "answer" /\ fact' = success
     /\ UNCHANGED <<req, told>>
  \/ /\ LinkEnds({stored, IF inTxn THEN stored ELSE tables})
     /\ link' = FALSE
     /\ UNCHANGED <<pc, req, fact, told>>

\* UserDao::create, FriendDao::createApply and MessageDao::insertText.
CreateUser(u) == [seen EXCEPT !.users = @ \cup {u}]
CreateApply(from, to, i) ==
  [seen EXCEPT !.apply[i] = [from |-> from, to |-> to, status |-> "pending"]]
InsertText(from, to, n) == [seen EXCEPT !.messages[n] = <<from, to>>]

\* handleRegister; the unique index of users refuses a second one.
Register(u) ==
  /\ pc = "idle" /\ link
  /\ u \notin seen.users
  /\ Insert(CreateUser(u), <<"registered", u>>)

\* findUserById, areFriends and hasPendingApply.
UserExists(u) == u \in seen.users
AreFriends(u, v) == <<u, v>> \in seen.friends
HasPendingApply(u, v) ==
  [from |-> u, to |-> v, status |-> "pending"]
    \in {seen.apply[i] : i \in ApplyId}

\* handleAddFriend, up to its insert.
AddFriend(from, to) ==
  /\ pc = "idle" /\ link
  /\ from \in seen.users /\ to # from
  /\ TRUE \in Asked(UserExists(to))
  /\ FALSE \in Asked(AreFriends(from, to))
  /\ FALSE \in Asked(HasPendingApply(from, to))
  /\ \E i \in ApplyId :
       /\ seen.apply[i] = NoRow
       /\ Insert(CreateApply(from, to, i), <<"applied", i>>)

\* handleSendText, up to its insert.
SendText(from, to) ==
  /\ pc = "idle" /\ link
  /\ from \in seen.users /\ to # from
  /\ TRUE \in Asked(UserExists(to))
  /\ TRUE \in Asked(AreFriends(from, to))
  /\ \E n \in MsgId :
       /\ seen.messages[n] = NoRow
       /\ Insert(InsertText(from, to, n), <<"text", n>>)

-----------------------------------------------------------------------------
(* handleAuthFriend: acceptApply and rejectApply *)

\* The row is there, it is for the user, and it is pending.
MayDecide(by, i) ==
  /\ seen.apply[i] # NoRow
  /\ seen.apply[i].to = by /\ seen.apply[i].status = "pending"

\* Faulty variants of the next: no START TRANSACTION; no test of the receiver.
LockNoTransaction(by, i, accept) ==
  /\ pc = "idle" /\ link
  /\ MayDecide(by, i)
  /\ pc' = "update" /\ req' = [by |-> by, id |-> i, accept |-> accept]
  /\ UNCHANGED <<db, fact, told>>

LockAnyone(by, i, accept) ==
  /\ pc = "idle" /\ link
  /\ by \in seen.users
  /\ seen.apply[i] # NoRow
  /\ seen.apply[i].status = "pending"
  /\ Begin
  /\ pc' = "update" /\ req' = [by |-> by, id |-> i, accept |-> accept]
  /\ UNCHANGED <<fact, told>>

\* START TRANSACTION and SELECT ... FOR UPDATE of a row the user may decide.
LockApply(by, i, accept) ==
  /\ pc = "idle" /\ link
  /\ MayDecide(by, i)
  /\ Begin
  /\ pc' = "update" /\ req' = [by |-> by, id |-> i, accept |-> accept]
  /\ UNCHANGED <<fact, told>>

\* Faulty variant of the next: it returns without ROLLBACK.
RefuseKeepsTransaction(by, i) ==
  /\ pc = "idle" /\ link
  /\ by \in seen.users
  /\ ~MayDecide(by, i)
  /\ Begin
  /\ UNCHANGED <<pc, req, fact, told>>

\* The same for another row: ROLLBACK.
RefuseApply(by, i) ==
  /\ pc = "idle" /\ link
  /\ by \in seen.users
  /\ ~MayDecide(by, i)
  /\ stored' = seen /\ inTxn' = FALSE
  /\ UNCHANGED <<seen, link, pc, req, fact, told>>

\* handleAuthFriend, up to the first write.
AuthFriend(by, i, accept) == LockApply(by, i, accept) \/ RefuseApply(by, i)

\* The tables after the UPDATE of a row, and after the INSERT IGNORE of both
\* directions of its friendship.
Decided(t, i, status) == [t EXCEPT !.apply[i].status = status]
Befriended(t, i) ==
  LET row == t.apply[i]
  IN [t EXCEPT !.friends =
        @ \cup {<<row.from, row.to>>, <<row.to, row.from>>}]

\* UPDATE ... SET status = 1 WHERE status = 0, which must change one row.
AcceptUpdate ==
  /\ pc = "update" /\ req.accept
  /\ seen.apply[req.id].status = "pending"
  /\ Execute(Decided(seen, req.id, "accepted"))
  /\ pc' = "insert"
  /\ UNCHANGED <<req, fact, told>>

\* UPDATE ... SET status = 2 WHERE status = 0, which must change one row.
RejectUpdate ==
  /\ pc = "update" /\ ~req.accept
  /\ seen.apply[req.id].status = "pending"
  /\ Execute(Decided(seen, req.id, "rejected"))
  /\ pc' = "commit"
  /\ UNCHANGED <<req, fact, told>>

InsertFriends ==
  /\ pc = "insert"
  /\ Execute(Befriended(seen, req.id))
  /\ pc' = "commit"
  /\ UNCHANGED <<req, fact, told>>

Commit ==
  /\ pc = "commit"
  /\ stored' = seen /\ inTxn' = FALSE
  /\ pc' = "answer" /\ req' = NoRow
  /\ fact' = <<IF req.accept THEN "accepted" ELSE "rejected", req.id>>
  /\ UNCHANGED <<seen, link, told>>

\* Faulty variant of the next: it returns without ROLLBACK.
AbortKeepsTransaction ==
  /\ pc \in {"update", "insert", "commit"}
  /\ pc' = "idle" /\ req' = NoRow
  /\ UNCHANGED <<db, fact, told>>

\* A statement fails: ROLLBACK.
Abort ==
  /\ pc \in {"update", "insert", "commit"}
  /\ Rollback
  /\ pc' = "idle" /\ req' = NoRow
  /\ UNCHANGED <<fact, told>>

\* The connection is lost with the statement; the COMMIT may have been done.
LoseLink ==
  /\ pc \in {"update", "insert", "commit"}
  /\ LinkEnds(IF pc = "commit" THEN {stored, seen} ELSE {stored})
  /\ link' = FALSE
  /\ pc' = "idle" /\ req' = NoRow
  /\ UNCHANGED <<fact, told>>

-----------------------------------------------------------------------------

\* The push to the other user, if it is on line, and the answer.
Answer ==
  /\ pc = "answer"
  /\ told' = told \cup {fact}
  /\ pc' = "idle" /\ fact' = NoRow
  /\ UNCHANGED <<db, req>>

\* The process dies and is started again, with a new connection.
Restart ==
  /\ LinkEnds({stored})
  /\ link' = TRUE
  /\ pc' = "idle" /\ req' = NoRow /\ fact' = NoRow
  /\ UNCHANGED told

Next ==
  \/ \E u \in Uid : Register(u)
  \/ \E u, v \in Uid : AddFriend(u, v) \/ SendText(u, v)
  \/ \E u \in Uid, i \in ApplyId, accept \in BOOLEAN : AuthFriend(u, i, accept)
  \/ AcceptUpdate \/ RejectUpdate \/ InsertFriends \/ Commit \/ Abort \/ LoseLink
  \/ Answer \/ Restart

Spec == Init /\ [][Next]_vars

-----------------------------------------------------------------------------
(* Properties *)

\* Types; between two requests no transaction is open, so that the connection
\* is again in autocommit mode.
TypeOK ==
  /\ stored \in Tables /\ seen \in Tables
  /\ inTxn \in BOOLEAN /\ link \in BOOLEAN
  /\ pc \in {"idle", "update", "insert", "commit", "answer"}
  /\ req \in Decision \cup {NoRow} /\ fact \in Fact \cup {NoRow}
  /\ req # NoRow <=> pc \in {"update", "insert", "commit"}
  /\ fact # NoRow <=> pc = "answer"
  /\ told \subseteq Fact
  /\ inTxn <=> pc \in {"update", "insert", "commit"}

\* The row is an apply between the two that has been accepted.
AcceptedBetween(row, u, v) ==
  /\ row # NoRow /\ row.status = "accepted"
  /\ \/ row.from = u /\ row.to = v
     \/ row.from = v /\ row.to = u

\* Whatever fails and whenever the process dies: two users are friends, in both
\* directions, exactly when an apply between them has been accepted (the
\* transaction of acceptApply), and only friends have exchanged messages.
FriendsMatchApplies ==
  /\ \A u, v \in Uid :
       <<u, v>> \in stored.friends
         <=> \E i \in ApplyId : AcceptedBetween(stored.apply[i], u, v)
  /\ \A n \in MsgId :
       stored.messages[n] # NoRow => stored.messages[n] \in stored.friends

\* What a fact says of the tables.
Holds(f) ==
  CASE f[1] = "registered" -> f[2] \in stored.users
    [] f[1] = "applied"    -> stored.apply[f[2]] # NoRow
    [] f[1] = "text"       -> stored.messages[f[2]] # NoRow
    [] OTHER               -> /\ stored.apply[f[2]] # NoRow
                              /\ stored.apply[f[2]].status = f[1]

\* A success a client has been told of, in the answer or in the push to the
\* other user, survives the end of the connection and of the process, and no
\* later request undoes it: answers and pushes come after the commit.
ToldIsStored == \A f \in told : Holds(f)

\* What an open transaction has changed so far, and that its row cannot have
\* changed meanwhile; and that what is about to be told is stored.  With this
\* the properties above are inductive.
TransactionInv ==
  /\ pc \in {"idle", "update", "answer"} => seen = stored
  /\ pc \in {"update", "insert", "commit"} =>
       /\ stored.apply[req.id] # NoRow
       /\ stored.apply[req.id].status = "pending"
       /\ stored.apply[req.id].to = req.by
  /\ pc = "insert" =>
       req.accept /\ seen = Decided(stored, req.id, "accepted")
  /\ pc = "commit" =>
       seen = IF req.accept
              THEN Befriended(Decided(stored, req.id, "accepted"), req.id)
              ELSE Decided(stored, req.id, "rejected")
  /\ pc = "answer" => Holds(fact)

\* An apply is decided by the user it was sent to, and once.
ReceiverDecidesOnce ==
  [][\A i \in ApplyId :
       LET old == stored.apply[i]
           new == stored'.apply[i]
       IN old # NoRow /\ new # old =>
            /\ old.status = "pending"
            /\ pc = "commit" /\ req.id = i /\ req.by = old.to]_vars

=============================================================================
