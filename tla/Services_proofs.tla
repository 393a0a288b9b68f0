---------------------------- MODULE Services_proofs ----------------------------
(***************************************************************************)
(* Proofs about Services, for any sets of users, applies and messages.     *)
(***************************************************************************)
EXTENDS Services, TLAPS

-----------------------------------------------------------------------------
(* Types *)

Status == {"pending", "accepted", "rejected"}

\* The UPDATE of an apply gives tables, of which only its status is new.
LEMMA DecidedTables ==
  ASSUME NEW t \in Tables, NEW i \in ApplyId, t.apply[i] # NoRow,
         NEW status \in Status
  PROVE  /\ Decided(t, i, status) \in Tables
         /\ Decided(t, i, status).users = t.users
         /\ Decided(t, i, status).friends = t.friends
         /\ Decided(t, i, status).messages = t.messages
         /\ Decided(t, i, status).apply
              = [t.apply EXCEPT ![i] = [from |-> @.from, to |-> @.to,
                                        status |-> status]]
<1>1. t.apply[i] \in Row
  BY DEF Tables
<1>2. [t.apply[i] EXCEPT !.status = status]
        = [from |-> t.apply[i].from, to |-> t.apply[i].to, status |-> status]
  BY <1>1 DEF Row
<1>3. [from |-> t.apply[i].from, to |-> t.apply[i].to, status |-> status] \in Row
  BY <1>1 DEF Row, Status
<1>4. QED BY <1>1, <1>2, <1>3 DEF Tables, Decided

\* The INSERT of a friendship gives tables, of which only friends is new.
LEMMA BefriendedTables ==
  ASSUME NEW t \in Tables, NEW i \in ApplyId, t.apply[i] # NoRow
  PROVE  /\ Befriended(t, i) \in Tables
         /\ Befriended(t, i).users = t.users
         /\ Befriended(t, i).apply = t.apply
         /\ Befriended(t, i).messages = t.messages
         /\ Befriended(t, i).friends
              = t.friends \cup {<<t.apply[i].from, t.apply[i].to>>,
                                <<t.apply[i].to, t.apply[i].from>>}
<1>1. t.apply[i] \in Row
  BY DEF Tables
<1>2. t.apply[i].from \in Uid /\ t.apply[i].to \in Uid
  BY <1>1 DEF Row
<1>3. QED BY <1>2 DEF Tables, Befriended

\* The initial state is well typed.
LEMMA TypeInit == Init => TypeOK
<1> SUFFICES ASSUME Init PROVE TypeOK
  OBVIOUS
<1>1. Empty \in Tables
  BY DEF Empty, Tables
<1>2. QED BY <1>1, ServicesAssumption DEF Init, TypeOK

\* An INSERT keeps the state well typed.
LEMMA TypeInsert ==
  ASSUME TypeOK, pc = "idle", NEW tables \in Tables, NEW success \in Fact,
         Insert(tables, success)
  PROVE  TypeOK'
<1>1. inTxn = FALSE /\ stored \in Tables /\ req = NoRow /\ fact = NoRow
  BY DEF TypeOK
<1>2. CASE Execute(tables) /\ pc' = "answer" /\ fact' = success
           /\ UNCHANGED <<req, told>>
  <2>1. stored' \in Tables /\ seen' \in Tables /\ inTxn' = FALSE /\ link' = link
    BY <1>1, <1>2 DEF Execute
  <2>2. req' = NoRow /\ fact' \in Fact /\ fact' # NoRow /\ told' = told
    BY <1>1, <1>2, ServicesAssumption
  <2>3. QED BY <1>2, <2>1, <2>2 DEF TypeOK
<1>3. CASE LinkEnds({stored, IF inTxn THEN stored ELSE tables})
           /\ link' = FALSE /\ UNCHANGED <<pc, req, fact, told>>
  <2>1. stored' \in Tables /\ seen' \in Tables /\ inTxn' = FALSE
    BY <1>1, <1>3 DEF LinkEnds
  <2>2. QED BY <1>1, <1>3, <2>1 DEF TypeOK
<1>4. QED BY <1>2, <1>3 DEF Insert

\* A decision in progress is about a row that is there.
LEMMA DecisionRow ==
  ASSUME TypeOK, TransactionInv, pc \in {"update", "insert", "commit"}
  PROVE  /\ req \in Decision /\ req.id \in ApplyId
         /\ stored.apply[req.id] # NoRow /\ seen.apply[req.id] # NoRow
<1>1. req \in Decision /\ req.id \in ApplyId
  BY DEF TypeOK, Decision
<1>2. stored \in Tables /\ stored.apply[req.id] # NoRow
  BY DEF TypeOK, TransactionInv
<1>3. stored.apply[req.id] \in Row /\ stored.apply \in [ApplyId -> Row \cup {NoRow}]
  BY <1>1, <1>2 DEF Tables
<1>4. ASSUME NEW status \in Status
      PROVE  Decided(stored, req.id, status).apply[req.id] # NoRow
  <2>1. [from |-> stored.apply[req.id].from, to |-> stored.apply[req.id].to,
         status |-> status] \in Row
    BY <1>3 DEF Row, Status
  <2>2. Decided(stored, req.id, status).apply
          = [stored.apply EXCEPT ![req.id] =
               [from |-> @.from, to |-> @.to, status |-> status]]
    BY <1>1, <1>2, DecidedTables
  <2>3. Decided(stored, req.id, status).apply[req.id] \in Row
    BY <1>1, <1>3, <2>1, <2>2
  <2>4. QED BY <2>3, ServicesAssumption
<1>5. CASE pc = "update"
  BY <1>1, <1>2, <1>5 DEF TransactionInv
<1>6. CASE pc = "insert"
  BY <1>1, <1>4, <1>6 DEF TransactionInv, Status
<1>7. CASE pc = "commit" /\ req.accept
  <2>1. Decided(stored, req.id, "accepted") \in Tables
    BY <1>1, <1>2, DecidedTables DEF Status
  <2>2. Decided(stored, req.id, "accepted").apply[req.id] # NoRow
    BY <1>4 DEF Status
  <2>3. QED BY <1>1, <1>2, <1>7, <2>1, <2>2, BefriendedTables DEF TransactionInv
<1>8. CASE pc = "commit" /\ ~req.accept
  BY <1>1, <1>2, <1>4, <1>8 DEF TransactionInv, Status
<1>9. QED BY <1>5, <1>6, <1>7, <1>8

\* Every step keeps the state well typed.
LEMMA TypeNext == TypeOK /\ TransactionInv /\ [Next]_vars => TypeOK'
<1> SUFFICES ASSUME TypeOK, TransactionInv, [Next]_vars PROVE TypeOK'
  OBVIOUS
<1>0. seen \in Tables /\ stored \in Tables
  BY DEF TypeOK
<1>1. ASSUME NEW u \in Uid, Register(u) PROVE TypeOK'
  <2>1. <<"registered", u>> \in Fact
    BY DEF Fact
  <2>2. CreateUser(u) \in Tables
    BY <1>0 DEF CreateUser, Tables
  <2>3. QED BY <1>1, <2>1, <2>2, TypeInsert DEF Register
<1>2. ASSUME NEW u \in Uid, NEW v \in Uid, AddFriend(u, v) PROVE TypeOK'
  <2>1. PICK i \in ApplyId : Insert(CreateApply(u, v, i), <<"applied", i>>)
    BY <1>2 DEF AddFriend
  <2>2. <<"applied", i>> \in Fact
    BY DEF Fact
  <2>3. [from |-> u, to |-> v, status |-> "pending"] \in Row
    BY DEF Row
  <2>4. CreateApply(u, v, i) \in Tables
    BY <1>0, <2>3 DEF CreateApply, Tables
  <2>5. QED BY <1>2, <2>1, <2>2, <2>4, TypeInsert DEF AddFriend
<1>3. ASSUME NEW u \in Uid, NEW v \in Uid, SendText(u, v) PROVE TypeOK'
  <2>1. PICK n \in MsgId : Insert(InsertText(u, v, n), <<"text", n>>)
    BY <1>3 DEF SendText
  <2>2. <<"text", n>> \in Fact
    BY DEF Fact
  <2>3. InsertText(u, v, n) \in Tables
    BY <1>0 DEF InsertText, Tables
  <2>4. QED BY <1>3, <2>1, <2>2, <2>3, TypeInsert DEF SendText
<1>4. ASSUME NEW u \in Uid, NEW i \in ApplyId, NEW accept \in BOOLEAN,
             LockApply(u, i, accept)
      PROVE  TypeOK'
  <2>1. [by |-> u, id |-> i, accept |-> accept] \in Decision
    BY DEF Decision
  <2>2. QED BY <1>4, <2>1, ServicesAssumption DEF LockApply, Begin, TypeOK
<1>5. ASSUME NEW u \in Uid, NEW i \in ApplyId, RefuseApply(u, i) PROVE TypeOK'
  BY <1>5 DEF RefuseApply, TypeOK
<1>6. CASE AcceptUpdate
  <2>1. Decided(seen, req.id, "accepted") \in Tables
    BY <1>0, <1>6, DecisionRow, DecidedTables DEF AcceptUpdate, Status
  <2>2. QED BY <1>6, <2>1 DEF AcceptUpdate, Execute, TypeOK
<1>7. CASE RejectUpdate
  <2>1. Decided(seen, req.id, "rejected") \in Tables
    BY <1>0, <1>7, DecisionRow, DecidedTables DEF RejectUpdate, Status
  <2>2. QED BY <1>7, <2>1 DEF RejectUpdate, Execute, TypeOK
<1>8. CASE InsertFriends
  <2>1. Befriended(seen, req.id) \in Tables
    BY <1>0, <1>8, DecisionRow, BefriendedTables DEF InsertFriends
  <2>2. QED BY <1>8, <2>1 DEF InsertFriends, Execute, TypeOK
<1>9. CASE Commit
  <2>1. req \in Decision
    BY <1>9 DEF Commit, TypeOK
  <2>2. <<IF req.accept THEN "accepted" ELSE "rejected", req.id>> \in Fact
    BY <2>1 DEF Decision, Fact
  <2>3. QED BY <1>9, <2>2, ServicesAssumption DEF Commit, TypeOK
<1>10. CASE Abort
  BY <1>10 DEF Abort, Rollback, TypeOK
<1>11. CASE LoseLink
  <2>1. stored' \in Tables
    BY <1>0, <1>11 DEF LoseLink, LinkEnds
  <2>2. QED BY <1>11, <2>1 DEF LoseLink, LinkEnds, TypeOK
<1>12. CASE Answer
  BY <1>12 DEF Answer, db, TypeOK
<1>13. CASE Restart
  BY <1>0, <1>13 DEF Restart, LinkEnds, TypeOK
<1>14. CASE UNCHANGED vars
  BY <1>14 DEF vars, db, TypeOK
<1>15. QED
  BY <1>1, <1>2, <1>3, <1>4, <1>5, <1>6, <1>7, <1>8, <1>9, <1>10, <1>11,
     <1>12, <1>13, <1>14 DEF Next, AuthFriend

-----------------------------------------------------------------------------
(* What an open transaction has changed *)

\* The initial state has no transaction open.
LEMMA TransactionInit == Init => TransactionInv
BY DEF Init, TransactionInv

\* After an INSERT both views of the tables are the same.
LEMMA TransactionInsert ==
  ASSUME TypeOK, pc = "idle", NEW tables, NEW success, Insert(tables, success),
         stored' = tables => Holds(success)'
  PROVE  TransactionInv'
<1>1. inTxn = FALSE
  BY DEF TypeOK
<1>2. CASE Execute(tables) /\ pc' = "answer" /\ fact' = success
  <2>1. seen' = stored' /\ stored' = tables
    BY <1>1, <1>2 DEF Execute
  <2>2. Holds(fact)'
    BY <1>2, <2>1 DEF Holds
  <2>3. QED BY <1>2, <2>1, <2>2 DEF TransactionInv
<1>3. CASE LinkEnds({stored, IF inTxn THEN stored ELSE tables})
           /\ UNCHANGED <<pc, req, fact, told>>
  BY <1>3 DEF LinkEnds, TransactionInv
<1>4. QED BY <1>2, <1>3 DEF Insert

\* What the decided row is after a COMMIT.
LEMMA CommittedRow ==
  ASSUME TypeOK, TransactionInv, pc = "commit"
  PROVE  /\ seen.users = stored.users /\ seen.messages = stored.messages
         /\ seen.friends = IF req.accept
                           THEN stored.friends \cup
                                  {<<stored.apply[req.id].from, stored.apply[req.id].to>>,
                                   <<stored.apply[req.id].to, stored.apply[req.id].from>>}
                           ELSE stored.friends
         /\ seen.apply = [stored.apply EXCEPT ![req.id] =
              [from |-> @.from, to |-> @.to,
               status |-> IF req.accept THEN "accepted" ELSE "rejected"]]
<1>1. req.id \in ApplyId /\ stored \in Tables /\ stored.apply[req.id] # NoRow
  BY DecisionRow DEF TypeOK
<1>2. stored.apply \in [ApplyId -> Row \cup {NoRow}]
  BY <1>1 DEF Tables
<1>3. CASE req.accept
  <2> DEFINE t == Decided(stored, req.id, "accepted")
  <2>1. /\ t \in Tables /\ t.users = stored.users
        /\ t.friends = stored.friends /\ t.messages = stored.messages
        /\ t.apply = [stored.apply EXCEPT ![req.id] =
             [from |-> @.from, to |-> @.to, status |-> "accepted"]]
    BY <1>1, DecidedTables DEF Status
  <2>2. t.apply[req.id] = [from |-> stored.apply[req.id].from,
                           to |-> stored.apply[req.id].to, status |-> "accepted"]
    BY <1>1, <1>2, <2>1
  <2>3. t.apply[req.id] \in Row
    BY <1>1, <1>2, <2>2 DEF Row
  <2>4. t.apply[req.id] # NoRow
    BY <2>3, ServicesAssumption
  <2>5. seen = Befriended(t, req.id)
    BY <1>3 DEF TransactionInv
  <2>6. t.apply[req.id].from = stored.apply[req.id].from
        /\ t.apply[req.id].to = stored.apply[req.id].to
    BY <2>2
  <2> HIDE DEF t
  <2>7. /\ seen.users = t.users /\ seen.apply = t.apply
        /\ seen.messages = t.messages
        /\ seen.friends = t.friends \cup {<<t.apply[req.id].from, t.apply[req.id].to>>,
                                          <<t.apply[req.id].to, t.apply[req.id].from>>}
    BY <1>1, <2>1, <2>4, <2>5, BefriendedTables
  <2>8. seen.apply = [stored.apply EXCEPT ![req.id] =
             [from |-> @.from, to |-> @.to, status |-> "accepted"]]
    BY <2>1, <2>7
  <2>9. QED BY <1>3, <2>1, <2>6, <2>7, <2>8
<1>4. CASE ~req.accept
  <2>1. seen = Decided(stored, req.id, "rejected")
    BY <1>4 DEF TransactionInv
  <2>2. QED BY <1>1, <1>4, <2>1, DecidedTables DEF Status
<1>5. QED BY <1>3, <1>4

\* Every step keeps TransactionInv.
LEMMA TransactionNext ==
  TypeOK /\ TransactionInv /\ [Next]_vars => TransactionInv'
<1> SUFFICES ASSUME TypeOK, TransactionInv, [Next]_vars PROVE TransactionInv'
  OBVIOUS
<1>0. seen \in Tables /\ stored \in Tables
  BY DEF TypeOK
<1>1. ASSUME NEW u \in Uid, Register(u) PROVE TransactionInv'
  <2>1. stored' = CreateUser(u) => Holds(<<"registered", u>>)'
    BY <1>0 DEF CreateUser, Holds, Tables
  <2>2. QED BY <1>1, <2>1, TransactionInsert DEF Register
<1>2. ASSUME NEW u \in Uid, NEW v \in Uid, AddFriend(u, v) PROVE TransactionInv'
  <2>1. PICK i \in ApplyId : Insert(CreateApply(u, v, i), <<"applied", i>>)
    BY <1>2 DEF AddFriend
  <2>2. [from |-> u, to |-> v, status |-> "pending"] # NoRow
    BY ServicesAssumption DEF Row
  <2>3. stored' = CreateApply(u, v, i) => Holds(<<"applied", i>>)'
    BY <1>0, <2>2 DEF CreateApply, Holds, Tables
  <2>4. QED BY <1>2, <2>1, <2>3, TransactionInsert DEF AddFriend
<1>3. ASSUME NEW u \in Uid, NEW v \in Uid, SendText(u, v) PROVE TransactionInv'
  <2>1. PICK n \in MsgId : Insert(InsertText(u, v, n), <<"text", n>>)
    BY <1>3 DEF SendText
  <2>2. <<u, v>> # NoRow
    BY ServicesAssumption
  <2>3. stored' = InsertText(u, v, n) => Holds(<<"text", n>>)'
    BY <1>0, <2>2 DEF InsertText, Holds, Tables
  <2>4. QED BY <1>3, <2>1, <2>3, TransactionInsert DEF SendText
<1>4. ASSUME NEW u \in Uid, NEW i \in ApplyId, NEW accept \in BOOLEAN,
             LockApply(u, i, accept)
      PROVE  TransactionInv'
  BY <1>4 DEF LockApply, MayDecide, Begin, TransactionInv
<1>5. ASSUME NEW u \in Uid, NEW i \in ApplyId, RefuseApply(u, i)
      PROVE  TransactionInv'
  BY <1>5 DEF RefuseApply, TransactionInv
<1>6. CASE AcceptUpdate
  BY <1>6 DEF AcceptUpdate, Execute, TransactionInv, TypeOK
<1>7. CASE RejectUpdate
  BY <1>7 DEF RejectUpdate, Execute, TransactionInv, TypeOK
<1>8. CASE InsertFriends
  BY <1>8 DEF InsertFriends, Execute, TransactionInv, TypeOK
<1>9. CASE Commit
  <2>1. pc' = "answer" /\ stored' = seen /\ seen' = seen
        /\ fact' = <<IF req.accept THEN "accepted" ELSE "rejected", req.id>>
    BY <1>9 DEF Commit
  <2>2. pc = "commit" /\ req.id \in ApplyId
    BY <1>9, DecisionRow DEF Commit
  <2>3. seen.apply[req.id] # NoRow
    BY <2>2, DecisionRow
  <2>4. stored.apply \in [ApplyId -> Row \cup {NoRow}]
    BY <1>0 DEF Tables
  <2>5. seen.apply[req.id].status = IF req.accept THEN "accepted" ELSE "rejected"
    BY <2>2, <2>4, CommittedRow
  <2>6. Holds(fact)'
    BY <2>1, <2>3, <2>5 DEF Holds
  <2>7. QED BY <2>1, <2>6 DEF TransactionInv
<1>10. CASE Abort
  BY <1>10 DEF Abort, Rollback, TransactionInv
<1>11. CASE LoseLink
  BY <1>11 DEF LoseLink, LinkEnds, TransactionInv
<1>12. CASE Answer
  BY <1>12 DEF Answer, db, TransactionInv
<1>13. CASE Restart
  BY <1>13 DEF Restart, LinkEnds, TransactionInv
<1>14. CASE UNCHANGED vars
  BY <1>14 DEF vars, db, TransactionInv, Holds
<1>15. QED
  BY <1>1, <1>2, <1>3, <1>4, <1>5, <1>6, <1>7, <1>8, <1>9, <1>10, <1>11,
     <1>12, <1>13, <1>14 DEF Next, AuthFriend

\* Types, in every reachable state: among them that a transaction is open
\* exactly from the lock of an apply to the end of its transaction.
THEOREM TypeCorrect == Spec => []TypeOK
<1>1. Init => TypeOK /\ TransactionInv
  BY TypeInit, TransactionInit
<1>2. TypeOK /\ TransactionInv /\ [Next]_vars => (TypeOK /\ TransactionInv)'
  BY TypeNext, TransactionNext
<1>3. QED BY <1>1, <1>2, PTL DEF Spec

-----------------------------------------------------------------------------
(* How the stored tables change *)

\* One row more: a user, an apply, a text message between friends.
NewUser(s, t) == \E u \in Uid : t = [s EXCEPT !.users = @ \cup {u}]
NewApply(s, t) ==
  \E u, v \in Uid, i \in ApplyId :
    /\ s.apply[i] = NoRow
    /\ t = [s EXCEPT !.apply[i] = [from |-> u, to |-> v, status |-> "pending"]]
NewText(s, t) ==
  \E u, v \in Uid, n \in MsgId :
    /\ s.messages[n] = NoRow /\ <<u, v>> \in s.friends
    /\ t = [s EXCEPT !.messages[n] = <<u, v>>]

\* A step leaves the stored tables alone, inserts one row, or stores what a
\* transaction has done.
LEMMA StoredStep ==
  ASSUME TypeOK, TransactionInv, [Next]_vars
  PROVE  \/ stored' = stored
         \/ NewUser(stored, stored') \/ NewApply(stored, stored')
         \/ NewText(stored, stored')
         \/ pc = "commit" /\ stored' = seen
<1>0. ASSUME NEW tables, NEW success, pc = "idle", Insert(tables, success)
      PROVE  stored' = stored \/ stored' = tables
  BY <1>0 DEF Insert, Execute, LinkEnds, TypeOK
<1>1. ASSUME NEW u \in Uid, Register(u)
      PROVE  stored' = stored \/ NewUser(stored, stored')
  <2>1. seen = stored
    BY <1>1 DEF Register, TransactionInv
  <2>2. stored' = stored \/ stored' = CreateUser(u)
    BY <1>0, <1>1 DEF Register
  <2>3. QED BY <2>1, <2>2 DEF CreateUser, NewUser
<1>2. ASSUME NEW u \in Uid, NEW v \in Uid, AddFriend(u, v)
      PROVE  stored' = stored \/ NewApply(stored, stored')
  <2>1. seen = stored
    BY <1>2 DEF AddFriend, TransactionInv
  <2>2. PICK i \in ApplyId : /\ seen.apply[i] = NoRow
                             /\ Insert(CreateApply(u, v, i), <<"applied", i>>)
    BY <1>2 DEF AddFriend
  <2>3. stored' = stored \/ stored' = CreateApply(u, v, i)
    BY <1>0, <1>2, <2>2 DEF AddFriend
  <2>4. QED BY <2>1, <2>2, <2>3 DEF CreateApply, NewApply
<1>3. ASSUME NEW u \in Uid, NEW v \in Uid, SendText(u, v)
      PROVE  stored' = stored \/ NewText(stored, stored')
  <2>1. seen = stored
    BY <1>3 DEF SendText, TransactionInv
  <2>2. PICK n \in MsgId : /\ seen.messages[n] = NoRow
                           /\ Insert(InsertText(u, v, n), <<"text", n>>)
    BY <1>3 DEF SendText
  <2>3. stored' = stored \/ stored' = InsertText(u, v, n)
    BY <1>0, <1>3, <2>2 DEF SendText
  <2>4. <<u, v>> \in seen.friends
    BY <1>3 DEF SendText, Asked, AreFriends
  <2>5. QED BY <2>1, <2>2, <2>3, <2>4 DEF InsertText, NewText
<1>4. ASSUME NEW u \in Uid, NEW i \in ApplyId, NEW accept \in BOOLEAN,
             AuthFriend(u, i, accept)
      PROVE  stored' = stored
  BY <1>4 DEF AuthFriend, LockApply, RefuseApply, Begin, TransactionInv
<1>5. CASE AcceptUpdate \/ RejectUpdate \/ InsertFriends
  BY <1>5 DEF AcceptUpdate, RejectUpdate, InsertFriends, Execute, TypeOK
<1>6. CASE Commit
  BY <1>6 DEF Commit
<1>7. CASE Abort \/ Answer \/ Restart \/ UNCHANGED vars
  BY <1>7 DEF Abort, Rollback, Answer, Restart, LinkEnds, vars, db
<1>8. CASE LoseLink
  BY <1>8 DEF LoseLink, LinkEnds
<1>9. QED
  BY <1>1, <1>2, <1>3, <1>4, <1>5, <1>6, <1>7, <1>8 DEF Next

-----------------------------------------------------------------------------
(* Friendship and messages *)

\* The empty tables match: no friends, no applies.
LEMMA FriendsInit == Init => FriendsMatchApplies
BY DEF Init, Empty, FriendsMatchApplies, AcceptedBetween

\* Every step keeps FriendsMatchApplies: only a commit and a text message touch
\* what it relates.
LEMMA FriendsNext ==
  TypeOK /\ TransactionInv /\ FriendsMatchApplies /\ [Next]_vars
    => FriendsMatchApplies'
<1> SUFFICES ASSUME TypeOK, TransactionInv, FriendsMatchApplies, [Next]_vars
             PROVE  FriendsMatchApplies'
  OBVIOUS
<1>0. /\ stored \in Tables
      /\ stored.apply \in [ApplyId -> Row \cup {NoRow}]
      /\ stored.messages \in [MsgId -> (Uid \X Uid) \cup {NoRow}]
  BY DEF TypeOK, Tables
<1>1. CASE stored' = stored
  BY <1>1 DEF FriendsMatchApplies
<1>2. CASE NewUser(stored, stored')
  <2>1. /\ stored'.apply = stored.apply /\ stored'.friends = stored.friends
        /\ stored'.messages = stored.messages
    BY <1>0, <1>2 DEF NewUser, Tables
  <2>2. QED BY <2>1 DEF FriendsMatchApplies
<1>3. CASE NewApply(stored, stored')
  <2>1. PICK u \in Uid, v \in Uid, i \in ApplyId :
          /\ stored.apply[i] = NoRow
          /\ stored' = [stored EXCEPT !.apply[i] =
                          [from |-> u, to |-> v, status |-> "pending"]]
    BY <1>3 DEF NewApply
  <2>2. /\ stored'.friends = stored.friends /\ stored'.messages = stored.messages
        /\ stored'.apply = [stored.apply EXCEPT ![i] =
                              [from |-> u, to |-> v, status |-> "pending"]]
    BY <1>0, <2>1 DEF Tables
  <2>3. ASSUME NEW j \in ApplyId, NEW a \in Uid, NEW b \in Uid
        PROVE  AcceptedBetween(stored'.apply[j], a, b)
                 <=> AcceptedBetween(stored.apply[j], a, b)
    BY <1>0, <2>1, <2>2 DEF AcceptedBetween
  <2>4. QED BY <2>2, <2>3 DEF FriendsMatchApplies
<1>4. CASE NewText(stored, stored')
  <2>1. PICK u \in Uid, v \in Uid, n \in MsgId :
          /\ stored.messages[n] = NoRow /\ <<u, v>> \in stored.friends
          /\ stored' = [stored EXCEPT !.messages[n] = <<u, v>>]
    BY <1>4 DEF NewText
  <2>2. /\ stored'.apply = stored.apply /\ stored'.friends = stored.friends
        /\ stored'.messages = [stored.messages EXCEPT ![n] = <<u, v>>]
    BY <1>0, <2>1 DEF Tables
  <2>3. QED BY <1>0, <2>1, <2>2 DEF FriendsMatchApplies
<1>5. CASE pc = "commit" /\ stored' = seen
  <2> DEFINE row == stored.apply[req.id]
             new == [from |-> row.from, to |-> row.to,
                     status |-> IF req.accept THEN "accepted" ELSE "rejected"]
  <2>1. /\ req.id \in ApplyId /\ row \in Row /\ row.status = "pending"
        /\ row # NoRow
    BY <1>0, <1>5, DecisionRow DEF TransactionInv
  <2>2. /\ stored'.messages = stored.messages
        /\ stored'.friends = IF req.accept
                             THEN stored.friends \cup {<<row.from, row.to>>,
                                                       <<row.to, row.from>>}
                             ELSE stored.friends
        /\ stored'.apply = [stored.apply EXCEPT ![req.id] = new]
    BY <1>5, CommittedRow
  <2>3. new \in Row /\ new # NoRow
    BY <2>1, ServicesAssumption DEF Row
  <2>4. /\ stored'.apply[req.id] = new
        /\ \A j \in ApplyId : j # req.id => stored'.apply[j] = stored.apply[j]
    BY <1>0, <2>1, <2>2
  <2>5. ASSUME NEW a \in Uid, NEW b \in Uid
        PROVE  /\ ~AcceptedBetween(row, a, b)
               /\ AcceptedBetween(new, a, b)
                    <=> req.accept /\ <<a, b>> \in {<<row.from, row.to>>,
                                                    <<row.to, row.from>>}
    BY <2>1, <2>3 DEF AcceptedBetween
  <2>6. ASSUME NEW a \in Uid, NEW b \in Uid
        PROVE  <<a, b>> \in stored'.friends
                 <=> \E i \in ApplyId : AcceptedBetween(stored'.apply[i], a, b)
    <3>1. <<a, b>> \in stored.friends
            <=> \E i \in ApplyId : AcceptedBetween(stored.apply[i], a, b)
      BY DEF FriendsMatchApplies
    <3>2. <<a, b>> \in stored'.friends
            <=> <<a, b>> \in stored.friends \/ AcceptedBetween(new, a, b)
      BY <2>2, <2>5
    <3>3. (\E i \in ApplyId : AcceptedBetween(stored'.apply[i], a, b))
            <=> \/ \E i \in ApplyId : AcceptedBetween(stored.apply[i], a, b)
                \/ AcceptedBetween(new, a, b)
      <4> HIDE DEF new
      <4>1. QED BY <2>1, <2>4, <2>5
    <3>4. QED BY <3>1, <3>2, <3>3
  <2>7. \A n \in MsgId :
          stored'.messages[n] # NoRow => stored'.messages[n] \in stored'.friends
    BY <2>2 DEF FriendsMatchApplies
  <2>8. QED BY <2>6, <2>7 DEF FriendsMatchApplies
<1>6. QED BY <1>1, <1>2, <1>3, <1>4, <1>5, StoredStep

\* Whatever fails, friends are exactly those between whom an apply has been
\* accepted, in both directions, and only friends have exchanged messages.
THEOREM FriendshipIsMutual == Spec => []FriendsMatchApplies
<1>1. Init => TypeOK /\ TransactionInv /\ FriendsMatchApplies
  BY TypeInit, TransactionInit, FriendsInit
<1>2. TypeOK /\ TransactionInv /\ FriendsMatchApplies /\ [Next]_vars
        => (TypeOK /\ TransactionInv /\ FriendsMatchApplies)'
  BY TypeNext, TransactionNext, FriendsNext
<1>3. QED BY <1>1, <1>2, PTL DEF Spec

-----------------------------------------------------------------------------
(* What has been told *)

\* What holds of the stored tables holds after every step.
LEMMA HoldsOn ==
  ASSUME TypeOK, TransactionInv, [Next]_vars, NEW f \in Fact, Holds(f)
  PROVE  Holds(f)'
<1>0. /\ stored \in Tables
      /\ stored.apply \in [ApplyId -> Row \cup {NoRow}]
      /\ stored.messages \in [MsgId -> (Uid \X Uid) \cup {NoRow}]
  BY DEF TypeOK, Tables
<1>1. CASE stored' = stored
  BY <1>1 DEF Holds
<1>2. CASE NewUser(stored, stored')
  <2>1. /\ stored'.apply = stored.apply /\ stored.users \subseteq stored'.users
        /\ stored'.messages = stored.messages
    BY <1>0, <1>2 DEF NewUser, Tables
  <2>2. QED BY <2>1 DEF Holds
<1>3. CASE NewApply(stored, stored')
  <2>1. /\ stored'.users = stored.users /\ stored'.messages = stored.messages
        /\ \A i \in ApplyId :
             stored.apply[i] # NoRow => stored'.apply[i] = stored.apply[i]
    BY <1>0, <1>3 DEF NewApply, Tables
  <2>2. QED BY <2>1 DEF Holds, Fact
<1>4. CASE NewText(stored, stored')
  <2>1. /\ stored'.users = stored.users /\ stored'.apply = stored.apply
        /\ \A n \in MsgId :
             stored.messages[n] # NoRow => stored'.messages[n] = stored.messages[n]
    BY <1>0, <1>4 DEF NewText, Tables
  <2>2. QED BY <2>1 DEF Holds, Fact
<1>5. CASE pc = "commit" /\ stored' = seen
  <2>1. /\ stored'.users = stored.users /\ stored'.messages = stored.messages
        /\ req.id \in ApplyId /\ stored.apply[req.id].status = "pending"
        /\ stored'.apply[req.id] # NoRow
    BY <1>5, CommittedRow, DecisionRow DEF TransactionInv
  <2>2. \A i \in ApplyId : i # req.id => stored'.apply[i] = stored.apply[i]
    BY <1>0, <1>5, <2>1, CommittedRow
  <2>3. QED BY <2>1, <2>2 DEF Holds, Fact
<1>6. QED BY <1>1, <1>2, <1>3, <1>4, <1>5, StoredStep

\* Every step keeps ToldIsStored: what was told still holds, and what Answer
\* tells holds because it is told after the commit.
LEMMA ToldNext ==
  TypeOK /\ TransactionInv /\ ToldIsStored /\ [Next]_vars => ToldIsStored'
<1> SUFFICES ASSUME TypeOK, TransactionInv, ToldIsStored, [Next]_vars
             PROVE  ToldIsStored'
  OBVIOUS
<1>1. CASE told' = told
  BY <1>1, HoldsOn DEF ToldIsStored, TypeOK
<1>2. CASE Answer
  <2>1. told' = told \cup {fact} /\ fact \in Fact /\ Holds(fact)
    BY <1>2 DEF Answer, TypeOK, TransactionInv
  <2>2. QED BY <2>1, HoldsOn DEF ToldIsStored, TypeOK
<1>3. told' = told \/ Answer
  BY DEF Next, Register, AddFriend, SendText, Insert, AuthFriend, LockApply,
         RefuseApply, AcceptUpdate, RejectUpdate, InsertFriends, Commit, Abort,
         LoseLink, Restart, vars
<1>4. QED BY <1>1, <1>2, <1>3

\* No success a client has been told of is ever lost: not with the connection
\* to the database, not with the process, not by a later request.
THEOREM ToldIsNeverLost == Spec => []ToldIsStored
<1>1. Init => TypeOK /\ TransactionInv /\ ToldIsStored
  BY TypeInit, TransactionInit DEF Init, ToldIsStored
<1>2. TypeOK /\ TransactionInv /\ ToldIsStored /\ [Next]_vars
        => (TypeOK /\ TransactionInv /\ ToldIsStored)'
  BY TypeNext, TransactionNext, ToldNext
<1>3. QED BY <1>1, <1>2, PTL DEF Spec

-----------------------------------------------------------------------------
(* Decisions *)

\* An apply that is there changes in a commit only, from pending, and by the
\* decision of the user it was sent to.
THEOREM DecidedByReceiver == Spec => ReceiverDecidesOnce
<1> DEFINE Decides ==
      \A i \in ApplyId :
        LET old == stored.apply[i]
            new == stored'.apply[i]
        IN old # NoRow /\ new # old =>
             /\ old.status = "pending"
             /\ pc = "commit" /\ req.id = i /\ req.by = old.to
<1>1. TypeOK /\ TransactionInv /\ [Next]_vars => Decides
  <2> SUFFICES ASSUME TypeOK, TransactionInv, [Next]_vars,
                      NEW i \in ApplyId,
                      stored.apply[i] # NoRow, stored'.apply[i] # stored.apply[i]
               PROVE  /\ stored.apply[i].status = "pending"
                      /\ pc = "commit" /\ req.id = i /\ req.by = stored.apply[i].to
    OBVIOUS
  <2>0. stored \in Tables /\ stored.apply \in [ApplyId -> Row \cup {NoRow}]
    BY DEF TypeOK, Tables
  <2>1. ~NewUser(stored, stored')
    BY <2>0 DEF NewUser, Tables
  <2>2. ~NewApply(stored, stored')
    BY <2>0 DEF NewApply, Tables
  <2>3. ~NewText(stored, stored')
    BY <2>0 DEF NewText, Tables
  <2>4. pc = "commit" /\ stored' = seen
    BY <2>1, <2>2, <2>3, StoredStep
  <2>5. req.id = i
    BY <2>0, <2>4, CommittedRow
  <2>6. QED BY <2>4, <2>5 DEF TransactionInv
<1>2. Init => TypeOK /\ TransactionInv
  BY TypeInit, TransactionInit
<1>3. TypeOK /\ TransactionInv /\ [Next]_vars => (TypeOK /\ TransactionInv)'
  BY TypeNext, TransactionNext
<1>4. QED
  BY <1>1, <1>2, <1>3, PTL DEF Spec, ReceiverDecidesOnce
=============================================================================
