CONSTANTS
  Uid = {u1, u2, u3}
  ApplyId = {1, 2}
  MsgId = {1}
  NoRow = NoRow
SPECIFICATION Spec
INVARIANTS TypeOK FriendsMatchApplies ToldIsStored
PROPERTY ReceiverDecidesOnce
