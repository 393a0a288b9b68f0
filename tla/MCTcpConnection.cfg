\* Three bytes to send, short writes of any length, two chunks to read one by one.
CONSTANTS
  MaxBytes = 3
  MaxChunks = 2
  ReadMax = 1
  MaxPosts = 2
SPECIFICATION Spec
INVARIANTS TypeOK ChannelFollowsState
PROPERTIES ImplementsByteStream StreamsAreFinished
\* a connection that is down stays down
CHECK_DEADLOCK FALSE
