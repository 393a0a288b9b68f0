---------------------------- MODULE TcpConnection ----------------------------
(***************************************************************************)
(* One TcpConnection (src/net/TcpConnection.cpp) on the thread of its loop:*)
(* the states it goes through, its output buffer, the interest it has      *)
(* registered with the poller, the half-close of shutdown(), and what the  *)
(* peer, the user's callbacks and other threads can do to it meanwhile.    *)
(*                                                                         *)
(* The handlers run one at a time on the loop's thread, and end with the   *)
(* user's callbacks; the calls the user makes there are steps of their own.*)
(* The connection callback for "down" is not: in kDisconnected every call  *)
(* it could make does nothing.  Who owns the object is in TcpServer.       *)
(***************************************************************************)
EXTENDS Naturals, Sequences

CONSTANTS
  MaxBytes,   \* bound: bytes the user offers to send
  MaxChunks,  \* bound: chunks the peer sends
  ReadMax,    \* how many chunks one readFd takes at most
  MaxPosts    \* bound: calls made from other threads

ASSUME ConnectionAssumption ==
  /\ MaxBytes \in Nat
  /\ MaxChunks \in Nat
  /\ ReadMax \in Nat \ {0}
  /\ MaxPosts \in Nat

VARIABLES
  state,      \* state_
  events,     \* the channel's events_: "R", "W"
  out,        \* outputBuffer_
  wire,       \* bytes the kernel has taken
  fin,        \* shutdown(SHUT_WR) was done on the socket
  accepted,   \* bytes accepted by sendInLoop; the next byte is accepted + 1
  posted,     \* functors of other threads in the loop's queue
  posts,      \* how many they have posted
  pc,         \* "poll", "dispatch", or in a callback: "message", "written"
  revents,    \* events of this dispatch that are not handled yet
  inq,        \* chunks in the kernel's receive queue
  peerSent,   \* chunks the peer has sent
  received,   \* chunks handed to the message callback
  peer,       \* "open", "fin", "reset"
  downs       \* calls of the connection callback for "down" and closeCallback_

userSide == <<posted, posts>>
peerSide == <<inq, peerSent, received, peer>>
sending  == <<out, wire, accepted>>
vars == <<state, events, out, wire, fin, accepted, posted, posts, pc, revents,
          inq, peerSent, received, peer, downs>>

Init ==
  /\ state = "kConnecting"
  /\ events = {}
  /\ out = <<>> /\ wire = <<>> /\ accepted = 0
  /\ fin = FALSE
  /\ posted = <<>> /\ posts = 0
  /\ pc = "poll"
  /\ revents = {}
  /\ inq = 0 /\ peerSent = 0 /\ received = 0
  /\ peer = "open"
  /\ downs = 0

\* connectEstablished
ConnectEstablished ==
  /\ state = "kConnecting"
  /\ state' = "kConnected"
  /\ events' = {"R"}
  /\ UNCHANGED <<sending, fin, userSide, pc, revents, peerSide, downs>>

-----------------------------------------------------------------------------
(* The functions that run on the loop's thread *)

\* handleClose, and forceCloseInLoop which does the same.
HandleClose ==
  IF state = "kDisconnected"
  THEN UNCHANGED <<state, events, downs>>
  ELSE state' = "kDisconnected" /\ events' = {} /\ downs' = downs + 1

Bytes(n) == [i \in 1 .. n |-> accepted + i]
First(s, k) == SubSeq(s, 1, k)
Rest(s, k) == SubSeq(s, k + 1, Len(s))

\* sendInLoop's test for a direct write.
CanWriteNow == out = <<>> /\ "W" \notin events

\* sendInLoop, for n > 0 bytes: dropped, written at once as far as the kernel
\* takes them (k bytes; 0 for EAGAIN), or queued behind what is queued already.
SendInLoop(n) ==
  \/ /\ state \in {"kDisconnected", "kDisconnecting"}
     /\ UNCHANGED <<state, events, sending, downs>>
  \/ /\ state \notin {"kDisconnected", "kDisconnecting"}
     /\ CanWriteNow /\ peer # "reset"
     /\ \E k \in 0 .. n :
          /\ wire' = wire \o First(Bytes(n), k)
          /\ out' = out \o Rest(Bytes(n), k)
          /\ events' = IF k < n THEN events \cup {"W"} ELSE events
     /\ accepted' = accepted + n
     /\ UNCHANGED <<state, downs>>
  \/ /\ state \notin {"kDisconnected", "kDisconnecting"}
     /\ CanWriteNow /\ peer = "reset"
     /\ HandleClose
     /\ UNCHANGED sending
  \/ /\ state \notin {"kDisconnected", "kDisconnecting"}
     /\ ~CanWriteNow
     /\ out' = out \o Bytes(n)
     /\ events' = events \cup {"W"}
     /\ accepted' = accepted + n
     /\ UNCHANGED <<state, wire, downs>>

\* Faulty variant: shutdownInLoop does not wait for the output buffer.
ShutdownAtOnce ==
  IF state \in {"kDisconnected", "kConnecting"}
  THEN UNCHANGED <<state, events, fin>>
  ELSE state' = "kDisconnecting" /\ fin' = TRUE /\ UNCHANGED events

\* shutdownInLoop
ShutdownInLoop ==
  IF state \in {"kDisconnected", "kConnecting"}
  THEN UNCHANGED <<state, events, fin>>
  ELSE /\ state' = "kDisconnecting"
       /\ fin' = (fin \/ (out = <<>> /\ "W" \notin events))
       /\ events' = IF out # <<>> THEN events \cup {"W"} ELSE events

-----------------------------------------------------------------------------
(* The user: callbacks on the loop's thread, and other threads *)

\* Calls on the loop's thread come from the connection's own callbacks, or
\* between its events from those of other connections and timers.
InLoopCall == pc \in {"poll", "message", "written"} /\ state # "kConnecting"

\* Bytes that functors in the queue will offer, one each.
PostedBytes == Len(SelectSeq(posted, LAMBDA call : call = "send"))

UserSend(n) ==
  /\ InLoopCall
  /\ accepted + PostedBytes + n <= MaxBytes
  /\ SendInLoop(n)
  /\ UNCHANGED <<fin, userSide, pc, revents, peerSide>>

UserShutdown ==
  /\ InLoopCall
  /\ ShutdownInLoop
  /\ UNCHANGED <<sending, userSide, pc, revents, peerSide, downs>>

UserForceClose ==
  /\ InLoopCall
  /\ HandleClose
  /\ UNCHANGED <<sending, fin, userSide, pc, revents, peerSide>>

\* send, shutdown and forceClose from another thread post a functor.
Post(call) ==
  /\ posts < MaxPosts
  /\ state # "kConnecting"
  /\ call = "send" => /\ state # "kDisconnected"
                      /\ accepted + PostedBytes < MaxBytes
  /\ posted' = Append(posted, call)
  /\ posts' = posts + 1
  /\ UNCHANGED <<state, events, sending, fin, pc, revents, peerSide, downs>>

RunPosted ==
  /\ pc = "poll"
  /\ posted # <<>>
  /\ posted' = Tail(posted)
  /\ CASE Head(posted) = "send" -> SendInLoop(1) /\ UNCHANGED fin
       [] Head(posted) = "shutdown" -> ShutdownInLoop /\ UNCHANGED <<sending, downs>>
       [] Head(posted) = "forceClose" -> HandleClose /\ UNCHANGED <<sending, fin>>
  /\ UNCHANGED <<posts, pc, revents, peerSide>>

-----------------------------------------------------------------------------
(* Channel::handleEvent: IN, OUT, ERR, HUP in this order *)

Readable == inq > 0 \/ peer # "open"
HungUp == peer = "reset" \/ (fin /\ peer = "fin")

\* epoll_wait reports the channel: what is ready, and what it may report as
\* ready without being so.  ERR and HUP need no interest.
Poll ==
  /\ pc = "poll"
  /\ events # {}
  /\ \E r \in SUBSET {"IN", "OUT", "ERR", "HUP"} :
       /\ r # {}
       /\ "IN" \in r => "R" \in events
       /\ "OUT" \in r => "W" \in events
       /\ Readable /\ "R" \in events => "IN" \in r
       /\ "ERR" \in r <=> peer = "reset"
       /\ "HUP" \in r <=> HungUp
       /\ revents' = r
  /\ pc' = "dispatch"
  /\ UNCHANGED <<state, events, sending, fin, userSide, peerSide, downs>>

\* handleRead: one readFd, then the message callback; end of file and errors
\* close; EAGAIN does nothing.
HandleRead ==
  /\ pc = "dispatch"
  /\ "IN" \in revents
  /\ revents' = revents \ {"IN"}
  /\ \/ /\ state = "kDisconnected" \/ (peer = "open" /\ inq = 0)
        /\ UNCHANGED <<state, events, downs, pc, inq, received>>
     \/ /\ state # "kDisconnected"
        /\ peer # "reset" /\ inq > 0
        /\ LET k == IF inq < ReadMax THEN inq ELSE ReadMax
           IN inq' = inq - k /\ received' = received + k
        /\ pc' = "message"
        /\ UNCHANGED <<state, events, downs>>
     \/ /\ state # "kDisconnected"
        /\ peer = "reset" \/ (peer = "fin" /\ inq = 0)
        /\ HandleClose
        /\ UNCHANGED <<pc, inq, received>>
  /\ UNCHANGED <<sending, fin, userSide, peerSent, peer>>

\* Faulty variant: the dispatch ends with the message callback.
MessageEndsDispatch ==
  /\ pc = "message"
  /\ pc' = "poll"
  /\ UNCHANGED <<state, events, sending, fin, userSide, revents, peerSide, downs>>

\* The message callback returns.
MessageDone ==
  /\ pc = "message"
  /\ pc' = "dispatch"
  /\ UNCHANGED <<state, events, sending, fin, userSide, revents, peerSide, downs>>

\* Faulty variant: the write interest stays when the buffer is empty.
WriteOutKeepsInterest(k) ==
  /\ wire' = wire \o First(out, k)
  /\ out' = Rest(out, k)
  /\ pc' = IF k = Len(out) THEN "written" ELSE pc
  /\ UNCHANGED <<state, events, accepted, downs>>

\* handleWrite: the kernel takes k bytes (0: EAGAIN).  When it has them all,
\* the write interest goes and the write-complete callback runs.  (By
\* WriteInterest the case of an empty buffer does not occur.)
WriteOut(k) ==
  /\ wire' = wire \o First(out, k)
  /\ out' = Rest(out, k)
  /\ IF k = Len(out)
     THEN events' = events \ {"W"} /\ pc' = "written"
     ELSE events' = events \cup {"W"} /\ UNCHANGED pc
  /\ UNCHANGED <<state, accepted, downs>>

HandleWrite ==
  /\ pc = "dispatch"
  /\ "OUT" \in revents /\ "IN" \notin revents
  /\ revents' = revents \ {"OUT"}
  /\ \/ /\ state = "kDisconnected"
        /\ UNCHANGED <<state, events, sending, downs, pc>>
     \/ /\ state # "kDisconnected" /\ peer # "reset"
        /\ \E k \in 0 .. Len(out) : WriteOut(k)
     \/ /\ state # "kDisconnected" /\ peer = "reset"
        /\ HandleClose
        /\ UNCHANGED <<sending, pc>>
  /\ UNCHANGED <<fin, userSide, peerSide>>

\* Faulty variant: nothing takes up a shutdown that waited.
WriteDoneOnly ==
  /\ pc = "written"
  /\ pc' = "dispatch"
  /\ UNCHANGED <<state, events, sending, fin, userSide, revents, peerSide, downs>>

\* After the write-complete callback: a shutdown that waited for the buffer.
WriteDone ==
  /\ pc = "written"
  /\ pc' = "dispatch"
  /\ IF state = "kDisconnecting" THEN ShutdownInLoop
     ELSE UNCHANGED <<state, events, fin>>
  /\ UNCHANGED <<sending, userSide, revents, peerSide, downs>>

\* handleError and the close callback of the channel.
HandleErrorOrHup ==
  /\ pc = "dispatch"
  /\ revents \cap {"IN", "OUT"} = {}
  /\ \E e \in revents :
       /\ e = "HUP" => "ERR" \notin revents
       /\ revents' = revents \ {e}
  /\ HandleClose
  /\ UNCHANGED <<sending, fin, userSide, pc, peerSide>>

DispatchDone ==
  /\ pc = "dispatch"
  /\ revents = {}
  /\ pc' = "poll"
  /\ UNCHANGED <<state, events, sending, fin, userSide, revents, peerSide, downs>>

-----------------------------------------------------------------------------
(* The peer *)

PeerSend ==
  /\ peer = "open"
  /\ peerSent < MaxChunks
  /\ peerSent' = peerSent + 1
  /\ inq' = inq + 1
  /\ UNCHANGED <<state, events, sending, fin, userSide, pc, revents, received,
                 peer, downs>>

PeerFin ==
  /\ peer = "open"
  /\ peer' = "fin"
  /\ UNCHANGED <<state, events, sending, fin, userSide, pc, revents, inq,
                 peerSent, received, downs>>

PeerReset ==
  /\ peer # "reset"
  /\ peer' = "reset"
  /\ UNCHANGED <<state, events, sending, fin, userSide, pc, revents, inq,
                 peerSent, received, downs>>

-----------------------------------------------------------------------------

Dispatch ==
  \/ HandleRead \/ MessageDone \/ HandleWrite \/ WriteDone \/ HandleErrorOrHup
  \/ DispatchDone

Next ==
  \/ ConnectEstablished \/ Poll \/ Dispatch \/ RunPosted
  \/ \E n \in 1 .. MaxBytes : UserSend(n)
  \/ UserShutdown \/ UserForceClose
  \/ \E call \in {"send", "shutdown", "forceClose"} : Post(call)
  \/ PeerSend \/ PeerFin \/ PeerReset

\* A write event on which the kernel takes everything that is left.
FullWrite == HandleWrite /\ out' = <<>>

\* The loop's thread runs; a peer that stays keeps reading: epoll_wait keeps
\* reporting the socket writable while that is asked for, and one write in so
\* many empties the buffer.
Fairness ==
  /\ WF_vars(ConnectEstablished)
  /\ WF_vars(Dispatch)
  /\ SF_vars(Poll /\ "OUT" \in revents')
  /\ SF_vars(FullWrite)

Spec == Init /\ [][Next]_vars /\ Fairness

-----------------------------------------------------------------------------
(* Properties *)

\* Types; no event of a dispatch is left when the loop goes back to epoll_wait,
\* and a chunk of the peer's is in the kernel's queue until it is handed over.
TypeOK ==
  /\ state \in {"kDisconnected", "kConnecting", "kConnected", "kDisconnecting"}
  /\ events \in SUBSET {"R", "W"}
  /\ out \in Seq(Nat) /\ wire \in Seq(Nat)
  /\ fin \in BOOLEAN
  /\ accepted \in Nat
  /\ posted \in Seq({"send", "shutdown", "forceClose"})
  /\ posts \in 0 .. MaxPosts
  /\ pc \in {"poll", "dispatch", "message", "written"}
  /\ revents \in SUBSET {"IN", "OUT", "ERR", "HUP"}
  /\ pc = "poll" => revents = {}
  /\ inq \in Nat /\ received \in Nat
  /\ peerSent \in 0 .. MaxChunks /\ inq + received = peerSent
  /\ peer \in {"open", "fin", "reset"}
  /\ downs \in Nat

\* The channel asks for write events exactly while there is output to write:
\* no output is forgotten, and no writable socket makes the loop spin.
WriteInterest ==
  state # "kDisconnected" => ("W" \in events <=> out # <<>>)

\* Once down, a connection asks for no events again (no call that arrives late
\* may put its channel back into the poller), and the callbacks for "down" are
\* made once: by the peer's close, an error, a hang-up or forceClose, whichever
\* is first, even when one dispatch reports several of them.
DownOnce ==
  /\ state = "kDisconnected" => events = {}
  /\ downs = IF state = "kDisconnected" THEN 1 ELSE 0

\* What the channel asks the poller for follows the connection's life and its
\* output, through short writes and whatever one dispatch reports.
ChannelFollowsState == WriteInterest /\ DownOnce

\* The connection is a ByteStream: a direct write never overtakes the output
\* buffer, shutdown() sends the end of the stream after the last byte accepted,
\* and nothing follows it.
Stream == INSTANCE ByteStream WITH closed <- (state = "kDisconnected")
ImplementsByteStream == Stream!Spec

\* A shutdown() ends in the end of the stream being sent, or the connection
\* going down, however much output is left when it is called.
ShutdownFinishes == state = "kDisconnecting" ~> (fin \/ state = "kDisconnected")

\* Accepted output is written, or the connection goes down.
OutputDrains == out # <<>> ~> (out = <<>> \/ state = "kDisconnected")

\* When an event takes the connection down, the message callback has been given
\* all that the peer sent before: an end of stream or a hang-up that comes with
\* data does not overtake it.  Excepted are a reset, and a hang-up after our own
\* shutdown(), when the rest of the input is dropped.
InputIsHandedOver ==
  [][Dispatch /\ state # "kDisconnected" /\ state' = "kDisconnected"
       => received = peerSent \/ peer = "reset" \/ fin]_vars

\* Both directions come to their end: what send() and shutdown() have taken on
\* gets done, after any number of short writes and by whichever of handleWrite
\* and sendInLoop comes to it, and what the peer sent has been handed over.
StreamsAreFinished == ShutdownFinishes /\ OutputDrains /\ InputIsHandedOver

=============================================================================
