----------------------------- MODULE ProtocolEcho -----------------------------
(***************************************************************************)
(* The way of bytes through one connection of examples/                    *)
(* protocol_echo_server.cpp: read into the input buffer wherever the       *)
(* stream is cut, decoded into frames, encoded again and sent back through *)
(* the output buffer, with writes that take a part.  Each turn of a loop   *)
(* of tryDecode and onMessage is a step.  The other things that happen to  *)
(* a connection are in TcpConnection.                                      *)
(***************************************************************************)
EXTENDS Codec

CONSTANTS
  Frames,     \* frames the peer may send, some of them too long
  MaxFrames,  \* bound: how many it sends
  InitialSize,\* kInitialSize
  Extra,      \* the size of readFd's extrabuf
  Window      \* bytes the kernel keeps for a reader at most

ASSUME EchoAssumption ==
  /\ \A f \in Frames : f \in FrameType
  /\ MaxFrames \in Nat /\ InitialSize \in Nat
  /\ {Extra, Window} \subseteq Nat \ {0}

VARIABLES
  pc,       \* "poll", "decode" (in tryDecode), "reply" (in onMessage)
  sent,     \* frames the peer has sent
  stream,   \* their bytes
  read,     \* how many of these readFd has taken
  input,    \* inputBuffer_
  frames,   \* frames that tryDecode found and onMessage has not echoed
  fatal,    \* tryDecode found a header that cannot be
  output,   \* outputBuffer_
  writing,  \* write events are enabled
  wire,     \* bytes the kernel took
  closed,   \* forceClose
  handled   \* history: all frames that tryDecode found

peerSide == <<sent, stream>>
inSide == <<read, input>>
outSide == <<output, writing, wire>>
vars == <<pc, peerSide, inSide, frames, fatal, outSide, closed, handled>>

Init ==
  /\ pc = "poll"
  /\ sent = <<>> /\ stream = <<>> /\ read = 0
  /\ input = NewBuffer(InitialSize)
  /\ frames = <<>> /\ fatal = FALSE
  /\ output = NewBuffer(InitialSize)
  /\ writing = FALSE /\ wire = <<>>
  /\ closed = FALSE
  /\ handled = <<>>

PeerSends(f) ==
  /\ Len(sent) < MaxFrames
  /\ sent' = Append(sent, f)
  /\ stream' = stream \o Encode(f)
  /\ UNCHANGED <<pc, inSide, frames, fatal, outSide, closed, handled>>

\* n bytes of the stream after the first k that were not read yet.
Arrived(k, n) == SubSeq(stream, read + k + 1, read + k + n)

\* readFd: a read that fills what is writable is followed by a second one,
\* into extrabuf, which may find nothing.  One read takes no more than the
\* kernel keeps.
ReadFd ==
  \E k \in 0 .. WritableBytes(input), n \in 0 .. Extra :
    /\ k <= Window /\ n <= Window
    /\ k + n > 0 /\ read + k + n <= Len(stream)
    /\ n > 0 => k = WritableBytes(input)
    /\ read' = read + k + n
    /\ input' = AppendBytes(Written(input, Arrived(0, k)), Arrived(k, n))

HandleRead ==
  /\ pc = "poll" /\ ~closed
  /\ ReadFd
  /\ pc' = "decode"
  /\ UNCHANGED <<peerSide, frames, fatal, outSide, closed, handled>>

-----------------------------------------------------------------------------
(* tryDecode *)

\* Faulty variant: one frame a call.
DecodeFrameOnce ==
  /\ pc = "decode"
  /\ Complete(input)
  /\ frames' = Append(frames, FirstFrame(input))
  /\ handled' = Append(handled, FirstFrame(input))
  /\ input' = Retrieve(input, Total(input))
  /\ pc' = "reply"
  /\ UNCHANGED <<peerSide, read, fatal, outSide, closed>>

DecodeFrame ==
  /\ pc = "decode"
  /\ Complete(input)
  /\ frames' = Append(frames, FirstFrame(input))
  /\ handled' = Append(handled, FirstFrame(input))
  /\ input' = Retrieve(input, Total(input))
  /\ UNCHANGED <<pc, peerSide, read, fatal, outSide, closed>>

DecodeFatal ==
  /\ pc = "decode"
  /\ TooLong(input)
  /\ fatal' = TRUE
  /\ input' = RetrieveAll(input)
  /\ pc' = "reply"
  /\ UNCHANGED <<peerSide, read, frames, outSide, closed, handled>>

\* Not a whole header, or not a whole frame.
DecodeEnds ==
  /\ pc = "decode"
  /\ ~Complete(input) /\ ~TooLong(input)
  /\ pc' = "reply"
  /\ UNCHANGED <<peerSide, inSide, frames, fatal, outSide, closed, handled>>

-----------------------------------------------------------------------------
(* onMessage after it, and handleWrite *)

\* sendInLoop: written at once as far as the kernel takes it, if nothing
\* waits; the rest is appended.
SendInLoop(data) ==
  \/ /\ ReadableBytes(output) = 0 /\ ~writing
     /\ \E n \in 0 .. Len(data) :
          /\ wire' = wire \o SubSeq(data, 1, n)
          /\ IF n < Len(data)
             THEN /\ output' = AppendBytes(output, SubSeq(data, n + 1, Len(data)))
                  /\ writing' = TRUE
             ELSE UNCHANGED <<output, writing>>
  \/ /\ ReadableBytes(output) > 0 \/ writing
     /\ output' = AppendBytes(output, data)
     /\ writing' = TRUE
     /\ UNCHANGED wire

Reply ==
  /\ pc = "reply"
  /\ frames # <<>>
  /\ SendInLoop(Encode(Head(frames)))
  /\ frames' = Tail(frames)
  /\ UNCHANGED <<pc, peerSide, inSide, fatal, closed, handled>>

ReplyEnds ==
  /\ pc = "reply"
  /\ frames = <<>>
  /\ closed' = fatal
  /\ pc' = "poll"
  /\ UNCHANGED <<peerSide, inSide, frames, fatal, outSide, handled>>

\* Faulty variant: a write that took a part empties the buffer.
HandleWriteAll ==
  /\ pc = "poll" /\ ~closed
  /\ writing
  /\ \E n \in 1 .. ReadableBytes(output) :
       /\ wire' = wire \o SubSeq(Readable(output), 1, n)
       /\ output' = RetrieveAll(output)
       /\ writing' = FALSE
  /\ UNCHANGED <<pc, peerSide, inSide, frames, fatal, closed, handled>>

\* A part of what waits is written, and write events end with the last.
HandleWrite ==
  /\ pc = "poll" /\ ~closed
  /\ writing
  /\ \E n \in 1 .. ReadableBytes(output) :
       /\ wire' = wire \o SubSeq(Readable(output), 1, n)
       /\ output' = Retrieve(output, n)
       /\ writing' = (n < ReadableBytes(output))
  /\ UNCHANGED <<pc, peerSide, inSide, frames, fatal, closed, handled>>

-----------------------------------------------------------------------------

Server ==
  \/ HandleRead \/ DecodeFrame \/ DecodeFatal \/ DecodeEnds
  \/ Reply \/ ReplyEnds \/ HandleWrite

Next == Server \/ (\E f \in Frames : PeerSends(f))

\* The loop runs while there is something to read or to write.
Spec == Init /\ [][Next]_vars /\ WF_vars(Server)

-----------------------------------------------------------------------------
(* Properties *)

\* The types of the variables; both buffers keep their indices in order.
TypeOK ==
  /\ pc \in {"poll", "decode", "reply"}
  /\ read \in 0 .. Len(stream)
  /\ IsBuffer(input) /\ IsBuffer(output)
  /\ {fatal, writing, closed} \subseteq BOOLEAN

Encoded(fs) ==
  LET e[i \in 0 .. Len(fs)] == IF i = 0 THEN <<>> ELSE e[i - 1] \o Encode(fs[i])
  IN e[Len(fs)]

\* Between the peer and the way back no byte is lost, doubled or out of its
\* place, wherever reads and writes cut the stream and however often the
\* buffers are moved or grown.
NoByteLost ==
  ~fatal => stream = wire \o Readable(output) \o Encoded(frames)
                       \o Readable(input) \o SubSeq(stream, read + 1, Len(stream))

F == INSTANCE FrameStream WITH broken <- fatal

\* The decoder over its buffer is a stream of frames: whole, once, in order,
\* and broken exactly at a body over the limit.
ImplementsFrameStream == F!Spec

\* However much is sent, and however small the frames are, the input buffer
\* stays within its first size, or what the longest frame, one read of all that
\* the kernel keeps and two of extrabuf need: it grows only when it is full of
\* bytes that wait, never with all that went through it.
InputBounded ==
  \/ Len(input.mem) <= CheapPrepend + InitialSize
  \/ Len(input.mem) < CheapPrepend + HeaderSize + MaxBody + Window + 2 * Extra

Proper(fs) == \A i \in DOMAIN fs : Len(fs[i].body) <= MaxBody

\* What the peer sends comes back in full, without more from the peer,
\* unless it sends a frame that is too long.
AllEchoed == Proper(sent) ~> (wire = stream \/ ~Proper(sent))
=============================================================================
