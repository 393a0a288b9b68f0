---------------------------- MODULE MCProtocolEcho ----------------------------
(***************************************************************************)
(* ProtocolEcho for TLC: bodies of every length up to one over the limit,  *)
(* with bytes that tell their places.                                      *)
(***************************************************************************)
EXTENDS ProtocolEcho

MCFrames ==
  {[msgId |-> 1, seq |-> (n + 1) % 2, body |-> [i \in 1 .. n |-> i % Byte]] :
     n \in 0 .. MaxBody + 1}
=============================================================================
