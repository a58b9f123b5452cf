---------------------------- MODULE FrameChannel ----------------------------
(***************************************************************************)
(* What the engine needs of the composer: the frames the device sends come *)
(* out whole, each once, in the order they were sent.                      *)
(***************************************************************************)
EXTENDS Naturals, Sequences

CONSTANT Frames

VARIABLES
  sent,        \* frames sent so far
  collected    \* packets handed on so far

channelVars == <<sent, collected>>

ChannelInit == sent = <<>> /\ collected = <<>>

SendFrame ==
  /\ \E f \in Frames : sent' = Append(sent, f)
  /\ UNCHANGED collected

HandOn ==
  /\ Len(collected) < Len(sent)
  /\ collected' = Append(collected, sent[Len(collected) + 1])
  /\ UNCHANGED sent

ChannelNext == SendFrame \/ HandOn

ChannelSpec == ChannelInit /\ [][ChannelNext]_channelVars
=============================================================================
