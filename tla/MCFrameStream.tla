---------------------------- MODULE MCFrameStream ----------------------------
(***************************************************************************)
(* Responses and their frames for model checking PacketStream.             *)
(***************************************************************************)
EXTENDS PacketStream

(* A response with one command and a payload, its checksum made up. *)
ResponseOf(cmd, bytes) ==
  update_checksum([direction |-> RESPONSE, command |-> cmd,
                   payload_length |-> Len(bytes), payload |-> bytes, checksum |-> 0])

FramesOf(responses) == {CDC_packet(p) : p \in responses}

(* Payloads of no, one and three bytes, one of them half a start frame. *)
PlainResponses ==
  {ResponseOf(18, <<>>), ResponseOf(96, <<7>>), ResponseOf(171, <<36, 75, 9>>)}
PlainFrames == FramesOf(PlainResponses)

(* A payload that holds a whole frame, and one with a start frame. *)
NestedResponses ==
  {ResponseOf(18, <<>>), ResponseOf(171, CDC_packet(ResponseOf(18, <<>>))),
   ResponseOf(171, StartFrame)}
NestedFrames == FramesOf(NestedResponses)

AllResponses == PlainResponses \cup NestedResponses
AllFrames == FramesOf(AllResponses)

(* The rest of a frame whose beginning was purged when the port was opened. *)
FrameRests == {<<>>} \cup {SubSeq(f, 4, Len(f)) : f \in PlainFrames}

NoRests == {<<>>}

(* The packets tests/test_packet.py packs, and their bytes. *)
ASSUME PacketTests ==
  LET version == [direction |-> REQUEST, command |-> 1, payload_length |-> 0,
                  payload |-> <<>>, checksum |-> 0]
      write == [direction |-> REQUEST, command |-> 16, payload_length |-> 3,
                payload |-> <<164, 165, 166>>, checksum |-> 8]
  IN  /\ CDC_packet(version) = <<36, 75, 62, 1, 1, 0, 0, 0>>
      /\ calculate_checksum(CDC_packet(version)) = 254
      /\ CDC_packet(write) = <<36, 75, 62, 16, 1, 0, 3, 164, 165, 166, 8>>
=============================================================================
