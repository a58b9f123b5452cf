----------------------------- MODULE PacketStream -----------------------------
(***************************************************************************)
(* Responses on their way through port, composer and codec: the frames of  *)
(* FrameStream are packets as packet.py packs them, and what the composer  *)
(* returns is read back as receiveCDCPacket's callers do it                *)
(* (connection.py:84, ksoc_connection.py:322).                             *)
(***************************************************************************)
EXTENDS FrameStream, CDCPacket

CONSTANT Responses      \* packets the device may send

(* A response as a device sends it: whole, and with a checksum that holds. *)
IsResponse(p) ==
  /\ p \in PacketFields
  /\ p.direction = RESPONSE
  /\ Len(p.payload) = p.payload_length
  /\ validate_checksum(p)

ASSUME ResponsesAssumption ==
  /\ \A p \in Responses : IsResponse(p)
  /\ Frames = {CDC_packet(p) : p \in Responses}

(* What the caller reads is field by field the packet that was sent, in the *)
(* order they were sent, and its checksum holds: neither the composer nor   *)
(* the codec changes, mixes or misplaces a byte (packet.py:96-106, cut by   *)
(* the length field, next to engine.py:58-67, cut by the same field).       *)
DecodedAsSent ==
  \A i \in DOMAIN collected :
    LET p == get_CDC_packet(collected[i])
    IN  p \in Responses /\ CDC_packet(p) = sent[i] /\ validate_checksum(p)
=============================================================================
