------------------------------ MODULE CDCPacket ------------------------------
(***************************************************************************)
(* The packet codec (packet.py): a Packet as a record of its fields, the   *)
(* bytes it is packed into, and the fields that bytes are read as.  The    *)
(* channel is no field: it is written as 1 and not read.  Packing raises   *)
(* for fields out of range, reading for bytes that do not begin with '$K'; *)
(* the functions are used for the others only.                             *)
(***************************************************************************)
EXTENDS CDCCollection, SequencesExt

REQUEST  == 62       \* '>'
RESPONSE == 60       \* '<'

(* What two bytes can say. *)
TwoBytes == {n \in Nat : n < 256 * 256}

PacketFields ==
  [direction : {REQUEST, RESPONSE}, command : Byte, payload_length : TwoBytes,
   payload : Seq(Byte), checksum : Byte]

(* struct's "s" format: cut, or filled up with zeros, to n bytes. *)
Fill(payload, n) == [i \in 1..n |-> IF i <= Len(payload) THEN payload[i] ELSE 0]

(* Packet.CDC_packet *)
CDC_packet(p) ==
  <<36, 75, p.direction, p.command, 1,
    p.payload_length \div 256, p.payload_length % 256>>
  \o Fill(p.payload, p.payload_length) \o <<p.checksum>>

(* sum(bytes) *)
SumOf(bytes) == FoldSeq(+, 0, bytes)

(* calculate_checksum: the two's complement of the sum from the command to  *)
(* the payload, packet[3:-1].                                               *)
calculate_checksum(packet) ==
  (-SumOf(Slice(packet, 3, Len(packet) - 1))) % 256

validate_checksum(p) == p.checksum = calculate_checksum(CDC_packet(p))

update_checksum(p) == [p EXCEPT !.checksum = calculate_checksum(CDC_packet(p))]

(* Bug variant: the payload ends where the packet does. *)
ReadToTheEnd(packet) ==
  [direction |-> packet[3], command |-> packet[4],
   payload_length |-> PayloadLength(packet),
   payload |-> From(packet, 7), checksum |-> packet[Len(packet)]]

get_CDC_packet(packet) ==
  [direction |-> packet[3], command |-> packet[4],
   payload_length |-> PayloadLength(packet),
   payload |-> Slice(packet, 7, 7 + PayloadLength(packet)),
   checksum |-> packet[Len(packet)]]
=============================================================================
