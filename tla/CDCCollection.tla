---------------------------- MODULE CDCCollection ----------------------------
(***************************************************************************)
(* The packet composer (CDCCollection in engine.py) as functions of the    *)
(* bytes it holds and the bytes it is given.  Bytes are numbers; slices    *)
(* and find are Python's: a slice that runs past the end is cut short, and *)
(* find yields the first place.  Places count from 1; 0 is Python's -1.    *)
(***************************************************************************)
EXTENDS Integers, Sequences

Byte == 0..255

StartFrame == <<36, 75, 60>>       \* b'$K<'

(* data[m:n], and data[m:] *)
Slice(data, m, n) == SubSeq(data, m + 1, IF n < Len(data) THEN n ELSE Len(data))
From(data, m) == SubSeq(data, m + 1, Len(data))

(* b'$K<' is found at place i. *)
StartsAt(data, i) == i + 2 \in DOMAIN data /\ SubSeq(data, i, i + 2) = StartFrame

(* Bug variant: rfind, the last place.                                       *)
FindLast(data) ==
  IF \E i \in DOMAIN data : StartsAt(data, i)
  THEN CHOOSE i \in DOMAIN data :
         StartsAt(data, i) /\ \A j \in DOMAIN data : StartsAt(data, j) => i >= j
  ELSE 0

(* data.find(b'$K<') *)
Find(data) ==
  IF \E i \in DOMAIN data : StartsAt(data, i)
  THEN CHOOSE i \in DOMAIN data :
         StartsAt(data, i) /\ \A j \in DOMAIN data : StartsAt(data, j) => i <= j
  ELSE 0

(* int.from_bytes(data[5:7], byteorder='big'), whatever of it there is *)
PayloadLength(data) ==
  CASE Len(data) >= 7 -> 256 * data[6] + data[7]
    [] Len(data) = 6  -> data[6]
    [] OTHER          -> 0

(* start frame, command, channel, payload length and checksum, and payload *)
PacketLength(data) == 8 + PayloadLength(data)

-----------------------------------------------------------------------------
(* check_is_packet: <<>> or the one packet found in data. *)
CheckIsPacket(data) ==
  LET frame == From(data, Find(data) - 1)
  IN  IF Find(data) # 0 /\ Len(frame) >= 7 /\ Len(frame) >= PacketLength(frame)
      THEN <<Slice(frame, 0, PacketLength(frame))>>
      ELSE <<>>

(* Bug variant: a packet is complete only when there are bytes after it.     *)
ComposeLate(all) ==
  LET frame == From(all, Find(all) - 1)
  IN  CASE Find(all) = 0 ->
             [packet |-> <<>>, temp_bytes |-> <<>>]
        [] Find(all) # 0 /\ Len(all) > PacketLength(frame) ->
             [packet |-> <<Slice(frame, 0, PacketLength(frame))>>,
              temp_bytes |-> From(frame, PacketLength(frame))]
        [] OTHER ->
             [packet |-> <<>>, temp_bytes |-> frame]

(* Bug variant: temp_bytes is not reset when a packet is complete.           *)
ComposeKeeping(all) ==
  LET frame == From(all, Find(all) - 1)
  IN  CASE Find(all) = 0 ->
             [packet |-> <<>>, temp_bytes |-> <<>>]
        [] Find(all) # 0 /\ Len(all) >= PacketLength(frame) ->
             [packet |-> <<Slice(frame, 0, PacketLength(frame))>>,
              temp_bytes |-> frame]
        [] OTHER ->
             [packet |-> <<>>, temp_bytes |-> frame]

(* collect, for bytes with no whole packet among them: they join temp_bytes. *)
(* The length that is compared is the one before the bytes ahead of the      *)
(* start frame are cut off.                                                  *)
Compose(all) ==
  LET frame == From(all, Find(all) - 1)
  IN  CASE Find(all) = 0 ->
             [packet |-> <<>>, temp_bytes |-> <<>>]
        [] Find(all) # 0 /\ Len(all) >= PacketLength(frame) ->
             [packet |-> <<Slice(frame, 0, PacketLength(frame))>>,
              temp_bytes |-> From(frame, PacketLength(frame))]
        [] OTHER ->
             [packet |-> <<>>, temp_bytes |-> frame]

(* Bug variant: data with a whole packet joins temp_bytes nevertheless.      *)
CollectTwice(temp_bytes, data) ==
  IF CheckIsPacket(data) # <<>>
  THEN [packet |-> CheckIsPacket(data), temp_bytes |-> temp_bytes \o data]
  ELSE Compose(temp_bytes \o data)

(* collect: a packet that is whole in data is returned at once; whatever     *)
(* else data holds is dropped, and temp_bytes stays.                         *)
Collect(temp_bytes, data) ==
  IF CheckIsPacket(data) # <<>>
  THEN [packet |-> CheckIsPacket(data), temp_bytes |-> temp_bytes]
  ELSE Compose(temp_bytes \o data)
=============================================================================
