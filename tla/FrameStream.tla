----------------------------- MODULE FrameStream -----------------------------
(***************************************************************************)
(* The engine thread's read loop over the byte stream of the port, with    *)
(* the composer in between (engine.py:167-180).  The device sends frames;  *)
(* a read yields the next few bytes, cut wherever the port's one           *)
(* millisecond read timeout happened to fall.  Reads says where that can   *)
(* be: anywhere, or only where the composer can cope with it.  Pieces of   *)
(* wire are what a read does not reach across: the frames, or for reads    *)
(* anywhere the one stream they make.                                      *)
(***************************************************************************)
EXTENDS CDCCollection

CONSTANTS
  Frames,      \* frames the device may send
  Leftover,    \* what may be in the port when reading begins
  Reads,       \* where reads cut the stream
  ReadSize,    \* most bytes a read yields: 4096 * 2 in the code
  MaxFrames    \* bound on the frames sent

IsFrame(f) ==
  /\ f \in Seq(Byte)
  /\ Len(f) >= 8
  /\ SubSeq(f, 1, 3) = StartFrame
  /\ Len(f) = PacketLength(f)

ASSUME FramesAssumption == \A f \in Frames : IsFrame(f)

ASSUME StreamAssumption ==
  /\ <<>> \in Leftover
  /\ Leftover \subseteq Seq(Byte)
  /\ Reads \in {"anywhere", "within_frames"}
  /\ ReadSize \in Nat \ {0}
  /\ MaxFrames \in Nat

VARIABLES
  sent,         \* frames sent so far
  wire,         \* what is sent and not yet read, piece by piece
  begun,        \* has the first piece of wire been read in part?
  temp_bytes,   \* the composer's buffer
  collected     \* packets it returned so far

streamVars == <<sent, wire, begun, temp_bytes, collected>>

(* Every variable keeps its type; what is handed on is a packet, never the  *)
(* None that collect returns for want of one (engine.py:182).               *)
StreamTypeOK ==
  /\ sent \in Seq(Frames)
  /\ wire \in Seq(Seq(Byte))
  /\ begun \in BOOLEAN
  /\ temp_bytes \in Seq(Byte)
  /\ collected \in Seq(Seq(Byte) \ {<<>>})

(* The sequence of one piece, or of none if it is empty. *)
Piece(bytes) == IF bytes = <<>> THEN <<>> ELSE <<bytes>>

StreamInit ==
  /\ sent = <<>>
  /\ \E rest \in Leftover : wire = Piece(rest) /\ begun = (rest # <<>>)
  /\ temp_bytes = <<>>
  /\ collected = <<>>

-----------------------------------------------------------------------------
SendFrame ==
  /\ Len(sent) < MaxFrames
  /\ \E f \in Frames :
       /\ sent' = Append(sent, f)
       /\ wire' = IF Reads = "anywhere" /\ wire # <<>> THEN <<Head(wire) \o f>>
                  ELSE Append(wire, f)
  /\ UNCHANGED <<begun, temp_bytes, collected>>

(* Bug variant: when collect returns None that is handed on, too. *)
HandNoneOn(data) ==
  LET result == Collect(temp_bytes, data)
  IN  /\ temp_bytes' = result.temp_bytes
      /\ collected' = collected \o (IF result.packet = <<>> THEN <<<<>>>> ELSE result.packet)

(* run() hands the bytes read to collect. *)
HandToCollect(data) ==
  LET result == Collect(temp_bytes, data)
  IN  /\ temp_bytes' = result.temp_bytes
      /\ collected' = collected \o result.packet

(* No start frame but the one a frame begins with: a condition of the model *)
(* on reads that end inside a frame, which nothing in the code ensures.     *)
OneStart(f) == \A i \in DOMAIN f : StartsAt(f, i) => i = 1

(* porto.recv yields n bytes of the piece under way.  The composer copes    *)
(* with a read that ends where a frame does, and with one that ends inside  *)
(* a frame if it holds the start frame and there is no other in the frame.  *)
ReadPiece ==
  /\ wire # <<>>
  /\ \E n \in 1..Len(Head(wire)) :
       /\ n <= ReadSize
       /\ \/ Reads = "anywhere"
          \/ begun
          \/ n >= Len(StartFrame) /\ OneStart(Head(wire))
          \/ n = Len(Head(wire))
       /\ HandToCollect(SubSeq(Head(wire), 1, n))
       /\ wire' = Piece(From(Head(wire), n)) \o Tail(wire)
       /\ begun' = (n < Len(Head(wire)))
  /\ UNCHANGED sent

StreamTerminated == Len(sent) = MaxFrames /\ wire = <<>> /\ UNCHANGED streamVars

StreamNext == SendFrame \/ ReadPiece \/ StreamTerminated

StreamSpec == StreamInit /\ [][StreamNext]_streamVars

(* The engine thread keeps reading. *)
FairStreamSpec == StreamSpec /\ WF_streamVars(ReadPiece)

-----------------------------------------------------------------------------
(* A stream whose reads end between frames, or inside frames with a single  *)
(* start frame, is a channel of whole frames: none lost, doubled, reordered *)
(* or mixed up (engine.py:23-68).                                           *)
Channel == INSTANCE FrameChannel

IsChannel == Channel!ChannelSpec

(* Every frame that is sent comes out, as long as the engine thread reads   *)
(* (engine.py:170-180): the composer never sits on a complete frame.        *)
FramesComeOut ==
  \A i \in 1..MaxFrames : Len(sent) >= i ~> Len(collected) >= i

(* A packet that collect returns has as many bytes as its length field says *)
(* (engine.py:60, "packet should be complete").                             *)
PacketComplete ==
  \A i \in DOMAIN collected : Len(collected[i]) = PacketLength(collected[i])

(* Once everything is read, everything sent has been returned               *)
(* (engine.py:24, "collect and compose CDC packet from data").              *)
AllCollected == wire = <<>> => collected = sent

(* However the reads cut the stream, and although the composer keeps bytes  *)
(* of one read for the next and finds the frames again after each cut, no   *)
(* more packets come out than frames were sent (engine.py:26-29, 63-67): a  *)
(* start frame that has been passed on does not come out again.  It is a    *)
(* count: a packet may still hold bytes of several frames, in place of      *)
(* those that were lost.                                                    *)
NoMoreThanSent == Len(collected) <= Len(sent)
=============================================================================
