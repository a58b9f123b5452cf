-------------------------- MODULE FrameStreamProofs --------------------------
(***************************************************************************)
(* Theorems about the packet composer, for frames of every content and     *)
(* length, and about the streams it turns into a channel of whole frames.  *)
(***************************************************************************)
EXTENDS FrameStream, CDCCollectionProofs

-----------------------------------------------------------------------------
(* What collect does with a frame, or with a piece of one.                  *)

(* The first m bytes of a frame, and what the composer's functions see.     *)
LEMMA FramePrefix ==
  ASSUME NEW f, IsFrame(f), NEW m \in 3..Len(f)
  PROVE  LET a == SubSeq(f, 1, m)
         IN  /\ a \in Seq(Byte) /\ Len(a) = m
             /\ Find(a) = 1 /\ From(a, 0) = a
             /\ m < Len(f) => ~(m >= PacketLength(a))
             /\ m = Len(f) => a = f
<1> DEFINE a == SubSeq(f, 1, m)
<1>1. f \in Seq(Byte) /\ Len(f) \in Nat /\ Len(f) >= 8 /\ SubSeq(f, 1, 3) = StartFrame
  BY DEF IsFrame
<1>2. a \in Seq(Byte) /\ Len(a) = m /\ \A i \in 1..m : a[i] = f[i]
  BY <1>1, SubSeqProperties
<1>3. SubSeq(a, 1, 3) = StartFrame
  BY <1>1, <1>2, SubSeqProperties
<1>7. m = Len(f) => a = f
  BY <1>1, SubSeqFull
<1> HIDE DEF a
<1>4. Find(a) = 1
  BY <1>2, <1>3, FindFirst
<1>5. From(a, 0) = a
  BY <1>2, SubSeqFull DEF From
<1>6. ASSUME m < Len(f) PROVE ~(m >= PacketLength(a))
  <2>1. CASE m >= 7
    <3>1. PayloadLength(a) = 256 * f[6] + f[7]
      BY <1>2, <2>1 DEF PayloadLength
    <3>2. PayloadLength(f) = 256 * f[6] + f[7]
      BY <1>1, <1>6, <2>1 DEF PayloadLength
    <3>3. Len(f) = 8 + PayloadLength(f)
      BY DEF IsFrame, PacketLength
    <3> QED BY <1>6, <3>1, <3>2, <3>3 DEF PacketLength
  <2>2. CASE m = 6
    <3>1. PayloadLength(a) = a[6]
      BY <1>2, <2>2 DEF PayloadLength
    <3>2. a[6] \in Byte
      <4>1. 6 \in 1..Len(a) BY <1>2, <2>2
      <4> QED BY <1>2, <4>1, ElementOfSeq
    <3>3. a[6] >= 0 /\ a[6] \in Int
      BY <3>2, ByteIsNat
    <3> QED BY <2>2, <3>1, <3>3 DEF PacketLength
  <2>3. CASE m < 6
    BY <1>2, <2>3 DEF PacketLength, PayloadLength
  <2> QED BY <2>1, <2>2, <2>3
<1> QED
  BY <1>2, <1>4, <1>5, <1>6, <1>7 DEF a

(* check_is_packet finds a frame that is all there, and no part of one.    *)
LEMMA CheckPrefix ==
  ASSUME NEW f, IsFrame(f), NEW m \in 3..Len(f)
  PROVE  CheckIsPacket(SubSeq(f, 1, m)) = IF m = Len(f) THEN <<f>> ELSE <<>>
<1> DEFINE a == SubSeq(f, 1, m)
<1>1. /\ Len(a) = m /\ Find(a) = 1 /\ From(a, 0) = a
      /\ m < Len(f) => ~(m >= PacketLength(a))
      /\ m = Len(f) => a = f
  BY FramePrefix
<1>2. /\ Len(f) \in Nat /\ Len(f) >= 8 /\ PacketLength(f) = Len(f)
      /\ SubSeq(f, 1, Len(f)) = f
  BY SubSeqFull DEF IsFrame
<1> HIDE DEF a
<1>3. From(a, Find(a) - 1) = a
  BY <1>1
<1>4. CASE m = Len(f)
  <2>1. a = f BY <1>1, <1>4
  <2>2. Slice(f, 0, Len(f)) = f
    BY <1>2 DEF Slice
  <2>3. Find(f) # 0 /\ From(f, Find(f) - 1) = f
    BY <1>1, <1>3, <2>1
  <2>4. CheckIsPacket(f) = <<f>>
    BY <1>2, <2>2, <2>3 DEF CheckIsPacket
  <2> QED BY <1>4, <2>1, <2>4 DEF a
<1>5. CASE m < Len(f)
  <2>1. CheckIsPacket(a) = <<>>
    <3>1. ~(Len(a) >= PacketLength(a)) BY <1>1, <1>5
    <3> QED BY <1>3, <3>1 DEF CheckIsPacket
  <2> QED BY <1>2, <1>5, <2>1 DEF a
<1> QED
  BY <1>2, <1>4, <1>5

(* The composer gives back a frame, whole, as soon as it holds all of it.   *)
LEMMA ComposePrefix ==
  ASSUME NEW f, IsFrame(f), NEW m \in 3..Len(f)
  PROVE  Compose(SubSeq(f, 1, m)) =
           IF m = Len(f) THEN [packet |-> <<f>>, temp_bytes |-> <<>>]
           ELSE [packet |-> <<>>, temp_bytes |-> SubSeq(f, 1, m)]
<1> DEFINE a == SubSeq(f, 1, m)
<1>1. /\ Len(a) = m /\ Find(a) = 1 /\ From(a, 0) = a
      /\ m < Len(f) => ~(m >= PacketLength(a))
      /\ m = Len(f) => a = f
  BY FramePrefix
<1>2. /\ f \in Seq(Byte) /\ Len(f) \in Nat /\ Len(f) >= 8 /\ PacketLength(f) = Len(f)
      /\ SubSeq(f, 1, Len(f)) = f
  BY SubSeqFull DEF IsFrame
<1> HIDE DEF a
<1>3. From(a, Find(a) - 1) = a
  BY <1>1
<1>4. CASE m = Len(f)
  <2>1. a = f BY <1>1, <1>4
  <2>2. Slice(f, 0, Len(f)) = f
    BY <1>2 DEF Slice
  <2>3. From(f, Len(f)) = <<>>
    BY <1>2, SubSeqEmpty DEF From
  <2>4. Find(f) # 0 /\ From(f, Find(f) - 1) = f
    BY <1>1, <1>3, <2>1
  <2>5. Compose(f) = [packet |-> <<f>>, temp_bytes |-> <<>>]
    BY <1>2, <2>2, <2>3, <2>4 DEF Compose
  <2> QED BY <1>4, <2>1, <2>5 DEF a
<1>5. CASE m < Len(f)
  <2>1. Compose(a) = [packet |-> <<>>, temp_bytes |-> a]
    BY <1>1, <1>3, <1>5 DEF Compose
  <2> QED BY <1>2, <1>5, <2>1 DEF a
<1> QED
  BY <1>2, <1>4, <1>5

(* A chunk that is exactly one frame is returned as it is, whatever its     *)
(* payload is and whatever the buffer holds; and the buffer stays           *)
(* (engine.py:26-29).                                                       *)
THEOREM WholeFrameReturned ==
  ASSUME NEW f, IsFrame(f), NEW temp
  PROVE  Collect(temp, f) = [packet |-> <<f>>, temp_bytes |-> temp]
<1>1. Len(f) \in 3..Len(f) /\ SubSeq(f, 1, Len(f)) = f
  BY SubSeqFull DEF IsFrame
<1>2. CheckIsPacket(f) = <<f>>
  BY <1>1, CheckPrefix
<1> QED
  BY <1>2 DEF Collect

(* The first piece of a frame: at least its start frame has to be in it.    *)
LEMMA FirstPiece ==
  ASSUME NEW f, IsFrame(f), NEW m \in 3..Len(f)
  PROVE  Collect(<<>>, SubSeq(f, 1, m)) =
           IF m = Len(f) THEN [packet |-> <<f>>, temp_bytes |-> <<>>]
           ELSE [packet |-> <<>>, temp_bytes |-> SubSeq(f, 1, m)]
<1>1. SubSeq(f, 1, m) \in Seq(Byte)
  BY FramePrefix
<1>2. <<>> \o SubSeq(f, 1, m) = SubSeq(f, 1, m)
  BY <1>1, ConcatEmptySeq
<1>3. CASE m = Len(f)
  BY <1>3, CheckPrefix DEF Collect
<1>4. CASE m # Len(f)
  BY <1>2, <1>4, CheckPrefix, ComposePrefix DEF Collect
<1> QED
  BY <1>3, <1>4

(* A later piece holds no start frame, so it joins what came before.        *)
LEMMA NextPiece ==
  ASSUME NEW f, IsFrame(f), OneStart(f),
         NEW k \in 3..(Len(f) - 1), NEW m \in (k + 1)..Len(f)
  PROVE  Collect(SubSeq(f, 1, k), SubSeq(f, k + 1, m)) =
           IF m = Len(f) THEN [packet |-> <<f>>, temp_bytes |-> <<>>]
           ELSE [packet |-> <<>>, temp_bytes |-> SubSeq(f, 1, m)]
<1> DEFINE b == SubSeq(f, k + 1, m)
<1>1. f \in Seq(Byte) /\ Len(f) \in Nat
  BY DEF IsFrame
<1>2. b \in Seq(Byte) /\ Len(b) = m - k /\ \A i \in 1..(m - k) : b[i] = f[k + i]
  BY <1>1, SubSeqProperties
<1>3. ASSUME NEW i \in DOMAIN b, StartsAt(b, i)
      PROVE  FALSE
  <2>1. i \in 1..(m - k) /\ i + 2 \in 1..(m - k)
    BY <1>2, <1>3 DEF StartsAt
  <2>2. SubSeq(b, i, i + 2) = SubSeq(f, k + i, k + i + 2)
    BY <1>1, <2>1, SubSeqOfSubSeq DEF b
  <2>3. SubSeq(f, k + i, k + i + 2) = StartFrame
    BY <1>3, <2>2 DEF StartsAt
  <2>4. k + i \in DOMAIN f /\ k + i + 2 \in DOMAIN f
    BY <1>1, <2>1
  <2>5. StartsAt(f, k + i)
    BY <2>3, <2>4 DEF StartsAt
  <2> QED BY <2>1, <2>4, <2>5 DEF OneStart
<1>4. CheckIsPacket(b) = <<>>
  BY <1>3 DEF CheckIsPacket, Find
<1>5. SubSeq(f, 1, k) \o b = SubSeq(f, 1, m)
  BY <1>1, ConcatAdjacentSubSeq DEF b
<1> HIDE DEF b
<1>6. Collect(SubSeq(f, 1, k), b) = Compose(SubSeq(f, 1, m))
  BY <1>4, <1>5 DEF Collect
<1> QED
  BY <1>6, ComposePrefix DEF b

-----------------------------------------------------------------------------
(* Streams read in pieces of frames implement the channel of whole frames.  *)

(* The frames that are not handed on yet: the one under way is partly in    *)
(* the composer's buffer, partly still on the wire.                         *)
UnderWay(f, k) ==
  /\ k \in 3..(Len(f) - 1)
  /\ temp_bytes = SubSeq(f, 1, k)
  /\ wire \in Seq(Seq(Byte)) /\ wire # <<>> /\ Head(wire) = SubSeq(f, k + 1, Len(f))

(* Bytes with no start frame among them. *)
NoStart(data) == \A i \in DOMAIN data : ~StartsAt(data, i)

(* The bytes that were in the port when reading began are not all read yet; *)
(* the composer has kept none of them.                                      *)
PassingOver ==
  /\ temp_bytes = <<>>
  /\ wire \in Seq(Seq(Byte)) /\ wire # <<>> /\ NoStart(Head(wire))
  /\ sent = collected \o Tail(wire)

StreamInv ==
  /\ sent \in Seq(Frames)
  /\ collected \in Seq(Frames)
  /\ \/ /\ ~begun /\ temp_bytes = <<>>
        /\ wire \in Seq(Frames)
        /\ sent = collected \o wire
     \/ /\ begun
        /\ Tail(wire) \in Seq(Frames)
        /\ \/ PassingOver
           \/ \E f \in Frames, k \in Nat :
                OneStart(f) /\ UnderWay(f, k) /\ sent = collected \o (<<f>> \o Tail(wire))

(* Nothing the composer would take for a frame is in the port when reading  *)
(* begins.                                                                  *)
NoFramesLeft == \A rest \in Leftover : NoStart(rest)

(* And reads end where the composer can cope with it. *)
FrameReads == NoFramesLeft /\ Reads = "within_frames"

(* Before reading begins the composer is empty and so is the channel. *)
LEMMA StreamInvInit ==
  ASSUME FrameReads, StreamInit
  PROVE  StreamInv /\ Channel!ChannelInit
<1>1. PICK rest \in Leftover : wire = Piece(rest) /\ begun = (rest # <<>>)
  BY DEF StreamInit
<1>2. rest \in Seq(Byte) /\ NoStart(rest)
  BY StreamAssumption DEF FrameReads, NoFramesLeft
<1>3. <<>> \o <<>> = <<>> /\ <<>> \in Seq(Frames)
  BY EmptySeq, ConcatEmptySeq
<1>4. sent = <<>> /\ temp_bytes = <<>> /\ collected = <<>>
  BY DEF StreamInit
<1>5. CASE rest = <<>>
  BY <1>1, <1>3, <1>4, <1>5 DEF StreamInv, Piece, Channel!ChannelInit
<1>6. CASE rest # <<>>
  <2>1. wire = <<rest>> /\ begun
    BY <1>1, <1>6 DEF Piece
  <2>2. wire \in Seq(Seq(Byte)) /\ wire # <<>> /\ Head(wire) = rest /\ Tail(wire) = <<>>
    BY <1>2, <2>1
  <2> QED BY <1>2, <1>3, <1>4, <2>1, <2>2 DEF StreamInv, PassingOver, Channel!ChannelInit
<1> QED
  BY <1>5, <1>6

(* Appending to a concatenation appends to its second part. *)
LEMMA AppendConcat ==
  ASSUME NEW e \in Frames, NEW c \in Seq(Frames), NEW w \in Seq(Frames)
  PROVE  Append(c \o w, e) = c \o Append(w, e)
<1>1. <<e>> \in Seq(Frames)
  OBVIOUS
<1>2. Append(c \o w, e) = (c \o w) \o <<e>>
  BY ConcatProperties, AppendIsConcat
<1>3. Append(w, e) = w \o <<e>>
  BY AppendIsConcat
<1>4. (c \o w) \o <<e>> = c \o (w \o <<e>>)
  BY <1>1, ConcatAssociative
<1> QED
  BY <1>2, <1>3, <1>4

(* A frame the device sends joins the end of the wire. *)
LEMMA StreamInvSend ==
  ASSUME FrameReads, StreamInv, SendFrame
  PROVE  StreamInv' /\ Channel!SendFrame
<1>1. PICK f \in Frames : sent' = Append(sent, f) /\ wire' = Append(wire, f)
  <2>1. ~(Reads = "anywhere")
    BY DEF FrameReads
  <2> QED BY <2>1 DEF SendFrame
<1>2. UNCHANGED <<begun, temp_bytes, collected>>
  BY DEF SendFrame
<1>3. Channel!SendFrame
  BY <1>1, <1>2 DEF Channel!SendFrame
<1>4. collected \in Seq(Frames)
  BY DEF StreamInv
<1>8. \A c, w \in Seq(Frames) : Append(c \o w, f) = c \o Append(w, f)
  BY AppendConcat
<1>5. sent' \in Seq(Frames)
  BY <1>1, AppendProperties DEF StreamInv
<1>6. CASE ~begun
  <2>1. wire \in Seq(Frames) /\ sent = collected \o wire /\ temp_bytes = <<>>
    BY <1>6 DEF StreamInv
  <2>2. Append(collected \o wire, f) = collected \o Append(wire, f)
    BY <1>4, <1>8, <2>1
  <2>3. Append(wire, f) \in Seq(Frames)
    BY <2>1, AppendProperties
  <2> QED BY <1>1, <1>2, <1>3, <1>4, <1>5, <1>6, <2>1, <2>2, <2>3 DEF StreamInv
<1>9. CASE begun /\ PassingOver
  <2>2. f \in Seq(Byte) /\ Tail(wire) \in Seq(Frames)
    BY <1>9, FramesAssumption DEF StreamInv, IsFrame
  <2>3. /\ Head(wire') = Head(wire) /\ Tail(wire') = Append(Tail(wire), f)
        /\ wire' \in Seq(Seq(Byte)) /\ wire' # <<>>
    BY <1>1, <1>9, <2>2, HeadTailAppend, AppendProperties DEF PassingOver
  <2>4. Tail(wire') \in Seq(Frames)
    <3>1. Append(Tail(wire), f) \in Seq(Frames)
      BY <2>2, AppendProperties
    <3> QED BY <2>3, <3>1
  <2>5. sent' = collected' \o Tail(wire')
    BY <1>1, <1>2, <1>4, <1>8, <1>9, <2>2, <2>3 DEF PassingOver
  <2>6. PassingOver'
    BY <1>2, <1>9, <2>3, <2>5 DEF PassingOver
  <2> QED BY <1>2, <1>3, <1>4, <1>5, <1>9, <2>4, <2>6 DEF StreamInv
<1>7. CASE begun /\ ~PassingOver
  <2>1. PICK g \in Frames, k \in Nat :
          OneStart(g) /\ UnderWay(g, k) /\ sent = collected \o (<<g>> \o Tail(wire))
    BY <1>7 DEF StreamInv
  <2>2. f \in Seq(Byte) /\ Tail(wire) \in Seq(Frames)
    BY <1>7, FramesAssumption DEF StreamInv, IsFrame
  <2>3. /\ Head(wire') = Head(wire) /\ Tail(wire') = Append(Tail(wire), f)
        /\ wire' \in Seq(Seq(Byte)) /\ wire' # <<>>
    BY <1>1, <2>1, <2>2, HeadTailAppend, AppendProperties DEF UnderWay
  <2>4. UnderWay(g, k)'
    BY <1>2, <2>1, <2>3 DEF UnderWay
  <2>5. Tail(wire') \in Seq(Frames)
    <3>1. Append(Tail(wire), f) \in Seq(Frames)
      BY <2>2, AppendProperties
    <3> QED BY <2>3, <3>1
  <2>6. sent' = collected' \o (<<g>> \o Tail(wire'))
    <3>1. <<g>> \in Seq(Frames) /\ <<g>> \o Tail(wire) \in Seq(Frames)
      BY <2>2, ConcatProperties
    <3>2. Append(collected \o (<<g>> \o Tail(wire)), f)
            = collected \o Append(<<g>> \o Tail(wire), f)
      BY <1>4, <1>8, <3>1
    <3>3. Append(<<g>> \o Tail(wire), f) = <<g>> \o Append(Tail(wire), f)
      BY <1>8, <2>2, <3>1
    <3> QED BY <1>1, <1>2, <2>1, <2>3, <3>2, <3>3
  <2> QED BY <1>2, <1>3, <1>5, <1>7, <2>1, <2>4, <2>5, <2>6 DEF StreamInv
<1> QED
  BY <1>6, <1>7, <1>9

(* When a frame is complete the channel hands on its oldest frame.          *)
LEMMA HandOnFirst ==
  ASSUME NEW f \in Frames, NEW rest \in Seq(Frames),
         collected \in Seq(Frames), sent = collected \o (<<f>> \o rest),
         collected' = collected \o <<f>>, UNCHANGED sent
  PROVE  /\ Channel!HandOn
         /\ collected' \in Seq(Frames)
         /\ sent' = collected' \o rest
<1>1. <<f>> \in Seq(Frames) /\ <<f>> \o rest \in Seq(Frames)
  BY ConcatProperties
<1>2. (<<f>> \o rest)[1] = f /\ Len(<<f>> \o rest) = 1 + Len(rest)
  BY <1>1, ConcatProperties
<1>3. Len(sent) = Len(collected) + 1 + Len(rest) /\ Len(rest) \in Nat /\ Len(collected) \in Nat
  BY <1>1, <1>2, ConcatProperties
<1>4. sent[Len(collected) + 1] = f
  BY <1>1, <1>2, <1>3, ConcatProperties
<1>5. collected' = Append(collected, f)
  BY AppendIsConcat
<1>6. Channel!HandOn
  BY <1>3, <1>4, <1>5 DEF Channel!HandOn
<1>7. collected' \in Seq(Frames)
  BY <1>1, ConcatProperties
<1>8. (collected \o <<f>>) \o rest = collected \o (<<f>> \o rest)
  BY <1>1, ConcatAssociative
<1> QED
  BY <1>6, <1>7, <1>8

(* What is left of a sequence of bytes after its first n. *)
LEMMA RestOf ==
  ASSUME NEW s \in Seq(Byte), NEW n \in Nat, n < Len(s)
  PROVE  From(s, n) \in Seq(Byte) /\ Len(From(s, n)) = Len(s) - n /\ From(s, n) # <<>>
<1>1. Len(s) \in Nat /\ n + 1 \in Int /\ \A i \in (n + 1)..Len(s) : i \in 1..Len(s)
  OBVIOUS
<1>2. \A i \in (n + 1)..Len(s) : s[i] \in Byte
  BY <1>1, ElementOfSeq
<1>3. From(s, n) \in Seq(Byte) /\ Len(From(s, n)) = Len(s) - n
  BY <1>1, <1>2, SubSeqProperties DEF From
<1> QED
  BY <1>3

(* A piece put back ahead of the frames that follow it. *)
LEMMA PieceAhead ==
  ASSUME NEW p \in Seq(Byte), p # <<>>, NEW rest \in Seq(Frames)
  PROVE  LET w == Piece(p) \o rest
         IN  /\ w \in Seq(Seq(Byte)) /\ w # <<>>
             /\ Head(w) = p /\ Tail(w) = rest
<1>1. Piece(p) = <<p>> /\ <<p>> \in Seq(Seq(Byte)) /\ Len(<<p>>) = 1
  BY DEF Piece
<1>2. rest \in Seq(Seq(Byte))
  BY SeqMonotonic, FramesAssumption DEF IsFrame
<1> DEFINE w == <<p>> \o rest
<1>4. /\ w \in Seq(Seq(Byte)) /\ Len(w) = 1 + Len(rest) /\ Len(rest) \in Nat
      /\ w[1] = p /\ \A i \in 1..Len(rest) : w[i + 1] = rest[i]
  <2>1. w \in Seq(Seq(Byte)) /\ Len(w) = 1 + Len(rest) /\ Len(rest) \in Nat
    BY <1>1, <1>2, ConcatProperties
  <2>2. \A i \in 1..Len(w) : w[i] = IF i <= 1 THEN <<p>>[i] ELSE rest[i - 1]
    BY <1>1, <1>2, ConcatProperties
  <2>3. w[1] = p
    BY <2>1, <2>2
  <2>4. \A i \in 1..Len(rest) : w[i + 1] = rest[i]
    <3> TAKE i \in 1..Len(rest)
    <3>1. i + 1 \in 1..Len(w) /\ ~(i + 1 <= 1) /\ (i + 1) - 1 = i BY <2>1
    <3> QED BY <2>2, <3>1
  <2> QED BY <2>1, <2>3, <2>4
<1> HIDE DEF w
<1>5. w # <<>> /\ Head(w) = p
  BY <1>4
<1>6. Tail(w) = rest
  <2>1. /\ Tail(w) \in Seq(Seq(Byte)) /\ Len(Tail(w)) = Len(rest)
        /\ \A i \in 1..Len(rest) : Tail(w)[i] = rest[i]
    BY <1>4, <1>5, HeadTailProperties
  <2> QED BY <1>2, <2>1, SeqEqual
<1> QED
  BY <1>1, <1>4, <1>5, <1>6 DEF w

(* What reading does to the composer's buffer and to the packets returned. *)
LEMMA HandOver ==
  ASSUME NEW data, NEW p, NEW t, HandToCollect(data),
         Collect(temp_bytes, data) = [packet |-> p, temp_bytes |-> t]
  PROVE  collected' = collected \o p /\ temp_bytes' = t
BY DEF HandToCollect

(* Reading the first piece of a frame. *)
LEMMA StreamInvFirst ==
  ASSUME FrameReads, StreamInv, ReadPiece, ~begun
  PROVE  StreamInv' /\ (Channel!HandOn \/ UNCHANGED <<sent, collected>>)
<1>1. /\ sent \in Seq(Frames) /\ collected \in Seq(Frames) /\ temp_bytes = <<>>
      /\ wire \in Seq(Frames) /\ sent = collected \o wire
  BY DEF StreamInv
<1>0. wire # <<>> /\ Head(wire) \in Frames /\ Tail(wire) \in Seq(Frames) /\ sent' = sent
  BY <1>1, HeadTailProperties DEF ReadPiece
<1>2. PICK f \in Frames : f = Head(wire)
  BY <1>0
<1>3. wire = <<f>> \o Tail(wire)
  BY <1>0, <1>1, <1>2
<1>4. IsFrame(f) /\ f \in Seq(Byte) /\ Len(f) \in Nat /\ Len(f) >= 8
  BY <1>0, <1>2, FramesAssumption DEF IsFrame
<1>5. PICK n \in 1..Len(f) :
        /\ (n >= 3 /\ OneStart(f)) \/ n = Len(f)
        /\ HandToCollect(SubSeq(f, 1, n))
        /\ wire' = Piece(From(f, n)) \o Tail(wire)
        /\ begun' <=> n < Len(f)
  <2>1. ~(Reads = "anywhere") /\ ~begun
    BY DEF FrameReads
  <2> QED BY <1>2, <2>1 DEF ReadPiece, StartFrame
<1>6. n \in 3..Len(f)
  BY <1>4, <1>5
<1>7. CASE n = Len(f)
  <2>1. collected' = collected \o <<f>> /\ temp_bytes' = <<>>
    <3>1. Collect(<<>>, SubSeq(f, 1, n)) = [packet |-> <<f>>, temp_bytes |-> <<>>]
      BY <1>4, <1>6, <1>7, FirstPiece
    <3>2. HandToCollect(SubSeq(f, 1, n)) BY <1>5
    <3>3. Collect(temp_bytes, SubSeq(f, 1, n)) = [packet |-> <<f>>, temp_bytes |-> <<>>]
      BY <1>1, <3>1
    <3> QED BY <3>2, <3>3, HandOver
  <2>2. wire' = Tail(wire)
    <3>1. From(f, n) = <<>> BY <1>4, <1>7, SubSeqEmpty DEF From
    <3> QED BY <1>0, <1>2, <1>5, <3>1, ConcatEmptySeq DEF Piece
  <2>3. Channel!HandOn /\ collected' \in Seq(Frames) /\ sent' = collected' \o Tail(wire)
    BY <1>1, <1>0, <1>2, <1>3, <2>1, HandOnFirst
  <2>4. ~begun' BY <1>4, <1>5, <1>7
  <2> QED BY <1>1, <1>0, <1>2, <2>1, <2>2, <2>3, <2>4 DEF StreamInv
<1>8. CASE n < Len(f)
  <2>1. collected' = collected /\ temp_bytes' = SubSeq(f, 1, n)
    <3>1. n # Len(f) BY <1>4, <1>5, <1>8
    <3>2. Collect(<<>>, SubSeq(f, 1, n)) = [packet |-> <<>>, temp_bytes |-> SubSeq(f, 1, n)]
      BY <1>4, <1>6, <3>1, FirstPiece
    <3>3. HandToCollect(SubSeq(f, 1, n)) BY <1>5
    <3>4. Collect(temp_bytes, SubSeq(f, 1, n)) = [packet |-> <<>>, temp_bytes |-> SubSeq(f, 1, n)]
      BY <1>1, <3>2
    <3>5. collected' = collected \o <<>> /\ temp_bytes' = SubSeq(f, 1, n)
      BY <3>3, <3>4, HandOver
    <3> QED BY <1>1, <3>5, ConcatEmptySeq
  <2>2. From(f, n) \in Seq(Byte) /\ From(f, n) # <<>>
    BY <1>4, <1>6, <1>8, RestOf
  <2>3. Head(wire') = From(f, n) /\ Tail(wire') = Tail(wire) /\ wire' # <<>>
        /\ wire' \in Seq(Seq(Byte))
    BY <1>0, <1>2, <1>5, <2>2, PieceAhead
  <2>4. UnderWay(f, n)'
    BY <1>4, <1>6, <1>8, <2>1, <2>3 DEF UnderWay, From
  <2>5. begun' /\ OneStart(f)
    <3>1. n # Len(f) BY <1>4, <1>5, <1>8
    <3> QED BY <1>5, <1>8, <3>1
  <2>6. sent' = collected' \o (<<f>> \o Tail(wire'))
    BY <1>1, <1>0, <1>2, <1>3, <2>1, <2>3
  <2>7. sent' \in Seq(Frames) /\ collected' \in Seq(Frames) /\ Tail(wire') \in Seq(Frames)
    <3>1. Tail(wire') \in Seq(Frames) BY <1>0, <2>3
    <3>2. sent' \in Seq(Frames) BY <1>0, <1>1
    <3>3. collected' \in Seq(Frames) BY <1>1, <2>1
    <3> QED BY <3>1, <3>2, <3>3
  <2>9. n \in Nat
    BY <1>6
  <2>8. UNCHANGED <<sent, collected>>
    BY <1>0, <1>2, <2>1
  <2> QED BY <2>4, <2>5, <2>6, <2>7, <2>8, <2>9 DEF StreamInv
<1> QED
  BY <1>4, <1>6, <1>7, <1>8

(* Reading a later piece of the frame under way. *)
LEMMA StreamInvNext ==
  ASSUME FrameReads, StreamInv, ReadPiece, begun, ~PassingOver
  PROVE  StreamInv' /\ (Channel!HandOn \/ UNCHANGED <<sent, collected>>)
<1>1. PICK f \in Frames, k \in Nat :
        OneStart(f) /\ UnderWay(f, k) /\ sent = collected \o (<<f>> \o Tail(wire))
  BY DEF StreamInv
<1>2. /\ sent \in Seq(Frames) /\ collected \in Seq(Frames) /\ sent' = sent
      /\ Tail(wire) \in Seq(Frames)
  BY DEF StreamInv, ReadPiece
<1>3. IsFrame(f) /\ f \in Seq(Byte) /\ Len(f) \in Nat /\ OneStart(f)
  BY <1>1, FramesAssumption DEF IsFrame
<1>4. /\ k \in 3..(Len(f) - 1) /\ temp_bytes = SubSeq(f, 1, k)
      /\ Head(wire) = SubSeq(f, k + 1, Len(f))
  BY <1>1 DEF UnderWay
<1>5. PICK b : b = Head(wire)
  OBVIOUS
<1>6. b = SubSeq(f, k + 1, Len(f)) /\ b \in Seq(Byte) /\ Len(b) = Len(f) - k
  <2>1. k \in Nat /\ k < Len(f) BY <1>3, <1>4
  <2> QED BY <1>3, <1>4, <1>5, <2>1, RestOf DEF From
<1>7. PICK n \in 1..Len(b) :
        /\ HandToCollect(SubSeq(b, 1, n))
        /\ wire' = Piece(From(b, n)) \o Tail(wire)
        /\ begun' <=> n < Len(b)
  BY <1>5 DEF ReadPiece
<1>8. n \in Nat /\ k + n \in (k + 1)..Len(f) /\ k + n \in Nat
  BY <1>3, <1>4, <1>6, <1>7
<1>9. SubSeq(b, 1, n) = SubSeq(f, k + 1, k + n)
  <2>1. 1 \in 1..(Len(f) - k) /\ n \in 1..(Len(f) - k)
    BY <1>3, <1>4, <1>6, <1>7
  <2> QED BY <1>3, <1>4, <1>6, <1>8, <2>1, SubSeqOfSubSeq
<1>10. CASE n = Len(b)
  <2>1. k + n = Len(f)
    BY <1>3, <1>4, <1>6, <1>10
  <2>2. Collect(temp_bytes, SubSeq(b, 1, n)) = [packet |-> <<f>>, temp_bytes |-> <<>>]
    BY <1>3, <1>4, <1>8, <1>9, <2>1, NextPiece
  <2>3. collected' = collected \o <<f>> /\ temp_bytes' = <<>>
    BY <1>7, <2>2, HandOver
  <2>4. wire' = Tail(wire)
    <3>1. From(b, n) = <<>> BY <1>6, <1>10, SubSeqEmpty DEF From
    <3> QED BY <1>2, <1>7, <3>1, ConcatEmptySeq DEF Piece
  <2>5. Channel!HandOn /\ collected' \in Seq(Frames) /\ sent' = collected' \o Tail(wire)
    BY <1>1, <1>2, <2>3, HandOnFirst
  <2>6. ~begun'
    BY <1>6, <1>7, <1>10
  <2> QED BY <1>2, <2>3, <2>4, <2>5, <2>6 DEF StreamInv
<1>11. CASE n # Len(b)
  <2>1. k + n # Len(f) /\ k + n \in 3..(Len(f) - 1) /\ n < Len(b)
    <3>1. PICK l \in Nat : l = Len(f) BY <1>3
    <3>2. k \in 3..(l - 1) /\ n \in 1..(l - k) /\ n # l - k
      BY <1>4, <1>6, <1>7, <1>11, <3>1
    <3>3. k + n # l /\ k + n \in 3..(l - 1) /\ n < l - k
      BY <3>2
    <3> QED BY <1>6, <3>1, <3>3
  <2>2. Collect(temp_bytes, SubSeq(b, 1, n)) =
          [packet |-> <<>>, temp_bytes |-> SubSeq(f, 1, k + n)]
    BY <1>3, <1>4, <1>8, <1>9, <2>1, NextPiece
  <2>3. collected' = collected /\ temp_bytes' = SubSeq(f, 1, k + n)
    <3>1. collected' = collected \o <<>> /\ temp_bytes' = SubSeq(f, 1, k + n)
      BY <1>7, <2>2, HandOver
    <3> QED BY <1>2, <3>1, ConcatEmptySeq
  <2>4. From(b, n) \in Seq(Byte) /\ From(b, n) # <<>>
    BY <1>6, <1>8, <2>1, RestOf
  <2>5. From(b, n) = SubSeq(f, k + n + 1, Len(f))
    <3>1. PICK l \in Nat : l = Len(f) BY <1>3
    <3>2. k \in 3..(l - 1) /\ n \in 1..(l - k - 1) /\ Len(b) = l - k
      <4>1. k \in 3..(l - 1) /\ Len(b) = l - k
        BY <1>4, <1>6, <3>1
      <4>2. n \in 1..(l - k) /\ n < l - k
        BY <1>7, <2>1, <4>1
      <4> QED BY <3>1, <4>1, <4>2
    <3>3. /\ k + 1 \in 1..l /\ l \in 1..l
          /\ n + 1 \in 1..(l - (k + 1) + 1) /\ l - k \in 1..(l - (k + 1) + 1)
          /\ (k + 1) + (n + 1) - 1 = k + n + 1 /\ (k + 1) + (l - k) - 1 = l
      BY <3>2
    <3>4. SubSeq(SubSeq(f, k + 1, l), n + 1, l - k)
            = SubSeq(f, (k + 1) + (n + 1) - 1, (k + 1) + (l - k) - 1)
      BY <1>3, <3>1, <3>3, SubSeqOfSubSeq
    <3> QED BY <1>6, <3>1, <3>2, <3>3, <3>4 DEF From
  <2>6. Head(wire') = From(b, n) /\ Tail(wire') = Tail(wire) /\ wire' # <<>>
        /\ wire' \in Seq(Seq(Byte))
    BY <1>2, <1>7, <2>4, PieceAhead
  <2>7. UnderWay(f, k + n)'
    BY <1>3, <2>1, <2>3, <2>5, <2>6 DEF UnderWay
  <2>8. begun' BY <1>7, <2>1
  <2>9. sent' = collected' \o (<<f>> \o Tail(wire'))
    BY <1>1, <1>2, <2>3, <2>6
  <2>10. sent' \in Seq(Frames) /\ collected' \in Seq(Frames) /\ Tail(wire') \in Seq(Frames)
    BY <1>2, <2>3, <2>6
  <2>11. UNCHANGED <<sent, collected>>
    BY <1>2, <2>3
  <2> QED BY <1>2, <1>3, <1>8, <2>7, <2>8, <2>9, <2>10, <2>11 DEF StreamInv
<1> QED
  BY <1>10, <1>11

(* No start frame is in any part of bytes without one. *)
LEMMA NoStartInPart ==
  ASSUME NEW s \in Seq(Byte), NoStart(s), NEW m \in Nat, NEW n \in Nat,
         1 <= m, m <= n, n <= Len(s)
  PROVE  NoStart(SubSeq(s, m, n)) /\ SubSeq(s, m, n) \in Seq(Byte)
<1>1. PICK p : p = SubSeq(s, m, n)
  OBVIOUS
<1>2. /\ p \in Seq(Byte) /\ Len(p) = n - m + 1
      /\ \A i \in 1..Len(p) : p[i] = s[m + i - 1]
  BY <1>1, PartOf
<1>3. ASSUME NEW i \in DOMAIN p, StartsAt(p, i)
      PROVE  FALSE
  <2>1. i \in 1..Len(p) /\ i \in Nat /\ i >= 1 /\ Len(p) \in Nat
    BY <1>2
  <2>5. i + 2 <= Len(p) /\ p[i] = 36 /\ p[i + 1] = 75 /\ p[i + 2] = 60
    BY <1>2, <1>3, <2>1, StartsAtBytes
  <2>2. /\ i + 2 <= n - m + 1
        /\ s[m + i - 1] = 36 /\ s[m + i] = 75 /\ s[m + i + 1] = 60
    <3>1. i + 1 \in 1..Len(p) /\ i + 2 \in 1..Len(p)
          /\ m + (i + 1) - 1 = m + i /\ m + (i + 2) - 1 = m + i + 1
      <4>1. PICK l \in Nat : l = Len(p)
        BY <2>1
      <4>2. i \in Nat /\ i >= 1 /\ i + 2 <= l
        BY <2>1, <2>5, <4>1
      <4>3. i + 1 \in 1..l /\ i + 2 \in 1..l
        BY <4>2
      <4>4. m + (i + 1) - 1 = m + i /\ m + (i + 2) - 1 = m + i + 1
        BY <4>2
      <4> QED BY <4>1, <4>3, <4>4
    <3>2. p[i] = s[m + i - 1]
      BY <1>2, <2>1
    <3>3. p[i + 1] = s[m + (i + 1) - 1]
      BY <1>2, <3>1
    <3>4. p[i + 2] = s[m + (i + 2) - 1]
      BY <1>2, <3>1
    <3>5. i + 2 <= n - m + 1
      BY <1>2, <2>5
    <3> QED BY <2>5, <3>1, <3>2, <3>3, <3>4, <3>5
  <2>3. m + i - 1 \in 1..Len(s) /\ (m + i - 1) + 2 <= Len(s)
        /\ (m + i - 1) + 1 = m + i /\ (m + i - 1) + 2 = m + i + 1
    <3>1. PICK l \in Nat : l = Len(s)
      BY LenProperties
    <3>2. PICK j \in Nat : j = m + i - 1 /\ 1 <= j
      <4>1. i \in Nat /\ i >= 1
        BY <2>1
      <4>2. m + i - 1 \in Nat /\ 1 <= m + i - 1
        BY <4>1
      <4> QED BY <4>2
    <3>3. j + 2 <= n /\ n <= l
      BY <2>1, <2>2, <3>1, <3>2
    <3>4. j \in 1..l /\ j + 2 <= l
      BY <3>2, <3>3
    <3>5. j + 1 = m + i /\ j + 2 = m + i + 1
      BY <2>1, <3>2
    <3> QED BY <3>1, <3>2, <3>4, <3>5
  <2>4. StartsAt(s, m + i - 1)
    BY <2>2, <2>3, StartsAtBytes
  <2> QED BY <2>3, <2>4 DEF NoStart
<1> QED
  BY <1>1, <1>2, <1>3 DEF NoStart

(* The composer passes over bytes without a start frame. *)
LEMMA NothingKept ==
  ASSUME NEW data \in Seq(Byte), NoStart(data)
  PROVE  Collect(<<>>, data) = [packet |-> <<>>, temp_bytes |-> <<>>]
<1>1. Find(data) = 0
  BY DEF Find, NoStart
<1>2. <<>> \o data = data
  BY ConcatEmptySeq
<1>3. CheckIsPacket(data) = <<>>
  BY <1>1 DEF CheckIsPacket
<1>4. Compose(data) = [packet |-> <<>>, temp_bytes |-> <<>>]
  BY <1>1 DEF Compose
<1> QED
  BY <1>2, <1>3, <1>4 DEF Collect

(* Reading what was in the port when reading began. *)
LEMMA StreamInvPass ==
  ASSUME FrameReads, StreamInv, ReadPiece, begun, PassingOver
  PROVE  StreamInv' /\ UNCHANGED <<sent, collected>>
<1>1. /\ sent \in Seq(Frames) /\ collected \in Seq(Frames) /\ sent' = sent
      /\ Tail(wire) \in Seq(Frames) /\ sent = collected \o Tail(wire)
  BY DEF StreamInv, PassingOver, ReadPiece
<1>2. PICK b : b = Head(wire)
  OBVIOUS
<1>3. b \in Seq(Byte) /\ NoStart(b) /\ Len(b) \in Nat
  BY <1>2, HeadTailProperties DEF PassingOver
<1>4. PICK n \in 1..Len(b) :
        /\ HandToCollect(SubSeq(b, 1, n))
        /\ wire' = Piece(From(b, n)) \o Tail(wire)
        /\ begun' <=> n < Len(b)
  BY <1>2 DEF ReadPiece
<1>5. collected' = collected /\ temp_bytes' = <<>>
  <2>1. NoStart(SubSeq(b, 1, n)) /\ SubSeq(b, 1, n) \in Seq(Byte)
    BY <1>3, NoStartInPart
  <2>2. Collect(temp_bytes, SubSeq(b, 1, n)) = [packet |-> <<>>, temp_bytes |-> <<>>]
    BY <2>1, NothingKept DEF PassingOver
  <2>3. collected' = collected \o <<>> /\ temp_bytes' = <<>>
    BY <1>4, <2>2, HandOver
  <2> QED BY <1>1, <2>3, ConcatEmptySeq
<1>6. CASE n = Len(b)
  <2>1. From(b, n) = <<>>
    BY <1>3, <1>6, SubSeqEmpty DEF From
  <2>2. wire' = Tail(wire)
    BY <1>1, <1>4, <2>1, ConcatEmptySeq DEF Piece
  <2>3. ~begun'
    BY <1>3, <1>4, <1>6
  <2> QED BY <1>1, <1>5, <2>2, <2>3 DEF StreamInv
<1>7. CASE n # Len(b)
  <2>1. n \in Nat /\ n < Len(b)
    BY <1>3, <1>4, <1>7
  <2>2. From(b, n) \in Seq(Byte) /\ From(b, n) # <<>>
    BY <1>3, <2>1, RestOf
  <2>3. NoStart(From(b, n))
    <3>1. n + 1 \in Nat /\ Len(b) \in Nat /\ 1 <= n + 1 /\ n + 1 <= Len(b)
      BY <1>3, <2>1
    <3> QED BY <1>3, <3>1, NoStartInPart DEF From
  <2>4. /\ Head(wire') = From(b, n) /\ Tail(wire') = Tail(wire)
        /\ wire' # <<>> /\ wire' \in Seq(Seq(Byte))
    BY <1>1, <1>4, <2>2, PieceAhead
  <2>5. PassingOver'
    BY <1>1, <1>5, <2>3, <2>4 DEF PassingOver
  <2>6. begun'
    BY <1>4, <2>1
  <2> QED BY <1>1, <1>5, <2>4, <2>5, <2>6 DEF StreamInv
<1> QED
  BY <1>6, <1>7

(* A step of the stream keeps the invariant and is one of the channel. *)
LEMMA StreamStep ==
  ASSUME FrameReads, StreamInv, [StreamNext]_streamVars
  PROVE  StreamInv' /\ (Channel!ChannelNext \/ UNCHANGED <<sent, collected>>)
<1>1. CASE SendFrame
  BY <1>1, StreamInvSend DEF Channel!ChannelNext
<1>2. CASE ReadPiece
  BY <1>2, StreamInvFirst, StreamInvNext, StreamInvPass DEF Channel!ChannelNext
<1>3. CASE UNCHANGED streamVars
  BY <1>3 DEF streamVars, StreamInv, UnderWay, PassingOver
<1> QED
  BY <1>1, <1>2, <1>3 DEF StreamNext, StreamTerminated

(* Frames read whole, with any payload, and frames read in pieces, with no  *)
(* start frame in the payload, come out of the composer whole, once and in  *)
(* order (engine.py:23-68), whatever the frames and however many, and also  *)
(* when reading begins in the middle of one.                                *)
THEOREM FramesReadAreAChannel ==
  ASSUME FrameReads
  PROVE  StreamSpec => IsChannel
<1>1. StreamInit => StreamInv /\ Channel!ChannelInit
  BY StreamInvInit
<1>2. StreamInv /\ [StreamNext]_streamVars
        => StreamInv' /\ [Channel!ChannelNext]_(Channel!channelVars)
  BY StreamStep DEF Channel!channelVars
<1> QED
  BY <1>1, <1>2, PTL DEF StreamSpec, IsChannel, Channel!ChannelSpec

(* The invariant holds throughout. *)
LEMMA StreamInvHolds ==
  ASSUME FrameReads
  PROVE  StreamSpec => []StreamInv
<1>1. StreamInit => StreamInv
  BY StreamInvInit
<1>2. StreamInv /\ [StreamNext]_streamVars => StreamInv'
  BY StreamStep
<1> QED
  BY <1>1, <1>2, PTL DEF StreamSpec

(* Read where the composer can cope with it, nothing sent is left behind in *)
(* its buffer (engine.py:23-68).                                            *)
THEOREM NothingLeftBehind ==
  ASSUME FrameReads
  PROVE  StreamSpec => []AllCollected
<1>1. ASSUME StreamInv PROVE AllCollected
  <2> SUFFICES ASSUME wire = <<>> PROVE collected = sent
    BY DEF AllCollected
  <2>1. collected \in Seq(Frames) /\ sent = collected \o wire
    BY <1>1 DEF StreamInv, PassingOver, UnderWay
  <2> QED BY <2>1, ConcatEmptySeq
<1>2. StreamInv => AllCollected
  BY <1>1
<1>3. StreamSpec => []StreamInv
  BY StreamInvHolds
<1> QED
  BY <1>2, <1>3, PTL

-----------------------------------------------------------------------------
(* Types, wherever the reads end.                                           *)

(* Whatever is put back ahead of the pieces that follow keeps their type. *)
LEMMA PieceType ==
  ASSUME NEW p \in Seq(Byte), NEW rest \in Seq(Seq(Byte))
  PROVE  Piece(p) \o rest \in Seq(Seq(Byte))
<1>1. Piece(p) \in Seq(Seq(Byte))
  BY EmptySeq DEF Piece
<1> QED
  BY <1>1, ConcatProperties

(* A frame that is sent joins bytes to the wire. *)
LEMMA SendTypes ==
  ASSUME StreamTypeOK, SendFrame
  PROVE  StreamTypeOK'
<1>1. PICK f \in Frames :
        /\ sent' = Append(sent, f)
        /\ wire' = IF Reads = "anywhere" /\ wire # <<>> THEN <<Head(wire) \o f>>
                   ELSE Append(wire, f)
  BY DEF SendFrame
<1>2. f \in Seq(Byte)
  BY FramesAssumption DEF IsFrame
<1>3. sent' \in Seq(Frames)
  BY <1>1, AppendProperties DEF StreamTypeOK
<1>4. Append(wire, f) \in Seq(Seq(Byte))
  BY <1>2, AppendProperties DEF StreamTypeOK
<1>5. wire # <<>> => <<Head(wire) \o f>> \in Seq(Seq(Byte))
  <2> SUFFICES ASSUME wire # <<>> PROVE <<Head(wire) \o f>> \in Seq(Seq(Byte))
    OBVIOUS
  <2>1. Head(wire) \in Seq(Byte)
    BY HeadTailProperties DEF StreamTypeOK
  <2>2. Head(wire) \o f \in Seq(Byte)
    BY <1>2, <2>1, ConcatProperties
  <2> QED BY <2>2
<1>6. wire' \in Seq(Seq(Byte))
  BY <1>1, <1>4, <1>5
<1> QED
  BY <1>3, <1>6 DEF StreamTypeOK, SendFrame

(* What is read is handed to the composer as bytes, and comes back so. *)
LEMMA ReadTypes ==
  ASSUME StreamTypeOK, ReadPiece
  PROVE  StreamTypeOK'
<1>1. wire # <<>> /\ wire \in Seq(Seq(Byte)) /\ sent' = sent
  BY DEF StreamTypeOK, ReadPiece
<1>2. PICK b : b = Head(wire)
  OBVIOUS
<1>3. b \in Seq(Byte) /\ Len(b) \in Nat /\ Tail(wire) \in Seq(Seq(Byte))
  BY <1>1, <1>2, HeadTailProperties
<1>4. PICK n \in 1..Len(b) :
        /\ HandToCollect(SubSeq(b, 1, n))
        /\ wire' = Piece(From(b, n)) \o Tail(wire)
        /\ begun' = (n < Len(b))
  BY <1>2 DEF ReadPiece
<1>5. n \in Nat /\ 1 <= n /\ n <= Len(b)
  BY <1>3
<1>6. wire' \in Seq(Seq(Byte))
  BY <1>3, <1>4, <1>5, FromIs, PieceType
<1>7. temp_bytes' \in Seq(Byte) /\ collected' \in Seq(Seq(Byte) \ {<<>>})
  <2>1. PICK data : data = SubSeq(b, 1, n)
    OBVIOUS
  <2>2. data \in Seq(Byte)
    BY <1>3, <1>5, <2>1, PartOf
  <2>3. PICK result : result = Collect(temp_bytes, data)
    OBVIOUS
  <2>4. temp_bytes' = result.temp_bytes /\ collected' = collected \o result.packet
    BY <1>4, <2>1, <2>3 DEF HandToCollect
  <2>5. result.packet \in Seq(Seq(Byte) \ {<<>>}) /\ result.temp_bytes \in Seq(Byte)
    BY <2>2, <2>3, CollectTypes DEF StreamTypeOK
  <2> QED BY <2>4, <2>5, ConcatProperties DEF StreamTypeOK
<1>8. begun' \in BOOLEAN
  BY <1>4
<1> QED
  BY <1>1, <1>6, <1>7, <1>8 DEF StreamTypeOK

(* Whatever was in the port and wherever the reads end, the stream keeps    *)
(* its types: above all collect never has None handed on, nor an empty      *)
(* packet (engine.py:180-182).                                              *)
THEOREM StreamTypeCorrect == StreamSpec => []StreamTypeOK
<1>1. StreamInit => StreamTypeOK
  <2> SUFFICES ASSUME StreamInit PROVE StreamTypeOK
    OBVIOUS
  <2>1. PICK rest \in Leftover : wire = Piece(rest) /\ begun = (rest # <<>>)
    BY DEF StreamInit
  <2>2. rest \in Seq(Byte)
    BY StreamAssumption
  <2>3. wire \in Seq(Seq(Byte))
    BY <2>1, <2>2, EmptySeq DEF Piece
  <2>4. sent \in Seq(Frames) /\ temp_bytes \in Seq(Byte) /\ collected \in Seq(Seq(Byte) \ {<<>>})
    BY EmptySeq DEF StreamInit
  <2> QED BY <2>1, <2>3, <2>4 DEF StreamTypeOK
<1>2. StreamTypeOK /\ [StreamNext]_streamVars => StreamTypeOK'
  <2> SUFFICES ASSUME StreamTypeOK, [StreamNext]_streamVars
               PROVE  StreamTypeOK'
    OBVIOUS
  <2>1. CASE SendFrame
    BY <2>1, SendTypes
  <2>2. CASE ReadPiece
    BY <2>2, ReadTypes
  <2>3. CASE UNCHANGED streamVars
    BY <2>3 DEF StreamTypeOK, streamVars
  <2> QED
    BY <2>1, <2>2, <2>3 DEF StreamNext, StreamTerminated
<1> QED
  BY <1>1, <1>2, PTL DEF StreamSpec
=============================================================================
