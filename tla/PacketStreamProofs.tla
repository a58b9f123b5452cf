-------------------------- MODULE PacketStreamProofs --------------------------
(***************************************************************************)
(* Theorems about the packet codec, for packets of every content and       *)
(* length, and about responses on their way through composer and codec.    *)
(***************************************************************************)
EXTENDS PacketStream, FrameStreamProofs, FiniteSetTheorems

(* A packet whose payload is as long as its length field says, as all the   *)
(* requests of ksoc_connection.py and every response are.                   *)
WholePacket(p) == p \in PacketFields /\ Len(p.payload) = p.payload_length

-----------------------------------------------------------------------------
(* What is where in the bytes of a packet.                                  *)

(* The bytes before the payload. *)
HeadOf(p) ==
  <<36, 75, p.direction, p.command, 1,
    p.payload_length \div 256, p.payload_length % 256>>

(* A payload of the length announced is packed as it is. *)
LEMMA FillNothing ==
  ASSUME NEW bytes \in Seq(Byte)
  PROVE  Fill(bytes, Len(bytes)) = bytes
BY DEF Fill

(* A number of two bytes is put together of them again. *)
LEMMA SplitInTwo ==
  ASSUME NEW n \in TwoBytes
  PROVE  /\ n \in Nat /\ (n \div 256) \in Byte /\ (n % 256) \in Byte
         /\ 256 * (n \div 256) + (n % 256) = n
<1>1. n \in Nat /\ n < 256 * 256
  BY DEF TwoBytes
<1>2. /\ (n \div 256) \in Int /\ (n % 256) \in Int
      /\ n \div 256 >= 0 /\ n \div 256 <= 255 /\ n % 256 >= 0 /\ n % 256 <= 255
      /\ 256 * (n \div 256) + (n % 256) = n
  BY <1>1
<1> QED
  BY <1>1, <1>2 DEF Byte

(* The parts of a packet are sequences of bytes. *)
LEMMA PacketParts ==
  ASSUME NEW p, WholePacket(p)
  PROVE  /\ HeadOf(p) \in Seq(Byte) /\ Len(HeadOf(p)) = 7
         /\ p.payload \in Seq(Byte) /\ Len(p.payload) = p.payload_length
         /\ p.payload_length \in TwoBytes
         /\ p.checksum \in Byte
         /\ CDC_packet(p) = HeadOf(p) \o p.payload \o <<p.checksum>>
<1>1. /\ p.direction \in {REQUEST, RESPONSE} /\ p.command \in Byte
      /\ p.payload_length \in TwoBytes /\ p.payload \in Seq(Byte) /\ p.checksum \in Byte
      /\ Len(p.payload) = p.payload_length
  BY DEF WholePacket, PacketFields
<1>2. p.direction \in Byte /\ {1, 36, 75} \subseteq Byte
  BY <1>1 DEF REQUEST, RESPONSE, Byte
<1>3. (p.payload_length \div 256) \in Byte /\ (p.payload_length % 256) \in Byte
  BY <1>1, SplitInTwo
<1>4. HeadOf(p) \in Seq(Byte) /\ Len(HeadOf(p)) = 7
  BY <1>1, <1>2, <1>3 DEF HeadOf
<1>5. Fill(p.payload, p.payload_length) = p.payload
  BY <1>1, FillNothing
<1>6. CDC_packet(p) = HeadOf(p) \o p.payload \o <<p.checksum>>
  BY <1>5 DEF CDC_packet, HeadOf
<1> QED
  BY <1>1, <1>4, <1>6

(* What is where in a sequence put together of a head, a body and one byte. *)
LEMMA ThreeParts ==
  ASSUME NEW b, NEW k, NEW n, NEW h, NEW y, NEW c \in Byte,
         h \in Seq(Byte) /\ k = Len(h), y \in Seq(Byte) /\ n = Len(y),
         b = h \o y \o <<c>>
  PROVE  /\ b \in Seq(Byte) /\ Len(b) = k + n + 1
         /\ \A i \in 1..k : b[i] = h[i]
         /\ SubSeq(b, k + 1, k + n) = y
         /\ SubSeq(b, 1, k + n) = h \o y
         /\ b[k + n + 1] = c
<1>0. k \in Nat /\ n \in Nat
  OBVIOUS
<1>1. PICK g : g = h \o y
  OBVIOUS
<1>2. /\ g \in Seq(Byte) /\ Len(g) = k + n
      /\ \A i \in 1..k + n : g[i] = IF i <= k THEN h[i] ELSE y[i - k]
  BY <1>1, ConcatProperties
<1>3. b = Append(g, c)
  BY <1>1, <1>2, AppendIsConcat
<1>4. /\ b \in Seq(Byte) /\ Len(b) = k + n + 1
      /\ \A i \in 1..k + n : b[i] = g[i]
      /\ b[k + n + 1] = c
  BY <1>2, <1>3, AppendProperties
<1>5. \A i \in 1..k : b[i] = h[i]
  BY <1>2, <1>4
<1>6. \A i \in 1..k + n : b[i] \in Byte
  <2>1. \A i \in 1..k + n : g[i] \in Byte
    BY <1>2, ElementOfSeq
  <2> QED BY <1>4, <2>1
<1>7. SubSeq(b, 1, k + n) = g
  <2>1. /\ SubSeq(b, 1, k + n) \in Seq(Byte)
        /\ Len(SubSeq(b, 1, k + n)) = k + n
        /\ \A i \in 1..k + n : SubSeq(b, 1, k + n)[i] = b[i]
    BY <1>6, SubSeqProperties
  <2> QED BY <1>2, <1>4, <2>1, SeqEqual
<1>8. SubSeq(b, k + 1, k + n) = y
  <2>1. /\ SubSeq(b, k + 1, k + n) \in Seq(Byte)
        /\ Len(SubSeq(b, k + 1, k + n)) = n
        /\ \A i \in 1..n : SubSeq(b, k + 1, k + n)[i] = b[k + i]
    <3>1. \A i \in k + 1..k + n : b[i] \in Byte
      BY <1>6
    <3>2. k + 1 \in Int /\ k + n \in Int /\ (k + n) - (k + 1) + 1 = n
          /\ \A i \in 1..n : (k + 1) + i - 1 = k + i
      OBVIOUS
    <3>3. /\ SubSeq(b, k + 1, k + n) \in Seq(Byte)
          /\ Len(SubSeq(b, k + 1, k + n))
               = IF k + 1 <= k + n THEN (k + n) - (k + 1) + 1 ELSE 0
          /\ \A i \in 1..(k + n) - (k + 1) + 1 :
               SubSeq(b, k + 1, k + n)[i] = b[(k + 1) + i - 1]
      BY <3>1, SubSeqProperties
    <3> QED BY <3>2, <3>3
  <2>2. \A i \in 1..n : b[k + i] = y[i]
    <3> TAKE i \in 1..n
    <3>1. k + i \in 1..k + n /\ ~(k + i <= k) /\ (k + i) - k = i
      OBVIOUS
    <3> QED BY <1>2, <1>4, <3>1
  <2>3. PICK z : z = SubSeq(b, k + 1, k + n)
    OBVIOUS
  <2>4. /\ z \in Seq(Byte) /\ Len(z) = Len(y)
        /\ \A i \in 1..Len(z) : z[i] = y[i]
    BY <2>1, <2>2, <2>3
  <2> QED BY <2>3, <2>4, SeqEqual
<1> QED
  BY <1>1, <1>4, <1>5, <1>7, <1>8

(* The layout of a packet, byte by byte. *)
LEMMA PacketLayout ==
  ASSUME NEW p, WholePacket(p), NEW b, b = CDC_packet(p)
  PROVE  /\ b \in Seq(Byte) /\ Len(b) = 8 + p.payload_length
         /\ p.payload_length \in Nat
         /\ \A i \in 1..7 : b[i] = HeadOf(p)[i]
         /\ SubSeq(b, 8, 7 + p.payload_length) = p.payload
         /\ SubSeq(b, 1, 7 + p.payload_length) = HeadOf(p) \o p.payload
         /\ b[Len(b)] = p.checksum
<1>1. PICK h, y, c, n, k :
        /\ h = HeadOf(p) /\ y = p.payload /\ c = p.checksum /\ n = p.payload_length
        /\ k = 7
  OBVIOUS
<1>2. /\ h \in Seq(Byte) /\ Len(h) = k /\ y \in Seq(Byte) /\ Len(y) = n /\ n \in Nat
      /\ c \in Byte /\ b = h \o y \o <<c>>
  <2>1. /\ HeadOf(p) \in Seq(Byte) /\ Len(HeadOf(p)) = 7
        /\ p.payload \in Seq(Byte) /\ Len(p.payload) = p.payload_length
        /\ p.payload_length \in Nat /\ p.checksum \in Byte
        /\ b = HeadOf(p) \o p.payload \o <<p.checksum>>
    BY PacketParts, SplitInTwo
  <2> QED BY <1>1, <2>1
<1>3. k \in Nat /\ 7 + n + 1 = 8 + n
  BY <1>1, <1>2
<1>7. /\ b \in Seq(Byte) /\ Len(b) = k + n + 1
      /\ \A i \in 1..k : b[i] = h[i]
      /\ SubSeq(b, k + 1, k + n) = y
      /\ SubSeq(b, 1, k + n) = h \o y
      /\ b[k + n + 1] = c
  <2>1. h \in Seq(Byte) /\ k = Len(h)
    BY <1>2
  <2>2. y \in Seq(Byte) /\ n = Len(y)
    BY <1>2
  <2>3. c \in Byte
    BY <1>2
  <2>4. b = h \o y \o <<c>>
    BY <1>2
  <2> QED BY <2>1, <2>2, <2>3, <2>4, ThreeParts
<1>4. /\ b \in Seq(Byte) /\ Len(b) = 7 + n + 1
      /\ \A i \in 1..7 : b[i] = h[i]
      /\ SubSeq(b, 7 + 1, 7 + n) = y
      /\ SubSeq(b, 1, 7 + n) = h \o y
      /\ b[7 + n + 1] = c
  BY <1>1, <1>7
<1>5. 7 + 1 = 8
  OBVIOUS
<1>6. /\ b \in Seq(Byte) /\ Len(b) = 8 + n
      /\ \A i \in 1..7 : b[i] = h[i]
      /\ SubSeq(b, 8, 7 + n) = y
      /\ SubSeq(b, 1, 7 + n) = h \o y
      /\ b[8 + n] = c
  BY <1>3, <1>4, <1>5
<1> QED
  BY <1>1, <1>2, <1>6

(* The length field of a packet is the one it was packed with. *)
LEMMA PackedLength ==
  ASSUME NEW p, WholePacket(p)
  PROVE  PayloadLength(CDC_packet(p)) = p.payload_length
<1>1. PICK b, n : b = CDC_packet(p) /\ n = p.payload_length
  OBVIOUS
<1>2. /\ Len(b) = 8 + n /\ n \in Nat
      /\ \A i \in 1..7 : b[i] = HeadOf(p)[i]
  BY <1>1, PacketLayout
<1>3. b[6] = n \div 256 /\ b[7] = n % 256
  BY <1>1, <1>2 DEF HeadOf
<1>4. n \in TwoBytes
  BY <1>1, PacketParts
<1>5. Len(b) >= 7
  BY <1>2
<1>6. PayloadLength(b) = 256 * b[6] + b[7]
  BY <1>5 DEF PayloadLength
<1>7. 256 * (n \div 256) + (n % 256) = n
  BY <1>4, SplitInTwo
<1> QED
  BY <1>1, <1>3, <1>6, <1>7

-----------------------------------------------------------------------------
(* Whatever a packet holds, reading its bytes yields the packet again       *)
(* (packet.py:63-75 and 96-106).                                            *)
THEOREM ReadBack ==
  ASSUME NEW p, WholePacket(p)
  PROVE  get_CDC_packet(CDC_packet(p)) = p
<1>1. PICK b, n : b = CDC_packet(p) /\ n = p.payload_length
  OBVIOUS
<1>2. /\ Len(b) = 8 + n /\ n \in Nat
      /\ \A i \in 1..7 : b[i] = HeadOf(p)[i]
      /\ SubSeq(b, 8, 7 + n) = p.payload /\ b[Len(b)] = p.checksum
  BY <1>1, PacketLayout
<1>3. b[3] = p.direction /\ b[4] = p.command
  BY <1>2 DEF HeadOf
<1>4. PayloadLength(b) = n
  BY <1>1, PackedLength
<1>5. p = [direction |-> p.direction, command |-> p.command, payload_length |-> n,
           payload |-> p.payload, checksum |-> p.checksum]
  BY <1>1 DEF WholePacket, PacketFields
<1>6. Slice(b, 7, 7 + n) = p.payload
  BY <1>2 DEF Slice
<1>7. get_CDC_packet(b) =
        [direction |-> p.direction, command |-> p.command, payload_length |-> n,
         payload |-> p.payload, checksum |-> p.checksum]
  BY <1>2, <1>3, <1>4, <1>6 DEF get_CDC_packet
<1> QED
  BY <1>1, <1>5, <1>7

-----------------------------------------------------------------------------
(* The sum of bytes.                                                        *)

(* The element a sum goes on with. *)
First(s) == CHOOSE x \in s : TRUE

(* Induction on finite sets: G has every subset of D if it has {} and each  *)
(* one that is in it but for its first element.                             *)
LEMMA EverySubset ==
  ASSUME NEW D, IsFiniteSet(D), NEW G, {} \in G,
         \A s \in SUBSET D : s # {} /\ s \ {First(s)} \in G => s \in G
  PROVE  \A s \in SUBSET D : s \in G
<1>1. PICK Bad : Bad = {s \in SUBSET D : s \notin G}
  OBVIOUS
<1>2. ASSUME Bad # {} PROVE FALSE
  <2>1. \A s \in SUBSET D : IsFiniteSet(s) /\ Cardinality(s) \in Nat
    BY FS_Subset, FS_CardinalityType
  <2>2. PICK T : T = {Cardinality(s) : s \in Bad}
    OBVIOUS
  <2>3. T \subseteq Nat /\ T # {}
    BY <1>1, <1>2, <2>1, <2>2
  <2>4. PICK m \in T : \A n \in T : m <= n
    BY <2>3, LeastNumber
  <2>5. PICK s \in Bad : m = Cardinality(s)
    BY <2>2, <2>4
  <2>6. s \in SUBSET D /\ s \notin G /\ s # {}
    BY <1>1, <2>5
  <2>7. First(s) \in s
    BY <2>6 DEF First
  <2>8. PICK r : r = s \ {First(s)}
    OBVIOUS
  <2>9. r \in SUBSET D /\ Cardinality(r) = m - 1 /\ m \in Nat
    <3>1. Cardinality(r) = Cardinality(s) - 1
      BY <2>1, <2>6, <2>7, <2>8, FS_RemoveElement
    <3> QED BY <2>1, <2>5, <2>6, <2>8, <3>1
  <2>10. ~(m <= Cardinality(r))
    BY <2>9
  <2>11. r \notin Bad
    BY <2>2, <2>4, <2>10
  <2>12. r \in G
    BY <1>1, <2>9, <2>11
  <2> QED BY <2>6, <2>8, <2>12
<1> QED
  BY <1>1, <1>2

(* What f says is the sum of d over s: it is for sets of up to n elements.  *)
SumsOver(f, d, s) ==
  f[s] = IF s = {} THEN 0 ELSE d[First(s)] + f[s \ {First(s)}]

SumsUpTo(f, d, n) ==
  /\ f \in [SUBSET DOMAIN d -> Int]
  /\ \A s \in SUBSET DOMAIN d : Cardinality(s) <= n => SumsOver(f, d, s)

(* There are sums for sets of one element more. *)
LEMMA SumsOneMore ==
  ASSUME NEW d \in Seq(Byte), NEW n \in Nat, NEW g, SumsUpTo(g, d, n)
  PROVE  \E f : SumsUpTo(f, d, n + 1)
<1>1. PICK D : D = DOMAIN d
  OBVIOUS
<1>2. IsFiniteSet(D) /\ \A x \in D : d[x] \in Int
  <2>1. D = 1..Len(d) /\ Len(d) \in Nat
    BY <1>1
  <2>2. \A x \in D : d[x] \in Byte
    BY <2>1, ElementOfSeq
  <2> QED BY <2>1, <2>2, ByteIsNat, FS_Interval
<1>3. \A s \in SUBSET D : IsFiniteSet(s) /\ Cardinality(s) \in Nat
  BY <1>2, FS_Subset, FS_CardinalityType
<1>4. ASSUME NEW s \in SUBSET D, s # {}
      PROVE  /\ First(s) \in D /\ s \ {First(s)} \in SUBSET D
             /\ Cardinality(s \ {First(s)}) = Cardinality(s) - 1
  <2>1. First(s) \in s
    BY <1>4 DEF First
  <2> QED BY <1>3, <2>1, FS_RemoveElement
<1>5. PICK f : f = [s \in SUBSET D |-> IF s = {} THEN 0 ELSE d[First(s)] + g[s \ {First(s)}]]
  OBVIOUS
<1>6. g \in [SUBSET D -> Int] /\ \A s \in SUBSET D : Cardinality(s) <= n => SumsOver(g, d, s)
  BY <1>1 DEF SumsUpTo
<1>7. f \in [SUBSET D -> Int]
  <2>1. ASSUME NEW s \in SUBSET D
        PROVE  (IF s = {} THEN 0 ELSE d[First(s)] + g[s \ {First(s)}]) \in Int
    <3>1. CASE s = {}
      BY <3>1
    <3>2. CASE s # {}
      <4>1. d[First(s)] \in Int /\ g[s \ {First(s)}] \in Int
        BY <1>2, <1>4, <1>6, <3>2
      <4> QED BY <3>2, <4>1
    <3> QED BY <3>1, <3>2
  <2> QED BY <1>5, <2>1
<1>8. \A s \in SUBSET D : Cardinality(s) <= n => f[s] = g[s]
  BY <1>5, <1>6 DEF SumsOver
<1>9. ASSUME NEW s \in SUBSET D, Cardinality(s) <= n + 1
      PROVE  SumsOver(f, d, s)
  <2>1. CASE s = {}
    BY <1>5, <2>1 DEF SumsOver
  <2>2. CASE s # {}
    <3>1. PICK r : r = s \ {First(s)}
      OBVIOUS
    <3>2. r \in SUBSET D /\ Cardinality(r) <= n
      BY <1>3, <1>4, <1>9, <2>2, <3>1
    <3>3. f[r] = g[r]
      BY <1>8, <3>2
    <3>4. f[s] = d[First(s)] + g[r]
      BY <1>5, <2>2, <3>1
    <3> QED BY <2>2, <3>1, <3>3, <3>4 DEF SumsOver
  <2> QED BY <2>1, <2>2
<1> QED
  BY <1>1, <1>7, <1>9 DEF SumsUpTo

(* And so for all sets. *)
LEMMA SumsExist ==
  ASSUME NEW d \in Seq(Byte)
  PROVE  \E f : f \in [SUBSET DOMAIN d -> Int] /\ \A s \in SUBSET DOMAIN d : SumsOver(f, d, s)
<1>1. PICK l \in Nat : l = Len(d)
  BY LenProperties
<1>2. PICK T : T = {n \in Nat : ~\E f : SumsUpTo(f, d, n)}
  OBVIOUS
<1>3. \A s \in SUBSET DOMAIN d : IsFiniteSet(s) /\ Cardinality(s) \in Nat /\ Cardinality(s) <= l
  <2>1. DOMAIN d = 1..l
    BY <1>1
  <2>2. IsFiniteSet(1..l) /\ Cardinality(1..l) = l
    BY FS_Interval
  <2> QED BY <2>1, <2>2, FS_Subset, FS_CardinalityType
<1>4. \E f : SumsUpTo(f, d, 0)
  <2>1. PICK f : f = [s \in SUBSET DOMAIN d |-> 0]
    OBVIOUS
  <2>2. f \in [SUBSET DOMAIN d -> Int]
    BY <2>1
  <2>3. ASSUME NEW s \in SUBSET DOMAIN d, Cardinality(s) <= 0
        PROVE  SumsOver(f, d, s)
    <3>1. IsFiniteSet(s) /\ Cardinality(s) = 0
      BY <1>3, <2>3
    <3>2. s = {}
      BY <3>1, FS_EmptySet
    <3> QED BY <2>1, <3>2 DEF SumsOver
  <2>4. SumsUpTo(f, d, 0)
    BY <2>2, <2>3 DEF SumsUpTo
  <2> QED BY <2>4
<1>5. T = {}
  <2> SUFFICES ASSUME T # {} PROVE FALSE
    OBVIOUS
  <2>1. T \subseteq Nat
    BY <1>2
  <2>2. PICK m \in T : \A n \in T : m <= n
    BY <2>1, LeastNumber
  <2>3. m \in Nat /\ m # 0
    BY <1>2, <1>4
  <2>4. PICK k \in Nat : k = m - 1 /\ m = k + 1
    BY <2>3
  <2>5. k \notin T
    BY <2>2, <2>4
  <2>6. \E f : SumsUpTo(f, d, k + 1)
    BY <1>2, <2>4, <2>5, SumsOneMore
  <2> QED BY <1>2, <2>4, <2>6
<1>6. PICK f : SumsUpTo(f, d, l)
  BY <1>2, <1>5
<1> QED
  BY <1>3, <1>6 DEF SumsUpTo

(* So the sum adds up byte after byte. *)
LEMMA SumAddsUp ==
  ASSUME NEW d \in Seq(Byte)
  PROVE  \E f : /\ f \in [SUBSET DOMAIN d -> Int]
                /\ \A s \in SUBSET DOMAIN d : SumsOver(f, d, s)
                /\ SumOf(d) = f[DOMAIN d]
<1>1. PICK D : D = DOMAIN d
  OBVIOUS
<1>2. PICK f : f \in [SUBSET D -> Int] /\ \A s \in SUBSET D : SumsOver(f, d, s)
  BY <1>1, SumsExist
<1> DEFINE Eq(h) == h = [s \in SUBSET D |->
                           IF s = {} THEN 0 ELSE d[First(s)] + h[s \ {First(s)}]]
<1>3. SumOf(d) = (CHOOSE h : Eq(h))[D]
  BY <1>1 DEF SumOf, FoldSeq, FoldFunction, FoldFunctionOnSet, MapThenFoldSet, First
<1>4. Eq(f)
  BY <1>2 DEF SumsOver
<1>5. PICK g : g = CHOOSE h : Eq(h)
  OBVIOUS
<1>6. Eq(g)
  BY <1>4, <1>5
<1>7. \A s \in SUBSET D : SumsOver(g, d, s)
  BY <1>6 DEF SumsOver
<1>8. IsFiniteSet(D) /\ \A x \in D : d[x] \in Int
  <2>1. D = 1..Len(d) /\ Len(d) \in Nat
    BY <1>1
  <2>2. \A x \in D : d[x] \in Byte
    BY <2>1, ElementOfSeq
  <2> QED BY <2>1, <2>2, ByteIsNat, FS_Interval
<1>9. \A s \in SUBSET D : g[s] \in Int
  <2>1. PICK G : G = {s \in SUBSET D : g[s] \in Int}
    OBVIOUS
  <2>2. {} \in G
    <3>1. {} \in SUBSET D /\ SumsOver(g, d, {})
      BY <1>7
    <3>2. g[{}] = 0
      BY <3>1 DEF SumsOver
    <3> QED BY <2>1, <3>1, <3>2
  <2>3. ASSUME NEW s \in SUBSET D, s # {}, s \ {First(s)} \in G
        PROVE  s \in G
    <3>1. First(s) \in D
      BY <2>3 DEF First
    <3>2. g[s] = d[First(s)] + g[s \ {First(s)}]
      BY <1>7, <2>3 DEF SumsOver
    <3>3. d[First(s)] \in Int /\ g[s \ {First(s)}] \in Int
      BY <1>8, <2>1, <2>3, <3>1
    <3> QED BY <2>1, <3>2, <3>3
  <2>4. \A s \in SUBSET D : s \in G
    BY <1>8, <2>2, <2>3, EverySubset
  <2> QED BY <2>1, <2>4
<1>10. g \in [SUBSET D -> Int]
  BY <1>6, <1>9
<1> QED
  BY <1>1, <1>3, <1>5, <1>7, <1>10

(* When one byte changes the sum changes by as much. *)
LEMMA SumChanges ==
  ASSUME NEW d \in Seq(Byte), NEW e \in Seq(Byte), Len(d) = Len(e),
         NEW k \in 1..Len(d), \A i \in 1..Len(d) : i # k => d[i] = e[i]
  PROVE  SumOf(d) \in Int /\ SumOf(e) = SumOf(d) + (e[k] - d[k])
<1>1. PICK l \in Nat : l = Len(d) /\ l = Len(e)
  BY LenProperties
<1>2. PICK D : D = 1..l /\ D = DOMAIN d /\ D = DOMAIN e
  BY <1>1
<1>3. PICK f : /\ f \in [SUBSET D -> Int]
               /\ \A s \in SUBSET D : SumsOver(f, d, s)
               /\ SumOf(d) = f[D]
  BY <1>2, SumAddsUp
<1>4. PICK g : /\ g \in [SUBSET D -> Int]
               /\ \A s \in SUBSET D : SumsOver(g, e, s)
               /\ SumOf(e) = g[D]
  BY <1>2, SumAddsUp
<1>5. PICK c \in Int : c = e[k] - d[k]
  <2>1. d[k] \in Byte /\ e[k] \in Byte
    BY <1>1, ElementOfSeq
  <2> QED BY <2>1, ByteIsNat
<1>6. \A i \in D : d[i] \in Int /\ e[i] \in Int
  <2> TAKE i \in D
  <2>1. d[i] \in Byte /\ e[i] \in Byte
    BY <1>1, <1>2, ElementOfSeq
  <2> QED BY <2>1, ByteIsNat
<1>7. PICK G : G = {s \in SUBSET D : g[s] = f[s] + (IF k \in s THEN c ELSE 0)}
  OBVIOUS
<1>8. {} \in G
  <2>1. {} \in SUBSET D /\ SumsOver(f, d, {}) /\ SumsOver(g, e, {})
    BY <1>3, <1>4
  <2>2. f[{}] = 0 /\ g[{}] = 0
    BY <2>1 DEF SumsOver
  <2>3. g[{}] = f[{}] + (IF k \in {} THEN c ELSE 0)
    BY <2>2
  <2> QED BY <1>7, <2>1, <2>3
<1>9. ASSUME NEW s \in SUBSET D, s # {}, s \ {First(s)} \in G
      PROVE  s \in G
  <2>1. PICK x : x = First(s)
    OBVIOUS
  <2>2. x \in s /\ x \in D
    BY <1>9, <2>1 DEF First
  <2>3. PICK r : r = s \ {x}
    OBVIOUS
  <2>4. f[s] = d[x] + f[r] /\ g[s] = e[x] + g[r]
    BY <1>3, <1>4, <1>9, <2>1, <2>3 DEF SumsOver
  <2>5. g[r] = f[r] + (IF k \in r THEN c ELSE 0) /\ f[r] \in Int /\ f[s] \in Int
    BY <1>3, <1>7, <1>9, <2>1, <2>3
  <2>6. CASE x = k
    <3>1. k \notin r /\ k \in s
      BY <2>2, <2>3, <2>6
    <3>2. g[s] = f[s] + c
      BY <1>5, <1>6, <2>2, <2>4, <2>5, <2>6, <3>1
    <3> QED BY <1>7, <3>1, <3>2
  <2>7. CASE x # k
    <3>1. d[x] = e[x] /\ d[x] \in Int
      BY <1>1, <1>2, <1>6, <2>2, <2>7
    <3>2. k \in r <=> k \in s
      BY <2>3, <2>7
    <3>3. g[s] = f[s] + (IF k \in s THEN c ELSE 0)
      BY <1>5, <2>4, <2>5, <3>1, <3>2
    <3> QED BY <1>7, <3>3
  <2> QED BY <2>6, <2>7
<1>10. IsFiniteSet(D)
  BY <1>2, FS_Interval
<1>11. D \in G
  BY <1>8, <1>9, <1>10, EverySubset
<1>12. k \in D
  BY <1>1, <1>2
<1> QED
  BY <1>3, <1>4, <1>5, <1>7, <1>11, <1>12

(* What is summed up: the packet without its first three bytes and its last  *)
(* one (packet.py:82).                                                       *)
LEMMA SummedUp ==
  ASSUME NEW packet \in Seq(Byte), NEW l \in Nat, l = Len(packet), l >= 8
  PROVE  \E s \in Seq(Byte) : /\ s = Slice(packet, 3, Len(packet) - 1)
                               /\ Len(s) = l - 4
                               /\ \A i \in 1..l - 4 : s[i] = packet[i + 3]
<1>1. PICK s : s = Slice(packet, 3, Len(packet) - 1)
  OBVIOUS
<1>2. s = SubSeq(packet, 4, l - 1)
  BY <1>1 DEF Slice
<1>3. PICK n \in Nat : n = l - 1 /\ 4 <= n + 1 /\ n <= Len(packet)
  OBVIOUS
<1>4. /\ SubSeq(packet, 4, n) \in Seq(Byte)
      /\ Len(SubSeq(packet, 4, n)) = n - 4 + 1
      /\ \A i \in 1..Len(SubSeq(packet, 4, n)) : SubSeq(packet, 4, n)[i] = packet[4 + i - 1]
  BY <1>3, PartOf
<1>5. n - 4 + 1 = l - 4 /\ \A i \in 1..l - 4 : 4 + i - 1 = i + 3
  BY <1>3
<1>6. s \in Seq(Byte) /\ Len(s) = l - 4 /\ \A i \in 1..l - 4 : s[i] = packet[i + 3]
  BY <1>2, <1>3, <1>4, <1>5
<1> QED
  BY <1>1, <1>6

(* The sum is a number, so the checksum is a byte. *)
LEMMA ChecksumIsByte ==
  ASSUME NEW packet \in Seq(Byte), Len(packet) >= 8
  PROVE  calculate_checksum(packet) \in Byte
<1>1. PICK l \in Nat : l = Len(packet)
  BY LenProperties
<1>2. PICK s \in Seq(Byte) : s = Slice(packet, 3, Len(packet) - 1) /\ Len(s) = l - 4
  BY <1>1, SummedUp
<1>3. SumOf(s) \in Int
  <2>1. 1 \in 1..Len(s)
    BY <1>1, <1>2
  <2> QED BY <1>2, <2>1, SumChanges
<1>4. (-SumOf(s)) % 256 \in 0..255
  <2>1. PICK n \in Int : n = -SumOf(s)
    BY <1>3
  <2>2. n % 256 \in 0..255
    OBVIOUS
  <2> QED BY <2>1, <2>2
<1> QED
  BY <1>2, <1>4 DEF calculate_checksum, Byte

(* A packet in which one byte of those summed up is changed has another checksum. *)
LEMMA ChecksumChanges ==
  ASSUME NEW a \in Seq(Byte), NEW b \in Seq(Byte), Len(a) = Len(b), Len(a) >= 8,
         NEW k \in 4..Len(a) - 1, a[k] # b[k],
         \A i \in 1..Len(a) : i # k => a[i] = b[i]
  PROVE  calculate_checksum(a) # calculate_checksum(b)
<1>1. PICK l \in Nat : l = Len(a) /\ l = Len(b) /\ l >= 8
  BY LenProperties
<1>2. PICK s \in Seq(Byte) : /\ s = Slice(a, 3, Len(a) - 1) /\ Len(s) = l - 4
                             /\ \A i \in 1..l - 4 : s[i] = a[i + 3]
  BY <1>1, SummedUp
<1>3. PICK t \in Seq(Byte) : /\ t = Slice(b, 3, Len(b) - 1) /\ Len(t) = l - 4
                             /\ \A i \in 1..l - 4 : t[i] = b[i + 3]
  BY <1>1, SummedUp
<1>4. PICK j \in Int : j = k - 3 /\ j \in 1..l - 4 /\ j + 3 = k
  <2>1. k \in Int /\ 4 <= k /\ k <= l - 1
    BY <1>1
  <2>2. k - 3 \in Int /\ k - 3 \in 1..l - 4 /\ (k - 3) + 3 = k
    BY <2>1
  <2> QED BY <2>2
<1>5. \A i \in 1..l - 4 : i # j => s[i] = t[i]
  <2> SUFFICES ASSUME NEW i \in 1..l - 4, i # j PROVE s[i] = t[i]
    OBVIOUS
  <2>1. i + 3 \in 1..l /\ i + 3 # k
    BY <1>1, <1>4
  <2>2. a[i + 3] = b[i + 3]
    BY <1>1, <2>1
  <2> QED BY <1>2, <1>3, <2>2
<1>6. SumOf(s) \in Int /\ SumOf(t) = SumOf(s) + (t[j] - s[j])
  <2>1. Len(s) = Len(t) /\ j \in 1..Len(s) /\ \A i \in 1..Len(s) : i # j => s[i] = t[i]
    BY <1>2, <1>3, <1>4, <1>5
  <2> QED BY <2>1, SumChanges
<1>7. s[j] = a[k] /\ t[j] = b[k] /\ a[k] \in Byte /\ b[k] \in Byte
  <2>1. k \in 1..l
    BY <1>1
  <2> QED BY <1>1, <1>2, <1>3, <1>4, <2>1, ElementOfSeq
<1>8. PICK m \in Int : m = SumOf(s)
  BY <1>6
<1>9. PICK x \in 0..255, y \in 0..255 : x = a[k] /\ y = b[k] /\ x # y
  BY <1>7 DEF Byte
<1>10. SumOf(t) = m + (y - x)
  BY <1>6, <1>7, <1>8, <1>9
<1>11. (-m) % 256 # (-(m + (y - x))) % 256
  <2>1. PICK u \in Int : u = -m
    OBVIOUS
  <2>2. PICK w \in Int : w = -(m + (y - x))
    OBVIOUS
  <2>3. u - w = y - x /\ x \in Int /\ y \in Int /\ x - y < 256 /\ y - x < 256
    BY <2>1, <2>2
  <2>4. u = 256 * (u \div 256) + (u % 256) /\ w = 256 * (w \div 256) + (w % 256)
    OBVIOUS
  <2>5. PICK p \in Int, q \in Int : p = u \div 256 /\ q = w \div 256
    OBVIOUS
  <2>6. u % 256 = w % 256 => y - x = 256 * (p - q)
    BY <2>3, <2>4, <2>5
  <2>7. u % 256 # w % 256
    BY <1>9, <2>3, <2>6
  <2> QED BY <2>1, <2>2, <2>7
<1> QED
  BY <1>2, <1>3, <1>8, <1>10, <1>11 DEF calculate_checksum

(* The checksum a packet is sent with is not part of what is summed up, so  *)
(* it holds once it is updated, whatever it was before (packet.py:81-93).   *)
THEOREM UpdatedChecksumHolds ==
  ASSUME NEW p, WholePacket(p)
  PROVE  validate_checksum(update_checksum(p))
<1> DEFINE q == update_checksum(p)
           n == p.payload_length
<1>0. calculate_checksum(CDC_packet(p)) \in Byte
  <2>1. PICK a \in Seq(Byte) : a = CDC_packet(p) /\ Len(a) >= 8
    BY PacketLayout
  <2> QED BY <2>1, ChecksumIsByte
<1>1. WholePacket(q) /\ q.payload_length = n /\ q.payload = p.payload
      /\ HeadOf(q) = HeadOf(p)
  BY <1>0 DEF WholePacket, update_checksum, PacketFields, HeadOf
<1>2. PICK a : a = CDC_packet(p)
  OBVIOUS
<1>3. PICK b : b = CDC_packet(q)
  OBVIOUS
<1>4. /\ a \in Seq(Byte) /\ Len(a) = 8 + n /\ n \in Nat
      /\ SubSeq(a, 1, 7 + n) = HeadOf(p) \o p.payload
  BY <1>2, PacketLayout
<1>5. /\ b \in Seq(Byte) /\ Len(b) = 8 + n
      /\ SubSeq(b, 1, 7 + n) = HeadOf(p) \o p.payload
  <2> HIDE DEF q
  <2>1. /\ b \in Seq(Byte) /\ Len(b) = 8 + q.payload_length
        /\ SubSeq(b, 1, 7 + q.payload_length) = HeadOf(q) \o q.payload
    BY <1>1, <1>3, PacketLayout
  <2> QED BY <1>1, <2>1
<1>6. q.checksum = calculate_checksum(a)
  BY <1>2 DEF WholePacket, update_checksum, PacketFields
<1> HIDE DEF q, n
<1>7. \A s \in Seq(Byte) : Len(s) = 8 + n =>
        Slice(s, 3, Len(s) - 1) = SubSeq(SubSeq(s, 1, 7 + n), 4, 7 + n)
  <2> SUFFICES ASSUME NEW s \in Seq(Byte), Len(s) = 8 + n
               PROVE  Slice(s, 3, Len(s) - 1) = SubSeq(SubSeq(s, 1, 7 + n), 4, 7 + n)
    OBVIOUS
  <2>1. Slice(s, 3, Len(s) - 1) = SubSeq(s, 4, 7 + n)
    BY <1>4 DEF Slice
  <2>2. 1 \in 1..Len(s) /\ 7 + n \in 1..Len(s)
        /\ 4 \in 1..(7 + n) - 1 + 1 /\ 7 + n \in 1..(7 + n) - 1 + 1
        /\ 1 + 4 - 1 = 4 /\ 1 + (7 + n) - 1 = 7 + n
    BY <1>4
  <2>3. SubSeq(SubSeq(s, 1, 7 + n), 4, 7 + n) = SubSeq(s, 1 + 4 - 1, 1 + (7 + n) - 1)
    BY <2>2, SubSeqOfSubSeq
  <2> QED BY <2>1, <2>2, <2>3
<1>8. Slice(a, 3, Len(a) - 1) = Slice(b, 3, Len(b) - 1)
  BY <1>4, <1>5, <1>7
<1>9. calculate_checksum(a) = calculate_checksum(b)
  BY <1>8 DEF calculate_checksum
<1> QED
  BY <1>3, <1>6, <1>9 DEF validate_checksum, q

(* A packet with one wrong byte, of those that are summed up or the         *)
(* checksum itself, is noticed: its checksum is incorrect (packet.py:86-94). *)
(* The direction is not summed up, and the channel is not read.             *)
THEOREM WrongByteNoticed ==
  ASSUME NEW p, WholePacket(p), validate_checksum(p),
         NEW b \in Seq(Byte), Len(b) = Len(CDC_packet(p)),
         NEW k \in 1..Len(b), k = 4 \/ k >= 8, b[k] # CDC_packet(p)[k],
         \A i \in 1..Len(b) : i # k => b[i] = CDC_packet(p)[i]
  PROVE  ~validate_checksum(get_CDC_packet(b))
<1>1. PICK a : a = CDC_packet(p)
  OBVIOUS
<1>2. PICK n \in Nat : n = p.payload_length
  BY PacketLayout
<1>3. /\ a \in Seq(Byte) /\ Len(a) = 8 + n
      /\ \A i \in 1..7 : a[i] = HeadOf(p)[i]
      /\ a[8 + n] = p.checksum
  BY <1>1, <1>2, PacketLayout
<1>4. Len(b) = 8 + n /\ b[k] # a[k] /\ \A i \in 1..8 + n : i # k => b[i] = a[i]
  BY <1>1, <1>3
<1>5. /\ b[1] = 36 /\ b[2] = 75 /\ b[3] = p.direction /\ b[5] = 1
      /\ b[6] = n \div 256 /\ b[7] = n % 256
  <2>1. \A i \in 1..7 : i # 4 => b[i] = HeadOf(p)[i]
    BY <1>3, <1>4
  <2> QED BY <1>2, <2>1 DEF HeadOf
<1>6. PICK q : q = get_CDC_packet(b)
  OBVIOUS
<1>7. n \in TwoBytes /\ 256 * (n \div 256) + (n % 256) = n
  BY <1>2, PacketParts, SplitInTwo
<1>8. PayloadLength(b) = n
  BY <1>4, <1>5, <1>7 DEF PayloadLength
<1>9. PICK y : y = SubSeq(b, 8, 7 + n)
  OBVIOUS
<1>10. y \in Seq(Byte) /\ Len(y) = n /\ \A i \in 1..n : y[i] = b[7 + i]
  <2>1. 8 \in Nat /\ 7 + n \in Nat /\ 1 <= 8 /\ 7 + n <= Len(b) /\ 8 <= (7 + n) + 1
    BY <1>4
  <2>2. /\ y \in Seq(Byte) /\ Len(y) = (7 + n) - 8 + 1
        /\ \A i \in 1..Len(y) : y[i] = b[8 + i - 1]
    BY <1>9, <2>1, PartOf
  <2>3. (7 + n) - 8 + 1 = n /\ \A i \in 1..n : 8 + i - 1 = 7 + i
    OBVIOUS
  <2> QED BY <2>2, <2>3
<1>11. q = [direction |-> p.direction, command |-> b[4], payload_length |-> n,
            payload |-> y, checksum |-> b[8 + n]]
  <2>1. Slice(b, 7, 7 + n) = y
    BY <1>4, <1>9 DEF Slice
  <2> QED BY <1>4, <1>5, <1>6, <1>8, <2>1 DEF get_CDC_packet
<1>12. WholePacket(q)
  <2>1. b[4] \in Byte /\ b[8 + n] \in Byte
    <3>1. 4 \in 1..Len(b) /\ 8 + n \in 1..Len(b)
      BY <1>4
    <3> QED BY <3>1, ElementOfSeq
  <2>2. p.direction \in {REQUEST, RESPONSE}
    BY DEF WholePacket, PacketFields
  <2> QED BY <1>7, <1>10, <1>11, <2>1, <2>2 DEF WholePacket, PacketFields
<1>13. PICK c : c = CDC_packet(q)
  OBVIOUS
<1>14. /\ c \in Seq(Byte) /\ Len(c) = 8 + n
       /\ \A i \in 1..7 : c[i] = HeadOf(q)[i]
       /\ SubSeq(c, 8, 7 + n) = y /\ c[8 + n] = b[8 + n]
  <2>1. q.payload_length = n /\ q.payload = y /\ q.checksum = b[8 + n]
    BY <1>11
  <2> QED BY <1>12, <1>13, <2>1, PacketLayout
<1>15. c = b
  <2>1. \A i \in 1..7 : c[i] = b[i]
    <3>1. HeadOf(q) = <<36, 75, p.direction, b[4], 1, n \div 256, n % 256>>
      BY <1>11 DEF HeadOf
    <3>2. /\ c[1] = 36 /\ c[2] = 75 /\ c[3] = p.direction /\ c[4] = b[4] /\ c[5] = 1
          /\ c[6] = n \div 256 /\ c[7] = n % 256
      BY <1>14, <3>1
    <3>3. \A i \in 1..7 : i = 1 \/ i = 2 \/ i = 3 \/ i = 4 \/ i = 5 \/ i = 6 \/ i = 7
      OBVIOUS
    <3> QED BY <1>5, <3>2, <3>3
  <2>2. \A i \in 1..n : c[7 + i] = b[7 + i]
    <3>1. 8 \in Nat /\ 7 + n \in Nat /\ 1 <= 8 /\ 7 + n <= Len(c) /\ 8 <= (7 + n) + 1
      BY <1>14
    <3>2. \A i \in 1..Len(y) : y[i] = c[8 + i - 1]
      BY <1>14, <3>1, PartOf
    <3>3. \A i \in 1..n : 8 + i - 1 = 7 + i
      OBVIOUS
    <3> QED BY <1>10, <3>2, <3>3
  <2>3. ASSUME NEW i \in 1..8 + n PROVE c[i] = b[i]
    <3>1. CASE i <= 7
      BY <2>1, <3>1
    <3>2. CASE i > 7 /\ i <= 7 + n
      <4>1. PICK j \in 1..n : i = 7 + j
        <5>1. i - 7 \in 1..n /\ i = 7 + (i - 7)
          BY <3>2
        <5> QED BY <5>1
      <4> QED BY <2>2, <4>1
    <3>3. CASE i = 8 + n
      BY <1>14, <3>3
    <3> QED BY <3>1, <3>2, <3>3
  <2> QED BY <1>4, <1>14, <2>3, SeqEqual
<1>16. validate_checksum(q) <=> b[8 + n] = calculate_checksum(b)
  <2>1. q.checksum = b[8 + n]
    BY <1>11
  <2> QED BY <1>13, <1>15, <2>1 DEF validate_checksum
<1>17. a[8 + n] = calculate_checksum(a)
  BY <1>1, <1>3 DEF validate_checksum
<1>18. CASE k = 8 + n
  <2>1. PICK s \in Seq(Byte) : /\ s = Slice(a, 3, Len(a) - 1) /\ Len(s) = 4 + n
                               /\ \A i \in 1..4 + n : s[i] = a[i + 3]
    <3>1. PICK l \in Nat : l = 8 + n /\ l = Len(a) /\ l >= 8
      BY <1>3
    <3>2. l - 4 = 4 + n
      BY <3>1
    <3>3. a \in Seq(Byte) /\ l = Len(a) /\ l >= 8
      BY <1>3, <3>1
    <3>4. \E s \in Seq(Byte) : /\ s = Slice(a, 3, Len(a) - 1) /\ Len(s) = l - 4
                               /\ \A i \in 1..l - 4 : s[i] = a[i + 3]
      BY <3>3, SummedUp
    <3> QED BY <3>2, <3>4
  <2>2. PICK t \in Seq(Byte) : /\ t = Slice(b, 3, Len(b) - 1) /\ Len(t) = 4 + n
                               /\ \A i \in 1..4 + n : t[i] = b[i + 3]
    <3>1. PICK l \in Nat : l = 8 + n /\ l = Len(b) /\ l >= 8
      BY <1>4
    <3>2. l - 4 = 4 + n
      BY <3>1
    <3>3. l = Len(b) /\ l >= 8
      BY <3>1
    <3>4. \E t \in Seq(Byte) : /\ t = Slice(b, 3, Len(b) - 1) /\ Len(t) = l - 4
                               /\ \A i \in 1..l - 4 : t[i] = b[i + 3]
      BY <3>3, SummedUp
    <3> QED BY <3>2, <3>4
  <2>3. \A i \in 1..4 + n : i + 3 \in 1..8 + n /\ i + 3 # k
    BY <1>18
  <2>4. \A i \in 1..4 + n : s[i] = t[i]
    BY <1>4, <2>1, <2>2, <2>3
  <2>5. s = t
    BY <2>1, <2>2, <2>4, SeqEqual
  <2>6. calculate_checksum(a) = calculate_checksum(b)
    BY <2>1, <2>2, <2>5 DEF calculate_checksum
  <2> QED BY <1>4, <1>6, <1>16, <1>17, <1>18, <2>6
<1>19. CASE k # 8 + n
  <2>1. k \in 4..Len(a) - 1 /\ Len(a) >= 8 /\ Len(a) = Len(b)
    BY <1>3, <1>4, <1>19
  <2>2. calculate_checksum(a) # calculate_checksum(b)
    <3>1. a[k] # b[k] /\ \A i \in 1..Len(a) : i # k => a[i] = b[i]
      BY <1>3, <1>4
    <3> QED BY <1>3, <2>1, <3>1, ChecksumChanges
  <2>3. b[8 + n] = a[8 + n]
    <3>1. 8 + n \in 1..8 + n
      OBVIOUS
    <3> QED BY <1>4, <1>19, <3>1
  <2> QED BY <1>6, <1>16, <1>17, <2>2, <2>3
<1> QED
  BY <1>18, <1>19

-----------------------------------------------------------------------------
(* A response, packed, is a frame the composer can find and delimit: the    *)
(* codec and the composer agree on the start frame, the place of the length *)
(* and what it counts (packet.py:66-74, engine.py:36, 56-60).               *)
THEOREM ResponsesAreFrames ==
  ASSUME NEW p, IsResponse(p)
  PROVE  IsFrame(CDC_packet(p))
<1>1. WholePacket(p) /\ p.direction = RESPONSE
  BY DEF IsResponse, WholePacket
<1>2. PICK b, n : b = CDC_packet(p) /\ n = p.payload_length
  OBVIOUS
<1>3. /\ b \in Seq(Byte) /\ Len(b) = 8 + n /\ n \in Nat
      /\ \A i \in 1..7 : b[i] = HeadOf(p)[i]
  BY <1>1, <1>2, PacketLayout
<1>4. b[1] = 36 /\ b[2] = 75 /\ b[3] = 60
  BY <1>1, <1>3 DEF HeadOf, RESPONSE
<1>5. SubSeq(b, 1, 3) = StartFrame
  <2>1. \A i \in 1..3 : b[i] \in Byte
    BY <1>4 DEF Byte
  <2>2. PICK s : s = SubSeq(b, 1, 3)
    OBVIOUS
  <2>3. s \in Seq(Byte) /\ Len(s) = 3 /\ \A i \in 1..3 : s[i] = b[i]
    BY <2>1, <2>2, SubSeqProperties
  <2>4. s = <<s[1], s[2], s[3]>>
    BY <2>3
  <2> QED BY <1>4, <2>2, <2>3, <2>4 DEF StartFrame
<1>6. Len(b) = PacketLength(b)
  BY <1>1, <1>2, <1>3, PackedLength DEF PacketLength
<1> QED
  BY <1>2, <1>3, <1>5, <1>6 DEF IsFrame

(* Of a stream that is a channel of frames, what was collected is a first   *)
(* part of what was sent.                                                   *)
LEMMA CollectedIsSent ==
  ASSUME StreamInv, NEW i \in DOMAIN collected
  PROVE  collected[i] = sent[i] /\ sent[i] \in Frames
<1>1. collected \in Seq(Frames)
  BY DEF StreamInv
<1>2. PICK rest \in Seq(Frames) : sent = collected \o rest
  <2>1. CASE ~begun
    BY <2>1 DEF StreamInv
  <2>3. CASE begun /\ PassingOver
    BY <2>3 DEF StreamInv, PassingOver
  <2>2. CASE begun /\ ~PassingOver
    <3>1. PICK f \in Frames : sent = collected \o (<<f>> \o Tail(wire))
      BY <2>2 DEF StreamInv
    <3>2. Tail(wire) \in Seq(Frames)
      BY <2>2 DEF StreamInv
    <3>3. <<f>> \o Tail(wire) \in Seq(Frames)
      BY <3>2, ConcatProperties
    <3> QED BY <3>1, <3>3
  <2> QED BY <2>1, <2>2, <2>3
<1>3. i \in 1..Len(collected) /\ Len(collected) \in Nat /\ Len(rest) \in Nat
  BY <1>1
<1>4. i \in 1..Len(collected) + Len(rest) /\ i <= Len(collected)
  BY <1>3
<1>5. sent[i] = collected[i]
  BY <1>1, <1>2, <1>4, ConcatProperties
<1> QED
  BY <1>1, <1>3, <1>5, ElementOfSeq

(* What is read of a packet that was collected is, field by field, the      *)
(* response that was sent, whatever the responses, however many, and        *)
(* wherever in a frame the reads end (engine.py:23-68, packet.py:96-106).   *)
THEOREM ResponsesDecoded ==
  ASSUME FrameReads
  PROVE  StreamSpec => []DecodedAsSent
<1>1. ASSUME StreamInv PROVE DecodedAsSent
  <2> SUFFICES ASSUME NEW i \in DOMAIN collected
               PROVE  LET p == get_CDC_packet(collected[i])
                      IN  p \in Responses /\ CDC_packet(p) = sent[i] /\ validate_checksum(p)
    BY DEF DecodedAsSent
  <2>1. collected[i] = sent[i] /\ sent[i] \in Frames
    BY <1>1, CollectedIsSent
  <2>2. PICK p \in Responses : sent[i] = CDC_packet(p)
    BY <2>1, ResponsesAssumption
  <2>3. IsResponse(p)
    BY ResponsesAssumption
  <2>4. get_CDC_packet(collected[i]) = p
    BY <2>1, <2>2, <2>3, ReadBack DEF IsResponse, WholePacket
  <2> QED BY <2>2, <2>3, <2>4 DEF IsResponse
<1>2. StreamSpec => []StreamInv
  BY StreamInvHolds
<1>3. StreamInv => DecodedAsSent
  BY <1>1
<1> QED
  BY <1>2, <1>3, PTL
=============================================================================
