------------------------- MODULE CDCCollectionProofs -------------------------
(***************************************************************************)
(* What the composer's functions do with bytes of every kind.              *)
(***************************************************************************)
EXTENDS CDCCollection, SequenceTheorems, WellFoundedInduction, TLAPS

(* A byte counts from 0. *)
LEMMA ByteIsNat == \A b \in Byte : b \in Int /\ b >= 0
BY DEF Byte

(* A part of a sequence of bytes, byte by byte. *)
LEMMA PartOf ==
  ASSUME NEW s \in Seq(Byte), NEW m \in Nat, NEW n \in Nat, 1 <= m, n <= Len(s), m <= n + 1
  PROVE  /\ SubSeq(s, m, n) \in Seq(Byte)
         /\ Len(SubSeq(s, m, n)) = n - m + 1
         /\ \A i \in 1..Len(SubSeq(s, m, n)) : SubSeq(s, m, n)[i] = s[m + i - 1]
<1>1. \A i \in m..n : i \in 1..Len(s)
  OBVIOUS
<1>2. \A i \in m..n : s[i] \in Byte
  BY <1>1, ElementOfSeq
<1> QED
  BY <1>2, SubSeqProperties

(* Two sequences joined, byte by byte. *)
IsJoin(z, s, t) ==
  /\ z \in Seq(Byte) /\ Len(z) = Len(s) + Len(t)
  /\ \A j \in 1..Len(s) : z[j] = s[j]
  /\ \A j \in 1..Len(t) : z[Len(s) + j] = t[j]

LEMMA Joined == \A s, t \in Seq(Byte) : IsJoin(s \o t, s, t)
<1> TAKE s, t \in Seq(Byte)
<1>1. PICK m \in Nat, n \in Nat : m = Len(s) /\ n = Len(t)
  BY LenProperties
<1>2. PICK z : z = s \o t
  OBVIOUS
<1>3. z \in Seq(Byte) /\ Len(z) = m + n
      /\ \A j \in 1..m + n : z[j] = IF j <= m THEN s[j] ELSE t[j - m]
  BY <1>1, <1>2, ConcatProperties
<1>4. \A j \in 1..m : j \in 1..m + n /\ j <= m
  OBVIOUS
<1>5. \A j \in 1..n : m + j \in 1..m + n /\ ~(m + j <= m) /\ (m + j) - m = j
  OBVIOUS
<1> QED
  BY <1>1, <1>2, <1>3, <1>4, <1>5 DEF IsJoin

(* A start frame, byte by byte. *)
LEMMA StartsAtBytes ==
  ASSUME NEW s \in Seq(Byte), NEW i \in 1..Len(s)
  PROVE  StartsAt(s, i) <=>
           i + 2 <= Len(s) /\ s[i] = 36 /\ s[i + 1] = 75 /\ s[i + 2] = 60
<1>1. CASE i + 2 <= Len(s)
  <2>1. PICK p : p = SubSeq(s, i, i + 2)
    OBVIOUS
  <2>2. /\ p \in Seq(Byte) /\ Len(p) = 3
        /\ p[1] = s[i] /\ p[2] = s[i + 1] /\ p[3] = s[i + 2]
    <3>1. /\ p \in Seq(Byte) /\ Len(p) = (i + 2) - i + 1
          /\ \A j \in 1..Len(p) : p[j] = s[i + j - 1]
      BY <1>1, <2>1, PartOf
    <3>2. (i + 2) - i + 1 = 3 /\ i + 1 - 1 = i /\ i + 2 - 1 = i + 1 /\ i + 3 - 1 = i + 2
      OBVIOUS
    <3> QED BY <3>1, <3>2
  <2>3. p = <<p[1], p[2], p[3]>>
    BY <2>2
  <2>4. p = StartFrame <=> p[1] = 36 /\ p[2] = 75 /\ p[3] = 60
    BY <2>3 DEF StartFrame
  <2>5. i + 2 \in DOMAIN s
    BY <1>1
  <2> QED BY <1>1, <2>1, <2>2, <2>4, <2>5 DEF StartsAt
<1>2. CASE ~(i + 2 <= Len(s))
  BY <1>2 DEF StartsAt
<1> QED
  BY <1>1, <1>2

(* find stops at a start frame that comes first. *)
LEMMA FindFirst ==
  ASSUME NEW data \in Seq(Byte), Len(data) >= 3, SubSeq(data, 1, 3) = StartFrame
  PROVE  Find(data) = 1
<1>1. 1 \in DOMAIN data /\ StartsAt(data, 1)
  BY DEF StartsAt
<1>2. \A i \in DOMAIN data :
        (StartsAt(data, i) /\ \A j \in DOMAIN data : StartsAt(data, j) => i <= j) <=> i = 1
  BY <1>1
<1> QED
  BY <1>1, <1>2 DEF Find

(* Of numbers there is a least one. *)
LEMMA LeastNumber ==
  ASSUME NEW T, T \subseteq Nat, T # {}
  PROVE  \E x \in T : \A y \in T : x <= y
<1> DEFINE R == OpToRel(<, Nat)
<1>1. IsWellFoundedOn(R, Nat)
  BY NatLessThanWellFounded
<1>2. R = {p \in Nat \X Nat : p[1] < p[2]}
  BY DEF OpToRel
<1> HIDE DEF R
<1>3. PICK x \in T : \A y \in T : ~ (<<y, x>> \in R)
  BY <1>1, WFMin
<1>4. ASSUME NEW y \in T
      PROVE  x <= y
  <2>1. ~ (<<y, x>> \in R)
    BY <1>3
  <2>2. x \in Nat /\ y \in Nat
    OBVIOUS
  <2> QED BY <1>2, <2>1, <2>2
<1> QED
  BY <1>4

(* find yields the first place at which there is a start frame, if any. *)
LEMMA FindIs ==
  ASSUME NEW s \in Seq(Byte)
  PROVE  \/ Find(s) = 0 /\ \A i \in 1..Len(s) : ~StartsAt(s, i)
         \/ /\ Find(s) \in 1..Len(s) /\ StartsAt(s, Find(s))
            /\ \A i \in 1..Len(s) : StartsAt(s, i) => Find(s) <= i
<1>1. DOMAIN s = 1..Len(s) /\ Len(s) \in Nat
  BY LenProperties
<1>2. CASE \E i \in 1..Len(s) : StartsAt(s, i)
  <2> DEFINE T == {i \in 1..Len(s) : StartsAt(s, i)}
  <2>1. T \subseteq Nat /\ T # {}
    BY <1>1, <1>2
  <2>2. PICK x \in T : \A y \in T : x <= y
    BY <2>1, LeastNumber
  <2>3. \E i \in DOMAIN s :
          StartsAt(s, i) /\ \A j \in DOMAIN s : StartsAt(s, j) => i <= j
    BY <1>1, <2>2
  <2>4. Find(s) = CHOOSE i \in DOMAIN s :
                    StartsAt(s, i) /\ \A j \in DOMAIN s : StartsAt(s, j) => i <= j
    BY <1>1, <1>2 DEF Find
  <2> QED BY <1>1, <2>3, <2>4
<1>3. CASE ~\E i \in 1..Len(s) : StartsAt(s, i)
  BY <1>1, <1>3 DEF Find
<1> QED
  BY <1>2, <1>3

(* What follows the first m bytes. *)
LEMMA FromIs ==
  ASSUME NEW s \in Seq(Byte), NEW m \in Nat
  PROVE  /\ From(s, m) \in Seq(Byte)
         /\ m <= Len(s) => /\ Len(From(s, m)) = Len(s) - m
                           /\ \A i \in 1..Len(From(s, m)) : From(s, m)[i] = s[m + i]
         /\ m >= Len(s) => From(s, m) = <<>>
<1>1. CASE m <= Len(s)
  <2>1. m + 1 \in Nat /\ Len(s) \in Nat /\ 1 <= m + 1 /\ m + 1 <= Len(s) + 1
    BY <1>1
  <2>2. PICK p : p = SubSeq(s, m + 1, Len(s))
    OBVIOUS
  <2>3. /\ p \in Seq(Byte) /\ Len(p) = Len(s) - (m + 1) + 1
        /\ \A i \in 1..Len(p) : p[i] = s[(m + 1) + i - 1]
    BY <2>1, <2>2, PartOf
  <2>4. Len(p) = Len(s) - m /\ \A i \in 1..Len(p) : (m + 1) + i - 1 = m + i
    BY <2>1, <2>3
  <2>5. m >= Len(s) => p = <<>>
    BY <2>1, <2>2, SubSeqEmpty
  <2> QED BY <2>2, <2>3, <2>4, <2>5 DEF From
<1>2. CASE m > Len(s)
  <2>1. From(s, m) = <<>>
    BY <1>2, SubSeqEmpty DEF From
  <2> QED BY <1>2, <2>1, EmptySeq
<1> QED
  BY <1>1, <1>2

(* What follows the first n bytes of what follows the first m. *)
LEMMA FromFrom ==
  ASSUME NEW s \in Seq(Byte), NEW m \in Nat, m <= Len(s), NEW n \in Nat
  PROVE  From(From(s, m), n) = From(s, m + n)
<1>1. PICK r : r = From(s, m)
  OBVIOUS
<1>2. /\ r \in Seq(Byte) /\ Len(r) = Len(s) - m
      /\ \A i \in 1..Len(r) : r[i] = s[m + i]
  BY <1>1, FromIs
<1>3. CASE n > Len(r)
  BY <1>1, <1>2, <1>3, FromIs
<1>4. CASE n <= Len(r)
  <2>1. /\ From(r, n) \in Seq(Byte) /\ Len(From(r, n)) = Len(r) - n
        /\ \A i \in 1..Len(From(r, n)) : From(r, n)[i] = r[n + i]
    BY <1>2, <1>4, FromIs
  <2>2. m + n \in Nat /\ m + n <= Len(s)
    BY <1>2, <1>4
  <2>3. /\ From(s, m + n) \in Seq(Byte) /\ Len(From(s, m + n)) = Len(s) - (m + n)
        /\ \A i \in 1..Len(From(s, m + n)) : From(s, m + n)[i] = s[m + n + i]
    BY <2>2, FromIs
  <2>4. ASSUME NEW i \in 1..Len(From(r, n))
        PROVE  From(r, n)[i] = From(s, m + n)[i]
    <3>1. n + i \in 1..Len(r) /\ m + (n + i) = m + n + i /\ i \in 1..Len(From(s, m + n))
      BY <1>2, <1>4, <2>1, <2>3
    <3> QED BY <1>2, <2>1, <2>3, <3>1
  <2>5. Len(From(r, n)) = Len(From(s, m + n))
    BY <1>2, <2>1, <2>3
  <2> QED BY <1>1, <2>1, <2>3, <2>4, <2>5, SeqEqual
<1> QED
  BY <1>2, <1>3, <1>4

(* The payload length that bytes say they have is a number. *)
LEMMA LengthIsNat ==
  ASSUME NEW s \in Seq(Byte)
  PROVE  PayloadLength(s) \in Nat /\ PacketLength(s) \in Nat /\ PacketLength(s) >= 8
<1>1. \A i \in 1..Len(s) : s[i] \in Nat
  BY ElementOfSeq, ByteIsNat
<1>2. CASE Len(s) >= 7
  <2>1. s[6] \in Nat /\ s[7] \in Nat
    BY <1>1, <1>2
  <2> QED BY <1>2, <2>1 DEF PayloadLength, PacketLength
<1>3. CASE Len(s) = 6
  <2>1. s[6] \in Nat
    BY <1>1, <1>3
  <2> QED BY <1>3, <2>1 DEF PayloadLength, PacketLength
<1>4. CASE Len(s) < 6
  BY <1>4 DEF PayloadLength, PacketLength
<1>5. Len(s) >= 7 \/ Len(s) = 6 \/ Len(s) < 6
  <2>1. PICK n \in Nat : n = Len(s)
    BY LenProperties
  <2>2. n >= 7 \/ n = 6 \/ n < 6
    OBVIOUS
  <2> QED BY <2>1, <2>2
<1> QED
  BY <1>2, <1>3, <1>4, <1>5

(* A packet cut from the beginning of bytes that are not empty. *)
LEMMA CutIsPacket ==
  ASSUME NEW s \in Seq(Byte), s # <<>>, NEW n \in Nat, n >= 1
  PROVE  Slice(s, 0, n) \in Seq(Byte) \ {<<>>}
<1> DEFINE k == IF n < Len(s) THEN n ELSE Len(s)
<1>1. k \in Nat /\ 1 <= k /\ k <= Len(s) /\ 1 <= k + 1
  OBVIOUS
<1>2. Slice(s, 0, n) = SubSeq(s, 1, k)
  BY DEF Slice
<1> HIDE DEF k
<1>3. SubSeq(s, 1, k) \in Seq(Byte) /\ Len(SubSeq(s, 1, k)) = k - 1 + 1
  BY <1>1, PartOf
<1> QED
  BY <1>1, <1>2, <1>3

(* What collect does with data that join the buffer: at most one packet is  *)
(* cut out of all the bytes, from the first start frame on.                 *)
LEMMA ComposeCases ==
  ASSUME NEW all \in Seq(Byte)
  PROVE  \/ /\ Find(all) = 0
            /\ Compose(all) = [packet |-> <<>>, temp_bytes |-> <<>>]
         \/ /\ Find(all) \in 1..Len(all)
            /\ Compose(all) = [packet |-> <<>>, temp_bytes |-> From(all, Find(all) - 1)]
         \/ /\ Find(all) \in 1..Len(all)
            /\ \E p \in Seq(Byte) \ {<<>>}, n \in Nat :
                 /\ n >= Find(all)
                 /\ Compose(all) = [packet |-> <<p>>, temp_bytes |-> From(all, n)]
<1> DEFINE i == Find(all)
           frame == From(all, i - 1)
           n == PacketLength(frame)
<1>1. CASE i = 0
  BY <1>1 DEF Compose
<1>2. CASE i # 0
  <2>1. i \in 1..Len(all) /\ i + 2 <= Len(all) /\ Len(all) \in Nat
    BY <1>2, FindIs, StartsAtBytes
  <2>2. i - 1 \in Nat /\ i - 1 <= Len(all)
    BY <2>1
  <2>3. frame \in Seq(Byte) /\ Len(frame) = Len(all) - (i - 1) /\ frame # <<>>
    <3>1. frame \in Seq(Byte) /\ Len(frame) = Len(all) - (i - 1)
      BY <2>2, FromIs
    <3>2. Len(frame) > 0
      BY <2>1, <3>1
    <3> QED BY <3>1, <3>2
  <2>4. n \in Nat /\ n >= 8
    BY <2>3, LengthIsNat
  <2>5. CASE Len(all) >= n
    <3>1. Compose(all) = [packet |-> <<Slice(frame, 0, n)>>, temp_bytes |-> From(frame, n)]
      BY <1>2, <2>5 DEF Compose
    <3>2. Slice(frame, 0, n) \in Seq(Byte) \ {<<>>}
      BY <2>3, <2>4, CutIsPacket
    <3>3. From(frame, n) = From(all, i - 1 + n)
      BY <2>2, <2>4, FromFrom
    <3>4. i - 1 + n \in Nat /\ i - 1 + n >= i
      BY <2>1, <2>4
    <3> QED BY <2>1, <3>1, <3>2, <3>3, <3>4
  <2>6. CASE ~(Len(all) >= n)
    BY <1>2, <2>1, <2>6 DEF Compose
  <2> QED BY <2>5, <2>6
<1> QED
  BY <1>1, <1>2

(* What collect does with data that hold a whole packet. *)
LEMMA CheckCases ==
  ASSUME NEW data \in Seq(Byte)
  PROVE  \/ CheckIsPacket(data) = <<>>
         \/ \E i \in 1..Len(data), p \in Seq(Byte) \ {<<>>} :
              /\ StartsAt(data, i)
              /\ CheckIsPacket(data) = <<p>>
              /\ i - 1 + PacketLength(From(data, i - 1)) <= Len(data)
<1> DEFINE i == Find(data)
           frame == From(data, i - 1)
           n == PacketLength(frame)
<1>1. CASE CheckIsPacket(data) # <<>>
  <2>1. /\ i # 0 /\ Len(frame) >= n
        /\ CheckIsPacket(data) = <<Slice(frame, 0, n)>>
    BY <1>1 DEF CheckIsPacket
  <2>2. i \in 1..Len(data) /\ StartsAt(data, i) /\ Len(data) \in Nat
    BY <2>1, FindIs
  <2>3. i - 1 \in Nat /\ i - 1 <= Len(data)
    BY <2>2
  <2>4. frame \in Seq(Byte) /\ Len(frame) = Len(data) - (i - 1) /\ frame # <<>>
    <3>1. frame \in Seq(Byte) /\ Len(frame) = Len(data) - (i - 1)
      BY <2>3, FromIs
    <3>2. Len(frame) > 0
      BY <2>2, <3>1
    <3> QED BY <3>1, <3>2
  <2>5. n \in Nat /\ n >= 8
    BY <2>4, LengthIsNat
  <2>6. Slice(frame, 0, n) \in Seq(Byte) \ {<<>>}
    BY <2>4, <2>5, CutIsPacket
  <2>7. i - 1 + n <= Len(data)
    BY <2>1, <2>2, <2>4, <2>5
  <2> QED BY <2>1, <2>2, <2>6, <2>7
<1> QED
  BY <1>1

(* Whatever collect is given, it returns bytes or nothing, and keeps bytes; *)
(* a packet is never empty.                                                 *)
LEMMA CollectTypes ==
  ASSUME NEW temp \in Seq(Byte), NEW data \in Seq(Byte)
  PROVE  /\ Collect(temp, data).packet \in Seq(Seq(Byte) \ {<<>>})
         /\ Collect(temp, data).temp_bytes \in Seq(Byte)
<1>1. /\ <<>> \in Seq(Seq(Byte) \ {<<>>})
      /\ \A p \in Seq(Byte) \ {<<>>} : <<p>> \in Seq(Seq(Byte) \ {<<>>})
  BY EmptySeq
<1>2. CASE CheckIsPacket(data) # <<>>
  BY <1>1, <1>2, CheckCases DEF Collect
<1>3. CASE CheckIsPacket(data) = <<>>
  <2>1. PICK all \in Seq(Byte) : all = temp \o data
    BY ConcatProperties
  <2>2. Collect(temp, data) = Compose(all)
    BY <1>3, <2>1 DEF Collect
  <2>3. \A m \in Nat : From(all, m) \in Seq(Byte)
    BY FromIs
  <2>4. \A m \in 1..Len(all) : m - 1 \in Nat
    OBVIOUS
  <2>5. Compose(all).packet \in Seq(Seq(Byte) \ {<<>>}) /\ Compose(all).temp_bytes \in Seq(Byte)
    <3>1. CASE Compose(all) = [packet |-> <<>>, temp_bytes |-> <<>>]
      BY <1>1, <3>1, EmptySeq
    <3>2. CASE /\ Find(all) \in 1..Len(all)
               /\ Compose(all) = [packet |-> <<>>, temp_bytes |-> From(all, Find(all) - 1)]
      BY <1>1, <2>3, <2>4, <3>2
    <3>3. CASE \E p \in Seq(Byte) \ {<<>>}, n \in Nat :
                 Compose(all) = [packet |-> <<p>>, temp_bytes |-> From(all, n)]
      BY <1>1, <2>3, <3>3
    <3> QED BY <3>1, <3>2, <3>3, ComposeCases
  <2> QED BY <2>2, <2>5
<1> QED
  BY <1>2, <1>3
=============================================================================
