------------------------ MODULE NoMoreThanSentProofs ------------------------
(***************************************************************************)
(* The composer hands on no more packets than frames were sent, wherever   *)
(* the reads cut the stream.                                               *)
(***************************************************************************)
EXTENDS FrameStreamProofs, FiniteSetTheorems

(* The places at which there is a start frame. *)
Starts(s) == {i \in 1..Len(s) : StartsAt(s, i)}

(* The bytes from each start frame on are a frame: where it ends the stream *)
(* ends, too, or the next start frame is.                                   *)
Chained(s) ==
  \A i \in Starts(s) :
    LET next == i + PacketLength(From(s, i - 1))
    IN  next = Len(s) + 1 \/ next \in Starts(s)

(* One stream is on the wire.  Each start frame that the composer still     *)
(* holds or may yet read, also one that arises when it joins the buffer to  *)
(* what it reads, stands for a frame that was sent and has not come out.    *)
StartsInv ==
  \E s \in Seq(Byte) :
    /\ wire = Piece(s)
    /\ Chained(s)
    /\ Cardinality(Starts(temp_bytes \o s)) + Len(collected) <= Len(sent)

-----------------------------------------------------------------------------
(* Start frames in bytes, and how many there are.                           *)

(* There is a start frame at a place if its three bytes are there. *)
LEMMA InStarts ==
  ASSUME NEW s \in Seq(Byte), NEW i \in Int
  PROVE  i \in Starts(s) <=>
           1 <= i /\ i + 2 <= Len(s) /\ s[i] = 36 /\ s[i + 1] = 75 /\ s[i + 2] = 60
<1>1. PICK n \in Nat : n = Len(s)
  BY LenProperties
<1>2. CASE 1 <= i /\ i <= n
  <2>1. i \in 1..Len(s)
    BY <1>1, <1>2
  <2> QED BY <1>2, <2>1, StartsAtBytes DEF Starts
<1>3. CASE ~(1 <= i /\ i <= n)
  <2>1. i \notin 1..Len(s) /\ ~(1 <= i /\ i + 2 <= Len(s))
    BY <1>1, <1>3
  <2> QED BY <2>1 DEF Starts
<1> QED
  BY <1>2, <1>3

(* Start frames can be counted. *)
LEMMA StartsFinite ==
  ASSUME NEW s \in Seq(Byte)
  PROVE  IsFiniteSet(Starts(s)) /\ Cardinality(Starts(s)) \in Nat
<1>1. IsFiniteSet(1..Len(s))
  BY FS_Interval
<1>2. Starts(s) \in SUBSET (1..Len(s))
  BY DEF Starts
<1>3. IsFiniteSet(Starts(s))
  BY <1>1, <1>2, FS_Subset
<1> QED
  BY <1>3, FS_CardinalityType

(* A set whose elements have each their own start frame in s is no larger,  *)
(* and it is smaller if one start frame is left.                            *)
LEMMA NoMoreThan ==
  ASSUME NEW s \in Seq(Byte), NEW T, NEW f \in [T -> Starts(s)],
         \A i, j \in T : f[i] = f[j] => i = j
  PROVE  /\ Cardinality(T) <= Cardinality(Starts(s))
         /\ \A e \in Starts(s) :
              (\A i \in T : f[i] # e) => Cardinality(T) + 1 <= Cardinality(Starts(s))
<1>1. IsFiniteSet(Starts(s)) /\ Cardinality(Starts(s)) \in Nat
  BY StartsFinite
<1>2. f \in Injection(T, Starts(s))
  BY DEF Injection, IsInjective
<1>3. /\ Cardinality(T) <= Cardinality(Starts(s)) /\ IsFiniteSet(T)
      /\ Cardinality(T) = Cardinality(Starts(s)) => f \in Surjection(T, Starts(s))
  BY <1>1, <1>2, FS_Injection
<1>4. Cardinality(T) \in Nat
  BY <1>3, FS_CardinalityType
<1>5. ASSUME NEW e \in Starts(s), \A i \in T : f[i] # e
      PROVE  Cardinality(T) + 1 <= Cardinality(Starts(s))
  <2>1. f \notin Surjection(T, Starts(s))
    BY <1>5 DEF Surjection
  <2> QED BY <1>1, <1>3, <1>4, <2>1
<1> QED
  BY <1>3, <1>5

(* The start frames in what follows the first m bytes are those of all the  *)
(* bytes from there on.                                                     *)
LEMMA StartsInRest ==
  ASSUME NEW s \in Seq(Byte), NEW m \in Nat, m <= Len(s), NEW i \in Int, i >= 1
  PROVE  i \in Starts(From(s, m)) <=> m + i \in Starts(s)
<1>1. PICK r : r = From(s, m)
  OBVIOUS
<1>2. PICK n \in Nat : n = Len(s)
  BY LenProperties
<1>3. r \in Seq(Byte) /\ Len(r) = n - m /\ \A j \in 1..n - m : r[j] = s[m + j]
  BY <1>1, <1>2, FromIs
<1>4. CASE i + 2 <= n - m
  <2>1. /\ i \in 1..n - m /\ i + 1 \in 1..n - m /\ i + 2 \in 1..n - m
        /\ m + (i + 1) = (m + i) + 1 /\ m + (i + 2) = (m + i) + 2
    BY <1>4
  <2>2. r[i] = s[m + i] /\ r[i + 1] = s[(m + i) + 1] /\ r[i + 2] = s[(m + i) + 2]
    BY <1>3, <2>1
  <2>3. PICK j \in Int : j = m + i /\ 1 <= j /\ j + 2 <= n
    BY <1>4
  <2>4. j \in Starts(s) <=> s[j] = 36 /\ s[j + 1] = 75 /\ s[j + 2] = 60
    BY <1>2, <2>3, InStarts
  <2>5. i \in Starts(r) <=> r[i] = 36 /\ r[i + 1] = 75 /\ r[i + 2] = 60
    BY <1>3, <1>4, InStarts
  <2> QED BY <1>1, <2>2, <2>3, <2>4, <2>5
<1>5. CASE ~(i + 2 <= n - m)
  <2>1. ~((m + i) + 2 <= n) /\ m + i \in Int
    BY <1>5
  <2> QED BY <1>1, <1>2, <1>3, <1>5, <2>1, InStarts
<1> QED
  BY <1>4, <1>5

(* Cutting off the beginning of the first of two sequences. *)
LEMMA FromConcat ==
  ASSUME NEW s \in Seq(Byte), NEW t \in Seq(Byte), NEW k \in Nat, k <= Len(s)
  PROVE  From(s \o t, k) = From(s, k) \o t
<1>1. PICK z : z = s \o t
  OBVIOUS
<1>2. PICK m \in Nat, n \in Nat : m = Len(s) /\ n = Len(t)
  BY LenProperties
<1>3. z \in Seq(Byte) /\ Len(z) = m + n
      /\ \A j \in 1..m + n : z[j] = IF j <= m THEN s[j] ELSE t[j - m]
  BY <1>1, <1>2, ConcatProperties
<1>4. PICK a : a = From(z, k)
  OBVIOUS
<1>5. a \in Seq(Byte) /\ Len(a) = m + n - k /\ \A j \in 1..m + n - k : a[j] = z[k + j]
  <2>1. z \in Seq(Byte) /\ k <= Len(z)
    BY <1>2, <1>3
  <2>2. /\ a \in Seq(Byte) /\ Len(a) = Len(z) - k
        /\ \A j \in 1..Len(a) : a[j] = z[k + j]
    BY <1>4, <2>1, FromIs
  <2>3. Len(a) = m + n - k
    BY <1>3, <2>2
  <2> QED BY <2>2, <2>3
<1>6. PICK b : b = From(s, k)
  OBVIOUS
<1>7. b \in Seq(Byte) /\ Len(b) = m - k /\ \A j \in 1..m - k : b[j] = s[k + j]
  BY <1>2, <1>6, FromIs
<1>8. PICK c : c = b \o t
  OBVIOUS
<1>9. c \in Seq(Byte) /\ Len(c) = (m - k) + n
      /\ \A j \in 1..(m - k) + n : c[j] = IF j <= m - k THEN b[j] ELSE t[j - (m - k)]
  <2>1. PICK d \in Nat : d = m - k
    <3>1. k <= m
      BY <1>2
    <3>2. m - k \in Nat
      BY <3>1
    <3> QED BY <3>2
  <2>2. b \in Seq(Byte) /\ Len(b) = d
    BY <1>7, <2>1
  <2>3. c \in Seq(Byte) /\ Len(c) = d + n
        /\ \A j \in 1..d + n : c[j] = IF j <= d THEN b[j] ELSE t[j - d]
    BY <1>2, <1>8, <2>2, ConcatProperties
  <2> QED BY <2>1, <2>3
<1>10. ASSUME NEW j \in 1..m + n - k
       PROVE  a[j] = c[j]
  <2>1. a[j] = z[k + j] /\ k + j \in 1..m + n /\ j \in 1..(m - k) + n
    BY <1>2, <1>5
  <2>2. CASE j <= m - k
    <3>1. k + j <= m /\ j \in 1..m - k
      BY <2>2
    <3>2. z[k + j] = s[k + j]
      BY <1>3, <2>1, <3>1
    <3>3. c[j] = s[k + j]
      BY <1>7, <1>9, <2>1, <3>1
    <3> QED BY <2>1, <3>2, <3>3
  <2>3. CASE ~(j <= m - k)
    <3>1. ~(k + j <= m) /\ (k + j) - m = j - (m - k)
      BY <2>3
    <3>2. z[k + j] = t[(k + j) - m]
      BY <1>3, <2>1, <3>1
    <3>3. c[j] = t[j - (m - k)]
      BY <1>9, <2>1, <2>3
    <3> QED BY <2>1, <3>1, <3>2, <3>3
  <2> QED BY <2>2, <2>3
<1>11. m + n - k = (m - k) + n /\ m + n - k \in Nat
  BY <1>2
<1>12. a = c
  BY <1>5, <1>9, <1>10, <1>11, SeqEqual
<1> QED
  BY <1>1, <1>4, <1>6, <1>8, <1>12

(* There is a start frame in two sequences joined if it is in one of them,  *)
(* or across: then the second does not begin with one.                      *)
LEMMA StartsOfConcat ==
  ASSUME NEW s \in Seq(Byte), NEW t \in Seq(Byte)
  PROVE  /\ \A i \in Starts(s) : i \in Starts(s \o t)
         /\ \A i \in Starts(t) : Len(s) + i \in Starts(s \o t)
         /\ \A i \in Starts(s \o t) :
              \/ i \in Starts(s) /\ i + 2 <= Len(s)
              \/ i > Len(s) /\ i - Len(s) \in Starts(t)
              \/ /\ i <= Len(s) /\ i + 2 > Len(s)
                 /\ Len(t) >= 1 /\ (t[1] = 75 \/ t[1] = 60)
<1>1. PICK m \in Nat, n \in Nat : m = Len(s) /\ n = Len(t)
  BY LenProperties
<1>2. PICK z : z = s \o t
  OBVIOUS
<1>3. IsJoin(z, s, t)
  BY <1>2, Joined
<1>4. /\ z \in Seq(Byte) /\ Len(z) = m + n
      /\ \A j \in 1..m : z[j] = s[j]
      /\ \A j \in 1..n : z[m + j] = t[j]
  BY <1>1, <1>3 DEF IsJoin
<1>5. From(z, m) = t
  <2>1. From(z, m) = From(s, m) \o t
    <3>1. m <= Len(s)
      BY <1>1
    <3> QED BY <1>2, <3>1, FromConcat
  <2>2. From(s, m) = <<>>
    BY <1>1, FromIs
  <2> QED BY <2>1, <2>2, ConcatEmptySeq
<1>6. \A i \in Int : i >= 1 => (i \in Starts(t) <=> m + i \in Starts(z))
  <2>1. m <= Len(z)
    BY <1>4
  <2> QED BY <1>4, <1>5, <2>1, StartsInRest
<1>7. ASSUME NEW i \in Int, 1 <= i, i + 2 <= m
      PROVE  i \in Starts(s) <=> i \in Starts(z)
  <2>1. i \in 1..m /\ i + 1 \in 1..m /\ i + 2 \in 1..m /\ i + 2 <= m + n
    BY <1>7
  <2>2. z[i] = s[i] /\ z[i + 1] = s[i + 1] /\ z[i + 2] = s[i + 2]
    BY <1>4, <2>1
  <2>3. i \in Starts(s) <=> s[i] = 36 /\ s[i + 1] = 75 /\ s[i + 2] = 60
    BY <1>1, <1>7, InStarts
  <2>4. i \in Starts(z) <=> z[i] = 36 /\ z[i + 1] = 75 /\ z[i + 2] = 60
    <3>1. i + 2 <= Len(z)
      BY <1>4, <2>1
    <3> QED BY <1>4, <1>7, <3>1, InStarts
  <2> QED BY <2>2, <2>3, <2>4
<1>8. ASSUME NEW i \in Starts(s)
      PROVE  i \in Starts(z)
  <2>1. i \in Int
    BY DEF Starts
  <2>2. 1 <= i /\ i + 2 <= m
    BY <1>1, <2>1, InStarts
  <2> QED BY <1>7, <2>1, <2>2
<1>9. ASSUME NEW i \in Starts(t)
      PROVE  m + i \in Starts(z)
  <2>1. i \in Int /\ i >= 1
    BY DEF Starts
  <2> QED BY <1>6, <2>1
<1>10. ASSUME NEW i \in Starts(z)
       PROVE  \/ i \in Starts(s) /\ i + 2 <= m
              \/ i > m /\ i - m \in Starts(t)
              \/ i <= m /\ i + 2 > m /\ n >= 1 /\ (t[1] = 75 \/ t[1] = 60)
  <2>1. i \in Int
    BY DEF Starts
  <2>2. 1 <= i /\ i + 2 <= m + n /\ z[i] = 36 /\ z[i + 1] = 75 /\ z[i + 2] = 60
    BY <1>4, <2>1, InStarts
  <2>3. CASE i + 2 <= m
    BY <1>7, <2>1, <2>2, <2>3
  <2>4. CASE i > m
    <3>1. PICK k \in Int : k = i - m /\ k >= 1 /\ m + k = i
      BY <2>1, <2>4
    <3> QED BY <1>6, <2>4, <3>1
  <2>5. CASE i <= m /\ i + 2 > m
    <3>1. n >= 1 /\ 1 \in 1..n
      BY <2>1, <2>2, <2>5
    <3>2. z[m + 1] = t[1]
      BY <1>4, <3>1
    <3>3. m + 1 = i + 1 \/ m + 1 = i + 2
      BY <2>1, <2>5
    <3> QED BY <2>2, <2>5, <3>1, <3>2, <3>3
  <2> QED BY <2>1, <2>3, <2>4, <2>5
<1> QED
  BY <1>1, <1>2, <1>8, <1>9, <1>10

(* There are no more start frames in what follows the first k bytes, and    *)
(* there are fewer if one begins among these.                               *)
LEMMA FewerInRest ==
  ASSUME NEW s \in Seq(Byte), NEW k \in Nat, k <= Len(s)
  PROVE  /\ Cardinality(Starts(From(s, k))) <= Cardinality(Starts(s))
         /\ \A e \in Starts(s) : e <= k =>
              Cardinality(Starts(From(s, k))) + 1 <= Cardinality(Starts(s))
<1>1. PICK T : T = Starts(From(s, k))
  OBVIOUS
<1>2. \A i \in T : i \in Int /\ i >= 1 /\ k + i \in Starts(s)
  <2> SUFFICES ASSUME NEW i \in T PROVE i \in Int /\ i >= 1 /\ k + i \in Starts(s)
    OBVIOUS
  <2>1. i \in Int /\ i >= 1
    BY <1>1 DEF Starts
  <2> QED BY <1>1, <2>1, StartsInRest
<1>3. PICK f : f = [i \in T |-> k + i]
  OBVIOUS
<1>4. f \in [T -> Starts(s)] /\ \A i \in T : f[i] = k + i
  BY <1>2, <1>3
<1>5. \A i, j \in T : f[i] = f[j] => i = j
  BY <1>2, <1>4
<1>6. \A e \in Starts(s) : e <= k => \A i \in T : f[i] # e
  BY <1>2, <1>4
<1> QED
  BY <1>1, <1>4, <1>5, <1>6, NoMoreThan

-----------------------------------------------------------------------------
(* Reading.                                                                 *)

(* What the composer keeps of all the bytes it holds is what follows the    *)
(* first k of them; a packet has a start frame among those.                 *)
LEMMA ComposeKeeps ==
  ASSUME NEW all \in Seq(Byte)
  PROVE  \E k \in 0..Len(all) :
           /\ Compose(all).temp_bytes = From(all, k)
           /\ \/ Compose(all).packet = <<>>
              \/ /\ Len(Compose(all).packet) = 1
                 /\ \E e \in Starts(all) : e <= k
<1>1. PICK n \in Nat : n = Len(all)
  BY LenProperties
<1>2. From(all, n) = <<>>
  BY <1>1, FromIs
<1>3. CASE Compose(all) = [packet |-> <<>>, temp_bytes |-> <<>>]
  BY <1>1, <1>2, <1>3
<1>4. CASE /\ Find(all) \in 1..Len(all)
           /\ Compose(all) = [packet |-> <<>>, temp_bytes |-> From(all, Find(all) - 1)]
  <2>1. Find(all) - 1 \in 0..n
    BY <1>1, <1>4
  <2> QED BY <1>1, <1>4, <2>1
<1>5. CASE /\ Find(all) \in 1..Len(all)
           /\ \E p \in Seq(Byte) \ {<<>>}, m \in Nat :
                /\ m >= Find(all)
                /\ Compose(all) = [packet |-> <<p>>, temp_bytes |-> From(all, m)]
  <2>1. PICK p \in Seq(Byte) \ {<<>>}, m \in Nat :
          /\ m >= Find(all)
          /\ Compose(all) = [packet |-> <<p>>, temp_bytes |-> From(all, m)]
    BY <1>5
  <2>2. Find(all) \in Starts(all) /\ Find(all) \in 1..n
    <3>1. Find(all) # 0
      BY <1>5
    <3>2. StartsAt(all, Find(all))
      BY <3>1, FindIs
    <3> QED BY <1>1, <1>5, <3>2 DEF Starts
  <2>3. PICK k \in 0..n : k >= Find(all) /\ From(all, m) = From(all, k)
    <3>1. CASE m <= n
      BY <2>1, <3>1
    <3>2. CASE m > n
      <4>1. From(all, m) = <<>>
        BY <1>1, <3>2, FromIs
      <4> QED BY <1>2, <2>2, <4>1
    <3> QED BY <3>1, <3>2
  <2>4. Find(all) <= k
    BY <2>2, <2>3
  <2> QED BY <1>1, <2>1, <2>2, <2>3, <2>4
<1> QED
  BY <1>3, <1>4, <1>5, ComposeCases

(* When data join the buffer, a packet that comes out takes a start frame   *)
(* with it, and none arises.                                                *)
LEMMA ComposeTakesOne ==
  ASSUME NEW all \in Seq(Byte), NEW rest \in Seq(Byte)
  PROVE  /\ Compose(all).temp_bytes \in Seq(Byte) /\ Len(Compose(all).packet) \in Nat
         /\ Cardinality(Starts(Compose(all).temp_bytes \o rest)) + Len(Compose(all).packet)
              <= Cardinality(Starts(all \o rest))
<1>1. PICK result : result = Compose(all)
  OBVIOUS
<1>2. PICK k \in 0..Len(all) :
        /\ result.temp_bytes = From(all, k)
        /\ \/ result.packet = <<>>
           \/ Len(result.packet) = 1 /\ \E e \in Starts(all) : e <= k
  BY <1>1, ComposeKeeps
<1>3. k \in Nat /\ k <= Len(all)
  BY LenProperties
<1>4. From(all, k) \in Seq(Byte)
  BY <1>3, FromIs
<1>5. PICK z \in Seq(Byte) : z = all \o rest /\ Len(z) = Len(all) + Len(rest)
  BY ConcatProperties
<1>6. result.temp_bytes \o rest = From(z, k)
  BY <1>2, <1>3, <1>5, FromConcat
<1>7. k <= Len(z)
  BY <1>3, <1>5
<1>8. /\ Cardinality(Starts(From(z, k))) <= Cardinality(Starts(z))
      /\ \A e \in Starts(z) : e <= k =>
           Cardinality(Starts(From(z, k))) + 1 <= Cardinality(Starts(z))
  BY <1>3, <1>7, FewerInRest
<1>9. Cardinality(Starts(From(z, k))) \in Nat
  BY <1>3, FromIs, StartsFinite
<1>10. CASE result.packet = <<>>
  BY <1>1, <1>2, <1>4, <1>5, <1>6, <1>8, <1>9, <1>10, EmptySeq
<1>11. CASE Len(result.packet) = 1 /\ \E e \in Starts(all) : e <= k
  <2>1. \E e \in Starts(z) : e <= k
    BY <1>5, <1>11, StartsOfConcat
  <2> QED BY <1>1, <1>2, <1>4, <1>5, <1>6, <1>8, <1>11, <2>1
<1> QED
  BY <1>2, <1>10, <1>11

(* The length field is among the first seven bytes. *)
LEMMA LengthOfConcat ==
  ASSUME NEW s \in Seq(Byte), NEW t \in Seq(Byte), Len(s) >= 7
  PROVE  PacketLength(s \o t) = PacketLength(s)
<1>1. PICK m \in Nat, n \in Nat : m = Len(s) /\ n = Len(t)
  BY LenProperties
<1>2. PICK z : z = s \o t
  OBVIOUS
<1>3. Len(z) = m + n /\ \A j \in 1..m + n : z[j] = IF j <= m THEN s[j] ELSE t[j - m]
  BY <1>1, <1>2, ConcatProperties
<1>4. m >= 7 /\ m + n >= 7 /\ 6 \in 1..m + n /\ 7 \in 1..m + n
  BY <1>1
<1>5. z[6] = s[6] /\ z[7] = s[7]
  BY <1>3, <1>4
<1>6. PayloadLength(z) = 256 * z[6] + z[7]
  BY <1>3, <1>4 DEF PayloadLength
<1>7. PayloadLength(s) = 256 * s[6] + s[7]
  BY <1>1, <1>4 DEF PayloadLength
<1> QED
  BY <1>2, <1>5, <1>6, <1>7 DEF PacketLength

(* Behind a frame that ends in the data is the end of the stream, or the    *)
(* next start frame.                                                        *)
LEMMA NextStart ==
  ASSUME NEW data \in Seq(Byte), NEW rest \in Seq(Byte), Chained(data \o rest),
         NEW i \in Starts(data),
         i - 1 + PacketLength(From(data, i - 1)) <= Len(data)
  PROVE  \E n \in Nat :
           /\ i < n /\ n <= Len(data) + 1
           /\ n = Len(data) + Len(rest) + 1 \/ n \in Starts(data \o rest)
<1>1. PICK l \in Nat, m \in Nat : l = Len(data) /\ m = Len(rest)
  BY LenProperties
<1>2. i \in Nat /\ 1 <= i /\ i <= l
  BY <1>1 DEF Starts
<1>3. PICK k \in Nat : k = i - 1 /\ k <= l
  BY <1>2
<1>4. PICK a \in Seq(Byte) : a = From(data, k) /\ Len(a) = l - k
  BY <1>1, <1>3, FromIs
<1>5. PICK n \in Nat : n = i + PacketLength(a) /\ PacketLength(a) >= 8
  BY <1>2, <1>4, LengthIsNat
<1>6. i < n /\ n <= l + 1 /\ Len(a) >= 8
  <2>1. PICK w \in Nat : w = PacketLength(a) /\ w >= 8
    BY <1>4, <1>5, LengthIsNat
  <2>2. i - 1 + w <= l
    BY <1>1, <1>3, <1>4, <2>1
  <2>3. n = i + w /\ Len(a) = l - (i - 1)
    BY <1>3, <1>4, <1>5, <2>1
  <2> QED BY <1>1, <1>2, <2>1, <2>2, <2>3
<1>7. From(data \o rest, k) = a \o rest
  BY <1>1, <1>3, <1>4, FromConcat
<1>8. PacketLength(From(data \o rest, i - 1)) = PacketLength(a)
  <2>1. Len(a) >= 7
    BY <1>4, <1>6
  <2> QED BY <1>3, <1>7, <2>1, LengthOfConcat
<1>9. i \in Starts(data \o rest)
  BY StartsOfConcat
<1>10. Len(data \o rest) = l + m
  BY <1>1, ConcatProperties
<1>11. n = l + m + 1 \/ n \in Starts(data \o rest)
  BY <1>5, <1>8, <1>9, <1>10 DEF Chained
<1> QED
  BY <1>1, <1>6, <1>11

(* Where, in a buffer of l bytes, dropped data of m bytes and the rest, the *)
(* start frame is that goes with the one at p in the buffer and the rest:   *)
(* in the same bytes, or at q in the data for the one across.               *)
Placed(p, l, m, q) == IF p + 2 <= l THEN p ELSE IF p > l THEN p + m ELSE l + q

(* No two start frames share one, as start frames are not neighbours. *)
LEMMA PlacedApart ==
  \A j, k, l, m, q \in Nat :
    /\ Placed(j, l, m, q) = Placed(k, l, m, q)
    /\ j # k + 1 /\ k # j + 1 /\ q >= 1
    /\ j <= l /\ j + 2 > l => q <= m
    /\ k <= l /\ k + 2 > l => q <= m
    => j = k
  BY DEF Placed

(* When data with a whole packet are dropped, the buffer and what is read   *)
(* next become neighbours.  A start frame can then arise between them, but  *)
(* only if the data ended inside a second frame, whose start frame is gone. *)
LEMMA DropTakesOne ==
  ASSUME NEW temp \in Seq(Byte), NEW data \in Seq(Byte), NEW rest \in Seq(Byte),
         Chained(data \o rest), NEW i \in Starts(data),
         i - 1 + PacketLength(From(data, i - 1)) <= Len(data)
  PROVE  Cardinality(Starts(temp \o rest)) + 1
           <= Cardinality(Starts(temp \o (data \o rest)))
<1>1. PICK l \in Nat, m \in Nat, n \in Nat : l = Len(temp) /\ m = Len(data) /\ n = Len(rest)
  BY LenProperties
<1>2. PICK y : y = data \o rest
  OBVIOUS
<1>3. PICK z : z = temp \o y
  OBVIOUS
<1>4. PICK x : x = temp \o rest
  OBVIOUS
<1>5. x \in Seq(Byte) /\ y \in Seq(Byte) /\ z \in Seq(Byte)
  BY <1>2, <1>3, <1>4, ConcatProperties
<1>6. i \in Nat /\ 1 <= i /\ i <= m
  BY <1>1 DEF Starts
<1>7. PICK q \in Nat : i < q /\ q <= m + 1 /\ (q = m + n + 1 \/ q \in Starts(y))
  BY <1>1, <1>2, NextStart
<1>8. \A p \in Starts(y) : l + p \in Starts(z)
  BY <1>1, <1>3, <1>5, StartsOfConcat
<1>9. l + i \in Starts(z)
  <2>1. i \in Starts(y)
    BY <1>2, StartsOfConcat
  <2> QED BY <1>8, <2>1
<1>10. PICK T : T = Starts(x)
  OBVIOUS
<1>11. \A p \in T : p \in Nat /\ p \in Starts(x)
  BY <1>10 DEF Starts
<1>12. ASSUME NEW p \in T
       PROVE  \/ p \in Starts(temp) /\ p + 2 <= l
              \/ p > l /\ p - l \in Starts(rest)
              \/ p <= l /\ p + 2 > l /\ n >= 1 /\ (rest[1] = 75 \/ rest[1] = 60)
  BY <1>1, <1>4, <1>10, StartsOfConcat
<1>13. ASSUME NEW p \in T, p + 2 <= l
       PROVE  p \in Starts(z)
  <2>1. p \in Starts(temp)
    BY <1>11, <1>12, <1>13
  <2> QED BY <1>3, <1>5, <2>1, StartsOfConcat
<1>14. ASSUME NEW p \in T, p > l
       PROVE  p + m \in Starts(z)
  <2>1. PICK k \in Int : k = p - l
    BY <1>11
  <2>2. k \in Starts(rest)
    BY <1>11, <1>12, <1>14, <2>1
  <2>3. m + k \in Starts(y)
    BY <1>1, <1>2, <2>2, StartsOfConcat
  <2>4. l + (m + k) = p + m
    BY <1>11, <2>1
  <2> QED BY <1>8, <2>3, <2>4
<1>15. ASSUME NEW p \in T, p <= l, p + 2 > l
       PROVE  q \in Starts(y) /\ q <= m
  <2>1. n >= 1 /\ (rest[1] = 75 \/ rest[1] = 60)
    BY <1>11, <1>12, <1>15
  <2>2. q \in Starts(y)
    BY <1>7, <2>1
  <2>3. q # m + 1
    <3> SUFFICES ASSUME q = m + 1 PROVE FALSE
      OBVIOUS
    <3>1. y[m + 1] = 36
      BY <1>5, <2>2, InStarts
    <3>2. IsJoin(y, data, rest) /\ 1 \in 1..n
      BY <1>2, <2>1, Joined
    <3>3. y[m + 1] = rest[1]
      BY <1>1, <3>2 DEF IsJoin
    <3> QED BY <2>1, <3>1, <3>3
  <2> QED BY <1>7, <2>2, <2>3
<1>16. PICK f : f = [p \in T |-> IF p + 2 <= l THEN p ELSE IF p > l THEN p + m ELSE l + q]
  OBVIOUS
<1>17. \A p \in T : f[p] = Placed(p, l, m, q)
  BY <1>16 DEF Placed
<1>18. f \in [T -> Starts(z)]
  <2>1. ASSUME NEW p \in T
        PROVE  (IF p + 2 <= l THEN p ELSE IF p > l THEN p + m ELSE l + q) \in Starts(z)
    <3>1. CASE p + 2 <= l
      BY <1>13, <3>1
    <3>2. CASE p > l
      BY <1>11, <1>14, <3>2
    <3>3. CASE ~(p + 2 <= l) /\ ~(p > l)
      <4>1. p <= l /\ p + 2 > l
        BY <1>11, <3>3
      <4>2. l + q \in Starts(z)
        BY <1>8, <1>15, <4>1
      <4> QED BY <3>3, <4>2
    <3> QED BY <3>1, <3>2, <3>3
  <2> QED BY <1>16, <2>1
<1>19. ASSUME NEW j \in T, NEW k \in T, f[j] = f[k]
       PROVE  j = k
  <2>1. /\ j \in Nat /\ k \in Nat
        /\ x[j] = 36 /\ x[j + 1] = 75 /\ x[k] = 36 /\ x[k + 1] = 75
    BY <1>5, <1>11, InStarts
  <2>2. j # k + 1 /\ k # j + 1
    BY <2>1
  <2>3. Placed(j, l, m, q) = Placed(k, l, m, q)
    BY <1>17, <1>19
  <2>4. \A p \in T : p <= l /\ p + 2 > l => q <= m
    BY <1>15
  <2>5. /\ j <= l /\ j + 2 > l => q <= m
        /\ k <= l /\ k + 2 > l => q <= m
    BY <2>4
  <2>6. q >= 1
    BY <1>6, <1>7
  <2> QED BY <2>1, <2>2, <2>3, <2>5, <2>6, PlacedApart
<1>20. \A p \in T : f[p] # l + i
  <2> SUFFICES ASSUME NEW p \in T PROVE f[p] # l + i
    OBVIOUS
  <2>1. p \in Nat /\ f[p] = IF p + 2 <= l THEN p ELSE IF p > l THEN p + m ELSE l + q
    BY <1>11, <1>17 DEF Placed
  <2> QED BY <1>6, <1>7, <2>1
<1>21. Cardinality(T) + 1 <= Cardinality(Starts(z))
  <2>1. \A j, k \in T : f[j] = f[k] => j = k
    BY <1>19
  <2> QED BY <1>5, <1>9, <1>18, <1>20, <2>1, NoMoreThan
<1> QED
  BY <1>2, <1>3, <1>4, <1>10, <1>21

(* Whatever is read, a packet that comes out takes a start frame with it.   *)
LEMMA CollectTakesOne ==
  ASSUME NEW temp \in Seq(Byte), NEW data \in Seq(Byte), NEW rest \in Seq(Byte),
         Chained(data \o rest)
  PROVE  /\ Collect(temp, data).packet \in Seq(Seq(Byte))
         /\ Cardinality(Starts(Collect(temp, data).temp_bytes \o rest))
              + Len(Collect(temp, data).packet)
              <= Cardinality(Starts(temp \o (data \o rest)))
<1>1. CASE CheckIsPacket(data) # <<>>
  <2>1. PICK i \in 1..Len(data), p \in Seq(Byte) \ {<<>>} :
          /\ StartsAt(data, i)
          /\ CheckIsPacket(data) = <<p>>
          /\ i - 1 + PacketLength(From(data, i - 1)) <= Len(data)
    BY <1>1, CheckCases
  <2>2. i \in Starts(data)
    BY <2>1 DEF Starts
  <2>3. Collect(temp, data) = [packet |-> <<p>>, temp_bytes |-> temp]
    BY <1>1, <2>1 DEF Collect
  <2>4. Cardinality(Starts(temp \o rest)) + 1 <= Cardinality(Starts(temp \o (data \o rest)))
    BY <2>1, <2>2, DropTakesOne
  <2>5. Len(<<p>>) = 1 /\ <<p>> \in Seq(Seq(Byte))
    BY <2>1
  <2> QED BY <2>3, <2>4, <2>5
<1>2. CASE CheckIsPacket(data) = <<>>
  <2>1. PICK all \in Seq(Byte) : all = temp \o data
    BY ConcatProperties
  <2>2. Collect(temp, data) = Compose(all)
    BY <1>2, <2>1 DEF Collect
  <2>3. all \o rest = temp \o (data \o rest)
    BY <2>1, ConcatAssociative
  <2>4. Collect(temp, data).packet \in Seq(Seq(Byte))
    <3>1. Collect(temp, data).packet \in Seq(Seq(Byte) \ {<<>>})
      BY CollectTypes
    <3> QED BY <3>1, SeqMonotonic
  <2> QED BY <2>2, <2>3, <2>4, ComposeTakesOne
<1> QED
  BY <1>1, <1>2

(* What is left of a stream of frames is one. *)
LEMMA ChainedRest ==
  ASSUME NEW s \in Seq(Byte), Chained(s), NEW m \in Nat, m <= Len(s)
  PROVE  Chained(From(s, m))
<1>1. PICK l \in Nat : l = Len(s)
  BY LenProperties
<1>2. PICK r : r = From(s, m)
  OBVIOUS
<1>3. r \in Seq(Byte) /\ Len(r) = l - m
  BY <1>1, <1>2, FromIs
<1>4. ASSUME NEW i \in Starts(r)
      PROVE  LET next == i + PacketLength(From(r, i - 1))
             IN  next = Len(r) + 1 \/ next \in Starts(r)
  <2>1. i \in Nat /\ 1 <= i /\ i <= l - m
    BY <1>3 DEF Starts
  <2>2. m + i \in Starts(s)
    BY <1>2, <2>1, StartsInRest
  <2>3. From(r, i - 1) = From(s, m + i - 1) /\ From(r, i - 1) \in Seq(Byte)
    <3>1. PICK k \in Nat : k = i - 1
      BY <2>1
    <3>2. From(r, k) = From(s, m + k) /\ m + k = m + i - 1
      BY <1>2, <2>1, <3>1, FromFrom
    <3> QED BY <1>3, <3>1, <3>2, FromIs
  <2>4. PICK w \in Nat : w = PacketLength(From(r, i - 1))
    BY <2>3, LengthIsNat
  <2>5. (m + i) + w = l + 1 \/ (m + i) + w \in Starts(s)
    <3>1. PICK j \in Nat : j = m + i
      BY <2>1
    <3>2. From(r, i - 1) = From(s, j - 1)
      <4>1. m + i - 1 = j - 1
        BY <2>1, <3>1
      <4> QED BY <2>3, <4>1
    <3>4. w = PacketLength(From(s, j - 1))
      BY <2>4, <3>2
    <3>3. j + w = l + 1 \/ j + w \in Starts(s)
      BY <1>1, <2>2, <3>1, <3>4 DEF Chained
    <3> QED BY <3>1, <3>3
  <2>6. CASE (m + i) + w = l + 1
    <3>1. i + w = (l - m) + 1
      BY <1>1, <2>1, <2>6
    <3> QED BY <1>3, <2>4, <3>1
  <2>7. CASE (m + i) + w \in Starts(s)
    <3>1. PICK k \in Int : k = i + w /\ k >= 1 /\ m + k = (m + i) + w
      BY <2>1
    <3>2. k \in Starts(r)
      BY <1>2, <2>7, <3>1, StartsInRest
    <3> QED BY <2>4, <3>1, <3>2
  <2> QED BY <2>5, <2>6, <2>7
<1> QED
  BY <1>2, <1>4 DEF Chained

(* A frame that is sent adds one start frame, and goes on with the stream.  *)
LEMMA FrameAddsOne ==
  ASSUME NEW s \in Seq(Byte), NEW f, IsFrame(f), OneStart(f)
  PROVE  /\ Starts(s \o f) = Starts(s) \cup {Len(s) + 1}
         /\ Cardinality(Starts(s \o f)) <= Cardinality(Starts(s)) + 1
<1>1. /\ f \in Seq(Byte) /\ Len(f) >= 8 /\ Len(f) \in Nat
      /\ SubSeq(f, 1, 3) = StartFrame /\ DOMAIN f = 1..Len(f)
  BY LenProperties DEF IsFrame
<1>2. 1 \in Starts(f) /\ f[1] = 36
  <2>1. StartsAt(f, 1) /\ 1 \in 1..Len(f)
    BY <1>1 DEF StartsAt
  <2>2. 1 \in Starts(f)
    BY <2>1 DEF Starts
  <2> QED BY <1>1, <2>2, InStarts
<1>3. \A i \in Starts(f) : i = 1
  BY <1>1 DEF Starts, OneStart
<1>4. PICK m \in Nat : m = Len(s)
  BY LenProperties
<1>5. \A i \in Starts(s \o f) : i \in Starts(s) \/ i = m + 1
  <2> SUFFICES ASSUME NEW i \in Starts(s \o f) PROVE i \in Starts(s) \/ i = m + 1
    OBVIOUS
  <2>1. i \in Int
    BY DEF Starts
  <2>2. \/ i \in Starts(s)
        \/ i > m /\ i - m \in Starts(f)
        \/ f[1] = 75 \/ f[1] = 60
    BY <1>1, <1>4, StartsOfConcat
  <2> QED BY <1>2, <1>3, <2>1, <2>2
<1>6. \A i \in Starts(s) : i \in Starts(s \o f)
  BY <1>1, StartsOfConcat
<1>7. m + 1 \in Starts(s \o f)
  BY <1>1, <1>2, <1>4, StartsOfConcat
<1>8. Starts(s \o f) = Starts(s) \cup {m + 1}
  BY <1>5, <1>6, <1>7
<1>9. Cardinality(Starts(s) \cup {m + 1}) <= Cardinality(Starts(s)) + 1
  <2>1. PICK T : T = Starts(s)
    OBVIOUS
  <2>2. PICK c \in Nat : c = Cardinality(T)
    BY <2>1, StartsFinite
  <2>3. IsFiniteSet(T)
    BY <2>1, StartsFinite
  <2>4. PICK d : d = Cardinality(T \cup {m + 1})
    OBVIOUS
  <2>5. d = IF m + 1 \in T THEN c ELSE c + 1
    BY <2>2, <2>3, <2>4, FS_AddElement
  <2> QED BY <2>1, <2>2, <2>4, <2>5
<1> QED
  BY <1>4, <1>8, <1>9

(* So it stays a stream of frames. *)
LEMMA ChainedSend ==
  ASSUME NEW s \in Seq(Byte), Chained(s), NEW f, IsFrame(f), OneStart(f)
  PROVE  Chained(s \o f)
<1>1. f \in Seq(Byte) /\ Len(f) = PacketLength(f)
  BY DEF IsFrame
<1>2. PICK m \in Nat, n \in Nat : m = Len(s) /\ n = Len(f)
  BY <1>1, LenProperties
<1>3. PICK z \in Seq(Byte) : z = s \o f /\ Len(z) = m + n
  BY <1>1, <1>2, ConcatProperties
<1>4. Starts(z) = Starts(s) \cup {m + 1}
  BY <1>2, <1>3, FrameAddsOne
<1>5. ASSUME NEW i \in Starts(z)
      PROVE  LET next == i + PacketLength(From(z, i - 1))
             IN  next = Len(z) + 1 \/ next \in Starts(z)
  <2>1. CASE i \in Starts(s)
    <3>1. i \in Nat /\ 1 <= i /\ i <= m
      BY <1>2, <2>1 DEF Starts
    <3>2. PICK k \in Nat : k = i - 1 /\ k <= m
      BY <3>1
    <3>3. PICK a \in Seq(Byte) : a = From(s, k) /\ Len(a) = m - k
      BY <1>2, <3>2, FromIs
    <3>4. PICK w \in Nat : w = PacketLength(a) /\ w >= 8
      BY <3>3, LengthIsNat
    <3>5. i + w = m + 1 \/ i + w \in Starts(s)
      BY <1>2, <2>1, <3>2, <3>3, <3>4 DEF Chained
    <3>6. i + w <= m + 1
      <4>1. CASE i + w \in Starts(s)
        <5>1. i + w \in 1..m
          BY <1>2, <4>1 DEF Starts
        <5> QED BY <5>1
      <4> QED BY <3>1, <3>5, <4>1
    <3>7. Len(a) >= 7
      BY <1>2, <3>1, <3>2, <3>3, <3>4, <3>6
    <3>8. From(z, k) = a \o f
      BY <1>1, <1>2, <1>3, <3>2, <3>3, FromConcat
    <3>9. PacketLength(From(z, i - 1)) = w
      BY <1>1, <3>2, <3>4, <3>7, <3>8, LengthOfConcat
    <3> QED BY <1>4, <3>5, <3>9
  <2>2. CASE i = m + 1
    <3>1. From(z, m) = From(s, m) \o f /\ From(s, m) = <<>>
      <4>1. m <= Len(s) /\ m >= Len(s)
        BY <1>2
      <4> QED BY <1>1, <1>3, <4>1, FromConcat, FromIs
    <3>2. From(z, m) = f
      BY <1>1, <3>1, ConcatEmptySeq
    <3>3. i - 1 = m /\ i + n = (m + n) + 1
      BY <2>2
    <3> QED BY <1>1, <1>2, <1>3, <3>2, <3>3
  <2> QED BY <1>4, <2>1, <2>2
<1> QED
  BY <1>3, <1>5 DEF Chained

-----------------------------------------------------------------------------
(* The stream read anywhere.                                                *)

(* Reads cut the stream anywhere, and nothing but the beginning of a frame  *)
(* in it looks like one.                                                    *)
PlainStream ==
  /\ NoFramesLeft
  /\ Reads = "anywhere"
  /\ \A f \in Frames : OneStart(f)

(* Before reading begins there is no start frame anywhere. *)
LEMMA StartsInvInit ==
  ASSUME PlainStream, StreamInit
  PROVE  StartsInv
<1>1. PICK rest \in Leftover : wire = Piece(rest)
  BY DEF StreamInit
<1>2. rest \in Seq(Byte) /\ NoStart(rest)
  BY StreamAssumption DEF PlainStream, NoFramesLeft
<1>3. Starts(rest) = {}
  BY <1>2 DEF Starts, NoStart
<1>4. Chained(rest)
  BY <1>3 DEF Chained
<1>5. temp_bytes \o rest = rest
  BY <1>2, ConcatEmptySeq DEF StreamInit
<1>6. Cardinality(Starts(rest)) = 0
  BY <1>3, FS_EmptySet
<1>7. Len(collected) = 0 /\ Len(sent) = 0
  BY DEF StreamInit
<1>8. Cardinality(Starts(temp_bytes \o rest)) + Len(collected) <= Len(sent)
  BY <1>5, <1>6, <1>7
<1> QED
  BY <1>1, <1>2, <1>4, <1>8 DEF StartsInv

(* A frame that is sent brings the one start frame it may be read by. *)
LEMMA StartsInvSend ==
  ASSUME PlainStream, StreamTypeOK, StartsInv, SendFrame
  PROVE  StartsInv'
<1>1. PICK s \in Seq(Byte) :
        /\ wire = Piece(s)
        /\ Chained(s)
        /\ Cardinality(Starts(temp_bytes \o s)) + Len(collected) <= Len(sent)
  BY DEF StartsInv
<1>2. PICK f \in Frames :
        /\ sent' = Append(sent, f)
        /\ wire' = IF wire # <<>> THEN <<Head(wire) \o f>> ELSE Append(wire, f)
  BY DEF SendFrame, PlainStream
<1>3. temp_bytes' = temp_bytes /\ collected' = collected
  BY DEF SendFrame
<1>4. IsFrame(f) /\ OneStart(f) /\ f \in Seq(Byte) /\ f # <<>>
  <2>1. IsFrame(f) /\ OneStart(f)
    BY FramesAssumption DEF PlainStream
  <2>2. f \in Seq(Byte) /\ Len(f) >= 8
    BY <2>1 DEF IsFrame
  <2> QED BY <2>1, <2>2
<1>5. PICK z : z = s \o f
  OBVIOUS
<1>6. z \in Seq(Byte) /\ z # <<>>
  <2>1. Len(f) \in Nat /\ Len(f) >= 8 /\ Len(s) \in Nat
    BY <1>4 DEF IsFrame
  <2>2. z \in Seq(Byte) /\ Len(z) = Len(s) + Len(f)
    BY <1>4, <1>5, ConcatProperties
  <2> QED BY <2>1, <2>2
<1>7. wire' = Piece(z)
  <2>1. CASE s = <<>>
    <3>1. wire = <<>> /\ z = f
      BY <1>1, <1>4, <1>5, <2>1, ConcatEmptySeq DEF Piece
    <3>2. wire' = <<f>>
      BY <1>2, <3>1
    <3> QED BY <1>6, <3>1, <3>2 DEF Piece
  <2>2. CASE s # <<>>
    <3>1. wire = <<s>>
      BY <1>1, <2>2 DEF Piece
    <3>2. wire # <<>> /\ Head(wire) = s
      BY <3>1
    <3>3. wire' = <<z>>
      BY <1>2, <1>5, <3>2
    <3> QED BY <1>6, <3>3 DEF Piece
  <2> QED BY <2>1, <2>2
<1>8. Chained(z)
  BY <1>1, <1>4, <1>5, ChainedSend
<1>9. PICK a \in Seq(Byte) : a = temp_bytes \o s
  BY ConcatProperties DEF StreamTypeOK
<1>10. temp_bytes \o z = a \o f
  <2>1. temp_bytes \in Seq(Byte) /\ f \in Seq(Byte)
    BY <1>4 DEF StreamTypeOK
  <2>2. (temp_bytes \o s) \o f = temp_bytes \o (s \o f)
    BY <2>1, ConcatAssociative
  <2> QED BY <1>5, <1>9, <2>2
<1>11. Cardinality(Starts(a \o f)) <= Cardinality(Starts(a)) + 1
  BY <1>4, FrameAddsOne
<1>12. Len(sent') = Len(sent) + 1 /\ Len(sent) \in Nat /\ Len(collected) \in Nat
  BY <1>2, AppendProperties, LenProperties DEF StreamTypeOK
<1>13. Cardinality(Starts(a)) \in Nat /\ Cardinality(Starts(a \o f)) \in Nat
  BY <1>4, ConcatProperties, StartsFinite
<1>14. Cardinality(Starts(temp_bytes' \o z)) + Len(collected') <= Len(sent')
  <2>1. PICK c \in Nat, d \in Nat : c = Cardinality(Starts(a)) /\ d = Cardinality(Starts(a \o f))
    BY <1>13
  <2>2. PICK j \in Nat, k \in Nat : j = Len(sent) /\ k = Len(collected)
    BY <1>12
  <2>3. c + k <= j /\ d <= c + 1
    BY <1>1, <1>9, <1>11, <2>1, <2>2
  <2>4. d + k <= j + 1
    BY <2>3
  <2> QED BY <1>3, <1>10, <1>12, <2>1, <2>2, <2>4
<1> QED
  BY <1>6, <1>7, <1>8, <1>14 DEF StartsInv

(* A packet that comes out is accounted for, wherever the read ends. *)
LEMMA StartsInvRead ==
  ASSUME StreamTypeOK, StartsInv, ReadPiece
  PROVE  StartsInv'
<1>1. PICK s \in Seq(Byte) :
        /\ wire = Piece(s)
        /\ Chained(s)
        /\ Cardinality(Starts(temp_bytes \o s)) + Len(collected) <= Len(sent)
  BY DEF StartsInv
<1>2. wire # <<>> /\ sent' = sent
  BY DEF ReadPiece
<1>3. s # <<>> /\ wire = <<s>>
  BY <1>1, <1>2 DEF Piece
<1>4. Head(wire) = s /\ Tail(wire) = <<>>
  BY <1>3
<1>5. PICK l \in Nat : l = Len(s)
  BY LenProperties
<1>6. PICK n \in 1..l :
        /\ HandToCollect(SubSeq(s, 1, n))
        /\ wire' = Piece(From(s, n)) \o <<>>
  BY <1>4, <1>5 DEF ReadPiece
<1>7. n \in Nat /\ 1 <= n /\ n <= l
  OBVIOUS
<1>8. PICK data : data = SubSeq(s, 1, n)
  OBVIOUS
<1>9. PICK rest : rest = From(s, n)
  OBVIOUS
<1>10. data \in Seq(Byte) /\ rest \in Seq(Byte) /\ data \o rest = s
  <2>1. rest \in Seq(Byte)
    BY <1>5, <1>7, <1>9, FromIs
  <2>2. data \in Seq(Byte)
    BY <1>5, <1>7, <1>8, PartOf
  <2>3. data \o rest = SubSeq(s, 1, l)
    BY <1>5, <1>7, <1>8, <1>9, ConcatAdjacentSubSeq DEF From
  <2>4. SubSeq(s, 1, l) = s
    BY <1>5, SubSeqFull
  <2> QED BY <2>1, <2>2, <2>3, <2>4
<1>11. wire' = Piece(rest)
  <2>1. Piece(rest) \in Seq(Seq(Byte))
    BY <1>10 DEF Piece
  <2> QED BY <1>6, <1>9, <2>1, ConcatEmptySeq
<1>12. Chained(rest)
  BY <1>1, <1>5, <1>7, <1>9, ChainedRest
<1>13. PICK p : p = Collect(temp_bytes, data).packet
  OBVIOUS
<1>14. PICK t : t = Collect(temp_bytes, data).temp_bytes
  OBVIOUS
<1>15. temp_bytes' = t /\ collected' = collected \o p
  BY <1>6, <1>8, <1>13, <1>14 DEF HandToCollect
<1>16. /\ p \in Seq(Seq(Byte))
       /\ Cardinality(Starts(t \o rest)) + Len(p) <= Cardinality(Starts(temp_bytes \o s))
  <2>1. Chained(data \o rest)
    BY <1>1, <1>10
  <2>2. temp_bytes \in Seq(Byte)
    BY DEF StreamTypeOK
  <2> QED BY <1>10, <1>13, <1>14, <2>1, <2>2, CollectTakesOne
<1>17. Len(collected \o p) = Len(collected) + Len(p)
  <2>1. collected \in Seq(Seq(Byte))
    BY SeqMonotonic DEF StreamTypeOK
  <2> QED BY <1>16, <2>1, ConcatProperties
<1>18. t \in Seq(Byte)
  BY <1>10, <1>14, CollectTypes DEF StreamTypeOK
<1>19. Cardinality(Starts(temp_bytes' \o rest)) + Len(collected') <= Len(sent')
  <2>1. PICK c \in Nat : c = Cardinality(Starts(temp_bytes \o s))
    BY ConcatProperties, StartsFinite DEF StreamTypeOK
  <2>2. PICK d \in Nat : d = Cardinality(Starts(t \o rest))
    BY <1>10, <1>18, ConcatProperties, StartsFinite
  <2>3. PICK j \in Nat, k \in Nat : j = Len(sent) /\ k = Len(collected)
    BY LenProperties DEF StreamTypeOK
  <2>4. PICK h \in Nat : h = Len(p)
    BY <1>16, LenProperties
  <2>5. c + k <= j /\ d + h <= c
    BY <1>1, <1>16, <2>1, <2>2, <2>3, <2>4
  <2>6. d + (k + h) <= j
    BY <2>5
  <2> QED BY <1>2, <1>15, <1>17, <2>2, <2>3, <2>4, <2>6
<1> QED
  BY <1>10, <1>11, <1>12, <1>19 DEF StartsInv

(* However the reads cut a stream of frames without a second start frame,   *)
(* no more packets come out than frames were sent (engine.py:26-29, 63-67); *)
(* what is in them is another matter, see NoMoreThanSent.                   *)
THEOREM NoMoreThanSentAnywhere ==
  ASSUME PlainStream
  PROVE  StreamSpec => []NoMoreThanSent
<1>1. StreamInit => StartsInv
  BY StartsInvInit
<1>2. StreamTypeOK /\ StartsInv /\ [StreamNext]_streamVars => StartsInv'
  <2> SUFFICES ASSUME StreamTypeOK, StartsInv, [StreamNext]_streamVars PROVE StartsInv'
    OBVIOUS
  <2>1. CASE SendFrame
    BY <2>1, StartsInvSend
  <2>2. CASE ReadPiece
    BY <2>2, StartsInvRead
  <2>3. CASE UNCHANGED streamVars
    BY <2>3 DEF streamVars, StartsInv
  <2> QED BY <2>1, <2>2, <2>3 DEF StreamNext, StreamTerminated
<1>3. StreamTypeOK /\ StartsInv => NoMoreThanSent
  <2> SUFFICES ASSUME StreamTypeOK, StartsInv PROVE NoMoreThanSent
    OBVIOUS
  <2>1. PICK s \in Seq(Byte) :
          Cardinality(Starts(temp_bytes \o s)) + Len(collected) <= Len(sent)
    BY DEF StartsInv
  <2>2. PICK c \in Nat : c = Cardinality(Starts(temp_bytes \o s))
    BY ConcatProperties, StartsFinite DEF StreamTypeOK
  <2>3. Len(collected) \in Nat /\ Len(sent) \in Nat
    BY LenProperties DEF StreamTypeOK
  <2> QED BY <2>1, <2>2, <2>3 DEF NoMoreThanSent
<1> QED
  BY <1>1, <1>2, <1>3, StreamTypeCorrect, PTL DEF StreamSpec

(* When reads end where the composer can cope with it the same holds,       *)
(* whatever the frames' payloads hold.                                      *)
THEOREM NoMoreThanSentWithinFrames ==
  ASSUME FrameReads
  PROVE  StreamSpec => []NoMoreThanSent
<1>1. StreamInv => NoMoreThanSent
  <2> SUFFICES ASSUME StreamInv PROVE NoMoreThanSent
    OBVIOUS
  <2>1. PICK left \in Seq(Frames) : sent = collected \o left
    <3>1. CASE sent = collected \o wire /\ wire \in Seq(Frames)
      BY <3>1
    <3>2. CASE sent = collected \o Tail(wire) /\ Tail(wire) \in Seq(Frames)
      BY <3>2
    <3>3. CASE \E f \in Frames : sent = collected \o (<<f>> \o Tail(wire)) /\ Tail(wire) \in Seq(Frames)
      <4>1. PICK f \in Frames : sent = collected \o (<<f>> \o Tail(wire))
        BY <3>3
      <4>2. <<f>> \o Tail(wire) \in Seq(Frames)
        BY <3>3, ConcatProperties
      <4> QED BY <4>1, <4>2
    <3> QED BY <3>1, <3>2, <3>3 DEF StreamInv, PassingOver
  <2>2. Len(sent) = Len(collected) + Len(left) /\ Len(collected) \in Nat /\ Len(left) \in Nat
    BY <2>1, ConcatProperties, LenProperties DEF StreamInv
  <2> QED BY <2>2 DEF NoMoreThanSent
<1> QED
  BY <1>1, StreamInvHolds, PTL
=============================================================================
