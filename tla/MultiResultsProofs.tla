-------------------------- MODULE MultiResultsProofs --------------------------
(***************************************************************************)
(* Theorems about the results getMultiResults takes apart, for every set   *)
(* of actions, data of every content, and results of every length, and     *)
(* about the requests switchCollectionOfMultiResults makes.                *)
(***************************************************************************)
EXTENDS MultiResults, CDCCollectionProofs

(* The length of the data is read as a signed number of two bytes. *)
LengthsFit == \A d \in Data : Len(d) < 128 * 256

RecordType == [number : 0..31, data : Data, begin : Nat]

-----------------------------------------------------------------------------
(* Reading a record back.                                                   *)

(* A record of number n and data d is in b from place s on (places count    *)
(* from 0).                                                                 *)
RecordAt(b, s, n, d) ==
  /\ s + 4 + Len(d) <= Len(b)
  /\ b[s + 2] = n
  /\ b[s + 3] = Len(d) \div 256
  /\ b[s + 4] = Len(d) % 256
  /\ \A j \in 1..Len(d) : b[s + 4 + j] = d[j]

(* Within its bounds a slice is a subsequence. *)
LEMMA SliceInside ==
  ASSUME NEW b \in Seq(Byte), NEW m \in Nat, NEW n \in Nat, m <= Len(b), n <= Len(b)
  PROVE  PySlice(b, m, n) = SubSeq(b, m + 1, n)
<1>1. Bound(b, m) = m /\ Bound(b, n) = n
  BY DEF Bound
<1> QED
  BY <1>1 DEF PySlice

(* The number of a record is read if it is there. *)
LEMMA NumberIsRead ==
  ASSUME NEW b \in Seq(Byte), NEW s \in Nat, NEW n \in 0..31, s + 2 <= Len(b),
         b[s + 2] = n
  PROVE  FromSigned(PySlice(b, s + 1, s + 2)) = n
<1>1. PySlice(b, s + 1, s + 2) = SubSeq(b, s + 2, s + 2)
  <2>1. /\ s + 1 \in Nat /\ s + 2 \in Nat /\ s + 1 <= Len(b) /\ s + 2 <= Len(b)
        /\ (s + 1) + 1 = s + 2
    OBVIOUS
  <2> QED BY <2>1, SliceInside
<1>2. PICK t : t = SubSeq(b, s + 2, s + 2)
  OBVIOUS
<1>3. Len(t) = 1 /\ t[1] = n /\ t # <<>>
  BY <1>2
<1>4. t[1] < 128
  BY <1>3
<1>5. FromSigned(t) = t[1]
  BY <1>3, <1>4 DEF FromSigned
<1> QED
  BY <1>1, <1>2, <1>3, <1>5

(* So is the length of its data. *)
LEMMA LengthIsRead ==
  ASSUME NEW b \in Seq(Byte), NEW s \in Nat, NEW k \in Nat, k < 128 * 256,
         s + 4 <= Len(b), b[s + 3] = k \div 256, b[s + 4] = k % 256
  PROVE  FromSigned(PySlice(b, s + 2, s + 4)) = k
<1>1. PySlice(b, s + 2, s + 4) = SubSeq(b, s + 3, s + 4)
  <2>1. /\ s + 2 \in Nat /\ s + 4 \in Nat /\ s + 2 <= Len(b) /\ s + 4 <= Len(b)
        /\ (s + 2) + 1 = s + 3
    OBVIOUS
  <2> QED BY <2>1, SliceInside
<1>2. PICK t : t = SubSeq(b, s + 3, s + 4)
  OBVIOUS
<1>3. Len(t) = 2 /\ t[1] = k \div 256 /\ t[2] = k % 256 /\ t # <<>>
  BY <1>2
<1>4. k \div 256 < 128 /\ 256 * (k \div 256) + (k % 256) = k
  OBVIOUS
<1>5. t[1] < 128
  BY <1>3, <1>4
<1>6. FromSigned(t) = 256 * t[1] + t[2]
  BY <1>3, <1>5 DEF FromSigned
<1> QED
  BY <1>1, <1>2, <1>3, <1>4, <1>6

(* What the loop reads where a record begins is the record. *)
LEMMA RecordIsRead ==
  ASSUME NEW b \in Seq(Byte), NEW s \in Nat, NEW n \in 0..31, NEW d \in Seq(Byte),
         Len(d) < 128 * 256, RecordAt(b, s, n, d)
  PROVE  /\ FromSigned(PySlice(b, s + 1, s + 2)) = n
         /\ FromSigned(PySlice(b, s + 2, s + 4)) = Len(d)
         /\ PySlice(b, s + 4, s + 4 + Len(d)) = d
<1>1. PICK k : k = Len(d)
  OBVIOUS
<1>2. /\ k \in Nat /\ k < 128 * 256 /\ s + 4 + k <= Len(b) /\ Len(b) \in Nat
      /\ b[s + 2] = n /\ b[s + 3] = k \div 256 /\ b[s + 4] = k % 256
      /\ \A j \in 1..k : b[s + 4 + j] = d[j]
  BY <1>1 DEF RecordAt
<1>3. \A i \in 1..Len(b) : b[i] \in Byte
  BY ElementOfSeq
<1>4. FromSigned(PySlice(b, s + 1, s + 2)) = n
  <2>1. s + 2 <= Len(b)
    BY <1>2
  <2> QED BY <1>2, <2>1, NumberIsRead
<1>5. FromSigned(PySlice(b, s + 2, s + 4)) = k
  <2>1. s + 4 <= Len(b)
    BY <1>2
  <2> QED BY <1>2, <2>1, LengthIsRead
<1>6. PySlice(b, s + 4, s + 4 + k) = d
  <2>1. PySlice(b, s + 4, s + 4 + k) = SubSeq(b, s + 5, s + 4 + k)
    <3>1. /\ s + 4 \in Nat /\ s + 4 + k \in Nat /\ s + 4 <= Len(b) /\ s + 4 + k <= Len(b)
          /\ (s + 4) + 1 = s + 5
      BY <1>2
    <3> QED BY <3>1, SliceInside
  <2>2. PICK t : t = SubSeq(b, s + 5, s + 4 + k)
    OBVIOUS
  <2>3. \A i \in s + 5..s + 4 + k : b[i] \in Byte
    BY <1>2, <1>3
  <2>4. /\ t \in Seq(Byte) /\ Len(t) = k
        /\ \A j \in 1..k : t[j] = b[s + 4 + j]
    <3>1. /\ t \in Seq(Byte)
          /\ Len(t) = IF s + 5 <= s + 4 + k THEN (s + 4 + k) - (s + 5) + 1 ELSE 0
          /\ \A j \in 1..(s + 4 + k) - (s + 5) + 1 : t[j] = b[(s + 5) + j - 1]
      BY <1>2, <2>2, <2>3, SubSeqProperties
    <3>2. (s + 4 + k) - (s + 5) + 1 = k /\ \A j \in 1..k : (s + 5) + j - 1 = s + 4 + j
      BY <1>2
    <3> QED BY <1>2, <3>1, <3>2
  <2>5. Len(t) = Len(d) /\ \A j \in 1..Len(t) : t[j] = d[j]
    BY <1>1, <1>2, <2>4
  <2>6. t = d
    BY <2>4, <2>5, SeqEqual
  <2> QED BY <2>1, <2>2, <2>6
<1> QED
  BY <1>1, <1>4, <1>5, <1>6

(* Of a record whose last bytes are missing the loop reads the number, or 0 *)
(* if there is but one byte, and a length that takes it to the end.         *)
LEMMA CutRecordIsRead ==
  ASSUME NEW b \in Seq(Byte), NEW s \in Nat, NEW n \in 0..31, NEW k \in Nat,
         k < 128 * 256, s < Len(b), Len(b) < s + 4 + k,
         s + 2 <= Len(b) => b[s + 2] = n,
         s + 3 <= Len(b) => b[s + 3] = k \div 256,
         s + 4 <= Len(b) => b[s + 4] = k % 256
  PROVE  /\ \/ FromSigned(PySlice(b, s + 1, s + 2)) = n
            \/ FromSigned(PySlice(b, s + 1, s + 2)) = 0 /\ Len(b) = s + 1
         /\ FromSigned(PySlice(b, s + 2, s + 4)) \in Nat
         /\ s + 4 + FromSigned(PySlice(b, s + 2, s + 4)) >= Len(b)
<1>1. PICK l \in Nat : l = Len(b)
  BY LenProperties
<1>2. l >= s + 1
  BY <1>1
<1>3. \A i \in Nat : i >= l => Bound(b, i) = l
  BY <1>1 DEF Bound
<1>4. SubSeq(b, l + 1, l) = <<>> /\ FromSigned(<<>>) = 0
  BY <1>1 DEF FromSigned
<1>5. CASE l = s + 1
  <2>1. s + 1 \in Nat /\ s + 2 \in Nat /\ s + 4 \in Nat /\ s + 1 >= l /\ s + 2 >= l /\ s + 4 >= l
    BY <1>5
  <2>2. Bound(b, s + 1) = l /\ Bound(b, s + 2) = l /\ Bound(b, s + 4) = l
    BY <1>3, <2>1
  <2>3. PySlice(b, s + 1, s + 2) = <<>> /\ PySlice(b, s + 2, s + 4) = <<>>
    BY <1>4, <2>2 DEF PySlice
  <2> QED BY <1>1, <1>4, <1>5, <2>3
<1>6. CASE l = s + 2
  <2>1. FromSigned(PySlice(b, s + 1, s + 2)) = n
    <3>1. s + 2 <= Len(b)
      BY <1>1, <1>6
    <3> QED BY <3>1, NumberIsRead
  <2>2. s + 2 \in Nat /\ s + 4 \in Nat /\ s + 2 >= l /\ s + 4 >= l
    BY <1>6
  <2>3. Bound(b, s + 2) = l /\ Bound(b, s + 4) = l
    BY <1>3, <2>2
  <2>4. PySlice(b, s + 2, s + 4) = <<>>
    BY <1>4, <2>3 DEF PySlice
  <2> QED BY <1>1, <1>4, <1>6, <2>1, <2>4
<1>7. CASE l = s + 3
  <2>1. FromSigned(PySlice(b, s + 1, s + 2)) = n
    <3>1. s + 2 <= Len(b)
      BY <1>1, <1>7
    <3> QED BY <3>1, NumberIsRead
  <2>2. Bound(b, s + 2) = s + 2 /\ Bound(b, s + 4) = l
    <3>1. s + 4 \in Nat /\ s + 4 >= l
      BY <1>7
    <3>2. Bound(b, s + 2) = s + 2
      BY <1>1, <1>7 DEF Bound
    <3> QED BY <1>3, <3>1, <3>2
  <2>3. PySlice(b, s + 2, s + 4) = SubSeq(b, s + 3, s + 3)
    BY <1>7, <2>2 DEF PySlice
  <2>4. PICK t : t = SubSeq(b, s + 3, s + 3)
    OBVIOUS
  <2>5. PICK h \in Nat : h = k \div 256 /\ h < 128
    OBVIOUS
  <2>6. b[s + 3] = h
    BY <1>1, <1>7, <2>5
  <2>7. Len(t) = 1 /\ t[1] = h /\ t # <<>>
    <3>1. PICK m \in Nat : m = s + 3 /\ m = l
      BY <1>7
    <3>2. m = Len(b) /\ m >= 1 /\ b[m] = h /\ t = SubSeq(b, m, m)
      BY <1>1, <1>2, <2>4, <2>6, <3>1
    <3> QED BY <3>2
  <2>8. FromSigned(t) = h
    BY <2>5, <2>7 DEF FromSigned
  <2>9. FromSigned(PySlice(b, s + 2, s + 4)) = h
    BY <2>3, <2>4, <2>8
  <2>10. s + 4 + h >= l
    BY <1>7, <2>5
  <2> QED BY <1>1, <2>1, <2>5, <2>9, <2>10
<1>8. CASE l >= s + 4
  <2>1. s + 2 <= Len(b) /\ s + 3 <= Len(b) /\ s + 4 <= Len(b)
    BY <1>1, <1>8
  <2>2. FromSigned(PySlice(b, s + 1, s + 2)) = n
    BY <2>1, NumberIsRead
  <2>3. FromSigned(PySlice(b, s + 2, s + 4)) = k
    BY <2>1, LengthIsRead
  <2>4. s + 4 + k >= Len(b)
    BY <1>1
  <2> QED BY <2>2, <2>3, <2>4
<1>9. l = s + 1 \/ l = s + 2 \/ l = s + 3 \/ l >= s + 4
  BY <1>2
<1> QED
  BY <1>5, <1>6, <1>7, <1>8, <1>9

(* A record appended to b is where b ended, and b stays where it is. *)
Appended(b, n, d) ==
  LET c == b \o Record([number |-> n, data |-> d])
  IN  /\ c \in Seq(Byte) /\ Len(c) = Len(b) + 4 + Len(d)
      /\ RecordAt(c, Len(b), n, d)
      /\ \A i \in 1..Len(b) : c[i] = b[i]

(* It is, for all bytes and records. *)
LEMMA RecordAppended ==
  \A b, d \in Seq(Byte), n \in Byte : Len(d) \in TwoBytes => Appended(b, n, d)
<1> SUFFICES ASSUME NEW b \in Seq(Byte), NEW d \in Seq(Byte), NEW n \in Byte,
                    Len(d) \in TwoBytes
             PROVE  Appended(b, n, d)
  OBVIOUS
<1>c. PICK c : c = b \o Record([number |-> n, data |-> d])
  OBVIOUS
<1>1. PICK k : k = Len(d)
  OBVIOUS
<1>2. PICK l : l = Len(b)
  OBVIOUS
<1>3. k \in Nat /\ k < 256 * 256 /\ l \in Nat
  BY <1>1, <1>2 DEF TwoBytes
<1>4. PICK h : h = <<0, n, k \div 256, k % 256>>
  OBVIOUS
<1>5. h \in Seq(Byte) /\ Len(h) = 4
  <2>1. /\ (k \div 256) \in Int /\ k \div 256 >= 0 /\ k \div 256 <= 255
        /\ (k % 256) \in Int /\ k % 256 >= 0 /\ k % 256 <= 255
    BY <1>3
  <2>2. (k \div 256) \in Byte /\ (k % 256) \in Byte /\ 0 \in Byte /\ n \in Byte
    BY <1>3, <2>1 DEF Byte
  <2> QED BY <1>4, <2>2
<1>6. PICK e : e = h \o d
  OBVIOUS
<1>7. c = b \o e
  <2>1. Record([number |-> n, data |-> d]) = e
    BY <1>1, <1>4, <1>6 DEF Record
  <2> QED BY <1>c, <2>1
<1>8. /\ e \in Seq(Byte) /\ Len(e) = 4 + k
      /\ \A i \in 1..4 + k : e[i] = IF i <= 4 THEN h[i] ELSE d[i - 4]
  <2>1. /\ e \in Seq(Byte) /\ Len(e) = Len(h) + Len(d)
        /\ \A i \in 1..Len(h) + Len(d) : e[i] = IF i <= Len(h) THEN h[i] ELSE d[i - Len(h)]
    BY <1>5, <1>6, ConcatProperties
  <2> QED BY <1>1, <1>5, <2>1
<1>9. /\ c \in Seq(Byte) /\ Len(c) = l + 4 + k
      /\ \A i \in 1..l : c[i] = b[i]
      /\ \A i \in 1..4 + k : c[l + i] = e[i]
  <2>0. /\ c \in Seq(Byte) /\ Len(c) = Len(b) + Len(e)
        /\ \A i \in 1..Len(b) + Len(e) : c[i] = IF i <= Len(b) THEN b[i] ELSE e[i - Len(b)]
    <3>1. e \in Seq(Byte)
      BY <1>8
    <3> QED BY <1>7, <3>1, ConcatProperties
  <2>1. /\ c \in Seq(Byte) /\ Len(c) = l + (4 + k)
        /\ \A i \in 1..l + (4 + k) : c[i] = IF i <= l THEN b[i] ELSE e[i - l]
    BY <1>2, <1>8, <2>0
  <2>2. l + (4 + k) = l + 4 + k
    BY <1>3
  <2>3. \A i \in 1..4 + k : l + i \in 1..l + (4 + k) /\ ~(l + i <= l) /\ (l + i) - l = i
    BY <1>3
  <2>4. \A i \in 1..l : i \in 1..l + (4 + k) /\ i <= l
    BY <1>3
  <2> QED BY <2>1, <2>2, <2>3, <2>4
<1>10. c[l + 2] = n /\ c[l + 3] = k \div 256 /\ c[l + 4] = k % 256
  <2>1. e[2] = h[2] /\ e[3] = h[3] /\ e[4] = h[4]
    BY <1>3, <1>8
  <2>2. c[l + 2] = e[2] /\ c[l + 3] = e[3] /\ c[l + 4] = e[4]
    <3>1. 2 \in 1..4 + k /\ 3 \in 1..4 + k /\ 4 \in 1..4 + k
      BY <1>3
    <3> QED BY <1>9, <3>1
  <2> QED BY <1>4, <2>1, <2>2
<1>11. \A j \in 1..k : c[l + 4 + j] = d[j]
  <2> TAKE j \in 1..k
  <2>1. 4 + j \in 1..4 + k /\ ~(4 + j <= 4) /\ (4 + j) - 4 = j /\ l + (4 + j) = l + 4 + j
    BY <1>3
  <2> QED BY <1>8, <1>9, <2>1
<1>12. RecordAt(c, l, n, d)
  <2>1. l + 4 + Len(d) <= Len(c)
    BY <1>1, <1>3, <1>9
  <2>2. /\ c[l + 2] = n /\ c[l + 3] = Len(d) \div 256 /\ c[l + 4] = Len(d) % 256
        /\ \A j \in 1..Len(d) : c[l + 4 + j] = d[j]
    BY <1>1, <1>10, <1>11
  <2> QED BY <2>1, <2>2 DEF RecordAt
<1> QED
  BY <1>c, <1>1, <1>2, <1>9, <1>12 DEF Appended

-----------------------------------------------------------------------------
(* The invariant: where the records of the result begin, and how far the    *)
(* loop has come.                                                           *)

(* The places where the records begin, and after them where the result ends. *)
Laid(starts) ==
  /\ starts \in [1..Len(records) + 1 -> Nat]
  /\ starts[1] = 5
  /\ starts[Len(records) + 1] = Len(composed)
  /\ \A i \in 1..Len(records) :
       /\ starts[i + 1] = starts[i] + 4 + Len(records[i].data)
       /\ RecordAt(composed, starts[i], records[i].number, records[i].data)
       /\ records[i].begin = starts[i]
  /\ \A i, j \in 1..Len(records) + 1 : i < j => starts[i] + 4 <= starts[j]

(* The loop has taken the first k - 1 records. *)
ReadTo(starts, k) ==
  /\ k \in 1..Len(records) + 1
  /\ offset = starts[k]
  /\ DOMAIN data_dict = {records[j].number : j \in 1..k - 1}
  /\ \A j \in 1..k - 1 : data_dict[records[j].number] = records[j].data

MultiType ==
  /\ told \subseteq 0..31
  /\ records \in Seq(RecordType)
  /\ composed \in Seq(Byte)
  /\ call \in {"idle", "reading", "returned"}

(* A result holds an action once. *)
NumbersDiffer ==
  \A i, j \in 1..Len(records) : i # j => records[i].number # records[j].number

(* What is received is what was sent, or the first part of it. *)
Received ==
  /\ payload \in Seq(Byte)
  /\ Len(payload) <= Len(composed)
  /\ \A i \in 1..Len(payload) : payload[i] = composed[i]

(* The data of what has arrived are kept. *)
ArrivedKept ==
  \A i \in 1..Len(records) :
    Arrived(records[i]) /\ (records[i].number = 0 => ~NumberMissing) =>
      /\ records[i].number \in DOMAIN data_dict
      /\ data_dict[records[i].number] = records[i].data

(* The loop is at the start of a record, or past the end in one that is cut. *)
Loop(starts) ==
  call \in {"reading", "returned"} =>
    /\ Received
    /\ offset \in Nat
    /\ call = "returned" => offset >= Len(payload)
    /\ \/ \E k : ReadTo(starts, k)
       \/ Len(payload) < Len(composed) /\ offset >= Len(payload) /\ ArrivedKept

MultiInv ==
  /\ MultiType
  /\ NumbersDiffer
  /\ call \in {"reading", "returned"} => Collected = told
  /\ \E starts : Laid(starts) /\ Loop(starts)

(* Data is a sequence of bytes whose length two bytes can say. *)
LEMMA DataIsBytes ==
  ASSUME NEW d \in Data
  PROVE  d \in Seq(Byte) /\ Len(d) \in TwoBytes /\ Len(d) \in Nat
BY MultiResultsAssumption

(* A result without records ends after its header. *)
LEMMA EmptyResult ==
  ASSUME records = <<>>, composed = Header
  PROVE  /\ records \in Seq(RecordType) /\ composed \in Seq(Byte)
         /\ NumbersDiffer /\ \E starts : Laid(starts)
<1>1. composed \in Seq(Byte) /\ Len(composed) = 5
  BY DEF Header, Byte
<1>2. Laid([i \in 1..1 |-> 5])
  BY <1>1 DEF Laid
<1> QED
  BY <1>1, <1>2 DEF NumbersDiffer

(* Before any result the invariant holds. *)
LEMMA MultiInvInit == MultiInit => MultiInv
<1> SUFFICES ASSUME MultiInit PROVE MultiInv
  OBVIOUS
<1>1. records = <<>> /\ composed = Header /\ told = {} /\ call = "idle"
  BY DEF MultiInit
<1> QED
  BY <1>1, EmptyResult DEF MultiInv, MultiType, Loop

(* Switching the collection changes what the device is told only. *)
LEMMA MultiInvSwitch ==
  ASSUME MultiInv, SwitchCollection
  PROVE  MultiInv'
<1>1. call = "idle" /\ UNCHANGED <<records, composed, call, payload, offset, data_dict>>
  BY DEF SwitchCollection, readVars
<1>2. told' \subseteq 0..31
  <2>1. PICK s \in Settings :
          told' = ActionsIn(get_CDC_packet(CDC_packet(update_checksum(SwitchRequest(s)))).payload)
    BY DEF SwitchCollection
  <2>2. \A q : ActionsIn(q) \subseteq 0..31
    BY DEF ActionsIn
  <2> QED BY <2>1, <2>2
<1>3. MultiType'
  BY <1>1, <1>2 DEF MultiInv, MultiType
<1>4. PICK starts : Laid(starts)
  BY DEF MultiInv
<1>5. Laid(starts)' /\ NumbersDiffer'
  BY <1>1, <1>4 DEF MultiInv, Laid, NumbersDiffer
<1> QED
  BY <1>1, <1>3, <1>5 DEF MultiInv, Loop

(* A record the device adds begins where the result ended. *)
LEMMA MultiInvAdd ==
  ASSUME MultiInv, AddRecord
  PROVE  MultiInv'
<1>1. PICK n \in told \ Collected, d \in Data :
        /\ records' = Append(records, [number |-> n, data |-> d, begin |-> Len(composed)])
        /\ composed' = composed \o Record([number |-> n, data |-> d])
  BY DEF AddRecord
<1>2. /\ told' = told /\ call' = call /\ call = "idle" /\ told \subseteq 0..31
      /\ records \in Seq(RecordType) /\ composed \in Seq(Byte)
  BY DEF AddRecord, readVars, MultiInv, MultiType
<1>3. n \in 0..31 /\ n \notin Collected
  BY <1>1, <1>2
<1>4. PICK r \in RecordType : r = [number |-> n, data |-> d, begin |-> Len(composed)]
  <2>1. Len(composed) \in Nat
    BY <1>2, LenProperties
  <2> QED BY <1>3, <2>1 DEF RecordType
<1>5. r.number = n /\ r.data = d /\ r.begin = Len(composed)
  BY <1>4
<1>6. PICK l : l = Len(records)
  OBVIOUS
<1>7. /\ l \in Nat /\ records' \in Seq(RecordType) /\ Len(records') = l + 1
      /\ \A i \in 1..l : records'[i] = records[i]
      /\ records'[l + 1] = r
  <2>1. records' = Append(records, r)
    BY <1>1, <1>4
  <2> QED BY <1>2, <1>6, <2>1, AppendProperties
<1>8. /\ composed' \in Seq(Byte) /\ Len(composed') = Len(composed) + 4 + Len(d)
      /\ RecordAt(composed', Len(composed), n, d)
      /\ \A i \in 1..Len(composed) : composed'[i] = composed[i]
  <2>1. d \in Seq(Byte) /\ Len(d) \in TwoBytes /\ n \in Byte
    BY <1>3, DataIsBytes DEF Byte
  <2>2. Appended(composed, n, d)
    BY <1>2, <2>1, RecordAppended
  <2> QED BY <1>1, <2>2 DEF Appended
<1>9. NumbersDiffer'
  <2>1. \A i \in 1..l : records[i].number # n
    BY <1>2, <1>3, <1>6 DEF Collected
  <2>2. \A i, j \in 1..l : i # j => records[i].number # records[j].number
    BY <1>6 DEF MultiInv, NumbersDiffer
  <2>3. \A i \in 1..l + 1 : i \in 1..l \/ i = l + 1
    BY <1>7
  <2> SUFFICES ASSUME NEW i \in 1..l + 1, NEW j \in 1..l + 1, i # j
               PROVE  records'[i].number # records'[j].number
    BY <1>7 DEF NumbersDiffer
  <2> QED BY <1>5, <1>7, <2>1, <2>2, <2>3
<1>10. PICK starts : Laid(starts)
  BY DEF MultiInv
<1>11. /\ starts \in [1..l + 1 -> Nat] /\ starts[1] = 5
       /\ starts[l + 1] = Len(composed) /\ Len(composed) \in Nat
       /\ \A i \in 1..l :
            /\ starts[i + 1] = starts[i] + 4 + Len(records[i].data)
            /\ RecordAt(composed, starts[i], records[i].number, records[i].data)
            /\ records[i].begin = starts[i]
       /\ \A i, j \in 1..l + 1 : i < j => starts[i] + 4 <= starts[j]
  BY <1>2, <1>6, <1>10 DEF Laid
<1>12. PICK next : next = [i \in 1..l + 2 |-> IF i = l + 2 THEN Len(composed') ELSE starts[i]]
  OBVIOUS
<1>13. Laid(next)'
  <2>1. Len(d) \in Nat /\ Len(composed') \in Nat
    BY DataIsBytes, <1>8
  <2>2. next \in [1..l + 2 -> Nat]
    <3>1. \A i \in 1..l + 2 : i # l + 2 => i \in 1..l + 1
      BY <1>7
    <3> QED BY <1>7, <1>11, <1>12, <2>1, <3>1
  <2>3. \A i \in 1..l + 1 : next[i] = starts[i]
    BY <1>7, <1>12
  <2>4. next[1] = 5 /\ next[l + 2] = Len(composed')
    BY <1>7, <1>11, <1>12, <2>3
  <2>5. ASSUME NEW i \in 1..l
        PROVE  /\ next[i + 1] = next[i] + 4 + Len(records'[i].data)
               /\ RecordAt(composed', next[i], records'[i].number, records'[i].data)
               /\ records'[i].begin = next[i]
    <3>1. i \in 1..l + 1 /\ i + 1 \in 1..l + 1
      BY <1>7
    <3>2. next[i] = starts[i] /\ next[i + 1] = starts[i + 1] /\ records'[i] = records[i]
      BY <1>7, <2>3, <3>1
    <3>3. PICK s \in Nat : s = starts[i]
      BY <1>11, <3>1
    <3>4. PICK m, e : m = records[i].number /\ e = records[i].data
      <4>1. PICK m : m = records[i].number
        OBVIOUS
      <4>2. PICK e : e = records[i].data
        OBVIOUS
      <4> QED BY <4>1, <4>2
    <3>5. RecordAt(composed, s, m, e)
      BY <1>11, <3>3, <3>4
    <3>6. e \in Seq(Byte) /\ Len(e) \in Nat
      <4>1. records[i] \in RecordType
        BY <1>2, <1>6, ElementOfSeq
      <4>2. e \in Data
        BY <3>4, <4>1 DEF RecordType
      <4> QED BY <4>2, DataIsBytes
    <3>7. s + 4 + Len(e) <= Len(composed)
      BY <3>5 DEF RecordAt
    <3>8. /\ s + 2 \in 1..Len(composed) /\ s + 3 \in 1..Len(composed)
          /\ s + 4 \in 1..Len(composed)
          /\ \A j \in 1..Len(e) : s + 4 + j \in 1..Len(composed)
      BY <1>11, <3>6, <3>7
    <3>9. /\ composed'[s + 2] = composed[s + 2] /\ composed'[s + 3] = composed[s + 3]
          /\ composed'[s + 4] = composed[s + 4]
          /\ \A j \in 1..Len(e) : composed'[s + 4 + j] = composed[s + 4 + j]
      BY <1>8, <3>8
    <3>10. s + 4 + Len(e) <= Len(composed')
      BY <1>8, <1>11, <2>1, <3>6, <3>7
    <3>11. RecordAt(composed', s, m, e)
      BY <3>5, <3>9, <3>10 DEF RecordAt
    <3>12. records'[i].begin = next[i]
      BY <1>11, <3>2
    <3> QED BY <1>11, <3>2, <3>3, <3>4, <3>11, <3>12
  <2>6. /\ next[(l + 1) + 1] = next[l + 1] + 4 + Len(records'[l + 1].data)
        /\ RecordAt(composed', next[l + 1], records'[l + 1].number, records'[l + 1].data)
        /\ records'[l + 1].begin = next[l + 1]
    <3>1. (l + 1) + 1 = l + 2 /\ l + 1 \in 1..l + 1
      BY <1>7
    <3>2. next[l + 1] = Len(composed)
      BY <1>11, <2>3, <3>1
    <3> QED BY <1>5, <1>7, <1>8, <2>4, <3>1, <3>2
  <2>7. \A i \in 1..l + 1 : i \in 1..l \/ i = l + 1
    BY <1>7
  <2>8. (l + 1) + 1 = l + 2
    BY <1>7
  <2>9. \A i \in 1..l + 1 :
          /\ next[i + 1] = next[i] + 4 + Len(records'[i].data)
          /\ RecordAt(composed', next[i], records'[i].number, records'[i].data)
          /\ records'[i].begin = next[i]
    BY <2>5, <2>6, <2>7
  <2>10. ASSUME NEW i \in 1..l + 2, NEW j \in 1..l + 2, i < j
         PROVE  next[i] + 4 <= next[j]
    <3>1. i \in 1..l + 1 /\ next[i] = starts[i] /\ starts[i] \in Nat
      <4>1. i \in 1..l + 1
        BY <1>7, <2>10
      <4> QED BY <1>11, <2>3, <4>1
    <3>2. CASE j \in 1..l + 1
      BY <1>11, <2>3, <2>10, <3>1, <3>2
    <3>3. CASE j = l + 2
      <4>1. PICK m \in Nat : m = Len(composed)
        BY <1>11
      <4>2. next[j] >= m + 4
        BY <1>8, <2>1, <2>4, <3>3, <4>1
      <4>3. starts[i] <= m
        <5>1. CASE i = l + 1
          BY <1>11, <4>1, <5>1
        <5>2. CASE i < l + 1
          <6>1. l + 1 \in 1..l + 1
            BY <1>7
          <6>2. starts[i] + 4 <= starts[l + 1]
            BY <1>11, <3>1, <5>2, <6>1
          <6> QED BY <1>11, <3>1, <4>1, <6>2
        <5> QED BY <1>7, <3>1, <5>1, <5>2
      <4>4. next[j] \in Nat
        BY <2>1, <2>4, <3>3
      <4> QED BY <3>1, <4>1, <4>2, <4>3, <4>4
    <3> QED BY <1>7, <3>2, <3>3
  <2> QED BY <1>7, <2>2, <2>4, <2>8, <2>9, <2>10 DEF Laid
<1>14. ~(call' \in {"reading", "returned"})
  BY <1>2
<1>15. MultiType'
  BY <1>2, <1>7, <1>8 DEF MultiType
<1> QED
  BY <1>9, <1>13, <1>14, <1>15 DEF MultiInv, Loop

(* A result that is received, whole or not, is read from its first record. *)
LEMMA MultiInvReceive ==
  ASSUME MultiInv, Receive
  PROVE  MultiInv'
<1>1. /\ UNCHANGED <<asked, told, records, composed>>
      /\ Collected = told /\ call' = "reading" /\ offset' = 5 /\ data_dict' = <<>>
  BY DEF Receive
<1>2. PICK starts : Laid(starts)
  BY DEF MultiInv
<1>3. Laid(starts)' /\ NumbersDiffer' /\ MultiType' /\ Collected' = told'
  BY <1>1, <1>2 DEF MultiInv, MultiType, Laid, NumbersDiffer, Collected
<1>4. ReadTo(starts, 1)'
  <2>1. Len(records') \in Nat
    BY <1>1 DEF MultiInv, MultiType
  <2>2. 1 \in 1..Len(records') + 1 /\ offset' = starts[1]
    BY <1>1, <1>2, <2>1 DEF Laid
  <2>3. DOMAIN data_dict' = {} /\ 1..(1 - 1) = {}
    BY <1>1
  <2> QED BY <2>2, <2>3 DEF ReadTo
<1>5. Received'
  <2>1. PICK cut \in Cuts : /\ cut < Len(composed)
                            /\ payload' = SubSeq(composed, 1, Len(composed) - cut)
    BY DEF Receive
  <2>2. composed \in Seq(Byte) /\ cut \in Nat
    BY <2>1, MultiResultsAssumption DEF MultiInv, MultiType
  <2>3. PICK n \in Nat : n = Len(composed) - cut /\ n <= Len(composed)
    <3>1. PICK l \in Nat : l = Len(composed)
      BY <2>2, LenProperties
    <3>2. l - cut \in Nat /\ l - cut <= l
      BY <2>1, <2>2, <3>1
    <3> QED BY <3>1, <3>2
  <2>4. 1 \in Nat /\ 1 <= 1 /\ 1 <= n + 1
    BY <2>3
  <2>5. /\ payload' \in Seq(Byte) /\ Len(payload') = n - 1 + 1
        /\ \A i \in 1..Len(payload') : payload'[i] = composed[1 + i - 1]
    BY <2>1, <2>2, <2>3, <2>4, PartOf
  <2>6. n - 1 + 1 = n /\ \A i \in Int : 1 + i - 1 = i
    BY <2>3
  <2> QED BY <1>1, <2>3, <2>5, <2>6 DEF Received
<1>6. Loop(starts)'
  BY <1>1, <1>4, <1>5 DEF Loop
<1> QED
  BY <1>3, <1>6 DEF MultiInv

(* What the loop reads at the start of a record: the record, or what has    *)
(* arrived of it; then it is past the end.                                  *)
LEMMA RoundRead ==
  ASSUME LengthsFit, MultiType, NEW starts, Laid(starts), Received,
         NEW k, ReadTo(starts, k), offset < Len(payload)
  PROVE  /\ k \in 1..Len(records) /\ offset \in Nat
         /\ NextOffset \in Nat /\ NextOffset >= offset + 4
         /\ \/ /\ starts[k + 1] <= Len(payload) /\ NextOffset = starts[k + 1]
               /\ action_num = records[k].number /\ RecordData = records[k].data
            \/ /\ starts[k + 1] > Len(payload) /\ NextOffset >= Len(payload)
               /\ \/ action_num = records[k].number
                  \/ action_num = 0 /\ NumberMissing
<1>1. PICK l : l = Len(records)
  OBVIOUS
<1>2. /\ l \in Nat /\ composed \in Seq(Byte) /\ Len(composed) \in Nat
      /\ k \in 1..l + 1 /\ offset = starts[k] /\ starts[l + 1] = Len(composed)
      /\ starts \in [1..l + 1 -> Nat]
      /\ payload \in Seq(Byte) /\ Len(payload) <= Len(composed)
  BY <1>1 DEF MultiType, ReadTo, Laid, Received
<1>3. PICK c \in Nat : c = Len(payload)
  BY <1>2, LenProperties
<1>4. k \in 1..l
  <2>1. k # l + 1
    BY <1>2, <1>3
  <2> QED BY <1>2, <2>1
<1>5. PICK n : n = records[k].number
  OBVIOUS
<1>6. PICK d : d = records[k].data
  OBVIOUS
<1>7. n \in 0..31 /\ d \in Data
  <2>1. records[k] \in RecordType
    BY <1>1, <1>4, ElementOfSeq DEF MultiType
  <2> QED BY <1>5, <1>6, <2>1 DEF RecordType
<1>8. PICK e \in Nat : e = Len(d) /\ e < 128 * 256 /\ d \in Seq(Byte)
  BY <1>7, DataIsBytes DEF LengthsFit
<1>9. PICK s \in Nat : s = offset /\ s = starts[k] /\ s < c
  BY <1>2, <1>3, <1>4
<1>10. /\ RecordAt(composed, s, n, d) /\ starts[k + 1] = s + 4 + e
       /\ records[k].begin = s
  BY <1>1, <1>4, <1>5, <1>6, <1>8, <1>9 DEF Laid
<1>11. /\ composed[s + 2] = n /\ composed[s + 3] = e \div 256
       /\ composed[s + 4] = e % 256 /\ \A j \in 1..e : composed[s + 4 + j] = d[j]
  BY <1>8, <1>10 DEF RecordAt
<1>12. \A i \in 1..c : payload[i] = composed[i]
  BY <1>3 DEF Received
<1>13. CASE s + 4 + e <= c
  <2>1. /\ s + 2 \in 1..c /\ s + 3 \in 1..c /\ s + 4 \in 1..c
        /\ \A j \in 1..e : s + 4 + j \in 1..c
    BY <1>13
  <2>2. /\ payload[s + 2] = n /\ payload[s + 3] = e \div 256
        /\ payload[s + 4] = e % 256 /\ \A j \in 1..e : payload[s + 4 + j] = d[j]
    BY <1>11, <1>12, <2>1
  <2>3. RecordAt(payload, s, n, d)
    BY <1>3, <1>8, <1>13, <2>2 DEF RecordAt
  <2>4. Len(d) < 128 * 256
    BY <1>8
  <2>5. /\ FromSigned(PySlice(payload, s + 1, s + 2)) = n
        /\ FromSigned(PySlice(payload, s + 2, s + 4)) = Len(d)
        /\ PySlice(payload, s + 4, s + 4 + Len(d)) = d
    BY <1>2, <1>7, <1>8, <2>3, <2>4, RecordIsRead
  <2>6. action_num = n /\ data_length = e /\ RecordData = d
    BY <1>8, <1>9, <2>5 DEF action_num, data_length, RecordData
  <2>7. NextOffset = s + 4 + e
    BY <1>9, <2>6 DEF NextOffset
  <2> QED BY <1>1, <1>3, <1>4, <1>5, <1>6, <1>9, <1>10, <1>13, <2>6, <2>7
<1>14. CASE ~(s + 4 + e <= c)
  <2>1. /\ s + 2 <= Len(payload) => payload[s + 2] = n
        /\ s + 3 <= Len(payload) => payload[s + 3] = e \div 256
        /\ s + 4 <= Len(payload) => payload[s + 4] = e % 256
    <3>1. /\ s + 2 <= c => s + 2 \in 1..c
          /\ s + 3 <= c => s + 3 \in 1..c
          /\ s + 4 <= c => s + 4 \in 1..c
      OBVIOUS
    <3> QED BY <1>3, <1>11, <1>12, <3>1
  <2>2. s < Len(payload) /\ Len(payload) < s + 4 + e
    BY <1>3, <1>9, <1>14
  <2>3. /\ \/ FromSigned(PySlice(payload, s + 1, s + 2)) = n
           \/ FromSigned(PySlice(payload, s + 1, s + 2)) = 0 /\ Len(payload) = s + 1
        /\ FromSigned(PySlice(payload, s + 2, s + 4)) \in Nat
        /\ s + 4 + FromSigned(PySlice(payload, s + 2, s + 4)) >= Len(payload)
    BY <1>2, <1>7, <1>8, <2>1, <2>2, CutRecordIsRead
  <2>4. PICK g \in Nat : g = FromSigned(PySlice(payload, s + 2, s + 4))
    BY <2>3
  <2>5. NextOffset = s + 4 + g
    BY <1>9, <2>4 DEF NextOffset, data_length
  <2>6. s + 4 + g >= c
    BY <1>3, <2>3, <2>4
  <2>7. action_num = n \/ (action_num = 0 /\ c = s + 1)
    BY <1>3, <1>9, <2>3 DEF action_num
  <2>8. c = s + 1 => NumberMissing
    <3>1. k \in DOMAIN records
      BY <1>1, <1>4 DEF MultiType
    <3> QED BY <1>3, <1>10, <3>1 DEF NumberMissing
  <2>9. s + 4 + e > c
    BY <1>3, <1>14
  <2>10. s + 4 + g \in Nat /\ s + 4 + g >= s + 4
    BY <2>4
  <2> QED BY <1>1, <1>3, <1>4, <1>5, <1>9, <1>10, <2>5, <2>6, <2>7, <2>8, <2>9, <2>10
<1> QED
  BY <1>13, <1>14

(* Nothing from a record on that is not whole has arrived. *)
LEMMA NotArrived ==
  ASSUME MultiType, NEW starts, Laid(starts), Received,
         NEW k \in 1..Len(records) + 1,
         \/ starts[k] >= Len(payload)
         \/ k <= Len(records) /\ starts[k + 1] > Len(payload),
         NEW i \in 1..Len(records), Arrived(records[i])
  PROVE  i \in 1..k - 1
<1>1. PICK l \in Nat : l = Len(records)
  BY LenProperties DEF MultiType
<1>2. PICK c \in Nat : c = Len(payload)
  BY LenProperties DEF Received
<1>3. /\ starts \in [1..l + 1 -> Nat]
      /\ \A a, b \in 1..l + 1 : a < b => starts[a] + 4 <= starts[b]
      /\ starts[i + 1] = starts[i] + 4 + Len(records[i].data)
      /\ records[i].begin = starts[i]
  BY <1>1 DEF Laid
<1>4. i \in 1..l /\ k \in 1..l + 1 /\ i \in 1..l + 1 /\ i + 1 \in 1..l + 1
  BY <1>1
<1>5. PICK a \in Nat, b \in Nat, e \in Nat : a = starts[i] /\ b = starts[i + 1] /\ e = starts[k]
  BY <1>3, <1>4
<1>6. b <= c
  BY <1>2, <1>3, <1>5 DEF Arrived
<1>7. ASSUME k <= i PROVE FALSE
  <2>1. e + 4 <= b
    BY <1>3, <1>4, <1>5, <1>7
  <2>2. ~(e >= c)
    BY <1>6, <2>1
  <2>3. k <= l /\ starts[k + 1] > c
    BY <1>1, <1>2, <1>5, <2>2
  <2>4. k + 1 \in 1..l + 1 /\ k + 1 <= i + 1
    BY <1>4, <1>7, <2>3
  <2>5. CASE k = i
    BY <1>5, <1>6, <2>3, <2>5
  <2>6. CASE k # i
    <3>1. k + 1 < i + 1
      BY <1>4, <1>7, <2>6
    <3>2. PICK f \in Nat : f = starts[k + 1]
      BY <1>3, <2>4
    <3>3. f + 4 <= b
      BY <1>3, <1>4, <1>5, <2>4, <3>1, <3>2
    <3> QED BY <1>6, <2>3, <3>2, <3>3
  <2> QED BY <2>5, <2>6
<1> QED
  BY <1>4, <1>7

(* A round of the loop takes the next record, or what has arrived of it. *)
LEMMA MultiInvRead ==
  ASSUME LengthsFit, MultiInv, ReadRecord
  PROVE  MultiInv'
<1>1. /\ UNCHANGED <<asked, told, records, composed, call, payload>>
      /\ call = "reading" /\ offset < Len(payload)
      /\ data_dict' = [n \in DOMAIN data_dict \cup {action_num} |->
                         IF n = action_num THEN RecordData ELSE data_dict[n]]
      /\ offset' = NextOffset
  BY DEF ReadRecord
<1>2. NumbersDiffer' /\ MultiType' /\ (call' \in {"reading", "returned"} => Collected' = told')
  BY <1>1 DEF MultiInv, MultiType, NumbersDiffer, Collected
<1>3. PICK starts : Laid(starts) /\ Loop(starts)
  BY DEF MultiInv
<1>4. Laid(starts)' /\ MultiType /\ Received /\ Received'
  BY <1>1, <1>3 DEF MultiInv, Laid, Loop, Received
<1>5. PICK c \in Nat, l \in Nat : c = Len(payload) /\ l = Len(records)
  BY <1>4, LenProperties DEF Received, MultiType
<1>6. PICK k : ReadTo(starts, k)
  <2>1. ~(offset >= Len(payload))
    <3>1. offset \in Nat
      BY <1>1, <1>3 DEF Loop
    <3>2. offset < c
      BY <1>1, <1>5
    <3> QED BY <1>5, <3>1, <3>2
  <2>2. \/ \E k : ReadTo(starts, k)
        \/ offset >= Len(payload)
    BY <1>1, <1>3 DEF Loop
  <2> QED BY <2>1, <2>2
<1>7. /\ k \in 1..l /\ offset \in Nat
      /\ NextOffset \in Nat /\ NextOffset >= offset + 4
      /\ \/ /\ starts[k + 1] <= c /\ NextOffset = starts[k + 1]
            /\ action_num = records[k].number /\ RecordData = records[k].data
         \/ /\ starts[k + 1] > c /\ NextOffset >= c
            /\ \/ action_num = records[k].number
               \/ action_num = 0 /\ NumberMissing
  BY <1>1, <1>3, <1>4, <1>5, <1>6, RoundRead
<1>8. /\ DOMAIN data_dict = {records[j].number : j \in 1..k - 1}
      /\ \A j \in 1..k - 1 : data_dict[records[j].number] = records[j].data
  BY <1>6 DEF ReadTo
<1>9. /\ k + 1 \in 1..l + 1 /\ (k + 1) - 1 = k /\ 1..k = (1..k - 1) \cup {k}
      /\ \A j \in 1..k - 1 : j \in 1..l /\ j # k
  BY <1>5, <1>7
<1>10. \A j \in 1..k - 1 : records[j].number # records[k].number
  BY <1>5, <1>7, <1>9 DEF MultiInv, NumbersDiffer
<1>11. \A j \in 1..k - 1 :
         records[j].number # action_num =>
           /\ records[j].number \in DOMAIN data_dict'
           /\ data_dict'[records[j].number] = records[j].data
  BY <1>1, <1>8
<1>12. ASSUME starts[k + 1] <= c, NextOffset = starts[k + 1],
              action_num = records[k].number, RecordData = records[k].data
       PROVE  Loop(starts)'
  <2>1. DOMAIN data_dict' = {records[j].number : j \in 1..k}
    <3>1. DOMAIN data_dict' = DOMAIN data_dict \cup {records[k].number}
      BY <1>1, <1>12
    <3> QED BY <1>8, <1>9, <3>1
  <2>2. \A j \in 1..k : data_dict'[records[j].number] = records[j].data
    <3>1. data_dict'[records[k].number] = records[k].data
      BY <1>1, <1>12
    <3>2. \A j \in 1..k : j = k \/ j \in 1..k - 1
      BY <1>9
    <3> QED BY <1>10, <1>11, <1>12, <3>1, <3>2
  <2>3. ReadTo(starts, k + 1)'
    <3>1. k + 1 \in 1..Len(records') + 1 /\ offset' = starts[k + 1]
      BY <1>1, <1>5, <1>9, <1>12
    <3>2. /\ DOMAIN data_dict' = {records'[j].number : j \in 1..(k + 1) - 1}
          /\ \A j \in 1..(k + 1) - 1 : data_dict'[records'[j].number] = records'[j].data
      BY <1>1, <1>9, <2>1, <2>2
    <3> QED BY <3>1, <3>2 DEF ReadTo
  <2> QED BY <1>1, <1>4, <1>7, <2>3 DEF Loop
<1>13. ASSUME starts[k + 1] > c, NextOffset >= c,
              action_num = records[k].number \/ (action_num = 0 /\ NumberMissing)
       PROVE  Loop(starts)'
  <2>1. Len(payload') < Len(composed')
    <3>1. starts[k + 1] <= Len(composed)
      <4>1. /\ starts \in [1..l + 1 -> Nat] /\ starts[l + 1] = Len(composed)
            /\ \A i, j \in 1..l + 1 : i < j => starts[i] + 4 <= starts[j]
        BY <1>3, <1>5 DEF Laid
      <4>2. l + 1 \in 1..l + 1 /\ (k + 1 = l + 1 \/ k + 1 < l + 1)
        BY <1>7, <1>9
      <4>3. PICK a \in Nat, b \in Nat : a = starts[k + 1] /\ b = starts[l + 1]
        BY <1>9, <4>1, <4>2
      <4>4. a = b \/ a + 4 <= b
        BY <1>9, <4>1, <4>2, <4>3
      <4> QED BY <4>1, <4>3, <4>4
    <3>2. starts[k + 1] \in Nat /\ Len(composed) \in Nat
      BY <1>3, <1>4, <1>5, <1>9, LenProperties DEF Laid, MultiType
    <3> QED BY <1>1, <1>5, <1>13, <3>1, <3>2
  <2>2. ArrivedKept'
    <3> SUFFICES ASSUME NEW i \in 1..l, Arrived(records[i]),
                        records[i].number = 0 => ~NumberMissing
                 PROVE  /\ records[i].number \in DOMAIN data_dict'
                        /\ data_dict'[records[i].number] = records[i].data
      BY <1>1, <1>5 DEF ArrivedKept, Arrived, NumberMissing
    <3>1. i \in 1..k - 1
      <4>1. k \in 1..Len(records) + 1 /\ k <= Len(records) /\ i \in 1..Len(records)
        BY <1>5, <1>7
      <4>2. starts[k + 1] > Len(payload)
        BY <1>5, <1>13
      <4> QED BY <1>3, <1>4, <4>1, <4>2, NotArrived
    <3>2. records[i].number # action_num
      BY <1>10, <1>13, <3>1
    <3> QED BY <1>11, <3>1, <3>2
  <2>3. offset' >= Len(payload')
    BY <1>1, <1>5, <1>13
  <2> QED BY <1>1, <1>4, <1>7, <2>1, <2>2, <2>3 DEF Loop
<1>14. Loop(starts)'
  BY <1>7, <1>12, <1>13
<1> QED
  BY <1>1, <1>2, <1>4, <1>7, <1>14 DEF MultiInv

(* The loop ends where nothing is left. *)
LEMMA MultiInvReturn ==
  ASSUME MultiInv, Return
  PROVE  MultiInv'
<1>1. /\ UNCHANGED <<asked, told, records, composed, payload, offset, data_dict>>
      /\ call = "reading" /\ call' = "returned" /\ offset >= Len(payload)
  BY DEF Return
<1>2. NumbersDiffer' /\ MultiType' /\ Collected' = told'
  BY <1>1 DEF MultiInv, MultiType, NumbersDiffer, Collected
<1>3. PICK starts : Laid(starts) /\ Loop(starts)
  BY DEF MultiInv
<1>4. Laid(starts)'
  BY <1>1, <1>3 DEF Laid
<1>5. Received' /\ offset' \in Nat /\ offset' >= Len(payload')
  BY <1>1, <1>3 DEF Loop, Received
<1>6. \/ \E k : ReadTo(starts, k)'
      \/ Len(payload') < Len(composed') /\ offset' >= Len(payload') /\ ArrivedKept'
  <2>1. ASSUME NEW k, ReadTo(starts, k)
        PROVE  ReadTo(starts, k)'
    BY <1>1, <2>1 DEF ReadTo
  <2>2. ArrivedKept => ArrivedKept'
    BY <1>1 DEF ArrivedKept, Arrived, NumberMissing
  <2> QED BY <1>1, <1>3, <2>1, <2>2 DEF Loop
<1>7. Loop(starts)'
  BY <1>5, <1>6 DEF Loop
<1> QED
  BY <1>2, <1>4, <1>7 DEF MultiInv

(* The next result begins empty. *)
LEMMA MultiInvNext ==
  ASSUME MultiInv, NextResult
  PROVE  MultiInv'
<1>1. told' = told /\ records' = <<>> /\ composed' = Header /\ call' = "idle"
  BY DEF NextResult
<1>2. /\ records' \in Seq(RecordType) /\ composed' \in Seq(Byte)
      /\ NumbersDiffer'
  BY <1>1 DEF Header, Byte, NumbersDiffer
<1>3. Laid([i \in 1..1 |-> 5])'
  <2>1. Len(composed') = 5 /\ Len(records') = 0
    BY <1>1 DEF Header
  <2> QED BY <2>1 DEF Laid
<1>4. MultiType'
  BY <1>1, <1>2 DEF MultiInv, MultiType
<1> QED
  BY <1>1, <1>2, <1>3, <1>4 DEF MultiInv, Loop

(* Every step keeps the invariant. *)
LEMMA MultiInvStep ==
  ASSUME LengthsFit, MultiInv, [MultiNext]_multiVars
  PROVE  MultiInv'
<1>1. CASE UNCHANGED multiVars
  <2>1. UNCHANGED <<asked, told, records, composed, call, payload, offset, data_dict>>
    BY <1>1 DEF multiVars, readVars
  <2>2. NumbersDiffer' /\ MultiType' /\ (call' \in {"reading", "returned"} => Collected' = told')
    BY <2>1 DEF MultiInv, MultiType, NumbersDiffer, Collected
  <2>3. PICK starts : Laid(starts) /\ Loop(starts)
    BY DEF MultiInv
  <2>4. Laid(starts)'
    BY <2>1, <2>3 DEF Laid
  <2>5. Loop(starts)'
    <3>1. ASSUME NEW k, ReadTo(starts, k)
          PROVE  ReadTo(starts, k)'
      BY <2>1, <3>1 DEF ReadTo
    <3>2. ArrivedKept => ArrivedKept'
      BY <2>1 DEF ArrivedKept, Arrived, NumberMissing
    <3>3. Received => Received'
      BY <2>1 DEF Received
    <3> QED BY <2>1, <2>3, <3>1, <3>2, <3>3 DEF Loop
  <2> QED BY <2>2, <2>4, <2>5 DEF MultiInv
<1> QED
  BY <1>1, MultiInvSwitch, MultiInvAdd, MultiInvReceive, MultiInvRead, MultiInvReturn,
     MultiInvNext DEF MultiNext

-----------------------------------------------------------------------------
(* For every set of actions, every data of less than 32768 bytes each and   *)
(* every result, whole or not: getMultiResults returns for each action the  *)
(* device was told to collect the data it sent, and nothing else; and of a  *)
(* result that lacks its last bytes, the data of every record that has      *)
(* arrived, but that of action 0 if a number is missing                     *)
(* (ksoc_connection.py:327-340).                                            *)
THEOREM ResultsReadBack ==
  ASSUME LengthsFit
  PROVE  MultiSpec => []ResultsAsSent
<1>1. MultiInit => MultiInv
  BY MultiInvInit
<1>2. MultiInv /\ [MultiNext]_multiVars => MultiInv'
  BY MultiInvStep
<1>3. MultiInv => ResultsAsSent
  <2> SUFFICES ASSUME MultiInv, call = "returned"
               PROVE  /\ payload = composed => DOMAIN data_dict = told
                      /\ ArrivedKept
    <3>1. DOMAIN records = 1..Len(records)
      BY DEF MultiInv, MultiType
    <3> QED BY <3>1 DEF ResultsAsSent, ArrivedKept
  <2>1. PICK starts : Laid(starts) /\ Loop(starts)
    BY DEF MultiInv
  <2>2. Received /\ offset >= Len(payload) /\ MultiType
    BY <2>1 DEF Loop, MultiInv
  <2>3. PICK l \in Nat, c \in Nat, m \in Nat :
          l = Len(records) /\ c = Len(payload) /\ m = Len(composed)
    BY <2>2, LenProperties DEF Received, MultiType
  <2>4. CASE c < m /\ ArrivedKept
    <3>1. payload # composed
      BY <2>3, <2>4
    <3> QED BY <2>4, <3>1
  <2>5. CASE \E k : ReadTo(starts, k)
    <3>1. PICK k : ReadTo(starts, k)
      BY <2>5
    <3>2. /\ k \in 1..l + 1 /\ starts[k] >= c /\ starts \in [1..l + 1 -> Nat]
          /\ starts[l + 1] = m
          /\ \A i, j \in 1..l + 1 : i < j => starts[i] + 4 <= starts[j]
          /\ DOMAIN data_dict = {records[j].number : j \in 1..k - 1}
          /\ \A j \in 1..k - 1 : data_dict[records[j].number] = records[j].data
      BY <2>1, <2>2, <2>3, <3>1 DEF ReadTo, Laid
    <3>3. ASSUME payload = composed PROVE DOMAIN data_dict = told
      <4>1. ASSUME k # l + 1 PROVE FALSE
        <5>1. l + 1 \in 1..l + 1 /\ k < l + 1
          BY <3>2, <4>1
        <5>2. starts[k] + 4 <= starts[l + 1]
          BY <3>2, <5>1
        <5>3. starts[k] \in Nat /\ m = c
          BY <2>3, <3>2, <3>3
        <5> QED BY <3>2, <5>2, <5>3
      <4>2. k - 1 = l
        BY <4>1
      <4>3. Collected = told /\ DOMAIN records = 1..l
        BY <2>3 DEF MultiInv, MultiType
      <4> QED BY <3>2, <4>2, <4>3 DEF Collected
    <3>4. ArrivedKept
      <4> SUFFICES ASSUME NEW i \in 1..Len(records), Arrived(records[i])
                   PROVE  /\ records[i].number \in DOMAIN data_dict
                          /\ data_dict[records[i].number] = records[i].data
        BY DEF ArrivedKept
      <4>1. k \in 1..Len(records) + 1 /\ starts[k] >= Len(payload)
        BY <2>3, <3>2
      <4>2. i \in 1..k - 1
        BY <2>1, <2>2, <4>1, NotArrived
      <4> QED BY <3>2, <4>2
    <3> QED BY <3>3, <3>4
  <2> QED BY <2>1, <2>3, <2>4, <2>5 DEF Loop
<1> QED
  BY <1>1, <1>2, <1>3, PTL DEF MultiSpec

-----------------------------------------------------------------------------
(* Making a request.                                                        *)

(* Writing bytes into a payload from place m on changes these bytes only. *)
LEMMA AssignIs ==
  ASSUME NEW p \in Seq(Byte), NEW b \in Seq(Byte), NEW m \in Nat, m + Len(b) <= Len(p)
  PROVE  LET q == Assign(p, m, b)
         IN  /\ q \in Seq(Byte) /\ Len(q) = Len(p)
             /\ \A i \in 1..Len(b) : q[m + i] = b[i]
             /\ \A i \in 1..m : q[i] = p[i]
<1>1. PICK l \in Nat : l = Len(p)
  BY LenProperties
<1>2. PICK k \in Nat : k = Len(b)
  BY LenProperties
<1>3. m + k \in Nat /\ m + k <= l /\ m <= l
  BY <1>1, <1>2
<1>4. PICK a : a = SubSeq(p, 1, m)
  OBVIOUS
<1>5. a \in Seq(Byte) /\ Len(a) = m /\ \A i \in 1..m : a[i] = p[i]
  <2>1. \A i \in 1..m : p[i] \in Byte
    BY <1>1, <1>3, ElementOfSeq
  <2> QED BY <1>3, <1>4, <2>1, SubSeqProperties
<1>6. PICK c \in Seq(Byte) : c = From(p, m + k) /\ Len(c) = l - (m + k)
  BY <1>1, <1>3, FromIs
<1>7. PICK d : d = a \o b
  OBVIOUS
<1>8. /\ d \in Seq(Byte) /\ Len(d) = m + k
      /\ \A i \in 1..m : d[i] = a[i]
      /\ \A i \in 1..k : d[m + i] = b[i]
  <2>1. IsJoin(d, a, b)
    BY <1>5, <1>7, Joined
  <2> QED BY <1>2, <1>5, <2>1 DEF IsJoin
<1>9. PICK q : q = d \o c
  OBVIOUS
<1>10. q \in Seq(Byte) /\ Len(q) = l /\ \A i \in 1..m + k : q[i] = d[i]
  <2>1. IsJoin(q, d, c)
    BY <1>8, <1>9, Joined
  <2>2. (m + k) + (l - (m + k)) = l
    BY <1>3
  <2> QED BY <1>6, <1>8, <2>1, <2>2 DEF IsJoin
<1>12. \A i \in 1..m : q[i] = p[i]
  <2> TAKE i \in 1..m
  <2>1. i \in 1..m + k
    BY <1>3
  <2> QED BY <1>5, <1>8, <1>10, <2>1
<1>13. \A i \in 1..k : q[m + i] = b[i]
  <2> TAKE i \in 1..k
  <2>1. m + i \in 1..m + k
    BY <1>3
  <2> QED BY <1>8, <1>10, <2>1
<1>14. q = Assign(p, m, b)
  <2>1. Slice(p, 0, m) = a
    BY <1>1, <1>3, <1>4 DEF Slice
  <2> QED BY <1>2, <1>6, <1>7, <1>9, <2>1 DEF Assign
<1> QED
  BY <1>1, <1>2, <1>10, <1>12, <1>13, <1>14

(* Two bytes say one number. *)
LEMMA Bytes2Are ==
  ASSUME NEW n \in TwoBytes
  PROVE  Bytes2(n) \in Seq(Byte) /\ Len(Bytes2(n)) = 2
         /\ 256 * Bytes2(n)[1] + Bytes2(n)[2] = n
<1>1. n \in Nat /\ n < 256 * 256
  BY DEF TwoBytes
<1>2. PICK h \in Int : h = n \div 256
  BY <1>1
<1>3. PICK j \in Int : j = n % 256
  BY <1>1
<1>4. 256 * h + j = n /\ 0 <= j /\ j < 256 /\ 0 <= h /\ h < 256
  BY <1>1, <1>2, <1>3
<1>5. h \in Byte /\ j \in Byte
  BY <1>4 DEF Byte
<1> QED
  BY <1>2, <1>3, <1>4, <1>5 DEF Bytes2

(* And four bytes do. *)
LEMMA Bytes4Are ==
  ASSUME NEW n \in FourBytes
  PROVE  /\ Bytes4(n) \in Seq(Byte) /\ Len(Bytes4(n)) = 4
         /\ \A m \in FourBytes : (\A i \in 1..4 : Bytes4(m)[i] = Bytes4(n)[i]) => m = n
<1> DEFINE w == 256 * 256
           Split(m) == /\ m \in Nat
                       /\ m \div w \in TwoBytes /\ m % w \in TwoBytes
                       /\ m = w * (m \div w) + (m % w)
<1>1. ASSUME NEW m \in FourBytes
      PROVE  Split(m)
  <2>1. m \in Nat /\ m \div w \in TwoBytes
    BY DEF FourBytes
  <2>2. m % w \in Nat /\ m % w < w /\ m = w * (m \div w) + (m % w)
    BY <2>1
  <2> QED BY <2>1, <2>2 DEF TwoBytes
<1>2. ASSUME NEW m \in FourBytes
      PROVE  /\ Bytes4(m) \in Seq(Byte) /\ Len(Bytes4(m)) = 4
             /\ Bytes4(m)[1] = Bytes2(m \div w)[1] /\ Bytes4(m)[2] = Bytes2(m \div w)[2]
             /\ Bytes4(m)[3] = Bytes2(m % w)[1] /\ Bytes4(m)[4] = Bytes2(m % w)[2]
  <2>1. PICK a : a = Bytes2(m \div w)
    OBVIOUS
  <2>2. PICK b : b = Bytes2(m % w)
    OBVIOUS
  <2>3. a \in Seq(Byte) /\ Len(a) = 2 /\ b \in Seq(Byte) /\ Len(b) = 2
    BY <1>1, <2>1, <2>2, Bytes2Are
  <2>4. PICK c : c = a \o b
    OBVIOUS
  <2>5. /\ c \in Seq(Byte) /\ Len(c) = 2 + 2
        /\ \A i \in 1..2 : c[i] = a[i]
        /\ \A i \in 1..2 : c[2 + i] = b[i]
    <3>1. IsJoin(c, a, b)
      BY <2>3, <2>4, Joined
    <3> QED BY <2>3, <3>1 DEF IsJoin
  <2>6. c[1] = a[1] /\ c[2] = a[2] /\ c[3] = b[1] /\ c[4] = b[2]
    BY <2>5
  <2> QED BY <2>1, <2>2, <2>4, <2>5, <2>6 DEF Bytes4
<1>3. ASSUME NEW m \in FourBytes, \A i \in 1..4 : Bytes4(m)[i] = Bytes4(n)[i]
      PROVE  m = n
  <2>1. /\ Bytes4(m)[1] = Bytes4(n)[1] /\ Bytes4(m)[2] = Bytes4(n)[2]
        /\ Bytes4(m)[3] = Bytes4(n)[3] /\ Bytes4(m)[4] = Bytes4(n)[4]
    BY <1>3
  <2>2. /\ Bytes2(m \div w)[1] = Bytes2(n \div w)[1] /\ Bytes2(m \div w)[2] = Bytes2(n \div w)[2]
        /\ Bytes2(m % w)[1] = Bytes2(n % w)[1] /\ Bytes2(m % w)[2] = Bytes2(n % w)[2]
    BY <1>2, <2>1
  <2>3. m \div w = n \div w /\ m % w = n % w
    BY <1>1, <2>2, Bytes2Are
  <2> QED BY <1>1, <2>3
<1> QED
  BY <1>2, <1>3

(* The value of each field of settings, as bytes. *)
LEMMA SettingsAreBytes ==
  ASSUME NEW s \in Settings
  PROVE  /\ Len(s.reg_address) \in Nat /\ Interrupt(s) \in Byte
         /\ \A k \in 1..Len(s.reg_address) : s.reg_address[k] \in FourBytes
         /\ RegisterBytes(s) \in Seq(Byte)
         /\ Len(RegisterBytes(s)) = 4 * Len(s.reg_address)
         /\ \A k \in 1..Len(s.reg_address), i \in 1..4 :
              RegisterBytes(s)[4 * (k - 1) + i] = Bytes4(s.reg_address[k])[i]
<1>1. IsSettings(s)
  BY MultiResultsAssumption
<1>2. PICK reg \in Seq(FourBytes) : reg = s.reg_address
  BY <1>1 DEF IsSettings
<1>3. PICK l \in Nat : l = Len(reg)
  BY LenProperties
<1>4. \A k \in 1..l : reg[k] \in FourBytes
  BY <1>3, ElementOfSeq
<1>5. Interrupt(s) \in Byte
  <2>1. PICK r \in Nat : r = s.read_interrupt
    BY <1>1 DEF IsSettings
  <2>2. r % 2 \in 0..1
    BY <2>1
  <2>3. Interrupt(s) \in {0, 16, 32}
    BY <2>1, <2>2 DEF Interrupt
  <2> QED BY <2>3 DEF Byte
<1>6. PICK b : b = RegisterBytes(s)
  OBVIOUS
<1>7. b = [i \in 1..4 * l |-> Bytes4(reg[((i - 1) \div 4) + 1])[((i - 1) % 4) + 1]]
  BY <1>2, <1>3, <1>6 DEF RegisterBytes
<1>8. ASSUME NEW i \in 1..4 * l
      PROVE  Bytes4(reg[((i - 1) \div 4) + 1])[((i - 1) % 4) + 1] \in Byte
  <2>1. PICK k \in Int : k = ((i - 1) \div 4) + 1
    BY <1>3
  <2>2. PICK j \in Int : j = ((i - 1) % 4) + 1
    BY <1>3
  <2>3. i \in Nat /\ 1 <= i /\ i <= 4 * l
    BY <1>3
  <2>4. k \in 1..l /\ j \in 1..4
    BY <2>1, <2>2, <2>3
  <2>5. reg[k] \in FourBytes
    BY <1>4, <2>4
  <2>6. Bytes4(reg[k]) \in Seq(Byte) /\ Len(Bytes4(reg[k])) = 4
    BY <2>5, Bytes4Are
  <2>7. Bytes4(reg[k])[j] \in Byte
    BY <2>4, <2>6, ElementOfSeq
  <2> QED BY <2>1, <2>2, <2>7
<1>9. b \in Seq(Byte) /\ Len(b) = 4 * l
  <2>1. 4 * l \in Nat
    BY <1>3
  <2>2. b \in [1..4 * l -> Byte]
    BY <1>7, <1>8
  <2> QED BY <2>1, <2>2
<1>10. ASSUME NEW k \in 1..l, NEW i \in 1..4
       PROVE  b[4 * (k - 1) + i] = Bytes4(reg[k])[i]
  <2>1. PICK n \in Int : n = 4 * (k - 1) + i
    BY <1>3
  <2>2. n \in 1..4 * l
    BY <1>3, <2>1
  <2>3. (n - 1) \div 4 = k - 1 /\ (n - 1) % 4 = i - 1
    BY <1>3, <2>1
  <2>4. ((n - 1) \div 4) + 1 = k /\ ((n - 1) % 4) + 1 = i
    BY <1>3, <2>3
  <2>5. b[n] = Bytes4(reg[((n - 1) \div 4) + 1])[((n - 1) % 4) + 1]
    BY <1>7, <2>2
  <2> QED BY <2>1, <2>4, <2>5
<1> QED
  BY <1>2, <1>3, <1>4, <1>5, <1>6, <1>9, <1>10

(* Where the offset is after each field. *)
AfterRawSize(s)   == 5 + (IF Wants(s, 1) THEN 2 ELSE 0)
AfterChannels(s)  == AfterRawSize(s) + (IF Wants(s, 2) THEN 1 ELSE 0)
AfterRegisters(s) ==
  AfterChannels(s) + (IF Wants(s, 4) THEN 4 * (Len(s.reg_address) + 1) ELSE 0)

(* bytes are in p after its first m. *)
Holds(p, m, bytes) == \A i \in 1..Len(bytes) : p[m + i] = bytes[i]

(* Every field that is asked for is in its place. *)
Tells(p, s) ==
  /\ Holds(p, 1, Bytes4(s.actions))
  /\ Wants(s, 1) => Holds(p, 5, Bytes2(s.raw_size))
  /\ Wants(s, 2) => Holds(p, AfterRawSize(s), <<s.ch_of_RBank>>)
  /\ Wants(s, 4) => /\ Holds(p, AfterChannels(s), Bytes2(Len(s.reg_address)))
                    /\ Holds(p, AfterChannels(s) + 3, <<Interrupt(s)>>)
                    /\ Holds(p, AfterChannels(s) + 4, RegisterBytes(s))
  /\ Wants(s, 8) => Holds(p, AfterRegisters(s), Bytes2(s.frame_setting))

(* The payload of n bytes has been written as far as the offset, m. *)
Written(done, n, m) ==
  done.payload \in Seq(Byte) /\ Len(done.payload) = n /\ done.offset = m

(* What is written up to the offset stays as it is. *)
Kept(done, next, m) == \A i \in 1..m : next.payload[i] = done.payload[i]

(* One byte. *)
LEMMA HoldsOne ==
  ASSUME NEW p, NEW m \in Nat, NEW b
  PROVE  Holds(p, m, <<b>>) => p[m + 1] = b
<1>1. Len(<<b>>) = 1 /\ <<b>>[1] = b
  OBVIOUS
<1> QED
  BY <1>1 DEF Holds

(* And what it holds it still holds afterwards. *)
LEMMA HoldsStill ==
  ASSUME NEW done, NEW next, NEW m \in Nat, NEW k \in Nat, NEW bytes \in Seq(Byte),
         Kept(done, next, k), m + Len(bytes) <= k, Holds(done.payload, m, bytes)
  PROVE  Holds(next.payload, m, bytes)
<1>1. PICK l \in Nat : l = Len(bytes)
  BY LenProperties
<1>2. \A i \in 1..l : m + i \in 1..k
  BY <1>1
<1> QED
  BY <1>1, <1>2 DEF Kept, Holds

(* Bytes that are written are there, and what was before them stays. *)
LEMMA PutHolds ==
  ASSUME NEW done, NEW n \in Nat, NEW m \in Nat, Written(done, n, m),
         NEW bytes \in Seq(Byte), NEW step \in Nat, Len(bytes) <= step, m + step <= n
  PROVE  LET next == Put(done, bytes, step)
         IN  /\ Written(next, n, m + step)
             /\ Kept(done, next, m)
             /\ Holds(next.payload, m, bytes)
<1>1. PICK p \in Seq(Byte) : p = done.payload /\ Len(p) = n /\ done.offset = m
  BY DEF Written
<1>2. m + Len(bytes) <= Len(p)
  BY <1>1, LenProperties
<1>3. PICK q : q = Assign(p, m, bytes)
  OBVIOUS
<1>4. /\ q \in Seq(Byte) /\ Len(q) = Len(p)
      /\ \A i \in 1..Len(bytes) : q[m + i] = bytes[i]
      /\ \A i \in 1..m : q[i] = p[i]
  BY <1>2, <1>3, AssignIs
<1>5. Put(done, bytes, step) = [payload |-> q, offset |-> m + step]
  BY <1>1, <1>3 DEF Put
<1>6. Put(done, bytes, step).payload = q /\ Put(done, bytes, step).offset = m + step
  BY <1>5
<1> QED
  BY <1>1, <1>4, <1>6 DEF Written, Kept, Holds

(* The number of registers that are asked for fits into its two bytes. *)
LEMMA RegistersFit ==
  ASSUME NEW s \in Settings, Wants(s, 4)
  PROVE  Len(s.reg_address) \in TwoBytes
<1>1. PICK l \in Nat : l = Len(s.reg_address)
  BY SettingsAreBytes
<1>2. RequestLength(s) \in Nat /\ RequestLength(s) < 256 * 256
  BY MultiResultsAssumption DEF IsSettings, TwoBytes
<1>3. l < RequestLength(s)
  <2>1. PICK a \in Nat : a = IF Wants(s, 1) THEN 2 ELSE 0
    OBVIOUS
  <2>2. PICK b \in Nat : b = IF Wants(s, 2) THEN 1 ELSE 0
    OBVIOUS
  <2>3. PICK c \in Nat : c = IF Wants(s, 8) THEN 2 ELSE 0
    OBVIOUS
  <2>4. RequestLength(s) = 5 + a + b + 4 * (l + 1) + c
    BY <1>1, <2>1, <2>2, <2>3 DEF RequestLength
  <2> QED BY <2>4
<1> QED
  BY <1>1, <1>2, <1>3 DEF TwoBytes

(* A payload holds all that is asked for: no field is left out, and none    *)
(* overwritten by a later one.                                              *)
LEMMA PayloadTells ==
  ASSUME NEW s \in Settings
  PROVE  Tells(RequestPayload(s), s)
<1>1. IsSettings(s)
  BY MultiResultsAssumption
<1>2. PICK l \in Nat : l = Len(s.reg_address)
  BY SettingsAreBytes
<1>3. PICK w1 \in BOOLEAN : w1 = Wants(s, 1)
  BY DEF Wants
<1>4. PICK w2 \in BOOLEAN : w2 = Wants(s, 2)
  BY DEF Wants
<1>5. PICK w4 \in BOOLEAN : w4 = Wants(s, 4)
  BY DEF Wants
<1>6. PICK w8 \in BOOLEAN : w8 = Wants(s, 8)
  BY DEF Wants
<1>7. PICK m1 \in Nat : m1 = 5 + (IF w1 THEN 2 ELSE 0) /\ m1 = AfterRawSize(s)
  BY <1>3 DEF AfterRawSize
<1>8. PICK m2 \in Nat : m2 = m1 + (IF w2 THEN 1 ELSE 0) /\ m2 = AfterChannels(s)
  BY <1>4, <1>7 DEF AfterChannels
<1>9. PICK m3 \in Nat : m3 = m2 + (IF w4 THEN 4 * (l + 1) ELSE 0) /\ m3 = AfterRegisters(s)
  <2>1. CASE w4
    <3>1. AfterRegisters(s) = AfterChannels(s) + 4 * (Len(s.reg_address) + 1)
      BY <1>5, <2>1 DEF AfterRegisters
    <3>2. PICK k \in Nat : k = 4 * (l + 1)
      OBVIOUS
    <3>3. AfterRegisters(s) = m2 + k
      BY <1>2, <1>8, <3>1, <3>2
    <3> QED BY <2>1, <3>2, <3>3
  <2>2. CASE ~w4
    BY <1>5, <1>8, <2>2 DEF AfterRegisters
  <2> QED BY <2>1, <2>2
<1>10. PICK n \in Nat : n = m3 + (IF w8 THEN 2 ELSE 0) /\ n = RequestLength(s)
  <2>1. RequestLength(s) = AfterRegisters(s) + (IF Wants(s, 8) THEN 2 ELSE 0)
    BY DEF RequestLength, AfterRegisters, AfterChannels, AfterRawSize
  <2>2. CASE w8
    BY <1>6, <1>9, <2>1, <2>2
  <2>3. CASE ~w8
    BY <1>6, <1>9, <2>1, <2>3
  <2> QED BY <2>2, <2>3
<1>11. /\ Bytes4(s.actions) \in Seq(Byte) /\ Len(Bytes4(s.actions)) = 4
       /\ Bytes2(s.raw_size) \in Seq(Byte) /\ Len(Bytes2(s.raw_size)) = 2
       /\ <<s.ch_of_RBank>> \in Seq(Byte) /\ Len(<<s.ch_of_RBank>>) = 1
       /\ <<Interrupt(s)>> \in Seq(Byte) /\ Len(<<Interrupt(s)>>) = 1
       /\ RegisterBytes(s) \in Seq(Byte) /\ Len(RegisterBytes(s)) = 4 * l
       /\ Bytes2(s.frame_setting) \in Seq(Byte) /\ Len(Bytes2(s.frame_setting)) = 2
  BY <1>1, <1>2, SettingsAreBytes, Bytes2Are, Bytes4Are DEF IsSettings
<1>12. w4 => Bytes2(l) \in Seq(Byte) /\ Len(Bytes2(l)) = 2
  <2> SUFFICES ASSUME w4 PROVE Bytes2(l) \in Seq(Byte) /\ Len(Bytes2(l)) = 2
    OBVIOUS
  <2>1. Wants(s, 4)
    BY <1>5, Zenon
  <2>2. l \in TwoBytes
    BY <1>2, <2>1, RegistersFit
  <2> QED BY <2>2, Bytes2Are
<1>13. PICK d0 : d0 = PutActions(s)
  OBVIOUS
<1>14. Written(d0, n, 5) /\ Holds(d0.payload, 1, Bytes4(s.actions))
  <2>1. PICK b \in Seq(Byte) : b = Bytes4(s.actions) /\ Len(b) = 4
    BY <1>11
  <2>2. PICK p : p = [i \in 1..n |-> 0]
    OBVIOUS
  <2>3. p \in Seq(Byte) /\ Len(p) = n
    BY <2>2 DEF Byte
  <2>4. 1 + Len(b) <= Len(p)
    BY <1>7, <1>8, <1>9, <1>10, <2>1, <2>3
  <2>5. PICK q : q = Assign(p, 1, b)
    OBVIOUS
  <2>6. q \in Seq(Byte) /\ Len(q) = n /\ \A i \in 1..Len(b) : q[1 + i] = b[i]
    BY <2>3, <2>4, <2>5, AssignIs
  <2>7. d0 = [payload |-> q, offset |-> 5]
    BY <1>10, <1>13, <2>1, <2>2, <2>5 DEF PutActions
  <2>8. d0.payload = q /\ d0.offset = 5
    BY <2>7
  <2> QED BY <2>1, <2>6, <2>8 DEF Written, Holds
<1>15. PICK d1 : d1 = PutRawSize(s, d0)
  OBVIOUS
<1>16. /\ Written(d1, n, m1) /\ Kept(d0, d1, 5)
       /\ w1 => Holds(d1.payload, 5, Bytes2(s.raw_size))
  <2>1. CASE w1
    <3>1. d1 = Put(d0, Bytes2(s.raw_size), 2)
      BY <1>3, <1>15, <2>1 DEF PutRawSize
    <3>2. 5 + 2 <= n /\ m1 = 5 + 2
      BY <1>7, <1>8, <1>9, <1>10, <2>1
    <3>3. Len(Bytes2(s.raw_size)) <= 2
      BY <1>11
    <3> QED BY <1>11, <1>14, <3>1, <3>2, <3>3, PutHolds
  <2>2. CASE ~w1
    BY <1>3, <1>7, <1>14, <1>15, <2>2 DEF PutRawSize, Kept
  <2> QED BY <2>1, <2>2
<1>17. PICK d2 : d2 = PutChannels(s, d1)
  OBVIOUS
<1>18. /\ Written(d2, n, m2) /\ Kept(d1, d2, m1)
       /\ w2 => Holds(d2.payload, m1, <<s.ch_of_RBank>>)
  <2>1. CASE w2
    <3>1. d2 = Put(d1, <<s.ch_of_RBank>>, 1)
      BY <1>4, <1>17, <2>1 DEF PutChannels
    <3>2. m1 + 1 <= n /\ m2 = m1 + 1
      BY <1>8, <1>9, <1>10, <2>1
    <3>3. Len(<<s.ch_of_RBank>>) <= 1
      BY <1>11
    <3> QED BY <1>11, <1>16, <3>1, <3>2, <3>3, PutHolds
  <2>2. CASE ~w2
    <3>1. d2 = d1 /\ m2 = m1
      BY <1>4, <1>8, <1>17, <2>2 DEF PutChannels
    <3> QED BY <1>16, <2>2, <3>1 DEF Kept
  <2> QED BY <2>1, <2>2
<1>19. PICK d3 : d3 = PutRegisters(s, d2)
  OBVIOUS
<1>20. /\ Written(d3, n, m3) /\ Kept(d2, d3, m2)
       /\ w4 => /\ Holds(d3.payload, m2, Bytes2(l))
                /\ Holds(d3.payload, m2 + 3, <<Interrupt(s)>>)
                /\ Holds(d3.payload, m2 + 4, RegisterBytes(s))
  <2>1. CASE w4
    <3>1. PICK a : a = Put(d2, Bytes2(l), 3)
      OBVIOUS
    <3>2. PICK b : b = Put(a, <<Interrupt(s)>>, 1)
      OBVIOUS
    <3>3. d3 = Put(b, RegisterBytes(s), 4 * l)
      BY <1>2, <1>5, <1>19, <2>1, <3>1, <3>2 DEF PutRegisters
    <3>4. PICK k : k = 4 * l
      OBVIOUS
    <3>5. /\ k \in Nat /\ m2 + 3 \in Nat /\ m2 + 4 \in Nat /\ (m2 + 3) + 1 = m2 + 4
          /\ m2 + 3 <= n /\ (m2 + 3) + 1 <= n /\ (m2 + 4) + k <= n /\ (m2 + 4) + k = m3
      BY <1>9, <1>10, <2>1, <3>4
    <3>15. Bytes2(l) \in Seq(Byte) /\ Len(Bytes2(l)) = 2
      BY <1>12, <2>1, Zenon
    <3>6. Bytes2(l) \in Seq(Byte) /\ Len(Bytes2(l)) = 2 /\ Len(Bytes2(l)) <= 3
      BY <3>15
    <3>7. /\ Written(a, n, m2 + 3) /\ Kept(d2, a, m2)
          /\ Holds(a.payload, m2, Bytes2(l))
      BY <1>18, <3>1, <3>5, <3>6, PutHolds
    <3>8. Len(<<Interrupt(s)>>) <= 1
      BY <1>11
    <3>9. /\ Written(b, n, m2 + 4) /\ Kept(a, b, m2 + 3)
          /\ Holds(b.payload, m2 + 3, <<Interrupt(s)>>)
      BY <1>11, <3>2, <3>5, <3>7, <3>8, PutHolds
    <3>10. Len(RegisterBytes(s)) <= k
      BY <1>11, <3>4, <3>5
    <3>11. /\ Written(d3, n, m3) /\ Kept(b, d3, m2 + 4)
           /\ Holds(d3.payload, m2 + 4, RegisterBytes(s))
      BY <1>11, <3>3, <3>4, <3>5, <3>9, <3>10, PutHolds
    <3>12. Kept(d2, d3, m2) /\ Kept(a, d3, m2 + 3)
      BY <3>7, <3>9, <3>11 DEF Kept
    <3>13. Holds(d3.payload, m2, Bytes2(l))
      <4>1. m2 + Len(Bytes2(l)) <= m2 + 3
        BY <3>6
      <4> QED BY <3>5, <3>6, <3>7, <3>12, <4>1, HoldsStill
    <3>14. Holds(d3.payload, m2 + 3, <<Interrupt(s)>>)
      <4>1. (m2 + 3) + Len(<<Interrupt(s)>>) <= m2 + 4
        BY <1>11
      <4> QED BY <1>11, <3>5, <3>9, <3>11, <4>1, HoldsStill
    <3> QED BY <3>11, <3>12, <3>13, <3>14
  <2>2. CASE ~w4
    <3>1. d3 = d2 /\ m3 = m2
      BY <1>5, <1>9, <1>19, <2>2 DEF PutRegisters
    <3> QED BY <1>18, <2>2, <3>1 DEF Kept
  <2> QED BY <2>1, <2>2
<1>21. PICK d4 : d4 = PutFrameSetting(s, d3)
  OBVIOUS
<1>22. /\ Kept(d3, d4, m3)
       /\ w8 => Holds(d4.payload, m3, Bytes2(s.frame_setting))
  <2>1. CASE w8
    <3>1. d4 = Put(d3, Bytes2(s.frame_setting), 2)
      BY <1>6, <1>21, <2>1 DEF PutFrameSetting
    <3>2. m3 + 2 <= n
      BY <1>10, <2>1
    <3>3. Len(Bytes2(s.frame_setting)) <= 2
      BY <1>11
    <3> QED BY <1>11, <1>20, <3>1, <3>2, <3>3, PutHolds
  <2>2. CASE ~w8
    <3>1. d4 = d3
      BY <1>6, <1>21, <2>2 DEF PutFrameSetting
    <3> QED BY <2>2, <3>1 DEF Kept
  <2> QED BY <2>1, <2>2
<1>23. RequestPayload(s) = d4.payload
  BY <1>13, <1>15, <1>17, <1>19, <1>21 DEF RequestPayload
<1>24. 5 <= m1 /\ m1 <= m2 /\ m2 <= m3
  BY <1>2, <1>7, <1>8, <1>9
<1>25. Kept(d0, d4, 5) /\ Kept(d1, d4, m1) /\ Kept(d2, d4, m2)
  <2>1. Kept(d2, d4, m2)
    BY <1>20, <1>22, <1>24 DEF Kept
  <2>2. Kept(d1, d4, m1)
    BY <1>18, <1>24, <2>1 DEF Kept
  <2>3. Kept(d0, d4, 5)
    BY <1>16, <1>24, <2>2 DEF Kept
  <2> QED BY <2>1, <2>2, <2>3
<1>26. Holds(d4.payload, 1, Bytes4(s.actions))
  <2>1. 1 + Len(Bytes4(s.actions)) <= 5
    BY <1>11
  <2> QED BY <1>11, <1>14, <1>25, <2>1, HoldsStill
<1>27. w1 => Holds(d4.payload, 5, Bytes2(s.raw_size))
  <2> SUFFICES ASSUME w1 PROVE Holds(d4.payload, 5, Bytes2(s.raw_size))
    OBVIOUS
  <2>1. 5 + Len(Bytes2(s.raw_size)) <= m1
    BY <1>7, <1>11
  <2> QED BY <1>11, <1>16, <1>25, <2>1, HoldsStill
<1>28. w2 => Holds(d4.payload, m1, <<s.ch_of_RBank>>)
  <2> SUFFICES ASSUME w2 PROVE Holds(d4.payload, m1, <<s.ch_of_RBank>>)
    OBVIOUS
  <2>1. m1 + Len(<<s.ch_of_RBank>>) <= m2
    BY <1>8, <1>11
  <2> QED BY <1>11, <1>18, <1>25, <2>1, HoldsStill
<1>29. w4 => /\ Holds(d4.payload, m2, Bytes2(l))
             /\ Holds(d4.payload, m2 + 3, <<Interrupt(s)>>)
             /\ Holds(d4.payload, m2 + 4, RegisterBytes(s))
  <2> SUFFICES ASSUME w4
               PROVE  /\ Holds(d4.payload, m2, Bytes2(l))
                      /\ Holds(d4.payload, m2 + 3, <<Interrupt(s)>>)
                      /\ Holds(d4.payload, m2 + 4, RegisterBytes(s))
    OBVIOUS
  <2>1. m3 = (m2 + 4) + 4 * l /\ m2 + 3 \in Nat /\ m2 + 4 \in Nat
    BY <1>9
  <2>8. Bytes2(l) \in Seq(Byte) /\ Len(Bytes2(l)) = 2
    BY <1>12, Zenon
  <2>9. /\ Holds(d3.payload, m2, Bytes2(l))
        /\ Holds(d3.payload, m2 + 3, <<Interrupt(s)>>)
        /\ Holds(d3.payload, m2 + 4, RegisterBytes(s))
    BY <1>20, Zenon
  <2>2. m2 + Len(Bytes2(l)) <= m3
    BY <2>1, <2>8
  <2>3. (m2 + 3) + Len(<<Interrupt(s)>>) <= m3
    BY <1>11, <2>1
  <2>4. (m2 + 4) + Len(RegisterBytes(s)) <= m3
    BY <1>11, <2>1
  <2>5. Holds(d4.payload, m2, Bytes2(l))
    BY <1>22, <2>2, <2>8, <2>9, HoldsStill
  <2>6. Holds(d4.payload, m2 + 3, <<Interrupt(s)>>)
    <3>1. PICK b : b = <<Interrupt(s)>>
      OBVIOUS
    <3>2. PICK k \in Nat : k = m2 + 3
      BY <2>1
    <3>3. b \in Seq(Byte) /\ k + Len(b) <= m3 /\ Holds(d3.payload, k, b)
      BY <1>11, <2>3, <2>9, <3>1, <3>2
    <3>4. Holds(d4.payload, k, b)
      BY <1>22, <3>3, HoldsStill
    <3> QED BY <3>1, <3>2, <3>4
  <2>7. Holds(d4.payload, m2 + 4, RegisterBytes(s))
    BY <1>11, <1>22, <2>1, <2>4, <2>9, HoldsStill
  <2> QED BY <2>5, <2>6, <2>7
<1> QED
  BY <1>2, <1>3, <1>4, <1>5, <1>6, <1>7, <1>8, <1>9, <1>22, <1>23, <1>26, <1>27, <1>28,
     <1>29 DEF Tells

(* clear_interrupt is 1 only along with read_interrupt, and both are 0 or 1. *)
InterruptsDiffer ==
  \A s \in Settings :
    /\ s.read_interrupt \in {0, 1} /\ s.clear_interrupt \in {0, 1}
    /\ s.read_interrupt = 0 => s.clear_interrupt = 0

(* Registers that differ have different bytes. *)
LEMMA SameRegisters ==
  ASSUME NEW s \in Settings, NEW t \in Settings, NEW p, NEW m \in Nat,
         Len(s.reg_address) = Len(t.reg_address),
         Holds(p, m, RegisterBytes(s)), Holds(p, m, RegisterBytes(t))
  PROVE  s.reg_address = t.reg_address
<1>1. s.reg_address \in Seq(FourBytes) /\ t.reg_address \in Seq(FourBytes)
  BY MultiResultsAssumption DEF IsSettings
<1>2. PICK l \in Nat : l = Len(s.reg_address) /\ l = Len(t.reg_address)
  BY SettingsAreBytes
<1>3. \A i \in 1..4 * l : RegisterBytes(s)[i] = RegisterBytes(t)[i]
  BY <1>2, SettingsAreBytes DEF Holds
<1>4. ASSUME NEW k \in 1..l
      PROVE  s.reg_address[k] = t.reg_address[k]
  <2>1. s.reg_address[k] \in FourBytes /\ t.reg_address[k] \in FourBytes
    BY <1>2, SettingsAreBytes
  <2>2. ASSUME NEW i \in 1..4
        PROVE  Bytes4(s.reg_address[k])[i] = Bytes4(t.reg_address[k])[i]
    <3>1. 4 * (k - 1) + i \in 1..4 * l
      BY <1>2
    <3>2. RegisterBytes(s)[4 * (k - 1) + i] = Bytes4(s.reg_address[k])[i]
      BY <1>2, SettingsAreBytes
    <3>3. RegisterBytes(t)[4 * (k - 1) + i] = Bytes4(t.reg_address[k])[i]
      BY <1>2, SettingsAreBytes
    <3> QED BY <1>3, <3>1, <3>2, <3>3
  <2> QED BY <2>1, <2>2, Bytes4Are
<1> QED
  BY <1>1, <1>2, <1>4, SeqEqual

(* The same number is read from the same two bytes. *)
LEMMA SameTwoBytes ==
  ASSUME NEW p, NEW k \in Nat, NEW m \in TwoBytes, NEW n \in TwoBytes,
         Holds(p, k, Bytes2(m)), Holds(p, k, Bytes2(n))
  PROVE  m = n
<1>1. PICK a, b : a = Bytes2(m) /\ b = Bytes2(n)
  OBVIOUS
<1>2. Len(a) = 2 /\ Len(b) = 2 /\ 256 * a[1] + a[2] = m /\ 256 * b[1] + b[2] = n
  BY <1>1, Bytes2Are
<1>3. a[1] = b[1] /\ a[2] = b[2]
  BY <1>1, <1>2 DEF Holds
<1> QED
  BY <1>2, <1>3

(* So settings that are told in the same bytes ask for the same. *)
LEMMA ToldApart ==
  ASSUME InterruptsDiffer, NEW s \in Settings, NEW t \in Settings,
         NEW p, Tells(p, s), Tells(p, t)
  PROVE  SaySame(s, t)
<1>1. IsSettings(s) /\ IsSettings(t)
  BY MultiResultsAssumption
<1>2. s.actions = t.actions
  <2>1. s.actions \in FourBytes /\ t.actions \in FourBytes
    BY <1>1 DEF IsSettings
  <2>2. Len(Bytes4(s.actions)) = 4 /\ Len(Bytes4(t.actions)) = 4
    BY <2>1, Bytes4Are
  <2>3. \A i \in 1..4 : Bytes4(s.actions)[i] = Bytes4(t.actions)[i]
    BY <2>2 DEF Tells, Holds
  <2> QED BY <2>1, <2>3, Bytes4Are
<1>3. \A bit : Wants(s, bit) <=> Wants(t, bit)
  BY <1>2 DEF Wants
<1>4. Wants(s, 1) => s.raw_size = t.raw_size
  <2> SUFFICES ASSUME Wants(s, 1) PROVE s.raw_size = t.raw_size
    OBVIOUS
  <2>1. Holds(p, 5, Bytes2(s.raw_size)) /\ Holds(p, 5, Bytes2(t.raw_size))
    BY <1>3 DEF Tells
  <2>2. s.raw_size \in TwoBytes /\ t.raw_size \in TwoBytes
    BY <1>1 DEF IsSettings
  <2> QED BY <2>1, <2>2, SameTwoBytes
<1>5. PICK m1 \in Nat : m1 = AfterRawSize(s) /\ m1 = AfterRawSize(t)
  BY <1>3 DEF AfterRawSize
<1>6. Wants(s, 2) => s.ch_of_RBank = t.ch_of_RBank
  <2> SUFFICES ASSUME Wants(s, 2) PROVE s.ch_of_RBank = t.ch_of_RBank
    OBVIOUS
  <2>1. Holds(p, m1, <<s.ch_of_RBank>>) /\ Holds(p, m1, <<t.ch_of_RBank>>)
    BY <1>3, <1>5 DEF Tells
  <2> QED BY <2>1, HoldsOne
<1>7. PICK m2 \in Nat : m2 = AfterChannels(s) /\ m2 = AfterChannels(t)
  <2>1. CASE Wants(s, 2)
    BY <1>3, <1>5, <2>1 DEF AfterChannels
  <2>2. CASE ~Wants(s, 2)
    BY <1>3, <1>5, <2>2 DEF AfterChannels
  <2> QED BY <2>1, <2>2
<1>8. PICK l \in Nat, k \in Nat : l = Len(s.reg_address) /\ k = Len(t.reg_address)
  BY SettingsAreBytes
<1>9. Wants(s, 4) => l = k
  <2> SUFFICES ASSUME Wants(s, 4) PROVE l = k
    OBVIOUS
  <2>1. Holds(p, m2, Bytes2(l)) /\ Holds(p, m2, Bytes2(k))
    BY <1>3, <1>7, <1>8 DEF Tells
  <2>2. l \in TwoBytes
    BY <1>8, RegistersFit
  <2>3. k \in TwoBytes
    BY <1>3, <1>8, RegistersFit
  <2> QED BY <2>1, <2>2, <2>3, SameTwoBytes
<1>10. Wants(s, 4) => s.reg_address = t.reg_address
  <2> SUFFICES ASSUME Wants(s, 4) PROVE s.reg_address = t.reg_address
    OBVIOUS
  <2>1. Holds(p, m2 + 4, RegisterBytes(s)) /\ Holds(p, m2 + 4, RegisterBytes(t))
    BY <1>3, <1>7 DEF Tells
  <2>2. Len(s.reg_address) = Len(t.reg_address) /\ m2 + 4 \in Nat
    BY <1>8, <1>9
  <2> QED BY <2>1, <2>2, SameRegisters
<1>11. Wants(s, 4) => /\ s.read_interrupt = t.read_interrupt
                     /\ s.clear_interrupt = t.clear_interrupt
  <2> SUFFICES ASSUME Wants(s, 4)
               PROVE  /\ s.read_interrupt = t.read_interrupt
                      /\ s.clear_interrupt = t.clear_interrupt
    OBVIOUS
  <2>1. Holds(p, m2 + 3, <<Interrupt(s)>>) /\ Holds(p, m2 + 3, <<Interrupt(t)>>)
    BY <1>3, <1>7 DEF Tells
  <2>2. Interrupt(s) = Interrupt(t)
    BY <2>1 DEF Holds
  <2>3. \A u \in Settings :
          Interrupt(u) = IF u.read_interrupt = 0 THEN 0
                         ELSE IF u.clear_interrupt = 1 THEN 32 ELSE 16
    <3> SUFFICES ASSUME NEW u \in Settings
                 PROVE  Interrupt(u) = IF u.read_interrupt = 0 THEN 0
                                       ELSE IF u.clear_interrupt = 1 THEN 32 ELSE 16
      OBVIOUS
    <3>1. u.read_interrupt \in {0, 1} /\ u.clear_interrupt \in {0, 1}
      BY DEF InterruptsDiffer
    <3>2. 0 % 2 = 0 /\ 1 % 2 = 1
      OBVIOUS
    <3> QED BY <3>1, <3>2 DEF Interrupt
  <2> QED BY <2>2, <2>3 DEF InterruptsDiffer
<1>12. PICK m3 \in Nat : m3 = AfterRegisters(s) /\ m3 = AfterRegisters(t)
  <2>1. CASE Wants(s, 4)
    BY <1>3, <1>7, <1>8, <1>9, <2>1 DEF AfterRegisters
  <2>2. CASE ~Wants(s, 4)
    BY <1>3, <1>7, <2>2 DEF AfterRegisters
  <2> QED BY <2>1, <2>2
<1>13. Wants(s, 8) => s.frame_setting = t.frame_setting
  <2> SUFFICES ASSUME Wants(s, 8) PROVE s.frame_setting = t.frame_setting
    OBVIOUS
  <2>1. Holds(p, m3, Bytes2(s.frame_setting)) /\ Holds(p, m3, Bytes2(t.frame_setting))
    BY <1>3, <1>12 DEF Tells
  <2>2. s.frame_setting \in TwoBytes /\ t.frame_setting \in TwoBytes
    BY <1>1 DEF IsSettings
  <2> QED BY <2>1, <2>2, SameTwoBytes
<1> QED
  BY <1>2, <1>4, <1>6, <1>10, <1>11, <1>13 DEF SaySame

-----------------------------------------------------------------------------
(* Whatever settings of whatever values and numbers of registers the        *)
(* collection is switched with, the requests tell them apart, unless two    *)
(* differ in clear_interrupt alone while read_interrupt is 0                *)
(* (ksoc_connection.py:265-298).                                            *)
THEOREM RequestsAreTold ==
  ASSUME InterruptsDiffer
  PROVE  MultiSpec => []RequestsTellSettings
<1>1. MultiInit => asked \subseteq Settings
  BY DEF MultiInit
<1>2. asked \subseteq Settings /\ [MultiNext]_multiVars => (asked \subseteq Settings)'
  BY DEF MultiNext, SwitchCollection, AddRecord, Receive, ReadRecord, Return, NextResult,
         multiVars, readVars
<1>3. asked \subseteq Settings => RequestsTellSettings
  <2> SUFFICES ASSUME asked \subseteq Settings, NEW s \in asked, NEW t \in asked,
                      RequestPayload(s) = RequestPayload(t)
               PROVE  SaySame(s, t)
    BY DEF RequestsTellSettings
  <2>1. Tells(RequestPayload(s), s) /\ Tells(RequestPayload(s), t)
    BY PayloadTells
  <2> QED BY <2>1, ToldApart
<1> QED
  BY <1>1, <1>2, <1>3, PTL DEF MultiSpec
=============================================================================
