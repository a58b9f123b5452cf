---------------------------- MODULE MultiResults ----------------------------
(***************************************************************************)
(* The payloads of the multi results: the request                          *)
(* switchCollectionOfMultiResults makes of its arguments, the result a     *)
(* device composes, and the loop in getMultiResults that takes it apart    *)
(* again (ksoc_connection.py:241-340).  Who waits for which packet, and    *)
(* the queues in between, is KKTIntegration's part.                        *)
(***************************************************************************)
EXTENDS CDCPacket

CONSTANTS
  Settings,    \* arguments switchCollectionOfMultiResults is called with
  Data,        \* data a device may have for an action
  Cuts,        \* bytes of a result that may be missing when it is received
  MaxAsked     \* bound on the settings asked for

(* actions & bit == bit, for the bit that asks for a field of the request *)
Wants(s, bit) == (s.actions \div bit) % 2 = 1

(* payload_length, as it is added up before the payload is written. *)
RequestLength(s) ==
  5 + (IF Wants(s, 1) THEN 2 ELSE 0) + (IF Wants(s, 2) THEN 1 ELSE 0)
    + (IF Wants(s, 4) THEN 4 * (Len(s.reg_address) + 1) ELSE 0)
    + (IF Wants(s, 8) THEN 2 ELSE 0)

(* What four bytes can say. *)
FourBytes == {n \in Nat : n \div (256 * 256) \in TwoBytes}

(* Arguments that fit into a packet; other ones raise. *)
IsSettings(s) ==
  /\ s.actions \in FourBytes
  /\ {s.read_interrupt, s.clear_interrupt} \subseteq Nat
  /\ {s.raw_size, s.frame_setting} \subseteq TwoBytes
  /\ s.ch_of_RBank \in Byte
  /\ s.reg_address \in Seq(FourBytes)
  /\ RequestLength(s) \in TwoBytes

ASSUME MultiResultsAssumption ==
  /\ \A s \in Settings : IsSettings(s)
  /\ \A d \in Data : d \in Seq(Byte) /\ Len(d) \in TwoBytes
  /\ Cuts \subseteq Nat
  /\ MaxAsked \in Nat

VARIABLES
  asked,       \* settings the collection was switched with
  told,        \* the actions the device was told to collect
  records,     \* the result the device composes: its records, where each begins ...
  composed,    \* ... and its bytes
  call,        \* where getMultiResults is
  payload,     \* response.payload
  offset,
  data_dict

readVars == <<call, payload, offset, data_dict>>
multiVars == <<asked, told, records, composed, readVars>>

-----------------------------------------------------------------------------
(* int.to_bytes(2, byteorder='big'), and of 4 bytes *)
Bytes2(n) == <<n \div 256, n % 256>>
Bytes4(n) == Bytes2(n \div (256 * 256)) \o Bytes2(n % (256 * 256))

(* (read & 0b1)<<4 + (clear & 0b1): + binds tighter than <<. *)
Interrupt(s) ==
  (s.read_interrupt % 2) * (IF s.clear_interrupt % 2 = 1 THEN 32 ELSE 16)

(* The four bytes of each register, one after the other. *)
RegisterBytes(s) ==
  [i \in 1..4 * Len(s.reg_address) |->
     Bytes4(s.reg_address[((i - 1) \div 4) + 1])[((i - 1) % 4) + 1]]

(* payload[m:m+len(bytes)] = bytes *)
Assign(data, m, bytes) == Slice(data, 0, m) \o bytes \o From(data, m + Len(bytes))

(* The payload so far; bytes are written and the offset moves on. *)
Put(done, bytes, step) ==
  [payload |-> Assign(done.payload, done.offset, bytes), offset |-> done.offset + step]

PutActions(s) ==
  [payload |-> Assign([i \in 1..RequestLength(s) |-> 0], 1, Bytes4(s.actions)),
   offset |-> 5]

PutRawSize(s, done) ==
  IF Wants(s, 1) THEN Put(done, Bytes2(s.raw_size), 2) ELSE done

(* Bug variant: the offset stays where it is after the channels. *)
PutChannelsOverwritten(s, done) ==
  IF Wants(s, 2) THEN Put(done, <<s.ch_of_RBank>>, 0) ELSE done

PutChannels(s, done) ==
  IF Wants(s, 2) THEN Put(done, <<s.ch_of_RBank>>, 1) ELSE done

(* The offset moves on three bytes for the two of the number of registers. *)
PutRegisters(s, done) ==
  IF Wants(s, 4)
  THEN LET number    == Put(done, Bytes2(Len(s.reg_address)), 3)
           interrupt == Put(number, <<Interrupt(s)>>, 1)
       IN  Put(interrupt, RegisterBytes(s), 4 * Len(s.reg_address))
  ELSE done

PutFrameSetting(s, done) ==
  IF Wants(s, 8) THEN Put(done, Bytes2(s.frame_setting), 2) ELSE done

RequestPayload(s) ==
  PutFrameSetting(s,
    PutRegisters(s, PutChannels(s, PutRawSize(s, PutActions(s))))).payload

(* The request packet, its checksum not yet updated. *)
SwitchRequest(s) ==
  [direction |-> REQUEST, command |-> 170, payload_length |-> RequestLength(s),
   payload |-> RequestPayload(s), checksum |-> 0]

-----------------------------------------------------------------------------
(* Of the device: the actions a request asks for, from its bytes 1 to 4.   *)
ActionsIn(request) ==
  {n \in 0..31 : (request[5 - n \div 8] \div 2 ^ (n % 8)) % 2 = 1}

(* Five bytes before the first record, of which nothing is used. *)
Header == <<0, 0, 0, 0, 0>>

(* A record: a byte, the action's number, the length of its data, the data. *)
Record(r) == <<0, r.number, Len(r.data) \div 256, Len(r.data) % 256>> \o r.data

Collected == {records[i].number : i \in DOMAIN records}

-----------------------------------------------------------------------------
(* int.from_bytes(..., byteorder='big', signed=True) of up to two bytes *)
FromSigned(bytes) ==
  IF bytes = <<>> THEN 0
  ELSE LET high == IF bytes[1] < 128 THEN bytes[1] ELSE bytes[1] - 256
       IN  IF Len(bytes) = 1 THEN high ELSE 256 * high + bytes[2]

(* A bound of a slice: a negative one counts from the end. *)
Bound(data, i) ==
  IF i < 0 THEN (IF i + Len(data) < 0 THEN 0 ELSE i + Len(data))
  ELSE IF i < Len(data) THEN i ELSE Len(data)

(* data[m:n], for any m and n *)
PySlice(data, m, n) == SubSeq(data, Bound(data, m) + 1, Bound(data, n))

action_num  == FromSigned(PySlice(payload, offset + 1, offset + 2))
data_length == FromSigned(PySlice(payload, offset + 2, offset + 4))

(* Bug variant: the data is taken to end where its length says, not counted *)
(* from where it begins.                                                    *)
RecordDataShort == PySlice(payload, offset + 4, offset + data_length)

RecordData == PySlice(payload, offset + 4, offset + 4 + data_length)

(* Bug variant: the four bytes before the data are not passed over. *)
NextOffsetStuck == offset + data_length

NextOffset == offset + 4 + data_length

-----------------------------------------------------------------------------
MultiInit ==
  /\ asked = {}
  /\ told = {}
  /\ records = <<>> /\ composed = Header
  /\ call = "idle" /\ payload = <<>> /\ offset = 0 /\ data_dict = <<>>

(* switchCollectionOfMultiResults.  A result the device has begun goes      *)
(* out first.                                                               *)
SwitchCollection ==
  /\ call = "idle" /\ records = <<>>
  /\ \E s \in Settings :
       /\ asked' = asked \cup {s}
       /\ told' = ActionsIn(get_CDC_packet(CDC_packet(update_checksum(SwitchRequest(s)))).payload)
  /\ Cardinality(asked') <= MaxAsked
  /\ UNCHANGED <<records, composed, readVars>>

(* The device adds a record for one of the actions it collects. *)
AddRecord ==
  /\ call = "idle"
  /\ \E n \in told \ Collected, d \in Data :
       /\ \A m \in told \ Collected : n <= m
       /\ records' = Append(records, [number |-> n, data |-> d, begin |-> Len(composed)])
       /\ composed' = composed \o Record([number |-> n, data |-> d])
  /\ UNCHANGED <<asked, told, readVars>>

(* getMultiResults gets a result with a record of each action.  The         *)
(* composer may have returned it short of its last bytes (engine.py:61).    *)
Receive ==
  /\ call = "idle" /\ told # {} /\ Collected = told
  /\ \E cut \in Cuts :
       /\ cut < Len(composed)
       /\ payload' = SubSeq(composed, 1, Len(composed) - cut)
  /\ call' = "reading" /\ offset' = 5 /\ data_dict' = <<>>
  /\ UNCHANGED <<asked, told, records, composed>>

(* One round of the loop. *)
ReadRecord ==
  /\ call = "reading" /\ offset < Len(payload)
  /\ data_dict' = [n \in DOMAIN data_dict \cup {action_num} |->
                     IF n = action_num THEN RecordData ELSE data_dict[n]]
  /\ offset' = NextOffset
  /\ UNCHANGED <<asked, told, records, composed, call, payload>>

(* The loop ends; data_dict is returned. *)
Return ==
  /\ call = "reading" /\ offset >= Len(payload)
  /\ call' = "returned"
  /\ UNCHANGED <<asked, told, records, composed, payload, offset, data_dict>>

NextResult ==
  /\ call = "returned"
  /\ records' = <<>> /\ composed' = Header
  /\ call' = "idle" /\ payload' = <<>> /\ offset' = 0 /\ data_dict' = <<>>
  /\ UNCHANGED <<asked, told>>

MultiNext ==
  SwitchCollection \/ AddRecord \/ Receive \/ ReadRecord \/ Return \/ NextResult

MultiSpec == MultiInit /\ [][MultiNext]_multiVars

(* The caller's thread runs its loop. *)
FairMultiSpec == MultiSpec /\ WF_multiVars(ReadRecord \/ Return)

-----------------------------------------------------------------------------
(* What a request can say of the settings it is made of. *)
SaySame(s, t) ==
  /\ s.actions = t.actions
  /\ Wants(s, 1) => s.raw_size = t.raw_size
  /\ Wants(s, 2) => s.ch_of_RBank = t.ch_of_RBank
  /\ Wants(s, 4) => /\ s.read_interrupt = t.read_interrupt
                    /\ s.clear_interrupt = t.clear_interrupt
                    /\ s.reg_address = t.reg_address
  /\ Wants(s, 8) => s.frame_setting = t.frame_setting

(* The device can tell from a request all that the caller asked for: two    *)
(* settings that differ make different packets, so no field is lost,        *)
(* overwritten or left out (ksoc_connection.py:265-298).                    *)
RequestsTellSettings ==
  \A s, t \in asked : RequestPayload(s) = RequestPayload(t) => SaySame(s, t)

(* All of a record has been received. *)
Arrived(r) == r.begin + 4 + Len(r.data) <= Len(payload)

(* The payload ends with the first byte of a record.  The number read for   *)
(* this record is then that of no bytes, 0.                                 *)
NumberMissing == \E i \in DOMAIN records : Len(payload) = records[i].begin + 1

(* getMultiResults returns the data of exactly the actions the device       *)
(* collects, each byte for byte as it was sent, whatever the data looks     *)
(* like if they are shorter than 32768 bytes; and of a result that lacks    *)
(* its last bytes, the data of each record that has arrived, but that of    *)
(* action 0 if a number is missing (ksoc_connection.py:318, 330-338).       *)
ResultsAsSent ==
  call = "returned" =>
    /\ payload = composed => DOMAIN data_dict = told
    /\ \A i \in DOMAIN records :
         Arrived(records[i]) /\ (records[i].number = 0 => ~NumberMissing) =>
           /\ records[i].number \in DOMAIN data_dict
           /\ data_dict[records[i].number] = records[i].data

(* The loop ends for every result whose data are shorter than 32768 bytes,  *)
(* one that lacks its last bytes included (ksoc_connection.py:332-338).     *)
(* Longer data have a length that is read as a negative one.                *)
ReadsEnd == call = "reading" ~> call = "returned"
=============================================================================
