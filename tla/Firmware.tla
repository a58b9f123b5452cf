------------------------------ MODULE Firmware ------------------------------
(***************************************************************************)
(* EXTERNAL.  The KKT device at the far end of the serial line, as the     *)
(* library under src/ksoc_connection uses it: it acts on one request at a  *)
(* time, answers a request with a packet that carries the request's        *)
(* command, and between a SWITCH_COLLECTION_OF_MULTI_RESULTS with actions  *)
(* and the one without it also sends GET_COLLECTION_OF_MULTI_RESULTS       *)
(* packets that nobody asked for.                                          *)
(*                                                                         *)
(* A packet's payload is abstracted to where it comes from: re is the      *)
(* identity of the request it answers or, for a result, of the request     *)
(* that switched the collection on.                                        *)
(***************************************************************************)
EXTENDS Naturals, Sequences

CONSTANTS
  Command,               \* command codes that may cross the line
  DEFAULT,               \* 0x00, "any command" for receiveCDCPacket
  SWITCH_SPI_CHANNEL,    \* sent by connectDevice
  MULTI_RESULTS_SWITCH,  \* 0xAA, SWITCH_COLLECTION_OF_MULTI_RESULTS
  MULTI_RESULTS_GET,     \* 0xAB, GET_COLLECTION_OF_MULTI_RESULTS
  Lossy,                 \* may the line lose a request or an answer?
  MaxResults             \* bound on the results the device emits

NamedCommand ==
  {DEFAULT, SWITCH_SPI_CHANNEL, MULTI_RESULTS_SWITCH, MULTI_RESULTS_GET}

ASSUME CommandAssumption ==
  /\ NamedCommand \subseteq Command
  /\ DEFAULT # SWITCH_SPI_CHANNEL
  /\ MULTI_RESULTS_SWITCH \notin {DEFAULT, SWITCH_SPI_CHANNEL, MULTI_RESULTS_GET}
  /\ MULTI_RESULTS_GET \notin {DEFAULT, SWITCH_SPI_CHANNEL}

ASSUME FirmwareAssumption == Lossy \in BOOLEAN /\ MaxResults \in Nat

VARIABLES
  inbox,     \* requests written to the line, not yet acted upon
  rx,        \* packets in the driver's receive buffer
  session,   \* the request that switched the collection on, 0 when it is off
  emitted    \* number of results sent so far, bounded by MaxResults

firmwareVars == <<inbox, rx, session, emitted>>

-----------------------------------------------------------------------------
Request == [id : Nat, cmd : Command, on : BOOLEAN]
Packet  == [kind : {"answer", "result"}, cmd : Command, re : Nat]

Answer(req) == [kind |-> "answer", cmd |-> req.cmd, re |-> req.id]
Result(s)   == [kind |-> "result", cmd |-> MULTI_RESULTS_GET, re |-> s]

FirmwareTypeOK ==
  /\ inbox \in Seq(Request)
  /\ rx \in Seq(Packet)
  /\ session \in Nat
  /\ emitted \in Nat

FirmwareInit ==
  /\ inbox = <<>>
  /\ rx = <<>>
  /\ session = 0
  /\ emitted = 0

-----------------------------------------------------------------------------
(* The collection is off before the answer to the request that switches it *)
(* off is sent, so no result of that session follows the answer.           *)
SessionAfter(req) ==
  IF req.cmd # MULTI_RESULTS_SWITCH THEN session
  ELSE IF req.on THEN req.id ELSE 0

(* The device carries out its oldest request; the answer may get lost. *)
Act ==
  /\ inbox # <<>>
  /\ inbox' = Tail(inbox)
  /\ session' = SessionAfter(Head(inbox))
  /\ \/ rx' = Append(rx, Answer(Head(inbox)))
     \/ Lossy /\ UNCHANGED rx
  /\ UNCHANGED emitted

(* A request gets lost before the device sees it. *)
LoseRequest ==
  /\ Lossy
  /\ inbox # <<>>
  /\ inbox' = Tail(inbox)
  /\ UNCHANGED <<rx, session, emitted>>

(* The device sends one result of the session that is on. *)
Emit ==
  /\ session # 0
  /\ emitted < MaxResults
  /\ rx' = Append(rx, Result(session))
  /\ emitted' = emitted + 1
  /\ UNCHANGED <<inbox, session>>

FirmwareNext == Act \/ LoseRequest \/ Emit
=============================================================================
