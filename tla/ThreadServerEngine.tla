------------------------- MODULE ThreadServerEngine -------------------------
(***************************************************************************)
(* The event loop engine (engine.py): a thread that reads the port, puts   *)
(* together one packet per read and files it in one of two queues, and the *)
(* operations the caller's thread makes on the engine object.              *)
(*                                                                         *)
(* The thread is "new" until start().  Its loop is split where the two     *)
(* threads can interleave: the test of active, the read, the test of       *)
(* response_cmd and the put are separate steps.  It ends as "exited" when  *)
(* the loop is left, as "crashed" when run() raises.  The reassembly of    *)
(* packets from bytes is the subject of module CDCCollection; here a read  *)
(* yields the first of the whole packets it has taken off the port.        *)
(***************************************************************************)
EXTENDS KKTVComPort

VARIABLES
  thread,                 \* where the engine thread is
  active,                 \* the Event that keeps the loop running
  packet,                 \* the loop's local: <<>> (None) or one packet
  response_cmd,           \* commands whose packets answer a request
  CDC_response_only,      \* queue of packets nobody asked for
  CDC_request_response    \* queue of packets that answer a request

engineVars == <<thread, active, packet, response_cmd,
                CDC_response_only, CDC_request_response>>

ThreadState == {"new", "loop", "recv", "route", "put_request_response",
                "put_response_only", "stopping", "exited", "crashed"}

(* Thread.is_alive() *)
is_alive == thread \notin {"new", "exited", "crashed"}

EngineTypeOK ==
  /\ thread \in ThreadState
  /\ active \in BOOLEAN
  /\ packet \in Seq(Packet)
  /\ response_cmd \subseteq Command
  /\ CDC_response_only \in Seq(Packet)
  /\ CDC_request_response \in Seq(Packet)

EngineInit ==
  /\ thread = "new"
  /\ active = FALSE
  /\ packet = <<>>
  /\ response_cmd = {}
  /\ CDC_response_only = <<>>
  /\ CDC_request_response = <<>>

queueVars == <<response_cmd, CDC_response_only, CDC_request_response>>

-----------------------------------------------------------------------------
(* The engine thread. *)

CheckActive ==
  /\ thread = "loop"
  /\ thread' = IF active THEN "recv" ELSE "exited"
  /\ UNCHANGED <<active, packet, queueVars, portVars>>

RecvNothing ==
  /\ thread = "recv"
  /\ PortRecvNothing
  /\ thread' = "loop"
  /\ UNCHANGED <<active, packet, queueVars>>

(* The composer returns the first packet of what was read and drops what    *)
(* was read after it.                                                       *)
RecvPacket ==
  /\ thread = "recv"
  /\ \E n \in DOMAIN rx : PortRecv(n)
  /\ packet' = <<Head(rx)>>
  /\ thread' = "route"
  /\ UNCHANGED <<active, queueVars>>

(* The read raises: the handler calls stop(), which clears active ...      *)
RecvRaises ==
  /\ thread = "recv"
  /\ PortRecvRaises
  /\ active' = FALSE
  /\ thread' = "stopping"
  /\ UNCHANGED <<packet, queueVars>>

(* ... and joins the very thread it runs on, which raises: the thread dies  *)
(* and porto.close() is never reached.                                      *)
JoinSelf ==
  /\ thread = "stopping"
  /\ thread' = "crashed"
  /\ UNCHANGED <<active, packet, queueVars, portVars>>

(* Bug variant: one queue for everything. *)
RouteToOneQueue ==
  /\ thread = "route"
  /\ thread' = "put_request_response"
  /\ UNCHANGED <<active, packet, queueVars, portVars>>

Route ==
  /\ thread = "route"
  /\ thread' = IF Head(packet).cmd \in response_cmd
               THEN "put_request_response" ELSE "put_response_only"
  /\ UNCHANGED <<active, packet, queueVars, portVars>>

(* packet[3] raises IndexError: nothing in run() catches it. *)
RouteRaises ==
  /\ thread = "route"
  /\ "frame" \in Faults
  /\ thread' = "crashed"
  /\ packet' = <<>>
  /\ UNCHANGED <<active, queueVars, portVars>>

PutRequestResponse ==
  /\ thread = "put_request_response"
  /\ CDC_request_response' = Append(CDC_request_response, Head(packet))
  /\ packet' = <<>>
  /\ thread' = "loop"
  /\ UNCHANGED <<active, response_cmd, CDC_response_only, portVars>>

PutResponseOnly ==
  /\ thread = "put_response_only"
  /\ CDC_response_only' = Append(CDC_response_only, Head(packet))
  /\ packet' = <<>>
  /\ thread' = "loop"
  /\ UNCHANGED <<active, response_cmd, CDC_request_response, portVars>>

EngineThread ==
  \/ CheckActive \/ RecvNothing \/ RecvPacket \/ RecvRaises \/ JoinSelf
  \/ Route \/ RouteRaises \/ PutRequestResponse \/ PutResponseOnly

-----------------------------------------------------------------------------
(* What the caller's thread does to the engine.  start() sets active before *)
(* it starts the thread; a thread can be started only once.                 *)

Start ==
  /\ active' = TRUE
  /\ thread = "new"
  /\ thread' = "loop"
  /\ UNCHANGED <<packet, queueVars>>

StartRaises ==
  /\ active' = TRUE
  /\ thread # "new"
  /\ UNCHANGED <<thread, packet, queueVars>>

(* Bug variant: the command is not registered. *)
RegisterNothing(cmd) ==
  UNCHANGED <<thread, active, packet, queueVars>>

(* send, first half: the command is registered before the data is written. *)
RegisterCommand(cmd) ==
  /\ response_cmd' = response_cmd \cup {cmd}
  /\ UNCHANGED <<thread, active, packet, CDC_response_only, CDC_request_response>>

(* Bug variant: stop does not tell the loop to end. *)
ClearNothing ==
  UNCHANGED <<thread, active, packet, queueVars>>

(* stop, first half. *)
ClearActive ==
  /\ active' = FALSE
  /\ UNCHANGED <<thread, packet, queueVars>>
=============================================================================
