---------------------------- MODULE KKTConnection ----------------------------
(***************************************************************************)
(* The connection (connection.py) as the caller's thread runs through it:  *)
(* connect, sendCDCPacketWithResponse, receiveCDCPacket, clearQueue and    *)
(* close.  pc is the caller's place; a method ends at pc = "returned" or,  *)
(* with exception set, at pc = "raised", and KKTIntegration goes on from   *)
(* there.                                                                  *)
(***************************************************************************)
EXTENDS ThreadServerEngine

CONSTANTS
  RecvAttempts,   \* attempts of receiveCDCPacket: 10 in the code
  SendAttempts,   \* attempts of sendCDCPacketWithResponse: 100 in the code
  Prompt          \* does the device answer before the caller gives up?

ASSUME ConnectionAssumption ==
  /\ RecvAttempts \in Nat \ {0}
  /\ SendAttempts \in Nat \ {0}
  /\ Prompt \in BOOLEAN

VARIABLES
  is_connected,
  pc,             \* where the caller's thread is
  request,        \* the request last made; its id counts the requests
  response_only,  \* which queue receiveCDCPacket reads
  tries,          \* times the request at hand has been sent
  attempt,        \* gets tried by receiveCDCPacket
  response,       \* what it returned: <<>> or one packet
  exception       \* what a method raised

callVars == <<request, response_only, tries, attempt, response, exception>>

CallerState == {"idle", "CreateFile", "PurgeComm", "start", "sleep", "send",
                "write", "listen", "receive", "clear", "close", "join",
                "porto.close", "returned", "raised"}

Exception == {"none", "port_error", "start_twice", "not_established",
              "response_timeout", "retry_timeout"}

(* The class a raise statement uses; sendCDCPacketWithResponse handles one. *)
ClassOf(e) ==
  IF e \in {"not_established", "response_timeout"} THEN "KKTConnectionException"
  ELSE IF e = "retry_timeout" THEN "TimeoutException"
  ELSE "Exception"

ConnectionTypeOK ==
  /\ is_connected \in BOOLEAN
  /\ pc \in CallerState
  /\ request \in Request
  /\ response_only \in BOOLEAN
  /\ tries \in Nat
  /\ attempt \in 0..RecvAttempts
  /\ response \in Seq(Packet)
  /\ exception \in Exception

ConnectionInit ==
  /\ is_connected = FALSE
  /\ pc = "idle"
  /\ request = [id |-> 0, cmd |-> DEFAULT, on |-> FALSE]
  /\ response_only = FALSE
  /\ tries = 0
  /\ attempt = 0
  /\ response = <<>>
  /\ exception = "none"

Raise(e) ==
  /\ pc' = "raised"
  /\ exception' = e
  /\ UNCHANGED <<is_connected, request, response_only, tries, attempt, response>>

Goto(place) ==
  /\ pc' = place
  /\ UNCHANGED <<is_connected, callVars>>

-----------------------------------------------------------------------------
(* connect: open the port, start the thread, sleep one second. *)

OpenPort ==
  pc = "CreateFile" /\ CreateFile /\ Goto("PurgeComm") /\ UNCHANGED engineVars

OpenPortRaises ==
  /\ pc = "CreateFile"
  /\ CreateFileRaises
  /\ Raise("port_error")
  /\ UNCHANGED engineVars

SetupPort ==
  pc = "PurgeComm" /\ PurgeComm /\ Goto("start") /\ UNCHANGED engineVars

SetupPortRaises ==
  /\ pc = "PurgeComm"
  /\ PurgeCommRaises
  /\ Raise("port_error")
  /\ UNCHANGED engineVars

StartEngine ==
  pc = "start" /\ Start /\ Goto("sleep") /\ UNCHANGED portVars

StartEngineRaises ==
  pc = "start" /\ StartRaises /\ Raise("start_twice") /\ UNCHANGED portVars

Establish ==
  /\ pc = "sleep"
  /\ is_connected' = TRUE
  /\ pc' = "returned"
  /\ UNCHANGED <<callVars, engineVars, portVars>>

-----------------------------------------------------------------------------
(* sendCDCPacketWithResponse and sendCDCPacket. *)

(* Another request: what the caller's thread sets when it makes the call. *)
NewRequest(cmd, on) ==
  /\ request' = [id |-> request.id + 1, cmd |-> cmd, on |-> on]
  /\ response_only' = FALSE
  /\ tries' = 0
  /\ UNCHANGED attempt

NotEstablished ==
  /\ pc \in {"send", "listen"}
  /\ ~is_connected
  /\ Raise("not_established")
  /\ UNCHANGED <<engineVars, portVars>>

(* Bug variant: sendCDCPacket does not look at is_connected. *)
RegisterAnyway ==
  /\ pc = "send"
  /\ RegisterCommand(request.cmd)
  /\ tries' = tries + 1
  /\ pc' = "write"
  /\ UNCHANGED <<is_connected, request, response_only, attempt, response,
                 exception, portVars>>

Register ==
  /\ pc = "send"
  /\ is_connected
  /\ RegisterCommand(request.cmd)
  /\ tries' = tries + 1
  /\ pc' = "write"
  /\ UNCHANGED <<is_connected, request, response_only, attempt, response,
                 exception, portVars>>

Write ==
  pc = "write" /\ PortSend(request) /\ Goto("listen") /\ UNCHANGED engineVars

WriteRaises ==
  pc = "write" /\ PortSendRaises /\ Raise("port_error") /\ UNCHANGED engineVars

-----------------------------------------------------------------------------
(* receiveCDCPacket: at most RecvAttempts gets of half a second each.  A    *)
(* packet of another command is taken off the queue and dropped.            *)

Listen ==
  /\ pc = "listen"
  /\ is_connected
  /\ pc' = "receive"
  /\ attempt' = 0
  /\ UNCHANGED <<is_connected, request, response_only, tries, response,
                 exception, engineVars, portVars>>

(* Bug variant: one attempt too many. *)
WaitingOnceMore == pc = "receive" /\ attempt <= RecvAttempts

Waiting == pc = "receive" /\ attempt < RecvAttempts

RecvQueue == IF response_only THEN CDC_response_only ELSE CDC_request_response

Expected(p) ==
  LET cmd == IF response_only THEN MULTI_RESULTS_GET ELSE request.cmd
  IN  p.cmd = cmd \/ cmd = DEFAULT

(* Bug variant: the packet is looked at but stays queued. *)
Peek ==
  /\ RecvQueue # <<>>
  /\ UNCHANGED <<engineVars, portVars>>

(* Queue.get on the queue that is read. *)
Dequeue ==
  /\ RecvQueue # <<>>
  /\ IF response_only
     THEN /\ CDC_response_only' = Tail(CDC_response_only)
          /\ UNCHANGED CDC_request_response
     ELSE /\ CDC_request_response' = Tail(CDC_request_response)
          /\ UNCHANGED CDC_response_only
  /\ UNCHANGED <<thread, active, packet, response_cmd, portVars>>

GetExpected ==
  /\ Waiting
  /\ Dequeue
  /\ Expected(Head(RecvQueue))
  /\ response' = <<Head(RecvQueue)>>
  /\ pc' = "returned"
  /\ UNCHANGED <<is_connected, request, response_only, tries, attempt, exception>>

GetOther ==
  /\ Waiting
  /\ Dequeue
  /\ ~Expected(Head(RecvQueue))
  /\ attempt' = attempt + 1
  /\ UNCHANGED <<is_connected, pc, request, response_only, tries, response, exception>>

(* Is something on its way that a serving engine thread would still deliver *)
(* as an answer?  Under Prompt the last get does not run out before it is.  *)
IsAnswer(p) == p.kind = "answer"

AnswerComing ==
  /\ thread \in {"loop", "recv", "route", "put_request_response", "put_response_only"}
  /\ \/ inbox # <<>>
     \/ \E i \in DOMAIN rx : IsAnswer(rx[i])
     \/ \E i \in DOMAIN packet : IsAnswer(packet[i])

GetTimesOut ==
  /\ Waiting
  /\ RecvQueue = <<>>
  /\ ~Prompt \/ attempt + 1 < RecvAttempts \/ ~AnswerComing
  /\ attempt' = attempt + 1
  /\ UNCHANGED <<is_connected, pc, request, response_only, tries, response,
                 exception, engineVars, portVars>>

(* Bug variant: every exception is handled. *)
RetriedAlways(e) == ~response_only

(* The attempts are used up.  sendCDCPacketWithResponse sends again after a *)
(* TimeoutException; any other exception leaves it.                         *)
Retried(e) == ~response_only /\ ClassOf(e) = "TimeoutException"

GiveUp ==
  /\ pc = "receive"
  /\ attempt = RecvAttempts
  /\ IF ~Retried("response_timeout") THEN Raise("response_timeout")
     ELSE IF tries < SendAttempts THEN Goto("send")
     ELSE Raise("retry_timeout")
  /\ UNCHANGED <<engineVars, portVars>>

-----------------------------------------------------------------------------
(* clearQueue, on the queue of packets nobody asked for. *)

ClearOne ==
  /\ pc = "clear"
  /\ CDC_response_only # <<>>
  /\ CDC_response_only' = Tail(CDC_response_only)
  /\ UNCHANGED <<is_connected, pc, callVars, thread, active, packet, response_cmd,
                 CDC_request_response, portVars>>

(* Bug variant: clearing stops before the queue is empty. *)
ClearDoneEarly ==
  /\ pc = "clear"
  /\ Goto("returned")
  /\ UNCHANGED <<engineVars, portVars>>

ClearDone ==
  /\ pc = "clear"
  /\ CDC_response_only = <<>>
  /\ Goto("returned")
  /\ UNCHANGED <<engineVars, portVars>>

-----------------------------------------------------------------------------
(* close: stop an engine that is alive, wait for its thread, close the port. *)

CloseAlive ==
  pc = "close" /\ is_alive /\ ClearActive /\ Goto("join") /\ UNCHANGED portVars

CloseDead ==
  /\ pc = "close"
  /\ ~is_alive
  /\ is_connected' = FALSE
  /\ pc' = "returned"
  /\ UNCHANGED <<callVars, engineVars, portVars>>

(* Bug variant: the engine thread is not waited for. *)
JoinNobody ==
  /\ pc = "join"
  /\ Goto("porto.close")
  /\ UNCHANGED <<engineVars, portVars>>

JoinEngine ==
  /\ pc = "join"
  /\ ~is_alive
  /\ Goto("porto.close")
  /\ UNCHANGED <<engineVars, portVars>>

ClosePort ==
  /\ pc = "porto.close"
  /\ PortClose
  /\ is_connected' = FALSE
  /\ pc' = "returned"
  /\ UNCHANGED <<callVars, engineVars>>

ClosePortRaises ==
  /\ pc = "porto.close"
  /\ PortCloseRaises
  /\ Raise("port_error")
  /\ UNCHANGED engineVars

ConnectStep ==
  \/ OpenPort \/ OpenPortRaises \/ SetupPort \/ SetupPortRaises
  \/ StartEngine \/ StartEngineRaises \/ Establish

ExchangeStep ==
  \/ NotEstablished \/ Register \/ Write \/ WriteRaises \/ Listen
  \/ GetExpected \/ GetOther \/ GetTimesOut \/ GiveUp \/ ClearOne \/ ClearDone

CloseStep ==
  CloseAlive \/ CloseDead \/ JoinEngine \/ ClosePort \/ ClosePortRaises

ConnectionStep == ConnectStep \/ ExchangeStep \/ CloseStep
=============================================================================
