--------------------------- MODULE KKTIntegration ---------------------------
(***************************************************************************)
(* The API layer (ksoc_connection.py) over connection, engine, port and    *)
(* device: the whole system.  One caller's thread makes one API call after *)
(* another; op is the call it is in, or was in last, and status how that   *)
(* call ended.  connectDevice goes on as "switchSPIChannel" once the       *)
(* connection stands, and switching the collection off goes on as          *)
(* "clearQueue" once the device has answered.                              *)
(***************************************************************************)
EXTENDS KKTConnection

CONSTANTS
  RequestCommand,   \* commands of the plain request/response methods, among
                    \* them what setCustomCDCPacket is called with
  MaxConnects,      \* bound on connectDevice calls
  MaxCalls          \* bound on API calls

ASSUME IntegrationAssumption ==
  /\ RequestCommand \subseteq Command
  /\ MaxConnects \in Nat
  /\ MaxCalls \in Nat

VARIABLES
  op,         \* the API call the caller's thread is in, or was in last
  status,     \* how it ended; "pending" while it runs
  connects,   \* connectDevice calls made, bounded by MaxConnects
  calls       \* API calls made, bounded by MaxCalls

apiVars == <<op, status, connects, calls>>
callerVars == <<is_connected, pc, callVars, apiVars>>
vars == <<callerVars, engineVars, portVars>>

(* The calls that wait for the answer to a request. *)
RequestMade == {"request", "switchSPIChannel", "switchOn", "switchOff"}
Op == RequestMade \cup {"none", "connectDevice", "clearQueue", "disconnectDevice",
                        "getMultiResults"}

Status == {"none", "pending", "KKT_SUCCESS", "KKT_ERROR_DRIVER_INIT_FAILED",
           "KKT_ERROR_REQUEST_FAILED", "raised"}

IntegrationTypeOK ==
  /\ op \in Op
  /\ status \in Status
  /\ connects \in Nat
  /\ calls \in Nat

Init ==
  /\ FirmwareInit
  /\ PortInit
  /\ EngineInit
  /\ ConnectionInit
  /\ op = "none"
  /\ status = "none"
  /\ connects = 0
  /\ calls = 0

-----------------------------------------------------------------------------
(* Making a call. *)

Begin(name, place) ==
  /\ pc = "idle"
  /\ calls < MaxCalls
  /\ calls' = calls + 1
  /\ op' = name
  /\ status' = "pending"
  /\ pc' = place
  /\ response' = <<>>
  /\ exception' = "none"
  /\ UNCHANGED <<is_connected, engineVars, portVars>>

connectDevice ==
  /\ Begin("connectDevice", "CreateFile")
  /\ connects < MaxConnects
  /\ connects' = connects + 1
  /\ UNCHANGED <<request, response_only, tries, attempt>>

(* disconnectDevice, also what __exit__ and __del__ call. *)
disconnectDevice ==
  /\ Begin("disconnectDevice", "close")
  /\ UNCHANGED <<request, response_only, tries, attempt, connects>>

(* The methods that send one request and return what its response says. *)
SimpleRequest ==
  /\ Begin("request", "send")
  /\ \E cmd \in RequestCommand : NewRequest(cmd, FALSE)
  /\ UNCHANGED connects

(* switchCollectionOfMultiResults, with some action and with none. *)
SwitchOn ==
  /\ Begin("switchOn", "send")
  /\ NewRequest(MULTI_RESULTS_SWITCH, TRUE)
  /\ UNCHANGED connects

SwitchOff ==
  /\ Begin("switchOff", "send")
  /\ NewRequest(MULTI_RESULTS_SWITCH, FALSE)
  /\ UNCHANGED connects

getMultiResults ==
  /\ Begin("getMultiResults", "listen")
  /\ response_only' = TRUE
  /\ UNCHANGED <<request, tries, attempt, connects>>

-----------------------------------------------------------------------------
(* What the API method does when the connection's method has ended. *)

Finish(result) ==
  /\ pc' = "idle"
  /\ status' = result
  /\ UNCHANGED <<is_connected, callVars, op, connects, calls, engineVars, portVars>>

(* connectDevice, connected: switchSPIChannel(1) outside the try block. *)
SelectChannel ==
  /\ pc = "returned"
  /\ op = "connectDevice"
  /\ op' = "switchSPIChannel"
  /\ pc' = "send"
  /\ NewRequest(SWITCH_SPI_CHANNEL, FALSE)
  /\ UNCHANGED <<is_connected, response, exception, status, connects, calls,
                 engineVars, portVars>>

SameCommand == response[1].cmd = request.cmd

(* The collection is off: drop the results that are queued. *)
ClearResults ==
  /\ pc = "returned"
  /\ op = "switchOff"
  /\ SameCommand
  /\ op' = "clearQueue"
  /\ pc' = "clear"
  /\ UNCHANGED <<is_connected, callVars, status, connects, calls, engineVars, portVars>>

RequestSucceeds ==
  /\ pc = "returned"
  /\ op \in {"request", "switchOn"}
  /\ SameCommand
  /\ Finish("KKT_SUCCESS")

(* getChipID and getFirmwareVersion decode the payload they are sent, which *)
(* raises when it is no UTF-8.                                              *)
DecodeRaises ==
  /\ pc = "returned"
  /\ op = "request"
  /\ SameCommand
  /\ Finish("raised")

RequestFails ==
  /\ pc = "returned"
  /\ op \in {"request", "switchOn", "switchOff"}
  /\ ~SameCommand
  /\ Finish("KKT_ERROR_REQUEST_FAILED")

(* The status of switchSPIChannel is dropped by connectDevice. *)
Succeeds ==
  /\ pc = "returned"
  /\ op \in {"switchSPIChannel", "clearQueue", "disconnectDevice", "getMultiResults"}
  /\ Finish("KKT_SUCCESS")

DriverFails ==
  /\ pc = "raised"
  /\ op \in {"connectDevice", "disconnectDevice"}
  /\ Finish("KKT_ERROR_DRIVER_INIT_FAILED")

Propagates ==
  /\ pc = "raised"
  /\ op \notin {"connectDevice", "disconnectDevice"}
  /\ Finish("raised")

-----------------------------------------------------------------------------
Call == connectDevice \/ disconnectDevice \/ SimpleRequest \/ SwitchOn
        \/ SwitchOff \/ getMultiResults

ApiStep == SelectChannel \/ ClearResults \/ RequestSucceeds \/ RequestFails
           \/ DecodeRaises \/ Succeeds \/ DriverFails \/ Propagates

CallerStep == (ConnectionStep /\ UNCHANGED apiVars) \/ ApiStep

EngineStep == EngineThread /\ UNCHANGED callerVars

DeviceStep == FirmwareNext /\ UNCHANGED <<callerVars, engineVars, handle>>

(* The program has ended: all calls made, none under way. *)
Terminated == calls = MaxCalls /\ pc = "idle" /\ UNCHANGED vars

Next == Call \/ CallerStep \/ EngineStep \/ DeviceStep \/ Terminated

Spec == Init /\ [][Next]_vars

(* Both threads are scheduled; making a call is the user's choice.  A write *)
(* is not fair: it has no time out (VComPort.py:48), so it may block for    *)
(* ever on a device that does not read, and with it, as the handle is a     *)
(* synchronous one, the read of the engine thread.                          *)
Fairness == WF_vars(pc # "write" /\ CallerStep) /\ WF_vars(pc # "write" /\ EngineStep)

FairSpec == Spec /\ Fairness
-----------------------------------------------------------------------------
(* What must hold. *)

(* Every variable keeps its type. *)
TypeOK ==
  /\ FirmwareTypeOK /\ PortTypeOK /\ EngineTypeOK
  /\ ConnectionTypeOK /\ IntegrationTypeOK

(* The two queues are kept apart although the engine thread tests           *)
(* response_cmd while the caller's thread adds to it (engine.py:183, 200):  *)
(* an answer is never filed among the packets nobody asked for, and no      *)
(* result gets among the answers unless somebody sent a request with the    *)
(* results' own command.                                                    *)
RoutedByKind ==
  /\ \A i \in DOMAIN CDC_response_only : ~IsAnswer(CDC_response_only[i])
  /\ MULTI_RESULTS_GET \notin response_cmd =>
       \A i \in DOMAIN CDC_request_response : IsAnswer(CDC_request_response[i])

(* A request is written to an open port only.  KKTVComPort.send drops the   *)
(* data of a closed one without an error (VComPort.py:63), so is_connected  *)
(* has to keep such a request from getting that far.                        *)
WriteOnOpen == pc = "write" => handle = "open"

(* The response a request returns is the answer to that very request, not   *)
(* one left over from an earlier request with the same command              *)
(* (connection.py:67 compares commands and nothing else).                   *)
FreshResponse ==
  pc = "returned" /\ op \in RequestMade => response = <<Answer(request)>>

(* After the collection has been switched off successfully no result of it  *)
(* is left anywhere for the next session to find: not in the queue that was *)
(* cleared, nor with the engine thread, nor in the port                     *)
(* (ksoc_connection.py:306).                                                *)
StopDrains ==
  pc = "idle" /\ op = "clearQueue" /\ status = "KKT_SUCCESS"
    => \A s \in {CDC_response_only, packet, rx} :
         \A i \in DOMAIN s : s[i].kind # "result"

(* A disconnect that reports success has released the port                  *)
(* (connection.py:107, "Close connection").                                 *)
PortReleased ==
  pc = "idle" /\ op = "disconnectDevice" /\ status = "KKT_SUCCESS"
    => handle # "open"

(* A request that is given up for want of an answer has been sent again as  *)
(* often as the loop of sendCDCPacketWithResponse says                      *)
(* (connection.py:80-89, "retry {i+1} time", "retry timeout").              *)
RetriedUntilGivenUp ==
  pc = "raised" /\ ~response_only /\ exception \in {"response_timeout", "retry_timeout"}
    => tries = SendAttempts

(* Connecting fails only when the port cannot be had: with no fault and no  *)
(* connection standing, connectDevice connects (ksoc_connection.py:75,      *)
(* "Connect to KKT device"), also after a disconnectDevice.                 *)
ReconnectWorks ==
  pc = "idle" /\ op = "connectDevice" /\ ~is_connected /\ Faults = {}
    => status # "KKT_ERROR_DRIVER_INIT_FAILED"

(* No API call waits for ever anywhere but in the write of a request, which *)
(* has no time out: not for an answer that does not come, and not in the    *)
(* join of the engine thread (connection.py:60, engine.py:229).             *)
CallsReturn == pc \notin {"idle", "write"} ~> pc \in {"idle", "write"}
-----------------------------------------------------------------------------
(* Why the safety properties hold: the inductive invariants.                *)

(* The engine thread holds a packet between the read and the put, and only  *)
(* there; so the packet that run() files (engine.py:183-188) is there.      *)
HoldsPacket ==
  thread \in {"route", "put_request_response", "put_response_only"} <=> packet # <<>>

(* The life cycle of handle, thread and is_connected agree: a connection    *)
(* that counts as established, or is about to, has an open port; a thread   *)
(* that is alive belongs to such a connection; and the port is closed only  *)
(* after the thread has ended (engine.py:228-230, 233-234).                 *)
LifeCycle ==
  /\ is_connected \/ pc \in {"PurgeComm", "start", "sleep"} => handle = "open"
  /\ pc = "write" => is_connected
  /\ is_alive => is_connected \/ pc = "sleep"
  /\ pc = "porto.close" => ~is_alive

(* Commands are registered before their requests reach the device, so every *)
(* answer on its way carries a registered command, whatever the threads'    *)
(* interleaving; a packet that is not an answer is a result.                *)
Registered == {r \in Request : r.cmd \in response_cmd}
Arriving   == {p \in Packet : IF IsAnswer(p) THEN p.cmd \in response_cmd
                                             ELSE p.cmd = MULTI_RESULTS_GET}
Unasked    == {p \in Packet : ~IsAnswer(p)}
Asked      == {p \in Arriving : p.cmd \in response_cmd}

Routing ==
  /\ inbox \in Seq(Registered)
  /\ rx \in Seq(Arriving)
  /\ thread = "route" => Head(packet) \in Arriving
  /\ thread = "put_response_only" => Head(packet) \in Unasked
  /\ thread = "put_request_response" => Head(packet) \in Asked
  /\ CDC_response_only \in Seq(Unasked)
  /\ CDC_request_response \in Seq(Asked)
  /\ pc = "write" => request.cmd \in response_cmd

-----------------------------------------------------------------------------
(* Why answers are fresh when the device is prompt.                         *)

(* The call the caller's thread is in tells where it may be.                *)
Places ==
  /\ pc \in {"CreateFile", "PurgeComm", "start", "sleep"} => op = "connectDevice"
  /\ pc \in {"close", "join", "porto.close"} => op = "disconnectDevice"
  /\ pc = "clear" => op = "clearQueue"
  /\ op = "clearQueue" => pc \in {"clear", "returned", "idle"}
  /\ pc \in {"send", "write"} => op \in RequestMade /\ ~response_only
  /\ pc \in {"listen", "receive"} =>
       IF response_only THEN op = "getMultiResults" ELSE op \in RequestMade
  /\ pc = "receive" \/ (pc = "listen" /\ ~response_only) => is_connected
  /\ is_connected \/ pc = "sleep" => thread # "new"

(* Will the engine thread still file what is on its way?                    *)
Working == thread \notin {"stopping", "exited", "crashed"}

AwaitsAnswer == pc \in {"listen", "receive"} /\ ~response_only

NoAnswerIn(s) == \A i \in DOMAIN s : ~IsAnswer(s[i])
OneAnswerIn(s, a) ==
  \E i \in DOMAIN s : s[i] = a /\ \A j \in DOMAIN s : IsAnswer(s[j]) => j = i

NothingUnderWay == inbox = <<>> /\ NoAnswerIn(rx) /\ NoAnswerIn(packet)

(* What is under way is the request at hand or its answer, in one place.    *)
OneUnderWay ==
  /\ inbox # <<>> => /\ inbox = <<request>>
                     /\ NoAnswerIn(rx) /\ NoAnswerIn(packet)
                     /\ CDC_request_response = <<>>
  /\ \/ NoAnswerIn(rx)
     \/ /\ OneAnswerIn(rx, Answer(request))
        /\ NoAnswerIn(packet)
        /\ CDC_request_response = <<>>
  /\ \/ NoAnswerIn(packet)
     \/ packet = <<Answer(request)>> /\ CDC_request_response = <<>>

(* A request leaves nothing behind: when nobody waits for an answer, none   *)
(* is queued, and none is coming that could still be filed.                 *)
Fresh ==
  /\ packet = <<>> \/ packet = <<Head(packet)>>
  /\ MULTI_RESULTS_GET \notin response_cmd
  /\ request.cmd # MULTI_RESULTS_GET
  /\ CDC_request_response # <<>> =>
       CDC_request_response = <<Answer(request)>> /\ AwaitsAnswer
  /\ Working => OneUnderWay /\ (AwaitsAnswer \/ NothingUnderWay)
  /\ AwaitsAnswer /\ pc = "receive" /\ attempt = RecvAttempts =>
       CDC_request_response = <<>> /\ (Working => NothingUnderWay)
  /\ FreshResponse

(* Once the device has carried out the request that switches the collection *)
(* off, results are only ahead of its answer, never behind it.              *)
NoResultIn(s) == \A i \in DOMAIN s : IsAnswer(s[i])

Drained == session = 0 /\ inbox = <<>> /\ NoResultIn(rx) /\ NoResultIn(packet)

AnswerLast(s) ==
  \A i, j \in DOMAIN s : i < j /\ IsAnswer(s[i]) => IsAnswer(s[j])

Drain ==
  /\ op \in {"switchOff", "clearQueue"} =>
       request.cmd = MULTI_RESULTS_SWITCH /\ ~request.on
  /\ op = "switchOff" /\ Working =>
       /\ ~NoAnswerIn(rx) => session = 0 /\ AnswerLast(rx)
       /\ ~NoAnswerIn(packet) => session = 0 /\ NoResultIn(rx)
  /\ op = "switchOff" /\ (CDC_request_response # <<>> \/ pc = "returned") => Drained
  /\ op = "clearQueue" => Drained
  /\ op = "clearQueue" /\ pc \in {"returned", "idle"} => CDC_response_only = <<>>

(* Without the faults that end the engine thread, and with one connection,  *)
(* the thread runs whenever the port is open, so close() sees it alive.     *)
Release ==
  /\ pc \in {"CreateFile", "PurgeComm", "start"} => thread = "new"
  /\ pc = "CreateFile" => handle # "open"
  /\ connects = 0 => thread = "new" /\ pc \notin {"CreateFile", "PurgeComm", "start"}
  /\ is_alive => active \/ pc = "join"
  /\ thread # "stopping"
  /\ handle = "open" => is_alive \/ pc \in {"PurgeComm", "start", "join", "porto.close"}
  /\ op = "disconnectDevice" /\ pc = "returned" => handle # "open"
  /\ PortReleased
=============================================================================
