------------------------ MODULE KKTIntegrationProofs ------------------------
(***************************************************************************)
(* Theorems about KKTIntegration, for every set of commands, every set of  *)
(* faults and every bound.                                                 *)
(***************************************************************************)
EXTENDS KKTIntegration, SequenceTheorems, TLAPS

-----------------------------------------------------------------------------
(* Type correctness.  The put of the engine thread keeps the queues' types  *)
(* only because the thread holds a packet there, so HoldsPacket is part of  *)
(* the inductive invariant.                                                 *)

TypeInv == TypeOK /\ HoldsPacket

(* Types: the integration as it is constructed. *)
LEMMA TypeInvInit == Init => TypeInv
<1> SUFFICES ASSUME Init PROVE TypeInv
  OBVIOUS
<1> USE DEF Init
<1>1. FirmwareTypeOK /\ PortTypeOK
  BY DEF FirmwareInit, PortInit, FirmwareTypeOK, PortTypeOK
<1>2. EngineTypeOK
  BY EmptySeq DEF EngineInit, EngineTypeOK, ThreadState
<1>5. HoldsPacket
  BY DEF EngineInit, HoldsPacket
<1>3. ConnectionTypeOK
  <2>1. request \in Request
    BY CommandAssumption DEF ConnectionInit, NamedCommand, Request
  <2>2. attempt \in 0..RecvAttempts
    BY ConnectionAssumption DEF ConnectionInit
  <2> QED BY <2>1, <2>2, EmptySeq DEF ConnectionInit, ConnectionTypeOK, CallerState, Exception
<1>4. IntegrationTypeOK
  BY DEF IntegrationTypeOK, Op, RequestMade, Status
<1> QED
  BY <1>1, <1>2, <1>3, <1>4, <1>5 DEF TypeInv, TypeOK

(* What a read of n packets leaves behind. *)
LEMMA RestOfRead ==
  ASSUME NEW S, NEW s \in Seq(S), NEW n \in DOMAIN s, NEW t, t = SubSeq(s, n + 1, Len(s))
  PROVE  /\ t \in Seq(S) /\ s # <<>> /\ Head(s) \in S /\ Head(s) = s[1]
         /\ Len(s) \in Nat \ {0} /\ DOMAIN s = 1..Len(s) /\ n \in 1..Len(s)
         /\ DOMAIN t = 1..(Len(s) - n)
         /\ \A i \in 1..(Len(s) - n) : t[i] = s[n + i]
<1>1. DOMAIN s = 1..Len(s) /\ Len(s) \in Nat \ {0} /\ n \in 1..Len(s) /\ s # <<>>
  BY LenProperties, EmptySeq
<1>2. n + 1 \in Int /\ Len(s) \in Int /\ \A i \in (n + 1)..Len(s) : s[i] \in S
  BY <1>1, ElementOfSeq
<1>3. /\ t \in Seq(S)
      /\ Len(t) = IF n + 1 <= Len(s) THEN Len(s) - (n + 1) + 1 ELSE 0
      /\ \A i \in 1..(Len(s) - (n + 1) + 1) : t[i] = s[n + 1 + i - 1]
  BY <1>2, SubSeqProperties
<1>4. Len(t) = Len(s) - n BY <1>1, <1>3
<1>5. \A i \in 1..(Len(s) - n) : t[i] = s[n + i] BY <1>1, <1>3
<1>6. DOMAIN t = 1..(Len(s) - n) BY <1>3, <1>4, LenProperties
<1>7. Head(s) \in S /\ Head(s) = s[1] BY <1>1, HeadTailProperties
<1> QED
  BY <1>1, <1>3, <1>5, <1>6, <1>7

(* Every step of the engine thread keeps the types. *)
LEMMA TypeInvEngine ==
  ASSUME TypeInv, EngineStep
  PROVE  TypeInv'
<1> USE DEF TypeInv, TypeOK, HoldsPacket, FirmwareTypeOK, PortTypeOK, EngineTypeOK,
            ConnectionTypeOK, IntegrationTypeOK, callerVars, callVars, apiVars,
            portVars, firmwareVars, queueVars, ThreadState
<1>0. UNCHANGED callerVars BY DEF EngineStep
<1>1. CASE CheckActive BY <1>0, <1>1 DEF CheckActive
<1>2. CASE RecvNothing BY <1>0, <1>2 DEF RecvNothing, PortRecvNothing
<1>3. CASE RecvPacket
  <2>1. rx' \in Seq(Packet) /\ Head(rx) \in Packet
    BY <1>3, RestOfRead DEF RecvPacket, PortRecv
  <2>2. UNCHANGED <<handle, inbox, session, emitted, active, queueVars>>
        /\ packet' = <<Head(rx)>> /\ thread' = "route"
    BY <1>3 DEF RecvPacket, PortRecv
  <2> QED BY <1>0, <2>1, <2>2
<1>4. CASE RecvRaises BY <1>0, <1>4 DEF RecvRaises, PortRecvRaises
<1>5. CASE JoinSelf BY <1>0, <1>5 DEF JoinSelf
<1>6. CASE Route BY <1>0, <1>6 DEF Route
<1>7. CASE RouteRaises BY <1>0, <1>7 DEF RouteRaises
<1>8. CASE PutRequestResponse
  <2>0. packet # <<>> BY <1>8 DEF PutRequestResponse
  <2>1. Head(packet) \in Packet BY <2>0
  <2>2. CDC_request_response' \in Seq(Packet)
    BY <1>8, <2>1, AppendProperties DEF PutRequestResponse
  <2> QED BY <1>0, <1>8, <2>2 DEF PutRequestResponse
<1>9. CASE PutResponseOnly
  <2>0. packet # <<>> BY <1>9 DEF PutResponseOnly
  <2>1. Head(packet) \in Packet BY <2>0
  <2>2. CDC_response_only' \in Seq(Packet)
    BY <1>9, <2>1, AppendProperties DEF PutResponseOnly
  <2> QED BY <1>0, <1>9, <2>2 DEF PutResponseOnly
<1> QED
  BY <1>1, <1>2, <1>3, <1>4, <1>5, <1>6, <1>7, <1>8, <1>9
     DEF EngineStep, EngineThread

(* So does every step of the device. *)
LEMMA TypeInvDevice ==
  ASSUME TypeInv, DeviceStep
  PROVE  TypeInv'
<1> USE DEF TypeInv, TypeOK, FirmwareTypeOK
<1>1. UNCHANGED <<callerVars, engineVars, handle>> BY DEF DeviceStep
<1>2. FirmwareTypeOK'
  <2>1. CASE Act
    <3>0. Head(inbox) \in Request BY <2>1 DEF Act
    <3>1. Answer(Head(inbox)) \in Packet BY <3>0 DEF Answer, Packet, Request
    <3>2. session' \in Nat BY <2>1, <3>0 DEF Act, SessionAfter, Request
    <3>3. rx' \in Seq(Packet) BY <2>1, <3>1, AppendProperties DEF Act
    <3> QED BY <2>1, <3>2, <3>3 DEF Act
  <2>2. CASE LoseRequest BY <2>2 DEF LoseRequest
  <2>3. CASE Emit
    <3>1. Result(session) \in Packet
      BY CommandAssumption DEF Result, Packet, NamedCommand
    <3>2. rx' \in Seq(Packet) BY <2>3, <3>1, AppendProperties DEF Emit
    <3> QED BY <2>3, <3>2 DEF Emit
  <2> QED BY <2>1, <2>2, <2>3 DEF DeviceStep, FirmwareNext
<1>3. (PortTypeOK /\ EngineTypeOK /\ HoldsPacket)'
  BY <1>1 DEF engineVars, PortTypeOK, EngineTypeOK, HoldsPacket
<1>4. (ConnectionTypeOK /\ IntegrationTypeOK)'
  BY <1>1 DEF callerVars, callVars, apiVars, ConnectionTypeOK, IntegrationTypeOK
<1> QED
  BY <1>2, <1>3, <1>4

(* So does every step of the connection's methods.                          *)
LEMMA TypeInvConnect ==
  ASSUME TypeInv, ConnectStep, UNCHANGED apiVars
  PROVE  TypeInv'
<1> USE DEF TypeInv, TypeOK, HoldsPacket, FirmwareTypeOK, PortTypeOK, EngineTypeOK,
            ConnectionTypeOK, IntegrationTypeOK, callVars, apiVars, engineVars,
            portVars, firmwareVars, queueVars, CallerState, Exception, Goto, Raise
<1>1. CASE OpenPort BY <1>1 DEF OpenPort, CreateFile
<1>2. CASE OpenPortRaises BY <1>2 DEF OpenPortRaises, CreateFileRaises
<1>3. CASE SetupPort BY <1>3 DEF SetupPort, PurgeComm
<1>4. CASE SetupPortRaises BY <1>4 DEF SetupPortRaises, PurgeCommRaises
<1>5. CASE StartEngine BY <1>5 DEF StartEngine, Start, ThreadState
<1>6. CASE StartEngineRaises BY <1>6 DEF StartEngineRaises, StartRaises
<1>7. CASE Establish BY <1>7 DEF Establish
<1> QED
  BY <1>1, <1>2, <1>3, <1>4, <1>5, <1>6, <1>7 DEF ConnectStep

(* Queue.get takes the head off a queue and leaves the rest as it is. *)
LEMMA DequeueTypes ==
  ASSUME EngineTypeOK, Dequeue
  PROVE  /\ EngineTypeOK'
         /\ RecvQueue \in Seq(Packet) /\ RecvQueue # <<>>
         /\ UNCHANGED <<thread, packet, portVars>>
<1>1. UNCHANGED <<thread, active, packet, response_cmd, portVars>>
  BY DEF Dequeue
<1>2. /\ RecvQueue \in Seq(Packet) /\ RecvQueue # <<>>
      /\ CDC_response_only' \in Seq(Packet)
      /\ CDC_request_response' \in Seq(Packet)
  <2>1. CASE response_only BY <2>1 DEF Dequeue, RecvQueue, EngineTypeOK
  <2>2. CASE ~response_only BY <2>2 DEF Dequeue, RecvQueue, EngineTypeOK
  <2> QED BY <2>1, <2>2
<1> QED
  BY <1>1, <1>2 DEF EngineTypeOK

(* Types: the steps with which the API sends a request and awaits its answer. *)
LEMMA TypeInvExchange ==
  ASSUME TypeInv, ExchangeStep, UNCHANGED apiVars
  PROVE  TypeInv'
<1> USE DEF TypeInv, TypeOK, HoldsPacket, FirmwareTypeOK, PortTypeOK, EngineTypeOK,
            ConnectionTypeOK, IntegrationTypeOK, callVars, apiVars, engineVars,
            portVars, firmwareVars, queueVars, CallerState, Exception, Goto, Raise
<1>1. CASE NotEstablished BY <1>1 DEF NotEstablished
<1>2. CASE Register
  <2>1. response_cmd' \subseteq Command BY <1>2 DEF Register, RegisterCommand, Request
  <2> QED BY <1>2, <2>1 DEF Register, RegisterCommand
<1>3. CASE Write
  <2>1. inbox' \in Seq(Request) BY <1>3, AppendProperties DEF Write, PortSend
  <2> QED BY <1>3, <2>1 DEF Write, PortSend
<1>4. CASE WriteRaises BY <1>4 DEF WriteRaises, PortSendRaises
<1>5. CASE Listen BY <1>5, ConnectionAssumption DEF Listen
<1>6. CASE GetExpected
  <2>1. Dequeue BY <1>6 DEF GetExpected
  <2>2. response' \in Seq(Packet) BY <1>6, <2>1, DequeueTypes DEF GetExpected
  <2> QED BY <1>6, <2>1, <2>2, DequeueTypes DEF GetExpected
<1>7. CASE GetOther
  <2>1. attempt' \in 0..RecvAttempts
    BY <1>7, ConnectionAssumption DEF GetOther, Waiting
  <2>2. Dequeue BY <1>7 DEF GetOther
  <2> QED BY <1>7, <2>1, <2>2, DequeueTypes DEF GetOther
<1>8. CASE GetTimesOut
  <2>1. attempt' \in 0..RecvAttempts
    BY <1>8, ConnectionAssumption DEF GetTimesOut, Waiting
  <2> QED BY <1>8, <2>1 DEF GetTimesOut
<1>9. CASE GiveUp BY <1>9 DEF GiveUp
<1>10. CASE ClearOne BY <1>10 DEF ClearOne
<1>11. CASE ClearDone BY <1>11 DEF ClearDone
<1> QED
  BY <1>1, <1>2, <1>3, <1>4, <1>5, <1>6, <1>7, <1>8, <1>9, <1>10, <1>11
     DEF ExchangeStep

(* Types: the steps that stop the engine and close the port. *)
LEMMA TypeInvClose ==
  ASSUME TypeInv, CloseStep, UNCHANGED apiVars
  PROVE  TypeInv'
<1> USE DEF TypeInv, TypeOK, HoldsPacket, FirmwareTypeOK, PortTypeOK, EngineTypeOK,
            ConnectionTypeOK, IntegrationTypeOK, callVars, apiVars, engineVars,
            portVars, firmwareVars, queueVars, CallerState, Exception, Goto, Raise
<1>1. CASE CloseAlive
  <2>1. EngineTypeOK' BY <1>1 DEF CloseAlive, ClearActive
  <2> QED BY <1>1, <2>1 DEF CloseAlive, ClearActive
<1>2. CASE CloseDead BY <1>2 DEF CloseDead
<1>3. CASE JoinEngine BY <1>3 DEF JoinEngine
<1>4. CASE ClosePort
  <2>1. rx' \in Seq(Packet) BY <1>4 DEF ClosePort, PortClose
  <2> QED BY <1>4, <2>1 DEF ClosePort, PortClose
<1>5. CASE ClosePortRaises BY <1>5 DEF ClosePortRaises, PortCloseRaises
<1> QED
  BY <1>1, <1>2, <1>3, <1>4, <1>5 DEF CloseStep

(* So do the API layer's own steps. *)
LEMMA NewRequestTypes ==
  ASSUME ConnectionTypeOK, NEW cmd \in Command, NEW on \in BOOLEAN, NewRequest(cmd, on)
  PROVE  /\ request' \in Request /\ response_only' \in BOOLEAN /\ tries' \in Nat
         /\ attempt' \in 0..RecvAttempts
<1>1. request' \in Request BY DEF ConnectionTypeOK, NewRequest, Request
<1> QED BY <1>1 DEF ConnectionTypeOK, NewRequest

(* Types: the steps that begin a call of the API. *)
LEMMA TypeInvCall ==
  ASSUME TypeInv, Call
  PROVE  TypeInv'
<1> USE DEF TypeInv, TypeOK, IntegrationTypeOK, ConnectionTypeOK
<1>1. UNCHANGED <<is_connected, engineVars, portVars>>
  BY DEF Call, connectDevice, disconnectDevice, SimpleRequest, SwitchOn, SwitchOff,
         getMultiResults, Begin
<1>2. (FirmwareTypeOK /\ PortTypeOK /\ EngineTypeOK /\ HoldsPacket)'
  BY <1>1 DEF engineVars, portVars, firmwareVars, FirmwareTypeOK, PortTypeOK,
              EngineTypeOK, HoldsPacket
<1>3. ConnectionTypeOK OBVIOUS
<1>4. \A name \in Op, place \in CallerState : Begin(name, place) =>
        /\ op' \in Op /\ status' \in Status /\ calls' \in Nat
        /\ is_connected' \in BOOLEAN /\ pc' \in CallerState
        /\ response' \in Seq(Packet) /\ exception' \in Exception
  BY EmptySeq DEF Begin, Status, Exception
<1>5. CASE connectDevice
  BY <1>2, <1>4, <1>5 DEF connectDevice, Op, CallerState
<1>6. CASE disconnectDevice
  BY <1>2, <1>4, <1>6 DEF disconnectDevice, Op, CallerState
<1>7. CASE SimpleRequest
  BY <1>2, <1>3, <1>4, <1>7, NewRequestTypes, IntegrationAssumption
     DEF SimpleRequest, Op, RequestMade, CallerState
<1>8. CASE SwitchOn
  BY <1>2, <1>3, <1>4, <1>8, NewRequestTypes, CommandAssumption
     DEF SwitchOn, NamedCommand, Op, RequestMade, CallerState
<1>9. CASE SwitchOff
  BY <1>2, <1>3, <1>4, <1>9, NewRequestTypes, CommandAssumption
     DEF SwitchOff, NamedCommand, Op, RequestMade, CallerState
<1>10. CASE getMultiResults
  BY <1>2, <1>4, <1>10 DEF getMultiResults, Op, CallerState
<1> QED
  BY <1>5, <1>6, <1>7, <1>8, <1>9, <1>10 DEF Call

(* Types: every step of the thread that calls the API. *)
LEMMA TypeInvApi ==
  ASSUME TypeInv, ApiStep
  PROVE  TypeInv'
<1> USE DEF TypeInv, TypeOK, IntegrationTypeOK, ConnectionTypeOK
<1>1. UNCHANGED <<is_connected, engineVars, portVars>>
  BY DEF ApiStep, SelectChannel, ClearResults, RequestSucceeds, RequestFails, DecodeRaises,
         Succeeds, DriverFails, Propagates, Finish
<1>2. (FirmwareTypeOK /\ PortTypeOK /\ EngineTypeOK /\ HoldsPacket)'
  BY <1>1 DEF engineVars, portVars, firmwareVars, FirmwareTypeOK, PortTypeOK,
              EngineTypeOK, HoldsPacket
<1>3. CASE \E result \in Status : Finish(result)
  BY <1>2, <1>3 DEF Finish, callVars, CallerState
<1>4. CASE SelectChannel
  <2>1. /\ request' \in Request /\ response_only' \in BOOLEAN /\ tries' \in Nat
        /\ attempt' \in 0..RecvAttempts
    BY <1>4, NewRequestTypes, CommandAssumption DEF SelectChannel, NamedCommand
  <2> QED BY <1>2, <1>4, <2>1 DEF SelectChannel, Op, RequestMade, CallerState
<1>5. CASE ClearResults
  BY <1>2, <1>5 DEF ClearResults, callVars, Op, RequestMade, CallerState
<1> QED
  BY <1>3, <1>4, <1>5 DEF ApiStep, RequestSucceeds, RequestFails, DecodeRaises, Succeeds,
                          DriverFails, Propagates, Status

(* Types hold in every reachable state. *)
LEMMA TypeInvAlways == Spec => []TypeInv
<1>1. ASSUME TypeInv, [Next]_vars
      PROVE  TypeInv'
  <2>1. CASE UNCHANGED vars
    BY <1>1, <2>1
       DEF vars, callerVars, callVars, apiVars, engineVars, portVars, firmwareVars,
           TypeInv, TypeOK, HoldsPacket, FirmwareTypeOK, PortTypeOK, EngineTypeOK,
           ConnectionTypeOK, IntegrationTypeOK
  <2>2. CASE Next /\ ~UNCHANGED vars
    BY <1>1, <2>2, TypeInvCall, TypeInvApi, TypeInvConnect, TypeInvExchange,
       TypeInvClose, TypeInvEngine, TypeInvDevice
       DEF Next, CallerStep, ConnectionStep, Terminated
  <2> QED BY <1>1, <2>1, <2>2
<1> QED
  BY <1>1, TypeInvInit, PTL DEF Spec

(* Every variable keeps its type: no step of any of the three parties puts  *)
(* a value where the code could not have it.                                *)
THEOREM TypeCorrect == Spec => []TypeOK
BY TypeInvAlways, PTL DEF TypeInv

-----------------------------------------------------------------------------
(* The life cycle of port, thread and connection.                           *)

(* Life cycle: there is neither port nor thread in the beginning.           *)
LEMMA LifeCycleInit == Init => LifeCycle
BY DEF Init, PortInit, EngineInit, ConnectionInit, LifeCycle, is_alive

(* Every step keeps the life cycle of the port, the engine and the thread. *)
LEMMA LifeCycleStep ==
  ASSUME TypeOK, LifeCycle, [Next]_vars
  PROVE  LifeCycle'
<1> USE DEF LifeCycle, is_alive
<1>1. CASE UNCHANGED vars
  BY <1>1 DEF vars, callerVars, engineVars, portVars
<1>2. CASE Call
  <2>1. UNCHANGED <<is_connected, thread, handle>>
    BY <1>2 DEF Call, connectDevice, disconnectDevice, SimpleRequest, SwitchOn,
                SwitchOff, getMultiResults, Begin, engineVars, portVars
  <2>2. pc = "idle" /\ pc' \in {"CreateFile", "close", "send", "listen"}
    BY <1>2 DEF Call, connectDevice, disconnectDevice, SimpleRequest, SwitchOn,
                SwitchOff, getMultiResults, Begin
  <2> QED BY <2>1, <2>2
<1>3. CASE ApiStep
  <2> USE DEF engineVars, portVars
  <2>1. CASE SelectChannel BY <2>1 DEF SelectChannel
  <2>2. CASE ClearResults BY <2>2 DEF ClearResults
  <2>3. CASE pc # "sleep" /\ \E result \in Status : Finish(result)
    <3>1. pc' = "idle" /\ UNCHANGED <<is_connected, thread, handle>> BY <2>3 DEF Finish
    <3> QED BY <2>3, <3>1
  <2> QED BY <1>3, <2>1, <2>2, <2>3 DEF ApiStep, RequestSucceeds, RequestFails, DecodeRaises,
             Succeeds, DriverFails, Propagates, Status
<1>4. CASE EngineStep
  <2> USE DEF callerVars, portVars
  <2>0. UNCHANGED <<pc, is_connected>> BY <1>4 DEF EngineStep
  <2>1. CASE RecvPacket BY <2>0, <2>1 DEF RecvPacket, PortRecv
  <2>2. CASE RecvNothing \/ RecvRaises
    BY <2>0, <2>2 DEF RecvNothing, PortRecvNothing, RecvRaises, PortRecvRaises
  <2>3. CASE CheckActive \/ JoinSelf \/ Route \/ RouteRaises
    BY <2>0, <2>3 DEF CheckActive, JoinSelf, Route, RouteRaises
  <2>4. CASE PutRequestResponse \/ PutResponseOnly
    BY <2>0, <2>4 DEF PutRequestResponse, PutResponseOnly
  <2> QED BY <1>4, <2>1, <2>2, <2>3, <2>4 DEF EngineStep, EngineThread
<1>5. CASE DeviceStep
  BY <1>5 DEF DeviceStep, callerVars, engineVars
<1>6. CASE ConnectStep
  <2> USE DEF Goto, Raise, portVars, engineVars
  <2>1. CASE OpenPort BY <2>1 DEF OpenPort, CreateFile
  <2>2. CASE OpenPortRaises BY <2>2 DEF OpenPortRaises, CreateFileRaises
  <2>3. CASE SetupPort BY <2>3 DEF SetupPort, PurgeComm
  <2>4. CASE SetupPortRaises BY <2>4 DEF SetupPortRaises, PurgeCommRaises
  <2>5. CASE StartEngine BY <2>5 DEF StartEngine, Start
  <2>6. CASE StartEngineRaises BY <2>6 DEF StartEngineRaises, StartRaises
  <2>7. CASE Establish BY <2>7 DEF Establish
  <2> QED BY <1>6, <2>1, <2>2, <2>3, <2>4, <2>5, <2>6, <2>7 DEF ConnectStep
<1>7. CASE ExchangeStep
  <2> USE DEF Goto, Raise, portVars, engineVars
  <2>1. CASE NotEstablished BY <2>1 DEF NotEstablished
  <2>2. CASE Register BY <2>2 DEF Register, RegisterCommand
  <2>3. CASE Write BY <2>3 DEF Write, PortSend
  <2>4. CASE WriteRaises BY <2>4 DEF WriteRaises, PortSendRaises
  <2>5. CASE Listen BY <2>5 DEF Listen
  <2>6. CASE GetExpected BY <2>6 DEF GetExpected, Waiting, Dequeue
  <2>7. CASE GetOther BY <2>7 DEF GetOther, Waiting, Dequeue
  <2>8. CASE GetTimesOut BY <2>8 DEF GetTimesOut, Waiting
  <2>9. CASE GiveUp BY <2>9 DEF GiveUp
  <2>10. CASE ClearOne BY <2>10 DEF ClearOne
  <2>11. CASE ClearDone BY <2>11 DEF ClearDone
  <2> QED BY <1>7, <2>1, <2>2, <2>3, <2>4, <2>5, <2>6, <2>7, <2>8, <2>9, <2>10, <2>11
             DEF ExchangeStep
<1>8. CASE CloseStep
  <2> USE DEF Goto, Raise, portVars, engineVars
  <2>1. CASE CloseAlive BY <2>1 DEF CloseAlive, ClearActive
  <2>2. CASE CloseDead BY <2>2 DEF CloseDead
  <2>3. CASE JoinEngine BY <2>3 DEF JoinEngine
  <2>4. CASE ClosePort BY <2>4 DEF ClosePort, PortClose
  <2>5. CASE ClosePortRaises BY <2>5 DEF ClosePortRaises, PortCloseRaises
  <2> QED BY <1>8, <2>1, <2>2, <2>3, <2>4, <2>5 DEF CloseStep
<1> QED
  BY <1>1, <1>2, <1>3, <1>4, <1>5, <1>6, <1>7, <1>8
     DEF Next, CallerStep, ConnectionStep, Terminated

(* The states of the port, of the engine thread and of the connection agree *)
(* in every order the three parties' steps can take, faults included.       *)
THEOREM LifeCycleHolds == Spec => []LifeCycle
<1>1. TypeOK /\ LifeCycle /\ [Next]_vars => LifeCycle'
  BY LifeCycleStep
<1> QED
  BY <1>1, LifeCycleInit, TypeCorrect, PTL DEF Spec

(* No request is handed to a closed port, which would swallow it silently   *)
(* (VComPort.py:63).                                                        *)
THEOREM WritesReachPort == Spec => []WriteOnOpen
<1>1. LifeCycle => WriteOnOpen
  BY DEF LifeCycle, WriteOnOpen
<1> QED
  BY <1>1, LifeCycleHolds, PTL

-----------------------------------------------------------------------------
(* The routing of packets into the two queues.                              *)

(* Routing: all queues are empty in the beginning.                          *)
LEMMA RoutingInit == Init => Routing
BY EmptySeq DEF Init, FirmwareInit, EngineInit, ConnectionInit, Routing

(* A step that neither adds a packet, nor files one, nor registers a        *)
(* command keeps Routing.                                                   *)
LEMMA RoutingFrame ==
  ASSUME Routing,
         UNCHANGED <<packet, response_cmd, CDC_response_only, CDC_request_response, inbox>>,
         rx' = rx \/ rx' = <<>>,
         thread' = thread \/ thread' = "loop",
         pc' # "write" \/ UNCHANGED <<pc, request>>
  PROVE  Routing'
<1>1. Registered' = Registered /\ Arriving' = Arriving /\ Asked' = Asked /\ Unasked' = Unasked
  BY DEF Registered, Arriving, Asked, Unasked
<1>2. rx' \in Seq(Arriving)
  BY EmptySeq DEF Routing
<1> QED
  BY <1>1, <1>2 DEF Routing

(* Registering a command leaves every packet where it may be.               *)
LEMMA RoutingRegister ==
  ASSUME Routing, Register
  PROVE  Routing'
<1>1. UNCHANGED <<inbox, rx, thread, packet, CDC_response_only, CDC_request_response>>
  BY DEF Register, RegisterCommand, portVars, firmwareVars
<1>2. response_cmd' = response_cmd \cup {request.cmd} /\ request' = request
  BY DEF Register, RegisterCommand
<1>3. Registered \subseteq Registered'
  BY <1>2 DEF Registered
<1>4. Arriving \subseteq Arriving' /\ Asked \subseteq Asked' /\ Unasked = Unasked'
  BY <1>2 DEF Arriving, Asked, Unasked
<1>5. inbox' \in Seq(Registered') /\ rx' \in Seq(Arriving')
  BY <1>1, <1>3, <1>4, SeqMonotonic DEF Routing
<1>6. CDC_response_only' \in Seq(Unasked') /\ CDC_request_response' \in Seq(Asked')
  BY <1>1, <1>4, SeqMonotonic DEF Routing
<1> QED
  BY <1>1, <1>2, <1>4, <1>5, <1>6 DEF Routing

(* Routing: a write registers what it asks before the device can answer. *)
LEMMA RoutingWrite ==
  ASSUME TypeOK, Routing, Write
  PROVE  Routing'
<1>1. request \in Registered
  BY DEF TypeOK, ConnectionTypeOK, Routing, Registered, Write
<1>2. inbox' \in Seq(Registered)
  BY <1>1, AppendProperties DEF Routing, Write, PortSend
<1>3. UNCHANGED <<rx, engineVars>> /\ pc' # "write"
  BY DEF Write, PortSend, Goto
<1>4. Registered' = Registered /\ Arriving' = Arriving /\ Asked' = Asked /\ Unasked' = Unasked
  BY <1>3 DEF Registered, Arriving, Asked, Unasked, engineVars
<1> QED
  BY <1>2, <1>3, <1>4 DEF Routing, engineVars

(* A get or a clear takes the head off one queue.                           *)
LEMMA RoutingDequeue ==
  ASSUME Routing, pc' # "write",
         UNCHANGED <<thread, packet, response_cmd, inbox, rx>>,
         \/ UNCHANGED CDC_response_only
         \/ CDC_response_only # <<>> /\ CDC_response_only' = Tail(CDC_response_only),
         \/ UNCHANGED CDC_request_response
         \/ CDC_request_response # <<>> /\ CDC_request_response' = Tail(CDC_request_response)
  PROVE  Routing'
<1>1. CDC_response_only' \in Seq(Unasked) /\ CDC_request_response' \in Seq(Asked)
  BY HeadTailProperties DEF Routing
<1>2. Registered' = Registered /\ Arriving' = Arriving /\ Asked' = Asked /\ Unasked' = Unasked
  BY DEF Registered, Arriving, Asked, Unasked
<1> QED
  BY <1>1, <1>2 DEF Routing

(* Routing: the engine thread passes on what it read to the queue it belongs to. *)
LEMMA RoutingEngine ==
  ASSUME TypeOK, Routing, EngineStep
  PROVE  Routing'
<1>1. UNCHANGED <<pc, request>> BY DEF EngineStep, callerVars, callVars
<1>2. UNCHANGED <<response_cmd, inbox>>
  BY DEF EngineStep, EngineThread, CheckActive, RecvNothing, RecvPacket, RecvRaises,
         JoinSelf, Route, RouteRaises, PutRequestResponse, PutResponseOnly,
         PortRecvNothing, PortRecv, PortRecvRaises, queueVars, portVars, firmwareVars
<1>3. Registered' = Registered /\ Arriving' = Arriving /\ Asked' = Asked /\ Unasked' = Unasked
  BY <1>2 DEF Registered, Arriving, Asked, Unasked
<1> USE DEF Routing, portVars, firmwareVars, queueVars
<1>4. CASE CheckActive \/ RecvNothing \/ RecvRaises \/ JoinSelf \/ RouteRaises
  <2>1. thread' \in {"recv", "exited", "loop", "stopping", "crashed"}
        /\ UNCHANGED <<rx, CDC_response_only, CDC_request_response>>
    BY <1>4 DEF CheckActive, RecvNothing, RecvRaises, JoinSelf, RouteRaises,
                PortRecvNothing, PortRecvRaises
  <2> QED BY <1>1, <1>2, <1>3, <2>1
<1>5. CASE RecvPacket
  <2>1. Head(rx) \in Arriving /\ rx' \in Seq(Arriving) /\ Head(packet') = Head(rx)
    BY <1>5, RestOfRead DEF RecvPacket, PortRecv
  <2>2. thread' = "route" /\ UNCHANGED <<CDC_response_only, CDC_request_response>>
    BY <1>5 DEF RecvPacket
  <2> QED BY <1>1, <1>2, <1>3, <2>1, <2>2
<1>6. CASE Route
  <2>1. Head(packet) \in Arriving /\ UNCHANGED <<packet, rx, CDC_response_only, CDC_request_response>>
    BY <1>6 DEF Route
  <2>2. CASE Head(packet).cmd \in response_cmd
    <3>1. thread' = "put_request_response" BY <1>6, <2>2 DEF Route
    <3>2. Head(packet) \in Asked BY <2>1, <2>2 DEF Asked
    <3> QED BY <1>1, <1>2, <1>3, <2>1, <3>1, <3>2
  <2>3. CASE Head(packet).cmd \notin response_cmd
    <3>1. thread' = "put_response_only" BY <1>6, <2>3 DEF Route
    <3>2. Head(packet) \in Unasked BY <2>1, <2>3 DEF Arriving, Unasked
    <3> QED BY <1>1, <1>2, <1>3, <2>1, <3>1, <3>2
  <2> QED BY <2>2, <2>3
<1>7. CASE PutRequestResponse
  <2>1. CDC_request_response' \in Seq(Asked)
    BY <1>7, AppendProperties DEF PutRequestResponse
  <2>2. thread' = "loop" /\ UNCHANGED <<rx, CDC_response_only>>
    BY <1>7 DEF PutRequestResponse
  <2> QED BY <1>1, <1>2, <1>3, <2>1, <2>2
<1>8. CASE PutResponseOnly
  <2>1. CDC_response_only' \in Seq(Unasked)
    BY <1>8, AppendProperties DEF PutResponseOnly
  <2>2. thread' = "loop" /\ UNCHANGED <<rx, CDC_request_response>>
    BY <1>8 DEF PutResponseOnly
  <2> QED BY <1>1, <1>2, <1>3, <2>1, <2>2
<1> QED
  BY <1>4, <1>5, <1>6, <1>7, <1>8 DEF EngineStep, EngineThread

(* The device answers what it was asked, and its results carry one command. *)
LEMMA RoutingDevice ==
  ASSUME TypeOK, Routing, DeviceStep
  PROVE  Routing'
<1>1. UNCHANGED <<pc, request, engineVars>> BY DEF DeviceStep, callerVars, callVars
<1>2. Registered' = Registered /\ Arriving' = Arriving /\ Asked' = Asked /\ Unasked' = Unasked
  BY <1>1 DEF Registered, Arriving, Asked, Unasked, engineVars
<1>3. inbox' \in Seq(Registered) /\ rx' \in Seq(Arriving)
  <2>1. CASE Act
    <3>1. Head(inbox) \in Registered /\ inbox' \in Seq(Registered)
      BY <2>1, HeadTailProperties DEF Routing, Act
    <3>2. Answer(Head(inbox)) \in Arriving
      BY <3>1 DEF Answer, Registered, Arriving, Packet, Request, IsAnswer
    <3>3. Append(rx, Answer(Head(inbox))) \in Seq(Arriving)
      BY <3>2, AppendProperties DEF Routing
    <3>4. rx' \in Seq(Arriving)
      BY <2>1, <3>3 DEF Routing, Act
    <3> QED BY <3>1, <3>4
  <2>2. CASE LoseRequest
    BY <2>2, HeadTailProperties DEF Routing, LoseRequest
  <2>3. CASE Emit
    <3>1. Result(session) \in Arriving
      BY <2>3, CommandAssumption
         DEF Result, Arriving, Packet, IsAnswer, NamedCommand, TypeOK, FirmwareTypeOK
    <3> QED BY <2>3, <3>1, AppendProperties DEF Routing, Emit
  <2> QED BY <2>1, <2>2, <2>3 DEF DeviceStep, FirmwareNext
<1> QED
  BY <1>1, <1>2, <1>3 DEF Routing, engineVars

(* Every step keeps what is registered, under way and queued in accord. *)
LEMMA RoutingStep ==
  ASSUME TypeOK, Routing, [Next]_vars
  PROVE  Routing'
<1> USE DEF engineVars, queueVars, portVars, firmwareVars, Goto, Raise, Begin, Finish
<1>1. CASE UNCHANGED vars
  BY <1>1, RoutingFrame DEF vars, callerVars, callVars
<1>2. CASE Call
  <2>1. CASE connectDevice BY <2>1, RoutingFrame DEF connectDevice
  <2>2. CASE disconnectDevice BY <2>2, RoutingFrame DEF disconnectDevice
  <2>3. CASE SimpleRequest BY <2>3, RoutingFrame DEF SimpleRequest
  <2>4. CASE SwitchOn BY <2>4, RoutingFrame DEF SwitchOn
  <2>5. CASE SwitchOff BY <2>5, RoutingFrame DEF SwitchOff
  <2>6. CASE getMultiResults BY <2>6, RoutingFrame DEF getMultiResults
  <2> QED BY <1>2, <2>1, <2>2, <2>3, <2>4, <2>5, <2>6 DEF Call
<1>3. CASE ApiStep
  <2>1. CASE SelectChannel BY <2>1, RoutingFrame DEF SelectChannel
  <2>2. CASE ClearResults BY <2>2, RoutingFrame DEF ClearResults
  <2>3. CASE \E result \in Status : Finish(result) BY <2>3, RoutingFrame
  <2> QED BY <1>3, <2>1, <2>2, <2>3 DEF ApiStep, RequestSucceeds, RequestFails, DecodeRaises,
             Succeeds, DriverFails, Propagates, Status
<1>4. CASE EngineStep BY <1>4, RoutingEngine
<1>5. CASE DeviceStep BY <1>5, RoutingDevice
<1>6. CASE ConnectStep
  <2>1. CASE OpenPort BY <2>1, RoutingFrame DEF OpenPort, CreateFile
  <2>2. CASE OpenPortRaises BY <2>2, RoutingFrame DEF OpenPortRaises, CreateFileRaises
  <2>3. CASE SetupPort BY <2>3, RoutingFrame DEF SetupPort, PurgeComm
  <2>4. CASE SetupPortRaises BY <2>4, RoutingFrame DEF SetupPortRaises, PurgeCommRaises
  <2>5. CASE StartEngine BY <2>5, RoutingFrame DEF StartEngine, Start
  <2>6. CASE StartEngineRaises BY <2>6, RoutingFrame DEF StartEngineRaises, StartRaises
  <2>7. CASE Establish BY <2>7, RoutingFrame DEF Establish
  <2> QED BY <1>6, <2>1, <2>2, <2>3, <2>4, <2>5, <2>6, <2>7 DEF ConnectStep
<1>7. CASE ExchangeStep
  <2>1. CASE NotEstablished BY <2>1, RoutingFrame DEF NotEstablished
  <2>2. CASE WriteRaises BY <2>2, RoutingFrame DEF WriteRaises, PortSendRaises
  <2>3. CASE Listen BY <2>3, RoutingFrame DEF Listen
  <2>4. CASE GetTimesOut BY <2>4, RoutingFrame DEF GetTimesOut, Waiting
  <2>5. CASE GiveUp BY <2>5, RoutingFrame DEF GiveUp
  <2>6. CASE ClearDone BY <2>6, RoutingFrame DEF ClearDone
  <2>7. CASE Register BY <2>7, RoutingRegister
  <2>8. CASE Write BY <2>8, RoutingWrite
  <2>9. CASE GetExpected \/ GetOther
    <3>1. Dequeue BY <2>9 DEF GetExpected, GetOther
    <3>2. pc' # "write" BY <2>9 DEF GetExpected, GetOther, Waiting
    <3>3. UNCHANGED <<thread, packet, response_cmd, inbox, rx>> BY <3>1 DEF Dequeue
    <3>4. CASE response_only
      BY <3>1, <3>2, <3>3, <3>4, RoutingDequeue DEF Dequeue, RecvQueue
    <3>5. CASE ~response_only
      BY <3>1, <3>2, <3>3, <3>5, RoutingDequeue DEF Dequeue, RecvQueue
    <3> QED BY <3>4, <3>5
  <2>10. CASE ClearOne
    <3>1. pc' # "write" /\ UNCHANGED <<thread, packet, response_cmd, inbox, rx>>
      BY <2>10 DEF ClearOne
    <3> QED BY <2>10, <3>1, RoutingDequeue DEF ClearOne
  <2> QED BY <1>7, <2>1, <2>2, <2>3, <2>4, <2>5, <2>6, <2>7, <2>8, <2>9, <2>10
          DEF ExchangeStep
<1>8. CASE CloseStep
  <2>1. CASE CloseAlive BY <2>1, RoutingFrame DEF CloseAlive, ClearActive
  <2>2. CASE CloseDead BY <2>2, RoutingFrame DEF CloseDead
  <2>3. CASE JoinEngine BY <2>3, RoutingFrame DEF JoinEngine
  <2>4. CASE ClosePort BY <2>4, RoutingFrame DEF ClosePort, PortClose
  <2>5. CASE ClosePortRaises BY <2>5, RoutingFrame DEF ClosePortRaises, PortCloseRaises
  <2> QED BY <1>8, <2>1, <2>2, <2>3, <2>4, <2>5 DEF CloseStep
<1> QED
  BY <1>1, <1>2, <1>3, <1>4, <1>5, <1>6, <1>7, <1>8
     DEF Next, CallerStep, ConnectionStep, Terminated

(* Every packet on its way carries a command that tells its kind, whenever  *)
(* the engine thread looks, because registering precedes writing            *)
(* (engine.py:199-201).                                                     *)
THEOREM RoutingHolds == Spec => []Routing
<1>1. TypeOK /\ Routing /\ [Next]_vars => Routing'
  BY RoutingStep
<1> QED
  BY <1>1, RoutingInit, TypeCorrect, PTL DEF Spec

(* Neither queue ever holds a packet that belongs into the other one, in    *)
(* whatever order the engine thread's test of response_cmd and the caller's *)
(* registrations fall.                                                      *)
THEOREM QueuesKeptApart == Spec => []RoutedByKind
<1>1. ASSUME Routing PROVE RoutedByKind
  <2>1. ASSUME NEW i \in DOMAIN CDC_response_only
        PROVE  ~IsAnswer(CDC_response_only[i])
    <3>1. CDC_response_only[i] \in Unasked
      BY <1>1, ElementOfSeq DEF Routing
    <3> QED BY <3>1 DEF Unasked
  <2>2. ASSUME MULTI_RESULTS_GET \notin response_cmd,
               NEW i \in DOMAIN CDC_request_response
        PROVE  IsAnswer(CDC_request_response[i])
    <3>1. CDC_request_response[i] \in Asked
      BY <1>1, ElementOfSeq DEF Routing
    <3> QED BY <2>2, <3>1 DEF Asked, Arriving
  <2> QED BY <2>1, <2>2 DEF RoutedByKind
<1> QED
  BY <1>1, RoutingHolds, PTL
=============================================================================
