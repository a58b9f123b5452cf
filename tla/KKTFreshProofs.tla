---------------------------- MODULE KKTFreshProofs ----------------------------
(***************************************************************************)
(* Theorems about KKTIntegration with a device that answers in time: every *)
(* response is the answer to its own request, whatever is lost and         *)
(* whatever fails, and switching the collection off leaves no result       *)
(* behind.  Also, with the faults left out that end the engine thread:     *)
(* disconnecting releases the port.                                        *)
(***************************************************************************)
EXTENDS KKTIntegrationProofs

-----------------------------------------------------------------------------
(* Answers in a sequence of packets.                                        *)

(* The sequence of one packet.                                              *)
LEMMA OnePacket ==
  ASSUME NEW p
  PROVE  /\ DOMAIN <<p>> = {1} /\ Head(<<p>>) = p /\ Len(<<p>>) = 1
         /\ NoAnswerIn(<<p>>) <=> ~IsAnswer(p)
BY DEF NoAnswerIn

(* The empty sequence holds no answer.                                      *)
LEMMA NoPacket == NoAnswerIn(<<>>)
BY DEF NoAnswerIn

(* Appending a packet: a result adds no answer, an answer is one more.      *)
LEMMA AppendAnswers ==
  ASSUME NEW s \in Seq(Packet), NEW p \in Packet, NEW a
  PROVE  /\ NoAnswerIn(s) /\ ~IsAnswer(p) => NoAnswerIn(Append(s, p))
         /\ NoAnswerIn(s) /\ p = a => OneAnswerIn(Append(s, p), a)
         /\ OneAnswerIn(s, a) /\ ~IsAnswer(p) => OneAnswerIn(Append(s, p), a)
<1> DEFINE t == Append(s, p)
<1>1. /\ DOMAIN s = 1..Len(s) /\ Len(s) \in Nat
      /\ DOMAIN t = 1..(Len(s) + 1) /\ t[Len(s) + 1] = p
      /\ \A i \in 1..Len(s) : t[i] = s[i]
  BY AppendProperties, LenProperties
<1> HIDE DEF t
<1>2. NoAnswerIn(s) /\ ~IsAnswer(p) => NoAnswerIn(t)
  BY <1>1 DEF NoAnswerIn
<1>3. NoAnswerIn(s) /\ p = a => OneAnswerIn(t, a)
  <2> SUFFICES ASSUME NoAnswerIn(s), p = a PROVE OneAnswerIn(t, a)
    OBVIOUS
  <2>1. Len(s) + 1 \in DOMAIN t BY <1>1
  <2>2. \A j \in DOMAIN t : IsAnswer(t[j]) => j = Len(s) + 1
    BY <1>1 DEF NoAnswerIn
  <2> QED BY <1>1, <2>1, <2>2 DEF OneAnswerIn
<1>4. OneAnswerIn(s, a) /\ ~IsAnswer(p) => OneAnswerIn(t, a)
  <2> SUFFICES ASSUME OneAnswerIn(s, a), ~IsAnswer(p) PROVE OneAnswerIn(t, a)
    OBVIOUS
  <2>1. PICK i \in DOMAIN s : s[i] = a /\ \A j \in DOMAIN s : IsAnswer(s[j]) => j = i
    BY DEF OneAnswerIn
  <2>2. i \in DOMAIN t /\ t[i] = a BY <1>1, <2>1
  <2>3. \A j \in DOMAIN t : IsAnswer(t[j]) => j = i BY <1>1, <2>1
  <2> QED BY <2>2, <2>3 DEF OneAnswerIn
<1> QED
  BY <1>2, <1>3, <1>4 DEF t

(* A read of n packets: the one answer is the head, is dropped, or stays.   *)
LEMMA RestAnswers ==
  ASSUME NEW s \in Seq(Packet), NEW n \in DOMAIN s,
         NEW t, t = SubSeq(s, n + 1, Len(s)), NEW a, IsAnswer(a)
  PROVE  /\ NoAnswerIn(s) => ~IsAnswer(Head(s)) /\ NoAnswerIn(t)
         /\ OneAnswerIn(s, a) /\ IsAnswer(Head(s)) => Head(s) = a /\ NoAnswerIn(t)
         /\ OneAnswerIn(s, a) /\ ~IsAnswer(Head(s)) => NoAnswerIn(t) \/ OneAnswerIn(t, a)
<1>1. /\ DOMAIN s = 1..Len(s) /\ Len(s) \in Nat \ {0} /\ Head(s) = s[1]
      /\ n \in 1..Len(s) /\ DOMAIN t = 1..(Len(s) - n)
      /\ \A i \in 1..(Len(s) - n) : t[i] = s[n + i]
  BY RestOfRead
<1>2. NoAnswerIn(s) => ~IsAnswer(Head(s)) /\ NoAnswerIn(t)
  BY <1>1 DEF NoAnswerIn
<1>3. ASSUME OneAnswerIn(s, a)
      PROVE  /\ IsAnswer(Head(s)) => Head(s) = a /\ NoAnswerIn(t)
             /\ ~IsAnswer(Head(s)) => NoAnswerIn(t) \/ OneAnswerIn(t, a)
  <2>1. PICK i \in DOMAIN s : s[i] = a /\ \A j \in DOMAIN s : IsAnswer(s[j]) => j = i
    BY <1>3 DEF OneAnswerIn
  <2>2. IsAnswer(Head(s)) => i = 1 BY <1>1, <2>1
  <2>3. i = 1 => Head(s) = a /\ NoAnswerIn(t)
    BY <1>1, <2>1 DEF NoAnswerIn
  <2>4. ASSUME NEW j \in DOMAIN t, IsAnswer(t[j]) PROVE i = n + j
    <3>1. n + j \in DOMAIN s /\ IsAnswer(s[n + j]) BY <1>1, <2>4
    <3> QED BY <2>1, <3>1
  <2>5. CASE i <= n
    <3>1. NoAnswerIn(t)
      <4> SUFFICES ASSUME NEW j \in DOMAIN t, IsAnswer(t[j]) PROVE FALSE
        BY DEF NoAnswerIn
      <4>1. i = n + j /\ j >= 1 BY <1>1, <2>4
      <4> QED BY <1>1, <2>1, <2>5, <4>1
    <3> QED BY <2>2, <2>3, <3>1
  <2>6. CASE i > n
    <3>1. i - n \in DOMAIN t /\ t[i - n] = a BY <1>1, <2>1, <2>6
    <3>2. ASSUME NEW j \in DOMAIN t, IsAnswer(t[j]) PROVE j = i - n
      BY <1>1, <2>1, <2>4, <3>2
    <3>3. OneAnswerIn(t, a) BY <3>1, <3>2 DEF OneAnswerIn
    <3> QED BY <2>2, <2>3, <3>3
  <2> QED BY <1>1, <2>1, <2>5, <2>6
<1> QED
  BY <1>2, <1>3

-----------------------------------------------------------------------------
(* Where the caller's thread may be.                                        *)

(* Places: no call is under way in the beginning.                           *)
LEMMA PlacesInit == Init => Places
BY DEF Init, ConnectionInit, EngineInit, Places

(* Places: every step of the caller's thread, the others leave it alone.    *)
LEMMA PlacesStep ==
  ASSUME LifeCycle, Places, [Next]_vars
  PROVE  Places'
<1>0. pc = "write" => is_connected
  BY DEF LifeCycle
<1> USE DEF Places, RequestMade
<1>1. CASE UNCHANGED vars
  BY <1>1 DEF vars, callerVars, callVars, apiVars, engineVars
<1>2. CASE Call
  BY <1>2 DEF Call, connectDevice, disconnectDevice, SimpleRequest, SwitchOn,
              SwitchOff, getMultiResults, Begin, NewRequest, engineVars
<1>3. CASE ApiStep
  <2>1. CASE SelectChannel BY <2>1 DEF SelectChannel, NewRequest, engineVars
  <2>2. CASE ClearResults BY <2>2 DEF ClearResults, callVars, engineVars
  <2>3. CASE pc \in {"returned", "raised"} /\ \E result \in Status : Finish(result)
    BY <2>3 DEF Finish, callVars, engineVars
  <2> QED BY <1>3, <2>1, <2>2, <2>3 DEF ApiStep, RequestSucceeds, RequestFails, DecodeRaises,
             Succeeds, DriverFails, Propagates, Status
<1>4. CASE EngineStep
  <2>1. UNCHANGED <<pc, op, response_only, is_connected>>
    BY <1>4 DEF EngineStep, callerVars, callVars, apiVars
  <2>2. thread # "new" /\ thread' # "new"
    BY <1>4 DEF EngineStep, EngineThread, CheckActive, RecvNothing, RecvPacket,
       RecvRaises, JoinSelf, Route, RouteRaises, PutRequestResponse, PutResponseOnly
  <2> QED BY <2>1, <2>2
<1>5. CASE DeviceStep
  BY <1>5 DEF DeviceStep, callerVars, callVars, apiVars, engineVars
<1>6. CASE ConnectionStep /\ UNCHANGED apiVars
  <2> USE <1>6 DEF apiVars, engineVars, callVars, Goto, Raise
  <2>1. CASE ConnectStep
    BY <2>1 DEF ConnectStep, OpenPort, OpenPortRaises, SetupPort, SetupPortRaises,
       StartEngine, StartEngineRaises, Establish, Start, StartRaises
  <2>2. CASE ExchangeStep
    <3>1. CASE GetExpected \/ GetOther
      BY <3>1 DEF GetExpected, GetOther, Dequeue, Waiting
    <3>2. CASE GiveUp BY <3>2 DEF GiveUp, Retried, ClassOf
    <3>3. CASE ClearOne \/ ClearDone BY <3>3 DEF ClearOne, ClearDone
    <3>4. CASE NotEstablished \/ Register \/ Write \/ WriteRaises \/ Listen \/ GetTimesOut
      BY <1>0, <3>4 DEF NotEstablished, Register, RegisterCommand, Write, WriteRaises,
                  Listen, GetTimesOut, Waiting
    <3> QED BY <2>2, <3>1, <3>2, <3>3, <3>4 DEF ExchangeStep
  <2>3. CASE CloseStep
    BY <2>3 DEF CloseStep, CloseAlive, ClearActive, CloseDead, JoinEngine, ClosePort,
       ClosePortRaises
  <2> QED BY <2>1, <2>2, <2>3 DEF ConnectionStep
<1> QED
  BY <1>1, <1>2, <1>3, <1>4, <1>5, <1>6 DEF Next, CallerStep, Terminated

-----------------------------------------------------------------------------
(* Freshness, step by step.                                                 *)

(* Freshness: nothing is under way in the beginning.                        *)
LEMMA FreshInit == Init => Fresh
<1> SUFFICES ASSUME Init PROVE Fresh
  OBVIOUS
<1>1. /\ inbox = <<>> /\ rx = <<>> /\ packet = <<>> /\ CDC_request_response = <<>>
      /\ response_cmd = {} /\ request.cmd # MULTI_RESULTS_GET /\ pc = "idle"
  BY CommandAssumption DEF Init, FirmwareInit, EngineInit, ConnectionInit
<1>2. NoAnswerIn(rx) /\ NoAnswerIn(packet)
  BY <1>1, NoPacket
<1> QED
  BY <1>1, <1>2 DEF Fresh, OneUnderWay, NothingUnderWay, AwaitsAnswer, FreshResponse

(* While nobody waits for an answer, a step that puts nothing on its way    *)
(* keeps it that way.                                                       *)
LEMMA FreshQuiet ==
  ASSUME Fresh, ~AwaitsAnswer,
         UNCHANGED <<inbox, packet, CDC_request_response>>,
         rx' = rx \/ rx' = <<>>,
         thread' = thread \/ (thread = "new" /\ thread' = "loop"),
         response_cmd' \subseteq response_cmd \cup {request.cmd},
         request'.cmd # MULTI_RESULTS_GET,
         pc' = "returned" => op' \notin RequestMade
  PROVE  Fresh'
<1>1. CDC_request_response = <<>> /\ (Working => NothingUnderWay)
  BY DEF Fresh
<1>2. Working' => Working
  BY DEF Working
<1>3. Working => (NothingUnderWay /\ OneUnderWay)'
  <2> QED BY <1>1, NoPacket DEF NothingUnderWay, OneUnderWay
<1> QED
  BY <1>1, <1>2, <1>3 DEF Fresh, FreshResponse

(* Freshness: the write puts the request on its way, and awaits its answer. *)
LEMMA FreshWrite ==
  ASSUME TypeInv, Places, Fresh, Write
  PROVE  Fresh'
<1>1. /\ pc = "write" /\ pc' = "listen" /\ ~response_only
      /\ UNCHANGED <<request, response_only, rx, engineVars>>
      /\ inbox' = inbox \/ inbox' = Append(inbox, request)
  BY DEF Write, PortSend, Goto, callVars, Places
<1>2. /\ CDC_request_response = <<>> /\ (Working => NothingUnderWay)
      /\ AwaitsAnswer' /\ Working' = Working
  BY <1>1 DEF Fresh, AwaitsAnswer, Working, engineVars
<1>3. Working => OneUnderWay'
  <2> SUFFICES ASSUME Working PROVE OneUnderWay'
    OBVIOUS
  <2>1. inbox' = <<>> \/ inbox' = <<request>>
    BY <1>1, <1>2 DEF NothingUnderWay
  <2> QED BY <1>1, <1>2, <2>1 DEF OneUnderWay, NothingUnderWay, engineVars
<1> QED
  BY <1>1, <1>2, <1>3 DEF Fresh, FreshResponse, engineVars

(* Freshness: receiveCDCPacket waiting for an answer.                       *)
LEMMA FreshReceive ==
  ASSUME Prompt, TypeInv, Routing, Places, Fresh, AwaitsAnswer,
         Listen \/ GetExpected \/ GetOther \/ GetTimesOut \/ GiveUp
  PROVE  Fresh'
<1> USE DEF AwaitsAnswer
<1>1. CASE Listen
  <2>1. /\ AwaitsAnswer' /\ pc' # "returned" /\ attempt' # RecvAttempts
        /\ UNCHANGED <<request, engineVars, inbox, rx>>
    BY <1>1, ConnectionAssumption DEF Listen, portVars, firmwareVars
  <2> QED BY <2>1 DEF Fresh, OneUnderWay, NothingUnderWay, FreshResponse, Working, engineVars
<1>2. CASE GetExpected
  <2>1. /\ CDC_request_response # <<>>
        /\ CDC_request_response' = Tail(CDC_request_response)
        /\ response' = <<Head(CDC_request_response)>> /\ pc' = "returned"
        /\ UNCHANGED <<request, thread, packet, response_cmd, inbox, rx>>
    BY <1>2 DEF GetExpected, Dequeue, RecvQueue, portVars, firmwareVars
  <2>2. CDC_request_response = <<Answer(request)>> BY <2>1 DEF Fresh
  <2>3. response' = <<Answer(request)>> /\ CDC_request_response' = <<>>
    BY <2>1, <2>2
  <2>4. Working => NothingUnderWay BY <2>1 DEF Fresh, OneUnderWay, NothingUnderWay
  <2>5. Working' => (OneUnderWay /\ NothingUnderWay)'
    BY <2>1, <2>3, <2>4 DEF OneUnderWay, NothingUnderWay, Working
  <2> QED BY <2>1, <2>3, <2>5 DEF Fresh, FreshResponse
<1>3. CASE GetOther
  <2>1. CDC_request_response # <<>> /\ ~Expected(Head(CDC_request_response))
    BY <1>3 DEF GetOther, Dequeue, RecvQueue
  <2>2. CDC_request_response = <<Answer(request)>> BY <2>1 DEF Fresh
  <2>3. Head(CDC_request_response).cmd = request.cmd BY <2>2 DEF Answer
  <2> QED BY <2>1, <2>3 DEF Expected
<1>4. CASE GetTimesOut
  <2>1. /\ CDC_request_response = <<>> /\ pc = "receive"
        /\ attempt + 1 < RecvAttempts \/ ~AnswerComing
        /\ attempt' = attempt + 1 /\ attempt < RecvAttempts
        /\ UNCHANGED <<pc, request, response_only, engineVars, inbox, rx>>
    BY <1>4 DEF GetTimesOut, Waiting, RecvQueue, portVars, firmwareVars
  <2>2. attempt' = RecvAttempts => ~AnswerComing
    BY <2>1, ConnectionAssumption DEF TypeInv, TypeOK, ConnectionTypeOK
  <2>3. Working /\ ~AnswerComing => NothingUnderWay
    <3>1. Working => thread \in {"loop", "recv", "route", "put_request_response",
                                 "put_response_only"}
      BY <2>1 DEF Working, Places, TypeInv, TypeOK, EngineTypeOK, ThreadState
    <3> QED BY <3>1 DEF AnswerComing, NothingUnderWay, NoAnswerIn
  <2> QED BY <2>1, <2>2, <2>3 DEF Fresh, OneUnderWay, NothingUnderWay,
             FreshResponse, Working, engineVars
<1>5. CASE GiveUp
  <2>1. /\ pc = "receive" /\ attempt = RecvAttempts /\ pc' = "raised"
        /\ UNCHANGED <<request, engineVars, inbox, rx>>
    BY <1>5 DEF GiveUp, Retried, ClassOf, Raise, portVars, firmwareVars
  <2> QED BY <2>1 DEF Fresh, OneUnderWay, NothingUnderWay, FreshResponse, Working,
                      engineVars
<1> QED
  BY <1>1, <1>2, <1>3, <1>4, <1>5

(* Freshness: the engine thread carries the one answer to its queue.        *)
LEMMA FreshEngine ==
  ASSUME TypeInv, Routing, Fresh, EngineStep
  PROVE  Fresh'
<1>1. /\ UNCHANGED <<pc, op, request, response_only, attempt, response>>
      /\ AwaitsAnswer' = AwaitsAnswer /\ FreshResponse' = FreshResponse
  BY DEF EngineStep, callerVars, callVars, apiVars, AwaitsAnswer, FreshResponse
<1> USE DEF queueVars, portVars, firmwareVars
<1>2. CASE CheckActive \/ RecvNothing \/ RecvRaises \/ JoinSelf \/ Route
  <2>1. /\ UNCHANGED <<packet, response_cmd, CDC_request_response, inbox, rx>>
        /\ Working' => Working
    BY <1>2 DEF CheckActive, RecvNothing, RecvRaises, JoinSelf, Route,
                PortRecvNothing, PortRecvRaises, Working
  <2> QED BY <1>1, <2>1 DEF Fresh, OneUnderWay, NothingUnderWay
<1>3. CASE RouteRaises
  <2>1. /\ UNCHANGED <<response_cmd, CDC_request_response, inbox, rx>>
        /\ packet' = <<>> /\ ~Working'
    BY <1>3 DEF RouteRaises, Working
  <2> QED BY <1>1, <2>1 DEF Fresh
<1>4. CASE RecvPacket
  <2>1. /\ UNCHANGED <<response_cmd, CDC_request_response, inbox>>
        /\ packet' = <<Head(rx)>> /\ packet = <<>> /\ Working
        /\ \E n \in DOMAIN rx : rx' = SubSeq(rx, n + 1, Len(rx))
    BY <1>4 DEF RecvPacket, PortRecv, Working, TypeInv, HoldsPacket
  <2>2. rx \in Seq(Packet) /\ IsAnswer(Answer(request))
    BY DEF TypeInv, TypeOK, FirmwareTypeOK, IsAnswer, Answer
  <2>3. /\ NoAnswerIn(rx) => ~IsAnswer(Head(rx)) /\ NoAnswerIn(rx')
        /\ OneAnswerIn(rx, Answer(request)) /\ IsAnswer(Head(rx)) =>
             Head(rx) = Answer(request) /\ NoAnswerIn(rx')
        /\ OneAnswerIn(rx, Answer(request)) /\ ~IsAnswer(Head(rx)) =>
             NoAnswerIn(rx') \/ OneAnswerIn(rx', Answer(request))
    BY <2>1, <2>2, RestAnswers
  <2>4. packet' = <<Head(packet')>> /\ (NoAnswerIn(packet') <=> ~IsAnswer(Head(rx)))
    BY <2>1, OnePacket
  <2>5. OneUnderWay /\ (AwaitsAnswer \/ NothingUnderWay)
    BY <2>1 DEF Fresh
  <2>6. OneUnderWay'
    <3>1. CASE NoAnswerIn(rx)
      BY <1>1, <2>1, <2>3, <2>4, <2>5, <3>1 DEF OneUnderWay
    <3>2. CASE ~NoAnswerIn(rx)
      <4>1. OneAnswerIn(rx, Answer(request)) /\ CDC_request_response = <<>> /\ inbox = <<>>
        BY <2>5, <3>2 DEF OneUnderWay
      <4> QED BY <1>1, <2>1, <2>3, <2>4, <4>1 DEF OneUnderWay
    <3> QED BY <3>1, <3>2
  <2>7. NothingUnderWay => NothingUnderWay'
    BY <2>1, <2>3, <2>4 DEF NothingUnderWay
  <2> QED BY <1>1, <2>1, <2>4, <2>5, <2>6, <2>7 DEF Fresh
<1>5. CASE PutRequestResponse
  <2>1. /\ UNCHANGED <<response_cmd, inbox, rx>>
        /\ CDC_request_response' = Append(CDC_request_response, Head(packet))
        /\ packet' = <<>> /\ packet # <<>> /\ Working /\ Head(packet) \in Asked
    BY <1>5 DEF PutRequestResponse, Working, TypeInv, HoldsPacket, Routing
  <2>2. IsAnswer(Head(packet))
    BY <2>1 DEF Asked, Arriving, Fresh
  <2>3. ~NoAnswerIn(packet)
    <3>1. packet = <<Head(packet)>>
      BY <2>1 DEF Fresh
    <3> QED BY <2>2, <3>1, OnePacket
  <2>4. /\ packet = <<Answer(request)>> /\ CDC_request_response = <<>>
        /\ inbox = <<>> /\ NoAnswerIn(rx) /\ AwaitsAnswer
        /\ ~(pc = "receive" /\ attempt = RecvAttempts)
    BY <2>1, <2>3 DEF Fresh, OneUnderWay, NothingUnderWay
  <2>5. CDC_request_response' = <<Answer(request)>>
    BY <2>1, <2>4
  <2>6. OneUnderWay'
    BY <1>1, <2>1, <2>4, NoPacket DEF OneUnderWay
  <2> QED BY <1>1, <2>1, <2>4, <2>5, <2>6 DEF Fresh
<1>6. CASE PutResponseOnly
  <2>1. /\ UNCHANGED <<response_cmd, inbox, rx, CDC_request_response>>
        /\ packet' = <<>> /\ Working /\ NoAnswerIn(packet')
    BY <1>6, NoPacket DEF PutResponseOnly, Working
  <2> QED BY <1>1, <2>1 DEF Fresh, OneUnderWay, NothingUnderWay
<1> QED
  BY <1>2, <1>3, <1>4, <1>5, <1>6 DEF EngineStep, EngineThread

(* Freshness: the device answers the one request it has, once.              *)
LEMMA FreshDevice ==
  ASSUME TypeInv, Fresh, DeviceStep
  PROVE  Fresh'
<1>1. /\ UNCHANGED <<pc, op, request, response_only, attempt, response, engineVars>>
      /\ AwaitsAnswer' = AwaitsAnswer /\ FreshResponse' = FreshResponse
      /\ Working' = Working
  BY DEF DeviceStep, callerVars, callVars, apiVars, engineVars, AwaitsAnswer,
         FreshResponse, Working
<1>2. rx \in Seq(Packet) /\ request \in Request /\ Answer(request) \in Packet
  BY DEF TypeInv, TypeOK, FirmwareTypeOK, ConnectionTypeOK, Answer, Request, Packet
<1>3. Working => (OneUnderWay /\ (AwaitsAnswer \/ NothingUnderWay))'
                 /\ (NothingUnderWay => NothingUnderWay')
  <2> SUFFICES ASSUME Working
               PROVE  /\ (OneUnderWay /\ (AwaitsAnswer \/ NothingUnderWay))'
                      /\ NothingUnderWay => NothingUnderWay'
    OBVIOUS
  <2>1. OneUnderWay /\ (AwaitsAnswer \/ NothingUnderWay) BY DEF Fresh
  <2>2. CASE Act \/ LoseRequest
    <3>1. /\ inbox # <<>> /\ inbox' = Tail(inbox)
          /\ rx' = rx \/ rx' = Append(rx, Answer(Head(inbox)))
      BY <2>2 DEF Act, LoseRequest
    <3>2. /\ inbox = <<request>> /\ NoAnswerIn(rx) /\ NoAnswerIn(packet)
          /\ CDC_request_response = <<>> /\ ~NothingUnderWay
      BY <2>1, <3>1 DEF OneUnderWay, NothingUnderWay
    <3>3. inbox' = <<>> /\ Head(inbox) = request
      BY <3>1, <3>2
    <3>4. NoAnswerIn(rx') \/ OneAnswerIn(rx', Answer(request))
      BY <1>2, <3>1, <3>2, <3>3, AppendAnswers
    <3> QED BY <1>1, <2>1, <3>2, <3>3, <3>4 DEF OneUnderWay, engineVars
  <2>3. CASE Emit
    <3>1. Result(session) \in Packet /\ ~IsAnswer(Result(session))
      BY CommandAssumption DEF Result, Packet, NamedCommand, IsAnswer, TypeInv, TypeOK,
                               FirmwareTypeOK
    <3>2. rx' = Append(rx, Result(session)) /\ UNCHANGED inbox
      BY <2>3 DEF Emit
    <3>3. /\ NoAnswerIn(rx) => NoAnswerIn(rx')
          /\ OneAnswerIn(rx, Answer(request)) => OneAnswerIn(rx', Answer(request))
      BY <1>2, <3>1, <3>2, AppendAnswers
    <3> QED BY <1>1, <2>1, <3>2, <3>3 DEF OneUnderWay, NothingUnderWay, engineVars
  <2> QED BY <2>2, <2>3 DEF DeviceStep, FirmwareNext
<1> QED
  BY <1>1, <1>3 DEF Fresh, engineVars

(* The assumption under which answers are fresh: the device answers before  *)
(* the caller gives up, and nobody asks for results with a request.         *)
PromptUse == Prompt /\ MULTI_RESULTS_GET \notin RequestCommand

(* Freshness: the steps of the API layer, which sends and receives nothing. *)
LEMMA FreshApi ==
  ASSUME PromptUse, Places, Fresh, Call \/ ApiStep
  PROVE  Fresh'
<1>1. MULTI_RESULTS_SWITCH # MULTI_RESULTS_GET /\ SWITCH_SPI_CHANNEL # MULTI_RESULTS_GET
  BY CommandAssumption
<1>2. ~AwaitsAnswer
  BY DEF Call, connectDevice, disconnectDevice, SimpleRequest, SwitchOn, SwitchOff,
         getMultiResults, Begin, ApiStep, SelectChannel, ClearResults,
         RequestSucceeds, RequestFails, DecodeRaises, Succeeds, DriverFails, Propagates, AwaitsAnswer
<1>3. UNCHANGED <<engineVars, inbox, rx>>
  BY DEF Call, connectDevice, disconnectDevice, SimpleRequest, SwitchOn, SwitchOff,
         getMultiResults, Begin, ApiStep, SelectChannel, ClearResults, RequestSucceeds,
         RequestFails, DecodeRaises, Succeeds, DriverFails, Propagates, Finish, portVars, firmwareVars
<1>4. request'.cmd # MULTI_RESULTS_GET
  <2>1. CASE UNCHANGED request BY <2>1 DEF Fresh
  <2>2. CASE \E cmd \in RequestCommand \cup {MULTI_RESULTS_SWITCH, SWITCH_SPI_CHANNEL} :
               \E on \in BOOLEAN : NewRequest(cmd, on)
    BY <1>1, <2>2 DEF NewRequest, PromptUse
  <2> QED BY <2>1, <2>2 DEF Call, connectDevice, disconnectDevice, SimpleRequest,
             SwitchOn, SwitchOff, getMultiResults, ApiStep, SelectChannel,
             ClearResults, RequestSucceeds, RequestFails, DecodeRaises, Succeeds, DriverFails,
             Propagates, Finish, callVars
<1>5. pc' # "returned"
  BY DEF Call, connectDevice, disconnectDevice, SimpleRequest, SwitchOn, SwitchOff,
         getMultiResults, Begin, ApiStep, SelectChannel, ClearResults,
         RequestSucceeds, RequestFails, DecodeRaises, Succeeds, DriverFails, Propagates, Finish
<1> QED
  BY <1>2, <1>3, <1>4, <1>5, FreshQuiet DEF engineVars

(* Freshness: the connection's steps during which no answer is awaited.     *)
LEMMA FreshConnection ==
  ASSUME Places, Fresh, ~AwaitsAnswer, ConnectionStep, ~Write, UNCHANGED apiVars
  PROVE  Fresh'
<1> USE DEF Goto, Raise, apiVars, callVars, engineVars, portVars, firmwareVars
<1>1. request'.cmd # MULTI_RESULTS_GET /\ op' = op
  <2>1. UNCHANGED request
    BY DEF ConnectionStep, ConnectStep, OpenPort, OpenPortRaises, SetupPort,
       SetupPortRaises, StartEngine, StartEngineRaises, Establish, ExchangeStep,
       NotEstablished, Register, WriteRaises, Listen, GetExpected, GetOther,
       GetTimesOut, GiveUp, ClearOne, ClearDone, CloseStep, CloseAlive, CloseDead,
       JoinEngine, ClosePort, ClosePortRaises
  <2> QED BY <2>1 DEF Fresh
<1>2. CASE ConnectStep
  <2> USE DEF ConnectStep, OpenPort, OpenPortRaises, SetupPort, SetupPortRaises,
              StartEngine, StartEngineRaises, Establish
  <2>1. /\ UNCHANGED <<inbox, packet, CDC_request_response, response_cmd>>
        /\ rx' = rx \/ rx' = <<>>
        /\ thread' = thread \/ (thread = "new" /\ thread' = "loop")
    BY <1>2 DEF CreateFile, CreateFileRaises, PurgeComm, PurgeCommRaises, Start,
                StartRaises, queueVars
  <2>2. op' \notin RequestMade
    BY <1>1, <1>2 DEF Places, RequestMade
  <2> QED BY <1>1, <2>1, <2>2, FreshQuiet
<1>3. CASE ExchangeStep
  <2>1. CASE NotEstablished BY <1>1, <2>1, FreshQuiet DEF NotEstablished
  <2>2. CASE Register BY <1>1, <2>2, FreshQuiet DEF Register, RegisterCommand
  <2>3. CASE WriteRaises BY <1>1, <2>3, FreshQuiet DEF WriteRaises, PortSendRaises
  <2>4. CASE Listen BY <1>1, <2>4, FreshQuiet DEF Listen
  <2>5. CASE GetExpected \/ GetOther
    <3>1. response_only /\ pc = "receive" BY <2>5 DEF GetExpected, GetOther, Waiting, AwaitsAnswer
    <3>2. UNCHANGED <<thread, packet, response_cmd, CDC_request_response, inbox, rx>>
      BY <2>5, <3>1 DEF GetExpected, GetOther, Dequeue
    <3>3. op' \notin RequestMade BY <1>1, <3>1 DEF Places, RequestMade
    <3> QED BY <1>1, <3>2, <3>3, FreshQuiet
  <2>6. CASE GetTimesOut BY <1>1, <2>6, FreshQuiet DEF GetTimesOut, Waiting
  <2>7. CASE GiveUp BY <1>1, <2>7, FreshQuiet DEF GiveUp
  <2>8. CASE ClearOne \/ ClearDone
    <3>1. op' \notin RequestMade BY <1>1, <2>8 DEF ClearOne, ClearDone, Places, RequestMade
    <3> QED BY <1>1, <2>8, <3>1, FreshQuiet DEF ClearOne, ClearDone
  <2> QED BY <1>3, <2>1, <2>2, <2>3, <2>4, <2>5, <2>6, <2>7, <2>8 DEF ExchangeStep
<1>4. CASE CloseStep
  <2> USE DEF CloseStep, CloseAlive, CloseDead, JoinEngine, ClosePort, ClosePortRaises
  <2>1. /\ UNCHANGED <<thread, inbox, packet, CDC_request_response, response_cmd>>
        /\ rx' = rx \/ rx' = <<>>
    BY <1>4 DEF ClearActive, PortClose, PortCloseRaises, queueVars
  <2>2. op' \notin RequestMade BY <1>1, <1>4 DEF Places, RequestMade
  <2> QED BY <1>1, <2>1, <2>2, FreshQuiet
<1> QED
  BY <1>2, <1>3, <1>4 DEF ConnectionStep

(* Freshness: every step.                                                   *)
LEMMA FreshStep ==
  ASSUME PromptUse, TypeInv, Routing, Places, Fresh, [Next]_vars
  PROVE  Fresh'
<1>1. CASE UNCHANGED vars
  BY <1>1 DEF vars, callerVars, callVars, apiVars, engineVars, portVars, firmwareVars,
     Fresh, OneUnderWay, NothingUnderWay, AwaitsAnswer, Working, FreshResponse
<1>2. CASE Call \/ ApiStep BY <1>2, FreshApi
<1>3. CASE EngineStep BY <1>3, FreshEngine
<1>4. CASE DeviceStep BY <1>4, FreshDevice
<1>5. CASE ConnectionStep /\ UNCHANGED apiVars
  <2>1. CASE Write BY <2>1, FreshWrite
  <2>2. CASE ~Write /\ ~AwaitsAnswer BY <1>5, <2>2, FreshConnection
  <2>3. CASE AwaitsAnswer
    <3>1. Listen \/ GetExpected \/ GetOther \/ GetTimesOut \/ GiveUp
      <4>1. is_connected BY <2>3 DEF AwaitsAnswer, Places
      <4>2. pc \in {"listen", "receive"} BY <2>3 DEF AwaitsAnswer
      <4> QED BY <1>5, <4>1, <4>2 DEF ConnectionStep, ConnectStep, OpenPort, OpenPortRaises,
         SetupPort, SetupPortRaises, StartEngine, StartEngineRaises, Establish,
         ExchangeStep, NotEstablished, Register, Write, WriteRaises, ClearOne,
         ClearDone, CloseStep, CloseAlive, CloseDead, JoinEngine, ClosePort,
         ClosePortRaises
    <3> QED BY <2>3, <3>1, FreshReceive DEF PromptUse
  <2> QED BY <2>1, <2>2, <2>3
<1> QED
  BY <1>1, <1>2, <1>3, <1>4, <1>5 DEF Next, CallerStep, Terminated

(* A request leaves nothing behind when it is over, and the caller's place  *)
(* is that of the call it is in.                                            *)
THEOREM FreshHolds ==
  ASSUME PromptUse
  PROVE  Spec => [](Places /\ Fresh)
<1>1. ASSUME TypeInv, LifeCycle, Routing, Places /\ Fresh, [Next]_vars
      PROVE  (Places /\ Fresh)'
  BY <1>1, PlacesStep, FreshStep
<1>2. Init => Places /\ Fresh
  BY PlacesInit, FreshInit
<1> QED
  BY <1>1, <1>2, TypeInvAlways, LifeCycleHolds, RoutingHolds, PTL DEF Spec

(* The response of a request is the answer to that very request, in every   *)
(* interleaving, whatever the line loses and the port refuses, as long as   *)
(* the device answers in time (connection.py:67).                           *)
THEOREM ResponsesFresh ==
  ASSUME PromptUse
  PROVE  Spec => []FreshResponse
BY FreshHolds, PTL DEF Fresh

-----------------------------------------------------------------------------
(* No result behind the answer to "off".                                    *)

(* Appending to results alone leaves an answer, if any, at the end.         *)
LEMMA AppendResults ==
  ASSUME NEW s \in Seq(Packet), NEW p \in Packet
  PROVE  /\ NoAnswerIn(s) => AnswerLast(Append(s, p))
         /\ NoAnswerIn(Append(s, p)) <=> NoAnswerIn(s) /\ ~IsAnswer(p)
<1> DEFINE t == Append(s, p)
<1>1. /\ DOMAIN s = 1..Len(s) /\ Len(s) \in Nat
      /\ DOMAIN t = 1..(Len(s) + 1) /\ t[Len(s) + 1] = p
      /\ \A i \in 1..Len(s) : t[i] = s[i]
  BY AppendProperties, LenProperties
<1> HIDE DEF t
<1>2. NoAnswerIn(s) => AnswerLast(t)
  BY <1>1 DEF NoAnswerIn, AnswerLast
<1>3. NoAnswerIn(t) <=> NoAnswerIn(s) /\ ~IsAnswer(p)
  BY <1>1 DEF NoAnswerIn
<1> QED
  BY <1>2, <1>3 DEF t

(* When the head is an answer and answers are last, no result is left.      *)
LEMMA RestResults ==
  ASSUME NEW s \in Seq(Packet), NEW n \in DOMAIN s,
         NEW t, t = SubSeq(s, n + 1, Len(s))
  PROVE  /\ NoResultIn(s) => NoResultIn(t) /\ NoResultIn(<<Head(s)>>)
         /\ AnswerLast(s) => AnswerLast(t)
         /\ AnswerLast(s) /\ IsAnswer(Head(s)) => NoResultIn(t)
         /\ ~NoAnswerIn(t) => ~NoAnswerIn(s)
         /\ IsAnswer(Head(s)) => ~NoAnswerIn(s)
<1>1. /\ DOMAIN s = 1..Len(s) /\ Len(s) \in Nat \ {0} /\ Head(s) = s[1]
      /\ n \in 1..Len(s) /\ DOMAIN t = 1..(Len(s) - n)
      /\ \A i \in 1..(Len(s) - n) : t[i] = s[n + i]
  BY RestOfRead
<1>2. NoResultIn(s) => NoResultIn(t) /\ NoResultIn(<<Head(s)>>)
  BY <1>1 DEF NoResultIn
<1>3. /\ ~NoAnswerIn(t) => ~NoAnswerIn(s)
      /\ IsAnswer(Head(s)) => ~NoAnswerIn(s)
  BY <1>1 DEF NoAnswerIn
<1>4. AnswerLast(s) => AnswerLast(t)
  <2> SUFFICES ASSUME AnswerLast(s), NEW i \in DOMAIN t, NEW j \in DOMAIN t,
                      i < j, IsAnswer(t[i])
               PROVE  IsAnswer(t[j])
    BY DEF AnswerLast
  <2>1. n + i \in DOMAIN s /\ n + j \in DOMAIN s /\ n + i < n + j /\ IsAnswer(s[n + i])
    BY <1>1
  <2> QED BY <1>1, <2>1 DEF AnswerLast
<1>5. AnswerLast(s) /\ IsAnswer(Head(s)) => NoResultIn(t)
  <2> SUFFICES ASSUME AnswerLast(s), IsAnswer(Head(s)), NEW j \in DOMAIN t
               PROVE  IsAnswer(t[j])
    BY DEF NoResultIn
  <2>1. 1 \in DOMAIN s /\ n + j \in DOMAIN s /\ 1 < n + j /\ IsAnswer(s[1])
    BY <1>1
  <2> QED BY <1>1, <2>1 DEF AnswerLast
<1> QED
  BY <1>2, <1>3, <1>4, <1>5

(* Draining: no collection is on in the beginning.                          *)
LEMMA DrainInit == Init => Drain
BY DEF Init, Drain

(* Draining: a step that moves no packet to the queues or from the line.    *)
LEMMA DrainQuiet ==
  ASSUME Drain, Working' => Working,
         UNCHANGED <<op, request, inbox, rx, session, packet>>,
         op = "switchOff" /\ (CDC_request_response' # <<>> \/ pc' = "returned") =>
           CDC_request_response # <<>> \/ pc = "returned",
         op = "clearQueue" /\ pc' \in {"returned", "idle"} => CDC_response_only' = <<>>
  PROVE  Drain'
BY DEF Drain, Drained

(* Draining: the engine thread, on the way from the port to a queue.        *)
LEMMA DrainEngine ==
  ASSUME TypeInv, Routing, Fresh, Drain, EngineStep
  PROVE  Drain'
<1>1. UNCHANGED <<pc, op, request, inbox, session>>
  BY DEF EngineStep, callerVars, callVars, apiVars, EngineThread, CheckActive,
         RecvNothing, RecvPacket, RecvRaises, JoinSelf, Route, RouteRaises,
         PutRequestResponse, PutResponseOnly, PortRecvNothing, PortRecv,
         PortRecvRaises, portVars, firmwareVars
<1> USE DEF queueVars, portVars, firmwareVars
<1>2. CASE CheckActive \/ RecvNothing \/ RecvRaises \/ JoinSelf \/ Route
  <2>1. /\ UNCHANGED <<packet, CDC_request_response, CDC_response_only, rx>>
        /\ Working' => Working
    BY <1>2 DEF CheckActive, RecvNothing, RecvRaises, JoinSelf, Route,
                PortRecvNothing, PortRecvRaises, Working
  <2> QED BY <1>1, <2>1, DrainQuiet DEF Drain
<1>3. CASE RouteRaises
  <2>1. /\ UNCHANGED <<CDC_request_response, CDC_response_only, rx>>
        /\ packet' = <<>> /\ ~Working' /\ NoResultIn(packet')
    BY <1>3 DEF RouteRaises, Working, NoResultIn
  <2> QED BY <1>1, <2>1 DEF Drain, Drained
<1>4. CASE RecvPacket
  <2>1. /\ UNCHANGED <<CDC_request_response, CDC_response_only>> /\ Working
        /\ packet' = <<Head(rx)>> /\ rx \in Seq(Packet)
        /\ \E n \in DOMAIN rx : rx' = SubSeq(rx, n + 1, Len(rx))
    BY <1>4 DEF RecvPacket, PortRecv, Working, TypeInv, TypeOK, FirmwareTypeOK
  <2>2. Drained => Drained'
    BY <1>1, <2>1, RestResults DEF Drained
  <2>3. /\ ~NoAnswerIn(rx') => ~NoAnswerIn(rx)
        /\ ~NoAnswerIn(packet') => ~NoAnswerIn(rx) /\ IsAnswer(Head(rx))
    BY <2>1, RestResults, OnePacket
  <2>4. /\ AnswerLast(rx) => AnswerLast(rx')
        /\ AnswerLast(rx) /\ IsAnswer(Head(rx)) => NoResultIn(rx')
    BY <2>1, RestResults
  <2> QED BY <1>1, <2>1, <2>2, <2>3, <2>4 DEF Drain
<1>5. CASE PutRequestResponse
  <2>1. /\ packet # <<>> /\ packet' = <<>> /\ Working /\ Head(packet) \in Asked
        /\ UNCHANGED <<rx, CDC_response_only>>
    BY <1>5 DEF PutRequestResponse, Working, TypeInv, HoldsPacket, Routing
  <2>2. ~NoAnswerIn(packet)
    <3>1. packet = <<Head(packet)>> /\ IsAnswer(Head(packet))
      BY <2>1 DEF Fresh, Asked, Arriving
    <3> QED BY <3>1, OnePacket
  <2>3. inbox = <<>>
    BY <2>1, <2>2 DEF Fresh, OneUnderWay
  <2>4. NoAnswerIn(packet') /\ NoResultIn(packet')
    BY <2>1 DEF NoAnswerIn, NoResultIn
  <2> QED BY <1>1, <2>1, <2>2, <2>3, <2>4 DEF Drain, Drained
<1>6. CASE PutResponseOnly
  <2>1. /\ packet # <<>> /\ packet' = <<>> /\ Working /\ Head(packet) \in Unasked
        /\ UNCHANGED <<rx, CDC_request_response>>
    BY <1>6 DEF PutResponseOnly, Working, TypeInv, HoldsPacket, Routing
  <2>2. ~NoResultIn(packet)
    <3>1. packet = <<Head(packet)>> /\ ~IsAnswer(Head(packet))
      BY <2>1 DEF Fresh, Unasked
    <3>2. 1 \in DOMAIN packet /\ packet[1] = Head(packet)
      BY <3>1
    <3> QED BY <3>1, <3>2 DEF NoResultIn
  <2>3. NoAnswerIn(packet')
    BY <2>1 DEF NoAnswerIn
  <2> QED BY <1>1, <2>1, <2>2, <2>3 DEF Drain, Drained
<1> QED
  BY <1>2, <1>3, <1>4, <1>5, <1>6 DEF EngineStep, EngineThread

(* Draining: the device switches off before it answers.                     *)
LEMMA DrainDevice ==
  ASSUME TypeInv, Fresh, Drain, DeviceStep
  PROVE  Drain'
<1>1. UNCHANGED <<pc, op, request, engineVars>> /\ Working' = Working
  BY DEF DeviceStep, callerVars, callVars, apiVars, engineVars, Working
<1>2. rx \in Seq(Packet) /\ request \in Request /\ Answer(request) \in Packet
  BY DEF TypeInv, TypeOK, FirmwareTypeOK, ConnectionTypeOK, Answer, Request, Packet
<1>3. CASE Act
  <2>1. ~Drained /\ inbox # <<>>
    BY <1>3 DEF Act, Drained
  <2>2. ASSUME op = "switchOff", Working
        PROVE  /\ session' = 0 /\ AnswerLast(rx') /\ NoAnswerIn(packet')
    <3>1. inbox = <<request>> /\ NoAnswerIn(rx) /\ NoAnswerIn(packet)
      BY <2>1, <2>2 DEF Fresh, OneUnderWay
    <3>2. Head(inbox) = request
      BY <3>1
    <3>3. session' = 0
      BY <1>3, <2>2, <3>2 DEF Act, SessionAfter, Drain
    <3>4. AnswerLast(rx)
      BY <3>1 DEF NoAnswerIn, AnswerLast
    <3>5. rx' = rx \/ rx' = Append(rx, Answer(request))
      BY <1>3, <3>2 DEF Act
    <3>6. AnswerLast(rx')
      BY <1>2, <3>1, <3>4, <3>5, AppendResults
    <3> QED BY <1>1, <3>1, <3>3, <3>6 DEF engineVars
  <2> QED BY <1>1, <2>1, <2>2 DEF Drain, engineVars
<1>4. CASE LoseRequest
  <2>1. ~Drained /\ UNCHANGED <<rx, session>>
    BY <1>4 DEF LoseRequest, Drained
  <2> QED BY <1>1, <2>1 DEF Drain, engineVars
<1>5. CASE Emit
  <2>1. ~Drained /\ session # 0 /\ session' = session /\ rx' = Append(rx, Result(session))
    BY <1>5 DEF Emit, Drained
  <2>2. Result(session) \in Packet /\ ~IsAnswer(Result(session))
    BY CommandAssumption DEF Result, Packet, NamedCommand, IsAnswer, TypeInv, TypeOK,
                             FirmwareTypeOK
  <2>3. NoAnswerIn(rx) => NoAnswerIn(rx')
    BY <1>2, <2>1, <2>2, AppendResults
  <2> QED BY <1>1, <2>1, <2>3 DEF Drain, engineVars
<1> QED
  BY <1>3, <1>4, <1>5 DEF DeviceStep, FirmwareNext

(* Draining: the API layer, which clears the queue after the answer.        *)
LEMMA DrainApi ==
  ASSUME Places, Fresh, Drain, Call \/ ApiStep
  PROVE  Drain'
<1>1. UNCHANGED <<engineVars, inbox, rx, session>> /\ Working' = Working
  BY DEF Call, connectDevice, disconnectDevice, SimpleRequest, SwitchOn, SwitchOff,
         getMultiResults, Begin, ApiStep, SelectChannel, ClearResults, RequestSucceeds,
         RequestFails, DecodeRaises, Succeeds, DriverFails, Propagates, Finish, portVars,
         firmwareVars, engineVars, Working
<1>2. CASE op' \notin {"switchOff", "clearQueue"}
  BY <1>2 DEF Drain
<1>3. CASE SwitchOff
  <2>1. /\ op' = "switchOff" /\ pc' = "send" /\ ~AwaitsAnswer
        /\ request'.cmd = MULTI_RESULTS_SWITCH /\ ~request'.on
    BY <1>3 DEF SwitchOff, Begin, NewRequest, AwaitsAnswer
  <2> QED BY <1>1, <2>1 DEF Drain, Fresh, NothingUnderWay, engineVars
<1>4. CASE ClearResults
  BY <1>1, <1>4 DEF ClearResults, Drain, Drained, callVars, engineVars
<1>5. CASE \E result \in Status : pc \in {"returned", "raised"} /\ Finish(result)
  BY <1>1, <1>5, DrainQuiet DEF Finish, callVars, engineVars, Drain, Places
<1> QED
  BY <1>2, <1>3, <1>4, <1>5
     DEF Call, connectDevice, disconnectDevice, SimpleRequest, SwitchOn, getMultiResults,
         Begin, ApiStep, SelectChannel, RequestSucceeds, RequestFails, DecodeRaises, Succeeds,
         DriverFails, Propagates, Status

(* Draining: the connection's steps.                                        *)
LEMMA DrainConnection ==
  ASSUME Places, Fresh, Drain, ConnectionStep, UNCHANGED apiVars
  PROVE  Drain'
<1> USE DEF Goto, Raise, apiVars, callVars, engineVars, portVars, firmwareVars
<1>1. CASE op \notin {"switchOff", "clearQueue"}
  BY <1>1 DEF Drain
<1>2. CASE op \in {"switchOff", "clearQueue"}
  <2>1. pc \in {"send", "write", "listen", "receive", "clear", "returned", "raised", "idle"}
        /\ ~ConnectStep /\ ~CloseStep
    BY <1>2 DEF Places, ConnectionStep, ConnectStep, OpenPort, OpenPortRaises, SetupPort,
       SetupPortRaises, StartEngine, StartEngineRaises, Establish, ExchangeStep,
       NotEstablished, Register, Write, WriteRaises, Listen, GetExpected, GetOther,
       GetTimesOut, GiveUp, Waiting, ClearOne, ClearDone, CloseStep, CloseAlive,
       CloseDead, JoinEngine, ClosePort, ClosePortRaises
  <2>2. CASE NotEstablished \/ Register \/ WriteRaises \/ Listen \/ GetTimesOut \/ GiveUp
    <3>1. /\ UNCHANGED <<op, request, inbox, rx, session, packet, thread,
                         CDC_request_response, CDC_response_only>>
          /\ pc' \notin {"returned", "idle"}
      BY <2>2 DEF NotEstablished, Register, RegisterCommand, WriteRaises,
                  PortSendRaises, Listen, GetTimesOut, GiveUp, Waiting
    <3> QED BY <3>1, DrainQuiet DEF Working
  <2>3. CASE Write
    <3>1. /\ UNCHANGED <<op, request, rx, session, packet, thread, CDC_request_response>>
          /\ op = "switchOff" /\ pc' = "listen" /\ ~AwaitsAnswer
      BY <1>2, <2>3 DEF Write, PortSend, Places, AwaitsAnswer
    <3> QED BY <3>1 DEF Drain, Fresh, Working
  <2>4. CASE GetExpected \/ GetOther
    <3>1. /\ UNCHANGED <<op, request, inbox, rx, session, packet, thread>>
          /\ op = "switchOff" /\ CDC_request_response # <<>>
      BY <1>2, <2>4 DEF GetExpected, GetOther, Dequeue, Waiting, RecvQueue, Places
    <3> QED BY <3>1, DrainQuiet DEF Working
  <2>5. CASE ClearOne \/ ClearDone
    <3>1. /\ UNCHANGED <<op, request, inbox, rx, session, packet, thread>>
          /\ op = "clearQueue" /\ pc' \in {"returned", "idle"} => CDC_response_only' = <<>>
          /\ op = "clearQueue"
      BY <1>2, <2>5 DEF ClearOne, ClearDone, Places
    <3> QED BY <3>1, DrainQuiet DEF Working
  <2> QED BY <2>1, <2>2, <2>3, <2>4, <2>5 DEF ConnectionStep, ExchangeStep
<1> QED
  BY <1>1, <1>2

(* After the collection has been switched off successfully no result of it  *)
(* is left, neither queued nor with the engine thread nor in the port: the  *)
(* answer to "off" is the last packet of the session, and it passes through *)
(* the same port and thread (ksoc_connection.py:306).                       *)
THEOREM ResultsDrained ==
  ASSUME PromptUse
  PROVE  Spec => []StopDrains
<1>1. ASSUME TypeInv, LifeCycle, Routing, Places /\ Fresh, Drain, [Next]_vars
      PROVE  Drain'
  <2>1. CASE UNCHANGED vars
    BY <1>1, <2>1, DrainQuiet DEF vars, callerVars, callVars, apiVars, engineVars,
       portVars, firmwareVars, Drain, Working
  <2> QED BY <1>1, <2>1, DrainApi, DrainConnection, DrainEngine, DrainDevice
          DEF Next, CallerStep, Terminated
<1>2. ASSUME Drain PROVE StopDrains
  <2> SUFFICES ASSUME pc = "idle", op = "clearQueue",
                      NEW s \in {CDC_response_only, packet, rx}, NEW i \in DOMAIN s
               PROVE  s[i].kind # "result"
    BY DEF StopDrains
  <2>1. CDC_response_only = <<>> /\ NoResultIn(packet) /\ NoResultIn(rx)
    BY <1>2 DEF Drain, Drained
  <2>2. NoResultIn(s)
    BY <2>1 DEF NoResultIn
  <2> QED BY <2>2 DEF NoResultIn, IsAnswer
<1> QED
  BY <1>1, <1>2, DrainInit, FreshHolds, TypeInvAlways, LifeCycleHolds, RoutingHolds, PTL
     DEF Spec

-----------------------------------------------------------------------------
(* The port is released.                                                    *)

(* The assumption under which it is: one connection, and none of the faults *)
(* that leave the handle open or end the engine thread by itself.           *)
SafeUse == Faults \cap {"setup", "recv", "frame", "close"} = {} /\ MaxConnects <= 1

(* Releasing: the port is not open in the beginning.                        *)
LEMMA ReleaseInit == Init => Release
BY DEF Init, PortInit, EngineInit, ConnectionInit, Release, PortReleased, is_alive

(* Releasing: the engine thread ends only when it has been told to.         *)
LEMMA ReleaseEngine ==
  ASSUME SafeUse, LifeCycle, Release, EngineStep
  PROVE  Release'
<1>1. UNCHANGED <<pc, op, status, connects>> /\ thread # "new"
  BY DEF EngineStep, callerVars, apiVars, EngineThread, CheckActive,
         RecvNothing, RecvPacket, RecvRaises, JoinSelf, Route, RouteRaises,
         PutRequestResponse, PutResponseOnly
<1> USE DEF Release, LifeCycle, PortReleased, is_alive, queueVars, portVars
<1>2. CASE CheckActive BY <1>1, <1>2 DEF CheckActive
<1>3. CASE RecvNothing \/ RecvPacket \/ Route \/ PutRequestResponse \/ PutResponseOnly
  <2>1. /\ UNCHANGED <<handle, active>>
        /\ thread' \notin {"new", "exited", "crashed", "stopping"} /\ is_alive
    BY <1>3 DEF RecvNothing, RecvPacket, Route, PutRequestResponse, PutResponseOnly,
                PortRecvNothing, PortRecv
  <2> QED BY <1>1, <2>1
<1>4. CASE RecvRaises
  BY <1>4 DEF RecvRaises, PortRecvRaises, SafeUse
<1>5. CASE RouteRaises BY <1>5 DEF RouteRaises, SafeUse
<1>6. CASE JoinSelf BY <1>6 DEF JoinSelf
<1> QED
  BY <1>2, <1>3, <1>4, <1>5, <1>6 DEF EngineStep, EngineThread

(* Releasing: the steps of the caller's thread.                             *)
LEMMA ReleaseCaller ==
  ASSUME SafeUse, TypeOK, LifeCycle, Places, Release, Call \/ CallerStep
  PROVE  Release'
<1> USE DEF Release, LifeCycle, Places, PortReleased, is_alive, Goto, Raise, apiVars,
            callVars, engineVars, portVars, queueVars
<1>1. CASE Call
  <2>1. /\ UNCHANGED <<handle, thread, active>> /\ pc = "idle"
        /\ pc' \in {"CreateFile", "close", "send", "listen"} /\ status' = "pending"
    BY <1>1 DEF Call, connectDevice, disconnectDevice, SimpleRequest, SwitchOn,
                SwitchOff, getMultiResults, Begin
  <2>2. CASE connectDevice
    <3>1. connects = 0 /\ connects' # 0
      BY <2>2, IntegrationAssumption
         DEF connectDevice, SafeUse, TypeOK, IntegrationTypeOK
    <3> QED BY <2>1, <3>1
  <2>3. CASE ~connectDevice
    <3>1. pc' # "CreateFile" /\ UNCHANGED connects
      BY <1>1, <2>3 DEF Call, disconnectDevice, SimpleRequest, SwitchOn,
                        SwitchOff, getMultiResults, Begin
    <3> QED BY <2>1, <3>1
  <2> QED BY <2>2, <2>3
<1>2. CASE ApiStep
  <2>1. CASE SelectChannel BY <2>1 DEF SelectChannel
  <2>2. CASE ClearResults BY <2>2 DEF ClearResults
  <2>3. CASE \E result \in Status :
               /\ pc = "returned" \/ (pc = "raised" /\ result # "KKT_SUCCESS")
               /\ Finish(result)
    <3>1. /\ UNCHANGED <<op, connects, handle, thread, active>>
          /\ pc \in {"returned", "raised"} /\ pc' = "idle"
          /\ status' = "KKT_SUCCESS" => pc = "returned"
      BY <2>3 DEF Finish
    <3> QED BY <3>1
  <2> QED BY <1>2, <2>1, <2>2, <2>3 DEF ApiStep, RequestSucceeds, RequestFails, DecodeRaises,
             Succeeds, DriverFails, Propagates, Status
<1>3. CASE ConnectStep /\ UNCHANGED apiVars
  <2> USE <1>3
  <2>1. CASE OpenPort BY <2>1 DEF OpenPort, CreateFile
  <2>2. CASE OpenPortRaises BY <2>2 DEF OpenPortRaises, CreateFileRaises
  <2>3. CASE SetupPort BY <2>3 DEF SetupPort, PurgeComm
  <2>4. CASE SetupPortRaises BY <2>4 DEF SetupPortRaises, PurgeCommRaises, SafeUse
  <2>5. CASE StartEngine BY <2>5 DEF StartEngine, Start
  <2>6. CASE StartEngineRaises BY <2>6 DEF StartEngineRaises, StartRaises
  <2>7. CASE Establish BY <2>7 DEF Establish
  <2> QED BY <2>1, <2>2, <2>3, <2>4, <2>5, <2>6, <2>7 DEF ConnectStep
<1>4. CASE ExchangeStep /\ UNCHANGED apiVars
  <2>1. UNCHANGED <<handle, thread, active>>
    BY <1>4 DEF ExchangeStep, NotEstablished, Register, RegisterCommand, Write, PortSend,
       WriteRaises, PortSendRaises, Listen, GetExpected, GetOther, Dequeue,
       GetTimesOut, GiveUp, ClearOne, ClearDone
  <2>2. /\ pc \in {"send", "write", "listen", "receive", "clear"}
        /\ pc' \in {"send", "write", "listen", "receive", "clear", "returned", "raised"}
    BY <1>4 DEF ExchangeStep, NotEstablished, Register, Write, WriteRaises, Listen,
       GetExpected, GetOther, GetTimesOut, Waiting, GiveUp, ClearOne, ClearDone
  <2>3. op # "disconnectDevice"
    BY <2>2 DEF RequestMade
  <2> QED BY <1>4, <2>1, <2>2, <2>3
<1>5. CASE CloseStep /\ UNCHANGED apiVars
  <2> USE <1>5
  <2>1. CASE CloseAlive BY <2>1 DEF CloseAlive, ClearActive
  <2>2. CASE CloseDead BY <2>2 DEF CloseDead
  <2>3. CASE JoinEngine BY <2>3 DEF JoinEngine
  <2>4. CASE ClosePort BY <2>4 DEF ClosePort, PortClose
  <2>5. CASE ClosePortRaises BY <2>5 DEF ClosePortRaises, PortCloseRaises, SafeUse
  <2> QED BY <2>1, <2>2, <2>3, <2>4, <2>5 DEF CloseStep
<1> QED
  BY <1>1, <1>2, <1>3, <1>4, <1>5 DEF CallerStep, ConnectionStep

(* A disconnect that reports success has released the port, if the engine   *)
(* thread has not died before (connection.py:106-111).                      *)
THEOREM PortIsReleased ==
  ASSUME SafeUse
  PROVE  Spec => []PortReleased
<1>1. ASSUME TypeInv, LifeCycle, Places, Release, [Next]_vars
      PROVE  (Places /\ Release)'
  <2>1. CASE UNCHANGED vars
    BY <1>1, <2>1 DEF vars, callerVars, callVars, apiVars, engineVars, portVars,
       Places, Release, PortReleased, is_alive
  <2>2. CASE DeviceStep
    BY <1>1, <2>2, PlacesStep DEF DeviceStep, callerVars, apiVars, engineVars,
       Release, PortReleased, is_alive
  <2> QED BY <1>1, <2>1, <2>2, PlacesStep, ReleaseEngine, ReleaseCaller
          DEF Next, Terminated, TypeInv
<1>2. Release => PortReleased
  BY DEF Release
<1> QED
  BY <1>1, <1>2, PlacesInit, ReleaseInit, TypeInvAlways, LifeCycleHolds, PTL DEF Spec
=============================================================================
