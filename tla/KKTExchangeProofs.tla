--------------------------- MODULE KKTExchangeProofs ---------------------------
(***************************************************************************)
(* With a device that answers in time, the system implements the abstract  *)
(* exchange of module RequestResponse: the initial state maps to an        *)
(* initial state, and every step to a step or to none.                     *)
(***************************************************************************)
EXTENDS KKTExchange, KKTFreshProofs

-----------------------------------------------------------------------------
(* Without its history variables NotedSpec is Spec.                         *)
LEMMA NotedImplementsSpec == NotedSpec => Spec
<1>1. NotedInit => Init
  BY DEF NotedInit
<1>2. ASSUME [NotedNext]_<<vars, historyVars>> PROVE [Next]_vars
  BY <1>2 DEF NotedNext, ActNoted, LossNoted, OtherStep, Next, DeviceStep,
              FirmwareNext
<1> QED
  BY <1>1, <1>2, PTL DEF NotedSpec, Spec

-----------------------------------------------------------------------------
(* Requests are carried out in order.                                       *)

(* The numbers requests and packets carry are natural.                      *)
LEMMA NumbersAreNat ==
  /\ \A s \in Seq(Request) : \A i \in DOMAIN s : s[i].id \in Nat
  /\ \A s \in Seq(Packet) : \A i \in DOMAIN s : s[i].re \in Nat
<1>1. ASSUME NEW s \in Seq(Request), NEW i \in DOMAIN s PROVE s[i].id \in Nat
  <2>1. i \in 1..Len(s) BY LenProperties
  <2>2. s[i] \in Request BY <2>1, ElementOfSeq
  <2> QED BY <2>2 DEF Request
<1>2. ASSUME NEW s \in Seq(Packet), NEW i \in DOMAIN s PROVE s[i].re \in Nat
  <2>1. i \in 1..Len(s) BY LenProperties
  <2>2. s[i] \in Packet BY <2>1, ElementOfSeq
  <2> QED BY <2>2 DEF Packet
<1> QED
  BY <1>1, <1>2

(* What was answered only once carried out still is when more has been.     *)
LEMMA AnswersDoneLater ==
  ASSUME NEW d \in Nat, NEW e \in Nat, d <= e, NEW s \in Seq(Packet),
         \A i \in DOMAIN s : IsAnswer(s[i]) => s[i].re <= d
  PROVE  \A i \in DOMAIN s : IsAnswer(s[i]) => s[i].re <= e
<1> SUFFICES ASSUME NEW i \in DOMAIN s, IsAnswer(s[i]) PROVE s[i].re <= e
  OBVIOUS
<1>1. s[i].re \in Nat
  BY NumbersAreNat
<1>2. s[i].re <= d
  OBVIOUS
<1> QED
  BY <1>1, <1>2

(* A packet that is no answer to a later request may be appended.           *)
LEMMA AppendDone ==
  ASSUME NEW d, NEW s \in Seq(Packet), NEW p \in Packet, IsAnswer(p) => p.re <= d,
         \A i \in DOMAIN s : IsAnswer(s[i]) => s[i].re <= d
  PROVE  \A i \in DOMAIN Append(s, p) :
           IsAnswer(Append(s, p)[i]) => Append(s, p)[i].re <= d
<1> DEFINE t == Append(s, p)
<1>1. /\ DOMAIN s = 1..Len(s) /\ Len(s) \in Nat
      /\ DOMAIN t = 1..(Len(s) + 1) /\ t[Len(s) + 1] = p
      /\ \A i \in 1..Len(s) : t[i] = s[i]
  BY AppendProperties, LenProperties
<1> HIDE DEF t
<1>2. \A i \in DOMAIN t : IsAnswer(t[i]) => t[i].re <= d
  BY <1>1
<1> QED
  BY <1>2 DEF t

(* What holds of all answers holds of the head and of the tail.             *)
LEMMA TailDone ==
  ASSUME NEW d, NEW s \in Seq(Packet), s # <<>>,
         \A i \in DOMAIN s : IsAnswer(s[i]) => s[i].re <= d
  PROVE  /\ \A i \in DOMAIN Tail(s) : IsAnswer(Tail(s)[i]) => Tail(s)[i].re <= d
         /\ IsAnswer(Head(s)) => Head(s).re <= d
<1> DEFINE t == Tail(s)
<1>1. /\ DOMAIN s = 1..Len(s) /\ Len(s) \in Nat \ {0} /\ Head(s) = s[1]
      /\ DOMAIN t = 1..(Len(s) - 1)
      /\ \A i \in 1..(Len(s) - 1) : t[i] = s[i + 1]
  BY HeadTailProperties, LenProperties, EmptySeq
<1> HIDE DEF t
<1>2. (\A i \in DOMAIN t : IsAnswer(t[i]) => t[i].re <= d)
      /\ (IsAnswer(Head(s)) => Head(s).re <= d)
  BY <1>1
<1> QED
  BY <1>2 DEF t

(* What holds of all answers holds of the head and of what a read leaves.   *)
LEMMA RestDone ==
  ASSUME NEW d, NEW s \in Seq(Packet), NEW n \in DOMAIN s,
         NEW t, t = SubSeq(s, n + 1, Len(s)),
         \A i \in DOMAIN s : IsAnswer(s[i]) => s[i].re <= d
  PROVE  /\ \A i \in DOMAIN t : IsAnswer(t[i]) => t[i].re <= d
         /\ IsAnswer(Head(s)) => Head(s).re <= d
<1>1. /\ DOMAIN s = 1..Len(s) /\ Len(s) \in Nat \ {0} /\ Head(s) = s[1]
      /\ n \in 1..Len(s) /\ DOMAIN t = 1..(Len(s) - n)
      /\ \A i \in 1..(Len(s) - n) : t[i] = s[n + i]
  BY RestOfRead
<1>2. ASSUME NEW i \in DOMAIN t, IsAnswer(t[i]) PROVE t[i].re <= d
  <2>1. n + i \in DOMAIN s /\ t[i] = s[n + i] BY <1>1, <1>2
  <2> QED BY <1>2, <2>1
<1>3. 1 \in DOMAIN s BY <1>1
<1>4. IsAnswer(Head(s)) => Head(s).re <= d BY <1>1, <1>3
<1> QED
  BY <1>2, <1>4

(* An empty sequence holds no answer to a later request.                    *)
LEMMA NoneDone == AnswersDone(<<>>)
BY DEF AnswersDone

(* Order: nothing is under way in the beginning.                            *)
LEMMA InOrderInit == NotedInit => InOrder
BY NoneDone DEF NotedInit, Init, FirmwareInit, EngineInit, ConnectionInit, InOrder

(* Order: a step that neither writes, nor lets the device act, nor makes a  *)
(* request.                                                                 *)
LEMMA InOrderQuiet ==
  ASSUME InOrder, UNCHANGED <<done, request, inbox>>,
         AnswersDone(rx)', AnswersDone(packet)', AnswersDone(CDC_request_response)',
         pc' \in {"send", "write"} => pc \in {"send", "write"}
  PROVE  InOrder'
BY DEF InOrder

(* Order: a new request has the highest number.                             *)
LEMMA InOrderAsk ==
  ASSUME TypeInv, InOrder, request'.id = request.id + 1,
         UNCHANGED <<done, inbox, rx, packet, CDC_request_response>>
  PROVE  InOrder'
<1>1. request.id \in Nat /\ done \in Nat /\ done <= request.id
  BY DEF TypeInv, TypeOK, ConnectionTypeOK, Request, InOrder
<1>2. \A i \in DOMAIN inbox : inbox[i].id \in Nat
  BY NumbersAreNat DEF TypeInv, TypeOK, FirmwareTypeOK
<1> QED
  BY <1>1, <1>2 DEF InOrder, AnswersDone

(* Order: the write puts the request behind the others.                     *)
LEMMA InOrderWrite ==
  ASSUME TypeInv, InOrder, Write, UNCHANGED done
  PROVE  InOrder'
<1>1. /\ pc = "write" /\ pc' = "listen"
      /\ UNCHANGED <<request, rx, packet, CDC_request_response>>
      /\ inbox' = inbox \/ inbox' = Append(inbox, request)
  BY DEF Write, PortSend, Goto, callVars, engineVars
<1>2. CASE inbox' = inbox
  BY <1>1, <1>2 DEF InOrder, AnswersDone
<1>3. CASE inbox' = Append(inbox, request)
  <2>1. /\ DOMAIN inbox = 1..Len(inbox) /\ Len(inbox) \in Nat
        /\ DOMAIN inbox' = 1..(Len(inbox) + 1) /\ inbox'[Len(inbox) + 1] = request
        /\ \A i \in 1..Len(inbox) : inbox'[i] = inbox[i]
    BY <1>3, AppendProperties, LenProperties
       DEF TypeInv, TypeOK, FirmwareTypeOK, ConnectionTypeOK
  <2>2. /\ done < request.id /\ \A i \in DOMAIN inbox : inbox[i].id < request.id
        /\ request.id \in Nat
    BY <1>1 DEF InOrder, TypeInv, TypeOK, ConnectionTypeOK, Request
  <2>3. (\A i \in DOMAIN inbox : done < inbox[i].id /\ inbox[i].id <= request.id)'
    BY <1>1, <2>1, <2>2 DEF InOrder
  <2>4. (\A i, j \in DOMAIN inbox : i < j => inbox[i].id < inbox[j].id)'
    BY <2>1, <2>2 DEF InOrder
  <2> QED BY <1>1, <2>3, <2>4 DEF InOrder, AnswersDone
<1> QED
  BY <1>1, <1>2, <1>3

(* Order: the device takes the oldest request off the line.                 *)
LEMMA InOrderTake ==
  ASSUME TypeInv, InOrder, inbox # <<>>, inbox' = Tail(inbox),
         UNCHANGED <<pc, op, request, packet, CDC_request_response>>,
         \/ UNCHANGED <<done, rx>>
         \/ /\ done' = Head(inbox).id
            /\ rx' = rx \/ rx' = Append(rx, Answer(Head(inbox)))
  PROVE  InOrder' /\ Head(inbox).id \in (done + 1)..request.id
<1>1. /\ inbox \in Seq(Request) /\ request.id \in Nat /\ rx \in Seq(Packet)
      /\ packet \in Seq(Packet) /\ CDC_request_response \in Seq(Packet) /\ done \in Nat
  BY DEF TypeInv, TypeOK, FirmwareTypeOK, ConnectionTypeOK, EngineTypeOK, Request, InOrder
<1>2. /\ DOMAIN inbox = 1..Len(inbox) /\ Len(inbox) \in Nat \ {0}
      /\ Head(inbox) = inbox[1] /\ Head(inbox) \in Request
      /\ DOMAIN inbox' = 1..(Len(inbox) - 1)
      /\ \A i \in 1..(Len(inbox) - 1) : inbox'[i] = inbox[i + 1]
  BY <1>1, HeadTailProperties, LenProperties, EmptySeq
<1>3. \A i \in DOMAIN inbox : inbox[i].id \in Nat
  BY <1>1, NumbersAreNat
<1>4. Head(inbox).id \in Nat /\ done < Head(inbox).id /\ Head(inbox).id <= request.id
  BY <1>2, <1>3 DEF InOrder
<1>5. done' \in Nat /\ done <= done' /\ done' <= request.id /\ done' <= Head(inbox).id
  BY <1>1, <1>4 DEF InOrder
<1>6. \A i \in DOMAIN inbox' :
        /\ Head(inbox).id < inbox'[i].id /\ inbox'[i].id <= request.id
        /\ inbox'[i].id \in Nat
        /\ pc \in {"send", "write"} => inbox'[i].id < request.id
  <2> SUFFICES ASSUME NEW i \in DOMAIN inbox'
               PROVE  /\ Head(inbox).id < inbox'[i].id /\ inbox'[i].id <= request.id
                      /\ inbox'[i].id \in Nat
                      /\ pc \in {"send", "write"} => inbox'[i].id < request.id
    OBVIOUS
  <2>1. i + 1 \in DOMAIN inbox /\ 1 \in DOMAIN inbox /\ 1 < i + 1 /\ inbox'[i] = inbox[i + 1]
    BY <1>2
  <2> QED BY <1>2, <1>3, <2>1 DEF InOrder
<1>7. (\A i, j \in DOMAIN inbox : i < j => inbox[i].id < inbox[j].id)'
  <2> SUFFICES ASSUME NEW i \in DOMAIN inbox', NEW j \in DOMAIN inbox', i < j
               PROVE  inbox'[i].id < inbox'[j].id
    OBVIOUS
  <2>1. /\ i + 1 \in DOMAIN inbox /\ j + 1 \in DOMAIN inbox /\ i + 1 < j + 1
        /\ inbox'[i] = inbox[i + 1] /\ inbox'[j] = inbox[j + 1]
    BY <1>2
  <2> QED BY <2>1 DEF InOrder
<1>8. \A i \in DOMAIN inbox' : done' < inbox'[i].id
  BY <1>4, <1>5, <1>6
<1>9. pc \in {"send", "write"} => done' < request.id
  BY <1>1, <1>2, <1>4, <1>5 DEF InOrder
<1>10. AnswersDone(packet)' /\ AnswersDone(CDC_request_response)'
  BY <1>1, <1>5, AnswersDoneLater DEF InOrder, AnswersDone
<1>11. AnswersDone(rx)'
  <2>1. \A i \in DOMAIN rx : IsAnswer(rx[i]) => rx[i].re <= done'
    BY <1>1, <1>5, AnswersDoneLater DEF InOrder, AnswersDone
  <2>2. CASE rx' = rx BY <2>1, <2>2 DEF AnswersDone
  <2>3. CASE done' = Head(inbox).id /\ rx' = Append(rx, Answer(Head(inbox)))
    <3>1. Answer(Head(inbox)) \in Packet /\ Answer(Head(inbox)).re <= done'
      BY <1>2, <1>4, <2>3 DEF Answer, Packet, Request
    <3> QED BY <1>1, <2>1, <2>3, <3>1, AppendDone DEF AnswersDone
  <2> QED BY <2>2, <2>3
<1> QED
  BY <1>4, <1>5, <1>6, <1>7, <1>8, <1>9, <1>10, <1>11 DEF InOrder

(* Order: the engine thread moves answers, and makes none.                  *)
LEMMA InOrderEngine ==
  ASSUME TypeInv, InOrder, EngineStep, UNCHANGED done
  PROVE  InOrder'
<1>1. UNCHANGED <<pc, request, inbox>>
  BY DEF EngineStep, callerVars, callVars, apiVars, EngineThread, CheckActive,
         RecvNothing, RecvPacket, RecvRaises, JoinSelf, Route, RouteRaises,
         PutRequestResponse, PutResponseOnly, PortRecvNothing, PortRecv,
         PortRecvRaises, portVars, firmwareVars
<1>2. AnswersDone(rx) /\ AnswersDone(packet) /\ AnswersDone(CDC_request_response)
  BY DEF InOrder
<1> USE DEF queueVars, portVars, firmwareVars
<1>3. AnswersDone(rx)' /\ AnswersDone(packet)' /\ AnswersDone(CDC_request_response)'
  <2>1. CASE CheckActive \/ RecvNothing \/ RecvRaises \/ JoinSelf \/ Route
    <3>1. UNCHANGED <<rx, packet, CDC_request_response>>
      BY <2>1 DEF CheckActive, RecvNothing, RecvRaises, JoinSelf, Route,
                  PortRecvNothing, PortRecvRaises
    <3> QED BY <1>2, <3>1 DEF AnswersDone
  <2>2. CASE RouteRaises \/ PutResponseOnly
    <3>1. UNCHANGED <<rx, CDC_request_response>> /\ packet' = <<>>
      BY <2>2 DEF RouteRaises, PutResponseOnly
    <3> QED BY <1>2, <3>1, NoneDone DEF AnswersDone
  <2>3. CASE RecvPacket
    <3>1. /\ rx \in Seq(Packet)
          /\ \E n \in DOMAIN rx : rx' = SubSeq(rx, n + 1, Len(rx))
          /\ packet' = <<Head(rx)>> /\ UNCHANGED CDC_request_response
      BY <2>3 DEF RecvPacket, PortRecv, TypeInv, TypeOK, FirmwareTypeOK
    <3>2. AnswersDone(rx)' /\ (IsAnswer(Head(rx)) => Head(rx).re <= done)
      BY <1>2, <3>1, RestDone DEF AnswersDone
    <3> QED BY <1>2, <3>1, <3>2 DEF AnswersDone
  <2>4. CASE PutRequestResponse
    <3>1. /\ packet # <<>> /\ packet \in Seq(Packet) /\ packet' = <<>>
          /\ CDC_request_response \in Seq(Packet) /\ UNCHANGED rx
          /\ CDC_request_response' = Append(CDC_request_response, Head(packet))
      BY <2>4 DEF PutRequestResponse, TypeInv, HoldsPacket, TypeOK, EngineTypeOK
    <3>2. Head(packet) \in Packet /\ (IsAnswer(Head(packet)) => Head(packet).re <= done)
      BY <1>2, <3>1, TailDone, HeadTailProperties DEF AnswersDone
    <3>3. AnswersDone(CDC_request_response)'
      BY <1>2, <3>1, <3>2, AppendDone DEF AnswersDone
    <3> QED BY <1>2, <3>1, <3>3, NoneDone DEF AnswersDone
  <2> QED BY <2>1, <2>2, <2>3, <2>4 DEF EngineStep, EngineThread
<1> QED
  BY <1>1, <1>3, InOrderQuiet

(* Order: the API layer.                                                    *)
LEMMA InOrderApi ==
  ASSUME TypeInv, InOrder, Call \/ ApiStep, UNCHANGED done
  PROVE  InOrder'
<1>1. UNCHANGED <<inbox, rx, packet, CDC_request_response>>
  BY DEF Call, connectDevice, disconnectDevice, SimpleRequest, SwitchOn, SwitchOff,
         getMultiResults, Begin, ApiStep, SelectChannel, ClearResults, RequestSucceeds,
         RequestFails, DecodeRaises, Succeeds, DriverFails, Propagates, Finish, portVars,
         firmwareVars, engineVars
<1>2. CASE SimpleRequest \/ SwitchOn \/ SwitchOff \/ SelectChannel
  <2>1. request'.id = request.id + 1
    BY <1>2 DEF SimpleRequest, SwitchOn, SwitchOff, SelectChannel, NewRequest
  <2> QED BY <1>1, <2>1, InOrderAsk
<1>3. CASE UNCHANGED request /\ pc' \notin {"send", "write"}
  BY <1>1, <1>3, InOrderQuiet DEF InOrder, AnswersDone
<1> QED
  BY <1>2, <1>3 DEF Call, connectDevice, disconnectDevice, getMultiResults, Begin,
     ApiStep, ClearResults, RequestSucceeds, RequestFails, DecodeRaises, Succeeds, DriverFails,
     Propagates, Finish, callVars

(* Order: the connection's steps.                                           *)
LEMMA InOrderConnection ==
  ASSUME TypeInv, InOrder, ConnectionStep, UNCHANGED done
  PROVE  InOrder'
<1> USE DEF Goto, Raise, callVars, engineVars, portVars, firmwareVars, queueVars
<1>1. CASE Write BY <1>1, InOrderWrite
<1>2. CASE GetExpected \/ GetOther
  <2>1. /\ UNCHANGED <<request, inbox, rx, packet>> /\ pc' \notin {"send", "write"}
        /\ \/ UNCHANGED CDC_request_response
           \/ /\ CDC_request_response # <<>>
              /\ CDC_request_response' = Tail(CDC_request_response)
    BY <1>2 DEF GetExpected, GetOther, Dequeue, RecvQueue, Waiting
  <2>2. AnswersDone(CDC_request_response)'
    BY <2>1, TailDone DEF InOrder, AnswersDone, TypeInv, TypeOK, EngineTypeOK
  <2> QED BY <2>1, <2>2, InOrderQuiet DEF InOrder, AnswersDone
<1>3. CASE ~Write /\ ~GetExpected /\ ~GetOther
  <2>1. CASE ConnectStep
    <3>1. /\ UNCHANGED <<request, inbox, packet, CDC_request_response>>
          /\ rx' = rx \/ rx' = <<>>
          /\ pc' \notin {"send", "write"}
      BY <2>1 DEF ConnectStep, OpenPort, OpenPortRaises, SetupPort, SetupPortRaises,
         StartEngine, StartEngineRaises, Establish, CreateFile, CreateFileRaises,
         PurgeComm, PurgeCommRaises, Start, StartRaises
    <3> QED BY <3>1, NoneDone, InOrderQuiet DEF InOrder, AnswersDone
  <2>2. CASE ExchangeStep
    <3>1. /\ UNCHANGED <<request, inbox, packet, CDC_request_response, rx>>
          /\ pc' \in {"send", "write"} => pc \in {"send", "write"}
      BY <1>3, <2>2 DEF ExchangeStep, NotEstablished, Register, RegisterCommand,
         WriteRaises, PortSendRaises, Listen, GetTimesOut, Waiting, GiveUp, Retried,
         ClassOf, ClearOne, ClearDone
    <3> QED BY <3>1, InOrderQuiet DEF InOrder, AnswersDone
  <2>3. CASE CloseStep
    <3>1. /\ UNCHANGED <<request, inbox, packet, CDC_request_response>>
          /\ rx' = rx \/ rx' = <<>>
          /\ pc' \notin {"send", "write"}
      BY <2>3 DEF CloseStep, CloseAlive, ClearActive, CloseDead, JoinEngine, ClosePort,
         PortClose, ClosePortRaises, PortCloseRaises
    <3> QED BY <3>1, NoneDone, InOrderQuiet DEF InOrder, AnswersDone
  <2> QED BY <2>1, <2>2, <2>3 DEF ConnectionStep
<1> QED
  BY <1>1, <1>2, <1>3

(* Order: every step.                                                       *)
LEMMA InOrderStep ==
  ASSUME TypeInv, InOrder, [NotedNext]_<<vars, historyVars>>
  PROVE  InOrder'
<1> USE DEF historyVars
<1>1. CASE UNCHANGED <<vars, historyVars>>
  BY <1>1 DEF vars, callerVars, callVars, engineVars, portVars, firmwareVars,
     InOrder, AnswersDone
<1>2. CASE ActNoted \/ LossNoted
  BY <1>2, InOrderTake DEF ActNoted, LossNoted, Act, LoseRequest, callerVars,
     callVars, apiVars, engineVars
<1>3. CASE OtherStep
  <2>1. CASE Call \/ ApiStep BY <1>3, <2>1, InOrderApi DEF OtherStep
  <2>2. CASE ConnectionStep BY <1>3, <2>2, InOrderConnection DEF OtherStep
  <2>3. CASE EngineStep BY <1>3, <2>3, InOrderEngine DEF OtherStep
  <2>4. CASE Emit /\ UNCHANGED <<callerVars, engineVars, handle>>
    <3>1. /\ UNCHANGED <<pc, request, inbox, packet, CDC_request_response, done>>
          /\ rx' = Append(rx, Result(session)) /\ rx \in Seq(Packet)
      BY <1>3, <2>4 DEF OtherStep, Emit, callerVars, callVars, engineVars, TypeInv,
         TypeOK, FirmwareTypeOK
    <3>2. Result(session) \in Packet /\ ~IsAnswer(Result(session))
      BY CommandAssumption DEF Result, Packet, NamedCommand, IsAnswer, TypeInv, TypeOK,
                               FirmwareTypeOK
    <3>3. AnswersDone(rx)'
      BY <3>1, <3>2, AppendDone DEF InOrder, AnswersDone
    <3> QED BY <3>1, <3>3, InOrderQuiet DEF InOrder, AnswersDone
  <2>5. CASE Terminated
    BY <1>3, <2>5 DEF OtherStep, Terminated, vars, callerVars, callVars, engineVars,
       portVars, firmwareVars, InOrder, AnswersDone
  <2> QED BY <1>3, <2>1, <2>2, <2>3, <2>4, <2>5 DEF OtherStep, CallerStep
<1> QED
  BY <1>1, <1>2, <1>3 DEF NotedNext

-----------------------------------------------------------------------------
(* Every step is a step of the abstract exchange, or none.                  *)

IsWaiting == op \in RequestMade /\ pc \in {"send", "write", "listen", "receive"}
ReplyOf == IF op \in RequestMade /\ pc = "returned" THEN response[1].re ELSE 0

(* Mapping: the initial states are initial states of the exchange.          *)
LEMMA MapsInit == NotedInit => Exchange!ExchangeInit
BY DEF NotedInit, Init, ConnectionInit, Exchange!ExchangeInit, RequestMade

(* Mapping: the abstract variables stay as they are.                        *)
LEMMA MapsNothing ==
  ASSUME UNCHANGED <<request, done, count>>, IsWaiting' = IsWaiting, ReplyOf' = ReplyOf
  PROVE  [Exchange!ExchangeNext]_(Exchange!exchangeVars)
BY DEF Exchange!exchangeVars, IsWaiting, ReplyOf

(* Mapping: the caller asks, goes on, or learns that the request failed.    *)
LEMMA MapsCaller ==
  ASSUME UNCHANGED <<done, count>>,
         \/ /\ ~IsWaiting /\ IsWaiting' /\ request'.id = request.id + 1
         \/ /\ ~IsWaiting /\ ~IsWaiting' /\ pc' # "returned" /\ UNCHANGED request
         \/ /\ IsWaiting /\ pc' = "raised" /\ UNCHANGED request
  PROVE  [Exchange!ExchangeNext]_(Exchange!exchangeVars)
<1> USE DEF Exchange!ExchangeNext, IsWaiting
<1>1. CASE ~IsWaiting /\ IsWaiting' /\ request'.id = request.id + 1
  BY <1>1 DEF Exchange!Ask
<1>2. CASE ~IsWaiting /\ ~IsWaiting' /\ pc' # "returned" /\ UNCHANGED request
  BY <1>2 DEF Exchange!Proceed
<1>3. CASE IsWaiting /\ pc' = "raised" /\ UNCHANGED request
  BY <1>3 DEF Exchange!Fail
<1> QED
  BY <1>1, <1>2, <1>3

(* Mapping: the steps of the API layer.                                     *)
LEMMA MapsApi ==
  ASSUME Places, Call \/ ApiStep, UNCHANGED <<done, count>>
  PROVE  [Exchange!ExchangeNext]_(Exchange!exchangeVars)
<1>1. ~IsWaiting
  BY DEF Call, connectDevice, disconnectDevice, SimpleRequest, SwitchOn, SwitchOff,
         getMultiResults, Begin, ApiStep, SelectChannel, ClearResults, RequestSucceeds,
         RequestFails, DecodeRaises, Succeeds, DriverFails, Propagates, IsWaiting
<1>2. CASE SimpleRequest \/ SwitchOn \/ SwitchOff \/ SelectChannel
  <2>1. IsWaiting' /\ request'.id = request.id + 1
    BY <1>2 DEF SimpleRequest, SwitchOn, SwitchOff, SelectChannel, Begin, NewRequest,
                IsWaiting, RequestMade
  <2> QED BY <1>1, <2>1, MapsCaller
<1>3. CASE ~(SimpleRequest \/ SwitchOn \/ SwitchOff \/ SelectChannel)
  <2>1. UNCHANGED request /\ ~IsWaiting' /\ pc' # "returned"
    BY <1>3 DEF Call, connectDevice, disconnectDevice, getMultiResults, Begin, ApiStep,
       ClearResults, RequestSucceeds, RequestFails, DecodeRaises, Succeeds, DriverFails, Propagates,
       Finish, callVars, IsWaiting, RequestMade
  <2> QED BY <1>1, <2>1, MapsCaller
<1> QED
  BY <1>2, <1>3

(* Mapping: the steps of the connection.                                    *)
LEMMA MapsConnection ==
  ASSUME TypeInv, Places, Fresh, Fresh', InOrder, ConnectionStep, UNCHANGED apiVars,
         UNCHANGED <<done, count>>
  PROVE  [Exchange!ExchangeNext]_(Exchange!exchangeVars)
<1> USE DEF Goto, Raise, callVars, apiVars
<1>1. UNCHANGED <<request, op>>
  BY DEF ConnectionStep, ConnectStep, OpenPort, OpenPortRaises, SetupPort,
     SetupPortRaises, StartEngine, StartEngineRaises, Establish, ExchangeStep,
     NotEstablished, Register, Write, WriteRaises, Listen, GetExpected, GetOther,
     GetTimesOut, GiveUp, ClearOne, ClearDone, CloseStep, CloseAlive, CloseDead,
     JoinEngine, ClosePort, ClosePortRaises
<1>2. CASE op \notin RequestMade
  BY <1>1, <1>2, MapsNothing DEF IsWaiting, ReplyOf
<1>3. CASE op \in RequestMade
  <2>1. ExchangeStep
    BY <1>3 DEF ConnectionStep, Places, RequestMade, ConnectStep, OpenPort, OpenPortRaises,
       SetupPort, SetupPortRaises, StartEngine, StartEngineRaises, Establish, CloseStep,
       CloseAlive, CloseDead, JoinEngine, ClosePort, ClosePortRaises
  <2>2. CASE NotEstablished \/ WriteRaises \/ GiveUp
    <3>1. IsWaiting /\ pc' = "raised"
      BY <1>3, <2>2 DEF NotEstablished, WriteRaises, GiveUp, Retried, ClassOf, IsWaiting
    <3> QED BY <1>1, <3>1, MapsCaller
  <2>3. CASE Register \/ Write \/ Listen \/ GetOther \/ GetTimesOut
    <3>1. IsWaiting /\ IsWaiting' /\ pc # "returned" /\ pc' # "returned"
      BY <1>1, <1>3, <2>3 DEF Register, Write, Listen, GetOther, GetTimesOut, Waiting,
                              IsWaiting
    <3> QED BY <1>1, <3>1, MapsNothing DEF ReplyOf
  <2>4. CASE GetExpected
    <3>1. /\ pc = "receive" /\ ~response_only /\ pc' = "returned"
          /\ CDC_request_response # <<>>
      BY <1>3, <2>4 DEF GetExpected, Dequeue, RecvQueue, Waiting, Places, RequestMade
    <3>2. response' = <<Answer(request)>>
      BY <1>1, <1>3, <3>1 DEF Fresh, FreshResponse
    <3>3. CDC_request_response = <<Answer(request)>>
      BY <3>1 DEF Fresh
    <3>4. request.id <= done
      <4>1. /\ 1 \in DOMAIN CDC_request_response /\ IsAnswer(CDC_request_response[1])
            /\ CDC_request_response[1].re = request.id
        BY <3>3 DEF Answer, IsAnswer
      <4> QED BY <4>1 DEF InOrder, AnswersDone
    <3>5. done = request.id
      BY <3>4 DEF InOrder, TypeInv, TypeOK, ConnectionTypeOK, Request
    <3>6. ReplyOf' = request.id
      BY <1>1, <1>3, <3>1, <3>2 DEF ReplyOf, Answer
    <3>7. Exchange!Succeed
      BY <1>1, <1>3, <3>1, <3>5, <3>6 DEF Exchange!Succeed, ReplyOf
    <3> QED BY <3>7 DEF Exchange!ExchangeNext
  <2>5. CASE ClearOne \/ ClearDone
    BY <1>3, <2>5 DEF ClearOne, ClearDone, Places, RequestMade
  <2> QED BY <2>1, <2>2, <2>3, <2>4, <2>5 DEF ExchangeStep
<1> QED
  BY <1>2, <1>3

(* Mapping: every step.                                                     *)
LEMMA MapsStep ==
  ASSUME TypeInv, Places, Fresh, Fresh', InOrder, [NotedNext]_<<vars, historyVars>>
  PROVE  [Exchange!ExchangeNext]_(Exchange!exchangeVars)
<1> USE DEF historyVars
<1>1. CASE UNCHANGED <<vars, historyVars>>
  BY <1>1, MapsNothing DEF vars, callerVars, callVars, apiVars, IsWaiting, ReplyOf
<1>2. CASE ActNoted
  <2>1. /\ UNCHANGED <<request, pc, op, response, packet, CDC_request_response>>
        /\ IsWaiting' = IsWaiting /\ ReplyOf' = ReplyOf
    BY <1>2 DEF ActNoted, callerVars, callVars, apiVars, engineVars, IsWaiting, ReplyOf
  <2>2. /\ done' = Head(inbox).id /\ count' = count + 1
        /\ Head(inbox).id \in (done + 1)..request.id
    BY <1>2, <2>1, InOrderTake DEF ActNoted, Act
  <2>3. Exchange!CarryOut
    BY <2>1, <2>2 DEF Exchange!CarryOut, IsWaiting, ReplyOf
  <2> QED BY <2>3 DEF Exchange!ExchangeNext
<1>3. CASE LossNoted
  BY <1>3, MapsNothing DEF LossNoted, callerVars, callVars, apiVars, IsWaiting, ReplyOf
<1>4. CASE OtherStep
  <2>1. CASE Call \/ ApiStep BY <1>4, <2>1, MapsApi DEF OtherStep
  <2>2. CASE ConnectionStep /\ UNCHANGED apiVars
    BY <1>4, <2>2, MapsConnection DEF OtherStep
  <2>3. CASE UNCHANGED callerVars
    BY <1>4, <2>3, MapsNothing DEF OtherStep, callerVars, callVars, apiVars, IsWaiting,
                                   ReplyOf
  <2> QED BY <1>4, <2>1, <2>2, <2>3 DEF OtherStep, CallerStep, EngineStep, Terminated, vars
<1> QED
  BY <1>1, <1>2, <1>3, <1>4 DEF NotedNext

(* With a device that answers in time, the library is the exchange a caller *)
(* expects: requests are carried out in order, none twice, and an answer is *)
(* handed over only for the request at hand and after it was carried out    *)
(* (connection.py:73-89), for every set of commands, every fault and every  *)
(* loss.                                                                    *)
THEOREM ImplementsExchange ==
  ASSUME PromptUse
  PROVE  NotedSpec => IsExchange
<1>1. ASSUME TypeInv, Places /\ Fresh, (Places /\ Fresh)', InOrder,
             [NotedNext]_<<vars, historyVars>>
      PROVE  InOrder' /\ [Exchange!ExchangeNext]_(Exchange!exchangeVars)
  BY <1>1, InOrderStep, MapsStep
<1>2. NotedInit => InOrder /\ Exchange!ExchangeInit
  BY InOrderInit, MapsInit
<1>3. NotedSpec => [](TypeInv /\ (Places /\ Fresh))
  BY NotedImplementsSpec, TypeInvAlways, FreshHolds, PTL
<1> QED
  BY <1>1, <1>2, <1>3, PTL DEF NotedSpec, IsExchange, Exchange!ExchangeSpec
=============================================================================
