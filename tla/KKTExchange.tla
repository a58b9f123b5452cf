----------------------------- MODULE KKTExchange -----------------------------
(***************************************************************************)
(* KKTIntegration with history variables: which request the device has     *)
(* carried out last, how many it has carried out, and whether the line has *)
(* lost anything.  With them the system is shown to be what a caller       *)
(* expects of requests and responses, as module RequestResponse says it.   *)
(***************************************************************************)
EXTENDS KKTIntegration

VARIABLES
  done,    \* the id of the request last carried out
  count,   \* times a request was carried out
  lost     \* has a request or an answer been lost?

historyVars == <<done, count, lost>>

(* The device carries out a request; its answer is sent or lost. *)
ActNoted ==
  /\ Act
  /\ UNCHANGED <<callerVars, engineVars, handle>>
  /\ done' = Head(inbox).id /\ count' = count + 1
  /\ lost' = (lost \/ rx' = rx)

LossNoted ==
  /\ LoseRequest
  /\ UNCHANGED <<callerVars, engineVars, handle>>
  /\ lost' = TRUE
  /\ UNCHANGED <<done, count>>

OtherStep ==
  /\ \/ Call \/ CallerStep \/ EngineStep \/ Terminated
     \/ Emit /\ UNCHANGED <<callerVars, engineVars, handle>>
  /\ UNCHANGED historyVars

NotedInit == Init /\ done = 0 /\ count = 0 /\ lost = FALSE

NotedNext == ActNoted \/ LossNoted \/ OtherStep

NotedSpec == NotedInit /\ [][NotedNext]_<<vars, historyVars>>

(* Both threads are scheduled, and a device that works takes its requests   *)
(* in turn; making a call is the user's choice, and a write need not end.   *)
LiveSpec == NotedSpec /\ Fairness /\ WF_vars(ActNoted)

-----------------------------------------------------------------------------
(* A request is open from the call, or from connectDevice's second half, to *)
(* the return of sendCDCPacketWithResponse.                                 *)
Exchange == INSTANCE RequestResponse WITH
  asked   <- request.id,
  waiting <- op \in RequestMade /\ pc \in {"send", "write", "listen", "receive"},
  reply   <- IF op \in RequestMade /\ pc = "returned" THEN response[1].re ELSE 0

(* With a device that answers in time, the library is a client that makes   *)
(* one request at a time: what is answered has been carried out, in order   *)
(* and not twice, and the answer is the request's own, though the line may  *)
(* lose packets and the port may fail (connection.py:73-89).                *)
IsExchange == Exchange!ExchangeSpec


-----------------------------------------------------------------------------
(* Why it is an exchange: requests are under way in the order of their      *)
(* numbers, none that has been carried out is, and answers are to requests  *)
(* that have been carried out.                                              *)
AnswersDone(s) == \A i \in DOMAIN s : IsAnswer(s[i]) => s[i].re <= done

InOrder ==
  /\ done \in Nat
  /\ done <= request.id
  /\ \A i \in DOMAIN inbox : done < inbox[i].id /\ inbox[i].id <= request.id
  /\ \A i, j \in DOMAIN inbox : i < j => inbox[i].id < inbox[j].id
  /\ pc \in {"send", "write"} =>
       /\ done < request.id
       /\ \A i \in DOMAIN inbox : inbox[i].id < request.id
  /\ AnswersDone(rx) /\ AnswersDone(packet) /\ AnswersDone(CDC_request_response)
=============================================================================
