--------------------------- MODULE RequestResponse ---------------------------
(***************************************************************************)
(* What a caller of the library needs of it: requests are carried out in   *)
(* the order in which they were made, none twice, and the answer to a      *)
(* request is its own, given only after it was carried out.  A request     *)
(* that failed may still be carried out, at once or later, or never.       *)
(***************************************************************************)
EXTENDS Naturals

VARIABLES
  asked,      \* number of the request last made
  waiting,    \* is its outcome still open?
  reply,      \* number of the request whose answer is handed over, or 0
  done,       \* number of the request last carried out
  count       \* times a request was carried out

exchangeVars == <<asked, waiting, reply, done, count>>

ExchangeInit ==
  /\ asked = 0
  /\ waiting = FALSE
  /\ reply = 0
  /\ done = 0 /\ count = 0

Ask ==
  /\ ~waiting
  /\ asked' = asked + 1
  /\ waiting' = TRUE
  /\ reply' = 0
  /\ UNCHANGED <<done, count>>

CarryOut ==
  /\ \E i \in (done + 1)..asked : done' = i
  /\ count' = count + 1
  /\ UNCHANGED <<asked, waiting, reply>>

Succeed ==
  /\ waiting
  /\ done = asked
  /\ waiting' = FALSE
  /\ reply' = asked
  /\ UNCHANGED <<asked, done, count>>

Fail ==
  /\ waiting
  /\ waiting' = FALSE
  /\ UNCHANGED <<asked, reply, done, count>>

(* The caller goes on. *)
Proceed ==
  /\ ~waiting
  /\ reply' = 0
  /\ UNCHANGED <<asked, waiting, done, count>>

ExchangeNext == Ask \/ CarryOut \/ Succeed \/ Fail \/ Proceed

ExchangeSpec == ExchangeInit /\ [][ExchangeNext]_exchangeVars
=============================================================================
