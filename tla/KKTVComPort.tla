----------------------------- MODULE KKTVComPort -----------------------------
(***************************************************************************)
(* The serial port object (VComPort.py): the life of its handle and the    *)
(* calls the engine makes on it.  CreateFile is called with share mode 0,  *)
(* so a port that is open cannot be opened again.  Faults names what may   *)
(* go wrong: the port calls that may raise, "open" (no device in the list, *)
(* or CreateFile fails), "setup" (PurgeComm, SetCommTimeouts), "recv",     *)
(* "send" and "close", and "frame", a read that reassembly turns into a    *)
(* packet too short to hold a command.                                     *)
(***************************************************************************)
EXTENDS Firmware

CONSTANT Faults          \* what may go wrong

Fault == {"open", "setup", "recv", "send", "close", "frame"}

ASSUME PortAssumption == Faults \subseteq Fault

VARIABLE handle          \* py_handle: None, a live handle, or handle 0

portVars == <<handle, firmwareVars>>

PortTypeOK == handle \in {"none", "open", "closed"}

PortInit == handle = "none"

-----------------------------------------------------------------------------
(* connect, first half: CreateFile takes the port exclusively. *)
CreateFile ==
  /\ handle # "open"
  /\ handle' = "open"
  /\ UNCHANGED firmwareVars

CreateFileRaises ==
  /\ handle = "open" \/ "open" \in Faults
  /\ UNCHANGED portVars

(* connect, second half: the driver's buffers are purged and the timeouts   *)
(* set.  When one of these raises, the handle stays open.                   *)
PurgeComm ==
  /\ rx' = <<>>
  /\ UNCHANGED <<handle, inbox, session, emitted>>

PurgeCommRaises ==
  /\ "setup" \in Faults
  /\ UNCHANGED portVars

(* send: a handle that is 0 swallows the data without an error.  No write  *)
(* time out is set, so a write need not end: fairness is not given to it.   *)
PortSend(req) ==
  /\ handle # "none"
  /\ inbox' = IF handle = "open" THEN Append(inbox, req) ELSE inbox
  /\ UNCHANGED <<handle, rx, session, emitted>>

PortSendRaises ==
  /\ handle = "none" \/ (handle = "open" /\ "send" \in Faults)
  /\ UNCHANGED portVars

(* recv with a time out takes what the driver holds, at most 8192 bytes of  *)
(* it, or b'' after one millisecond; on a handle that is not open it raises. *)
(* n is the number of packets taken; one that is cut by the end of the read *)
(* and put together with the next counts as taken by the next.              *)
PortRecv(n) ==
  /\ handle = "open"
  /\ n \in DOMAIN rx
  /\ rx' = SubSeq(rx, n + 1, Len(rx))
  /\ UNCHANGED <<handle, inbox, session, emitted>>

PortRecvNothing ==
  /\ handle = "open"
  /\ rx = <<>>
  /\ UNCHANGED portVars

PortRecvRaises ==
  /\ handle # "open" \/ "recv" \in Faults
  /\ UNCHANGED portVars

(* Bug variant: close drains the receive buffer but keeps the handle.       *)
PortCloseKeepsHandle ==
  /\ handle # "none"
  /\ rx' = IF handle = "open" THEN <<>> ELSE rx
  /\ UNCHANGED <<handle, inbox, session, emitted>>

(* close drains the receive buffer and releases the handle, unless it is    *)
(* closed already; a drain that raises leaves the handle open.              *)
PortClose ==
  /\ handle # "none"
  /\ handle' = "closed"
  /\ rx' = IF handle = "open" THEN <<>> ELSE rx
  /\ UNCHANGED <<inbox, session, emitted>>

PortCloseRaises ==
  /\ handle = "none" \/ (handle = "open" /\ "close" \in Faults)
  /\ UNCHANGED portVars
=============================================================================
