------------------------------ MODULE EnbNode ------------------------------
(***************************************************************************)
(* The eNB (4g-simulator/src/enb): a command thread that takes commands    *)
(* off cmd_queue_ and sends the first message of a procedure, and a        *)
(* receive thread that answers the MME and plays the UE.  Both send on the *)
(* one S1 connection, a whole frame at a time (mme_send_mtx_).             *)
(***************************************************************************)
EXTENDS EpcBase

EnbInit ==
  /\ cmdQueue = << >>
  /\ cmd = NoCmd
  /\ nextUe = 1
  /\ enbTeids = << >>
  /\ rxPending = Blank

(* CLI and BULK workers: submitCommand pushes and notifies. *)
SubmitCommand(c) == cmdQueue' = Append(cmdQueue, c)

(* The command thread takes the front command when it has finished the last. *)
TakeCommand ==
  /\ cmd.op = "none"
  /\ cmdQueue # << >>
  /\ cmd' = Head(cmdQueue)
  /\ cmdQueue' = Tail(cmdQueue)
  /\ UNCHANGED <<chan, nextUe, enbTeids, rxPending, mmeVars, coreVars, envVars>>

(* Mutant: the id is incremented before it is used. *)
PreIncrementedId ==
  /\ cmd.op = "CR"
  /\ Send("s1ul", [Blank EXCEPT !.type = "InitialUE", !.enb = nextUe + 1, !.imsi = nextUe + 1])
  /\ nextUe' = nextUe + 1
  /\ cmd' = IF cmd.arg = 1 THEN NoCmd ELSE [cmd EXCEPT !.arg = @ - 1]
  /\ UNCHANGED <<cmdQueue, enbTeids, rxPending, mmeVars, coreVars, envVars>>

(* One iteration of processCommand's CR loop: sendInitialUEMessage(next_enb_ue_id_++). *)
SendInitialUEMessage ==
  /\ cmd.op = "CR"
  /\ Send("s1ul", [Blank EXCEPT !.type = "InitialUE", !.enb = nextUe, !.imsi = nextUe])
  /\ nextUe' = nextUe + 1
  /\ cmd' = IF cmd.arg = 1 THEN NoCmd ELSE [cmd EXCEPT !.arg = @ - 1]
  /\ UNCHANGED <<cmdQueue, enbTeids, rxPending, mmeVars, coreVars, envVars>>

(* TAU and HO take the UE's number for its MME id as well as for its eNB id. *)
SendTauRequest ==
  /\ cmd.op = "TAU"
  /\ Send("s1ul", [S1("TauReq", cmd.arg, cmd.arg) EXCEPT !.imsi = cmd.arg])
  /\ cmd' = NoCmd
  /\ UNCHANGED <<cmdQueue, nextUe, enbTeids, rxPending, mmeVars, coreVars, envVars>>

SendHandoverRequired ==
  /\ cmd.op = "HO"
  /\ Send("s1ul", [S1("HoRequired", cmd.arg, cmd.arg) EXCEPT !.imsi = cmd.arg])
  /\ cmd' = NoCmd
  /\ UNCHANGED <<cmdQueue, nextUe, enbTeids, rxPending, mmeVars, coreVars, envVars>>
----------------------------------------------------------------------------
(* The receive thread: it handles one message to the end, its sleeps and   *)
(* its replies included, before it reads the next.                         *)
RxReady(type) == rxPending.type = "None" /\ Got("s1dl", type)

(* handleDLNas, Authentication Request: the UE answers the challenge. *)
HandleAuthRequest ==
  /\ RxReady("AuthReq")
  /\ LET m == Head(chan["s1dl"])
     IN  Reply("s1dl", "s1ul", [S1("AuthRsp", m.mme, m.enb) EXCEPT !.val = Response(m.val)])
  /\ UNCHANGED <<enbVars, mmeVars, coreVars, envVars>>

(* handleDLNas, Security Mode Command. *)
HandleSecModeCommand ==
  /\ RxReady("SecModeCmd")
  /\ LET m == Head(chan["s1dl"])
     IN  Reply("s1dl", "s1ul", S1("SecModeCmpl", m.mme, m.enb))
  /\ UNCHANGED <<enbVars, mmeVars, coreVars, envVars>>

(* Mutant: Attach Complete is forgotten. *)
IcsrWithoutAttachComplete ==
  /\ RxReady("IcsReq")
  /\ LET m == Head(chan["s1dl"])
     IN  /\ Reply("s1dl", "s1ul", [S1("IcsRsp", m.mme, m.enb) EXCEPT !.val = NextEnbTeid])
         /\ enbTeids' = Append(enbTeids, m.enb)
  /\ UNCHANGED <<cmdQueue, cmd, nextUe, rxPending, mmeVars, coreVars, envVars>>

(* handleICSR: allocate the eNB's TEID, answer, sleep, then send Attach    *)
(* Complete; other threads run during the sleep.                           *)
HandleICSR ==
  /\ RxReady("IcsReq")
  /\ LET m == Head(chan["s1dl"])
     IN  /\ Reply("s1dl", "s1ul", [S1("IcsRsp", m.mme, m.enb) EXCEPT !.val = NextEnbTeid])
         /\ enbTeids' = Append(enbTeids, m.enb)
         /\ rxPending' = S1("AttachCmpl", m.mme, m.enb)
  /\ UNCHANGED <<cmdQueue, cmd, nextUe, mmeVars, coreVars, envVars>>

SendAttachComplete ==
  /\ rxPending.type = "AttachCmpl"
  /\ Send("s1ul", rxPending)
  /\ rxPending' = Blank
  /\ UNCHANGED <<cmdQueue, cmd, nextUe, enbTeids, mmeVars, coreVars, envVars>>

HandleTauAccept ==
  /\ RxReady("TauAccept")
  /\ Consume("s1dl")
  /\ UNCHANGED <<enbVars, mmeVars, coreVars, envVars>>

(* Mutant: the target cell answers with the TEID in use, allocating none. *)
HoRequestWithoutAllocation ==
  /\ RxReady("HoRequest")
  /\ LET m == Head(chan["s1dl"])
     IN  Reply("s1dl", "s1ul", [S1("HoAck", m.mme, m.enb) EXCEPT !.val = NextEnbTeid - 1])
  /\ UNCHANGED <<enbVars, mmeVars, coreVars, envVars>>

(* handleHoRequest: as the target cell, allocate a TEID and acknowledge. *)
HandleHoRequest ==
  /\ RxReady("HoRequest")
  /\ LET m == Head(chan["s1dl"])
     IN  /\ Reply("s1dl", "s1ul", [S1("HoAck", m.mme, m.enb) EXCEPT !.val = NextEnbTeid])
         /\ enbTeids' = Append(enbTeids, m.enb)
  /\ UNCHANGED <<cmdQueue, cmd, nextUe, rxPending, mmeVars, coreVars, envVars>>

HandleHoCommand ==
  /\ RxReady("HoCommand")
  /\ LET m == Head(chan["s1dl"])
     IN  Reply("s1dl", "s1ul", S1("EnbStatus", m.mme, m.enb))
  /\ UNCHANGED <<enbVars, mmeVars, coreVars, envVars>>

(* handleMmeStatusXfer: Handover Notify carries next_enb_teid_.load() - 1,  *)
(* the TEID allocated last to any UE.                                       *)
HandleMmeStatusXfer ==
  /\ RxReady("MmeStatus")
  /\ LET m == Head(chan["s1dl"])
     IN  Reply("s1dl", "s1ul", [S1("HoNotify", m.mme, m.enb) EXCEPT !.val = NextEnbTeid - 1])
  /\ UNCHANGED <<enbVars, mmeVars, coreVars, envVars>>

HandleUeCtxRelCmd ==
  /\ RxReady("RelCmd")
  /\ LET m == Head(chan["s1dl"])
     IN  Reply("s1dl", "s1ul", S1("RelCmpl", m.mme, m.enb))
  /\ UNCHANGED <<enbVars, mmeVars, coreVars, envVars>>
----------------------------------------------------------------------------
EnbCommandThread ==
  TakeCommand \/ SendInitialUEMessage \/ SendTauRequest \/ SendHandoverRequired

EnbReceiveThread ==
  \/ HandleAuthRequest \/ HandleSecModeCommand \/ HandleICSR \/ SendAttachComplete
  \/ HandleTauAccept \/ HandleHoRequest \/ HandleHoCommand \/ HandleMmeStatusXfer
  \/ HandleUeCtxRelCmd
============================================================================
