------------------------------ MODULE MmeNode ------------------------------
(***************************************************************************)
(* The MME (4g-simulator/src/mme): mme_th reads the S1 connection and runs *)
(* each handler to its end, blocking inside it on the HSS's answer (a      *)
(* condition variable) or on the S-GW's (a receive with a time-out);       *)
(* hss_rx_th reads the S6a connection and fills pending_auth_.             *)
(***************************************************************************)
EXTENDS EpcBase

MmeInit ==
  /\ ue = << >>
  /\ mme = MmeIdle
  /\ pendingAuth = {}

(* Mutant: emm_state keeps its default. *)
DefaultState(enb, imsi) ==
  [imsi |-> imsi, enb |-> enb, emm |-> "DEREGISTERED", auth |-> NoVector, bearers |-> << >>]

NewContext(enb, imsi) ==
  [imsi |-> imsi, enb |-> enb, emm |-> "REGISTERED_INITIATED",
   auth |-> NoVector, bearers |-> << >>]

MmeReady(type) == mme.pc = "idle" /\ Got("s1ul", type)
----------------------------------------------------------------------------
(* handleInitialUEMsg up to its wait: insert the context, ask the HSS. *)
HandleInitialUEMsg ==
  /\ MmeReady("InitialUE")
  /\ LET m == Head(chan["s1ul"])
     IN  /\ ue' = Append(ue, NewContext(m.enb, m.imsi))
         /\ Reply("s1ul", "s6aReq", About("AIR", m.imsi))
         /\ mme' = [pc |-> "auth", id |-> Len(ue) + 1, enb |-> m.enb, imsi |-> m.imsi]
  /\ UNCHANGED <<enbVars, pendingAuth, coreVars, envVars>>

(* hssReceiveLoop: pending_auth_[imsi] = av, then notify_all. *)
HssReceive ==
  /\ Got("s6aAns", "AIA")
  /\ LET m == Head(chan["s6aAns"])
     IN  pendingAuth' = {av \in pendingAuth : av.imsi # m.imsi}
                          \cup {[imsi |-> m.imsi, rand |-> m.val, xres |-> m.xres]}
  /\ Consume("s6aAns")
  /\ UNCHANGED <<enbVars, ue, mme, coreVars, envVars>>

(* The rest of handleInitialUEMsg: take the vector out of pending_auth_ and *)
(* challenge the UE, unless chaos mode drops the answer at this point.      *)
TakeAuthVector ==
  /\ mme.pc = "auth"
  /\ \E av \in pendingAuth :
       /\ av.imsi = mme.imsi
       /\ pendingAuth' = pendingAuth \ {av}
       /\ ue' = IF Known(mme.id)
                  THEN [ue EXCEPT ![mme.id].auth = av, ![mme.id].emm = "AUTH_PENDING"]
                  ELSE ue
       /\ \/ /\ Send("s1dl", [S1("AuthReq", mme.id, mme.enb) EXCEPT !.val = av.rand])
             /\ UNCHANGED drops
          \/ /\ drops < MaxDrops
             /\ drops' = drops + 1
             /\ UNCHANGED chan
  /\ mme' = MmeIdle
  /\ UNCHANGED <<enbVars, coreVars, timeouts, mobility>>

(* handleULNasTransport, Authentication Response: on a match the security  *)
(* mode command, then handleAuthSuccess as far as sendCreateSession's wait.*)
AuthMatches(m) == Known(m.mme) /\ m.val = ue[m.mme].auth.xres

HandleAuthResponse ==
  /\ MmeReady("AuthRsp")
  /\ LET m == Head(chan["s1ul"])
     IN  IF AuthMatches(m)
           THEN /\ chan' = [chan EXCEPT !["s1ul"] = Tail(@),
                                        !["s1dl"] = Append(@, S1("SecModeCmd", m.mme, ue[m.mme].enb)),
                                        !["s11Req"] = Append(@, About("CreateReq", ue[m.mme].imsi))]
                /\ ue' = [ue EXCEPT ![m.mme].emm = "SESSION_PENDING"]
                /\ mme' = [pc |-> "create", id |-> m.mme, enb |-> ue[m.mme].enb,
                           imsi |-> ue[m.mme].imsi]
           ELSE /\ Consume("s1ul")
                /\ UNCHANGED <<ue, mme>>
  /\ UNCHANGED <<enbVars, pendingAuth, coreVars, envVars>>

(* Mutants: a response without an address is accepted, and the bearer goes  *)
(* to the context inserted last.                                            *)
AcceptAnyResponse ==
  /\ mme.pc = "create"
  /\ chan["s11Rsp"] # << >>
  /\ LET r == Head(chan["s11Rsp"])
     IN  /\ ue' = [ue EXCEPT ![mme.id].bearers =
                               Append(@, [s1u |-> r.val, ip |-> r.ip, teid |-> 0])]
         /\ Reply("s11Rsp", "s1dl", S1("IcsReq", mme.id, mme.enb))
  /\ mme' = MmeIdle
  /\ UNCHANGED <<enbVars, pendingAuth, coreVars, envVars>>

BearerOfLastContext ==
  /\ mme.pc = "create"
  /\ chan["s11Rsp"] # << >>
  /\ LET r == Head(chan["s11Rsp"])
     IN  /\ ue' = [ue EXCEPT ![Len(ue)].bearers =
                               Append(@, [s1u |-> r.val, ip |-> r.ip, teid |-> 0])]
         /\ Reply("s11Rsp", "s1dl", S1("IcsReq", mme.id, mme.enb))
  /\ mme' = MmeIdle
  /\ UNCHANGED <<enbVars, pendingAuth, coreVars, envVars>>

(* The rest of sendCreateSession and handleAuthSuccess, on whatever datagram *)
(* arrives: the IMSI in it is read and not compared.                         *)
CreateSessionRsp ==
  /\ mme.pc = "create"
  /\ chan["s11Rsp"] # << >>
  /\ LET r == Head(chan["s11Rsp"])
     IN  IF r.cause = Accepted /\ r.ip # 0 /\ Known(mme.id)
           THEN /\ ue' = [ue EXCEPT ![mme.id].bearers =
                                      Append(@, [s1u |-> r.val, ip |-> r.ip, teid |-> 0])]
                /\ Reply("s11Rsp", "s1dl", S1("IcsReq", mme.id, mme.enb))
           ELSE /\ Consume("s11Rsp")
                /\ UNCHANGED ue
  /\ mme' = MmeIdle
  /\ UNCHANGED <<enbVars, pendingAuth, coreVars, envVars>>

HandleSecModeComplete ==
  /\ MmeReady("SecModeCmpl")
  /\ Consume("s1ul")
  /\ UNCHANGED <<enbVars, mmeVars, coreVars, envVars>>

(* handleULNasTransport, Attach Complete: REGISTERED whatever the state was. *)
HandleAttachComplete ==
  /\ MmeReady("AttachCmpl")
  /\ LET id == Head(chan["s1ul"]).mme
     IN  ue' = IF Known(id) THEN [ue EXCEPT ![id].emm = "REGISTERED"] ELSE ue
  /\ Consume("s1ul")
  /\ UNCHANGED <<enbVars, mme, pendingAuth, coreVars, envVars>>
----------------------------------------------------------------------------
(* Mutant: a TEID once stored is kept. *)
StoreFirstTeid(id, teid) ==
  ue' = IF HasBearer(id) /\ ue[id].bearers[1].teid = 0
          THEN [ue EXCEPT ![id].bearers[1].teid = teid] ELSE ue

(* The default bearer's eNB TEID, as both Context Setup Response and        *)
(* Handover Request Acknowledge store it: nothing without a bearer.         *)
StoreEnbTeid(id, teid) ==
  ue' = IF HasBearer(id) THEN [ue EXCEPT ![id].bearers[1].teid = teid] ELSE ue

ImsiOf(id) == IF Known(id) THEN ue[id].imsi ELSE 0

ModifyReq(id, teid) == [About("ModifyReq", ImsiOf(id)) EXCEPT !.val = teid]

(* handleICSetupResponse up to its wait for the S-GW. *)
HandleICSetupResponse ==
  /\ MmeReady("IcsRsp")
  /\ LET m == Head(chan["s1ul"])
     IN  /\ StoreEnbTeid(m.mme, m.val)
         /\ Reply("s1ul", "s11Req", ModifyReq(m.mme, m.val))
         /\ mme' = [pc |-> "modify", id |-> m.mme, enb |-> m.enb, imsi |-> ImsiOf(m.mme)]
  /\ UNCHANGED <<enbVars, pendingAuth, coreVars, envVars>>

ModifyBearerRsp ==
  /\ mme.pc = "modify"
  /\ chan["s11Rsp"] # << >>
  /\ Consume("s11Rsp")
  /\ mme' = MmeIdle
  /\ UNCHANGED <<enbVars, ue, pendingAuth, coreVars, envVars>>

(* recvWithTimeout gives up: a session request or a Context Setup's modify *)
(* request is abandoned, its answer left to whoever receives next.         *)
MmeTimeout ==
  /\ mme.pc \in {"create", "modify"}
  /\ chan["s11Rsp"] = << >>
  /\ timeouts < MaxTimeouts
  /\ timeouts' = timeouts + 1
  /\ mme' = MmeIdle
  /\ UNCHANGED <<chan, enbVars, ue, pendingAuth, coreVars, drops, mobility>>
----------------------------------------------------------------------------
(* handleTauRequest: accepted without a look at the context. *)
HandleTauRequest ==
  /\ MmeReady("TauReq")
  /\ LET m == Head(chan["s1ul"])
     IN  Reply("s1ul", "s1dl", S1("TauAccept", m.mme, m.enb))
  /\ UNCHANGED <<enbVars, mmeVars, coreVars, envVars>>

HandleHandoverRequired ==
  /\ MmeReady("HoRequired")
  /\ LET m == Head(chan["s1ul"])
     IN  Reply("s1ul", "s1dl", S1("HoRequest", m.mme, m.enb))
  /\ UNCHANGED <<enbVars, mmeVars, coreVars, envVars>>

HandleHandoverRequestAck ==
  /\ MmeReady("HoAck")
  /\ LET m == Head(chan["s1ul"])
     IN  /\ StoreEnbTeid(m.mme, m.val)
         /\ Reply("s1ul", "s1dl", S1("HoCommand", m.mme, m.enb))
  /\ UNCHANGED <<enbVars, mme, pendingAuth, coreVars, envVars>>

HandleEnbStatusTransfer ==
  /\ MmeReady("EnbStatus")
  /\ LET m == Head(chan["s1ul"])
     IN  Reply("s1ul", "s1dl", S1("MmeStatus", m.mme, m.enb))
  /\ UNCHANGED <<enbVars, mmeVars, coreVars, envVars>>

(* handleHandoverNotify up to sendModifyBearer's wait: the path switch goes *)
(* to the TEID of the notification, or to the context's if it has none.     *)
FinalTeid(m) ==
  IF m.val # 0 THEN m.val ELSE IF HasBearer(m.mme) THEN ue[m.mme].bearers[1].teid ELSE 200

HandleHandoverNotify ==
  /\ MmeReady("HoNotify")
  /\ LET m == Head(chan["s1ul"])
     IN  /\ Reply("s1ul", "s11Req", ModifyReq(m.mme, FinalTeid(m)))
         /\ mme' = [pc |-> "switch", id |-> m.mme, enb |-> m.enb, imsi |-> ImsiOf(m.mme)]
  /\ UNCHANGED <<enbVars, ue, pendingAuth, coreVars, envVars>>

(* The rest of it: the source context is released whether or not the S-GW  *)
(* answered.                                                               *)
PathSwitched ==
  /\ mme.pc = "switch"
  /\ chan["s11Rsp"] # << >>
  /\ Reply("s11Rsp", "s1dl", S1("RelCmd", mme.id, mme.enb))
  /\ mme' = MmeIdle
  /\ UNCHANGED <<enbVars, ue, pendingAuth, coreVars, envVars>>

PathSwitchTimeout ==
  /\ mme.pc = "switch"
  /\ chan["s11Rsp"] = << >>
  /\ timeouts < MaxTimeouts
  /\ timeouts' = timeouts + 1
  /\ Send("s1dl", S1("RelCmd", mme.id, mme.enb))
  /\ mme' = MmeIdle
  /\ UNCHANGED <<enbVars, ue, pendingAuth, coreVars, drops, mobility>>

(* Mutant: the source cell's release takes the UE out of REGISTERED. *)
ReleaseResetsState ==
  /\ MmeReady("RelCmpl")
  /\ LET id == Head(chan["s1ul"]).mme
     IN  ue' = IF Known(id) THEN [ue EXCEPT ![id].emm = "REGISTERED_INITIATED"] ELSE ue
  /\ Consume("s1ul")
  /\ UNCHANGED <<enbVars, mme, pendingAuth, coreVars, envVars>>

HandleUeContextRelCmpl ==
  /\ MmeReady("RelCmpl")
  /\ Consume("s1ul")
  /\ UNCHANGED <<enbVars, mmeVars, coreVars, envVars>>
----------------------------------------------------------------------------
(* What mme_th does when it is not held up by a time-out. *)
MmeThread ==
  \/ HandleInitialUEMsg \/ TakeAuthVector \/ HandleAuthResponse \/ CreateSessionRsp
  \/ HandleSecModeComplete \/ HandleAttachComplete \/ HandleICSetupResponse
  \/ ModifyBearerRsp \/ HandleTauRequest \/ HandleHandoverRequired
  \/ HandleHandoverRequestAck \/ HandleEnbStatusTransfer \/ HandleHandoverNotify
  \/ PathSwitched \/ HandleUeContextRelCmpl
============================================================================
