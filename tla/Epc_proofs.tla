----------------------------- MODULE Epc_proofs -----------------------------
(***************************************************************************)
(* Proofs about the EPC, for any number of UEs, commands, time-outs and    *)
(* dropped answers: the variables keep their types, and the eNB's and the  *)
(* MME's numbering of UEs agree.                                           *)
(***************************************************************************)
EXTENDS Epc, TLAPS

(* The sockets, by themselves: every FIFO holds messages. *)
ChanOK == chan \in [Channel -> Seq(Msg)]

(* The messages the handlers build are messages. *)
LEMMA MsgS1 ==
  ASSUME NEW t \in UplinkType \cup DownlinkType, NEW m \in Nat, NEW e \in Nat
  PROVE  S1(t, m, e) \in Msg
  BY DEF S1, Blank, Msg

LEMMA MsgAbout ==
  ASSUME NEW t \in CoreType, NEW i \in Nat
  PROVE  About(t, i) \in Msg
  BY DEF About, Blank, Msg

LEMMA MsgBlank == Blank \in Msg
  BY DEF Blank, Msg

LEMMA MsgVal ==
  ASSUME NEW m \in Msg, NEW v \in Nat
  PROVE  [m EXCEPT !.val = v] \in Msg /\ [m EXCEPT !.imsi = v] \in Msg
  BY DEF Msg

(* The first message of a FIFO is a message, and using the sockets keeps   *)
(* them FIFOs of messages.                                                 *)
LEMMA HeadMsg ==
  ASSUME ChanOK, NEW c \in Channel, chan[c] # << >>
  PROVE  Head(chan[c]) \in Msg
  BY DEF ChanOK

LEMMA ConsumeOK ==
  ASSUME ChanOK, NEW c \in Channel, chan[c] # << >>, Consume(c)
  PROVE  ChanOK'
  BY DEF ChanOK, Consume

LEMMA SendOK ==
  ASSUME ChanOK, NEW d \in Channel, NEW m \in Msg, Send(d, m)
  PROVE  ChanOK'
  BY DEF ChanOK, Send

LEMMA ReplyOK ==
  ASSUME ChanOK, NEW c \in Channel, NEW d \in Channel \ {c}, NEW m \in Msg,
         chan[c] # << >>, Reply(c, d, m)
  PROVE  ChanOK'
<1>1. Tail(chan[c]) \in Seq(Msg) /\ Append(chan[d], m) \in Seq(Msg)
  BY DEF ChanOK
<1>2. QED  BY <1>1 DEF ChanOK, Reply
----------------------------------------------------------------------------
(* Replacing one context, or the first bearer of one, keeps ue_store_ typed. *)
LEMMA SeqUpdate ==
  ASSUME NEW S, NEW s \in Seq(S), NEW i \in DOMAIN s, NEW e \in S
  PROVE  [s EXCEPT ![i] = e] \in Seq(S)
  OBVIOUS

LEMMA StoreTeidOK ==
  ASSUME ue \in Seq(Context), NEW id, NEW teid \in Nat, StoreEnbTeid(id, teid)
  PROVE  ue' \in Seq(Context)
<1>1. CASE ~HasBearer(id)  BY <1>1 DEF StoreEnbTeid
<1>2. CASE HasBearer(id)
  <2> DEFINE b == ue[id].bearers
             c == [ue[id] EXCEPT !.bearers = [b EXCEPT ![1] = [b[1] EXCEPT !.teid = teid]]]
  <2>1. id \in DOMAIN ue /\ ue[id] \in Context  BY <1>2 DEF HasBearer, Known
  <2>2. b \in Seq(Bearer) /\ b # << >>  BY <1>2, <2>1 DEF HasBearer, Context
  <2>3. 1 \in DOMAIN b /\ b[1] \in Bearer  BY <2>2
  <2>4. [b[1] EXCEPT !.teid = teid] \in Bearer  BY <2>3 DEF Bearer
  <2>5. [b EXCEPT ![1] = [b[1] EXCEPT !.teid = teid]] \in Seq(Bearer)
    BY <2>2, <2>3, <2>4, SeqUpdate
  <2>6. c \in Context  BY <2>1, <2>5 DEF Context
  <2>7. ue' = [ue EXCEPT ![id] = c]  BY <1>2 DEF StoreEnbTeid
  <2>8. QED  BY <2>1, <2>6, <2>7, SeqUpdate
<1>3. QED  BY <1>1, <1>2
----------------------------------------------------------------------------
(* Type correctness, the steps of one node at a time. *)
LEMMA EnbCommandType == TypeOK /\ EnbCommandThread => TypeOK'
<1> SUFFICES ASSUME TypeOK, EnbCommandThread PROVE TypeOK'
  OBVIOUS
<1>1. ChanOK  BY DEF TypeOK, ChanOK
<1>a. nextUe \in Nat \ {0} /\ cmdQueue \in Seq(Command) /\ cmd \in Command \cup {NoCmd}
  BY DEF TypeOK
<1>b. cmd.arg \in Nat  BY <1>a DEF Command, NoCmd
<1> USE DEF Channel
<1>2. CASE TakeCommand
  <2>1. cmd' \in Command /\ cmdQueue' \in Seq(Command)  BY <1>a, <1>2 DEF TakeCommand
  <2>2. QED  BY <1>2, <2>1 DEF TakeCommand, TypeOK, mmeVars, coreVars, envVars
<1>3. CASE SendInitialUEMessage
  <2> DEFINE m == [Blank EXCEPT !.type = "InitialUE", !.enb = nextUe, !.imsi = nextUe]
  <2>1. m \in Msg  BY <1>a DEF Blank, Msg, UplinkType
  <2>2. ChanOK'  BY <1>1, <1>3, <2>1, SendOK DEF SendInitialUEMessage
  <2>3. nextUe' \in Nat \ {0}  BY <1>a, <1>3 DEF SendInitialUEMessage
  <2>4. cmd' \in Command \cup {NoCmd}
    <3>1. cmd \in Command  BY <1>a, <1>3 DEF SendInitialUEMessage, NoCmd
    <3>2. cmd.arg # 1 => [cmd EXCEPT !.arg = @ - 1] \in Command  BY <3>1 DEF Command
    <3>3. QED  BY <1>3, <3>2 DEF SendInitialUEMessage
  <2>5. QED  BY <1>3, <2>2, <2>3, <2>4
             DEF SendInitialUEMessage, TypeOK, ChanOK, mmeVars, coreVars, envVars
<1>4. CASE SendTauRequest
  <2>1. [S1("TauReq", cmd.arg, cmd.arg) EXCEPT !.imsi = cmd.arg] \in Msg
    BY <1>b, MsgS1, MsgVal DEF UplinkType
  <2>2. ChanOK'  BY <1>1, <1>4, <2>1, SendOK DEF SendTauRequest
  <2>3. QED  BY <1>4, <2>2
             DEF SendTauRequest, TypeOK, ChanOK, NoCmd, mmeVars, coreVars, envVars
<1>5. CASE SendHandoverRequired
  <2>1. [S1("HoRequired", cmd.arg, cmd.arg) EXCEPT !.imsi = cmd.arg] \in Msg
    BY <1>b, MsgS1, MsgVal DEF UplinkType
  <2>2. ChanOK'  BY <1>1, <1>5, <2>1, SendOK DEF SendHandoverRequired
  <2>3. QED  BY <1>5, <2>2
             DEF SendHandoverRequired, TypeOK, ChanOK, NoCmd, mmeVars, coreVars, envVars
<1>6. QED  BY <1>2, <1>3, <1>4, <1>5 DEF EnbCommandThread

(* A handler of the eNB's receive thread that answers and changes nothing. *)
LEMMA EnbReplyType ==
  ASSUME TypeOK, NEW t \in UplinkType, NEW v \in Nat,
         chan["s1dl"] # << >>,
         LET m == Head(chan["s1dl"])
         IN  Reply("s1dl", "s1ul", [S1(t, m.mme, m.enb) EXCEPT !.val = v])
             \/ Reply("s1dl", "s1ul", S1(t, m.mme, m.enb))
  PROVE  ChanOK'
<1> DEFINE m == Head(chan["s1dl"])
<1>1. ChanOK  BY DEF TypeOK, ChanOK
<1>2. m \in Msg  BY <1>1, HeadMsg DEF Channel
<1>3. S1(t, m.mme, m.enb) \in Msg  BY <1>2, MsgS1 DEF Msg
<1>4. [S1(t, m.mme, m.enb) EXCEPT !.val = v] \in Msg  BY <1>3, MsgVal
<1>5. QED  BY <1>1, <1>3, <1>4, ReplyOK DEF Channel

LEMMA EnbReceiveType == TypeOK /\ EnbReceiveThread => TypeOK'
<1> SUFFICES ASSUME TypeOK, EnbReceiveThread PROVE TypeOK'
  OBVIOUS
<1> USE DEF RxReady, Got, UplinkType
<1>1. ChanOK  BY DEF TypeOK, ChanOK
<1>2. chan["s1dl"] # << >> => Head(chan["s1dl"]) \in Msg  BY <1>1, HeadMsg DEF Channel
<1>3. NextEnbTeid \in Nat /\ NextEnbTeid - 1 \in Nat
  BY DEF NextEnbTeid, FirstEnbTeid, TypeOK
<1>4. ASSUME ChanOK', UNCHANGED <<enbVars, mmeVars, coreVars, envVars>>
      PROVE  TypeOK'
  BY <1>4 DEF TypeOK, ChanOK, enbVars, mmeVars, coreVars, envVars
<1>5. CASE HandleAuthRequest
  <2>1. Response(Head(chan["s1dl"]).val) \in Nat
    BY <1>2, <1>5 DEF HandleAuthRequest, Response, Msg
  <2>2. ChanOK'  BY <1>5, <2>1, EnbReplyType DEF HandleAuthRequest
  <2>3. QED  BY <1>4, <1>5, <2>2 DEF HandleAuthRequest
<1>6. CASE HandleSecModeCommand
  <2>1. ChanOK'  BY <1>6, EnbReplyType DEF HandleSecModeCommand
  <2>2. QED  BY <1>4, <1>6, <2>1 DEF HandleSecModeCommand
<1>7. CASE HandleICSR
  <2> DEFINE m == Head(chan["s1dl"])
  <2>1. ChanOK'  BY <1>3, <1>7, EnbReplyType DEF HandleICSR
  <2>2. m \in Msg /\ S1("AttachCmpl", m.mme, m.enb) \in Msg
    BY <1>2, <1>7, MsgS1 DEF HandleICSR, Msg
  <2>3. enbTeids' \in Seq(Nat)
    <3>1. m.enb \in Nat /\ enbTeids \in Seq(Nat)  BY <2>2 DEF Msg, TypeOK
    <3>2. enbTeids' = Append(enbTeids, m.enb)  BY <1>7 DEF HandleICSR
    <3>3. QED  BY <3>1, <3>2
  <2>4. rxPending' \in Msg  BY <1>7, <2>2 DEF HandleICSR
  <2>5. QED  BY <1>7, <2>1, <2>3, <2>4
             DEF HandleICSR, TypeOK, ChanOK, mmeVars, coreVars, envVars
<1>8. CASE SendAttachComplete
  <2>1. rxPending \in Msg  BY DEF TypeOK
  <2>2. ChanOK'  BY <1>1, <1>8, <2>1, SendOK DEF SendAttachComplete, Channel
  <2>3. QED  BY <1>8, <2>2, MsgBlank
             DEF SendAttachComplete, TypeOK, ChanOK, mmeVars, coreVars, envVars
<1>9. CASE HandleTauAccept
  <2>1. ChanOK'  BY <1>1, <1>9, ConsumeOK DEF HandleTauAccept, Channel
  <2>2. QED  BY <1>4, <1>9, <2>1 DEF HandleTauAccept
<1>10. CASE HandleHoRequest
  <2> DEFINE m == Head(chan["s1dl"])
  <2>1. ChanOK'  BY <1>3, <1>10, EnbReplyType DEF HandleHoRequest
  <2>2. m \in Msg  BY <1>2, <1>10 DEF HandleHoRequest
  <2>3. enbTeids' \in Seq(Nat)
    <3>1. m.enb \in Nat /\ enbTeids \in Seq(Nat)  BY <2>2 DEF Msg, TypeOK
    <3>2. enbTeids' = Append(enbTeids, m.enb)  BY <1>10 DEF HandleHoRequest
    <3>3. QED  BY <3>1, <3>2
  <2>4. QED  BY <1>10, <2>1, <2>3
             DEF HandleHoRequest, TypeOK, ChanOK, mmeVars, coreVars, envVars
<1>11. CASE HandleHoCommand
  <2>1. ChanOK'  BY <1>11, EnbReplyType DEF HandleHoCommand
  <2>2. QED  BY <1>4, <1>11, <2>1 DEF HandleHoCommand
<1>12. CASE HandleMmeStatusXfer
  <2>1. ChanOK'  BY <1>3, <1>12, EnbReplyType DEF HandleMmeStatusXfer
  <2>2. QED  BY <1>4, <1>12, <2>1 DEF HandleMmeStatusXfer
<1>13. CASE HandleUeCtxRelCmd
  <2>1. ChanOK'  BY <1>13, EnbReplyType DEF HandleUeCtxRelCmd
  <2>2. QED  BY <1>4, <1>13, <2>1 DEF HandleUeCtxRelCmd
<1>14. QED
  BY <1>5, <1>6, <1>7, <1>8, <1>9, <1>10, <1>11, <1>12, <1>13 DEF EnbReceiveThread
----------------------------------------------------------------------------
(* What mme_th reads from the S1 connection and from the S-GW. *)
LEMMA MmeFacts ==
  ASSUME TypeOK
  PROVE  /\ ChanOK
         /\ mme \in MmeCall /\ mme.id \in Nat /\ mme.enb \in Nat /\ mme.imsi \in Nat
         /\ ue \in Seq(Context)
         /\ \A k \in DOMAIN ue : ue[k] \in Context
         /\ chan["s1ul"] # << >> => Head(chan["s1ul"]) \in Msg
         /\ chan["s11Rsp"] # << >> => Head(chan["s11Rsp"]) \in Msg
<1>1. ChanOK /\ mme \in MmeCall /\ ue \in Seq(Context)  BY DEF TypeOK, ChanOK
<1>2. mme.id \in Nat /\ mme.enb \in Nat /\ mme.imsi \in Nat  BY <1>1 DEF MmeCall
<1>3. \A k \in DOMAIN ue : ue[k] \in Context  BY <1>1
<1>4. QED  BY <1>1, <1>2, <1>3, HeadMsg DEF Channel

(* A handler of the MME that answers the eNB on the same association. *)
LEMMA MmeReplyType ==
  ASSUME TypeOK, NEW t \in DownlinkType, chan["s1ul"] # << >>,
         LET m == Head(chan["s1ul"]) IN Reply("s1ul", "s1dl", S1(t, m.mme, m.enb))
  PROVE  ChanOK'
<1> DEFINE m == Head(chan["s1ul"])
<1>1. ChanOK /\ m \in Msg  BY MmeFacts
<1>2. S1(t, m.mme, m.enb) \in Msg  BY <1>1, MsgS1 DEF Msg
<1>3. QED  BY <1>1, <1>2, ReplyOK DEF Channel

LEMMA ModifyReqMsg ==
  ASSUME TypeOK, NEW id, NEW teid \in Nat
  PROVE  ImsiOf(id) \in Nat /\ ModifyReq(id, teid) \in Msg
<1>1. ImsiOf(id) \in Nat  BY MmeFacts DEF ImsiOf, Known, Context
<1>2. QED  BY <1>1, MsgAbout, MsgVal DEF ModifyReq, CoreType

LEMMA MmeType == TypeOK /\ (MmeThread \/ HssReceive) => TypeOK'
<1> SUFFICES ASSUME TypeOK, MmeThread \/ HssReceive PROVE TypeOK'
  OBVIOUS
<1> DEFINE m == Head(chan["s1ul"])
<1> USE DEF MmeReady, Got
<1>1. ChanOK /\ ue \in Seq(Context) /\ pendingAuth \in SUBSET AuthVector
  BY DEF TypeOK, ChanOK
<1>2. chan["s1ul"] # << >> => m \in Msg  BY MmeFacts
<1>3. MmeIdle \in MmeCall  BY DEF MmeIdle, MmeCall
<1>4. ASSUME ChanOK', UNCHANGED <<enbVars, coreVars, envVars>>, ue' \in Seq(Context),
             mme' \in MmeCall, pendingAuth' \in SUBSET AuthVector
      PROVE  TypeOK'
  BY <1>4 DEF TypeOK, ChanOK, enbVars, coreVars, envVars
<1>5. CASE HandleInitialUEMsg
  <2>1. m \in Msg  BY <1>2, <1>5 DEF HandleInitialUEMsg
  <2>2. m.enb \in Nat /\ m.imsi \in Nat  BY <2>1 DEF Msg
  <2>3. About("AIR", m.imsi) \in Msg  BY <2>2, MsgAbout DEF CoreType
  <2>4. ChanOK'  BY <1>1, <1>5, <2>3, ReplyOK DEF HandleInitialUEMsg, Channel
  <2>5. NewContext(m.enb, m.imsi) \in Context
    <3>1. << >> \in Seq(Bearer)  OBVIOUS
    <3>2. NoVector \in AuthVector  BY DEF NoVector, AuthVector
    <3>3. QED  BY <2>2, <3>1, <3>2 DEF NewContext, Context, EmmState
  <2>6. ue' \in Seq(Context)  BY <1>1, <1>5, <2>5 DEF HandleInitialUEMsg
  <2>7. mme' \in MmeCall  BY <1>1, <1>5, <2>2 DEF HandleInitialUEMsg, MmeCall
  <2>8. QED  BY <1>1, <1>4, <1>5, <2>4, <2>6, <2>7 DEF HandleInitialUEMsg
<1>6. CASE HssReceive
  <2> DEFINE a == Head(chan["s6aAns"])
  <2>1. a \in Msg  BY <1>1, <1>6, HeadMsg DEF HssReceive, Channel
  <2>2. [imsi |-> a.imsi, rand |-> a.val, xres |-> a.xres] \in AuthVector
    BY <2>1 DEF Msg, AuthVector
  <2>3. pendingAuth' \in SUBSET AuthVector  BY <1>1, <1>6, <2>2 DEF HssReceive
  <2>4. ChanOK'  BY <1>1, <1>6, ConsumeOK DEF HssReceive, Channel
  <2>5. QED  BY <1>1, <1>4, <1>6, <2>3, <2>4, MmeFacts DEF HssReceive
<1>7. CASE TakeAuthVector
  <2>1. PICK av \in pendingAuth :
          /\ pendingAuth' = pendingAuth \ {av}
          /\ ue' = IF Known(mme.id)
                     THEN [ue EXCEPT ![mme.id].auth = av, ![mme.id].emm = "AUTH_PENDING"]
                     ELSE ue
          /\ \/ Send("s1dl", [S1("AuthReq", mme.id, mme.enb) EXCEPT !.val = av.rand])
                /\ UNCHANGED drops
             \/ drops < MaxDrops /\ drops' = drops + 1 /\ UNCHANGED chan
    BY <1>7 DEF TakeAuthVector
  <2>2. av \in AuthVector  BY <1>1, <2>1
  <2>3. av.rand \in Nat  BY <2>2 DEF AuthVector
  <2>4. [S1("AuthReq", mme.id, mme.enb) EXCEPT !.val = av.rand] \in Msg
    BY <2>3, MmeFacts, MsgS1, MsgVal DEF DownlinkType
  <2>5. ChanOK'
    <3>1. CASE UNCHANGED chan  BY <1>1, <3>1 DEF ChanOK
    <3>2. CASE Send("s1dl", [S1("AuthReq", mme.id, mme.enb) EXCEPT !.val = av.rand])
      BY <1>1, <2>4, <3>2, SendOK DEF Channel
    <3>3. QED  BY <2>1, <3>1, <3>2
  <2>6. ue' \in Seq(Context)
    <3>1. CASE ~Known(mme.id)  BY <1>1, <2>1, <3>1
    <3>2. CASE Known(mme.id)
      <4> DEFINE c == [ue[mme.id] EXCEPT !.auth = av, !.emm = "AUTH_PENDING"]
      <4>1. mme.id \in DOMAIN ue /\ ue[mme.id] \in Context  BY <3>2, MmeFacts DEF Known
      <4>2. c \in Context  BY <2>2, <4>1 DEF Context, EmmState
      <4>3. ue' = [ue EXCEPT ![mme.id] = c]  BY <1>1, <2>1, <3>2, <4>1
      <4>4. QED  BY <1>1, <4>1, <4>2, <4>3, SeqUpdate
    <3>3. QED  BY <3>1, <3>2
  <2>7. drops' \in Nat  BY <2>1 DEF TypeOK
  <2>8. mme' \in MmeCall  BY <1>3, <1>7 DEF TakeAuthVector
  <2>9. pendingAuth' \in SUBSET AuthVector  BY <1>1, <2>1
  <2>10. UNCHANGED <<enbVars, coreVars, timeouts, mobility>>  BY <1>7 DEF TakeAuthVector
  <2>11. QED
    BY <2>5, <2>6, <2>7, <2>8, <2>9, <2>10 DEF TypeOK, ChanOK, enbVars, coreVars
<1>8. CASE HandleAuthResponse
  <2>1. m \in Msg  BY <1>2, <1>8 DEF HandleAuthResponse
  <2>2. CASE ~AuthMatches(m)
    <3>1. ChanOK'  BY <1>1, <1>8, <2>2, ConsumeOK DEF HandleAuthResponse, Channel
    <3>2. QED  BY <1>1, <1>4, <1>8, <2>2, <3>1, MmeFacts DEF HandleAuthResponse
  <2>3. CASE AuthMatches(m)
    <3> DEFINE id == m.mme
    <3>1. id \in DOMAIN ue /\ ue[id] \in Context  BY <2>3, MmeFacts DEF AuthMatches, Known
    <3>2. id \in Nat /\ ue[id].enb \in Nat /\ ue[id].imsi \in Nat
      BY <2>1, <3>1 DEF Msg, Context
    <3>3. S1("SecModeCmd", id, ue[id].enb) \in Msg /\ About("CreateReq", ue[id].imsi) \in Msg
      BY <3>2, MsgS1, MsgAbout DEF DownlinkType, CoreType
    <3>4. chan' = [chan EXCEPT !["s1ul"] = Tail(chan["s1ul"]),
                     !["s1dl"] = Append(chan["s1dl"], S1("SecModeCmd", id, ue[id].enb)),
                     !["s11Req"] = Append(chan["s11Req"], About("CreateReq", ue[id].imsi))]
      BY <1>8, <2>3 DEF HandleAuthResponse
    <3>5. /\ Tail(chan["s1ul"]) \in Seq(Msg)
          /\ Append(chan["s1dl"], S1("SecModeCmd", id, ue[id].enb)) \in Seq(Msg)
          /\ Append(chan["s11Req"], About("CreateReq", ue[id].imsi)) \in Seq(Msg)
      BY <1>1, <1>8, <3>3 DEF ChanOK, Channel, HandleAuthResponse
    <3>6. ChanOK'  BY <1>1, <3>4, <3>5 DEF ChanOK
    <3>7. ue' \in Seq(Context)
      <4> DEFINE c == [ue[id] EXCEPT !.emm = "SESSION_PENDING"]
      <4>1. c \in Context  BY <3>1 DEF Context, EmmState
      <4>2. ue' = [ue EXCEPT ![id] = c]  BY <1>8, <2>3 DEF HandleAuthResponse
      <4>3. QED  BY <1>1, <3>1, <4>1, <4>2, SeqUpdate
    <3>8. mme' \in MmeCall  BY <1>8, <2>3, <3>2 DEF HandleAuthResponse, MmeCall
    <3>9. QED  BY <1>1, <1>4, <1>8, <3>6, <3>7, <3>8 DEF HandleAuthResponse
  <2>4. QED  BY <2>2, <2>3
<1>9. CASE CreateSessionRsp
  <2> DEFINE r == Head(chan["s11Rsp"])
             id == mme.id
  <2>1. r \in Msg  BY <1>9, MmeFacts DEF CreateSessionRsp
  <2>2. mme' \in MmeCall  BY <1>3, <1>9 DEF CreateSessionRsp
  <2>3. CASE ~(r.cause = Accepted /\ r.ip # 0 /\ Known(id))
    <3>1. ChanOK'  BY <1>1, <1>9, <2>3, ConsumeOK DEF CreateSessionRsp, Channel
    <3>2. QED  BY <1>1, <1>4, <1>9, <2>2, <2>3, <3>1 DEF CreateSessionRsp
  <2>4. CASE r.cause = Accepted /\ r.ip # 0 /\ Known(id)
    <3>1. S1("IcsReq", id, mme.enb) \in Msg  BY MmeFacts, MsgS1 DEF DownlinkType
    <3>2. ChanOK'  BY <1>1, <1>9, <2>4, <3>1, ReplyOK DEF CreateSessionRsp, Channel
    <3>3. ue' \in Seq(Context)
      <4> DEFINE b == [s1u |-> r.val, ip |-> r.ip, teid |-> 0]
                 c == [ue[id] EXCEPT !.bearers = Append(ue[id].bearers, b)]
      <4>1. id \in DOMAIN ue /\ ue[id] \in Context  BY <2>4, MmeFacts DEF Known
      <4>2. b \in Bearer  BY <2>1 DEF Msg, Bearer
      <4>3. Append(ue[id].bearers, b) \in Seq(Bearer)
        <5>1. ue[id].bearers \in Seq(Bearer)  BY <4>1 DEF Context
        <5>2. QED  BY <4>2, <5>1
      <4>4. c \in Context  BY <4>1, <4>3 DEF Context
      <4>5. ue' = [ue EXCEPT ![id] = c]  BY <1>9, <2>4 DEF CreateSessionRsp
      <4>6. QED  BY <1>1, <4>1, <4>4, <4>5, SeqUpdate
    <3>4. QED  BY <1>1, <1>4, <1>9, <2>2, <3>2, <3>3 DEF CreateSessionRsp
  <2>5. QED  BY <2>3, <2>4
<1>10. CASE HandleSecModeComplete
  <2>1. ChanOK'  BY <1>1, <1>10, ConsumeOK DEF HandleSecModeComplete, Channel
  <2>2. QED  BY <1>1, <1>4, <1>10, <2>1, MmeFacts DEF HandleSecModeComplete, mmeVars
<1>11. CASE HandleAttachComplete
  <2> DEFINE id == m.mme
  <2>1. ChanOK'  BY <1>1, <1>11, ConsumeOK DEF HandleAttachComplete, Channel
  <2>2. ue' \in Seq(Context)
    <3>1. CASE ~Known(id)  BY <1>1, <1>11, <3>1 DEF HandleAttachComplete
    <3>2. CASE Known(id)
      <4> DEFINE c == [ue[id] EXCEPT !.emm = "REGISTERED"]
      <4>1. id \in DOMAIN ue /\ ue[id] \in Context  BY <3>2, MmeFacts DEF Known
      <4>2. c \in Context  BY <4>1 DEF Context, EmmState
      <4>3. ue' = [ue EXCEPT ![id] = c]  BY <1>11, <3>2 DEF HandleAttachComplete
      <4>4. QED  BY <1>1, <4>1, <4>2, <4>3, SeqUpdate
    <3>3. QED  BY <3>1, <3>2
  <2>3. QED  BY <1>1, <1>4, <1>11, <2>1, <2>2, MmeFacts DEF HandleAttachComplete
<1>12. CASE HandleICSetupResponse
  <2>1. m \in Msg /\ m.val \in Nat /\ m.mme \in Nat /\ m.enb \in Nat
    BY <1>2, <1>12 DEF HandleICSetupResponse, Msg
  <2>2. ModifyReq(m.mme, m.val) \in Msg /\ ImsiOf(m.mme) \in Nat  BY <2>1, ModifyReqMsg
  <2>3. ChanOK'  BY <1>1, <1>12, <2>2, ReplyOK DEF HandleICSetupResponse, Channel
  <2>4. ue' \in Seq(Context)  BY <1>1, <1>12, <2>1, StoreTeidOK DEF HandleICSetupResponse
  <2>5. mme' \in MmeCall  BY <1>12, <2>1, <2>2 DEF HandleICSetupResponse, MmeCall
  <2>6. QED  BY <1>1, <1>4, <1>12, <2>3, <2>4, <2>5 DEF HandleICSetupResponse
<1>13. CASE ModifyBearerRsp
  <2>1. ChanOK'  BY <1>1, <1>13, ConsumeOK DEF ModifyBearerRsp, Channel
  <2>2. QED  BY <1>1, <1>3, <1>4, <1>13, <2>1 DEF ModifyBearerRsp
<1>14. CASE HandleTauRequest
  <2>1. ChanOK'  BY <1>14, MmeReplyType DEF HandleTauRequest, DownlinkType
  <2>2. QED  BY <1>1, <1>4, <1>14, <2>1, MmeFacts DEF HandleTauRequest, mmeVars
<1>15. CASE HandleHandoverRequired
  <2>1. ChanOK'  BY <1>15, MmeReplyType DEF HandleHandoverRequired, DownlinkType
  <2>2. QED  BY <1>1, <1>4, <1>15, <2>1, MmeFacts DEF HandleHandoverRequired, mmeVars
<1>16. CASE HandleHandoverRequestAck
  <2>1. ChanOK'  BY <1>16, MmeReplyType DEF HandleHandoverRequestAck, DownlinkType
  <2>2. m.val \in Nat  BY <1>2, <1>16 DEF HandleHandoverRequestAck, Msg
  <2>3. ue' \in Seq(Context)  BY <1>1, <1>16, <2>2, StoreTeidOK DEF HandleHandoverRequestAck
  <2>4. QED  BY <1>1, <1>4, <1>16, <2>1, <2>3, MmeFacts DEF HandleHandoverRequestAck
<1>17. CASE HandleEnbStatusTransfer
  <2>1. ChanOK'  BY <1>17, MmeReplyType DEF HandleEnbStatusTransfer, DownlinkType
  <2>2. QED  BY <1>1, <1>4, <1>17, <2>1, MmeFacts DEF HandleEnbStatusTransfer, mmeVars
<1>18. CASE HandleHandoverNotify
  <2>1. m \in Msg /\ m.val \in Nat /\ m.mme \in Nat /\ m.enb \in Nat
    BY <1>2, <1>18 DEF HandleHandoverNotify, Msg
  <2>2. FinalTeid(m) \in Nat
    <3>1. ASSUME HasBearer(m.mme) PROVE ue[m.mme].bearers[1].teid \in Nat
      <4>1. ue[m.mme].bearers \in Seq(Bearer) /\ ue[m.mme].bearers # << >>
        BY <3>1, MmeFacts DEF HasBearer, Known, Context
      <4>2. ue[m.mme].bearers[1] \in Bearer  BY <4>1
      <4>3. QED  BY <4>2 DEF Bearer
    <3>2. QED  BY <2>1, <3>1 DEF FinalTeid
  <2>3. ModifyReq(m.mme, FinalTeid(m)) \in Msg /\ ImsiOf(m.mme) \in Nat
    BY <2>2, ModifyReqMsg
  <2>4. ChanOK'  BY <1>1, <1>18, <2>3, ReplyOK DEF HandleHandoverNotify, Channel
  <2>5. mme' \in MmeCall  BY <1>18, <2>1, <2>3 DEF HandleHandoverNotify, MmeCall
  <2>6. QED  BY <1>1, <1>4, <1>18, <2>4, <2>5 DEF HandleHandoverNotify
<1>19. CASE PathSwitched
  <2>1. S1("RelCmd", mme.id, mme.enb) \in Msg  BY MmeFacts, MsgS1 DEF DownlinkType
  <2>2. ChanOK'  BY <1>1, <1>19, <2>1, ReplyOK DEF PathSwitched, Channel
  <2>3. QED  BY <1>1, <1>3, <1>4, <1>19, <2>2 DEF PathSwitched
<1>20. CASE HandleUeContextRelCmpl
  <2>1. ChanOK'  BY <1>1, <1>20, ConsumeOK DEF HandleUeContextRelCmpl, Channel
  <2>2. QED  BY <1>1, <1>4, <1>20, <2>1, MmeFacts DEF HandleUeContextRelCmpl, mmeVars
<1>21. QED
  BY <1>5, <1>6, <1>7, <1>8, <1>9, <1>10, <1>11, <1>12, <1>13, <1>14, <1>15, <1>16,
     <1>17, <1>18, <1>19, <1>20 DEF MmeThread
----------------------------------------------------------------------------
LEMMA ServersType ==
  TypeOK /\ (HandleAIR \/ SgwThread \/ PgwThread \/ HandleCCR) => TypeOK'
<1> SUFFICES ASSUME TypeOK, HandleAIR \/ SgwThread \/ PgwThread \/ HandleCCR PROVE TypeOK'
  OBVIOUS
<1> USE DEF Got
<1>1. ChanOK /\ sgw \in [busy : BOOLEAN, imsi : Nat, s1u : Nat, next : Nat]
             /\ pgw \in [busy : BOOLEAN, imsi : Nat] /\ sessions \in Seq(Nat)
  BY DEF TypeOK, ChanOK
<1>2. \A c \in Channel : chan[c] # << >> => Head(chan[c]) \in Msg  BY <1>1, HeadMsg
<1>3. ASSUME ChanOK', UNCHANGED <<enbVars, mmeVars, envVars>>,
             sgw' \in [busy : BOOLEAN, imsi : Nat, s1u : Nat, next : Nat],
             pgw' \in [busy : BOOLEAN, imsi : Nat], sessions' \in Seq(Nat)
      PROVE  TypeOK'
  BY <1>3 DEF TypeOK, ChanOK, enbVars, mmeVars, envVars
<1>4. CASE HandleAIR
  <2> DEFINE i == Head(chan["s6aReq"]).imsi
             a == [About("AIA", i) EXCEPT !.val = i, !.xres = Response(i)]
  <2>1. i \in Nat  BY <1>2, <1>4 DEF HandleAIR, Channel, Msg
  <2>2. a \in Msg
    <3>1. Response(i) \in Nat  BY <2>1 DEF Response
    <3>2. About("AIA", i) \in Msg  BY <2>1, MsgAbout DEF CoreType
    <3>3. QED  BY <2>1, <3>1, <3>2 DEF Msg
  <2>3. Reply("s6aReq", "s6aAns", a)  BY <1>4 DEF HandleAIR, GenerateAuthVectors
  <2>4. ChanOK'  BY <1>1, <1>4, <2>2, <2>3, ReplyOK DEF HandleAIR, Channel
  <2>5. QED  BY <1>1, <1>3, <1>4, <2>4 DEF HandleAIR, coreVars
<1>5. CASE SgwCreateSessionReq
  <2> DEFINE i == Head(chan["s11Req"]).imsi
  <2>1. i \in Nat  BY <1>2, <1>5 DEF SgwCreateSessionReq, Channel, Msg
  <2>2. About("CreateReq", i) \in Msg  BY <2>1, MsgAbout DEF CoreType
  <2>3. ChanOK'  BY <1>1, <1>5, <2>2, ReplyOK DEF SgwCreateSessionReq, Channel
  <2>4. sgw' \in [busy : BOOLEAN, imsi : Nat, s1u : Nat, next : Nat]
    BY <1>1, <1>5, <2>1 DEF SgwCreateSessionReq
  <2>5. QED  BY <1>1, <1>3, <1>5, <2>3, <2>4 DEF SgwCreateSessionReq
<1>6. CASE SgwCreateSessionRsp
  <2> DEFINE r == Head(chan["s5Rsp"])
             a == [About("CreateRsp", sgw.imsi) EXCEPT !.cause = Accepted,
                                                       !.val = sgw.s1u, !.ip = r.ip]
  <2>1. r \in Msg  BY <1>2, <1>6 DEF SgwCreateSessionRsp, Channel
  <2>2. a \in Msg  BY <1>1, <2>1 DEF About, Blank, Msg, CoreType, Accepted
  <2>5. ChanOK'
    <3>1. CASE r.cause = Accepted /\ r.ip # 0
      BY <1>1, <1>6, <2>2, <3>1, ReplyOK DEF SgwCreateSessionRsp, Channel
    <3>2. CASE ~(r.cause = Accepted /\ r.ip # 0)
      BY <1>1, <1>6, <3>2, ConsumeOK DEF SgwCreateSessionRsp, Channel
    <3>3. QED  BY <3>1, <3>2
  <2>6. sgw' \in [busy : BOOLEAN, imsi : Nat, s1u : Nat, next : Nat]
    BY <1>1, <1>6 DEF SgwCreateSessionRsp, NoSession
  <2>7. QED  BY <1>1, <1>3, <1>6, <2>5, <2>6 DEF SgwCreateSessionRsp
<1>7. CASE SgwModifyBearerReq
  <2>1. [Blank EXCEPT !.type = "ModifyRsp", !.cause = Accepted] \in Msg
    BY DEF Blank, Msg, CoreType, Accepted
  <2>2. ChanOK'  BY <1>1, <1>7, <2>1, ReplyOK DEF SgwModifyBearerReq, Channel
  <2>3. QED  BY <1>1, <1>3, <1>7, <2>2 DEF SgwModifyBearerReq, coreVars
<1>8. CASE PgwCreateSessionReq
  <2> DEFINE i == Head(chan["s5Req"]).imsi
  <2>1. i \in Nat  BY <1>2, <1>8 DEF PgwCreateSessionReq, Channel, Msg
  <2>2. About("CCR", i) \in Msg  BY <2>1, MsgAbout DEF CoreType
  <2>3. ChanOK'  BY <1>1, <1>8, <2>2, ReplyOK DEF PgwCreateSessionReq, Channel
  <2>4. pgw' \in [busy : BOOLEAN, imsi : Nat]  BY <1>8, <2>1 DEF PgwCreateSessionReq
  <2>5. QED  BY <1>1, <1>3, <1>8, <2>3, <2>4 DEF PgwCreateSessionReq
<1>9. CASE PgwApproved
  <2> DEFINE a == [Blank EXCEPT !.type = "CreateRsp", !.cause = Accepted,
                                !.ip = Len(sessions) + 1]
  <2>1. Len(sessions) + 1 \in Nat /\ pgw.imsi \in Nat  BY <1>1
  <2>2. a \in Msg  BY <2>1 DEF Blank, Msg, CoreType, Accepted
  <2>3. ChanOK'  BY <1>1, <1>9, <2>2, ReplyOK DEF PgwApproved, Channel
  <2>4. sessions' \in Seq(Nat)  BY <1>1, <1>9, <2>1 DEF PgwApproved
  <2>5. pgw' \in [busy : BOOLEAN, imsi : Nat]  BY <1>9 DEF PgwApproved, PgwIdle
  <2>6. QED  BY <1>1, <1>3, <1>9, <2>3, <2>4, <2>5 DEF PgwApproved
<1>10. CASE HandleCCR
  <2> DEFINE i == Head(chan["gxReq"]).imsi
  <2>1. i \in Nat  BY <1>2, <1>10 DEF HandleCCR, Channel, Msg
  <2>2. [About("CCA", i) EXCEPT !.val = 1] \in Msg  BY <2>1, MsgAbout, MsgVal DEF CoreType
  <2>3. ChanOK'  BY <1>1, <1>10, <2>2, ReplyOK DEF HandleCCR, Channel
  <2>4. QED  BY <1>1, <1>3, <1>10, <2>3 DEF HandleCCR, coreVars
<1>11. QED
  BY <1>4, <1>5, <1>6, <1>7, <1>8, <1>9, <1>10 DEF SgwThread, PgwThread

LEMMA TimeoutType == TypeOK /\ Timeout => TypeOK'
<1> SUFFICES ASSUME TypeOK, Timeout PROVE TypeOK'
  OBVIOUS
<1>1. ChanOK /\ timeouts \in Nat  BY DEF TypeOK, ChanOK
<1>2. MmeIdle \in MmeCall  BY DEF MmeIdle, MmeCall
<1>3. CASE MmeTimeout
  BY <1>1, <1>2, <1>3 DEF MmeTimeout, TypeOK, enbVars, coreVars
<1>4. CASE PathSwitchTimeout
  <2>1. S1("RelCmd", mme.id, mme.enb) \in Msg  BY MmeFacts, MsgS1 DEF DownlinkType
  <2>2. ChanOK'  BY <1>1, <1>4, <2>1, SendOK DEF PathSwitchTimeout, Channel
  <2>3. QED  BY <1>1, <1>2, <1>4, <2>2 DEF PathSwitchTimeout, TypeOK, ChanOK, enbVars, coreVars
<1>5. CASE SgwTimeout
  <2>1. sgw' \in [busy : BOOLEAN, imsi : Nat, s1u : Nat, next : Nat]
    BY <1>5 DEF SgwTimeout, NoSession, TypeOK
  <2>2. QED  BY <1>1, <1>5, <2>1 DEF SgwTimeout, TypeOK, enbVars, mmeVars
<1>6. CASE PgwTimeout
  <2>1. [Blank EXCEPT !.type = "CreateRsp", !.cause = Denied] \in Msg
    BY DEF Blank, Msg, CoreType, Denied
  <2>2. ChanOK'  BY <1>1, <1>6, <2>1, SendOK DEF PgwTimeout, Channel
  <2>3. QED  BY <1>1, <1>6, <2>2
             DEF PgwTimeout, TypeOK, ChanOK, PgwIdle, enbVars, mmeVars
<1>7. QED  BY <1>3, <1>4, <1>5, <1>6 DEF Timeout

LEMMA CliType == TypeOK /\ Cli => TypeOK'
<1> SUFFICES ASSUME TypeOK, Cli PROVE TypeOK'
  OBVIOUS
<1>1. cmdQueue \in Seq(Command) /\ mobility \in Nat  BY DEF TypeOK
<1>2. CASE CliAttach
  <2>1. PICK n \in 1 .. MaxUe : SubmitCommand([op |-> "CR", arg |-> n])
    BY <1>2 DEF CliAttach
  <2>2. [op |-> "CR", arg |-> n] \in Command  BY EpcBounds DEF Command
  <2>3. cmdQueue' \in Seq(Command)  BY <1>1, <2>1, <2>2 DEF SubmitCommand
  <2>4. QED  BY <1>2, <2>3 DEF CliAttach, TypeOK, mmeVars, coreVars, envVars
<1>3. CASE CliMobility
  <2>1. PICK op \in {"TAU", "HO"}, u \in 1 .. MaxUe : SubmitCommand([op |-> op, arg |-> u])
    BY <1>3 DEF CliMobility
  <2>2. [op |-> op, arg |-> u] \in Command  BY EpcBounds DEF Command
  <2>3. cmdQueue' \in Seq(Command)  BY <1>1, <2>1, <2>2 DEF SubmitCommand
  <2>4. QED  BY <1>1, <1>3, <2>3 DEF CliMobility, TypeOK, mmeVars, coreVars
<1>4. QED  BY <1>2, <1>3 DEF Cli

(* Every variable keeps its type in every step of every thread: no handler  *)
(* builds a malformed message, context or TEID from what it reads, whatever *)
(* answer it mistakes for its own.                                          *)
THEOREM TypeCorrect == Spec => []TypeOK
<1>1. Init => TypeOK
  <2> SUFFICES ASSUME Init PROVE TypeOK
    OBVIOUS
  <2>1. chan \in [Channel -> Seq(Msg)]  BY DEF Init
  <2>2. Blank \in Msg  BY MsgBlank
  <2>3. QED
    BY <2>1, <2>2 DEF Init, EnbInit, MmeInit, ServersInit, TypeOK, MmeIdle, MmeCall,
                      NoSession, PgwIdle, FirstSgwTeid
<1>2. TypeOK /\ [Next]_vars => TypeOK'
  <2> SUFFICES ASSUME TypeOK, [Next]_vars PROVE TypeOK'
    OBVIOUS
  <2>1. CASE UNCHANGED vars
    BY <2>1 DEF TypeOK, vars, enbVars, mmeVars, coreVars, envVars
  <2>2. CASE Next
    BY <2>2, EnbCommandType, EnbReceiveType, MmeType, ServersType, TimeoutType, CliType
       DEF Next
  <2>3. QED  BY <2>1, <2>2
<1>3. QED  BY <1>1, <1>2, PTL DEF Spec
----------------------------------------------------------------------------
(* The numbering: how a message sent to or read by the MME changes it. *)
LEMMA NumberedSend ==
  ASSUME NEW q \in Seq(Msg), NEW n \in Nat, NEW x \in Nat, Numbered(q, n, x),
         NEW m \in Msg, m.type # "InitialUE", m.mme = m.enb
  PROVE  Numbered(Append(q, m), n, x)
<1> DEFINE r == Append(q, m)
<1>1. DOMAIN q = 1 .. Len(q) /\ DOMAIN r = 1 .. Len(q) + 1
  OBVIOUS
<1>2. \A i \in DOMAIN q : r[i] = q[i]
  OBVIOUS
<1>3. r[Len(q) + 1] = m
  OBVIOUS
<1> HIDE DEF r
<1>4. QED  BY <1>1, <1>2, <1>3 DEF Numbered

LEMMA NumberedNew ==
  ASSUME NEW q \in Seq(Msg), NEW n \in Nat, NEW x \in Nat, Numbered(q, n, x),
         NEW m \in Msg, m.type = "InitialUE", m.enb = x, m.imsi = x
  PROVE  Numbered(Append(q, m), n, x + 1)
<1> DEFINE r == Append(q, m)
<1>1. DOMAIN q = 1 .. Len(q) /\ DOMAIN r = 1 .. Len(q) + 1 /\ Len(q) \in Nat
  OBVIOUS
<1>2. \A i \in DOMAIN q : r[i] = q[i] /\ q[i] \in Msg
  OBVIOUS
<1>3. r[Len(q) + 1] = m
  OBVIOUS
<1>a. \A i \in DOMAIN q : q[i].enb \in Nat  BY <1>2 DEF Msg
<1> HIDE DEF r
<1>4. n < x + 1  BY DEF Numbered
<1>5. ASSUME NEW i \in DOMAIN r
      PROVE  IF r[i].type = "InitialUE"
               THEN r[i].imsi = r[i].enb /\ n < r[i].enb /\ r[i].enb < x + 1
               ELSE r[i].mme = r[i].enb
  <2>1. CASE i = Len(q) + 1  BY <1>3, <2>1 DEF Numbered
  <2>2. CASE i # Len(q) + 1
    <3>1. i \in DOMAIN q /\ r[i] = q[i] /\ q[i].enb \in Nat  BY <1>1, <1>2, <1>a, <2>2
    <3>2. QED  BY <3>1 DEF Numbered
  <2>3. QED  BY <2>1, <2>2
<1>6. ASSUME NEW i \in DOMAIN r, NEW j \in DOMAIN r,
             i < j, r[i].type = "InitialUE", r[j].type = "InitialUE"
      PROVE  r[i].enb < r[j].enb
  BY <1>1, <1>2, <1>3, <1>6 DEF Numbered
<1>7. ASSUME NEW e \in n + 1 .. (x + 1) - 1
      PROVE  \E i \in DOMAIN r : r[i].type = "InitialUE" /\ r[i].enb = e
  <2>1. CASE e = x  BY <1>1, <1>3, <2>1
  <2>2. CASE e # x
    <3>1. e \in n + 1 .. x - 1  BY <2>2
    <3>2. PICK i \in DOMAIN q : q[i].type = "InitialUE" /\ q[i].enb = e
      BY <3>1 DEF Numbered
    <3>3. QED  BY <1>1, <1>2, <3>2
  <2>3. QED  BY <2>1, <2>2
<1>8. Numbered(r, n, x + 1)  BY <1>4, <1>5, <1>6, <1>7 DEF Numbered
<1>9. QED  BY <1>8 DEF r

LEMMA TailFacts ==
  ASSUME NEW q \in Seq(Msg), q # << >>
  PROVE  /\ Len(q) \in Nat \ {0} /\ DOMAIN q = 1 .. Len(q)
         /\ DOMAIN Tail(q) = 1 .. Len(q) - 1
         /\ \A i \in DOMAIN Tail(q) : Tail(q)[i] = q[i + 1]
         /\ Head(q) = q[1]
  OBVIOUS

LEMMA NumberedRead ==
  ASSUME NEW q \in Seq(Msg), NEW n \in Nat, NEW x \in Nat, Numbered(q, n, x),
         q # << >>, Head(q).type # "InitialUE"
  PROVE  Numbered(Tail(q), n, x) /\ Head(q).mme = Head(q).enb
<1> DEFINE r == Tail(q)
<1>1. /\ Len(q) \in Nat \ {0} /\ DOMAIN q = 1 .. Len(q) /\ DOMAIN r = 1 .. Len(q) - 1
      /\ \A i \in DOMAIN r : r[i] = q[i + 1]
      /\ Head(q) = q[1]
  BY TailFacts
<1> HIDE DEF r
<1>2. \A i \in DOMAIN r : i + 1 \in DOMAIN q  BY <1>1
<1>3. ASSUME NEW e \in n + 1 .. x - 1
      PROVE  \E i \in DOMAIN r : r[i].type = "InitialUE" /\ r[i].enb = e
  <2>1. PICK i \in DOMAIN q : q[i].type = "InitialUE" /\ q[i].enb = e  BY DEF Numbered
  <2>2. i # 1  BY <1>1, <2>1
  <2>3. i - 1 \in DOMAIN r /\ r[i - 1] = q[i]  BY <1>1, <2>2
  <2>4. QED  BY <2>1, <2>3
<1>4. ASSUME NEW i \in DOMAIN r, NEW j \in DOMAIN r,
             i < j, r[i].type = "InitialUE", r[j].type = "InitialUE"
      PROVE  r[i].enb < r[j].enb
  <2>1. i + 1 < j + 1  BY <1>1, <1>4
  <2>2. QED  BY <1>1, <1>2, <1>4, <2>1 DEF Numbered
<1>5. Numbered(r, n, x)  BY <1>1, <1>2, <1>3, <1>4 DEF Numbered
<1>6. Head(q).mme = Head(q).enb  BY <1>1 DEF Numbered
<1>7. QED  BY <1>5, <1>6 DEF r

(* The heart of the argument: an attach request at the head of the queue is *)
(* from the UE with the number the MME assigns next.                        *)
LEMMA NumberedAttach ==
  ASSUME NEW q \in Seq(Msg), NEW n \in Nat, NEW x \in Nat, Numbered(q, n, x),
         q # << >>, Head(q).type = "InitialUE"
  PROVE  Numbered(Tail(q), n + 1, x) /\ Head(q).enb = n + 1 /\ Head(q).imsi = n + 1
<1> DEFINE r == Tail(q)
<1>1. /\ Len(q) \in Nat \ {0} /\ DOMAIN q = 1 .. Len(q) /\ DOMAIN r = 1 .. Len(q) - 1
      /\ \A i \in DOMAIN r : r[i] = q[i + 1]
      /\ Head(q) = q[1]
  BY TailFacts
<1> HIDE DEF r
<1>2. \A i \in DOMAIN r : i + 1 \in DOMAIN q  BY <1>1
<1>3. \A i \in DOMAIN q : q[i].enb \in Nat
  <2>1. \A i \in DOMAIN q : q[i] \in Msg  OBVIOUS
  <2>2. QED  BY <2>1 DEF Msg
<1>4. q[1].imsi = q[1].enb /\ n < q[1].enb /\ q[1].enb < x  BY <1>1 DEF Numbered
<1>5. q[1].enb = n + 1
  <2>1. n + 1 \in n + 1 .. x - 1  BY <1>1, <1>3, <1>4
  <2>2. PICK i \in DOMAIN q : q[i].type = "InitialUE" /\ q[i].enb = n + 1
    BY <2>1 DEF Numbered
  <2>3. i # 1 => q[1].enb < q[i].enb  BY <1>1, <2>2 DEF Numbered
  <2>4. QED  BY <1>1, <1>3, <1>4, <2>2, <2>3
<1>6. ASSUME NEW i \in DOMAIN r
      PROVE  IF r[i].type = "InitialUE"
               THEN r[i].imsi = r[i].enb /\ n + 1 < r[i].enb /\ r[i].enb < x
               ELSE r[i].mme = r[i].enb
  <2>1. 1 < i + 1 /\ 1 \in DOMAIN q  BY <1>1
  <2>2. QED  BY <1>1, <1>2, <1>5, <2>1 DEF Numbered
<1>7. ASSUME NEW i \in DOMAIN r, NEW j \in DOMAIN r,
             i < j, r[i].type = "InitialUE", r[j].type = "InitialUE"
      PROVE  r[i].enb < r[j].enb
  <2>1. i + 1 < j + 1  BY <1>1, <1>7
  <2>2. QED  BY <1>1, <1>2, <1>7, <2>1 DEF Numbered
<1>8. ASSUME NEW e \in (n + 1) + 1 .. x - 1
      PROVE  \E i \in DOMAIN r : r[i].type = "InitialUE" /\ r[i].enb = e
  <2>0. e \in n + 1 .. x - 1 /\ e # n + 1  OBVIOUS
  <2>1. PICK i \in DOMAIN q : q[i].type = "InitialUE" /\ q[i].enb = e
    BY <2>0 DEF Numbered
  <2>2. i # 1  BY <1>5, <2>0, <2>1
  <2>3. i - 1 \in DOMAIN r /\ r[i - 1] = q[i]  BY <1>1, <2>2
  <2>4. QED  BY <2>1, <2>3
<1>9. n + 1 < x  BY <1>4, <1>5
<1>10. Numbered(r, n + 1, x)  BY <1>6, <1>7, <1>8, <1>9 DEF Numbered
<1>11. QED  BY <1>1, <1>4, <1>5, <1>10 DEF r
----------------------------------------------------------------------------
(* What one use of the sockets does to each of them. *)
LEMMA ReplyEffect ==
  ASSUME ChanOK, NEW c \in Channel, NEW d \in Channel \ {c}, NEW m, Reply(c, d, m)
  PROVE  /\ chan'[c] = Tail(chan[c]) /\ chan'[d] = Append(chan[d], m)
         /\ \A e \in Channel \ {c, d} : chan'[e] = chan[e]
  BY DEF ChanOK, Reply

LEMMA SendEffect ==
  ASSUME ChanOK, NEW d \in Channel, NEW m, Send(d, m)
  PROVE  /\ chan'[d] = Append(chan[d], m)
         /\ \A e \in Channel \ {d} : chan'[e] = chan[e]
  BY DEF ChanOK, Send

LEMMA ConsumeEffect ==
  ASSUME ChanOK, NEW c \in Channel, Consume(c)
  PROVE  /\ chan'[c] = Tail(chan[c])
         /\ \A e \in Channel \ {c} : chan'[e] = chan[e]
  BY DEF ChanOK, Consume

LEMMA S1Fields ==
  ASSUME NEW t, NEW m, NEW e, NEW v
  PROVE  /\ S1(t, m, e).type = t /\ S1(t, m, e).mme = m /\ S1(t, m, e).enb = e
         /\ [S1(t, m, e) EXCEPT !.val = v].type = t
         /\ [S1(t, m, e) EXCEPT !.val = v].mme = m /\ [S1(t, m, e) EXCEPT !.val = v].enb = e
         /\ [S1(t, m, e) EXCEPT !.imsi = v].type = t
         /\ [S1(t, m, e) EXCEPT !.imsi = v].mme = m /\ [S1(t, m, e) EXCEPT !.imsi = v].enb = e
  BY DEF S1, Blank

(* Queues of messages whose two ids agree. *)
Aligned(q) == \A i \in DOMAIN q : q[i].mme = q[i].enb

LEMMA AlignedSend ==
  ASSUME NEW q \in Seq(Msg), Aligned(q), NEW m \in Msg, m.mme = m.enb
  PROVE  Aligned(Append(q, m))
<1>1. /\ DOMAIN Append(q, m) = 1 .. Len(q) + 1 /\ Len(q) \in Nat
      /\ \A i \in 1 .. Len(q) : Append(q, m)[i] = q[i] /\ i \in DOMAIN q
      /\ Append(q, m)[Len(q) + 1] = m
  OBVIOUS
<1>2. QED  BY <1>1 DEF Aligned

LEMMA AlignedRead ==
  ASSUME NEW q \in Seq(Msg), Aligned(q), q # << >>
  PROVE  Aligned(Tail(q)) /\ Head(q).mme = Head(q).enb
<1>1. /\ Len(q) \in Nat \ {0} /\ DOMAIN q = 1 .. Len(q) /\ DOMAIN Tail(q) = 1 .. Len(q) - 1
      /\ \A i \in DOMAIN Tail(q) : Tail(q)[i] = q[i + 1]
      /\ Head(q) = q[1]
  BY TailFacts
<1>2. QED  BY <1>1 DEF Aligned

(* The invariant, taken apart and put together. *)
LEMMA IdsFacts ==
  ASSUME TypeOK, IdsInv
  PROVE  /\ ChanOK
         /\ chan["s1ul"] \in Seq(Msg) /\ chan["s1dl"] \in Seq(Msg)
         /\ Len(ue) \in Nat /\ nextUe \in Nat /\ DOMAIN ue = 1 .. Len(ue)
         /\ Numbered(chan["s1ul"], Len(ue), nextUe) /\ Aligned(chan["s1dl"])
         /\ \A k \in DOMAIN ue : ue[k].enb = k /\ ue[k].imsi = k
         /\ mme.id = mme.enb /\ rxPending.mme = rxPending.enb
  BY DEF TypeOK, IdsInv, ChanOK, Channel, Aligned

LEMMA IdsIntro ==
  ASSUME TypeOK, TypeOK', IdsInv, Numbered(chan'["s1ul"], Len(ue'), nextUe'),
         Aligned(chan'["s1dl"]),
         UNCHANGED ue \/ \A k \in DOMAIN ue' : ue'[k].enb = k /\ ue'[k].imsi = k,
         mme'.id = mme'.enb, rxPending'.mme = rxPending'.enb
  PROVE  IdsInv'
  BY DEF IdsInv, Aligned

LEMMA IdsEnbCommand == TypeOK /\ IdsInv /\ EnbCommandThread => IdsInv'
<1> SUFFICES ASSUME TypeOK, IdsInv, EnbCommandThread PROVE IdsInv'
  OBVIOUS
<1> DEFINE q == chan["s1ul"]
<1>1. TypeOK'  BY EnbCommandType
<1>2. ChanOK  BY IdsFacts
<1>3. UNCHANGED <<ue, mme, rxPending>>
  BY DEF EnbCommandThread, TakeCommand, SendInitialUEMessage, SendTauRequest,
         SendHandoverRequired, mmeVars
<1>4. mme'.id = mme'.enb /\ rxPending'.mme = rxPending'.enb  BY <1>3, IdsFacts
<1>5. CASE TakeCommand
  BY <1>1, <1>3, <1>4, <1>5, IdsFacts, IdsIntro DEF TakeCommand
<1>6. CASE SendInitialUEMessage
  <2> DEFINE m == [Blank EXCEPT !.type = "InitialUE", !.enb = nextUe, !.imsi = nextUe]
  <2>1. m \in Msg /\ m.type = "InitialUE" /\ m.enb = nextUe /\ m.imsi = nextUe
    BY IdsFacts DEF Blank, Msg, UplinkType
  <2>2. chan'["s1ul"] = Append(q, m) /\ chan'["s1dl"] = chan["s1dl"]
    BY <1>2, <1>6, SendEffect DEF SendInitialUEMessage, Channel
  <2>3. Numbered(Append(q, m), Len(ue), nextUe + 1)
    <3> HIDE DEF m
    <3> QED  BY <2>1, IdsFacts, NumberedNew
  <2>4. nextUe' = nextUe + 1  BY <1>6 DEF SendInitialUEMessage
  <2>5. QED  BY <1>1, <1>3, <1>4, <2>2, <2>3, <2>4, IdsFacts, IdsIntro
<1>7. ASSUME NEW t \in UplinkType \ {"InitialUE"},
             Send("s1ul", [S1(t, cmd.arg, cmd.arg) EXCEPT !.imsi = cmd.arg]), UNCHANGED nextUe
      PROVE  IdsInv'
  <2> DEFINE m == [S1(t, cmd.arg, cmd.arg) EXCEPT !.imsi = cmd.arg]
  <2>1. cmd.arg \in Nat  BY DEF TypeOK, Command, NoCmd
  <2>2. m \in Msg /\ m.type # "InitialUE" /\ m.mme = m.enb
    <3>1. S1(t, cmd.arg, cmd.arg) \in Msg  BY <2>1, MsgS1
    <3>2. m \in Msg  BY <2>1, <3>1, MsgVal
    <3>3. m.type = t /\ m.mme = cmd.arg /\ m.enb = cmd.arg  BY S1Fields
    <3>4. QED  BY <3>2, <3>3
  <2>3. chan'["s1ul"] = Append(q, m) /\ chan'["s1dl"] = chan["s1dl"]
    BY <1>2, <1>7, SendEffect DEF Channel
  <2>4. Numbered(Append(q, m), Len(ue), nextUe)
    <3> HIDE DEF m
    <3> QED  BY <2>2, IdsFacts, NumberedSend
  <2>5. QED  BY <1>1, <1>3, <1>4, <1>7, <2>3, <2>4, IdsFacts, IdsIntro
<1>8. CASE SendTauRequest  BY <1>7, <1>8 DEF SendTauRequest, UplinkType
<1>9. CASE SendHandoverRequired  BY <1>7, <1>9 DEF SendHandoverRequired, UplinkType
<1>10. QED  BY <1>5, <1>6, <1>8, <1>9 DEF EnbCommandThread

(* A reply of the eNB on the association it was addressed on. *)
LEMMA IdsEnbReply ==
  ASSUME TypeOK, TypeOK', IdsInv, chan["s1dl"] # << >>, UNCHANGED <<ue, mme, nextUe>>,
         rxPending'.mme = rxPending'.enb,
         NEW m \in Msg, m.type # "InitialUE",
         Head(chan["s1dl"]).mme = Head(chan["s1dl"]).enb => m.mme = m.enb,
         Reply("s1dl", "s1ul", m)
  PROVE  IdsInv'
<1>1. ChanOK  BY IdsFacts
<1>2. Aligned(Tail(chan["s1dl"])) /\ m.mme = m.enb  BY IdsFacts, AlignedRead
<1>3. chan'["s1ul"] = Append(chan["s1ul"], m) /\ chan'["s1dl"] = Tail(chan["s1dl"])
  BY <1>1, ReplyEffect DEF Channel
<1>4. Numbered(chan'["s1ul"], Len(ue), nextUe)  BY <1>2, <1>3, IdsFacts, NumberedSend
<1>5. mme'.id = mme'.enb  BY IdsFacts
<1>6. QED  BY <1>2, <1>3, <1>4, <1>5, IdsIntro

LEMMA IdsEnbReceive == TypeOK /\ IdsInv /\ EnbReceiveThread => IdsInv'
<1> SUFFICES ASSUME TypeOK, IdsInv, EnbReceiveThread PROVE IdsInv'
  OBVIOUS
<1> DEFINE h == Head(chan["s1dl"])
<1> USE DEF RxReady, Got
<1>1. TypeOK'  BY EnbReceiveType
<1>2. ChanOK /\ rxPending.mme = rxPending.enb /\ mme.id = mme.enb  BY IdsFacts
<1>3. chan["s1dl"] # << >> => h \in Msg /\ h.mme \in Nat /\ h.enb \in Nat /\ h.val \in Nat
  <2>1. chan["s1dl"] # << >> => h \in Msg  BY <1>2, HeadMsg DEF Channel
  <2>2. QED  BY <2>1 DEF Msg
<1>4. NextEnbTeid \in Nat /\ NextEnbTeid - 1 \in Nat
  BY DEF NextEnbTeid, FirstEnbTeid, TypeOK
<1>5. ASSUME chan["s1dl"] # << >>, UNCHANGED <<ue, mme, nextUe>>,
             rxPending'.mme = rxPending'.enb,
             NEW t \in UplinkType \ {"InitialUE"}, NEW v \in Nat,
             \/ Reply("s1dl", "s1ul", S1(t, h.mme, h.enb))
             \/ Reply("s1dl", "s1ul", [S1(t, h.mme, h.enb) EXCEPT !.val = v])
      PROVE  IdsInv'
  <2> DEFINE m == S1(t, h.mme, h.enb)
             n == [S1(t, h.mme, h.enb) EXCEPT !.val = v]
  <2>1. m \in Msg /\ n \in Msg  BY <1>3, <1>5, MsgS1, MsgVal
  <2>2. /\ m.type # "InitialUE" /\ m.mme = h.mme /\ m.enb = h.enb
        /\ n.type # "InitialUE" /\ n.mme = h.mme /\ n.enb = h.enb
    BY S1Fields
  <2>3. Reply("s1dl", "s1ul", m) \/ Reply("s1dl", "s1ul", n)  BY <1>5
  <2> HIDE DEF m, n
  <2>4. QED  BY <1>1, <1>5, <2>1, <2>2, <2>3, IdsEnbReply
<1> USE DEF UplinkType
<1>6. CASE HandleAuthRequest
  <2>1. Response(h.val) \in Nat  BY <1>3, <1>6 DEF HandleAuthRequest, Response
  <2>2. QED  BY <1>2, <1>5, <1>6, <2>1 DEF HandleAuthRequest, enbVars, mmeVars
<1>7. CASE HandleSecModeCommand
  BY <1>2, <1>5, <1>7 DEF HandleSecModeCommand, enbVars, mmeVars
<1>8. CASE HandleICSR
  <2>1. Aligned(chan["s1dl"])  BY IdsFacts
  <2>2. h.mme = h.enb  BY <1>8, <2>1, IdsFacts, AlignedRead DEF HandleICSR
  <2>3. rxPending'.mme = rxPending'.enb  BY <1>8, <2>2, S1Fields DEF HandleICSR
  <2>4. QED  BY <1>4, <1>5, <1>8, <2>3 DEF HandleICSR, mmeVars
<1>9. CASE SendAttachComplete
  <2>1. rxPending \in Msg /\ rxPending.type # "InitialUE"
    BY <1>9 DEF SendAttachComplete, TypeOK
  <2>2. /\ chan'["s1ul"] = Append(chan["s1ul"], rxPending)
        /\ chan'["s1dl"] = chan["s1dl"]
    BY <1>2, <1>9, SendEffect DEF SendAttachComplete, Channel
  <2>3. Numbered(chan'["s1ul"], Len(ue), nextUe)
    BY <2>1, <2>2, IdsFacts, NumberedSend
  <2>4. rxPending'.mme = rxPending'.enb  BY <1>9 DEF SendAttachComplete, Blank
  <2>5. QED  BY <1>1, <1>2, <1>9, <2>2, <2>3, <2>4, IdsFacts, IdsIntro
             DEF SendAttachComplete, mmeVars
<1>10. CASE HandleTauAccept
  <2>1. chan'["s1ul"] = chan["s1ul"] /\ chan'["s1dl"] = Tail(chan["s1dl"])
    BY <1>2, <1>10, ConsumeEffect DEF HandleTauAccept, Channel
  <2>2. Aligned(chan'["s1dl"])  BY <1>10, <2>1, IdsFacts, AlignedRead DEF HandleTauAccept
  <2>3. QED  BY <1>1, <1>2, <1>10, <2>1, <2>2, IdsFacts, IdsIntro
             DEF HandleTauAccept, enbVars, mmeVars
<1>11. CASE HandleHoRequest
  BY <1>2, <1>4, <1>5, <1>11 DEF HandleHoRequest, mmeVars
<1>12. CASE HandleHoCommand
  BY <1>2, <1>5, <1>12 DEF HandleHoCommand, enbVars, mmeVars
<1>13. CASE HandleMmeStatusXfer
  BY <1>2, <1>4, <1>5, <1>13 DEF HandleMmeStatusXfer, enbVars, mmeVars
<1>14. CASE HandleUeCtxRelCmd
  BY <1>2, <1>5, <1>14 DEF HandleUeCtxRelCmd, enbVars, mmeVars
<1>15. QED
  BY <1>6, <1>7, <1>8, <1>9, <1>10, <1>11, <1>12, <1>13, <1>14 DEF EnbReceiveThread

(* A step of mme_th that reads a message other than an attach request, and  *)
(* one that leaves the uplink alone.                                        *)
LEMMA IdsMmeRead ==
  ASSUME TypeOK, TypeOK', IdsInv, chan["s1ul"] # << >>, Head(chan["s1ul"]).type # "InitialUE",
         UNCHANGED <<nextUe, rxPending>>, Len(ue') = Len(ue),
         \A k \in DOMAIN ue' : ue'[k].enb = k /\ ue'[k].imsi = k,
         Head(chan["s1ul"]).mme = Head(chan["s1ul"]).enb => mme'.id = mme'.enb,
         chan'["s1ul"] = Tail(chan["s1ul"]),
         \/ chan'["s1dl"] = chan["s1dl"]
         \/ \E m \in Msg : /\ chan'["s1dl"] = Append(chan["s1dl"], m)
                           /\ Head(chan["s1ul"]).mme = Head(chan["s1ul"]).enb => m.mme = m.enb
  PROVE  IdsInv'
<1>1. /\ Numbered(chan'["s1ul"], Len(ue'), nextUe')
      /\ Head(chan["s1ul"]).mme = Head(chan["s1ul"]).enb
  BY IdsFacts, NumberedRead
<1>2. Aligned(chan'["s1dl"])  BY <1>1, IdsFacts, AlignedSend
<1>3. mme'.id = mme'.enb /\ rxPending'.mme = rxPending'.enb  BY <1>1, IdsFacts
<1>4. QED  BY <1>1, <1>2, <1>3, IdsIntro

LEMMA IdsMmeOther ==
  ASSUME TypeOK, TypeOK', IdsInv, UNCHANGED <<nextUe, rxPending>>, Len(ue') = Len(ue),
         \A k \in DOMAIN ue' : ue'[k].enb = k /\ ue'[k].imsi = k,
         mme'.id = mme'.enb, chan'["s1ul"] = chan["s1ul"],
         \/ chan'["s1dl"] = chan["s1dl"]
         \/ \E m \in Msg : chan'["s1dl"] = Append(chan["s1dl"], m) /\ m.mme = m.enb
  PROVE  IdsInv'
<1>1. Numbered(chan'["s1ul"], Len(ue'), nextUe')  BY IdsFacts
<1>2. Aligned(chan'["s1dl"])  BY IdsFacts, AlignedSend
<1>3. rxPending'.mme = rxPending'.enb  BY IdsFacts
<1>4. QED  BY <1>1, <1>2, <1>3, IdsIntro

(* Updating the other fields of a context keeps its ids. *)
LEMMA IdsStoreTeid ==
  ASSUME TypeOK, IdsInv, NEW id, NEW teid, StoreEnbTeid(id, teid)
  PROVE  Len(ue') = Len(ue) /\ \A k \in DOMAIN ue' : ue'[k].enb = k /\ ue'[k].imsi = k
<1>1. CASE ~HasBearer(id)  BY <1>1, IdsFacts DEF StoreEnbTeid
<1>2. CASE HasBearer(id)
  <2> DEFINE b == [ue[id].bearers EXCEPT ![1].teid = teid]
  <2>1. ue' = [ue EXCEPT ![id] = [ue[id] EXCEPT !.bearers = b]]
    BY <1>2 DEF StoreEnbTeid
  <2>2. id \in DOMAIN ue /\ ue \in Seq(Context) /\ ue[id] \in Context
    BY <1>2, MmeFacts DEF HasBearer, Known
  <2>3. [ue[id] EXCEPT !.bearers = b].enb = ue[id].enb
        /\ [ue[id] EXCEPT !.bearers = b].imsi = ue[id].imsi
    BY <2>2 DEF Context
  <2> HIDE DEF b
  <2>4. DOMAIN ue' = DOMAIN ue /\ Len(ue') = Len(ue)  BY <2>1, <2>2
  <2>5. QED  BY <2>1, <2>2, <2>3, <2>4, IdsFacts
<1>3. QED  BY <1>1, <1>2

LEMMA IdsMme == TypeOK /\ IdsInv /\ (MmeThread \/ HssReceive) => IdsInv'
<1> SUFFICES ASSUME TypeOK, IdsInv, MmeThread \/ HssReceive PROVE IdsInv'
  OBVIOUS
<1> DEFINE m == Head(chan["s1ul"])
           IdsKept == /\ Len(ue') = Len(ue)
                      /\ \A k \in DOMAIN ue' : ue'[k].enb = k /\ ue'[k].imsi = k
<1> USE DEF MmeReady, Got
<1>1. TypeOK'  BY MmeType
<1>2. ChanOK /\ mme.id = mme.enb /\ mme.id \in Nat /\ mme.enb \in Nat  BY IdsFacts, MmeFacts
<1>3. chan["s1ul"] # << >> => m \in Msg /\ m.mme \in Nat /\ m.enb \in Nat
  <2>1. chan["s1ul"] # << >> => m \in Msg  BY MmeFacts
  <2>2. QED  BY <2>1 DEF Msg
<1>4. UNCHANGED ue => IdsKept  BY IdsFacts
<1>5. MmeIdle.id = MmeIdle.enb  BY DEF MmeIdle
<1>6. ASSUME NEW t \in DownlinkType, chan["s1ul"] # << >>, m.type # "InitialUE",
             Reply("s1ul", "s1dl", S1(t, m.mme, m.enb)), IdsKept,
             UNCHANGED <<nextUe, rxPending, mme>>
      PROVE  IdsInv'
  <2> DEFINE n == S1(t, m.mme, m.enb)
  <2>1. n \in Msg /\ n.mme = m.mme /\ n.enb = m.enb  BY <1>3, <1>6, MsgS1, S1Fields
  <2> HIDE DEF n
  <2>2. chan'["s1ul"] = Tail(chan["s1ul"]) /\ chan'["s1dl"] = Append(chan["s1dl"], n)
    BY <1>2, <1>6 DEF Reply, ChanOK, Channel, n
  <2>3. QED  BY <1>1, <1>2, <1>6, <2>1, <2>2, IdsMmeRead
<1>7. ASSUME chan["s1ul"] # << >>, m.type # "InitialUE", Consume("s1ul"), IdsKept,
             UNCHANGED <<nextUe, rxPending, mme>>
      PROVE  IdsInv'
  <2>1. chan'["s1ul"] = Tail(chan["s1ul"]) /\ chan'["s1dl"] = chan["s1dl"]
    BY <1>2, <1>7, ConsumeEffect DEF Channel
  <2>2. QED  BY <1>1, <1>2, <1>7, <2>1, IdsMmeRead
<1>8. ASSUME NEW d \in Channel \ {"s1ul", "s1dl"}, NEW n, chan["s1ul"] # << >>,
             m.type # "InitialUE", Reply("s1ul", d, n), IdsKept,
             UNCHANGED <<nextUe, rxPending>>, mme'.id = m.mme, mme'.enb = m.enb
      PROVE  IdsInv'
  <2>1. chan'["s1ul"] = Tail(chan["s1ul"]) /\ chan'["s1dl"] = chan["s1dl"]
    BY <1>2, <1>8 DEF Reply, ChanOK, Channel
  <2>2. QED  BY <1>1, <1>8, <2>1, IdsMmeRead
<1>9. CASE HandleInitialUEMsg
  <2>1. /\ Numbered(Tail(chan["s1ul"]), Len(ue) + 1, nextUe)
        /\ m.enb = Len(ue) + 1 /\ m.imsi = Len(ue) + 1
    BY <1>9, IdsFacts, NumberedAttach DEF HandleInitialUEMsg
  <2>2. chan'["s1ul"] = Tail(chan["s1ul"]) /\ chan'["s1dl"] = chan["s1dl"]
    BY <1>2, <1>9, ReplyEffect DEF HandleInitialUEMsg, Channel
  <2> DEFINE c == NewContext(m.enb, m.imsi)
  <2>3. c.enb = Len(ue) + 1 /\ c.imsi = Len(ue) + 1  BY <2>1 DEF NewContext
  <2>4. ue' = Append(ue, c)  BY <1>9 DEF HandleInitialUEMsg
  <2> HIDE DEF c
  <2>5. Len(ue') = Len(ue) + 1 /\ DOMAIN ue' = 1 .. Len(ue) + 1
    BY <2>4, MmeFacts
  <2>6. \A k \in DOMAIN ue' : ue'[k].enb = k /\ ue'[k].imsi = k
    <3> SUFFICES ASSUME NEW k \in DOMAIN ue' PROVE ue'[k].enb = k /\ ue'[k].imsi = k
      OBVIOUS
    <3>1. CASE k = Len(ue) + 1
      <4>1. ue'[k] = c  BY <2>4, <3>1, MmeFacts
      <4>2. QED  BY <2>3, <3>1, <4>1
    <3>2. CASE k # Len(ue) + 1
      <4>1. k \in DOMAIN ue  BY <2>5, <3>2, IdsFacts
      <4>2. ue'[k] = ue[k]  BY <2>4, <4>1, MmeFacts
      <4>3. QED  BY <4>1, <4>2, IdsFacts
    <3>3. QED  BY <3>1, <3>2
  <2>7. mme'.id = mme'.enb  BY <1>9, <2>1 DEF HandleInitialUEMsg
  <2>8. UNCHANGED <<nextUe, rxPending>>  BY <1>9 DEF HandleInitialUEMsg, enbVars
  <2>9. Numbered(chan'["s1ul"], Len(ue'), nextUe')  BY <2>1, <2>2, <2>5, <2>8
  <2>10. QED  BY <1>1, <2>2, <2>6, <2>7, <2>8, <2>9, IdsFacts, IdsIntro
<1>10. CASE HssReceive
  <2>1. chan'["s1ul"] = chan["s1ul"] /\ chan'["s1dl"] = chan["s1dl"]
    BY <1>2, <1>10, ConsumeEffect DEF HssReceive, Channel
  <2>2. QED  BY <1>1, <1>2, <1>4, <1>10, <2>1, IdsMmeOther DEF HssReceive, enbVars
<1>11. CASE TakeAuthVector
  <2>1. PICK av \in pendingAuth :
          /\ ue' = IF Known(mme.id)
                     THEN [ue EXCEPT ![mme.id].auth = av, ![mme.id].emm = "AUTH_PENDING"]
                     ELSE ue
          /\ \/ Send("s1dl", [S1("AuthReq", mme.id, mme.enb) EXCEPT !.val = av.rand])
             \/ UNCHANGED chan
    BY <1>11 DEF TakeAuthVector
  <2>2. IdsKept
    <3>1. CASE ~Known(mme.id)  BY <1>4, <2>1, <3>1
    <3>2. CASE Known(mme.id)
      <4> DEFINE c == [ue[mme.id] EXCEPT !.auth = av, !.emm = "AUTH_PENDING"]
      <4>1. mme.id \in DOMAIN ue /\ ue \in Seq(Context) /\ ue[mme.id] \in Context
        BY <3>2, MmeFacts DEF Known
      <4>2. ue' = [ue EXCEPT ![mme.id] = c]  BY <2>1, <3>2, <4>1
      <4>3. c.enb = ue[mme.id].enb /\ c.imsi = ue[mme.id].imsi  BY <4>1 DEF Context
      <4> HIDE DEF c
      <4>4. QED  BY <4>1, <4>2, <4>3, IdsFacts
    <3>3. QED  BY <3>1, <3>2
  <2> DEFINE n == [S1("AuthReq", mme.id, mme.enb) EXCEPT !.val = av.rand]
  <2>3. n \in Msg /\ n.mme = mme.id /\ n.enb = mme.enb
    <3>1. av.rand \in Nat  BY DEF TypeOK, AuthVector
    <3>2. S1("AuthReq", mme.id, mme.enb) \in Msg  BY <1>2, MsgS1 DEF DownlinkType
    <3>3. n \in Msg  BY <3>1, <3>2, MsgVal
    <3>4. n.mme = mme.id /\ n.enb = mme.enb  BY S1Fields
    <3>5. QED  BY <3>3, <3>4
  <2>4. Send("s1dl", n) \/ UNCHANGED chan  BY <2>1
  <2> HIDE DEF n
  <2>5. /\ chan'["s1ul"] = chan["s1ul"]
        /\ chan'["s1dl"] = chan["s1dl"] \/ chan'["s1dl"] = Append(chan["s1dl"], n)
    BY <1>2, <2>4, SendEffect DEF Channel
  <2>6. UNCHANGED <<nextUe, rxPending>> /\ mme' = MmeIdle
    BY <1>11 DEF TakeAuthVector, enbVars
  <2>7. QED  BY <1>1, <1>2, <1>5, <2>2, <2>3, <2>5, <2>6, IdsMmeOther
<1>12. CASE HandleAuthResponse
  <2>1. CASE ~AuthMatches(m)
    BY <1>4, <1>7, <1>12, <2>1 DEF HandleAuthResponse, enbVars
  <2>2. CASE AuthMatches(m)
    <3> DEFINE id == m.mme
               n == S1("SecModeCmd", id, ue[id].enb)
               c == [ue[id] EXCEPT !.emm = "SESSION_PENDING"]
    <3>1. id \in DOMAIN ue /\ ue \in Seq(Context) /\ ue[id] \in Context
      BY <2>2, MmeFacts DEF AuthMatches, Known
    <3>2. ue[id].enb = id /\ id \in Nat  BY <1>3, <1>12, <3>1, IdsFacts DEF HandleAuthResponse
    <3>3. n \in Msg /\ n.mme = n.enb  BY <3>2, MsgS1, S1Fields DEF DownlinkType
    <3>4. chan'["s1ul"] = Tail(chan["s1ul"]) /\ chan'["s1dl"] = Append(chan["s1dl"], n)
      BY <1>2, <1>12, <2>2 DEF HandleAuthResponse, ChanOK, Channel
    <3>5. mme'.id = id /\ mme'.enb = ue[id].enb  BY <1>12, <2>2 DEF HandleAuthResponse
    <3>6. ue' = [ue EXCEPT ![id] = c]  BY <1>12, <2>2 DEF HandleAuthResponse
    <3>7. c.enb = ue[id].enb /\ c.imsi = ue[id].imsi  BY <3>1 DEF Context
    <3> HIDE DEF c, n
    <3>8. IdsKept  BY <3>1, <3>6, <3>7, IdsFacts
    <3>9. QED  BY <1>1, <1>12, <3>2, <3>3, <3>4, <3>5, <3>8, IdsMmeRead
               DEF HandleAuthResponse, enbVars
  <2>3. QED  BY <2>1, <2>2
<1>13. CASE CreateSessionRsp
  <2> DEFINE r == Head(chan["s11Rsp"])
             id == mme.id
             n == S1("IcsReq", id, mme.enb)
  <2>1. UNCHANGED <<nextUe, rxPending>> /\ mme' = MmeIdle
    BY <1>13 DEF CreateSessionRsp, enbVars
  <2>2. CASE ~(r.cause = Accepted /\ r.ip # 0 /\ Known(id))
    <3>1. chan'["s1ul"] = chan["s1ul"] /\ chan'["s1dl"] = chan["s1dl"]
      BY <1>2, <1>13, <2>2, ConsumeEffect DEF CreateSessionRsp, Channel
    <3>2. QED  BY <1>1, <1>4, <1>5, <1>13, <2>1, <2>2, <3>1, IdsMmeOther DEF CreateSessionRsp
  <2>3. CASE r.cause = Accepted /\ r.ip # 0 /\ Known(id)
    <3>1. n \in Msg /\ n.mme = n.enb  BY <1>2, MsgS1, S1Fields DEF DownlinkType
    <3>2. chan'["s1ul"] = chan["s1ul"] /\ chan'["s1dl"] = Append(chan["s1dl"], n)
      BY <1>2, <1>13, <2>3, ReplyEffect DEF CreateSessionRsp, Channel
    <3> DEFINE c == [ue[id] EXCEPT !.bearers = Append(ue[id].bearers,
                       [s1u |-> r.val, ip |-> r.ip, teid |-> 0])]
    <3>3. id \in DOMAIN ue /\ ue \in Seq(Context) /\ ue[id] \in Context
      BY <2>3, MmeFacts DEF Known
    <3>4. ue' = [ue EXCEPT ![id] = c]  BY <1>13, <2>3 DEF CreateSessionRsp
    <3>5. c.enb = ue[id].enb /\ c.imsi = ue[id].imsi  BY <3>3 DEF Context
    <3> HIDE DEF c, n
    <3>6. IdsKept  BY <3>3, <3>4, <3>5, IdsFacts
    <3>7. QED  BY <1>1, <1>5, <2>1, <3>1, <3>2, <3>6, IdsMmeOther
  <2>4. QED  BY <2>2, <2>3
<1>14. CASE HandleSecModeComplete
  BY <1>4, <1>7, <1>14 DEF HandleSecModeComplete, enbVars, mmeVars
<1>15. CASE HandleAttachComplete
  <2> DEFINE id == m.mme
  <2>1. IdsKept
    <3>1. CASE ~Known(id)  BY <1>4, <1>15, <3>1 DEF HandleAttachComplete
    <3>2. CASE Known(id)
      <4> DEFINE c == [ue[id] EXCEPT !.emm = "REGISTERED"]
      <4>1. id \in DOMAIN ue /\ ue \in Seq(Context) /\ ue[id] \in Context
        BY <3>2, MmeFacts DEF Known
      <4>2. ue' = [ue EXCEPT ![id] = c]  BY <1>15, <3>2 DEF HandleAttachComplete
      <4>3. c.enb = ue[id].enb /\ c.imsi = ue[id].imsi  BY <4>1 DEF Context
      <4> HIDE DEF c
      <4>4. QED  BY <4>1, <4>2, <4>3, IdsFacts
    <3>3. QED  BY <3>1, <3>2
  <2>2. QED  BY <1>7, <1>15, <2>1 DEF HandleAttachComplete, enbVars
<1>16. CASE HandleICSetupResponse
  <2>1. IdsKept  BY <1>16, IdsStoreTeid DEF HandleICSetupResponse
  <2>2. mme'.id = m.mme /\ mme'.enb = m.enb  BY <1>16 DEF HandleICSetupResponse
  <2>3. QED  BY <1>8, <1>16, <2>1, <2>2 DEF HandleICSetupResponse, enbVars, Channel
<1>17. ASSUME UNCHANGED <<ue, nextUe, rxPending>>, mme' = MmeIdle,
              chan'["s1ul"] = chan["s1ul"],
              \/ chan'["s1dl"] = chan["s1dl"]
              \/ chan'["s1dl"] = Append(chan["s1dl"], S1("RelCmd", mme.id, mme.enb))
       PROVE  IdsInv'
  <2> DEFINE n == S1("RelCmd", mme.id, mme.enb)
  <2>1. n \in Msg /\ n.mme = n.enb  BY <1>2, MsgS1, S1Fields DEF DownlinkType
  <2>2. chan'["s1dl"] = chan["s1dl"] \/ chan'["s1dl"] = Append(chan["s1dl"], n)  BY <1>17
  <2> HIDE DEF n
  <2>3. QED  BY <1>1, <1>4, <1>5, <1>17, <2>1, <2>2, IdsMmeOther
<1>18. CASE ModifyBearerRsp
  <2>1. chan'["s1ul"] = chan["s1ul"] /\ chan'["s1dl"] = chan["s1dl"]
    BY <1>2, <1>18, ConsumeEffect DEF ModifyBearerRsp, Channel
  <2>2. QED  BY <1>17, <1>18, <2>1 DEF ModifyBearerRsp, enbVars
<1>19. CASE HandleTauRequest
  BY <1>4, <1>6, <1>19 DEF HandleTauRequest, DownlinkType, enbVars, mmeVars
<1>20. CASE HandleHandoverRequired
  BY <1>4, <1>6, <1>20 DEF HandleHandoverRequired, DownlinkType, enbVars, mmeVars
<1>21. CASE HandleHandoverRequestAck
  <2>1. IdsKept  BY <1>21, IdsStoreTeid DEF HandleHandoverRequestAck
  <2>2. QED  BY <1>6, <1>21, <2>1 DEF HandleHandoverRequestAck, DownlinkType, enbVars
<1>22. CASE HandleEnbStatusTransfer
  BY <1>4, <1>6, <1>22 DEF HandleEnbStatusTransfer, DownlinkType, enbVars, mmeVars
<1>23. CASE HandleHandoverNotify
  <2>1. mme'.id = m.mme /\ mme'.enb = m.enb  BY <1>23 DEF HandleHandoverNotify
  <2>2. QED  BY <1>4, <1>8, <1>23, <2>1 DEF HandleHandoverNotify, enbVars, Channel
<1>24. CASE PathSwitched
  <2>1. /\ chan'["s1ul"] = chan["s1ul"]
        /\ chan'["s1dl"] = Append(chan["s1dl"], S1("RelCmd", mme.id, mme.enb))
    BY <1>2, <1>24, ReplyEffect DEF PathSwitched, Channel
  <2>2. QED  BY <1>17, <1>24, <2>1 DEF PathSwitched, enbVars
<1>25. CASE HandleUeContextRelCmpl
  BY <1>4, <1>7, <1>25 DEF HandleUeContextRelCmpl, enbVars, mmeVars
<1>26. QED
  BY <1>9, <1>10, <1>11, <1>12, <1>13, <1>14, <1>15, <1>16, <1>18, <1>19, <1>20, <1>21,
     <1>22, <1>23, <1>24, <1>25 DEF MmeThread
----------------------------------------------------------------------------
LEMMA IdsServers ==
  TypeOK /\ IdsInv /\ (HandleAIR \/ SgwThread \/ PgwThread \/ HandleCCR) => IdsInv'
<1> SUFFICES ASSUME TypeOK, IdsInv, HandleAIR \/ SgwThread \/ PgwThread \/ HandleCCR
             PROVE  IdsInv'
  OBVIOUS
<1>1. ChanOK  BY IdsFacts
<1>2. UNCHANGED <<ue, mme, nextUe, rxPending>>
  BY DEF HandleAIR, SgwThread, PgwThread, HandleCCR, SgwCreateSessionReq,
         SgwCreateSessionRsp, SgwModifyBearerReq, PgwCreateSessionReq, PgwApproved,
         enbVars, mmeVars
<1>3. chan'["s1ul"] = chan["s1ul"] /\ chan'["s1dl"] = chan["s1dl"]
  <2>1. CASE HandleAIR  BY <1>1, <2>1 DEF HandleAIR, Reply, ChanOK, Channel
  <2>2. CASE SgwCreateSessionReq
    BY <1>1, <2>2 DEF SgwCreateSessionReq, Reply, ChanOK, Channel
  <2>3. CASE SgwCreateSessionRsp
    BY <1>1, <2>3 DEF SgwCreateSessionRsp, Reply, Consume, ChanOK, Channel
  <2>4. CASE SgwModifyBearerReq
    BY <1>1, <2>4 DEF SgwModifyBearerReq, Reply, ChanOK, Channel
  <2>5. CASE PgwCreateSessionReq
    BY <1>1, <2>5 DEF PgwCreateSessionReq, Reply, ChanOK, Channel
  <2>6. CASE PgwApproved  BY <1>1, <2>6 DEF PgwApproved, Reply, ChanOK, Channel
  <2>7. CASE HandleCCR  BY <1>1, <2>7 DEF HandleCCR, Reply, ChanOK, Channel
  <2>8. QED
    BY <2>1, <2>2, <2>3, <2>4, <2>5, <2>6, <2>7 DEF SgwThread, PgwThread
<1>4. QED  BY <1>2, <1>3 DEF IdsInv

LEMMA IdsTimeout == TypeOK /\ IdsInv /\ Timeout => IdsInv'
<1> SUFFICES ASSUME TypeOK, IdsInv, Timeout PROVE IdsInv'
  OBVIOUS
<1>1. ChanOK /\ mme.id = mme.enb /\ mme.id \in Nat /\ mme.enb \in Nat  BY IdsFacts, MmeFacts
<1>2. TypeOK'  BY TimeoutType
<1>3. UNCHANGED <<ue, nextUe, rxPending>> /\ mme'.id = mme'.enb
  BY <1>1 DEF Timeout, MmeTimeout, PathSwitchTimeout, SgwTimeout, PgwTimeout, MmeIdle,
              enbVars, mmeVars
<1> DEFINE n == S1("RelCmd", mme.id, mme.enb)
<1>4. n \in Msg /\ n.mme = n.enb
  <2>1. n \in Msg  BY <1>1, MsgS1 DEF DownlinkType
  <2>2. n.mme = mme.id /\ n.enb = mme.enb  BY S1Fields
  <2>3. QED  BY <1>1, <2>1, <2>2
<1>5. /\ chan'["s1ul"] = chan["s1ul"]
      /\ chan'["s1dl"] = chan["s1dl"] \/ chan'["s1dl"] = Append(chan["s1dl"], n)
  <2>1. CASE MmeTimeout  BY <2>1 DEF MmeTimeout
  <2>2. CASE PathSwitchTimeout
    BY <1>1, <2>2, SendEffect DEF PathSwitchTimeout, Channel
  <2>3. CASE SgwTimeout  BY <2>3 DEF SgwTimeout
  <2>4. CASE PgwTimeout  BY <1>1, <2>4, SendEffect DEF PgwTimeout, Channel
  <2>5. QED  BY <2>1, <2>2, <2>3, <2>4 DEF Timeout
<1> HIDE DEF n
<1>6. QED  BY <1>2, <1>3, <1>4, <1>5, IdsFacts, IdsMmeOther

(* The numbering invariant holds for any number of UEs and commands and      *)
(* whatever is dropped or timed out.                                         *)
THEOREM NumberingInvariant == Spec => []IdsInv
<1>1. Init => IdsInv
  BY DEF Init, EnbInit, MmeInit, IdsInv, Numbered, Channel, Blank, MmeIdle
<1>2. TypeOK /\ IdsInv /\ [Next]_vars => IdsInv'
  <2> SUFFICES ASSUME TypeOK, IdsInv, [Next]_vars PROVE IdsInv'
    OBVIOUS
  <2>1. CASE UNCHANGED vars  BY <2>1 DEF IdsInv, vars, enbVars, mmeVars
  <2>2. CASE Cli
    BY <2>2 DEF Cli, CliAttach, CliMobility, IdsInv, mmeVars
  <2>3. CASE Next
    BY <2>2, <2>3, IdsEnbCommand, IdsEnbReceive, IdsMme, IdsServers, IdsTimeout DEF Next
  <2>4. QED  BY <2>1, <2>3
<1>3. QED  BY <1>1, <1>2, TypeCorrect, PTL DEF Spec

(* Every S1 association has the same number at the eNB and at the MME, so   *)
(* the TAU and HO commands, which pass the UE's number as both ids, always  *)
(* name the context of the UE the operator meant.                           *)
THEOREM IdsAlwaysAgree == Spec => []IdsAgree
<1>1. IdsInv => IdsAgree  BY DEF IdsInv, IdsAgree, Numbered
<1>2. QED  BY <1>1, NumberingInvariant, PTL
============================================================================
