-------------------------- MODULE EpcService_proofs --------------------------
(***************************************************************************)
(* Proofs about what the EPC gives a UE, for any number of UEs, commands,  *)
(* time-outs and dropped answers: a registered UE is authenticated and has *)
(* an address and a tunnel, no two UEs share either, the tunnel is one the *)
(* eNB made for it and in the end the last one, and as long as nothing has *)
(* timed out the address was allocated for it and only a dropped answer    *)
(* leaves a UE unregistered.                                               *)
(*                                                                         *)
(* The argument has two layers.  Every step of the system is first shown   *)
(* to have one of the few effects listed below on the S1 connection and    *)
(* the contexts (lemma StepKinds); the invariants are then shown to        *)
(* survive each effect.                                                    *)
(***************************************************************************)
EXTENDS Epc_proofs, FiniteSetTheorems

Ul == chan["s1ul"]
Dl == chan["s1dl"]
TeidMsg(m) == m.type \in {"IcsRsp", "HoAck"}

(* The messages in a queue. *)
Elems(q) == {q[i] : i \in DOMAIN q}

(* What appending a message does to a queue. *)
LEMMA ElemsAppend ==
  ASSUME NEW S, NEW q \in Seq(S), NEW m \in S
  PROVE  /\ Elems(Append(q, m)) = Elems(q) \cup {m}
         /\ DOMAIN Append(q, m) = 1 .. Len(q) + 1 /\ Len(q) \in Nat
         /\ DOMAIN q = 1 .. Len(q)
         /\ \A i \in DOMAIN q : Append(q, m)[i] = q[i]
         /\ Append(q, m)[Len(q) + 1] = m
<1> DEFINE r == Append(q, m)
<1>1. /\ DOMAIN r = 1 .. Len(q) + 1 /\ Len(q) \in Nat /\ DOMAIN q = 1 .. Len(q)
      /\ \A i \in DOMAIN q : r[i] = q[i]
      /\ r[Len(q) + 1] = m
  OBVIOUS
<1> HIDE DEF r
<1>2. Elems(r) = Elems(q) \cup {m}
  <2>1. \A x : x \in Elems(r) <=> \E i \in DOMAIN r : x = r[i]  BY DEF Elems
  <2>2. \A x : x \in Elems(q) <=> \E i \in DOMAIN q : x = q[i]  BY DEF Elems
  <2>3. ASSUME NEW x PROVE x \in Elems(r) <=> x \in Elems(q) \cup {m}
    <3>1. DOMAIN r = DOMAIN q \cup {Len(q) + 1}  BY <1>1
    <3>2. QED  BY <1>1, <2>1, <2>2, <3>1
  <2>4. QED  BY <2>3
<1>3. QED  BY <1>1, <1>2 DEF r

(* What taking the first message out of a queue does. *)
LEMMA ElemsTail ==
  ASSUME NEW S, NEW q \in Seq(S), q # << >>
  PROVE  /\ Elems(Tail(q)) \subseteq Elems(q)
         /\ Head(q) \in Elems(q) /\ Head(q) = q[1] /\ 1 \in DOMAIN q /\ Head(q) \in S
         /\ Len(q) \in Nat \ {0} /\ DOMAIN q = 1 .. Len(q)
         /\ DOMAIN Tail(q) = 1 .. Len(q) - 1
         /\ \A i \in DOMAIN Tail(q) : Tail(q)[i] = q[i + 1] /\ i + 1 \in DOMAIN q
         /\ \A x \in Elems(q) : x # Head(q) => x \in Elems(Tail(q))
<1> DEFINE r == Tail(q)
<1>1. /\ Len(q) \in Nat \ {0} /\ DOMAIN q = 1 .. Len(q) /\ DOMAIN r = 1 .. Len(q) - 1
      /\ \A i \in DOMAIN r : r[i] = q[i + 1]
      /\ Head(q) = q[1] /\ Head(q) \in S
  OBVIOUS
<1> HIDE DEF r
<1>2. \A i \in DOMAIN r : i + 1 \in DOMAIN q  BY <1>1
<1>3. 1 \in DOMAIN q  BY <1>1
<1>4. Elems(r) \subseteq Elems(q)  BY <1>1, <1>2 DEF Elems
<1>5. Head(q) \in Elems(q)  BY <1>1, <1>3 DEF Elems
<1>6. ASSUME NEW x \in Elems(q), x # Head(q) PROVE x \in Elems(r)
  <2>1. PICK i \in DOMAIN q : x = q[i]  BY DEF Elems
  <2>2. i # 1  BY <1>1, <1>6, <2>1
  <2>3. i - 1 \in DOMAIN r /\ r[i - 1] = q[i]  BY <1>1, <2>2
  <2>4. QED  BY <2>1, <2>3 DEF Elems
<1>7. QED  BY <1>1, <1>2, <1>3, <1>4, <1>5, <1>6 DEF r
----------------------------------------------------------------------------
(***************************************************************************)
(* The effects a step can have on the S1 connection, the contexts and what *)
(* mme_th is doing.                                                        *)
(***************************************************************************)
(* The eNB starts a procedure. *)
EnbSends ==
  /\ \E m \in Msg : m.type \in {"InitialUE", "TauReq", "HoRequired"} /\ Ul' = Append(Ul, m)
  /\ Dl' = Dl
  /\ UNCHANGED <<ue, mme, enbTeids, rxPending>>

(* The eNB answers, or not, a message that is none of the next three. *)
EnbAnswers ==
  /\ Dl # << >> /\ Head(Dl).type \notin {"AuthReq", "IcsReq", "HoRequest"}
  /\ Dl' = Tail(Dl)
  /\ \/ Ul' = Ul
     \/ \E m \in Msg : /\ m.type \in {"SecModeCmpl", "EnbStatus", "HoNotify", "RelCmpl"}
                       /\ Ul' = Append(Ul, m)
  /\ UNCHANGED <<ue, mme, enbTeids, rxPending>>

(* The UE answers the challenge. *)
EnbResponds ==
  /\ Dl # << >> /\ Head(Dl).type = "AuthReq"
  /\ Dl' = Tail(Dl)
  /\ \E m \in Msg : /\ m.type = "AuthRsp" /\ m.mme = Head(Dl).mme
                    /\ m.val = Response(Head(Dl).val) /\ Ul' = Append(Ul, m)
  /\ UNCHANGED <<ue, mme, enbTeids, rxPending>>

(* The eNB allocates a TEID, and on Context Setup owes an Attach Complete. *)
EnbAllocates ==
  /\ Dl # << >> /\ Head(Dl).type \in {"IcsReq", "HoRequest"} /\ rxPending.type = "None"
  /\ Dl' = Tail(Dl)
  /\ \E m \in Msg : /\ m.type = IF Head(Dl).type = "IcsReq" THEN "IcsRsp" ELSE "HoAck"
                    /\ m.mme = Head(Dl).mme /\ m.enb = Head(Dl).enb /\ m.val = NextEnbTeid
                    /\ Ul' = Append(Ul, m)
  /\ enbTeids' = Append(enbTeids, Head(Dl).enb)
  /\ IF Head(Dl).type = "IcsReq"
       THEN rxPending'.type = "AttachCmpl" /\ rxPending'.mme = Head(Dl).mme
       ELSE rxPending' = rxPending
  /\ UNCHANGED <<ue, mme>>

EnbCompletes ==
  /\ rxPending.type = "AttachCmpl" /\ rxPending \in Msg
  /\ Ul' = Append(Ul, rxPending)
  /\ Dl' = Dl
  /\ rxPending' = Blank
  /\ UNCHANGED <<ue, mme, enbTeids>>

(* The answer mme_th has received carries no session for it. *)
Refused ==
  /\ chan["s11Rsp"] # << >>
  /\ LET r == Head(chan["s11Rsp"]) IN ~(r.cause = Accepted /\ r.ip # 0 /\ Known(mme.id))

(* Anything that leaves the contexts and what the MME reads alone. *)
Elsewhere ==
  /\ Ul' = Ul
  /\ Dl' = Dl \/ \E m \in Msg : m.type = "RelCmd" /\ Dl' = Append(Dl, m)
  /\ \/ mme' = mme
     \/ /\ mme'.pc = "idle" /\ mme.pc # "auth"
        /\ mme.pc = "create" => Refused \/ timeouts' = timeouts + 1
  /\ UNCHANGED <<ue, enbTeids, rxPending>>

(* The MME reads a message that changes no context. *)
MmeReads ==
  /\ mme.pc = "idle" /\ Ul # << >>
  /\ Head(Ul).type \notin {"InitialUE", "AttachCmpl", "IcsRsp", "HoAck"}
  /\ Head(Ul).type = "AuthRsp" => ~AuthMatches(Head(Ul))
  /\ Ul' = Tail(Ul)
  /\ \/ Dl' = Dl
     \/ \E m \in Msg : /\ m.type \in {"TauAccept", "HoRequest", "MmeStatus"}
                       /\ Dl' = Append(Dl, m)
  /\ mme' = mme \/ mme'.pc = "switch"
  /\ UNCHANGED <<ue, enbTeids, rxPending>>

MmeInserts ==
  /\ mme.pc = "idle" /\ Ul # << >> /\ Head(Ul).type = "InitialUE"
  /\ Ul' = Tail(Ul) /\ Dl' = Dl
  /\ ue' = Append(ue, NewContext(Len(ue) + 1, Len(ue) + 1))
  /\ mme' = [pc |-> "auth", id |-> Len(ue) + 1, enb |-> Len(ue) + 1, imsi |-> Len(ue) + 1]
  /\ UNCHANGED <<enbTeids, rxPending>>

MmeChallenges ==
  /\ mme.pc = "auth"
  /\ Ul' = Ul
  /\ \E av \in pendingAuth :
       /\ av.imsi = mme.imsi
       /\ IF Known(mme.id)
            THEN ue' = [ue EXCEPT ![mme.id] = [@ EXCEPT !.auth = av, !.emm = "AUTH_PENDING"]]
            ELSE UNCHANGED ue
  /\ \/ Dl' = Dl /\ drops' = drops + 1
     \/ \E m \in Msg : /\ m.type = "AuthReq" /\ m.mme = mme.id
                       /\ \E av \in pendingAuth : av.imsi = mme.imsi /\ m.val = av.rand
                       /\ Dl' = Append(Dl, m)
  /\ mme' = MmeIdle
  /\ UNCHANGED <<enbTeids, rxPending>>

MmeAuthenticates ==
  /\ mme.pc = "idle" /\ Ul # << >> /\ Head(Ul).type = "AuthRsp" /\ Known(Head(Ul).mme)
  /\ Ul' = Tail(Ul)
  /\ \E m \in Msg : m.type = "SecModeCmd" /\ Dl' = Append(Dl, m)
  /\ ue' = [ue EXCEPT ![Head(Ul).mme] = [@ EXCEPT !.emm = "SESSION_PENDING"]]
  /\ mme'.pc = "create" /\ mme'.id = Head(Ul).mme /\ mme'.imsi = Head(Ul).mme
  /\ UNCHANGED <<enbTeids, rxPending>>

MmeBinds ==
  /\ mme.pc = "create" /\ Known(mme.id)
  /\ Ul' = Ul
  /\ \E m \in Msg : m.type = "IcsReq" /\ m.mme = mme.id /\ Dl' = Append(Dl, m)
  /\ chan["s11Rsp"] # << >> /\ chan'["s11Rsp"] = Tail(chan["s11Rsp"])
  /\ \E b \in Bearer :
       /\ b.ip # 0 /\ b.teid = 0
       /\ b.ip = Head(chan["s11Rsp"]).ip /\ b.s1u = Head(chan["s11Rsp"]).val
       /\ ue' = [ue EXCEPT ![mme.id].bearers = Append(@, b)]
  /\ mme' = MmeIdle
  /\ UNCHANGED <<enbTeids, rxPending>>

MmeRegisters ==
  /\ mme.pc = "idle" /\ Ul # << >> /\ Head(Ul).type = "AttachCmpl"
  /\ Ul' = Tail(Ul) /\ Dl' = Dl
  /\ IF Known(Head(Ul).mme)
       THEN ue' = [ue EXCEPT ![Head(Ul).mme] = [@ EXCEPT !.emm = "REGISTERED"]]
       ELSE UNCHANGED ue
  /\ UNCHANGED <<mme, enbTeids, rxPending>>

MmeStores ==
  /\ mme.pc = "idle" /\ Ul # << >> /\ TeidMsg(Head(Ul))
  /\ Ul' = Tail(Ul)
  /\ Dl' = Dl \/ \E m \in Msg : m.type = "HoCommand" /\ Dl' = Append(Dl, m)
  /\ StoreEnbTeid(Head(Ul).mme, Head(Ul).val)
  /\ mme' = mme \/ mme'.pc = "modify"
  /\ UNCHANGED <<enbTeids, rxPending>>

StepKind ==
  \/ EnbSends \/ EnbAnswers \/ EnbResponds \/ EnbAllocates \/ EnbCompletes \/ Elsewhere
  \/ MmeReads \/ MmeInserts \/ MmeChallenges \/ MmeAuthenticates \/ MmeBinds
  \/ MmeRegisters \/ MmeStores
----------------------------------------------------------------------------
(* The eNB's steps have those effects. *)
LEMMA EnbKinds ==
  ASSUME TypeOK, EnbCommandThread \/ EnbReceiveThread
  PROVE  EnbSends \/ EnbAnswers \/ EnbResponds \/ EnbAllocates \/ EnbCompletes \/ Elsewhere
<1>1. ChanOK /\ TypeOK'  BY EnbCommandType, EnbReceiveType DEF TypeOK, ChanOK
<1>2. nextUe \in Nat /\ rxPending \in Msg /\ NextEnbTeid \in Nat /\ NextEnbTeid - 1 \in Nat
  BY DEF TypeOK, NextEnbTeid, FirstEnbTeid
<1>3. cmd.arg \in Nat
  <2>1. cmd \in Command \cup {NoCmd}  BY DEF TypeOK
  <2>2. QED  BY <2>1 DEF Command, NoCmd
<1>4. Dl # << >> => Head(Dl) \in Msg /\ Head(Dl).mme \in Nat /\ Head(Dl).enb \in Nat
                      /\ Head(Dl).val \in Nat
  <2>1. Dl # << >> => Head(Dl) \in Msg  BY <1>1, HeadMsg DEF Channel, Dl
  <2>2. QED  BY <2>1 DEF Msg
<1>5. ASSUME NEW m, Reply("s1dl", "s1ul", m) PROVE Dl' = Tail(Dl) /\ Ul' = Append(Ul, m)
  BY <1>1, <1>5 DEF Reply, ChanOK, Channel, Ul, Dl
<1>6. ASSUME NEW m, Send("s1ul", m) PROVE Dl' = Dl /\ Ul' = Append(Ul, m)
  BY <1>1, <1>6 DEF Send, ChanOK, Channel, Ul, Dl
<1>7. ASSUME UNCHANGED enbVars PROVE UNCHANGED <<enbTeids, rxPending>>
  BY <1>7 DEF enbVars
<1>8. ASSUME UNCHANGED mmeVars PROVE UNCHANGED <<ue, mme>>
  BY <1>8 DEF mmeVars
<1>9. ASSUME NEW t \in {"SecModeCmpl", "EnbStatus", "RelCmpl"}, Dl # << >>,
             Head(Dl).type \notin {"AuthReq", "IcsReq", "HoRequest"},
             Reply("s1dl", "s1ul", S1(t, Head(Dl).mme, Head(Dl).enb)),
             UNCHANGED <<enbVars, mmeVars>>
      PROVE  EnbAnswers
  <2> DEFINE n == S1(t, Head(Dl).mme, Head(Dl).enb)
  <2>1. n \in Msg /\ n.type = t
    <3>1. n \in Msg  BY <1>4, <1>9, MsgS1 DEF UplinkType
    <3>2. n.type = t  BY S1Fields
    <3>3. QED  BY <3>1, <3>2
  <2>2. Dl' = Tail(Dl) /\ Ul' = Append(Ul, n)  BY <1>5, <1>9
  <2> HIDE DEF n
  <2>3. UNCHANGED <<enbTeids, rxPending>> /\ UNCHANGED <<ue, mme>>  BY <1>7, <1>8, <1>9
  <2>4. QED  BY <1>9, <2>1, <2>2, <2>3 DEF EnbAnswers
<1>10. CASE TakeCommand
  BY <1>10 DEF TakeCommand, Elsewhere, Ul, Dl, mmeVars
<1>11. CASE SendInitialUEMessage
  <2> DEFINE n == [Blank EXCEPT !.type = "InitialUE", !.enb = nextUe, !.imsi = nextUe]
  <2>1. n \in Msg /\ n.type = "InitialUE"  BY <1>2 DEF Blank, Msg, UplinkType
  <2>2. Dl' = Dl /\ Ul' = Append(Ul, n)  BY <1>6, <1>11 DEF SendInitialUEMessage
  <2> HIDE DEF n
  <2>3. UNCHANGED <<ue, mme, enbTeids, rxPending>>  BY <1>11 DEF SendInitialUEMessage, mmeVars
  <2>4. QED  BY <2>1, <2>2, <2>3 DEF EnbSends
<1>12. ASSUME NEW t \in {"TauReq", "HoRequired"},
              Send("s1ul", [S1(t, cmd.arg, cmd.arg) EXCEPT !.imsi = cmd.arg]),
              UNCHANGED <<enbTeids, rxPending, mmeVars>>
       PROVE  EnbSends
  <2> DEFINE n == [S1(t, cmd.arg, cmd.arg) EXCEPT !.imsi = cmd.arg]
  <2>1. n \in Msg /\ n.type = t
    <3>1. S1(t, cmd.arg, cmd.arg) \in Msg  BY <1>3, MsgS1 DEF UplinkType
    <3>2. n \in Msg  BY <1>3, <3>1, MsgVal
    <3>3. n.type = t  BY S1Fields
    <3>4. QED  BY <3>2, <3>3
  <2>2. Dl' = Dl /\ Ul' = Append(Ul, n)  BY <1>6, <1>12
  <2> HIDE DEF n
  <2>3. UNCHANGED <<ue, mme, enbTeids, rxPending>>  BY <1>8, <1>12
  <2>4. QED  BY <2>1, <2>2, <2>3 DEF EnbSends
<1>13. CASE SendTauRequest  BY <1>12, <1>13 DEF SendTauRequest
<1>14. CASE SendHandoverRequired  BY <1>12, <1>14 DEF SendHandoverRequired
<1>15. CASE HandleAuthRequest
  <2> DEFINE h == Head(Dl)
             n == [S1("AuthRsp", h.mme, h.enb) EXCEPT !.val = Response(h.val)]
  <2>1. Dl # << >> /\ h.type = "AuthReq"
    BY <1>15 DEF HandleAuthRequest, RxReady, Got, Dl
  <2>2. n \in Msg /\ n.type = "AuthRsp" /\ n.mme = h.mme /\ n.val = Response(h.val)
    <3>1. Response(h.val) \in Nat  BY <1>4, <2>1 DEF Response
    <3>2. S1("AuthRsp", h.mme, h.enb) \in Msg  BY <1>4, <2>1, MsgS1 DEF UplinkType
    <3>3. n \in Msg  BY <3>1, <3>2, MsgVal
    <3>4. n.type = "AuthRsp" /\ n.mme = h.mme  BY S1Fields
    <3>5. n.val = Response(h.val)  BY <3>2 DEF Msg
    <3>6. QED  BY <3>3, <3>4, <3>5
  <2>3. Dl' = Tail(Dl) /\ Ul' = Append(Ul, n)  BY <1>5, <1>15 DEF HandleAuthRequest, Dl
  <2> HIDE DEF n
  <2>4. UNCHANGED <<ue, mme, enbTeids, rxPending>>
    BY <1>7, <1>8, <1>15 DEF HandleAuthRequest
  <2>5. QED  BY <2>1, <2>2, <2>3, <2>4 DEF EnbResponds
<1>16. CASE HandleSecModeCommand
  BY <1>9, <1>16 DEF HandleSecModeCommand, RxReady, Got, Dl
<1>17. ASSUME NEW t \in {"IcsRsp", "HoAck"}, Dl # << >>, rxPending.type = "None",
              Head(Dl).type = (IF t = "IcsRsp" THEN "IcsReq" ELSE "HoRequest"),
              Reply("s1dl", "s1ul",
                    [S1(t, Head(Dl).mme, Head(Dl).enb) EXCEPT !.val = NextEnbTeid]),
              enbTeids' = Append(enbTeids, Head(Dl).enb), UNCHANGED mmeVars,
              IF t = "IcsRsp" THEN rxPending' = S1("AttachCmpl", Head(Dl).mme, Head(Dl).enb)
                              ELSE UNCHANGED rxPending
       PROVE  EnbAllocates
  <2> DEFINE h == Head(Dl)
             n == [S1(t, h.mme, h.enb) EXCEPT !.val = NextEnbTeid]
  <2>1. n \in Msg /\ n.type = t /\ n.mme = h.mme /\ n.enb = h.enb /\ n.val = NextEnbTeid
    <3>1. S1(t, h.mme, h.enb) \in Msg  BY <1>4, <1>17, MsgS1 DEF UplinkType
    <3>2. n \in Msg  BY <1>2, <3>1, MsgVal
    <3>3. n.val = NextEnbTeid  BY <3>1 DEF Msg
    <3>4. QED  BY <3>2, <3>3, S1Fields
  <2>2. Dl' = Tail(Dl) /\ Ul' = Append(Ul, n)  BY <1>5, <1>17
  <2> HIDE DEF n
  <2>3. IF h.type = "IcsReq"
          THEN rxPending'.type = "AttachCmpl" /\ rxPending'.mme = h.mme
          ELSE rxPending' = rxPending
    BY <1>17, S1Fields
  <2>4. UNCHANGED <<ue, mme>>  BY <1>8, <1>17
  <2>5. QED  BY <1>17, <2>1, <2>2, <2>3, <2>4 DEF EnbAllocates
<1>18. CASE HandleICSR
  <2>1. /\ Dl # << >> /\ Head(Dl).type = "IcsReq" /\ rxPending.type = "None"
        /\ Reply("s1dl", "s1ul",
                 [S1("IcsRsp", Head(Dl).mme, Head(Dl).enb) EXCEPT !.val = NextEnbTeid])
        /\ enbTeids' = Append(enbTeids, Head(Dl).enb) /\ UNCHANGED mmeVars
        /\ rxPending' = S1("AttachCmpl", Head(Dl).mme, Head(Dl).enb)
    BY <1>18 DEF HandleICSR, RxReady, Got, Dl
  <2>2. QED  BY <1>17, <2>1
<1>19. CASE HandleHoRequest
  <2>1. /\ Dl # << >> /\ Head(Dl).type = "HoRequest" /\ rxPending.type = "None"
        /\ Reply("s1dl", "s1ul",
                 [S1("HoAck", Head(Dl).mme, Head(Dl).enb) EXCEPT !.val = NextEnbTeid])
        /\ enbTeids' = Append(enbTeids, Head(Dl).enb) /\ UNCHANGED mmeVars
        /\ UNCHANGED rxPending
    BY <1>19 DEF HandleHoRequest, RxReady, Got, Dl
  <2>2. QED  BY <1>17, <2>1
<1>20. CASE SendAttachComplete
  <2>1. Dl' = Dl /\ Ul' = Append(Ul, rxPending)  BY <1>6, <1>20 DEF SendAttachComplete
  <2>2. QED  BY <1>2, <1>8, <1>20, <2>1 DEF SendAttachComplete, EnbCompletes
<1>21. CASE HandleTauAccept
  <2>1. Dl' = Tail(Dl) /\ Ul' = Ul
    BY <1>1, <1>21, ConsumeEffect DEF HandleTauAccept, Channel, Ul, Dl
  <2>2. QED  BY <1>7, <1>8, <1>21, <2>1 DEF HandleTauAccept, RxReady, Got, EnbAnswers, Dl
<1>22. CASE HandleHoCommand
  BY <1>9, <1>22 DEF HandleHoCommand, RxReady, Got, Dl
<1>23. CASE HandleMmeStatusXfer
  <2> DEFINE h == Head(Dl)
             n == [S1("HoNotify", h.mme, h.enb) EXCEPT !.val = NextEnbTeid - 1]
  <2>1. Dl # << >> /\ h.type = "MmeStatus"
    BY <1>23 DEF HandleMmeStatusXfer, RxReady, Got, Dl
  <2>2. n \in Msg /\ n.type = "HoNotify"
    <3>1. S1("HoNotify", h.mme, h.enb) \in Msg  BY <1>4, <2>1, MsgS1 DEF UplinkType
    <3>2. n \in Msg  BY <1>2, <3>1, MsgVal
    <3>3. n.type = "HoNotify"  BY S1Fields
    <3>4. QED  BY <3>2, <3>3
  <2>3. Dl' = Tail(Dl) /\ Ul' = Append(Ul, n)  BY <1>5, <1>23 DEF HandleMmeStatusXfer, Dl
  <2> HIDE DEF n
  <2>4. UNCHANGED <<ue, mme, enbTeids, rxPending>>
    BY <1>7, <1>8, <1>23 DEF HandleMmeStatusXfer
  <2>5. QED  BY <2>1, <2>2, <2>3, <2>4 DEF EnbAnswers
<1>24. CASE HandleUeCtxRelCmd
  BY <1>9, <1>24 DEF HandleUeCtxRelCmd, RxReady, Got, Dl
<1>25. QED
  BY <1>10, <1>11, <1>13, <1>14, <1>15, <1>16, <1>18, <1>19, <1>20, <1>21, <1>22, <1>23,
     <1>24 DEF EnbCommandThread, EnbReceiveThread

(* So have the MME's. *)
LEMMA MmeKinds ==
  ASSUME TypeOK, IdsInv, MmeThread \/ HssReceive
  PROVE  \/ Elsewhere \/ MmeReads \/ MmeInserts \/ MmeChallenges \/ MmeAuthenticates
         \/ MmeBinds \/ MmeRegisters \/ MmeStores
<1>1. ChanOK /\ ue \in Seq(Context) /\ mme.id \in Nat /\ mme.enb \in Nat /\ mme.id = mme.enb
  BY MmeFacts, IdsFacts
<1>2. Ul # << >> => Head(Ul) \in Msg /\ Head(Ul).mme \in Nat /\ Head(Ul).enb \in Nat
                      /\ Head(Ul).val \in Nat
  <2>1. Ul # << >> => Head(Ul) \in Msg  BY MmeFacts DEF Ul
  <2>2. QED  BY <2>1 DEF Msg
<1>3. ASSUME NEW m, Reply("s1ul", "s1dl", m) PROVE Ul' = Tail(Ul) /\ Dl' = Append(Dl, m)
  BY <1>1, <1>3 DEF Reply, ChanOK, Channel, Ul, Dl
<1>4. ASSUME Consume("s1ul") PROVE Ul' = Tail(Ul) /\ Dl' = Dl
  BY <1>1, <1>4 DEF Consume, ChanOK, Channel, Ul, Dl
<1>5. ASSUME NEW m, NEW d \in Channel \ {"s1ul", "s1dl"}, Reply("s1ul", d, m)
      PROVE  Ul' = Tail(Ul) /\ Dl' = Dl
  BY <1>1, <1>5 DEF Reply, ChanOK, Channel, Ul, Dl
<1>6. ASSUME NEW m, NEW d \in Channel \ {"s1ul", "s1dl"}, Reply(d, "s1dl", m)
      PROVE  Ul' = Ul /\ Dl' = Append(Dl, m)
  BY <1>1, <1>6 DEF Reply, ChanOK, Channel, Ul, Dl
<1>7. ASSUME NEW d \in Channel \ {"s1ul", "s1dl"}, Consume(d) PROVE Ul' = Ul /\ Dl' = Dl
  BY <1>1, <1>7 DEF Consume, ChanOK, Channel, Ul, Dl
<1>8. ASSUME UNCHANGED enbVars PROVE UNCHANGED <<enbTeids, rxPending>>
  BY <1>8 DEF enbVars
<1>9. ASSUME UNCHANGED mmeVars PROVE UNCHANGED <<ue, mme>>
  BY <1>9 DEF mmeVars
<1>10. ASSUME NEW t \in DownlinkType, Ul # << >>
       PROVE  S1(t, Head(Ul).mme, Head(Ul).enb) \in Msg
              /\ S1(t, Head(Ul).mme, Head(Ul).enb).type = t
  <2>1. S1(t, Head(Ul).mme, Head(Ul).enb) \in Msg  BY <1>2, <1>10, MsgS1
  <2>2. QED  BY <2>1, S1Fields
<1>11. CASE HandleInitialUEMsg
  <2>1. Ul # << >> /\ Head(Ul).type = "InitialUE" /\ mme.pc = "idle"
    BY <1>11 DEF HandleInitialUEMsg, MmeReady, Got, Ul
  <2>2. Head(Ul).enb = Len(ue) + 1 /\ Head(Ul).imsi = Len(ue) + 1
    BY <2>1, IdsFacts, NumberedAttach DEF Ul
  <2>3. Ul' = Tail(Ul) /\ Dl' = Dl  BY <1>5, <1>11 DEF HandleInitialUEMsg, Channel
  <2>4. ue' = Append(ue, NewContext(Head(Ul).enb, Head(Ul).imsi))
        /\ mme' = [pc |-> "auth", id |-> Len(ue) + 1, enb |-> Head(Ul).enb, imsi |-> Head(Ul).imsi]
    BY <1>11 DEF HandleInitialUEMsg, Ul
  <2>5. UNCHANGED <<enbTeids, rxPending>>  BY <1>8, <1>11 DEF HandleInitialUEMsg
  <2>6. QED  BY <2>1, <2>2, <2>3, <2>4, <2>5 DEF MmeInserts
<1>12. CASE HssReceive
  <2>1. Ul' = Ul /\ Dl' = Dl  BY <1>7, <1>12 DEF HssReceive, Channel
  <2>2. QED  BY <1>8, <1>12, <2>1 DEF HssReceive, Elsewhere
<1>13. CASE TakeAuthVector
  <2>1. PICK av \in pendingAuth :
          /\ av.imsi = mme.imsi
          /\ ue' = IF Known(mme.id)
                     THEN [ue EXCEPT ![mme.id].auth = av, ![mme.id].emm = "AUTH_PENDING"]
                     ELSE ue
          /\ \/ Send("s1dl", [S1("AuthReq", mme.id, mme.enb) EXCEPT !.val = av.rand])
             \/ UNCHANGED chan /\ drops' = drops + 1
    BY <1>13 DEF TakeAuthVector
  <2> DEFINE n == [S1("AuthReq", mme.id, mme.enb) EXCEPT !.val = av.rand]
  <2>2. n \in Msg /\ n.type = "AuthReq" /\ n.mme = mme.id /\ n.val = av.rand
    <3>1. av.rand \in Nat  BY DEF TypeOK, AuthVector
    <3>2. S1("AuthReq", mme.id, mme.enb) \in Msg  BY <1>1, MsgS1 DEF DownlinkType
    <3>3. n \in Msg  BY <3>1, <3>2, MsgVal
    <3>4. n.type = "AuthReq" /\ n.mme = mme.id  BY S1Fields
    <3>5. n.val = av.rand  BY <3>2 DEF Msg
    <3>6. QED  BY <3>3, <3>4, <3>5
  <2>3. Send("s1dl", n) \/ (UNCHANGED chan /\ drops' = drops + 1)  BY <2>1
  <2> HIDE DEF n
  <2>4. Ul' = Ul /\ ((Dl' = Dl /\ drops' = drops + 1) \/ Dl' = Append(Dl, n))
    BY <1>1, <2>3, SendEffect DEF Channel, Ul, Dl
  <2>5. IF Known(mme.id)
          THEN ue' = [ue EXCEPT ![mme.id] = [@ EXCEPT !.auth = av, !.emm = "AUTH_PENDING"]]
          ELSE UNCHANGED ue
    BY <1>1, <2>1 DEF Known
  <2>6. mme.pc = "auth" /\ mme' = MmeIdle /\ UNCHANGED <<enbTeids, rxPending>>
    BY <1>8, <1>13 DEF TakeAuthVector
  <2>7. QED  BY <2>1, <2>2, <2>4, <2>5, <2>6 DEF MmeChallenges
<1>14. CASE HandleAuthResponse
  <2> DEFINE h == Head(Ul)
  <2>1. Ul # << >> /\ h.type = "AuthRsp" /\ mme.pc = "idle" /\ UNCHANGED <<enbTeids, rxPending>>
    BY <1>8, <1>14 DEF HandleAuthResponse, MmeReady, Got, Ul
  <2>2. CASE ~AuthMatches(h)
    <3>1. Consume("s1ul") /\ UNCHANGED <<ue, mme>>  BY <1>14, <2>2 DEF HandleAuthResponse, Ul
    <3>2. QED  BY <1>4, <2>1, <2>2, <3>1 DEF MmeReads
  <2>3. CASE AuthMatches(h)
    <3>1. Known(h.mme) /\ ue[h.mme].enb = h.mme /\ ue[h.mme].imsi = h.mme /\ h.mme \in Nat
      BY <1>2, <2>1, <2>3, IdsFacts DEF AuthMatches, Known
    <3> DEFINE n == S1("SecModeCmd", h.mme, h.mme)
    <3>2. n \in Msg  BY <3>1, MsgS1 DEF DownlinkType
    <3>3. n.type = "SecModeCmd"  BY S1Fields
    <3>4. chan' = [chan EXCEPT !["s1ul"] = Tail(@),
                     !["s1dl"] = Append(@, S1("SecModeCmd", h.mme, ue[h.mme].enb)),
                     !["s11Req"] = Append(@, About("CreateReq", ue[h.mme].imsi))]
      BY <1>14, <2>3 DEF HandleAuthResponse, Ul
    <3>5. Ul' = Tail(Ul) /\ Dl' = Append(Dl, n)
      BY <1>1, <3>1, <3>4 DEF ChanOK, Channel, Ul, Dl
    <3> HIDE DEF n
    <3>6. /\ ue' = [ue EXCEPT ![h.mme] = [@ EXCEPT !.emm = "SESSION_PENDING"]]
          /\ mme' = [pc |-> "create", id |-> h.mme, enb |-> ue[h.mme].enb,
                     imsi |-> ue[h.mme].imsi]
      BY <1>14, <2>3 DEF HandleAuthResponse, Ul
    <3>7. mme'.pc = "create" /\ mme'.id = h.mme /\ mme'.imsi = h.mme  BY <3>1, <3>6
    <3>8. QED  BY <2>1, <3>1, <3>2, <3>3, <3>5, <3>6, <3>7 DEF MmeAuthenticates
  <2>4. QED  BY <2>2, <2>3
<1>15. CASE CreateSessionRsp
  <2> DEFINE r == Head(chan["s11Rsp"])
             n == S1("IcsReq", mme.id, mme.enb)
             b == [s1u |-> r.val, ip |-> r.ip, teid |-> 0]
  <2>1. mme.pc = "create" /\ mme' = MmeIdle /\ UNCHANGED <<enbTeids, rxPending>>
    BY <1>8, <1>15 DEF CreateSessionRsp
  <2>2. CASE ~(r.cause = Accepted /\ r.ip # 0 /\ Known(mme.id))
    <3>1. Consume("s11Rsp") /\ UNCHANGED ue  BY <1>15, <2>2 DEF CreateSessionRsp
    <3>2. Ul' = Ul /\ Dl' = Dl  BY <1>7, <3>1 DEF Channel
    <3>3. Refused  BY <1>15, <2>2 DEF CreateSessionRsp, Refused
    <3>4. QED  BY <2>1, <3>1, <3>2, <3>3 DEF Elsewhere, MmeIdle
  <2>3. CASE r.cause = Accepted /\ r.ip # 0 /\ Known(mme.id)
    <3>1. n \in Msg  BY <1>1, MsgS1 DEF DownlinkType
    <3>2. n.type = "IcsReq" /\ n.mme = mme.id  BY S1Fields
    <3>3. /\ Reply("s11Rsp", "s1dl", n)
          /\ ue' = [ue EXCEPT ![mme.id].bearers = Append(@, b)]
      <4>1. Reply("s11Rsp", "s1dl", n)  BY <1>15, <2>3 DEF CreateSessionRsp
      <4>2. ue' = [ue EXCEPT ![mme.id].bearers = Append(@, b)]
        BY <1>15, <2>3 DEF CreateSessionRsp
      <4>3. QED  BY <4>1, <4>2
    <3>4. Ul' = Ul /\ Dl' = Append(Dl, n)  BY <1>6, <3>3 DEF Channel
    <3>5. r \in Msg  BY <1>15, MmeFacts DEF CreateSessionRsp
    <3>6. b \in Bearer /\ b.ip # 0 /\ b.teid = 0 /\ b.ip = r.ip /\ b.s1u = r.val
      BY <2>3, <3>5 DEF Msg, Bearer
    <3> HIDE DEF n, b
    <3>7. chan["s11Rsp"] # << >> /\ chan'["s11Rsp"] = Tail(chan["s11Rsp"])
      BY <1>1, <1>15, <3>3, ReplyEffect DEF CreateSessionRsp, Channel
    <3>8. QED  BY <2>1, <2>3, <3>1, <3>2, <3>3, <3>4, <3>6, <3>7 DEF MmeBinds
  <2>4. QED  BY <2>2, <2>3
<1>16. CASE HandleSecModeComplete
  <2>1. Ul # << >> /\ Head(Ul).type = "SecModeCmpl" /\ mme.pc = "idle"
    BY <1>16 DEF HandleSecModeComplete, MmeReady, Got, Ul
  <2>2. QED  BY <1>4, <1>8, <1>9, <1>16, <2>1 DEF HandleSecModeComplete, MmeReads
<1>17. CASE HandleAttachComplete
  <2>1. Ul # << >> /\ Head(Ul).type = "AttachCmpl" /\ mme.pc = "idle"
    BY <1>17 DEF HandleAttachComplete, MmeReady, Got, Ul
  <2>2. IF Known(Head(Ul).mme)
          THEN ue' = [ue EXCEPT ![Head(Ul).mme] = [@ EXCEPT !.emm = "REGISTERED"]]
          ELSE UNCHANGED ue
    BY <1>17 DEF HandleAttachComplete, Ul
  <2>3. QED  BY <1>4, <1>8, <1>17, <2>1, <2>2 DEF HandleAttachComplete, MmeRegisters
<1>18. CASE HandleICSetupResponse
  <2>1. Ul # << >> /\ Head(Ul).type = "IcsRsp" /\ mme.pc = "idle"
    BY <1>18 DEF HandleICSetupResponse, MmeReady, Got, Ul
  <2>2. Ul' = Tail(Ul) /\ Dl' = Dl  BY <1>5, <1>18 DEF HandleICSetupResponse, Channel
  <2>3. StoreEnbTeid(Head(Ul).mme, Head(Ul).val) /\ mme'.pc = "modify"
    BY <1>18 DEF HandleICSetupResponse, Ul
  <2>4. QED
    BY <1>8, <1>18, <2>1, <2>2, <2>3 DEF HandleICSetupResponse, MmeStores, TeidMsg
<1>19. CASE ModifyBearerRsp
  <2>1. Ul' = Ul /\ Dl' = Dl  BY <1>7, <1>19 DEF ModifyBearerRsp, Channel
  <2>2. QED  BY <1>8, <1>19, <2>1 DEF ModifyBearerRsp, Elsewhere, MmeIdle
<1>20. ASSUME NEW s \in {"TauReq", "HoRequired", "EnbStatus"},
              NEW t \in {"TauAccept", "HoRequest", "MmeStatus"}, mme.pc = "idle",
              Ul # << >>, Head(Ul).type = s, UNCHANGED <<enbVars, mmeVars>>,
              Reply("s1ul", "s1dl", S1(t, Head(Ul).mme, Head(Ul).enb))
       PROVE  MmeReads
  <2> DEFINE n == S1(t, Head(Ul).mme, Head(Ul).enb)
  <2>1. n \in Msg /\ n.type = t  BY <1>10, <1>20 DEF DownlinkType
  <2>2. Ul' = Tail(Ul) /\ Dl' = Append(Dl, n)  BY <1>3, <1>20
  <2> HIDE DEF n
  <2>3. UNCHANGED <<enbTeids, rxPending>> /\ UNCHANGED <<ue, mme>>  BY <1>8, <1>9, <1>20
  <2>4. QED  BY <1>20, <2>1, <2>2, <2>3 DEF MmeReads
<1>21. CASE HandleTauRequest
  BY <1>20, <1>21 DEF HandleTauRequest, MmeReady, Got, Ul
<1>22. CASE HandleHandoverRequired
  BY <1>20, <1>22 DEF HandleHandoverRequired, MmeReady, Got, Ul
<1>23. CASE HandleEnbStatusTransfer
  BY <1>20, <1>23 DEF HandleEnbStatusTransfer, MmeReady, Got, Ul
<1>24. CASE HandleHandoverRequestAck
  <2> DEFINE n == S1("HoCommand", Head(Ul).mme, Head(Ul).enb)
  <2>1. Ul # << >> /\ Head(Ul).type = "HoAck" /\ mme.pc = "idle"
    BY <1>24 DEF HandleHandoverRequestAck, MmeReady, Got, Ul
  <2>2. n \in Msg /\ n.type = "HoCommand"  BY <1>10, <2>1 DEF DownlinkType
  <2>3. Ul' = Tail(Ul) /\ Dl' = Append(Dl, n)  BY <1>3, <1>24 DEF HandleHandoverRequestAck, Ul
  <2> HIDE DEF n
  <2>4. StoreEnbTeid(Head(Ul).mme, Head(Ul).val) /\ mme' = mme
    BY <1>24 DEF HandleHandoverRequestAck, Ul
  <2>5. QED
    BY <1>8, <1>24, <2>1, <2>2, <2>3, <2>4 DEF HandleHandoverRequestAck, MmeStores, TeidMsg
<1>25. CASE HandleHandoverNotify
  <2>1. Ul # << >> /\ Head(Ul).type = "HoNotify" /\ mme.pc = "idle"
    BY <1>25 DEF HandleHandoverNotify, MmeReady, Got, Ul
  <2>2. Ul' = Tail(Ul) /\ Dl' = Dl  BY <1>5, <1>25 DEF HandleHandoverNotify, Channel
  <2>3. mme'.pc = "switch"  BY <1>25 DEF HandleHandoverNotify
  <2>4. QED  BY <1>8, <1>25, <2>1, <2>2, <2>3 DEF HandleHandoverNotify, MmeReads
<1>26. CASE PathSwitched
  <2> DEFINE n == S1("RelCmd", mme.id, mme.enb)
  <2>1. n \in Msg  BY <1>1, MsgS1 DEF DownlinkType
  <2>2. n.type = "RelCmd"  BY S1Fields
  <2>3. Ul' = Ul /\ Dl' = Append(Dl, n)  BY <1>6, <1>26 DEF PathSwitched, Channel
  <2> HIDE DEF n
  <2>4. QED  BY <1>8, <1>26, <2>1, <2>2, <2>3 DEF PathSwitched, Elsewhere, MmeIdle
<1>27. CASE HandleUeContextRelCmpl
  <2>1. Ul # << >> /\ Head(Ul).type = "RelCmpl" /\ mme.pc = "idle"
    BY <1>27 DEF HandleUeContextRelCmpl, MmeReady, Got, Ul
  <2>2. QED  BY <1>4, <1>8, <1>9, <1>27, <2>1 DEF HandleUeContextRelCmpl, MmeReads
<1>28. QED
  BY <1>11, <1>12, <1>13, <1>14, <1>15, <1>16, <1>17, <1>18, <1>19, <1>21, <1>22, <1>23,
     <1>24, <1>25, <1>26, <1>27 DEF MmeThread

(* Every step of the system has one of the effects. *)
LEMMA StepKinds ==
  ASSUME TypeOK, IdsInv, [Next]_vars
  PROVE  StepKind
<1>1. ChanOK /\ mme.id \in Nat /\ mme.enb \in Nat  BY MmeFacts
<1>2. CASE UNCHANGED vars
  BY <1>2 DEF vars, enbVars, mmeVars, StepKind, Elsewhere, Ul, Dl
<1>3. CASE Cli
  BY <1>3 DEF Cli, CliAttach, CliMobility, mmeVars, StepKind, Elsewhere, Ul, Dl
<1>4. CASE EnbCommandThread \/ EnbReceiveThread  BY <1>4, EnbKinds DEF StepKind
<1>5. CASE MmeThread \/ HssReceive  BY <1>5, MmeKinds DEF StepKind
<1>6. CASE HandleAIR \/ SgwThread \/ PgwThread \/ HandleCCR
  <2>1. UNCHANGED <<ue, mme, enbTeids, rxPending>>
    BY <1>6 DEF HandleAIR, SgwThread, PgwThread, HandleCCR, SgwCreateSessionReq,
           SgwCreateSessionRsp, SgwModifyBearerReq, PgwCreateSessionReq, PgwApproved,
           enbVars, mmeVars
  <2>2. Ul' = Ul /\ Dl' = Dl
    <3> USE <1>1 DEF Reply, Consume, ChanOK, Channel, Ul, Dl
    <3>1. CASE HandleAIR  BY <3>1 DEF HandleAIR
    <3>2. CASE SgwCreateSessionReq  BY <3>2 DEF SgwCreateSessionReq
    <3>3. CASE SgwCreateSessionRsp  BY <3>3 DEF SgwCreateSessionRsp
    <3>4. CASE SgwModifyBearerReq  BY <3>4 DEF SgwModifyBearerReq
    <3>5. CASE PgwCreateSessionReq  BY <3>5 DEF PgwCreateSessionReq
    <3>6. CASE PgwApproved  BY <3>6 DEF PgwApproved
    <3>7. CASE HandleCCR  BY <3>7 DEF HandleCCR
    <3>8. QED
      BY <1>6, <3>1, <3>2, <3>3, <3>4, <3>5, <3>6, <3>7 DEF SgwThread, PgwThread
  <2>3. QED  BY <2>1, <2>2 DEF StepKind, Elsewhere
<1>7. CASE Timeout
  <2> DEFINE n == S1("RelCmd", mme.id, mme.enb)
  <2>1. n \in Msg  BY <1>1, MsgS1 DEF DownlinkType
  <2>2. n.type = "RelCmd"  BY S1Fields
  <2>3. Ul' = Ul /\ (Dl' = Dl \/ Dl' = Append(Dl, n))
    <3>1. CASE MmeTimeout  BY <3>1 DEF MmeTimeout, Ul, Dl
    <3>2. CASE PathSwitchTimeout
      BY <1>1, <3>2, SendEffect DEF PathSwitchTimeout, Channel, Ul, Dl
    <3>3. CASE SgwTimeout  BY <3>3 DEF SgwTimeout, Ul, Dl
    <3>4. CASE PgwTimeout  BY <1>1, <3>4, SendEffect DEF PgwTimeout, Channel, Ul, Dl
    <3>5. QED  BY <1>7, <3>1, <3>2, <3>3, <3>4 DEF Timeout
  <2> HIDE DEF n
  <2>4. /\ UNCHANGED <<ue, enbTeids, rxPending>>
        /\ mme' = mme \/ (mme'.pc = "idle" /\ mme.pc # "auth" /\ timeouts' = timeouts + 1)
    BY <1>7 DEF Timeout, MmeTimeout, PathSwitchTimeout, SgwTimeout, PgwTimeout, MmeIdle,
                enbVars, mmeVars
  <2>5. QED  BY <2>1, <2>2, <2>3, <2>4 DEF StepKind, Elsewhere
<1>8. QED  BY <1>2, <1>3, <1>4, <1>5, <1>6, <1>7 DEF Next
----------------------------------------------------------------------------
(* What the steps do to the contexts, field by field. *)
LEMMA ContextUpdate ==
  ASSUME ue \in Seq(Context), NEW k \in DOMAIN ue, NEW c, ue' = [ue EXCEPT ![k] = c]
  PROVE  /\ DOMAIN ue' = DOMAIN ue /\ Len(ue') = Len(ue) /\ ue'[k] = c
         /\ \A j \in DOMAIN ue : j # k => ue'[j] = ue[j]
  OBVIOUS

(* A new EMM state leaves the rest of the context alone. *)
LEMMA EmmEffect ==
  ASSUME ue \in Seq(Context), NEW k \in DOMAIN ue, NEW s,
         ue' = [ue EXCEPT ![k] = [@ EXCEPT !.emm = s]]
  PROVE  /\ DOMAIN ue' = DOMAIN ue /\ \A j \in DOMAIN ue : j # k => ue'[j] = ue[j]
         /\ ue'[k].emm = s /\ ue'[k].auth = ue[k].auth /\ ue'[k].bearers = ue[k].bearers
<1>1. ue[k] \in Context  OBVIOUS
<1> DEFINE c == [ue[k] EXCEPT !.emm = s]
<1>2. c.emm = s /\ c.auth = ue[k].auth /\ c.bearers = ue[k].bearers  BY <1>1 DEF Context
<1>3. ue' = [ue EXCEPT ![k] = c]  OBVIOUS
<1> HIDE DEF c
<1>4. QED  BY <1>2, <1>3, ContextUpdate

(* So does a new vector. *)
LEMMA AuthEffect ==
  ASSUME ue \in Seq(Context), NEW k \in DOMAIN ue, NEW av, NEW s,
         ue' = [ue EXCEPT ![k] = [@ EXCEPT !.auth = av, !.emm = s]]
  PROVE  /\ DOMAIN ue' = DOMAIN ue /\ \A j \in DOMAIN ue : j # k => ue'[j] = ue[j]
         /\ ue'[k].emm = s /\ ue'[k].auth = av /\ ue'[k].bearers = ue[k].bearers
<1>1. ue[k] \in Context  OBVIOUS
<1> DEFINE c == [ue[k] EXCEPT !.auth = av, !.emm = s]
<1>2. c.emm = s /\ c.auth = av /\ c.bearers = ue[k].bearers  BY <1>1 DEF Context
<1>3. ue' = [ue EXCEPT ![k] = c]  OBVIOUS
<1> HIDE DEF c
<1>4. QED  BY <1>2, <1>3, ContextUpdate

(* A bearer is appended: it is the default bearer if the context had none. *)
LEMMA BindEffect ==
  ASSUME ue \in Seq(Context), NEW k \in DOMAIN ue, NEW b \in Bearer,
         ue' = [ue EXCEPT ![k].bearers = Append(@, b)]
  PROVE  /\ DOMAIN ue' = DOMAIN ue /\ \A j \in DOMAIN ue : j # k => ue'[j] = ue[j]
         /\ ue'[k].emm = ue[k].emm /\ ue'[k].auth = ue[k].auth
         /\ ue'[k].bearers # << >>
         /\ ue[k].bearers = << >> => Len(ue'[k].bearers) = 1 /\ ue'[k].bearers[1] = b
         /\ ue[k].bearers # << >> => ue'[k].bearers[1] = ue[k].bearers[1]
<1>1. ue[k] \in Context  OBVIOUS
<1>2. ue[k].bearers \in Seq(Bearer)  BY <1>1 DEF Context
<1> DEFINE d == Append(ue[k].bearers, b)
           c == [ue[k] EXCEPT !.bearers = d]
<1>3. /\ d # << >>
      /\ ue[k].bearers = << >> => Len(d) = 1 /\ d[1] = b
      /\ ue[k].bearers # << >> => d[1] = ue[k].bearers[1]
  <2> DEFINE o == ue[k].bearers
  <2>1. o \in Seq(Bearer)  BY <1>2
  <2> HIDE DEF o
  <2>2. Len(Append(o, b)) = Len(o) + 1 /\ Len(o) \in Nat /\ Append(o, b)[Len(o) + 1] = b
        /\ \A i \in 1 .. Len(o) : Append(o, b)[i] = o[i]
    BY <2>1
  <2>3. Append(o, b) # << >>  BY <2>1, <2>2
  <2>4. o = << >> => Len(Append(o, b)) = 1 /\ Append(o, b)[1] = b  BY <2>1, <2>2
  <2>5. o # << >> => Append(o, b)[1] = o[1]
    <3>1. o # << >> => 1 \in 1 .. Len(o)  BY <2>1
    <3>2. QED  BY <2>2, <3>1
  <2>6. QED  BY <2>3, <2>4, <2>5 DEF o
<1> HIDE DEF d
<1>4. c.emm = ue[k].emm /\ c.auth = ue[k].auth /\ c.bearers = d  BY <1>1 DEF Context
<1>5. ue' = [ue EXCEPT ![k] = c]  BY DEF d
<1> HIDE DEF c
<1>6. QED  BY <1>3, <1>4, <1>5, ContextUpdate

(* StoreEnbTeid changes the TEID of the default bearer, if there is one. *)
LEMMA StoreEffect ==
  ASSUME ue \in Seq(Context), NEW k, NEW t, StoreEnbTeid(k, t)
  PROVE  /\ DOMAIN ue' = DOMAIN ue
         /\ \A j \in DOMAIN ue : j # k \/ ~HasBearer(k) => ue'[j] = ue[j]
         /\ HasBearer(k) =>
              /\ ue'[k].emm = ue[k].emm /\ ue'[k].auth = ue[k].auth
              /\ ue'[k].bearers # << >> /\ Len(ue'[k].bearers) = Len(ue[k].bearers)
              /\ ue'[k].bearers[1].ip = ue[k].bearers[1].ip
              /\ ue'[k].bearers[1].s1u = ue[k].bearers[1].s1u
              /\ ue'[k].bearers[1].teid = t
<1>1. CASE ~HasBearer(k)  BY <1>1 DEF StoreEnbTeid
<1>2. CASE HasBearer(k)
  <2> DEFINE b == ue[k].bearers
             e == [b[1] EXCEPT !.teid = t]
             d == [b EXCEPT ![1] = e]
             c == [ue[k] EXCEPT !.bearers = d]
  <2>1. k \in DOMAIN ue /\ ue[k] \in Context  BY <1>2 DEF HasBearer, Known
  <2>2. b \in Seq(Bearer) /\ b # << >>  BY <1>2, <2>1 DEF HasBearer, Context
  <2>3. 1 \in DOMAIN b /\ b[1] \in Bearer  BY <2>2
  <2>4. e.ip = b[1].ip /\ e.s1u = b[1].s1u /\ e.teid = t  BY <2>3 DEF Bearer
  <2>5. ue' = [ue EXCEPT ![k] = c]  BY <1>2 DEF StoreEnbTeid
  <2> HIDE DEF e
  <2>6. d # << >> /\ Len(d) = Len(b) /\ d[1] = e  BY <2>2, <2>3
  <2> HIDE DEF d
  <2>7. c.emm = ue[k].emm /\ c.auth = ue[k].auth /\ c.bearers = d  BY <2>1 DEF Context
  <2> HIDE DEF c
  <2>8. QED  BY <1>2, <2>1, <2>4, <2>5, <2>6, <2>7, ContextUpdate
<1>3. QED  BY <1>1, <1>2

(* A new context leaves the others alone. *)
LEMMA InsertEffect ==
  ASSUME ue \in Seq(Context), NEW c, ue' = Append(ue, c)
  PROVE  /\ Len(ue) \in Nat /\ DOMAIN ue = 1 .. Len(ue) /\ DOMAIN ue' = 1 .. Len(ue) + 1
         /\ \A j \in DOMAIN ue : ue'[j] = ue[j]
         /\ ue'[Len(ue) + 1] = c
  OBVIOUS

(* The facts every proof below starts from. *)
LEMMA S1Facts ==
  ASSUME TypeOK
  PROVE  /\ Ul \in Seq(Msg) /\ Dl \in Seq(Msg) /\ ue \in Seq(Context)
         /\ enbTeids \in Seq(Nat) /\ rxPending \in Msg
         /\ \A m \in Elems(Ul) \cup Elems(Dl) : m \in Msg /\ m.mme \in Nat /\ m.enb \in Nat
                                                  /\ m.val \in Nat
<1>1. Ul \in Seq(Msg) /\ Dl \in Seq(Msg) /\ ue \in Seq(Context)
      /\ enbTeids \in Seq(Nat) /\ rxPending \in Msg
  BY DEF TypeOK, Channel, Ul, Dl
<1>2. \A m \in Elems(Ul) \cup Elems(Dl) : m \in Msg  BY <1>1 DEF Elems
<1>3. \A m \in Msg : m.mme \in Nat /\ m.enb \in Nat /\ m.val \in Nat  BY DEF Msg
<1>4. QED  BY <1>1, <1>2, <1>3

(* The two ids of a message agree. *)
LEMMA SameIds ==
  ASSUME IdsInv
  PROVE  /\ \A m \in Elems(Ul) : m.type # "InitialUE" => m.mme = m.enb
         /\ \A m \in Elems(Dl) : m.mme = m.enb
  BY DEF IdsInv, Numbered, Elems, Ul, Dl
----------------------------------------------------------------------------
(***************************************************************************)
(* Whose tunnel: every TEID on its way to the MME, and every TEID the MME  *)
(* has stored, is one the eNB allocated for that UE.                       *)
(***************************************************************************)
StoredOwn(k) ==
  ue[k].bearers # << >> /\ ue[k].bearers[1].teid # 0 => GivenTo(ue[k].bearers[1].teid, k)

TeidInv ==
  /\ \A m \in Elems(Ul) : TeidMsg(m) => GivenTo(m.val, m.mme)
  /\ \A k \in DOMAIN ue : StoredOwn(k)

(* The eNB never takes a TEID back. *)
LEMMA GivenForGood ==
  ASSUME TypeOK, StepKind, NEW t, NEW k, GivenTo(t, k)
  PROVE  GivenTo(t, k)'
<1>1. CASE enbTeids' = enbTeids  BY <1>1 DEF GivenTo
<1>2. CASE EnbAllocates
  <2>1. Head(Dl) \in Msg  BY <1>2, S1Facts DEF EnbAllocates
  <2>2. Head(Dl).enb \in Nat  BY <2>1 DEF Msg
  <2>3. \A i \in DOMAIN enbTeids : i \in DOMAIN enbTeids' /\ enbTeids'[i] = enbTeids[i]
    BY <1>2, <2>2, S1Facts DEF EnbAllocates
  <2>4. QED  BY <2>3 DEF GivenTo
<1>3. QED
  BY <1>1, <1>2 DEF StepKind, EnbSends, EnbAnswers, EnbResponds, EnbCompletes, Elsewhere,
     MmeReads, MmeInserts, MmeChallenges, MmeAuthenticates, MmeBinds, MmeRegisters, MmeStores

(* Context Setup and handovers carry the TEID of the UE they name. *)
LEMMA TeidStep ==
  ASSUME TypeOK, IdsInv, TeidInv, StepKind
  PROVE  TeidInv'
<1> USE DEF TeidMsg
<1>1. Ul \in Seq(Msg) /\ Dl \in Seq(Msg) /\ ue \in Seq(Context)  BY S1Facts
<1>2. \A t, k : GivenTo(t, k) => GivenTo(t, k)'  BY GivenForGood
<1>3. ASSUME Elems(Ul') \subseteq Elems(Ul)
      PROVE  \A m \in Elems(Ul') : TeidMsg(m) => GivenTo(m.val, m.mme)'
  BY <1>2, <1>3 DEF TeidInv
<1>4. ASSUME NEW n \in Msg, Ul' = Append(Ul, n), ~TeidMsg(n)
      PROVE  \A m \in Elems(Ul') : TeidMsg(m) => GivenTo(m.val, m.mme)'
  <2>1. Elems(Ul') = Elems(Ul) \cup {n}  BY <1>1, <1>4, ElemsAppend
  <2>2. QED  BY <1>2, <1>4, <2>1 DEF TeidInv
<1>5. ASSUME Ul # << >>, Ul' = Tail(Ul)
      PROVE  \A m \in Elems(Ul') : TeidMsg(m) => GivenTo(m.val, m.mme)'
  <2>1. Elems(Ul') \subseteq Elems(Ul)  BY <1>1, <1>5, ElemsTail
  <2>2. QED  BY <1>3, <2>1
<1>6. ASSUME NEW k \in DOMAIN ue, k \in DOMAIN ue', ue'[k].bearers = ue[k].bearers
      PROVE  StoredOwn(k)'
  BY <1>2, <1>6 DEF TeidInv, StoredOwn
<1>7. ASSUME UNCHANGED ue PROVE \A k \in DOMAIN ue' : StoredOwn(k)'
  BY <1>6, <1>7
<1>8. ASSUME \A m \in Elems(Ul') : TeidMsg(m) => GivenTo(m.val, m.mme)',
             \A k \in DOMAIN ue' : StoredOwn(k)'
      PROVE  TeidInv'
  BY <1>8 DEF TeidInv
<1>9. CASE EnbSends
  BY <1>4, <1>7, <1>8, <1>9 DEF EnbSends
<1>10. CASE EnbAnswers
  BY <1>3, <1>4, <1>7, <1>8, <1>10 DEF EnbAnswers
<1>11. CASE EnbResponds
  BY <1>4, <1>7, <1>8, <1>11 DEF EnbResponds
<1>12. CASE EnbAllocates
  <2> DEFINE h == Head(Dl)
  <2>1. PICK n \in Msg : n.mme = h.mme /\ n.val = NextEnbTeid /\ Ul' = Append(Ul, n)
    BY <1>12 DEF EnbAllocates
  <2>2. h \in Elems(Dl) /\ h.enb \in Nat /\ h.mme = h.enb
    <3>1. h \in Elems(Dl)  BY <1>1, <1>12, ElemsTail DEF EnbAllocates
    <3>2. QED  BY <3>1, S1Facts, SameIds
  <2>3. GivenTo(n.val, n.mme)'
    <3>1. enbTeids' = Append(enbTeids, h.enb) /\ enbTeids \in Seq(Nat)
      BY <1>12, S1Facts DEF EnbAllocates
    <3>2. /\ Len(enbTeids) + 1 \in DOMAIN enbTeids' /\ Len(enbTeids) \in Nat
          /\ enbTeids'[Len(enbTeids) + 1] = h.enb
      BY <2>2, <3>1
    <3>3. n.val + 1 = FirstEnbTeid + (Len(enbTeids) + 1)
      BY <2>1, <3>2 DEF NextEnbTeid, FirstEnbTeid
    <3>4. \E i \in DOMAIN enbTeids' : enbTeids'[i] = n.mme /\ n.val + 1 = FirstEnbTeid + i
      BY <2>1, <2>2, <3>2, <3>3
    <3>5. QED  BY <3>4 DEF GivenTo
  <2>4. Elems(Ul') = Elems(Ul) \cup {n}  BY <1>1, <2>1, ElemsAppend
  <2>5. \A m \in Elems(Ul') : TeidMsg(m) => GivenTo(m.val, m.mme)'
    BY <1>2, <2>3, <2>4 DEF TeidInv
  <2>6. QED  BY <1>7, <1>8, <1>12, <2>5 DEF EnbAllocates
<1>13. CASE EnbCompletes
  BY <1>4, <1>7, <1>8, <1>13 DEF EnbCompletes
<1>14. CASE Elsewhere
  BY <1>3, <1>7, <1>8, <1>14 DEF Elsewhere
<1>15. CASE MmeReads
  BY <1>5, <1>7, <1>8, <1>15 DEF MmeReads
<1>16. CASE MmeInserts
  <2>1. \A k \in DOMAIN ue' : StoredOwn(k)'
    <3> DEFINE c == NewContext(Len(ue) + 1, Len(ue) + 1)
    <3>1. c.bearers = << >>  BY DEF NewContext
    <3>2. ue' = Append(ue, c)  BY <1>16 DEF MmeInserts
    <3> HIDE DEF c
    <3>3. ASSUME NEW k \in DOMAIN ue' PROVE StoredOwn(k)'
      <4>1. CASE k \in DOMAIN ue  BY <1>1, <1>6, <3>2, <4>1, InsertEffect
      <4>2. CASE k \notin DOMAIN ue
        <5>1. k = Len(ue) + 1  BY <1>1, <3>2, <4>2, InsertEffect
        <5>2. ue'[k] = c  BY <1>1, <3>2, <5>1, InsertEffect
        <5>3. QED  BY <3>1, <5>2 DEF StoredOwn
      <4>3. QED  BY <4>1, <4>2
    <3>4. QED  BY <3>3
  <2>2. QED  BY <1>5, <1>8, <1>16, <2>1 DEF MmeInserts
<1>17. CASE MmeChallenges
  <2>1. \A k \in DOMAIN ue' : StoredOwn(k)'
    <3>1. CASE ~Known(mme.id)  BY <1>7, <1>17, <3>1 DEF MmeChallenges
    <3>2. CASE Known(mme.id)
      <4>1. PICK av : ue' = [ue EXCEPT ![mme.id] =
                               [@ EXCEPT !.auth = av, !.emm = "AUTH_PENDING"]]
        BY <1>17, <3>2 DEF MmeChallenges
      <4>2. QED  BY <1>1, <1>6, <3>2, <4>1, AuthEffect DEF Known
    <3>3. QED  BY <3>1, <3>2
  <2>2. QED  BY <1>3, <1>8, <1>17, <2>1 DEF MmeChallenges
<1>18. CASE MmeAuthenticates
  <2>1. \A k \in DOMAIN ue' : StoredOwn(k)'
    BY <1>1, <1>6, <1>18, EmmEffect DEF MmeAuthenticates, Known
  <2>2. QED  BY <1>5, <1>8, <1>18, <2>1 DEF MmeAuthenticates
<1>19. CASE MmeBinds
  <2>1. mme.id \in DOMAIN ue  BY <1>19 DEF MmeBinds, Known
  <2>2. PICK b \in Bearer : b.teid = 0 /\ ue' = [ue EXCEPT ![mme.id].bearers = Append(@, b)]
    BY <1>19 DEF MmeBinds
  <2>3. /\ DOMAIN ue' = DOMAIN ue /\ \A j \in DOMAIN ue : j # mme.id => ue'[j] = ue[j]
        /\ ue[mme.id].bearers = << >> => ue'[mme.id].bearers[1] = b
        /\ ue[mme.id].bearers # << >> => ue'[mme.id].bearers[1] = ue[mme.id].bearers[1]
    BY <1>1, <2>1, <2>2, BindEffect
  <2>4. ASSUME NEW k \in DOMAIN ue' PROVE StoredOwn(k)'
    <3>1. CASE k # mme.id  BY <1>6, <2>3, <3>1
    <3>2. CASE k = mme.id /\ ue[k].bearers = << >>
      BY <2>2, <2>3, <3>2 DEF StoredOwn
    <3>3. CASE k = mme.id /\ ue[k].bearers # << >>
      <4>1. ue'[k].bearers[1] = ue[k].bearers[1] /\ StoredOwn(k)
        BY <2>1, <2>3, <3>3 DEF TeidInv
      <4>2. QED  BY <1>2, <3>3, <4>1 DEF StoredOwn
    <3>4. QED  BY <3>1, <3>2, <3>3
  <2>5. QED  BY <1>3, <1>8, <1>19, <2>4 DEF MmeBinds
<1>20. CASE MmeRegisters
  <2>1. \A k \in DOMAIN ue' : StoredOwn(k)'
    <3>1. CASE ~Known(Head(Ul).mme)  BY <1>7, <1>20, <3>1 DEF MmeRegisters
    <3>2. CASE Known(Head(Ul).mme)
      BY <1>1, <1>6, <1>20, <3>2, EmmEffect DEF MmeRegisters, Known
    <3>3. QED  BY <3>1, <3>2
  <2>2. QED  BY <1>5, <1>8, <1>20, <2>1 DEF MmeRegisters
<1>21. CASE MmeStores
  <2> DEFINE h == Head(Ul)
  <2>1. h \in Elems(Ul) /\ TeidMsg(h)  BY <1>1, <1>21, ElemsTail DEF MmeStores
  <2>2. GivenTo(h.val, h.mme)  BY <2>1 DEF TeidInv
  <2>3. StoreEnbTeid(h.mme, h.val)  BY <1>21 DEF MmeStores
  <2> HIDE DEF h
  <2>4. /\ DOMAIN ue' = DOMAIN ue
        /\ \A j \in DOMAIN ue : j # h.mme \/ ~HasBearer(h.mme) => ue'[j] = ue[j]
        /\ HasBearer(h.mme) => ue'[h.mme].bearers[1].teid = h.val
    BY <1>1, <2>3, StoreEffect
  <2>5. ASSUME NEW k \in DOMAIN ue' PROVE StoredOwn(k)'
    <3>1. CASE k # h.mme \/ ~HasBearer(h.mme)  BY <1>6, <2>4, <3>1
    <3>2. CASE k = h.mme /\ HasBearer(h.mme)
      <4>1. ue'[k].bearers[1].teid = h.val  BY <2>4, <3>2
      <4>2. ASSUME NEW t, t = h.val PROVE GivenTo(t, k)'  BY <1>2, <2>2, <3>2, <4>2
      <4>3. QED  BY <4>1, <4>2 DEF StoredOwn
    <3>3. QED  BY <3>1, <3>2
  <2>6. QED  BY <1>5, <1>8, <1>21, <2>5 DEF MmeStores
<1>22. QED
  BY <1>9, <1>10, <1>11, <1>12, <1>13, <1>14, <1>15, <1>16, <1>17, <1>18, <1>19, <1>20,
     <1>21 DEF StepKind
----------------------------------------------------------------------------
(***************************************************************************)
(* Vectors: the MME only ever holds vectors the HSS made for that IMSI.    *)
(***************************************************************************)
VectorInv ==
  /\ \A av \in pendingAuth : av = GenerateAuthVectors(av.imsi)
  /\ \A m \in Elems(chan["s6aAns"]) : m.val = m.imsi /\ m.xres = Response(m.imsi)

(* The eNB's threads use the S1 connection only. *)
LEMMA EnbKeeps ==
  ASSUME ChanOK, EnbCommandThread \/ EnbReceiveThread, NEW e \in Channel \ {"s1ul", "s1dl"}
  PROVE  chan'[e] = chan[e]
<1> USE DEF Reply, Send, Consume, ChanOK, Channel
<1>1. CASE EnbCommandThread
  <2>1. CASE TakeCommand  BY <2>1 DEF TakeCommand
  <2>2. CASE SendInitialUEMessage  BY <2>2 DEF SendInitialUEMessage
  <2>3. CASE SendTauRequest  BY <2>3 DEF SendTauRequest
  <2>4. CASE SendHandoverRequired  BY <2>4 DEF SendHandoverRequired
  <2>5. QED  BY <1>1, <2>1, <2>2, <2>3, <2>4 DEF EnbCommandThread
<1>2. CASE EnbReceiveThread
  <2>1. CASE HandleAuthRequest  BY <2>1 DEF HandleAuthRequest
  <2>2. CASE HandleSecModeCommand  BY <2>2 DEF HandleSecModeCommand
  <2>3. CASE HandleICSR  BY <2>3 DEF HandleICSR
  <2>4. CASE SendAttachComplete  BY <2>4 DEF SendAttachComplete
  <2>5. CASE HandleTauAccept  BY <2>5 DEF HandleTauAccept
  <2>6. CASE HandleHoRequest  BY <2>6 DEF HandleHoRequest
  <2>7. CASE HandleHoCommand  BY <2>7 DEF HandleHoCommand
  <2>8. CASE HandleMmeStatusXfer  BY <2>8 DEF HandleMmeStatusXfer
  <2>9. CASE HandleUeCtxRelCmd  BY <2>9 DEF HandleUeCtxRelCmd
  <2>10. QED
    BY <1>2, <2>1, <2>2, <2>3, <2>4, <2>5, <2>6, <2>7, <2>8, <2>9 DEF EnbReceiveThread
<1>3. QED  BY <1>1, <1>2

(* The MME's threads keep to S1, S6a and S11, and hss_rx_th alone reads S6a. *)
LEMMA MmeKeeps ==
  ASSUME ChanOK, MmeThread
  PROVE  /\ \A e \in {"s6aAns", "s5Req", "s5Rsp", "gxReq", "gxAns"} : chan'[e] = chan[e]
         /\ pendingAuth' \subseteq pendingAuth
<1> USE DEF Reply, Send, Consume, ChanOK, Channel, mmeVars
<1>1. CASE HandleInitialUEMsg  BY <1>1 DEF HandleInitialUEMsg
<1>2. CASE TakeAuthVector  BY <1>2 DEF TakeAuthVector
<1>3. CASE HandleAuthResponse  BY <1>3 DEF HandleAuthResponse
<1>4. CASE CreateSessionRsp  BY <1>4 DEF CreateSessionRsp
<1>5. CASE HandleSecModeComplete  BY <1>5 DEF HandleSecModeComplete
<1>6. CASE HandleAttachComplete  BY <1>6 DEF HandleAttachComplete
<1>7. CASE HandleICSetupResponse  BY <1>7 DEF HandleICSetupResponse
<1>8. CASE ModifyBearerRsp  BY <1>8 DEF ModifyBearerRsp
<1>9. CASE HandleTauRequest  BY <1>9 DEF HandleTauRequest
<1>10. CASE HandleHandoverRequired  BY <1>10 DEF HandleHandoverRequired
<1>11. CASE HandleHandoverRequestAck  BY <1>11 DEF HandleHandoverRequestAck
<1>12. CASE HandleEnbStatusTransfer  BY <1>12 DEF HandleEnbStatusTransfer
<1>13. CASE HandleHandoverNotify  BY <1>13 DEF HandleHandoverNotify
<1>14. CASE PathSwitched  BY <1>14 DEF PathSwitched
<1>15. CASE HandleUeContextRelCmpl  BY <1>15 DEF HandleUeContextRelCmpl
<1>16. QED
  BY <1>1, <1>2, <1>3, <1>4, <1>5, <1>6, <1>7, <1>8, <1>9, <1>10, <1>11, <1>12, <1>13,
     <1>14, <1>15 DEF MmeThread

(* hss_rx_th stores what the HSS answered, and nobody else writes a vector. *)
LEMMA VectorStep ==
  ASSUME TypeOK, VectorInv, [Next]_vars
  PROVE  VectorInv'
<1>1. ChanOK  BY DEF TypeOK, ChanOK
<1>2. chan["s6aAns"] \in Seq(Msg)  BY <1>1 DEF ChanOK, Channel
<1>3. ASSUME chan'["s6aAns"] = chan["s6aAns"], pendingAuth' \subseteq pendingAuth
      PROVE  VectorInv'
  BY <1>3 DEF VectorInv
<1>4. CASE UNCHANGED vars  BY <1>3, <1>4 DEF vars, mmeVars
<1>5. CASE Cli  BY <1>3, <1>5 DEF Cli, CliAttach, CliMobility, mmeVars
<1>6. CASE EnbCommandThread \/ EnbReceiveThread
  <2>1. chan'["s6aAns"] = chan["s6aAns"]  BY <1>1, <1>6, EnbKeeps DEF Channel
  <2>2. UNCHANGED pendingAuth
    BY <1>6 DEF EnbCommandThread, EnbReceiveThread, TakeCommand, SendInitialUEMessage,
       SendTauRequest, SendHandoverRequired, HandleAuthRequest, HandleSecModeCommand,
       HandleICSR, SendAttachComplete, HandleTauAccept, HandleHoRequest, HandleHoCommand,
       HandleMmeStatusXfer, HandleUeCtxRelCmd, mmeVars
  <2>3. QED  BY <1>3, <2>1, <2>2
<1>7. CASE MmeThread  BY <1>1, <1>3, <1>7, MmeKeeps
<1>8. CASE HssReceive
  <2> DEFINE a == Head(chan["s6aAns"])
             v == [imsi |-> a.imsi, rand |-> a.val, xres |-> a.xres]
  <2>1. chan["s6aAns"] # << >>  BY <1>8 DEF HssReceive, Got
  <2>2. a \in Elems(chan["s6aAns"])  BY <1>2, <2>1, ElemsTail
  <2>3. a.val = a.imsi /\ a.xres = Response(a.imsi)  BY <2>2 DEF VectorInv
  <2>4. v = GenerateAuthVectors(v.imsi)  BY <2>3 DEF GenerateAuthVectors
  <2>5. pendingAuth' = {av \in pendingAuth : av.imsi # a.imsi} \cup {v}
    BY <1>8 DEF HssReceive
  <2> HIDE DEF v
  <2>6. \A av \in pendingAuth' : av = GenerateAuthVectors(av.imsi)
    BY <2>4, <2>5 DEF VectorInv
  <2>7. chan'["s6aAns"] = Tail(chan["s6aAns"])
    BY <1>1, <1>8, ConsumeEffect DEF HssReceive, Channel
  <2>8. Elems(chan'["s6aAns"]) \subseteq Elems(chan["s6aAns"])
    BY <1>2, <2>1, <2>7, ElemsTail
  <2>9. QED  BY <2>6, <2>8 DEF VectorInv
<1>9. CASE HandleAIR
  <2> DEFINE i == Head(chan["s6aReq"]).imsi
             a == [About("AIA", i) EXCEPT !.val = i, !.xres = Response(i)]
  <2>1. chan["s6aReq"] # << >>  BY <1>9 DEF HandleAIR, Got
  <2>2. Head(chan["s6aReq"]) \in Msg  BY <1>1, <2>1, HeadMsg DEF Channel
  <2>3. i \in Nat  BY <2>2 DEF Msg
  <2>4. a \in Msg
    <3>1. Response(i) \in Nat  BY <2>3 DEF Response
    <3>2. About("AIA", i) \in Msg  BY <2>3, MsgAbout DEF CoreType
    <3>3. QED  BY <2>3, <3>1, <3>2 DEF Msg
  <2>5. a.val = a.imsi /\ a.xres = Response(a.imsi)  BY DEF About, Blank
  <2>6. Reply("s6aReq", "s6aAns", a)  BY <1>9 DEF HandleAIR, GenerateAuthVectors
  <2> HIDE DEF a
  <2>7. chan'["s6aAns"] = Append(chan["s6aAns"], a)  BY <1>1, <2>6, ReplyEffect DEF Channel
  <2>8. Elems(chan'["s6aAns"]) = Elems(chan["s6aAns"]) \cup {a}
    BY <1>2, <2>4, <2>7, ElemsAppend
  <2>9. UNCHANGED pendingAuth  BY <1>9 DEF HandleAIR, mmeVars
  <2>10. QED  BY <2>5, <2>8, <2>9 DEF VectorInv
<1>10. CASE SgwThread \/ PgwThread \/ HandleCCR
  <2>1. UNCHANGED pendingAuth
    BY <1>10 DEF SgwThread, PgwThread, HandleCCR, SgwCreateSessionReq,
           SgwCreateSessionRsp, SgwModifyBearerReq, PgwCreateSessionReq, PgwApproved, mmeVars
  <2>2. chan'["s6aAns"] = chan["s6aAns"]
    <3> USE <1>1 DEF Reply, Consume, ChanOK, Channel
    <3>2. CASE SgwCreateSessionReq  BY <3>2 DEF SgwCreateSessionReq
    <3>3. CASE SgwCreateSessionRsp  BY <3>3 DEF SgwCreateSessionRsp
    <3>4. CASE SgwModifyBearerReq  BY <3>4 DEF SgwModifyBearerReq
    <3>5. CASE PgwCreateSessionReq  BY <3>5 DEF PgwCreateSessionReq
    <3>6. CASE PgwApproved  BY <3>6 DEF PgwApproved
    <3>7. CASE HandleCCR  BY <3>7 DEF HandleCCR
    <3>8. QED  BY <1>10, <3>2, <3>3, <3>4, <3>5, <3>6, <3>7 DEF SgwThread, PgwThread
  <2>3. QED  BY <1>3, <2>1, <2>2
<1>11. CASE Timeout
  <2>1. UNCHANGED pendingAuth
    BY <1>11 DEF Timeout, MmeTimeout, PathSwitchTimeout, SgwTimeout, PgwTimeout, mmeVars
  <2>2. chan'["s6aAns"] = chan["s6aAns"]
    BY <1>1, <1>11 DEF Timeout, MmeTimeout, PathSwitchTimeout, SgwTimeout, PgwTimeout, Send,
       ChanOK, Channel
  <2>3. QED  BY <1>3, <2>1, <2>2
<1>12. QED
  BY <1>4, <1>5, <1>6, <1>7, <1>8, <1>9, <1>10, <1>11 DEF Next
----------------------------------------------------------------------------
(***************************************************************************)
(* The attach procedure.  What is known of a context in each state, of the *)
(* context mme_th is blocked on, and of the contexts the messages on the   *)
(* S1 connection are about.                                                *)
(***************************************************************************)
Challenged(k) == ue[k].auth = GenerateAuthVectors(k)
AwaitsAuth(k) == Known(k) /\ ue[k].emm = "AUTH_PENDING"
Bound(k) ==
  /\ Known(k) /\ ue[k].emm \in {"SESSION_PENDING", "REGISTERED"} /\ Challenged(k)
  /\ ue[k].bearers # << >> /\ Len(ue[k].bearers) = 1 /\ ue[k].bearers[1].ip # 0
Tunnelled(k) == ue[k].bearers[1].teid # 0

ContextOK(k) ==
  /\ ue[k].emm = "REGISTERED_INITIATED" => ue[k].bearers = << >>
  /\ ue[k].emm = "AUTH_PENDING" => ue[k].bearers = << >> /\ Challenged(k)
  /\ ue[k].emm = "SESSION_PENDING" => Challenged(k) /\ (ue[k].bearers # << >> => Bound(k))
  /\ ue[k].emm = "REGISTERED" => Bound(k) /\ Tunnelled(k)

ContextInv == \A k \in DOMAIN ue : ContextOK(k)

CallInv ==
  /\ mme.pc = "auth" =>
       Known(mme.id) /\ ue[mme.id].emm = "REGISTERED_INITIATED" /\ mme.imsi = mme.id
  /\ mme.pc = "create" =>
       /\ Known(mme.id) /\ ue[mme.id].emm = "SESSION_PENDING" /\ ue[mme.id].bearers = << >>
       /\ mme.imsi = mme.id

DlInv ==
  \A m \in Elems(Dl) : /\ m.type = "AuthReq" => AwaitsAuth(m.mme)
                       /\ m.type = "IcsReq" => Bound(m.mme)

UlInv ==
  \A m \in Elems(Ul) : /\ m.type = "AuthRsp" => AwaitsAuth(m.mme)
                       /\ m.type = "AttachCmpl" => Bound(m.mme)
                       /\ TeidMsg(m) => m.val # 0

(* The Attach Complete the eNB owes, or has sent, follows a Context Setup  *)
(* Response of the same UE, which stores its TEID first.                   *)
RxInv ==
  rxPending.type = "AttachCmpl" =>
    /\ Bound(rxPending.mme)
    /\ ~Tunnelled(rxPending.mme) =>
         \E m \in Elems(Ul) : m.type = "IcsRsp" /\ m.mme = rxPending.mme

Preceded(q, j) == \E i \in DOMAIN q : i < j /\ q[i].type = "IcsRsp" /\ q[i].mme = q[j].mme

OrderInv ==
  \A j \in DOMAIN Ul : Ul[j].type = "AttachCmpl" /\ ~Tunnelled(Ul[j].mme) => Preceded(Ul, j)

(* A UE has at most one challenge or response on its way. *)
OnceIn(q, t) ==
  \A i, j \in DOMAIN q : i # j /\ q[i].type = t /\ q[j].type = t => q[i].mme # q[j].mme

AuthOnce ==
  /\ OnceIn(Dl, "AuthReq")
  /\ OnceIn(Ul, "AuthRsp")
  /\ \A m \in Elems(Dl), n \in Elems(Ul) :
       m.type = "AuthReq" /\ n.type = "AuthRsp" => m.mme # n.mme

AttachInv ==
  ContextInv /\ CallInv /\ DlInv /\ UlInv /\ RxInv /\ OrderInv /\ AuthOnce
----------------------------------------------------------------------------
(* Taking a message keeps a queue free of duplicates. *)
LEMMA OnceTail ==
  ASSUME NEW q \in Seq(Msg), q # << >>, NEW t, OnceIn(q, t)
  PROVE  OnceIn(Tail(q), t)
<1> DEFINE r == Tail(q)
<1>1. DOMAIN r = 1 .. Len(q) - 1 /\ \A i \in DOMAIN r : r[i] = q[i + 1] /\ i + 1 \in DOMAIN q
      /\ Len(q) \in Nat
  BY ElemsTail
<1> HIDE DEF r
<1>2. ASSUME NEW i \in DOMAIN r, NEW j \in DOMAIN r, i # j PROVE i + 1 # j + 1
  BY <1>1, <1>2
<1>3. OnceIn(r, t)  BY <1>1, <1>2 DEF OnceIn
<1>4. QED  BY <1>3 DEF r

(* ... and the message taken was the only one about its UE. *)
LEMMA OnceHead ==
  ASSUME NEW q \in Seq(Msg), q # << >>, NEW t, OnceIn(q, t), Head(q).type = t
  PROVE  \A m \in Elems(Tail(q)) : m.type = t => m.mme # Head(q).mme
<1> DEFINE r == Tail(q)
<1>1. DOMAIN r = 1 .. Len(q) - 1 /\ \A i \in DOMAIN r : r[i] = q[i + 1] /\ i + 1 \in DOMAIN q
      /\ Len(q) \in Nat /\ Head(q) = q[1] /\ 1 \in DOMAIN q
  BY ElemsTail
<1> HIDE DEF r
<1>2. ASSUME NEW i \in DOMAIN r, r[i].type = t PROVE r[i].mme # q[1].mme
  <2>1. i + 1 # 1  BY <1>1
  <2>2. QED  BY <1>1, <1>2, <2>1 DEF OnceIn
<1>3. \A m \in Elems(r) : m.type = t => m.mme # q[1].mme  BY <1>2 DEF Elems
<1>4. QED  BY <1>1, <1>3 DEF r

(* Appending the only message about a UE does. *)
LEMMA OnceAppend ==
  ASSUME NEW q \in Seq(Msg), NEW m \in Msg, NEW t, OnceIn(q, t),
         m.type = t => \A n \in Elems(q) : n.type = t => n.mme # m.mme
  PROVE  OnceIn(Append(q, m), t)
<1> DEFINE r == Append(q, m)
<1>1. /\ DOMAIN r = 1 .. Len(q) + 1 /\ Len(q) \in Nat /\ DOMAIN q = 1 .. Len(q)
      /\ \A i \in DOMAIN q : r[i] = q[i]
      /\ r[Len(q) + 1] = m
  BY ElemsAppend
<1>2. DOMAIN r = DOMAIN q \cup {Len(q) + 1}  BY <1>1
<1>3. \A i \in DOMAIN q : r[i] \in Elems(q)  BY <1>1 DEF Elems
<1> HIDE DEF r
<1>4. ASSUME NEW i \in DOMAIN r, NEW j \in DOMAIN r, i # j, r[i].type = t, r[j].type = t
      PROVE  r[i].mme # r[j].mme
  <2>1. CASE i \in DOMAIN q /\ j \in DOMAIN q  BY <1>1, <1>4, <2>1 DEF OnceIn
  <2>2. CASE i \in DOMAIN q /\ j = Len(q) + 1
    BY <1>1, <1>3, <1>4, <2>2
  <2>3. CASE i = Len(q) + 1 /\ j \in DOMAIN q
    BY <1>1, <1>3, <1>4, <2>3
  <2>4. QED  BY <1>2, <1>4, <2>1, <2>2, <2>3
<1>5. OnceIn(r, t)  BY <1>4 DEF OnceIn
<1>6. QED  BY <1>5 DEF r
----------------------------------------------------------------------------
(* How a step changes the two directions of the S1 connection. *)
DlQuiet ==
  \/ Dl' = Dl
  \/ Dl # << >> /\ Dl' = Tail(Dl)
  \/ \E m \in Msg : m.type \notin {"AuthReq", "IcsReq"} /\ Dl' = Append(Dl, m)

UlQuiet ==
  \/ Ul' = Ul
  \/ Ul # << >> /\ Ul' = Tail(Ul)
  \/ \E m \in Msg : /\ m.type \notin {"AuthRsp", "AttachCmpl", "IcsRsp", "HoAck"}
                    /\ Ul' = Append(Ul, m)

(* The few steps that do more than take or add an unrelated message. *)
LEMMA QuietKinds ==
  ASSUME StepKind
  PROVE  /\ DlQuiet \/ MmeChallenges \/ MmeBinds
         /\ UlQuiet \/ EnbResponds \/ EnbAllocates \/ EnbCompletes
         /\ \/ UNCHANGED ue
            \/ MmeInserts \/ MmeChallenges \/ MmeAuthenticates \/ MmeBinds \/ MmeRegisters
            \/ MmeStores
<1> USE DEF DlQuiet, UlQuiet
<1>1. CASE EnbSends  BY <1>1 DEF EnbSends
<1>2. CASE EnbAnswers  BY <1>2 DEF EnbAnswers
<1>3. CASE EnbResponds  BY <1>3 DEF EnbResponds
<1>4. CASE EnbAllocates  BY <1>4 DEF EnbAllocates
<1>5. CASE EnbCompletes  BY <1>5 DEF EnbCompletes
<1>6. CASE Elsewhere  BY <1>6 DEF Elsewhere
<1>7. CASE MmeReads  BY <1>7 DEF MmeReads
<1>8. CASE MmeInserts  BY <1>8 DEF MmeInserts
<1>9. CASE MmeChallenges  BY <1>9 DEF MmeChallenges
<1>10. CASE MmeAuthenticates  BY <1>10 DEF MmeAuthenticates
<1>11. CASE MmeBinds  BY <1>11 DEF MmeBinds
<1>12. CASE MmeRegisters  BY <1>12 DEF MmeRegisters
<1>13. CASE MmeStores  BY <1>13 DEF MmeStores
<1>14. QED
  BY <1>1, <1>2, <1>3, <1>4, <1>5, <1>6, <1>7, <1>8, <1>9, <1>10, <1>11, <1>12, <1>13
     DEF StepKind

(* What AttachInv says of the message at the head of the uplink. *)
LEMMA HeadFacts ==
  ASSUME TypeOK, AttachInv, Ul # << >>
  PROVE  LET h == Head(Ul)
         IN  /\ h \in Elems(Ul) /\ h \in Msg /\ h.val \in Nat /\ h.mme \in Nat
             /\ h.type = "AuthRsp" => AwaitsAuth(h.mme)
             /\ h.type = "AttachCmpl" => Bound(h.mme) /\ Tunnelled(h.mme)
             /\ TeidMsg(h) => h.val # 0
<1>1. Ul \in Seq(Msg)  BY S1Facts
<1>2. Head(Ul) \in Elems(Ul) /\ Head(Ul) = Ul[1] /\ 1 \in DOMAIN Ul /\ DOMAIN Ul = 1 .. Len(Ul)
      /\ Len(Ul) \in Nat
  BY <1>1, ElemsTail
<1>3. ~Preceded(Ul, 1)  BY <1>2 DEF Preceded
<1>4. Head(Ul).type = "AttachCmpl" => Tunnelled(Head(Ul).mme)
  BY <1>2, <1>3 DEF AttachInv, OrderInv
<1>5. QED  BY <1>2, <1>4, S1Facts DEF AttachInv, UlInv

(* A context that has its bearer keeps it, and its tunnel. *)
LEMMA BoundKept ==
  ASSUME TypeOK, AttachInv, StepKind, NEW k, Bound(k)
  PROVE  Bound(k)' /\ (Tunnelled(k) => Tunnelled(k)')
<1>1. ue \in Seq(Context) /\ k \in DOMAIN ue  BY S1Facts DEF Bound, Known
<1>2. ASSUME k \in DOMAIN ue', ue'[k].emm \in {"SESSION_PENDING", "REGISTERED"},
             ue'[k].auth = ue[k].auth, ue'[k].bearers = ue[k].bearers
      PROVE  Bound(k)' /\ (Tunnelled(k) => Tunnelled(k)')
  BY <1>2 DEF Bound, Known, Challenged, Tunnelled
<1>3. ASSUME k \in DOMAIN ue', ue'[k] = ue[k]
      PROVE  Bound(k)' /\ (Tunnelled(k) => Tunnelled(k)')
  BY <1>2, <1>3 DEF Bound
<1>4. CASE UNCHANGED ue  BY <1>1, <1>3, <1>4
<1>5. CASE MmeInserts
  BY <1>1, <1>3, <1>5, InsertEffect DEF MmeInserts
<1>6. CASE MmeChallenges
  <2>1. Known(mme.id) /\ ue[mme.id].emm = "REGISTERED_INITIATED"
    BY <1>6 DEF MmeChallenges, AttachInv, CallInv
  <2>2. k # mme.id  BY <2>1 DEF Bound
  <2>3. PICK av : ue' = [ue EXCEPT ![mme.id] = [@ EXCEPT !.auth = av, !.emm = "AUTH_PENDING"]]
    BY <1>6, <2>1 DEF MmeChallenges
  <2>4. QED  BY <1>1, <1>3, <2>1, <2>2, <2>3, AuthEffect DEF Known
<1>7. CASE MmeAuthenticates
  <2>1. AwaitsAuth(Head(Ul).mme)  BY <1>7, HeadFacts DEF MmeAuthenticates
  <2>2. k # Head(Ul).mme  BY <2>1 DEF Bound, AwaitsAuth
  <2>3. QED  BY <1>1, <1>3, <1>7, <2>2, EmmEffect DEF MmeAuthenticates, Known
<1>8. CASE MmeBinds
  <2>1. Known(mme.id) /\ ue[mme.id].bearers = << >>
    BY <1>8 DEF MmeBinds, AttachInv, CallInv
  <2>2. k # mme.id  BY <2>1 DEF Bound
  <2>3. PICK b \in Bearer : ue' = [ue EXCEPT ![mme.id].bearers = Append(@, b)]
    BY <1>8 DEF MmeBinds
  <2>4. QED  BY <1>1, <1>3, <2>1, <2>2, <2>3, BindEffect DEF Known
<1>9. CASE MmeRegisters
  <2>1. CASE ~Known(Head(Ul).mme)  BY <1>4, <1>9, <2>1 DEF MmeRegisters
  <2>2. CASE Known(Head(Ul).mme)
    <3>1. /\ DOMAIN ue' = DOMAIN ue
          /\ \A j \in DOMAIN ue : j # Head(Ul).mme => ue'[j] = ue[j]
          /\ ue'[Head(Ul).mme].emm = "REGISTERED"
          /\ ue'[Head(Ul).mme].auth = ue[Head(Ul).mme].auth
          /\ ue'[Head(Ul).mme].bearers = ue[Head(Ul).mme].bearers
      BY <1>1, <1>9, <2>2, EmmEffect DEF MmeRegisters, Known
    <3>2. CASE k # Head(Ul).mme  BY <1>1, <1>3, <3>1, <3>2
    <3>3. CASE k = Head(Ul).mme  BY <1>1, <1>2, <3>1, <3>3
    <3>4. QED  BY <3>2, <3>3
  <2>3. QED  BY <2>1, <2>2
<1>10. CASE MmeStores
  <2> DEFINE h == Head(Ul)
  <2>1. h.val # 0  BY <1>10, HeadFacts DEF MmeStores
  <2>2. StoreEnbTeid(h.mme, h.val)  BY <1>10 DEF MmeStores
  <2> HIDE DEF h
  <2>3. CASE k # h.mme \/ ~HasBearer(h.mme)  BY <1>1, <1>3, <2>2, <2>3, StoreEffect
  <2>4. CASE k = h.mme /\ HasBearer(h.mme)
    <3>1. /\ DOMAIN ue' = DOMAIN ue /\ ue'[k].emm = ue[k].emm /\ ue'[k].auth = ue[k].auth
          /\ ue'[k].bearers # << >> /\ Len(ue'[k].bearers) = Len(ue[k].bearers)
          /\ ue'[k].bearers[1].ip = ue[k].bearers[1].ip /\ ue'[k].bearers[1].teid = h.val
      BY <1>1, <2>2, <2>4, StoreEffect
    <3>2. QED  BY <1>1, <2>1, <3>1 DEF Bound, Known, Challenged, Tunnelled
  <2>5. QED  BY <2>3, <2>4
<1>11. QED
  BY <1>4, <1>5, <1>6, <1>7, <1>8, <1>9, <1>10, QuietKinds

(* A context keeps waiting for the response until the response is read. *)
LEMMA AwaitsKept ==
  ASSUME TypeOK, AttachInv, StepKind, NEW k, AwaitsAuth(k),
         MmeAuthenticates => k # Head(Ul).mme
  PROVE  AwaitsAuth(k)'
<1>1. ue \in Seq(Context) /\ k \in DOMAIN ue  BY S1Facts DEF AwaitsAuth, Known
<1>2. ASSUME k \in DOMAIN ue', ue'[k].emm = ue[k].emm PROVE AwaitsAuth(k)'
  BY <1>2 DEF AwaitsAuth, Known
<1>4. CASE UNCHANGED ue  BY <1>1, <1>2, <1>4
<1>5. CASE MmeInserts
  BY <1>1, <1>2, <1>5, InsertEffect DEF MmeInserts
<1>6. CASE MmeChallenges
  <2>1. Known(mme.id) /\ ue[mme.id].emm = "REGISTERED_INITIATED"
    BY <1>6 DEF MmeChallenges, AttachInv, CallInv
  <2>2. k # mme.id  BY <2>1 DEF AwaitsAuth
  <2>3. PICK av : ue' = [ue EXCEPT ![mme.id] = [@ EXCEPT !.auth = av, !.emm = "AUTH_PENDING"]]
    BY <1>6, <2>1 DEF MmeChallenges
  <2>4. QED  BY <1>1, <1>2, <2>1, <2>2, <2>3, AuthEffect DEF Known
<1>7. CASE MmeAuthenticates
  BY <1>1, <1>2, <1>7, EmmEffect DEF MmeAuthenticates, Known
<1>8. CASE MmeBinds
  <2>1. PICK b \in Bearer : ue' = [ue EXCEPT ![mme.id].bearers = Append(@, b)]
    BY <1>8 DEF MmeBinds
  <2>2. mme.id \in DOMAIN ue  BY <1>8 DEF MmeBinds, Known
  <2>3. QED  BY <1>1, <1>2, <2>1, <2>2, BindEffect
<1>9. CASE MmeRegisters
  <2>1. Bound(Head(Ul).mme)  BY <1>9, HeadFacts DEF MmeRegisters
  <2>2. k # Head(Ul).mme /\ Known(Head(Ul).mme)  BY <2>1 DEF Bound, AwaitsAuth
  <2>3. QED  BY <1>1, <1>2, <1>9, <2>2, EmmEffect DEF MmeRegisters, Known
<1>10. CASE MmeStores
  <2>1. StoreEnbTeid(Head(Ul).mme, Head(Ul).val)  BY <1>10 DEF MmeStores
  <2>2. DOMAIN ue' = DOMAIN ue /\ ue'[k].emm = ue[k].emm
    <3>1. CASE k # Head(Ul).mme \/ ~HasBearer(Head(Ul).mme)  BY <1>1, <2>1, <3>1, StoreEffect
    <3>2. CASE k = Head(Ul).mme /\ HasBearer(Head(Ul).mme)  BY <1>1, <2>1, <3>2, StoreEffect
    <3>3. QED  BY <3>1, <3>2
  <2>3. QED  BY <1>1, <1>2, <2>2
<1>11. QED
  BY <1>4, <1>5, <1>6, <1>7, <1>8, <1>9, <1>10, QuietKinds
----------------------------------------------------------------------------
(* The contexts. *)
LEMMA ContextStep ==
  ASSUME TypeOK, VectorInv, AttachInv, StepKind
  PROVE  ContextInv'
<1>1. ue \in Seq(Context)  BY S1Facts
<1>2. ASSUME NEW k \in DOMAIN ue, k \in DOMAIN ue', ue'[k] = ue[k] PROVE ContextOK(k)'
  <2>1. ContextOK(k)  BY DEF AttachInv, ContextInv
  <2>2. Bound(k) => Bound(k)'  BY BoundKept
  <2>3. QED  BY <1>2, <2>1, <2>2 DEF ContextOK, Challenged, Tunnelled
<1>3. CASE UNCHANGED ue  BY <1>2, <1>3 DEF ContextInv
<1>4. CASE MmeInserts
  <2> DEFINE c == NewContext(Len(ue) + 1, Len(ue) + 1)
  <2>1. c.bearers = << >> /\ c.emm = "REGISTERED_INITIATED"  BY DEF NewContext
  <2>2. ue' = Append(ue, c)  BY <1>4 DEF MmeInserts
  <2> HIDE DEF c
  <2>3. ASSUME NEW k \in DOMAIN ue' PROVE ContextOK(k)'
    <3>1. CASE k \in DOMAIN ue  BY <1>1, <1>2, <2>2, <3>1, InsertEffect
    <3>2. CASE k \notin DOMAIN ue
      <4>1. k = Len(ue) + 1  BY <1>1, <2>2, <3>2, InsertEffect
      <4>2. ue'[k] = c  BY <1>1, <2>2, <4>1, InsertEffect
      <4>3. QED  BY <2>1, <4>2 DEF ContextOK
    <3>3. QED  BY <3>1, <3>2
  <2>4. QED  BY <2>3 DEF ContextInv
<1>5. CASE MmeChallenges
  <2>1. /\ mme.id \in DOMAIN ue /\ ue[mme.id].emm = "REGISTERED_INITIATED"
        /\ mme.imsi = mme.id
    BY <1>5 DEF MmeChallenges, AttachInv, CallInv, Known
  <2>2. PICK av \in pendingAuth :
          /\ av.imsi = mme.imsi
          /\ ue' = [ue EXCEPT ![mme.id] = [@ EXCEPT !.auth = av, !.emm = "AUTH_PENDING"]]
    BY <1>5, <2>1 DEF MmeChallenges, Known
  <2>3. av = GenerateAuthVectors(mme.id)  BY <2>1, <2>2 DEF VectorInv
  <2>4. /\ DOMAIN ue' = DOMAIN ue /\ \A j \in DOMAIN ue : j # mme.id => ue'[j] = ue[j]
        /\ ue'[mme.id].emm = "AUTH_PENDING" /\ ue'[mme.id].auth = av
        /\ ue'[mme.id].bearers = ue[mme.id].bearers
    BY <1>1, <2>1, <2>2, AuthEffect
  <2>5. ue[mme.id].bearers = << >>  BY <2>1 DEF AttachInv, ContextInv, ContextOK
  <2>6. ASSUME NEW k \in DOMAIN ue' PROVE ContextOK(k)'
    <3>1. CASE k # mme.id  BY <1>2, <2>4, <3>1
    <3>2. CASE k = mme.id
      <4>1. ue'[k].emm = "AUTH_PENDING" /\ ue'[k].bearers = << >>  BY <2>4, <2>5, <3>2
      <4>2. Challenged(k)'  BY <2>3, <2>4, <3>2 DEF Challenged
      <4>3. QED  BY <4>1, <4>2 DEF ContextOK
    <3>3. QED  BY <3>1, <3>2
  <2>7. QED  BY <2>6 DEF ContextInv
<1>6. CASE MmeAuthenticates
  <2> DEFINE h == Head(Ul)
  <2>1. AwaitsAuth(h.mme)  BY <1>6, HeadFacts DEF MmeAuthenticates
  <2>2. h.mme \in DOMAIN ue /\ ue[h.mme].bearers = << >> /\ Challenged(h.mme)
    BY <2>1 DEF AwaitsAuth, Known, AttachInv, ContextInv, ContextOK
  <2>3. /\ DOMAIN ue' = DOMAIN ue /\ \A j \in DOMAIN ue : j # h.mme => ue'[j] = ue[j]
        /\ ue'[h.mme].emm = "SESSION_PENDING" /\ ue'[h.mme].auth = ue[h.mme].auth
        /\ ue'[h.mme].bearers = ue[h.mme].bearers
    BY <1>1, <1>6, <2>2, EmmEffect DEF MmeAuthenticates
  <2>4. ASSUME NEW k \in DOMAIN ue' PROVE ContextOK(k)'
    <3>1. CASE k # h.mme  BY <1>2, <2>3, <3>1
    <3>2. CASE k = h.mme
      <4>1. ue'[k].emm = "SESSION_PENDING" /\ ue'[k].bearers = << >>  BY <2>2, <2>3, <3>2
      <4>2. Challenged(k)'  BY <2>2, <2>3, <3>2 DEF Challenged
      <4>3. QED  BY <4>1, <4>2 DEF ContextOK
    <3>3. QED  BY <3>1, <3>2
  <2>5. QED  BY <2>4 DEF ContextInv
<1>7. CASE MmeBinds
  <2>1. /\ mme.id \in DOMAIN ue /\ ue[mme.id].emm = "SESSION_PENDING"
        /\ ue[mme.id].bearers = << >>
    BY <1>7 DEF MmeBinds, AttachInv, CallInv, Known
  <2>2. Challenged(mme.id)  BY <2>1 DEF AttachInv, ContextInv, ContextOK
  <2>3. PICK b \in Bearer : b.ip # 0 /\ ue' = [ue EXCEPT ![mme.id].bearers = Append(@, b)]
    BY <1>7 DEF MmeBinds
  <2>4. /\ DOMAIN ue' = DOMAIN ue /\ \A j \in DOMAIN ue : j # mme.id => ue'[j] = ue[j]
        /\ ue'[mme.id].emm = ue[mme.id].emm /\ ue'[mme.id].auth = ue[mme.id].auth
        /\ ue'[mme.id].bearers # << >>
        /\ Len(ue'[mme.id].bearers) = 1 /\ ue'[mme.id].bearers[1] = b
    BY <1>1, <2>1, <2>3, BindEffect
  <2>5. ASSUME NEW k \in DOMAIN ue' PROVE ContextOK(k)'
    <3>1. CASE k # mme.id  BY <1>2, <2>4, <3>1
    <3>2. CASE k = mme.id
      <4>1. ue'[k].emm = "SESSION_PENDING"  BY <2>1, <2>4, <3>2
      <4>2. Challenged(k)'  BY <2>2, <2>4, <3>2 DEF Challenged
      <4>3. Bound(k)'  BY <2>3, <2>4, <3>2, <4>1, <4>2 DEF Bound, Known
      <4>4. QED  BY <4>1, <4>2, <4>3 DEF ContextOK
    <3>3. QED  BY <3>1, <3>2
  <2>6. QED  BY <2>5 DEF ContextInv
<1>8. CASE MmeRegisters
  <2> DEFINE h == Head(Ul)
  <2>1. Bound(h.mme) /\ Tunnelled(h.mme)  BY <1>8, HeadFacts DEF MmeRegisters
  <2>2. h.mme \in DOMAIN ue  BY <2>1 DEF Bound, Known
  <2>3. /\ DOMAIN ue' = DOMAIN ue /\ \A j \in DOMAIN ue : j # h.mme => ue'[j] = ue[j]
        /\ ue'[h.mme].emm = "REGISTERED"
    BY <1>1, <1>8, <2>2, EmmEffect DEF MmeRegisters, Known
  <2>4. ASSUME NEW k \in DOMAIN ue' PROVE ContextOK(k)'
    <3>1. CASE k # h.mme  BY <1>2, <2>3, <3>1
    <3>2. CASE k = h.mme
      <4>1. Bound(k)' /\ Tunnelled(k)'  BY <2>1, <3>2, BoundKept
      <4>2. ue'[k].emm = "REGISTERED"  BY <2>3, <3>2
      <4>3. QED  BY <4>1, <4>2 DEF ContextOK
    <3>3. QED  BY <3>1, <3>2
  <2>5. QED  BY <2>4 DEF ContextInv
<1>9. CASE MmeStores
  <2> DEFINE h == Head(Ul)
  <2>1. StoreEnbTeid(h.mme, h.val)  BY <1>9 DEF MmeStores
  <2> HIDE DEF h
  <2>2. DOMAIN ue' = DOMAIN ue  BY <1>1, <2>1, StoreEffect
  <2>3. ASSUME NEW k \in DOMAIN ue' PROVE ContextOK(k)'
    <3>1. CASE k # h.mme \/ ~HasBearer(h.mme)  BY <1>1, <1>2, <2>1, <2>2, <3>1, StoreEffect
    <3>2. CASE k = h.mme /\ HasBearer(h.mme)
      <4>1. ue'[k].emm = ue[k].emm /\ ue'[k].auth = ue[k].auth
        BY <1>1, <2>1, <3>2, StoreEffect
      <4>2. ContextOK(k) /\ ue[k].bearers # << >> /\ ue[k].emm \in EmmState
        <5>1. ContextOK(k) /\ ue[k] \in Context
          BY <1>1, <2>2 DEF AttachInv, ContextInv
        <5>2. QED  BY <3>2, <5>1 DEF HasBearer, Context
      <4>3. Bound(k)  BY <4>2 DEF ContextOK, EmmState
      <4>4. Bound(k)' /\ (Tunnelled(k) => Tunnelled(k)')  BY <4>3, BoundKept
      <4>5. QED  BY <4>1, <4>2, <4>4 DEF ContextOK, Bound
    <3>3. QED  BY <3>1, <3>2
  <2>4. QED  BY <2>3 DEF ContextInv
<1>10. QED
  BY <1>3, <1>4, <1>5, <1>6, <1>7, <1>8, <1>9, QuietKinds

(* The context mme_th is blocked on: nothing else touches it. *)
LEMMA CallStep ==
  ASSUME TypeOK, AttachInv, StepKind
  PROVE  CallInv'
<1>1. ue \in Seq(Context)  BY S1Facts
<1>2. ASSUME mme'.pc \notin {"auth", "create"} PROVE CallInv'  BY <1>2 DEF CallInv
<1>3. ASSUME UNCHANGED <<ue, mme>> PROVE CallInv'
  BY <1>3 DEF AttachInv, CallInv, Known
<1>4. MmeIdle.pc = "idle"  BY DEF MmeIdle
<1>5. CASE EnbSends  BY <1>3, <1>5 DEF EnbSends
<1>6. CASE EnbAnswers  BY <1>3, <1>6 DEF EnbAnswers
<1>7. CASE EnbResponds  BY <1>3, <1>7 DEF EnbResponds
<1>8. CASE EnbAllocates  BY <1>3, <1>8 DEF EnbAllocates
<1>9. CASE EnbCompletes  BY <1>3, <1>9 DEF EnbCompletes
<1>10. CASE Elsewhere  BY <1>2, <1>3, <1>10 DEF Elsewhere
<1>11. CASE MmeReads  BY <1>2, <1>11 DEF MmeReads
<1>12. CASE MmeInserts
  <2> DEFINE c == NewContext(Len(ue) + 1, Len(ue) + 1)
             n == Len(ue) + 1
  <2>1. c.emm = "REGISTERED_INITIATED"  BY DEF NewContext
  <2>2. ue' = Append(ue, c)  BY <1>12 DEF MmeInserts
  <2>3. mme'.pc = "auth" /\ mme'.id = n /\ mme'.imsi = n  BY <1>12 DEF MmeInserts
  <2> HIDE DEF c
  <2>4. n \in DOMAIN ue' /\ ue'[n] = c  BY <1>1, <2>2, InsertEffect
  <2> HIDE DEF n
  <2>5. QED  BY <2>1, <2>3, <2>4 DEF CallInv, Known
<1>13. CASE MmeChallenges  BY <1>2, <1>4, <1>13 DEF MmeChallenges
<1>14. CASE MmeAuthenticates
  <2> DEFINE h == Head(Ul)
  <2>1. AwaitsAuth(h.mme)  BY <1>14, HeadFacts DEF MmeAuthenticates
  <2>2. h.mme \in DOMAIN ue /\ ue[h.mme].bearers = << >>
    BY <2>1 DEF AwaitsAuth, Known, AttachInv, ContextInv, ContextOK
  <2>3. /\ DOMAIN ue' = DOMAIN ue /\ ue'[h.mme].emm = "SESSION_PENDING"
        /\ ue'[h.mme].bearers = ue[h.mme].bearers
    BY <1>1, <1>14, <2>2, EmmEffect DEF MmeAuthenticates
  <2>4. mme'.pc = "create" /\ mme'.id = h.mme /\ mme'.imsi = h.mme
    BY <1>14 DEF MmeAuthenticates
  <2> HIDE DEF h
  <2>5. QED  BY <2>2, <2>3, <2>4 DEF CallInv, Known
<1>15. CASE MmeBinds  BY <1>2, <1>4, <1>15 DEF MmeBinds
<1>16. CASE MmeRegisters  BY <1>2, <1>16 DEF MmeRegisters
<1>17. CASE MmeStores  BY <1>2, <1>17 DEF MmeStores
<1>18. QED
  BY <1>5, <1>6, <1>7, <1>8, <1>9, <1>10, <1>11, <1>12, <1>13, <1>14, <1>15, <1>16, <1>17
     DEF StepKind

(* The downlink. *)
LEMMA DlStep ==
  ASSUME TypeOK, AttachInv, StepKind
  PROVE  DlInv'
<1>1. Ul \in Seq(Msg) /\ Dl \in Seq(Msg) /\ ue \in Seq(Context)  BY S1Facts
<1> DEFINE DlOK(m) == /\ m.type = "AuthReq" => AwaitsAuth(m.mme)'
                      /\ m.type = "IcsReq" => Bound(m.mme)'
<1>2. ASSUME NEW m \in Elems(Dl) PROVE DlOK(m)
  <2>1. m.type = "IcsReq" => Bound(m.mme)'  BY BoundKept DEF AttachInv, DlInv
  <2>2. ASSUME m.type = "AuthReq" PROVE AwaitsAuth(m.mme)'
    <3>1. AwaitsAuth(m.mme)  BY <2>2 DEF AttachInv, DlInv
    <3>2. MmeAuthenticates => m.mme # Head(Ul).mme
      BY <2>2, HeadFacts DEF MmeAuthenticates, AttachInv, AuthOnce
    <3>3. QED  BY <3>1, <3>2, AwaitsKept
  <2>3. QED  BY <2>1, <2>2
<1>3. CASE DlQuiet
  <2>1. ASSUME NEW m \in Elems(Dl'), m.type \in {"AuthReq", "IcsReq"} PROVE m \in Elems(Dl)
    <3>1. CASE Dl' = Dl  BY <3>1
    <3>2. CASE Dl # << >> /\ Dl' = Tail(Dl)  BY <1>1, <3>2, ElemsTail
    <3>3. CASE \E n \in Msg : n.type \notin {"AuthReq", "IcsReq"} /\ Dl' = Append(Dl, n)
      <4>1. PICK n \in Msg : n.type \notin {"AuthReq", "IcsReq"} /\ Dl' = Append(Dl, n)
        BY <3>3
      <4>2. Elems(Dl') = Elems(Dl) \cup {n}  BY <1>1, <4>1, ElemsAppend
      <4>3. QED  BY <2>1, <4>1, <4>2
    <3>4. QED  BY <1>3, <3>1, <3>2, <3>3 DEF DlQuiet
  <2>2. \A m \in Elems(Dl') : DlOK(m)  BY <1>2, <2>1
  <2>3. QED  BY <2>2 DEF DlInv
<1>4. CASE MmeChallenges
  <2>1. ASSUME NEW n, n.mme = mme.id PROVE AwaitsAuth(n.mme)'
    <3>1. mme.id \in DOMAIN ue  BY <1>4 DEF MmeChallenges, AttachInv, CallInv, Known
    <3>2. PICK av : ue' = [ue EXCEPT ![mme.id] = [@ EXCEPT !.auth = av, !.emm = "AUTH_PENDING"]]
      BY <1>4, <3>1 DEF MmeChallenges, Known
    <3>3. /\ DOMAIN ue' = DOMAIN ue /\ \A j \in DOMAIN ue : j # mme.id => ue'[j] = ue[j]
          /\ ue'[mme.id].emm = "AUTH_PENDING" /\ ue'[mme.id].auth = av
          /\ ue'[mme.id].bearers = ue[mme.id].bearers
      BY <1>1, <3>1, <3>2, AuthEffect
    <3>4. QED  BY <2>1, <3>1, <3>3 DEF AwaitsAuth, Known
  <2>2. CASE Dl' = Dl
    <3>1. \A m \in Elems(Dl') : DlOK(m)  BY <1>2, <2>2
    <3>2. QED  BY <3>1 DEF DlInv
  <2>3. CASE Dl' # Dl
    <3>1. PICK n \in Msg : n.type = "AuthReq" /\ n.mme = mme.id /\ Dl' = Append(Dl, n)
      BY <1>4, <2>3 DEF MmeChallenges
    <3>2. Elems(Dl') = Elems(Dl) \cup {n}  BY <1>1, <3>1, ElemsAppend
    <3>3. DlOK(n)  BY <2>1, <3>1
    <3>4. \A m \in Elems(Dl') : DlOK(m)  BY <1>2, <3>2, <3>3
    <3>5. QED  BY <3>4 DEF DlInv
  <2>4. QED  BY <2>2, <2>3
<1>5. CASE MmeBinds
  <2>1. PICK n \in Msg : n.type = "IcsReq" /\ n.mme = mme.id /\ Dl' = Append(Dl, n)
    BY <1>5 DEF MmeBinds
  <2>2. Bound(n.mme)'
    <3>1. /\ mme.id \in DOMAIN ue /\ ue[mme.id].emm = "SESSION_PENDING"
          /\ ue[mme.id].bearers = << >>
      BY <1>5 DEF MmeBinds, AttachInv, CallInv, Known
    <3>2. Challenged(mme.id)  BY <3>1 DEF AttachInv, ContextInv, ContextOK
    <3>3. PICK b \in Bearer : b.ip # 0 /\ ue' = [ue EXCEPT ![mme.id].bearers = Append(@, b)]
      BY <1>5 DEF MmeBinds
    <3>4. /\ DOMAIN ue' = DOMAIN ue
          /\ ue'[mme.id].emm = ue[mme.id].emm /\ ue'[mme.id].auth = ue[mme.id].auth
          /\ ue'[mme.id].bearers # << >>
          /\ Len(ue'[mme.id].bearers) = 1 /\ ue'[mme.id].bearers[1] = b
      BY <1>1, <3>1, <3>3, BindEffect
    <3>5. QED  BY <2>1, <3>1, <3>2, <3>3, <3>4 DEF Bound, Known, Challenged
  <2>3. Elems(Dl') = Elems(Dl) \cup {n}  BY <1>1, <2>1, ElemsAppend
  <2>4. DlOK(n)  BY <2>1, <2>2
  <2>5. \A m \in Elems(Dl') : DlOK(m)  BY <1>2, <2>3, <2>4
  <2>6. QED  BY <2>5 DEF DlInv
<1>6. QED  BY <1>3, <1>4, <1>5, QuietKinds

(* The uplink. *)
LEMMA UlStep ==
  ASSUME TypeOK, AttachInv, StepKind
  PROVE  UlInv'
<1>1. Ul \in Seq(Msg) /\ Dl \in Seq(Msg) /\ ue \in Seq(Context)  BY S1Facts
<1> DEFINE UlOK(m) == /\ m.type = "AuthRsp" => AwaitsAuth(m.mme)'
                      /\ m.type = "AttachCmpl" => Bound(m.mme)'
                      /\ TeidMsg(m) => m.val # 0
<1>2. ASSUME NEW m \in Elems(Ul), MmeAuthenticates => m \in Elems(Tail(Ul)) PROVE UlOK(m)
  <2>1. m.type = "AttachCmpl" => Bound(m.mme)'  BY BoundKept DEF AttachInv, UlInv
  <2>2. ASSUME m.type = "AuthRsp" PROVE AwaitsAuth(m.mme)'
    <3>1. AwaitsAuth(m.mme)  BY <2>2 DEF AttachInv, UlInv
    <3>2. MmeAuthenticates => m.mme # Head(Ul).mme
      BY <1>1, <1>2, <2>2, OnceHead DEF MmeAuthenticates, AttachInv, AuthOnce
    <3>3. QED  BY <3>1, <3>2, AwaitsKept
  <2>3. TeidMsg(m) => m.val # 0  BY DEF AttachInv, UlInv
  <2>4. QED  BY <2>1, <2>2, <2>3
<1>3. ASSUME \A m \in Elems(Ul') : UlOK(m) PROVE UlInv'
  BY <1>3 DEF UlInv, TeidMsg
<1>4. CASE MmeAuthenticates
  <2>1. Ul # << >> /\ Ul' = Tail(Ul)  BY <1>4 DEF MmeAuthenticates
  <2>2. Elems(Ul') \subseteq Elems(Ul)  BY <1>1, <2>1, ElemsTail
  <2>3. QED  BY <1>2, <1>3, <2>1, <2>2
<1>5. ASSUME ~MmeAuthenticates, NEW n \in Msg, Ul' = Append(Ul, n), UlOK(n) PROVE UlInv'
  <2>1. Elems(Ul') = Elems(Ul) \cup {n}  BY <1>1, <1>5, ElemsAppend
  <2>2. \A m \in Elems(Ul) : UlOK(m)  BY <1>2, <1>5
  <2>3. \A m \in Elems(Ul') : UlOK(m)  BY <1>5, <2>1, <2>2
  <2>4. QED  BY <1>3, <2>3
<1>6. CASE UlQuiet /\ ~MmeAuthenticates
  <2>1. CASE Ul' = Ul  BY <1>2, <1>3, <1>6, <2>1
  <2>2. CASE Ul # << >> /\ Ul' = Tail(Ul)  BY <1>1, <1>2, <1>3, <1>6, <2>2, ElemsTail
  <2>3. CASE \E n \in Msg : /\ n.type \notin {"AuthRsp", "AttachCmpl", "IcsRsp", "HoAck"}
                            /\ Ul' = Append(Ul, n)
    BY <1>5, <1>6, <2>3 DEF TeidMsg
  <2>4. QED  BY <1>6, <2>1, <2>2, <2>3 DEF UlQuiet
<1>7. CASE EnbResponds /\ ~MmeAuthenticates
  <2>1. Head(Dl) \in Elems(Dl)  BY <1>1, <1>7, ElemsTail DEF EnbResponds
  <2>2. PICK n \in Msg : n.type = "AuthRsp" /\ n.mme = Head(Dl).mme /\ Ul' = Append(Ul, n)
    BY <1>7 DEF EnbResponds
  <2>3. AwaitsAuth(n.mme)  BY <1>7, <2>1, <2>2 DEF EnbResponds, AttachInv, DlInv
  <2>4. AwaitsAuth(n.mme)'  BY <1>7, <2>3, AwaitsKept
  <2>5. UlOK(n)  BY <2>2, <2>4 DEF TeidMsg
  <2>6. QED  BY <1>5, <1>7, <2>2, <2>5
<1>8. CASE EnbAllocates /\ ~MmeAuthenticates
  <2>1. PICK n \in Msg : TeidMsg(n) /\ n.val = NextEnbTeid /\ Ul' = Append(Ul, n)
    BY <1>8 DEF EnbAllocates, TeidMsg
  <2>2. NextEnbTeid # 0  BY S1Facts DEF NextEnbTeid, FirstEnbTeid
  <2>3. UlOK(n)  BY <2>1, <2>2 DEF TeidMsg
  <2>4. QED  BY <1>5, <1>8, <2>1, <2>3
<1>9. CASE EnbCompletes /\ ~MmeAuthenticates
  <2>1. PICK n \in Msg : n = rxPending /\ n.type = "AttachCmpl" /\ Ul' = Append(Ul, n)
    BY <1>9 DEF EnbCompletes
  <2>2. Bound(n.mme)  BY <2>1 DEF AttachInv, RxInv
  <2>3. Bound(n.mme)'  BY <2>2, BoundKept
  <2>4. UlOK(n)  BY <2>1, <2>3 DEF TeidMsg
  <2>5. QED  BY <1>5, <1>9, <2>1, <2>4
<1>10. QED  BY <1>4, <1>6, <1>7, <1>8, <1>9, QuietKinds

(* Reading a Context Setup Response of a UE that has its bearer makes its   *)
(* tunnel; no other step takes such a response off the uplink.              *)
LEMMA IcsRspRead ==
  ASSUME TypeOK, AttachInv, StepKind, NEW k, Bound(k), Ul # << >>, Ul' = Tail(Ul),
         Ul' # Ul, Head(Ul).type = "IcsRsp", Head(Ul).mme = k,
         ~EnbSends, ~EnbAnswers, ~EnbResponds, ~EnbAllocates, ~EnbCompletes
  PROVE  Tunnelled(k)'
<1>1. MmeStores
  BY DEF StepKind, Elsewhere, MmeReads, MmeInserts, MmeChallenges, MmeAuthenticates,
         MmeBinds, MmeRegisters
<1>2. ue \in Seq(Context)  BY S1Facts
<1>3. StoreEnbTeid(k, Head(Ul).val) /\ TeidMsg(Head(Ul))  BY <1>1 DEF MmeStores
<1>4. HasBearer(k)  BY DEF Bound, HasBearer
<1>5. ue'[k].bearers[1].teid = Head(Ul).val  BY <1>2, <1>3, <1>4, StoreEffect
<1>6. Head(Ul).val # 0  BY <1>3, HeadFacts
<1>7. QED  BY <1>5, <1>6 DEF Tunnelled

(* Only mme_th takes messages out of the uplink. *)
LEMMA MmeStepOnly ==
  ASSUME TypeOK, StepKind, Ul # << >>, Ul' = Tail(Ul)
  PROVE  /\ Ul' # Ul /\ ~EnbSends /\ ~EnbAnswers /\ ~EnbResponds /\ ~EnbAllocates
         /\ ~EnbCompletes
         /\ UNCHANGED <<rxPending, enbTeids>>
<1>1. Ul \in Seq(Msg)  BY S1Facts
<1>2. Len(Tail(Ul)) # Len(Ul)  BY <1>1, ElemsTail
<1>3. \A n \in Msg : Tail(Ul) # Append(Ul, n)
  <2>1. ASSUME NEW n \in Msg PROVE Len(Append(Ul, n)) # Len(Tail(Ul))
    <3>1. Len(Append(Ul, n)) = Len(Ul) + 1 /\ Len(Tail(Ul)) = Len(Ul) - 1 /\ Len(Ul) \in Nat
      BY <1>1, ElemsTail
    <3>2. \A i \in Nat : i + 1 # i - 1  OBVIOUS
    <3>3. QED  BY <3>1, <3>2, Zenon
  <2>2. QED  BY <2>1
<1>4. Ul' # Ul  BY <1>2
<1>5. ~EnbSends /\ ~EnbAnswers /\ ~EnbResponds /\ ~EnbAllocates /\ ~EnbCompletes
  BY <1>3, <1>4 DEF EnbSends, EnbAnswers, EnbResponds, EnbAllocates, EnbCompletes
<1>6. QED
  BY <1>4, <1>5 DEF StepKind, Elsewhere, MmeReads, MmeInserts, MmeChallenges,
     MmeAuthenticates, MmeBinds, MmeRegisters, MmeStores

(* The Attach Complete the eNB owes. *)
LEMMA RxStep ==
  ASSUME TypeOK, AttachInv, StepKind
  PROVE  RxInv'
<1>1. Ul \in Seq(Msg) /\ Dl \in Seq(Msg)  BY S1Facts
<1>2. CASE EnbCompletes
  <2>1. rxPending'.type = "None"  BY <1>2 DEF EnbCompletes, Blank
  <2>2. QED  BY <2>1 DEF RxInv
<1>3. CASE EnbAllocates /\ Head(Dl).type = "IcsReq"
  <2>1. Head(Dl) \in Elems(Dl)  BY <1>1, <1>3, ElemsTail DEF EnbAllocates
  <2>2. PICK n \in Msg : n.type = "IcsRsp" /\ n.mme = Head(Dl).mme /\ Ul' = Append(Ul, n)
    BY <1>3 DEF EnbAllocates
  <2>3. Bound(n.mme)  BY <1>3, <2>1, <2>2 DEF AttachInv, DlInv
  <2>4. Bound(n.mme)'  BY <2>3, BoundKept
  <2>5. n \in Elems(Ul')  BY <1>1, <2>2, ElemsAppend
  <2>6. rxPending'.mme = n.mme  BY <1>3, <2>2 DEF EnbAllocates
  <2>7. Bound(rxPending.mme)'  BY <2>4, <2>6
  <2>8. QED  BY <2>2, <2>5, <2>6, <2>7 DEF RxInv
<1>4. ASSUME rxPending' = rxPending PROVE RxInv'
  <2> SUFFICES ASSUME rxPending.type = "AttachCmpl"
               PROVE  /\ Bound(rxPending.mme)'
                      /\ ~Tunnelled(rxPending.mme)' =>
                           \E m \in Elems(Ul') : m.type = "IcsRsp" /\ m.mme = rxPending.mme
    BY <1>4 DEF RxInv
  <2>1. PICK k : k = rxPending.mme  OBVIOUS
  <2>2. Bound(k)  BY <2>1 DEF AttachInv, RxInv
  <2>3. Bound(k)' /\ (Tunnelled(k) => Tunnelled(k)')  BY <2>2, BoundKept
  <2>4. ASSUME ~Tunnelled(k)' PROVE \E m \in Elems(Ul') : m.type = "IcsRsp" /\ m.mme = k
    <3>1. PICK m \in Elems(Ul) : m.type = "IcsRsp" /\ m.mme = k
      BY <2>1, <2>3, <2>4 DEF AttachInv, RxInv
    <3>2. CASE Ul # << >> /\ Ul' = Tail(Ul)
      <4>1. m # Head(Ul)  BY <2>2, <2>4, <3>1, <3>2, IcsRspRead, MmeStepOnly
      <4>2. m \in Elems(Ul')  BY <1>1, <3>2, <4>1, ElemsTail
      <4>3. QED  BY <3>1, <4>2
    <3>3. CASE Ul' = Ul  BY <3>1, <3>3
    <3>4. CASE \E n \in Msg : Ul' = Append(Ul, n)
      <4>1. m \in Elems(Ul')  BY <1>1, <3>4, ElemsAppend
      <4>2. QED  BY <3>1, <4>1
    <3>5. QED
      BY <3>2, <3>3, <3>4, QuietKinds DEF UlQuiet, EnbResponds, EnbAllocates, EnbCompletes
  <2>5. Bound(rxPending.mme)' /\ (Tunnelled(rxPending.mme)' <=> Tunnelled(k)')
    BY <1>4, <2>1, <2>3
  <2>6. QED  BY <2>1, <2>4, <2>5
<1>5. rxPending' = rxPending \/ EnbCompletes \/ (EnbAllocates /\ Head(Dl).type = "IcsReq")
  BY DEF StepKind, EnbSends, EnbAnswers, EnbResponds, EnbAllocates, Elsewhere, MmeReads,
     MmeInserts, MmeChallenges, MmeAuthenticates, MmeBinds, MmeRegisters, MmeStores
<1>6. QED  BY <1>2, <1>3, <1>4, <1>5

(* The Attach Complete on the uplink. *)
LEMMA OrderStep ==
  ASSUME TypeOK, AttachInv, StepKind
  PROVE  OrderInv'
<1>1. Ul \in Seq(Msg)  BY S1Facts
<1> SUFFICES ASSUME NEW j \in DOMAIN Ul', Ul'[j].type = "AttachCmpl", ~Tunnelled(Ul[j].mme)'
             PROVE  Preceded(Ul', j)
  BY DEF OrderInv, Preceded
<1>2. PICK k : k = Ul'[j].mme  OBVIOUS
<1>3. ~Tunnelled(k)'  BY <1>2
<1>4. ASSUME NEW i \in DOMAIN Ul, Ul[i].type = "AttachCmpl", Ul[i].mme = k
      PROVE  Preceded(Ul, i) /\ Bound(k)
  <2>1. Bound(k)
    <3>1. Ul[i] \in Elems(Ul)  BY DEF Elems
    <3>2. QED  BY <1>4, <3>1 DEF AttachInv, UlInv
  <2>2. ~Tunnelled(k)  BY <1>3, <2>1, BoundKept
  <2>3. QED  BY <1>4, <2>1, <2>2 DEF AttachInv, OrderInv
<1>5. CASE Ul' = Ul
  <2>1. Preceded(Ul, j)  BY <1>2, <1>4, <1>5
  <2>2. QED  BY <1>5, <2>1
<1>6. CASE Ul # << >> /\ Ul' = Tail(Ul)
  <2>1. /\ DOMAIN Ul' = 1 .. Len(Ul) - 1 /\ Len(Ul) \in Nat \ {0} /\ DOMAIN Ul = 1 .. Len(Ul)
        /\ \A i \in DOMAIN Ul' : Ul'[i] = Ul[i + 1] /\ i + 1 \in DOMAIN Ul
        /\ Head(Ul) = Ul[1]
    BY <1>1, <1>6, ElemsTail
  <2>2. Preceded(Ul, j + 1) /\ Bound(k)  BY <1>2, <1>4, <2>1
  <2>3. PICK i \in DOMAIN Ul : i < j + 1 /\ Ul[i].type = "IcsRsp" /\ Ul[i].mme = k
    BY <1>2, <2>1, <2>2 DEF Preceded
  <2>4. i # 1
    BY <1>3, <1>6, <2>1, <2>2, <2>3, IcsRspRead, MmeStepOnly
  <2>5. i - 1 \in DOMAIN Ul' /\ Ul'[i - 1] = Ul[i] /\ i - 1 < j  BY <2>1, <2>3, <2>4
  <2>6. QED  BY <1>2, <2>3, <2>5 DEF Preceded
<1>7. ASSUME NEW n \in Msg, Ul' = Append(Ul, n), n.type = "AttachCmpl" => EnbCompletes
      PROVE  Preceded(Ul', j)
  <2>1. /\ DOMAIN Ul' = 1 .. Len(Ul) + 1 /\ Len(Ul) \in Nat /\ DOMAIN Ul = 1 .. Len(Ul)
        /\ \A i \in DOMAIN Ul : Ul'[i] = Ul[i] /\ i \in DOMAIN Ul'
        /\ Ul'[Len(Ul) + 1] = n
    BY <1>1, <1>7, ElemsAppend
  <2>2. CASE j \in DOMAIN Ul
    <3>1. Preceded(Ul, j)  BY <1>2, <1>4, <2>1, <2>2
    <3>2. QED  BY <2>1, <2>2, <3>1 DEF Preceded
  <2>3. CASE j \notin DOMAIN Ul
    <3>1. j = Len(Ul) + 1  BY <2>1, <2>3
    <3>2. EnbCompletes  BY <1>7, <2>1, <3>1
    <3>3. rxPending.type = "AttachCmpl" /\ rxPending.mme = k
      <4>1. Ul' = Append(Ul, rxPending) /\ rxPending \in Msg /\ rxPending.type = "AttachCmpl"
        BY <3>2 DEF EnbCompletes
      <4>2. Ul'[Len(Ul) + 1] = rxPending  BY <1>1, <4>1, ElemsAppend
      <4>3. QED  BY <1>2, <3>1, <4>1, <4>2
    <3>4. Bound(k)  BY <3>3 DEF AttachInv, RxInv
    <3>5. ~Tunnelled(k)  BY <1>3, <3>4, BoundKept
    <3>6. PICK m \in Elems(Ul) : m.type = "IcsRsp" /\ m.mme = k
      BY <3>3, <3>5 DEF AttachInv, RxInv
    <3>7. PICK i \in DOMAIN Ul : Ul[i] = m  BY DEF Elems
    <3>8. i \in DOMAIN Ul' /\ Ul'[i] = m /\ i < j  BY <2>1, <3>1, <3>7
    <3>9. QED  BY <1>2, <3>6, <3>8 DEF Preceded
  <2>4. QED  BY <2>2, <2>3
<1>8. \/ Ul' = Ul \/ (Ul # << >> /\ Ul' = Tail(Ul))
      \/ \E n \in Msg : Ul' = Append(Ul, n) /\ (n.type = "AttachCmpl" => EnbCompletes)
  <2>1. CASE UlQuiet  BY <2>1 DEF UlQuiet
  <2>2. CASE EnbResponds  BY <2>2 DEF EnbResponds
  <2>3. CASE EnbAllocates
    <3>1. PICK n \in Msg : /\ n.type = IF Head(Dl).type = "IcsReq" THEN "IcsRsp" ELSE "HoAck"
                           /\ Ul' = Append(Ul, n)
      BY <2>3 DEF EnbAllocates
    <3>2. n.type # "AttachCmpl"  BY <3>1
    <3>3. QED  BY <3>1, <3>2
  <2>4. CASE EnbCompletes  BY <2>4 DEF EnbCompletes
  <2>5. QED  BY <2>1, <2>2, <2>3, <2>4, QuietKinds
<1>9. QED  BY <1>5, <1>6, <1>7, <1>8

(* A new challenge goes to a UE that has none, and a response replaces it. *)
LEMMA AuthOnceStep ==
  ASSUME TypeOK, AttachInv, StepKind
  PROVE  AuthOnce'
<1>1. Ul \in Seq(Msg) /\ Dl \in Seq(Msg)  BY S1Facts
<1>2. OnceIn(Dl, "AuthReq") /\ OnceIn(Ul, "AuthRsp")  BY DEF AttachInv, AuthOnce
<1>3. ASSUME MmeChallenges
      PROVE  /\ \A m \in Elems(Dl) : m.type = "AuthReq" => m.mme # mme.id
             /\ \A m \in Elems(Ul) : m.type = "AuthRsp" => m.mme # mme.id
  <2>1. ~AwaitsAuth(mme.id)  BY <1>3 DEF MmeChallenges, AttachInv, CallInv, AwaitsAuth
  <2>2. QED  BY <2>1 DEF AttachInv, DlInv, UlInv
<1>4. OnceIn(Dl', "AuthReq")
  <2>1. CASE Dl' = Dl  BY <1>2, <2>1
  <2>2. CASE Dl # << >> /\ Dl' = Tail(Dl)
    <3>1. OnceIn(Tail(Dl), "AuthReq")  BY <1>1, <1>2, <2>2, OnceTail
    <3>2. QED  BY <2>2, <3>1
  <2>3. ASSUME NEW n \in Msg, Dl' = Append(Dl, n),
               n.type = "AuthReq" => \A m \in Elems(Dl) : m.type = "AuthReq" => m.mme # n.mme
        PROVE  OnceIn(Dl', "AuthReq")
    <3>1. OnceIn(Append(Dl, n), "AuthReq")  BY <1>1, <1>2, <2>3, OnceAppend
    <3>2. QED  BY <2>3, <3>1
  <2>4. CASE DlQuiet  BY <2>1, <2>2, <2>3, <2>4 DEF DlQuiet
  <2>5. CASE MmeChallenges
    BY <1>3, <2>1, <2>3, <2>5 DEF MmeChallenges
  <2>6. CASE MmeBinds
    <3>1. PICK n \in Msg : n.type = "IcsReq" /\ Dl' = Append(Dl, n)  BY <2>6 DEF MmeBinds
    <3>2. n.type # "AuthReq"  BY <3>1
    <3>3. QED  BY <2>3, <3>1, <3>2
  <2>7. QED  BY <2>4, <2>5, <2>6, QuietKinds
<1>5. OnceIn(Ul', "AuthRsp")
  <2>1. CASE Ul' = Ul  BY <1>2, <2>1
  <2>2. CASE Ul # << >> /\ Ul' = Tail(Ul)
    <3>1. OnceIn(Tail(Ul), "AuthRsp")  BY <1>1, <1>2, <2>2, OnceTail
    <3>2. QED  BY <2>2, <3>1
  <2>3. ASSUME NEW n \in Msg, Ul' = Append(Ul, n),
               n.type = "AuthRsp" => \A m \in Elems(Ul) : m.type = "AuthRsp" => m.mme # n.mme
        PROVE  OnceIn(Ul', "AuthRsp")
    <3>1. OnceIn(Append(Ul, n), "AuthRsp")  BY <1>1, <1>2, <2>3, OnceAppend
    <3>2. QED  BY <2>3, <3>1
  <2>4. CASE UlQuiet  BY <2>1, <2>2, <2>3, <2>4 DEF UlQuiet
  <2>5. CASE EnbResponds
    <3>1. Head(Dl) \in Elems(Dl)  BY <1>1, <2>5, ElemsTail DEF EnbResponds
    <3>2. \A m \in Elems(Ul) : m.type = "AuthRsp" => m.mme # Head(Dl).mme
      BY <2>5, <3>1 DEF EnbResponds, AttachInv, AuthOnce
    <3>3. QED  BY <2>3, <2>5, <3>2 DEF EnbResponds
  <2>6. CASE EnbAllocates
    <3>1. PICK n \in Msg : /\ n.type = IF Head(Dl).type = "IcsReq" THEN "IcsRsp" ELSE "HoAck"
                           /\ Ul' = Append(Ul, n)
      BY <2>6 DEF EnbAllocates
    <3>2. n.type # "AuthRsp"  BY <3>1
    <3>3. QED  BY <2>3, <3>1, <3>2
  <2>7. CASE EnbCompletes
    <3>1. PICK n \in Msg : n.type = "AttachCmpl" /\ Ul' = Append(Ul, n)
      BY <2>7 DEF EnbCompletes
    <3>2. n.type # "AuthRsp"  BY <3>1
    <3>3. QED  BY <2>3, <3>1, <3>2
  <2>8. QED  BY <2>4, <2>5, <2>6, <2>7, QuietKinds
<1>6. ASSUME NEW m \in Elems(Dl'), NEW n \in Elems(Ul'), m.type = "AuthReq", n.type = "AuthRsp"
      PROVE  m.mme # n.mme
  <2>1. m \in Elems(Dl) \/ (MmeChallenges /\ m.mme = mme.id)
    <3>1. CASE DlQuiet
      <4>1. CASE Dl' = Dl  BY <4>1
      <4>2. CASE Dl # << >> /\ Dl' = Tail(Dl)  BY <1>1, <4>2, ElemsTail
      <4>3. CASE \E p \in Msg : p.type \notin {"AuthReq", "IcsReq"} /\ Dl' = Append(Dl, p)
        BY <1>1, <1>6, <4>3, ElemsAppend
      <4>4. QED  BY <3>1, <4>1, <4>2, <4>3 DEF DlQuiet
    <3>2. CASE MmeChallenges
      <4>1. CASE Dl' = Dl  BY <4>1
      <4>2. CASE \E p \in Msg : p.type = "AuthReq" /\ p.mme = mme.id /\ Dl' = Append(Dl, p)
        BY <1>1, <3>2, <4>2, ElemsAppend
      <4>3. QED  BY <3>2, <4>1, <4>2 DEF MmeChallenges
    <3>3. CASE MmeBinds
      <4>1. PICK p \in Msg : p.type = "IcsReq" /\ Dl' = Append(Dl, p)  BY <3>3 DEF MmeBinds
      <4>2. QED  BY <1>1, <1>6, <4>1, ElemsAppend
    <3>4. QED  BY <3>1, <3>2, <3>3, QuietKinds
  <2>2. n \in Elems(Ul) \/ (EnbResponds /\ n.mme = Head(Dl).mme)
    <3>1. CASE UlQuiet
      <4>1. CASE Ul' = Ul  BY <4>1
      <4>2. CASE Ul # << >> /\ Ul' = Tail(Ul)  BY <1>1, <4>2, ElemsTail
      <4>3. CASE \E p \in Msg : /\ p.type \notin {"AuthRsp", "AttachCmpl", "IcsRsp", "HoAck"}
                                /\ Ul' = Append(Ul, p)
        BY <1>1, <1>6, <4>3, ElemsAppend
      <4>4. QED  BY <3>1, <4>1, <4>2, <4>3 DEF UlQuiet
    <3>2. CASE EnbResponds
      <4>1. PICK p \in Msg : p.mme = Head(Dl).mme /\ Ul' = Append(Ul, p)
        BY <3>2 DEF EnbResponds
      <4>2. Elems(Ul') = Elems(Ul) \cup {p}  BY <1>1, <4>1, ElemsAppend
      <4>3. QED  BY <3>2, <4>1, <4>2
    <3>3. CASE EnbAllocates
      <4>1. PICK p \in Msg : /\ p.type = IF Head(Dl).type = "IcsReq" THEN "IcsRsp" ELSE "HoAck"
                             /\ Ul' = Append(Ul, p)
        BY <3>3 DEF EnbAllocates
      <4>2. Elems(Ul') = Elems(Ul) \cup {p} /\ p.type # "AuthRsp"
        BY <1>1, <4>1, ElemsAppend
      <4>3. QED  BY <1>6, <4>2
    <3>4. CASE EnbCompletes
      <4>1. PICK p \in Msg : p.type = "AttachCmpl" /\ Ul' = Append(Ul, p)
        BY <3>4 DEF EnbCompletes
      <4>2. QED  BY <1>1, <1>6, <4>1, ElemsAppend
    <3>5. QED  BY <3>1, <3>2, <3>3, <3>4, QuietKinds
  <2>3. CASE m \in Elems(Dl) /\ n \in Elems(Ul)  BY <1>6, <2>3 DEF AttachInv, AuthOnce
  <2>4. CASE MmeChallenges /\ m.mme = mme.id
    <3>1. n \in Elems(Ul)  BY <2>4 DEF MmeChallenges
    <3>2. QED  BY <1>3, <1>6, <2>4, <3>1
  <2>5. CASE m \in Elems(Dl) /\ EnbResponds /\ n.mme = Head(Dl).mme
    <3>1. Dl # << >> /\ Dl' = Tail(Dl) /\ Head(Dl).type = "AuthReq"  BY <2>5 DEF EnbResponds
    <3>2. QED  BY <1>1, <1>2, <1>6, <2>5, <3>1, OnceHead
  <2>6. QED  BY <2>1, <2>2, <2>3, <2>4, <2>5
<1>7. QED  BY <1>4, <1>5, <1>6 DEF AuthOnce
----------------------------------------------------------------------------
(* The attach procedure's invariant, for any interleaving of any number of *)
(* attaches and handovers, with time-outs and drops.                       *)
THEOREM AttachInvariant == Spec => [](VectorInv /\ AttachInv)
<1>1. Init => VectorInv /\ AttachInv
  <2> SUFFICES ASSUME Init PROVE VectorInv /\ AttachInv
    OBVIOUS
  <2>1. /\ Ul = << >> /\ Dl = << >> /\ chan["s6aAns"] = << >> /\ pendingAuth = {}
        /\ ue = << >> /\ mme.pc = "idle" /\ rxPending.type = "None"
    BY DEF Init, EnbInit, MmeInit, Ul, Dl, Channel, Blank, MmeIdle
  <2>2. \A i : i \notin DOMAIN << >>  OBVIOUS
  <2>3. Elems(<< >>) = {}  BY <2>2 DEF Elems
  <2>4. VectorInv  BY <2>1, <2>3 DEF VectorInv
  <2>5. ContextInv /\ CallInv  BY <2>1 DEF ContextInv, CallInv
  <2>6. DlInv /\ UlInv /\ RxInv /\ OrderInv
    BY <2>1, <2>3 DEF DlInv, UlInv, RxInv, OrderInv
  <2>7. AuthOnce  BY <2>1, <2>3 DEF AuthOnce, OnceIn
  <2>8. QED  BY <2>4, <2>5, <2>6, <2>7 DEF AttachInv
<1>2. TypeOK /\ IdsInv /\ VectorInv /\ AttachInv /\ [Next]_vars => (VectorInv /\ AttachInv)'
  <2> SUFFICES ASSUME TypeOK, IdsInv, VectorInv, AttachInv, [Next]_vars
               PROVE  VectorInv' /\ AttachInv'
    OBVIOUS
  <2>1. StepKind  BY StepKinds
  <2>2. VectorInv'  BY VectorStep
  <2>3. ContextInv' /\ CallInv' /\ DlInv'  BY <2>1, ContextStep, CallStep, DlStep
  <2>4. UlInv' /\ RxInv' /\ OrderInv' /\ AuthOnce'
    BY <2>1, UlStep, RxStep, OrderStep, AuthOnceStep
  <2>5. QED  BY <2>2, <2>3, <2>4 DEF AttachInv
<1>3. QED  BY <1>1, <1>2, TypeCorrect, NumberingInvariant, PTL DEF Spec

(* A REGISTERED UE has answered the challenge of its own vector and has one *)
(* default bearer with an address and an eNB tunnel, although               *)
(* handleULNasTransport sets REGISTERED without looking at the context.     *)
THEOREM RegisteredAlwaysServed == Spec => []RegisteredIsServed
<1>1. IdsInv /\ AttachInv => RegisteredIsServed
  <2> SUFFICES ASSUME IdsInv, AttachInv, NEW k \in DOMAIN ue, ue[k].emm = "REGISTERED"
               PROVE  /\ ue[k].auth = GenerateAuthVectors(ue[k].imsi)
                      /\ Len(ue[k].bearers) = 1
                      /\ ue[k].bearers[1].ip # 0
                      /\ ue[k].bearers[1].teid # 0
    BY DEF RegisteredIsServed
  <2>1. Bound(k) /\ Tunnelled(k)  BY DEF AttachInv, ContextInv, ContextOK
  <2>2. ue[k].imsi = k  BY DEF IdsInv
  <2>3. QED  BY <2>1, <2>2 DEF Bound, Challenged, Tunnelled
<1>2. QED  BY <1>1, AttachInvariant, NumberingInvariant, PTL

(* A step never moves a UE back in the attach procedure and never drops or  *)
(* replaces a context, although every handler sets emm_state outright.      *)
THEOREM EmmAlwaysForward == Spec => EmmForward
<1> DEFINE Step == /\ Len(ue) <= Len(ue')
                   /\ \A k \in DOMAIN ue : EmmRank[ue[k].emm] <= EmmRank[ue'[k].emm]
<1>1. TypeOK /\ TypeOK' /\ IdsInv /\ VectorInv /\ AttachInv /\ [Next]_vars => [Step]_ue
  <2> SUFFICES ASSUME TypeOK, TypeOK', IdsInv, VectorInv, AttachInv, [Next]_vars
               PROVE  Step \/ UNCHANGED ue
    OBVIOUS
  <2>1. StepKind /\ ue \in Seq(Context)  BY StepKinds, S1Facts
  <2>2. /\ EmmRank["REGISTERED_INITIATED"] = 0 /\ EmmRank["AUTH_PENDING"] = 1
        /\ EmmRank["SESSION_PENDING"] = 2 /\ EmmRank["REGISTERED"] = 3
    BY DEF EmmRank, EmmState
  <2>3. \A k \in DOMAIN ue : ue[k].emm \in EmmState
    <3>1. \A k \in DOMAIN ue : ue[k] \in Context  BY <2>1
    <3>2. QED  BY <3>1 DEF Context
  <2>4. \A s \in EmmState : EmmRank[s] \in Nat  BY <2>2 DEF EmmState
  <2>5. ASSUME NEW k \in DOMAIN ue, Len(ue') = Len(ue),
               \A j \in DOMAIN ue : j # k => ue'[j] = ue[j],
               EmmRank[ue[k].emm] <= EmmRank[ue'[k].emm]
        PROVE  Step
    <3>1. \A j \in DOMAIN ue : j # k => EmmRank[ue[j].emm] <= EmmRank[ue'[j].emm]
      BY <2>3, <2>4, <2>5
    <3>2. Len(ue) <= Len(ue')  BY <2>1, <2>5
    <3>3. QED  BY <2>5, <3>1, <3>2
  <2>6. ASSUME DOMAIN ue' = DOMAIN ue PROVE Len(ue') = Len(ue)
    <3>1. ue' \in Seq(Context)  BY DEF TypeOK
    <3>2. Len(ue) \in Nat /\ Len(ue') \in Nat /\ DOMAIN ue = 1 .. Len(ue)
          /\ DOMAIN ue' = 1 .. Len(ue')
      BY <2>1, <3>1
    <3>3. \A m, n \in Nat : 1 .. m = 1 .. n => m = n
      <4> SUFFICES ASSUME NEW m \in Nat, NEW n \in Nat, 1 .. m = 1 .. n, m # n PROVE FALSE
        OBVIOUS
      <4>1. CASE m < n  BY <4>1
      <4>2. CASE n < m  BY <4>2
      <4>3. QED  BY <4>1, <4>2
    <3>4. QED  BY <2>6, <3>2, <3>3
  <2>7. CASE MmeInserts
    <3>1. PICK c : ue' = Append(ue, c)  BY <2>7 DEF MmeInserts
    <3>2. Len(ue') = Len(ue) + 1 /\ Len(ue) \in Nat  BY <2>1, <3>1
    <3>3. \A j \in DOMAIN ue : ue'[j] = ue[j]  BY <2>1, <3>1, InsertEffect
    <3>4. QED  BY <2>3, <2>4, <3>2, <3>3
  <2>8. CASE MmeChallenges
    <3>1. mme.id \in DOMAIN ue /\ ue[mme.id].emm = "REGISTERED_INITIATED"
      BY <2>8 DEF MmeChallenges, AttachInv, CallInv, Known
    <3>2. PICK av : ue' = [ue EXCEPT ![mme.id] = [@ EXCEPT !.auth = av, !.emm = "AUTH_PENDING"]]
      BY <2>8, <3>1 DEF MmeChallenges, Known
    <3>3. /\ DOMAIN ue' = DOMAIN ue /\ \A j \in DOMAIN ue : j # mme.id => ue'[j] = ue[j]
          /\ ue'[mme.id].emm = "AUTH_PENDING" /\ ue'[mme.id].auth = av
          /\ ue'[mme.id].bearers = ue[mme.id].bearers
      BY <2>1, <3>1, <3>2, AuthEffect
    <3>4. EmmRank[ue[mme.id].emm] <= EmmRank[ue'[mme.id].emm]  BY <2>2, <3>1, <3>3
    <3>5. QED  BY <2>5, <2>6, <3>1, <3>3, <3>4
  <2>9. CASE MmeAuthenticates
    <3> DEFINE h == Head(Ul)
    <3>1. AwaitsAuth(h.mme)  BY <2>9, HeadFacts DEF MmeAuthenticates
    <3>2. h.mme \in DOMAIN ue /\ ue[h.mme].emm = "AUTH_PENDING"
      BY <3>1 DEF AwaitsAuth, Known
    <3>3. /\ DOMAIN ue' = DOMAIN ue /\ \A j \in DOMAIN ue : j # h.mme => ue'[j] = ue[j]
          /\ ue'[h.mme].emm = "SESSION_PENDING"
      BY <2>1, <2>9, <3>2, EmmEffect DEF MmeAuthenticates
    <3> HIDE DEF h
    <3>4. EmmRank[ue[h.mme].emm] <= EmmRank[ue'[h.mme].emm]  BY <2>2, <3>2, <3>3
    <3>5. QED  BY <2>5, <2>6, <3>2, <3>3, <3>4
  <2>10. CASE MmeBinds
    <3>1. mme.id \in DOMAIN ue  BY <2>10 DEF MmeBinds, Known
    <3>2. PICK b \in Bearer : ue' = [ue EXCEPT ![mme.id].bearers = Append(@, b)]
      BY <2>10 DEF MmeBinds
    <3>3. /\ DOMAIN ue' = DOMAIN ue /\ \A j \in DOMAIN ue : j # mme.id => ue'[j] = ue[j]
          /\ ue'[mme.id].emm = ue[mme.id].emm
      BY <2>1, <3>1, <3>2, BindEffect
    <3>4. EmmRank[ue[mme.id].emm] <= EmmRank[ue'[mme.id].emm]  BY <2>3, <2>4, <3>1, <3>3
    <3>5. QED  BY <2>5, <2>6, <3>1, <3>3, <3>4
  <2>11. CASE MmeRegisters
    <3> DEFINE h == Head(Ul)
    <3>1. Bound(h.mme)  BY <2>11, HeadFacts DEF MmeRegisters
    <3>2. h.mme \in DOMAIN ue /\ ue[h.mme].emm \in {"SESSION_PENDING", "REGISTERED"}
      BY <3>1 DEF Bound, Known
    <3>3. /\ DOMAIN ue' = DOMAIN ue /\ \A j \in DOMAIN ue : j # h.mme => ue'[j] = ue[j]
          /\ ue'[h.mme].emm = "REGISTERED"
      BY <2>1, <2>11, <3>2, EmmEffect DEF MmeRegisters, Known
    <3> HIDE DEF h
    <3>4. EmmRank[ue[h.mme].emm] <= EmmRank[ue'[h.mme].emm]  BY <2>2, <3>2, <3>3
    <3>5. QED  BY <2>5, <2>6, <3>2, <3>3, <3>4
  <2>12. CASE MmeStores
    <3> DEFINE h == Head(Ul)
    <3>1. StoreEnbTeid(h.mme, h.val)  BY <2>12 DEF MmeStores
    <3> HIDE DEF h
    <3>2. CASE ~HasBearer(h.mme)  BY <3>1, <3>2 DEF StoreEnbTeid
    <3>3. CASE HasBearer(h.mme)
      <4>1. h.mme \in DOMAIN ue  BY <3>3 DEF HasBearer, Known
      <4>2. /\ DOMAIN ue' = DOMAIN ue /\ \A j \in DOMAIN ue : j # h.mme => ue'[j] = ue[j]
            /\ ue'[h.mme].emm = ue[h.mme].emm
        BY <2>1, <3>1, <3>3, StoreEffect
      <4>3. EmmRank[ue[h.mme].emm] <= EmmRank[ue'[h.mme].emm]  BY <2>3, <2>4, <4>1, <4>2
      <4>4. QED  BY <2>5, <2>6, <4>1, <4>2, <4>3
    <3>4. QED  BY <3>2, <3>3
  <2>13. QED
    BY <2>1, <2>7, <2>8, <2>9, <2>10, <2>11, <2>12, QuietKinds
<1>2. QED  BY <1>1, TypeCorrect, NumberingInvariant, AttachInvariant, PTL DEF Spec, EmmForward
----------------------------------------------------------------------------
(* A TEID on its way to the MME, or in a context, was allocated for that UE. *)
THEOREM TeidInvariant == Spec => []TeidInv
<1>1. Init => TeidInv
  <2> SUFFICES ASSUME Init PROVE TeidInv
    OBVIOUS
  <2>1. Ul = << >> /\ ue = << >>  BY DEF Init, MmeInit, Ul, Channel
  <2>2. \A i : i \notin DOMAIN << >>  OBVIOUS
  <2>3. Elems(<< >>) = {}  BY <2>2 DEF Elems
  <2>4. QED  BY <2>1, <2>2, <2>3 DEF TeidInv
<1>2. TypeOK /\ IdsInv /\ TeidInv /\ [Next]_vars => TeidInv'
  BY StepKinds, TeidStep
<1>3. QED  BY <1>1, <1>2, TypeCorrect, NumberingInvariant, PTL DEF Spec

(* The MME never stores for a UE an eNB TEID the eNB gave to another UE,    *)
(* although Context Setup and handovers of several UEs interleave.          *)
THEOREM StoredTeidAlwaysOwned == Spec => []StoredTeidOwned
<1>1. IdsInv /\ TeidInv => StoredTeidOwned
  <2> SUFFICES ASSUME IdsInv, TeidInv, NEW k \in Served, ue[k].bearers[1].teid # 0
               PROVE  GivenTo(ue[k].bearers[1].teid, ue[k].enb)
    BY DEF StoredTeidOwned
  <2>1. k \in DOMAIN ue /\ ue[k].bearers # << >>  BY DEF Served, HasBearer, Known
  <2>2. ue[k].enb = k  BY <2>1 DEF IdsInv
  <2>3. QED  BY <2>1, <2>2 DEF TeidInv, StoredOwn
<1>2. QED  BY <1>1, TeidInvariant, NumberingInvariant, PTL
----------------------------------------------------------------------------
(* A context with a bearer had it already, or gets it in this step. *)
LEMMA BearerEffect ==
  ASSUME TypeOK, AttachInv, StepKind, NEW k, HasBearer(k)'
  PROVE  \/ HasBearer(k) /\ ue'[k].bearers[1] = ue[k].bearers[1]
              /\ (MmeStores => k # Head(Ul).mme)
         \/ /\ HasBearer(k) /\ MmeStores /\ k = Head(Ul).mme
            /\ ue'[k].bearers[1].ip = ue[k].bearers[1].ip
            /\ ue'[k].bearers[1].s1u = ue[k].bearers[1].s1u
            /\ ue'[k].bearers[1].teid = Head(Ul).val
         \/ /\ ~HasBearer(k) /\ MmeBinds /\ k = mme.id /\ ue'[k].bearers[1].teid = 0
            /\ ue'[k].bearers[1].ip = Head(chan["s11Rsp"]).ip
            /\ ue'[k].bearers[1].s1u = Head(chan["s11Rsp"]).val
<1>1. ue \in Seq(Context) /\ k \in DOMAIN ue' /\ ue'[k].bearers # << >>
  BY S1Facts DEF HasBearer, Known
<1>2. ASSUME k \in DOMAIN ue, ue'[k].bearers = ue[k].bearers
      PROVE  HasBearer(k) /\ ue'[k].bearers[1] = ue[k].bearers[1]
  BY <1>1, <1>2 DEF HasBearer, Known
<1>3. CASE MmeStores
  <2>1. StoreEnbTeid(Head(Ul).mme, Head(Ul).val)  BY <1>3 DEF MmeStores
  <2>2. CASE k = Head(Ul).mme /\ HasBearer(k)  BY <1>1, <1>3, <2>1, <2>2, StoreEffect
  <2>3. CASE k # Head(Ul).mme \/ ~HasBearer(Head(Ul).mme)
    <3>1. DOMAIN ue' = DOMAIN ue /\ ue'[k] = ue[k]
      BY <1>1, <2>1, <2>3, StoreEffect
    <3>2. HasBearer(k) /\ ue'[k].bearers[1] = ue[k].bearers[1]  BY <1>1, <1>2, <3>1
    <3>3. QED  BY <2>3, <3>2
  <2>4. QED  BY <2>2, <2>3
<1>4. CASE MmeBinds
  <2>1. mme.id \in DOMAIN ue /\ ue[mme.id].bearers = << >>
    BY <1>4 DEF MmeBinds, AttachInv, CallInv, Known
  <2>2. PICK b \in Bearer : /\ b.teid = 0 /\ b.ip = Head(chan["s11Rsp"]).ip
                            /\ b.s1u = Head(chan["s11Rsp"]).val
                            /\ ue' = [ue EXCEPT ![mme.id].bearers = Append(@, b)]
    BY <1>4 DEF MmeBinds
  <2>3. /\ DOMAIN ue' = DOMAIN ue /\ \A j \in DOMAIN ue : j # mme.id => ue'[j] = ue[j]
        /\ ue'[mme.id].bearers[1] = b
    BY <1>1, <2>1, <2>2, BindEffect
  <2>4. CASE k = mme.id  BY <1>4, <2>1, <2>2, <2>3, <2>4 DEF HasBearer
  <2>5. CASE k # mme.id
    <3>1. HasBearer(k) /\ ue'[k].bearers[1] = ue[k].bearers[1]  BY <1>1, <1>2, <2>3, <2>5
    <3>2. ~MmeStores
      BY <1>4 DEF MmeBinds, MmeStores
    <3>3. QED  BY <3>1, <3>2
  <2>6. QED  BY <2>4, <2>5
<1>5. CASE ~MmeStores /\ ~MmeBinds
  <2>1. CASE UNCHANGED ue  BY <1>1, <1>2, <1>5, <2>1
  <2>2. CASE MmeInserts
    <3> DEFINE c == NewContext(Len(ue) + 1, Len(ue) + 1)
    <3>1. c.bearers = << >>  BY DEF NewContext
    <3>2. ue' = Append(ue, c)  BY <2>2 DEF MmeInserts
    <3> HIDE DEF c
    <3>3. k \in DOMAIN ue \/ k = Len(ue) + 1  BY <1>1, <3>2, InsertEffect
    <3>4. k # Len(ue) + 1  BY <1>1, <3>1, <3>2, InsertEffect
    <3>5. k \in DOMAIN ue /\ ue'[k] = ue[k]  BY <1>1, <3>2, <3>3, <3>4, InsertEffect
    <3>6. QED  BY <1>2, <1>5, <3>5
  <2>3. CASE MmeChallenges
    <3>1. mme.id \in DOMAIN ue  BY <2>3 DEF MmeChallenges, AttachInv, CallInv, Known
    <3>2. PICK av : ue' = [ue EXCEPT ![mme.id] = [@ EXCEPT !.auth = av, !.emm = "AUTH_PENDING"]]
      BY <2>3, <3>1 DEF MmeChallenges, Known
    <3>3. k \in DOMAIN ue /\ ue'[k].bearers = ue[k].bearers
      BY <1>1, <3>1, <3>2, AuthEffect
    <3>4. QED  BY <1>2, <1>5, <3>3
  <2>4. CASE MmeAuthenticates
    <3>1. k \in DOMAIN ue /\ ue'[k].bearers = ue[k].bearers
      BY <1>1, <2>4, EmmEffect DEF MmeAuthenticates, Known
    <3>2. QED  BY <1>2, <1>5, <3>1
  <2>5. CASE MmeRegisters
    <3>1. CASE Known(Head(Ul).mme)
      <4>1. k \in DOMAIN ue /\ ue'[k].bearers = ue[k].bearers
        BY <1>1, <2>5, <3>1, EmmEffect DEF MmeRegisters, Known
      <4>2. QED  BY <1>2, <1>5, <4>1
    <3>2. CASE ~Known(Head(Ul).mme)  BY <2>1, <2>5, <3>2 DEF MmeRegisters
    <3>3. QED  BY <3>1, <3>2
  <2>6. QED  BY <1>5, <2>1, <2>2, <2>3, <2>4, <2>5, QuietKinds
<1>6. QED  BY <1>3, <1>4, <1>5

(* A bearer is bound to a context for good. *)
LEMMA BearerKept ==
  ASSUME TypeOK, AttachInv, NEW k, HasBearer(k)
  PROVE  /\ Bound(k)
         /\ StepKind => HasBearer(k)'
<1>1. ue \in Seq(Context) /\ k \in DOMAIN ue /\ ue[k].bearers # << >>
  BY S1Facts DEF HasBearer, Known
<1>2. ue[k] \in Context  BY <1>1
<1>3. ue[k].emm \in EmmState  BY <1>2 DEF Context
<1>4. ContextOK(k)  BY <1>1 DEF AttachInv, ContextInv
<1>5. Bound(k)  BY <1>1, <1>3, <1>4 DEF ContextOK, EmmState
<1>6. StepKind => HasBearer(k)'  BY <1>5, BoundKept DEF Bound, HasBearer, Known
<1>7. QED  BY <1>5, <1>6
----------------------------------------------------------------------------
(***************************************************************************)
(* The last tunnel: the TEIDs on their way are in the order the eNB        *)
(* allocated them and newer than the stored one, and no TEID the eNB       *)
(* allocated for a UE is ahead of what is stored, on its way or about to   *)
(* be replaced by the Context Setup.                                       *)
(***************************************************************************)
Stored(k) == ue[k].bearers[1].teid

Rising(q) ==
  \A i, j \in DOMAIN q : i < j /\ TeidMsg(q[i]) /\ TeidMsg(q[j]) => q[i].val < q[j].val

Newer(m) == TeidMsg(m) /\ HasBearer(m.mme) => Stored(m.mme) < m.val

SetupDue(k) == \E m \in Elems(Dl) : m.type = "IcsReq" /\ m.mme = k
Underway(k, t) == \E m \in Elems(Ul) : TeidMsg(m) /\ m.mme = k /\ t <= m.val

Reported(k, t) == ~HasBearer(k) \/ SetupDue(k) \/ Underway(k, t) \/ t <= Stored(k)

LatestInv ==
  /\ Rising(Ul)
  /\ \A m \in Elems(Ul) : Newer(m)
  /\ \A i \in DOMAIN enbTeids : Reported(enbTeids[i], FirstEnbTeid + i - 1)

(* The rest of a rising queue rises, and is newer than its head. *)
LEMMA RisingTail ==
  ASSUME NEW q \in Seq(Msg), q # << >>, Rising(q)
  PROVE  /\ Rising(Tail(q))
         /\ \A m \in Elems(Tail(q)) : TeidMsg(Head(q)) /\ TeidMsg(m) => Head(q).val < m.val
<1> DEFINE r == Tail(q)
<1>1. DOMAIN r = 1 .. Len(q) - 1 /\ \A i \in DOMAIN r : r[i] = q[i + 1] /\ i + 1 \in DOMAIN q
      /\ Len(q) \in Nat /\ Head(q) = q[1] /\ 1 \in DOMAIN q
  BY ElemsTail
<1> HIDE DEF r
<1>2. ASSUME NEW i \in DOMAIN r, NEW j \in DOMAIN r, i < j PROVE i + 1 < j + 1
  BY <1>1, <1>2
<1>3. Rising(r)  BY <1>1, <1>2 DEF Rising
<1>4. ASSUME NEW i \in DOMAIN r, TeidMsg(q[1]), TeidMsg(r[i]) PROVE q[1].val < r[i].val
  <2>1. 1 < i + 1  BY <1>1
  <2>2. QED  BY <1>1, <1>4, <2>1 DEF Rising
<1>5. \A m \in Elems(r) : TeidMsg(Head(q)) /\ TeidMsg(m) => Head(q).val < m.val
  BY <1>1, <1>4 DEF Elems
<1>6. QED  BY <1>3, <1>5 DEF r

(* A queue rises on when a newer TEID, or none, is appended. *)
LEMMA RisingAppend ==
  ASSUME NEW q \in Seq(Msg), NEW m \in Msg, Rising(q),
         TeidMsg(m) => \A n \in Elems(q) : TeidMsg(n) => n.val < m.val
  PROVE  Rising(Append(q, m))
<1> DEFINE r == Append(q, m)
<1>1. /\ DOMAIN r = 1 .. Len(q) + 1 /\ Len(q) \in Nat /\ DOMAIN q = 1 .. Len(q)
      /\ \A i \in DOMAIN q : r[i] = q[i]
      /\ r[Len(q) + 1] = m
  BY ElemsAppend
<1>2. \A i \in DOMAIN q : r[i] \in Elems(q)  BY <1>1 DEF Elems
<1> HIDE DEF r
<1>3. ASSUME NEW i \in DOMAIN r, NEW j \in DOMAIN r, i < j, TeidMsg(r[i]), TeidMsg(r[j])
      PROVE  r[i].val < r[j].val
  <2>1. i \in DOMAIN q  BY <1>1, <1>3
  <2>2. j \in DOMAIN q \/ j = Len(q) + 1  BY <1>1
  <2>3. CASE j \in DOMAIN q  BY <1>1, <1>3, <2>1, <2>3 DEF Rising
  <2>4. CASE j = Len(q) + 1  BY <1>1, <1>2, <1>3, <2>1, <2>4
  <2>5. QED  BY <2>2, <2>3, <2>4
<1>4. Rising(r)  BY <1>3 DEF Rising
<1>5. QED  BY <1>4 DEF r

(* The next TEID is newer than any the eNB has allocated. *)
LEMMA NextIsNewer ==
  ASSUME TypeOK
  PROVE  /\ NextEnbTeid \in Nat \ {0}
         /\ \A t \in Nat : \A k : GivenTo(t, k) => t < NextEnbTeid
         /\ \A i \in DOMAIN enbTeids : FirstEnbTeid + i - 1 < NextEnbTeid
<1>1. enbTeids \in Seq(Nat)  BY S1Facts
<1>2. Len(enbTeids) \in Nat /\ DOMAIN enbTeids = 1 .. Len(enbTeids)  BY <1>1
<1>3. NextEnbTeid \in Nat \ {0}  BY <1>2 DEF NextEnbTeid, FirstEnbTeid
<1>4. ASSUME NEW t \in Nat, NEW k, GivenTo(t, k) PROVE t < NextEnbTeid
  <2>1. PICK i \in DOMAIN enbTeids : t + 1 = FirstEnbTeid + i  BY <1>4 DEF GivenTo
  <2>2. QED  BY <1>2, <2>1 DEF NextEnbTeid, FirstEnbTeid
<1>5. \A i \in DOMAIN enbTeids : FirstEnbTeid + i - 1 < NextEnbTeid
  BY <1>2 DEF NextEnbTeid, FirstEnbTeid
<1>6. QED  BY <1>3, <1>4, <1>5

(* A TEID on its way was on its way before, or the eNB has just allocated it. *)
LEMMA UlNew ==
  ASSUME TypeOK, StepKind
  PROVE  \A m \in Elems(Ul') : \/ m \in Elems(Ul)
                               \/ ~TeidMsg(m)
                               \/ EnbAllocates /\ m.val = NextEnbTeid
<1> USE DEF TeidMsg
<1>1. Ul \in Seq(Msg)  BY S1Facts
<1>2. \A n \in Msg : Elems(Append(Ul, n)) = Elems(Ul) \cup {n}  BY <1>1, ElemsAppend
<1>3. Ul # << >> => Elems(Tail(Ul)) \subseteq Elems(Ul)  BY <1>1, ElemsTail
<1>4. CASE UlQuiet  BY <1>2, <1>3, <1>4 DEF UlQuiet
<1>5. CASE EnbResponds  BY <1>2, <1>5 DEF EnbResponds
<1>6. CASE EnbAllocates
  <2>1. PICK n \in Msg : n.val = NextEnbTeid /\ Ul' = Append(Ul, n)
    BY <1>6 DEF EnbAllocates
  <2>2. QED  BY <1>2, <1>6, <2>1
<1>7. CASE EnbCompletes  BY <1>2, <1>7 DEF EnbCompletes
<1>8. QED  BY <1>4, <1>5, <1>6, <1>7, QuietKinds

(* A TEID leaves the uplink when the MME stores it. *)
LEMMA UlTaken ==
  ASSUME TypeOK, StepKind, NEW m \in Elems(Ul), TeidMsg(m)
  PROVE  m \in Elems(Ul') \/ (MmeStores /\ m = Head(Ul))
<1> USE DEF TeidMsg
<1>1. Ul \in Seq(Msg)  BY S1Facts
<1>2. \A n \in Msg : m \in Elems(Append(Ul, n))  BY <1>1, ElemsAppend
<1>3. Ul # << >> /\ m # Head(Ul) => m \in Elems(Tail(Ul))  BY <1>1, ElemsTail
<1>4. CASE EnbSends  BY <1>2, <1>4 DEF EnbSends
<1>5. CASE EnbAnswers  BY <1>2, <1>5 DEF EnbAnswers
<1>6. CASE EnbResponds  BY <1>2, <1>6 DEF EnbResponds
<1>7. CASE EnbAllocates  BY <1>2, <1>7 DEF EnbAllocates
<1>8. CASE EnbCompletes  BY <1>2, <1>8 DEF EnbCompletes
<1>9. CASE Elsewhere  BY <1>9 DEF Elsewhere
<1>10. CASE MmeReads  BY <1>3, <1>10 DEF MmeReads
<1>11. CASE MmeInserts  BY <1>3, <1>11 DEF MmeInserts
<1>12. CASE MmeChallenges  BY <1>12 DEF MmeChallenges
<1>13. CASE MmeAuthenticates  BY <1>3, <1>13 DEF MmeAuthenticates
<1>14. CASE MmeBinds  BY <1>14 DEF MmeBinds
<1>15. CASE MmeRegisters  BY <1>3, <1>15 DEF MmeRegisters
<1>16. CASE MmeStores  BY <1>3, <1>16 DEF MmeStores
<1>17. QED
  BY <1>4, <1>5, <1>6, <1>7, <1>8, <1>9, <1>10, <1>11, <1>12, <1>13, <1>14, <1>15, <1>16
     DEF StepKind

(* A Context Setup Request leaves the downlink when the eNB allocates for it. *)
LEMMA SetupTaken ==
  ASSUME TypeOK, StepKind, NEW m \in Elems(Dl), m.type = "IcsReq"
  PROVE  m \in Elems(Dl') \/ (EnbAllocates /\ m = Head(Dl))
<1>1. Dl \in Seq(Msg)  BY S1Facts
<1>2. \A n \in Msg : m \in Elems(Append(Dl, n))  BY <1>1, ElemsAppend
<1>3. Dl # << >> /\ m # Head(Dl) => m \in Elems(Tail(Dl))  BY <1>1, ElemsTail
<1>4. CASE EnbSends  BY <1>4 DEF EnbSends
<1>5. CASE EnbAnswers  BY <1>3, <1>5 DEF EnbAnswers
<1>6. CASE EnbResponds  BY <1>3, <1>6 DEF EnbResponds
<1>7. CASE EnbAllocates  BY <1>3, <1>7 DEF EnbAllocates
<1>8. CASE EnbCompletes  BY <1>8 DEF EnbCompletes
<1>9. CASE Elsewhere  BY <1>2, <1>9 DEF Elsewhere
<1>10. CASE MmeReads  BY <1>2, <1>10 DEF MmeReads
<1>11. CASE MmeInserts  BY <1>11 DEF MmeInserts
<1>12. CASE MmeChallenges  BY <1>2, <1>12 DEF MmeChallenges
<1>13. CASE MmeAuthenticates  BY <1>2, <1>13 DEF MmeAuthenticates
<1>14. CASE MmeBinds  BY <1>2, <1>14 DEF MmeBinds
<1>15. CASE MmeRegisters  BY <1>15 DEF MmeRegisters
<1>16. CASE MmeStores  BY <1>2, <1>16 DEF MmeStores
<1>17. QED
  BY <1>4, <1>5, <1>6, <1>7, <1>8, <1>9, <1>10, <1>11, <1>12, <1>13, <1>14, <1>15, <1>16
     DEF StepKind

(* The eNB sends its TEIDs in the order it allocates them. *)
LEMMA RisingStep ==
  ASSUME TypeOK, TeidInv, LatestInv, StepKind
  PROVE  Rising(Ul')
<1> USE DEF TeidMsg
<1>1. Ul \in Seq(Msg) /\ Rising(Ul)  BY S1Facts DEF LatestInv
<1>2. ASSUME NEW n \in Msg, ~TeidMsg(n) PROVE Rising(Append(Ul, n))
  BY <1>1, <1>2, RisingAppend
<1>3. Ul # << >> => Rising(Tail(Ul))  BY <1>1, RisingTail
<1>4. CASE UlQuiet  BY <1>1, <1>2, <1>3, <1>4 DEF UlQuiet
<1>5. CASE EnbResponds  BY <1>2, <1>5 DEF EnbResponds
<1>6. CASE EnbAllocates
  <2>1. PICK n \in Msg : n.val = NextEnbTeid /\ Ul' = Append(Ul, n)
    BY <1>6 DEF EnbAllocates
  <2>2. ASSUME NEW m \in Elems(Ul), TeidMsg(m) PROVE m.val < n.val
    <3>1. GivenTo(m.val, m.mme) /\ m.val \in Nat  BY <2>2, S1Facts DEF TeidInv
    <3>2. QED  BY <2>1, <3>1, NextIsNewer
  <2>3. QED  BY <1>1, <2>1, <2>2, RisingAppend
<1>7. CASE EnbCompletes  BY <1>2, <1>7 DEF EnbCompletes
<1>8. QED  BY <1>4, <1>5, <1>6, <1>7, QuietKinds

(* A stored TEID is a number, older than the next one. *)
LEMMA StoredOlder ==
  ASSUME TypeOK, TeidInv, NEW k, HasBearer(k)
  PROVE  Stored(k) \in Nat /\ Stored(k) < NextEnbTeid
<1>1. ue \in Seq(Context) /\ k \in DOMAIN ue /\ ue[k].bearers # << >>
  BY S1Facts DEF HasBearer, Known
<1>2. ue[k] \in Context  BY <1>1
<1>3. ue[k].bearers \in Seq(Bearer)  BY <1>2 DEF Context
<1>4. ue[k].bearers[1] \in Bearer  BY <1>1, <1>3
<1>5. Stored(k) \in Nat  BY <1>4 DEF Bearer, Stored
<1>6. Stored(k) # 0 => GivenTo(Stored(k), k)  BY <1>1 DEF TeidInv, StoredOwn, Stored
<1>7. NextEnbTeid \in Nat \ {0} /\ (GivenTo(Stored(k), k) => Stored(k) < NextEnbTeid)
  BY <1>5, NextIsNewer
<1>8. QED  BY <1>5, <1>6, <1>7

(* What is on its way stays newer than what is stored. *)
LEMMA NewerStep ==
  ASSUME TypeOK, AttachInv, TeidInv, LatestInv, StepKind, NEW m \in Elems(Ul'), TeidMsg(m)
  PROVE  Newer(m)'
<1> SUFFICES ASSUME HasBearer(m.mme)' PROVE Stored(m.mme)' < m.val
  BY DEF Newer
<1> DEFINE k == m.mme
<1>1. Ul \in Seq(Msg) /\ Rising(Ul)  BY S1Facts DEF LatestInv
<1>2. CASE m \notin Elems(Ul)
  <2>1. EnbAllocates /\ m.val = NextEnbTeid  BY <1>2, UlNew
  <2>2. UNCHANGED ue  BY <2>1 DEF EnbAllocates
  <2>3. HasBearer(k) /\ Stored(k)' = Stored(k)  BY <2>2 DEF HasBearer, Known, Stored
  <2>4. QED  BY <2>1, <2>3, StoredOlder
<1>3. CASE m \in Elems(Ul)
  <2>1. m.val \in Nat /\ m.val # 0  BY <1>3, S1Facts DEF AttachInv, UlInv
  <2>2. CASE HasBearer(k) /\ ue'[k].bearers[1] = ue[k].bearers[1]
    <3>1. Stored(k)' = Stored(k)  BY <2>2 DEF Stored
    <3>2. Stored(k) < m.val  BY <1>3, <2>2 DEF LatestInv, Newer
    <3>3. QED  BY <3>1, <3>2
  <2>3. CASE MmeStores /\ k = Head(Ul).mme /\ ue'[k].bearers[1].teid = Head(Ul).val
    <3>1. Ul # << >> /\ Ul' = Tail(Ul) /\ TeidMsg(Head(Ul))  BY <2>3 DEF MmeStores
    <3>2. Head(Ul).val < m.val  BY <1>1, <3>1, RisingTail
    <3>3. Stored(k)' = Head(Ul).val  BY <2>3 DEF Stored
    <3>4. QED  BY <3>2, <3>3
  <2>4. CASE ue'[k].bearers[1].teid = 0
    <3>1. Stored(k)' = 0  BY <2>4 DEF Stored
    <3>2. QED  BY <2>1, <3>1
  <2> HIDE DEF k
  <2>5. HasBearer(k)'  BY DEF k
  <2>6. QED  BY <2>2, <2>3, <2>4, <2>5, BearerEffect DEF k
<1>4. QED  BY <1>2, <1>3

(* No allocated TEID is lost. *)
LEMMA ReportedStep ==
  ASSUME TypeOK, IdsInv, AttachInv, TeidInv, LatestInv, StepKind, NEW k, NEW t \in Nat,
         t < NextEnbTeid, Reported(k, t)
  PROVE  Reported(k, t)'
<1> SUFFICES ASSUME HasBearer(k)' PROVE SetupDue(k)' \/ Underway(k, t)' \/ t <= Stored(k)'
  BY DEF Reported
<1>1. Ul \in Seq(Msg) /\ Dl \in Seq(Msg)  BY S1Facts
<1>2. CASE ~HasBearer(k)
  <2>1. MmeBinds /\ k = mme.id  BY <1>2, BearerEffect
  <2>2. PICK n \in Msg : n.type = "IcsReq" /\ n.mme = k /\ Dl' = Append(Dl, n)
    BY <2>1 DEF MmeBinds
  <2>3. n \in Elems(Dl')  BY <1>1, <2>2, ElemsAppend
  <2>4. SetupDue(k)'  BY <2>2, <2>3 DEF SetupDue
  <2>5. QED  BY <2>4
<1>3. CASE SetupDue(k)
  <2>1. PICK m \in Elems(Dl) : m.type = "IcsReq" /\ m.mme = k  BY <1>3 DEF SetupDue
  <2>2. CASE m \in Elems(Dl')
    <3>1. SetupDue(k)'  BY <2>1, <2>2 DEF SetupDue
    <3>2. QED  BY <3>1
  <2>3. CASE EnbAllocates /\ m = Head(Dl)
    <3>1. PICK n \in Msg : /\ n.type = IF Head(Dl).type = "IcsReq" THEN "IcsRsp" ELSE "HoAck"
                           /\ n.mme = k /\ n.val = NextEnbTeid /\ Ul' = Append(Ul, n)
      BY <2>1, <2>3 DEF EnbAllocates
    <3>2. TeidMsg(n)  BY <3>1 DEF TeidMsg
    <3>3. n \in Elems(Ul')  BY <1>1, <3>1, ElemsAppend
    <3>4. t <= n.val  BY <3>1, NextIsNewer
    <3>5. Underway(k, t)'  BY <3>1, <3>2, <3>3, <3>4 DEF Underway
    <3>6. QED  BY <3>5
  <2>4. QED  BY <2>1, <2>2, <2>3, SetupTaken
<1>4. CASE HasBearer(k) /\ Underway(k, t)
  <2>1. PICK m \in Elems(Ul) : TeidMsg(m) /\ m.mme = k /\ t <= m.val  BY <1>4 DEF Underway
  <2>2. CASE m \in Elems(Ul')
    <3>1. Underway(k, t)'  BY <2>1, <2>2 DEF Underway
    <3>2. QED  BY <3>1
  <2>3. CASE MmeStores /\ m = Head(Ul)
    <3>1. ue'[k].bearers[1].teid = m.val  BY <1>4, <2>1, <2>3, BearerEffect
    <3>2. Stored(k)' = m.val  BY <3>1 DEF Stored
    <3>3. QED  BY <2>1, <3>2
  <2>4. QED  BY <2>1, <2>2, <2>3, UlTaken
<1>5. CASE HasBearer(k) /\ t <= Stored(k)
  <2>1. Stored(k) \in Nat  BY <1>5, StoredOlder
  <2>2. CASE ue'[k].bearers[1] = ue[k].bearers[1]
    <3>1. Stored(k)' = Stored(k)  BY <2>2 DEF Stored
    <3>2. QED  BY <1>5, <3>1
  <2>3. CASE MmeStores /\ k = Head(Ul).mme /\ ue'[k].bearers[1].teid = Head(Ul).val
    <3>1. Ul # << >> /\ TeidMsg(Head(Ul))  BY <2>3 DEF MmeStores
    <3>2. Head(Ul) \in Elems(Ul) /\ Head(Ul).val \in Nat  BY <3>1, HeadFacts
    <3>3. Stored(k) < Head(Ul).val  BY <1>5, <2>3, <3>1, <3>2 DEF LatestInv, Newer
    <3>4. Stored(k)' = Head(Ul).val  BY <2>3 DEF Stored
    <3>5. t <= Head(Ul).val  BY <1>5, <2>1, <3>2, <3>3
    <3>6. QED  BY <3>4, <3>5
  <2>4. QED  BY <1>5, <2>2, <2>3, BearerEffect
<1>6. QED  BY <1>2, <1>3, <1>4, <1>5 DEF Reported

(* The invariant survives every step. *)
LEMMA LatestStep ==
  ASSUME TypeOK, IdsInv, AttachInv, TeidInv, LatestInv, StepKind
  PROVE  LatestInv'
<1>1. Rising(Ul')  BY RisingStep
<1>2. \A m \in Elems(Ul') : Newer(m)'
  <2>1. ASSUME NEW m \in Elems(Ul') PROVE Newer(m)'
    <3>1. CASE TeidMsg(m)  BY <3>1, NewerStep
    <3>2. CASE ~TeidMsg(m)  BY <3>2 DEF Newer
    <3>3. QED  BY <3>1, <3>2
  <2>2. QED  BY <2>1
<1>3. ASSUME NEW i \in DOMAIN enbTeids' PROVE Reported(enbTeids[i], FirstEnbTeid + i - 1)'
  <2> DEFINE t == FirstEnbTeid + i - 1
  <2>1. enbTeids \in Seq(Nat) /\ Dl \in Seq(Msg) /\ Ul \in Seq(Msg)  BY S1Facts
  <2>2. CASE i \in DOMAIN enbTeids /\ enbTeids'[i] = enbTeids[i]
    <3>1. t \in Nat /\ t < NextEnbTeid
      <4>1. i \in Nat \ {0}  BY <2>1, <2>2
      <4>2. QED  BY <2>2, <4>1, NextIsNewer DEF FirstEnbTeid
    <3>2. Reported(enbTeids[i], t)  BY <2>2 DEF LatestInv
    <3> HIDE DEF t
    <3>3. PICK k : k = enbTeids[i]  OBVIOUS
    <3>4. Reported(k, t)'  BY <3>1, <3>2, <3>3, ReportedStep
    <3>5. QED
      BY <2>2, <3>3, <3>4 DEF t, Reported, HasBearer, Known, SetupDue, Underway, Stored
  <2>3. CASE EnbAllocates /\ i = Len(enbTeids) + 1
    <3>1. PICK n \in Msg : /\ n.type = IF Head(Dl).type = "IcsReq" THEN "IcsRsp" ELSE "HoAck"
                           /\ n.mme = Head(Dl).mme /\ n.val = NextEnbTeid /\ Ul' = Append(Ul, n)
      BY <2>3 DEF EnbAllocates
    <3>2. Head(Dl) \in Elems(Dl)  BY <2>1, <2>3, ElemsTail DEF EnbAllocates
    <3>3. Head(Dl).enb \in Nat /\ Head(Dl).mme = Head(Dl).enb  BY <3>2, S1Facts, SameIds
    <3>4. enbTeids'[i] = n.mme
      <4>1. enbTeids' = Append(enbTeids, Head(Dl).enb)  BY <2>3 DEF EnbAllocates
      <4>2. enbTeids'[i] = Head(Dl).enb  BY <2>1, <2>3, <3>3, <4>1
      <4>3. QED  BY <3>1, <3>3, <4>2
    <3>5. TeidMsg(n)  BY <3>1 DEF TeidMsg
    <3>6. n \in Elems(Ul')  BY <2>1, <3>1, ElemsAppend
    <3>7. t <= n.val
      <4>1. Len(enbTeids) \in Nat  BY <2>1
      <4>2. QED  BY <2>3, <3>1, <4>1 DEF NextEnbTeid, FirstEnbTeid
    <3> HIDE DEF t
    <3>8. Underway(n.mme, t)'  BY <3>5, <3>6, <3>7 DEF Underway
    <3>9. Reported(n.mme, t)'  BY <3>8 DEF Reported
    <3>10. QED  BY <3>4, <3>9 DEF t, Reported, HasBearer, Known, SetupDue, Underway, Stored
  <2>4. (i \in DOMAIN enbTeids /\ enbTeids'[i] = enbTeids[i])
          \/ (EnbAllocates /\ i = Len(enbTeids) + 1)
    <3>1. CASE enbTeids' = enbTeids  BY <3>1
    <3>2. CASE EnbAllocates
      <4>1. Head(Dl) \in Elems(Dl)  BY <2>1, <3>2, ElemsTail DEF EnbAllocates
      <4>2. Head(Dl).enb \in Nat  BY <4>1, S1Facts
      <4>3. enbTeids' = Append(enbTeids, Head(Dl).enb)  BY <3>2 DEF EnbAllocates
      <4>4. QED  BY <2>1, <3>2, <4>2, <4>3
    <3>3. QED
      BY <3>1, <3>2 DEF StepKind, EnbSends, EnbAnswers, EnbResponds, EnbCompletes, Elsewhere,
         MmeReads, MmeInserts, MmeChallenges, MmeAuthenticates, MmeBinds, MmeRegisters, MmeStores
  <2>5. QED  BY <2>2, <2>3, <2>4
<1>4. QED  BY <1>1, <1>2, <1>3 DEF LatestInv

(* When every procedure has ended, the TEID the MME holds for a UE is the  *)
(* last one the eNB allocated for it: a handover that overtakes the attach *)
(* of the same UE leaves no stale tunnel behind.                           *)
THEOREM LatestTeidAlwaysStored == Spec => []LatestTeidStored
<1>1. Init => LatestInv
  <2> SUFFICES ASSUME Init PROVE LatestInv
    OBVIOUS
  <2>1. Ul = << >> /\ enbTeids = << >>  BY DEF Init, EnbInit, Ul, Channel
  <2>2. \A i : i \notin DOMAIN << >>  OBVIOUS
  <2>3. Elems(<< >>) = {}  BY <2>2 DEF Elems
  <2>4. Rising(<< >>)  BY <2>2 DEF Rising
  <2>5. QED  BY <2>1, <2>2, <2>3, <2>4 DEF LatestInv
<1>2. TypeOK /\ IdsInv /\ AttachInv /\ TeidInv /\ LatestInv /\ [Next]_vars => LatestInv'
  BY StepKinds, LatestStep
<1>3. AttachInv /\ LatestInv => LatestTeidStored
  <2> SUFFICES ASSUME AttachInv, LatestInv, Quiescent, NEW k \in DOMAIN ue,
                      ue[k].emm = "REGISTERED", NEW i \in DOMAIN enbTeids, enbTeids[i] = k
               PROVE  FirstEnbTeid + i - 1 <= ue[k].bearers[1].teid
    BY DEF LatestTeidStored
  <2>1. Ul = << >> /\ Dl = << >>  BY DEF Quiescent, Channel, Ul, Dl
  <2>2. \A j : j \notin DOMAIN << >>  OBVIOUS
  <2>3. Elems(<< >>) = {}  BY <2>2 DEF Elems
  <2>4. Bound(k)  BY DEF AttachInv, ContextInv, ContextOK
  <2>5. HasBearer(k)  BY <2>4 DEF Bound, HasBearer
  <2>6. Reported(k, FirstEnbTeid + i - 1)  BY DEF LatestInv
  <2>7. QED  BY <2>1, <2>3, <2>5, <2>6 DEF Reported, SetupDue, Underway, Stored
<1>4. QED
  BY <1>1, <1>2, <1>3, TypeCorrect, NumberingInvariant, AttachInvariant, TeidInvariant, PTL
     DEF Spec
----------------------------------------------------------------------------
(***************************************************************************)
(* The effects a step can have on the S11 and S5 sockets and the gateways. *)
(***************************************************************************)
CoreQueue == {"s11Req", "s11Rsp", "s5Req", "s5Rsp"}
Only(Q) == \A c \in CoreQueue \ Q : chan'[c] = chan[c]
Waits(call) == call.pc \in {"create", "modify", "switch"}
Takes(c) == chan[c] # << >> /\ chan'[c] = Tail(chan[c])

CoreRests ==
  /\ Only({}) /\ UNCHANGED <<sgw, pgw, sessions, timeouts>>
  /\ mme' = mme \/ (~Waits(mme) /\ ~Waits(mme'))

(* mme_th sends a request to the S-GW. *)
MmeAsks ==
  /\ mme.pc = "idle" /\ Waits(mme')
  /\ \E m \in Msg : /\ IF mme'.pc = "create" THEN m.type = "CreateReq" /\ m.imsi = mme'.imsi
                                             ELSE m.type = "ModifyReq"
                    /\ chan'["s11Req"] = Append(chan["s11Req"], m)
  /\ Only({"s11Req"}) /\ UNCHANGED <<sgw, pgw, sessions, timeouts>>

(* It takes whatever the S-GW socket holds for the answer. *)
MmeTakes ==
  /\ Waits(mme) /\ mme' = MmeIdle
  /\ Takes("s11Rsp")
  /\ Only({"s11Rsp"}) /\ UNCHANGED <<sgw, pgw, sessions, timeouts>>

SgwForwards ==
  /\ ~sgw.busy /\ Takes("s11Req") /\ Head(chan["s11Req"]).type = "CreateReq"
  /\ \E m \in Msg : /\ m.imsi = Head(chan["s11Req"]).imsi
                    /\ chan'["s5Req"] = Append(chan["s5Req"], m)
  /\ sgw'.busy /\ sgw'.imsi = Head(chan["s11Req"]).imsi
  /\ sgw'.s1u = sgw.next + 1 /\ sgw'.next = sgw.next + 2
  /\ Only({"s11Req", "s5Req"}) /\ UNCHANGED <<mme, pgw, sessions, timeouts>>

SgwAnswers ==
  /\ sgw.busy /\ Takes("s5Rsp")
  /\ LET r == Head(chan["s5Rsp"])
     IN  IF r.cause = Accepted /\ r.ip # 0
           THEN \E m \in Msg : /\ m.ip = r.ip /\ m.val = sgw.s1u /\ m.cause = Accepted
                               /\ chan'["s11Rsp"] = Append(chan["s11Rsp"], m)
           ELSE chan'["s11Rsp"] = chan["s11Rsp"]
  /\ ~sgw'.busy /\ sgw'.next = sgw.next
  /\ Only({"s5Rsp", "s11Rsp"}) /\ UNCHANGED <<mme, pgw, sessions, timeouts>>

SgwModifies ==
  /\ ~sgw.busy /\ Takes("s11Req") /\ Head(chan["s11Req"]).type = "ModifyReq"
  /\ \E m \in Msg : m.ip = 0 /\ chan'["s11Rsp"] = Append(chan["s11Rsp"], m)
  /\ Only({"s11Req", "s11Rsp"}) /\ UNCHANGED <<mme, sgw, pgw, sessions, timeouts>>

PgwTakes ==
  /\ ~pgw.busy /\ Takes("s5Req")
  /\ pgw'.busy /\ pgw'.imsi = Head(chan["s5Req"]).imsi
  /\ Only({"s5Req"}) /\ UNCHANGED <<mme, sgw, sessions, timeouts>>

PgwAllocates ==
  /\ pgw.busy /\ ~pgw'.busy
  /\ sessions' = Append(sessions, pgw.imsi)
  /\ \E m \in Msg : /\ m.ip = Len(sessions) + 1 /\ m.cause = Accepted
                    /\ chan'["s5Rsp"] = Append(chan["s5Rsp"], m)
  /\ Only({"s5Rsp"}) /\ UNCHANGED <<mme, sgw, timeouts>>

(* Somebody's receive times out; a P-GW's counts as a denial. *)
CoreTimesOut ==
  /\ timeouts' = timeouts + 1
  /\ mme' = mme \/ chan["s11Rsp"] = << >>
  /\ sgw' = sgw \/ (~sgw'.busy /\ sgw'.next = sgw.next)
  /\ \/ chan'["s5Rsp"] = chan["s5Rsp"]
     \/ \E m \in Msg : m.ip = 0 /\ chan'["s5Rsp"] = Append(chan["s5Rsp"], m)
  /\ Only({"s5Rsp"}) /\ UNCHANGED sessions

CoreKind ==
  \/ CoreRests \/ MmeAsks \/ MmeTakes \/ SgwForwards \/ SgwAnswers \/ SgwModifies
  \/ PgwTakes \/ PgwAllocates \/ CoreTimesOut

(* The MME's steps have those effects. *)
LEMMA MmeCoreKinds ==
  ASSUME TypeOK, MmeThread \/ HssReceive
  PROVE  CoreRests \/ MmeAsks \/ MmeTakes
<1>1. ChanOK /\ ue \in Seq(Context)  BY MmeFacts
<1>2. Got("s1ul", Head(chan["s1ul"]).type) =>
        Head(chan["s1ul"]) \in Msg /\ Head(chan["s1ul"]).mme \in Nat
          /\ Head(chan["s1ul"]).val \in Nat
  <2>1. chan["s1ul"] # << >> => Head(chan["s1ul"]) \in Msg  BY MmeFacts
  <2>2. QED  BY <2>1 DEF Got, Msg
<1>3. ASSUME UNCHANGED <<coreVars, envVars>> \/ UNCHANGED <<coreVars, timeouts>>
      PROVE  UNCHANGED <<sgw, pgw, sessions, timeouts>>
  BY <1>3 DEF coreVars, envVars
<1>4. ASSUME NEW c \in Channel \ CoreQueue, NEW d \in Channel \ CoreQueue, NEW m,
             Reply(c, d, m) \/ Consume(c) \/ Send(d, m) \/ UNCHANGED chan
      PROVE  Only({})
  <2>1. ASSUME NEW e \in CoreQueue PROVE chan'[e] = chan[e]
    <3>1. e \in Channel /\ e # c /\ e # d  BY <1>4, <2>1 DEF CoreQueue, Channel
    <3>2. CASE Reply(c, d, m)  BY <1>1, <3>1, <3>2 DEF Reply, ChanOK
    <3>3. CASE Consume(c)  BY <1>1, <3>1, <3>3 DEF Consume, ChanOK
    <3>4. CASE Send(d, m)  BY <1>1, <3>1, <3>4 DEF Send, ChanOK
    <3>5. QED  BY <1>4, <3>2, <3>3, <3>4
  <2>2. QED  BY <2>1 DEF Only
<1>5. ASSUME NEW m, Reply("s1ul", "s11Req", m)
      PROVE  chan'["s11Req"] = Append(chan["s11Req"], m) /\ Only({"s11Req"})
  BY <1>1, <1>5 DEF Reply, ChanOK, CoreQueue, Only, Channel
<1>6. ASSUME NEW m, Reply("s11Rsp", "s1dl", m) \/ Consume("s11Rsp")
      PROVE  chan'["s11Rsp"] = Tail(chan["s11Rsp"]) /\ Only({"s11Rsp"})
  BY <1>1, <1>6 DEF Reply, Consume, ChanOK, CoreQueue, Only, Channel
<1> USE DEF Waits
<1>7. CASE HandleInitialUEMsg
  <2>1. Only({})  BY <1>4, <1>7 DEF HandleInitialUEMsg, Channel, CoreQueue
  <2>2. mme.pc = "idle" /\ mme'.pc = "auth"  BY <1>7 DEF HandleInitialUEMsg, MmeReady
  <2>3. QED  BY <1>3, <1>7, <2>1, <2>2 DEF HandleInitialUEMsg, CoreRests
<1>8. CASE HssReceive
  <2>1. Only({})  BY <1>4, <1>8 DEF HssReceive, Channel, CoreQueue
  <2>2. QED  BY <1>3, <1>8, <2>1 DEF HssReceive, CoreRests
<1>9. CASE TakeAuthVector
  <2>1. PICK m : Send("s1dl", m) \/ UNCHANGED chan  BY <1>9 DEF TakeAuthVector
  <2>2. Only({})  BY <1>1, <2>1 DEF Send, ChanOK, CoreQueue, Only, Channel
  <2>3. mme.pc = "auth" /\ mme'.pc = "idle"  BY <1>9 DEF TakeAuthVector, MmeIdle
  <2>4. QED  BY <1>3, <1>9, <2>2, <2>3 DEF TakeAuthVector, CoreRests
<1>10. CASE HandleAuthResponse
  <2> DEFINE h == Head(chan["s1ul"])
  <2>1. mme.pc = "idle" /\ UNCHANGED <<sgw, pgw, sessions, timeouts>>
    BY <1>3, <1>10 DEF HandleAuthResponse, MmeReady
  <2>2. CASE ~AuthMatches(h)
    <3>1. Consume("s1ul") /\ UNCHANGED mme  BY <1>10, <2>2 DEF HandleAuthResponse
    <3>2. Only({})  BY <1>4, <3>1 DEF Channel, CoreQueue
    <3>3. QED  BY <2>1, <3>1, <3>2 DEF CoreRests
  <2>3. CASE AuthMatches(h)
    <3> DEFINE u == ue[h.mme]
               n == About("CreateReq", u.imsi)
    <3>1. u \in Context  BY <1>1, <2>3 DEF AuthMatches, Known
    <3>2. u.imsi \in Nat  BY <3>1 DEF Context
    <3>3. n \in Msg  BY <3>2, MsgAbout DEF CoreType
    <3>4. n.type = "CreateReq" /\ n.imsi = u.imsi  BY DEF About, Blank
    <3>5. chan' = [chan EXCEPT !["s1ul"] = Tail(@),
                     !["s1dl"] = Append(@, S1("SecModeCmd", h.mme, ue[h.mme].enb)),
                     !["s11Req"] = Append(@, n)]
      BY <1>10, <2>3 DEF HandleAuthResponse
    <3>6. mme'.pc = "create" /\ mme'.imsi = u.imsi  BY <1>10, <2>3 DEF HandleAuthResponse
    <3> HIDE DEF n, u
    <3>7. chan'["s11Req"] = Append(chan["s11Req"], n) /\ Only({"s11Req"})
      BY <1>1, <3>5 DEF ChanOK, CoreQueue, Only, Channel
    <3>8. QED  BY <2>1, <3>3, <3>4, <3>6, <3>7 DEF MmeAsks
  <2>4. QED  BY <2>2, <2>3
<1>11. CASE CreateSessionRsp
  <2>1. PICK m : Reply("s11Rsp", "s1dl", m) \/ Consume("s11Rsp")
    BY <1>11 DEF CreateSessionRsp
  <2>2. chan'["s11Rsp"] = Tail(chan["s11Rsp"]) /\ Only({"s11Rsp"})  BY <1>6, <2>1
  <2>3. QED  BY <1>3, <1>11, <2>2 DEF CreateSessionRsp, MmeTakes, Takes
<1>12. CASE HandleSecModeComplete \/ HandleAttachComplete \/ HandleUeContextRelCmpl
  <2>1. Only({})
    BY <1>4, <1>12 DEF HandleSecModeComplete, HandleAttachComplete, HandleUeContextRelCmpl,
       Channel, CoreQueue
  <2>2. QED
    BY <1>3, <1>12, <2>1 DEF HandleSecModeComplete, HandleAttachComplete,
       HandleUeContextRelCmpl, CoreRests, mmeVars
<1>13. CASE HandleTauRequest \/ HandleHandoverRequired \/ HandleHandoverRequestAck
              \/ HandleEnbStatusTransfer
  <2>1. Only({})
    BY <1>4, <1>13 DEF HandleTauRequest, HandleHandoverRequired, HandleHandoverRequestAck,
       HandleEnbStatusTransfer, Channel, CoreQueue
  <2>2. QED
    BY <1>3, <1>13, <2>1 DEF HandleTauRequest, HandleHandoverRequired,
       HandleHandoverRequestAck, HandleEnbStatusTransfer, CoreRests, mmeVars
<1>14. ASSUME NEW n \in Msg, n.type = "ModifyReq", Reply("s1ul", "s11Req", n),
              mme.pc = "idle", mme'.pc \in {"modify", "switch"},
              UNCHANGED <<sgw, pgw, sessions, timeouts>>
       PROVE  MmeAsks
  <2>1. chan'["s11Req"] = Append(chan["s11Req"], n) /\ Only({"s11Req"})  BY <1>5, <1>14
  <2>2. QED  BY <1>14, <2>1 DEF MmeAsks
<1>15. CASE HandleICSetupResponse
  <2> DEFINE h == Head(chan["s1ul"])
             n == ModifyReq(h.mme, h.val)
  <2>1. h.mme \in Nat /\ h.val \in Nat
    BY <1>2, <1>15 DEF HandleICSetupResponse, MmeReady, Got
  <2>2. n \in Msg  BY <2>1, ModifyReqMsg
  <2>3. n.type = "ModifyReq"  BY DEF ModifyReq, About, Blank
  <2>4. /\ Reply("s1ul", "s11Req", n) /\ mme.pc = "idle" /\ mme'.pc = "modify"
        /\ UNCHANGED <<sgw, pgw, sessions, timeouts>>
    BY <1>3, <1>15 DEF HandleICSetupResponse, MmeReady
  <2> HIDE DEF n
  <2>5. QED  BY <1>14, <2>2, <2>3, <2>4
<1>16. CASE HandleHandoverNotify
  <2> DEFINE h == Head(chan["s1ul"])
             n == ModifyReq(h.mme, FinalTeid(h))
  <2>1. h \in Msg /\ h.mme \in Nat /\ h.val \in Nat
    BY <1>2, <1>16 DEF HandleHandoverNotify, MmeReady, Got
  <2>2. n \in Msg
    <3>1. HasBearer(h.mme) => ue[h.mme].bearers[1].teid \in Nat
      <4> SUFFICES ASSUME HasBearer(h.mme) PROVE ue[h.mme].bearers[1].teid \in Nat
        OBVIOUS
      <4>1. ue[h.mme] \in Context  BY <1>1 DEF HasBearer, Known
      <4>2. ue[h.mme].bearers \in Seq(Bearer) /\ ue[h.mme].bearers # << >>
        BY <4>1 DEF Context, HasBearer
      <4>3. ue[h.mme].bearers[1] \in Bearer  BY <4>2
      <4>4. QED  BY <4>3 DEF Bearer
    <3>2. FinalTeid(h) \in Nat  BY <2>1, <3>1 DEF FinalTeid
    <3>3. QED  BY <2>1, <3>2, ModifyReqMsg
  <2>3. n.type = "ModifyReq"  BY DEF ModifyReq, About, Blank
  <2>4. /\ Reply("s1ul", "s11Req", n) /\ mme.pc = "idle" /\ mme'.pc = "switch"
        /\ UNCHANGED <<sgw, pgw, sessions, timeouts>>
    BY <1>3, <1>16 DEF HandleHandoverNotify, MmeReady
  <2> HIDE DEF n
  <2>5. QED  BY <1>14, <2>2, <2>3, <2>4
<1>17. CASE ModifyBearerRsp \/ PathSwitched
  <2>1. PICK m : Reply("s11Rsp", "s1dl", m) \/ Consume("s11Rsp")
    BY <1>17 DEF ModifyBearerRsp, PathSwitched
  <2>2. chan'["s11Rsp"] = Tail(chan["s11Rsp"]) /\ Only({"s11Rsp"})  BY <1>6, <2>1
  <2>3. QED  BY <1>3, <1>17, <2>2 DEF ModifyBearerRsp, PathSwitched, MmeTakes, Takes
<1>18. QED
  BY <1>7, <1>8, <1>9, <1>10, <1>11, <1>12, <1>13, <1>15, <1>16, <1>17 DEF MmeThread

(* Every step of the system has one of the effects. *)
LEMMA CoreKinds ==
  ASSUME TypeOK, [Next]_vars
  PROVE  CoreKind
<1>1. ChanOK /\ mme.id \in Nat  BY MmeFacts
<1>2. CASE UNCHANGED vars
  BY <1>2 DEF vars, mmeVars, coreVars, envVars, CoreKind, CoreRests, Only
<1>3. CASE Cli
  <2>1. Only({}) /\ UNCHANGED <<sgw, pgw, sessions, timeouts, mme>>
    BY <1>3 DEF Cli, CliAttach, CliMobility, mmeVars, coreVars, envVars, Only
  <2>2. QED  BY <2>1 DEF CoreKind, CoreRests
<1>4. CASE EnbCommandThread \/ EnbReceiveThread
  <2>1. Only({})  BY <1>1, <1>4, EnbKeeps DEF Only, CoreQueue, Channel
  <2>2. UNCHANGED <<mme, sgw, pgw, sessions, timeouts>>
    BY <1>4 DEF EnbCommandThread, EnbReceiveThread, TakeCommand, SendInitialUEMessage,
       SendTauRequest, SendHandoverRequired, HandleAuthRequest, HandleSecModeCommand,
       HandleICSR, SendAttachComplete, HandleTauAccept, HandleHoRequest, HandleHoCommand,
       HandleMmeStatusXfer, HandleUeCtxRelCmd, mmeVars, coreVars, envVars
  <2>3. QED  BY <2>1, <2>2 DEF CoreKind, CoreRests
<1>5. CASE MmeThread \/ HssReceive  BY <1>5, MmeCoreKinds DEF CoreKind
<1>6. ASSUME NEW c \in Channel, NEW d \in Channel, c # d, NEW m, Reply(c, d, m)
      PROVE  /\ chan'[c] = Tail(chan[c]) /\ chan'[d] = Append(chan[d], m)
             /\ \A e \in Channel \ {c, d} : chan'[e] = chan[e]
  BY <1>1, <1>6 DEF Reply, ChanOK
<1>7. \A c \in Channel : chan[c] # << >> => Head(chan[c]) \in Msg /\ Head(chan[c]).imsi \in Nat
  <2>1. \A c \in Channel : chan[c] # << >> => Head(chan[c]) \in Msg  BY <1>1, HeadMsg
  <2>2. \A x \in Msg : x.imsi \in Nat /\ x.ip \in Nat  BY DEF Msg
  <2>3. QED  BY <2>1, <2>2
<1>8. sgw \in [busy : BOOLEAN, imsi : Nat, s1u : Nat, next : Nat] /\ sessions \in Seq(Nat)
      /\ pgw \in [busy : BOOLEAN, imsi : Nat] /\ timeouts \in Nat
  BY DEF TypeOK
<1>9. CASE HandleAIR
  <2>1. Only({})
    <3>1. PICK m : Reply("s6aReq", "s6aAns", m)  BY <1>9 DEF HandleAIR
    <3>2. QED  BY <1>6, <3>1 DEF Only, CoreQueue, Channel
  <2>2. UNCHANGED <<mme, sgw, pgw, sessions, timeouts>>
    BY <1>9 DEF HandleAIR, mmeVars, coreVars, envVars
  <2>3. QED  BY <2>1, <2>2 DEF CoreKind, CoreRests
<1>10. CASE HandleCCR
  <2>1. Only({})
    <3>1. PICK m : Reply("gxReq", "gxAns", m)  BY <1>10 DEF HandleCCR
    <3>2. QED  BY <1>6, <3>1 DEF Only, CoreQueue, Channel
  <2>2. UNCHANGED <<mme, sgw, pgw, sessions, timeouts>>
    BY <1>10 DEF HandleCCR, mmeVars, coreVars, envVars
  <2>3. QED  BY <2>1, <2>2 DEF CoreKind, CoreRests
<1>11. CASE SgwCreateSessionReq
  <2> DEFINE h == Head(chan["s11Req"])
             n == About("CreateReq", h.imsi)
  <2>1. ~sgw.busy /\ chan["s11Req"] # << >> /\ h.type = "CreateReq"
    BY <1>11 DEF SgwCreateSessionReq, Got
  <2>2. h.imsi \in Nat  BY <1>7, <2>1 DEF Channel
  <2>3. n \in Msg  BY <2>2, MsgAbout DEF CoreType
  <2>4. n.imsi = h.imsi  BY DEF About, Blank
  <2>5. /\ Reply("s11Req", "s5Req", n)
        /\ sgw' = [busy |-> TRUE, imsi |-> h.imsi, s1u |-> sgw.next + 1, next |-> sgw.next + 2]
        /\ UNCHANGED <<mme, pgw, sessions, timeouts>>
    BY <1>11 DEF SgwCreateSessionReq, mmeVars, envVars
  <2> HIDE DEF n
  <2>6. Takes("s11Req") /\ chan'["s5Req"] = Append(chan["s5Req"], n) /\ Only({"s11Req", "s5Req"})
    BY <1>6, <2>1, <2>5 DEF Takes, Only, CoreQueue, Channel
  <2>7. QED  BY <2>1, <2>3, <2>4, <2>5, <2>6 DEF CoreKind, SgwForwards
<1>12. CASE SgwCreateSessionRsp
  <2> DEFINE r == Head(chan["s5Rsp"])
             n == [About("CreateRsp", sgw.imsi) EXCEPT !.cause = Accepted,
                                                       !.val = sgw.s1u, !.ip = r.ip]
  <2>1. /\ sgw.busy /\ chan["s5Rsp"] # << >> /\ sgw' = NoSession(sgw.next)
        /\ UNCHANGED <<mme, pgw, sessions, timeouts>>
    BY <1>12 DEF SgwCreateSessionRsp, mmeVars, envVars
  <2>2. ~sgw'.busy /\ sgw'.next = sgw.next  BY <2>1 DEF NoSession
  <2>3. CASE r.cause = Accepted /\ r.ip # 0
    <3>1. r \in Msg  BY <1>7, <2>1 DEF Channel
    <3>2. r.ip \in Nat /\ sgw.imsi \in Nat /\ sgw.s1u \in Nat  BY <1>8, <3>1 DEF Msg
    <3>3. About("CreateRsp", sgw.imsi) \in Msg  BY <3>2, MsgAbout DEF CoreType
    <3>4. n \in Msg  BY <3>2, <3>3 DEF Msg, Accepted
    <3>5. n.ip = r.ip /\ n.val = sgw.s1u /\ n.cause = Accepted  BY DEF About, Blank
    <3>6. Reply("s5Rsp", "s11Rsp", n)  BY <1>12, <2>3 DEF SgwCreateSessionRsp
    <3> HIDE DEF n
    <3>7. /\ Takes("s5Rsp") /\ chan'["s11Rsp"] = Append(chan["s11Rsp"], n)
          /\ Only({"s5Rsp", "s11Rsp"})
      BY <1>6, <2>1, <3>6 DEF Takes, Only, CoreQueue, Channel
    <3>8. QED  BY <2>1, <2>2, <2>3, <3>4, <3>5, <3>7 DEF CoreKind, SgwAnswers
  <2>4. CASE ~(r.cause = Accepted /\ r.ip # 0)
    <3>1. Consume("s5Rsp")  BY <1>12, <2>4 DEF SgwCreateSessionRsp
    <3>2. /\ Takes("s5Rsp") /\ chan'["s11Rsp"] = chan["s11Rsp"] /\ Only({"s5Rsp", "s11Rsp"})
      BY <1>1, <2>1, <3>1 DEF Consume, ChanOK, Takes, Only, CoreQueue, Channel
    <3>3. QED  BY <2>1, <2>2, <2>4, <3>2 DEF CoreKind, SgwAnswers
  <2>5. QED  BY <2>3, <2>4
<1>13. CASE SgwModifyBearerReq
  <2> DEFINE n == [Blank EXCEPT !.type = "ModifyRsp", !.cause = Accepted]
  <2>1. /\ ~sgw.busy /\ chan["s11Req"] # << >> /\ Head(chan["s11Req"]).type = "ModifyReq"
        /\ UNCHANGED <<mme, sgw, pgw, sessions, timeouts>> /\ Reply("s11Req", "s11Rsp", n)
    BY <1>13 DEF SgwModifyBearerReq, Got, mmeVars, coreVars, envVars
  <2>2. n \in Msg /\ n.ip = 0  BY DEF Msg, Blank, CoreType, Accepted
  <2> HIDE DEF n
  <2>3. /\ Takes("s11Req") /\ chan'["s11Rsp"] = Append(chan["s11Rsp"], n)
        /\ Only({"s11Req", "s11Rsp"})
    BY <1>6, <2>1 DEF Takes, Only, CoreQueue, Channel
  <2>4. QED  BY <2>1, <2>2, <2>3 DEF CoreKind, SgwModifies
<1>14. CASE PgwCreateSessionReq
  <2> DEFINE h == Head(chan["s5Req"])
  <2>1. /\ ~pgw.busy /\ chan["s5Req"] # << >> /\ pgw' = [busy |-> TRUE, imsi |-> h.imsi]
        /\ UNCHANGED <<mme, sgw, sessions, timeouts>>
    BY <1>14 DEF PgwCreateSessionReq, Got, mmeVars, envVars
  <2>2. PICK m : Reply("s5Req", "gxReq", m)  BY <1>14 DEF PgwCreateSessionReq
  <2>3. Takes("s5Req") /\ Only({"s5Req"})
    BY <1>6, <2>1, <2>2 DEF Takes, Only, CoreQueue, Channel
  <2>4. QED  BY <2>1, <2>3 DEF CoreKind, PgwTakes
<1>15. CASE PgwApproved
  <2> DEFINE n == [Blank EXCEPT !.type = "CreateRsp", !.cause = Accepted,
                                !.ip = Len(sessions) + 1]
  <2>1. /\ pgw.busy /\ pgw' = PgwIdle /\ sessions' = Append(sessions, pgw.imsi)
        /\ UNCHANGED <<mme, sgw, timeouts>> /\ Reply("gxAns", "s5Rsp", n)
    BY <1>15 DEF PgwApproved, mmeVars, envVars
  <2>2. ~pgw'.busy  BY <2>1 DEF PgwIdle
  <2>3. Len(sessions) + 1 \in Nat  BY <1>8
  <2>4. n \in Msg  BY <2>3 DEF Msg, Blank, CoreType, Accepted
  <2>5. n.ip = Len(sessions) + 1 /\ n.cause = Accepted  BY DEF Blank
  <2> HIDE DEF n
  <2>6. chan'["s5Rsp"] = Append(chan["s5Rsp"], n) /\ Only({"s5Rsp"})
    BY <1>6, <2>1 DEF Only, CoreQueue, Channel
  <2>7. QED  BY <2>1, <2>2, <2>4, <2>5, <2>6 DEF CoreKind, PgwAllocates
<1>16. CASE MmeTimeout \/ SgwTimeout
  <2>1. Only({"s5Rsp"}) /\ chan'["s5Rsp"] = chan["s5Rsp"]
    BY <1>16 DEF MmeTimeout, SgwTimeout, Only
  <2>2. /\ timeouts' = timeouts + 1 /\ UNCHANGED sessions
        /\ mme' = mme \/ chan["s11Rsp"] = << >>
    BY <1>16 DEF MmeTimeout, SgwTimeout, mmeVars, coreVars
  <2>3. sgw' = sgw \/ (~sgw'.busy /\ sgw'.next = sgw.next)
    BY <1>16 DEF MmeTimeout, SgwTimeout, coreVars, NoSession
  <2>4. QED  BY <2>1, <2>2, <2>3 DEF CoreKind, CoreTimesOut
<1>17. CASE PathSwitchTimeout
  <2>1. Only({"s5Rsp"}) /\ chan'["s5Rsp"] = chan["s5Rsp"]
    BY <1>1, <1>17, SendEffect DEF PathSwitchTimeout, Only, CoreQueue, Channel
  <2>2. /\ timeouts' = timeouts + 1 /\ UNCHANGED <<sgw, sessions>> /\ chan["s11Rsp"] = << >>
    BY <1>17 DEF PathSwitchTimeout, coreVars
  <2>3. QED  BY <2>1, <2>2 DEF CoreKind, CoreTimesOut
<1>18. CASE PgwTimeout
  <2> DEFINE n == [Blank EXCEPT !.type = "CreateRsp", !.cause = Denied]
  <2>1. n \in Msg /\ n.ip = 0  BY DEF Msg, Blank, CoreType, Denied
  <2>2. Send("s5Rsp", n) /\ timeouts' = timeouts + 1 /\ UNCHANGED <<mme, sgw, sessions>>
    BY <1>18 DEF PgwTimeout, mmeVars
  <2> HIDE DEF n
  <2>3. chan'["s5Rsp"] = Append(chan["s5Rsp"], n) /\ Only({"s5Rsp"})
    BY <1>1, <2>2 DEF Send, ChanOK, Only, CoreQueue, Channel
  <2>4. QED  BY <2>1, <2>2, <2>3 DEF CoreKind, CoreTimesOut
<1>19. QED
  BY <1>2, <1>3, <1>4, <1>5, <1>9, <1>10, <1>11, <1>12, <1>13, <1>14, <1>15, <1>16, <1>17,
     <1>18 DEF Next, SgwThread, PgwThread, Timeout
----------------------------------------------------------------------------
(***************************************************************************)
(* Whose address: the addresses and S-GW tunnels in answers on their way,  *)
(* in a request the S-GW is forwarding and in the contexts are pairwise    *)
(* different, and older than the next ones of their allocators.            *)
(***************************************************************************)
S5  == chan["s5Rsp"]
S11 == chan["s11Rsp"]
Ip(k)  == ue[k].bearers[1].ip
S1u(k) == ue[k].bearers[1].s1u

(* Two answers do not give the same address nor, on S11, the same tunnel. *)
Clear(m, n, tunnels) ==
  m.ip # 0 /\ n.ip # 0 => m.ip # n.ip /\ (tunnels => m.val # n.val)

Apart(q, tunnels) == \A i, j \in DOMAIN q : i # j => Clear(q[i], q[j], tunnels)

FreshInv ==
  /\ \A m \in Elems(S5) \cup Elems(S11) : m.ip <= Len(sessions)
  /\ \A m \in Elems(S11) : m.ip # 0 => m.val < sgw.next
  /\ sgw.busy => sgw.s1u < sgw.next
  /\ \A k \in Served : Ip(k) <= Len(sessions) /\ S1u(k) < sgw.next

AnswersInv ==
  /\ Apart(S5, FALSE) /\ Apart(S11, TRUE)
  /\ \A m \in Elems(S5), n \in Elems(S11) : Clear(m, n, FALSE)
  /\ \A m \in Elems(S11) : m.ip # 0 /\ sgw.busy => m.val # sgw.s1u

Alone(k) ==
  /\ \A m \in Elems(S5) \cup Elems(S11) : m.ip # Ip(k)
  /\ \A m \in Elems(S11) : m.ip # 0 => m.val # S1u(k)
  /\ sgw.busy => sgw.s1u # S1u(k)

AddrInv ==
  /\ FreshInv
  /\ AnswersInv
  /\ \A k \in Served : Alone(k)
  /\ \A j, k \in Served : j # k => Ip(j) # Ip(k) /\ S1u(j) # S1u(k)

(* The rest of a queue stays apart, also from the answer taken out of it. *)
LEMMA ApartTail ==
  ASSUME NEW q \in Seq(Msg), q # << >>, NEW w, Apart(q, w)
  PROVE  /\ Apart(Tail(q), w)
         /\ \A m \in Elems(Tail(q)) : Clear(Head(q), m, w)
<1> DEFINE r == Tail(q)
<1>1. DOMAIN r = 1 .. Len(q) - 1 /\ \A i \in DOMAIN r : r[i] = q[i + 1] /\ i + 1 \in DOMAIN q
      /\ Len(q) \in Nat /\ Head(q) = q[1] /\ 1 \in DOMAIN q
  BY ElemsTail
<1> HIDE DEF r
<1>2. ASSUME NEW i \in DOMAIN r, NEW j \in DOMAIN r, i # j PROVE i + 1 # j + 1
  BY <1>1, <1>2
<1>3. Apart(r, w)  BY <1>1, <1>2 DEF Apart
<1>4. ASSUME NEW i \in DOMAIN r PROVE Clear(q[1], r[i], w)
  <2>1. 1 # i + 1  BY <1>1
  <2>2. QED  BY <1>1, <2>1 DEF Apart
<1>5. \A m \in Elems(r) : Clear(Head(q), m, w)  BY <1>1, <1>4 DEF Elems
<1>6. QED  BY <1>3, <1>5 DEF r

(* A queue stays apart when an answer that is clear of all of it is appended. *)
LEMMA ApartAppend ==
  ASSUME NEW q \in Seq(Msg), NEW m \in Msg, NEW w, Apart(q, w),
         \A n \in Elems(q) : Clear(n, m, w)
  PROVE  Apart(Append(q, m), w)
<1> DEFINE r == Append(q, m)
<1>1. /\ DOMAIN r = 1 .. Len(q) + 1 /\ Len(q) \in Nat /\ DOMAIN q = 1 .. Len(q)
      /\ \A i \in DOMAIN q : r[i] = q[i]
      /\ r[Len(q) + 1] = m
  BY ElemsAppend
<1>2. DOMAIN r = DOMAIN q \cup {Len(q) + 1}  BY <1>1
<1>3. \A i \in DOMAIN q : r[i] \in Elems(q)  BY <1>1 DEF Elems
<1>4. \A n \in Elems(q) : Clear(n, m, w) /\ Clear(m, n, w)  BY DEF Clear
<1> HIDE DEF r
<1>5. ASSUME NEW i \in DOMAIN r, NEW j \in DOMAIN r, i # j PROVE Clear(r[i], r[j], w)
  <2>1. CASE i \in DOMAIN q /\ j \in DOMAIN q  BY <1>1, <1>5, <2>1 DEF Apart
  <2>2. CASE i \in DOMAIN q /\ j = Len(q) + 1  BY <1>1, <1>3, <1>4, <2>2
  <2>3. CASE i = Len(q) + 1 /\ j \in DOMAIN q  BY <1>1, <1>3, <1>4, <2>3
  <2>4. QED  BY <1>2, <1>5, <2>1, <2>2, <2>3
<1>6. Apart(r, w)  BY <1>5 DEF Apart
<1>7. QED  BY <1>6 DEF r

(* The facts the next proofs start from. *)
LEMMA CoreFacts ==
  ASSUME TypeOK
  PROVE  /\ S5 \in Seq(Msg) /\ S11 \in Seq(Msg)
         /\ \A m \in Msg : m.ip \in Nat /\ m.val \in Nat
         /\ \A m \in Elems(S5) \cup Elems(S11) : m \in Msg
         /\ sgw.next \in Nat /\ sgw.s1u \in Nat /\ Len(sessions) \in Nat
         /\ sessions \in Seq(Nat) /\ pgw.imsi \in Nat /\ timeouts \in Nat
         /\ \A k \in Served : HasBearer(k) /\ Ip(k) \in Nat /\ S1u(k) \in Nat
         /\ \A k : HasBearer(k) => k \in Served
<1>1. S5 \in Seq(Msg) /\ S11 \in Seq(Msg)  BY DEF TypeOK, Channel, S5, S11
<1>2. \A m \in Msg : m.ip \in Nat /\ m.val \in Nat  BY DEF Msg
<1>3. \A m \in Elems(S5) \cup Elems(S11) : m \in Msg  BY <1>1 DEF Elems
<1>4. sgw.next \in Nat /\ sgw.s1u \in Nat /\ sessions \in Seq(Nat) /\ pgw.imsi \in Nat
      /\ timeouts \in Nat
  BY DEF TypeOK
<1>5. Len(sessions) \in Nat  BY <1>4
<1>6. ASSUME NEW k \in Served PROVE HasBearer(k) /\ Ip(k) \in Nat /\ S1u(k) \in Nat
  <2>1. ue \in Seq(Context) /\ k \in DOMAIN ue /\ ue[k].bearers # << >>
    BY S1Facts DEF Served
  <2>2. ue[k] \in Context  BY <2>1
  <2>3. ue[k].bearers \in Seq(Bearer)  BY <2>2 DEF Context
  <2>4. ue[k].bearers[1] \in Bearer  BY <2>1, <2>3
  <2>5. QED  BY <2>1, <2>4 DEF Bearer, Ip, S1u, HasBearer, Known
<1>7. \A k : HasBearer(k) => k \in Served  BY DEF HasBearer, Known, Served
<1>8. QED  BY <1>1, <1>2, <1>3, <1>4, <1>5, <1>6, <1>7

(* What a step does to the answers, as sets, and to the allocators. *)
LEMMA CoreEffect ==
  ASSUME TypeOK, CoreKind
  PROVE  /\ \A m \in Elems(S5') : \/ m \in Elems(S5)
                                  \/ m.ip = 0
                                  \/ PgwAllocates /\ m.ip = Len(sessions) + 1
         /\ \A m \in Elems(S11') : \/ m \in Elems(S11)
                                   \/ m.ip = 0
                                   \/ SgwAnswers /\ m.ip = Head(S5).ip /\ m.val = sgw.s1u
         /\ sgw'.next \in Nat /\ sgw.next <= sgw'.next
         /\ sgw'.busy => \/ sgw.busy /\ sgw'.s1u = sgw.s1u
                         \/ sgw'.s1u = sgw.next + 1 /\ sgw'.next = sgw.next + 2
         /\ Len(sessions') \in Nat /\ Len(sessions) <= Len(sessions')
         /\ PgwAllocates => Len(sessions') = Len(sessions) + 1
<1>1. S5 \in Seq(Msg) /\ S11 \in Seq(Msg) /\ sessions \in Seq(Nat) /\ pgw.imsi \in Nat
      /\ sgw.next \in Nat /\ Len(sessions) \in Nat
  BY CoreFacts
<1>2. \A n \in Msg : /\ Elems(Append(S5, n)) = Elems(S5) \cup {n}
                     /\ Elems(Append(S11, n)) = Elems(S11) \cup {n}
  BY <1>1, ElemsAppend
<1>3. /\ S5 # << >> => Elems(Tail(S5)) \subseteq Elems(S5)
      /\ S11 # << >> => Elems(Tail(S11)) \subseteq Elems(S11)
  BY <1>1, ElemsTail
<1>4. PgwAllocates => Len(sessions') = Len(sessions) + 1  BY <1>1 DEF PgwAllocates
<1>5. Len(sessions') \in Nat /\ Len(sessions) <= Len(sessions')
  BY <1>1, <1>4 DEF CoreKind, CoreRests, MmeAsks, MmeTakes, SgwForwards, SgwAnswers,
     SgwModifies, PgwTakes, CoreTimesOut
<1>6. /\ sgw'.next \in Nat /\ sgw.next <= sgw'.next
      /\ sgw'.busy => \/ sgw.busy /\ sgw'.s1u = sgw.s1u
                      \/ sgw'.s1u = sgw.next + 1 /\ sgw'.next = sgw.next + 2
  BY <1>1 DEF CoreKind, CoreRests, MmeAsks, MmeTakes, SgwForwards, SgwAnswers,
     SgwModifies, PgwTakes, PgwAllocates, CoreTimesOut
<1> USE DEF Only, CoreQueue, Takes
<1>7. ASSUME NEW m \in Elems(S5')
      PROVE  m \in Elems(S5) \/ m.ip = 0 \/ (PgwAllocates /\ m.ip = Len(sessions) + 1)
  <2>1. CASE S5' = S5  BY <1>7, <2>1
  <2>2. CASE SgwAnswers  BY <1>3, <1>7, <2>2 DEF SgwAnswers, S5
  <2>3. CASE PgwAllocates  BY <1>2, <1>7, <2>3 DEF PgwAllocates, S5
  <2>4. CASE CoreTimesOut  BY <1>2, <1>7, <2>4 DEF CoreTimesOut, S5
  <2>5. QED
    BY <2>1, <2>2, <2>3, <2>4 DEF CoreKind, CoreRests, MmeAsks, MmeTakes, SgwForwards,
       SgwModifies, PgwTakes, S5
<1>8. ASSUME NEW m \in Elems(S11')
      PROVE  \/ m \in Elems(S11) \/ m.ip = 0
             \/ (SgwAnswers /\ m.ip = Head(S5).ip /\ m.val = sgw.s1u)
  <2>1. CASE S11' = S11  BY <1>8, <2>1
  <2>2. CASE SgwAnswers
    <3>1. CASE Head(S5).cause = Accepted /\ Head(S5).ip # 0
      <4>1. PICK n \in Msg : /\ n.ip = Head(S5).ip /\ n.val = sgw.s1u
                             /\ S11' = Append(S11, n)
        BY <2>2, <3>1 DEF SgwAnswers, S5, S11
      <4>2. QED  BY <1>2, <1>8, <2>2, <4>1
    <3>2. CASE ~(Head(S5).cause = Accepted /\ Head(S5).ip # 0)
      BY <1>8, <2>2, <3>2 DEF SgwAnswers, S5, S11
    <3>3. QED  BY <3>1, <3>2
  <2>3. CASE SgwModifies  BY <1>2, <1>8, <2>3 DEF SgwModifies, S11
  <2>4. CASE MmeTakes  BY <1>3, <1>8, <2>4 DEF MmeTakes, S11
  <2>5. QED
    BY <2>1, <2>2, <2>3, <2>4 DEF CoreKind, CoreRests, MmeAsks, SgwForwards, CoreTimesOut,
       PgwTakes, PgwAllocates, S11
<1>9. QED  BY <1>4, <1>5, <1>6, <1>7, <1>8

(* A context had its bearer already, or takes the answer's. *)
LEMMA ServedEffect ==
  ASSUME TypeOK, AttachInv, StepKind, CoreKind, NEW k \in Served'
  PROVE  \/ k \in Served /\ Ip(k)' = Ip(k) /\ S1u(k)' = S1u(k)
         \/ /\ k \notin Served /\ k = mme.id /\ mme.pc = "create"
            /\ Ip(k)' = Head(S11).ip /\ S1u(k)' = Head(S11).val
            /\ Head(S11).ip # 0 /\ S11 # << >> /\ S11' = Tail(S11) /\ S5' = S5
            /\ UNCHANGED <<sgw, sessions>>
<1>1. HasBearer(k)'  BY DEF Served, HasBearer, Known
<1>2. HasBearer(k) <=> k \in Served  BY CoreFacts
<1>3. CASE HasBearer(k) /\ ue'[k].bearers[1].ip = ue[k].bearers[1].ip
           /\ ue'[k].bearers[1].s1u = ue[k].bearers[1].s1u
  BY <1>2, <1>3 DEF Ip, S1u
<1>4. CASE /\ ~HasBearer(k) /\ MmeBinds /\ k = mme.id
           /\ ue'[k].bearers[1].ip = Head(chan["s11Rsp"]).ip
           /\ ue'[k].bearers[1].s1u = Head(chan["s11Rsp"]).val
  <2>1. /\ mme.pc = "create" /\ mme' = MmeIdle /\ S11 # << >> /\ S11' = Tail(S11)
        /\ Head(S11).ip # 0
    BY <1>4 DEF MmeBinds, S11
  <2>2. mme' # mme /\ Waits(mme)  BY <2>1 DEF MmeIdle, Waits
  <2>3. MmeTakes
    BY <2>1, <2>2 DEF CoreKind, CoreRests, MmeAsks, SgwForwards, SgwAnswers, SgwModifies,
       PgwTakes, PgwAllocates, CoreTimesOut, S11
  <2>4. S5' = S5 /\ UNCHANGED <<sgw, sessions>>
    BY <2>3 DEF MmeTakes, Only, CoreQueue, S5
  <2>5. QED  BY <1>2, <1>4, <2>1, <2>4 DEF Ip, S1u, S11
<1>5. QED  BY <1>1, <1>3, <1>4, BearerEffect

(* The allocators stay ahead of everything they have given out. *)
LEMMA FreshStep ==
  ASSUME TypeOK, AttachInv, AddrInv, StepKind, CoreKind
  PROVE  FreshInv'
<1>1. FreshInv  BY DEF AddrInv
<1>2. /\ S5 \in Seq(Msg) /\ S11 \in Seq(Msg) /\ Len(sessions) \in Nat /\ sgw.next \in Nat
      /\ sgw.s1u \in Nat
      /\ \A m \in Elems(S5) \cup Elems(S11) : m.ip \in Nat /\ m.val \in Nat
  BY CoreFacts
<1>3. /\ sgw'.next \in Nat /\ sgw.next <= sgw'.next
      /\ Len(sessions') \in Nat /\ Len(sessions) <= Len(sessions')
      /\ PgwAllocates => Len(sessions') = Len(sessions) + 1
  BY CoreEffect
<1>4. SgwAnswers => /\ Head(S5) \in Elems(S5) /\ sgw.busy
  BY <1>2, ElemsTail DEF SgwAnswers, Takes, S5
<1>5. ASSUME NEW m \in Elems(S5') PROVE m.ip <= Len(sessions')
  <2>1. CASE m \in Elems(S5)
    <3>1. m.ip <= Len(sessions) /\ m.ip \in Nat  BY <1>1, <1>2, <2>1 DEF FreshInv
    <3>2. QED  BY <1>2, <1>3, <3>1
  <2>2. CASE m.ip = 0  BY <1>3, <2>2
  <2>3. CASE PgwAllocates /\ m.ip = Len(sessions) + 1  BY <1>2, <1>3, <2>3
  <2>4. QED  BY <2>1, <2>2, <2>3, CoreEffect
<1>6. ASSUME NEW m \in Elems(S11')
      PROVE  m.ip <= Len(sessions') /\ (m.ip # 0 => m.val < sgw'.next)
  <2>1. CASE m \in Elems(S11)
    <3>1. /\ m.ip <= Len(sessions) /\ m.ip \in Nat /\ m.val \in Nat
          /\ m.ip # 0 => m.val < sgw.next
      BY <1>1, <1>2, <2>1 DEF FreshInv
    <3>2. QED  BY <1>2, <1>3, <3>1
  <2>2. CASE m.ip = 0  BY <1>3, <2>2
  <2>3. CASE SgwAnswers /\ m.ip = Head(S5).ip /\ m.val = sgw.s1u
    <3>1. m.ip <= Len(sessions) /\ m.ip \in Nat /\ m.val < sgw.next
      BY <1>1, <1>2, <1>4, <2>3 DEF FreshInv
    <3>2. QED  BY <1>2, <1>3, <2>3, <3>1
  <2>4. QED  BY <2>1, <2>2, <2>3, CoreEffect
<1>7. sgw'.busy => sgw'.s1u < sgw'.next
  <2>1. CASE sgw.busy /\ sgw'.s1u = sgw.s1u
    <3>1. sgw.s1u < sgw.next  BY <1>1, <2>1 DEF FreshInv
    <3>2. QED  BY <1>2, <1>3, <2>1, <3>1
  <2>2. CASE sgw'.s1u = sgw.next + 1 /\ sgw'.next = sgw.next + 2  BY <1>2, <2>2
  <2>3. QED  BY <2>1, <2>2, CoreEffect
<1>8. ASSUME NEW k \in Served' PROVE Ip(k)' <= Len(sessions') /\ S1u(k)' < sgw'.next
  <2>1. CASE k \in Served /\ Ip(k)' = Ip(k) /\ S1u(k)' = S1u(k)
    <3>1. Ip(k) \in Nat /\ S1u(k) \in Nat  BY <2>1, CoreFacts
    <3>2. Ip(k) <= Len(sessions) /\ S1u(k) < sgw.next  BY <1>1, <2>1 DEF FreshInv
    <3>3. Ip(k) <= Len(sessions') /\ S1u(k) < sgw'.next  BY <1>2, <1>3, <3>1, <3>2
    <3>4. QED  BY <2>1, <3>3
  <2>2. CASE /\ Ip(k)' = Head(S11).ip /\ S1u(k)' = Head(S11).val
             /\ Head(S11).ip # 0 /\ S11 # << >> /\ UNCHANGED <<sgw, sessions>>
    <3>1. Head(S11) \in Elems(S11)  BY <1>2, <2>2, ElemsTail
    <3>2. Head(S11).ip <= Len(sessions) /\ Head(S11).val < sgw.next
      BY <1>1, <2>2, <3>1 DEF FreshInv
    <3>3. QED  BY <2>2, <3>2
  <2>3. QED  BY <2>1, <2>2, ServedEffect
<1>9. QED  BY <1>5, <1>6, <1>7, <1>8 DEF FreshInv

(* Answers stay apart: each hands on an address that leaves the queue before. *)
LEMMA AnswersStep ==
  ASSUME TypeOK, AddrInv, CoreKind
  PROVE  AnswersInv'
<1>1. FreshInv /\ AnswersInv  BY DEF AddrInv
<1>2. /\ S5 \in Seq(Msg) /\ S11 \in Seq(Msg) /\ Len(sessions) \in Nat /\ sgw.next \in Nat
      /\ \A m \in Elems(S5) \cup Elems(S11) : m.ip \in Nat /\ m.val \in Nat
  BY CoreFacts
<1>3. SgwAnswers => /\ Head(S5) \in Elems(S5) /\ sgw.busy /\ ~sgw'.busy
                    /\ S5 # << >> /\ S5' = Tail(S5)
  BY <1>2, ElemsTail DEF SgwAnswers, Takes, S5
<1>4. Apart(S5, FALSE) /\ Apart(S11, TRUE)  BY <1>1 DEF AnswersInv
<1>5. \A m : m.ip = 0 => \A n : Clear(m, n, FALSE) /\ Clear(n, m, FALSE) /\ Clear(n, m, TRUE)
  BY DEF Clear
<1>6. \A n \in Elems(S5) \cup Elems(S11) : \A m : m.ip = Len(sessions) + 1 =>
        Clear(m, n, FALSE) /\ Clear(n, m, FALSE)
  <2>1. \A n \in Elems(S5) \cup Elems(S11) : n.ip <= Len(sessions)
    BY <1>1 DEF FreshInv
  <2>2. QED  BY <1>2, <2>1 DEF Clear
<1>7. \A n \in Elems(S11) : \A m : SgwAnswers /\ m.ip = Head(S5).ip /\ m.val = sgw.s1u =>
        Clear(n, m, TRUE)
  <2> SUFFICES ASSUME NEW n \in Elems(S11), NEW m, SgwAnswers, m.ip = Head(S5).ip,
                      m.val = sgw.s1u
               PROVE  Clear(n, m, TRUE)
    OBVIOUS
  <2>1. Clear(Head(S5), n, FALSE)  BY <1>1, <1>3 DEF AnswersInv
  <2>2. n.ip # 0 => n.val # sgw.s1u  BY <1>1, <1>3 DEF AnswersInv
  <2>3. QED  BY <2>1, <2>2 DEF Clear
<1> USE DEF Only, CoreQueue, Takes
<1>8. Apart(S5', FALSE)
  <2>1. CASE S5' = S5  BY <1>4, <2>1
  <2>2. CASE SgwAnswers  BY <1>2, <1>3, <1>4, <2>2, ApartTail
  <2>3. CASE PgwAllocates
    <3>1. PICK n \in Msg : n.ip = Len(sessions) + 1 /\ S5' = Append(S5, n)
      BY <2>3 DEF PgwAllocates, S5
    <3>2. QED  BY <1>2, <1>4, <1>6, <3>1, ApartAppend
  <2>4. CASE \E n \in Msg : n.ip = 0 /\ S5' = Append(S5, n)
    <3>1. PICK n \in Msg : n.ip = 0 /\ S5' = Append(S5, n)  BY <2>4
    <3>2. QED  BY <1>2, <1>4, <1>5, <3>1, ApartAppend
  <2>5. QED
    BY <2>1, <2>2, <2>3, <2>4 DEF CoreKind, CoreRests, MmeAsks, MmeTakes, SgwForwards,
       SgwModifies, PgwTakes, CoreTimesOut, S5
<1>9. Apart(S11', TRUE)
  <2>1. CASE S11' = S11  BY <1>4, <2>1
  <2>2. CASE MmeTakes
    <3>1. S11 # << >> /\ S11' = Tail(S11)  BY <2>2 DEF MmeTakes, S11
    <3>2. QED  BY <1>2, <1>4, <3>1, ApartTail
  <2>3. CASE SgwModifies
    <3>1. PICK n \in Msg : n.ip = 0 /\ S11' = Append(S11, n)  BY <2>3 DEF SgwModifies, S11
    <3>2. QED  BY <1>2, <1>4, <1>5, <3>1, ApartAppend
  <2>4. CASE SgwAnswers /\ Head(S5).cause = Accepted /\ Head(S5).ip # 0
    <3>1. PICK n \in Msg : n.ip = Head(S5).ip /\ n.val = sgw.s1u /\ S11' = Append(S11, n)
      BY <2>4 DEF SgwAnswers, S5, S11
    <3>2. QED  BY <1>2, <1>4, <1>7, <2>4, <3>1, ApartAppend
  <2>5. CASE SgwAnswers /\ ~(Head(S5).cause = Accepted /\ Head(S5).ip # 0)
    BY <2>1, <2>5 DEF SgwAnswers, S5, S11
  <2>6. QED
    BY <2>1, <2>2, <2>3, <2>4, <2>5 DEF CoreKind, CoreRests, MmeAsks, SgwForwards,
       CoreTimesOut, PgwTakes, PgwAllocates, S11
<1>10. ASSUME NEW m \in Elems(S5'), NEW n \in Elems(S11') PROVE Clear(m, n, FALSE)
  <2>1. CASE m.ip = 0 \/ n.ip = 0  BY <1>5, <2>1
  <2>2. CASE m \in Elems(S5) /\ n \in Elems(S11)  BY <1>1, <2>2 DEF AnswersInv
  <2>3. CASE m.ip = Len(sessions) + 1 /\ n \in Elems(S11)  BY <1>6, <2>3
  <2>4. CASE SgwAnswers /\ n.ip = Head(S5).ip
    <3>1. S5 # << >> /\ m \in Elems(Tail(S5))  BY <1>3, <1>10, <2>4
    <3>2. Clear(Head(S5), m, FALSE)  BY <1>2, <1>4, <3>1, ApartTail
    <3>3. QED  BY <2>4, <3>2 DEF Clear
  <2>5. QED  BY <2>1, <2>2, <2>3, <2>4, CoreEffect
<1>11. ASSUME NEW m \in Elems(S11'), m.ip # 0, sgw'.busy PROVE m.val # sgw'.s1u
  <2>1. m \in Elems(S11)  BY <1>3, <1>11, CoreEffect
  <2>2. CASE sgw.busy /\ sgw'.s1u = sgw.s1u  BY <1>1, <1>11, <2>1, <2>2 DEF AnswersInv
  <2>3. CASE sgw'.s1u = sgw.next + 1
    <3>1. m.val < sgw.next /\ m.val \in Nat  BY <1>1, <1>2, <1>11, <2>1 DEF FreshInv
    <3>2. QED  BY <1>2, <2>3, <3>1
  <2>4. QED  BY <1>11, <2>2, <2>3, CoreEffect
<1>12. QED  BY <1>8, <1>9, <1>10, <1>11 DEF AnswersInv

(* A bearer's address and tunnel are not given again. *)
LEMMA AloneStep ==
  ASSUME TypeOK, AttachInv, AddrInv, StepKind, CoreKind, NEW k \in Served'
  PROVE  Alone(k)'
<1>1. FreshInv /\ AnswersInv  BY DEF AddrInv
<1>2. /\ S5 \in Seq(Msg) /\ S11 \in Seq(Msg) /\ Len(sessions) \in Nat /\ sgw.next \in Nat
      /\ \A m \in Elems(S5) \cup Elems(S11) : m.ip \in Nat /\ m.val \in Nat
  BY CoreFacts
<1>3. SgwAnswers => Head(S5) \in Elems(S5) /\ sgw.busy /\ ~sgw'.busy
  BY <1>2, ElemsTail DEF SgwAnswers, Takes, S5
<1>4. ASSUME NEW i, NEW u, i = Ip(k)', u = S1u(k)',
             \A m \in Elems(S5') \cup Elems(S11') : m.ip # i,
             \A m \in Elems(S11') : m.ip # 0 => m.val # u,
             sgw'.busy => sgw'.s1u # u
      PROVE  Alone(k)'
  BY <1>4 DEF Alone
<1>5. CASE k \in Served /\ Ip(k)' = Ip(k) /\ S1u(k)' = S1u(k)
  <2>1. PICK i, u : i = Ip(k) /\ u = S1u(k)  OBVIOUS
  <2>2. i \in Nat /\ u \in Nat /\ i # 0
    <3>1. HasBearer(k) /\ Ip(k) \in Nat /\ S1u(k) \in Nat  BY <1>5, CoreFacts
    <3>2. Bound(k)  BY <3>1, BearerKept
    <3>3. QED  BY <2>1, <3>1, <3>2 DEF Bound, Ip
  <2>3. i <= Len(sessions) /\ u < sgw.next  BY <1>1, <1>5, <2>1 DEF FreshInv
  <2>4. /\ \A m \in Elems(S5) \cup Elems(S11) : m.ip # i
        /\ \A m \in Elems(S11) : m.ip # 0 => m.val # u
        /\ sgw.busy => sgw.s1u # u
    BY <1>5, <2>1 DEF AddrInv, Alone
  <2>5. ASSUME NEW m \in Elems(S5') PROVE m.ip # i
    <3>1. CASE m.ip = Len(sessions) + 1  BY <1>2, <2>2, <2>3, <3>1
    <3>2. QED  BY <2>2, <2>4, <3>1, CoreEffect
  <2>6. ASSUME NEW m \in Elems(S11') PROVE m.ip # i /\ (m.ip # 0 => m.val # u)
    BY <1>3, <2>2, <2>4, CoreEffect
  <2>7. sgw'.busy => sgw'.s1u # u
    <3>1. CASE sgw'.s1u = sgw.next + 1  BY <1>2, <2>2, <2>3, <3>1
    <3>2. QED  BY <2>4, <3>1, CoreEffect
  <2>8. QED  BY <1>4, <1>5, <2>1, <2>5, <2>6, <2>7
<1>6. CASE /\ Ip(k)' = Head(S11).ip /\ S1u(k)' = Head(S11).val
           /\ Head(S11).ip # 0 /\ S11 # << >> /\ S11' = Tail(S11) /\ S5' = S5
           /\ UNCHANGED <<sgw, sessions>>
  <2> DEFINE h == Head(S11)
  <2>1. h \in Elems(S11)  BY <1>2, <1>6, ElemsTail
  <2>2. \A m \in Elems(S5') : m.ip # h.ip
    <3>1. \A m \in Elems(S5) : Clear(m, h, FALSE)  BY <1>1, <2>1 DEF AnswersInv
    <3>2. QED  BY <1>6, <3>1 DEF Clear
  <2>3. \A m \in Elems(S11') : m.ip # h.ip /\ (m.ip # 0 => m.val # h.val)
    <3>1. \A m \in Elems(S11') : Clear(h, m, TRUE)
      <4>1. Apart(S11, TRUE)  BY <1>1 DEF AnswersInv
      <4>2. QED  BY <1>2, <1>6, <4>1, ApartTail
    <3>2. QED  BY <1>6, <3>1 DEF Clear
  <2>4. sgw'.busy => sgw'.s1u # h.val  BY <1>1, <1>6, <2>1 DEF AnswersInv
  <2> HIDE DEF h
  <2>5. Ip(k)' = h.ip /\ S1u(k)' = h.val  BY <1>6 DEF h
  <2>6. QED  BY <1>4, <2>2, <2>3, <2>4, <2>5
<1>7. QED  BY <1>5, <1>6, ServedEffect

(* The invariant survives every step. *)
LEMMA AddrStep ==
  ASSUME TypeOK, AttachInv, AddrInv, StepKind, CoreKind
  PROVE  AddrInv'
<1>1. ASSUME NEW j \in Served', NEW k \in Served', j # k, k \in Served, Ip(k)' = Ip(k),
             S1u(k)' = S1u(k)
      PROVE  Ip(j)' # Ip(k)' /\ S1u(j)' # S1u(k)'
  <2>1. CASE j \in Served /\ Ip(j)' = Ip(j) /\ S1u(j)' = S1u(j)
    <3>1. Ip(j) # Ip(k) /\ S1u(j) # S1u(k)  BY <1>1, <2>1 DEF AddrInv
    <3>2. QED  BY <1>1, <2>1, <3>1
  <2>2. CASE /\ Ip(j)' = Head(S11).ip /\ S1u(j)' = Head(S11).val
             /\ Head(S11).ip # 0 /\ S11 # << >>
    <3>1. Head(S11) \in Elems(S11)  BY <2>2, CoreFacts, ElemsTail
    <3>2. Head(S11).ip # Ip(k) /\ Head(S11).val # S1u(k)
      BY <1>1, <2>2, <3>1 DEF AddrInv, Alone
    <3>3. QED  BY <1>1, <2>2, <3>2
  <2>3. QED  BY <2>1, <2>2, ServedEffect
<1>2. ASSUME NEW j \in Served', NEW k \in Served', j # k
      PROVE  Ip(j)' # Ip(k)' /\ S1u(j)' # S1u(k)'
  <2>1. CASE k \in Served /\ Ip(k)' = Ip(k) /\ S1u(k)' = S1u(k)  BY <1>1, <1>2, <2>1
  <2>2. CASE j \in Served /\ Ip(j)' = Ip(j) /\ S1u(j)' = S1u(j)
    <3>1. Ip(k)' # Ip(j)' /\ S1u(k)' # S1u(j)'  BY <1>1, <1>2, <2>2
    <3>2. QED  BY <3>1
  <2>3. CASE j = mme.id /\ k = mme.id  BY <1>2, <2>3
  <2>4. QED  BY <2>1, <2>2, <2>3, ServedEffect
<1>3. FreshInv' /\ AnswersInv'  BY FreshStep, AnswersStep
<1>4. \A k \in Served' : Alone(k)'  BY AloneStep
<1>5. QED  BY <1>2, <1>3, <1>4 DEF AddrInv

(* No two UEs share an address or an S-GW tunnel, even when answers reach *)
(* the MME late, or reach it for a request that has timed out.            *)
THEOREM SessionsAlwaysDisjoint == Spec => []SessionsDisjoint
<1>1. Init => AddrInv
  <2> SUFFICES ASSUME Init PROVE AddrInv
    OBVIOUS
  <2>1. S5 = << >> /\ S11 = << >> /\ ue = << >> /\ ~sgw.busy
    BY DEF Init, MmeInit, ServersInit, NoSession, S5, S11, Channel
  <2>2. \A i : i \notin DOMAIN << >>  OBVIOUS
  <2>3. Elems(<< >>) = {} /\ Served = {}  BY <2>1, <2>2 DEF Elems, Served
  <2>4. Apart(<< >>, FALSE) /\ Apart(<< >>, TRUE)  BY <2>2 DEF Apart
  <2>5. QED  BY <2>1, <2>3, <2>4 DEF AddrInv, FreshInv, AnswersInv
<1>2. TypeOK /\ IdsInv /\ AttachInv /\ AddrInv /\ [Next]_vars => AddrInv'
  BY StepKinds, CoreKinds, AddrStep
<1>3. AddrInv => SessionsDisjoint
  BY DEF AddrInv, SessionsDisjoint, Ip, S1u
<1>4. QED
  BY <1>1, <1>2, <1>3, TypeCorrect, NumberingInvariant, AttachInvariant, PTL DEF Spec
----------------------------------------------------------------------------
(***************************************************************************)
(* Whose session: as long as nothing has timed out, there is at most one   *)
(* request or answer between the MME and the S-GW, and between the S-GW    *)
(* and the P-GW, and it belongs to the UE mme_th is blocked on.  Answers   *)
(* are matched to requests by nothing but this.                            *)
(***************************************************************************)
R5  == chan["s5Req"]
R11 == chan["s11Req"]
Own(ip, imsi) == ip \in DOMAIN sessions /\ sessions[ip] = imsi

S11Chain ==
  \/ ~Waits(mme) /\ R11 = << >> /\ S11 = << >> /\ ~sgw.busy
  \/ /\ Waits(mme) /\ S11 = << >> /\ ~sgw.busy
     /\ \E m \in Msg : /\ R11 = <<m>>
                       /\ IF mme.pc = "create" THEN m.type = "CreateReq" /\ m.imsi = mme.imsi
                                               ELSE m.type = "ModifyReq"
  \/ /\ Waits(mme) /\ R11 = << >> /\ ~sgw.busy
     /\ \E m \in Msg : /\ S11 = <<m>>
                       /\ mme.pc = "create" => m.cause = Accepted /\ Own(m.ip, mme.imsi)
  \/ /\ mme.pc = "create" /\ R11 = << >> /\ S11 = << >> /\ sgw.busy /\ sgw.imsi = mme.imsi

S5Chain ==
  \/ ~sgw.busy /\ R5 = << >> /\ S5 = << >> /\ ~pgw.busy
  \/ /\ sgw.busy /\ S5 = << >> /\ ~pgw.busy
     /\ \E m \in Msg : R5 = <<m>> /\ m.imsi = sgw.imsi
  \/ sgw.busy /\ R5 = << >> /\ S5 = << >> /\ pgw.busy /\ pgw.imsi = sgw.imsi
  \/ /\ sgw.busy /\ R5 = << >> /\ ~pgw.busy
     /\ \E m \in Msg : S5 = <<m>> /\ m.cause = Accepted /\ Own(m.ip, sgw.imsi)

OwnInv ==
  timeouts = 0 => S11Chain /\ S5Chain /\ \A k \in Served : Own(Ip(k), k)

(* A queue of one message. *)
LEMMA Single ==
  ASSUME NEW m \in Msg
  PROVE  /\ Append(<< >>, m) = <<m>> /\ Tail(<<m>>) = << >> /\ Head(<<m>>) = m
         /\ <<m>> # << >>
  OBVIOUS

(* The P-GW never takes an address back. *)
LEMMA OwnForGood ==
  ASSUME TypeOK, CoreKind, NEW ip, NEW i, Own(ip, i)
  PROVE  Own(ip, i)'
<1>1. sessions \in Seq(Nat) /\ pgw.imsi \in Nat  BY CoreFacts
<1>2. CASE UNCHANGED sessions  BY <1>2 DEF Own
<1>3. CASE PgwAllocates
  <2>1. sessions' = Append(sessions, pgw.imsi)  BY <1>3 DEF PgwAllocates
  <2>2. QED  BY <1>1, <2>1 DEF Own
<1>4. QED
  BY <1>2, <1>3 DEF CoreKind, CoreRests, MmeAsks, MmeTakes, SgwForwards, SgwAnswers,
     SgwModifies, PgwTakes, CoreTimesOut

(* Without a time-out, each step hands the one request or answer on. *)
LEMMA ChainStep ==
  ASSUME TypeOK, CoreKind, S11Chain, S5Chain, timeouts' = 0
  PROVE  S11Chain' /\ S5Chain'
<1>1. timeouts \in Nat /\ sessions \in Seq(Nat) /\ pgw.imsi \in Nat /\ Len(sessions) \in Nat
  BY CoreFacts
<1>2. ~CoreTimesOut  BY <1>1 DEF CoreTimesOut
<1>3. \A ip, i : Own(ip, i) => Own(ip, i)'  BY OwnForGood
<1>4. ~Waits(MmeIdle)  BY DEF Waits, MmeIdle
<1>5. ASSUME UNCHANGED <<sgw, mme>>, R11' = R11, S11' = S11 PROVE S11Chain'
  BY <1>3, <1>5 DEF S11Chain
<1>6. ASSUME UNCHANGED <<sgw, pgw>>, R5' = R5, S5' = S5 PROVE S5Chain'
  BY <1>3, <1>6 DEF S5Chain
<1>7. CASE CoreRests
  <2>1. R11' = R11 /\ S11' = S11 /\ R5' = R5 /\ S5' = S5 /\ UNCHANGED <<sgw, pgw>>
    BY <1>7 DEF CoreRests, Only, CoreQueue, R11, S11, R5, S5
  <2>2. CASE mme' = mme  BY <1>5, <1>6, <2>1, <2>2
  <2>3. CASE ~Waits(mme) /\ ~Waits(mme')
    <3>1. R11 = << >> /\ S11 = << >> /\ ~sgw.busy  BY <2>3 DEF S11Chain, Waits
    <3>2. S11Chain'  BY <2>1, <2>3, <3>1 DEF S11Chain
    <3>3. QED  BY <1>6, <2>1, <3>2
  <2>4. QED  BY <1>7, <2>2, <2>3 DEF CoreRests
<1>8. CASE MmeAsks
  <2>1. S11' = S11 /\ R5' = R5 /\ S5' = S5 /\ UNCHANGED <<sgw, pgw>> /\ mme.pc = "idle"
        /\ Waits(mme')
    BY <1>8 DEF MmeAsks, Only, CoreQueue, S11, R5, S5
  <2>2. PICK m \in Msg : /\ IF mme'.pc = "create" THEN m.type = "CreateReq" /\ m.imsi = mme'.imsi
                                                  ELSE m.type = "ModifyReq"
                         /\ R11' = Append(R11, m)
    BY <1>8 DEF MmeAsks, R11
  <2>3. R11 = << >> /\ S11 = << >> /\ ~sgw.busy  BY <2>1 DEF S11Chain, Waits
  <2>4. R11' = <<m>>  BY <2>2, <2>3, Single
  <2>5. S11Chain'  BY <2>1, <2>2, <2>3, <2>4 DEF S11Chain
  <2>6. QED  BY <1>6, <2>1, <2>5
<1>9. CASE MmeTakes
  <2>1. /\ R11' = R11 /\ R5' = R5 /\ S5' = S5 /\ UNCHANGED <<sgw, pgw>> /\ mme' = MmeIdle
        /\ S11 # << >> /\ S11' = Tail(S11)
    BY <1>9 DEF MmeTakes, Takes, Only, CoreQueue, R11, S11, R5, S5
  <2>2. R11 = << >> /\ ~sgw.busy /\ \E m \in Msg : S11 = <<m>>  BY <2>1 DEF S11Chain
  <2>3. S11' = << >>  BY <2>1, <2>2, Single
  <2>4. S11Chain'  BY <1>4, <2>1, <2>2, <2>3 DEF S11Chain
  <2>5. QED  BY <1>6, <2>1, <2>4
<1>10. CASE SgwForwards
  <2>1. /\ S11' = S11 /\ S5' = S5 /\ UNCHANGED <<mme, pgw>> /\ ~sgw.busy
        /\ R11 # << >> /\ R11' = Tail(R11) /\ Head(R11).type = "CreateReq"
        /\ sgw'.busy /\ sgw'.imsi = Head(R11).imsi
    BY <1>10 DEF SgwForwards, Takes, Only, CoreQueue, R11, S11, S5
  <2>2. PICK n \in Msg : n.imsi = Head(R11).imsi /\ R5' = Append(R5, n)
    BY <1>10 DEF SgwForwards, R11, R5
  <2>3. PICK m \in Msg : /\ R11 = <<m>>
                         /\ IF mme.pc = "create" THEN m.type = "CreateReq" /\ m.imsi = mme.imsi
                                                 ELSE m.type = "ModifyReq"
    BY <2>1 DEF S11Chain
  <2>4. S11 = << >>  BY <2>1 DEF S11Chain
  <2>5. Head(R11) = m /\ R11' = << >>  BY <2>1, <2>3, Single
  <2>6. mme.pc = "create" /\ m.imsi = mme.imsi  BY <2>1, <2>3, <2>5
  <2>7. S11Chain'  BY <2>1, <2>4, <2>5, <2>6 DEF S11Chain
  <2>8. R5 = << >> /\ S5 = << >> /\ ~pgw.busy  BY <2>1 DEF S5Chain
  <2>9. R5' = <<n>>  BY <2>2, <2>8, Single
  <2>10. S5Chain'  BY <2>1, <2>2, <2>8, <2>9 DEF S5Chain
  <2>11. QED  BY <2>7, <2>10
<1>11. CASE SgwAnswers
  <2>1. /\ R11' = R11 /\ R5' = R5 /\ UNCHANGED <<mme, pgw>> /\ sgw.busy /\ ~sgw'.busy
        /\ S5 # << >> /\ S5' = Tail(S5)
    BY <1>11 DEF SgwAnswers, Takes, Only, CoreQueue, R11, R5, S5
  <2>2. PICK r \in Msg : S5 = <<r>> /\ r.cause = Accepted /\ Own(r.ip, sgw.imsi)
    BY <2>1 DEF S5Chain
  <2>3. R5 = << >> /\ ~pgw.busy  BY <2>1 DEF S5Chain
  <2>4. Head(S5) = r /\ S5' = << >>  BY <2>1, <2>2, Single
  <2>5. r.ip # 0  BY <1>1, <2>2 DEF Own
  <2>6. PICK n \in Msg : n.ip = r.ip /\ n.cause = Accepted /\ S11' = Append(S11, n)
    BY <1>11, <2>2, <2>4, <2>5 DEF SgwAnswers, S5, S11
  <2>7. mme.pc = "create" /\ R11 = << >> /\ S11 = << >> /\ sgw.imsi = mme.imsi
    BY <2>1 DEF S11Chain
  <2>8. S11' = <<n>>  BY <2>6, <2>7, Single
  <2>9. Own(n.ip, mme.imsi)
    BY <2>2, <2>6, <2>7
  <2>10. Waits(mme)  BY <2>7 DEF Waits
  <2>11. PICK p, i : p = n.ip /\ i = mme.imsi  OBVIOUS
  <2>12. Own(p, i)'  BY <1>3, <2>9, <2>11
  <2>13. S11Chain'
    <3>1. Own(n.ip, mme.imsi)'  BY <2>1, <2>11, <2>12 DEF Own
    <3>2. QED  BY <2>1, <2>6, <2>7, <2>8, <2>10, <3>1 DEF S11Chain
  <2>14. S5Chain'  BY <2>1, <2>3, <2>4 DEF S5Chain
  <2>15. QED  BY <2>13, <2>14
<1>12. CASE SgwModifies
  <2>1. /\ R5' = R5 /\ S5' = S5 /\ UNCHANGED <<mme, sgw, pgw>> /\ ~sgw.busy
        /\ R11 # << >> /\ R11' = Tail(R11) /\ Head(R11).type = "ModifyReq"
    BY <1>12 DEF SgwModifies, Takes, Only, CoreQueue, R11, R5, S5
  <2>2. PICK n \in Msg : S11' = Append(S11, n)  BY <1>12 DEF SgwModifies, S11
  <2>3. PICK m \in Msg : /\ R11 = <<m>>
                         /\ IF mme.pc = "create" THEN m.type = "CreateReq" /\ m.imsi = mme.imsi
                                                 ELSE m.type = "ModifyReq"
    BY <2>1 DEF S11Chain
  <2>4. S11 = << >> /\ Waits(mme)  BY <2>1 DEF S11Chain
  <2>5. Head(R11) = m /\ R11' = << >> /\ S11' = <<n>>  BY <2>1, <2>2, <2>3, <2>4, Single
  <2>6. mme.pc # "create"  BY <2>1, <2>3, <2>5
  <2>7. S11Chain'  BY <2>1, <2>4, <2>5, <2>6 DEF S11Chain
  <2>8. QED  BY <1>6, <2>1, <2>7
<1>13. CASE PgwTakes
  <2>1. /\ R11' = R11 /\ S11' = S11 /\ S5' = S5 /\ UNCHANGED <<mme, sgw>> /\ ~pgw.busy
        /\ R5 # << >> /\ R5' = Tail(R5) /\ pgw'.busy /\ pgw'.imsi = Head(R5).imsi
    BY <1>13 DEF PgwTakes, Takes, Only, CoreQueue, R11, S11, R5, S5
  <2>2. PICK m \in Msg : R5 = <<m>> /\ m.imsi = sgw.imsi  BY <2>1 DEF S5Chain
  <2>3. sgw.busy /\ S5 = << >>  BY <2>1 DEF S5Chain
  <2>4. Head(R5) = m /\ R5' = << >>  BY <2>1, <2>2, Single
  <2>5. S5Chain'  BY <2>1, <2>2, <2>3, <2>4 DEF S5Chain
  <2>6. QED  BY <1>5, <2>1, <2>5
<1>14. CASE PgwAllocates
  <2>1. /\ R11' = R11 /\ S11' = S11 /\ R5' = R5 /\ UNCHANGED <<mme, sgw>>
        /\ pgw.busy /\ ~pgw'.busy /\ sessions' = Append(sessions, pgw.imsi)
    BY <1>14 DEF PgwAllocates, Only, CoreQueue, R11, S11, R5
  <2>2. PICK m \in Msg : m.ip = Len(sessions) + 1 /\ m.cause = Accepted /\ S5' = Append(S5, m)
    BY <1>14 DEF PgwAllocates, S5
  <2>3. sgw.busy /\ R5 = << >> /\ S5 = << >> /\ pgw.imsi = sgw.imsi  BY <2>1 DEF S5Chain
  <2>4. S5' = <<m>>  BY <2>2, <2>3, Single
  <2>5. m.ip \in DOMAIN sessions' /\ sessions'[m.ip] = pgw.imsi  BY <1>1, <2>1, <2>2
  <2>6. Own(m.ip, sgw.imsi)'  BY <2>1, <2>3, <2>5 DEF Own
  <2>7. S5Chain'  BY <2>1, <2>2, <2>3, <2>4, <2>6 DEF S5Chain
  <2>8. QED  BY <1>5, <2>1, <2>7
<1>15. QED
  BY <1>2, <1>7, <1>8, <1>9, <1>10, <1>11, <1>12, <1>13, <1>14 DEF CoreKind

(* The one request or answer of the chain is always the one mme_th waits    *)
(* for, as long as nothing has timed out.                                   *)
THEOREM ChainInvariant == Spec => []OwnInv
<1>1. Init => OwnInv
  <2> SUFFICES ASSUME Init PROVE OwnInv
    OBVIOUS
  <2>1. /\ R11 = << >> /\ S11 = << >> /\ R5 = << >> /\ S5 = << >> /\ ue = << >>
        /\ ~sgw.busy /\ ~pgw.busy /\ mme.pc = "idle"
    BY DEF Init, MmeInit, ServersInit, NoSession, PgwIdle, MmeIdle, R11, S11, R5, S5, Channel
  <2>2. Served = {}  BY <2>1 DEF Served
  <2>3. ~Waits(mme)  BY <2>1 DEF Waits
  <2>4. QED  BY <2>1, <2>2, <2>3 DEF OwnInv, S11Chain, S5Chain
<1>2. TypeOK /\ IdsInv /\ AttachInv /\ OwnInv /\ [Next]_vars => OwnInv'
  <2> SUFFICES ASSUME TypeOK, IdsInv, AttachInv, OwnInv, [Next]_vars, timeouts' = 0
               PROVE  S11Chain' /\ S5Chain' /\ \A k \in Served' : Own(Ip(k), k)'
    BY DEF OwnInv
  <2>1. StepKind /\ CoreKind  BY StepKinds, CoreKinds
  <2>2. timeouts \in Nat  BY CoreFacts
  <2>3. timeouts = 0
    BY <2>1, <2>2 DEF CoreKind, CoreRests, MmeAsks, MmeTakes, SgwForwards, SgwAnswers,
       SgwModifies, PgwTakes, PgwAllocates, CoreTimesOut
  <2>4. S11Chain /\ S5Chain /\ \A k \in Served : Own(Ip(k), k)  BY <2>3 DEF OwnInv
  <2>5. ASSUME NEW k \in Served' PROVE Own(Ip(k), k)'
    <3>1. PICK p : p = Ip(k)'  OBVIOUS
    <3>2. CASE k \in Served /\ Ip(k)' = Ip(k)
      <4>1. Own(p, k)  BY <2>4, <3>1, <3>2
      <4>2. Own(p, k)'  BY <2>1, <4>1, OwnForGood
      <4>3. QED  BY <3>1, <4>2 DEF Own
    <3>3. CASE k = mme.id /\ mme.pc = "create" /\ Ip(k)' = Head(S11).ip /\ S11 # << >>
      <4>1. mme.imsi = k  BY <3>3 DEF AttachInv, CallInv
      <4>2. PICK m \in Msg : S11 = <<m>> /\ Own(m.ip, mme.imsi)  BY <2>4, <3>3 DEF S11Chain
      <4>3. Own(p, k)  BY <3>1, <3>3, <4>1, <4>2, Single
      <4>4. Own(p, k)'  BY <2>1, <4>3, OwnForGood
      <4>5. QED  BY <3>1, <4>4 DEF Own
    <3>4. QED  BY <2>1, <3>2, <3>3, ServedEffect
  <2>6. S11Chain' /\ S5Chain'  BY <2>1, <2>4, ChainStep
  <2>7. QED  BY <2>5, <2>6
<1>3. QED  BY <1>1, <1>2, TypeCorrect, NumberingInvariant, AttachInvariant, PTL DEF Spec

(* As long as nothing has timed out, every UE holds the address the P-GW   *)
(* allocated for its own IMSI, although sendCreateSession takes whatever   *)
(* datagram arrives for the answer.                                        *)
THEOREM SessionAlwaysOwn == Spec => []OwnSession
<1>1. IdsInv /\ OwnInv => OwnSession
  <2> SUFFICES ASSUME IdsInv, OwnInv, timeouts = 0, NEW k \in Served
               PROVE  sessions[ue[k].bearers[1].ip] = ue[k].imsi
    BY DEF OwnSession
  <2>1. k \in DOMAIN ue  BY DEF Served
  <2>2. ue[k].imsi = k  BY <2>1 DEF IdsInv
  <2>3. QED  BY <2>2 DEF OwnInv, Own, Ip
<1>2. QED  BY <1>1, NumberingInvariant, ChainInvariant, PTL
----------------------------------------------------------------------------
(***************************************************************************)
(* What a dropped answer costs.  Every UE that is not registered is owed   *)
(* something: its vector while mme_th waits for it, its challenge or its   *)
(* response, and, as long as nothing has timed out, the rest of its attach *)
(* procedure; the exceptions are the UEs whose challenge was dropped.      *)
(***************************************************************************)
VectorDue ==
  mme.pc = "auth" =>
    \/ \E m \in Elems(chan["s6aReq"]) \cup Elems(chan["s6aAns"]) : m.imsi = mme.imsi
    \/ \E av \in pendingAuth : av.imsi = mme.imsi

PolicyDue == pgw.busy => chan["gxReq"] # << >> \/ chan["gxAns"] # << >>

(* Challenges and responses are those of the UE they are about. *)
AuthVals ==
  /\ \A m \in Elems(Dl) : m.type = "AuthReq" => m.val = m.mme
  /\ \A m \in Elems(Ul) : m.type = "AuthRsp" => m.val = Response(m.mme)

AuthDue(k) ==
  \/ \E m \in Elems(Dl) : m.type = "AuthReq" /\ m.mme = k
  \/ \E m \in Elems(Ul) : m.type = "AuthRsp" /\ m.mme = k

Lost == {k \in DOMAIN ue : ue[k].emm = "AUTH_PENDING" /\ ~AuthDue(k)}

CompleteDue(k) ==
  \/ mme.pc = "create" /\ mme.id = k
  \/ \E m \in Elems(Dl) : m.type = "IcsReq" /\ m.mme = k
  \/ rxPending.type = "AttachCmpl" /\ rxPending.mme = k
  \/ \E m \in Elems(Ul) : m.type = "AttachCmpl" /\ m.mme = k

StartedInv ==
  \A k \in DOMAIN ue : ue[k].emm = "REGISTERED_INITIATED" => mme.pc = "auth" /\ mme.id = k

PendingInv ==
  timeouts = 0 => \A k \in DOMAIN ue : ue[k].emm = "SESSION_PENDING" => CompleteDue(k)

LostInv == IsFiniteSet(Lost) /\ Cardinality(Lost) <= drops

DueInv == VectorDue /\ PolicyDue /\ AuthVals /\ StartedInv /\ PendingInv /\ LostInv

(* An AIR is answered, an answer is stored, and only mme_th takes it out. *)
LEMMA VectorDueStep ==
  ASSUME TypeOK, VectorDue, [Next]_vars
  PROVE  VectorDue'
<1> DEFINE Q == chan["s6aReq"]
           A == chan["s6aAns"]
<1>1. ChanOK  BY DEF TypeOK, ChanOK
<1>2. Q \in Seq(Msg) /\ A \in Seq(Msg)  BY <1>1 DEF ChanOK, Channel
<1>3. ASSUME chan'["s6aReq"] = Q, chan'["s6aAns"] = A, UNCHANGED <<mme, pendingAuth>>
      PROVE  VectorDue'
  BY <1>3 DEF VectorDue
<1>4. ASSUME mme'.pc # "auth" PROVE VectorDue'  BY <1>4 DEF VectorDue
<1>5. CASE UNCHANGED vars  BY <1>3, <1>5 DEF vars, mmeVars
<1>6. CASE Cli  BY <1>3, <1>6 DEF Cli, CliAttach, CliMobility, mmeVars
<1>7. CASE EnbCommandThread \/ EnbReceiveThread
  <2>1. chan'["s6aAns"] = A /\ chan'["s6aReq"] = Q  BY <1>1, <1>7, EnbKeeps DEF Channel
  <2>2. UNCHANGED <<mme, pendingAuth>>
    BY <1>7 DEF EnbCommandThread, EnbReceiveThread, TakeCommand, SendInitialUEMessage,
       SendTauRequest, SendHandoverRequired, HandleAuthRequest, HandleSecModeCommand,
       HandleICSR, SendAttachComplete, HandleTauAccept, HandleHoRequest, HandleHoCommand,
       HandleMmeStatusXfer, HandleUeCtxRelCmd, mmeVars
  <2>3. QED  BY <1>3, <2>1, <2>2
<1>8. CASE HandleInitialUEMsg
  <2> DEFINE h == Head(chan["s1ul"])
             n == About("AIR", h.imsi)
  <2>1. chan["s1ul"] # << >>  BY <1>8 DEF HandleInitialUEMsg, MmeReady, Got
  <2>2. h \in Msg  BY <1>1, <2>1, HeadMsg DEF Channel
  <2>3. h.imsi \in Nat  BY <2>2 DEF Msg
  <2>4. n \in Msg  BY <2>3, MsgAbout DEF CoreType
  <2>5. n.imsi = h.imsi  BY DEF About, Blank
  <2>6. Reply("s1ul", "s6aReq", n) /\ mme'.imsi = h.imsi  BY <1>8 DEF HandleInitialUEMsg
  <2> HIDE DEF n
  <2>7. chan'["s6aReq"] = Append(Q, n)  BY <1>1, <2>6, ReplyEffect DEF Channel
  <2>8. n \in Elems(chan'["s6aReq"])  BY <1>2, <2>4, <2>7, ElemsAppend
  <2>9. QED  BY <2>5, <2>6, <2>8 DEF VectorDue
<1>9. CASE MmeThread /\ ~HandleInitialUEMsg
  <2>1. mme'.pc # "auth"
    BY <1>9 DEF MmeThread, TakeAuthVector, HandleAuthResponse, CreateSessionRsp,
       HandleSecModeComplete, HandleAttachComplete, HandleICSetupResponse, ModifyBearerRsp,
       HandleTauRequest, HandleHandoverRequired, HandleHandoverRequestAck,
       HandleEnbStatusTransfer, HandleHandoverNotify, PathSwitched, HandleUeContextRelCmpl,
       MmeReady, MmeIdle, mmeVars
  <2>2. QED  BY <1>4, <2>1
<1>10. CASE HssReceive
  <2> DEFINE a == Head(A)
             v == [imsi |-> a.imsi, rand |-> a.val, xres |-> a.xres]
  <2>1. A # << >> /\ UNCHANGED mme  BY <1>10 DEF HssReceive, Got
  <2>2. pendingAuth' = {av \in pendingAuth : av.imsi # a.imsi} \cup {v}
    BY <1>10 DEF HssReceive
  <2>3. v \in pendingAuth' /\ v.imsi = a.imsi  BY <2>2
  <2>4. \A av \in pendingAuth : av.imsi # a.imsi => av \in pendingAuth'  BY <2>2
  <2>5. chan'["s6aAns"] = Tail(A) /\ chan'["s6aReq"] = Q
    BY <1>1, <1>10, ConsumeEffect DEF HssReceive, Channel
  <2>6. \A m \in Elems(A) : m # a => m \in Elems(chan'["s6aAns"])
    BY <1>2, <2>1, <2>5, ElemsTail
  <2> HIDE DEF v
  <2>7. QED  BY <2>1, <2>3, <2>4, <2>5, <2>6 DEF VectorDue
<1>11. CASE HandleAIR
  <2> DEFINE h == Head(Q)
             n == [About("AIA", h.imsi) EXCEPT !.val = h.imsi, !.xres = Response(h.imsi)]
  <2>1. Q # << >> /\ UNCHANGED <<mme, pendingAuth>>  BY <1>11 DEF HandleAIR, Got, mmeVars
  <2>2. h \in Msg  BY <1>1, <2>1, HeadMsg DEF Channel
  <2>3. h.imsi \in Nat  BY <2>2 DEF Msg
  <2>4. n \in Msg
    <3>1. Response(h.imsi) \in Nat  BY <2>3 DEF Response
    <3>2. About("AIA", h.imsi) \in Msg  BY <2>3, MsgAbout DEF CoreType
    <3>3. QED  BY <2>3, <3>1, <3>2 DEF Msg
  <2>5. n.imsi = h.imsi  BY DEF About, Blank
  <2>6. Reply("s6aReq", "s6aAns", n)  BY <1>11 DEF HandleAIR, GenerateAuthVectors
  <2> HIDE DEF n
  <2>7. chan'["s6aReq"] = Tail(Q) /\ chan'["s6aAns"] = Append(A, n)
    BY <1>1, <2>6, ReplyEffect DEF Channel
  <2>8. Elems(chan'["s6aAns"]) = Elems(A) \cup {n}  BY <1>2, <2>4, <2>7, ElemsAppend
  <2>9. \A m \in Elems(Q) : m # h => m \in Elems(chan'["s6aReq"])
    BY <1>2, <2>1, <2>7, ElemsTail
  <2>10. QED  BY <2>1, <2>5, <2>8, <2>9 DEF VectorDue
<1>12. CASE SgwThread \/ PgwThread \/ HandleCCR
  <2>1. UNCHANGED <<mme, pendingAuth>>
    BY <1>12 DEF SgwThread, PgwThread, HandleCCR, SgwCreateSessionReq,
           SgwCreateSessionRsp, SgwModifyBearerReq, PgwCreateSessionReq, PgwApproved, mmeVars
  <2>2. chan'["s6aAns"] = A /\ chan'["s6aReq"] = Q
    <3> USE <1>1 DEF Reply, Consume, ChanOK, Channel
    <3>2. CASE SgwCreateSessionReq  BY <3>2 DEF SgwCreateSessionReq
    <3>3. CASE SgwCreateSessionRsp  BY <3>3 DEF SgwCreateSessionRsp
    <3>4. CASE SgwModifyBearerReq  BY <3>4 DEF SgwModifyBearerReq
    <3>5. CASE PgwCreateSessionReq  BY <3>5 DEF PgwCreateSessionReq
    <3>6. CASE PgwApproved  BY <3>6 DEF PgwApproved
    <3>7. CASE HandleCCR  BY <3>7 DEF HandleCCR
    <3>8. QED  BY <1>12, <3>2, <3>3, <3>4, <3>5, <3>6, <3>7 DEF SgwThread, PgwThread
  <2>3. QED  BY <1>3, <2>1, <2>2
<1>13. CASE MmeTimeout \/ PathSwitchTimeout
  BY <1>4, <1>13 DEF MmeTimeout, PathSwitchTimeout, MmeIdle
<1>14. CASE SgwTimeout \/ PgwTimeout
  <2>1. UNCHANGED <<mme, pendingAuth>>  BY <1>14 DEF SgwTimeout, PgwTimeout, mmeVars
  <2>2. chan'["s6aAns"] = A /\ chan'["s6aReq"] = Q
    BY <1>1, <1>14 DEF SgwTimeout, PgwTimeout, Send, ChanOK, Channel
  <2>3. QED  BY <1>3, <2>1, <2>2
<1>15. QED
  BY <1>5, <1>6, <1>7, <1>8, <1>9, <1>10, <1>11, <1>12, <1>13, <1>14 DEF Next, Timeout

(* The P-GW waits only for a request or an answer that is on its way. *)
LEMMA PolicyDueStep ==
  ASSUME TypeOK, PolicyDue, [Next]_vars
  PROVE  PolicyDue'
<1>1. ChanOK  BY DEF TypeOK, ChanOK
<1>2. ASSUME chan'["gxReq"] = chan["gxReq"], chan'["gxAns"] = chan["gxAns"], UNCHANGED pgw
      PROVE  PolicyDue'
  BY <1>2 DEF PolicyDue
<1>3. ASSUME NEW c \in {"gxReq", "gxAns"}, NEW m, chan'[c] = Append(chan[c], m)
      PROVE  PolicyDue'
  <2>1. chan[c] \in Seq(Msg)  BY <1>1 DEF ChanOK, Channel
  <2>2. chan'[c] # << >>  BY <1>3, <2>1
  <2>3. QED  BY <2>2 DEF PolicyDue
<1>4. CASE UNCHANGED vars  BY <1>2, <1>4 DEF vars, coreVars
<1>5. CASE Cli  BY <1>2, <1>5 DEF Cli, CliAttach, CliMobility, coreVars
<1>6. CASE EnbCommandThread \/ EnbReceiveThread
  <2>1. chan'["gxReq"] = chan["gxReq"] /\ chan'["gxAns"] = chan["gxAns"]
    BY <1>1, <1>6, EnbKeeps DEF Channel
  <2>2. UNCHANGED pgw
    BY <1>6 DEF EnbCommandThread, EnbReceiveThread, TakeCommand, SendInitialUEMessage,
       SendTauRequest, SendHandoverRequired, HandleAuthRequest, HandleSecModeCommand,
       HandleICSR, SendAttachComplete, HandleTauAccept, HandleHoRequest, HandleHoCommand,
       HandleMmeStatusXfer, HandleUeCtxRelCmd, coreVars
  <2>3. QED  BY <1>2, <2>1, <2>2
<1>7. CASE MmeThread \/ HssReceive
  <2>1. chan'["gxReq"] = chan["gxReq"] /\ chan'["gxAns"] = chan["gxAns"]
    <3>1. CASE MmeThread  BY <1>1, <3>1, MmeKeeps
    <3>2. CASE HssReceive  BY <1>1, <3>2, ConsumeEffect DEF HssReceive, Channel
    <3>3. QED  BY <1>7, <3>1, <3>2
  <2>2. UNCHANGED pgw
    BY <1>7 DEF MmeThread, HssReceive, HandleInitialUEMsg, TakeAuthVector,
       HandleAuthResponse, CreateSessionRsp, HandleSecModeComplete, HandleAttachComplete,
       HandleICSetupResponse, ModifyBearerRsp, HandleTauRequest, HandleHandoverRequired,
       HandleHandoverRequestAck, HandleEnbStatusTransfer, HandleHandoverNotify,
       PathSwitched, HandleUeContextRelCmpl, coreVars
  <2>3. QED  BY <1>2, <2>1, <2>2
<1>8. CASE PgwCreateSessionReq
  <2>1. PICK m : Reply("s5Req", "gxReq", m)  BY <1>8 DEF PgwCreateSessionReq
  <2>2. chan'["gxReq"] = Append(chan["gxReq"], m)  BY <1>1, <2>1, ReplyEffect DEF Channel
  <2>3. QED  BY <1>3, <2>2
<1>9. CASE HandleCCR
  <2>1. PICK m : Reply("gxReq", "gxAns", m)  BY <1>9 DEF HandleCCR
  <2>2. chan'["gxAns"] = Append(chan["gxAns"], m)  BY <1>1, <2>1, ReplyEffect DEF Channel
  <2>3. QED  BY <1>3, <2>2
<1>10. CASE PgwApproved \/ PgwTimeout
  BY <1>10 DEF PgwApproved, PgwTimeout, PgwIdle, PolicyDue
<1>11. CASE HandleAIR \/ SgwThread \/ MmeTimeout \/ PathSwitchTimeout \/ SgwTimeout
  <2>1. UNCHANGED pgw
    BY <1>11 DEF HandleAIR, SgwThread, SgwCreateSessionReq, SgwCreateSessionRsp,
       SgwModifyBearerReq, MmeTimeout, PathSwitchTimeout, SgwTimeout, coreVars
  <2>2. chan'["gxReq"] = chan["gxReq"] /\ chan'["gxAns"] = chan["gxAns"]
    <3> USE <1>1 DEF Reply, Consume, Send, ChanOK, Channel
    <3>1. CASE HandleAIR  BY <3>1 DEF HandleAIR
    <3>2. CASE SgwCreateSessionReq  BY <3>2 DEF SgwCreateSessionReq
    <3>3. CASE SgwCreateSessionRsp  BY <3>3 DEF SgwCreateSessionRsp
    <3>4. CASE SgwModifyBearerReq  BY <3>4 DEF SgwModifyBearerReq
    <3>5. CASE MmeTimeout \/ SgwTimeout  BY <3>5 DEF MmeTimeout, SgwTimeout
    <3>6. CASE PathSwitchTimeout  BY <3>6 DEF PathSwitchTimeout
    <3>7. QED  BY <1>11, <3>1, <3>2, <3>3, <3>4, <3>5, <3>6 DEF SgwThread
  <2>3. QED  BY <1>2, <2>1, <2>2
<1>12. QED
  BY <1>4, <1>5, <1>6, <1>7, <1>8, <1>9, <1>10, <1>11 DEF Next, Timeout, PgwThread

(* Drops are only counted up. *)
LEMMA DropsGrow ==
  ASSUME TypeOK, [Next]_vars
  PROVE  drops' = drops \/ drops' = drops + 1
<1> USE DEF envVars
<1>1. CASE UNCHANGED vars  BY <1>1 DEF vars
<1>2. CASE Cli  BY <1>2 DEF Cli, CliAttach, CliMobility
<1>3. CASE EnbCommandThread \/ EnbReceiveThread
  BY <1>3 DEF EnbCommandThread, EnbReceiveThread, TakeCommand, SendInitialUEMessage,
     SendTauRequest, SendHandoverRequired, HandleAuthRequest, HandleSecModeCommand,
     HandleICSR, SendAttachComplete, HandleTauAccept, HandleHoRequest, HandleHoCommand,
     HandleMmeStatusXfer, HandleUeCtxRelCmd
<1>4. CASE MmeThread \/ HssReceive
  BY <1>4 DEF MmeThread, HssReceive, HandleInitialUEMsg, TakeAuthVector,
     HandleAuthResponse, CreateSessionRsp, HandleSecModeComplete, HandleAttachComplete,
     HandleICSetupResponse, ModifyBearerRsp, HandleTauRequest, HandleHandoverRequired,
     HandleHandoverRequestAck, HandleEnbStatusTransfer, HandleHandoverNotify,
     PathSwitched, HandleUeContextRelCmpl
<1>5. CASE HandleAIR \/ SgwThread \/ PgwThread \/ HandleCCR \/ Timeout
  BY <1>5 DEF HandleAIR, SgwThread, PgwThread, HandleCCR, Timeout, SgwCreateSessionReq,
     SgwCreateSessionRsp, SgwModifyBearerReq, PgwCreateSessionReq, PgwApproved, MmeTimeout,
     PathSwitchTimeout, SgwTimeout, PgwTimeout
<1>6. QED  BY <1>1, <1>2, <1>3, <1>4, <1>5 DEF Next
----------------------------------------------------------------------------
(* The steps that change a UE's EMM state. *)
LEMMA EmmSteps ==
  ASSUME TypeOK, AttachInv, StepKind, NEW k \in DOMAIN ue'
  PROVE  /\ \/ k \in DOMAIN ue /\ ue'[k].emm = ue[k].emm
            \/ MmeInserts /\ k = Len(ue) + 1 /\ ue'[k].emm = "REGISTERED_INITIATED"
            \/ MmeChallenges /\ k = mme.id /\ ue'[k].emm = "AUTH_PENDING"
            \/ MmeAuthenticates /\ k = Head(Ul).mme /\ ue'[k].emm = "SESSION_PENDING"
            \/ MmeRegisters /\ k = Head(Ul).mme /\ ue'[k].emm = "REGISTERED"
         /\ MmeChallenges /\ k = mme.id => ue'[k].emm = "AUTH_PENDING"
         /\ MmeAuthenticates /\ k = Head(Ul).mme => ue'[k].emm = "SESSION_PENDING"
         /\ MmeRegisters /\ k = Head(Ul).mme => ue'[k].emm = "REGISTERED"
<1>1. ue \in Seq(Context)  BY S1Facts
<1>2. ASSUME MmeChallenges
      PROVE  /\ DOMAIN ue' = DOMAIN ue /\ ue'[mme.id].emm = "AUTH_PENDING"
             /\ \A j \in DOMAIN ue : j # mme.id => ue'[j] = ue[j]
  <2>1. mme.id \in DOMAIN ue  BY <1>2 DEF MmeChallenges, AttachInv, CallInv, Known
  <2>2. PICK av : ue' = [ue EXCEPT ![mme.id] = [@ EXCEPT !.auth = av, !.emm = "AUTH_PENDING"]]
    BY <1>2, <2>1 DEF MmeChallenges, Known
  <2>3. /\ DOMAIN ue' = DOMAIN ue /\ \A j \in DOMAIN ue : j # mme.id => ue'[j] = ue[j]
        /\ ue'[mme.id].emm = "AUTH_PENDING" /\ ue'[mme.id].auth = av
        /\ ue'[mme.id].bearers = ue[mme.id].bearers
    BY <1>1, <2>1, <2>2, AuthEffect
  <2>4. QED  BY <2>3
<1>3. ASSUME MmeAuthenticates
      PROVE  /\ DOMAIN ue' = DOMAIN ue /\ ue'[Head(Ul).mme].emm = "SESSION_PENDING"
             /\ \A j \in DOMAIN ue : j # Head(Ul).mme => ue'[j] = ue[j]
  BY <1>1, <1>3, EmmEffect DEF MmeAuthenticates, Known
<1>4. ASSUME MmeRegisters
      PROVE  /\ DOMAIN ue' = DOMAIN ue /\ ue'[Head(Ul).mme].emm = "REGISTERED"
             /\ \A j \in DOMAIN ue : j # Head(Ul).mme => ue'[j] = ue[j]
  <2>1. Head(Ul).mme \in DOMAIN ue
    BY <1>4, HeadFacts DEF MmeRegisters, Bound, Known
  <2>2. QED  BY <1>1, <1>4, <2>1, EmmEffect DEF MmeRegisters, Known
<1>5. /\ MmeChallenges /\ k = mme.id => ue'[k].emm = "AUTH_PENDING"
      /\ MmeAuthenticates /\ k = Head(Ul).mme => ue'[k].emm = "SESSION_PENDING"
      /\ MmeRegisters /\ k = Head(Ul).mme => ue'[k].emm = "REGISTERED"
  BY <1>2, <1>3, <1>4
<1>6. \/ k \in DOMAIN ue /\ ue'[k].emm = ue[k].emm
      \/ MmeInserts /\ k = Len(ue) + 1 /\ ue'[k].emm = "REGISTERED_INITIATED"
      \/ MmeChallenges /\ k = mme.id /\ ue'[k].emm = "AUTH_PENDING"
      \/ MmeAuthenticates /\ k = Head(Ul).mme /\ ue'[k].emm = "SESSION_PENDING"
      \/ MmeRegisters /\ k = Head(Ul).mme /\ ue'[k].emm = "REGISTERED"
  <2>1. CASE UNCHANGED ue  BY <2>1
  <2>2. CASE MmeInserts
    <3> DEFINE c == NewContext(Len(ue) + 1, Len(ue) + 1)
    <3>1. c.emm = "REGISTERED_INITIATED"  BY DEF NewContext
    <3>2. ue' = Append(ue, c)  BY <2>2 DEF MmeInserts
    <3> HIDE DEF c
    <3>3. /\ Len(ue) \in Nat /\ DOMAIN ue = 1 .. Len(ue) /\ DOMAIN ue' = 1 .. Len(ue) + 1
          /\ \A j \in DOMAIN ue : ue'[j] = ue[j]
          /\ ue'[Len(ue) + 1] = c
      BY <1>1, <3>2, InsertEffect
    <3>4. k \in DOMAIN ue \/ k = Len(ue) + 1  BY <3>3
    <3>5. QED  BY <2>2, <3>1, <3>3, <3>4
  <2>3. CASE MmeChallenges  BY <1>2, <2>3
  <2>4. CASE MmeAuthenticates  BY <1>3, <2>4
  <2>5. CASE MmeRegisters  BY <1>4, <2>5
  <2>6. CASE MmeBinds
    <3>1. mme.id \in DOMAIN ue  BY <2>6 DEF MmeBinds, Known
    <3>2. PICK b \in Bearer : ue' = [ue EXCEPT ![mme.id].bearers = Append(@, b)]
      BY <2>6 DEF MmeBinds
    <3>3. /\ DOMAIN ue' = DOMAIN ue /\ \A j \in DOMAIN ue : j # mme.id => ue'[j] = ue[j]
          /\ ue'[mme.id].emm = ue[mme.id].emm
      BY <1>1, <3>1, <3>2, BindEffect
    <3>4. QED  BY <3>3
  <2>7. CASE MmeStores
    <3>1. PICK j, t : StoreEnbTeid(j, t)  BY <2>7 DEF MmeStores
    <3>2. /\ DOMAIN ue' = DOMAIN ue
          /\ \A i \in DOMAIN ue : i # j \/ ~HasBearer(j) => ue'[i] = ue[i]
          /\ HasBearer(j) => ue'[j].emm = ue[j].emm
      BY <1>1, <3>1, StoreEffect
    <3>3. QED  BY <3>2
  <2>8. QED  BY <2>1, <2>2, <2>3, <2>4, <2>5, <2>6, <2>7, QuietKinds
<1>7. QED  BY <1>5, <1>6

(* A message leaves the uplink only when the MME reads it ... *)
LEMMA UlMoves ==
  ASSUME TypeOK, StepKind, NEW m \in Elems(Ul)
  PROVE  \/ m \in Elems(Ul')
         \/ /\ Ul # << >> /\ m = Head(Ul)
            /\ MmeReads \/ MmeInserts \/ MmeAuthenticates \/ MmeRegisters \/ MmeStores
<1>1. Ul \in Seq(Msg)  BY S1Facts
<1>2. ASSUME NEW n \in Msg, Ul' = Append(Ul, n) PROVE m \in Elems(Ul')
  BY <1>1, <1>2, ElemsAppend
<1>3. ASSUME Ul # << >>, Ul' = Tail(Ul) PROVE m \in Elems(Ul') \/ m = Head(Ul)
  BY <1>1, <1>3, ElemsTail
<1>4. CASE EnbSends  BY <1>2, <1>4 DEF EnbSends
<1>5. CASE EnbAnswers  BY <1>2, <1>5 DEF EnbAnswers
<1>6. CASE EnbResponds  BY <1>2, <1>6 DEF EnbResponds
<1>7. CASE EnbAllocates  BY <1>2, <1>7 DEF EnbAllocates
<1>8. CASE EnbCompletes  BY <1>2, <1>8 DEF EnbCompletes
<1>9. CASE Elsewhere  BY <1>9 DEF Elsewhere
<1>10. CASE MmeReads  BY <1>3, <1>10 DEF MmeReads
<1>11. CASE MmeInserts  BY <1>3, <1>11 DEF MmeInserts
<1>12. CASE MmeChallenges  BY <1>12 DEF MmeChallenges
<1>13. CASE MmeAuthenticates  BY <1>3, <1>13 DEF MmeAuthenticates
<1>14. CASE MmeBinds  BY <1>14 DEF MmeBinds
<1>15. CASE MmeRegisters  BY <1>3, <1>15 DEF MmeRegisters
<1>16. CASE MmeStores  BY <1>3, <1>16 DEF MmeStores
<1>17. QED
  BY <1>4, <1>5, <1>6, <1>7, <1>8, <1>9, <1>10, <1>11, <1>12, <1>13, <1>14, <1>15, <1>16
     DEF StepKind

(* ... and the downlink only when the eNB does. *)
LEMMA DlMoves ==
  ASSUME TypeOK, StepKind, NEW m \in Elems(Dl)
  PROVE  \/ m \in Elems(Dl')
         \/ Dl # << >> /\ m = Head(Dl) /\ (EnbAnswers \/ EnbResponds \/ EnbAllocates)
<1>1. Dl \in Seq(Msg)  BY S1Facts
<1>2. ASSUME NEW n \in Msg, Dl' = Append(Dl, n) PROVE m \in Elems(Dl')
  BY <1>1, <1>2, ElemsAppend
<1>3. ASSUME Dl # << >>, Dl' = Tail(Dl) PROVE m \in Elems(Dl') \/ m = Head(Dl)
  BY <1>1, <1>3, ElemsTail
<1>4. CASE EnbSends  BY <1>4 DEF EnbSends
<1>5. CASE EnbAnswers  BY <1>3, <1>5 DEF EnbAnswers
<1>6. CASE EnbResponds  BY <1>3, <1>6 DEF EnbResponds
<1>7. CASE EnbAllocates  BY <1>3, <1>7 DEF EnbAllocates
<1>8. CASE EnbCompletes  BY <1>8 DEF EnbCompletes
<1>9. CASE Elsewhere  BY <1>2, <1>9 DEF Elsewhere
<1>10. CASE MmeReads  BY <1>2, <1>10 DEF MmeReads
<1>11. CASE MmeInserts  BY <1>11 DEF MmeInserts
<1>12. CASE MmeChallenges  BY <1>2, <1>12 DEF MmeChallenges
<1>13. CASE MmeAuthenticates  BY <1>2, <1>13 DEF MmeAuthenticates
<1>14. CASE MmeBinds  BY <1>2, <1>14 DEF MmeBinds
<1>15. CASE MmeRegisters  BY <1>15 DEF MmeRegisters
<1>16. CASE MmeStores  BY <1>2, <1>16 DEF MmeStores
<1>17. QED
  BY <1>4, <1>5, <1>6, <1>7, <1>8, <1>9, <1>10, <1>11, <1>12, <1>13, <1>14, <1>15, <1>16
     DEF StepKind
----------------------------------------------------------------------------
(* The challenge carries the vector of the UE mme_th is attaching, and the *)
(* response answers it.                                                    *)
LEMMA AuthValsStep ==
  ASSUME TypeOK, VectorInv, AttachInv, AuthVals, StepKind
  PROVE  AuthVals'
<1>1. Ul \in Seq(Msg) /\ Dl \in Seq(Msg)  BY S1Facts
<1>2. ASSUME NEW m \in Elems(Dl'), m.type = "AuthReq" PROVE m.val = m.mme
  <2>1. CASE m \in Elems(Dl)  BY <1>2, <2>1 DEF AuthVals
  <2>2. CASE m \notin Elems(Dl)
    <3>1. ~DlQuiet
      <4>1. CASE Dl' = Dl  BY <1>2, <2>2, <4>1
      <4>2. CASE Dl # << >> /\ Dl' = Tail(Dl)  BY <1>1, <1>2, <2>2, <4>2, ElemsTail
      <4>3. ASSUME NEW n \in Msg, n.type # "AuthReq", Dl' = Append(Dl, n) PROVE FALSE
        BY <1>1, <1>2, <2>2, <4>3, ElemsAppend
      <4>4. QED  BY <4>1, <4>2, <4>3 DEF DlQuiet
    <3>2. CASE MmeChallenges
      <4>1. Dl' # Dl  BY <1>2, <2>2
      <4>2. PICK n \in Msg : /\ n.type = "AuthReq" /\ n.mme = mme.id
                             /\ \E av \in pendingAuth : av.imsi = mme.imsi /\ n.val = av.rand
                             /\ Dl' = Append(Dl, n)
        BY <3>2, <4>1 DEF MmeChallenges
      <4>3. m = n  BY <1>1, <1>2, <2>2, <4>2, ElemsAppend
      <4>4. PICK av \in pendingAuth : av.imsi = mme.imsi /\ n.val = av.rand  BY <4>2
      <4>5. av = GenerateAuthVectors(av.imsi)  BY DEF VectorInv
      <4>6. av.rand = av.imsi  BY <4>5 DEF GenerateAuthVectors
      <4>7. mme.imsi = mme.id  BY <3>2 DEF MmeChallenges, AttachInv, CallInv
      <4>8. QED  BY <4>2, <4>3, <4>4, <4>6, <4>7
    <3>3. CASE MmeBinds
      <4>1. PICK n \in Msg : n.type = "IcsReq" /\ Dl' = Append(Dl, n)  BY <3>3 DEF MmeBinds
      <4>2. m = n  BY <1>1, <1>2, <2>2, <4>1, ElemsAppend
      <4>3. QED  BY <1>2, <4>1, <4>2
    <3>4. QED  BY <3>1, <3>2, <3>3, QuietKinds
  <2>3. QED  BY <2>1, <2>2
<1>3. ASSUME NEW m \in Elems(Ul'), m.type = "AuthRsp" PROVE m.val = Response(m.mme)
  <2>1. CASE m \in Elems(Ul)  BY <1>3, <2>1 DEF AuthVals
  <2>2. CASE m \notin Elems(Ul)
    <3>1. ~UlQuiet
      <4>1. CASE Ul' = Ul  BY <1>3, <2>2, <4>1
      <4>2. CASE Ul # << >> /\ Ul' = Tail(Ul)  BY <1>1, <1>3, <2>2, <4>2, ElemsTail
      <4>3. ASSUME NEW n \in Msg, n.type # "AuthRsp", Ul' = Append(Ul, n) PROVE FALSE
        BY <1>1, <1>3, <2>2, <4>3, ElemsAppend
      <4>4. QED  BY <4>1, <4>2, <4>3 DEF UlQuiet
    <3>2. CASE EnbResponds
      <4>1. PICK n \in Msg : /\ n.type = "AuthRsp" /\ n.mme = Head(Dl).mme
                             /\ n.val = Response(Head(Dl).val) /\ Ul' = Append(Ul, n)
        BY <3>2 DEF EnbResponds
      <4>2. m = n  BY <1>1, <1>3, <2>2, <4>1, ElemsAppend
      <4>3. Head(Dl) \in Elems(Dl) /\ Head(Dl).type = "AuthReq"
        BY <1>1, <3>2, ElemsTail DEF EnbResponds
      <4>4. Head(Dl).val = Head(Dl).mme  BY <4>3 DEF AuthVals
      <4>5. QED  BY <4>1, <4>2, <4>4
    <3>3. CASE EnbAllocates \/ EnbCompletes
      <4>1. PICK n \in Msg : n.type # "AuthRsp" /\ Ul' = Append(Ul, n)
        BY <3>3 DEF EnbAllocates, EnbCompletes
      <4>2. m = n  BY <1>1, <1>3, <2>2, <4>1, ElemsAppend
      <4>3. QED  BY <1>3, <4>1, <4>2
    <3>4. QED  BY <3>1, <3>2, <3>3, QuietKinds
  <2>3. QED  BY <2>1, <2>2
<1>4. QED  BY <1>2, <1>3 DEF AuthVals

(* Every response the MME reads therefore matches. *)
LEMMA NoMismatch ==
  ASSUME TypeOK, AttachInv, AuthVals, MmeReads
  PROVE  Head(Ul).type # "AuthRsp"
<1> SUFFICES ASSUME Head(Ul).type = "AuthRsp" PROVE FALSE
  OBVIOUS
<1> DEFINE h == Head(Ul)
<1>1. Ul # << >> /\ ~AuthMatches(h)  BY DEF MmeReads
<1>2. h \in Elems(Ul) /\ AwaitsAuth(h.mme)  BY <1>1, HeadFacts
<1>3. h.val = Response(h.mme)  BY <1>2 DEF AuthVals
<1>4. Challenged(h.mme) /\ Known(h.mme)
  BY <1>2 DEF AwaitsAuth, Known, AttachInv, ContextInv, ContextOK
<1> HIDE DEF h
<1>5. ue[h.mme].auth.xres = Response(h.mme)  BY <1>4 DEF Challenged, GenerateAuthVectors
<1>6. QED  BY <1>1, <1>3, <1>4, <1>5 DEF AuthMatches

(* A challenge on its way is answered, and the answer read. *)
LEMMA AuthDueKept ==
  ASSUME TypeOK, AttachInv, AuthVals, StepKind, NEW k, AuthDue(k),
         ~(MmeAuthenticates /\ k = Head(Ul).mme)
  PROVE  AuthDue(k)'
<1>1. Ul \in Seq(Msg)  BY S1Facts
<1>2. ASSUME NEW m \in Elems(Dl), m.type = "AuthReq", m.mme = k PROVE AuthDue(k)'
  <2>1. CASE m \in Elems(Dl')  BY <1>2, <2>1 DEF AuthDue
  <2>2. CASE m = Head(Dl) /\ EnbResponds
    <3>1. PICK n \in Msg : n.type = "AuthRsp" /\ n.mme = Head(Dl).mme /\ Ul' = Append(Ul, n)
      BY <2>2 DEF EnbResponds
    <3>2. n \in Elems(Ul')  BY <1>1, <3>1, ElemsAppend
    <3>3. QED  BY <1>2, <2>2, <3>1, <3>2 DEF AuthDue
  <2>3. CASE m = Head(Dl) /\ (EnbAnswers \/ EnbAllocates)
    BY <1>2, <2>3 DEF EnbAnswers, EnbAllocates
  <2>4. QED  BY <2>1, <2>2, <2>3, DlMoves
<1>3. ASSUME NEW m \in Elems(Ul), m.type = "AuthRsp", m.mme = k PROVE AuthDue(k)'
  <2>1. CASE m \in Elems(Ul')  BY <1>3, <2>1 DEF AuthDue
  <2>2. CASE m = Head(Ul) /\ MmeReads  BY <1>3, <2>2, NoMismatch
  <2>3. CASE m = Head(Ul) /\ (MmeInserts \/ MmeRegisters \/ MmeStores)
    BY <1>3, <2>3 DEF MmeInserts, MmeRegisters, MmeStores, TeidMsg
  <2>4. CASE m = Head(Ul) /\ MmeAuthenticates  BY <1>3, <2>4
  <2>5. QED  BY <2>1, <2>2, <2>3, <2>4, UlMoves
<1>4. QED  BY <1>2, <1>3 DEF AuthDue

(* A UE is lost only in a step that drops its challenge. *)
LEMMA LostStep ==
  ASSUME TypeOK, AttachInv, AuthVals, StepKind, NEW k \in Lost'
  PROVE  k \in Lost \/ (k = mme.id /\ drops' = drops + 1)
<1>1. k \in DOMAIN ue' /\ ue'[k].emm = "AUTH_PENDING" /\ ~AuthDue(k)'  BY DEF Lost
<1>2. Dl \in Seq(Msg)  BY S1Facts
<1>3. CASE k \in DOMAIN ue /\ ue'[k].emm = ue[k].emm
  <2>1. ~(MmeAuthenticates /\ k = Head(Ul).mme)  BY <1>1, EmmSteps
  <2>2. ~AuthDue(k)  BY <1>1, <2>1, AuthDueKept
  <2>3. QED  BY <1>1, <1>3, <2>2 DEF Lost
<1>4. CASE MmeChallenges /\ k = mme.id
  <2>1. CASE drops' = drops + 1  BY <1>4, <2>1
  <2>2. CASE drops' # drops + 1
    <3>1. PICK n \in Msg : n.type = "AuthReq" /\ n.mme = mme.id /\ Dl' = Append(Dl, n)
      BY <1>4, <2>2 DEF MmeChallenges
    <3>2. n \in Elems(Dl')  BY <1>2, <3>1, ElemsAppend
    <3>3. AuthDue(k)'  BY <1>4, <3>1, <3>2 DEF AuthDue
    <3>4. QED  BY <1>1, <3>3
  <2>3. QED  BY <2>1, <2>2
<1>5. QED  BY <1>1, <1>3, <1>4, EmmSteps

(* So there are no more lost UEs than drops. *)
LEMMA LostInvStep ==
  ASSUME TypeOK, TypeOK', AttachInv, AuthVals, LostInv, StepKind, [Next]_vars
  PROVE  LostInv'
<1> DEFINE L == Lost
           M == Lost'
<1>1. drops \in Nat /\ drops' \in Nat  BY DEF TypeOK
<1>2. drops' = drops \/ drops' = drops + 1  BY DropsGrow
<1>3. IsFiniteSet(L) /\ Cardinality(L) <= drops  BY DEF LostInv
<1>4. \A k \in M : k \in L \/ (k = mme.id /\ drops' = drops + 1)  BY LostStep
<1>5. (IsFiniteSet(M) /\ Cardinality(M) <= drops') => LostInv'  BY DEF LostInv
<1> HIDE DEF L, M
<1>6. Cardinality(L) \in Nat  BY <1>3, FS_CardinalityType
<1>7. CASE drops' = drops
  <2>1. drops' # drops + 1  BY <1>1, <1>7
  <2>2. M \in SUBSET L  BY <1>4, <2>1
  <2>3. IsFiniteSet(M) /\ Cardinality(M) <= Cardinality(L)  BY <1>3, <2>2, FS_Subset
  <2>4. Cardinality(M) \in Nat  BY <2>3, FS_CardinalityType
  <2>5. QED  BY <1>1, <1>3, <1>5, <1>6, <1>7, <2>3, <2>4
<1>8. CASE drops' = drops + 1
  <2> DEFINE K == L \cup {mme.id}
  <2>1. IsFiniteSet(K) /\ Cardinality(K) = IF mme.id \in L THEN Cardinality(L)
                                                           ELSE Cardinality(L) + 1
    BY <1>3, FS_AddElement
  <2>2. M \in SUBSET K  BY <1>4
  <2> HIDE DEF K
  <2>3. IsFiniteSet(M) /\ Cardinality(M) <= Cardinality(K)  BY <2>1, <2>2, FS_Subset
  <2>4. Cardinality(M) \in Nat  BY <2>3, FS_CardinalityType
  <2>5. QED  BY <1>1, <1>3, <1>5, <1>6, <1>8, <2>1, <2>3, <2>4
<1>9. QED  BY <1>2, <1>7, <1>8
----------------------------------------------------------------------------
(* Only a challenge ends mme_th's wait for a vector. *)
LEMMA StartedStep ==
  ASSUME TypeOK, AttachInv, StartedInv, StepKind
  PROVE  StartedInv'
<1> SUFFICES ASSUME NEW k \in DOMAIN ue', ue'[k].emm = "REGISTERED_INITIATED"
             PROVE  mme'.pc = "auth" /\ mme'.id = k
  BY DEF StartedInv
<1>1. CASE MmeInserts /\ k = Len(ue) + 1  BY <1>1 DEF MmeInserts
<1>2. CASE k \in DOMAIN ue /\ ue'[k].emm = ue[k].emm
  <2>1. mme.pc = "auth" /\ mme.id = k  BY <1>2 DEF StartedInv
  <2>2. ~MmeChallenges  BY <2>1, EmmSteps
  <2>3. mme' = mme
    BY <2>1, <2>2 DEF StepKind, EnbSends, EnbAnswers, EnbResponds, EnbAllocates,
       EnbCompletes, Elsewhere, MmeReads, MmeInserts, MmeAuthenticates, MmeBinds,
       MmeRegisters, MmeStores
  <2>4. QED  BY <2>1, <2>3
<1>3. QED  BY <1>1, <1>2, EmmSteps

(* As long as nothing times out mme_th takes no refusal for an answer. *)
LEMMA NoRefusal ==
  ASSUME TypeOK, AttachInv, S11Chain, mme.pc = "create"
  PROVE  ~Refused
<1> SUFFICES ASSUME Refused PROVE FALSE
  OBVIOUS
<1>1. S11 # << >>  BY DEF Refused, S11
<1>2. PICK m \in Msg : S11 = <<m>> /\ m.cause = Accepted /\ Own(m.ip, mme.imsi)
  BY <1>1 DEF S11Chain
<1>3. Head(S11) = m  BY <1>2, Single
<1>4. m.ip # 0  BY <1>2, CoreFacts DEF Own
<1>5. Known(mme.id)  BY DEF AttachInv, CallInv
<1>6. QED  BY <1>2, <1>3, <1>4, <1>5 DEF Refused, S11

(* A UE that has answered its challenge is on its way to Attach Complete. *)
LEMMA PendingStep ==
  ASSUME TypeOK, AttachInv, S11Chain, timeouts = 0, timeouts' = 0, StepKind,
         \A k \in DOMAIN ue : ue[k].emm = "SESSION_PENDING" => CompleteDue(k),
         NEW k \in DOMAIN ue', ue'[k].emm = "SESSION_PENDING"
  PROVE  CompleteDue(k)'
<1>1. Ul \in Seq(Msg) /\ Dl \in Seq(Msg) /\ rxPending \in Msg  BY S1Facts
<1>2. CASE MmeAuthenticates /\ k = Head(Ul).mme
  BY <1>2 DEF MmeAuthenticates, CompleteDue
<1>3. CASE k \in DOMAIN ue /\ ue'[k].emm = ue[k].emm
  <2>1. CompleteDue(k)  BY <1>3
  <2>2. CASE mme.pc = "create" /\ mme.id = k
    <3>1. CASE mme' = mme  BY <2>2, <3>1 DEF CompleteDue
    <3>2. CASE MmeBinds
      <4>1. PICK n \in Msg : n.type = "IcsReq" /\ n.mme = mme.id /\ Dl' = Append(Dl, n)
        BY <3>2 DEF MmeBinds
      <4>2. n \in Elems(Dl')  BY <1>1, <4>1, ElemsAppend
      <4>3. QED  BY <2>2, <4>1, <4>2 DEF CompleteDue
    <3>3. CASE Elsewhere
      <4>1. ~Refused  BY <2>2, NoRefusal
      <4>2. mme' = mme  BY <2>2, <3>3, <4>1 DEF Elsewhere
      <4>3. QED  BY <3>1, <4>2
    <3>4. mme' = mme \/ MmeBinds \/ Elsewhere
      BY <2>2 DEF StepKind, EnbSends, EnbAnswers, EnbResponds, EnbAllocates, EnbCompletes,
         MmeReads, MmeInserts, MmeChallenges, MmeAuthenticates, MmeRegisters, MmeStores
    <3>5. QED  BY <3>1, <3>2, <3>3, <3>4
  <2>3. ASSUME NEW m \in Elems(Dl), m.type = "IcsReq", m.mme = k PROVE CompleteDue(k)'
    <3>1. CASE m \in Elems(Dl')  BY <2>3, <3>1 DEF CompleteDue
    <3>2. CASE m = Head(Dl) /\ EnbAllocates
      BY <2>3, <3>2 DEF EnbAllocates, CompleteDue
    <3>3. CASE m = Head(Dl) /\ (EnbAnswers \/ EnbResponds)
      BY <2>3, <3>3 DEF EnbAnswers, EnbResponds
    <3>4. QED  BY <3>1, <3>2, <3>3, DlMoves
  <2>4. CASE rxPending.type = "AttachCmpl" /\ rxPending.mme = k
    <3>1. CASE rxPending' = rxPending  BY <2>4, <3>1 DEF CompleteDue
    <3>2. CASE EnbCompletes
      <4>1. rxPending \in Elems(Ul')  BY <1>1, <3>2, ElemsAppend DEF EnbCompletes
      <4>2. QED  BY <2>4, <4>1 DEF CompleteDue
    <3>3. CASE EnbAllocates  BY <2>4, <3>3 DEF EnbAllocates
    <3>4. rxPending' = rxPending \/ EnbCompletes \/ EnbAllocates
      BY DEF StepKind, EnbSends, EnbAnswers, EnbResponds, Elsewhere, MmeReads, MmeInserts,
         MmeChallenges, MmeAuthenticates, MmeBinds, MmeRegisters, MmeStores
    <3>5. QED  BY <3>1, <3>2, <3>3, <3>4
  <2>5. ASSUME NEW m \in Elems(Ul), m.type = "AttachCmpl", m.mme = k PROVE CompleteDue(k)'
    <3>1. CASE m \in Elems(Ul')  BY <2>5, <3>1 DEF CompleteDue
    <3>2. CASE m = Head(Ul) /\ MmeRegisters
      <4>1. ue'[k].emm = "REGISTERED"  BY <2>5, <3>2, EmmSteps
      <4>2. QED  BY <4>1
    <3>3. CASE m = Head(Ul) /\ (MmeReads \/ MmeInserts \/ MmeAuthenticates \/ MmeStores)
      BY <2>5, <3>3 DEF MmeReads, MmeInserts, MmeAuthenticates, MmeStores, TeidMsg
    <3>4. QED  BY <3>1, <3>2, <3>3, UlMoves
  <2>6. QED  BY <2>1, <2>2, <2>3, <2>4, <2>5 DEF CompleteDue
<1>4. QED  BY <1>2, <1>3, EmmSteps
----------------------------------------------------------------------------
(* Every UE that is not registered is owed something or lost, and no more  *)
(* UEs are lost than answers were dropped.                                 *)
THEOREM DueInvariant == Spec => []DueInv
<1>1. Init => DueInv
  <2> SUFFICES ASSUME Init PROVE DueInv
    OBVIOUS
  <2>1. /\ Ul = << >> /\ Dl = << >> /\ ue = << >> /\ mme.pc = "idle" /\ ~pgw.busy /\ drops = 0
    BY DEF Init, MmeInit, ServersInit, PgwIdle, MmeIdle, Ul, Dl, Channel
  <2>2. \A i : i \notin DOMAIN << >>  OBVIOUS
  <2>3. Elems(<< >>) = {}  BY <2>2 DEF Elems
  <2>4. Lost = {}  BY <2>1, <2>2 DEF Lost
  <2>5. LostInv  BY <2>1, <2>4, FS_EmptySet DEF LostInv
  <2>6. VectorDue /\ PolicyDue  BY <2>1 DEF VectorDue, PolicyDue
  <2>7. AuthVals  BY <2>1, <2>3 DEF AuthVals
  <2>8. StartedInv /\ PendingInv  BY <2>1, <2>2 DEF StartedInv, PendingInv
  <2>9. QED  BY <2>5, <2>6, <2>7, <2>8 DEF DueInv
<1>2. TypeOK /\ TypeOK' /\ IdsInv /\ VectorInv /\ AttachInv /\ OwnInv /\ DueInv /\ [Next]_vars
        => DueInv'
  <2> SUFFICES ASSUME TypeOK, TypeOK', IdsInv, VectorInv, AttachInv, OwnInv, DueInv,
                      [Next]_vars
               PROVE  DueInv'
    OBVIOUS
  <2>1. StepKind /\ CoreKind  BY StepKinds, CoreKinds
  <2>2. VectorDue /\ PolicyDue /\ AuthVals /\ StartedInv /\ PendingInv /\ LostInv
    BY DEF DueInv
  <2>3. VectorDue' /\ PolicyDue'  BY <2>2, VectorDueStep, PolicyDueStep
  <2>4. AuthVals' /\ StartedInv'  BY <2>1, <2>2, AuthValsStep, StartedStep
  <2>5. LostInv'  BY <2>1, <2>2, LostInvStep
  <2>6. PendingInv'
    <3> SUFFICES ASSUME timeouts' = 0, NEW k \in DOMAIN ue', ue'[k].emm = "SESSION_PENDING"
                 PROVE  CompleteDue(k)'
      BY DEF PendingInv
    <3>1. timeouts \in Nat  BY CoreFacts
    <3>2. timeouts = 0
      BY <2>1, <3>1 DEF CoreKind, CoreRests, MmeAsks, MmeTakes, SgwForwards, SgwAnswers,
         SgwModifies, PgwTakes, PgwAllocates, CoreTimesOut
    <3>3. S11Chain  BY <3>2 DEF OwnInv
    <3>4. \A j \in DOMAIN ue : ue[j].emm = "SESSION_PENDING" => CompleteDue(j)
      BY <2>2, <3>2 DEF PendingInv
    <3>5. QED  BY <2>1, <3>2, <3>3, <3>4, PendingStep
  <2>7. QED  BY <2>3, <2>4, <2>5, <2>6 DEF DueInv
<1>3. QED
  BY <1>1, <1>2, TypeCorrect, NumberingInvariant, AttachInvariant, ChainInvariant, PTL
     DEF Spec

(* As long as nothing has timed out, when every thread waits none of them   *)
(* is in the middle of a procedure and no more UEs are unregistered than    *)
(* answers were dropped: a UE whose answer mme_node.cpp:217 drops loses its *)
(* attach, and nobody else does.                                            *)
THEOREM OnlyDropsAlwaysCost == Spec => []OnlyDropsCost
<1>1. TypeOK /\ IdsInv /\ OwnInv /\ DueInv => OnlyDropsCost
  <2> SUFFICES ASSUME TypeOK, IdsInv, OwnInv, DueInv, timeouts = 0, Waiting
               PROVE  Quiescent /\ Cardinality(Unregistered) <= drops
    BY DEF OnlyDropsCost
  <2>1. /\ \A c \in Channel : chan[c] = << >>
        /\ cmdQueue = << >> /\ cmd = NoCmd /\ rxPending.type = "None"
        /\ mme.pc = "auth" => \A av \in pendingAuth : av.imsi # mme.imsi
    BY DEF Waiting
  <2>2. /\ Ul = << >> /\ Dl = << >> /\ R11 = << >> /\ S11 = << >> /\ R5 = << >> /\ S5 = << >>
        /\ chan["s6aReq"] = << >> /\ chan["s6aAns"] = << >>
        /\ chan["gxReq"] = << >> /\ chan["gxAns"] = << >>
    BY <2>1 DEF Channel, Ul, Dl, R11, S11, R5, S5
  <2>3. \A i : i \notin DOMAIN << >>  OBVIOUS
  <2>4. Elems(<< >>) = {}  BY <2>3 DEF Elems
  <2>5. ~pgw.busy  BY <2>2 DEF DueInv, PolicyDue
  <2>6. \A m \in Msg : <<m>> # << >>  BY Single
  <2>7. ~sgw.busy  BY <2>2, <2>5, <2>6 DEF OwnInv, S5Chain
  <2>8. ~Waits(mme)
    <3>1. S11Chain  BY DEF OwnInv
    <3>2. mme.pc = "create" => Waits(mme)  BY DEF Waits
    <3>3. QED  BY <2>2, <2>6, <2>7, <3>1, <3>2 DEF S11Chain
  <2>9. mme.pc # "auth"  BY <2>1, <2>2, <2>4 DEF DueInv, VectorDue
  <2>10. mme.pc = "idle"
    <3>1. mme.pc \in {"idle", "auth", "create", "modify", "switch"}  BY DEF TypeOK, MmeCall
    <3>2. QED  BY <2>8, <2>9, <3>1 DEF Waits
  <2>11. Quiescent  BY <2>1, <2>5, <2>7, <2>10 DEF Quiescent
  <2>12. 1 .. nextUe - 1 = DOMAIN ue
    <3>1. /\ Len(ue) \in Nat /\ nextUe \in Nat /\ DOMAIN ue = 1 .. Len(ue)
          /\ Numbered(<< >>, Len(ue), nextUe)
      BY <2>2, IdsFacts DEF Ul
    <3>2. Len(ue) < nextUe /\ \A e \in Len(ue) + 1 .. nextUe - 1 : FALSE
      BY <2>3, <3>1 DEF Numbered
    <3>3. nextUe - 1 = Len(ue)  BY <3>1, <3>2
    <3>4. QED  BY <3>1, <3>3
  <2>13. ASSUME NEW k \in Unregistered PROVE k \in Lost
    <3>1. k \in DOMAIN ue /\ ue[k].emm # "REGISTERED"  BY <2>12 DEF Unregistered, Known
    <3>2. ue[k].emm # "REGISTERED_INITIATED"  BY <2>9, <3>1 DEF DueInv, StartedInv
    <3>3. ue[k].emm # "SESSION_PENDING"
      <4>1. ~CompleteDue(k)  BY <2>1, <2>2, <2>4, <2>10 DEF CompleteDue
      <4>2. QED  BY <3>1, <4>1 DEF DueInv, PendingInv
    <3>4. ue[k].emm \in EmmState
      <4>1. ue[k] \in Context  BY <3>1 DEF TypeOK
      <4>2. QED  BY <4>1 DEF Context
    <3>5. ~AuthDue(k)  BY <2>2, <2>4 DEF AuthDue
    <3>6. QED  BY <3>1, <3>2, <3>3, <3>4, <3>5 DEF Lost, EmmState
  <2>14. Cardinality(Unregistered) <= drops
    <3>1. IsFiniteSet(Lost) /\ Cardinality(Lost) <= drops  BY DEF DueInv, LostInv
    <3>2. Unregistered \in SUBSET Lost  BY <2>13
    <3>3. IsFiniteSet(Unregistered) /\ Cardinality(Unregistered) <= Cardinality(Lost)
      BY <3>1, <3>2, FS_Subset
    <3>4. Cardinality(Unregistered) \in Nat /\ Cardinality(Lost) \in Nat /\ drops \in Nat
      BY <3>1, <3>3, FS_CardinalityType DEF TypeOK
    <3>5. QED  BY <3>1, <3>3, <3>4
  <2>15. QED  BY <2>11, <2>14
<1>2. QED
  BY <1>1, TypeCorrect, NumberingInvariant, ChainInvariant, DueInvariant, PTL
=============================================================================
