-------------------------------- MODULE Epc --------------------------------
(***************************************************************************)
(* The whole EPC: the operator's commands, the eNB's and the MME's threads *)
(* and the four nodes behind the MME, interleaved.                         *)
(***************************************************************************)
EXTENDS EnbNode, MmeNode, EpcServers

Init ==
  /\ chan = [c \in Channel |-> << >>]
  /\ EnbInit
  /\ MmeInit
  /\ ServersInit
  /\ timeouts = 0
  /\ drops = 0
  /\ mobility = 0

(* UEs asked for by commands that have not been carried out yet. *)
Asked == LET n(c) == IF c.op = "CR" THEN c.arg ELSE 0
             s[i \in 0 .. Len(cmdQueue)] == IF i = 0 THEN n(cmd) ELSE s[i - 1] + n(cmdQueue[i])
         IN  s[Len(cmdQueue)]

(* The operator types CR n (BULK n is n times CR 1), TAU u or HO u. *)
CliAttach ==
  /\ \E n \in 1 .. MaxUe :
       /\ nextUe - 1 + Asked + n <= MaxUe
       /\ SubmitCommand([op |-> "CR", arg |-> n])
  /\ UNCHANGED <<chan, cmd, nextUe, enbTeids, rxPending, mmeVars, coreVars, envVars>>

CliMobility ==
  /\ mobility < MaxMobility
  /\ mobility' = mobility + 1
  /\ \E op \in {"TAU", "HO"}, u \in 1 .. MaxUe : SubmitCommand([op |-> op, arg |-> u])
  /\ UNCHANGED <<chan, cmd, nextUe, enbTeids, rxPending, mmeVars, coreVars, timeouts, drops>>

Cli == CliAttach \/ CliMobility

Timeout == MmeTimeout \/ PathSwitchTimeout \/ SgwTimeout \/ PgwTimeout

Next ==
  \/ Cli \/ EnbCommandThread \/ EnbReceiveThread \/ MmeThread \/ HssReceive
  \/ HandleAIR \/ SgwThread \/ PgwThread \/ HandleCCR \/ Timeout

Spec == Init /\ [][Next]_vars

(* Every thread is scheduled as long as it has something to do; the operator *)
(* and the time-outs are not.                                                *)
Fairness ==
  /\ WF_vars(EnbCommandThread) /\ WF_vars(EnbReceiveThread)
  /\ WF_vars(MmeThread) /\ WF_vars(HssReceive)
  /\ WF_vars(HandleAIR) /\ WF_vars(SgwThread) /\ WF_vars(PgwThread) /\ WF_vars(HandleCCR)

FairSpec == Spec /\ Fairness
----------------------------------------------------------------------------
(* processCommand passes the UE number as both S1AP ids (enb_node.cpp:230,  *)
(* "mme_id~enb_id for single-UE sim"), though the eNB and the MME number    *)
(* UEs independently.  The two numberings agree for any number of UEs:      *)
(* every context, and every S1 message in flight, has equal ids.            *)
IdsAgree ==
  /\ \A k \in DOMAIN ue : ue[k].enb = k /\ ue[k].imsi = k
  /\ \A i \in DOMAIN chan["s1ul"] :
       LET m == chan["s1ul"][i] IN m.type # "InitialUE" => m.mme = m.enb
  /\ \A i \in DOMAIN chan["s1dl"] : chan["s1dl"][i].mme = chan["s1dl"][i].enb

(* Why they agree: the attach requests on their way to the MME (q) are the   *)
(* UEs the eNB has numbered (those below next) and the MME has not (those    *)
(* above n), all of them and in order.                                       *)
Numbered(q, n, next) ==
  /\ n < next
  /\ \A i \in DOMAIN q :
       IF q[i].type = "InitialUE"
         THEN q[i].imsi = q[i].enb /\ n < q[i].enb /\ q[i].enb < next
         ELSE q[i].mme = q[i].enb
  /\ \A i, j \in DOMAIN q :
       i < j /\ q[i].type = "InitialUE" /\ q[j].type = "InitialUE" => q[i].enb < q[j].enb
  /\ \A e \in n + 1 .. next - 1 :
       \E i \in DOMAIN q : q[i].type = "InitialUE" /\ q[i].enb = e

IdsInv ==
  /\ \A k \in DOMAIN ue : ue[k].enb = k /\ ue[k].imsi = k
  /\ Numbered(chan["s1ul"], Len(ue), nextUe)
  /\ \A i \in DOMAIN chan["s1dl"] : chan["s1dl"][i].mme = chan["s1dl"][i].enb
  /\ rxPending.mme = rxPending.enb
  /\ mme.id = mme.enb

(* Attach Complete sets REGISTERED without a look at the state: whenever it *)
(* does, the UE has answered the challenge of its own vector and has one    *)
(* default bearer with an address and an eNB TEID, whatever dropped, timed  *)
(* out or overtook it.                                                      *)
RegisteredIsServed ==
  \A k \in DOMAIN ue : ue[k].emm = "REGISTERED" =>
    /\ ue[k].auth = GenerateAuthVectors(ue[k].imsi)
    /\ Len(ue[k].bearers) = 1
    /\ ue[k].bearers[1].ip # 0
    /\ ue[k].bearers[1].teid # 0

Served == {k \in DOMAIN ue : ue[k].bearers # << >>}

(* No two UEs share an address or an S-GW tunnel, even when answers reach   *)
(* the wrong request.                                                       *)
SessionsDisjoint ==
  \A j, k \in Served : j # k =>
    /\ ue[j].bearers[1].ip # ue[k].bearers[1].ip
    /\ ue[j].bearers[1].s1u # ue[k].bearers[1].s1u

(* Answers are not matched to requests (the IMSI in CreateSessionRsp is read *)
(* into imsi2 and thrown away), so a late one would be taken for the next    *)
(* UE's: as long as nothing has timed out, every UE holds the address the    *)
(* P-GW allocated for its own IMSI.                                          *)
OwnSession ==
  timeouts = 0 => \A k \in Served : sessions[ue[k].bearers[1].ip] = ue[k].imsi

(* The eNB allocated this TEID for this UE. *)
GivenTo(teid, e) == \E i \in DOMAIN enbTeids : enbTeids[i] = e /\ teid + 1 = FirstEnbTeid + i

(* The MME never stores for a UE an eNB TEID the eNB gave to another UE,    *)
(* although Context Setup and handovers of several UEs interleave.          *)
StoredTeidOwned ==
  \A k \in Served : LET t == ue[k].bearers[1].teid IN t # 0 => GivenTo(t, ue[k].enb)

Quiescent ==
  /\ \A c \in Channel : chan[c] = << >>
  /\ cmdQueue = << >> /\ cmd = NoCmd /\ rxPending.type = "None"
  /\ mme.pc = "idle" /\ ~sgw.busy /\ ~pgw.busy

(* When every procedure has ended, the TEID the MME holds for a UE is the   *)
(* last one the eNB allocated for it: a handover that overtakes the attach  *)
(* of the same UE leaves no stale tunnel behind.                            *)
LatestTeidStored ==
  Quiescent => \A k \in DOMAIN ue : ue[k].emm = "REGISTERED" =>
    \A i \in DOMAIN enbTeids :
      enbTeids[i] = k => FirstEnbTeid + i - 1 <= ue[k].bearers[1].teid

(* mme_node.cpp:714 "Store new eNB TEID in UE context for later path switch" *)
(* and 821 "Path switch: Modify Bearer to S-GW with new eNB's TEID": a       *)
(* modify request for a UE names a TEID the eNB allocated for that UE.       *)
PathSwitchToOwnTeid ==
  \A i \in DOMAIN chan["s11Req"] :
    LET m == chan["s11Req"][i]
    IN  m.type = "ModifyReq" /\ m.imsi # 0 => GivenTo(m.val, m.imsi)

EmmRank == [s \in EmmState |-> CASE s = "REGISTERED_INITIATED" -> 0
                                 [] s = "AUTH_PENDING" -> 1
                                 [] s = "SESSION_PENDING" -> 2
                                 [] s = "REGISTERED" -> 3]

(* Handlers set emm_state unconditionally; still a UE's state only moves    *)
(* forward, and a context is never dropped or replaced.                     *)
EmmForward ==
  [][/\ Len(ue) <= Len(ue')
     /\ \A k \in DOMAIN ue : EmmRank[ue[k].emm] <= EmmRank[ue'[k].emm]]_ue

(* Nothing left for any thread to read, to carry out or to wake up to. *)
Waiting ==
  /\ \A c \in Channel : chan[c] = << >>
  /\ cmdQueue = << >> /\ cmd = NoCmd /\ rxPending.type = "None"
  /\ mme.pc = "auth" => \A av \in pendingAuth : av.imsi # mme.imsi

Unregistered == {k \in 1 .. nextUe - 1 : ~(Known(k) /\ ue[k].emm = "REGISTERED")}

(* A dropped answer costs its own UE the attach (mme_node.cpp:217) and      *)
(* nobody else: as long as nothing has timed out, when every thread waits   *)
(* none of them is in the middle of a procedure, and there are no more      *)
(* unregistered UEs than answers dropped.  After a time-out there may be:   *)
(* the late answer is taken for the next UE's.                              *)
OnlyDropsCost ==
  timeouts = 0 /\ Waiting => Quiescent /\ Cardinality(Unregistered) <= drops

(* Without chaos mode and without time-outs every procedure ends, however   *)
(* the messages of the UEs and of handovers interleave: the EPC comes to    *)
(* rest again and again, with every UE a CR command created registered.     *)
ProceduresEnd == []<>(Quiescent /\ Unregistered = {})
============================================================================
