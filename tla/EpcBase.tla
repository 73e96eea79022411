------------------------------ MODULE EpcBase ------------------------------
(***************************************************************************)
(* The state of the 4G simulator's EPC (4g-simulator/src): one eNB, MME,   *)
(* HSS, S-GW, P-GW and PCRF, each a thread (the eNB and the MME are two)   *)
(* of one process, connected by loopback sockets.  This module declares    *)
(* the variables, the messages and the operations on the sockets; the node *)
(* modules EnbNode, MmeNode and EpcServers define the handlers and Epc     *)
(* composes them.  The state modelled begins after start-up (every         *)
(* connection is up) and ends before the stop flag is set.                 *)
(***************************************************************************)
EXTENDS Naturals, Sequences, FiniteSets

CONSTANTS
  MaxUe,        \* bound: UEs the operator's CR commands create in total
  MaxMobility,  \* bound: TAU and HO commands the operator types
  MaxTimeouts,  \* bound: receive time-outs of the MME, the S-GW and the P-GW
  MaxDrops      \* bound: authentication answers chaos mode drops

ASSUME EpcBounds ==
  /\ MaxUe \in Nat \ {0}
  /\ MaxMobility \in Nat
  /\ MaxTimeouts \in Nat
  /\ MaxDrops \in Nat

VARIABLES
  chan,         \* the sockets: one FIFO of messages per direction
  cmdQueue,     \* eNB cmd_queue_: commands submitted and not yet taken
  cmd,          \* eNB: the command its command thread is executing
  nextUe,       \* eNB next_enb_ue_id_
  enbTeids,     \* eNB next_enb_teid_, with the UE each TEID was given to
  rxPending,    \* eNB rx_th: the Attach Complete it sends after its sleep
  ue,           \* MME ue_store_: the i-th context has mme_ue_s1ap_id = i
  mme,          \* MME mme_th: the blocking call it is in, with its locals
  pendingAuth,  \* MME pending_auth_: answers not yet taken by mme_th
  sgw,          \* S-GW: the session request it is forwarding, next_teid_
  pgw,          \* P-GW: the session request it is asking the PCRF about
  sessions,     \* P-GW next_ip_, with the IMSI each address was given to
  timeouts,     \* receive time-outs so far
  drops,        \* answers dropped by chaos mode so far
  mobility      \* TAU and HO commands so far

enbVars  == <<cmdQueue, cmd, nextUe, enbTeids, rxPending>>
mmeVars  == <<ue, mme, pendingAuth>>
coreVars == <<sgw, pgw, sessions>>
envVars  == <<timeouts, drops, mobility>>
vars     == <<chan, enbVars, mmeVars, coreVars, envVars>>
----------------------------------------------------------------------------
(***************************************************************************)
(* Messages.  A field a sender leaves out reads as 0, the value every      *)
(* handler initialises its locals to before it scans the TLVs.  An IMSI is *)
(* named by its offset from BASE_IMSI and a UE address by its offset from  *)
(* 10.0.0.0, so that 0 is "no IMSI" and "no address".                      *)
(***************************************************************************)
UplinkType ==
  {"InitialUE", "AuthRsp", "SecModeCmpl", "AttachCmpl", "IcsRsp", "TauReq",
   "HoRequired", "HoAck", "EnbStatus", "HoNotify", "RelCmpl"}

DownlinkType ==
  {"AuthReq", "SecModeCmd", "IcsReq", "TauAccept", "HoRequest", "HoCommand",
   "MmeStatus", "RelCmd"}

CoreType ==
  {"AIR", "AIA", "CreateReq", "CreateRsp", "ModifyReq", "ModifyRsp", "CCR", "CCA"}

Msg == [type : UplinkType \cup DownlinkType \cup CoreType \cup {"None"},
        mme : Nat, enb : Nat, imsi : Nat, val : Nat, xres : Nat, cause : Nat, ip : Nat]

Blank == [type |-> "None", mme |-> 0, enb |-> 0, imsi |-> 0, val |-> 0,
          xres |-> 0, cause |-> 0, ip |-> 0]

(* An S1AP message about one UE association, and one about an IMSI. *)
S1(type, m, e)   == [Blank EXCEPT !.type = type, !.mme = m, !.enb = e]
About(type, i)   == [Blank EXCEPT !.type = type, !.imsi = i]

Accepted == 16     \* GTP cause "request accepted"
Denied   == 64     \* GTP cause the P-GW answers when the PCRF said no

(* What the SIM computes from a challenge: RAND[i] XOR 0x55 is injective,  *)
(* so responses to different challenges differ.                            *)
Response(rand) == rand + 85
----------------------------------------------------------------------------
(***************************************************************************)
(* Sockets.  S1, S6a and Gx are TCP; S11 and S5 are UDP on the loopback    *)
(* between two fixed ports, which keeps the order and loses nothing while  *)
(* the receive buffer has room.                                            *)
(***************************************************************************)
Channel == {"s1ul", "s1dl", "s6aReq", "s6aAns", "s11Req", "s11Rsp",
            "s5Req", "s5Rsp", "gxReq", "gxAns"}

Got(c, type) == chan[c] # << >> /\ Head(chan[c]).type = type

Consume(c)     == chan' = [chan EXCEPT ![c] = Tail(@)]
Send(d, m)     == chan' = [chan EXCEPT ![d] = Append(@, m)]
Reply(c, d, m) == chan' = [chan EXCEPT ![c] = Tail(@), ![d] = Append(@, m)]
----------------------------------------------------------------------------
(***************************************************************************)
(* The data the nodes keep.                                                *)
(***************************************************************************)
EmmState == {"REGISTERED_INITIATED", "AUTH_PENDING", "SESSION_PENDING", "REGISTERED"}

AuthVector == [imsi : Nat, rand : Nat, xres : Nat]
NoVector   == [imsi |-> 0, rand |-> 0, xres |-> 0]

Bearer  == [s1u : Nat, ip : Nat, teid : Nat]
Context == [imsi : Nat, enb : Nat, emm : EmmState, auth : AuthVector, bearers : Seq(Bearer)]

(* The blocking calls of mme_th, with the handler's locals that outlive them. *)
MmeCall == [pc : {"idle", "auth", "create", "modify", "switch"},
            id : Nat, enb : Nat, imsi : Nat]
MmeIdle == [pc |-> "idle", id |-> 0, enb |-> 0, imsi |-> 0]

Command == [op : {"CR", "TAU", "HO"}, arg : Nat \ {0}]
NoCmd   == [op |-> "none", arg |-> 0]

(* A context that exists, and one that has its default bearer. *)
Known(id)     == id \in DOMAIN ue
HasBearer(id) == Known(id) /\ ue[id].bearers # << >>

(* The first TEID of each allocator, and the one the eNB hands out next. *)
FirstEnbTeid == 100
FirstSgwTeid == 1000
NextEnbTeid  == FirstEnbTeid + Len(enbTeids)

TypeOK ==
  /\ chan \in [Channel -> Seq(Msg)]
  /\ cmdQueue \in Seq(Command)
  /\ cmd \in Command \cup {NoCmd}
  /\ nextUe \in Nat \ {0}
  /\ enbTeids \in Seq(Nat)
  /\ rxPending \in Msg
  /\ ue \in Seq(Context)
  /\ mme \in MmeCall
  /\ pendingAuth \in SUBSET AuthVector
  /\ sgw \in [busy : BOOLEAN, imsi : Nat, s1u : Nat, next : Nat]
  /\ pgw \in [busy : BOOLEAN, imsi : Nat]
  /\ sessions \in Seq(Nat)
  /\ timeouts \in Nat
  /\ drops \in Nat
  /\ mobility \in Nat
============================================================================
