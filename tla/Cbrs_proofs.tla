----------------------------- MODULE Cbrs_proofs -----------------------------
(***************************************************************************)
(* Proofs about the CBRS simulator, for any number of agents, of other     *)
(* CBSDs and of allocations, and whether or not the SAS is killed.         *)
(*                                                                         *)
(* The argument: g_sas_mtx lets one request at a time onto the shared      *)
(* connection, so a thread hears the answer to its own request; the        *)
(* SAS's counters make the ids and grants of answers new, wherever the     *)
(* answer is on its way; an entry is written by the thread of one          *)
(* connection only, so the guard it passed still holds when the answer     *)
(* arrives, and the agent's own state follows the entry.                   *)
(***************************************************************************)
EXTENDS Cbrs, SequenceTheorems, TLAPS
----------------------------------------------------------------------------
(* The thread has a request in hand. *)
Busy(c) == dp[c].pc \in {"lock", "sas", "apply"}

(* A client has one request under way, in one place. *)
FlowOK(c) ==
  /\ client[c].pc = "idle" => up[c] = None /\ down[c] = << >> /\ ~ Busy(c)
  /\ client[c].pc = "wait" =>
       /\ up[c] # None => up[c] = client[c].req /\ down[c] = << >> /\ ~ Busy(c)
       /\ down[c] # << >> => Tail(down[c]) = << >> /\ ~ Busy(c)
       /\ Busy(c) => dp[c].req = client[c].req

(* r answers req: an id for a registration, a grant for a grant. *)
Answers(r, req) ==
  /\ r.type = IF req = "Unknown" THEN "Error" ELSE req
  /\ r.id # 0 <=> req = "Registration"
  /\ r.grant # 0 <=> req = "Grant"

(* The lock is held by the thread that waits for the SAS. *)
ThreadOK(c) ==
  /\ dp[c].pc = "sas" <=> sasMtx = c
  /\ Busy(c) => dp[c].req \in Request
  /\ dp[c].pc = "apply" => dp[c].resp = Empty \/ Answers(dp[c].resp, dp[c].req)
  /\ proxy \/ dp[c].pc = "gone"

(* The SAS connection carries the holder's request, or its answer, or *)
(* nothing.                                                           *)
ConnOK ==
  /\ sasMtx = None => sasReq = << >> /\ sasRsp = << >>
  /\ sasMtx # None =>
       \/ sasReq = <<dp[sasMtx].req>> /\ sasRsp = << >>
       \/ /\ sasReq = << >> /\ Len(sasRsp) = 1
          /\ Answers(sasRsp[1], dp[sasMtx].req)
       \/ sasReq = << >> /\ sasRsp = << >>
  /\ sasConn # "up" => sasReq = << >>

(* The numbers of an answer are taken from the counters and not yet used. *)
Unused(r) ==
  /\ r.id < counters.id /\ r.grant < counters.grant
  /\ r.id # 0 => r.id \notin DOMAIN registry /\ \A d \in Clients : dp[d].my # r.id
  /\ r.grant # 0 => \A i \in DOMAIN registry : registry[i].grant # r.grant

(* Two answers name different ids and grants. *)
Differ(r, q) == (r.id # 0 => r.id # q.id) /\ (r.grant # 0 => r.grant # q.grant)

(* Answers under way are unused and differ; connections have ids of their *)
(* own.                                                                   *)
FreshOK ==
  /\ counters.id > 0 /\ counters.grant > 0
  /\ \A c \in Clients : Unused(dp[c].resp)
  /\ \A c, d \in Clients : c # d => Differ(dp[c].resp, dp[d].resp)
  /\ sasRsp # << >> => Unused(sasRsp[1]) /\ \A c \in Clients : Differ(sasRsp[1], dp[c].resp)
  /\ \A c, d \in Clients : c # d /\ dp[c].my # 0 => dp[c].my # dp[d].my
  /\ \A c \in Clients : dp[c].my < counters.id

(* Entries come from the counters; an id that is known is registered. *)
RegistryOK ==
  /\ \A i \in DOMAIN registry :
       /\ i < counters.id
       /\ registry[i].grant < counters.grant
       /\ registry[i].state # "UNREGISTERED"
  /\ proxy \/ registry = << >>

(* The guard a request passed when it was received still holds. *)
GuardOK(c) ==
  Busy(c) =>
    /\ dp[c].req = "Grant" => Lookup(c).state = "REGISTERED"
    /\ dp[c].req = "Heartbeat" => Lookup(c).state \in {"GRANTED", "AUTHORIZED"}

(* The agent a and the entry of connection c say the same. *)
Agrees(a, c) ==
  /\ a.id = dp[c].my
  /\ a.state = Lookup(c).state /\ a.grant = Lookup(c).grant

(* An agent agrees with the proxy, or will when it takes the answer. *)
AgentOK(c) ==
  /\ client[c].pc = "idle" =>
       IF dp[c].pc = "gone"
       THEN client[c].id = 0 /\ client[c].state = "UNREGISTERED" /\ client[c].grant = 0
       ELSE Agrees(client[c], c)
  /\ client[c].pc = "wait" /\ dp[c].pc # "gone" /\ down[c] = << >> =>
       Agrees(client[c], c) /\ AgentMay(c, client[c].req)
  /\ client[c].pc = "wait" /\ down[c] # << >> /\ Head(down[c]).type # "Empty" =>
       IF dp[c].pc = "gone" THEN client[c].req = "Deregistration"
       ELSE Agrees(After(client[c], Head(down[c])), c)

(* The entry of the last id is gone with the thread. *)
LastForgotten ==
  \A c \in Clients : dp[c].pc = "gone" => dp[c].my \notin DOMAIN registry

LockInv  == (\A c \in Clients : FlowOK(c) /\ ThreadOK(c)) /\ ConnOK
FreshInv == FreshOK /\ RegistryOK /\ LastForgotten /\ GrantsDistinct
AgentInv == (\A c \in Clients : GuardOK(c)) /\ (proxy => \A c \in Agents : AgentOK(c))

IInv == TypeOK /\ LockInv /\ FreshInv /\ AgentInv
----------------------------------------------------------------------------
(* The answers the model builds are answers, with the fields they are *)
(* built from.                                                        *)
LEMMA ReplyTyped ==
  ASSUME NEW t \in Request \cup {"Refused", "Error", "Empty"}, NEW i \in Nat, NEW g \in Nat
  PROVE  /\ Reply(t, i, g) \in Answer /\ Reply(t, i, g).type = t
         /\ Reply(t, i, g).id = i /\ Reply(t, i, g).grant = g
  BY DEF Reply, Answer

(* The empty text names no id and no grant. *)
LEMMA EmptyTyped ==
  /\ Empty \in Answer /\ Empty.type = "Empty" /\ Empty.id = 0 /\ Empty.grant = 0
  BY ReplyTyped DEF Empty

(* A new agent is an agent, wherever it is. *)
LEMMA NewAgentTyped ==
  ASSUME NEW p \in {"idle", "wait", "gone"}
  PROVE  [NewAgent EXCEPT !.pc = p] \in Agent /\ [NewAgent EXCEPT !.pc = p].pc = p
  BY DEF NewAgent, Agent, State

(* An agent that has taken an answer is an agent. *)
LEMMA AfterTyped ==
  ASSUME NEW a \in Agent, NEW r \in Answer
  PROVE  After(a, r) \in Agent
<1>1. r.id \in Nat /\ r.grant \in Nat
  BY DEF Answer
<1> QED BY <1>1 DEF After, Succeeded, Agent, State

(* What each action leaves of the records it changes, field by field, and *)
(* that the types are kept.                                               *)
LEMMA AskFrame ==
  ASSUME TypeOK, NEW c \in Clients, NEW req \in Request, Ask(c, req)
  PROVE  /\ TypeOK'
         /\ client'[c].pc = "wait" /\ client'[c].req = req
         /\ client'[c].state = client[c].state /\ client'[c].id = client[c].id
         /\ client'[c].grant = client[c].grant
         /\ up'[c] = req
         /\ \A d \in Clients \ {c} : client'[d] = client[d] /\ up'[d] = up[d]
<1> USE DEF Ask
<1>1. /\ client \in [Clients -> Agent] /\ up \in [Clients -> Request \cup {None}]
      /\ asked \in [Clients -> Nat]
  BY DEF TypeOK
<1>2. client' \in [Clients -> Agent]
  BY <1>1 DEF Agent
<1>3. up' \in [Clients -> Request \cup {None}]
  BY <1>1
<1>4. asked' \in [Clients -> Nat]
  <2>1. asked' = asked \/ asked' = [asked EXCEPT ![c] = @ + 1]
    OBVIOUS
  <2> QED BY <1>1, <2>1
<1>5. TypeOK'
  BY <1>2, <1>3, <1>4 DEF TypeOK, sasVars
<1>6. /\ client'[c].pc = "wait" /\ client'[c].req = req
      /\ client'[c].state = client[c].state /\ client'[c].id = client[c].id
      /\ client'[c].grant = client[c].grant
  BY <1>1 DEF Agent
<1>7. \A d \in Clients \ {c} : client'[d] = client[d] /\ up'[d] = up[d]
  BY <1>1
<1> QED BY <1>1, <1>5, <1>6, <1>7

LEMMA GetFrame ==
  ASSUME TypeOK, NEW c \in Clients, Get(c)
  PROVE  /\ TypeOK'
         /\ client'[c].pc = "idle"
         /\ c \in Agents =>
              LET a == After(client[c], Head(down[c]))
              IN  /\ client'[c].state = a.state /\ client'[c].id = a.id
                  /\ client'[c].grant = a.grant
         /\ down'[c] = Tail(down[c])
         /\ \A d \in Clients \ {c} : client'[d] = client[d] /\ down'[d] = down[d]
<1> DEFINE a == IF c \in Agents THEN After(client[c], Head(down[c])) ELSE client[c]
<1>1. client \in [Clients -> Agent] /\ down \in [Clients -> Seq(Answer)]
  BY DEF TypeOK
<1>2. Head(down[c]) \in Answer /\ Tail(down[c]) \in Seq(Answer)
  BY <1>1 DEF Get
<1>3. a \in Agent
  BY <1>1, <1>2, AfterTyped
<1>4. /\ client' = [client EXCEPT ![c] = [a EXCEPT !.pc = "idle", !.req = None]]
      /\ down' = [down EXCEPT ![c] = Tail(down[c])]
  BY DEF Get
<1> HIDE DEF a
<1>5. [a EXCEPT !.pc = "idle", !.req = None] \in Agent
  BY <1>3 DEF Agent
<1>6. client' \in [Clients -> Agent] /\ down' \in [Clients -> Seq(Answer)]
  BY <1>1, <1>2, <1>4, <1>5
<1>7. TypeOK'
  BY <1>6 DEF TypeOK, sasVars, Get
<1>8. /\ client'[c].pc = "idle" /\ client'[c].state = a.state
      /\ client'[c].id = a.id /\ client'[c].grant = a.grant
  BY <1>1, <1>3, <1>4 DEF Agent
<1>9. /\ down'[c] = Tail(down[c])
      /\ \A d \in Clients \ {c} : client'[d] = client[d] /\ down'[d] = down[d]
  BY <1>1, <1>4
<1> QED BY <1>7, <1>8, <1>9 DEF a

LEMMA EndFrame ==
  ASSUME TypeOK, NEW c \in Clients, GiveUp(c) \/ Quit(c)
  PROVE  /\ TypeOK'
         /\ client'[c].pc = "gone"
         /\ \A d \in Clients \ {c} : client'[d] = client[d]
         /\ UNCHANGED <<up, down, proxy, dp, registry, sasMtx, sasReq, sasRsp, sasConn, counters>>
<1>1. client \in [Clients -> Agent] /\ asked \in [Clients -> Nat]
  BY DEF TypeOK
<1>2. /\ client' = [client EXCEPT ![c] = [NewAgent EXCEPT !.pc = "gone"]]
      /\ asked' = [asked EXCEPT ![c] = 0]
  BY DEF GiveUp, Quit, End
<1>3. UNCHANGED <<up, down, proxy, dp, registry, sasMtx, sasReq, sasRsp, sasConn, counters>>
  BY DEF GiveUp, Quit, sasVars
<1>4. client' \in [Clients -> Agent] /\ asked' \in [Clients -> Nat]
  BY <1>1, <1>2, NewAgentTyped
<1>5. TypeOK'
  BY <1>3, <1>4 DEF TypeOK
<1>6. client'[c].pc = "gone" /\ \A d \in Clients \ {c} : client'[d] = client[d]
  BY <1>1, <1>2, NewAgentTyped
<1> QED BY <1>3, <1>5, <1>6

LEMMA RefuseFrame ==
  ASSUME TypeOK, NEW c \in Clients, Refuse(c)
  PROVE  /\ TypeOK'
         /\ up'[c] = None /\ down'[c] = Append(down[c], Reply("Refused", 0, 0))
         /\ \A d \in Clients \ {c} : up'[d] = up[d] /\ down'[d] = down[d]
<1>1. up \in [Clients -> Request \cup {None}] /\ down \in [Clients -> Seq(Answer)]
  BY DEF TypeOK
<1>2. Append(down[c], Reply("Refused", 0, 0)) \in Seq(Answer)
  <2>1. Reply("Refused", 0, 0) \in Answer
    BY ReplyTyped
  <2> QED BY <1>1, <2>1
<1>3. up' \in [Clients -> Request \cup {None}] /\ down' \in [Clients -> Seq(Answer)]
  BY <1>1, <1>2 DEF Refuse
<1>4. TypeOK'
  BY <1>3 DEF TypeOK, sasVars, clientVars, Refuse
<1> QED BY <1>1, <1>4 DEF Refuse

LEMMA ReceiveFrame ==
  ASSUME TypeOK, NEW c \in Clients, Receive(c)
  PROVE  /\ TypeOK'
         /\ dp'[c].pc = "lock" /\ dp'[c].req = up[c] /\ dp'[c].my = dp[c].my
         /\ dp'[c].resp = dp[c].resp /\ up'[c] = None
         /\ \A d \in Clients \ {c} : dp'[d] = dp[d] /\ up'[d] = up[d]
<1> USE DEF Receive
<1>1. dp \in [Clients -> Handler] /\ up \in [Clients -> Request \cup {None}]
  BY DEF TypeOK
<1>2. dp' \in [Clients -> Handler]
  <2>1. [dp[c] EXCEPT !.pc = "lock", !.req = up[c]] \in Handler
    BY <1>1 DEF Handler
  <2>2. dp' = [dp EXCEPT ![c] = [dp[c] EXCEPT !.pc = "lock", !.req = up[c]]]
    BY <1>1
  <2> QED BY <1>1, <2>1, <2>2
<1>3. up' \in [Clients -> Request \cup {None}]
  BY <1>1
<1>5. TypeOK'
  BY <1>2, <1>3 DEF TypeOK, sasVars, clientVars
<1>6. /\ dp'[c].pc = "lock" /\ dp'[c].req = up[c] /\ dp'[c].my = dp[c].my
      /\ dp'[c].resp = dp[c].resp
  BY <1>1 DEF Handler
<1>7. \A d \in Clients \ {c} : dp'[d] = dp[d] /\ up'[d] = up[d]
  BY <1>1
<1> QED BY <1>1, <1>5, <1>6, <1>7

LEMMA DisconnectFrame ==
  ASSUME TypeOK, NEW c \in Clients, Disconnect(c)
  PROVE  /\ TypeOK'
         /\ dp'[c].pc = "gone" /\ dp'[c].my = dp[c].my /\ dp'[c].resp = dp[c].resp
         /\ \A d \in Clients \ {c} : dp'[d] = dp[d]
         /\ DOMAIN registry' = DOMAIN registry \ {dp[c].my}
         /\ \A i \in DOMAIN registry' : registry'[i] = registry[i]
<1>1. dp \in [Clients -> Handler]
  BY DEF TypeOK
<1>2. dp' \in [Clients -> Handler]
  BY <1>1 DEF Handler, Disconnect
<1>3. /\ DOMAIN registry' = DOMAIN registry \ {dp[c].my}
      /\ \A i \in DOMAIN registry' : registry'[i] = registry[i]
  BY DEF TypeOK, Disconnect, Erase
<1>4. TypeOK'
  BY <1>2, <1>3 DEF TypeOK, sasVars, clientVars, Disconnect
<1>5. /\ dp'[c].pc = "gone" /\ dp'[c].my = dp[c].my /\ dp'[c].resp = dp[c].resp
      /\ \A d \in Clients \ {c} : dp'[d] = dp[d]
  BY <1>1 DEF Handler, Disconnect
<1> QED BY <1>3, <1>4, <1>5

LEMMA ForwardFrame ==
  ASSUME TypeOK, NEW c \in Clients, Forward(c), dp[c].req \in Request
  PROVE  /\ TypeOK'
         /\ dp'[c].pc = "sas" /\ dp'[c].req = dp[c].req /\ dp'[c].my = dp[c].my
         /\ dp'[c].resp = dp[c].resp
         /\ \A d \in Clients \ {c} : dp'[d] = dp[d]
<1>1. dp \in [Clients -> Handler] /\ sasReq \in Seq(Request)
  BY DEF TypeOK
<1>2. dp' \in [Clients -> Handler]
  BY <1>1 DEF Handler, Forward
<1>3. sasReq' \in Seq(Request) /\ sasConn' \in {"up", "closed", "reset"}
  BY <1>1 DEF Forward
<1>4. TypeOK'
  BY <1>2, <1>3 DEF TypeOK, sasVars, clientVars, Forward
<1>5. /\ dp'[c].pc = "sas" /\ dp'[c].req = dp[c].req /\ dp'[c].my = dp[c].my
      /\ dp'[c].resp = dp[c].resp
      /\ \A d \in Clients \ {c} : dp'[d] = dp[d]
  BY <1>1 DEF Handler, Forward
<1> QED BY <1>4, <1>5

LEMMA KillFrame ==
  ASSUME TypeOK, NEW c \in Clients, ForwardKillsProxy(c)
  PROVE  /\ TypeOK'
         /\ \A d \in Clients : /\ dp'[d].pc = "gone" /\ dp'[d].req = dp[d].req
                               /\ dp'[d].my = dp[d].my /\ dp'[d].resp = dp[d].resp
         /\ DOMAIN registry' = {}
<1>1. dp \in [Clients -> Handler]
  BY DEF TypeOK
<1>2. dp' \in [Clients -> Handler]
  BY <1>1 DEF Handler, ForwardKillsProxy
<1>3. DOMAIN registry' = {}
  BY DEF ForwardKillsProxy
<1>4. TypeOK'
  BY <1>2, <1>3 DEF TypeOK, sasVars, clientVars, ForwardKillsProxy
<1>5. \A d \in Clients : /\ dp'[d].pc = "gone" /\ dp'[d].req = dp[d].req
                         /\ dp'[d].my = dp[d].my /\ dp'[d].resp = dp[d].resp
  BY <1>1 DEF Handler, ForwardKillsProxy
<1> QED BY <1>3, <1>4, <1>5

LEMMA HearFrame ==
  ASSUME TypeOK, NEW c \in Clients, HearSas(c)
  PROVE  /\ TypeOK'
         /\ dp'[c].pc = "apply" /\ dp'[c].req = dp[c].req /\ dp'[c].my = dp[c].my
         /\ \/ sasRsp # << >> /\ dp'[c].resp = Head(sasRsp) /\ sasRsp' = Tail(sasRsp)
            \/ sasRsp = << >> /\ dp'[c].resp = Empty /\ sasRsp' = sasRsp
         /\ \A d \in Clients \ {c} : dp'[d] = dp[d]
<1> DEFINE r == IF sasRsp # << >> THEN Head(sasRsp) ELSE Empty
<1>1. dp \in [Clients -> Handler] /\ sasRsp \in Seq(Answer)
  BY DEF TypeOK
<1>2. r \in Answer /\ sasRsp' \in Seq(Answer)
  BY <1>1, EmptyTyped DEF HearSas
<1>3. dp' = [dp EXCEPT ![c].pc = "apply", ![c].resp = r]
  BY DEF HearSas
<1>4. \/ sasRsp # << >> /\ r = Head(sasRsp) /\ sasRsp' = Tail(sasRsp)
      \/ sasRsp = << >> /\ r = Empty /\ sasRsp' = sasRsp
  BY DEF HearSas
<1> HIDE DEF r
<1>5. dp' \in [Clients -> Handler]
  BY <1>1, <1>2, <1>3 DEF Handler
<1>6. TypeOK'
  BY <1>2, <1>5, CbrsAssumption DEF TypeOK, sasVars, clientVars, HearSas
<1>7. /\ dp'[c].pc = "apply" /\ dp'[c].req = dp[c].req /\ dp'[c].my = dp[c].my
      /\ dp'[c].resp = r /\ \A d \in Clients \ {c} : dp'[d] = dp[d]
  BY <1>1, <1>2, <1>3 DEF Handler
<1> QED BY <1>4, <1>6, <1>7

(* The answer of the SAS carries the counter the request is for, and *)
(* nothing else.                                                     *)
LEMMA SasAnswerTyped ==
  ASSUME TypeOK, NEW req \in Request
  PROVE  /\ SasAnswer(req) \in Answer
         /\ SasAnswer(req).type = IF req = "Unknown" THEN "Error" ELSE req
         /\ SasAnswer(req).id = IF req = "Registration" THEN counters.id ELSE 0
         /\ SasAnswer(req).grant = IF req = "Grant" THEN counters.grant ELSE 0
<1>1. counters.id \in Nat /\ counters.grant \in Nat
  BY DEF TypeOK
<1> QED BY <1>1 DEF SasAnswer, Reply, Answer, Request

LEMMA HandleFrame ==
  ASSUME TypeOK, HandleDpConnection
  PROVE  /\ TypeOK'
         /\ counters'.id = IF Head(sasReq) = "Registration" THEN counters.id + 1 ELSE counters.id
         /\ counters'.grant = IF Head(sasReq) = "Grant" THEN counters.grant + 1 ELSE counters.grant
<1>1. counters \in [id : Nat, grant : Nat] /\ sasReq \in Seq(Request) /\ sasRsp \in Seq(Answer)
  BY DEF TypeOK
<1>2. Head(sasReq) \in Request /\ sasReq' \in Seq(Request)
  BY <1>1 DEF HandleDpConnection
<1>3. sasRsp' \in Seq(Answer)
  BY <1>1, <1>2, SasAnswerTyped DEF HandleDpConnection
<1>4. /\ counters' \in [id : Nat, grant : Nat]
      /\ counters'.id = IF Head(sasReq) = "Registration" THEN counters.id + 1 ELSE counters.id
      /\ counters'.grant = IF Head(sasReq) = "Grant" THEN counters.grant + 1 ELSE counters.grant
  <2> DEFINE i == IF Head(sasReq) = "Registration" THEN counters.id + 1 ELSE counters.id
             g == IF Head(sasReq) = "Grant" THEN counters.grant + 1 ELSE counters.grant
  <2>1. i \in Nat /\ g \in Nat
    BY <1>1
  <2>2. counters' = [counters EXCEPT !.id = i, !.grant = g]
    BY <1>1 DEF HandleDpConnection
  <2> HIDE DEF i, g
  <2>3. counters' \in [id : Nat, grant : Nat] /\ counters'.id = i /\ counters'.grant = g
    BY <1>1, <2>1, <2>2
  <2> QED BY <2>3 DEF i, g
<1>5. TypeOK'
  BY <1>2, <1>3, <1>4 DEF TypeOK, clientVars, HandleDpConnection
<1> QED BY <1>4, <1>5

LEMMA CrashFrame ==
  ASSUME TypeOK, SasCrash
  PROVE  TypeOK'
<1>1. sasReq' \in Seq(Request) /\ sasConn' \in {"up", "closed", "reset"}
  BY DEF SasCrash
<1> QED BY <1>1 DEF TypeOK, clientVars, SasCrash

(* What Apply does to the registry: it adds the id of a registration, gives *)
(* the connection's own entry a state and a grant, removes it, or nothing.   *)
Sets(c, s, g) ==
  /\ dp[c].my \in DOMAIN registry /\ DOMAIN registry' = DOMAIN registry
  /\ registry'[dp[c].my] \in Info
  /\ registry'[dp[c].my].state = s /\ registry'[dp[c].my].grant = g
  /\ \A i \in DOMAIN registry \ {dp[c].my} : registry'[i] = registry[i]

(* One of these holds, whatever the answer. *)
LEMMA UpdatedCases ==
  ASSUME TypeOK, NEW c \in Clients, NEW r \in Answer, registry' = Updated(c, r)
  PROVE  \/ /\ r.type = "Registration"
            /\ DOMAIN registry' = DOMAIN registry \cup {r.id}
            /\ registry'[r.id] = [state |-> "REGISTERED", grant |-> 0]
            /\ \A i \in DOMAIN registry \ {r.id} : registry'[i] = registry[i]
         \/ r.type = "Grant" /\ Sets(c, "GRANTED", r.grant)
         \/ r.type = "Heartbeat" /\ Sets(c, "AUTHORIZED", registry[dp[c].my].grant)
         \/ r.type = "Relinquishment" /\ Sets(c, "REGISTERED", 0)
         \/ /\ r.type = "Deregistration"
            /\ DOMAIN registry' = DOMAIN registry \ {dp[c].my}
            /\ \A i \in DOMAIN registry' : registry'[i] = registry[i]
         \/ /\ r.type \in {"Grant", "Heartbeat", "Relinquishment"}
            /\ dp[c].my \notin DOMAIN registry /\ registry' = registry
         \/ /\ r.type \notin {"Registration", "Grant", "Heartbeat", "Relinquishment",
                               "Deregistration"}
            /\ registry' = registry
<1> DEFINE my == dp[c].my
<1>1. r.grant \in Nat
  BY DEF Answer
<1>2. \A i \in DOMAIN registry : registry[i] \in Info
  BY DEF TypeOK
<1>3. CASE r.type = "Registration"
  <2>1. registry' = Insert(r.id, [state |-> "REGISTERED", grant |-> 0])
    BY <1>3 DEF Updated
  <2> QED BY <1>3, <2>1 DEF Insert
<1>4. CASE r.type = "Grant"
  <2>1. registry' = IF my \in DOMAIN registry
                    THEN [registry EXCEPT ![my] = [state |-> "GRANTED", grant |-> r.grant]]
                    ELSE registry
    BY <1>4 DEF Updated
  <2> QED BY <1>1, <1>4, <2>1 DEF Sets, Info, State
<1>5. CASE r.type = "Heartbeat"
  <2>1. registry' = IF my \in DOMAIN registry
                    THEN [registry EXCEPT ![my].state = "AUTHORIZED"] ELSE registry
    BY <1>5 DEF Updated
  <2>2. my \in DOMAIN registry => registry[my] \in Info
    BY <1>2
  <2> QED BY <1>5, <2>1, <2>2 DEF Sets, Info, State
<1>6. CASE r.type = "Relinquishment"
  <2>1. registry' = IF my \in DOMAIN registry
                    THEN [registry EXCEPT ![my] = [state |-> "REGISTERED", grant |-> 0]]
                    ELSE registry
    BY <1>6 DEF Updated
  <2> QED BY <1>6, <2>1 DEF Sets, Info, State
<1>7. CASE r.type = "Deregistration"
  <2>1. registry' = IF my \in DOMAIN registry THEN Erase(my) ELSE registry
    BY <1>7 DEF Updated
  <2> QED BY <1>7, <2>1 DEF Erase
<1>8. CASE r.type \notin {"Registration", "Grant", "Heartbeat", "Relinquishment",
                         "Deregistration"}
  BY <1>8 DEF Updated
<1> QED BY <1>3, <1>4, <1>5, <1>6, <1>7, <1>8

LEMMA ApplyFrame ==
  ASSUME TypeOK, NEW c \in Clients, Apply(c),
         dp[c].resp.type = "Registration" => dp[c].resp.id # 0
  PROVE  /\ TypeOK'
         /\ dp'[c].my = IF dp[c].resp.type = "Registration" THEN dp[c].resp.id ELSE dp[c].my
         /\ dp'[c].pc = IF dp[c].resp.type = "Deregistration" THEN "gone" ELSE "recv"
         /\ dp'[c].ids = IF dp[c].resp.type = "Registration"
                         THEN dp[c].ids \cup {dp[c].resp.id} ELSE dp[c].ids
         /\ dp'[c].resp = Empty
         /\ down'[c] = Append(down[c], dp[c].resp)
         /\ \A d \in Clients \ {c} : dp'[d] = dp[d] /\ down'[d] = down[d]
<1> DEFINE r == dp[c].resp
           m == IF r.type = "Registration" THEN r.id ELSE dp[c].my
           h == IF r.type = "Registration" THEN dp[c].ids \cup {r.id} ELSE dp[c].ids
           p == IF r.type = "Deregistration" THEN "gone" ELSE "recv"
<1>1. dp \in [Clients -> Handler] /\ down \in [Clients -> Seq(Answer)]
  BY DEF TypeOK
<1>2. r \in Answer /\ dp[c].my \in Nat /\ dp[c].ids \in SUBSET Nat
  BY <1>1 DEF Handler
<1>3. r.id \in Nat /\ r.grant \in Nat
  BY <1>2 DEF Answer
<1>4. m \in Nat /\ h \in SUBSET Nat /\ p \in {"recv", "gone"}
  BY <1>2, <1>3
<1>5. dp' = [dp EXCEPT ![c].my = m, ![c].ids = h, ![c].pc = p, ![c].req = None, ![c].resp = Empty]
  BY <1>1 DEF Apply
<1>6. down' = [down EXCEPT ![c] = Append(down[c], r)]
  BY DEF Apply
<1>7. /\ DOMAIN registry' \subseteq Nat \ {0}
      /\ \A i \in DOMAIN registry' : registry'[i] \in Info
  <2>1. registry' = Updated(c, r)
    BY DEF Apply
  <2>2. [state |-> "REGISTERED", grant |-> 0] \in Info
    BY DEF Info, State
  <2>3. DOMAIN registry \subseteq Nat \ {0} /\ \A i \in DOMAIN registry : registry[i] \in Info
    BY DEF TypeOK
  <2> HIDE DEF r
  <2> QED BY <1>2, <1>3, <2>1, <2>2, <2>3, UpdatedCases DEF Sets, r
<1> HIDE DEF r, m, h, p
<1>8. dp' \in [Clients -> Handler] /\ down' \in [Clients -> Seq(Answer)]
  <2>1. Append(down[c], r) \in Seq(Answer)
    BY <1>1, <1>2
  <2>2. [dp[c] EXCEPT !.my = m, !.ids = h, !.pc = p, !.req = None, !.resp = Empty] \in Handler
    BY <1>1, <1>4, EmptyTyped DEF Handler
  <2>3. dp' = [dp EXCEPT ![c] =
                [dp[c] EXCEPT !.my = m, !.ids = h, !.pc = p, !.req = None, !.resp = Empty]]
    BY <1>1, <1>5
  <2> QED BY <1>1, <1>6, <2>1, <2>2, <2>3
<1>9. TypeOK'
  BY <1>7, <1>8 DEF TypeOK, sasVars, clientVars, Apply
<1>10. /\ dp'[c].my = m /\ dp'[c].ids = h /\ dp'[c].pc = p /\ dp'[c].resp = Empty
       /\ \A d \in Clients \ {c} : dp'[d] = dp[d]
  BY <1>1, <1>5 DEF Handler
<1>11. down'[c] = Append(down[c], r) /\ \A d \in Clients \ {c} : down'[d] = down[d]
  BY <1>1, <1>6
<1> QED BY <1>9, <1>10, <1>11 DEF r, m, h, p
----------------------------------------------------------------------------
(* A connection no part of which changes keeps its flow. *)
LEMMA OtherFlow ==
  ASSUME NEW d \in Clients, FlowOK(d), client'[d] = client[d], up'[d] = up[d],
         down'[d] = down[d], dp'[d] = dp[d]
  PROVE  FlowOK(d)'
  BY DEF FlowOK, Busy

(* A thread that does not change keeps what it knows of the lock. *)
LEMMA OtherThread ==
  ASSUME NEW d \in Clients, ThreadOK(d), dp'[d] = dp[d], sasMtx' = d <=> sasMtx = d,
         proxy => proxy'
  PROVE  ThreadOK(d)'
  BY DEF ThreadOK, Busy, Answers

(* An agent asks only when nothing is under way on its connection. *)
LEMMA AskLock ==
  ASSUME TypeOK, LockInv, NEW c \in Clients, NEW req \in Request, Ask(c, req)
  PROVE  LockInv'
<1>1. ConnOK'
  BY DEF LockInv, ConnOK, Answers, Ask, sasVars
<1>2. ASSUME NEW d \in Clients PROVE ThreadOK(d)'
  BY <1>2, OtherThread DEF LockInv, Ask
<1>3. ASSUME NEW d \in Clients \ {c} PROVE FlowOK(d)'
  BY <1>3, OtherFlow, AskFrame DEF LockInv, Ask
<1>4. FlowOK(c)'
  <2>1. down[c] = << >> /\ ~ Busy(c)
    BY DEF LockInv, FlowOK, Ask
  <2>2. down'[c] = << >> /\ ~ Busy(c)'
    BY <2>1 DEF Busy, Ask
  <2>3. client'[c].pc = "wait" /\ client'[c].req = req /\ up'[c] = req
    BY AskFrame
  <2> QED BY <2>2, <2>3 DEF FlowOK
<1> QED BY <1>1, <1>2, <1>3, <1>4 DEF LockInv

(* Taking the only answer leaves the connection quiet. *)
LEMMA GetLock ==
  ASSUME TypeOK, LockInv, NEW c \in Clients, Get(c)
  PROVE  LockInv'
<1>1. ConnOK'
  BY DEF LockInv, ConnOK, Answers, Get, sasVars
<1>2. ASSUME NEW d \in Clients PROVE ThreadOK(d)'
  BY <1>2, OtherThread DEF LockInv, Get
<1>3. ASSUME NEW d \in Clients \ {c} PROVE FlowOK(d)'
  BY <1>3, OtherFlow, GetFrame DEF LockInv, Get
<1>4. FlowOK(c)'
  <2>1. up[c] = None /\ Tail(down[c]) = << >> /\ ~ Busy(c)
    BY DEF LockInv, FlowOK, Get
  <2> QED BY <2>1, GetFrame DEF FlowOK, Busy, Get
<1> QED BY <1>1, <1>2, <1>3, <1>4 DEF LockInv

(* A client that is gone promises nothing about its connection. *)
LEMMA EndLock ==
  ASSUME TypeOK, LockInv, NEW c \in Clients, GiveUp(c) \/ Quit(c)
  PROVE  LockInv'
<1>1. ConnOK'
  BY EndFrame DEF LockInv, ConnOK, Answers
<1>2. ASSUME NEW d \in Clients PROVE ThreadOK(d)'
  BY <1>2, OtherThread, EndFrame DEF LockInv
<1>3. ASSUME NEW d \in Clients \ {c} PROVE FlowOK(d)'
  BY <1>3, OtherFlow, EndFrame DEF LockInv
<1>4. FlowOK(c)'
  BY EndFrame DEF FlowOK
<1> QED BY <1>1, <1>2, <1>3, <1>4 DEF LockInv

(* A refusal is the answer to the request. *)
LEMMA RefuseLock ==
  ASSUME TypeOK, LockInv, NEW c \in Clients, Refuse(c)
  PROVE  LockInv'
<1>1. ConnOK'
  BY DEF LockInv, ConnOK, Answers, Refuse, sasVars
<1>2. ASSUME NEW d \in Clients PROVE ThreadOK(d)'
  BY <1>2, OtherThread DEF LockInv, Refuse
<1>3. ASSUME NEW d \in Clients \ {c} PROVE FlowOK(d)'
  BY <1>3, OtherFlow, RefuseFrame DEF LockInv, Refuse, clientVars
<1>4. FlowOK(c)'
  <2>1. client' = client /\ dp' = dp /\ dp[c].pc = "recv" /\ up[c] # None
    BY DEF Refuse, clientVars
  <2>2. /\ client[c].pc # "idle"
        /\ client[c].pc = "wait" => down[c] = << >>
    BY <2>1 DEF LockInv, FlowOK
  <2>3. ~ Busy(c)'
    BY <2>1 DEF Busy
  <2>4. client[c].pc = "wait" => Tail(down'[c]) = << >>
    BY <2>2, RefuseFrame
  <2> QED BY <2>1, <2>2, <2>3, <2>4, RefuseFrame DEF FlowOK
<1> QED BY <1>1, <1>2, <1>3, <1>4 DEF LockInv

(* A received request is the one the client waits on. *)
LEMMA ReceiveLock ==
  ASSUME TypeOK, LockInv, NEW c \in Clients, Receive(c)
  PROVE  LockInv'
<1>0. dp[c].pc = "recv" /\ sasMtx # c /\ up[c] # None
  BY DEF LockInv, ThreadOK, Receive
<1>1. ConnOK'
  <2>1. sasMtx \in Clients \cup {None}
    BY DEF TypeOK
  <2>2. sasMtx # None => dp'[sasMtx] = dp[sasMtx]
    BY <1>0, <2>1, ReceiveFrame
  <2> QED BY <2>2 DEF LockInv, ConnOK, Answers, Receive, sasVars
<1>2. ASSUME NEW d \in Clients \ {c} PROVE FlowOK(d)' /\ ThreadOK(d)'
  BY <1>2, OtherFlow, OtherThread, ReceiveFrame DEF LockInv, Receive, clientVars
<1>3. ThreadOK(c)'
  <2>1. up[c] \in Request
    BY <1>0 DEF TypeOK
  <2> QED BY <1>0, <2>1, ReceiveFrame DEF LockInv, ThreadOK, Receive
<1>4. FlowOK(c)'
  BY <1>0, ReceiveFrame DEF LockInv, FlowOK, Receive, clientVars
<1> QED BY <1>1, <1>2, <1>3, <1>4 DEF LockInv

(* A thread that ends at recvMsg does not hold the lock. *)
LEMMA DisconnectLock ==
  ASSUME TypeOK, LockInv, NEW c \in Clients, Disconnect(c)
  PROVE  LockInv'
<1>0. dp[c].pc = "recv" /\ sasMtx # c /\ client[c].pc = "gone"
  BY DEF LockInv, ThreadOK, Disconnect
<1>1. ConnOK'
  <2>1. sasMtx \in Clients \cup {None}
    BY DEF TypeOK
  <2>2. sasMtx # None => dp'[sasMtx] = dp[sasMtx]
    BY <1>0, <2>1, DisconnectFrame
  <2> QED BY <2>2 DEF LockInv, ConnOK, Answers, Disconnect, sasVars
<1>2. ASSUME NEW d \in Clients \ {c} PROVE FlowOK(d)' /\ ThreadOK(d)'
  BY <1>2, OtherFlow, OtherThread, DisconnectFrame DEF LockInv, Disconnect, clientVars
<1>3. ThreadOK(c)'
  BY <1>0, DisconnectFrame DEF ThreadOK, Disconnect, Busy
<1>4. FlowOK(c)'
  BY <1>0 DEF FlowOK, Disconnect, clientVars
<1> QED BY <1>1, <1>2, <1>3, <1>4 DEF LockInv

(* The thread that takes the lock finds the SAS connection quiet. *)
LEMMA ForwardLock ==
  ASSUME TypeOK, LockInv, NEW c \in Clients, Forward(c)
  PROVE  LockInv' /\ dp[c].req \in Request
<1>0. /\ dp[c].pc = "lock" /\ sasMtx = None /\ sasMtx' = c /\ dp[c].req \in Request
      /\ c # None /\ Busy(c)
  BY CbrsAssumption DEF LockInv, ThreadOK, Forward, Busy
<1>1. ConnOK'
  <2>1. sasReq = << >> /\ sasRsp = << >> /\ sasRsp' = << >>
    BY <1>0 DEF LockInv, ConnOK, Forward
  <2>2. \/ sasConn = "up" /\ sasConn' = "up" /\ sasReq' = Append(sasReq, dp[c].req)
        \/ sasConn' = "reset" /\ sasReq' = << >>
    BY <2>1 DEF Forward, TypeOK
  <2>3. Append(<< >>, dp[c].req) = <<dp[c].req>>
    BY <1>0
  <2> QED BY <1>0, <2>1, <2>2, <2>3, ForwardFrame DEF ConnOK
<1>2. ASSUME NEW d \in Clients \ {c} PROVE FlowOK(d)' /\ ThreadOK(d)'
  <2>1. sasMtx' = d <=> sasMtx = d
    BY <1>0, <1>2, CbrsAssumption
  <2> QED BY <1>0, <1>2, <2>1, OtherFlow, OtherThread, ForwardFrame
          DEF LockInv, Forward, clientVars
<1>3. ThreadOK(c)'
  BY <1>0, ForwardFrame DEF ThreadOK, Forward, Busy
<1>4. FlowOK(c)'
  BY <1>0, ForwardFrame DEF LockInv, FlowOK, Forward, clientVars, Busy
<1> QED BY <1>0, <1>1, <1>2, <1>3, <1>4 DEF LockInv

(* The process ends while nobody holds the lock. *)
LEMMA KillLock ==
  ASSUME TypeOK, LockInv, NEW c \in Clients, ForwardKillsProxy(c)
  PROVE  LockInv'
<1>1. ConnOK'
  BY DEF LockInv, ConnOK, ForwardKillsProxy, sasVars
<1>2. ASSUME NEW d \in Clients PROVE FlowOK(d)' /\ ThreadOK(d)'
  <2>1. dp'[d].pc = "gone" /\ client' = client /\ up' = up /\ down' = down /\ sasMtx' # d
    BY <1>2, KillFrame, CbrsAssumption DEF ForwardKillsProxy, clientVars
  <2>2. ~ Busy(d)'
    BY <2>1 DEF Busy
  <2>3. ThreadOK(d)'
    BY <2>1, <2>2 DEF ThreadOK
  <2>4. FlowOK(d)
    BY <1>2 DEF LockInv
  <2> QED BY <2>1, <2>2, <2>3, <2>4 DEF FlowOK
<1> QED BY <1>1, <1>2 DEF LockInv

(* The holder hears the answer to its own request, and leaves the *)
(* connection quiet.                                              *)
LEMMA HearLock ==
  ASSUME TypeOK, LockInv, NEW c \in Clients, HearSas(c)
  PROVE  LockInv'
<1>0. /\ dp[c].pc = "sas" /\ sasMtx = c /\ sasMtx' = None /\ c # None /\ Busy(c)
      /\ dp[c].req \in Request
  BY CbrsAssumption DEF LockInv, ThreadOK, HearSas, Busy
<1>1. /\ \/ sasReq = <<dp[c].req>> /\ sasRsp = << >>
         \/ sasReq = << >> /\ Len(sasRsp) = 1 /\ Answers(sasRsp[1], dp[c].req)
         \/ sasReq = << >> /\ sasRsp = << >>
      /\ sasConn # "up" => sasReq = << >>
  BY <1>0 DEF LockInv, ConnOK
<1>2. sasRsp \in Seq(Answer) /\ sasReq' = sasReq /\ sasConn' = sasConn
  BY DEF TypeOK, HearSas
<1>3. sasRsp' = << >> /\ sasReq' = << >>
  BY <1>1, <1>2 DEF HearSas
<1>4. dp'[c].resp = Empty \/ Answers(dp'[c].resp, dp[c].req)
  <2>1. CASE sasRsp = << >>
    BY <2>1, HearFrame
  <2>2. CASE sasRsp # << >>
    <3>1. Answers(sasRsp[1], dp[c].req) /\ dp'[c].resp = Head(sasRsp)
      BY <1>1, <2>2, HearFrame
    <3>2. Head(sasRsp) = sasRsp[1]
      BY <1>2, <2>2
    <3> QED BY <3>1, <3>2
  <2> QED BY <2>1, <2>2
<1>5. ConnOK'
  BY <1>0, <1>3 DEF ConnOK
<1>6. ASSUME NEW d \in Clients \ {c} PROVE FlowOK(d)' /\ ThreadOK(d)'
  <2>1. sasMtx' = d <=> sasMtx = d
    BY <1>0, <1>6, CbrsAssumption
  <2> QED BY <1>6, <2>1, OtherFlow, OtherThread, HearFrame DEF LockInv, HearSas, clientVars
<1>7. ThreadOK(c)'
  <2>1. dp'[c].pc = "apply" /\ dp'[c].req = dp[c].req
    BY HearFrame
  <2> QED BY <1>0, <1>4, <2>1, HearFrame DEF ThreadOK, HearSas, Busy, Answers
<1>8. FlowOK(c)'
  BY <1>0, HearFrame DEF LockInv, FlowOK, HearSas, clientVars, Busy
<1> QED BY <1>5, <1>6, <1>7, <1>8 DEF LockInv

(* The answer that is applied is the answer to the request, or empty. *)
LEMMA ApplyLock ==
  ASSUME TypeOK, LockInv, NEW c \in Clients, Apply(c)
  PROVE  /\ LockInv'
         /\ dp[c].resp = Empty \/ Answers(dp[c].resp, dp[c].req)
         /\ dp[c].resp.type = "Registration" => dp[c].resp.id # 0
<1>0. dp[c].pc = "apply" /\ sasMtx # c /\ proxy /\ Busy(c)
  BY DEF LockInv, ThreadOK, Apply, Busy
<1>1. dp[c].resp = Empty \/ Answers(dp[c].resp, dp[c].req)
  BY <1>0 DEF LockInv, ThreadOK
<1>2. dp[c].resp.type = "Registration" => dp[c].resp.id # 0
  BY <1>1, EmptyTyped DEF Answers
<1>3. ConnOK'
  <2>1. sasMtx \in Clients \cup {None}
    BY DEF TypeOK
  <2>2. sasMtx # None => dp'[sasMtx] = dp[sasMtx]
    BY <1>0, <1>2, <2>1, ApplyFrame
  <2> QED BY <2>2 DEF LockInv, ConnOK, Answers, Apply, sasVars
<1>4. ASSUME NEW d \in Clients \ {c} PROVE FlowOK(d)' /\ ThreadOK(d)'
  BY <1>2, <1>4, OtherFlow, OtherThread, ApplyFrame DEF LockInv, Apply, clientVars
<1>5. dp'[c].pc \in {"recv", "gone"} /\ client' = client /\ up' = up
  BY <1>2, ApplyFrame DEF Apply, clientVars
<1>6. ThreadOK(c)'
  BY <1>0, <1>5 DEF ThreadOK, Apply, Busy
<1>7. FlowOK(c)'
  <2>1. ~ Busy(c)'
    BY <1>5 DEF Busy
  <2>2. client[c].pc # "idle"
    BY <1>0 DEF LockInv, FlowOK
  <2>3. client[c].pc = "wait" => up[c] = None /\ down[c] = << >>
    BY <1>0 DEF LockInv, FlowOK
  <2>4. client[c].pc = "wait" => Tail(down'[c]) = << >>
    <3>1. down'[c] = Append(down[c], dp[c].resp)
      BY <1>2, ApplyFrame
    <3> QED BY <2>3, <3>1
  <2> QED BY <1>5, <2>1, <2>2, <2>3, <2>4 DEF FlowOK
<1> QED BY <1>1, <1>2, <1>3, <1>4, <1>6, <1>7 DEF LockInv

(* The SAS reads the request of the holder and answers that one. *)
LEMMA HandleLock ==
  ASSUME TypeOK, LockInv, FreshInv, HandleDpConnection
  PROVE  /\ LockInv'
         /\ sasRsp = << >> /\ Head(sasReq) \in Request
         /\ sasRsp' # << >> /\ sasRsp'[1] = SasAnswer(Head(sasReq))
<1>0. sasReq # << >> /\ sasReq \in Seq(Request) /\ sasReq' = Tail(sasReq)
  BY DEF HandleDpConnection, TypeOK
<1>1. sasMtx # None /\ sasReq = <<dp[sasMtx].req>> /\ sasRsp = << >>
  BY <1>0 DEF LockInv, ConnOK
<1>2. /\ Head(sasReq) = dp[sasMtx].req /\ Head(sasReq) \in Request
      /\ sasReq' = << >> /\ sasRsp' = <<SasAnswer(Head(sasReq))>>
  BY <1>0, <1>1 DEF HandleDpConnection
<1>3. Answers(SasAnswer(Head(sasReq)), dp[sasMtx].req)
  <2>1. counters.id # 0 /\ counters.grant # 0
    BY DEF FreshInv, FreshOK, TypeOK
  <2> QED BY <1>2, <2>1, SasAnswerTyped DEF Answers
<1>4. Len(sasRsp') = 1 /\ sasRsp'[1] = SasAnswer(Head(sasReq)) /\ sasRsp' # << >>
  BY <1>2
<1>5. ConnOK'
  <2>1. sasMtx' = sasMtx /\ dp' = dp /\ sasConn' = "up"
    BY DEF HandleDpConnection
  <2>2. Answers(sasRsp[1], dp[sasMtx].req)'
    BY <1>3, <1>4, <2>1 DEF Answers
  <2> QED BY <1>1, <1>2, <1>4, <2>1, <2>2 DEF ConnOK
<1>6. ASSUME NEW d \in Clients PROVE FlowOK(d)' /\ ThreadOK(d)'
  BY <1>6, OtherFlow, OtherThread DEF LockInv, HandleDpConnection, clientVars
<1> QED BY <1>1, <1>2, <1>4, <1>5, <1>6 DEF LockInv

(* A SAS that is killed takes the request with it. *)
LEMMA CrashLock ==
  ASSUME TypeOK, LockInv, SasCrash
  PROVE  LockInv'
<1>1. ConnOK'
  BY DEF LockInv, ConnOK, Answers, SasCrash
<1>2. ASSUME NEW d \in Clients PROVE FlowOK(d)' /\ ThreadOK(d)'
  BY <1>2, OtherFlow, OtherThread DEF LockInv, SasCrash, clientVars
<1> QED BY <1>1, <1>2 DEF LockInv
----------------------------------------------------------------------------
(* A step that touches no id, no grant and no entry keeps them fresh and *)
(* distinct.                                                             *)
LEMMA FreshKept ==
  ASSUME FreshInv,
         \A d \in Clients : /\ dp'[d].my = dp[d].my /\ dp'[d].resp = dp[d].resp
                            /\ dp'[d].pc = "gone" => dp[d].pc = "gone",
         registry' = registry, sasRsp' = sasRsp, counters' = counters, proxy => proxy'
  PROVE  FreshInv'
<1>1. FreshOK'
  <2>1. \A d \in Clients : Unused(dp[d].resp)'
    BY DEF FreshInv, FreshOK, Unused
  <2>2. \A b, d \in Clients : b # d => Differ(dp[b].resp, dp[d].resp)'
    BY DEF FreshInv, FreshOK, Differ
  <2>3. sasRsp # << >> => Unused(sasRsp[1])' /\ \A d \in Clients : Differ(sasRsp[1], dp[d].resp)'
    BY DEF FreshInv, FreshOK, Unused, Differ
  <2> QED BY <2>1, <2>2, <2>3 DEF FreshInv, FreshOK
<1>2. RegistryOK' /\ LastForgotten' /\ GrantsDistinct'
  BY DEF FreshInv, RegistryOK, LastForgotten, GrantsDistinct
<1> QED BY <1>1, <1>2 DEF FreshInv

(* Removing an entry makes no two alike. *)
LEMMA DisconnectFresh ==
  ASSUME TypeOK, FreshInv, NEW c \in Clients, Disconnect(c)
  PROVE  FreshInv'
<1>1. /\ \A d \in Clients : dp'[d].my = dp[d].my /\ dp'[d].resp = dp[d].resp
      /\ \A d \in Clients \ {c} : dp'[d] = dp[d]
      /\ DOMAIN registry' = DOMAIN registry \ {dp[c].my}
      /\ \A i \in DOMAIN registry' : registry'[i] = registry[i]
  BY DisconnectFrame
<1>2. proxy /\ proxy' /\ UNCHANGED <<sasRsp, counters>>
  BY DEF Disconnect, sasVars
<1>3. FreshOK'
  BY <1>1, <1>2 DEF FreshInv, FreshOK, Unused, Differ
<1>4. RegistryOK'
  BY <1>1, <1>2 DEF FreshInv, RegistryOK
<1>5. LastForgotten' /\ GrantsDistinct'
  BY <1>1 DEF FreshInv, LastForgotten, GrantsDistinct
<1> QED BY <1>3, <1>4, <1>5 DEF FreshInv

(* An empty registry has no two entries. *)
LEMMA KillFresh ==
  ASSUME TypeOK, FreshInv, NEW c \in Clients, ForwardKillsProxy(c)
  PROVE  FreshInv'
<1>1. /\ \A d \in Clients : dp'[d].my = dp[d].my /\ dp'[d].resp = dp[d].resp
      /\ DOMAIN registry' = {}
  BY KillFrame
<1>2. registry' = << >> /\ UNCHANGED <<sasRsp, counters>>
  BY DEF ForwardKillsProxy, sasVars
<1>3. FreshOK'
  BY <1>1, <1>2 DEF FreshInv, FreshOK, Unused, Differ
<1>4. RegistryOK'
  BY <1>1, <1>2 DEF RegistryOK
<1>5. LastForgotten' /\ GrantsDistinct'
  BY <1>1 DEF LastForgotten, GrantsDistinct
<1> QED BY <1>3, <1>4, <1>5 DEF FreshInv

(* The number under way moves from the connection into the thread. *)
LEMMA HearFresh ==
  ASSUME TypeOK, LockInv, FreshInv, NEW c \in Clients, HearSas(c)
  PROVE  FreshInv'
<1>1. /\ \A d \in Clients : dp'[d].my = dp[d].my
      /\ \A d \in Clients \ {c} : dp'[d].resp = dp[d].resp
      /\ \A d \in Clients : dp'[d].pc = "gone" => dp[d].pc = "gone"
  BY HearFrame
<1>2. UNCHANGED <<registry, counters, proxy>>
  BY DEF HearSas
<1>3. sasRsp' = << >> /\ (dp'[c].resp = Empty \/ (sasRsp # << >> /\ dp'[c].resp = sasRsp[1]))
  <2>1. sasMtx = c /\ c # None /\ sasRsp \in Seq(Answer)
    BY CbrsAssumption DEF LockInv, ThreadOK, HearSas, TypeOK
  <2>2. sasRsp = << >> \/ Len(sasRsp) = 1
    BY <2>1 DEF LockInv, ConnOK
  <2>0. \/ sasRsp # << >> /\ dp'[c].resp = Head(sasRsp) /\ sasRsp' = Tail(sasRsp)
        \/ sasRsp = << >> /\ dp'[c].resp = Empty /\ sasRsp' = sasRsp
    BY HearFrame
  <2>3. CASE sasRsp = << >>
    BY <2>0, <2>3
  <2>4. CASE Len(sasRsp) = 1
    <3>1. sasRsp # << >>
      BY <2>4
    <3>2. Head(sasRsp) = sasRsp[1]
      BY <2>1, <3>1
    <3>3. Len(Tail(sasRsp)) = 0 /\ Tail(sasRsp) \in Seq(Answer)
      BY <2>1, <2>4, <3>1
    <3>4. Tail(sasRsp) = << >>
      BY <3>3, EmptySeq
    <3> QED BY <2>0, <3>1, <3>2, <3>4
  <2> QED BY <2>2, <2>3, <2>4
<1>4. counters.id \in Nat /\ counters.grant \in Nat /\ counters.id > 0 /\ counters.grant > 0
  BY DEF FreshInv, FreshOK, TypeOK
<1>5. FreshOK'
  <2>1. Unused(dp'[c].resp)
    BY <1>3, <1>4, EmptyTyped DEF FreshInv, FreshOK, Unused
  <2>2. \A d \in Clients \ {c} : Unused(dp'[d].resp)
    BY <1>1 DEF FreshInv, FreshOK
  <2>3. \A d \in Clients : Unused(dp[d].resp)'
    BY <1>1, <1>2, <2>1, <2>2 DEF Unused
  <2>4. \A d \in Clients \ {c} :
           Differ(dp'[c].resp, dp'[d].resp) /\ Differ(dp'[d].resp, dp'[c].resp)
    BY <1>1, <1>3, EmptyTyped DEF FreshInv, FreshOK, Differ
  <2>5. \A b, d \in Clients \ {c} : b # d => Differ(dp'[b].resp, dp'[d].resp)
    BY <1>1 DEF FreshInv, FreshOK
  <2>6. \A b, d \in Clients : b # d => Differ(dp'[b].resp, dp'[d].resp)
    BY <2>4, <2>5
  <2>7. \A b, d \in Clients : b # d => Differ(dp[b].resp, dp[d].resp)'
    BY <2>6 DEF Differ
  <2> QED BY <1>1, <1>2, <1>3, <2>3, <2>7 DEF FreshInv, FreshOK
<1>6. RegistryOK' /\ LastForgotten' /\ GrantsDistinct'
  BY <1>1, <1>2 DEF FreshInv, RegistryOK, LastForgotten, GrantsDistinct
<1> QED BY <1>5, <1>6 DEF FreshInv

(* A number taken from a counter is above all the others. *)
LEMMA HandleFresh ==
  ASSUME TypeOK, LockInv, FreshInv, HandleDpConnection
  PROVE  FreshInv'
<1> DEFINE r == sasRsp'[1]
<1>0. Head(sasReq) \in Request /\ r = SasAnswer(Head(sasReq)) /\ sasRsp' # << >>
  BY HandleLock
<1>1. UNCHANGED <<dp, registry, proxy>>
  BY DEF HandleDpConnection
<1>2. /\ counters.id \in Nat /\ counters.grant \in Nat
      /\ counters.id > 0 /\ counters.grant > 0
  BY DEF FreshInv, FreshOK, TypeOK
<1>3. /\ counters'.id = IF Head(sasReq) = "Registration" THEN counters.id + 1 ELSE counters.id
      /\ counters'.grant = IF Head(sasReq) = "Grant" THEN counters.grant + 1 ELSE counters.grant
  BY HandleFrame
<1>4. /\ r.id = IF Head(sasReq) = "Registration" THEN counters.id ELSE 0
      /\ r.grant = IF Head(sasReq) = "Grant" THEN counters.grant ELSE 0
  BY <1>0, SasAnswerTyped
<1>5. /\ \A d \in Clients : /\ dp[d].resp.id \in Nat /\ dp[d].resp.grant \in Nat
                            /\ dp[d].my \in Nat
      /\ \A i \in DOMAIN registry : i \in Nat /\ registry[i].grant \in Nat
  BY DEF TypeOK, Handler, Answer, Info
<1> HIDE DEF r
<1>6. Unused(sasRsp[1])'
  <2>1. r.id < counters'.id /\ r.grant < counters'.grant
    BY <1>2, <1>3, <1>4
  <2>2. r.id # 0 => r.id \notin DOMAIN registry /\ \A d \in Clients : dp[d].my # r.id
    BY <1>2, <1>4, <1>5 DEF FreshInv, FreshOK, RegistryOK
  <2>3. r.grant # 0 => \A i \in DOMAIN registry : registry[i].grant # r.grant
    BY <1>2, <1>4, <1>5 DEF FreshInv, RegistryOK
  <2> QED BY <1>1, <2>1, <2>2, <2>3 DEF Unused, r
<1>7. ASSUME NEW d \in Clients PROVE Unused(dp[d].resp)'
  BY <1>1, <1>2, <1>3, <1>5, <1>7 DEF FreshInv, FreshOK, Unused
<1>8. ASSUME NEW d \in Clients PROVE Differ(r, dp[d].resp)
  BY <1>4, <1>5, <1>2, <1>8 DEF FreshInv, FreshOK, Unused, Differ
<1>9. FreshOK'
  <2>1. \A d \in Clients : dp[d].my < counters'.id
    BY <1>2, <1>3, <1>5 DEF FreshInv, FreshOK
  <2>2. counters'.id > 0 /\ counters'.grant > 0
    BY <1>2, <1>3
  <2>3. Unused(sasRsp[1])' /\ \A d \in Clients : Differ(sasRsp[1], dp[d].resp)'
    BY <1>1, <1>6, <1>8 DEF r, Unused, Differ
  <2>4. \A b, d \in Clients : b # d => Differ(dp[b].resp, dp[d].resp)'
    BY <1>1 DEF FreshInv, FreshOK, Differ
  <2> QED BY <1>1, <1>7, <2>1, <2>2, <2>3, <2>4 DEF FreshInv, FreshOK
<1>10. RegistryOK'
  BY <1>1, <1>2, <1>3, <1>5 DEF FreshInv, RegistryOK
<1>11. LastForgotten' /\ GrantsDistinct'
  BY <1>1 DEF FreshInv, LastForgotten, GrantsDistinct
<1> QED BY <1>9, <1>10, <1>11 DEF FreshInv

(* What Apply may have added: an id and a grant that only this answer *)
(* names.                                                             *)
LEMMA ApplyEffect ==
  ASSUME TypeOK, LockInv, RegistryOK, NEW c \in Clients, Apply(c)
  PROVE  LET r == dp[c].resp
         IN  /\ \A i \in DOMAIN registry' :
                  /\ i \in DOMAIN registry \/ (r.id # 0 /\ i = r.id)
                  /\ \/ registry'[i].grant = 0
                     \/ i \in DOMAIN registry /\ registry'[i].grant = registry[i].grant
                     \/ r.grant # 0 /\ registry'[i].grant = r.grant /\ i = dp[c].my
                  /\ registry'[i].state # "UNREGISTERED"
             /\ dp'[c].my = dp[c].my \/ (r.id # 0 /\ dp'[c].my = r.id)
             /\ dp'[c].pc = "gone" => dp'[c].my \notin DOMAIN registry'
             /\ dp'[c].resp = Empty
             /\ \A d \in Clients \ {c} : dp'[d] = dp[d]
<1> DEFINE r == dp[c].resp
<1>1. r.type = "Registration" => r.id # 0
  BY ApplyLock
<1>2. r.type = "Grant" => r.grant # 0
  BY ApplyLock, EmptyTyped DEF Answers
<1>3. registry' = Updated(c, r) /\ r \in Answer
  BY DEF Apply, TypeOK, Handler
<1>4. \A i \in DOMAIN registry : registry[i].state # "UNREGISTERED"
  BY DEF RegistryOK
<1>5. /\ dp'[c].my = IF r.type = "Registration" THEN r.id ELSE dp[c].my
      /\ dp'[c].pc = IF r.type = "Deregistration" THEN "gone" ELSE "recv"
      /\ dp'[c].resp = Empty
      /\ \A d \in Clients \ {c} : dp'[d] = dp[d]
  BY <1>1, ApplyFrame
<1> HIDE DEF r
<1>6. \A i \in DOMAIN registry' :
        /\ i \in DOMAIN registry \/ (r.id # 0 /\ i = r.id)
        /\ \/ registry'[i].grant = 0
           \/ i \in DOMAIN registry /\ registry'[i].grant = registry[i].grant
           \/ r.grant # 0 /\ registry'[i].grant = r.grant /\ i = dp[c].my
        /\ registry'[i].state # "UNREGISTERED"
  <2> SUFFICES ASSUME NEW i \in DOMAIN registry'
               PROVE  /\ i \in DOMAIN registry \/ (r.id # 0 /\ i = r.id)
                      /\ \/ registry'[i].grant = 0
                         \/ i \in DOMAIN registry /\ registry'[i].grant = registry[i].grant
                         \/ r.grant # 0 /\ registry'[i].grant = r.grant /\ i = dp[c].my
                      /\ registry'[i].state # "UNREGISTERED"
    OBVIOUS
  <2>1. CASE r.type = "Registration"
    <3>1. /\ DOMAIN registry' = DOMAIN registry \cup {r.id}
          /\ registry'[r.id] = [state |-> "REGISTERED", grant |-> 0]
          /\ \A j \in DOMAIN registry \ {r.id} : registry'[j] = registry[j]
      BY <1>3, <2>1, UpdatedCases
    <3> QED BY <1>1, <1>4, <2>1, <3>1
  <2>2. CASE r.type # "Registration"
    <3>1. \/ r.type = "Grant" /\ Sets(c, "GRANTED", r.grant)
          \/ Sets(c, "AUTHORIZED", registry[dp[c].my].grant)
          \/ Sets(c, "REGISTERED", 0)
          \/ i \in DOMAIN registry /\ registry'[i] = registry[i]
      BY <1>3, <2>2, UpdatedCases
    <3> QED BY <1>2, <1>4, <3>1 DEF Sets
  <2> QED BY <2>1, <2>2
<1>7. r.type = "Deregistration" => dp[c].my \notin DOMAIN registry'
  BY <1>3, UpdatedCases
<1> QED BY <1>1, <1>5, <1>6, <1>7 DEF r

(* The number of the answer moves into the registry. *)
LEMMA ApplyFresh ==
  ASSUME TypeOK, LockInv, FreshInv, NEW c \in Clients, Apply(c)
  PROVE  FreshInv'
<1> DEFINE r == dp[c].resp
<1>1. /\ \A i \in DOMAIN registry' :
           /\ i \in DOMAIN registry \/ (r.id # 0 /\ i = r.id)
           /\ \/ registry'[i].grant = 0
              \/ i \in DOMAIN registry /\ registry'[i].grant = registry[i].grant
              \/ r.grant # 0 /\ registry'[i].grant = r.grant /\ i = dp[c].my
           /\ registry'[i].state # "UNREGISTERED"
      /\ dp'[c].my = dp[c].my \/ (r.id # 0 /\ dp'[c].my = r.id)
      /\ dp'[c].pc = "gone" => dp'[c].my \notin DOMAIN registry'
      /\ dp'[c].resp = Empty
      /\ \A d \in Clients \ {c} : dp'[d] = dp[d]
  BY ApplyEffect DEF FreshInv
<1>2. UNCHANGED <<sasRsp, counters>> /\ proxy /\ proxy'
  BY DEF Apply, sasVars
<1>3. /\ counters.id \in Nat /\ counters.grant \in Nat
      /\ counters.id > 0 /\ counters.grant > 0
  BY DEF FreshInv, FreshOK, TypeOK
<1>4. Unused(r)
  BY DEF FreshInv, FreshOK
<1> HIDE DEF r
<1>5. ASSUME NEW q, Unused(q), Differ(q, r)
      PROVE  /\ q.id < counters'.id /\ q.grant < counters'.grant
             /\ q.id # 0 => q.id \notin DOMAIN registry' /\ \A d \in Clients : dp'[d].my # q.id
             /\ q.grant # 0 => \A i \in DOMAIN registry' : registry'[i].grant # q.grant
  <2>1. q.id # 0 => q.id \notin DOMAIN registry' /\ \A d \in Clients : dp'[d].my # q.id
    BY <1>1, <1>5 DEF Unused, Differ
  <2>2. q.grant # 0 => \A i \in DOMAIN registry' : registry'[i].grant # q.grant
    BY <1>1, <1>5 DEF Unused, Differ
  <2> QED BY <1>2, <1>5, <2>1, <2>2 DEF Unused
<1>6. FreshOK'
  <2>1. ASSUME NEW d \in Clients PROVE Unused(dp[d].resp)'
    <3>1. CASE d = c
      BY <1>1, <1>2, <1>3, <3>1, EmptyTyped DEF Unused
    <3>2. CASE d # c
      <4>1. Unused(dp[d].resp) /\ Differ(dp[d].resp, r)
        BY <2>1, <3>2 DEF FreshInv, FreshOK, r
      <4> QED BY <1>1, <1>5, <2>1, <3>2, <4>1 DEF Unused
    <3> QED BY <3>1, <3>2
  <2>2. \A b, d \in Clients : b # d => Differ(dp[b].resp, dp[d].resp)'
    <3>1. \A b, d \in Clients : b # d => Differ(dp[b].resp, dp[d].resp)
      BY DEF FreshInv, FreshOK
    <3> QED BY <1>1, <3>1, EmptyTyped DEF Differ
  <2>3. sasRsp # << >> => Unused(sasRsp[1])' /\ \A d \in Clients : Differ(sasRsp[1], dp[d].resp)'
    <3> SUFFICES ASSUME sasRsp # << >>
                 PROVE  Unused(sasRsp[1])' /\ \A d \in Clients : Differ(sasRsp[1], dp[d].resp)'
      OBVIOUS
    <3>1. Unused(sasRsp[1]) /\ \A d \in Clients : Differ(sasRsp[1], dp[d].resp)
      BY DEF FreshInv, FreshOK
    <3>2. Unused(sasRsp[1])'
      BY <1>2, <1>5, <3>1 DEF Unused, r
    <3> QED BY <1>1, <1>2, <3>1, <3>2, EmptyTyped DEF Differ
  <2>4. \A b, d \in Clients : b # d /\ dp'[b].my # 0 => dp'[b].my # dp'[d].my
    BY <1>1, <1>4 DEF FreshInv, FreshOK, Unused
  <2>5. \A d \in Clients : dp'[d].my < counters'.id
    BY <1>1, <1>2, <1>4 DEF FreshInv, FreshOK, Unused
  <2> QED BY <1>2, <1>3, <2>1, <2>2, <2>3, <2>4, <2>5 DEF FreshOK
<1>7. RegistryOK'
  BY <1>1, <1>2, <1>3, <1>4 DEF FreshInv, RegistryOK, Unused
<1>8. LastForgotten'
  BY <1>1, <1>4 DEF FreshInv, LastForgotten, Unused
<1>9. GrantsDistinct'
  BY <1>1, <1>4 DEF FreshInv, GrantsDistinct, Unused
<1> QED BY <1>6, <1>7, <1>8, <1>9 DEF FreshInv
----------------------------------------------------------------------------
(* What one thread does to the registry is not seen by another *)
(* connection.                                                 *)
LEMMA EntryKept ==
  ASSUME TypeOK, FreshInv, NEW c \in Clients, NEW d \in Clients \ {c}, dp'[d] = dp[d],
         Disconnect(c) \/ (LockInv /\ Apply(c))
  PROVE  Lookup(d)' = Lookup(d)
<1> DEFINE m == dp[d].my
<1>1. DOMAIN registry \subseteq Nat \ {0} /\ (m = dp[c].my => m = 0)
  BY DEF TypeOK, FreshInv, FreshOK
<1>2. CASE Disconnect(c)
  <2>1. /\ DOMAIN registry' = DOMAIN registry \ {dp[c].my}
        /\ \A i \in DOMAIN registry' : registry'[i] = registry[i]
    BY <1>2, DisconnectFrame
  <2>2. m \in DOMAIN registry' <=> m \in DOMAIN registry
    BY <1>1, <2>1
  <2> QED BY <2>1, <2>2 DEF Lookup, Entry
<1>3. CASE LockInv /\ Apply(c)
  <2> DEFINE r == dp[c].resp
  <2>1. r \in Answer /\ registry' = Updated(c, r)
    BY <1>3 DEF Apply, TypeOK, Handler
  <2>2. r.type = "Registration" => r.id # 0
    BY <1>3, ApplyLock
  <2>3. r.id # 0 => r.id # m /\ r.id \notin DOMAIN registry
    BY DEF FreshInv, FreshOK, Unused
  <2> HIDE DEF r, m
  <2>4. CASE r.type = "Registration"
    <3>1. /\ DOMAIN registry' = DOMAIN registry \cup {r.id}
          /\ \A j \in DOMAIN registry \ {r.id} : registry'[j] = registry[j]
      BY <2>1, <2>4, UpdatedCases
    <3>2. m \in DOMAIN registry' <=> m \in DOMAIN registry
      BY <2>2, <2>3, <2>4, <3>1
    <3>3. m \in DOMAIN registry => registry'[m] = registry[m]
      BY <2>2, <2>3, <2>4, <3>1
    <3> QED BY <3>2, <3>3 DEF Lookup, Entry, m
  <2>5. CASE r.type # "Registration"
    <3>1. \/ \E s, g : Sets(c, s, g)
          \/ /\ DOMAIN registry' = DOMAIN registry \ {dp[c].my}
             /\ \A i \in DOMAIN registry' : registry'[i] = registry[i]
          \/ registry' = registry
      BY <2>1, <2>5, UpdatedCases
    <3>2. m \in DOMAIN registry' <=> m \in DOMAIN registry
      BY <1>1, <3>1 DEF Sets
    <3>3. m \in DOMAIN registry => registry'[m] = registry[m]
      BY <1>1, <3>1 DEF Sets
    <3> QED BY <3>2, <3>3 DEF Lookup, Entry, m
  <2> QED BY <2>4, <2>5
<1> QED BY <1>2, <1>3

(* The guard that was checked still holds where the entry has not *)
(* changed.                                                       *)
LEMMA GuardKept ==
  ASSUME NEW d \in Clients, GuardOK(d), Lookup(d)' = Lookup(d), dp'[d].req = dp[d].req,
         Busy(d)' => Busy(d)
  PROVE  GuardOK(d)'
  BY DEF GuardOK

(* An agent agrees with the proxy as long as neither of them changes. *)
LEMMA AgentKept ==
  ASSUME NEW d \in Clients, AgentOK(d), Lookup(d)' = Lookup(d), client'[d] = client[d],
         down'[d] = down[d], dp'[d].my = dp[d].my, dp'[d].pc = "gone" <=> dp[d].pc = "gone"
  PROVE  AgentOK(d)'
<1>1. AgentMay(d, client[d].req)' <=> AgentMay(d, client[d].req)
  BY DEF AgentMay
<1>2. ASSUME NEW a PROVE Agrees(a, d)' <=> Agrees(a, d)
  BY DEF Agrees
<1> QED BY <1>1, <1>2 DEF AgentOK

(* An agent asks for what its own state, and so the entry, allows. *)
LEMMA AskAgent ==
  ASSUME TypeOK, LockInv, AgentInv, NEW c \in Clients, NEW req \in Request, Ask(c, req)
  PROVE  AgentInv'
<1>1. UNCHANGED <<dp, registry, proxy, down>>
  BY DEF Ask
<1>2. \A d \in Clients : Lookup(d)' = Lookup(d)
  BY <1>1 DEF Lookup, Entry
<1>3. \A d \in Clients : GuardOK(d)'
  BY <1>1, <1>2, GuardKept DEF AgentInv, Busy
<1>4. ASSUME proxy, NEW d \in Agents, d # c PROVE AgentOK(d)'
  BY <1>1, <1>2, <1>4, AgentKept, AskFrame DEF AgentInv, Clients
<1>5. ASSUME proxy, c \in Agents PROVE AgentOK(c)'
  <2>1. AgentOK(c) /\ client[c].pc = "idle" /\ AgentMay(c, req) /\ down[c] = << >>
    BY <1>5 DEF AgentInv, Ask, LockInv, FlowOK
  <2>2. dp[c].pc # "gone" => Agrees(client[c], c)
    BY <2>1 DEF AgentOK
  <2>3. dp[c].pc # "gone" => Agrees(client[c], c)'
    BY <1>1, <1>2, <2>2, AskFrame DEF Agrees
  <2>4. AgentMay(c, client[c].req)'
    BY <2>1, AskFrame DEF AgentMay
  <2>5. client'[c].pc = "wait" /\ down'[c] = << >>
    BY <1>1, <2>1, AskFrame
  <2> QED BY <1>1, <2>3, <2>4, <2>5 DEF AgentOK
<1> QED BY <1>1, <1>3, <1>4, <1>5 DEF AgentInv

(* Taking the answer brings the agent where the proxy already is. *)
LEMMA GetAgent ==
  ASSUME TypeOK, LockInv, AgentInv, NEW c \in Clients, Get(c)
  PROVE  AgentInv'
<1>1. UNCHANGED <<dp, registry, proxy>>
  BY DEF Get
<1>2. \A d \in Clients : Lookup(d)' = Lookup(d)
  BY <1>1 DEF Lookup, Entry
<1>3. \A d \in Clients : GuardOK(d)'
  BY <1>1, <1>2, GuardKept DEF AgentInv, Busy
<1>4. ASSUME proxy, NEW d \in Agents, d # c PROVE AgentOK(d)'
  BY <1>1, <1>2, <1>4, AgentKept, GetFrame DEF AgentInv, Clients
<1>5. ASSUME proxy, c \in Agents PROVE AgentOK(c)'
  <2> DEFINE a == After(client[c], Head(down[c]))
  <2>1. /\ client[c].pc = "wait" /\ down[c] # << >> /\ Head(down[c]).type # "Empty"
        /\ AgentOK(c)
    BY <1>5 DEF AgentInv, Get
  <2>2. /\ client'[c].pc = "idle" /\ client'[c].state = a.state /\ client'[c].id = a.id
        /\ client'[c].grant = a.grant
    BY <1>5, GetFrame
  <2>3. client[c] \in Agent
    BY DEF TypeOK
  <2>4. dp[c].pc = "gone" => a.state = "UNREGISTERED" /\ a.id = 0 /\ a.grant = 0
    BY <2>1, <2>3 DEF AgentOK, After, Succeeded, Agent
  <2> HIDE DEF a
  <2>5. dp[c].pc # "gone" => Agrees(a, c)
    BY <2>1 DEF AgentOK, a
  <2>6. dp[c].pc # "gone" => Agrees(client[c], c)'
    BY <1>1, <1>2, <2>2, <2>5 DEF Agrees
  <2> QED BY <1>1, <2>2, <2>4, <2>6 DEF AgentOK
<1> QED BY <1>1, <1>3, <1>4, <1>5 DEF AgentInv

(* An agent that is gone need not agree. *)
LEMMA EndAgent ==
  ASSUME TypeOK, AgentInv, NEW c \in Clients, GiveUp(c) \/ Quit(c)
  PROVE  AgentInv'
<1>1. UNCHANGED <<dp, registry, proxy, down>>
  BY EndFrame
<1>2. \A d \in Clients : Lookup(d)' = Lookup(d)
  BY <1>1 DEF Lookup, Entry
<1>3. \A d \in Clients : GuardOK(d)'
  BY <1>1, <1>2, GuardKept DEF AgentInv, Busy
<1>4. ASSUME proxy, NEW d \in Agents, d # c PROVE AgentOK(d)'
  BY <1>1, <1>2, <1>4, AgentKept, EndFrame DEF AgentInv, Clients
<1>5. AgentOK(c)'
  BY EndFrame DEF AgentOK
<1> QED BY <1>1, <1>3, <1>4, <1>5 DEF AgentInv

(* The guard never refuses an agent. *)
LEMMA RefuseAgent ==
  ASSUME TypeOK, LockInv, AgentInv, NEW c \in Clients, Refuse(c)
  PROVE  AgentInv'
<1>1. UNCHANGED <<dp, registry, proxy, client>> /\ proxy /\ dp[c].pc = "recv" /\ up[c] # None
  BY DEF Refuse, clientVars
<1>2. \A d \in Clients : Lookup(d)' = Lookup(d)
  BY <1>1 DEF Lookup, Entry
<1>3. \A d \in Clients : GuardOK(d)'
  BY <1>1, <1>2, GuardKept DEF AgentInv, Busy
<1>4. ASSUME NEW d \in Agents, d # c PROVE AgentOK(d)'
  BY <1>1, <1>2, <1>4, AgentKept, RefuseFrame DEF AgentInv, Clients
<1>5. ASSUME c \in Agents PROVE AgentOK(c)'
  <2>1. client[c].pc # "idle"
    BY <1>1 DEF LockInv, FlowOK
  <2>2. client[c].pc # "wait"
    <3> SUFFICES ASSUME client[c].pc = "wait" PROVE FALSE
      OBVIOUS
    <3>1. down[c] = << >> /\ client[c].req = up[c]
      BY <1>1 DEF LockInv, FlowOK
    <3>2. Agrees(client[c], c) /\ AgentMay(c, up[c])
      BY <1>1, <1>5, <3>1 DEF AgentInv, AgentOK
    <3> QED BY <3>2 DEF Refuse, Refuses, Agrees, AgentMay
  <2> QED BY <1>1, <2>1, <2>2 DEF AgentOK
<1> QED BY <1>1, <1>3, <1>4, <1>5 DEF AgentInv

(* The guard is checked when the request is received. *)
LEMMA ReceiveAgent ==
  ASSUME TypeOK, LockInv, AgentInv, NEW c \in Clients, Receive(c)
  PROVE  AgentInv'
<1>1. /\ UNCHANGED <<registry, proxy, client, down>>
      /\ proxy /\ dp[c].pc = "recv" /\ ~ Refuses(c, up[c])
  BY DEF Receive, clientVars
<1>2. /\ \A d \in Clients : dp'[d].my = dp[d].my
      /\ \A d \in Clients \ {c} : dp'[d] = dp[d]
      /\ dp'[c].pc = "lock" /\ dp'[c].req = up[c]
  BY ReceiveFrame
<1>3. \A d \in Clients : Lookup(d)' = Lookup(d)
  BY <1>1, <1>2 DEF Lookup, Entry
<1>4. \A d \in Clients \ {c} : GuardOK(d)'
  BY <1>2, <1>3, GuardKept DEF AgentInv, Busy
<1>5. GuardOK(c)'
  BY <1>1, <1>2, <1>3 DEF Refuses, GuardOK
<1>6. \A d \in Agents : AgentOK(d)'
  BY <1>1, <1>2, <1>3, AgentKept DEF AgentInv, Clients
<1> QED BY <1>4, <1>5, <1>6 DEF AgentInv

(* Waiting for the lock and for the SAS changes no entry of the *)
(* connection.                                                  *)
LEMMA ThreadAgent ==
  ASSUME TypeOK, LockInv, AgentInv, NEW c \in Clients, Forward(c) \/ HearSas(c)
  PROVE  AgentInv'
<1>1. UNCHANGED <<registry, proxy, client, down>> /\ dp[c].pc \in {"lock", "sas"} /\ proxy
  BY DEF Forward, HearSas, clientVars
<1>2. /\ \A d \in Clients : dp'[d].my = dp[d].my /\ dp'[d].req = dp[d].req
      /\ \A d \in Clients \ {c} : dp'[d] = dp[d]
      /\ dp'[c].pc \in {"sas", "apply"}
  BY ForwardFrame, ForwardLock, HearFrame
<1>3. \A d \in Clients : Lookup(d)' = Lookup(d)
  BY <1>1, <1>2 DEF Lookup, Entry
<1>4. \A d \in Clients : GuardOK(d)'
  BY <1>1, <1>2, <1>3, GuardKept DEF AgentInv, Busy
<1>5. \A d \in Agents : AgentOK(d)'
  BY <1>1, <1>2, <1>3, AgentKept DEF AgentInv, Clients
<1> QED BY <1>4, <1>5 DEF AgentInv

(* The entry is removed after the agent is gone. *)
LEMMA DisconnectAgent ==
  ASSUME TypeOK, FreshInv, AgentInv, NEW c \in Clients, Disconnect(c)
  PROVE  AgentInv'
<1>1. UNCHANGED <<proxy, client, down>> /\ proxy /\ client[c].pc = "gone"
  BY DEF Disconnect, clientVars
<1>2. \A d \in Clients \ {c} : dp'[d] = dp[d] /\ Lookup(d)' = Lookup(d)
  BY DisconnectFrame, EntryKept
<1>3. dp'[c].pc = "gone"
  BY DisconnectFrame
<1>4. \A d \in Clients \ {c} : GuardOK(d)'
  BY <1>2, GuardKept DEF AgentInv, Busy
<1>5. GuardOK(c)'
  BY <1>3 DEF GuardOK, Busy
<1>6. \A d \in Agents \ {c} : AgentOK(d)'
  BY <1>1, <1>2, AgentKept DEF AgentInv, Clients
<1>7. AgentOK(c)'
  BY <1>1 DEF AgentOK
<1> QED BY <1>4, <1>5, <1>6, <1>7 DEF AgentInv

(* Without the proxy there is nothing to agree with. *)
LEMMA KillAgent ==
  ASSUME TypeOK, NEW c \in Clients, ForwardKillsProxy(c)
  PROVE  AgentInv'
  BY KillFrame DEF AgentInv, GuardOK, Busy, ForwardKillsProxy

(* The proxy moves the entry as the agent will move when it gets the *)
(* answer.                                                           *)
LEMMA ApplyAgent ==
  ASSUME TypeOK, LockInv, FreshInv, AgentInv, NEW c \in Clients, Apply(c)
  PROVE  AgentInv'
<1> DEFINE r == dp[c].resp  m == dp[c].my  a == client[c]
<1>1. UNCHANGED <<proxy, client>> /\ proxy /\ Busy(c)
  BY DEF Apply, clientVars, Busy
<1>2. /\ r = Empty \/ Answers(r, dp[c].req)
      /\ r.type = "Registration" => r.id # 0
  BY ApplyLock
<1>3. /\ dp'[c].my = IF r.type = "Registration" THEN r.id ELSE m
      /\ dp'[c].pc = IF r.type = "Deregistration" THEN "gone" ELSE "recv"
      /\ down'[c] = Append(down[c], r)
      /\ \A d \in Clients \ {c} : dp'[d] = dp[d] /\ down'[d] = down[d]
  BY <1>2, ApplyFrame
<1>4. \A d \in Clients \ {c} : Lookup(d)' = Lookup(d)
  BY <1>3, EntryKept
<1>5. \A d \in Clients \ {c} : GuardOK(d)'
  BY <1>3, <1>4, GuardKept DEF AgentInv, Busy
<1>6. GuardOK(c)'
  BY <1>3 DEF GuardOK, Busy
<1>7. \A d \in Agents \ {c} : AgentOK(d)'
  BY <1>1, <1>3, <1>4, AgentKept DEF AgentInv, Clients
<1>8. ASSUME c \in Agents PROVE AgentOK(c)'
  <2>1. a.pc # "idle"
    BY <1>1 DEF LockInv, FlowOK
  <2> SUFFICES ASSUME a.pc = "wait" PROVE AgentOK(c)'
    BY <1>1, <2>1 DEF AgentOK
  <2>2. down[c] = << >> /\ dp[c].req = a.req
    BY <1>1 DEF LockInv, FlowOK
  <2>3. Agrees(a, c) /\ AgentMay(c, a.req)
    BY <1>1, <1>8, <2>2 DEF AgentInv, AgentOK, Busy
  <2>4. /\ r \in Answer /\ registry' = Updated(c, r) /\ a \in Agent
        /\ \A i \in DOMAIN registry : registry[i] \in Info
        /\ \A i \in DOMAIN registry : registry[i].state # "UNREGISTERED"
    BY DEF TypeOK, Handler, Apply, FreshInv, RegistryOK
  <2>5. down'[c] # << >> /\ Head(down'[c]) = r
    BY <1>3, <2>2
  <2>6. m \notin DOMAIN registry => Lookup(c) = NoInfo
    BY DEF Lookup, Entry
  <2>7. m \in DOMAIN registry => Lookup(c) = registry[m]
    BY DEF Lookup, Entry
  <2>8. ASSUME r.type # "Empty"
        PROVE  IF dp'[c].pc = "gone" THEN a.req = "Deregistration"
               ELSE /\ After(a, r).id = dp'[c].my
                    /\ dp'[c].my \in DOMAIN registry'
                    /\ After(a, r).state = registry'[dp'[c].my].state
                    /\ After(a, r).grant = registry'[dp'[c].my].grant
    <3>1. Answers(r, a.req)
      BY <1>2, <2>2, <2>8, EmptyTyped
    <3>2. a.id = m /\ a.state = Lookup(c).state /\ a.grant = Lookup(c).grant
      BY <2>3 DEF Agrees
    <3> HIDE DEF r, m, a
    <3>3. CASE a.req = "Registration"
      <4>1. r.type = "Registration" /\ r.id # 0
        BY <3>1, <3>3 DEF Answers
      <4>2. a.state = "UNREGISTERED"
        BY <2>3, <3>3 DEF AgentMay, a
      <4>3. a.grant = 0
        <5>1. m \notin DOMAIN registry
          BY <2>4, <2>7, <3>2, <4>2
        <5>2. Lookup(c) = NoInfo
          BY <2>6, <5>1
        <5> QED BY <3>2, <5>2 DEF NoInfo
      <4>4. /\ dp'[c].my = r.id /\ dp'[c].pc = "recv"
            /\ DOMAIN registry' = DOMAIN registry \cup {r.id}
            /\ registry'[r.id] = [state |-> "REGISTERED", grant |-> 0]
        BY <1>3, <2>4, <4>1, UpdatedCases
      <4>5. After(a, r) = [a EXCEPT !.state = "REGISTERED", !.id = r.id]
        BY <3>3, <4>1 DEF After, Succeeded
      <4>6. /\ After(a, r).state = "REGISTERED" /\ After(a, r).id = r.id
            /\ After(a, r).grant = 0
        BY <2>4, <4>3, <4>5 DEF Agent
      <4>7. registry'[r.id].state = "REGISTERED" /\ registry'[r.id].grant = 0
        BY <4>4
      <4> QED BY <4>4, <4>6, <4>7
    <3>4. CASE a.req = "Grant"
      <4>1. r.type = "Grant" /\ r.grant # 0
        BY <3>1, <3>4 DEF Answers
      <4>2. m \in DOMAIN registry
        BY <2>3, <2>6, <3>2, <3>4 DEF AgentMay, a, NoInfo
      <4>3. Sets(c, "GRANTED", r.grant)
        BY <2>4, <4>1, <4>2, UpdatedCases DEF m
      <4>4. dp'[c].my = m /\ dp'[c].pc = "recv"
        BY <1>3, <4>1
      <4> QED BY <2>4, <3>2, <3>4, <4>1, <4>3, <4>4 DEF After, Succeeded, Agent, Sets, m
    <3>5. CASE a.req = "Heartbeat"
      <4>1. r.type = "Heartbeat"
        BY <3>1, <3>5 DEF Answers
      <4>2. m \in DOMAIN registry
        BY <2>3, <2>6, <3>2, <3>5 DEF AgentMay, a, NoInfo
      <4>3. Sets(c, "AUTHORIZED", registry[m].grant)
        BY <2>4, <4>1, <4>2, UpdatedCases DEF m
      <4>4. dp'[c].my = m /\ dp'[c].pc = "recv" /\ a.grant = registry[m].grant
        BY <1>3, <2>7, <3>2, <4>1, <4>2
      <4> QED BY <2>4, <3>2, <3>5, <4>1, <4>3, <4>4 DEF After, Succeeded, Agent, Sets, m
    <3>6. CASE a.req = "Relinquishment"
      <4>1. r.type = "Relinquishment"
        BY <3>1, <3>6 DEF Answers
      <4>2. m \in DOMAIN registry
        BY <2>3, <2>6, <3>2, <3>6 DEF AgentMay, a, NoInfo
      <4>3. Sets(c, "REGISTERED", 0)
        BY <2>4, <4>1, <4>2, UpdatedCases DEF m
      <4>4. dp'[c].my = m /\ dp'[c].pc = "recv"
        BY <1>3, <4>1
      <4> QED BY <2>4, <3>2, <3>6, <4>1, <4>3, <4>4 DEF After, Succeeded, Agent, Sets, m
    <3>7. CASE a.req = "Deregistration"
      BY <1>3, <3>1, <3>7 DEF Answers
    <3>8. CASE a.req \notin {"Registration", "Grant", "Heartbeat", "Relinquishment", "Deregistration"}
      BY <2>2, <2>3, <3>8, <1>1 DEF AgentMay, LockInv, ThreadOK, Request, a
    <3> QED BY <3>3, <3>4, <3>5, <3>6, <3>7, <3>8
  <2>9. r.type # "Empty" =>
          IF dp'[c].pc = "gone" THEN a.req = "Deregistration" ELSE Agrees(After(client[c], Head(down[c])), c)'
    BY <1>1, <2>5, <2>8 DEF Agrees, Lookup, Entry, After, Succeeded
  <2> QED BY <1>1, <2>5, <2>9 DEF AgentOK
<1> QED BY <1>5, <1>6, <1>7, <1>8 DEF AgentInv

(* The SAS knows neither agents nor entries. *)
LEMMA SasAgent ==
  ASSUME AgentInv, HandleDpConnection \/ SasCrash
  PROVE  AgentInv'
<1>1. UNCHANGED <<dp, registry, proxy, client, down>>
  BY DEF HandleDpConnection, SasCrash, clientVars
<1>2. \A d \in Clients : Lookup(d)' = Lookup(d)
  BY <1>1 DEF Lookup, Entry
<1>3. \A d \in Clients : GuardOK(d)'
  BY <1>1, <1>2, GuardKept DEF AgentInv, Busy
<1>4. proxy => \A d \in Agents : AgentOK(d)'
  BY <1>1, <1>2, AgentKept DEF AgentInv, Clients
<1> QED BY <1>1, <1>3, <1>4 DEF AgentInv
----------------------------------------------------------------------------
(* The invariant holds at the start, *)
LEMMA InitIInv == Init => IInv
<1> SUFFICES ASSUME Init PROVE IInv
  OBVIOUS
<1>1. \A c \in Clients :
        /\ client[c] = NewAgent /\ up[c] = None /\ down[c] = << >>
        /\ dp[c] = [pc |-> "recv", req |-> None, my |-> 0, ids |-> {}, resp |-> Empty]
  BY DEF Init
<1>2. NewAgent \in Agent /\ NewAgent.pc = "idle" /\ NewAgent.id = 0 /\ NewAgent.grant = 0
      /\ NewAgent.state = "UNREGISTERED"
  BY DEF NewAgent, Agent, State
<1>3. \A c \in Clients :
        /\ dp[c] \in Handler /\ dp[c].pc = "recv" /\ dp[c].my = 0 /\ dp[c].resp = Empty
        /\ dp[c].ids = {}
  BY <1>1, EmptyTyped DEF Handler
<1>4. DOMAIN registry = {} /\ registry = << >> /\ proxy = TRUE /\ sasMtx = None
      /\ sasReq = << >> /\ sasRsp = << >> /\ counters = [id |-> 1, grant |-> 1] /\ sasConn = "up"
  BY DEF Init
<1>5. TypeOK
  <2>1. client \in [Clients -> Agent] /\ dp \in [Clients -> Handler]
    BY <1>1, <1>2, <1>3 DEF Init
  <2>2. asked \in [Clients -> Nat] /\ up \in [Clients -> Request \cup {None}]
        /\ down \in [Clients -> Seq(Answer)]
    BY DEF Init
  <2> QED BY <1>4, <2>1, <2>2 DEF TypeOK
<1>6. \A c \in Clients : ~ Busy(c)
  BY <1>3 DEF Busy
<1>7. LockInv
  <2>1. \A c \in Clients : c # None
    BY CbrsAssumption
  <2>2. \A c \in Clients : FlowOK(c)
    BY <1>1, <1>2, <1>6 DEF FlowOK
  <2>3. \A c \in Clients : ThreadOK(c)
    BY <1>3, <1>4, <1>6, <2>1 DEF ThreadOK
  <2> QED BY <1>4, <2>2, <2>3 DEF LockInv, ConnOK
<1>8. FreshInv
  <2>1. counters.id = 1 /\ counters.grant = 1
    BY <1>4
  <2>2. FreshOK
    BY <1>3, <1>4, <2>1, EmptyTyped DEF FreshOK, Unused, Differ
  <2> QED BY <1>4, <2>2 DEF FreshInv, RegistryOK, LastForgotten, GrantsDistinct
<1>9. AgentInv
  <2>1. \A c \in Clients : Lookup(c) = NoInfo
    BY <1>4 DEF Lookup, Entry
  <2>2. \A c \in Clients : Agrees(client[c], c)
    BY <1>1, <1>2, <1>3, <2>1 DEF Agrees, NoInfo
  <2>3. \A c \in Clients : AgentOK(c)
    BY <1>1, <1>2, <1>3, <2>2 DEF AgentOK
  <2> QED BY <1>6, <2>3 DEF AgentInv, GuardOK, Clients
<1> QED BY <1>5, <1>7, <1>8, <1>9 DEF IInv

(* is kept by the clients, *)
LEMMA ClientIInv ==
  ASSUME IInv, NEW c \in Clients,
         (\E req \in Request : Ask(c, req)) \/ ClientStep(c) \/ Quit(c)
  PROVE  IInv'
<1> USE DEF IInv
<1>1. ASSUME NEW req \in Request, Ask(c, req) PROVE IInv'
  <2>1. FreshInv'
    BY <1>1, FreshKept DEF Ask, sasVars
  <2> QED BY <1>1, <2>1, AskFrame, AskLock, AskAgent
<1>2. CASE Get(c)
  <2>1. FreshInv'
    BY <1>2, FreshKept DEF Get, sasVars
  <2> QED BY <1>2, <2>1, GetFrame, GetLock, GetAgent
<1>3. CASE GiveUp(c) \/ Quit(c)
  <2>1. FreshInv'
    BY <1>3, FreshKept, EndFrame
  <2> QED BY <1>3, <2>1, EndFrame, EndLock, EndAgent
<1> QED BY <1>1, <1>2, <1>3 DEF ClientStep

(* by the threads of the proxy, *)
LEMMA HandlerIInv ==
  ASSUME IInv, NEW c \in Clients, HandleCbsd(c)
  PROVE  IInv'
<1> USE DEF IInv
<1>1. CASE Refuse(c)
  <2>1. FreshInv'
    BY <1>1, FreshKept DEF Refuse, sasVars
  <2> QED BY <1>1, <2>1, RefuseFrame, RefuseLock, RefuseAgent
<1>2. CASE Receive(c)
  <2>1. FreshInv'
    <3>1. UNCHANGED <<registry, sasRsp, counters, proxy>>
      BY <1>2 DEF Receive, sasVars
    <3>2. \A d \in Clients : /\ dp'[d].my = dp[d].my /\ dp'[d].resp = dp[d].resp
                             /\ dp'[d].pc = "gone" => dp[d].pc = "gone"
      BY <1>2, ReceiveFrame
    <3> QED BY <3>1, <3>2, FreshKept
  <2> QED BY <1>2, <2>1, ReceiveFrame, ReceiveLock, ReceiveAgent
<1>3. CASE Disconnect(c)
  BY <1>3, DisconnectFrame, DisconnectLock, DisconnectFresh, DisconnectAgent
<1>4. CASE Forward(c)
  <2>0. dp[c].req \in Request
    BY <1>4, ForwardLock
  <2>1. FreshInv'
    <3>1. UNCHANGED <<registry, sasRsp, counters, proxy>>
      BY <1>4 DEF Forward
    <3>2. \A d \in Clients : /\ dp'[d].my = dp[d].my /\ dp'[d].resp = dp[d].resp
                             /\ dp'[d].pc = "gone" => dp[d].pc = "gone"
      BY <1>4, <2>0, ForwardFrame
    <3> QED BY <3>1, <3>2, FreshKept
  <2> QED BY <1>4, <2>0, <2>1, ForwardFrame, ForwardLock, ThreadAgent
<1>5. CASE ForwardKillsProxy(c)
  BY <1>5, KillFrame, KillLock, KillFresh, KillAgent
<1>6. CASE HearSas(c)
  BY <1>6, HearFrame, HearLock, HearFresh, ThreadAgent
<1>7. CASE Apply(c)
  BY <1>7, ApplyFrame, ApplyLock, ApplyFresh, ApplyAgent
<1> QED BY <1>1, <1>2, <1>3, <1>4, <1>5, <1>6, <1>7 DEF HandleCbsd

(* by the SAS, *)
LEMMA SasIInv ==
  ASSUME IInv, HandleDpConnection \/ SasCrash
  PROVE  IInv'
<1> USE DEF IInv
<1>1. CASE HandleDpConnection
  BY <1>1, HandleFrame, HandleLock, HandleFresh, SasAgent
<1>2. CASE SasCrash
  <2>1. FreshInv'
    BY <1>2, FreshKept DEF SasCrash
  <2> QED BY <1>2, <2>1, CrashFrame, CrashLock, SasAgent
<1> QED BY <1>1, <1>2

(* and by steps of something else. *)
LEMMA StutterIInv ==
  ASSUME IInv, UNCHANGED vars
  PROVE  IInv'
<1>1. UNCHANGED <<client, asked, up, down, proxy, dp, registry, sasMtx, sasReq, sasRsp,
                  sasConn, counters>>
  BY DEF vars, clientVars, sasVars
<1>2. TypeOK'
  BY <1>1 DEF IInv, TypeOK
<1>3. LockInv'
  <2>1. \A d \in Clients : FlowOK(d)' /\ ThreadOK(d)'
    BY <1>1, OtherFlow, OtherThread DEF IInv, LockInv
  <2> QED BY <1>1, <2>1 DEF IInv, LockInv, ConnOK, Answers
<1>4. FreshInv'
  BY <1>1, FreshKept DEF IInv
<1>5. AgentInv'
  <2>1. \A d \in Clients : Lookup(d)' = Lookup(d)
    BY <1>1 DEF Lookup, Entry
  <2>2. \A d \in Clients : GuardOK(d)'
    BY <1>1, <2>1, GuardKept DEF IInv, AgentInv, Busy
  <2>3. proxy => \A d \in Agents : AgentOK(d)'
    BY <1>1, <2>1, AgentKept DEF IInv, AgentInv, Clients
  <2> QED BY <1>1, <2>2, <2>3 DEF AgentInv
<1> QED BY <1>2, <1>3, <1>4, <1>5 DEF IInv

(* The inductive invariant: one request under way on the SAS connection, *)
(* ids and grants used once, the guard still true when the answer is     *)
(* applied.                                                              *)
THEOREM CbrsInvariant == Spec => []IInv
<1>1. IInv /\ [Next]_vars => IInv'
  BY ClientIInv, HandlerIInv, SasIInv, StutterIInv DEF Next
<1> QED BY InitIInv, <1>1, PTL DEF Spec

(* Every variable keeps its type; in particular the proxy never registers *)
(* the empty id.                                                          *)
THEOREM CbrsTypeCorrect == Spec => []TypeOK
  BY CbrsInvariant, PTL DEF IInv

(* For any number of connections, and wherever the SAS is killed, no two *)
(* entries of the registry share a grant.                                *)
THEOREM CbrsGrantsDistinct == Spec => []GrantsDistinct
  BY CbrsInvariant, PTL DEF IInv, FreshInv

(* Between two commands an agent and the proxy agree on the state and the *)
(* grant.                                                                 *)
THEOREM CbrsAgentAgrees == Spec => []AgentAgrees
<1>1. IInv => AgentAgrees
  <2> SUFFICES ASSUME IInv, proxy, NEW a \in Agents, client[a].pc = "idle"
               PROVE  [state |-> client[a].state, grant |-> client[a].grant]
                        = Entry(client[a].id)
    BY DEF AgentAgrees
  <2>1. a \in Clients /\ AgentOK(a) /\ dp[a].my \in Nat
    BY DEF Clients, IInv, AgentInv, TypeOK, Handler
  <2>2. 0 \notin DOMAIN registry /\ \A i \in DOMAIN registry : registry[i] \in Info
    BY DEF IInv, TypeOK
  <2>3. \A i : Entry(i) \in Info
    BY <2>2 DEF Entry, NoInfo, Info, State
  <2>4. client[a].state = Entry(client[a].id).state /\ client[a].grant = Entry(client[a].id).grant
    <3>1. CASE dp[a].pc = "gone"
      BY <2>1, <2>2, <3>1 DEF AgentOK, Entry, NoInfo
    <3>2. CASE dp[a].pc # "gone"
      BY <2>1, <3>2 DEF AgentOK, Agrees, Lookup
    <3> QED BY <3>1, <3>2
  <2>5. \A e \in Info : e = [state |-> e.state, grant |-> e.grant]
    BY DEF Info
  <2> QED BY <2>3, <2>4, <2>5
<1> QED BY CbrsInvariant, <1>1, PTL
----------------------------------------------------------------------------
(* Where the registry stays the abstract state stays. *)
LEMMA StatesKept ==
  ASSUME registry' = registry
  PROVE  States' = States
  BY DEF States

(* A disconnection gives back what the connection had. *)
LEMMA DisconnectLifecycle ==
  ASSUME TypeOK, NEW c \in Clients, Disconnect(c)
  PROVE  GivesBack
<1>1. /\ DOMAIN registry' \subseteq DOMAIN registry
      /\ \A i \in DOMAIN registry' : registry'[i] = registry[i]
  BY DisconnectFrame
<1> QED BY <1>1 DEF GivesBack, States

(* Giving an entry a state moves the abstract state of its id. *)
LEMMA SetsLifecycle ==
  ASSUME NEW c \in Clients, NEW s, NEW g, Sets(c, s, g)
  PROVE  /\ dp[c].my \in DOMAIN States /\ States[dp[c].my] = registry[dp[c].my].state
         /\ States' = [States EXCEPT ![dp[c].my] = s]
  BY DEF Sets, States

(* An answer that grants or authorizes moves the id along the lifecycle: *)
(* the guard held when the request was received, and only this           *)
(* connection writes the entry.  The others give back.                   *)
LEMMA ApplyLifecycle ==
  ASSUME IInv, NEW c \in Clients, Apply(c)
  PROVE  Lifecycle!Next \/ GivesBack \/ States' = States
<1> DEFINE r == dp[c].resp  m == dp[c].my
<1>1. r = Empty \/ Answers(r, dp[c].req)
  BY ApplyLock DEF IInv
<1>2. r \in Answer /\ registry' = Updated(c, r) /\ Unused(r) /\ GuardOK(c) /\ Busy(c)
  BY DEF IInv, Apply, TypeOK, Handler, FreshInv, FreshOK, AgentInv, Busy
<1>3. m \in DOMAIN registry => Lookup(c).state = registry[m].state
  BY DEF Lookup, Entry
<1>4. \A i \in DOMAIN registry : registry[i].state \in {"REGISTERED", "GRANTED", "AUTHORIZED"}
  BY DEF IInv, FreshInv, RegistryOK, TypeOK, Info, State
<1>5. r.type # "Empty" => Answers(r, dp[c].req)
  BY <1>1, EmptyTyped
<1> HIDE DEF r
<1>6. CASE r.type = "Registration"
  <2>1. /\ DOMAIN registry' = DOMAIN registry \cup {r.id}
        /\ registry'[r.id] = [state |-> "REGISTERED", grant |-> 0]
        /\ \A i \in DOMAIN registry \ {r.id} : registry'[i] = registry[i]
    BY <1>2, <1>6, UpdatedCases DEF IInv
  <2>2. r.id \notin DOMAIN registry
    BY <1>2, <1>5, <1>6 DEF Answers, Unused
  <2>3. registry'[r.id].state = "REGISTERED"
    BY <2>1
  <2>4. States' = [i \in DOMAIN States \cup {r.id} |->
                    IF i = r.id THEN "REGISTERED" ELSE States[i]]
    BY <2>1, <2>2, <2>3 DEF States
  <2>5. r.id \in DOMAIN States' /\ r.id \notin DOMAIN States
    BY <2>1, <2>2 DEF States
  <2>6. Lifecycle!Register(r.id)
    BY <2>4, <2>5 DEF Lifecycle!Register
  <2> QED BY <2>5, <2>6 DEF Lifecycle!Next
<1>7. CASE r.type = "Grant" /\ Sets(c, "GRANTED", r.grant)
  <2>1. registry[m].state = "REGISTERED"
    BY <1>2, <1>3, <1>5, <1>7 DEF Answers, GuardOK, Sets
  <2>2. Lifecycle!Grant(m) /\ m \in DOMAIN States
    BY <1>7, <2>1, SetsLifecycle DEF Lifecycle!Grant, Lifecycle!Move
  <2> QED BY <2>2 DEF Lifecycle!Next
<1>8. CASE r.type = "Heartbeat" /\ Sets(c, "AUTHORIZED", registry[dp[c].my].grant)
  <2>1. registry[m].state \in {"GRANTED", "AUTHORIZED"}
    BY <1>2, <1>3, <1>5, <1>8 DEF Answers, GuardOK, Sets
  <2>2. CASE registry[m].state = "GRANTED"
    <3>1. Lifecycle!Heartbeat(m) /\ m \in DOMAIN States
      BY <1>8, <2>2, SetsLifecycle DEF Lifecycle!Heartbeat, Lifecycle!Move
    <3> QED BY <3>1 DEF Lifecycle!Next
  <2>3. CASE registry[m].state = "AUTHORIZED"
    <3>1. /\ m \in DOMAIN States /\ States[m] = "AUTHORIZED"
          /\ States' = [States EXCEPT ![m] = "AUTHORIZED"]
      BY <1>8, <2>3, SetsLifecycle
    <3> QED BY <3>1 DEF GivesBack
  <2> QED BY <2>1, <2>2, <2>3
<1>9. CASE Sets(c, "REGISTERED", 0)
  BY <1>9, SetsLifecycle DEF GivesBack
<1>10. CASE /\ DOMAIN registry' = DOMAIN registry \ {m}
            /\ \A i \in DOMAIN registry' : registry'[i] = registry[i]
  BY <1>10 DEF GivesBack, States
<1>11. CASE registry' = registry
  BY <1>11, StatesKept
<1> QED BY <1>2, <1>6, <1>7, <1>8, <1>9, <1>10, <1>11, UpdatedCases DEF IInv

(* Every step of the simulator is a step of the lifecycle, gives back or *)
(* leaves the states alone.                                              *)
LEMMA StepLifecycle ==
  ASSUME IInv, [Next]_vars
  PROVE  Lifecycle!Next \/ GivesBack \/ States' = States
<1>1. CASE UNCHANGED vars
  BY <1>1, StatesKept DEF vars
<1>2. ASSUME NEW c \in Clients, NEW req \in Request, Ask(c, req) PROVE States' = States
  BY <1>2, StatesKept DEF Ask
<1>3. ASSUME NEW c \in Clients, Get(c) \/ GiveUp(c) \/ Quit(c) PROVE States' = States
  BY <1>3, StatesKept DEF Get, GiveUp, Quit
<1>4. ASSUME NEW c \in Clients, Refuse(c) \/ Receive(c) \/ Forward(c) \/ HearSas(c)
      PROVE  States' = States
  BY <1>4, StatesKept DEF Refuse, Receive, Forward, HearSas
<1>5. ASSUME NEW c \in Clients, ForwardKillsProxy(c) PROVE GivesBack
  <2>1. registry' = << >> /\ DOMAIN registry' = {}
    BY <1>5, KillFrame DEF ForwardKillsProxy, IInv
  <2>2. States' = << >>
    BY <2>1 DEF States
  <2> QED BY <2>1, <2>2 DEF GivesBack
<1>6. ASSUME HandleDpConnection \/ SasCrash PROVE States' = States
  BY <1>6, StatesKept DEF HandleDpConnection, SasCrash
<1>7. ASSUME NEW c \in Clients, Disconnect(c) \/ Apply(c)
      PROVE  Lifecycle!Next \/ GivesBack \/ States' = States
  BY <1>7, DisconnectLifecycle, ApplyLifecycle DEF IInv
<1> QED BY <1>1, <1>2, <1>3, <1>4, <1>5, <1>6, <1>7 DEF Next, ClientStep, HandleCbsd

(* Whatever the clients send and in whatever order the threads run, an id *)
(* becomes known, granted and authorized along the lifecycle that         *)
(* spectrum_state.h draws; every step outside it gives something back.    *)
THEOREM CbrsGainsInOrder == Spec => GainsInOrder
<1>1. Init => Lifecycle!Init
  <2> SUFFICES ASSUME Init PROVE States = << >>
    BY DEF Lifecycle!Init
  <2>1. registry = << >>
    BY DEF Init
  <2> QED BY <2>1 DEF States
<1>2. IInv /\ [Next]_vars => [Lifecycle!Next \/ GivesBack]_States
  BY StepLifecycle
<1> QED BY CbrsInvariant, <1>1, <1>2, PTL DEF Spec, GainsInOrder
----------------------------------------------------------------------------
(* A connection has an entry from its registration to its end, and an     *)
(* agent registers over it when it has none: so once.                     *)
HistoryOK(c) ==
  /\ Busy(c) => up[c] = None
  /\ dp[c].pc # "gone" /\ dp[c].my # 0 => dp[c].my \in DOMAIN registry
  /\ c \in Agents =>
       /\ dp[c].ids \subseteq {dp[c].my} \ {0}
       /\ dp[c].pc # "gone" /\ up[c] = "Registration" => dp[c].my = 0
       /\ Busy(c) /\ dp[c].req = "Registration" => dp[c].my = 0

(* A step that leaves the entry, the ids and the request alone keeps it. *)
LEMMA HistoryKept ==
  ASSUME NEW d \in Clients, HistoryOK(d), dp'[d].my = dp[d].my, dp'[d].ids = dp[d].ids,
         dp[d].my \in DOMAIN registry => dp[d].my \in DOMAIN registry' \/ dp'[d].pc = "gone",
         dp[d].pc = "gone" => dp'[d].pc = "gone",
         up'[d] = up[d] \/ up'[d] = None,
         Busy(d)' => Busy(d), Busy(d)' => dp'[d].req = dp[d].req
  PROVE  HistoryOK(d)'
  BY DEF HistoryOK, None

(* The step of another thread that changes the registry keeps it. *)
LEMMA HistoryElsewhere ==
  ASSUME IInv, NEW c \in Clients, NEW d \in Clients \ {c}, HistoryOK(d),
         dp'[d] = dp[d], up'[d] = up[d], Disconnect(c) \/ Apply(c)
  PROVE  HistoryOK(d)'
<1>1. Lookup(d)' = Lookup(d) /\ dp'[d].my = dp[d].my
  BY EntryKept DEF IInv
<1>2. dp[d].my \in DOMAIN registry => registry[dp[d].my].state # "UNREGISTERED"
  BY DEF IInv, FreshInv, RegistryOK
<1>3. dp[d].my \in DOMAIN registry => dp[d].my \in DOMAIN registry'
  BY <1>1, <1>2 DEF Lookup, Entry, NoInfo
<1> QED BY <1>1, <1>3, HistoryKept DEF Busy

(* Only the answer to a registration changes the history. *)
LEMMA IdsKept ==
  ASSUME TypeOK, NEW c \in Clients,
         Receive(c) \/ Disconnect(c) \/ Forward(c) \/ ForwardKillsProxy(c) \/ HearSas(c)
  PROVE  \A d \in Clients : dp'[d].ids = dp[d].ids
<1>1. dp \in [Clients -> Handler]
  BY DEF TypeOK
<1>2. CASE Receive(c)
  BY <1>1, <1>2 DEF Handler, Receive
<1>3. CASE Disconnect(c) \/ Forward(c)
  BY <1>1, <1>3 DEF Handler, Disconnect, Forward
<1>4. CASE ForwardKillsProxy(c)
  BY <1>1, <1>4 DEF Handler, ForwardKillsProxy
<1>5. CASE HearSas(c)
  BY <1>1, <1>5 DEF Handler, HearSas
<1> QED BY <1>2, <1>3, <1>4, <1>5

(* An agent asks to be registered when the proxy has no entry for it. *)
LEMMA AskHistory ==
  ASSUME IInv, NEW c \in Clients, NEW req \in Request, Ask(c, req), HistoryOK(c)
  PROVE  HistoryOK(c)'
<1>1. UNCHANGED <<dp, registry, proxy>> /\ up'[c] = req /\ client[c].pc = "idle"
  BY DEF Ask, IInv, TypeOK
<1>2. ASSUME c \in Agents, dp[c].pc # "gone", req = "Registration" PROVE dp[c].my = 0
  <2>1. client[c].state = "UNREGISTERED" /\ proxy
    BY <1>2 DEF Ask, AgentMay, IInv, LockInv, ThreadOK
  <2>2. Lookup(c).state = "UNREGISTERED"
    BY <1>1, <1>2, <2>1 DEF IInv, AgentInv, AgentOK, Agrees
  <2>3. dp[c].my \notin DOMAIN registry
    BY <2>2 DEF IInv, FreshInv, RegistryOK, Lookup, Entry
  <2> QED BY <1>2, <2>3 DEF HistoryOK
<1>3. ~ Busy(c)
  BY <1>1 DEF IInv, LockInv, FlowOK
<1> QED BY <1>1, <1>2, <1>3 DEF HistoryOK, Busy

(* The answer to an agent's registration is the first it gets. *)
LEMMA ApplyHistory ==
  ASSUME IInv, NEW c \in Clients, Apply(c), HistoryOK(c)
  PROVE  HistoryOK(c)'
<1> DEFINE r == dp[c].resp  m == dp[c].my
<1>1. /\ r = Empty \/ Answers(r, dp[c].req)
      /\ r.type = "Registration" => r.id # 0
  BY ApplyLock DEF IInv
<1>2. /\ dp'[c].my = IF r.type = "Registration" THEN r.id ELSE m
      /\ dp'[c].pc = IF r.type = "Deregistration" THEN "gone" ELSE "recv"
      /\ dp'[c].ids = IF r.type = "Registration" THEN dp[c].ids \cup {r.id} ELSE dp[c].ids
  BY <1>1, ApplyFrame DEF IInv
<1>3. /\ r \in Answer /\ registry' = Updated(c, r) /\ Busy(c) /\ up' = up
      /\ dp[c].pc # "gone" /\ client' = client
  BY DEF IInv, Apply, TypeOK, Handler, Busy, clientVars
<1>4. r.type = "Registration" => dp[c].req = "Registration"
  BY <1>1, EmptyTyped DEF Answers, Request, IInv, LockInv, ThreadOK
<1>5. up'[c] = None /\ ~ Busy(c)' /\ None # "Registration"
  BY <1>2, <1>3 DEF HistoryOK, Busy, None
<1>6. r.type = "Registration" => r.id \in DOMAIN registry'
  BY <1>3, UpdatedCases DEF IInv
<1>7. r.type \notin {"Registration", "Deregistration"} /\ m \in DOMAIN registry
        => m \in DOMAIN registry'
  BY <1>3, UpdatedCases DEF IInv, Sets
<1> HIDE DEF r, m
<1>8. CASE r.type = "Registration"
  <2>1. c \in Agents => dp[c].ids \subseteq {}
    BY <1>3, <1>4, <1>8 DEF HistoryOK, m
  <2> QED BY <1>1, <1>2, <1>5, <1>6, <1>8, <2>1 DEF HistoryOK
<1>9. CASE r.type # "Registration"
  BY <1>2, <1>3, <1>5, <1>7, <1>9 DEF HistoryOK, m
<1> QED BY <1>8, <1>9

(* Every step keeps the history of every connection, *)
LEMMA StepHistory ==
  ASSUME IInv, [Next]_vars, NEW d \in Clients, HistoryOK(d)
  PROVE  HistoryOK(d)'
<1> USE DEF IInv
<1>1. CASE UNCHANGED vars
  BY <1>1, HistoryKept DEF vars, Busy
<1>2. ASSUME NEW c \in Clients, NEW req \in Request, Ask(c, req) PROVE HistoryOK(d)'
  <2>1. CASE d = c
    BY <1>2, <2>1, AskHistory
  <2>2. CASE d # c
    <3>1. UNCHANGED <<dp, registry>> /\ up'[d] = up[d]
      BY <1>2, <2>2 DEF Ask, TypeOK
    <3> QED BY <3>1, HistoryKept DEF Busy
  <2> QED BY <2>1, <2>2
<1>3. ASSUME NEW c \in Clients, Get(c) \/ GiveUp(c) \/ Quit(c) \/ Refuse(c)
      PROVE  HistoryOK(d)'
  <2>1. UNCHANGED <<dp, registry>> /\ (up'[d] = up[d] \/ up'[d] = None)
    BY <1>3 DEF Get, GiveUp, Quit, Refuse, TypeOK
  <2> QED BY <2>1, HistoryKept DEF Busy
<1>4. ASSUME NEW c \in Clients, Receive(c) PROVE HistoryOK(d)'
  <2>1. registry' = registry /\ dp'[d].ids = dp[d].ids
    BY <1>4, IdsKept DEF Receive
  <2>2. CASE d # c
    BY <1>4, <2>1, <2>2, HistoryKept, ReceiveFrame DEF Busy
  <2>3. CASE d = c
    <3>1. /\ dp'[c].pc = "lock" /\ dp'[c].req = up[c] /\ dp'[c].my = dp[c].my
          /\ up'[c] = None /\ dp[c].pc = "recv"
      BY <1>4, ReceiveFrame DEF Receive
    <3> QED BY <2>1, <2>3, <3>1 DEF HistoryOK, Busy, None
  <2> QED BY <2>2, <2>3
<1>5. ASSUME NEW c \in Clients, Forward(c) \/ HearSas(c) PROVE HistoryOK(d)'
  <2>1. UNCHANGED <<registry, up>> /\ dp'[d].ids = dp[d].ids
    BY <1>5, IdsKept DEF Forward, HearSas
  <2>2. /\ dp'[d].my = dp[d].my /\ dp'[d].req = dp[d].req /\ (Busy(d)' => Busy(d))
        /\ dp[d].pc = "gone" => dp'[d].pc = "gone"
    <3>1. CASE Forward(c)
      <4>1. dp[c].req \in Request /\ dp[c].pc = "lock"
        BY <3>1, ForwardLock DEF Forward
      <4> QED BY <3>1, <4>1, ForwardFrame DEF Busy
    <3>2. CASE HearSas(c)
      BY <3>2, HearFrame DEF Busy, HearSas
    <3> QED BY <1>5, <3>1, <3>2
  <2> QED BY <2>1, <2>2, HistoryKept
<1>6. ASSUME NEW c \in Clients, ForwardKillsProxy(c) PROVE HistoryOK(d)'
  <2>1. up' = up /\ dp'[d].ids = dp[d].ids
    BY <1>6, IdsKept DEF ForwardKillsProxy
  <2> QED BY <1>6, <2>1, KillFrame, HistoryKept DEF Busy
<1>7. ASSUME NEW c \in Clients, Disconnect(c) PROVE HistoryOK(d)'
  <2>1. up' = up /\ dp'[d].ids = dp[d].ids
    BY <1>7, IdsKept DEF Disconnect
  <2>2. CASE d = c
    BY <1>7, <2>1, <2>2, DisconnectFrame, HistoryKept DEF Busy
  <2>3. CASE d # c
    BY <1>7, <2>1, <2>3, DisconnectFrame, HistoryElsewhere
  <2> QED BY <2>2, <2>3
<1>8. ASSUME NEW c \in Clients, Apply(c) PROVE HistoryOK(d)'
  <2>1. CASE d = c
    BY <1>8, <2>1, ApplyHistory
  <2>2. CASE d # c
    <3>1. up' = up /\ dp'[d] = dp[d]
      BY <1>8, <2>2, ApplyLock, ApplyFrame DEF Apply
    <3> QED BY <1>8, <2>2, <3>1, HistoryElsewhere
  <2> QED BY <2>1, <2>2
<1>9. ASSUME HandleDpConnection \/ SasCrash PROVE HistoryOK(d)'
  <2>1. UNCHANGED <<dp, up, registry>>
    BY <1>9 DEF HandleDpConnection, SasCrash
  <2> QED BY <2>1, HistoryKept DEF Busy
<1> QED BY <1>1, <1>2, <1>3, <1>4, <1>5, <1>6, <1>7, <1>8, <1>9
         DEF Next, ClientStep, HandleCbsd

(* When a connection's thread has ended, the registry has no entry under  *)
(* its last id, and none at all that an agent has registered over it.     *)
THEOREM CbrsGoneIsForgotten == Spec => []GoneIsForgotten
<1> DEFINE HInv == \A c \in Clients : HistoryOK(c)
<1>1. Init => HInv
  <2> SUFFICES ASSUME Init, NEW c \in Clients PROVE HistoryOK(c)
    OBVIOUS
  <2>1. up[c] = None /\ dp[c] = [pc |-> "recv", req |-> None, my |-> 0, ids |-> {}, resp |-> Empty]
    BY DEF Init
  <2> QED BY <2>1 DEF HistoryOK, None
<1>2. IInv /\ HInv /\ [Next]_vars => HInv'
  BY StepHistory
<1>3. IInv /\ HInv => GoneIsForgotten
  BY DEF IInv, FreshInv, LastForgotten, HistoryOK, GoneIsForgotten
<1> QED BY CbrsInvariant, <1>1, <1>2, <1>3, PTL DEF Spec
=============================================================================
