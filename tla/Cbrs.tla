-------------------------------- MODULE Cbrs --------------------------------
(***************************************************************************)
(* The CBRS simulator (cbrs-domain-proxy/src): CBSD agents, each connected *)
(* to the Domain Proxy, which serves every connection in a thread of its   *)
(* own and forwards requests over one shared connection to the SAS.  A     *)
(* client of the proxy is one connection: an agent process that is started *)
(* again is another client.  Agents are cbsd_agent.cpp; Others are CBSDs   *)
(* of another make, which send any request in any order.                   *)
(* An id or a grant is its number, 0 where the code has an empty string.   *)
(***************************************************************************)
EXTENDS Naturals, Sequences

CONSTANTS
  Agents,            \* connections of cbsd_agent
  Others,            \* connections of other CBSDs
  MaxAllocations,    \* bound: registrations and grants forwarded for a client
  MaxSasCrashes      \* bound: 1 if the SAS may be killed, 0 if not

Clients == Agents \cup Others
None    == "none"

ASSUME CbrsAssumption ==
  /\ Agents \cap Others = {} /\ None \notin Clients
  /\ MaxAllocations \in Nat /\ MaxSasCrashes \in {0, 1}

VARIABLES
  client,     \* the agents: where they are, and their state, cbsdId, grantId
  asked,      \* registrations and grants a client has asked for
  up, down,   \* the request and the answer on each client's connection
  proxy,      \* the proxy's process: running or not
  dp,         \* the thread of each connection: handleCbsd
  registry,   \* g_registry: a map from the cbsdIds it knows
  sasMtx,     \* g_sas_mtx: the client whose thread holds it
  sasReq, sasRsp,   \* the shared connection to the SAS
  sasConn,    \* "up"; "closed" by the SAS; "reset" when a send found it so
  counters    \* g_cbsdCounter and g_grantCounter

clientVars == <<client, asked>>
sasVars    == <<sasReq, sasRsp, sasConn, counters>>
vars       == <<clientVars, up, down, proxy, dp, registry, sasMtx, sasVars>>
----------------------------------------------------------------------------
State   == {"UNREGISTERED", "REGISTERED", "GRANTED", "AUTHORIZED"}
Request == {"Registration", "Grant", "Heartbeat", "Relinquishment", "Deregistration", "Unknown"}

(* An answer: of the SAS, or the proxy's own refusal, or the empty text the *)
(* proxy passes on when the SAS did not answer.                             *)
Answer == [type : Request \cup {"Refused", "Error", "Empty"}, id : Nat, grant : Nat]
Reply(type, id, grant) == [type |-> type, id |-> id, grant |-> grant]
Empty == Reply("Empty", 0, 0)

Info   == [state : State, grant : Nat]
NoInfo == [state |-> "UNREGISTERED", grant |-> 0]

(* my is myCbsdId; ids is a history variable, every id that was registered  *)
(* over the connection.                                                     *)
Handler == [pc : {"recv", "lock", "sas", "apply", "gone"},
            req : Request \cup {None}, my : Nat, ids : SUBSET Nat, resp : Answer]

Agent == [pc : {"idle", "wait", "gone"}, state : State, id : Nat, grant : Nat,
          req : Request \cup {None}]
NewAgent == [pc |-> "idle", state |-> "UNREGISTERED", id |-> 0, grant |-> 0, req |-> None]

TypeOK ==
  /\ client \in [Clients -> Agent]
  /\ asked \in [Clients -> Nat]
  /\ up \in [Clients -> Request \cup {None}]
  /\ down \in [Clients -> Seq(Answer)]
  /\ proxy \in BOOLEAN
  /\ dp \in [Clients -> Handler]
  /\ DOMAIN registry \subseteq Nat \ {0}
  /\ \A id \in DOMAIN registry : registry[id] \in Info
  /\ sasMtx \in Clients \cup {None}
  /\ sasReq \in Seq(Request) /\ sasRsp \in Seq(Answer)
  /\ sasConn \in {"up", "closed", "reset"}
  /\ counters \in [id : Nat, grant : Nat]

Init ==
  /\ client = [c \in Clients |-> NewAgent]
  /\ asked = [c \in Clients |-> 0]
  /\ up = [c \in Clients |-> None]
  /\ down = [c \in Clients |-> << >>]
  /\ proxy = TRUE
  /\ dp = [c \in Clients |->
       [pc |-> "recv", req |-> None, my |-> 0, ids |-> {}, resp |-> Empty]]
  /\ registry = << >>
  /\ sasMtx = None
  /\ sasReq = << >> /\ sasRsp = << >>
  /\ sasConn = "up"
  /\ counters = [id |-> 1, grant |-> 1]

(* registry.get; the default CbsdInfo when there is none. *)
Entry(id) == IF id \in DOMAIN registry THEN registry[id] ELSE NoInfo
Lookup(c) == Entry(dp[c].my)

----------------------------------------------------------------------------
(***************************************************************************)
(* The clients.                                                            *)
(***************************************************************************)
(* What cbsd_agent checks before it sends. *)
AgentMay(a, req) ==
  CASE req = "Registration"   -> client[a].state = "UNREGISTERED"
    [] req = "Grant"          -> client[a].state = "REGISTERED"
    [] req = "Heartbeat"      -> client[a].state \in {"GRANTED", "AUTHORIZED"}
    [] req = "Relinquishment" -> client[a].grant # 0
    [] req = "Deregistration" -> client[a].id # 0
    [] req = "Unknown"        -> FALSE

Ask(c, req) ==
  /\ client[c].pc = "idle"
  /\ c \in Agents => AgentMay(c, req)
  /\ IF req = "Registration" \/ (req = "Grant" /\ Lookup(c).state = "REGISTERED")
       THEN asked[c] < MaxAllocations /\ asked' = [asked EXCEPT ![c] = @ + 1]
       ELSE UNCHANGED asked
  /\ client' = [client EXCEPT ![c].pc = "wait", ![c].req = req]
  /\ up' = [up EXCEPT ![c] = req]
  /\ UNCHANGED <<down, proxy, dp, registry, sasMtx, sasVars>>

(* Mutant: a relinquished grant leaves the agent in a state of its own. *)
AfterTerminated(a, r) ==
  CASE a.req = "Registration" -> [a EXCEPT !.state = "REGISTERED", !.id = r.id]
    [] a.req = "Relinquishment" -> [a EXCEPT !.state = "TERMINATED", !.grant = 0]
    [] OTHER -> [a EXCEPT !.state = "GRANTED", !.grant = r.grant + a.grant]

(* responseCode is 0: the SAS answers a request it knows. *)
Succeeded(r) == r.type \in Request

(* What an agent makes of the answer to its request.  A registration or a   *)
(* grant counts as made if the answer has code 0 or names one; the answers  *)
(* to the other requests are not looked at.                                 *)
After(a, r) ==
  CASE a.req = "Registration" ->
         [a EXCEPT !.id = r.id,
                   !.state = IF Succeeded(r) \/ r.id # 0 THEN "REGISTERED" ELSE @]
    [] a.req = "Grant" ->
         [a EXCEPT !.grant = r.grant,
                   !.state = IF Succeeded(r) \/ r.grant # 0 THEN "GRANTED" ELSE @]
    [] a.req = "Heartbeat" -> [a EXCEPT !.state = "AUTHORIZED"]
    [] a.req = "Relinquishment" -> [a EXCEPT !.state = "REGISTERED", !.grant = 0]
    [] a.req = "Deregistration" ->
         [a EXCEPT !.state = "UNREGISTERED", !.id = 0, !.grant = 0]
    [] OTHER -> a

Get(c) ==
  /\ client[c].pc = "wait" /\ down[c] # << >> /\ Head(down[c]).type # "Empty"
  /\ client' = [client EXCEPT ![c] =
       [(IF c \in Agents THEN After(@, Head(down[c])) ELSE @) EXCEPT !.pc = "idle", !.req = None]]
  /\ down' = [down EXCEPT ![c] = Tail(@)]
  /\ UNCHANGED <<asked, up, proxy, dp, registry, sasMtx, sasVars>>

(* The process ends and its variables with it. *)
End(c) ==
  /\ client' = [client EXCEPT ![c] = [NewAgent EXCEPT !.pc = "gone"]]
  /\ asked' = [asked EXCEPT ![c] = 0]

(* recvMsg fails, because the text is empty or the connection is closed:    *)
(* the agent ends.                                                          *)
GiveUp(c) ==
  /\ client[c].pc = "wait"
  /\ IF down[c] # << >> THEN Head(down[c]).type = "Empty" ELSE dp[c].pc = "gone"
  /\ End(c)
  /\ UNCHANGED <<up, down, proxy, dp, registry, sasMtx, sasVars>>

(* QUIT, or the process is killed, also while it waits for an answer. *)
Quit(c) ==
  /\ client[c].pc # "gone"
  /\ End(c)
  /\ UNCHANGED <<up, down, proxy, dp, registry, sasMtx, sasVars>>
----------------------------------------------------------------------------
(***************************************************************************)
(* The Domain Proxy's threads.                                             *)
(***************************************************************************)
(* Mutant: only grants are guarded. *)
RefusesGrants(c, req) == req = "Grant" /\ Lookup(c).state # "REGISTERED"

(* The state machine guard. *)
Refuses(c, req) ==
  \/ req = "Grant" /\ Lookup(c).state # "REGISTERED"
  \/ req = "Heartbeat" /\ Lookup(c).state \notin {"GRANTED", "AUTHORIZED"}

Refuse(c) ==
  /\ proxy /\ dp[c].pc = "recv" /\ up[c] # None
  /\ Refuses(c, up[c])
  /\ down' = [down EXCEPT ![c] = Append(@, Reply("Refused", 0, 0))]
  /\ up' = [up EXCEPT ![c] = None]
  /\ UNCHANGED <<clientVars, proxy, dp, registry, sasMtx, sasVars>>

Receive(c) ==
  /\ proxy /\ dp[c].pc = "recv" /\ up[c] # None
  /\ ~Refuses(c, up[c])
  /\ dp' = [dp EXCEPT ![c].pc = "lock", ![c].req = up[c]]
  /\ up' = [up EXCEPT ![c] = None]
  /\ UNCHANGED <<clientVars, down, proxy, registry, sasMtx, sasVars>>

Erase(id) == [i \in DOMAIN registry \ {id} |-> registry[i]]
Insert(id, info) ==
  [i \in DOMAIN registry \cup {id} |-> IF i = id THEN info ELSE registry[i]]

(* Mutant: the entry of a client that is gone is kept. *)
DisconnectOnly(c) ==
  /\ proxy /\ dp[c].pc = "recv" /\ up[c] = None /\ client[c].pc = "gone"
  /\ dp' = [dp EXCEPT ![c].pc = "gone"]
  /\ UNCHANGED <<clientVars, up, down, proxy, registry, sasMtx, sasVars>>

(* recvMsg fails: the client's entry is removed and the thread ends. *)
Disconnect(c) ==
  /\ proxy /\ dp[c].pc = "recv" /\ up[c] = None /\ client[c].pc = "gone"
  /\ registry' = IF dp[c].my # 0 THEN Erase(dp[c].my) ELSE registry
  /\ dp' = [dp EXCEPT ![c].pc = "gone"]
  /\ UNCHANGED <<clientVars, up, down, proxy, sasMtx, sasVars>>

(* Mutant: forwardToSas without its lock. *)
ForwardUnlocked(c) ==
  /\ proxy /\ dp[c].pc = "lock" /\ sasConn # "reset"
  /\ sasMtx' = c
  /\ dp' = [dp EXCEPT ![c].pc = "sas"]
  /\ IF sasConn = "up" THEN sasReq' = Append(sasReq, dp[c].req) /\ UNCHANGED sasConn
                       ELSE sasConn' = "reset" /\ UNCHANGED sasReq
  /\ UNCHANGED <<clientVars, up, down, proxy, registry, sasRsp, counters>>

(* forwardToSas: lock and send.  The first send after the SAS has closed    *)
(* its end succeeds, and is answered by a reset.                            *)
Forward(c) ==
  /\ proxy /\ dp[c].pc = "lock" /\ sasMtx = None /\ sasConn # "reset"
  /\ sasMtx' = c
  /\ dp' = [dp EXCEPT ![c].pc = "sas"]
  /\ IF sasConn = "up" THEN sasReq' = Append(sasReq, dp[c].req) /\ UNCHANGED sasConn
                       ELSE sasConn' = "reset" /\ UNCHANGED sasReq
  /\ UNCHANGED <<clientVars, up, down, proxy, registry, sasRsp, counters>>

(* The next send raises SIGPIPE, which nothing handles: the process ends. *)
ForwardKillsProxy(c) ==
  /\ proxy /\ dp[c].pc = "lock" /\ sasMtx = None /\ sasConn = "reset"
  /\ proxy' = FALSE
  /\ dp' = [d \in Clients |-> [dp[d] EXCEPT !.pc = "gone"]]
  /\ registry' = << >>
  /\ UNCHANGED <<clientVars, up, down, sasMtx, sasVars>>

(* Mutant: a failing receive is tried again. *)
HearSasOnly(c) ==
  /\ dp[c].pc = "sas" /\ proxy
  /\ sasRsp # << >>
  /\ dp' = [dp EXCEPT ![c].pc = "apply", ![c].resp = Head(sasRsp)]
  /\ sasRsp' = Tail(sasRsp)
  /\ sasMtx' = None
  /\ UNCHANGED <<clientVars, up, down, proxy, registry, sasReq, sasConn, counters>>

(* ... receive, empty if the connection is closed, and unlock. *)
HearSas(c) ==
  /\ dp[c].pc = "sas" /\ proxy
  /\ sasRsp # << >> \/ sasConn # "up"
  /\ dp' = [dp EXCEPT ![c].pc = "apply",
       ![c].resp = IF sasRsp # << >> THEN Head(sasRsp) ELSE Empty]
  /\ sasRsp' = IF sasRsp # << >> THEN Tail(sasRsp) ELSE sasRsp
  /\ sasMtx' = None
  /\ UNCHANGED <<clientVars, up, down, proxy, registry, sasReq, sasConn, counters>>

(* The registry after an answer of the SAS to client c. *)
Updated(c, r) ==
  LET my == dp[c].my
  IN  IF r.type = "Registration"
        THEN Insert(r.id, [state |-> "REGISTERED", grant |-> 0])
      ELSE IF my \notin DOMAIN registry THEN registry
      ELSE CASE r.type = "Grant" ->
                  [registry EXCEPT ![my] = [state |-> "GRANTED", grant |-> r.grant]]
             [] r.type = "Heartbeat" -> [registry EXCEPT ![my].state = "AUTHORIZED"]
             [] r.type = "Relinquishment" ->
                  [registry EXCEPT ![my] = [state |-> "REGISTERED", grant |-> 0]]
             [] r.type = "Deregistration" -> Erase(my)
             [] OTHER -> registry

(* The registry is updated and the answer passed on; a deregistration also  *)
(* ends the thread and with it the connection.                              *)
Apply(c) ==
  /\ proxy /\ dp[c].pc = "apply"
  /\ LET r == dp[c].resp
     IN  /\ registry' = Updated(c, r)
         /\ dp' = [dp EXCEPT ![c].my = IF r.type = "Registration" THEN r.id ELSE @,
                             ![c].ids = IF r.type = "Registration" THEN @ \cup {r.id} ELSE @,
                             ![c].pc = IF r.type = "Deregistration" THEN "gone" ELSE "recv",
                             ![c].req = None, ![c].resp = Empty]
         /\ down' = [down EXCEPT ![c] = Append(@, r)]
  /\ UNCHANGED <<clientVars, up, proxy, sasMtx, sasVars>>
----------------------------------------------------------------------------
(***************************************************************************)
(* The SAS: it grants everything and keeps nothing but its counters.       *)
(***************************************************************************)
SasAnswer(req) ==
  CASE req = "Registration" -> Reply(req, counters.id, 0)
    [] req = "Grant"        -> Reply(req, 0, counters.grant)
    [] req = "Unknown"      -> Reply("Error", 0, 0)
    [] OTHER                -> Reply(req, 0, 0)

(* Mutant: the grant of the last request is assigned again. *)
HandleKeepingGrant ==
  /\ sasConn = "up" /\ sasReq # << >>
  /\ sasRsp' = Append(sasRsp, SasAnswer(Head(sasReq)))
  /\ counters' = [counters EXCEPT !.id = IF Head(sasReq) = "Registration" THEN @ + 1 ELSE @]
  /\ sasReq' = Tail(sasReq)
  /\ UNCHANGED <<clientVars, up, down, proxy, dp, registry, sasMtx, sasConn>>

HandleDpConnection ==
  /\ sasConn = "up" /\ sasReq # << >>
  /\ LET req == Head(sasReq)
     IN  /\ sasRsp' = Append(sasRsp, SasAnswer(req))
         /\ counters' = [counters EXCEPT
              !.id    = IF req = "Registration" THEN @ + 1 ELSE @,
              !.grant = IF req = "Grant" THEN @ + 1 ELSE @]
  /\ sasReq' = Tail(sasReq)
  /\ UNCHANGED <<clientVars, up, down, proxy, dp, registry, sasMtx, sasConn>>

(* The SAS is killed.  A request it has not read makes the close a reset. *)
SasCrash ==
  /\ MaxSasCrashes = 1 /\ sasConn = "up"
  /\ sasConn' = IF sasReq = << >> THEN "closed" ELSE "reset"
  /\ sasReq' = << >>
  /\ UNCHANGED <<clientVars, up, down, proxy, dp, registry, sasMtx, sasRsp, counters>>
----------------------------------------------------------------------------
ClientStep(c) == Get(c) \/ GiveUp(c)
HandleCbsd(c) ==
  \/ Refuse(c) \/ Receive(c) \/ Disconnect(c) \/ Forward(c) \/ ForwardKillsProxy(c)
  \/ HearSas(c) \/ Apply(c)

Next ==
  \/ \E c \in Clients, req \in Request : Ask(c, req)
  \/ \E c \in Clients : ClientStep(c) \/ Quit(c) \/ HandleCbsd(c)
  \/ HandleDpConnection \/ SasCrash

Spec == Init /\ [][Next]_vars

(* Threads and processes are scheduled; g_sas_mtx promises no order among   *)
(* the threads that wait for it, and nobody is obliged to type anything.    *)
FairSpec ==
  /\ Spec /\ WF_vars(HandleDpConnection)
  /\ \A c \in Clients : WF_vars(ClientStep(c)) /\ WF_vars(HandleCbsd(c))
----------------------------------------------------------------------------
(* Between two commands an agent and the proxy agree on its state and its   *)
(* grant, although the agent takes most answers without looking at them and *)
(* the requests of all connections share one stream to the SAS.             *)
AgentAgrees ==
  proxy => \A a \in Agents : client[a].pc = "idle" =>
    [state |-> client[a].state, grant |-> client[a].grant] = Entry(client[a].id)

(* No two entries of the registry share a grant. *)
GrantsDistinct ==
  \A i, j \in DOMAIN registry :
    i # j /\ registry[i].grant # 0 => registry[i].grant # registry[j].grant

(* When a connection's thread has ended, however the client went, nothing   *)
(* an agent has registered over it is left in the registry.  Of another     *)
(* CBSD, which may register again and again, only the last id is gone: the  *)
(* entries before it stay (domain_proxy.cpp:233 overwrites myCbsdId).       *)
GoneIsForgotten ==
  \A c \in Clients : dp[c].pc = "gone" =>
    /\ dp[c].my \notin DOMAIN registry
    /\ c \in Agents => dp[c].ids \cap DOMAIN registry = {}

States    == [id \in DOMAIN registry |-> registry[id].state]
Lifecycle == INSTANCE SpectrumState WITH state <- States

(* Nothing becomes known, and what changes falls back to REGISTERED. *)
GivesBack ==
  /\ DOMAIN States' \subseteq DOMAIN States
  /\ \A id \in DOMAIN States' : States'[id] \in {States[id], "REGISTERED"}

(* What the proxy enforces of the lifecycle.  It guards only grants and     *)
(* heartbeats, not all messages as spectrum_state.h says, so that steps the *)
(* lifecycle does not have are taken; but whatever the clients send, and    *)
(* although the guard is evaluated before the exchange with the SAS, an id  *)
(* comes to be known, granted and authorized along the lifecycle only: a    *)
(* step outside it gives something back.                                    *)
GainsInOrder == Lifecycle!Init /\ [][Lifecycle!Next \/ GivesBack]_States

(* A request that has reached the SAS connection ends, and when the proxy   *)
(* dies so does everybody's, whoever died while it was under way.           *)
RequestEnds ==
  \A c \in Clients :
    (sasMtx = c \/ ~proxy) ~> (sasMtx # c /\ client[c].pc # "wait")
=============================================================================
