------------------------------- MODULE Core5g -------------------------------
(***************************************************************************)
(* The 5G core (5g-simulator/src): gNBs that register UEs and set up PDU   *)
(* sessions over N2 with one AMF, which calls the UDM and the SMF over the *)
(* SBI; the SMF programs the UPF over N4 (UDP); the NRF tells the AMF and  *)
(* the SMF, once, where the others are.  Every network function is one     *)
(* single-threaded process that may be killed and started again.           *)
(* A hexadecimal string is << >> when empty, otherwise the tuple of what   *)
(* it was made from.  The AMF's chaos branch is left out: only the gNB's   *)
(* process has a command that switches chaos on.                           *)
(***************************************************************************)
EXTENDS Integers, Sequences, FiniteSets

CONSTANTS
  Gnbs,          \* gNB processes
  Ues,           \* the ueId of REG and PDU
  PoolSize,      \* addresses of 10.45.0.0/16 (65536)
  Running,       \* network functions that run, and are registered, from the start
  DefaultFinds,  \* network functions the callers' default host reaches
  MaxCommands,   \* bound: REG and PDU commands
  MaxCrashes     \* bound: processes killed

NFs == {"NRF", "UDM", "SMF", "UPF", "AMF"}

ASSUME Core5gAssumption ==
  /\ PoolSize \in Nat \ {0}
  /\ DefaultFinds \subseteq NFs /\ Running \subseteq NFs \ {"AMF", "SMF"}
  /\ MaxCommands \in Nat /\ MaxCrashes \in Nat
  /\ "none" \notin Gnbs /\ Ues \subseteq Nat \ {0}

VARIABLES
  proc,      \* how far each network function's main() has come
  profiles,  \* NRF g_profiles: the types registered
  found,     \* AMF udm.found, smf.found and SMF upf.found
  amf,       \* the AMF's thread: the call it is in and the UE it is for
  call,      \* the AMF's SBI connection
  ctx,       \* AMF ue_ctx: xresStar, for the UEs it has
  conn,      \* the gNB whose connection the AMF serves
  backlog,   \* gNBs whose connection the AMF has not accepted
  vectors,   \* RANDs the UDM has drawn
  smf,       \* SMF s_ue_ip_counter and, to tell its lives apart, its starts
  n4,        \* datagrams from the SMF to the UPF
  sessions,  \* UPF s_sessions
  gnb,       \* the gNBs' threads, and the state of their N2 socket
  up, down,  \* N2 frames to the AMF and to each gNB
  pdus,      \* the PDU sessions the gNBs reported as established
  commands, crashes

nfVars  == <<proc, profiles, found>>
amfVars == <<amf, call, ctx, conn, backlog>>
smfVars == <<smf, n4, sessions>>
gnbVars == <<gnb, up, down, pdus>>
vars == <<nfVars, amfVars, vectors, smfVars, gnbVars, commands, crashes>>
----------------------------------------------------------------------------
(* 5G-AKA.  kFor ends in half a byte, the only part of K that differs from *)
(* one subscriber to the next, and fromHex takes whole bytes.              *)
kFor(u)       == [bytes |-> "00..ee", nibble |-> u]
fromHex(k)    == k.bytes
byteXor(a, k) == IF a = << >> THEN << >> ELSE <<a[1], fromHex(k)>>

Rands    == {<< >>} \cup [1 .. 1 -> Nat]
ResStars == {<< >>} \cup Nat \X {"00..ee"}

(* An address the gNB was told: the n-th of the SMF's life `by`, or (by 0) *)
(* the AMF's own "10.45.0.2".                                              *)
Allocs == [by : 0 .. MaxCrashes + 1, n : Nat]
NoAlloc == [by |-> 0, n |-> 0]
fallback == [by |-> 0, n |-> 2]
ueIpAddress(a) == a.n % PoolSize

UpFrames ==
  [type : {"RegistrationRequest", "AuthenticationResponse",
           "RegistrationComplete", "PduSessionRequest"},
   ue : Ues, res : ResStars]
DownFrames ==
  [type : {"AuthenticationRequest", "RegistrationReject",
           "RegistrationAccept", "PduSessionAccept"},
   ue : Ues, rand : Rands, ip : Allocs]

N2Up(t, u, r)   == [type |-> t, ue |-> u, res |-> r]
N2Down(t, u)    == [type |-> t, ue |-> u, rand |-> << >>, ip |-> NoAlloc]

NoUe == 0
NoCall == [st |-> "none", rand |-> << >>, ip |-> NoAlloc]
AmfIdle == [pc |-> "idle", ue |-> NoUe]

(* The N4 request's header carries SEID 0; the CP F-SEID is in an IE.  The *)
(* UPF keeps the header's.                                                 *)
buildSessionEstReq(n) == [seid |-> 0, seq |-> n]

TypeOK ==
  /\ proc \in [NFs -> {"down", "discover", "register", "discoverSmf", "up"}]
  /\ profiles \subseteq NFs
  /\ found \subseteq {"AMF-UDM", "AMF-SMF", "SMF-UPF"}
  /\ amf \in [pc : {"idle", "auth", "sdm", "smf"}, ue : Ues \cup {NoUe}]
  /\ (amf.pc # "idle") => amf.ue \in Ues /\ conn # "none"
  /\ call \in [st : {"none", "sent", "work", "ok", "closed"},
               rand : Rands, ip : Allocs]
  /\ (amf.pc = "idle") <=> (call.st = "none")
  /\ DOMAIN ctx \subseteq Ues /\ \A u \in DOMAIN ctx : ctx[u] \in ResStars
  /\ conn \in Gnbs \cup {"none"}
  /\ backlog \in Seq(Gnbs)
  /\ vectors \in Nat
  /\ smf \in [counter : Nat, starts : 0 .. MaxCrashes + 1]
  /\ n4 \in Seq([seid : {0}, seq : Nat])
  /\ sessions \in Seq([cp_seid : {0}, up_seid : Nat])
  /\ gnb \in [Gnbs -> [pc : {"off", "cmd", "challenge", "verdict", "pdu",
                             "gone"},
                       ue : Ues \cup {NoUe},
                       link : {"closed", "open", "broken"}]]
  /\ \A g \in Gnbs :
       gnb[g].pc \in {"challenge", "verdict", "pdu"} => gnb[g].ue \in Ues
  /\ up \in [Gnbs -> Seq(UpFrames)]
  /\ down \in [Gnbs -> Seq(DownFrames)]
  /\ pdus \subseteq [ue : Ues, ip : Allocs]
  /\ commands \in 0 .. MaxCommands /\ crashes \in 0 .. MaxCrashes

GnbOff == [pc |-> "off", ue |-> NoUe, link |-> "closed"]

Init ==
  /\ proc = [nf \in NFs |-> IF nf \in Running THEN "up" ELSE "down"]
  /\ profiles = IF "NRF" \in Running THEN Running \ {"NRF"} ELSE {}
  /\ found = {}
  /\ amf = AmfIdle /\ call = NoCall /\ ctx = << >>
  /\ conn = "none" /\ backlog = << >>
  /\ vectors = 0
  /\ smf = [counter |-> 2, starts |-> 0] /\ n4 = << >> /\ sessions = << >>
  /\ gnb = [g \in Gnbs |-> GnbOff]
  /\ up = [g \in Gnbs |-> << >>] /\ down = [g \in Gnbs |-> << >>]
  /\ pdus = {} /\ commands = 0 /\ crashes = 0
----------------------------------------------------------------------------
(* Starting up.  The UDM and the AMF open their listening socket first and *)
(* then go to the NRF; the SMF and the UPF open theirs last.  A connection *)
(* to a socket whose process has not come to accept() waits.               *)
FirstStep(nf) ==
  CASE nf = "NRF" -> "up"
    [] nf = "SMF" -> "discover"
    [] OTHER -> "register"

Start(nf) ==
  /\ proc[nf] = "down"
  /\ proc' = [proc EXCEPT ![nf] = FirstStep(nf)]
  /\ smf' = IF nf = "SMF" THEN [counter |-> 2, starts |-> smf.starts + 1]
            ELSE smf
  /\ UNCHANGED <<profiles, found, amfVars, vectors, n4, sessions, gnbVars,
                 commands, crashes>>

Listening(nf) ==
  \/ proc[nf] = "up"
  \/ nf \in {"UDM", "AMF"} /\ proc[nf] # "down"

AfterRegister(nf) == IF nf = "AMF" THEN "discover" ELSE "up"

(* nrfclient::registerSelf reaches the NRF, or gives up after ten tries. *)
registerSelf(nf) ==
  /\ proc[nf] = "register"
  /\ proc' = [proc EXCEPT ![nf] = AfterRegister(nf)]
  /\ \/ /\ proc["NRF"] = "up"
        /\ profiles' = profiles \cup {nf}
     \/ /\ proc["NRF"] = "down"
        /\ UNCHANGED profiles
  /\ UNCHANGED <<found, amfVars, vectors, smfVars, gnbVars, commands, crashes>>

(* nrfclient::discover, once for each peer: not found when the NRF cannot  *)
(* be reached or has no such type.                                         *)
DiscoverPeer(nf, target, key, then) ==
  /\ proc' = [proc EXCEPT ![nf] = then]
  /\ found' = IF proc["NRF"] = "up" /\ target \in profiles
              THEN found \cup {key} ELSE found \ {key}
  /\ UNCHANGED <<profiles, amfVars, vectors, smfVars, gnbVars, commands,
                 crashes>>

discover ==
  \/ /\ proc["AMF"] = "discover"
     /\ DiscoverPeer("AMF", "UDM", "AMF-UDM", "discoverSmf")
  \/ /\ proc["AMF"] = "discoverSmf"
     /\ DiscoverPeer("AMF", "SMF", "AMF-SMF", "up")
  \/ /\ proc["SMF"] = "discover"
     /\ DiscoverPeer("SMF", "UPF", "SMF-UPF", "register")

(* connectTo succeeds: the host is right and the peer listens. *)
Reachable(key, target) ==
  /\ key \in found \/ target \in DefaultFinds
  /\ Listening(target)
----------------------------------------------------------------------------
(* The AMF's process ends: killed, or by an exception nobody catches. *)
AmfEnds ==
  /\ proc' = [proc EXCEPT !["AMF"] = "down"]
  /\ amf' = AmfIdle /\ call' = NoCall /\ ctx' = << >>
  /\ conn' = "none" /\ backlog' = << >>
  /\ gnb' = [g \in Gnbs |->
               IF gnb[g].link = "open" THEN [gnb[g] EXCEPT !.link = "broken"]
               ELSE gnb[g]]
  /\ up' = [g \in Gnbs |-> << >>]
  /\ found' = found \ {"AMF-UDM", "AMF-SMF"}
  /\ UNCHANGED <<profiles, vectors, smfVars, down, pdus, commands>>

AmfAborts == AmfEnds /\ UNCHANGED crashes

(* Mutant: the AMF accepts gNBs from when it listens. *)
AcceptBeforeDiscovery ==
  /\ proc["AMF"] # "down" /\ conn = "none" /\ backlog # << >>
  /\ conn' = Head(backlog) /\ backlog' = Tail(backlog)
  /\ UNCHANGED <<nfVars, amf, call, ctx, vectors, smfVars, gnbVars, commands,
                 crashes>>

Accept ==
  /\ proc["AMF"] = "up" /\ conn = "none" /\ backlog # << >>
  /\ conn' = Head(backlog) /\ backlog' = Tail(backlog)
  /\ UNCHANGED <<nfVars, amf, call, ctx, vectors, smfVars, gnbVars, commands,
                 crashes>>

(* recvFrame fails: the gNB is gone.  ue_ctx keeps its UEs. *)
Disconnected ==
  /\ conn # "none" /\ amf.pc = "idle"
  /\ up[conn] = << >> /\ gnb[conn].link = "closed"
  /\ conn' = "none"
  /\ UNCHANGED <<nfVars, amf, call, ctx, backlog, vectors, smfVars, gnbVars,
                 commands, crashes>>

(* The AMF takes a frame of type t from the connection it serves. *)
Takes(t) ==
  /\ conn # "none" /\ amf.pc = "idle"
  /\ up[conn] # << >> /\ Head(up[conn]).type = t

Consume == up' = [up EXCEPT ![conn] = Tail(@)]

(* A frame for a gNB that is gone is lost. *)
sendToGnb(m) ==
  down' = IF gnb[conn].link = "open"
          THEN [down EXCEPT ![conn] = Append(@, m)] ELSE down

Request(step, u) ==
  /\ amf' = [pc |-> step, ue |-> u]
  /\ call' = [NoCall EXCEPT !.st = "sent"]

(* callUdm: nobody catches what connectTo throws. *)
callUdm(step, u) ==
  \/ /\ Reachable("AMF-UDM", "UDM")
     /\ Request(step, u) /\ Consume
     /\ UNCHANGED <<nfVars, ctx, conn, backlog, vectors, smfVars, gnb, down,
                    pdus, commands, crashes>>
  \/ /\ ~ Reachable("AMF-UDM", "UDM")
     /\ AmfAborts

handleRegistrationRequest ==
  /\ Takes("RegistrationRequest")
  /\ callUdm("auth", Head(up[conn]).ue)

(* The call is over: httpRecv's result is ignored, so a closed connection  *)
(* is an empty answer.                                                     *)
Answered(step) == amf.pc = step /\ call.st \in {"ok", "closed"}

CallDone(m) ==
  /\ amf' = AmfIdle /\ call' = NoCall
  /\ sendToGnb(m)
  /\ UNCHANGED <<nfVars, conn, backlog, vectors, smfVars, gnb, up, pdus,
                 commands, crashes>>

(* Mutant: std::map::emplace, which leaves the context of a UE that        *)
(* registers again as it is.                                               *)
EmplaceContext ==
  /\ Answered("auth")
  /\ ctx' = [u \in DOMAIN ctx \cup {amf.ue} |->
               IF u \in DOMAIN ctx THEN ctx[u]
               ELSE byteXor(call.rand, kFor(u))]
  /\ CallDone([N2Down("AuthenticationRequest", amf.ue) EXCEPT
                 !.rand = call.rand])

(* The rest of handleRegistrationRequest: the context, and the challenge.  *)
(* XRES* comes with RAND from the UDM.                                     *)
StoreContext ==
  /\ Answered("auth")
  /\ ctx' = [u \in DOMAIN ctx \cup {amf.ue} |->
               IF u = amf.ue THEN byteXor(call.rand, kFor(u)) ELSE ctx[u]]
  /\ CallDone([N2Down("AuthenticationRequest", amf.ue) EXCEPT
                 !.rand = call.rand])

handleAuthResponse ==
  /\ Takes("AuthenticationResponse")
  /\ LET m == Head(up[conn])
     IN  IF m.ue \in DOMAIN ctx /\ m.res = ctx[m.ue]
         THEN callUdm("sdm", m.ue)
         ELSE /\ Consume
              /\ IF m.ue \in DOMAIN ctx
                 THEN sendToGnb(N2Down("RegistrationReject", m.ue))
                 ELSE UNCHANGED down
              /\ UNCHANGED <<nfVars, amfVars, vectors, smfVars, gnb, pdus,
                             commands, crashes>>

(* The subscription data are only logged. *)
SendAccept ==
  /\ Answered("sdm")
  /\ CallDone(N2Down("RegistrationAccept", amf.ue))
  /\ UNCHANGED ctx

handleRegistrationComplete ==
  /\ Takes("RegistrationComplete")
  /\ Consume
  /\ UNCHANGED <<nfVars, amfVars, vectors, smfVars, gnb, down, pdus, commands,
                 crashes>>

PduAccept(u, a) == [N2Down("PduSessionAccept", u) EXCEPT !.ip = a]

(* callSmf catches the exception, and the AMF answers with an address of   *)
(* its own.                                                                *)
handlePduSessionRequest ==
  /\ Takes("PduSessionRequest")
  /\ Consume
  /\ LET u == Head(up[conn]).ue
     IN  \/ /\ Reachable("AMF-SMF", "SMF")
            /\ Request("smf", u)
            /\ UNCHANGED down
         \/ /\ ~ Reachable("AMF-SMF", "SMF")
            /\ sendToGnb(PduAccept(u, fallback))
            /\ UNCHANGED <<amf, call>>
  /\ UNCHANGED <<nfVars, ctx, conn, backlog, vectors, smfVars, gnb, pdus,
                 commands, crashes>>

(* Mutant: no answer to the gNB when the SMF gave none. *)
PduSessionOnlyIfCreated ==
  /\ Answered("smf")
  /\ IF call.st = "ok" THEN CallDone(PduAccept(amf.ue, call.ip))
     ELSE /\ amf' = AmfIdle /\ call' = NoCall
          /\ UNCHANGED <<nfVars, conn, backlog, vectors, smfVars, gnbVars,
                         commands, crashes>>
  /\ UNCHANGED ctx

SendPduSessionAccept ==
  /\ Answered("smf")
  /\ CallDone(PduAccept(amf.ue, IF call.st = "ok" THEN call.ip ELSE fallback))
  /\ UNCHANGED ctx
----------------------------------------------------------------------------
(* The UDM: handleAuthDataRequest draws a RAND; handleSdmRequest answers   *)
(* with subscription data.                                                 *)
UdmHandle ==
  /\ proc["UDM"] = "up" /\ call.st = "sent" /\ amf.pc \in {"auth", "sdm"}
  /\ LET drawn == IF amf.pc = "auth" THEN 1 ELSE 0
     IN  /\ vectors' = vectors + drawn
         /\ call' = [call EXCEPT !.st = "ok",
                       !.rand = IF drawn = 1 THEN <<vectors + 1>> ELSE << >>]
  /\ UNCHANGED <<nfVars, amf, ctx, conn, backlog, smfVars, gnbVars, commands,
                 crashes>>

(* Mutant: the counter is read here and advanced nowhere. *)
allocateWithoutAdvance(n) == n

allocateUeIp(n) == n + 1

(* The SMF takes an address and sends the N4 request; it does not wait for *)
(* the UPF.                                                                *)
SmfCreate ==
  /\ proc["SMF"] = "up" /\ call.st = "sent" /\ amf.pc = "smf"
  /\ call' = [call EXCEPT !.st = "work",
                !.ip = [by |-> smf.starts, n |-> smf.counter]]
  /\ smf' = [smf EXCEPT !.counter = allocateUeIp(@)]
  /\ n4' = Append(n4, buildSessionEstReq(smf.counter - 1))
  /\ UNCHANGED <<nfVars, amf, ctx, conn, backlog, vectors, sessions, gnbVars,
                 commands, crashes>>

SmfReply ==
  /\ proc["SMF"] = "up" /\ call.st = "work"
  /\ call' = [call EXCEPT !.st = "ok"]
  /\ UNCHANGED <<nfVars, amf, ctx, conn, backlog, vectors, smfVars, gnbVars,
                 commands, crashes>>

(* The datagram arrives at a UPF that has bound its port, or is lost. *)
UpfEstablish ==
  /\ n4 # << >>
  /\ proc["UPF"] = "up"
  /\ "SMF-UPF" \in found \/ "UPF" \in DefaultFinds
  /\ sessions' = Append(sessions, [cp_seid |-> Head(n4).seid,
                                   up_seid |-> Len(sessions) + 1])
  /\ n4' = Tail(n4)
  /\ UNCHANGED <<nfVars, amfVars, vectors, smf, gnbVars, commands, crashes>>

N4Lost ==
  /\ n4 # << >> /\ n4' = Tail(n4)
  /\ UNCHANGED <<nfVars, amfVars, vectors, smf, sessions, gnbVars, commands,
                 crashes>>
----------------------------------------------------------------------------
(* A process is killed.  A caller that waits for it sees the connection    *)
(* closed.                                                                 *)
HeldBy(nf) ==
  \/ nf = "UDM" /\ amf.pc \in {"auth", "sdm"} /\ call.st = "sent"
  \/ nf = "SMF" /\ amf.pc = "smf" /\ call.st \in {"sent", "work"}

Crash(nf) ==
  /\ proc[nf] # "down" /\ crashes < MaxCrashes
  /\ crashes' = crashes + 1
  /\ IF nf = "AMF" THEN AmfEnds
     ELSE /\ proc' = [proc EXCEPT ![nf] = "down"]
          /\ profiles' = IF nf = "NRF" THEN {} ELSE profiles
          /\ sessions' = IF nf = "UPF" THEN << >> ELSE sessions
          /\ call' = IF HeldBy(nf) THEN [NoCall EXCEPT !.st = "closed"]
                     ELSE call
          /\ found' = IF nf = "SMF" THEN found \ {"SMF-UPF"} ELSE found
          /\ UNCHANGED <<amf, ctx, conn, backlog, vectors, smf, n4,
                         gnbVars, commands>>
----------------------------------------------------------------------------
(* The gNB.  Its process exits at once when the AMF does not listen.  A    *)
(* gNB that starts again is another member of Gnbs.                        *)
GnbStart(g) ==
  /\ gnb[g].pc = "off" /\ Listening("AMF")
  /\ gnb' = [gnb EXCEPT ![g] = [pc |-> "cmd", ue |-> NoUe, link |-> "open"]]
  /\ backlog' = Append(backlog, g)
  /\ UNCHANGED <<nfVars, amf, call, ctx, conn, vectors, smfVars, up, down,
                 pdus, commands, crashes>>

(* sendFrame: nothing arrives over a broken connection. *)
Send(g, m) ==
  up' = IF gnb[g].link = "open" THEN [up EXCEPT ![g] = Append(@, m)] ELSE up

doCommand(g, u, step, t) ==
  /\ gnb[g].pc = "cmd" /\ commands < MaxCommands
  /\ commands' = commands + 1
  /\ gnb' = [gnb EXCEPT ![g].pc = step, ![g].ue = u]
  /\ Send(g, N2Up(t, u, << >>))
  /\ UNCHANGED <<nfVars, amfVars, vectors, smfVars, down, pdus, crashes>>

doRegistration(g, u) == doCommand(g, u, "challenge", "RegistrationRequest")
doPduSession(g, u)   == doCommand(g, u, "pdu", "PduSessionRequest")

Waiting(g) == gnb[g].pc \in {"challenge", "verdict", "pdu"}

(* recvFrame returned a frame. *)
Received(g, step) == gnb[g].pc = step /\ down[g] # << >>

(* Mutant: every frame ends the command. *)
TakeDownForgets(g, next) ==
  /\ down' = [down EXCEPT ![g] = Tail(@)]
  /\ gnb' = [gnb EXCEPT ![g].pc = next, ![g].ue = NoUe]
  /\ UNCHANGED <<nfVars, amfVars, vectors, smfVars, commands, crashes>>

TakeDown(g, next) ==
  /\ down' = [down EXCEPT ![g] = Tail(@)]
  /\ gnb' = [gnb EXCEPT ![g].pc = next,
                       ![g].ue = IF next = "cmd" THEN NoUe ELSE @]
  /\ UNCHANGED <<nfVars, amfVars, vectors, smfVars, commands, crashes>>

AnswerChallenge(g) ==
  /\ Received(g, "challenge")
  /\ LET m == Head(down[g])
     IN  IF m.type = "AuthenticationRequest"
         THEN /\ TakeDown(g, "verdict")
              /\ Send(g, N2Up("AuthenticationResponse", gnb[g].ue,
                              byteXor(m.rand, kFor(gnb[g].ue))))
         ELSE TakeDown(g, "cmd") /\ UNCHANGED up
  /\ UNCHANGED pdus

TakeVerdict(g) ==
  /\ Received(g, "verdict")
  /\ TakeDown(g, "cmd")
  /\ IF Head(down[g]).type = "RegistrationAccept"
     THEN Send(g, N2Up("RegistrationComplete", gnb[g].ue, << >>))
     ELSE UNCHANGED up
  /\ UNCHANGED pdus

TakePduAccept(g) ==
  /\ Received(g, "pdu")
  /\ TakeDown(g, "cmd")
  /\ pdus' = IF Head(down[g]).type = "PduSessionAccept"
             THEN pdus \cup {[ue |-> gnb[g].ue,
                              ip |-> Head(down[g]).ip]}
             ELSE pdus
  /\ UNCHANGED up

(* "AMF closed connection": the command ends and the gNB goes on without   *)
(* an AMF.                                                                 *)
AmfClosed(g) ==
  /\ Waiting(g) /\ down[g] = << >> /\ gnb[g].link = "broken"
  /\ gnb' = [gnb EXCEPT ![g].pc = "cmd", ![g].ue = NoUe]
  /\ UNCHANGED <<nfVars, amfVars, vectors, smfVars, up, down, pdus, commands,
                 crashes>>

GnbEnds(g) ==
  /\ gnb' = [gnb EXCEPT ![g] = [GnbOff EXCEPT !.pc = "gone"]]
  /\ down' = [down EXCEPT ![g] = << >>]
  /\ UNCHANGED <<nfVars, amfVars, vectors, smfVars, up, pdus, commands>>

Quit(g) == gnb[g].pc = "cmd" /\ GnbEnds(g) /\ UNCHANGED crashes

(* SIGPIPE is not ignored: a second send over a broken connection ends the *)
(* process.                                                                *)
SigPipe(g) ==
  /\ Waiting(g) /\ gnb[g].link = "broken"
  /\ GnbEnds(g) /\ UNCHANGED crashes

GnbKilled(g) ==
  /\ gnb[g].pc \notin {"off", "gone"} /\ crashes < MaxCrashes
  /\ GnbEnds(g) /\ crashes' = crashes + 1
----------------------------------------------------------------------------
AmfStep ==
  \/ Accept \/ Disconnected
  \/ handleRegistrationRequest \/ StoreContext
  \/ handleAuthResponse \/ SendAccept
  \/ handleRegistrationComplete
  \/ handlePduSessionRequest \/ SendPduSessionAccept

GnbStep(g) ==
  AnswerChallenge(g) \/ TakeVerdict(g) \/ TakePduAccept(g) \/ AmfClosed(g)

Next ==
  \/ \E nf \in NFs : Start(nf) \/ registerSelf(nf) \/ Crash(nf)
  \/ discover
  \/ AmfStep
  \/ UdmHandle \/ SmfCreate \/ SmfReply \/ UpfEstablish \/ N4Lost
  \/ \E g \in Gnbs :
       \/ GnbStart(g) \/ GnbStep(g) \/ Quit(g) \/ SigPipe(g) \/ GnbKilled(g)
       \/ \E u \in Ues : doRegistration(g, u) \/ doPduSession(g, u)

Spec == Init /\ [][Next]_vars

(* A process that can take its next step does.  Nobody has to start or     *)
(* kill a process or to type a command.                                    *)
FairSpec ==
  /\ Spec
  /\ \A nf \in NFs : WF_vars(registerSelf(nf))
  /\ WF_vars(discover) /\ WF_vars(AmfStep)
  /\ WF_vars(UdmHandle) /\ WF_vars(SmfCreate) /\ WF_vars(SmfReply)
  /\ \A g \in Gnbs : WF_vars(GnbStep(g))
----------------------------------------------------------------------------
(* The verdict of a registration is the right one.  A UE that holds its    *)
(* key is never told that authentication failed (amf_main.cpp:230),        *)
(* whatever was restarted, and however often and through whichever gNB it  *)
(* registers: the XRES* the AMF compares with belongs to the RAND the gNB  *)
(* answered.  And a UE is accepted after a challenge of the UDM, except    *)
(* when a process was killed: callUdm ignores httpRecv's result, and two   *)
(* empty strings are equal (amf_main.cpp:74).                              *)
VerdictsRight ==
  \A g \in Gnbs : \A i \in DOMAIN down[g] :
    LET m == down[g][i]
    IN  /\ m.type # "RegistrationReject"
        /\ (m.type = "RegistrationAccept" /\ gnb[g].link = "open")
              => (ctx[m.ue] # << >> \/ crashes > 0)

(* Two PDU sessions share a UE address only in three ways: the AMF made    *)
(* one up (amf_main.cpp:310), the SMF was restarted and counts from 2      *)
(* again, or the SMF went once round its pool (smf_main.cpp:74).           *)
SharedAddressExplained ==
  \A s, t \in pdus :
    s # t /\ ueIpAddress(s.ip) = ueIpAddress(t.ip) =>
      \/ 0 \in {s.ip.by, t.ip.by}
      \/ s.ip.by # t.ip.by
      \/ s.ip.n - t.ip.n >= PoolSize \/ t.ip.n - s.ip.n >= PoolSize

(* callUdm lets the AMF die of an exception when it does not reach the     *)
(* UDM (amf_main.cpp:68), and every gNB loses its AMF with it.  Unless a   *)
(* process is killed that never happens, where the UDM runs from the start *)
(* and is known to the NRF or at the AMF's default host: in whatever order *)
(* AMF, SMF and gNBs are started, and although the AMF listens before it   *)
(* has asked the NRF, no registration comes to callUdm before the AMF      *)
(* knows where the UDM is.                                                 *)
AmfKeptWithoutKill ==
  /\ crashes = 0
  /\ "UDM" \in Running
  /\ "NRF" \in Running \/ "UDM" \in DefaultFinds
  => \A g \in Gnbs : gnb[g].link # "broken"

(* The gNB the AMF serves, or will accept next. *)
FirstInLine(g) ==
  conn = g \/ (conn = "none" /\ backlog # << >> /\ Head(backlog) = g)

(* A command of the gNB that is first in line at the AMF ends: with an     *)
(* answer, with "AMF closed connection" or with the gNB's process,         *)
(* whichever peers die meanwhile and never come back.                      *)
CommandEnds ==
  \A g \in Gnbs : (Waiting(g) /\ FirstInLine(g)) ~> ~ Waiting(g)
=============================================================================
