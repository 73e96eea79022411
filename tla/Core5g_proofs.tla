---------------------------- MODULE Core5g_proofs ----------------------------
(***************************************************************************)
(* Proofs about the 5G core, for any number of gNBs, UEs, commands and     *)
(* killed processes and any pool size.                                     *)
(*                                                                         *)
(* The argument has four parts.  Types: every value is in its range, and  *)
(* the SMF has been started at most once more than processes were killed.  *)
(* FlowInv: a gNB over an open connection has one procedure under way, in  *)
(* one place (a request, the AMF's call, or an answer), the challenge in   *)
(* flight belongs to the context the AMF stored, and what a gNB leaves     *)
(* behind when it goes is at most a response that matches.  AllocInv: an   *)
(* address the SMF gave out in one of its lives is with one holder.        *)
(* KeptInv: until a process is killed the AMF knows where the UDM is       *)
(* before it serves a gNB.                                                 *)
(***************************************************************************)
EXTENDS Core5g, SequenceTheorems, TLAPS

(* The SMF has been started once more than it was killed, at most. *)
StartsOK == smf.starts <= crashes + IF proc["SMF"] = "down" THEN 0 ELSE 1
----------------------------------------------------------------------------
GnbRec == [pc : {"off", "cmd", "challenge", "verdict", "pdu", "gone"},
           ue : Ues \cup {NoUe}, link : {"closed", "open", "broken"}]
CallRec == [st : {"none", "sent", "work", "ok", "closed"}, rand : Rands, ip : Allocs]
N4Rec == [seid : {0}, seq : Nat]
UpfRec == [cp_seid : {0}, up_seid : Nat]
AmfRec == [pc : {"idle", "auth", "sdm", "smf"}, ue : Ues \cup {NoUe}]

WaitsForUe(r) == r.pc \in {"challenge", "verdict", "pdu"} => r.ue \in Ues

NfType  == /\ proc \in [NFs -> {"down", "discover", "register", "discoverSmf", "up"}]
           /\ profiles \subseteq NFs
           /\ found \subseteq {"AMF-UDM", "AMF-SMF", "SMF-UPF"}
AmfType == /\ amf \in AmfRec /\ call \in CallRec
           /\ (amf.pc # "idle") => amf.ue \in Ues /\ conn # "none"
           /\ (amf.pc = "idle") <=> (call.st = "none")
           /\ DOMAIN ctx \subseteq Ues /\ \A u \in DOMAIN ctx : ctx[u] \in ResStars
           /\ conn \in Gnbs \cup {"none"}
           /\ backlog \in Seq(Gnbs)
SmfType == /\ smf \in [counter : Nat, starts : 0 .. MaxCrashes + 1]
           /\ n4 \in Seq(N4Rec)
           /\ sessions \in Seq(UpfRec)
           /\ smf.counter >= 1
GnbType == /\ gnb \in [Gnbs -> GnbRec]
           /\ \A g \in Gnbs : WaitsForUe(gnb[g])
           /\ up \in [Gnbs -> Seq(UpFrames)]
           /\ down \in [Gnbs -> Seq(DownFrames)]
           /\ pdus \subseteq [ue : Ues, ip : Allocs]
CountType == vectors \in Nat /\ commands \in 0 .. MaxCommands /\ crashes \in 0 .. MaxCrashes

Types == NfType /\ AmfType /\ SmfType /\ GnbType /\ CountType /\ StartsOK

(* The parts together are the type invariant. *)
LEMMA TypesAreTypeOK == Types => TypeOK
  BY DEF Types, NfType, AmfType, SmfType, GnbType, CountType, TypeOK, WaitsForUe, GnbRec,
         CallRec, AmfRec, N4Rec, UpfRec

(* The addresses that the SMF did not give out. *)
LEMMA AllocTyped ==
  /\ NoAlloc \in Allocs /\ NoAlloc.by = 0 /\ fallback \in Allocs /\ fallback.by = 0
  BY Core5gAssumption DEF NoAlloc, fallback, Allocs

(* A call that was just sent, or closed, carries no address. *)
LEMMA NoCallTyped ==
  ASSUME NEW s \in {"none", "sent", "closed"}
  PROVE  /\ [NoCall EXCEPT !.st = s] \in CallRec /\ [NoCall EXCEPT !.st = s].st = s
         /\ [NoCall EXCEPT !.st = s].ip = NoAlloc
         /\ NoCall \in CallRec /\ NoCall.st = "none" /\ NoCall.ip = NoAlloc
<1>1. << >> \in Rands
  BY DEF Rands
<1> QED BY <1>1, AllocTyped DEF NoCall, CallRec

(* byteXor yields a RES*, empty only for an empty RAND. *)
LEMMA ByteXorTyped ==
  ASSUME NEW r \in Rands, NEW u
  PROVE  byteXor(r, kFor(u)) \in ResStars /\ (r # << >> => byteXor(r, kFor(u)) # << >>)
<1>1. fromHex(kFor(u)) = "00..ee"
  BY DEF fromHex, kFor
<1>2. CASE r = << >>
  BY <1>2 DEF byteXor, ResStars
<1>3. CASE r # << >>
  <2>1. r[1] \in Nat
    BY <1>3 DEF Rands
  <2> QED BY <1>1, <1>3, <2>1 DEF byteXor, ResStars
<1> QED BY <1>2, <1>3

(* The N2 frames and their fields, *)
LEMMA FramesTyped ==
  /\ \A t \in {"RegistrationRequest", "AuthenticationResponse", "RegistrationComplete",
               "PduSessionRequest"} : \A u \in Ues : \A r \in ResStars :
       /\ N2Up(t, u, r) \in UpFrames /\ N2Up(t, u, r).type = t /\ N2Up(t, u, r).ue = u
       /\ N2Up(t, u, r).res = r
  /\ \A t \in {"AuthenticationRequest", "RegistrationReject", "RegistrationAccept",
               "PduSessionAccept"} : \A u \in Ues :
       /\ N2Down(t, u) \in DownFrames /\ N2Down(t, u).type = t /\ N2Down(t, u).ue = u
       /\ N2Down(t, u).ip = NoAlloc
  BY AllocTyped DEF N2Up, N2Down, UpFrames, DownFrames, Rands

(* of a challenge, *)
LEMMA ChallengeTyped ==
  ASSUME NEW u \in Ues, NEW r \in Rands
  PROVE  LET m == [N2Down("AuthenticationRequest", u) EXCEPT !.rand = r]
         IN  /\ m \in DownFrames /\ m.type = "AuthenticationRequest" /\ m.ue = u
             /\ m.rand = r /\ m.ip = NoAlloc
  BY FramesTyped DEF N2Down, DownFrames

(* and of a session accept. *)
LEMMA PduAcceptTyped ==
  ASSUME NEW u \in Ues, NEW a \in Allocs
  PROVE  /\ PduAccept(u, a) \in DownFrames /\ PduAccept(u, a).type = "PduSessionAccept"
         /\ PduAccept(u, a).ue = u /\ PduAccept(u, a).ip = a
  BY FramesTyped DEF PduAccept, N2Down, DownFrames
----------------------------------------------------------------------------
(* Start: the SMF is started at most once more than it was killed. *)
LEMMA StartTypes ==
  ASSUME Types, NEW nf \in NFs, Start(nf)
  PROVE  Types'
<1>1. NfType'
  BY DEF Types, NfType, Start, FirstStep
<1>2. StartsOK'
  <2>1. /\ smf.starts \in Nat /\ crashes \in Nat /\ crashes' = crashes
        /\ proc \in [NFs -> {"down", "discover", "register", "discoverSmf", "up"}]
    BY DEF Types, SmfType, CountType, Start, NfType
  <2>2. CASE nf = "SMF"
    <3>1. proc["SMF"] = "down" /\ proc'["SMF"] = "discover" /\ smf'.starts = smf.starts + 1
      BY <2>1, <2>2 DEF Start, FirstStep
    <3> QED BY <2>1, <3>1 DEF StartsOK, Types
  <2>3. CASE nf # "SMF"
    <3>1. proc'["SMF"] = proc["SMF"] /\ smf' = smf
      BY <2>1, <2>3 DEF Start
    <3> QED BY <2>1, <3>1 DEF StartsOK, Types
  <2> QED BY <2>2, <2>3
<1>3. SmfType'
  <2>1. smf.starts \in 0 .. MaxCrashes + 1 /\ crashes \in 0 .. MaxCrashes /\ MaxCrashes \in Nat
    BY Core5gAssumption DEF Types, SmfType, CountType
  <2>2. nf = "SMF" => smf.starts <= crashes
    BY <2>1 DEF Types, StartsOK, Start
  <2>3. smf' \in [counter : Nat, starts : 0 .. MaxCrashes + 1] /\ smf'.counter >= 1
    <3>1. CASE nf = "SMF"
      <4>1. smf' = [counter |-> 2, starts |-> smf.starts + 1]
        BY <3>1 DEF Start
      <4>2. smf.starts + 1 \in 0 .. MaxCrashes + 1
        BY <2>1, <2>2, <3>1
      <4> QED BY <4>1, <4>2
    <3>2. CASE nf # "SMF"
      BY <3>2 DEF Start, Types, SmfType
    <3> QED BY <3>1, <3>2
  <2> QED BY <2>3 DEF Types, SmfType, Start
<1>4. AmfType' /\ GnbType' /\ CountType'
  BY DEF Types, AmfType, GnbType, CountType, Start, amfVars, gnbVars
<1> QED BY <1>1, <1>2, <1>3, <1>4 DEF Types

(* registerSelf and discover. *)
LEMMA NrfTypes ==
  ASSUME Types, (\E nf \in NFs : registerSelf(nf)) \/ discover
  PROVE  Types'
<1>1. NfType' /\ (proc'["SMF"] = "down" <=> proc["SMF"] = "down")
  <2>1. ASSUME NEW nf \in NFs, registerSelf(nf)
        PROVE  NfType' /\ (proc'["SMF"] = "down" <=> proc["SMF"] = "down")
    BY <2>1 DEF Types, NfType, registerSelf, AfterRegister, NFs
  <2>2. CASE discover
    <3>1. \E nf \in {"AMF", "SMF"}, t \in {"UDM", "SMF", "UPF"},
            k \in {"AMF-UDM", "AMF-SMF", "SMF-UPF"}, s \in {"discoverSmf", "up", "register"} :
            proc[nf] # "down" /\ DiscoverPeer(nf, t, k, s)
      BY <2>2 DEF discover
    <3> QED BY <3>1 DEF Types, NfType, DiscoverPeer, NFs
  <2> QED BY <2>1, <2>2
<1>2. UNCHANGED <<amf, call, ctx, conn, backlog, vectors, smf, n4, sessions, gnb, up, down, pdus,
                  commands, crashes>>
  BY DEF registerSelf, discover, DiscoverPeer, amfVars, smfVars, gnbVars
<1>3. AmfType' /\ SmfType' /\ GnbType' /\ CountType'
  BY <1>2 DEF Types, AmfType, SmfType, GnbType, CountType
<1>4. StartsOK'
  BY <1>1, <1>2 DEF Types, StartsOK
<1> QED BY <1>1, <1>3, <1>4 DEF Types

(* The AMF's process ends. *)
LEMMA AmfEndsTypes ==
  ASSUME Types, AmfEnds, crashes' \in 0 .. MaxCrashes, crashes' >= crashes
  PROVE  Types'
<1>1. NfType' /\ proc'["SMF"] = proc["SMF"]
  BY DEF Types, NfType, AmfEnds, NFs
<1>2. AmfType'
  BY NoCallTyped DEF AmfType, AmfEnds, AmfIdle, AmfRec
<1>3. GnbType'
  <2>1. gnb' \in [Gnbs -> GnbRec] /\ \A g \in Gnbs : WaitsForUe(gnb'[g])
    <3>1. \A g \in Gnbs : gnb[g] \in GnbRec /\ WaitsForUe(gnb[g])
      BY DEF Types, GnbType
    <3>2. \A r \in GnbRec : /\ [r EXCEPT !.link = "broken"] \in GnbRec
                            /\ WaitsForUe(r) => WaitsForUe([r EXCEPT !.link = "broken"])
      BY DEF GnbRec, WaitsForUe
    <3> QED BY <3>1, <3>2 DEF AmfEnds
  <2>2. up' \in [Gnbs -> Seq(UpFrames)]
    BY DEF AmfEnds
  <2> QED BY <2>1, <2>2 DEF Types, GnbType, AmfEnds, WaitsForUe
<1>4. SmfType' /\ CountType'
  BY DEF Types, SmfType, CountType, AmfEnds, smfVars
<1>5. StartsOK'
  <2>1. crashes \in Nat /\ crashes' \in Nat /\ smf.starts \in Nat /\ smf' = smf
    BY Core5gAssumption DEF Types, SmfType, CountType, AmfEnds, smfVars
  <2> QED BY <1>1, <2>1 DEF Types, StartsOK
<1> QED BY <1>1, <1>2, <1>3, <1>4, <1>5 DEF Types

(* Any process is killed. *)
LEMMA CrashTypes ==
  ASSUME Types, NEW nf \in NFs, Crash(nf)
  PROVE  Types'
<1>1. crashes \in Nat /\ crashes' = crashes + 1 /\ crashes' \in 0 .. MaxCrashes
  BY Core5gAssumption DEF Types, CountType, Crash
<1>2. CASE nf = "AMF"
  BY <1>1, <1>2, AmfEndsTypes DEF Crash
<1>3. CASE nf # "AMF"
  <2>1. /\ NfType' /\ (nf # "SMF" => proc'["SMF"] = proc["SMF"])
        /\ nf = "SMF" => proc'["SMF"] = "down"
    BY <1>3 DEF Types, NfType, Crash, NFs
  <2>2. AmfType'
    <3>1. call' = call \/ (HeldBy(nf) /\ call' = [NoCall EXCEPT !.st = "closed"])
      BY <1>3 DEF Crash
    <3>2. call' \in CallRec /\ (call'.st = "none" <=> call.st = "none")
      BY <3>1, NoCallTyped DEF Types, AmfType, HeldBy
    <3>3. UNCHANGED <<amf, ctx, conn, backlog>>
      BY <1>3 DEF Crash
    <3> QED BY <3>2, <3>3 DEF Types, AmfType
  <2>3. SmfType'
    <3>1. UNCHANGED <<smf, n4>> /\ (sessions' = sessions \/ sessions' = << >>)
      BY <1>3 DEF Crash
    <3>2. << >> \in Seq(UpfRec)
      BY EmptySeq
    <3> QED BY <3>1, <3>2 DEF Types, SmfType
  <2>4. GnbType' /\ CountType'
    BY <1>1, <1>3 DEF Types, GnbType, CountType, Crash, gnbVars
  <2>5. StartsOK'
    <3>1. smf.starts \in Nat /\ smf' = smf
      BY <1>3, Core5gAssumption DEF Types, SmfType, Crash
    <3> QED BY <1>1, <2>1, <3>1 DEF Types, StartsOK
  <2> QED BY <2>1, <2>2, <2>3, <2>4, <2>5 DEF Types
<1> QED BY <1>2, <1>3

(* Accept and Disconnected. *)
LEMMA ListenTypes ==
  ASSUME Types, Accept \/ Disconnected
  PROVE  Types'
<1>1. UNCHANGED <<proc, profiles, found, amf, call, ctx, vectors, smf, n4, sessions, gnb, up, down,
                  pdus, commands, crashes>>
  BY DEF Accept, Disconnected, nfVars, smfVars, gnbVars
<1>2. NfType' /\ SmfType' /\ GnbType' /\ CountType' /\ StartsOK'
  BY <1>1 DEF Types, NfType, SmfType, GnbType, CountType, StartsOK
<1>3. AmfType'
  <2>1. amf.pc = "idle"
    BY DEF Types, AmfType, Accept, Disconnected
  <2>2. conn' \in Gnbs \cup {"none"} /\ backlog' \in Seq(Gnbs)
    <3>1. backlog \in Seq(Gnbs) /\ conn \in Gnbs \cup {"none"}
      BY DEF Types, AmfType
    <3>2. backlog # << >> => Head(backlog) \in Gnbs /\ Tail(backlog) \in Seq(Gnbs)
      BY <3>1
    <3> QED BY <3>1, <3>2 DEF Accept, Disconnected
  <2> QED BY <1>1, <2>1, <2>2 DEF Types, AmfType
<1> QED BY <1>2, <1>3 DEF Types

(* The frame at the head of the connection the AMF serves. *)
LEMMA TakesTyped ==
  ASSUME Types, NEW t, Takes(t)
  PROVE  /\ conn \in Gnbs /\ up[conn] \in Seq(UpFrames) /\ up[conn] # << >>
         /\ Head(up[conn]) \in UpFrames /\ Head(up[conn]).ue \in Ues
         /\ Head(up[conn]).res \in ResStars /\ Tail(up[conn]) \in Seq(UpFrames)
         /\ amf.pc = "idle" /\ call.st = "none"
<1>1. conn \in Gnbs /\ up \in [Gnbs -> Seq(UpFrames)] /\ up[conn] # << >>
  BY DEF Types, AmfType, GnbType, Takes
<1>2. Head(up[conn]) \in UpFrames /\ Tail(up[conn]) \in Seq(UpFrames)
  BY <1>1
<1> QED BY <1>1, <1>2 DEF UpFrames, Types, AmfType, Takes

(* recvFrame takes that frame off the connection. *)
LEMMA ConsumeTyped ==
  ASSUME Types, NEW t, Takes(t), Consume
  PROVE  /\ up' \in [Gnbs -> Seq(UpFrames)] /\ up'[conn] = Tail(up[conn])
         /\ \A h \in Gnbs \ {conn} : up'[h] = up[h]
<1>1. up \in [Gnbs -> Seq(UpFrames)]
  BY DEF Types, GnbType
<1> QED BY <1>1, TakesTyped DEF Consume

(* sendToGnb appends to one gNB's frames, if it is still there. *)
LEMMA SendToGnbTyped ==
  ASSUME Types, conn \in Gnbs, NEW m \in DownFrames, sendToGnb(m)
  PROVE  /\ down' \in [Gnbs -> Seq(DownFrames)]
         /\ down'[conn] = IF gnb[conn].link = "open" THEN Append(down[conn], m) ELSE down[conn]
         /\ \A h \in Gnbs \ {conn} : down'[h] = down[h]
<1>1. down \in [Gnbs -> Seq(DownFrames)]
  BY DEF Types, GnbType
<1>2. Append(down[conn], m) \in Seq(DownFrames)
  BY <1>1
<1> QED BY <1>1, <1>2 DEF sendToGnb

(* A request begins a call. *)
LEMMA RequestTyped ==
  ASSUME NEW s \in {"auth", "sdm", "smf"}, NEW u \in Ues, Request(s, u)
  PROVE  /\ amf' \in AmfRec /\ amf'.pc = s /\ amf'.ue = u
         /\ call' \in CallRec /\ call'.st = "sent" /\ call'.ip = NoAlloc
  BY NoCallTyped DEF Request, AmfRec

(* callUdm, with a UDM or without. *)
LEMMA CallUdmTypes ==
  ASSUME Types, NEW t, Takes(t), NEW s \in {"auth", "sdm"}, NEW u \in Ues, callUdm(s, u)
  PROVE  Types'
<1>1. CASE AmfAborts
  BY <1>1, AmfEndsTypes, Core5gAssumption DEF AmfAborts, Types, CountType
<1>2. CASE /\ Request(s, u) /\ Consume
           /\ UNCHANGED <<nfVars, ctx, conn, backlog, vectors, smfVars, gnb, down, pdus, commands,
                          crashes>>
  <2>1. NfType' /\ SmfType' /\ CountType' /\ StartsOK'
    BY <1>2 DEF Types, NfType, SmfType, CountType, StartsOK, nfVars, smfVars
  <2>2. GnbType'
    BY <1>2, ConsumeTyped DEF Types, GnbType
  <2>3. AmfType'
    BY <1>2, RequestTyped DEF Types, AmfType, Takes
  <2> QED BY <2>1, <2>2, <2>3 DEF Types
<1> QED BY <1>1, <1>2 DEF callUdm

(* The end of a call. *)
LEMMA CallDoneTypes ==
  ASSUME Types, amf.pc # "idle", NEW m \in DownFrames, CallDone(m),
         DOMAIN ctx' \subseteq Ues, \A u \in DOMAIN ctx' : ctx'[u] \in ResStars
  PROVE  Types'
<1>1. NfType' /\ SmfType' /\ CountType' /\ StartsOK'
  BY DEF CallDone, Types, NfType, SmfType, CountType, StartsOK, nfVars, smfVars
<1>2. conn \in Gnbs
  BY DEF Types, AmfType
<1>3. GnbType'
  BY <1>2, SendToGnbTyped DEF CallDone, Types, GnbType
<1>4. AmfType'
  BY NoCallTyped DEF CallDone, Types, AmfType, AmfIdle, AmfRec
<1> QED BY <1>1, <1>3, <1>4 DEF Types

(* Every step of the AMF. *)
LEMMA AmfTypes ==
  ASSUME Types, AmfStep
  PROVE  Types'
<1>1. CASE Accept \/ Disconnected
  BY <1>1, ListenTypes
<1>2. CASE handleRegistrationRequest
  BY <1>2, TakesTyped, CallUdmTypes DEF handleRegistrationRequest
<1>3. CASE StoreContext
  <2>1. amf.ue \in Ues /\ call.rand \in Rands /\ amf.pc # "idle"
    BY <1>3 DEF StoreContext, Answered, Types, AmfType, CallRec
  <2>2. byteXor(call.rand, kFor(amf.ue)) \in ResStars
    BY <2>1, ByteXorTyped
  <2>3. DOMAIN ctx' \subseteq Ues /\ \A u \in DOMAIN ctx' : ctx'[u] \in ResStars
    BY <1>3, <2>1, <2>2 DEF StoreContext, Types, AmfType
  <2> QED BY <1>3, <2>1, <2>3, ChallengeTyped, CallDoneTypes DEF StoreContext
<1>4. CASE handleAuthResponse
  <2> DEFINE m == Head(up[conn])
  <2>1. m.ue \in Ues /\ conn \in Gnbs
    BY <1>4, TakesTyped DEF handleAuthResponse
  <2>2. CASE callUdm("sdm", m.ue)
    BY <1>4, <2>1, <2>2, CallUdmTypes DEF handleAuthResponse
  <2>3. CASE /\ Consume /\ (sendToGnb(N2Down("RegistrationReject", m.ue)) \/ UNCHANGED down)
             /\ UNCHANGED <<nfVars, amfVars, vectors, smfVars, gnb, pdus, commands, crashes>>
    <3>1. down' \in [Gnbs -> Seq(DownFrames)]
      <4>1. N2Down("RegistrationReject", m.ue) \in DownFrames
        BY <2>1, FramesTyped
      <4> QED BY <2>1, <2>3, <4>1, SendToGnbTyped DEF Types, GnbType
    <3>2. up' \in [Gnbs -> Seq(UpFrames)]
      BY <1>4, <2>3, ConsumeTyped DEF handleAuthResponse
    <3>3. GnbType'
      BY <2>3, <3>1, <3>2 DEF Types, GnbType
    <3> QED BY <2>3, <3>3 DEF Types, NfType, SmfType, AmfType, CountType, StartsOK, nfVars,
                              smfVars, amfVars
  <2> QED BY <1>4, <2>2, <2>3 DEF handleAuthResponse
<1>5. CASE SendAccept
  <2>1. amf.ue \in Ues /\ amf.pc # "idle"
    BY <1>5 DEF SendAccept, Answered, Types, AmfType
  <2>2. DOMAIN ctx' \subseteq Ues /\ \A u \in DOMAIN ctx' : ctx'[u] \in ResStars
    BY <1>5 DEF SendAccept, Types, AmfType
  <2> QED BY <1>5, <2>1, <2>2, FramesTyped, CallDoneTypes DEF SendAccept
<1>6. CASE handleRegistrationComplete
  <2>1. GnbType'
    BY <1>6, ConsumeTyped DEF handleRegistrationComplete, Types, GnbType
  <2> QED BY <1>6, <2>1 DEF handleRegistrationComplete, Types, NfType, SmfType, AmfType,
                            CountType, StartsOK, nfVars, smfVars, amfVars
<1>7. CASE handlePduSessionRequest
  <2> DEFINE u == Head(up[conn]).ue
  <2>1. u \in Ues /\ conn \in Gnbs /\ conn # "none"
    BY <1>7, TakesTyped DEF handlePduSessionRequest, Takes
  <2>2. PduAccept(u, fallback) \in DownFrames
    BY <2>1, AllocTyped, PduAcceptTyped
  <2>3. \/ Request("smf", u) /\ UNCHANGED down
        \/ sendToGnb(PduAccept(u, fallback)) /\ UNCHANGED <<amf, call>>
    BY <1>7 DEF handlePduSessionRequest
  <2>4. down' \in [Gnbs -> Seq(DownFrames)]
    BY <2>1, <2>2, <2>3, SendToGnbTyped DEF Types, GnbType
  <2>5. AmfType'
    BY <1>7, <2>1, <2>3, RequestTyped DEF handlePduSessionRequest, Types, AmfType
  <2>6. GnbType'
    BY <1>7, <2>4, ConsumeTyped DEF handlePduSessionRequest, Types, GnbType
  <2> QED BY <1>7, <2>5, <2>6 DEF handlePduSessionRequest, Types, NfType, SmfType,
                                  CountType, StartsOK, nfVars, smfVars
<1>8. CASE SendPduSessionAccept
  <2>1. amf.ue \in Ues /\ amf.pc # "idle" /\ call.ip \in Allocs
    BY <1>8 DEF SendPduSessionAccept, Answered, Types, AmfType, CallRec
  <2>2. DOMAIN ctx' \subseteq Ues /\ \A u \in DOMAIN ctx' : ctx'[u] \in ResStars
    BY <1>8 DEF SendPduSessionAccept, Types, AmfType
  <2> QED BY <1>8, <2>1, <2>2, AllocTyped, PduAcceptTyped, CallDoneTypes
          DEF SendPduSessionAccept
<1> QED BY <1>1, <1>2, <1>3, <1>4, <1>5, <1>6, <1>7, <1>8 DEF AmfStep

(* The UDM, the SMF and the UPF. *)
LEMMA CoreTypes ==
  ASSUME Types, UdmHandle \/ SmfCreate \/ SmfReply \/ UpfEstablish \/ N4Lost
  PROVE  Types'
<1>1. CASE UdmHandle
  <2> DEFINE r == IF amf.pc = "auth" THEN <<vectors + 1>> ELSE << >>
  <2>1. vectors \in Nat /\ vectors' \in Nat /\ call \in CallRec /\ call.st = "sent"
    BY <1>1 DEF UdmHandle, Types, CountType, AmfType
  <2>2. r \in Rands
    BY <2>1 DEF Rands
  <2>3. call' = [call EXCEPT !.st = "ok", !.rand = r]
    <3>1. CASE amf.pc = "auth"
      BY <1>1, <3>1 DEF UdmHandle
    <3>2. CASE amf.pc # "auth"
      BY <1>1, <3>2 DEF UdmHandle
    <3> QED BY <3>1, <3>2
  <2> HIDE DEF r
  <2>4. call' \in CallRec /\ call'.st = "ok"
    BY <2>1, <2>2, <2>3 DEF CallRec
  <2>5. AmfType'
    BY <1>1, <2>1, <2>4 DEF UdmHandle, Types, AmfType
  <2> QED BY <1>1, <2>1, <2>5 DEF UdmHandle, Types, NfType, SmfType, GnbType, CountType,
                                  StartsOK, nfVars, smfVars, gnbVars
<1>2. CASE SmfCreate
  <2>1. /\ smf \in [counter : Nat, starts : 0 .. MaxCrashes + 1] /\ smf.counter >= 1
        /\ call \in CallRec /\ n4 \in Seq(N4Rec) /\ call.st = "sent"
    BY <1>2 DEF SmfCreate, Types, SmfType, AmfType
  <2>2. [by |-> smf.starts, n |-> smf.counter] \in Allocs
    BY <2>1 DEF Allocs
  <2>3. call' \in CallRec /\ call'.st = "work"
    BY <1>2, <2>1, <2>2 DEF SmfCreate, CallRec
  <2>4. AmfType'
    BY <1>2, <2>1, <2>3 DEF SmfCreate, Types, AmfType
  <2>5. /\ smf' \in [counter : Nat, starts : 0 .. MaxCrashes + 1] /\ smf'.counter >= 1
        /\ smf'.starts = smf.starts
    <3>1. smf' = [smf EXCEPT !.counter = smf.counter + 1]
      BY <1>2, <2>1 DEF SmfCreate, allocateUeIp
    <3> QED BY <2>1, <3>1
  <2>6. n4' \in Seq(N4Rec)
    <3>1. buildSessionEstReq(smf.counter - 1) \in N4Rec
      BY <2>1 DEF buildSessionEstReq, N4Rec
    <3> QED BY <1>2, <2>1, <3>1 DEF SmfCreate
  <2>7. SmfType'
    BY <1>2, <2>5, <2>6 DEF SmfCreate, Types, SmfType
  <2>8. NfType' /\ GnbType' /\ CountType' /\ StartsOK'
    BY <1>2, <2>5 DEF SmfCreate, Types, NfType, GnbType, CountType, StartsOK, nfVars, gnbVars
  <2> QED BY <2>4, <2>7, <2>8 DEF Types
<1>3. CASE SmfReply
  <2>1. call \in CallRec /\ call.st = "work"
    BY <1>3 DEF SmfReply, Types, AmfType
  <2>2. call' \in CallRec /\ call'.st = "ok"
    BY <1>3, <2>1 DEF SmfReply, CallRec
  <2>3. AmfType'
    BY <1>3, <2>1, <2>2 DEF SmfReply, Types, AmfType
  <2> QED BY <1>3, <2>3 DEF SmfReply, Types, NfType, SmfType, GnbType, CountType,
                            StartsOK, nfVars, smfVars, gnbVars
<1>4. CASE UpfEstablish \/ N4Lost
  <2>1. n4 \in Seq(N4Rec) /\ n4 # << >> /\ n4' = Tail(n4)
    BY <1>4 DEF UpfEstablish, N4Lost, Types, SmfType
  <2>2. sessions' \in Seq(UpfRec)
    <3>0. Head(n4) \in N4Rec
      BY <2>1
    <3>1. sessions \in Seq(UpfRec)
      BY DEF Types, SmfType
    <3>2. [cp_seid |-> Head(n4).seid, up_seid |-> Len(sessions) + 1]
            \in UpfRec
      BY <3>0, <3>1 DEF N4Rec, UpfRec
    <3>3. \/ sessions' = sessions
          \/ sessions' = Append(sessions, [cp_seid |-> Head(n4).seid,
                                           up_seid |-> Len(sessions) + 1])
      BY <1>4 DEF UpfEstablish, N4Lost
    <3> QED BY <3>1, <3>2, <3>3
  <2>3. SmfType'
    BY <1>4, <2>1, <2>2 DEF UpfEstablish, N4Lost, Types, SmfType
  <2> QED BY <1>4, <2>3 DEF UpfEstablish, N4Lost, Types, NfType, AmfType, GnbType, CountType,
                            StartsOK, nfVars, amfVars, gnbVars
<1> QED BY <1>1, <1>2, <1>3, <1>4
----------------------------------------------------------------------------
(* sendFrame of a gNB. *)
LEMMA SendTyped ==
  ASSUME Types, NEW g \in Gnbs, NEW m \in UpFrames, Send(g, m)
  PROVE  /\ up' \in [Gnbs -> Seq(UpFrames)]
         /\ up'[g] = IF gnb[g].link = "open" THEN Append(up[g], m) ELSE up[g]
         /\ \A h \in Gnbs \ {g} : up'[h] = up[h]
<1>1. up \in [Gnbs -> Seq(UpFrames)]
  BY DEF Types, GnbType
<1>2. Append(up[g], m) \in Seq(UpFrames)
  BY <1>1
<1> QED BY <1>1, <1>2 DEF Send

(* A gNB takes a frame. *)
LEMMA TakeDownTyped ==
  ASSUME Types, NEW g \in Gnbs, down[g] # << >>, NEW next \in {"verdict", "cmd"},
         gnb[g].pc \in {"challenge", "verdict", "pdu"}, TakeDown(g, next)
  PROVE  /\ gnb' \in [Gnbs -> GnbRec] /\ \A h \in Gnbs : WaitsForUe(gnb'[h])
         /\ gnb'[g].pc = next /\ gnb'[g].link = gnb[g].link
         /\ next = "verdict" => gnb'[g].ue = gnb[g].ue
         /\ \A h \in Gnbs \ {g} : gnb'[h] = gnb[h] /\ down'[h] = down[h]
         /\ down' \in [Gnbs -> Seq(DownFrames)] /\ down'[g] = Tail(down[g])
<1> DEFINE u == IF next = "cmd" THEN NoUe ELSE gnb[g].ue
<1>1. /\ gnb \in [Gnbs -> GnbRec] /\ down \in [Gnbs -> Seq(DownFrames)]
      /\ \A h \in Gnbs : WaitsForUe(gnb[h])
  BY DEF Types, GnbType
<1>2. u \in Ues \cup {NoUe} /\ (next = "verdict" => u = gnb[g].ue /\ u \in Ues)
  BY <1>1 DEF WaitsForUe
<1>3. gnb' = [gnb EXCEPT ![g].pc = next, ![g].ue = u]
  BY <1>1 DEF TakeDown
<1> HIDE DEF u
<1>4. gnb' \in [Gnbs -> GnbRec]
  BY <1>1, <1>2, <1>3 DEF GnbRec
<1>5. /\ gnb'[g].pc = next /\ gnb'[g].link = gnb[g].link /\ gnb'[g].ue = u
      /\ \A h \in Gnbs \ {g} : gnb'[h] = gnb[h]
  BY <1>1, <1>3 DEF GnbRec
<1>6. \A h \in Gnbs : WaitsForUe(gnb'[h])
  BY <1>1, <1>2, <1>5 DEF WaitsForUe
<1>7. Tail(down[g]) \in Seq(DownFrames)
  BY <1>1
<1>8. down' = [down EXCEPT ![g] = Tail(down[g])]
  BY DEF TakeDown
<1> QED BY <1>1, <1>2, <1>4, <1>5, <1>6, <1>7, <1>8

(* What the steps of a gNB leave alone: GnbStart, *)
LEMMA GnbStartFrame ==
  ASSUME Types, NEW g \in Gnbs, GnbStart(g)
  PROVE  /\ Types' /\ gnb'[g].pc = "cmd" /\ gnb'[g].link = "open"
         /\ \A h \in Gnbs \ {g} : gnb'[h] = gnb[h]
<1> DEFINE r == [pc |-> "cmd", ue |-> NoUe, link |-> "open"]
<1>1. gnb \in [Gnbs -> GnbRec] /\ \A h \in Gnbs : WaitsForUe(gnb[h])
  BY DEF Types, GnbType
<1>2. r \in GnbRec /\ WaitsForUe(r) /\ r.pc = "cmd" /\ r.link = "open"
  BY DEF GnbRec, WaitsForUe
<1>3. gnb' = [gnb EXCEPT ![g] = r]
  BY DEF GnbStart
<1> HIDE DEF r
<1>4. gnb' \in [Gnbs -> GnbRec] /\ \A h \in Gnbs : WaitsForUe(gnb'[h])
  BY <1>1, <1>2, <1>3
<1>5. GnbType'
  BY <1>4 DEF GnbStart, Types, GnbType, WaitsForUe
<1>6. AmfType'
  <2>1. backlog \in Seq(Gnbs) /\ backlog' = Append(backlog, g)
    BY DEF GnbStart, Types, AmfType
  <2>2. backlog' \in Seq(Gnbs)
    BY <2>1
  <2> QED BY <2>2 DEF GnbStart, Types, AmfType
<1>7. NfType' /\ SmfType' /\ CountType' /\ StartsOK'
  BY DEF GnbStart, Types, NfType, SmfType, CountType, StartsOK, nfVars, smfVars
<1> QED BY <1>1, <1>2, <1>3, <1>5, <1>6, <1>7 DEF Types

(* a command, *)
LEMMA CommandFrame ==
  ASSUME Types, NEW g \in Gnbs, NEW u \in Ues, NEW step \in {"challenge", "pdu"},
         NEW t \in {"RegistrationRequest", "PduSessionRequest"}, doCommand(g, u, step, t)
  PROVE  /\ Types' /\ gnb'[g].pc = step /\ gnb'[g].ue = u /\ gnb'[g].link = gnb[g].link
         /\ \A h \in Gnbs \ {g} : gnb'[h] = gnb[h] /\ up'[h] = up[h]
         /\ up'[g] = IF gnb[g].link = "open" THEN Append(up[g], N2Up(t, u, << >>)) ELSE up[g]
<1>1. gnb \in [Gnbs -> GnbRec] /\ \A h \in Gnbs : WaitsForUe(gnb[h])
  BY DEF Types, GnbType
<1>2. gnb' = [gnb EXCEPT ![g].pc = step, ![g].ue = u]
  BY DEF doCommand
<1>3. gnb' \in [Gnbs -> GnbRec]
  BY <1>1, <1>2 DEF GnbRec
<1>4. /\ gnb'[g].pc = step /\ gnb'[g].ue = u /\ gnb'[g].link = gnb[g].link
      /\ \A h \in Gnbs \ {g} : gnb'[h] = gnb[h]
  BY <1>1, <1>2 DEF GnbRec
<1>5. \A h \in Gnbs : WaitsForUe(gnb'[h])
  BY <1>1, <1>4 DEF WaitsForUe
<1>6. N2Up(t, u, << >>) \in UpFrames
  BY FramesTyped DEF ResStars
<1>7. /\ up' \in [Gnbs -> Seq(UpFrames)]
      /\ up'[g] = IF gnb[g].link = "open" THEN Append(up[g], N2Up(t, u, << >>)) ELSE up[g]
      /\ \A h \in Gnbs \ {g} : up'[h] = up[h]
  BY <1>6, SendTyped DEF doCommand
<1>8. GnbType'
  BY <1>3, <1>5, <1>7 DEF doCommand, Types, GnbType, WaitsForUe
<1>9. CountType'
  BY Core5gAssumption DEF doCommand, Types, CountType
<1>10. NfType' /\ SmfType' /\ AmfType' /\ StartsOK'
  BY DEF doCommand, Types, NfType, SmfType, AmfType, StartsOK, nfVars, smfVars, amfVars
<1> QED BY <1>4, <1>7, <1>8, <1>9, <1>10 DEF Types

(* an answer, *)
LEMMA GnbStepTypes ==
  ASSUME Types, NEW g \in Gnbs, GnbStep(g)
  PROVE  Types'
<1>0. NfType' /\ SmfType' /\ AmfType' /\ StartsOK' /\ CountType'
  BY DEF GnbStep, AnswerChallenge, TakeVerdict, TakePduAccept, AmfClosed, TakeDown, Types, NfType,
         SmfType, AmfType, CountType, StartsOK, nfVars, smfVars, amfVars
<1>1. CASE AnswerChallenge(g)
  <2>1. /\ TakeDown(g, "verdict") \/ TakeDown(g, "cmd")
        /\ down[g] # << >> /\ gnb[g].pc = "challenge" /\ pdus' = pdus
    BY <1>1 DEF AnswerChallenge, Received
  <2>2. /\ gnb' \in [Gnbs -> GnbRec] /\ \A h \in Gnbs : WaitsForUe(gnb'[h])
        /\ down' \in [Gnbs -> Seq(DownFrames)]
    BY <2>1, TakeDownTyped
  <2>3. up' \in [Gnbs -> Seq(UpFrames)]
    <3>1. gnb[g].ue \in Ues /\ up \in [Gnbs -> Seq(UpFrames)] /\ Head(down[g]) \in DownFrames
      BY <2>1 DEF Types, GnbType, WaitsForUe
    <3>2. byteXor(Head(down[g]).rand, kFor(gnb[g].ue)) \in ResStars
      BY <3>1, ByteXorTyped DEF DownFrames
    <3>3. N2Up("AuthenticationResponse", gnb[g].ue, byteXor(Head(down[g]).rand, kFor(gnb[g].ue)))
            \in UpFrames
      BY <3>1, <3>2, FramesTyped
    <3> QED BY <1>1, <3>1, <3>3, SendTyped DEF AnswerChallenge
  <2> QED BY <1>0, <2>1, <2>2, <2>3 DEF Types, GnbType, WaitsForUe
<1>2. CASE TakeVerdict(g)
  <2>1. TakeDown(g, "cmd") /\ down[g] # << >> /\ gnb[g].pc = "verdict" /\ pdus' = pdus
    BY <1>2 DEF TakeVerdict, Received
  <2>2. /\ gnb' \in [Gnbs -> GnbRec] /\ \A h \in Gnbs : WaitsForUe(gnb'[h])
        /\ down' \in [Gnbs -> Seq(DownFrames)]
    BY <2>1, TakeDownTyped
  <2>3. up' \in [Gnbs -> Seq(UpFrames)]
    <3>1. gnb[g].ue \in Ues /\ up \in [Gnbs -> Seq(UpFrames)]
      BY <2>1 DEF Types, GnbType, WaitsForUe
    <3>2. N2Up("RegistrationComplete", gnb[g].ue, << >>) \in UpFrames
      BY <3>1, FramesTyped DEF ResStars
    <3> QED BY <1>2, <3>1, <3>2, SendTyped DEF TakeVerdict
  <2> QED BY <1>0, <2>1, <2>2, <2>3 DEF Types, GnbType, WaitsForUe
<1>3. CASE TakePduAccept(g)
  <2>1. TakeDown(g, "cmd") /\ down[g] # << >> /\ gnb[g].pc = "pdu" /\ up' = up
    BY <1>3 DEF TakePduAccept, Received
  <2>2. /\ gnb' \in [Gnbs -> GnbRec] /\ \A h \in Gnbs : WaitsForUe(gnb'[h])
        /\ down' \in [Gnbs -> Seq(DownFrames)]
    BY <2>1, TakeDownTyped
  <2>3. pdus' \subseteq [ue : Ues, ip : Allocs]
    <3>1. gnb[g].ue \in Ues /\ Head(down[g]) \in DownFrames
      BY <2>1 DEF Types, GnbType, WaitsForUe
    <3>2. [ue |-> gnb[g].ue, ip |-> Head(down[g]).ip] \in [ue : Ues, ip : Allocs]
      BY <3>1 DEF DownFrames
    <3> QED BY <1>3, <3>2 DEF TakePduAccept, Types, GnbType
  <2> QED BY <1>0, <2>1, <2>2, <2>3 DEF Types, GnbType, WaitsForUe
<1>4. CASE AmfClosed(g)
  <2>1. gnb' = [gnb EXCEPT ![g].pc = "cmd", ![g].ue = NoUe] /\ gnb \in [Gnbs -> GnbRec]
    BY <1>4 DEF AmfClosed, Types, GnbType
  <2>2. gnb' \in [Gnbs -> GnbRec] /\ gnb'[g].pc = "cmd" /\ \A h \in Gnbs \ {g} : gnb'[h] = gnb[h]
    BY <2>1 DEF GnbRec
  <2>3. \A h \in Gnbs : WaitsForUe(gnb'[h])
    BY <2>2 DEF Types, GnbType, WaitsForUe
  <2> QED BY <1>0, <1>4, <2>2, <2>3 DEF AmfClosed, Types, GnbType, WaitsForUe
<1> QED BY <1>1, <1>2, <1>3, <1>4 DEF GnbStep

(* the end of its process. *)
LEMMA GnbEndsFrame ==
  ASSUME Types, NEW g \in Gnbs, Quit(g) \/ SigPipe(g) \/ GnbKilled(g)
  PROVE  /\ Types' /\ gnb'[g].pc = "gone" /\ gnb'[g].link = "closed" /\ down'[g] = << >>
         /\ \A h \in Gnbs \ {g} : gnb'[h] = gnb[h] /\ down'[h] = down[h]
         /\ UNCHANGED <<proc, profiles, found, amf, call, ctx, conn, backlog, vectors, smf, n4,
                        sessions, up, pdus>>
         /\ gnb[g].pc # "off" /\ crashes' >= crashes
<1> DEFINE r == [GnbOff EXCEPT !.pc = "gone"]
<1>1. /\ gnb \in [Gnbs -> GnbRec] /\ \A h \in Gnbs : WaitsForUe(gnb[h])
      /\ down \in [Gnbs -> Seq(DownFrames)] /\ crashes \in Nat
  BY Core5gAssumption DEF Types, GnbType, CountType
<1>2. r \in GnbRec /\ WaitsForUe(r) /\ r.pc = "gone" /\ r.link = "closed"
  BY DEF GnbRec, WaitsForUe, GnbOff
<1>3. gnb' = [gnb EXCEPT ![g] = r] /\ down' = [down EXCEPT ![g] = << >>]
  BY DEF GnbEnds, Quit, SigPipe, GnbKilled
<1>4. /\ UNCHANGED <<proc, profiles, found, amf, call, ctx, conn, backlog, vectors, smf, n4,
                     sessions, up, pdus, commands>>
      /\ gnb[g].pc # "off"
  BY DEF GnbEnds, Quit, SigPipe, GnbKilled, nfVars, amfVars, smfVars, Waiting
<1>5. crashes' \in 0 .. MaxCrashes /\ crashes' >= crashes
  BY <1>1, Core5gAssumption DEF Quit, SigPipe, GnbKilled, Types, CountType
<1> HIDE DEF r
<1>6. gnb' \in [Gnbs -> GnbRec] /\ \A h \in Gnbs : WaitsForUe(gnb'[h])
  BY <1>1, <1>2, <1>3
<1>7. << >> \in Seq(DownFrames)
  BY EmptySeq
<1>8. GnbType'
  BY <1>1, <1>3, <1>4, <1>6, <1>7 DEF Types, GnbType, WaitsForUe
<1>9. NfType' /\ SmfType' /\ AmfType' /\ CountType'
  BY <1>4, <1>5 DEF Types, NfType, SmfType, AmfType, CountType
<1>10. StartsOK'
  <2>1. smf.starts \in Nat
    BY DEF Types, SmfType
  <2> QED BY <1>1, <1>4, <1>5, <2>1 DEF Types, StartsOK
<1> QED BY <1>1, <1>2, <1>3, <1>4, <1>5, <1>8, <1>9, <1>10 DEF Types
----------------------------------------------------------------------------
(* What the AMF's thread knows while it is in a call, and its contexts. *)
CallOK ==
  /\ amf.pc = "sdm" => amf.ue \in DOMAIN ctx
  /\ call.st = "closed" => crashes > 0
  /\ call.st = "work" => amf.pc = "smf"
  /\ call.st = "ok" /\ amf.pc = "auth" => call.rand # << >>
  /\ \A u \in DOMAIN ctx : ctx[u] # << >> \/ crashes > 0

NoCallFor(g)    == conn = g => amf.pc = "idle"
Served(g, step) == conn = g /\ amf.pc = step /\ (step # "idle" => amf.ue = gnb[g].ue)

(* A gNB whose connection is open has one procedure under way, in one place: *)
(* nowhere, in a request, with the AMF, or in an answer.                     *)
Quiet(g) ==
  /\ down[g] = << >> /\ NoCallFor(g) /\ Len(up[g]) <= 1
  /\ \A i \in DOMAIN up[g] : up[g][i].type = "RegistrationComplete"

Asked(g, t) ==
  /\ down[g] = << >> /\ NoCallFor(g) /\ Len(up[g]) \in {1, 2}
  /\ up[g][Len(up[g])].type = t /\ up[g][Len(up[g])].ue = gnb[g].ue
  /\ Len(up[g]) = 2 => up[g][1].type = "RegistrationComplete"

InCall(g, step) == down[g] = << >> /\ up[g] = << >> /\ Served(g, step)

Told(g, t) ==
  /\ up[g] = << >> /\ Len(down[g]) = 1 /\ Served(g, "idle")
  /\ down[g][1].type = t /\ down[g][1].ue = gnb[g].ue

Matches(u, res) == u \in DOMAIN ctx /\ ctx[u] = res

(* The challenge and its answer belong to the context the AMF has stored. *)
Challenged(g) ==
  /\ Told(g, "AuthenticationRequest")
  /\ Matches(gnb[g].ue, byteXor(down[g][1].rand, kFor(gnb[g].ue)))

Responded(g) ==
  /\ Served(g, "idle") /\ Len(up[g]) = 1 /\ up[g][1].type = "AuthenticationResponse"
  /\ Matches(up[g][1].ue, up[g][1].res)

OpenOK(g) ==
  gnb[g].link = "open" =>
    \/ gnb[g].pc = "cmd" /\ Quiet(g)
    \/ /\ gnb[g].pc = "challenge"
       /\ Asked(g, "RegistrationRequest") \/ InCall(g, "auth") \/ Challenged(g)
    \/ /\ gnb[g].pc = "verdict"
       /\ \/ down[g] = << >> /\ Responded(g) /\ up[g][1].ue = gnb[g].ue
          \/ InCall(g, "sdm") \/ Told(g, "RegistrationAccept")
    \/ /\ gnb[g].pc = "pdu"
       /\ Asked(g, "PduSessionRequest") \/ InCall(g, "smf") \/ Told(g, "PduSessionAccept")

(* A gNB that is gone may leave one answer to a challenge behind. *)
NoResponse(s) == \A i \in DOMAIN s : s[i].type # "AuthenticationResponse"

ClosedOK(g) ==
  gnb[g].link # "open" =>
    /\ gnb[g].pc = "off" => up[g] = << >> /\ down[g] = << >> /\ conn # g
    /\ NoResponse(up[g]) \/ Responded(g)

FramesOK(g) ==
  \A i \in DOMAIN down[g] :
    /\ down[g][i].type # "RegistrationReject"
    /\ down[g][i].type = "RegistrationAccept" /\ gnb[g].link = "open" =>
         down[g][i].ue \in DOMAIN ctx

FlowOK(g) == OpenOK(g) /\ ClosedOK(g) /\ FramesOK(g)

BacklogOK == \A i \in DOMAIN backlog : gnb[backlog[i]].pc # "off"

FlowInv == (\A g \in Gnbs : FlowOK(g)) /\ BacklogOK /\ CallOK
----------------------------------------------------------------------------
(* Sequences of one and of two elements. *)
LEMMA SeqNil ==
  ASSUME NEW S, NEW x \in S
  PROVE  /\ Append(<< >>, x) \in Seq(S) /\ Len(Append(<< >>, x)) = 1
         /\ Append(<< >>, x)[1] = x /\ DOMAIN Append(<< >>, x) = {1}
<1>1. << >> \in Seq(S) /\ Len(<< >>) = 0
  BY EmptySeq
<1>2. DOMAIN Append(<< >>, x) = 1 .. 1
  BY <1>1
<1> QED BY <1>1, <1>2

(* A sequence of one element is its head. *)
LEMMA SeqOne ==
  ASSUME NEW S, NEW s \in Seq(S), Len(s) = 1
  PROVE  s # << >> /\ Head(s) = s[1] /\ Tail(s) = << >> /\ s[1] \in S /\ DOMAIN s = {1}
<1>1. s # << >> /\ DOMAIN s = 1 .. 1
  BY EmptySeq
<1>2. Len(Tail(s)) = 0 /\ Tail(s) \in Seq(S)
  BY <1>1
<1>3. Tail(s) = << >>
  BY <1>2, EmptySeq
<1> QED BY <1>1, <1>3

(* The tail of two elements is the second. *)
LEMMA SeqTwo ==
  ASSUME NEW S, NEW s \in Seq(S), Len(s) = 2
  PROVE  s # << >> /\ Head(s) = s[1] /\ Len(Tail(s)) = 1 /\ Tail(s)[1] = s[2] /\ Tail(s) \in Seq(S)
  BY EmptySeq

(* Append, in general *)
LEMMA SeqAppended ==
  ASSUME NEW S, NEW s \in Seq(S), NEW x \in S
  PROVE  /\ Append(s, x) \in Seq(S) /\ Len(Append(s, x)) = Len(s) + 1
         /\ \A i \in 1 .. Len(s) : Append(s, x)[i] = s[i]
         /\ Append(s, x)[Len(s) + 1] = x
  BY AppendProperties

(* and to one element. *)
LEMMA SeqAppend ==
  ASSUME NEW S, NEW s \in Seq(S), NEW x \in S, Len(s) = 1
  PROVE  /\ Len(Append(s, x)) = 2 /\ Append(s, x)[1] = s[1] /\ Append(s, x)[2] = x
         /\ Append(s, x) \in Seq(S)
<1>1. 1 \in 1 .. Len(s) /\ Len(s) + 1 = 2
  OBVIOUS
<1>2. /\ Append(s, x) \in Seq(S) /\ Len(Append(s, x)) = Len(s) + 1
      /\ \A i \in 1 .. Len(s) : Append(s, x)[i] = s[i]
      /\ Append(s, x)[Len(s) + 1] = x
  BY SeqAppended, Zenon
<1>3. Append(s, x)[1] = s[1]
  BY <1>1, <1>2, Zenon
<1>4. Append(s, x)[2] = x
  BY <1>1, <1>2, Zenon
<1>5. Len(Append(s, x)) = 2
  BY <1>1, <1>2, Zenon
<1> QED BY <1>2, <1>3, <1>4, <1>5, Zenon

(* Tail moves every element one place forward. *)
LEMMA SeqTail ==
  ASSUME NEW S, NEW s \in Seq(S), s # << >>, NEW i \in DOMAIN Tail(s)
  PROVE  i + 1 \in DOMAIN s /\ Tail(s)[i] = s[i + 1] /\ 1 \in DOMAIN s /\ Head(s) = s[1]
<1>1. Len(s) \in Nat /\ Len(s) # 0 /\ DOMAIN s = 1 .. Len(s)
  BY EmptySeq
<1>2. Len(Tail(s)) = Len(s) - 1 /\ Tail(s) \in Seq(S)
  BY <1>1
<1>3. DOMAIN Tail(s) = 1 .. Len(s) - 1
  BY <1>2
<1>4. i \in 1 .. Len(s) - 1 /\ i + 1 \in 1 .. Len(s) /\ 1 \in 1 .. Len(s)
  BY <1>1, <1>3
<1>5. Tail(s)[i] = s[i + 1]
  BY <1>1, <1>4
<1> QED BY <1>1, <1>4, <1>5

(* A connection that does not change, while the AMF's thread does not either, *)
LEMMA FlowSame ==
  ASSUME NEW h \in Gnbs, FlowOK(h), gnb'[h] = gnb[h], up'[h] = up[h], down'[h] = down[h],
         amf' = amf, ctx' = ctx, conn' = conn
  PROVE  FlowOK(h)'
<1>1. /\ NoCallFor(h)' <=> NoCallFor(h)
      /\ \A step : Served(h, step)' <=> Served(h, step)
      /\ \A u, r : Matches(u, r)' <=> Matches(u, r)
  BY DEF NoCallFor, Served, Matches
<1>2. /\ Quiet(h)' <=> Quiet(h)
      /\ \A t : Asked(h, t)' <=> Asked(h, t)
      /\ \A t : InCall(h, t)' <=> InCall(h, t)
      /\ \A t : Told(h, t)' <=> Told(h, t)
      /\ Responded(h)' <=> Responded(h)
  BY <1>1 DEF Quiet, Asked, InCall, Told, Responded
<1>3. Challenged(h)' <=> Challenged(h)
  BY <1>1, <1>2 DEF Challenged
<1> QED BY <1>2, <1>3 DEF FlowOK, OpenOK, ClosedOK, FramesOK, NoResponse

(* or is with another gNB before and after. *)
LEMMA FlowUnserved ==
  ASSUME NEW h \in Gnbs, FlowOK(h), gnb'[h] = gnb[h], up'[h] = up[h], down'[h] = down[h],
         conn # h, conn' # h, DOMAIN ctx \subseteq DOMAIN ctx'
  PROVE  FlowOK(h)'
<1>1. /\ NoCallFor(h)' /\ NoCallFor(h) /\ ~ Responded(h) /\ ~ Challenged(h)
      /\ \A t : ~ InCall(h, t) /\ ~ Told(h, t)
  BY DEF NoCallFor, Served, InCall, Told, Responded, Challenged
<1>2. Quiet(h)' <=> Quiet(h)
  BY <1>1 DEF Quiet
<1>3. \A t : Asked(h, t)' <=> Asked(h, t)
  BY <1>1 DEF Asked
<1> QED BY <1>1, <1>2, <1>3 DEF FlowOK, OpenOK, ClosedOK, FramesOK, NoResponse
----------------------------------------------------------------------------
(* Steps of the network functions that no gNB sees. *)
LEMMA UnseenFlow ==
  ASSUME FlowInv, CallOK', UNCHANGED <<amf, ctx, conn, backlog, gnb, up, down>>
  PROVE  FlowInv'
<1>1. \A h \in Gnbs : FlowOK(h)'
  BY FlowSame DEF FlowInv
<1>2. BacklogOK'
  BY DEF FlowInv, BacklogOK
<1> QED BY <1>1, <1>2 DEF FlowInv

(* The network functions other than the AMF. *)
LEMMA NfFlow ==
  ASSUME Types, FlowInv, 
         \/ \E nf \in NFs : Start(nf) \/ registerSelf(nf) \/ (nf # "AMF" /\ Crash(nf))
         \/ discover \/ UdmHandle \/ SmfCreate \/ SmfReply \/ UpfEstablish \/ N4Lost
  PROVE  FlowInv'
<1>1. UNCHANGED <<amf, ctx, conn, backlog, gnb, up, down>>
  BY DEF Start, registerSelf, Crash, discover, DiscoverPeer, UdmHandle, SmfCreate, SmfReply,
         UpfEstablish, N4Lost, amfVars, gnbVars
<1>2. CallOK'
  <2>1. ASSUME UNCHANGED <<amf, ctx, call, crashes>> PROVE CallOK'
    BY <2>1 DEF FlowInv, CallOK
  <2>2. CASE (\E nf \in NFs : Start(nf) \/ registerSelf(nf)) \/ discover \/ UpfEstablish \/ N4Lost
    BY <2>1, <2>2 DEF Start, registerSelf, discover, DiscoverPeer, UpfEstablish, N4Lost, amfVars
  <2>3. ASSUME NEW nf \in NFs, nf # "AMF", Crash(nf) PROVE CallOK'
    <3>1. crashes' > 0
      BY <2>3, Core5gAssumption DEF Crash, Types, CountType
    <3>2. call' = call \/ call' = [NoCall EXCEPT !.st = "closed"]
      BY <2>3 DEF Crash
    <3>3. call' = call \/ call'.st = "closed"
      BY <3>2, NoCallTyped
    <3> QED BY <1>1, <3>1, <3>3 DEF FlowInv, CallOK
  <2>4. CASE UdmHandle
    <3>1. call \in CallRec /\ vectors \in Nat
      BY DEF Types, AmfType, CountType
    <3>2. call'.st = "ok" /\ crashes' = crashes
      BY <2>4, <3>1 DEF UdmHandle, CallRec
    <3>3. amf.pc = "auth" => call'.rand = <<vectors + 1>>
      BY <2>4, <3>1 DEF UdmHandle, CallRec
    <3>4. <<vectors + 1>> # << >>
      OBVIOUS
    <3>5. amf.pc = "auth" => call'.rand # << >>
      BY <3>3, <3>4
    <3> QED BY <1>1, <3>2, <3>5 DEF FlowInv, CallOK
  <2>5. CASE SmfCreate \/ SmfReply
    <3>1. call \in CallRec
      BY DEF Types, AmfType
    <3>2. CASE SmfCreate
      <4>1. call'.st = "work" /\ crashes' = crashes /\ amf.pc = "smf"
        BY <3>1, <3>2 DEF SmfCreate, CallRec
      <4> QED BY <1>1, <4>1 DEF FlowInv, CallOK
    <3>3. CASE SmfReply
      <4>1. call'.st = "ok" /\ crashes' = crashes /\ call.st = "work"
        BY <3>1, <3>3 DEF SmfReply, CallRec
      <4> QED BY <1>1, <4>1 DEF FlowInv, CallOK
    <3> QED BY <2>5, <3>2, <3>3
  <2> QED BY <2>2, <2>3, <2>4, <2>5
<1> QED BY <1>1, <1>2, UnseenFlow

(* When the AMF ends, every connection is broken and nothing is left to take. *)
LEMMA AmfGoneFlow ==
  ASSUME Types, FlowInv, AmfEnds
  PROVE  FlowInv'
<1>1. ASSUME NEW g \in Gnbs PROVE FlowOK(g)'
  <2>1. gnb[g] \in GnbRec
    BY DEF Types, GnbType
  <2>2. gnb'[g].link # "open" /\ gnb'[g].pc = gnb[g].pc /\ up'[g] = << >> /\ down' = down
        /\ conn' = "none" /\ g # "none"
    BY <2>1, Core5gAssumption DEF AmfEnds, GnbRec
  <2>3. gnb[g].pc = "off" => down[g] = << >>
    BY DEF FlowInv, FlowOK, OpenOK, ClosedOK
  <2>4. NoResponse(<< >>)
    BY DEF NoResponse
  <2>5. OpenOK(g)' /\ ClosedOK(g)'
    BY <2>2, <2>3, <2>4 DEF OpenOK, ClosedOK, NoResponse
  <2>6. FramesOK(g)'
    BY <2>2 DEF FlowInv, FlowOK, FramesOK
  <2> QED BY <2>5, <2>6 DEF FlowOK
<1>2. BacklogOK'
  BY DEF BacklogOK, AmfEnds
<1>3. CallOK'
  BY NoCallTyped DEF CallOK, AmfEnds, AmfIdle
<1> QED BY <1>1, <1>2, <1>3 DEF FlowInv

(* Accept and Disconnected: a gNB that is not served has no answer yet. *)
LEMMA ListenFlow ==
  ASSUME Types, FlowInv, Accept \/ Disconnected
  PROVE  FlowInv'
<1>1. UNCHANGED <<amf, call, ctx, gnb, up, down, crashes>>
  BY DEF Accept, Disconnected, gnbVars
<1>2. CallOK'
  BY <1>1 DEF FlowInv, CallOK
<1>3. amf.pc = "idle" /\ backlog \in Seq(Gnbs) /\ "none" \notin Gnbs
  BY Core5gAssumption DEF Accept, Disconnected, Types, AmfType
<1>4. CASE Accept
  <2>1. conn = "none" /\ conn' = Head(backlog) /\ backlog' = Tail(backlog) /\ backlog # << >>
    BY <1>4 DEF Accept
  <2>2. /\ gnb[conn'].pc # "off" /\ BacklogOK'
    <3>1. 1 \in DOMAIN backlog /\ Head(backlog) = backlog[1]
      BY <1>3, <2>1, EmptySeq
    <3>2. \A i \in DOMAIN Tail(backlog) :
            i + 1 \in DOMAIN backlog /\ Tail(backlog)[i] = backlog[i + 1]
      BY <1>3, <2>1, SeqTail
    <3> QED BY <1>1, <2>1, <3>1, <3>2 DEF FlowInv, BacklogOK
  <2>3. ASSUME NEW h \in Gnbs PROVE FlowOK(h)'
    <3>1. FlowOK(h) /\ conn # h
      BY <1>3, <2>1 DEF FlowInv
    <3>2. /\ NoCallFor(h)' /\ NoCallFor(h) /\ ~ Responded(h) /\ ~ Challenged(h)
          /\ \A t : ~ InCall(h, t) /\ ~ Told(h, t)
      BY <1>1, <1>3, <3>1 DEF NoCallFor, Served, InCall, Told, Responded, Challenged
    <3>3. Quiet(h)' <=> Quiet(h)
      BY <1>1, <3>2 DEF Quiet
    <3>4. \A t : Asked(h, t)' <=> Asked(h, t)
      BY <1>1, <3>2 DEF Asked
    <3> QED BY <1>1, <2>2, <3>1, <3>2, <3>3, <3>4
            DEF FlowOK, OpenOK, ClosedOK, FramesOK, NoResponse
  <2> QED BY <1>2, <2>2, <2>3 DEF FlowInv
<1>5. CASE Disconnected
  <2>1. conn # "none" /\ conn' = "none" /\ up[conn] = << >> /\ gnb[conn].link = "closed"
        /\ backlog' = backlog /\ conn \in Gnbs
    BY <1>5 DEF Disconnected, Types, AmfType
  <2>2. ASSUME NEW h \in Gnbs PROVE FlowOK(h)'
    <3>1. FlowOK(h)
      BY DEF FlowInv
    <3>2. CASE h # conn
      BY <1>1, <1>3, <2>1, <3>1, <3>2, FlowUnserved
    <3>3. CASE h = conn
      <4>1. OpenOK(h)' /\ FramesOK(h)'
        BY <1>1, <2>1, <3>1, <3>3 DEF FlowOK, OpenOK, FramesOK
      <4>2. NoResponse(up[h])
        BY <2>1, <3>3 DEF NoResponse
      <4>3. ClosedOK(h)'
        BY <1>1, <1>3, <2>1, <3>1, <3>3, <4>2 DEF FlowOK, ClosedOK, NoResponse
      <4> QED BY <4>1, <4>3 DEF FlowOK
    <3> QED BY <3>2, <3>3
  <2>3. BacklogOK'
    BY <1>1, <2>1 DEF FlowInv, BacklogOK
  <2> QED BY <1>2, <2>2, <2>3 DEF FlowInv
<1> QED BY <1>4, <1>5
----------------------------------------------------------------------------
(* Where the procedure of the gNB the AMF serves is, told from the frame at *)
(* the head of its connection. *)
Single(g, t, step) ==
  /\ gnb[g].link = "open" =>
       gnb[g].pc = step /\ down[g] = << >> /\ Len(up[g]) = 1 /\ up[g][1].ue = gnb[g].ue
  /\ gnb[g].link # "open" => NoResponse(Tail(up[g])) /\ gnb[g].pc # "off"

(* The frame taken is the first of the connection. *)
LEMMA HeadIsFirst ==
  ASSUME Types, NEW t, Takes(t)
  PROVE  /\ Len(up[conn]) >= 1 /\ Head(up[conn]) = up[conn][1] /\ up[conn][1].type = t
         /\ 1 \in DOMAIN up[conn] /\ Len(up[conn]) \in Nat /\ conn \in Gnbs
         /\ Len(up[conn]) = 1 => Tail(up[conn]) = << >>
         /\ NoResponse(up[conn]) => NoResponse(Tail(up[conn]))
<1>1. conn \in Gnbs /\ up[conn] \in Seq(UpFrames) /\ up[conn] # << >>
  BY TakesTyped
<1>2. Len(up[conn]) \in Nat /\ Len(up[conn]) # 0 /\ DOMAIN up[conn] = 1 .. Len(up[conn])
  BY <1>1, EmptySeq
<1>3. Head(up[conn]) = up[conn][1] /\ Len(up[conn]) >= 1 /\ 1 \in DOMAIN up[conn]
  BY <1>1, <1>2
<1>4. Len(up[conn]) = 1 => Tail(up[conn]) = << >>
  BY <1>1, SeqOne
<1>5. NoResponse(up[conn]) => NoResponse(Tail(up[conn]))
  BY <1>1, SeqTail DEF NoResponse
<1> QED BY <1>1, <1>2, <1>3, <1>4, <1>5 DEF Takes

(* The type of the frame fixes the step of the procedure. *)
LEMMA TakesFacts ==
  ASSUME Types, FlowInv, NEW t, Takes(t)
  PROVE  /\ t = "RegistrationRequest" => Single(conn, t, "challenge")
         /\ t = "PduSessionRequest" => Single(conn, t, "pdu")
         /\ t = "AuthenticationResponse" => Single(conn, t, "verdict") /\ Responded(conn)
         /\ t = "RegistrationComplete" /\ gnb[conn].link = "open" =>
              \/ gnb[conn].pc = "cmd" /\ Quiet(conn)
              \/ /\ gnb[conn].pc = "challenge" /\ Asked(conn, "RegistrationRequest")
                 /\ Len(up[conn]) = 2
              \/ /\ gnb[conn].pc = "pdu" /\ Asked(conn, "PduSessionRequest")
                 /\ Len(up[conn]) = 2
         /\ gnb[conn].link # "open" => NoResponse(Tail(up[conn])) /\ gnb[conn].pc # "off"
<1> DEFINE g == conn
<1>1. /\ Len(up[g]) >= 1 /\ Len(up[g]) \in Nat /\ up[g][1].type = t /\ 1 \in DOMAIN up[g]
      /\ Len(up[g]) = 1 => Tail(up[g]) = << >>
      /\ NoResponse(up[g]) => NoResponse(Tail(up[g]))
      /\ g \in Gnbs /\ OpenOK(g) /\ ClosedOK(g) /\ up[g] # << >>
  BY HeadIsFirst, TakesTyped DEF FlowInv, FlowOK
<1>2. \A x : ~ InCall(g, x) /\ ~ Told(g, x)
  BY <1>1 DEF InCall, Told
<1>3. ~ Challenged(g)
  BY <1>2 DEF Challenged
<1>4. Quiet(g) => t = "RegistrationComplete"
  BY <1>1 DEF Quiet
<1>5. \A x : Asked(g, x) => \/ Len(up[g]) = 1 /\ t = x /\ up[g][1].ue = gnb[g].ue /\ down[g] = << >>
                            \/ Len(up[g]) = 2 /\ t = "RegistrationComplete"
  BY <1>1 DEF Asked
<1>6. Responded(g) => t = "AuthenticationResponse" /\ Len(up[g]) = 1
  BY <1>1 DEF Responded
<1>7. NoResponse(<< >>)
  BY DEF NoResponse
<1>8. NoResponse(up[g]) => t # "AuthenticationResponse"
  BY <1>1 DEF NoResponse
<1>9. gnb[g].link # "open" => /\ NoResponse(Tail(up[g])) /\ gnb[g].pc # "off"
                              /\ t = "AuthenticationResponse" => Responded(g)
  BY <1>1, <1>6, <1>7, <1>8 DEF ClosedOK
<1> HIDE DEF g
<1>10. CASE gnb[g].link # "open"
  BY <1>9, <1>10 DEF g, Single
<1>11. CASE gnb[g].link = "open"
  <2>1. \/ gnb[g].pc = "cmd" /\ Quiet(g)
        \/ gnb[g].pc = "challenge" /\ Asked(g, "RegistrationRequest")
        \/ gnb[g].pc = "verdict" /\ down[g] = << >> /\ Responded(g) /\ up[g][1].ue = gnb[g].ue
        \/ gnb[g].pc = "pdu" /\ Asked(g, "PduSessionRequest")
    BY <1>1, <1>2, <1>3, <1>11 DEF OpenOK
  <2> QED BY <1>4, <1>5, <1>6, <1>11, <2>1 DEF g, Single
<1> QED BY <1>10, <1>11

(* The gNB whose call the AMF is in waits for it. *)
LEMMA InCallFacts ==
  ASSUME Types, FlowInv, amf.pc # "idle"
  PROVE  /\ conn \in Gnbs
         /\ gnb[conn].link # "open" => NoResponse(up[conn]) /\ gnb[conn].pc # "off"
         /\ gnb[conn].link = "open" =>
              /\ down[conn] = << >> /\ up[conn] = << >> /\ amf.ue = gnb[conn].ue
              /\ \/ amf.pc = "auth" /\ gnb[conn].pc = "challenge"
                 \/ amf.pc = "sdm" /\ gnb[conn].pc = "verdict"
                 \/ amf.pc = "smf" /\ gnb[conn].pc = "pdu"
<1>1. conn \in Gnbs /\ OpenOK(conn) /\ ClosedOK(conn)
  BY DEF Types, AmfType, FlowInv, FlowOK
<1>2. ~ Quiet(conn) /\ (\A t : ~ Asked(conn, t) /\ ~ Told(conn, t)) /\ ~ Responded(conn)
  BY DEF Quiet, Asked, Told, Responded, NoCallFor, Served
<1>3. ~ Challenged(conn)
  BY <1>2 DEF Challenged
<1> QED BY <1>1, <1>2, <1>3 DEF OpenOK, ClosedOK, InCall, Served

(* The AMF takes a request and begins a call for it. *)
LEMMA CallBegunFlow ==
  ASSUME Types, FlowInv, NEW t, Takes(t), NEW s \in {"auth", "sdm", "smf"},
         Request(s, Head(up[conn]).ue), Consume,
         UNCHANGED <<ctx, conn, backlog, gnb, down, crashes>>,
         s = "sdm" => Head(up[conn]).ue \in DOMAIN ctx,
         Single(conn, t, CASE s = "auth" -> "challenge"
                           [] s = "sdm"  -> "verdict"
                           [] s = "smf"  -> "pdu")
  PROVE  FlowInv'
<1> DEFINE u == Head(up[conn]).ue
<1>1. /\ u \in Ues /\ conn \in Gnbs /\ u = up[conn][1].ue
      /\ Len(up[conn]) = 1 => Tail(up[conn]) = << >>
  BY TakesTyped, HeadIsFirst
<1>2. amf'.pc = s /\ amf'.ue = u /\ call'.st = "sent"
  BY <1>1, RequestTyped
<1>3. up'[conn] = Tail(up[conn]) /\ \A h \in Gnbs \ {conn} : up'[h] = up[h]
  BY ConsumeTyped
<1> HIDE DEF u
<1>4. ASSUME NEW h \in Gnbs PROVE FlowOK(h)'
  <2>1. FlowOK(h)
    BY DEF FlowInv
  <2>2. CASE h # conn
    BY <1>3, <2>1, <2>2, FlowUnserved
  <2>3. CASE h = conn
    <3>1. FramesOK(h)'
      BY <2>1 DEF FlowOK, FramesOK
    <3>2. ClosedOK(h)'
      BY <1>3, <2>3 DEF Single, ClosedOK, NoResponse
    <3>3. ASSUME gnb[h].link = "open" PROVE InCall(h, s)'
      BY <1>1, <1>2, <1>3, <2>3, <3>3 DEF Single, InCall, Served
    <3>4. OpenOK(h)'
      BY <2>3, <3>3 DEF Single, OpenOK
    <3> QED BY <3>1, <3>2, <3>4 DEF FlowOK
  <2> QED BY <2>2, <2>3
<1>5. BacklogOK'
  BY DEF FlowInv, BacklogOK
<1>6. CallOK'
  BY <1>2 DEF u, FlowInv, CallOK
<1> QED BY <1>4, <1>5, <1>6 DEF FlowInv

(* The AMF ends a call and answers the gNB. *)
LEMMA CallDoneFlow ==
  ASSUME Types, FlowInv, amf.pc # "idle", NEW m \in DownFrames, CallDone(m),
         \A v \in DOMAIN ctx' : ctx'[v] # << >> \/ crashes > 0,
         DOMAIN ctx \subseteq DOMAIN ctx', m.ue = amf.ue,
         m.type = CASE amf.pc = "auth" -> "AuthenticationRequest"
                    [] amf.pc = "sdm" -> "RegistrationAccept"
                    [] amf.pc = "smf" -> "PduSessionAccept",
         amf.pc = "auth" => amf.ue \in DOMAIN ctx' /\ ctx'[amf.ue] = byteXor(m.rand, kFor(amf.ue)),
         amf.pc = "sdm" => amf.ue \in DOMAIN ctx
  PROVE  FlowInv'
<1> DEFINE g == conn
<1>1. UNCHANGED <<conn, backlog, gnb, up, crashes>> /\ amf' = AmfIdle /\ call' = NoCall
  BY DEF CallDone
<1>2. /\ g \in Gnbs
      /\ gnb[g].link # "open" => NoResponse(up[g]) /\ gnb[g].pc # "off"
      /\ gnb[g].link = "open" =>
           /\ down[g] = << >> /\ up[g] = << >> /\ amf.ue = gnb[g].ue
           /\ \/ amf.pc = "auth" /\ gnb[g].pc = "challenge"
              \/ amf.pc = "sdm" /\ gnb[g].pc = "verdict"
              \/ amf.pc = "smf" /\ gnb[g].pc = "pdu"
  BY InCallFacts
<1>3. /\ down'[g] = IF gnb[g].link = "open" THEN Append(down[g], m) ELSE down[g]
      /\ \A h \in Gnbs \ {g} : down'[h] = down[h]
  BY <1>2, SendToGnbTyped DEF CallDone
<1>4. amf'.pc = "idle" /\ call'.st = "none"
  BY <1>1, NoCallTyped DEF AmfIdle
<1>5. ASSUME gnb[g].link = "open"
      PROVE  Len(down'[g]) = 1 /\ DOMAIN down'[g] = {1} /\ down'[g][1] = m
  BY <1>2, <1>3, <1>5, SeqNil
<1> HIDE DEF g
<1>6. ASSUME NEW h \in Gnbs PROVE FlowOK(h)'
  <2>1. FlowOK(h)
    BY DEF FlowInv
  <2>2. CASE h # g
    BY <1>1, <1>3, <2>1, <2>2, FlowUnserved DEF g
  <2>3. CASE h = g /\ gnb[g].link # "open"
    <3>1. down'[g] = down[g] /\ gnb' = gnb /\ up' = up
      BY <1>1, <1>3, <2>3
    <3>2. FramesOK(h)'
      BY <2>1, <2>3, <3>1 DEF FlowOK, FramesOK
    <3>3. ClosedOK(h)' /\ OpenOK(h)'
      BY <1>2, <2>3, <3>1 DEF ClosedOK, OpenOK, NoResponse
    <3> QED BY <3>2, <3>3 DEF FlowOK
  <2>4. CASE h = g /\ gnb[g].link = "open"
    <3>1. FramesOK(h)'
      BY <1>2, <1>5, <2>4 DEF FramesOK
    <3>2. gnb' = gnb /\ ClosedOK(h)'
      BY <1>1, <2>4 DEF ClosedOK
    <3>3. /\ amf.pc = "auth" => Told(h, "AuthenticationRequest")'
          /\ amf.pc = "sdm" => Told(h, "RegistrationAccept")'
          /\ amf.pc = "smf" => Told(h, "PduSessionAccept")'
      <4>1. /\ conn' = h /\ amf'.pc = "idle" /\ up'[h] = << >> /\ Len(down'[h]) = 1
            /\ down'[h][1] = m /\ gnb'[h].ue = m.ue
        BY <1>1, <1>2, <1>4, <1>5, <2>4 DEF g
      <4> QED BY <4>1 DEF Told, Served
    <3>4. amf.pc = "auth" => Challenged(h)'
      <4>1. amf.pc = "auth" => Matches(gnb[h].ue, byteXor(down[h][1].rand, kFor(gnb[h].ue)))'
        BY <1>1, <1>2, <1>5, <2>4 DEF Matches
      <4> QED BY <3>3, <4>1 DEF Challenged
    <3>5. OpenOK(h)'
      BY <1>2, <2>4, <3>2, <3>3, <3>4 DEF OpenOK
    <3> QED BY <3>1, <3>2, <3>5 DEF FlowOK
  <2> QED BY <2>2, <2>3, <2>4
<1>7. BacklogOK'
  BY <1>1 DEF FlowInv, BacklogOK
<1>8. CallOK'
  BY <1>1, <1>4 DEF FlowInv, CallOK
<1> QED BY <1>6, <1>7, <1>8 DEF FlowInv

(* A call to the UDM, or the abort without one. *)
LEMMA CallUdmFlow ==
  ASSUME Types, FlowInv, NEW t, Takes(t), NEW s \in {"auth", "sdm"}, callUdm(s, Head(up[conn]).ue),
         s = "sdm" => Head(up[conn]).ue \in DOMAIN ctx,
         Single(conn, t, IF s = "auth" THEN "challenge" ELSE "verdict")
  PROVE  FlowInv'
<1>1. CASE AmfAborts
  BY <1>1, AmfGoneFlow DEF AmfAborts
<1>2. CASE /\ Request(s, Head(up[conn]).ue) /\ Consume
           /\ UNCHANGED <<nfVars, ctx, conn, backlog, vectors, smfVars, gnb, down, pdus, commands,
                          crashes>>
  <2>1. CASE s = "auth"
    BY <1>2, <2>1, CallBegunFlow
  <2>2. CASE s = "sdm"
    BY <1>2, <2>2, CallBegunFlow
  <2> QED BY <2>1, <2>2
<1> QED BY <1>1, <1>2 DEF callUdm

(* The context stored belongs to the challenge sent. *)
LEMMA StoreContextFlow ==
  ASSUME Types, FlowInv, StoreContext
  PROVE  FlowInv'
<1> DEFINE m == [N2Down("AuthenticationRequest", amf.ue) EXCEPT !.rand = call.rand]
<1>1. amf.ue \in Ues /\ call.rand \in Rands /\ amf.pc = "auth" /\ call.st \in {"ok", "closed"}
  BY DEF StoreContext, Answered, Types, AmfType, CallRec
<1>2. m \in DownFrames /\ m.type = "AuthenticationRequest" /\ m.ue = amf.ue /\ m.rand = call.rand
  BY <1>1, ChallengeTyped
<1>3. CallDone(m)
  BY DEF StoreContext
<1>4. DOMAIN ctx' = DOMAIN ctx \cup {amf.ue} /\ ctx'[amf.ue] = byteXor(call.rand, kFor(amf.ue))
  BY DEF StoreContext
<1>5. byteXor(call.rand, kFor(amf.ue)) # << >> \/ crashes > 0
  BY <1>1, ByteXorTyped DEF FlowInv, CallOK
<1>6. ASSUME NEW v \in DOMAIN ctx' PROVE ctx'[v] # << >> \/ crashes > 0
  <2>1. CASE v = amf.ue
    BY <1>4, <1>5, <2>1
  <2>2. CASE v # amf.ue
    <3>1. v \in DOMAIN ctx /\ ctx'[v] = ctx[v]
      BY <1>6, <2>2 DEF StoreContext
    <3> QED BY <3>1 DEF FlowInv, CallOK
  <2> QED BY <2>1, <2>2
<1> HIDE DEF m
<1> QED BY <1>1, <1>2, <1>3, <1>4, <1>6, CallDoneFlow

(* A completion is dropped; what the gNB asked after it stays. *)
LEMMA CompleteFlow ==
  ASSUME Types, FlowInv, handleRegistrationComplete
  PROVE  FlowInv'
<1> DEFINE g == conn
<1>1. UNCHANGED <<amf, call, ctx, conn, backlog, gnb, down, crashes>> /\ Consume
      /\ Takes("RegistrationComplete")
  BY DEF handleRegistrationComplete, amfVars
<1>2. /\ g \in Gnbs /\ up'[g] = Tail(up[g]) /\ up[g] \in Seq(UpFrames) /\ amf.pc = "idle"
      /\ \A h \in Gnbs \ {g} : up'[h] = up[h]
      /\ Len(up[g]) = 1 => Tail(up[g]) = << >>
      /\ Len(up[g]) >= 1 /\ Len(up[g]) \in Nat
  BY <1>1, ConsumeTyped, TakesTyped, HeadIsFirst
<1>3. /\ gnb[g].link = "open" =>
           \/ gnb[g].pc = "cmd" /\ Quiet(g)
           \/ gnb[g].pc = "challenge" /\ Asked(g, "RegistrationRequest") /\ Len(up[g]) = 2
           \/ gnb[g].pc = "pdu" /\ Asked(g, "PduSessionRequest") /\ Len(up[g]) = 2
      /\ gnb[g].link # "open" => NoResponse(Tail(up[g])) /\ gnb[g].pc # "off"
  BY <1>1, TakesFacts
<1>4. Quiet(g) => Quiet(g)'
  <2>1. Quiet(g) => up'[g] = << >> /\ down'[g] = << >>
    BY <1>1, <1>2 DEF Quiet
  <2>2. Len(<< >>) <= 1
    BY EmptySeq
  <2> QED BY <1>1, <1>2, <2>1, <2>2 DEF Quiet, NoCallFor
<1>5. ASSUME NEW h \in Gnbs, h = conn, NEW t, Asked(h, t), Len(up[h]) = 2 PROVE Asked(h, t)'
  <2>1. Len(up'[h]) = 1 /\ up'[h][1] = up[h][2]
    BY <1>2, <1>5, SeqTwo
  <2>2. up[h][2].type = t /\ up[h][2].ue = gnb[h].ue /\ down[h] = << >>
    BY <1>5 DEF Asked
  <2>3. amf'.pc = "idle" /\ down'[h] = << >> /\ gnb'[h] = gnb[h]
    BY <1>1, <1>2, <2>2
  <2> QED BY <2>1, <2>2, <2>3 DEF Asked, NoCallFor
<1>6. ASSUME NEW h \in Gnbs PROVE FlowOK(h)'
  <2>1. FlowOK(h)
    BY DEF FlowInv
  <2>2. CASE h # g
    BY <1>1, <1>2, <2>1, <2>2, FlowSame
  <2>3. CASE h = g
    <3>1. FramesOK(h)'
      BY <1>1, <2>1 DEF FlowOK, FramesOK
    <3>2. ClosedOK(h)'
      BY <1>1, <1>2, <1>3, <2>3 DEF ClosedOK, NoResponse
    <3>3. OpenOK(h)'
      BY <1>1, <1>3, <1>4, <1>5, <2>3 DEF OpenOK
    <3> QED BY <3>1, <3>2, <3>3 DEF FlowOK
  <2> QED BY <2>2, <2>3
<1>7. BacklogOK' /\ CallOK'
  BY <1>1 DEF FlowInv, BacklogOK, CallOK
<1> QED BY <1>6, <1>7 DEF FlowInv

(* A session request goes to the SMF or is answered by the AMF itself. *)
LEMMA PduFlow ==
  ASSUME Types, FlowInv, handlePduSessionRequest
  PROVE  FlowInv'
<1> DEFINE g == conn
           u == Head(up[conn]).ue
           m == PduAccept(u, fallback)
<1>1. /\ Takes("PduSessionRequest") /\ Consume
      /\ UNCHANGED <<ctx, conn, backlog, gnb, crashes>>
  BY DEF handlePduSessionRequest
<1>2. Single(g, "PduSessionRequest", "pdu")
  BY <1>1, TakesFacts
<1>3. CASE Request("smf", u) /\ UNCHANGED down
  BY <1>1, <1>2, <1>3, CallBegunFlow
<1>4. CASE sendToGnb(m) /\ UNCHANGED <<amf, call>>
  <2>1. /\ g \in Gnbs /\ up'[g] = Tail(up[g]) /\ amf.pc = "idle" /\ u \in Ues /\ u = up[g][1].ue
        /\ \A h \in Gnbs \ {g} : up'[h] = up[h]
        /\ Len(up[g]) = 1 => Tail(up[g]) = << >>
    BY <1>1, ConsumeTyped, TakesTyped, HeadIsFirst
  <2>2. m \in DownFrames /\ m.type = "PduSessionAccept" /\ m.ue = u
    BY <2>1, PduAcceptTyped, AllocTyped
  <2> HIDE DEF m
  <2>3. /\ down'[g] = IF gnb[g].link = "open" THEN Append(down[g], m) ELSE down[g]
        /\ \A h \in Gnbs \ {g} : down'[h] = down[h]
    BY <1>4, <2>1, <2>2, SendToGnbTyped
  <2>4. ASSUME NEW h \in Gnbs PROVE FlowOK(h)'
    <3>1. FlowOK(h)
      BY DEF FlowInv
    <3>2. CASE h # g
      BY <1>1, <1>4, <2>1, <2>3, <3>1, <3>2, FlowSame
    <3>3. CASE h = g /\ gnb[g].link # "open"
      <4>1. FramesOK(h)'
        BY <1>1, <2>3, <3>1, <3>3 DEF FlowOK, FramesOK
      <4>2. ClosedOK(h)' /\ OpenOK(h)'
        BY <1>1, <1>2, <2>1, <3>3 DEF Single, ClosedOK, OpenOK, NoResponse
      <4> QED BY <4>1, <4>2 DEF FlowOK
    <3>4. CASE h = g /\ gnb[g].link = "open"
      <4>1. gnb[g].pc = "pdu" /\ down[g] = << >> /\ Len(up[g]) = 1 /\ u = gnb[g].ue
        BY <1>2, <2>1, <3>4 DEF Single
      <4>2. Len(down'[h]) = 1 /\ DOMAIN down'[h] = {1} /\ down'[h][1] = m
        <5>1. down'[h] = Append(<< >>, m)
          BY <2>3, <3>4, <4>1
        <5> QED BY <2>2, <5>1, SeqNil
      <4>3. Told(h, "PduSessionAccept")'
        BY <1>1, <1>4, <2>1, <2>2, <3>4, <4>1, <4>2 DEF Told, Served
      <4>4. FramesOK(h)'
        BY <2>2, <4>2 DEF FramesOK
      <4>5. OpenOK(h)' /\ ClosedOK(h)'
        BY <1>1, <3>4, <4>1, <4>3 DEF OpenOK, ClosedOK
      <4> QED BY <4>4, <4>5 DEF FlowOK
    <3> QED BY <3>2, <3>3, <3>4
  <2>5. BacklogOK' /\ CallOK'
    BY <1>1, <1>4 DEF FlowInv, BacklogOK, CallOK
  <2> QED BY <2>4, <2>5 DEF FlowInv
<1> QED BY <1>3, <1>4 DEF handlePduSessionRequest

(* Every step of the AMF; a response always matches, so none is rejected. *)
LEMMA AmfFlow ==
  ASSUME Types, FlowInv, AmfStep
  PROVE  FlowInv'
<1>1. CASE Accept \/ Disconnected
  BY <1>1, ListenFlow
<1>2. CASE handleRegistrationRequest
  <2>1. Single(conn, "RegistrationRequest", "challenge")
    BY <1>2, TakesFacts DEF handleRegistrationRequest
  <2> QED BY <1>2, <2>1, CallUdmFlow DEF handleRegistrationRequest
<1>3. CASE StoreContext
  BY <1>3, StoreContextFlow
<1>4. CASE handleAuthResponse
  <2>1. Takes("AuthenticationResponse")
    BY <1>4 DEF handleAuthResponse
  <2>2. Single(conn, "AuthenticationResponse", "verdict") /\ Responded(conn)
    BY <2>1, TakesFacts
  <2>3. Head(up[conn]) = up[conn][1]
    BY <2>1, HeadIsFirst
  <2>4. Head(up[conn]).ue \in DOMAIN ctx /\ Head(up[conn]).res = ctx[Head(up[conn]).ue]
    BY <2>2, <2>3 DEF Responded, Matches
  <2>5. callUdm("sdm", Head(up[conn]).ue)
    BY <1>4, <2>4 DEF handleAuthResponse
  <2> QED BY <2>1, <2>2, <2>4, <2>5, CallUdmFlow
<1>5. CASE SendAccept
  <2>1. /\ amf.ue \in Ues /\ amf.pc = "sdm" /\ ctx' = ctx
        /\ CallDone(N2Down("RegistrationAccept", amf.ue))
    BY <1>5 DEF SendAccept, Answered, Types, AmfType
  <2>2. /\ N2Down("RegistrationAccept", amf.ue) \in DownFrames
        /\ N2Down("RegistrationAccept", amf.ue).type = "RegistrationAccept"
        /\ N2Down("RegistrationAccept", amf.ue).ue = amf.ue
    BY <2>1, FramesTyped
  <2>3. amf.ue \in DOMAIN ctx /\ \A v \in DOMAIN ctx : ctx[v] # << >> \/ crashes > 0
    BY <2>1 DEF FlowInv, CallOK
  <2> QED BY <2>1, <2>2, <2>3, CallDoneFlow
<1>6. CASE handleRegistrationComplete
  BY <1>6, CompleteFlow
<1>7. CASE handlePduSessionRequest
  BY <1>7, PduFlow
<1>8. CASE SendPduSessionAccept
  <2> DEFINE a == IF call.st = "ok" THEN call.ip ELSE fallback
             m == PduAccept(amf.ue, a)
  <2>1. amf.ue \in Ues /\ amf.pc = "smf" /\ ctx' = ctx /\ CallDone(m) /\ call.ip \in Allocs
    BY <1>8 DEF SendPduSessionAccept, Answered, Types, AmfType, CallRec
  <2>2. a \in Allocs
    BY <2>1, AllocTyped
  <2> HIDE DEF a
  <2>3. m \in DownFrames /\ m.type = "PduSessionAccept" /\ m.ue = amf.ue
    BY <2>1, <2>2, PduAcceptTyped
  <2>4. \A v \in DOMAIN ctx : ctx[v] # << >> \/ crashes > 0
    BY DEF FlowInv, CallOK
  <2> HIDE DEF m
  <2> QED BY <2>1, <2>3, <2>4, CallDoneFlow
<1> QED BY <1>1, <1>2, <1>3, <1>4, <1>5, <1>6, <1>7, <1>8 DEF AmfStep

----------------------------------------------------------------------------
(* A step of one gNB disturbs its own connection only. *)
LEMMA OneGnbFlow ==
  ASSUME Types, FlowInv, NEW g \in Gnbs, FlowOK(g)', gnb'[g].pc # "off",
         UNCHANGED <<amf, call, ctx, conn>>, crashes' >= crashes, crashes' \in Nat,
         \A h \in Gnbs \ {g} : gnb'[h] = gnb[h] /\ up'[h] = up[h] /\ down'[h] = down[h],
         backlog' = backlog \/ backlog' = Append(backlog, g)
  PROVE  FlowInv'
<1>1. ASSUME NEW h \in Gnbs PROVE FlowOK(h)'
  <2>1. FlowOK(h)
    BY DEF FlowInv
  <2>2. CASE h = g
    BY <2>2
  <2>3. CASE h # g
    BY <2>1, <2>3, FlowSame
  <2> QED BY <2>2, <2>3
<1>2. CallOK'
  <2>1. crashes \in Nat
    BY Core5gAssumption DEF Types, CountType
  <2>2. crashes > 0 => crashes' > 0
    BY <2>1
  <2> QED BY <2>2 DEF FlowInv, CallOK
<1>3. BacklogOK'
  <2>1. backlog \in Seq(Gnbs)
    BY DEF Types, AmfType
  <2>2. \A i \in DOMAIN backlog : backlog[i] \in Gnbs /\ gnb[backlog[i]].pc # "off"
    BY <2>1 DEF FlowInv, BacklogOK
  <2>3. \A i \in DOMAIN backlog : gnb'[backlog[i]].pc # "off"
    BY <2>2
  <2>4. CASE backlog' = backlog
    BY <2>3, <2>4 DEF BacklogOK
  <2>5. CASE backlog' = Append(backlog, g)
    <3>1. ASSUME NEW i \in DOMAIN Append(backlog, g) PROVE gnb'[Append(backlog, g)[i]].pc # "off"
      <4>1. DOMAIN Append(backlog, g) = 1 .. Len(backlog) + 1 /\ DOMAIN backlog = 1 .. Len(backlog)
            /\ Len(backlog) \in Nat
        BY <2>1
      <4>2. CASE i = Len(backlog) + 1
        BY <2>1, <4>2
      <4>3. CASE i # Len(backlog) + 1
        <5>1. i \in DOMAIN backlog
          BY <4>1, <4>3
        <5>2. Append(backlog, g)[i] = backlog[i]
          BY <2>1, <4>1, <5>1
        <5> QED BY <2>3, <5>1, <5>2
      <4> QED BY <4>2, <4>3
    <3> QED BY <2>5, <3>1 DEF BacklogOK
  <2> QED BY <2>4, <2>5
<1> QED BY <1>1, <1>2, <1>3 DEF FlowInv

(* A response keeps matching while nobody touches it. *)
LEMMA RespondedSame ==
  ASSUME NEW g \in Gnbs, UNCHANGED <<amf, ctx, conn>>, up'[g] = up[g], Responded(g)
  PROVE  Responded(g)'
  BY DEF Responded, Served, Matches

(* A new connection is quiet. *)
LEMMA GnbStartFlow ==
  ASSUME Types, FlowInv, NEW g \in Gnbs, GnbStart(g)
  PROVE  FlowInv'
<1>1. /\ UNCHANGED <<amf, call, ctx, conn, up, down, crashes>> /\ gnb[g].pc = "off"
      /\ backlog' = Append(backlog, g)
  BY DEF GnbStart
<1>2. gnb'[g].pc = "cmd" /\ gnb'[g].link = "open" /\ \A h \in Gnbs \ {g} : gnb'[h] = gnb[h]
  BY GnbStartFrame
<1>3. up[g] = << >> /\ down[g] = << >> /\ conn # g
  BY <1>1 DEF FlowInv, FlowOK, OpenOK, ClosedOK
<1>4. Quiet(g)'
  <2>1. Len(<< >>) <= 1
    BY EmptySeq
  <2> QED BY <1>1, <1>3, <2>1 DEF Quiet, NoCallFor
<1>5. FlowOK(g)'
  BY <1>1, <1>2, <1>3, <1>4 DEF FlowOK, OpenOK, ClosedOK, FramesOK
<1>6. crashes \in Nat
  BY Core5gAssumption DEF Types, CountType
<1> QED BY <1>1, <1>2, <1>5, <1>6, OneGnbFlow

(* A command over a quiet connection is the one thing under way. *)
LEMMA CommandFlow ==
  ASSUME Types, FlowInv, NEW g \in Gnbs, NEW u \in Ues, doRegistration(g, u) \/ doPduSession(g, u)
  PROVE  FlowInv'
<1>1. PICK step \in {"challenge", "pdu"}, t \in {"RegistrationRequest", "PduSessionRequest"} :
        /\ doCommand(g, u, step, t)
        /\ step = "challenge" <=> t = "RegistrationRequest"
  BY DEF doRegistration, doPduSession
<1> DEFINE m == N2Up(t, u, << >>)
<1>2. /\ UNCHANGED <<amf, call, ctx, conn, backlog, down, crashes>> /\ gnb[g].pc = "cmd"
  BY <1>1 DEF doCommand, amfVars
<1>3. /\ gnb'[g].pc = step /\ gnb'[g].ue = u /\ gnb'[g].link = gnb[g].link
      /\ \A h \in Gnbs \ {g} : gnb'[h] = gnb[h] /\ up'[h] = up[h]
      /\ up'[g] = IF gnb[g].link = "open" THEN Append(up[g], m) ELSE up[g]
  BY <1>1, CommandFrame
<1>4. m \in UpFrames /\ m.type = t /\ m.ue = u
  BY FramesTyped DEF ResStars
<1> HIDE DEF m
<1>5. FlowOK(g) /\ up[g] \in Seq(UpFrames) /\ crashes \in Nat
  BY Core5gAssumption DEF FlowInv, Types, GnbType, CountType
<1>6. FramesOK(g)'
  BY <1>2, <1>3, <1>5 DEF FlowOK, FramesOK
<1>7. CASE gnb[g].link = "open"
  <2>1. Quiet(g)
    BY <1>2, <1>5, <1>7 DEF FlowOK, OpenOK
  <2>2. Asked(g, t)'
    <3>1. CASE Len(up[g]) = 0
      <4>1. up[g] = << >>
        BY <1>5, <3>1, EmptySeq
      <4>2. up'[g] = Append(<< >>, m)
        BY <1>3, <1>7, <4>1
      <4>3. Len(up'[g]) = 1 /\ up'[g][1] = m
        BY <1>4, <4>2, SeqNil
      <4>4. up'[g][Len(up'[g])] = m /\ Len(up'[g]) \in {1, 2} /\ Len(up'[g]) # 2
        BY <4>3
      <4> QED BY <1>2, <1>3, <1>4, <2>1, <4>4 DEF Asked, Quiet, NoCallFor
    <3>2. CASE Len(up[g]) = 1
      <4>1. 1 \in DOMAIN up[g] /\ up[g][1].type = "RegistrationComplete"
        BY <1>5, <2>1, <3>2, SeqOne DEF Quiet
      <4>2. up'[g] = Append(up[g], m)
        BY <1>3, <1>7
      <4>3. Len(up'[g]) = 2 /\ up'[g][1] = up[g][1] /\ up'[g][2] = m
        BY <1>4, <1>5, <3>2, <4>2, SeqAppend
      <4>4. up'[g][Len(up'[g])] = m /\ Len(up'[g]) \in {1, 2}
        BY <4>3
      <4> QED BY <1>2, <1>3, <1>4, <2>1, <4>1, <4>3, <4>4 DEF Asked, Quiet, NoCallFor
    <3>3. Len(up[g]) \in Nat /\ Len(up[g]) <= 1
      BY <1>5, <2>1 DEF Quiet
    <3>4. Len(up[g]) = 0 \/ Len(up[g]) = 1
      <4>1. \A n \in Nat : n <= 1 => n = 0 \/ n = 1
        OBVIOUS
      <4> QED BY <3>3, <4>1, Zenon
    <3> QED BY <3>1, <3>2, <3>4
  <2>3. OpenOK(g)' /\ ClosedOK(g)'
    BY <1>1, <1>3, <1>7, <2>2 DEF OpenOK, ClosedOK
  <2>4. FlowOK(g)'
    BY <1>6, <2>3 DEF FlowOK
  <2> QED BY <1>2, <1>3, <1>5, <2>4, OneGnbFlow
<1>8. CASE gnb[g].link # "open"
  <2>1. up'[g] = up[g] /\ (NoResponse(up[g]) \/ Responded(g))
    BY <1>3, <1>5, <1>8 DEF FlowOK, ClosedOK
  <2>2. OpenOK(g)' /\ ClosedOK(g)'
    BY <1>2, <1>3, <1>8, <2>1, RespondedSame DEF OpenOK, ClosedOK, NoResponse
  <2>3. FlowOK(g)'
    BY <1>6, <2>2 DEF FlowOK
  <2> QED BY <1>2, <1>3, <1>5, <2>3, OneGnbFlow
<1> QED BY <1>7, <1>8

(* A gNB that takes a frame is one the AMF has answered; over a broken     *)
(* connection it is one that was answered before.                          *)
LEMMA ReceivedFacts ==
  ASSUME Types, FlowInv, NEW g \in Gnbs, down[g] # << >>
  PROVE  /\ gnb[g].link = "open" =>
              /\ \/ gnb[g].pc = "challenge" /\ Challenged(g)
                 \/ gnb[g].pc = "verdict" /\ Told(g, "RegistrationAccept")
                 \/ gnb[g].pc = "pdu" /\ Told(g, "PduSessionAccept")
              /\ up[g] = << >> /\ Tail(down[g]) = << >> /\ Head(down[g]) = down[g][1]
              /\ Served(g, "idle")
         /\ gnb[g].link # "open" => NoResponse(up[g]) \/ Responded(g)
<1>1. FlowOK(g) /\ down[g] \in Seq(DownFrames)
  BY DEF FlowInv, Types, GnbType
<1>2. ~ Quiet(g) /\ (\A t : ~ Asked(g, t) /\ ~ InCall(g, t))
  BY DEF Quiet, Asked, InCall
<1>3. gnb[g].link = "open" =>
        \/ gnb[g].pc = "challenge" /\ Challenged(g)
        \/ gnb[g].pc = "verdict" /\ Told(g, "RegistrationAccept")
        \/ gnb[g].pc = "pdu" /\ Told(g, "PduSessionAccept")
  BY <1>1, <1>2 DEF FlowOK, OpenOK
<1>4. \A t : Told(g, t) => /\ up[g] = << >> /\ Tail(down[g]) = << >> /\ Head(down[g]) = down[g][1]
                           /\ Served(g, "idle")
  BY <1>1, SeqOne DEF Told
<1>5. Challenged(g) => Told(g, "AuthenticationRequest")
  BY DEF Challenged
<1>6. gnb[g].link # "open" => NoResponse(up[g]) \/ Responded(g)
  BY <1>1 DEF FlowOK, ClosedOK
<1> QED BY <1>3, <1>4, <1>5, <1>6

(* Taking a frame over a broken connection. *)
LEMMA TakeBrokenFlow ==
  ASSUME Types, FlowInv, NEW g \in Gnbs, down[g] # << >>, NEW next \in {"verdict", "cmd"},
         gnb[g].pc \in {"challenge", "verdict", "pdu"}, TakeDown(g, next),
         gnb[g].link # "open", up'[g] = up[g]
  PROVE  FlowOK(g)'
<1>1. UNCHANGED <<amf, ctx, conn>> /\ down[g] \in Seq(DownFrames) /\ FlowOK(g)
  BY DEF TakeDown, amfVars, Types, GnbType, FlowInv
<1>2. gnb'[g].pc = next /\ gnb'[g].link = gnb[g].link /\ down'[g] = Tail(down[g])
  BY TakeDownTyped
<1>3. OpenOK(g)' /\ ClosedOK(g)'
  BY <1>1, <1>2, RespondedSame, ReceivedFacts DEF OpenOK, ClosedOK, NoResponse
<1>4. FramesOK(g)'
  <2>1. \A i \in DOMAIN Tail(down[g]) :
          i + 1 \in DOMAIN down[g] /\ Tail(down[g])[i] = down[g][i + 1]
    BY <1>1, SeqTail
  <2> QED BY <1>1, <1>2, <2>1 DEF FlowOK, FramesOK
<1> QED BY <1>3, <1>4 DEF FlowOK

(* After its last answer a gNB's procedure is over. *)
LEMMA BackToCommand ==
  ASSUME NEW g \in Gnbs, gnb'[g].pc = "cmd", down'[g] = << >>, amf'.pc = "idle",
         \/ up'[g] = << >>
         \/ Len(up'[g]) = 1 /\ DOMAIN up'[g] = {1} /\ up'[g][1].type = "RegistrationComplete",
         gnb'[g].link = "open"
  PROVE  FlowOK(g)'
<1>1. Quiet(g)'
  <2>1. Len(<< >>) <= 1 /\ 1 <= 1
    BY EmptySeq
  <2>2. Len(up'[g]) <= 1
    BY <2>1, Zenon
  <2>3. \A i \in DOMAIN up'[g] : up'[g][i].type = "RegistrationComplete"
    OBVIOUS
  <2> QED BY <2>2, <2>3 DEF Quiet, NoCallFor
<1>2. OpenOK(g)' /\ ClosedOK(g)'
  BY <1>1 DEF OpenOK, ClosedOK
<1>3. FramesOK(g)'
  BY DEF FramesOK
<1> QED BY <1>2, <1>3 DEF FlowOK

(* The gNB answers the challenge of the context the AMF has stored. *)
LEMMA AnswerFlow ==
  ASSUME Types, FlowInv, NEW g \in Gnbs, AnswerChallenge(g)
  PROVE  FlowOK(g)' /\ gnb'[g].pc # "off"
         /\ \A h \in Gnbs \ {g} : gnb'[h] = gnb[h] /\ up'[h] = up[h] /\ down'[h] = down[h]
<1> DEFINE d == Head(down[g])
           m == N2Up("AuthenticationResponse", gnb[g].ue, byteXor(d.rand, kFor(gnb[g].ue)))
<1>1. /\ gnb[g].pc = "challenge" /\ down[g] # << >>
      /\ \/ d.type = "AuthenticationRequest" /\ TakeDown(g, "verdict") /\ Send(g, m)
         \/ d.type # "AuthenticationRequest" /\ TakeDown(g, "cmd") /\ up' = up
  BY DEF AnswerChallenge, Received
<1>2. /\ gnb'[g].pc # "off" /\ gnb'[g].link = gnb[g].link /\ down'[g] = Tail(down[g])
      /\ \A h \in Gnbs \ {g} : gnb'[h] = gnb[h] /\ down'[h] = down[h]
  BY <1>1, TakeDownTyped
<1>3. /\ m \in UpFrames /\ m.type = "AuthenticationResponse" /\ m.ue = gnb[g].ue
      /\ m.res = byteXor(d.rand, kFor(gnb[g].ue))
  <2>1. gnb[g].ue \in Ues /\ d \in DownFrames
    BY <1>1 DEF Types, GnbType, WaitsForUe
  <2>2. byteXor(d.rand, kFor(gnb[g].ue)) \in ResStars
    BY <2>1, ByteXorTyped DEF DownFrames
  <2> QED BY <2>1, <2>2, FramesTyped
<1> HIDE DEF m
<1>4. /\ \A h \in Gnbs \ {g} : up'[h] = up[h]
      /\ gnb[g].link # "open" => up'[g] = up[g]
      /\ Send(g, m) /\ gnb[g].link = "open" => up'[g] = Append(up[g], m)
  BY <1>1, <1>3, SendTyped
<1>5. UNCHANGED <<amf, ctx, conn>>
  BY <1>1 DEF TakeDown, amfVars
<1>6. CASE gnb[g].link # "open"
  BY <1>1, <1>2, <1>4, <1>6, TakeBrokenFlow
<1>7. CASE gnb[g].link = "open"
  <2>1. /\ Challenged(g) /\ up[g] = << >> /\ Tail(down[g]) = << >> /\ d = down[g][1]
        /\ Served(g, "idle")
    BY <1>1, <1>7, ReceivedFacts
  <2>2. d.type = "AuthenticationRequest"
    BY <2>1 DEF Challenged, Told
  <2>3. gnb'[g].pc = "verdict" /\ gnb'[g].ue = gnb[g].ue
    BY <1>1, <2>2, TakeDownTyped
  <2>4. up'[g] = Append(<< >>, m)
    BY <1>1, <1>4, <1>7, <2>1, <2>2
  <2>5. Len(up'[g]) = 1 /\ up'[g][1] = m
    BY <1>3, <2>4, SeqNil
  <2>6. Matches(gnb[g].ue, m.res)
    BY <1>3, <2>1 DEF Challenged
  <2>7. Responded(g)'
    BY <1>3, <1>5, <2>1, <2>5, <2>6 DEF Responded, Matches, Served
  <2>8. OpenOK(g)' /\ ClosedOK(g)'
    BY <1>2, <1>3, <1>7, <2>1, <2>3, <2>5, <2>7 DEF OpenOK, ClosedOK
  <2>9. FramesOK(g)'
    BY <1>2, <2>1 DEF FramesOK
  <2> QED BY <1>2, <1>4, <2>8, <2>9 DEF FlowOK
<1> QED BY <1>2, <1>4, <1>6, <1>7

(* After the verdict the connection is quiet, but for the completion. *)
LEMMA VerdictFlow ==
  ASSUME Types, FlowInv, NEW g \in Gnbs, TakeVerdict(g)
  PROVE  FlowOK(g)' /\ gnb'[g].pc # "off"
         /\ \A h \in Gnbs \ {g} : gnb'[h] = gnb[h] /\ up'[h] = up[h] /\ down'[h] = down[h]
<1> DEFINE m == N2Up("RegistrationComplete", gnb[g].ue, << >>)
<1>1. /\ gnb[g].pc = "verdict" /\ down[g] # << >> /\ TakeDown(g, "cmd")
      /\ \/ Head(down[g]).type = "RegistrationAccept" /\ Send(g, m)
         \/ Head(down[g]).type # "RegistrationAccept" /\ up' = up
  BY DEF TakeVerdict, Received
<1>2. /\ gnb'[g].pc = "cmd" /\ gnb'[g].link = gnb[g].link /\ down'[g] = Tail(down[g])
      /\ \A h \in Gnbs \ {g} : gnb'[h] = gnb[h] /\ down'[h] = down[h]
  BY <1>1, TakeDownTyped
<1>3. m \in UpFrames /\ m.type = "RegistrationComplete"
  <2>1. gnb[g].ue \in Ues
    BY <1>1 DEF Types, GnbType, WaitsForUe
  <2> QED BY <2>1, FramesTyped DEF ResStars
<1> HIDE DEF m
<1>4. /\ \A h \in Gnbs \ {g} : up'[h] = up[h]
      /\ gnb[g].link # "open" => up'[g] = up[g]
      /\ gnb[g].link = "open" => up'[g] = up[g] \/ up'[g] = Append(up[g], m)
  BY <1>1, <1>3, SendTyped
<1>5. CASE gnb[g].link # "open"
  BY <1>1, <1>2, <1>4, <1>5, TakeBrokenFlow
<1>6. CASE gnb[g].link = "open"
  <2>1. up[g] = << >> /\ Tail(down[g]) = << >> /\ Served(g, "idle")
    BY <1>1, <1>6, ReceivedFacts
  <2>2. \/ up'[g] = << >>
        \/ Len(up'[g]) = 1 /\ DOMAIN up'[g] = {1} /\ up'[g][1].type = "RegistrationComplete"
    <3>1. up'[g] = << >> \/ up'[g] = Append(<< >>, m)
      BY <1>4, <1>6, <2>1
    <3> QED BY <1>3, <3>1, SeqNil
  <2>3. amf'.pc = "idle"
    BY <1>1, <2>1 DEF Served, TakeDown, amfVars
  <2> QED BY <1>2, <1>4, <1>6, <2>1, <2>2, <2>3, BackToCommand
<1> QED BY <1>2, <1>4, <1>5, <1>6

(* After the session accept it is quiet. *)
LEMMA PduAcceptFlow ==
  ASSUME Types, FlowInv, NEW g \in Gnbs, TakePduAccept(g)
  PROVE  FlowOK(g)' /\ gnb'[g].pc # "off"
         /\ \A h \in Gnbs \ {g} : gnb'[h] = gnb[h] /\ up'[h] = up[h] /\ down'[h] = down[h]
<1>1. gnb[g].pc = "pdu" /\ down[g] # << >> /\ TakeDown(g, "cmd") /\ up' = up
  BY DEF TakePduAccept, Received
<1>2. /\ gnb'[g].pc = "cmd" /\ gnb'[g].link = gnb[g].link /\ down'[g] = Tail(down[g])
      /\ \A h \in Gnbs \ {g} : gnb'[h] = gnb[h] /\ down'[h] = down[h]
  BY <1>1, TakeDownTyped
<1>3. CASE gnb[g].link # "open"
  BY <1>1, <1>2, <1>3, TakeBrokenFlow
<1>4. CASE gnb[g].link = "open"
  <2>1. up[g] = << >> /\ Tail(down[g]) = << >> /\ Served(g, "idle")
    BY <1>1, <1>4, ReceivedFacts
  <2>2. amf'.pc = "idle"
    BY <1>1, <2>1 DEF Served, TakeDown, amfVars
  <2> QED BY <1>1, <1>2, <1>4, <2>1, <2>2, BackToCommand
<1> QED BY <1>1, <1>2, <1>3, <1>4

(* Over a broken connection nothing arrives. *)
LEMMA AmfClosedFlow ==
  ASSUME Types, FlowInv, NEW g \in Gnbs, AmfClosed(g)
  PROVE  FlowOK(g)' /\ gnb'[g].pc # "off"
         /\ \A h \in Gnbs \ {g} : gnb'[h] = gnb[h] /\ up'[h] = up[h] /\ down'[h] = down[h]
<1>1. /\ gnb' = [gnb EXCEPT ![g].pc = "cmd", ![g].ue = NoUe] /\ gnb \in [Gnbs -> GnbRec]
      /\ UNCHANGED <<amf, ctx, conn, up, down>> /\ gnb[g].link = "broken" /\ FlowOK(g)
  BY DEF AmfClosed, amfVars, Types, GnbType, FlowInv
<1>2. /\ gnb'[g].pc = "cmd" /\ gnb'[g].link = "broken"
      /\ \A h \in Gnbs \ {g} : gnb'[h] = gnb[h]
  BY <1>1 DEF GnbRec
<1>3. OpenOK(g)' /\ ClosedOK(g)'
  BY <1>1, <1>2, RespondedSame DEF FlowOK, OpenOK, ClosedOK, NoResponse
<1>4. FramesOK(g)'
  BY <1>1, <1>2 DEF FlowOK, FramesOK
<1> QED BY <1>1, <1>2, <1>3, <1>4 DEF FlowOK

(* Every step of a gNB's thread. *)
LEMMA GnbStepFlow ==
  ASSUME Types, FlowInv, NEW g \in Gnbs, GnbStep(g)
  PROVE  FlowInv'
<1>1. UNCHANGED <<amf, call, ctx, conn, backlog, crashes>> /\ crashes \in Nat
  BY Core5gAssumption DEF GnbStep, AnswerChallenge, TakeVerdict, TakePduAccept, AmfClosed, TakeDown,
         amfVars, Types, CountType
<1>2. FlowOK(g)' /\ gnb'[g].pc # "off"
      /\ \A h \in Gnbs \ {g} : gnb'[h] = gnb[h] /\ up'[h] = up[h] /\ down'[h] = down[h]
  BY AnswerFlow, VerdictFlow, PduAcceptFlow, AmfClosedFlow DEF GnbStep
<1> QED BY <1>1, <1>2, OneGnbFlow

(* A gNB that ends leaves at most a response that matches. *)
LEMMA GnbEndsFlow ==
  ASSUME Types, FlowInv, NEW g \in Gnbs, Quit(g) \/ SigPipe(g) \/ GnbKilled(g)
  PROVE  FlowInv'
<1>1. /\ Types' /\ gnb'[g].pc = "gone" /\ gnb'[g].link = "closed" /\ down'[g] = << >>
      /\ \A h \in Gnbs \ {g} : gnb'[h] = gnb[h] /\ down'[h] = down[h]
      /\ UNCHANGED <<amf, call, ctx, conn, backlog, up>> /\ crashes' >= crashes
  BY GnbEndsFrame
<1>2. FlowOK(g) /\ up[g] \in Seq(UpFrames)
  BY DEF FlowInv, Types, GnbType
<1>3. NoResponse(up[g]) \/ Responded(g)
  <2>1. CASE gnb[g].link # "open"
    BY <1>2, <2>1 DEF FlowOK, ClosedOK
  <2>2. CASE gnb[g].link = "open"
    <3>1. up[g] = << >> => NoResponse(up[g])
      BY DEF NoResponse
    <3>2. Quiet(g) => NoResponse(up[g])
      BY DEF Quiet, NoResponse
    <3>3. ASSUME NEW t \in {"RegistrationRequest", "PduSessionRequest"}, Asked(g, t)
          PROVE  NoResponse(up[g])
      <4>1. DOMAIN up[g] = 1 .. Len(up[g]) /\ Len(up[g]) \in {1, 2}
        BY <1>2, <3>3 DEF Asked
      <4>2. ASSUME NEW i \in DOMAIN up[g] PROVE i = Len(up[g]) \/ (i = 1 /\ Len(up[g]) = 2)
        <5>1. \A n \in {1, 2} : \A k \in 1 .. n : k = n \/ (k = 1 /\ n = 2)
          OBVIOUS
        <5> QED BY <4>1, <4>2, <5>1, Zenon
      <4> QED BY <3>3, <4>2 DEF Asked, NoResponse
    <3>4. \A t : InCall(g, t) \/ Told(g, t) => up[g] = << >>
      BY DEF InCall, Told
    <3>5. Challenged(g) => up[g] = << >>
      BY DEF Challenged, Told
    <3> QED BY <1>2, <2>2, <3>1, <3>2, <3>3, <3>4, <3>5 DEF FlowOK, OpenOK
  <2> QED BY <2>1, <2>2
<1>4. FlowOK(g)'
  <2>1. OpenOK(g)' /\ FramesOK(g)'
    BY <1>1 DEF OpenOK, FramesOK
  <2>2. ClosedOK(g)'
    BY <1>1, <1>3, RespondedSame DEF ClosedOK, NoResponse
  <2> QED BY <2>1, <2>2 DEF FlowOK
<1>5. crashes' \in Nat
  BY <1>1, Core5gAssumption DEF Types, CountType
<1> QED BY <1>1, <1>4, <1>5, OneGnbFlow

----------------------------------------------------------------------------
(* Who was told which address: the SMF's answer on its way to the AMF, the *)
(* frames to the gNBs and the sessions the gNBs have.  Each was given out  *)
(* once.  (Addresses the AMF makes up are left out: `by` is 0.)            *)
TakenIn(r, a) == a.by # 0 => a.by <= r.starts /\ (a.by = r.starts => a.n < r.counter)
Apart(a, b) == a.by # 0 => a # b

CallTaken == TakenIn(smf, call.ip)
DownTaken == \A g \in Gnbs : \A i \in DOMAIN down[g] :
               TakenIn(smf, down[g][i].ip) /\ Apart(call.ip, down[g][i].ip)
PduTaken == \A s \in pdus : TakenIn(smf, s.ip) /\ Apart(call.ip, s.ip)
PduDown == \A g \in Gnbs : \A i \in DOMAIN down[g] : \A s \in pdus : Apart(s.ip, down[g][i].ip)
DownApart == \A g, h \in Gnbs : \A i \in DOMAIN down[g] : \A j \in DOMAIN down[h] :
               (g # h \/ i # j) => Apart(down[g][i].ip, down[h][j].ip)
PduApart == \A s, t \in pdus : s # t => Apart(s.ip, t.ip)
AllocInv == CallTaken /\ DownTaken /\ PduTaken /\ PduDown /\ DownApart /\ PduApart

(* An address the AMF made up is apart from all, *)
LEMMA ApartZero ==
  ASSUME NEW a, NEW b, a.by = 0 \/ b.by = 0
  PROVE  Apart(a, b)
  BY DEF Apart

(* and being apart is symmetric. *)
LEMMA ApartSym ==
  ASSUME NEW a, NEW b, Apart(a, b)
  PROVE  Apart(b, a)
  BY DEF Apart

(* The frames are the same, or fewer, and the call's address is dropped or kept. *)
LEMMA AllocKept ==
  ASSUME AllocInv, smf' = smf, pdus' = pdus, call'.ip = call.ip \/ call'.ip.by = 0,
         \A g \in Gnbs : down'[g] = down[g] \/ down'[g] = << >>
  PROVE  AllocInv'
<1>2. \A g \in Gnbs : \A i \in DOMAIN down'[g] : i \in DOMAIN down[g] /\ down'[g][i] = down[g][i]
  OBVIOUS
<1>3. CallTaken'
  BY DEF AllocInv, CallTaken, TakenIn
<1>4. DownTaken'
  <2>1. ASSUME NEW g \in Gnbs, NEW i \in DOMAIN down'[g]
        PROVE  TakenIn(smf', down'[g][i].ip) /\ Apart(call'.ip, down'[g][i].ip)
    <3>1. TakenIn(smf, down[g][i].ip) /\ Apart(call.ip, down[g][i].ip) /\ down'[g][i] = down[g][i]
      BY <1>2 DEF AllocInv, DownTaken
    <3> QED BY <3>1, ApartZero
  <2> QED BY <2>1 DEF DownTaken, TakenIn, Apart
<1>5. PduTaken'
  <2>1. ASSUME NEW s \in pdus PROVE TakenIn(smf', s.ip) /\ Apart(call'.ip, s.ip)
    BY ApartZero DEF AllocInv, PduTaken
  <2> QED BY <2>1 DEF PduTaken, TakenIn, Apart
<1>6. PduDown'
  BY <1>2 DEF AllocInv, PduDown, Apart
<1>7. DownApart'
  BY <1>2 DEF AllocInv, DownApart, Apart
<1>8. PduApart'
  BY DEF AllocInv, PduApart, Apart
<1> QED BY <1>3, <1>4, <1>5, <1>6, <1>7, <1>8 DEF AllocInv

(* The SMF starts again: what its earlier lives gave out stays theirs. *)
LEMMA AllocRestarted ==
  ASSUME Types, AllocInv, UNCHANGED <<call, down, pdus>>,
         smf' = [counter |-> 2, starts |-> smf.starts + 1]
  PROVE  AllocInv'
<1>1. smf.starts \in Nat
  BY DEF Types, SmfType
<1>2. /\ call.ip \in Allocs /\ \A s \in pdus : s.ip \in Allocs
      /\ \A g \in Gnbs : \A i \in DOMAIN down[g] : down[g][i].ip \in Allocs
  <2>1. \A g \in Gnbs : down[g] \in Seq(DownFrames)
    BY DEF Types, GnbType
  <2>2. \A g \in Gnbs : \A i \in DOMAIN down[g] : down[g][i] \in DownFrames
    BY <2>1
  <2> QED BY <2>2 DEF Types, AmfType, GnbType, CallRec, DownFrames
<1>3. ASSUME NEW a \in Allocs, TakenIn(smf, a) PROVE TakenIn(smf', a)
  BY <1>1, <1>3, Core5gAssumption DEF TakenIn, Allocs
<1>4. CallTaken'
  BY <1>2, <1>3 DEF AllocInv, CallTaken
<1>5. DownTaken'
  BY <1>2, <1>3 DEF AllocInv, DownTaken, Apart
<1>6. PduTaken'
  BY <1>2, <1>3 DEF AllocInv, PduTaken, Apart
<1>7. PduDown' /\ DownApart' /\ PduApart'
  BY DEF AllocInv, PduDown, DownApart, PduApart, Apart
<1> QED BY <1>4, <1>5, <1>6, <1>7 DEF AllocInv

(* allocateUeIp: the address the SMF takes is nobody's. *)
LEMMA AllocFresh ==
  ASSUME Types, AllocInv, SmfCreate
  PROVE  AllocInv'
<1> DEFINE a == [by |-> smf.starts, n |-> smf.counter]
<1>1. smf \in [counter : Nat, starts : 0 .. MaxCrashes + 1] /\ call \in CallRec
  BY DEF Types, SmfType, AmfType
<1>2. smf'.counter = smf.counter + 1 /\ smf'.starts = smf.starts /\ UNCHANGED <<down, pdus>>
  BY <1>1 DEF SmfCreate, gnbVars, allocateUeIp
<1>3. call'.ip = a /\ a.by = smf.starts /\ a.n = smf.counter
  BY <1>1 DEF SmfCreate, CallRec
<1> HIDE DEF a
<1>4. /\ \A s \in pdus : s.ip \in Allocs
      /\ \A g \in Gnbs : \A i \in DOMAIN down[g] : down[g][i].ip \in Allocs
  <2>1. \A g \in Gnbs : down[g] \in Seq(DownFrames)
    BY DEF Types, GnbType
  <2>2. \A g \in Gnbs : \A i \in DOMAIN down[g] : down[g][i] \in DownFrames
    BY <2>1
  <2> QED BY <2>2 DEF Types, GnbType, DownFrames
<1>5. ASSUME NEW b \in Allocs, TakenIn(smf, b) PROVE TakenIn(smf', b) /\ Apart(a, b)
  BY <1>1, <1>2, <1>3, <1>5 DEF TakenIn, Apart, Allocs
<1>6. CallTaken'
  BY <1>1, <1>2, <1>3 DEF CallTaken, TakenIn
<1>7. DownTaken'
  <2>1. ASSUME NEW g \in Gnbs, NEW i \in DOMAIN down[g]
        PROVE  TakenIn(smf', down[g][i].ip) /\ Apart(a, down[g][i].ip)
    BY <1>4, <1>5 DEF AllocInv, DownTaken
  <2> QED BY <1>2, <1>3, <2>1 DEF DownTaken
<1>8. PduTaken'
  BY <1>2, <1>3, <1>4, <1>5 DEF AllocInv, PduTaken
<1>9. PduDown' /\ DownApart' /\ PduApart'
  BY <1>2 DEF AllocInv, PduDown, DownApart, PduApart, Apart
<1> QED BY <1>6, <1>7, <1>8, <1>9 DEF AllocInv

(* A frame with the call's address, which the call then has no more, or    *)
(* with none.                                                              *)
LEMMA AllocSent ==
  ASSUME Types, AllocInv, NEW g \in Gnbs, NEW m \in DownFrames, smf' = smf, pdus' = pdus,
         down'[g] = Append(down[g], m), \A h \in Gnbs \ {g} : down'[h] = down[h],
         \/ m.ip.by = 0 /\ (call'.ip = call.ip \/ call'.ip.by = 0)
         \/ m.ip = call.ip /\ call'.ip.by = 0
  PROVE  AllocInv'
<1>1. down[g] \in Seq(DownFrames)
  BY DEF Types, GnbType
<1> DEFINE k == Len(down[g]) + 1
<1>2. /\ DOMAIN down'[g] = DOMAIN down[g] \cup {k} /\ down'[g][k] = m /\ k \notin DOMAIN down[g]
      /\ \A i \in DOMAIN down[g] : down'[g][i] = down[g][i]
  <2>1. /\ DOMAIN Append(down[g], m) = 1 .. k /\ DOMAIN down[g] = 1 .. Len(down[g])
        /\ Len(down[g]) \in Nat
    BY <1>1
  <2>2. Append(down[g], m)[k] = m
    BY <1>1
  <2>3. \A i \in 1 .. Len(down[g]) : Append(down[g], m)[i] = down[g][i]
    BY <1>1
  <2>4. 1 .. k = (1 .. Len(down[g])) \cup {k} /\ k \notin 1 .. Len(down[g])
    BY <2>1
  <2> QED BY <2>1, <2>2, <2>3, <2>4
<1> HIDE DEF k
<1>3. \A h \in Gnbs : \A i \in DOMAIN down'[h] :
        \/ i \in DOMAIN down[h] /\ down'[h][i] = down[h][i]
        \/ h = g /\ i = k /\ down'[h][i] = m
  BY <1>2
<1>4. /\ TakenIn(smf, m.ip) /\ Apart(call'.ip, m.ip)
      /\ \A s \in pdus : Apart(s.ip, m.ip)
      /\ \A h \in Gnbs : \A i \in DOMAIN down[h] :
           Apart(m.ip, down[h][i].ip) /\ Apart(down[h][i].ip, m.ip)
  <2>1. CASE m.ip.by = 0
    BY <2>1, ApartZero DEF TakenIn
  <2>2. CASE m.ip = call.ip /\ call'.ip.by = 0
    <3>1. TakenIn(smf, call.ip) /\ Apart(call'.ip, m.ip)
      BY <2>2, ApartZero DEF AllocInv, CallTaken
    <3>2. \A s \in pdus : Apart(call.ip, s.ip)
      BY DEF AllocInv, PduTaken
    <3>3. \A h \in Gnbs : \A i \in DOMAIN down[h] : Apart(call.ip, down[h][i].ip)
      BY DEF AllocInv, DownTaken
    <3> QED BY <2>2, <3>1, <3>2, <3>3, ApartSym
  <2> QED BY <2>1, <2>2
<1>5. CallTaken'
  BY DEF AllocInv, CallTaken, TakenIn
<1>6. DownTaken'
  <2>1. ASSUME NEW h \in Gnbs, NEW i \in DOMAIN down'[h]
        PROVE  TakenIn(smf', down'[h][i].ip) /\ Apart(call'.ip, down'[h][i].ip)
    <3>1. CASE i \in DOMAIN down[h] /\ down'[h][i] = down[h][i]
      <4>1. TakenIn(smf, down[h][i].ip) /\ Apart(call.ip, down[h][i].ip)
        BY <3>1 DEF AllocInv, DownTaken
      <4> QED BY <3>1, <4>1, ApartZero
    <3>2. CASE down'[h][i] = m
      BY <1>4, <3>2
    <3> QED BY <1>3, <3>1, <3>2
  <2> QED BY <2>1 DEF DownTaken
<1>7. PduTaken'
  <2>1. ASSUME NEW s \in pdus PROVE TakenIn(smf', s.ip) /\ Apart(call'.ip, s.ip)
    BY ApartZero DEF AllocInv, PduTaken
  <2> QED BY <2>1 DEF PduTaken
<1>8. PduDown'
  <2>1. ASSUME NEW h \in Gnbs, NEW i \in DOMAIN down'[h], NEW s \in pdus
        PROVE  Apart(s.ip, down'[h][i].ip)
    BY <1>3, <1>4 DEF AllocInv, PduDown
  <2> QED BY <2>1 DEF PduDown
<1>9. DownApart'
  <2>1. ASSUME NEW h \in Gnbs, NEW l \in Gnbs, NEW i \in DOMAIN down'[h], NEW j \in DOMAIN down'[l],
               h # l \/ i # j
        PROVE  Apart(down'[h][i].ip, down'[l][j].ip)
    <3>1. CASE i \in DOMAIN down[h] /\ j \in DOMAIN down[l]
               /\ down'[h][i] = down[h][i] /\ down'[l][j] = down[l][j]
      BY <2>1, <3>1 DEF AllocInv, DownApart
    <3>2. CASE i \in DOMAIN down[h] /\ down'[h][i] = down[h][i] /\ down'[l][j] = m
      BY <1>4, <3>2
    <3>3. CASE j \in DOMAIN down[l] /\ down'[l][j] = down[l][j] /\ down'[h][i] = m
      BY <1>4, <3>3
    <3> QED BY <1>3, <2>1, <3>1, <3>2, <3>3
  <2> QED BY <2>1 DEF DownApart
<1>10. PduApart'
  BY DEF AllocInv, PduApart, Apart
<1> QED BY <1>5, <1>6, <1>7, <1>8, <1>9, <1>10 DEF AllocInv

(* A gNB takes a frame, and reports the session with the frame's address. *)
LEMMA AllocTold ==
  ASSUME Types, AllocInv, NEW g \in Gnbs, down[g] # << >>, smf' = smf, call' = call,
         down'[g] = Tail(down[g]), \A h \in Gnbs \ {g} : down'[h] = down[h], NEW u,
         pdus' \subseteq pdus \cup {[ue |-> u, ip |-> Head(down[g]).ip]}
  PROVE  AllocInv'
<1> DEFINE a == Head(down[g]).ip
           new == [ue |-> u, ip |-> a]
<1>1. down[g] \in Seq(DownFrames)
  BY DEF Types, GnbType
<1>2. 1 \in DOMAIN down[g] /\ Head(down[g]) = down[g][1]
  BY <1>1, EmptySeq
<1>3. \A i \in DOMAIN down'[g] :
        i \in Nat \ {0} /\ i + 1 \in DOMAIN down[g] /\ down'[g][i] = down[g][i + 1]
  <2>1. DOMAIN Tail(down[g]) \subseteq Nat \ {0}
    BY <1>1
  <2> QED BY <1>1, <2>1, SeqTail
<1>4. new.ip = a
  OBVIOUS
<1> DEFINE At(h, i) == IF h = g THEN i + 1 ELSE i
<1>5. \A h \in Gnbs : \A i \in DOMAIN down'[h] :
        /\ At(h, i) \in DOMAIN down[h] /\ down'[h][i] = down[h][At(h, i)]
        /\ h = g => At(h, i) # 1
  <2>1. ASSUME NEW h \in Gnbs, NEW i \in DOMAIN down'[h]
        PROVE  /\ At(h, i) \in DOMAIN down[h] /\ down'[h][i] = down[h][At(h, i)]
               /\ h = g => At(h, i) # 1
    <3>1. CASE h = g
      <4>1. i \in Nat \ {0} /\ i + 1 \in DOMAIN down[g] /\ down'[g][i] = down[g][i + 1]
        BY <1>3, <3>1
      <4>2. i + 1 # 1
        BY <4>1
      <4> QED BY <3>1, <4>1, <4>2
    <3>2. CASE h # g
      BY <3>2
    <3> QED BY <3>1, <3>2
  <2> QED BY <2>1
<1>6. \A h, l \in Gnbs : \A i \in DOMAIN down'[h] : \A j \in DOMAIN down'[l] :
        (h # l \/ i # j) => (h # l \/ At(h, i) # At(l, j))
  <2>1. ASSUME NEW h \in Gnbs, NEW i \in DOMAIN down'[h], NEW j \in DOMAIN down'[h], i # j
        PROVE  At(h, i) # At(h, j)
    <3>1. CASE h = g
      <4>1. i \in Nat /\ j \in Nat
        BY <1>3, <3>1
      <4> QED BY <2>1, <3>1, <4>1
    <3>2. CASE h # g
      BY <2>1, <3>2
    <3> QED BY <3>1, <3>2
  <2> QED BY <2>1
<1> HIDE DEF At, new
<1>7. /\ TakenIn(smf, a) /\ Apart(call.ip, a)
      /\ \A s \in pdus : Apart(s.ip, a) /\ Apart(a, s.ip)
  BY <1>2, ApartSym DEF AllocInv, DownTaken, PduDown
<1>8. \A h \in Gnbs : \A i \in DOMAIN down'[h] : Apart(a, down'[h][i].ip)
  BY <1>2, <1>5 DEF AllocInv, DownApart
<1> HIDE DEF a
<1>9. CallTaken'
  BY DEF AllocInv, CallTaken
<1>10. DownTaken'
  <2>1. ASSUME NEW h \in Gnbs, NEW i \in DOMAIN down'[h]
        PROVE  TakenIn(smf', down'[h][i].ip) /\ Apart(call'.ip, down'[h][i].ip)
    BY <1>5 DEF AllocInv, DownTaken
  <2> QED BY <2>1 DEF DownTaken
<1>11. \A s \in pdus' : s \in pdus \/ s = new
  BY DEF new, a
<1>12. PduTaken'
  BY <1>4, <1>7, <1>11 DEF AllocInv, PduTaken
<1>13. PduDown'
  <2>1. ASSUME NEW h \in Gnbs, NEW i \in DOMAIN down'[h], NEW s \in pdus'
        PROVE  Apart(s.ip, down'[h][i].ip)
    BY <1>4, <1>5, <1>8, <1>11 DEF AllocInv, PduDown
  <2> QED BY <2>1 DEF PduDown
<1>14. DownApart'
  <2>1. ASSUME NEW h \in Gnbs, NEW l \in Gnbs, NEW i \in DOMAIN down'[h], NEW j \in DOMAIN down'[l],
               h # l \/ i # j
        PROVE  Apart(down'[h][i].ip, down'[l][j].ip)
    <3>1. Apart(down[h][At(h, i)].ip, down[l][At(l, j)].ip)
      BY <1>5, <1>6, <2>1 DEF AllocInv, DownApart
    <3> QED BY <1>5, <3>1
  <2> QED BY <2>1 DEF DownApart
<1>15. PduApart'
  BY <1>4, <1>7, <1>11 DEF AllocInv, PduApart
<1> QED BY <1>9, <1>10, <1>12, <1>13, <1>14, <1>15 DEF AllocInv

(* A frame is sent, or lost with the gNB. *)
LEMMA SendAlloc ==
  ASSUME Types, AllocInv, conn \in Gnbs, NEW m \in DownFrames, sendToGnb(m),
         smf' = smf, pdus' = pdus,
         \/ m.ip.by = 0 /\ (call'.ip = call.ip \/ call'.ip.by = 0)
         \/ m.ip = call.ip /\ call'.ip.by = 0
  PROVE  AllocInv'
<1>1. /\ down'[conn] = IF gnb[conn].link = "open" THEN Append(down[conn], m) ELSE down[conn]
      /\ \A h \in Gnbs \ {conn} : down'[h] = down[h]
  BY SendToGnbTyped
<1>2. CASE gnb[conn].link = "open"
  BY <1>1, <1>2, AllocSent
<1>3. CASE gnb[conn].link # "open"
  <2>1. \A h \in Gnbs : down'[h] = down[h]
    BY <1>1, <1>3
  <2> QED BY <2>1, AllocKept
<1> QED BY <1>2, <1>3

(* Calls to the UDM carry no address. *)
LEMMA CallUdmAlloc ==
  ASSUME AllocInv, NEW s \in {"auth", "sdm"}, NEW u \in Ues, callUdm(s, u)
  PROVE  AllocInv'
<1>1. UNCHANGED <<smf, pdus, down>>
  BY DEF callUdm, AmfAborts, AmfEnds, smfVars
<1>2. call'.ip.by = 0
  BY NoCallTyped, AllocTyped, RequestTyped DEF callUdm, AmfAborts, AmfEnds
<1> QED BY <1>1, <1>2, AllocKept

(* The end of a call hands its address on. *)
LEMMA CallDoneAlloc ==
  ASSUME Types, AllocInv, amf.pc # "idle", NEW m \in DownFrames, CallDone(m),
         m.ip.by = 0 \/ m.ip = call.ip
  PROVE  AllocInv'
<1>1. conn \in Gnbs /\ sendToGnb(m) /\ smf' = smf /\ pdus' = pdus
  BY DEF CallDone, smfVars, Types, AmfType
<1>2. call'.ip.by = 0
  BY NoCallTyped, AllocTyped DEF CallDone
<1> QED BY <1>1, <1>2, SendAlloc

(* Every step of the AMF. *)
LEMMA AmfAlloc ==
  ASSUME Types, AllocInv, AmfStep
  PROVE  AllocInv'
<1>1. CASE Accept \/ Disconnected \/ handleRegistrationComplete
  BY <1>1, AllocKept DEF Accept, Disconnected, handleRegistrationComplete, smfVars, gnbVars, amfVars
<1>2. CASE handleRegistrationRequest
  BY <1>2, TakesTyped, CallUdmAlloc DEF handleRegistrationRequest
<1>3. CASE StoreContext
  <2> DEFINE m == [N2Down("AuthenticationRequest", amf.ue) EXCEPT !.rand = call.rand]
  <2>1. amf.ue \in Ues /\ call.rand \in Rands /\ amf.pc # "idle" /\ CallDone(m)
    BY <1>3 DEF StoreContext, Answered, Types, AmfType, CallRec
  <2>2. m \in DownFrames /\ m.ip.by = 0
    BY <2>1, ChallengeTyped, AllocTyped
  <2> HIDE DEF m
  <2> QED BY <2>1, <2>2, CallDoneAlloc
<1>4. CASE handleAuthResponse
  <2> DEFINE u == Head(up[conn]).ue
             m == N2Down("RegistrationReject", u)
  <2>1. u \in Ues /\ conn \in Gnbs
    BY <1>4, TakesTyped DEF handleAuthResponse
  <2>2. m \in DownFrames /\ m.ip.by = 0
    BY <2>1, FramesTyped, AllocTyped
  <2> HIDE DEF m
  <2>3. CASE callUdm("sdm", u)
    BY <2>1, <2>3, CallUdmAlloc
  <2>4. CASE sendToGnb(m) /\ UNCHANGED <<smf, pdus, call>>
    BY <2>1, <2>2, <2>4, SendAlloc
  <2>5. CASE UNCHANGED <<down, smf, pdus, call>>
    BY <2>5, AllocKept
  <2> QED BY <1>4, <2>3, <2>4, <2>5 DEF m, handleAuthResponse, smfVars, amfVars
<1>5. CASE SendAccept
  <2>1. amf.ue \in Ues /\ amf.pc # "idle" /\ CallDone(N2Down("RegistrationAccept", amf.ue))
    BY <1>5 DEF SendAccept, Answered, Types, AmfType
  <2>2. /\ N2Down("RegistrationAccept", amf.ue) \in DownFrames
        /\ N2Down("RegistrationAccept", amf.ue).ip.by = 0
    BY <2>1, FramesTyped, AllocTyped
  <2> QED BY <2>1, <2>2, CallDoneAlloc
<1>6. CASE handlePduSessionRequest
  <2> DEFINE u == Head(up[conn]).ue
             m == PduAccept(u, fallback)
  <2>1. u \in Ues /\ conn \in Gnbs /\ UNCHANGED <<smf, pdus>>
    BY <1>6, TakesTyped DEF handlePduSessionRequest, smfVars
  <2>2. m \in DownFrames /\ m.ip.by = 0
    BY <2>1, PduAcceptTyped, AllocTyped
  <2> HIDE DEF m
  <2>3. CASE sendToGnb(m) /\ UNCHANGED call
    BY <2>1, <2>2, <2>3, SendAlloc
  <2>4. CASE Request("smf", u) /\ UNCHANGED down
    <3>1. call'.ip.by = 0
      BY <2>1, <2>4, RequestTyped, AllocTyped
    <3> QED BY <2>1, <2>4, <3>1, AllocKept
  <2> QED BY <1>6, <2>3, <2>4 DEF m, handlePduSessionRequest
<1>7. CASE SendPduSessionAccept
  <2> DEFINE a == IF call.st = "ok" THEN call.ip ELSE fallback
             m == PduAccept(amf.ue, a)
  <2>1. amf.ue \in Ues /\ amf.pc # "idle" /\ CallDone(m) /\ call.ip \in Allocs
    BY <1>7 DEF SendPduSessionAccept, Answered, Types, AmfType, CallRec
  <2>2. a \in Allocs /\ (a.by = 0 \/ a = call.ip)
    BY <2>1, AllocTyped
  <2> HIDE DEF a
  <2>3. m \in DownFrames /\ m.ip = a
    BY <2>1, <2>2, PduAcceptTyped
  <2> HIDE DEF m
  <2> QED BY <2>1, <2>2, <2>3, CallDoneAlloc
<1> QED BY <1>1, <1>2, <1>3, <1>4, <1>5, <1>6, <1>7 DEF AmfStep

(* Every step of the other network functions. *)
LEMMA NfAlloc ==
  ASSUME Types, AllocInv,
         \/ \E nf \in NFs : Start(nf) \/ registerSelf(nf) \/ Crash(nf)
         \/ discover \/ UdmHandle \/ SmfCreate \/ SmfReply \/ UpfEstablish \/ N4Lost
  PROVE  AllocInv'
<1>1. ASSUME NEW nf \in NFs, Start(nf) PROVE AllocInv'
  <2>1. UNCHANGED <<call, down, pdus>>
    BY <1>1 DEF Start, amfVars, gnbVars
  <2>2. CASE nf = "SMF"
    BY <1>1, <2>1, <2>2, AllocRestarted DEF Start
  <2>3. CASE nf # "SMF"
    BY <1>1, <2>1, <2>3, AllocKept DEF Start
  <2> QED BY <2>2, <2>3
<1>2. CASE (\E nf \in NFs : registerSelf(nf)) \/ discover \/ UpfEstablish \/ N4Lost
  <2>1. UNCHANGED <<smf, call, down, pdus>>
    BY <1>2 DEF registerSelf, discover, DiscoverPeer, UpfEstablish, N4Lost, amfVars,
         smfVars, gnbVars
  <2> QED BY <2>1, AllocKept
<1>3. ASSUME NEW nf \in NFs, Crash(nf) PROVE AllocInv'
  <2>1. UNCHANGED <<smf, down, pdus>>
    BY <1>3 DEF Crash, AmfEnds, smfVars, gnbVars
  <2>2. call' = call \/ call' = NoCall \/ call' = [NoCall EXCEPT !.st = "closed"]
    BY <1>3 DEF Crash, AmfEnds
  <2>3. call'.ip = call.ip \/ call'.ip.by = 0
    BY <2>2, NoCallTyped, AllocTyped
  <2> QED BY <2>1, <2>3, AllocKept
<1>4. CASE UdmHandle \/ SmfReply
  <2>1. UNCHANGED <<smf, down, pdus>>
    BY <1>4 DEF UdmHandle, SmfReply, smfVars, gnbVars
  <2>2. call'.ip = call.ip
    BY <1>4 DEF UdmHandle, SmfReply, Types, AmfType, CallRec
  <2> QED BY <2>1, <2>2, AllocKept
<1>5. CASE SmfCreate
  BY <1>5, AllocFresh
<1> QED BY <1>1, <1>2, <1>3, <1>4, <1>5

(* Every step of a gNB. *)
LEMMA GnbAlloc ==
  ASSUME Types, AllocInv, NEW g \in Gnbs,
         \/ GnbStart(g) \/ GnbStep(g) \/ Quit(g) \/ SigPipe(g) \/ GnbKilled(g)
         \/ \E u \in Ues : doRegistration(g, u) \/ doPduSession(g, u)
  PROVE  AllocInv'
<1>1. CASE GnbStart(g) \/ AmfClosed(g) \/ \E u \in Ues : doRegistration(g, u) \/ doPduSession(g, u)
  <2>1. UNCHANGED <<smf, call, down, pdus>>
    BY <1>1 DEF GnbStart, AmfClosed, doRegistration, doPduSession, doCommand, smfVars, amfVars
  <2> QED BY <2>1, AllocKept
<1>2. CASE Quit(g) \/ SigPipe(g) \/ GnbKilled(g)
  <2>1. /\ UNCHANGED <<smf, call, pdus>> /\ down'[g] = << >>
        /\ \A h \in Gnbs \ {g} : down'[h] = down[h]
    BY <1>2, GnbEndsFrame
  <2> QED BY <2>1, AllocKept
<1>3. CASE AnswerChallenge(g) \/ TakeVerdict(g) \/ TakePduAccept(g)
  <2>1. /\ TakeDown(g, "verdict") \/ TakeDown(g, "cmd")
        /\ down[g] # << >> /\ gnb[g].pc \in {"challenge", "verdict", "pdu"}
    BY <1>3 DEF AnswerChallenge, TakeVerdict, TakePduAccept, Received
  <2>2. pdus' \subseteq pdus \cup {[ue |-> gnb[g].ue, ip |-> Head(down[g]).ip]}
    BY <1>3 DEF AnswerChallenge, TakeVerdict, TakePduAccept
  <2>3. down'[g] = Tail(down[g]) /\ \A h \in Gnbs \ {g} : down'[h] = down[h]
    BY <2>1, TakeDownTyped
  <2>4. UNCHANGED <<smf, call>>
    BY <2>1 DEF TakeDown, smfVars, amfVars
  <2> QED BY <2>1, <2>2, <2>3, <2>4, AllocTold
<1> QED BY <1>1, <1>2, <1>3 DEF GnbStep
----------------------------------------------------------------------------
Inv == Types /\ FlowInv /\ AllocInv

(* It holds at the start, *)
LEMMA InitInv == Init => Inv
<1> SUFFICES ASSUME Init PROVE Inv
  OBVIOUS
<1>1. NfType /\ CountType
  BY Core5gAssumption DEF Init, NfType, CountType, NFs
<1>2. AmfType
  BY NoCallTyped, EmptySeq DEF Init, AmfType, AmfIdle, AmfRec, NoUe
<1>3. SmfType
  <2>1. << >> \in Seq(N4Rec) /\ << >> \in Seq(UpfRec)
    BY EmptySeq
  <2> QED BY <2>1, Core5gAssumption DEF Init, SmfType
<1>4. GnbType
  <2>1. << >> \in Seq(UpFrames) /\ << >> \in Seq(DownFrames)
    BY EmptySeq
  <2>2. GnbOff \in GnbRec /\ WaitsForUe(GnbOff)
    BY DEF GnbOff, GnbRec, WaitsForUe
  <2>3. gnb \in [Gnbs -> GnbRec] /\ \A g \in Gnbs : WaitsForUe(gnb[g])
    BY <2>2 DEF Init
  <2> QED BY <2>1, <2>3 DEF Init, GnbType
<1>5. StartsOK
  BY DEF Init, StartsOK
<1>6. FlowInv
  <2>1. ASSUME NEW g \in Gnbs PROVE FlowOK(g)
    <3>1. gnb[g].link # "open" /\ up[g] = << >> /\ down[g] = << >> /\ conn # g
      BY Core5gAssumption DEF Init, GnbOff
    <3>2. NoResponse(<< >>)
      BY DEF NoResponse
    <3> QED BY <3>1, <3>2 DEF FlowOK, OpenOK, ClosedOK, FramesOK
  <2>2. BacklogOK
    BY DEF Init, BacklogOK
  <2>3. CallOK
    BY NoCallTyped DEF Init, CallOK, AmfIdle
  <2> QED BY <2>1, <2>2, <2>3 DEF FlowInv
<1>7. AllocInv
  <2>1. call.ip.by = 0 /\ pdus = {} /\ \A g \in Gnbs : down[g] = << >>
    BY NoCallTyped, AllocTyped DEF Init
  <2> QED BY <2>1 DEF AllocInv, CallTaken, DownTaken, PduTaken, PduDown, DownApart,
                      PduApart, TakenIn
<1> QED BY <1>1, <1>2, <1>3, <1>4, <1>5, <1>6, <1>7 DEF Inv, Types

(* is preserved by every step *)
LEMMA NextInv == Inv /\ [Next]_vars => Inv'
<1> SUFFICES ASSUME Inv, [Next]_vars PROVE Inv'
  OBVIOUS
<1> USE DEF Inv
<1>1. ASSUME NEW nf \in NFs, Start(nf) PROVE Inv'
  BY <1>1, StartTypes, NfFlow, NfAlloc
<1>2. CASE (\E nf \in NFs : registerSelf(nf)) \/ discover
  BY <1>2, NrfTypes, NfFlow, NfAlloc
<1>3. ASSUME NEW nf \in NFs, Crash(nf) PROVE Inv'
  <2>1. CASE nf = "AMF"
    BY <1>3, <2>1, CrashTypes, AmfGoneFlow, NfAlloc DEF Crash
  <2>2. CASE nf # "AMF"
    BY <1>3, <2>2, CrashTypes, NfFlow, NfAlloc
  <2> QED BY <2>1, <2>2
<1>4. CASE AmfStep
  BY <1>4, AmfTypes, AmfFlow, AmfAlloc
<1>5. CASE UdmHandle \/ SmfCreate \/ SmfReply \/ UpfEstablish \/ N4Lost
  BY <1>5, CoreTypes, NfFlow, NfAlloc
<1>6. ASSUME NEW g \in Gnbs, GnbStart(g) PROVE Inv'
  BY <1>6, GnbStartFrame, GnbStartFlow, GnbAlloc
<1>7. ASSUME NEW g \in Gnbs, GnbStep(g) PROVE Inv'
  BY <1>7, GnbStepTypes, GnbStepFlow, GnbAlloc
<1>8. ASSUME NEW g \in Gnbs, Quit(g) \/ SigPipe(g) \/ GnbKilled(g) PROVE Inv'
  BY <1>8, GnbEndsFrame, GnbEndsFlow, GnbAlloc
<1>9. ASSUME NEW g \in Gnbs, NEW u \in Ues, doRegistration(g, u) \/ doPduSession(g, u) PROVE Inv'
  <2>1. Types'
    BY <1>9, CommandFrame DEF doRegistration, doPduSession
  <2> QED BY <1>9, <2>1, CommandFlow, GnbAlloc
<1>10. CASE UNCHANGED vars
  <2>1. UNCHANGED <<proc, profiles, found, amf, call, ctx, conn, backlog, vectors, smf, n4,
                    sessions, gnb, up, down, pdus, commands, crashes>>
    BY <1>10 DEF vars, nfVars, amfVars, smfVars, gnbVars
  <2>2. Types'
    BY <2>1 DEF Types, NfType, AmfType, SmfType, GnbType, CountType, StartsOK
  <2>3. CallOK'
    BY <2>1 DEF FlowInv, CallOK
  <2> QED BY <2>1, <2>2, <2>3, UnseenFlow, AllocKept
<1> QED BY <1>1, <1>2, <1>3, <1>4, <1>5, <1>6, <1>7, <1>8, <1>9, <1>10 DEF Next

(* and so holds always. *)
LEMMA InvAlways == Spec => []Inv
<1>1. Init => Inv
  BY InitInv
<1>2. Inv /\ [Next]_vars => Inv'
  BY NextInv
<1> QED BY <1>1, <1>2, PTL DEF Spec
----------------------------------------------------------------------------
(* Every value stays in its range, whatever is restarted. *)
THEOREM Core5gTypeCorrect == Spec => []TypeOK
<1>1. Inv => TypeOK
  BY TypesAreTypeOK DEF Inv
<1> QED BY <1>1, InvAlways, PTL

(* No registration is rejected, and one that is accepted was challenged    *)
(* unless a process was killed.                                            *)
THEOREM Core5gVerdictsRight == Spec => []VerdictsRight
<1>1. ASSUME Inv PROVE VerdictsRight
  <2>1. ASSUME NEW g \in Gnbs, NEW i \in DOMAIN down[g]
        PROVE  /\ down[g][i].type # "RegistrationReject"
               /\ (down[g][i].type = "RegistrationAccept" /\ gnb[g].link = "open")
                     => (ctx[down[g][i].ue] # << >> \/ crashes > 0)
    <3>1. FramesOK(g) /\ CallOK
      BY <1>1 DEF Inv, FlowInv, FlowOK
    <3> QED BY <2>1, <3>1 DEF FramesOK, CallOK
  <2> QED BY <2>1 DEF VerdictsRight
<1>2. Inv => VerdictsRight
  BY <1>1
<1> QED BY <1>2, InvAlways, PTL

(* Arithmetic of the address pool. *)
LEMMA DivMod ==
  ASSUME NEW a \in Nat, NEW P \in Nat \ {0}
  PROVE  a = (a \div P) * P + (a % P) /\ a \div P \in Nat /\ a % P \in Nat
  OBVIOUS

(* Different multiples of P differ by P or more. *)
LEMMA MultiplesApart ==
  ASSUME NEW x \in Nat, NEW y \in Nat, NEW P \in Nat \ {0}, x * P < y * P
  PROVE  y * P - x * P >= P
<1>1. x < y
  <2>1. SUFFICES ASSUME y <= x PROVE y * P <= x * P
    OBVIOUS
  <2> QED BY <2>1
<1>2. PICK d \in Nat : y = x + 1 + d
  <2>1. y - x - 1 \in Nat /\ y = x + 1 + (y - x - 1)
    BY <1>1
  <2> QED BY <2>1
<1>3. y * P = x * P + P + d * P
  BY <1>2
<1>4. d * P \in Nat
  OBVIOUS
<1> QED BY <1>3, <1>4

(* Two counters with the same address are at least the pool apart. *)
LEMMA SameAddressFarApart ==
  ASSUME NEW a \in Nat, NEW b \in Nat, NEW P \in Nat \ {0}, a % P = b % P, a < b
  PROVE  b - a >= P
<1> DEFINE x == a \div P
           y == b \div P
<1>1. a = x * P + (a % P) /\ b = y * P + (a % P) /\ x \in Nat /\ y \in Nat /\ a % P \in Nat
  BY DivMod
<1> HIDE DEF x, y
<1>2. x * P < y * P /\ b - a = y * P - x * P
  BY <1>1
<1>3. y * P - x * P >= P
  BY <1>1, <1>2, MultiplesApart
<1> QED BY <1>2, <1>3

(* Addresses are shared only in the three ways the code allows. *)
THEOREM Core5gSharedAddressExplained == Spec => []SharedAddressExplained
<1>1. ASSUME Inv PROVE SharedAddressExplained
  <2>1. ASSUME NEW s \in pdus, NEW t \in pdus, s # t, s.ip.n % PoolSize = t.ip.n % PoolSize,
               s.ip.by # 0, t.ip.by # 0, s.ip.by = t.ip.by
        PROVE  s.ip.n - t.ip.n >= PoolSize \/ t.ip.n - s.ip.n >= PoolSize
    <3>1. s.ip \in Allocs /\ t.ip \in Allocs /\ Apart(s.ip, t.ip)
      BY <1>1, <2>1 DEF Inv, Types, GnbType, AllocInv, PduApart
    <3>2. s.ip.n \in Nat /\ t.ip.n \in Nat /\ s.ip.n # t.ip.n
      BY <2>1, <3>1 DEF Apart, Allocs
    <3>3. PoolSize \in Nat \ {0}
      BY Core5gAssumption
    <3>4. CASE s.ip.n < t.ip.n
      BY <2>1, <3>2, <3>3, <3>4, SameAddressFarApart
    <3>5. CASE t.ip.n < s.ip.n
      BY <2>1, <3>2, <3>3, <3>5, SameAddressFarApart
    <3> QED BY <3>2, <3>4, <3>5
  <2> QED BY <2>1 DEF SharedAddressExplained, ueIpAddress
<1>2. Inv => SharedAddressExplained
  BY <1>1
<1> QED BY <1>2, InvAlways, PTL

----------------------------------------------------------------------------
(* As long as nobody is killed, the UDM and the NRF are there, the AMF knows *)
(* the UDM when it has asked for it, and serves no gNB earlier.              *)
Undisturbed ==
  /\ crashes = 0
  /\ "UDM" \in Running
  /\ "NRF" \in Running \/ "UDM" \in DefaultFinds

KnowsUdm == "AMF-UDM" \in found \/ "UDM" \in DefaultFinds

KeptOK ==
  /\ proc["UDM"] = "up"
  /\ "NRF" \in Running => proc["NRF"] = "up" /\ "UDM" \in profiles
  /\ proc["AMF"] \in {"discoverSmf", "up"} => KnowsUdm
  /\ conn # "none" => proc["AMF"] = "up"
  /\ \A g \in Gnbs : gnb[g].link # "broken"

KeptInv == Undisturbed => KeptOK

(* A step that leaves the network functions alone keeps it, unless it      *)
(* accepts a gNB or ends the AMF.                                          *)
LEMMA KeptSame ==
  ASSUME KeptOK, UNCHANGED nfVars, conn' \in {conn, "none"} \/ proc["AMF"] = "up",
         \A g \in Gnbs : gnb'[g].link # "broken" \/ gnb'[g].link = gnb[g].link
  PROVE  KeptOK'
  BY DEF KeptOK, KnowsUdm, nfVars

(* Starting and asking the NRF: the NRF has the UDM's profile. *)
LEMMA NfKept ==
  ASSUME Types, Undisturbed, KeptOK,
         (\E nf \in NFs : Start(nf) \/ registerSelf(nf)) \/ discover
  PROVE  KeptOK'
<1>1. /\ proc \in [NFs -> {"down", "discover", "register", "discoverSmf", "up"}]
      /\ NFs = {"NRF", "UDM", "SMF", "UPF", "AMF"}
  BY DEF Types, NfType, NFs
<1>2. UNCHANGED <<conn, gnb>>
  BY DEF Start, registerSelf, discover, DiscoverPeer, amfVars, gnbVars
<1>3. CASE \E nf \in NFs : Start(nf)
  BY <1>1, <1>2, <1>3 DEF Start, FirstStep, KeptOK, KnowsUdm
<1>4. CASE \E nf \in NFs : registerSelf(nf)
  BY <1>1, <1>2, <1>4 DEF registerSelf, AfterRegister, KeptOK, KnowsUdm
<1>5. CASE discover
  <2>1. CASE proc["AMF"] = "discover" /\ DiscoverPeer("AMF", "UDM", "AMF-UDM", "discoverSmf")
    BY <1>1, <1>2, <2>1 DEF DiscoverPeer, KeptOK, KnowsUdm, Undisturbed
  <2>2. CASE proc["AMF"] = "discoverSmf" /\ DiscoverPeer("AMF", "SMF", "AMF-SMF", "up")
    BY <1>1, <1>2, <2>2 DEF DiscoverPeer, KeptOK, KnowsUdm
  <2>3. CASE proc["SMF"] = "discover" /\ DiscoverPeer("SMF", "UPF", "SMF-UPF", "register")
    BY <1>1, <1>2, <2>3 DEF DiscoverPeer, KeptOK, KnowsUdm
  <2> QED BY <1>5, <2>1, <2>2, <2>3 DEF discover
<1> QED BY <1>3, <1>4, <1>5

(* callUdm reaches the UDM. *)
LEMMA CallUdmKept ==
  ASSUME KeptOK, conn # "none", NEW step, NEW u, callUdm(step, u)
  PROVE  KeptOK'
<1>1. Reachable("AMF-UDM", "UDM")
  BY DEF KeptOK, KnowsUdm, Reachable, Listening
<1>2. UNCHANGED nfVars /\ conn' = conn /\ gnb' = gnb
  BY <1>1 DEF callUdm
<1> QED BY <1>2, KeptSame

(* The AMF's steps. *)
LEMMA AmfKept ==
  ASSUME KeptOK, AmfStep
  PROVE  KeptOK'
<1>1. CASE Accept
  BY <1>1, KeptSame DEF Accept, gnbVars
<1>2. CASE Disconnected
  BY <1>2, KeptSame DEF Disconnected, gnbVars
<1>3. CASE handleRegistrationRequest
  BY <1>3, CallUdmKept DEF handleRegistrationRequest, Takes
<1>4. CASE handleAuthResponse
  <2>1. CASE callUdm("sdm", Head(up[conn]).ue)
    BY <1>4, <2>1, CallUdmKept DEF handleAuthResponse, Takes
  <2>2. CASE UNCHANGED <<nfVars, amfVars, gnb>>
    BY <2>2, KeptSame DEF amfVars
  <2> QED BY <1>4, <2>1, <2>2 DEF handleAuthResponse
<1>5. CASE StoreContext \/ SendAccept \/ SendPduSessionAccept
  BY <1>5, KeptSame DEF StoreContext, SendAccept, SendPduSessionAccept, CallDone
<1>6. CASE handleRegistrationComplete \/ handlePduSessionRequest
  BY <1>6, KeptSame DEF handleRegistrationComplete, handlePduSessionRequest, amfVars
<1> QED BY <1>1, <1>2, <1>3, <1>4, <1>5, <1>6 DEF AmfStep

(* The gNBs' steps break no connection. *)
LEMMA GnbKept ==
  ASSUME Types, KeptOK, NEW g \in Gnbs,
         \/ GnbStart(g) \/ GnbStep(g) \/ Quit(g) \/ SigPipe(g) \/ GnbKilled(g)
         \/ \E u \in Ues : doRegistration(g, u) \/ doPduSession(g, u)
  PROVE  KeptOK'
<1>1. UNCHANGED nfVars /\ conn' = conn
  BY DEF GnbStart, GnbStep, AnswerChallenge, TakeVerdict, TakePduAccept, TakeDown, AmfClosed,
         Quit, SigPipe, GnbKilled, GnbEnds, doRegistration, doPduSession, doCommand, amfVars
<1>2. gnb \in [Gnbs -> GnbRec]
  BY DEF Types, GnbType
<1>3. \A h \in Gnbs : gnb'[h].link # "broken" \/ gnb'[h].link = gnb[h].link
  <2>1. CASE GnbStart(g)
    BY <1>2, <2>1 DEF GnbStart
  <2>2. CASE GnbStep(g)
    <3>1. \E p, u : gnb' = [gnb EXCEPT ![g].pc = p, ![g].ue = u]
      BY <2>2 DEF GnbStep, AnswerChallenge, TakeVerdict, TakePduAccept, TakeDown, AmfClosed
    <3> QED BY <1>2, <3>1 DEF GnbRec
  <2>3. CASE Quit(g) \/ SigPipe(g) \/ GnbKilled(g)
    BY <1>2, <2>3 DEF Quit, SigPipe, GnbKilled, GnbEnds, GnbOff
  <2>4. ASSUME NEW u \in Ues, doRegistration(g, u) \/ doPduSession(g, u)
        PROVE  \A h \in Gnbs : gnb'[h].link = gnb[h].link
    BY <1>2, <2>4 DEF doRegistration, doPduSession, doCommand, GnbRec
  <2> QED BY <2>1, <2>2, <2>3, <2>4
<1> QED BY <1>1, <1>3, KeptSame

(* Only a kill is counted. *)
LEMMA OnlyKillsCount ==
  ASSUME Next, ~ \E nf \in NFs : Crash(nf), ~ \E g \in Gnbs : GnbKilled(g)
  PROVE  crashes' = crashes
<1>1. ASSUME NEW nf \in NFs, Start(nf) \/ registerSelf(nf) PROVE crashes' = crashes
  BY <1>1 DEF Start, registerSelf
<1>2. ASSUME discover PROVE crashes' = crashes
  BY <1>2 DEF discover, DiscoverPeer
<1>3. ASSUME AmfStep PROVE crashes' = crashes
  <2>1. ASSUME NEW step, NEW u, callUdm(step, u) PROVE crashes' = crashes
    BY <2>1 DEF callUdm, AmfAborts
  <2>2. CASE Accept \/ Disconnected \/ handleRegistrationComplete \/ handlePduSessionRequest
    BY <2>2 DEF Accept, Disconnected, handleRegistrationComplete, handlePduSessionRequest
  <2>3. CASE handleRegistrationRequest \/ handleAuthResponse
    BY <2>1, <2>3 DEF handleRegistrationRequest, handleAuthResponse
  <2>4. CASE StoreContext \/ SendAccept \/ SendPduSessionAccept
    BY <2>4 DEF StoreContext, SendAccept, SendPduSessionAccept, CallDone
  <2> QED BY <1>3, <2>2, <2>3, <2>4 DEF AmfStep
<1>4. ASSUME UdmHandle \/ SmfCreate \/ SmfReply \/ UpfEstablish \/ N4Lost
      PROVE  crashes' = crashes
  BY <1>4 DEF UdmHandle, SmfCreate, SmfReply, UpfEstablish, N4Lost
<1>5. ASSUME NEW g \in Gnbs,
             \/ GnbStart(g) \/ GnbStep(g) \/ Quit(g) \/ SigPipe(g)
             \/ \E u \in Ues : doRegistration(g, u) \/ doPduSession(g, u)
      PROVE  crashes' = crashes
  BY <1>5 DEF GnbStart, GnbStep, AnswerChallenge, TakeVerdict, TakePduAccept, TakeDown, AmfClosed,
              Quit, SigPipe, doRegistration, doPduSession, doCommand
<1> QED BY <1>1, <1>2, <1>3, <1>4, <1>5 DEF Next

(* No gNB loses its AMF unless a process is killed: whatever the order in  *)
(* which the processes are started, callUdm always reaches the UDM.        *)
THEOREM Core5gAmfKeptWithoutKill == Spec => []AmfKeptWithoutKill
<1>1. Init => KeptInv
  <2> SUFFICES ASSUME Init, Undisturbed PROVE KeptOK
    BY DEF KeptInv
  <2>1. proc["UDM"] = "up" /\ proc["AMF"] = "down" /\ conn = "none"
    BY Core5gAssumption DEF Init, Undisturbed, NFs
  <2>2. "NRF" \in Running => proc["NRF"] = "up" /\ "UDM" \in profiles
    BY DEF Init, Undisturbed, NFs
  <2>3. \A g \in Gnbs : gnb[g].link = "closed"
    BY DEF Init, GnbOff
  <2> QED BY <2>1, <2>2, <2>3 DEF KeptOK
<1>2. Inv /\ KeptInv /\ [Next]_vars => KeptInv'
  <2> SUFFICES ASSUME Inv, KeptInv, [Next]_vars, Undisturbed' PROVE KeptOK'
    BY DEF KeptInv
  <2>0. Types /\ crashes \in Nat /\ crashes' = 0
    BY Core5gAssumption DEF Inv, Types, CountType, Undisturbed
  <2>1. ~ \E nf \in NFs : Crash(nf)
    BY <2>0 DEF Crash
  <2>2. CASE UNCHANGED vars
    BY <2>2, KeptSame DEF vars, KeptInv, Undisturbed, amfVars, gnbVars
  <2>3. CASE Next
    <3>1. Undisturbed
      <4>1. ~ \E g \in Gnbs : GnbKilled(g)
        BY <2>0 DEF GnbKilled
      <4>2. crashes' = crashes
        BY <2>1, <2>3, <4>1, OnlyKillsCount
      <4> QED BY <2>0, <4>2 DEF Undisturbed
    <3>2. KeptOK
      BY <3>1 DEF KeptInv
    <3>3. CASE UdmHandle \/ SmfCreate \/ SmfReply \/ UpfEstablish \/ N4Lost
      BY <3>2, <3>3, KeptSame DEF UdmHandle, SmfCreate, SmfReply, UpfEstablish, N4Lost,
                                  amfVars, gnbVars
    <3> QED BY <2>0, <2>1, <2>3, <3>1, <3>2, <3>3, NfKept, AmfKept, GnbKept DEF Next
  <2> QED BY <2>2, <2>3
<1>3. KeptInv => AmfKeptWithoutKill
  BY DEF KeptInv, KeptOK, Undisturbed, AmfKeptWithoutKill
<1> QED BY InvAlways, <1>1, <1>2, <1>3, PTL DEF Spec
=============================================================================
