----------------------------- MODULE Ims_proofs -----------------------------
(***************************************************************************)
(* Theorems about Ims for any UEs, Call-IDs, vocabulary and bounds.  Type  *)
(* correctness and that a 200 OK connects only the caller of an accepted   *)
(* call need an invariant about the messages in every queue and in every   *)
(* thread's hands (IInv): an INVITE names a UE that has sent one for its   *)
(* call, so do the maps of the P-CSCF and the S-CSCF, and the 200 OK to an *)
(* INVITE belongs to a call that somebody accepted.  That a REG ends       *)
(* and that a call rings need one that follows a REGISTER and an INVITE    *)
(* over all the hops (WayInv): neither is ever lost.                       *)
(***************************************************************************)
EXTENDS Ims, SequenceTheorems, TLAPS

(* The 200 OK that makes a UE show CALL CONNECTED. *)
Connects(m) == m.type = "200" /\ m.body \in {"INVITE", ""}

(* What has happened, in F, to the call c. *)
AcceptedIn(F, c) == \E v \in Ues : <<v, c, "accepted">> \in F
Invited(F, v, c) == <<v, Root(c), "invited">> \in F

Sound(m, F) ==
  /\ m.type = "INVITE" => m.from \in Ues /\ Invited(F, m.from, m.id)
  /\ Connects(m) => m.from = Nobody /\ AcceptedIn(F, m.id)

(* Every call accepted in F is accepted in G, and so are the INVITEs. *)
Keeps(F, G) ==
  /\ \A v, c : <<v, c, "accepted">> \in F => <<v, c, "accepted">> \in G
  /\ \A v, c : <<v, c, "invited">> \in F => <<v, c, "invited">> \in G

(* What connects, in the queue s to UE v, is about a call v has sent an    *)
(* INVITE for.                                                             *)
Reaches(v, s, F) ==
  \A i \in DOMAIN s : Connects(s[i]) => Invited(F, v, s[i].id)

AllSound(s, F) == \A i \in DOMAIN s : Sound(s[i], F)

QueueOK(s, F) == s \in Seq(Msgs) /\ AllSound(s, F)

UeRec == [on : BOOLEAN, life : 0 .. MaxQuits + 1, st : States,
          call : CallIds, callee : Impus, seq : Nat,
          cmd : (Commands \X Impus) \cup {NoCommand}]
ThreadRec == [pc : {"recv", "send", "erase"}, msg : Msgs]

UeOK ==
  /\ ue \in [Ues -> UeRec]
  /\ \A u \in Ues : ue[u].on => ue[u].life > 0

QueueFor(v, s, F) == QueueOK(s, F) /\ Reaches(v, s, F)

DownOK == /\ down \in [Ues -> Seq(Msgs)]
          /\ \A u \in Ues : QueueFor(u, down[u], fates)
UpOK   == up \in [Conns -> Seq(Msgs)] /\ \A k \in Conns : AllSound(up[k], fates)
WireOK == QueueOK(wire, fates)
ToPOK  == QueueOK(toP, fates)
PthOK  == /\ pth \in [Conns -> ThreadRec]
          /\ \A k \in Conns : Sound(pth[k].msg, fates)

RouteOK == route \in [Ues -> Conns \cup {<<Nobody, 0>>}]
CallersOK(f, F) ==
  /\ DOMAIN f \subseteq CallIds
  /\ \A c \in DOMAIN f : f[c] \in Ues /\ Invited(F, f[c], c)
CalleesOK(f) == DOMAIN f \subseteq CallIds /\ \A c \in DOMAIN f : f[c] \in Impus
MapsOK  == /\ RouteOK /\ CallersOK(caller, fates) /\ CalleesOK(callee)
           /\ delivered \subseteq CallIds

TargetOK == /\ target \in Impus \cup {"-"}
            /\ target # "-" => toP # << >> /\ Head(toP).body \in ToBoth

CallsOK(f, F) ==
  /\ DOMAIN f \subseteq CallIds
  /\ \A c \in DOMAIN f : /\ f[c] \in [caller : Ues, callee : Impus]
                         /\ Invited(F, f[c].caller, c)
ScscfOK == scscf \in [pc : {"loop", "saa", "ended"}, impu : Impus]
CxOK    == cx \in [sar : Nat, saa : Nat]
FatesOK == fates \subseteq Impus \X CallIds \X Fates
RestOK  == /\ barred \subseteq Ues /\ server \in {"up", "dead"}
           /\ commands \in 0 .. MaxCommands /\ quits \in 0 .. MaxQuits
           /\ timeouts \in 0 .. MaxTimeouts

IInv == /\ UeOK /\ DownOK /\ UpOK /\ WireOK /\ ToPOK /\ PthOK
        /\ MapsOK /\ TargetOK /\ ScscfOK /\ CallsOK(calls, fates) /\ CxOK
        /\ FatesOK /\ RestOK
----------------------------------------------------------------------------
(* The invariant implies the type invariant. *)
LEMMA IInvTyped == IInv => TypeOK
  BY DEF IInv, TypeOK, UeOK, DownOK, UpOK, WireOK, ToPOK, PthOK, QueueFor,
         QueueOK, UeRec, ThreadRec, MapsOK, RouteOK, CallersOK, CalleesOK, TargetOK,
         ScscfOK, CallsOK, CxOK, FatesOK, RestOK

(* The invariant implies that what connects a UE is for it. *)
LEMMA IInvConnected == IInv => ConnectsTheCaller
  BY DEF IInv, DownOK, QueueFor, QueueOK, Reaches, AllSound, Sound, Connects,
         AcceptedIn, Invited, Accepted, ConnectsTheCaller

(* What is sound stays sound when more has happened. *)
LEMMA SoundMore ==
  ASSUME NEW m, NEW F, NEW G, Keeps(F, G), Sound(m, F)
  PROVE  Sound(m, G)
  BY DEF Sound, Keeps, AcceptedIn, Invited

LEMMA AllSoundMore ==
  ASSUME NEW s, NEW F, NEW G, Keeps(F, G), AllSound(s, F)
  PROVE  AllSound(s, G)
  BY SoundMore DEF AllSound

LEMMA QueueForMore ==
  ASSUME NEW v, NEW s, NEW F, NEW G, Keeps(F, G), QueueFor(v, s, F)
  PROVE  QueueFor(v, s, G)
<1>1. Reaches(v, s, G)
  BY DEF QueueFor, Reaches, Keeps, Invited
<1> QED BY <1>1, AllSoundMore DEF QueueFor, QueueOK

(* A queue that grows at its end. *)
LEMMA QueueAppend ==
  ASSUME NEW s, NEW F, QueueOK(s, F), NEW m \in Msgs, Sound(m, F)
  PROVE  QueueOK(Append(s, m), F)
<1>1. s \in Seq(Msgs) /\ Append(s, m) \in Seq(Msgs)
  BY DEF QueueOK
<1>2. ASSUME NEW i \in DOMAIN Append(s, m) PROVE Sound(Append(s, m)[i], F)
  <2>1. i \in 1 .. Len(s) + 1
    BY <1>1, <1>2
  <2>2. CASE i = Len(s) + 1
    <3>1. Append(s, m)[i] = m
      BY <1>1, <2>2
    <3> QED BY <3>1
  <2>3. CASE i # Len(s) + 1
    <3>1. i \in DOMAIN s /\ Append(s, m)[i] = s[i]
      BY <1>1, <2>1, <2>3
    <3> QED BY <3>1 DEF QueueOK, AllSound
  <2> QED BY <2>2, <2>3
<1> QED BY <1>1, <1>2 DEF QueueOK, AllSound

(* A queue whose first message is taken. *)
LEMMA QueueTake ==
  ASSUME NEW s, NEW F, QueueOK(s, F), s # << >>
  PROVE  /\ QueueOK(Tail(s), F)
         /\ Head(s) \in Msgs /\ Sound(Head(s), F)
<1>1. s \in Seq(Msgs) /\ Tail(s) \in Seq(Msgs) /\ Head(s) \in Msgs
  BY DEF QueueOK
<1>2. Len(s) > 0 /\ 1 \in DOMAIN s /\ Head(s) = s[1]
  BY <1>1
<1>3. ASSUME NEW i \in DOMAIN Tail(s) PROVE Sound(Tail(s)[i], F)
  <2>1. i + 1 \in DOMAIN s /\ Tail(s)[i] = s[i + 1]
    BY <1>1, <1>2, <1>3
  <2> QED BY <2>1 DEF QueueOK, AllSound
<1> QED BY <1>1, <1>2, <1>3 DEF QueueOK, AllSound

(* Two queues, one after the other. *)
LEMMA QueueCat ==
  ASSUME NEW s, NEW t, NEW F, QueueOK(s, F), QueueOK(t, F)
  PROVE  QueueOK(s \o t, F)
<1>1. s \in Seq(Msgs) /\ t \in Seq(Msgs) /\ s \o t \in Seq(Msgs)
  BY DEF QueueOK
<1>2. ASSUME NEW i \in DOMAIN (s \o t) PROVE Sound((s \o t)[i], F)
  <2>1. i \in 1 .. Len(s) + Len(t)
    BY <1>1, <1>2
  <2>2. CASE i <= Len(s)
    <3>1. i \in DOMAIN s /\ (s \o t)[i] = s[i]
      BY <1>1, <2>1, <2>2
    <3> QED BY <3>1 DEF QueueOK, AllSound
  <2>3. CASE i > Len(s)
    <3>1. i - Len(s) \in DOMAIN t /\ (s \o t)[i] = t[i - Len(s)]
      BY <1>1, <2>1, <2>3
    <3> QED BY <3>1 DEF QueueOK, AllSound
  <2> QED BY <1>1, <2>1, <2>2, <2>3
<1> QED BY <1>1, <1>2 DEF QueueOK, AllSound

(* The queue to a UE whose first message is taken, or that grows. *)
LEMMA QueueForTake ==
  ASSUME NEW v, NEW s, NEW F, QueueFor(v, s, F), s # << >>
  PROVE  QueueFor(v, Tail(s), F)
<1>1. s \in Seq(Msgs) /\ QueueOK(Tail(s), F)
  BY QueueTake DEF QueueFor, QueueOK
<1>2. ASSUME NEW i \in DOMAIN Tail(s)
      PROVE  i + 1 \in DOMAIN s /\ Tail(s)[i] = s[i + 1]
  BY <1>1
<1> QED BY <1>1, <1>2 DEF QueueFor, Reaches

LEMMA QueueForCat ==
  ASSUME NEW v, NEW s, NEW t, NEW F, QueueFor(v, s, F), QueueFor(v, t, F)
  PROVE  QueueFor(v, s \o t, F)
<1>1. /\ s \in Seq(Msgs) /\ t \in Seq(Msgs) /\ QueueOK(s \o t, F)
      /\ Reaches(v, s, F) /\ Reaches(v, t, F)
  BY QueueCat DEF QueueFor, QueueOK
<1>2. ASSUME NEW i \in DOMAIN (s \o t), Connects((s \o t)[i])
      PROVE  Invited(F, v, (s \o t)[i].id)
  <2>1. i \in 1 .. Len(s) + Len(t)
    BY <1>1
  <2>2. CASE i <= Len(s)
    <3>1. i \in DOMAIN s /\ (s \o t)[i] = s[i]
      BY <1>1, <2>1, <2>2
    <3> QED BY <1>1, <1>2, <3>1 DEF Reaches
  <2>3. CASE i > Len(s)
    <3>1. i - Len(s) \in DOMAIN t /\ (s \o t)[i] = t[i - Len(s)]
      BY <1>1, <2>1, <2>3
    <3> QED BY <1>1, <1>2, <3>1 DEF Reaches
  <2> QED BY <1>1, <2>1, <2>2, <2>3
<1> QED BY <1>1, <1>2 DEF QueueFor, Reaches

(* Queues of none, one, two and three messages. *)
LEMMA QueueEmpty == \A F : QueueOK(<< >>, F)
  BY DEF QueueOK, AllSound

LEMMA QueueOne ==
  ASSUME NEW F, NEW m \in Msgs, Sound(m, F)
  PROVE  QueueOK(<<m>>, F)
  BY DEF QueueOK, AllSound

LEMMA QueueForSmall ==
  ASSUME NEW v, NEW F
  PROVE  /\ QueueFor(v, << >>, F)
         /\ \A m \in Msgs : /\ Sound(m, F)
                            /\ Connects(m) => Invited(F, v, m.id)
                            => QueueFor(v, <<m>>, F)
  BY QueueEmpty, QueueOne DEF QueueFor, Reaches

LEMMA QueueTwo ==
  ASSUME NEW F, NEW m \in Msgs, Sound(m, F), NEW n \in Msgs, Sound(n, F)
  PROVE  QueueOK(<<m, n>>, F)
<1>1. \A i \in DOMAIN <<m, n>> : <<m, n>>[i] = m \/ <<m, n>>[i] = n
  OBVIOUS
<1> QED BY <1>1 DEF QueueOK, AllSound

LEMMA QueueThree ==
  ASSUME NEW F, NEW m \in Msgs, Sound(m, F), NEW n \in Msgs, Sound(n, F),
         NEW p \in Msgs, Sound(p, F)
  PROVE  QueueOK(<<m, n, p>>, F)
<1>1. \A i \in DOMAIN <<m, n, p>> :
        <<m, n, p>>[i] = m \/ <<m, n, p>>[i] = n \/ <<m, n, p>>[i] = p
  OBVIOUS
<1> QED BY <1>1 DEF QueueOK, AllSound
----------------------------------------------------------------------------
(* How the queues of a family change. *)
LEMMA DownKept ==
  ASSUME IInv, Keeps(fates, fates'), UNCHANGED down
  PROVE  DownOK'
  BY QueueForMore DEF IInv, DownOK

LEMMA UpKept ==
  ASSUME IInv, Keeps(fates, fates'), UNCHANGED up
  PROVE  UpOK'
  BY AllSoundMore DEF IInv, UpOK

LEMMA WireKept ==
  ASSUME IInv, Keeps(fates, fates'), UNCHANGED wire
  PROVE  WireOK'
  BY AllSoundMore DEF IInv, WireOK, QueueOK

LEMMA ToPKept ==
  ASSUME IInv, Keeps(fates, fates'), UNCHANGED toP
  PROVE  ToPOK'
  BY AllSoundMore DEF IInv, ToPOK, QueueOK

LEMMA PthKept ==
  ASSUME IInv, Keeps(fates, fates'), UNCHANGED pth
  PROVE  PthOK'
  BY SoundMore DEF IInv, PthOK

LEMMA CallersMore ==
  ASSUME NEW f, NEW F, NEW G, Keeps(F, G)
  PROVE  /\ CallersOK(f, F) => CallersOK(f, G)
         /\ CallsOK(f, F) => CallsOK(f, G)
  BY DEF CallersOK, CallsOK, Keeps, Invited

LEMMA MapsKept ==
  ASSUME IInv, Keeps(fates, fates'), UNCHANGED <<route, caller, callee, delivered>>
  PROVE  MapsOK'
  BY CallersMore DEF IInv, MapsOK, RouteOK, CalleesOK

LEMMA CallsKept ==
  ASSUME IInv, Keeps(fates, fates'), UNCHANGED calls
  PROVE  CallsOK(calls, fates)'
  BY CallersMore DEF IInv

(* More has happened, and nothing was accepted or invited that is not any  *)
(* longer.                                                                 *)
LEMMA FatesGrow ==
  ASSUME FatesOK, NEW D, D \subseteq Impus \X CallIds \X Fates,
         fates' = fates \cup D
  PROVE  Keeps(fates, fates') /\ FatesOK'
  BY DEF Keeps, FatesOK

(* The connection of a UE that runs is one of the connections. *)
LEMMA ConnTyped ==
  ASSUME UeOK, NEW u \in Ues, ue[u].on
  PROVE  Conn(u) \in Conns
  BY DEF UeOK, UeRec, Conn, Conns

(* A frame sent by a UE. *)
LEMMA SendUpOK ==
  ASSUME IInv, Keeps(fates, fates'), NEW u \in Ues, ue[u].on,
         NEW m \in Msgs, Sound(m, fates'), SendUp(u, m)
  PROVE  UpOK'
<1> DEFINE k == Conn(u)
<1>1. k \in Conns
  BY ConnTyped DEF IInv
<1>2. up \in [Conns -> Seq(Msgs)] /\ \A j \in Conns : QueueOK(up[j], fates')
  BY AllSoundMore DEF IInv, UpOK, QueueOK
<1>3. CASE server = "up"
  <2>1. up' = [up EXCEPT ![k] = Append(up[k], m)]
    BY <1>3 DEF SendUp
  <2>2. QueueOK(Append(up[k], m), fates')
    BY <1>1, <1>2, QueueAppend
  <2>3. up' \in [Conns -> Seq(Msgs)]
    BY <1>1, <1>2, <2>1, <2>2 DEF QueueOK
  <2>4. \A j \in Conns : QueueOK(up'[j], fates')
    BY <1>1, <1>2, <2>1, <2>2
  <2> QED BY <2>3, <2>4 DEF UpOK, QueueOK
<1>4. CASE server # "up"
  <2>1. up' = up
    BY <1>4 DEF SendUp
  <2> QED BY <2>1, UpKept
<1> QED BY <1>3, <1>4

(* A message of UE u's type. *)
LEMMA MsgTyped ==
  ASSUME NEW t \in Types, NEW id \in CallIds, NEW f \in Impus, NEW g \in Impus,
         NEW b \in Sdps \cup Reasons \cup {""}
  PROVE  /\ Msg(t, id, f, g, b) \in Msgs
         /\ Msg(t, id, f, g, b).type = t /\ Msg(t, id, f, g, b).id = id
         /\ Msg(t, id, f, g, b).from = f /\ Msg(t, id, f, g, b).to = g
         /\ Msg(t, id, f, g, b).body = b
  BY DEF Msg, Msgs

LEMMA MsgFields ==
  ASSUME NEW m \in Msgs
  PROVE  /\ m.type \in Types /\ m.id \in CallIds /\ m.from \in Impus
         /\ m.to \in Impus /\ m.body \in Sdps \cup Reasons \cup {""}
  BY DEF Msgs

(* A command of a UE keeps the invariant if what it sends is sound. *)
LEMMA PerformOK ==
  ASSUME IInv, NEW u \in Ues, NEW c, NEW new \in UeRec, NEW m \in Msgs,
         new.life = ue[u].life,
         Perform(u, c, new, m), Keeps(fates, fates'), FatesOK',
         Sound(m, fates')
  PROVE  IInv'
<1> USE DEF Perform
<1>1. UeOK'
  <2> DEFINE p == [new EXCEPT !.cmd = NoCommand]
             n == [p EXCEPT !.seq = @ + 1]
  <2>p. p \in UeRec /\ p.life = new.life /\ p.seq = new.seq
    BY DEF UeRec
  <2>q. [new EXCEPT !.cmd = NoCommand, !.seq = @ + 1] = n
    BY <2>p
  <2> HIDE DEF p
  <2>1. n \in UeRec /\ n.life = new.life
    BY <2>p DEF UeRec
  <2>2. ue' = [ue EXCEPT ![u] = n] /\ ue \in [Ues -> UeRec]
    BY <2>q DEF IInv, UeOK
  <2>3. ue[u].life > 0
    BY DEF IInv, UeOK
  <2> HIDE DEF n
  <2>4. ue' \in [Ues -> UeRec] /\ ue'[u].life > 0
    BY <2>1, <2>2, <2>3
  <2>5. \A v \in Ues : v # u => ue'[v] = ue[v]
    BY <2>2
  <2> QED BY <2>4, <2>5 DEF IInv, UeOK
<1>2. UpOK'
  BY SendUpOK
<1>3. DownOK' /\ WireOK' /\ ToPOK' /\ PthOK'
  BY DownKept, WireKept, ToPKept, PthKept DEF pcscfVars
<1>4. MapsOK' /\ CallsOK(calls, fates)'
  BY MapsKept, CallsKept DEF pcscfVars, scscfVars
<1>5. TargetOK' /\ ScscfOK' /\ CxOK' /\ RestOK'
  BY DEF IInv, TargetOK, ScscfOK, CxOK, RestOK, pcscfVars, scscfVars, bounds
<1> QED BY <1>1, <1>2, <1>3, <1>4, <1>5 DEF IInv

(* The receiving thread of a UE takes a message. *)
LEMMA TakeDownOK ==
  ASSUME IInv, NEW u \in Ues, Receives(u), NEW new \in UeRec,
         new.life = ue[u].life, TakeDown(u, new),
         Keeps(fates, fates'), FatesOK', UpOK'
  PROVE  IInv'
<1> USE DEF TakeDown
<1>1. UeOK'
  <2>1. ue \in [Ues -> UeRec] /\ ue[u].life > 0
    BY DEF IInv, UeOK, Receives
  <2>2. ue' \in [Ues -> UeRec] /\ ue'[u].life > 0
    BY <2>1
  <2>3. \A v \in Ues : v # u => ue'[v] = ue[v]
    BY <2>1
  <2> QED BY <2>2, <2>3 DEF IInv, UeOK
<1>2. DownOK'
  <2>1. /\ down \in [Ues -> Seq(Msgs)]
        /\ \A v \in Ues : QueueFor(v, down[v], fates')
    BY QueueForMore DEF IInv, DownOK
  <2>2. QueueFor(u, Tail(down[u]), fates')
    BY <2>1, QueueForTake DEF Receives
  <2>3. down' \in [Ues -> Seq(Msgs)]
    BY <2>1, <2>2 DEF QueueFor, QueueOK
  <2>4. \A v \in Ues : QueueFor(v, down'[v], fates')
    BY <2>1, <2>2
  <2> QED BY <2>3, <2>4 DEF DownOK
<1>3. WireOK' /\ ToPOK' /\ PthOK'
  BY WireKept, ToPKept, PthKept DEF pcscfVars
<1>4. MapsOK' /\ CallsOK(calls, fates)'
  BY MapsKept, CallsKept DEF pcscfVars, scscfVars
<1>5. TargetOK' /\ ScscfOK' /\ CxOK' /\ RestOK'
  BY DEF IInv, TargetOK, ScscfOK, CxOK, RestOK, pcscfVars, scscfVars, bounds
<1> QED BY <1>1, <1>2, <1>3, <1>4, <1>5 DEF IInv

(* The constants of the messages. *)
LEMMA ConstMsgs ==
  /\ NoCallId \in CallIds
  /\ NoMsg \in Msgs /\ garbage \in Msgs
  /\ \A F : Sound(NoMsg, F) /\ Sound(garbage, F)
<1>1. NoCallId \in CallIds
  BY DEF NoCallId, CallIds, Impus
<1>2. NoMsg \in Msgs /\ garbage \in Msgs
  BY <1>1 DEF NoMsg, garbage, Msg, Msgs, Types, Impus
<1>3. \A F : Sound(NoMsg, F) /\ Sound(garbage, F)
  BY DEF NoMsg, garbage, Msg, Sound, Connects
<1> QED BY <1>1, <1>2, <1>3

(* A thread of the P-CSCF takes a frame of its UE and sends its length. *)
LEMMA SendHeaderOK ==
  ASSUME IInv, NEW k \in Conns, up[k] # << >>, SendHeader(k),
         RouteOK', CallersOK(caller', fates'), CalleesOK(callee')
  PROVE  IInv'
<1> USE DEF SendHeader
<1> DEFINE m == Head(up[k])
<1>1. up \in [Conns -> Seq(Msgs)] /\ \A j \in Conns : QueueOK(up[j], fates)
  BY DEF IInv, UpOK, QueueOK
<1>2. QueueOK(Tail(up[k]), fates) /\ m \in Msgs /\ Sound(m, fates)
  BY <1>1, QueueTake
<1> HIDE DEF m
<1>3. UpOK'
  <2>1. up' \in [Conns -> Seq(Msgs)]
    BY <1>1, <1>2 DEF QueueOK
  <2>2. \A j \in Conns : QueueOK(up'[j], fates)
    BY <1>1, <1>2
  <2> QED BY <2>1, <2>2 DEF UpOK, QueueOK
<1>4. PthOK'
  <2> DEFINE r == [pc |-> "send", msg |-> m]
  <2>1. r \in ThreadRec /\ r.msg = m
    BY <1>2 DEF ThreadRec
  <2>2. pth' = [pth EXCEPT ![k] = r] /\ pth \in [Conns -> ThreadRec]
    BY DEF IInv, PthOK, m
  <2> HIDE DEF r
  <2>3. pth' \in [Conns -> ThreadRec]
    BY <2>1, <2>2
  <2>4. \A j \in Conns : pth'[j] = IF j = k THEN r ELSE pth[j]
    BY <2>2
  <2>5. \A j \in Conns : Sound(pth'[j].msg, fates)
    BY <1>2, <2>1, <2>4 DEF IInv, PthOK
  <2> QED BY <2>3, <2>5 DEF PthOK
<1>5. WireOK'
  BY ConstMsgs, QueueAppend DEF IInv, WireOK
<1>6. DownOK' /\ ToPOK'
  BY DownKept, ToPKept DEF Keeps
<1>7. /\ UeOK' /\ MapsOK' /\ TargetOK' /\ ScscfOK' /\ CallsOK(calls, fates)' /\ CxOK'
      /\ FatesOK' /\ RestOK'
  BY DEF IInv, UeOK, MapsOK, CallersOK, CalleesOK, TargetOK, ScscfOK, CallsOK,
         CxOK, FatesOK, RestOK, scscfVars, bounds
<1> QED BY <1>3, <1>4, <1>5, <1>6, <1>7 DEF IInv

(* The S-CSCF takes a frame and sends others. *)
LEMMA RespondOK ==
  ASSUME IInv, wire # << >>, NEW out, Respond(out), QueueOK(out, fates'),
         Keeps(fates, fates'), FatesOK', ScscfOK', CallsOK(calls', fates')
  PROVE  IInv'
<1> USE DEF Respond
<1>1. WireOK'
  <2>1. QueueOK(wire, fates')
    BY AllSoundMore DEF IInv, WireOK, QueueOK
  <2> QED BY <2>1, QueueTake DEF WireOK
<1>2. ToPOK'
  <2>1. QueueOK(toP, fates')
    BY AllSoundMore DEF IInv, ToPOK, QueueOK
  <2> QED BY <2>1, QueueCat DEF ToPOK
<1>3. DownOK' /\ UpOK' /\ PthOK'
  BY DownKept, UpKept, PthKept DEF pcscfVars
<1>4. toP # << >> => toP' # << >> /\ Head(toP') = Head(toP)
  <2>1. toP \in Seq(Msgs) /\ out \in Seq(Msgs)
    BY DEF IInv, ToPOK, QueueOK
  <2> QED BY <2>1
<1>5. MapsOK' /\ CallsOK(calls, fates)'
  BY MapsKept DEF pcscfVars
<1>6. UeOK' /\ TargetOK' /\ CxOK' /\ RestOK'
  BY <1>4 DEF IInv, UeOK, TargetOK, CxOK, RestOK, pcscfVars, bounds
<1> QED BY <1>1, <1>2, <1>3, <1>5, <1>6 DEF IInv

(* The P-CSCF takes a frame of the S-CSCF and sends one or two to UEs. *)
LEMMA RoutedOK ==
  ASSUME IInv, toP # << >>, NEW x, NEW m \in Msgs, NEW y, NEW n \in Msgs,
         Sound(m, fates), Sound(n, fates), ~ Connects(n),
         Connects(m) /\ x \in Ues => Invited(fates, x, m.id),
         Routed(<<x, m>>, <<y, n>>),
         Keeps(fates, fates'), FatesOK', target' = "-",
         CallersOK(caller', fates'), CalleesOK(callee'), delivered' \subseteq CallIds
  PROVE  IInv'
<1> USE DEF Routed
<1>1. DownOK' /\ server' \in {"up", "dead"}
  <2>1. /\ down \in [Ues -> Seq(Msgs)]
        /\ \A v \in Ues : QueueFor(v, down[v], fates')
    BY QueueForMore DEF IInv, DownOK
  <2>2. /\ Sound(m, fates') /\ Sound(n, fates')
        /\ Connects(m) /\ x \in Ues => Invited(fates', x, m.id)
    BY SoundMore DEF Keeps, Invited
  <2>3. ASSUME NEW v \in Ues
        PROVE  /\ QueueFor(v, Delivered(v, <<x, m>>), fates')
               /\ QueueFor(v, Delivered(v, <<y, n>>), fates')
    BY <2>2, QueueForSmall DEF Delivered
  <2>4. CASE /\ down' = [v \in Ues |-> down[v] \o Delivered(v, <<x, m>>)
                                              \o Delivered(v, <<y, n>>)]
             /\ UNCHANGED server
    <3>1. ASSUME NEW v \in Ues PROVE QueueFor(v, down'[v], fates')
      <4>1. QueueFor(v, down[v] \o Delivered(v, <<x, m>>), fates')
        BY <2>1, <2>3, QueueForCat
      <4>2. QueueFor(v, (down[v] \o Delivered(v, <<x, m>>))
                          \o Delivered(v, <<y, n>>), fates')
        BY <4>1, <2>3, QueueForCat
      <4> QED BY <4>2, <2>4
    <3>2. down' \in [Ues -> Seq(Msgs)]
      BY <3>1, <2>4 DEF QueueFor, QueueOK
    <3> QED BY <3>1, <3>2, <2>4 DEF DownOK, IInv, RestOK
  <2>5. CASE server' = "dead" /\ UNCHANGED down
    BY <2>5, DownKept
  <2> QED BY <2>4, <2>5 DEF sendToUe
<1>2. ToPOK'
  <2>1. QueueOK(toP, fates')
    BY AllSoundMore DEF IInv, ToPOK, QueueOK
  <2> QED BY <2>1, QueueTake DEF ToPOK
<1>3. UpOK' /\ WireOK' /\ PthOK'
  BY UpKept, WireKept, PthKept
<1>4. MapsOK' /\ CallsOK(calls, fates)'
  BY CallsKept DEF IInv, MapsOK, RouteOK, CalleesOK, scscfVars
<1>5. UeOK' /\ TargetOK' /\ ScscfOK' /\ CxOK' /\ RestOK'
  BY <1>1 DEF IInv, UeOK, TargetOK, ScscfOK, CxOK, RestOK, scscfVars, bounds
<1> QED BY <1>1, <1>2, <1>3, <1>4, <1>5 DEF IInv
----------------------------------------------------------------------------
(* What a UE's record may become, one field at a time. *)
LEMMA RecOff ==
  ASSUME NEW r \in UeRec
  PROVE  /\ [r EXCEPT !.on = FALSE] \in UeRec
         /\ [r EXCEPT !.on = FALSE].life = r.life
         /\ ~ [r EXCEPT !.on = FALSE].on
<1>1. [r EXCEPT !.on = FALSE] \in UeRec
  BY DEF UeRec
<1>2. [r EXCEPT !.on = FALSE].life = r.life
  BY DEF UeRec
<1>3. ~ [r EXCEPT !.on = FALSE].on
  BY DEF UeRec
<1> QED BY <1>1, <1>2, <1>3

LEMMA RecState ==
  ASSUME NEW r \in UeRec, NEW s \in States
  PROVE  /\ [r EXCEPT !.st = s] \in UeRec
         /\ [r EXCEPT !.st = s].life = r.life
         /\ [r EXCEPT !.st = s].seq = r.seq
  BY DEF UeRec

LEMMA RecSeq ==
  ASSUME NEW r \in UeRec, NEW n \in Nat
  PROVE  /\ [r EXCEPT !.seq = n] \in UeRec
         /\ [r EXCEPT !.seq = n].life = r.life
  BY DEF UeRec

LEMMA RecNext ==
  ASSUME NEW r \in UeRec
  PROVE  /\ [r EXCEPT !.seq = @ + 1] \in UeRec
         /\ [r EXCEPT !.seq = @ + 1].life = r.life
  BY DEF UeRec

LEMMA RecCall ==
  ASSUME NEW r \in UeRec, NEW c \in CallIds
  PROVE  /\ [r EXCEPT !.call = c] \in UeRec
         /\ [r EXCEPT !.call = c].life = r.life
  BY DEF UeRec

LEMMA RecCallee ==
  ASSUME NEW r \in UeRec, NEW c \in Impus
  PROVE  /\ [r EXCEPT !.callee = c] \in UeRec
         /\ [r EXCEPT !.callee = c].life = r.life
  BY DEF UeRec

LEMMA RecCmd ==
  ASSUME NEW r \in UeRec, NEW c \in (Commands \X Impus) \cup {NoCommand}
  PROVE  /\ [r EXCEPT !.cmd = c] \in UeRec
         /\ [r EXCEPT !.cmd = c].life = r.life
         /\ [r EXCEPT !.cmd = c].seq = r.seq
  BY DEF UeRec

(* The record of a UE that starts, and of one that is not running. *)
LEMMA NewTyped ==
  ASSUME NEW n \in 0 .. MaxQuits + 1
  PROVE  NewUe(n) \in UeRec /\ NewUe(n).life = n
  BY ImsAssumption DEF NewUe, UeRec, States, Impus, ImsAssumption, NoCallId, CallIds

LEMMA OffTyped ==
  ASSUME NEW n \in 0 .. MaxQuits + 1
  PROVE  Off(n) \in UeRec /\ Off(n).life = n /\ ~ Off(n).on
  BY NewTyped, RecOff DEF Off

LEMMA InTyped ==
  ASSUME UeOK, NEW u \in Ues, NEW s \in States
  PROVE  /\ In(u, s) \in UeRec /\ In(u, s).life = ue[u].life
         /\ In(u, s).seq = ue[u].seq
<1>1. ue[u] \in UeRec
  BY DEF UeOK
<1> QED BY <1>1, RecState DEF In

(* The UE u becomes n, of the same process or of one that never ran. *)
LEMMA UeChanged ==
  ASSUME UeOK, NEW u \in Ues, NEW n \in UeRec, n.on => n.life > 0,
         ue' = [ue EXCEPT ![u] = n]
  PROVE  UeOK'
<1>1. ue \in [Ues -> UeRec] /\ ue' \in [Ues -> UeRec] /\ ue'[u] = n
  BY DEF UeOK
<1>2. \A v \in Ues : v # u => ue'[v] = ue[v]
  BY <1>1
<1> QED BY <1>1, <1>2 DEF UeOK

(* The initial state. *)
LEMMA InitIInv == Init => IInv
<1> SUFFICES ASSUME Init PROVE IInv
  OBVIOUS
<1> USE DEF Init
<1>0. MaxQuits \in Nat /\ MaxCommands \in Nat /\ MaxTimeouts \in Nat
  BY ImsAssumption DEF ImsAssumption
<1>1. UeOK
  <2> DEFINE p == [NewUe(1) EXCEPT !.st = "REGISTERED"]
             n == [p EXCEPT !.seq = 2]
  <2>0. 1 \in 0 .. MaxQuits + 1 /\ 0 \in 0 .. MaxQuits + 1
    BY <1>0
  <2>a. NewUe(1) \in UeRec /\ NewUe(1).life = 1 /\ "REGISTERED" \in States
    BY <2>0, NewTyped DEF States
  <2>1. p \in UeRec /\ p.life = 1
    BY <2>a, RecState
  <2>2. n \in UeRec /\ n.life = 1
    BY <2>1, RecSeq
  <2>3. [NewUe(1) EXCEPT !.st = "REGISTERED", !.seq = 2] = n
    OBVIOUS
  <2>4. Off(0) \in UeRec /\ ~ Off(0).on
    BY <2>0, OffTyped
  <2> HIDE DEF n
  <2>5. \A u \in Ues : ue[u] = IF u \in Registered THEN n ELSE Off(0)
    BY <2>3
  <2>6. ue \in [Ues -> UeRec]
    BY <2>2, <2>3, <2>4
  <2>7. ASSUME NEW u \in Ues, ue[u].on PROVE ue[u].life > 0
    <3>1. CASE u \in Registered
      <4>1. ue[u] = n
        BY <2>5, <3>1
      <4>2. ue[u].life = 1
        BY <2>2, <4>1, Zenon
      <4> QED BY <4>2
    <3>2. CASE u \notin Registered
      <4>1. ue[u] = Off(0)
        BY <2>5, <3>2
      <4>2. ~ ue[u].on
        BY <2>4, <4>1, Zenon
      <4> QED BY <2>7, <4>2
    <3> QED BY <3>1, <3>2
  <2> QED BY <2>6, <2>7 DEF UeOK
<1>2. DownOK /\ UpOK /\ WireOK /\ ToPOK
  BY QueueEmpty, QueueForSmall DEF DownOK, UpOK, WireOK, ToPOK, QueueOK
<1>3. PthOK
  BY ConstMsgs DEF PthOK, ThreadRec, Idle
<1>4. MapsOK
  <2>1. \A u \in Registered : <<u, 1>> \in Conns
    BY <1>0, ImsAssumption DEF Conns, ImsAssumption
  <2>2. RouteOK
    BY <2>1 DEF RouteOK
  <2>3. CallersOK(caller, fates) /\ CalleesOK(callee) /\ delivered \subseteq CallIds
    BY DEF CallersOK, CalleesOK
  <2> QED BY <2>2, <2>3 DEF MapsOK
<1>5. TargetOK /\ ScscfOK /\ CallsOK(calls, fates) /\ CxOK /\ FatesOK /\ RestOK
  BY <1>0 DEF TargetOK, ScscfOK, CallsOK, CxOK, FatesOK, RestOK, Impus
<1> QED BY <1>1, <1>2, <1>3, <1>4, <1>5 DEF IInv

(* A step that changes no queue and no map of a call. *)
LEMMA QuietOK ==
  ASSUME IInv, UNCHANGED <<down, up, pcscfVars, wire, toP, calls, fates>>,
         UeOK', ScscfOK', CxOK', RestOK'
  PROVE  IInv'
<1>1. DownOK' /\ UpOK' /\ WireOK' /\ ToPOK' /\ PthOK'
  BY DownKept, UpKept, WireKept, ToPKept, PthKept DEF Keeps, pcscfVars
<1>2. MapsOK' /\ TargetOK' /\ CallsOK(calls, fates)' /\ FatesOK'
  BY DEF IInv, MapsOK, RouteOK, CallersOK, CalleesOK, TargetOK, CallsOK,
         FatesOK, pcscfVars
<1> QED BY <1>1, <1>2 DEF IInv

LEMMA UeFields ==
  ASSUME UeOK, NEW u \in Ues
  PROVE  /\ ue[u] \in UeRec /\ ue[u].call \in CallIds /\ ue[u].callee \in Impus
         /\ ue[u].seq \in Nat /\ u \in Impus
         /\ ue[u].cmd \in (Commands \X Impus) \cup {NoCommand}
  BY DEF UeOK, UeRec, Impus

(* The test at the start of a command. *)
LEMMA TypeStep ==
  ASSUME IInv, NEW u \in Ues, NEW c \in Commands, NEW t \in Impus, Type(u, c, t)
  PROVE  IInv'
<1> USE DEF Type
<1> DEFINE x == <<c, t>>
           n == [ue[u] EXCEPT !.cmd = x]
<1>1. x \in (Commands \X Impus) \cup {NoCommand}
  OBVIOUS
<1>2. ue' = [ue EXCEPT ![u] = n]
  OBVIOUS
<1> HIDE DEF x
<1>3. n \in UeRec /\ n.life > 0
  BY <1>1, RecCmd DEF IInv, UeOK
<1> HIDE DEF n
<1>4. UeOK'
  BY <1>2, <1>3, UeChanged DEF IInv
<1>5. RestOK' /\ ScscfOK' /\ CxOK'
  BY ImsAssumption DEF ImsAssumption, IInv, RestOK, ScscfOK, CxOK, scscfVars
<1> QED BY <1>4, <1>5, QuietOK DEF scscfVars

(* A re-INVITE is sound: it names the UE that sends it, and has sent it. *)
LEMMA ReInviteSound ==
  ASSUME UeOK, NEW u \in Ues, NEW sdp \in Sdps, NEW id \in CallIds,
         NEW t \in Impus
  PROVE  /\ Msg("INVITE", id, u, t, sdp) \in Msgs
         /\ \A F : Invited(F, u, id) => Sound(Msg("INVITE", id, u, t, sdp), F)
<1>1. "INVITE" \in Types /\ sdp \in Sdps \cup Reasons \cup {""} /\ u \in Impus
  BY DEF Types, Impus
<1>2. /\ Msg("INVITE", id, u, t, sdp) \in Msgs
      /\ Msg("INVITE", id, u, t, sdp).type = "INVITE"
      /\ Msg("INVITE", id, u, t, sdp).from = u
      /\ Msg("INVITE", id, u, t, sdp).id = id
  BY <1>1 DEF Msg, Msgs
<1> QED BY <1>2 DEF Sound, Connects

(* A message that neither invites nor connects is sound. *)
LEMMA PlainSound ==
  ASSUME NEW t \in Types \ {"INVITE"}, NEW id \in CallIds, NEW f \in Impus,
         NEW g \in Impus, NEW b \in Sdps \cup Reasons \cup {""},
         t # "200" \/ b \notin {"INVITE", ""}
  PROVE  /\ Msg(t, id, f, g, b) \in Msgs
         /\ \A F : Sound(Msg(t, id, f, g, b), F)
<1>1. Msg(t, id, f, g, b) \in Msgs
  BY DEF Msg, Msgs
<1>2. Msg(t, id, f, g, b).type = t /\ Msg(t, id, f, g, b).body = b
  BY DEF Msg
<1> QED BY <1>1, <1>2 DEF Sound, Connects

(* A command that sends a sound message and leaves the fates alone. *)
LEMMA PerformQuiet ==
  ASSUME IInv, NEW u \in Ues, NEW c, NEW new \in UeRec, NEW m \in Msgs,
         new.life = ue[u].life, Perform(u, c, new, m), UNCHANGED fates,
         \A F : Sound(m, F)
  PROVE  IInv'
<1>1. FatesOK' /\ Keeps(fates, fates')
  BY DEF Keeps, IInv, FatesOK
<1>2. Sound(m, fates')
  OBVIOUS
<1> QED BY <1>1, <1>2, PerformOK

(* The call of a conference leg is a call, and a leg of it has the same. *)
LEMMA RootTyped ==
  ASSUME NEW c \in CallIds
  PROVE  Root(c) \in CallIds /\ Root([c EXCEPT !.conf = @ + 1]) = Root(c)
  BY DEF Root, CallIds

(* An INVITE is remembered. *)
LEMMA InvitesOK ==
  ASSUME FatesOK, NEW u \in Ues, NEW c \in CallIds, Invites(u, c)
  PROVE  Keeps(fates, fates') /\ FatesOK' /\ Invited(fates', u, c)
<1> DEFINE d == <<u, Root(c), "invited">>
<1>1. fates' = fates \cup {d}
  BY DEF Invites, Befalls
<1>2. d \in Impus \X CallIds \X Fates
  BY RootTyped DEF Impus, Fates
<1> QED BY <1>1, <1>2, FatesGrow DEF Invited

(* A re-INVITE that leaves the UE in the state s or as it is. *)
LEMMA ReInviteOK ==
  ASSUME IInv, NEW u \in Ues, NEW c, NEW new \in UeRec, NEW sdp \in Sdps,
         new.life = ue[u].life, NEW t \in Impus,
         Perform(u, c, new, Msg("INVITE", ue[u].call, u, t, sdp)),
         Invites(u, ue[u].call)
  PROVE  IInv'
<1> DEFINE id == ue[u].call
           m == Msg("INVITE", id, u, t, sdp)
<1>1. id \in CallIds /\ UeOK
  BY UeFields DEF IInv
<1>2. Perform(u, c, new, m) /\ Invites(u, id)
  OBVIOUS
<1> HIDE DEF id
<1>3. Keeps(fates, fates') /\ FatesOK' /\ Invited(fates', u, id)
  BY <1>1, <1>2, InvitesOK DEF IInv
<1>4. m \in Msgs /\ Sound(m, fates')
  BY <1>1, <1>3, ReInviteSound
<1> HIDE DEF m
<1> QED BY <1>2, <1>3, <1>4, PerformOK

LEMMA RegisterStep ==
  ASSUME IInv, NEW u \in Ues, doRegister(u) PROVE IInv'
<1> DEFINE m == Msg("REGISTER", NoCallId, u, Nobody, "")
           n == In(u, "REGISTERING")
<1>1. Perform(u, "REG", n, m) /\ UNCHANGED fates
  BY DEF doRegister
<1>2. m \in Msgs /\ \A F : Sound(m, F)
  BY PlainSound, ConstMsgs DEF Types, Impus
<1>3. n \in UeRec /\ n.life = ue[u].life
  BY InTyped DEF IInv, States
<1> HIDE DEF m, n
<1> QED BY <1>1, <1>2, <1>3, PerformQuiet

LEMMA CallStep ==
  ASSUME IInv, NEW u \in Ues, doCall(u) PROVE IInv'
<1> DEFINE t  == ue[u].cmd[2]
           id == [from |-> Prefix[u], to |-> t, seq |-> ue[u].seq, conf |-> 0]
           m  == Msg("INVITE", id, u, t, "video")
           p  == In(u, "CALLING")
           q  == [p EXCEPT !.call = id]
           n  == [q EXCEPT !.callee = t]
<1>1. /\ Perform(u, "CALL", [p EXCEPT !.call = id, !.callee = t], m)
      /\ fates' = (fates \ ({u} \X {id} \X Outcomes))
                     \cup {<<u, Root(id), "invited">>}
  BY DEF doCall, CalledAnew
<1>2. UeOK /\ t \in Impus
  BY UeFields DEF IInv, NoCommand, Impus
<1>3. id \in CallIds
  BY <1>2, UeFields, ImsAssumption DEF ImsAssumption, CallIds, Impus
<1>4. p \in UeRec /\ p.life = ue[u].life
  BY InTyped DEF IInv, States
<1> HIDE DEF p, t, id
<1>5. q \in UeRec /\ q.life = ue[u].life
  BY <1>3, <1>4, RecCall
<1>6. n \in UeRec /\ n.life = ue[u].life
  BY <1>2, <1>5, RecCallee
<1>7. [p EXCEPT !.call = id, !.callee = t] = n
  BY <1>4
<1>10. Keeps(fates, fates') /\ FatesOK' /\ Invited(fates', u, id)
  <2>1. <<u, Root(id), "invited">> \in Impus \X CallIds \X Fates
    BY <1>3, RootTyped DEF Impus, Fates
  <2> QED BY <1>1, <2>1 DEF Keeps, IInv, FatesOK, Outcomes, Invited
<1>8. m \in Msgs /\ Sound(m, fates')
  BY <1>2, <1>3, <1>10, ReInviteSound DEF Sdps
<1> HIDE DEF m, n
<1>9. Perform(u, "CALL", n, m)
  BY <1>1, <1>7
<1> QED BY <1>6, <1>8, <1>9, <1>10, PerformOK

LEMMA AcceptStep ==
  ASSUME IInv, NEW u \in Ues, doAccept(u) PROVE IInv'
<1> DEFINE id == ue[u].call
           m == Msg("200", id, Nobody, Nobody, "INVITE")
           n == In(u, "IN_CALL")
<1>1. Perform(u, "ACCEPT", n, m) /\ fates' = fates \cup {<<u, id, "accepted">>}
  BY DEF doAccept, Befalls
<1>2. id \in CallIds
  BY UeFields DEF IInv
<1> HIDE DEF id
<1>3. m \in Msgs /\ m.id = id /\ m.type = "200" /\ m.from = Nobody
  BY <1>2 DEF Msg, Msgs, Types, Reasons, Impus
<1>4. n \in UeRec /\ n.life = ue[u].life
  BY InTyped DEF IInv, States
<1> HIDE DEF m, n
<1>5. Keeps(fates, fates') /\ FatesOK'
  <2>1. <<u, id, "accepted">> \in Impus \X CallIds \X Fates
    BY <1>2 DEF Impus, Fates
  <2> QED BY <1>1, <2>1, FatesGrow DEF IInv
<1>6. Sound(m, fates')
  BY <1>1, <1>3 DEF Sound, AcceptedIn
<1> QED BY <1>1, <1>3, <1>4, <1>5, <1>6, PerformOK

LEMMA RejectStep ==
  ASSUME IInv, NEW u \in Ues, doReject(u) PROVE IInv'
<1> DEFINE id == ue[u].call
           m == Msg("CANCEL", id, Nobody, Nobody, "")
           n == In(u, "REGISTERED")
<1>1. Perform(u, "REJECT", n, m) /\ UNCHANGED fates
  BY DEF doReject
<1>2. id \in CallIds
  BY UeFields DEF IInv
<1> HIDE DEF id
<1>3. m \in Msgs /\ \A F : Sound(m, F)
  BY <1>2, PlainSound DEF Types, Impus
<1>4. n \in UeRec /\ n.life = ue[u].life
  BY InTyped DEF IInv, States
<1> HIDE DEF m, n
<1> QED BY <1>1, <1>3, <1>4, PerformQuiet

LEMMA ByeStep ==
  ASSUME IInv, NEW u \in Ues, doBye(u) PROVE IInv'
<1> DEFINE id == ue[u].call
           m == Msg("BYE", id, Nobody, Nobody, "")
           n == In(u, "REGISTERED")
<1>1. /\ Perform(u, "BYE", n, m)
      /\ fates' = fates \cup {<<u, id, "ended">>} \/ fates' = fates
  BY DEF doBye, Befalls
<1>2. id \in CallIds
  BY UeFields DEF IInv
<1> HIDE DEF id
<1>3. m \in Msgs /\ \A F : Sound(m, F)
  BY <1>2, PlainSound DEF Types, Impus
<1>4. n \in UeRec /\ n.life = ue[u].life
  BY InTyped DEF IInv, States
<1> HIDE DEF m, n
<1>5. Keeps(fates, fates') /\ FatesOK'
  <2>1. <<u, id, "ended">> \in Impus \X CallIds \X Fates
    BY <1>2 DEF Impus, Fates
  <2>2. CASE fates' = fates
    BY <2>2 DEF Keeps, IInv, FatesOK
  <2> QED BY <1>1, <2>1, <2>2, FatesGrow DEF IInv
<1>6. Sound(m, fates')
  BY <1>3
<1> QED BY <1>1, <1>3, <1>4, <1>5, <1>6, PerformOK

(* HOLD, RESUME, CONF, UPDATE, VIDEO and VOICE are re-INVITEs. *)
LEMMA ReInviteStep ==
  ASSUME IInv, NEW u \in Ues,
         \/ doHold(u) \/ doResume(u) \/ doConference(u) \/ doUpdate(u)
         \/ doVideo(u) \/ doVoice(u)
  PROVE  IInv'
<1> DEFINE h == In(u, "ON_HOLD")
           r == In(u, "IN_CALL")
           x == ue[u]
           c == ue[u].callee
           t == ue[u].cmd[2]
<1>1. /\ h \in UeRec /\ h.life = ue[u].life
      /\ r \in UeRec /\ r.life = ue[u].life
  BY InTyped DEF IInv, States
<1>2. x \in UeRec /\ x.life = ue[u].life /\ c \in Impus /\ t \in Impus
  BY UeFields DEF IInv, NoCommand, Impus
<1>s. {"sendonly", "sendrecv", "conf", "video", "novideo"} \subseteq Sdps
  BY DEF Sdps
<1>3. CASE doHold(u)
  <2>1. /\ Perform(u, "HOLD", h, Msg("INVITE", ue[u].call, u, c, "sendonly"))
        /\ Invites(u, ue[u].call)
    BY <1>3 DEF doHold, ReInvite
  <2> HIDE DEF h, c
  <2> QED BY <1>1, <1>2, <1>s, <2>1, ReInviteOK
<1>4. CASE doResume(u)
  <2>1. /\ Perform(u, "RESUME", r, Msg("INVITE", ue[u].call, u, c, "sendrecv"))
        /\ Invites(u, ue[u].call)
    BY <1>4 DEF doResume, ReInvite
  <2> HIDE DEF r, c
  <2> QED BY <1>1, <1>2, <1>s, <2>1, ReInviteOK
<1>5. CASE doConference(u)
  <2>1. /\ Perform(u, "CONF", x, Msg("INVITE", ue[u].call, u, t, "conf"))
        /\ Invites(u, ue[u].call)
    BY <1>5 DEF doConference
  <2> HIDE DEF x, t
  <2> QED BY <1>2, <1>s, <2>1, ReInviteOK
<1>6. CASE doUpdate(u)
  <2>1. /\ Perform(u, "UPDATE", x, Msg("INVITE", ue[u].call, u, c, "sendrecv"))
        /\ Invites(u, ue[u].call)
    BY <1>6 DEF doUpdate, ReInvite
  <2> HIDE DEF x, c
  <2> QED BY <1>2, <1>s, <2>1, ReInviteOK
<1>7. CASE doVideo(u)
  <2>1. /\ Perform(u, "VIDEO", x, Msg("INVITE", ue[u].call, u, c, "video"))
        /\ Invites(u, ue[u].call)
    BY <1>7 DEF doVideo, ReInvite
  <2> HIDE DEF x, c
  <2> QED BY <1>2, <1>s, <2>1, ReInviteOK
<1>8. CASE doVoice(u)
  <2>1. /\ Perform(u, "VOICE", x, Msg("INVITE", ue[u].call, u, c, "novideo"))
        /\ Invites(u, ue[u].call)
    BY <1>8 DEF doVoice, ReInvite
  <2> HIDE DEF x, c
  <2> QED BY <1>2, <1>s, <2>1, ReInviteOK
<1> QED BY <1>3, <1>4, <1>5, <1>6, <1>7, <1>8

(* A UE's command. *)
LEMMA CommandStepOK ==
  ASSUME IInv, NEW u \in Ues, CommandStep(u) PROVE IInv'
  BY RegisterStep, CallStep, AcceptStep, RejectStep, ByeStep, ReInviteStep
     DEF CommandStep
----------------------------------------------------------------------------
(* A UE's process starts; another may, since one has ended for each life. *)
LEMMA StartStep ==
  ASSUME IInv, NEW u \in Ues, Start(u) PROVE IInv'
<1> USE DEF Start
<1> DEFINE n == ue[u].life + 1
           x == NewUe(n)
<1>1. n \in 0 .. MaxQuits + 1 /\ n > 0
  BY ImsAssumption, UeFields DEF ImsAssumption, IInv, UeOK, UeRec, RestOK
<1>2. ue' = [ue EXCEPT ![u] = x]
  OBVIOUS
<1> HIDE DEF n
<1>3. x \in UeRec /\ x.life > 0
  BY <1>1, NewTyped
<1> HIDE DEF x
<1>4. UeOK'
  BY <1>2, <1>3, UeChanged DEF IInv
<1>5. ScscfOK' /\ CxOK' /\ RestOK'
  BY DEF IInv, ScscfOK, CxOK, RestOK, scscfVars, bounds
<1> QED BY <1>4, <1>5, QuietOK DEF scscfVars

(* A UE's process ends; the frames it has not read are lost. *)
LEMMA QuitStep ==
  ASSUME IInv, NEW u \in Ues, Quit(u) PROVE IInv'
<1> USE DEF Quit
<1> DEFINE n == ue[u].life
           x == Off(n)
<1>1. n \in 0 .. MaxQuits + 1
  BY DEF IInv, UeOK, UeRec
<1>2. ue' = [ue EXCEPT ![u] = x]
  OBVIOUS
<1> HIDE DEF n
<1>3. x \in UeRec /\ ~ x.on
  BY <1>1, OffTyped
<1> HIDE DEF x
<1>4. UeOK'
  BY <1>2, <1>3, UeChanged DEF IInv
<1>5. down \in [Ues -> Seq(Msgs)]
  BY DEF IInv, DownOK
<1>6. Keeps(fates, fates') /\ FatesOK'
  <2>1. \A i \in DOMAIN down[u] : down[u][i] \in Msgs
    BY <1>5
  <2>2. \A i \in DOMAIN down[u] :
          down[u][i].id \in CallIds /\ down[u][i].from \in Impus
    BY <2>1, MsgFields
  <2> DEFINE D == {<<down[u][i].from, down[u][i].id, "unreachable">> :
                     i \in DOMAIN down[u]}
  <2>3. D \subseteq Impus \X CallIds \X Fates
    BY <2>2 DEF Fates, Outcomes
  <2>4. fates' = fates \cup D
    OBVIOUS
  <2> HIDE DEF D
  <2> QED BY <2>3, <2>4, FatesGrow DEF IInv
<1>7. DownOK'
  <2>1. \A v \in Ues : QueueFor(v, down[v], fates')
    BY <1>6, QueueForMore DEF IInv, DownOK
  <2>2. \A v \in Ues : QueueFor(v, down'[v], fates')
    BY <1>5, <2>1, QueueForSmall
  <2>3. down' \in [Ues -> Seq(Msgs)]
    BY <1>5
  <2> QED BY <2>2, <2>3 DEF DownOK
<1>8. UpOK' /\ WireOK' /\ ToPOK' /\ PthOK'
  BY <1>6, UpKept, WireKept, ToPKept, PthKept DEF pcscfVars
<1>9. MapsOK' /\ CallsOK(calls, fates)'
  BY <1>6, MapsKept, CallsKept DEF pcscfVars, scscfVars
<1>10. TargetOK' /\ ScscfOK' /\ CxOK' /\ RestOK'
  BY ImsAssumption
     DEF ImsAssumption, IInv, TargetOK, ScscfOK, CxOK, RestOK, pcscfVars,
         scscfVars
<1> QED BY <1>4, <1>6, <1>7, <1>8, <1>9, <1>10 DEF IInv

(* A UE takes a response. *)
LEMMA Handle200Step ==
  ASSUME IInv, NEW u \in Ues, Handle200(u) PROVE IInv'
<1> USE DEF Handle200
<1>0. Receives(u) /\ ue[u].on /\ UeOK
  BY DEF Receives, IInv
<1>1. Keeps(fates, fates') /\ FatesOK'
  BY DEF Keeps, IInv, FatesOK
<1> DEFINE p == In(u, "IN_CALL")
           n == [p EXCEPT !.seq = @ + 1]
           g == In(u, "REGISTERED")
           id == ue[u].call
           c == ue[u].callee
           m == Msg("ACK", id, u, c, "")
<1>2. /\ p \in UeRec /\ p.life = ue[u].life
      /\ g \in UeRec /\ g.life = ue[u].life
  BY <1>0, InTyped DEF States
<1>3. id \in CallIds /\ c \in Impus /\ u \in Impus
  BY <1>0, UeFields
<1>4. CASE TakeDown(u, n) /\ SendUp(u, m)
  <2> HIDE DEF id, c
  <2>1. m \in Msgs /\ \A F : Sound(m, F)
    BY <1>3, PlainSound DEF Types
  <2>2. UpOK'
    <3> HIDE DEF m, n
    <3> QED BY <1>0, <1>1, <1>4, <2>1, SendUpOK
  <2>3. n \in UeRec /\ n.life = ue[u].life
    <3> HIDE DEF p
    <3> QED BY <1>2, RecNext
  <2> HIDE DEF n, m
  <2> QED BY <1>0, <1>1, <1>4, <2>2, <2>3, TakeDownOK
<1>5. CASE TakeDown(u, g) /\ UNCHANGED up
  <2> HIDE DEF g
  <2> QED BY <1>0, <1>1, <1>2, <1>5, UpKept, TakeDownOK
<1>6. CASE TakeDown(u, p) /\ UNCHANGED up
  <2> HIDE DEF p
  <2> QED BY <1>0, <1>1, <1>2, <1>6, UpKept, TakeDownOK
<1> QED BY <1>4, <1>5, <1>6

(* A UE takes an INVITE. *)
LEMMA HandleInviteStep ==
  ASSUME IInv, NEW u \in Ues, HandleInvite(u) PROVE IInv'
<1> USE DEF HandleInvite
<1> DEFINE m == Head(down[u])
           id == m.id
           p == In(u, "RINGING")
           n == [p EXCEPT !.call = id]
           x == ue[u]
<1>0. Receives(u) /\ UeOK /\ UNCHANGED up
  BY DEF IInv
<1>1. id \in CallIds /\ m.from \in Impus
  <2>1. QueueOK(down[u], fates) /\ down[u] # << >>
    BY DEF IInv, DownOK, QueueFor, Receives
  <2>2. m \in Msgs
    BY <2>1, QueueTake
  <2> QED BY <2>2, MsgFields
<1>2. p \in UeRec /\ p.life = ue[u].life
  BY <1>0, InTyped DEF States
<1>3. CASE TakeDown(u, x) /\ UNCHANGED fates
  <2>1. Keeps(fates, fates') /\ FatesOK'
    BY <1>3 DEF Keeps, IInv, FatesOK
  <2>2. x \in UeRec /\ x.life = ue[u].life
    BY <1>0, UeFields
  <2> HIDE DEF x
  <2> QED BY <1>0, <1>3, <2>1, <2>2, UpKept, TakeDownOK
<1>4. CASE TakeDown(u, n) /\ fates' = fates \cup {<<m.from, id, "rung">>}
  <2> HIDE DEF id, p, m
  <2>1. Keeps(fates, fates') /\ FatesOK'
    <3>1. <<m.from, id, "rung">> \in Impus \X CallIds \X Fates
      BY <1>1 DEF Fates, Outcomes
    <3> QED BY <1>4, <3>1, FatesGrow DEF IInv
  <2>2. n \in UeRec /\ n.life = ue[u].life
    BY <1>1, <1>2, RecCall
  <2> HIDE DEF n
  <2> QED BY <1>0, <1>4, <2>1, <2>2, UpKept, TakeDownOK
<1> QED BY <1>3, <1>4 DEF Befalls
----------------------------------------------------------------------------
(* A map of calls with one entry more or less. *)
LEMMA CallersWith ==
  ASSUME NEW f, NEW F, CallersOK(f, F), NEW c \in CallIds, NEW v \in Ues,
         Invited(F, v, c)
  PROVE  CallersOK(With(f, c, v), F)
  BY DEF CallersOK, With

LEMMA CalleesWith ==
  ASSUME NEW f, CalleesOK(f), NEW c \in CallIds, NEW v \in Impus
  PROVE  CalleesOK(With(f, c, v))
  BY DEF CalleesOK, With

LEMMA CallsWith ==
  ASSUME NEW f, NEW F, CallsOK(f, F), NEW c \in CallIds,
         NEW v \in [caller : Ues, callee : Impus], Invited(F, v.caller, c)
  PROVE  CallsOK(With(f, c, v), F)
  BY DEF CallsOK, With

LEMMA MapsWithout ==
  ASSUME NEW f, NEW F, NEW c
  PROVE  /\ CallersOK(f, F) => CallersOK(Without(f, c), F)
         /\ CalleesOK(f) => CalleesOK(Without(f, c))
         /\ CallsOK(f, F) => CallsOK(Without(f, c), F)
  BY DEF CallersOK, CalleesOK, CallsOK, Without

(* A frame of a UE's, in the hands of its P-CSCF thread. *)
LEMMA UpHead ==
  ASSUME IInv, NEW k \in Conns, up[k] # << >>
  PROVE  Head(up[k]) \in Msgs /\ Sound(Head(up[k]), fates)
<1>1. QueueOK(up[k], fates)
  BY DEF IInv, UpOK, QueueOK
<1> QED BY <1>1, QueueTake

LEMMA RegisterFromUeStep ==
  ASSUME IInv, NEW k \in Conns, handleRegisterFromUe(k) PROVE IInv'
<1>1. up[k] # << >> /\ SendHeader(k) /\ UNCHANGED <<caller, callee>>
  BY DEF handleRegisterFromUe, FromUe
<1>2. RouteOK'
  BY DEF handleRegisterFromUe, IInv, MapsOK, RouteOK
<1>3. CallersOK(caller', fates') /\ CalleesOK(callee')
  BY <1>1 DEF IInv, MapsOK, SendHeader
<1> QED BY <1>1, <1>2, <1>3, SendHeaderOK

LEMMA InviteFromUeStep ==
  ASSUME IInv, NEW k \in Conns, handleInviteFromUe(k) PROVE IInv'
<1> DEFINE m == Head(up[k])
<1>1. /\ up[k] # << >> /\ m.type = "INVITE" /\ SendHeader(k)
      /\ UNCHANGED route
      /\ caller' = With(caller, m.id, m.from)
      /\ callee' = With(callee, m.id, m.to)
  BY DEF handleInviteFromUe, FromUe
<1>2. m \in Msgs /\ Sound(m, fates)
  BY <1>1, UpHead
<1> HIDE DEF m
<1>3. /\ m.id \in CallIds /\ m.from \in Ues /\ m.to \in Impus
      /\ Invited(fates, m.from, m.id) /\ fates' = fates
  BY <1>1, <1>2, MsgFields DEF Sound, SendHeader
<1>4. CallersOK(caller', fates') /\ CalleesOK(callee')
  BY <1>1, <1>3, CallersWith, CalleesWith DEF IInv, MapsOK
<1>5. RouteOK'
  BY <1>1 DEF IInv, MapsOK, RouteOK
<1> QED BY <1>1, <1>4, <1>5, SendHeaderOK

LEMMA OtherFromUeStep ==
  ASSUME IInv, NEW k \in Conns, handleOtherFromUe(k) PROVE IInv'
<1>1. up[k] # << >> /\ SendHeader(k) /\ UNCHANGED <<route, caller, callee>>
  BY DEF handleOtherFromUe, FromUe
<1>2. RouteOK' /\ CallersOK(caller', fates') /\ CalleesOK(callee')
  BY <1>1 DEF IInv, MapsOK, RouteOK, SendHeader
<1> QED BY <1>1, <1>2, SendHeaderOK

(* What a thread of the P-CSCF becomes. *)
LEMMA PthChanged ==
  ASSUME IInv, UNCHANGED fates, NEW k \in Conns, NEW r \in ThreadRec,
         Sound(r.msg, fates), pth' = [pth EXCEPT ![k] = r]
  PROVE  PthOK'
<1>1. pth \in [Conns -> ThreadRec] /\ pth' \in [Conns -> ThreadRec]
  BY DEF IInv, PthOK
<1>2. \A j \in Conns : pth'[j] = IF j = k THEN r ELSE pth[j]
  BY <1>1
<1>3. \A j \in Conns : Sound(pth'[j].msg, fates)
  BY <1>2 DEF IInv, PthOK
<1> QED BY <1>1, <1>3 DEF PthOK

LEMMA IdleOK == Idle \in ThreadRec /\ \A F : Sound(Idle.msg, F)
<1>1. Idle.msg = NoMsg
  BY DEF Idle
<1> QED BY <1>1, ConstMsgs DEF Idle, ThreadRec

LEMMA SendToScscfStep ==
  ASSUME IInv, NEW k \in Conns, sendToScscf(k) PROVE IInv'
<1> USE DEF sendToScscf
<1> DEFINE m == pth[k].msg
           e == [pth[k] EXCEPT !.pc = "erase"]
<1>1. pth[k] \in ThreadRec /\ m \in Msgs /\ Sound(m, fates)
  BY DEF IInv, PthOK, ThreadRec
<1>2. WireOK'
  BY <1>1, QueueAppend DEF IInv, WireOK
<1>3. PthOK'
  <2>1. e \in ThreadRec /\ e.msg = m
    BY <1>1 DEF ThreadRec
  <2>2. pth' = [pth EXCEPT ![k] = e] \/ pth' = [pth EXCEPT ![k] = Idle]
    BY <1>1
  <2> HIDE DEF e, m
  <2>3. Sound(e.msg, fates)
    BY <1>1, <2>1
  <2> QED BY <2>1, <2>2, <2>3, IdleOK, PthChanged
<1>4. DownOK' /\ UpOK' /\ ToPOK'
  BY DownKept, UpKept, ToPKept DEF Keeps
<1>5. /\ UeOK' /\ MapsOK' /\ TargetOK' /\ ScscfOK' /\ CallsOK(calls, fates)' /\ CxOK'
      /\ FatesOK' /\ RestOK'
  BY DEF IInv, UeOK, MapsOK, RouteOK, CallersOK, CalleesOK, TargetOK, ScscfOK,
         CallsOK, CxOK, FatesOK, RestOK, scscfVars, bounds
<1> QED BY <1>2, <1>3, <1>4, <1>5 DEF IInv

LEMMA CleanUpRoutingStep ==
  ASSUME IInv, NEW k \in Conns, CleanUpRouting(k) PROVE IInv'
<1> USE DEF CleanUpRouting
<1>1. PthOK'
  BY IdleOK, PthChanged
<1>2. MapsOK'
  <2>1. CallersOK(caller', fates') /\ CalleesOK(callee')
    BY MapsWithout DEF IInv, MapsOK
  <2>2. RouteOK' /\ delivered' \subseteq CallIds
    BY DEF IInv, MapsOK, RouteOK
  <2> QED BY <2>1, <2>2 DEF MapsOK, CallersOK, CalleesOK
<1>3. DownOK' /\ UpOK' /\ WireOK' /\ ToPOK'
  BY DownKept, UpKept, WireKept, ToPKept DEF Keeps
<1>4. /\ UeOK' /\ TargetOK' /\ ScscfOK' /\ CallsOK(calls, fates)' /\ CxOK'
      /\ FatesOK' /\ RestOK'
  BY DEF IInv, UeOK, TargetOK, ScscfOK, CallsOK, CxOK, FatesOK, RestOK,
         scscfVars, bounds
<1> QED BY <1>1, <1>2, <1>3, <1>4 DEF IInv

(* A step of a P-CSCF thread. *)
LEMMA UeThreadOK ==
  ASSUME IInv, NEW k \in Conns, UeThread(k) PROVE IInv'
  BY RegisterFromUeStep, InviteFromUeStep, OtherFromUeStep, SendToScscfStep,
     CleanUpRoutingStep DEF UeThread
----------------------------------------------------------------------------
(* The frame the S-CSCF takes. *)
LEMMA WireHead ==
  ASSUME IInv, wire # << >>
  PROVE  Head(wire) \in Msgs /\ Sound(Head(wire), fates)
  BY QueueTake DEF IInv, WireOK

(* The S-CSCF answers with sound messages and no fate changes. *)
LEMMA RespondQuiet ==
  ASSUME IInv, wire # << >>, NEW out, Respond(out), QueueOK(out, fates),
         UNCHANGED <<scscf, fates>>, CallsOK(calls', fates')
  PROVE  IInv'
<1>1. Keeps(fates, fates') /\ FatesOK' /\ ScscfOK' /\ QueueOK(out, fates')
  BY DEF Keeps, IInv, FatesOK, ScscfOK
<1> QED BY <1>1, RespondOK

LEMMA LoopEndsStep ==
  ASSUME IInv, ReceiveLoopEnds PROVE IInv'
<1> USE DEF ReceiveLoopEnds
<1>1. ScscfOK'
  BY DEF IInv, ScscfOK
<1>2. UeOK' /\ CxOK' /\ RestOK'
  BY DEF IInv, UeOK, CxOK, RestOK, bounds
<1> QED BY <1>1, <1>2, QuietOK

LEMMA SARStep ==
  ASSUME IInv, handleSAR PROVE IInv'
<1> USE DEF handleSAR
<1>1. CxOK'
  BY DEF IInv, CxOK
<1>2. UeOK' /\ ScscfOK' /\ RestOK'
  BY DEF IInv, UeOK, ScscfOK, RestOK, bounds
<1> QED BY <1>1, <1>2, QuietOK

LEMMA BarredStep ==
  ASSUME IInv, NEW u \in Ues, SetBarred(u) PROVE IInv'
<1> USE DEF SetBarred
<1>1. RestOK'
  BY ImsAssumption DEF ImsAssumption, IInv, RestOK
<1>2. UeOK' /\ ScscfOK' /\ CxOK'
  BY DEF IInv, UeOK, ScscfOK, CxOK, scscfVars
<1> QED BY <1>1, <1>2, QuietOK DEF scscfVars

LEMMA ScscfRegisterStep ==
  ASSUME IInv, handleRegister PROVE IInv'
<1> USE DEF handleRegister
<1>1. wire # << >>
  BY DEF Takes
<1>2. Head(wire).from \in Impus
  BY <1>1, WireHead, MsgFields
<1>3. ScscfOK' /\ CxOK'
  BY <1>2 DEF IInv, ScscfOK, CxOK
<1>4. WireOK'
  BY <1>1, QueueTake DEF IInv, WireOK
<1>5. DownOK' /\ UpOK' /\ ToPOK' /\ PthOK'
  BY DownKept, UpKept, ToPKept, PthKept DEF Keeps, pcscfVars
<1>6. UeOK' /\ MapsOK' /\ TargetOK' /\ CallsOK(calls, fates)' /\ FatesOK' /\ RestOK'
  BY DEF IInv, UeOK, MapsOK, RouteOK, CallersOK, CalleesOK, TargetOK, CallsOK,
         FatesOK, RestOK, pcscfVars, bounds
<1> QED BY <1>3, <1>4, <1>5, <1>6 DEF IInv

LEMMA WaitStep ==
  ASSUME IInv, waitCxSAA PROVE IInv'
<1> USE DEF waitCxSAA, FinishRegister
<1> DEFINE x == scscf.impu
           m == Msg("200", NoCallId, x, x, "REGISTER")
<1>1. x \in Impus
  BY DEF IInv, ScscfOK
<1>2. toP' = Append(toP, m)
  OBVIOUS
<1>3. m \in Msgs /\ \A F : Sound(m, F)
  <2> HIDE DEF x
  <2> QED BY <1>1, PlainSound, ConstMsgs DEF Types, Reasons
<1> HIDE DEF m
<1>4. ToPOK' /\ toP' # << >> /\ (toP # << >> => Head(toP') = Head(toP))
  <2>1. QueueOK(toP, fates) /\ Sound(m, fates)
    BY <1>3 DEF IInv, ToPOK
  <2>2. QueueOK(toP', fates)
    BY <1>2, <1>3, <2>1, QueueAppend
  <2>3. toP' # << >> /\ (toP # << >> => Head(toP') = Head(toP))
    BY <1>2, <1>3, <2>1 DEF QueueOK
  <2> QED BY <2>2, <2>3 DEF ToPOK
<1>5. ScscfOK'
  BY DEF ScscfOK, Impus
<1>6. CxOK' /\ RestOK'
  BY ImsAssumption DEF ImsAssumption, IInv, CxOK, RestOK
<1>7. DownOK' /\ UpOK' /\ WireOK' /\ PthOK'
  BY DownKept, UpKept, WireKept, PthKept DEF Keeps, pcscfVars
<1>8. UeOK' /\ MapsOK' /\ TargetOK' /\ CallsOK(calls, fates)' /\ FatesOK'
  BY <1>4 DEF IInv, UeOK, MapsOK, RouteOK, CallersOK, CalleesOK, TargetOK,
         CallsOK, FatesOK, pcscfVars
<1> QED BY <1>4, <1>5, <1>6, <1>7, <1>8 DEF IInv

LEMMA ScscfInviteStep ==
  ASSUME IInv, handleInvite PROVE IInv'
<1> USE DEF handleInvite
<1> DEFINE m  == Head(wire)
           id == m.id
           f  == m.from
           g  == m.to
           a  == Msg("100", id, f, g, "INVITE")
           b  == Msg("183", id, f, g, "INVITE")
           d  == Msg("200", id, f, g, "BARRED")
           r  == [caller |-> f, callee |-> g]
<1>1. wire # << >> /\ m.type = "INVITE" /\ UNCHANGED scscf
  BY DEF Takes
<1>2. m \in Msgs /\ Sound(m, fates)
  BY <1>1, WireHead
<1>3. /\ id \in CallIds /\ f \in Ues /\ f \in Impus /\ g \in Impus
      /\ Invited(fates, f, id)
  BY <1>1, <1>2, MsgFields DEF Sound
<1>4. fates' = fates \cup {<<f, id, "barred">>} \/ fates' = fates
  BY DEF Befalls
<1>5. \/ calls' = With(calls, id, r) /\ Respond(<<a, m, b>>)
      \/ calls' = calls /\ Respond(<<a, d>>)
  BY DEF Declined
<1> HIDE DEF id, f, g
<1>6. Keeps(fates, fates') /\ FatesOK'
  <2>1. <<f, id, "barred">> \in Impus \X CallIds \X Fates
    BY <1>3 DEF Fates, Outcomes
  <2>2. CASE fates' = fates
    BY <2>2 DEF Keeps, IInv, FatesOK
  <2> QED BY <1>4, <2>1, <2>2, FatesGrow DEF IInv
<1>7. /\ a \in Msgs /\ b \in Msgs /\ d \in Msgs
      /\ \A F : Sound(a, F) /\ Sound(b, F) /\ Sound(d, F)
  BY <1>3, PlainSound DEF Types, Reasons
<1>8. Sound(m, fates') /\ ScscfOK'
  BY <1>1, <1>2, <1>6, SoundMore DEF IInv, ScscfOK
<1>9. /\ r \in [caller : Ues, callee : Impus]
      /\ CallsOK(calls, fates') /\ Invited(fates', r.caller, id)
  BY <1>3, <1>6, CallersMore DEF IInv, Keeps, Invited
<1> HIDE DEF a, b, d, m, r
<1>10. CASE calls' = With(calls, id, r) /\ Respond(<<a, m, b>>)
  <2>1. CallsOK(calls', fates')
    BY <1>3, <1>9, <1>10, CallsWith DEF IInv
  <2>2. QueueOK(<<a, m, b>>, fates')
    BY <1>2, <1>7, <1>8, QueueThree
  <2> QED BY <1>1, <1>6, <1>8, <1>10, <2>1, <2>2, RespondOK
<1>11. CASE calls' = calls /\ Respond(<<a, d>>)
  <2>1. CallsOK(calls', fates')
    BY <1>9, <1>11
  <2>2. QueueOK(<<a, d>>, fates')
    BY <1>7, QueueTwo
  <2> QED BY <1>1, <1>6, <1>8, <1>11, <2>1, <2>2, RespondOK
<1> QED BY <1>5, <1>10, <1>11

(* The reason of the answer to a re-INVITE is never that of a new call. *)
LEMMA ReasonOK ==
  ASSUME NEW sdp
  PROVE  /\ ReInviteReason(sdp) \in Reasons
         /\ ReInviteReason(sdp) \notin {"INVITE", ""}
  BY DEF ReInviteReason, Reasons

LEMMA ScscfReInviteStep ==
  ASSUME IInv, handleReInvite PROVE IInv'
<1> USE DEF handleReInvite
<1> DEFINE m  == Head(wire)
           id == m.id
           f  == calls[id].caller
           g  == calls[id].callee
           to == m.to
           b  == ReInviteReason(m.body)
           j  == [m.id EXCEPT !.conf = @ + 1]
           ok == Msg("200", id, f, g, b)
           l  == Msg("INVITE", j, f, to, "conf")
<1>1. /\ wire # << >> /\ id \in DOMAIN calls
      /\ UNCHANGED <<scscf, calls, fates>>
  BY DEF Takes
<1>2. m \in Msgs /\ Sound(m, fates)
  BY <1>1, WireHead
<1>3. f \in Ues /\ g \in Impus /\ f \in Impus /\ Invited(fates, f, id)
  BY <1>1 DEF IInv, CallsOK, Impus
<1>4. id \in CallIds /\ to \in Impus
  BY <1>2, MsgFields
<1>5. j \in CallIds /\ Root(j) = Root(id)
  BY <1>4, RootTyped DEF CallIds
<1>6. b \in Reasons /\ b \notin {"INVITE", ""}
  BY ReasonOK
<1>7. Respond(<<m, ok>>) \/ Respond(<<l, ok>>) \/ Respond(<<ok>>)
  OBVIOUS
<1> HIDE DEF id, f, g, to, b, j
<1>8. ok \in Msgs /\ \A F : Sound(ok, F)
  BY <1>3, <1>4, <1>6, PlainSound DEF Types
<1>9. l \in Msgs /\ Sound(l, fates)
  <2>1. Invited(fates, f, j)
    BY <1>3, <1>5 DEF Invited
  <2> QED BY <1>3, <1>4, <1>5, <2>1, ReInviteSound DEF Sdps, IInv
<1>10. CallsOK(calls', fates')
  BY <1>1 DEF IInv
<1> HIDE DEF m, ok, l
<1>11. /\ QueueOK(<<m, ok>>, fates) /\ QueueOK(<<l, ok>>, fates)
       /\ QueueOK(<<ok>>, fates)
  BY <1>2, <1>8, <1>9, QueueOne, QueueTwo
<1> QED BY <1>1, <1>7, <1>10, <1>11, RespondQuiet

LEMMA ScscfOtherStep ==
  ASSUME IInv, handleAck \/ handle200Ok \/ handleBye \/ handleUpdate
  PROVE  IInv'
<1> DEFINE m  == Head(wire)
           id == m.id
           b  == Msg("200", id, Nobody, Nobody, "BYE")
           o  == Msg("200", id, Nobody, Nobody, "UPDATE")
<1>1. wire # << >> /\ UNCHANGED <<scscf, fates>>
  BY DEF handleAck, handle200Ok, handleBye, handleUpdate, Takes
<1>2. m \in Msgs /\ Sound(m, fates)
  BY <1>1, WireHead
<1>3. id \in CallIds
  BY <1>2, MsgFields
<1>4. CallsOK(calls', fates')
  BY MapsWithout DEF IInv, handleAck, handle200Ok, handleBye, handleUpdate
<1>5. \/ Respond(<<m>>) \/ Respond(<< >>) \/ Respond(<<b, m>>)
      \/ Respond(<<m, o>>) \/ Respond(<<o>>)
  BY DEF handleAck, handle200Ok, handleBye, handleUpdate
<1> HIDE DEF id
<1>6. /\ b \in Msgs /\ o \in Msgs
      /\ \A F : Sound(b, F) /\ Sound(o, F)
  BY <1>3, PlainSound DEF Types, Reasons, Impus
<1> HIDE DEF m, b, o
<1>7. /\ QueueOK(<<m>>, fates) /\ QueueOK(<< >>, fates)
      /\ QueueOK(<<b, m>>, fates) /\ QueueOK(<<m, o>>, fates)
      /\ QueueOK(<<o>>, fates)
  BY <1>2, <1>6, QueueEmpty, QueueOne, QueueTwo
<1> QED BY <1>1, <1>4, <1>5, <1>7, RespondQuiet

(* A step of the S-CSCF. *)
LEMMA ScscfThreadOK ==
  ASSUME IInv, ScscfThread PROVE IInv'
  BY ScscfRegisterStep, WaitStep, ScscfInviteStep, ScscfReInviteStep,
     ScscfOtherStep, LoopEndsStep DEF ScscfThread
----------------------------------------------------------------------------
(* The frame the P-CSCF takes from the S-CSCF. *)
LEMMA ToPHead ==
  ASSUME IInv, toP # << >>
  PROVE  Head(toP) \in Msgs /\ Sound(Head(toP), fates)
  BY QueueTake DEF IInv, ToPOK

(* It is passed on to one UE, or to two, and the maps stay as they are. *)
LEMMA RoutedQuiet ==
  ASSUME IInv, toP # << >>, NEW x, NEW m \in Msgs, NEW y, NEW n \in Msgs,
         Sound(m, fates), Sound(n, fates), ~ Connects(n),
         Connects(m) /\ x \in Ues => Invited(fates, x, m.id),
         Routed(<<x, m>>, <<y, n>>), target' = "-", UNCHANGED <<caller, callee, delivered, fates>>
  PROVE  IInv'
<1>1. /\ Keeps(fates, fates') /\ FatesOK' /\ CallersOK(caller', fates')
      /\ CalleesOK(callee') /\ delivered' \subseteq CallIds
  BY DEF Keeps, IInv, FatesOK, MapsOK
<1> QED BY <1>1, RoutedOK

LEMMA RouteInviteStep ==
  ASSUME IInv, RouteInvite PROVE IInv'
<1> USE DEF RouteInvite
<1> DEFINE m  == Head(toP)
           id == m.id
           f  == m.from
           g  == m.to
           r  == Msg("180", id, f, g, "INVITE")
<1>1. /\ toP # << >> /\ m.type = "INVITE" /\ target' = "-"
  BY DEF FromScscf
<1>2. m \in Msgs /\ Sound(m, fates)
  BY <1>1, ToPHead
<1>3. /\ id \in CallIds /\ f \in Ues /\ f \in Impus /\ g \in Impus
      /\ Invited(fates, f, id)
  BY <1>1, <1>2, MsgFields DEF Sound
<1>4. /\ fates' = fates \/ fates' = fates \cup {<<f, id, "unreachable">>}
      /\ delivered' = delivered \cup {id}
      /\ caller' = caller \/ caller' = With(caller, id, f)
      /\ callee' = callee \/ callee' = With(callee, id, g)
  BY DEF Befalls
<1>5. \/ Routed(<<g, m>>, <<f, r>>)
      \/ Routed(<<g, m>>, <<Nobody, NoMsg>>)
  BY DEF NoSend
<1> HIDE DEF id, f, g
<1>6. Keeps(fates, fates') /\ FatesOK'
  <2>1. <<f, id, "unreachable">> \in Impus \X CallIds \X Fates
    BY <1>3 DEF Fates, Outcomes
  <2>2. CASE fates' = fates
    BY <2>2 DEF Keeps, IInv, FatesOK
  <2> QED BY <1>4, <2>1, <2>2, FatesGrow DEF IInv
<1>7. CallersOK(caller', fates') /\ CalleesOK(callee') /\ delivered' \subseteq CallIds
  <2>1. CallersOK(caller, fates') /\ Invited(fates', f, id)
    BY <1>3, <1>6, CallersMore DEF IInv, MapsOK, Keeps, Invited
  <2> QED BY <1>3, <1>4, <2>1, CallersWith, CalleesWith DEF IInv, MapsOK
<1>8. r \in Msgs /\ Sound(r, fates) /\ ~ Connects(r)
  <2>1. r.type = "180"
    BY DEF Msg
  <2> QED BY <1>3, <2>1, PlainSound DEF Types, Reasons, Connects
<1>9. ~ Connects(m) /\ ~ Connects(NoMsg)
  BY <1>1 DEF Connects, NoMsg, Msg
<1> HIDE DEF m, r
<1> QED BY <1>1, <1>2, <1>5, <1>6, <1>7, <1>8, <1>9, ConstMsgs, RoutedOK

(* Every other frame goes to one UE ... *)
LEMMA RouteOneStep ==
  ASSUME IInv,
         \/ RouteProvisional \/ RouteRegister200 \/ Route200 \/ RouteAck
         \/ RouteOther
  PROVE  IInv'
<1> DEFINE m == Head(toP)
<1> USE DEF RouteProvisional, RouteRegister200, Route200, RouteAck, RouteOther
<1>1. /\ toP # << >> /\ target' = "-"
      /\ UNCHANGED <<caller, callee, delivered, fates>>
  BY DEF FromScscf
<1>2. m \in Msgs /\ Sound(m, fates)
  BY <1>1, ToPHead
<1>3. \E x : /\ Routed(<<x, m>>, <<Nobody, NoMsg>>)
             /\ Connects(m) => x = Or(Lookup(caller, m.id), m.from)
  BY DEF NoSend, FromScscf, Connects
<1> HIDE DEF m
<1>4. PICK x : /\ Routed(<<x, m>>, <<Nobody, NoMsg>>)
               /\ Connects(m) => x = Or(Lookup(caller, m.id), m.from)
  BY <1>3
<1> HIDE DEF RouteProvisional, RouteRegister200, Route200, RouteAck, RouteOther
<1>5. ~ Connects(NoMsg)
  BY DEF Connects, NoMsg, Msg
<1>6. Connects(m) /\ x \in Ues => Invited(fates, x, m.id)
  BY <1>2, <1>4, ImsAssumption
     DEF ImsAssumption, Sound, Or, Lookup, IInv, MapsOK, CallersOK
<1> QED BY <1>1, <1>2, <1>4, <1>5, <1>6, ConstMsgs, RoutedQuiet

(* ... or to both, whom it looks up one after the other. *)
LEMMA LookUpCallerStep ==
  ASSUME IInv, LookUpCaller PROVE IInv'
<1> USE DEF LookUpCaller
<1> DEFINE m == Head(toP)
<1>1. toP # << >> /\ UNCHANGED toP
  BY DEF FromScscf
<1>2. m.from \in Impus
  BY <1>1, ToPHead, MsgFields
<1>3. target' \in Impus
  BY <1>2 DEF Or, Lookup, IInv, MapsOK, CallersOK, Impus
<1>4. TargetOK'
  BY <1>1, <1>3 DEF TargetOK
<1>5. DownOK' /\ UpOK' /\ WireOK' /\ ToPOK' /\ PthOK'
  BY DownKept, UpKept, WireKept, ToPKept, PthKept DEF Keeps
<1>6. /\ UeOK' /\ MapsOK' /\ ScscfOK' /\ CallsOK(calls, fates)' /\ CxOK' /\ FatesOK'
      /\ RestOK'
  BY DEF IInv, UeOK, MapsOK, RouteOK, CallersOK, CalleesOK, ScscfOK, CallsOK,
         CxOK, FatesOK, RestOK, scscfVars, bounds
<1> QED BY <1>4, <1>5, <1>6 DEF IInv

LEMMA RouteToBothStep ==
  ASSUME IInv, RouteToBoth PROVE IInv'
<1> USE DEF RouteToBoth
<1> DEFINE m == Head(toP)
           x == Lookup(callee, m.id)
<1>1. /\ toP # << >> /\ target' = "-" /\ ~ Connects(m)
      /\ UNCHANGED <<caller, callee, delivered, fates>>
  BY DEF IInv, TargetOK, ToBoth, Connects
<1>2. m \in Msgs /\ Sound(m, fates)
  BY <1>1, ToPHead
<1>3. Routed(<<x, m>>, <<target, m>>)
  OBVIOUS
<1> HIDE DEF m, x
<1> QED BY <1>1, <1>2, <1>3, RoutedQuiet

(* A step of the P-CSCF's thread for the S-CSCF. *)
LEMMA ScscfReceiveOK ==
  ASSUME IInv, ScscfReceive PROVE IInv'
  BY RouteInviteStep, RouteOneStep, LookUpCallerStep, RouteToBothStep
     DEF ScscfReceive
----------------------------------------------------------------------------
(* No step of any process breaks the invariant. *)
LEMMA NextIInv == IInv /\ [Next]_vars => IInv'
<1> SUFFICES ASSUME IInv, [Next]_vars PROVE IInv'
  OBVIOUS
<1>1. CASE ThreadStep
  <2>1. ASSUME NEW u \in Ues, CommandStep(u) PROVE IInv'
    BY <2>1, CommandStepOK
  <2>2. ASSUME NEW u \in Ues, handleIncoming(u) PROVE IInv'
    BY <2>2, Handle200Step, HandleInviteStep DEF handleIncoming
  <2>3. ASSUME NEW k \in Conns, UeThread(k) PROVE IInv'
    BY <2>3, UeThreadOK
  <2> QED BY <1>1, <2>1, <2>2, <2>3, ScscfThreadOK, SARStep, ScscfReceiveOK
          DEF ThreadStep
<1>2. ASSUME NEW u \in Ues, Start(u) PROVE IInv'
  BY <1>2, StartStep
<1>3. ASSUME NEW u \in Ues, Quit(u) PROVE IInv'
  BY <1>3, QuitStep
<1>4. ASSUME NEW u \in Ues, SetBarred(u) PROVE IInv'
  BY <1>4, BarredStep
<1>5. ASSUME NEW u \in Ues, NEW c \in Commands, NEW t \in Impus, Type(u, c, t)
      PROVE  IInv'
  BY <1>5, TypeStep
<1>6. CASE UNCHANGED vars
  <2> USE <1>6 DEF vars, pcscfVars, scscfVars, bounds
  <2>1. UeOK' /\ ScscfOK' /\ CxOK' /\ RestOK'
    BY DEF IInv, UeOK, ScscfOK, CxOK, RestOK
  <2> QED BY <2>1, QuietOK
<1>7. Nobody \in Impus /\ Ues \subseteq Impus /\ {"CALL", "CONF"} \subseteq Commands
  BY DEF Impus, Commands
<1> QED BY <1>1, <1>2, <1>3, <1>4, <1>5, <1>6, <1>7 DEF Next

(* The state of the IMS is well typed whatever is typed at the UEs, however *)
(* the threads interleave and whichever UE quits or is started again; in   *)
(* particular the P-CSCF's second lookup for a 200 OK (LookUpCaller, then  *)
(* RouteToBoth, pcscf_node.cpp handleFromScscf) still finds its frame.     *)
THEOREM ImsTypeCorrect == Spec => []TypeOK
<1>1. Init => IInv
  BY InitIInv
<1>2. IInv /\ [Next]_vars => IInv'
  BY NextIInv
<1>3. IInv => TypeOK
  BY IInvTyped
<1> QED BY <1>1, <1>2, <1>3, PTL DEF Spec

(* A 200 OK that makes a UE show CALL CONNECTED (ue_sim.cpp                *)
(* handleIncoming) belongs to a call that some UE accepted, and is         *)
(* delivered only to a UE that sent an INVITE for that call, for any       *)
(* number of UEs, commands, restarts and late HSS answers, and also when   *)
(* UEs give out the same Call-IDs (ue_sim.cpp doCall).                     *)
THEOREM ImsConnectsTheCaller == Spec => []ConnectsTheCaller
<1>1. Init => IInv
  BY InitIInv
<1>2. IInv /\ [Next]_vars => IInv'
  BY NextIInv
<1>3. IInv => ConnectsTheCaller
  BY IInvConnected
<1> QED BY <1>1, <1>2, <1>3, PTL DEF Spec
----------------------------------------------------------------------------
(***************************************************************************)
(* No REGISTER and no INVITE gets lost.  A UE that is REGISTERING has its  *)
(* REGISTER on the way to the S-CSCF, or in the S-CSCF's hands, or the 200 *)
(* OK on the way back, over a route that is its own; one that is CALLING   *)
(* has its INVITE on the way to the callee unless the call has met one of  *)
(* the outcomes.  Otherwise the server is broken or about to find out.     *)
(***************************************************************************)
Has(q, m) == \E i \in DOMAIN q : q[i] = m

(* The S-CSCF's thread ends when it gets to the garbled part. *)
Doomed == Broken \/ Garbled

RegisterOf(u)   == Msg("REGISTER", NoCallId, u, Nobody, "")
RegisteredOf(u) == Msg("200", NoCallId, u, u, "REGISTER")
InviteOf(v, c)  == Msg("INVITE", c, v, c.to, "video")

Forwards(r, m) == r.pc = "send" /\ r.msg = m

RegisterWay(u) ==
  \/ Has(up[Conn(u)], RegisterOf(u))
  \/ Stale(u)
  \/ /\ route[u] = Conn(u)
     /\ \/ Forwards(pth[Conn(u)], RegisterOf(u))
        \/ Has(wire, RegisterOf(u))
        \/ scscf.pc = "saa" /\ scscf.impu = u
        \/ Has(toP, RegisteredOf(u))
  \/ Has(down[u], RegisteredOf(u))

Met(F, v, c) == \E f \in Outcomes : <<v, c, f>> \in F

InviteWay(u, m) ==
  \/ Has(up[Conn(u)], m) \/ Forwards(pth[Conn(u)], m)
  \/ Has(wire, m) \/ Has(toP, m)
  \/ \E v \in Ues : ue[v].on /\ Has(down[v], m)

RegisterOK(u) == ue[u].st = "REGISTERING" => ue[u].on /\ (Doomed \/ RegisterWay(u))

CallOK(u) ==
  ue[u].st = "CALLING" =>
    /\ ue[u].on
    /\ \/ Doomed \/ Met(fates, u, ue[u].call)
       \/ InviteWay(u, InviteOf(u, ue[u].call))

(* A REGISTER on a connection is that of the connection's UE. *)
OwnRegister(q, u) == \A i \in DOMAIN q : q[i].type = "REGISTER" => q[i] = RegisterOf(u)

(* Between its two lookups the P-CSCF has the 200 OK in hand. *)
InHand == target # "-" => Head(toP).type = "200" /\ Head(toP).body \in ToBoth

WayInv == /\ \A u \in Ues : RegisterOK(u) /\ CallOK(u)
          /\ \A k \in Conns : OwnRegister(up[k], k[1])
          /\ InHand
----------------------------------------------------------------------------
(* What is in a queue that grows at its end, *)
LEMMA HasAppend ==
  ASSUME NEW q \in Seq(Msgs), NEW m \in Msgs
  PROVE  /\ \A x : Has(q, x) => Has(Append(q, m), x)
         /\ Has(Append(q, m), m)
<1> DEFINE r == Append(q, m)
<1>1. /\ DOMAIN r = 1 .. Len(q) + 1 /\ DOMAIN q = 1 .. Len(q) /\ Len(q) \in Nat
      /\ \A i \in DOMAIN q : r[i] = q[i]
      /\ r[Len(q) + 1] = m
  OBVIOUS
<1> HIDE DEF r
<1>2. Len(q) + 1 \in DOMAIN r /\ \A i \in DOMAIN q : i \in DOMAIN r
  BY <1>1
<1>3. Has(r, m)
  BY <1>1, <1>2 DEF Has
<1>4. \A x : Has(q, x) => Has(r, x)
  BY <1>1, <1>2 DEF Has
<1> QED BY <1>3, <1>4 DEF r

(* or by another queue, *)
LEMMA HasCat ==
  ASSUME NEW q \in Seq(Msgs), NEW p \in Seq(Msgs)
  PROVE  \A x : Has(q, x) \/ Has(p, x) => Has(q \o p, x)
<1> DEFINE r == q \o p
<1>1. /\ DOMAIN r = 1 .. Len(q) + Len(p) /\ DOMAIN q = 1 .. Len(q) /\ DOMAIN p = 1 .. Len(p)
      /\ Len(q) \in Nat /\ Len(p) \in Nat
      /\ \A i \in 1 .. Len(q) + Len(p) : r[i] = IF i <= Len(q) THEN q[i] ELSE p[i - Len(q)]
  BY ConcatProperties, LenProperties
<1> HIDE DEF r
<1>2. \A i \in DOMAIN q : i \in DOMAIN r /\ r[i] = q[i]
  BY <1>1
<1>3. ASSUME NEW i \in DOMAIN p PROVE Len(q) + i \in DOMAIN r /\ r[Len(q) + i] = p[i]
  <2>1. i \in Nat /\ i >= 1 /\ i <= Len(p)
    BY <1>1
  <2>2. Len(q) + i \in 1 .. Len(q) + Len(p) /\ ~ (Len(q) + i <= Len(q)) /\ Len(q) + i - Len(q) = i
    BY <1>1, <2>1
  <2> QED BY <1>1, <2>2
<1>4. \A x : Has(q, x) => Has(r, x)
  BY <1>2 DEF Has
<1>5. \A x : Has(p, x) => Has(r, x)
  BY <1>3 DEF Has
<1> QED BY <1>4, <1>5 DEF r

(* or whose first message is taken. *)
LEMMA HasTail ==
  ASSUME NEW q \in Seq(Msgs), q # << >>
  PROVE  /\ \A x : Has(q, x) => x = Head(q) \/ Has(Tail(q), x)
         /\ q[Len(q)] # Head(q) => Tail(q) # << >> /\ Tail(q)[Len(Tail(q))] = q[Len(q)]
<1> DEFINE r == Tail(q)
<1>1. /\ Len(q) \in Nat /\ Len(q) > 0 /\ Head(q) = q[1] /\ DOMAIN q = 1 .. Len(q)
      /\ r \in Seq(Msgs) /\ Len(r) = Len(q) - 1 /\ DOMAIN r = 1 .. Len(q) - 1
      /\ \A i \in 1 .. Len(q) - 1 : r[i] = q[i + 1]
  OBVIOUS
<1> HIDE DEF r
<1>2. ASSUME NEW i \in DOMAIN q, i # 1 PROVE i - 1 \in DOMAIN r /\ r[i - 1] = q[i]
  <2>1. i - 1 \in 1 .. Len(q) - 1 /\ (i - 1) + 1 = i
    BY <1>1, <1>2
  <2> QED BY <1>1, <2>1
<1>3. \A x : Has(q, x) => x = Head(q) \/ Has(r, x)
  BY <1>1, <1>2 DEF Has
<1>4. ASSUME q[Len(q)] # Head(q) PROVE r # << >> /\ r[Len(r)] = q[Len(q)]
  <2>1. Len(q) # 1 /\ Len(q) \in DOMAIN q
    BY <1>1, <1>4
  <2>2. Len(r) \in DOMAIN r /\ r[Len(r)] = q[Len(q)]
    BY <1>1, <1>2, <2>1
  <2> QED BY <1>1, <2>2
<1> QED BY <1>3, <1>4 DEF r

(* An empty queue has nothing in it. *)
LEMMA HasNothing == \A x : ~ Has(<< >>, x)
  BY DEF Has

(* The messages that are followed. *)
LEMMA FollowedTyped ==
  /\ \A u \in Ues : /\ RegisterOf(u) \in Msgs /\ RegisterOf(u).type = "REGISTER"
                    /\ RegisterOf(u).from = u
  /\ \A u \in Ues : /\ RegisteredOf(u) \in Msgs /\ RegisteredOf(u).type = "200"
                    /\ RegisteredOf(u).from = u /\ RegisteredOf(u).body = "REGISTER"
  /\ \A v \in Ues, c \in CallIds :
       /\ InviteOf(v, c) \in Msgs /\ InviteOf(v, c).type = "INVITE"
       /\ InviteOf(v, c).id = c /\ InviteOf(v, c).body = "video"
       /\ InviteOf(v, c).from = v /\ InviteOf(v, c).to = c.to
<1>1. /\ \A u \in Ues : u \in Impus
      /\ Nobody \in Impus /\ {"REGISTER", "200", "INVITE"} \subseteq Types
      /\ {"", "REGISTER", "video"} \subseteq Sdps \cup Reasons \cup {""}
  BY DEF Impus, Types, Sdps, Reasons
<1>2. \A c \in CallIds : c.to \in Impus
  BY DEF CallIds
<1>3. NoCallId \in CallIds
  BY ConstMsgs
<1>4. ASSUME NEW u \in Ues
      PROVE  /\ RegisterOf(u) \in Msgs /\ RegisterOf(u).type = "REGISTER"
             /\ RegisterOf(u).from = u
  BY <1>1, <1>3 DEF RegisterOf, Msg, Msgs
<1>5. ASSUME NEW u \in Ues
      PROVE  /\ RegisteredOf(u) \in Msgs /\ RegisteredOf(u).type = "200"
             /\ RegisteredOf(u).from = u /\ RegisteredOf(u).body = "REGISTER"
  BY <1>1, <1>3 DEF RegisteredOf, Msg, Msgs
<1>6. ASSUME NEW v \in Ues, NEW c \in CallIds
      PROVE  /\ InviteOf(v, c) \in Msgs /\ InviteOf(v, c).type = "INVITE"
             /\ InviteOf(v, c).id = c /\ InviteOf(v, c).body = "video"
             /\ InviteOf(v, c).from = v /\ InviteOf(v, c).to = c.to
  BY <1>1, <1>2 DEF InviteOf, Msg, Msgs
<1> QED BY <1>4, <1>5, <1>6
----------------------------------------------------------------------------
(* A step of the server keeps the invariant when it loses nothing. *)
LEMMA NothingLost ==
  ASSUME IInv, WayInv, UNCHANGED ue, Doomed => Doomed',
         \A v \in Ues : ue[v].on /\ RegisterWay(v) => Doomed' \/ RegisterWay(v)',
         \A v \in Ues : \A c \in CallIds :
            ue[v].on /\ (Met(fates, v, c) \/ InviteWay(v, InviteOf(v, c)))
              => Doomed' \/ Met(fates', v, c) \/ InviteWay(v, InviteOf(v, c))',
         \A k \in Conns : OwnRegister(up'[k], k[1]), InHand'
  PROVE  WayInv'
<1>1. ASSUME NEW v \in Ues PROVE RegisterOK(v)'
  <2>1. RegisterOK(v)
    BY DEF WayInv
  <2> QED BY <2>1 DEF RegisterOK
<1>2. ASSUME NEW v \in Ues PROVE CallOK(v)'
  <2>1. CallOK(v)
    BY DEF WayInv
  <2>2. ue[v].call \in CallIds
    BY UeFields DEF IInv
  <2> DEFINE c == ue[v].call
  <2>3. c' = c
    OBVIOUS
  <2>4. ue[v].on /\ (Met(fates, v, c) \/ InviteWay(v, InviteOf(v, c)))
              => Doomed' \/ Met(fates', v, c) \/ InviteWay(v, InviteOf(v, c))'
    BY <2>2
  <2> HIDE DEF c
  <2>5. ASSUME ue[v].st = "CALLING" PROVE Doomed' \/ Met(fates', v, c) \/ InviteWay(v, InviteOf(v, c))'
    BY <2>1, <2>4, <2>5 DEF CallOK, c
  <2>6. ASSUME ue[v].st = "CALLING" PROVE ue'[v].on
    BY <2>1, <2>6 DEF CallOK
  <2> QED BY <2>3, <2>5, <2>6 DEF CallOK, c
<1> QED BY <1>1, <1>2 DEF WayInv

(* The queues and threads of a state, as far as the invariant looks. *)
LEMMA QueuesTyped ==
  ASSUME IInv
  PROVE  /\ wire \in Seq(Msgs) /\ toP \in Seq(Msgs)
         /\ up \in [Conns -> Seq(Msgs)] /\ down \in [Ues -> Seq(Msgs)]
         /\ pth \in [Conns -> ThreadRec] /\ route \in [Ues -> Conns \cup {<<Nobody, 0>>}]
  BY DEF IInv, WireOK, ToPOK, UpOK, DownOK, QueueOK, PthOK, MapsOK, RouteOK

(* Taking a frame that is not garbage leaves a garbled stream garbled. *)
LEMMA GarbledTail ==
  ASSUME IInv, wire # << >>, Head(wire) # garbage, wire' = Tail(wire)
  PROVE  Garbled => Garbled'
  BY QueuesTyped, HasTail DEF Garbled
----------------------------------------------------------------------------
(* The P-CSCF takes a frame of a UE and sends its length: the frame is in  *)
(* the thread's hands, and the stream is garbled or as it was.             *)
LEMMA HeaderMoves ==
  ASSUME IInv, WayInv, NEW k \in Conns, pth[k].pc = "recv", up[k] # << >>, SendHeader(k)
  PROVE  /\ \A j \in Conns : \A m : Has(up[j], m) =>
              Has(up'[j], m) \/ (j = k /\ m = Head(up[k]))
         /\ Forwards(pth'[k], Head(up[k]))
         /\ \A j \in Conns : \A m : Forwards(pth[j], m) => Forwards(pth'[j], m)
         /\ \A m : Has(wire, m) => Has(wire', m)
         /\ Doomed => Doomed'
         /\ \A j \in Conns : OwnRegister(up'[j], j[1])
         /\ InHand'
<1> USE DEF SendHeader
<1>0. /\ up \in [Conns -> Seq(Msgs)] /\ pth \in [Conns -> ThreadRec] /\ wire \in Seq(Msgs)
      /\ up[k] \in Seq(Msgs)
  BY QueuesTyped
<1>1. /\ up'[k] = Tail(up[k]) /\ \A j \in Conns : j # k => up'[j] = up[j]
      /\ pth'[k] = [pc |-> "send", msg |-> Head(up[k])]
      /\ \A j \in Conns : j # k => pth'[j] = pth[j]
  BY <1>0
<1>2. \A m : Has(up[k], m) => m = Head(up[k]) \/ Has(up'[k], m)
  BY <1>0, <1>1, HasTail
<1>3. \A j \in Conns : \A m : Has(up[j], m) => Has(up'[j], m) \/ (j = k /\ m = Head(up[k]))
  BY <1>1, <1>2
<1>4. Forwards(pth'[k], Head(up[k]))
  BY <1>1 DEF Forwards
<1>5. \A j \in Conns : \A m : Forwards(pth[j], m) => Forwards(pth'[j], m)
  BY <1>1 DEF Forwards
<1>6. \A m : Has(wire, m) => Has(wire', m)
  <2>1. wire' = wire \/ wire' = Append(wire, garbage)
    OBVIOUS
  <2> QED BY <1>0, <2>1, ConstMsgs, HasAppend
<1>7. Doomed => Doomed'
  BY DEF Doomed, Broken, Garbled, scscfVars
<1>8. ASSUME NEW j \in Conns PROVE OwnRegister(up'[j], j[1])
  <2>1. OwnRegister(up[j], j[1])
    BY DEF WayInv
  <2>2. CASE j # k
    BY <1>1, <2>1, <2>2
  <2>3. CASE j = k
    <3>1. \A i \in DOMAIN Tail(up[k]) : i + 1 \in DOMAIN up[k] /\ Tail(up[k])[i] = up[k][i + 1]
      BY <1>0
    <3> QED BY <1>1, <2>1, <2>3, <3>1 DEF OwnRegister
  <2> QED BY <2>2, <2>3
<1>9. InHand'
  BY DEF WayInv, InHand
<1> QED BY <1>3, <1>4, <1>5, <1>6, <1>7, <1>8, <1>9

(* The running UEs' connections. *)
LEMMA ConnsTyped ==
  ASSUME IInv, NEW v \in Ues, ue[v].on
  PROVE  Conn(v) \in Conns /\ Conn(v)[1] = v
  BY ConnTyped DEF IInv, Conn

(* A frame that is not a REGISTER. *)
LEMMA OtherHeaderWay ==
  ASSUME IInv, WayInv, NEW k \in Conns, pth[k].pc = "recv", up[k] # << >>, SendHeader(k),
         Head(up[k]).type # "REGISTER", UNCHANGED route
  PROVE  WayInv'
<1> USE HeaderMoves
<1>0. UNCHANGED <<ue, toP, down, scscf, fates, server>>
  BY DEF SendHeader, scscfVars
<1>1. ASSUME NEW v \in Ues, ue[v].on, RegisterWay(v) PROVE Doomed' \/ RegisterWay(v)'
  <2>1. Conn(v) \in Conns /\ Conn(v)' = Conn(v)
    BY <1>0, <1>1, ConnsTyped DEF Conn
  <2>2. RegisterOf(v) # Head(up[k])
    BY FollowedTyped
  <2>3. Stale(v) => Stale(v)'
    BY <1>0 DEF Stale, Live, Conn
  <2> QED BY <1>0, <1>1, <2>1, <2>2, <2>3 DEF RegisterWay
<1>2. ASSUME NEW v \in Ues, NEW c \in CallIds, ue[v].on, Met(fates, v, c) \/ InviteWay(v, InviteOf(v, c))
      PROVE  Met(fates', v, c) \/ InviteWay(v, InviteOf(v, c))'
  <2>1. Conn(v) \in Conns /\ Conn(v)' = Conn(v)
    BY <1>0, <1>2, ConnsTyped DEF Conn
  <2>2. Met(fates, v, c) => Met(fates', v, c)
    BY <1>0 DEF Met
  <2>3. (\E x \in Ues : ue[x].on /\ Has(down[x], InviteOf(v, c)))
          => (\E x \in Ues : ue[x].on /\ Has(down[x], InviteOf(v, c)))'
    BY <1>0
  <2>4. InviteWay(v, InviteOf(v, c)) => InviteWay(v, InviteOf(v, c))'
    BY <1>0, <2>1, <2>3 DEF InviteWay
  <2> QED BY <1>2, <2>2, <2>4
<1> QED BY <1>0, <1>1, <1>2, NothingLost

(* A REGISTER makes its connection the route of its UE. *)
LEMMA RegisterHeaderWay ==
  ASSUME IInv, WayInv, NEW k \in Conns, handleRegisterFromUe(k)
  PROVE  WayInv'
<1> DEFINE w == k[1]
<1>a. /\ pth[k].pc = "recv" /\ up[k] # << >> /\ SendHeader(k) /\ Head(up[k]).type = "REGISTER"
      /\ route' = [route EXCEPT ![Head(up[k]).from] = k]
  BY DEF handleRegisterFromUe, FromUe
<1>b. w \in Ues /\ k # <<Nobody, 0>>
  BY ImsAssumption DEF Conns, ImsAssumption
<1>c. Head(up[k]) = RegisterOf(w)
  <2>1. up[k] \in Seq(Msgs)
    BY QueuesTyped
  <2>2. 1 \in DOMAIN up[k] /\ Head(up[k]) = up[k][1]
    BY <1>a, <2>1
  <2> QED BY <1>a, <2>2 DEF WayInv, OwnRegister
<1>d. route'[w] = k /\ \A v \in Ues : v # w => route'[v] = route[v]
  BY <1>a, <1>b, <1>c, FollowedTyped, QueuesTyped
<1> USE HeaderMoves, <1>a
<1>0. UNCHANGED <<ue, toP, down, scscf, fates, server>>
  BY DEF SendHeader, scscfVars
<1>1. ASSUME NEW v \in Ues, ue[v].on, RegisterWay(v) PROVE Doomed' \/ RegisterWay(v)'
  <2>1. Conn(v) \in Conns /\ Conn(v)[1] = v /\ Conn(v)' = Conn(v)
    BY <1>0, <1>1, ConnsTyped DEF Conn
  <2>2. CASE v # w
    <3>1. Conn(v) # k
      BY <2>1, <2>2
    <3>2. Stale(v) => Stale(v)'
      BY <1>0, <1>d, <2>2 DEF Stale, Live, Conn
    <3> QED BY <1>0, <1>1, <1>d, <2>1, <2>2, <3>1, <3>2 DEF RegisterWay
  <2>3. CASE k = Conn(v)
    <3>1. w = v /\ route'[v] = Conn(v)' /\ Forwards(pth'[Conn(v)], RegisterOf(v))
      BY <1>c, <1>d, <2>1, <2>3
    <3> QED BY <2>1, <3>1 DEF RegisterWay
  <2>4. CASE v = w /\ k # Conn(v)
    <3>1. Stale(v)'
      BY <1>b, <1>d, <2>1, <2>4 DEF Stale, Live
    <3> QED BY <3>1 DEF RegisterWay
  <2> QED BY <2>2, <2>3, <2>4
<1>2. ASSUME NEW v \in Ues, NEW c \in CallIds, ue[v].on, Met(fates, v, c) \/ InviteWay(v, InviteOf(v, c))
      PROVE  Met(fates', v, c) \/ InviteWay(v, InviteOf(v, c))'
  <2>1. Conn(v) \in Conns /\ Conn(v)' = Conn(v)
    BY <1>0, <1>2, ConnsTyped DEF Conn
  <2>2. Met(fates, v, c) => Met(fates', v, c)
    BY <1>0 DEF Met
  <2>3. ASSUME NEW m, InviteWay(v, m) PROVE InviteWay(v, m)'
    BY <1>0, <2>1, <2>3 DEF InviteWay
  <2>4. InviteWay(v, InviteOf(v, c)) => InviteWay(v, InviteOf(v, c))'
    BY <2>3
  <2> QED BY <1>2, <2>2, <2>4
<1> QED BY <1>0, <1>1, <1>2, NothingLost

(* The messages of this kind are followed through the S-CSCF. *)
Followed(m) == m.type = "REGISTER" \/ (m.type = "INVITE" /\ m.body = "video")

(* A step of the server that leaves routes and UEs alone, if it takes no   *)
(* message out of the system but INVITEs of calls that meet an outcome.    *)
LEMMA CarriedOn ==
  ASSUME IInv, WayInv, UNCHANGED <<ue, route, down>>, Doomed => Doomed',
         \A v, c : Met(fates, v, c) => Met(fates', v, c),
         \A k \in Conns : \A m : Has(up[k], m) => Has(up'[k], m),
         \A k \in Conns : \A m : Forwards(pth[k], m) =>
            Doomed' \/ Forwards(pth'[k], m) \/ Has(wire', m),
         \A m : Has(wire, m) /\ Followed(m) =>
            \/ Has(wire', m)
            \/ m.type = "INVITE" /\ (Has(toP', m) \/ Met(fates', m.from, m.id))
            \/ m.type = "REGISTER" /\ scscf'.pc = "saa" /\ scscf'.impu = m.from,
         \A v \in Ues : scscf.pc = "saa" /\ scscf.impu = v =>
            (scscf'.pc = "saa" /\ scscf'.impu = v) \/ Has(toP', RegisteredOf(v)),
         \A m : Has(toP, m) => Has(toP', m),
         \A k \in Conns : OwnRegister(up'[k], k[1]), InHand'
  PROVE  WayInv'
<1>1. ASSUME NEW v \in Ues, ue[v].on, RegisterWay(v) PROVE Doomed' \/ RegisterWay(v)'
  <2>1. Conn(v) \in Conns /\ Conn(v)' = Conn(v)
    BY <1>1, ConnsTyped DEF Conn
  <2>2. Stale(v) => Stale(v)'
    BY DEF Stale, Live, Conn
  <2>3. RegisterOf(v).type = "REGISTER" /\ RegisterOf(v).from = v
    BY FollowedTyped
  <2>4. Has(wire, RegisterOf(v)) =>
          Has(wire', RegisterOf(v)) \/ (scscf'.pc = "saa" /\ scscf'.impu = v)
    BY <2>3 DEF Followed
  <2> QED BY <1>1, <2>1, <2>2, <2>4 DEF RegisterWay
<1>2. ASSUME NEW v \in Ues, NEW c \in CallIds, ue[v].on, Met(fates, v, c) \/ InviteWay(v, InviteOf(v, c))
      PROVE  Doomed' \/ Met(fates', v, c) \/ InviteWay(v, InviteOf(v, c))'
  <2>1. Conn(v) \in Conns /\ Conn(v)' = Conn(v)
    BY <1>2, ConnsTyped DEF Conn
  <2>2. Met(fates, v, c) => Met(fates', v, c)
    OBVIOUS
  <2>3. (\E x \in Ues : ue[x].on /\ Has(down[x], InviteOf(v, c)))
          => (\E x \in Ues : ue[x].on /\ Has(down[x], InviteOf(v, c)))'
    OBVIOUS
  <2>4. /\ InviteOf(v, c).type = "INVITE" /\ InviteOf(v, c).body = "video"
        /\ InviteOf(v, c).id = c /\ InviteOf(v, c).from = v
    BY FollowedTyped
  <2>5. Has(wire, InviteOf(v, c)) => Has(wire', InviteOf(v, c)) \/ Has(toP', InviteOf(v, c)) \/ Met(fates', v, c)
    BY <2>4 DEF Followed
  <2>6. InviteWay(v, InviteOf(v, c)) => Doomed' \/ Met(fates', v, c) \/ InviteWay(v, InviteOf(v, c))'
    BY <2>1, <2>3, <2>5 DEF InviteWay
  <2> QED BY <1>2, <2>2, <2>6
<1> QED BY <1>1, <1>2, NothingLost

(* Appending to a queue in hand keeps what is in hand. *)
LEMMA HandKept ==
  ASSUME IInv, InHand, UNCHANGED target, NEW out \in Seq(Msgs), toP' = toP \o out
  PROVE  InHand'
<1>1. toP \in Seq(Msgs) /\ (target # "-" => toP # << >>)
  BY QueuesTyped DEF IInv, TargetOK
<1>2. toP # << >> => Head(toP \o out) = Head(toP)
  BY <1>1
<1> QED BY <1>1, <1>2 DEF InHand

(* The payload follows, or is lost in a garbled stream. *)
LEMMA SendToScscfWay ==
  ASSUME IInv, WayInv, NEW k \in Conns, sendToScscf(k)
  PROVE  WayInv'
<1> USE DEF sendToScscf
<1>0. UNCHANGED <<ue, route, fates, down, up, toP, scscf, target, server>>
  BY DEF scscfVars
<1>m. \A v, c : Met(fates, v, c) => Met(fates', v, c)
  BY <1>0 DEF Met
<1>1. pth \in [Conns -> ThreadRec] /\ wire \in Seq(Msgs) /\ pth[k].msg \in Msgs
  <2>1. pth \in [Conns -> ThreadRec] /\ wire \in Seq(Msgs)
    BY QueuesTyped
  <2> QED BY <2>1 DEF ThreadRec
<1>2. \A j \in Conns : j # k => pth'[j] = pth[j]
  BY <1>1
<1>3. wire' = wire \/ wire' = Append(wire, pth[k].msg)
  OBVIOUS
<1>4. \A m : Has(wire, m) => Has(wire', m)
  BY <1>1, <1>3, HasAppend
<1>5. Garbled => Doomed'
  BY DEF Doomed, Garbled
<1>6. Doomed => Doomed'
  BY <1>0, <1>5 DEF Doomed, Broken
<1>7. ~ Garbled => Has(wire', pth[k].msg)
  BY <1>1, HasAppend
<1>8. \A j \in Conns : \A m : Forwards(pth[j], m) =>
        Doomed' \/ Forwards(pth'[j], m) \/ Has(wire', m)
  BY <1>2, <1>5, <1>7 DEF Forwards
<1>9. (\A j \in Conns : OwnRegister(up'[j], j[1])) /\ InHand'
  BY <1>0 DEF WayInv, InHand
<1> QED BY <1>0, <1>m, <1>4, <1>6, <1>8, <1>9, CarriedOn

(* Erasing the routes of a call touches no message. *)
LEMMA CleanUpWay ==
  ASSUME IInv, WayInv, NEW k \in Conns, CleanUpRouting(k)
  PROVE  WayInv'
<1> USE DEF CleanUpRouting
<1>0. UNCHANGED <<ue, route, fates, down, up, wire, toP, scscf, target, server>>
  BY DEF scscfVars
<1>m. \A v, c : Met(fates, v, c) => Met(fates', v, c)
  BY <1>0 DEF Met
<1>1. pth \in [Conns -> ThreadRec]
  BY QueuesTyped
<1>2. \A j \in Conns : j # k => pth'[j] = pth[j]
  BY <1>1
<1>3. \A j \in Conns : \A m : Forwards(pth[j], m) => Forwards(pth'[j], m)
  BY <1>2 DEF Forwards
<1>4. Doomed => Doomed'
  BY <1>0 DEF Doomed, Broken, Garbled
<1>5. (\A j \in Conns : OwnRegister(up'[j], j[1])) /\ InHand'
  BY <1>0 DEF WayInv, InHand
<1> QED BY <1>0, <1>m, <1>3, <1>4, <1>5, CarriedOn

(* The threads of the P-CSCF for its UEs. *)
LEMMA UeThreadWay ==
  ASSUME IInv, WayInv, NEW k \in Conns, UeThread(k)
  PROVE  WayInv'
<1>1. CASE handleInviteFromUe(k)
  BY <1>1, OtherHeaderWay DEF handleInviteFromUe, FromUe
<1>2. CASE handleOtherFromUe(k)
  BY <1>2, OtherHeaderWay DEF handleOtherFromUe, FromUe
<1> QED BY <1>1, <1>2, RegisterHeaderWay, SendToScscfWay, CleanUpWay DEF UeThread
----------------------------------------------------------------------------
(* The S-CSCF takes a frame and sends others, an INVITE with them unless   *)
(* its call meets an outcome; it never drops a REGISTER here.              *)
LEMMA RespondWay ==
  ASSUME IInv, WayInv, NEW t, Takes(t), t # "REGISTER", NEW out \in Seq(Msgs), Respond(out),
         fates \subseteq fates', UNCHANGED scscf,
         Followed(Head(wire)) => Has(out, Head(wire)) \/ Met(fates', Head(wire).from, Head(wire).id)
  PROVE  WayInv'
<1> DEFINE h == Head(wire)
<1>0. /\ UNCHANGED <<ue, route, down, up, pth, target, server>>
      /\ wire' = Tail(wire) /\ toP' = toP \o out
  BY DEF Respond, pcscfVars
<1>1. wire \in Seq(Msgs) /\ toP \in Seq(Msgs) /\ wire # << >> /\ h # garbage /\ h.type = t
  BY QueuesTyped DEF Takes
<1>2. \A v, c : Met(fates, v, c) => Met(fates', v, c)
  BY DEF Met
<1>3. Doomed => Doomed'
  BY <1>0, <1>1, GarbledTail DEF Doomed, Broken
<1>4. \A m : Has(toP, m) \/ Has(out, m) => Has(toP', m)
  BY <1>0, <1>1, HasCat
<1>5. \A m : Has(wire, m) => m = h \/ Has(wire', m)
  BY <1>0, <1>1, HasTail
<1>6. InHand'
  BY <1>0, HandKept DEF WayInv
<1>7. \A k \in Conns : OwnRegister(up'[k], k[1])
  BY <1>0 DEF WayInv
<1>8. Followed(h) => h.type = "INVITE" /\ (Has(out, h) \/ Met(fates', h.from, h.id))
  BY <1>1 DEF Followed
<1> HIDE DEF h
<1>9. \A m : Has(wire, m) /\ Followed(m) =>
         Has(wire', m) \/ (m.type = "INVITE" /\ (Has(toP', m) \/ Met(fates', m.from, m.id)))
  BY <1>4, <1>5, <1>8
<1> QED BY <1>0, <1>2, <1>3, <1>4, <1>6, <1>7, <1>9, CarriedOn

(* A sequence has its members. *)
LEMMA HasMember ==
  /\ \A x : Has(<<x>>, x)
  /\ \A x, y : Has(<<x, y>>, x) /\ Has(<<x, y>>, y)
  /\ \A x, y, z : Has(<<x, y, z>>, y)
<1>1. \A x : Has(<<x>>, x)
  BY DEF Has
<1>2. ASSUME NEW x, NEW y PROVE Has(<<x, y>>, x) /\ Has(<<x, y>>, y)
  <2>1. 1 \in DOMAIN <<x, y>> /\ 2 \in DOMAIN <<x, y>> /\ <<x, y>>[1] = x /\ <<x, y>>[2] = y
    OBVIOUS
  <2> QED BY <2>1 DEF Has
<1>3. ASSUME NEW x, NEW y, NEW z PROVE Has(<<x, y, z>>, y)
  <2>1. 2 \in DOMAIN <<x, y, z>> /\ <<x, y, z>>[2] = y
    OBVIOUS
  <2> QED BY <2>1 DEF Has
<1> QED BY <1>1, <1>2, <1>3

(* A REGISTER: the S-CSCF asks the HSS. *)
LEMMA ScscfRegisterWay ==
  ASSUME IInv, WayInv, handleRegister
  PROVE  WayInv'
<1> USE DEF handleRegister
<1> DEFINE h == Head(wire)
<1>0. /\ UNCHANGED <<ue, route, fates, down, up, pth, target, server, toP>>
      /\ wire' = Tail(wire) /\ scscf'.pc = "saa" /\ scscf'.impu = h.from
  BY DEF pcscfVars
<1>1. /\ wire \in Seq(Msgs) /\ wire # << >> /\ h # garbage /\ h.type = "REGISTER"
      /\ scscf.pc = "loop"
  BY QueuesTyped DEF Takes
<1>2. \A v, c : Met(fates, v, c) => Met(fates', v, c)
  BY <1>0 DEF Met
<1>3. Doomed => Doomed'
  BY <1>0, <1>1, GarbledTail DEF Doomed, Broken
<1>4. \A m : Has(wire, m) => m = h \/ Has(wire', m)
  BY <1>0, <1>1, HasTail
<1>5. (\A k \in Conns : OwnRegister(up'[k], k[1])) /\ InHand'
  BY <1>0 DEF WayInv, InHand
<1> HIDE DEF h
<1> QED BY <1>0, <1>1, <1>2, <1>3, <1>4, <1>5, CarriedOn

(* It answers the REGISTER with or without the HSS's answer. *)
LEMMA WaitWay ==
  ASSUME IInv, WayInv, waitCxSAA
  PROVE  WayInv'
<1>0. /\ UNCHANGED <<ue, route, fates, down, up, pth, target, server, wire>>
      /\ toP' = Append(toP, Msg("200", NoCallId, scscf.impu, scscf.impu, "REGISTER"))
      /\ scscf' = [pc |-> "loop", impu |-> Nobody] /\ scscf.pc = "saa"
  BY DEF waitCxSAA, FinishRegister, pcscfVars
<1> DEFINE m == RegisteredOf(scscf.impu)
<1>1. toP \in Seq(Msgs) /\ m \in Msgs /\ toP' = Append(toP, m)
  <2>1. scscf.impu \in Impus
    BY DEF IInv, ScscfOK
  <2>2. m \in Msgs
    BY <2>1, ConstMsgs DEF RegisteredOf, Msg, Msgs, Types, Reasons
  <2> QED BY <1>0, <2>2, QueuesTyped DEF RegisteredOf
<1>2. \A v, c : Met(fates, v, c) => Met(fates', v, c)
  BY <1>0 DEF Met
<1>3. Doomed => Doomed'
  BY <1>0 DEF Doomed, Broken, Garbled
<1>4. (\A x : Has(toP, x) => Has(toP', x)) /\ Has(toP', m)
  BY <1>1, HasAppend
<1>5. \A k \in Conns : OwnRegister(up'[k], k[1])
  BY <1>0 DEF WayInv
<1>6. InHand'
  <2>1. <<m>> \in Seq(Msgs) /\ toP' = toP \o <<m>>
    BY <1>1
  <2> QED BY <1>0, <2>1, HandKept DEF WayInv
<1> QED BY <1>0, <1>2, <1>3, <1>4, <1>5, <1>6, CarriedOn

(* A new call: the INVITE goes on, unless the callee is barred. *)
LEMMA ScscfInviteWay ==
  ASSUME IInv, WayInv, handleInvite
  PROVE  WayInv'
<1> USE DEF handleInvite
<1> DEFINE m  == Head(wire)
           id == m.id
           a  == Msg("100", id, m.from, m.to, "INVITE")
           b  == Msg("183", id, m.from, m.to, "INVITE")
           d  == Msg("200", id, m.from, m.to, "BARRED")
<1>1. wire # << >> /\ Takes("INVITE") /\ UNCHANGED scscf
  BY DEF Takes
<1>2. m \in Msgs
  BY <1>1, WireHead
<1>3. id \in CallIds /\ m.from \in Impus /\ m.to \in Impus
  BY <1>2, MsgFields
<1>4. \/ Respond(<<a, m, b>>)
      \/ Respond(<<a, d>>) /\ fates' = fates \cup {<<m.from, id, "barred">>}
  BY DEF Declined, invokeMtas, Befalls
<1>5. fates \subseteq fates'
  BY DEF Befalls
<1>6. a \in Msgs /\ b \in Msgs /\ d \in Msgs
  BY <1>3 DEF Msg, Msgs, Types, Reasons
<1> HIDE DEF a, b, d
<1>7. CASE Respond(<<a, m, b>>)
  <2>1. <<a, m, b>> \in Seq(Msgs)
    BY <1>2, <1>6
  <2>2. Has(<<a, m, b>>, m)
    BY HasMember
  <2> QED BY <1>1, <1>5, <1>7, <2>1, <2>2, RespondWay
<1>8. CASE Respond(<<a, d>>) /\ fates' = fates \cup {<<m.from, id, "barred">>}
  <2>1. <<a, d>> \in Seq(Msgs)
    BY <1>6
  <2>2. Met(fates', m.from, id)
    BY <1>8 DEF Met, Outcomes
  <2> QED BY <1>1, <1>5, <1>8, <2>1, <2>2, RespondWay
<1> QED BY <1>4, <1>7, <1>8

(* A call the S-CSCF knows: an INVITE with video goes on as it is. *)
LEMMA ScscfReInviteWay ==
  ASSUME IInv, WayInv, handleReInvite
  PROVE  WayInv'
<1> USE DEF handleReInvite
<1> DEFINE m  == Head(wire)
           id == m.id
           f  == calls[id].caller
           g  == calls[id].callee
           b  == ReInviteReason(m.body)
           j  == [m.id EXCEPT !.conf = @ + 1]
           ok == Msg("200", id, f, g, b)
           l  == Msg("INVITE", j, f, m.to, "conf")
<1>1. /\ wire # << >> /\ Takes("INVITE") /\ id \in DOMAIN calls
      /\ UNCHANGED <<scscf, fates>>
  BY DEF Takes
<1>2. m \in Msgs
  BY <1>1, WireHead
<1>3. f \in Ues /\ g \in Impus /\ f \in Impus
  BY <1>1 DEF IInv, CallsOK, Impus
<1>4. id \in CallIds /\ m.to \in Impus
  BY <1>2, MsgFields
<1>5. j \in CallIds
  BY <1>4 DEF CallIds
<1>6. b \in Reasons
  BY ReasonOK
<1>7. \/ m.body # "conf" /\ Respond(<<m, ok>>)
      \/ m.body = "conf" /\ (Respond(<<l, ok>>) \/ Respond(<<ok>>))
  OBVIOUS
<1> HIDE DEF f, g, b, j
<1>8. ok \in Msgs /\ l \in Msgs
  BY <1>3, <1>4, <1>5, <1>6 DEF Msg, Msgs, Types, Sdps
<1> HIDE DEF ok, l
<1>9. <<m, ok>> \in Seq(Msgs) /\ <<l, ok>> \in Seq(Msgs) /\ <<ok>> \in Seq(Msgs)
  BY <1>2, <1>8
<1>10. fates \subseteq fates'
  BY <1>1
<1>11. CASE m.body # "conf" /\ Respond(<<m, ok>>)
  <2>1. Has(<<m, ok>>, m)
    BY HasMember
  <2> QED BY <1>1, <1>9, <1>10, <1>11, <2>1, RespondWay
<1>12. CASE m.body = "conf" /\ (Respond(<<l, ok>>) \/ Respond(<<ok>>))
  <2>1. ~ Followed(m)
    BY <1>1, <1>12 DEF Followed, Takes
  <2> QED BY <1>1, <1>9, <1>10, <1>12, <2>1, RespondWay
<1> QED BY <1>7, <1>11, <1>12

(* The other frames of a UE are no longer followed here. *)
LEMMA ScscfOtherWay ==
  ASSUME IInv, WayInv, handleAck \/ handle200Ok \/ handleBye \/ handleUpdate
  PROVE  WayInv'
<1> DEFINE m  == Head(wire)
           b  == Msg("200", m.id, Nobody, Nobody, "BYE")
           o  == Msg("200", m.id, Nobody, Nobody, "UPDATE")
<1>1. PICK t \in {"ACK", "200", "BYE", "CANCEL"} : Takes(t)
  BY DEF handleAck, handle200Ok, handleBye, handleUpdate
<1>2. wire # << >> /\ m.type = t /\ UNCHANGED <<scscf, fates>>
  BY <1>1 DEF handleAck, handle200Ok, handleBye, handleUpdate, Takes
<1>3. m \in Msgs /\ m.id \in CallIds
  BY <1>2, WireHead, MsgFields
<1>4. \/ Respond(<<m>>) \/ Respond(<< >>) \/ Respond(<<b, m>>)
      \/ Respond(<<m, o>>) \/ Respond(<<o>>)
  BY DEF handleAck, handle200Ok, handleBye, handleUpdate
<1>5. b \in Msgs /\ o \in Msgs
  BY <1>3 DEF Msg, Msgs, Types, Reasons, Impus
<1>6. ~ Followed(m)
  BY <1>2 DEF Followed
<1> HIDE DEF m, b, o
<1>7. /\ <<m>> \in Seq(Msgs) /\ << >> \in Seq(Msgs) /\ <<b, m>> \in Seq(Msgs)
      /\ <<m, o>> \in Seq(Msgs) /\ <<o>> \in Seq(Msgs)
  BY <1>3, <1>5
<1>8. t # "REGISTER" /\ fates \subseteq fates'
  BY <1>2
<1> QED BY <1>1, <1>2, <1>4, <1>6, <1>7, <1>8, RespondWay DEF m

(* The garbled part is reached. *)
LEMMA LoopEndsWay ==
  ASSUME IInv, WayInv, ReceiveLoopEnds
  PROVE  WayInv'
<1>1. UNCHANGED <<ue, up, toP, target>>
  BY DEF ReceiveLoopEnds, pcscfVars
<1>2. Doomed'
  <2>1. scscf \in [pc : {"loop", "saa", "ended"}, impu : Impus]
    BY DEF IInv, ScscfOK
  <2> QED BY <2>1 DEF ReceiveLoopEnds, Doomed, Broken
<1>3. (\A k \in Conns : OwnRegister(up'[k], k[1])) /\ InHand'
  BY <1>1 DEF WayInv, InHand
<1> QED BY <1>1, <1>2, <1>3, NothingLost

(* A step that touches nothing that is followed. *)
LEMMA UntouchedWay ==
  ASSUME IInv, WayInv,
         UNCHANGED <<ue, route, down, up, pth, wire, toP, scscf, target, server, fates>>
  PROVE  WayInv'
<1>1. (\A v, c : Met(fates, v, c) => Met(fates', v, c)) /\ (Doomed => Doomed')
  BY DEF Doomed, Broken, Garbled
<1>2. (\A k \in Conns : OwnRegister(up'[k], k[1])) /\ InHand'
  BY DEF WayInv, InHand
<1> QED BY <1>1, <1>2, CarriedOn

(* A step of the S-CSCF. *)
LEMMA ScscfThreadWay ==
  ASSUME IInv, WayInv, ScscfThread
  PROVE  WayInv'
  BY ScscfRegisterWay, WaitWay, ScscfInviteWay, ScscfReInviteWay, ScscfOtherWay, LoopEndsWay
     DEF ScscfThread
----------------------------------------------------------------------------
(* The P-CSCF takes a frame of the S-CSCF: it arrives where it is sent if  *)
(* the route is that of a running UE, unless the server dies of it.        *)
LEMMA RoutedMoves ==
  ASSUME IInv, toP # << >>, NEW x, NEW m \in Msgs, NEW y, NEW n \in Msgs,
         Routed(<<x, m>>, <<y, n>>), server' # "dead"
  PROVE  /\ \A u \in Ues : \A z : Has(down[u], z) => Has(down'[u], z)
         /\ Live(x) /\ ~ Printed(m) => Has(down'[x], m)
<1>1. down' = [u \in Ues |-> down[u] \o Delivered(u, <<x, m>>) \o Delivered(u, <<y, n>>)]
  BY DEF Routed, sendToUe
<1>2. down \in [Ues -> Seq(Msgs)]
  BY QueuesTyped
<1>3. ASSUME NEW u \in Ues
      PROVE  /\ Delivered(u, <<x, m>>) \in Seq(Msgs) /\ Delivered(u, <<y, n>>) \in Seq(Msgs)
             /\ Live(x) /\ ~ Printed(m) /\ u = x => Delivered(u, <<x, m>>) = <<m>>
  BY DEF Delivered
<1>4. ASSUME NEW u \in Ues, NEW z
      PROVE  Has(down[u], z) \/ Has(Delivered(u, <<x, m>>), z) => Has(down'[u], z)
  <2> DEFINE p == Delivered(u, <<x, m>>)
             q == Delivered(u, <<y, n>>)
  <2>1. p \in Seq(Msgs) /\ q \in Seq(Msgs) /\ down[u] \in Seq(Msgs)
    BY <1>2, <1>3
  <2>2. down'[u] = (down[u] \o p) \o q
    BY <1>1
  <2> HIDE DEF p, q
  <2>3. Has(down[u], z) \/ Has(p, z) => Has(down[u] \o p, z)
    BY <2>1, HasCat
  <2>4. down[u] \o p \in Seq(Msgs)
    BY <2>1
  <2>5. Has(down[u] \o p, z) => Has((down[u] \o p) \o q, z)
    BY <2>1, <2>4, HasCat
  <2> QED BY <2>2, <2>3, <2>5 DEF p
<1>5. ASSUME Live(x), ~ Printed(m) PROVE Has(down'[x], m)
  <2>1. x \in Ues
    BY <1>5 DEF Live
  <2>2. Has(Delivered(x, <<x, m>>), m)
    BY <1>3, <1>5, <2>1, HasMember
  <2> QED BY <1>4, <2>1, <2>2
<1> QED BY <1>4, <1>5

(* A frame that is routed keeps the invariant if an answer to a REGISTER   *)
(* goes to its UE, and an INVITE arrives or its call meets an outcome.     *)
LEMMA RoutedWay ==
  ASSUME IInv, WayInv, toP # << >>, NEW x, NEW m \in Msgs, NEW y, NEW n \in Msgs,
         Routed(<<x, m>>, <<y, n>>), target' = "-", fates \subseteq fates',
         \A v \in Ues : Head(toP) = RegisteredOf(v) => x = v /\ m = Head(toP),
         \A v \in Ues, c \in CallIds : Head(toP) = InviteOf(v, c) =>
            Met(fates', v, c) \/ (Live(x) /\ m = Head(toP))
  PROVE  WayInv'
<1>0. UNCHANGED <<ue, up, pth, route, wire, scscf>> /\ toP' = Tail(toP)
  BY DEF Routed, scscfVars
<1>1. \A z : Has(toP, z) => z = Head(toP) \/ Has(toP', z)
  BY <1>0, QueuesTyped, HasTail
<1>2. Doomed => Doomed'
  BY <1>0 DEF Doomed, Broken, Garbled, Routed, sendToUe
<1>3. server' = "dead" => Doomed'
  BY DEF Doomed, Broken
<1>4. /\ \A v \in Ues : ~ Printed(RegisteredOf(v))
      /\ \A v \in Ues, c \in CallIds : ~ Printed(InviteOf(v, c))
  <2>1. ASSUME NEW v \in Ues PROVE ~ Printed(RegisteredOf(v))
    BY FollowedTyped DEF Printed
  <2>2. ASSUME NEW v \in Ues, NEW c \in CallIds PROVE ~ Printed(InviteOf(v, c))
    <3>1. InviteOf(v, c).type = "INVITE"
      BY FollowedTyped
    <3> QED BY <3>1 DEF Printed
  <2> QED BY <2>1, <2>2
<1>5. ASSUME NEW v \in Ues, ue[v].on, RegisterWay(v), server' # "dead" PROVE RegisterWay(v)'
  <2>1. Conn(v) \in Conns /\ Conn(v)' = Conn(v)
    BY <1>0, <1>5, ConnsTyped DEF Conn
  <2>2. Stale(v) => Stale(v)'
    BY <1>0 DEF Stale, Live, Conn
  <2>3. Has(down[v], RegisteredOf(v)) => Has(down'[v], RegisteredOf(v))
    BY <1>5, RoutedMoves
  <2>4. route[v] = Conn(v) /\ Has(toP, RegisteredOf(v)) =>
          Has(toP', RegisteredOf(v)) \/ Has(down'[v], RegisteredOf(v))
    <3>1. SUFFICES ASSUME route[v] = Conn(v), Head(toP) = RegisteredOf(v)
                   PROVE  Has(down'[v], RegisteredOf(v))
      BY <1>1
    <3>2. x = v /\ m = RegisteredOf(v) /\ Live(x)
      BY <1>5, <3>1 DEF Live
    <3> QED BY <1>4, <1>5, <3>2, RoutedMoves
  <2> QED BY <1>0, <1>5, <2>1, <2>2, <2>3, <2>4 DEF RegisterWay
<1>6. ASSUME NEW v \in Ues, NEW c \in CallIds, ue[v].on,
             Met(fates, v, c) \/ InviteWay(v, InviteOf(v, c)), server' # "dead"
      PROVE  Met(fates', v, c) \/ InviteWay(v, InviteOf(v, c))'
  <2>1. Conn(v)' = Conn(v)
    BY <1>0 DEF Conn
  <2>2. Met(fates, v, c) => Met(fates', v, c)
    BY DEF Met
  <2>3. (\E u \in Ues : ue[u].on /\ Has(down[u], InviteOf(v, c)))
          => (\E u \in Ues : ue[u].on /\ Has(down[u], InviteOf(v, c)))'
    BY <1>0, <1>6, RoutedMoves
  <2>4. Has(toP, InviteOf(v, c)) => \/ Has(toP', InviteOf(v, c)) \/ Met(fates', v, c)
                                 \/ (\E u \in Ues : ue[u].on /\ Has(down[u], InviteOf(v, c)))'
    <3>1. SUFFICES ASSUME Head(toP) = InviteOf(v, c), Live(x), m = Head(toP)
                   PROVE  (\E u \in Ues : ue[u].on /\ Has(down[u], InviteOf(v, c)))'
      BY <1>1
    <3>2. Has(down'[x], InviteOf(v, c))
      BY <1>4, <1>6, <3>1, RoutedMoves
    <3>3. x \in Ues /\ ue'[x].on
      BY <1>0, <3>1 DEF Live
    <3> QED BY <3>2, <3>3
  <2>5. InviteWay(v, InviteOf(v, c)) => Met(fates', v, c) \/ InviteWay(v, InviteOf(v, c))'
    BY <1>0, <2>1, <2>3, <2>4 DEF InviteWay
  <2> QED BY <1>6, <2>2, <2>5
<1>7. (\A k \in Conns : OwnRegister(up'[k], k[1])) /\ InHand'
  BY <1>0 DEF WayInv, InHand
<1> QED BY <1>0, <1>2, <1>3, <1>5, <1>6, <1>7, NothingLost

(* The frames that go to one UE or to none. *)
LEMMA RouteOneWay ==
  ASSUME IInv, WayInv, RouteProvisional \/ Route200 \/ RouteAck \/ RouteOther
  PROVE  WayInv'
<1>1. toP # << >> /\ target' = "-" /\ fates' = fates
  BY DEF RouteProvisional, Route200, RouteAck, RouteOther, FromScscf
<1>2. PICK x : Routed(<<x, Head(toP)>>, NoSend)
  BY DEF RouteProvisional, Route200, RouteAck, RouteOther
<1>3. Head(toP) \in Msgs /\ NoMsg \in Msgs
  BY <1>1, ToPHead, ConstMsgs
<1>4. /\ Head(toP).type # "INVITE"
      /\ Head(toP).type = "200" => Head(toP).body # "REGISTER"
  BY DEF RouteProvisional, Route200, RouteAck, RouteOther, FromScscf
<1>5. /\ \A v \in Ues : Head(toP) # RegisteredOf(v)
      /\ \A v \in Ues, c \in CallIds : Head(toP) # InviteOf(v, c)
  BY <1>4, FollowedTyped
<1>6. Routed(<<x, Head(toP)>>, <<Nobody, NoMsg>>)
  BY <1>2 DEF NoSend
<1> QED BY <1>1, <1>3, <1>5, <1>6, RoutedWay

(* The answer to a REGISTER goes to its UE. *)
LEMMA RouteRegisterWay ==
  ASSUME IInv, WayInv, RouteRegister200
  PROVE  WayInv'
<1> DEFINE x == Head(toP).from
<1>1. /\ toP # << >> /\ target' = "-" /\ fates' = fates /\ Head(toP).type = "200"
      /\ Routed(<<x, Head(toP)>>, <<Nobody, NoMsg>>)
  BY DEF RouteRegister200, FromScscf, NoSend
<1>2. Head(toP) \in Msgs /\ NoMsg \in Msgs
  BY <1>1, ToPHead, ConstMsgs
<1>3. /\ \A v \in Ues : Head(toP) = RegisteredOf(v) => x = v
      /\ \A v \in Ues, c \in CallIds : Head(toP) # InviteOf(v, c)
  BY <1>1, FollowedTyped
<1> HIDE DEF x
<1> QED BY <1>1, <1>2, <1>3, RoutedWay

(* An INVITE goes to the callee, if there is a way to it. *)
LEMMA RouteInviteWay ==
  ASSUME IInv, WayInv, RouteInvite
  PROVE  WayInv'
<1> USE DEF RouteInvite
<1> DEFINE m == Head(toP)
           r == Msg("180", m.id, m.from, m.to, "INVITE")
<1>1. toP # << >> /\ target' = "-" /\ m.type = "INVITE"
  BY DEF FromScscf
<1>2. m \in Msgs /\ NoMsg \in Msgs
  BY <1>1, ToPHead, ConstMsgs
<1>3. r \in Msgs
  BY <1>2, MsgFields DEF Msg, Msgs, Types, Reasons
<1>4. \/ Routed(<<m.to, m>>, <<m.from, r>>)
      \/ Routed(<<m.to, m>>, <<Nobody, NoMsg>>)
  BY DEF NoSend
<1>5. /\ fates \subseteq fates'
      /\ Live(m.to) \/ <<m.from, m.id, "unreachable">> \in fates'
  BY DEF Befalls
<1>6. Live(m.to) \/ Met(fates', m.from, m.id)
  BY <1>5 DEF Met, Outcomes
<1>7. /\ \A v \in Ues : m # RegisteredOf(v)
      /\ \A v \in Ues, c \in CallIds : m = InviteOf(v, c) => m.id = c /\ m.from = v
  BY <1>1, FollowedTyped
<1> HIDE DEF m, r
<1>8. /\ \A v \in Ues : Head(toP) # RegisteredOf(v)
      /\ \A v \in Ues, c \in CallIds : Head(toP) = InviteOf(v, c) => Met(fates', v, c) \/ (Live(m.to) /\ m = Head(toP))
  BY <1>6, <1>7 DEF m
<1> QED BY <1>1, <1>2, <1>3, <1>4, <1>5, <1>8, RoutedWay

(* The first of the two lookups. *)
LEMMA LookUpCallerWay ==
  ASSUME IInv, WayInv, LookUpCaller
  PROVE  WayInv'
<1>1. UNCHANGED <<ue, route, down, up, pth, wire, toP, scscf, server, fates>>
  BY DEF LookUpCaller, scscfVars
<1>2. InHand'
  BY <1>1 DEF LookUpCaller, InHand, FromScscf
<1>3. (\A v, c : Met(fates, v, c) => Met(fates', v, c)) /\ (Doomed => Doomed')
  BY <1>1 DEF Doomed, Broken, Garbled
<1>4. \A k \in Conns : OwnRegister(up'[k], k[1])
  BY <1>1 DEF WayInv
<1> QED BY <1>1, <1>2, <1>3, <1>4, CarriedOn

(* The second: what is in hand is neither an INVITE nor for a REGISTER. *)
LEMMA RouteToBothWay ==
  ASSUME IInv, WayInv, RouteToBoth
  PROVE  WayInv'
<1> USE DEF RouteToBoth
<1>1. toP # << >> /\ target' = "-" /\ fates' = fates
  BY DEF IInv, TargetOK
<1>2. PICK x, y : Routed(<<x, Head(toP)>>, <<y, Head(toP)>>)
  OBVIOUS
<1>3. Head(toP) \in Msgs
  BY <1>1, ToPHead
<1>4. Head(toP).type = "200" /\ Head(toP).body # "REGISTER"
  BY DEF WayInv, InHand, ToBoth
<1>5. /\ \A v \in Ues : Head(toP) # RegisteredOf(v)
      /\ \A v \in Ues, c \in CallIds : Head(toP) # InviteOf(v, c)
  BY <1>4, FollowedTyped
<1> QED BY <1>1, <1>2, <1>3, <1>5, RoutedWay

(* The P-CSCF's thread for the S-CSCF. *)
LEMMA ScscfReceiveWay ==
  ASSUME IInv, WayInv, ScscfReceive
  PROVE  WayInv'
  BY RouteOneWay, RouteRegisterWay, RouteInviteWay, LookUpCallerWay, RouteToBothWay
     DEF ScscfReceive
----------------------------------------------------------------------------
(* A step of UE u: it changes the UE, what the UE receives and what it has *)
(* sent, and takes no INVITE away unless its call meets an outcome.        *)
UeMoves(u) ==
  /\ UNCHANGED <<pth, route, wire, toP, scscf, server, target>>
  /\ \A k \in Conns : OwnRegister(up'[k], k[1]) /\ \A m : Has(up[k], m) => Has(up'[k], m)
  /\ \A v \in Ues : v # u => ue'[v] = ue[v] /\ down'[v] = down[v]
  /\ \A v \in Ues, c \in CallIds : ue[u].on /\ Has(down[u], InviteOf(v, c)) =>
       Met(fates', v, c) \/ (ue'[u].on /\ Has(down'[u], InviteOf(v, c)))
  /\ \A v \in Ues, c \in CallIds : Met(fates, v, c) /\ v # u => Met(fates', v, c)

GoesOn(u) == ue[u].on /\ ue'[u].on /\ ue'[u].life = ue[u].life

(* A UE's step mends nothing. *)
LEMMA DoomedKept ==
  ASSUME NEW u, UeMoves(u)
  PROVE  Doomed => Doomed'
  BY DEF UeMoves, Doomed, Broken, Garbled

(* An INVITE that is on its way stays so. *)
LEMMA InviteKept ==
  ASSUME NEW u \in Ues, UeMoves(u), NEW v \in Ues, Conn(v) \in Conns, Conn(v)' = Conn(v),
         NEW c \in CallIds, InviteWay(v, InviteOf(v, c))
  PROVE  Met(fates', v, c) \/ InviteWay(v, InviteOf(v, c))'
<1> DEFINE m == InviteOf(v, c)
<1>1. ASSUME NEW x \in Ues, ue[x].on, Has(down[x], m)
      PROVE  Met(fates', v, c) \/ (\E z \in Ues : ue[z].on /\ Has(down[z], m))'
  <2>1. CASE x = u
    BY <1>1, <2>1 DEF UeMoves
  <2>2. CASE x # u
    <3>1. ue'[x].on /\ Has(down'[x], m)
      BY <1>1, <2>2 DEF UeMoves
    <3> QED BY <3>1
  <2> QED BY <2>1, <2>2
<1>2. Has(up[Conn(v)], m) => Has(up'[Conn(v)], m)
  BY DEF UeMoves
<1>3. UNCHANGED <<pth, wire, toP>>
  BY DEF UeMoves
<1> HIDE DEF m
<1>4. InviteWay(v, m) => Met(fates', v, c) \/ InviteWay(v, m)'
  BY <1>1, <1>2, <1>3 DEF InviteWay
<1> QED BY <1>4 DEF m

(* The other UEs lose nothing by it. *)
LEMMA UeStepWay ==
  ASSUME IInv, WayInv, NEW u \in Ues, UeMoves(u), RegisterOK(u)', CallOK(u)', InHand'
  PROVE  WayInv'
<1>1. ASSUME NEW v \in Ues, v # u PROVE RegisterOK(v)'
  <2>1. RegisterOK(v) /\ ue'[v] = ue[v] /\ down'[v] = down[v]
    BY <1>1 DEF WayInv, UeMoves
  <2>2. SUFFICES ASSUME ue[v].st = "REGISTERING", ue[v].on, RegisterWay(v) PROVE RegisterWay(v)'
    BY <2>1, DoomedKept DEF RegisterOK
  <2>3. Conn(v) \in Conns /\ Conn(v)' = Conn(v)
    BY <2>1, <2>2, ConnsTyped DEF Conn
  <2>4. UNCHANGED <<route, pth, wire, toP, scscf>>
    BY DEF UeMoves
  <2>5. Stale(v) => Stale(v)'
    BY <2>1, <2>3, <2>4 DEF Stale, Live
  <2>6. Has(up[Conn(v)], RegisterOf(v)) => Has(up'[Conn(v)], RegisterOf(v))
    BY <2>3 DEF UeMoves
  <2> QED BY <2>1, <2>2, <2>3, <2>4, <2>5, <2>6 DEF RegisterWay
<1>2. ASSUME NEW v \in Ues, v # u PROVE CallOK(v)'
  <2> DEFINE c == ue[v].call
  <2>1. CallOK(v) /\ ue'[v] = ue[v] /\ c \in CallIds /\ c' = c
    BY <1>2, UeFields DEF WayInv, UeMoves, IInv
  <2>2. SUFFICES ASSUME ue[v].st = "CALLING"
                 PROVE  /\ ue'[v].on
                        /\ Doomed' \/ Met(fates', v, c) \/ InviteWay(v, InviteOf(v, c))'
    BY <2>1 DEF CallOK
  <2>3. ue[v].on /\ (Doomed \/ Met(fates, v, c) \/ InviteWay(v, InviteOf(v, c)))
    BY <2>1, <2>2 DEF CallOK
  <2>4. Conn(v) \in Conns /\ Conn(v)' = Conn(v)
    BY <2>1, <2>3, ConnsTyped DEF Conn
  <2>5. Met(fates, v, c) => Met(fates', v, c)
    BY <1>2, <2>1, <2>3 DEF UeMoves
  <2>6. ue'[v].on
    BY <2>1, <2>3
  <2> HIDE DEF c
  <2>7. InviteWay(v, InviteOf(v, c)) => Met(fates', v, c) \/ InviteWay(v, InviteOf(v, c))'
    BY <2>1, <2>4, InviteKept
  <2> QED BY <2>3, <2>5, <2>6, <2>7, DoomedKept
<1>3. \A k \in Conns : OwnRegister(up'[k], k[1])
  BY DEF UeMoves
<1> QED BY <1>1, <1>2, <1>3 DEF WayInv

(* A REGISTER of the UE itself stays on its way, *)
LEMMA RegisterGoesOn ==
  ASSUME IInv, WayInv, NEW u \in Ues, UeMoves(u), GoesOn(u),
         ue'[u].st = "REGISTERING" =>
           /\ ue[u].st = "REGISTERING"
           /\ Has(down[u], RegisteredOf(u)) => Has(down'[u], RegisteredOf(u))
  PROVE  RegisterOK(u)'
<1>1. RegisterOK(u)
  BY DEF WayInv
<1>2. SUFFICES ASSUME ue'[u].st = "REGISTERING", RegisterWay(u) PROVE RegisterWay(u)'
  BY <1>1, DoomedKept DEF RegisterOK, GoesOn
<1>3. Conn(u) \in Conns /\ Conn(u)' = Conn(u)
  BY ConnsTyped DEF Conn, GoesOn
<1>4. UNCHANGED <<route, pth, wire, toP, scscf>>
  BY DEF UeMoves
<1>5. Stale(u) => Stale(u)'
  BY <1>3, <1>4 DEF Stale, Live, GoesOn
<1>6. Has(up[Conn(u)], RegisterOf(u)) => Has(up'[Conn(u)], RegisterOf(u))
  BY <1>3 DEF UeMoves
<1> QED BY <1>2, <1>3, <1>4, <1>5, <1>6 DEF RegisterWay

(* and so does its INVITE. *)
LEMMA CallGoesOn ==
  ASSUME IInv, WayInv, NEW u \in Ues, UeMoves(u), GoesOn(u),
         ue'[u].st = "CALLING" =>
           ue[u].st = "CALLING" /\ ue'[u].call = ue[u].call /\ fates \subseteq fates'
  PROVE  CallOK(u)'
<1> DEFINE c == ue[u].call
<1>1. CallOK(u) /\ c \in CallIds
  BY UeFields DEF WayInv, IInv
<1>2. SUFFICES ASSUME ue'[u].st = "CALLING" PROVE CallOK(u)'
  BY DEF CallOK
<1>3. ue[u].on /\ (Doomed \/ Met(fates, u, c) \/ InviteWay(u, InviteOf(u, c)))
  BY <1>1, <1>2 DEF CallOK
<1>4. Conn(u) \in Conns /\ Conn(u)' = Conn(u)
  BY ConnsTyped DEF Conn, GoesOn
<1>5. Met(fates, u, c) => Met(fates', u, c)
  BY <1>2 DEF Met
<1>6. c' = c /\ ue'[u].on
  BY <1>2 DEF GoesOn
<1> HIDE DEF c
<1>8. InviteWay(u, InviteOf(u, c)) => Met(fates', u, c) \/ InviteWay(u, InviteOf(u, c))'
  BY <1>1, <1>4, <1>6, InviteKept
<1>9. Doomed' \/ Met(fates', u, c) \/ InviteWay(u, InviteOf(u, c))'
  BY <1>3, <1>5, <1>8, DoomedKept
<1> QED BY <1>6, <1>9 DEF CallOK, c

(* What a command leaves of the UE's record. *)
LEMMA RecDone ==
  ASSUME NEW r \in UeRec
  PROVE  LET n == [r EXCEPT !.cmd = NoCommand, !.seq = @ + 1]
         IN  n.on = r.on /\ n.life = r.life /\ n.st = r.st /\ n.call = r.call
  BY DEF UeRec

(* The UE in another state. *)
LEMMA RecIn ==
  ASSUME IInv, NEW u \in Ues, NEW s \in States
  PROVE  /\ In(u, s) \in UeRec /\ In(u, s).on = ue[u].on /\ In(u, s).life = ue[u].life
         /\ In(u, s).st = s /\ In(u, s).call = ue[u].call
<1>1. ue[u] \in UeRec
  BY UeFields DEF IInv
<1> QED BY <1>1 DEF In, UeRec

(* What a UE sends is on its connection if the server is there. *)
LEMMA SendUpWay ==
  ASSUME IInv, WayInv, NEW u \in Ues, ue[u].on, NEW m \in Msgs, SendUp(u, m),
         m.type = "REGISTER" => m = RegisterOf(u)
  PROVE  /\ \A k \in Conns : OwnRegister(up'[k], k[1])
         /\ \A k \in Conns : \A x : Has(up[k], x) => Has(up'[k], x)
         /\ server = "up" => Has(up'[Conn(u)], m)
<1> DEFINE k == Conn(u)
<1>1. k \in Conns /\ k[1] = u /\ up \in [Conns -> Seq(Msgs)]
  BY ConnsTyped, QueuesTyped
<1>2. \A j \in Conns : OwnRegister(up[j], j[1])
  BY DEF WayInv
<1>3. CASE server = "up"
  <2>1. up' = [up EXCEPT ![k] = Append(up[k], m)]
    BY <1>3 DEF SendUp
  <2> HIDE DEF k
  <2>2. up'[k] = Append(up[k], m) /\ up[k] \in Seq(Msgs) /\ \A j \in Conns : j # k => up'[j] = up[j]
    BY <1>1, <2>1
  <2>3. Has(up'[k], m) /\ \A x : Has(up[k], x) => Has(up'[k], x)
    BY <2>2, HasAppend
  <2>4. OwnRegister(up'[k], u)
    <3>1. OwnRegister(up[k], u)
      BY <1>1, <1>2
    <3>2. \A i \in DOMAIN up'[k] : up'[k][i] = m \/ (i \in DOMAIN up[k] /\ up'[k][i] = up[k][i])
      BY <2>2
    <3> QED BY <3>1, <3>2 DEF OwnRegister
  <2> QED BY <1>1, <1>2, <2>2, <2>3, <2>4 DEF k
<1>4. CASE server # "up"
  <2>1. up' = up
    BY <1>4 DEF SendUp
  <2> QED BY <1>2, <1>4, <2>1
<1> QED BY <1>3, <1>4

(* A command: unless it is a REGISTER or a new call, what is on its way    *)
(* goes on.                                                                *)
LEMMA PerformWay ==
  ASSUME IInv, WayInv, NEW u \in Ues, NEW c, NEW new \in UeRec, NEW m \in Msgs,
         Perform(u, c, new, m), new.on = ue[u].on, new.life = ue[u].life,
         m.type = "REGISTER" => m = RegisterOf(u),
         \A v \in Ues, d \in CallIds : Met(fates, v, d) /\ v # u => Met(fates', v, d),
         new.st = "REGISTERING" => ue[u].st = "REGISTERING" \/ m = RegisterOf(u),
         new.st = "CALLING" =>
           \/ ue[u].st = "CALLING" /\ new.call = ue[u].call /\ fates \subseteq fates'
           \/ m = InviteOf(u, new.call)
  PROVE  WayInv'
<1> USE DEF Perform
<1> DEFINE n == [new EXCEPT !.cmd = NoCommand, !.seq = @ + 1]
<1>1. n.on = new.on /\ n.life = new.life /\ n.st = new.st /\ n.call = new.call
  BY RecDone
<1>2. ue' = [ue EXCEPT ![u] = n] /\ ue \in [Ues -> UeRec]
  BY DEF IInv, UeOK
<1> HIDE DEF n
<1>3. ue'[u] = n /\ \A v \in Ues : v # u => ue'[v] = ue[v]
  BY <1>2
<1>4. ue[u].on /\ SendUp(u, m) /\ UNCHANGED <<down, pth, route, wire, toP, scscf, server, target>>
  BY DEF pcscfVars, scscfVars
<1>5. GoesOn(u)
  BY <1>1, <1>3, <1>4 DEF GoesOn
<1>6. UeMoves(u)
  BY <1>1, <1>3, <1>4, SendUpWay DEF UeMoves
<1>7. Conn(u)' = Conn(u)
  BY <1>5 DEF Conn, GoesOn
<1>8. Doomed' \/ Has(up'[Conn(u)], m)
  <2>1. server = "up" \/ server = "dead"
    BY DEF IInv, RestOK
  <2>2. server' = server
    BY <1>4
  <2> QED BY <1>4, <2>1, <2>2, SendUpWay DEF Doomed, Broken
<1>9. RegisterOK(u)'
  <2>1. CASE ue[u].st = "REGISTERING" \/ new.st # "REGISTERING"
    <3>1. ue'[u].st = "REGISTERING" => ue[u].st = "REGISTERING" /\ down' = down
      BY <1>1, <1>3, <1>4, <2>1
    <3> QED BY <1>5, <1>6, <3>1, RegisterGoesOn
  <2>2. CASE m = RegisterOf(u)
    <3>1. Doomed' \/ RegisterWay(u)'
      BY <1>7, <1>8, <2>2 DEF RegisterWay
    <3> QED BY <1>5, <3>1 DEF RegisterOK, GoesOn
  <2> QED BY <2>1, <2>2
<1>10. CallOK(u)'
  <2>1. CASE new.st = "CALLING" =>
               ue[u].st = "CALLING" /\ new.call = ue[u].call /\ fates \subseteq fates'
    <3>1. ue'[u].st = "CALLING" =>
            ue[u].st = "CALLING" /\ ue'[u].call = ue[u].call /\ fates \subseteq fates'
      BY <1>1, <1>3, <2>1
    <3> QED BY <1>5, <1>6, <3>1, CallGoesOn
  <2>2. CASE m = InviteOf(u, new.call)
    <3>1. ue'[u].call = new.call /\ ue'[u].on
      BY <1>1, <1>3, <1>4
    <3>2. InviteOf(u, ue[u].call)' = m
      BY <2>2, <3>1 DEF InviteOf
    <3>3. Has(up'[Conn(u)], m) => InviteWay(u, InviteOf(u, ue[u].call))'
      BY <1>7, <3>2 DEF InviteWay
    <3> QED BY <1>8, <3>1, <3>3 DEF CallOK
  <2> QED BY <2>1, <2>2
<1>11. InHand'
  BY <1>4 DEF WayInv, InHand
<1> QED BY <1>6, <1>9, <1>10, <1>11, UeStepWay

(* REG sends the REGISTER that is followed. *)
LEMMA DoRegisterWay ==
  ASSUME IInv, WayInv, NEW u \in Ues, doRegister(u) PROVE WayInv'
<1> DEFINE m == RegisterOf(u)
           n == In(u, "REGISTERING")
<1>1. Perform(u, "REG", n, m) /\ UNCHANGED fates
  BY DEF doRegister, RegisterOf
<1>2. m \in Msgs
  BY FollowedTyped
<1>3. n \in UeRec /\ n.on = ue[u].on /\ n.life = ue[u].life /\ n.st = "REGISTERING"
  BY RecIn DEF States
<1> HIDE DEF m, n
<1>4. n.st # "CALLING" /\ m = RegisterOf(u)
  BY <1>3 DEF m
<1>5. \A v \in Ues, d \in CallIds : Met(fates, v, d) /\ v # u => Met(fates', v, d)
  BY <1>1
<1> QED BY <1>1, <1>2, <1>3, <1>4, <1>5, PerformWay

(* CALL sends the INVITE that is followed, and the call has its outcome    *)
(* before it.                                                              *)
LEMMA DoCallWay ==
  ASSUME IInv, WayInv, NEW u \in Ues, doCall(u) PROVE WayInv'
<1> DEFINE t  == ue[u].cmd[2]
           id == [from |-> Prefix[u], to |-> t, seq |-> ue[u].seq, conf |-> 0]
           m  == Msg("INVITE", id, u, t, "video")
           p  == In(u, "CALLING")
           n  == [p EXCEPT !.call = id, !.callee = t]
<1>1. /\ Perform(u, "CALL", n, m)
      /\ fates' = (fates \ ({u} \X {id} \X Outcomes))
                     \cup {<<u, Root(id), "invited">>}
  BY DEF doCall, CalledAnew
<1>2. t \in Impus
  BY UeFields DEF IInv, NoCommand, Impus
<1>3. id \in CallIds /\ id.to = t
  BY <1>2, UeFields, ImsAssumption DEF ImsAssumption, CallIds, Impus, IInv
<1>4. p \in UeRec /\ p.on = ue[u].on /\ p.life = ue[u].life /\ p.st = "CALLING"
  BY RecIn DEF States
<1> HIDE DEF p, t, id
<1>5. /\ n \in UeRec /\ n.on = ue[u].on /\ n.life = ue[u].life /\ n.st = "CALLING"
      /\ n.call = id
  BY <1>2, <1>3, <1>4 DEF UeRec
<1>6. m = InviteOf(u, id) /\ m \in Msgs /\ m.type # "REGISTER"
  BY <1>3, FollowedTyped DEF InviteOf
<1>7. \A v \in Ues, d \in CallIds : Met(fates, v, d) /\ v # u => Met(fates', v, d)
  BY <1>1, <1>3 DEF Met
<1> HIDE DEF m, n
<1> QED BY <1>1, <1>3, <1>5, <1>6, <1>7, PerformWay

(* Any other command: it leaves the states REGISTERING and CALLING alone   *)
(* or leaves them, and no call's outcome is taken back.                    *)
LEMMA OtherCommandWay ==
  ASSUME IInv, WayInv, NEW u \in Ues, NEW c, NEW new, NEW m \in Msgs,
         Perform(u, c, new, m), m.type # "REGISTER", fates \subseteq fates',
         \/ new = ue[u]
         \/ \E s \in States \ {"REGISTERING", "CALLING"} : new = In(u, s)
  PROVE  WayInv'
<1>1. \A v \in Ues, d \in CallIds : Met(fates, v, d) /\ v # u => Met(fates', v, d)
  BY DEF Met
<1>2. CASE new = ue[u]
  <2>1. new \in UeRec
    BY <1>2, UeFields DEF IInv
  <2> QED BY <1>1, <1>2, <2>1, PerformWay
<1>3. ASSUME NEW s \in States \ {"REGISTERING", "CALLING"}, new = In(u, s) PROVE WayInv'
  <2>1. /\ new \in UeRec /\ new.on = ue[u].on /\ new.life = ue[u].life
        /\ new.st # "REGISTERING" /\ new.st # "CALLING"
    BY <1>3, RecIn
  <2> QED BY <1>1, <2>1, PerformWay
<1> QED BY <1>2, <1>3

(* A command that ends or takes a call. *)
LEMMA EndingWay ==
  ASSUME IInv, WayInv, NEW u \in Ues, doAccept(u) \/ doReject(u) \/ doBye(u)
  PROVE  WayInv'
<1> DEFINE id == ue[u].call
           a == Msg("200", id, Nobody, Nobody, "INVITE")
           r == Msg("CANCEL", id, Nobody, Nobody, "")
           b == Msg("BYE", id, Nobody, Nobody, "")
<1>1. id \in CallIds
  BY UeFields DEF IInv
<1>2. {"IN_CALL", "REGISTERED"} \subseteq States \ {"REGISTERING", "CALLING"}
  BY DEF States
<1>3. CASE doAccept(u)
  <2>1. Perform(u, "ACCEPT", In(u, "IN_CALL"), a) /\ fates \subseteq fates'
    BY <1>3 DEF doAccept, Befalls
  <2> HIDE DEF id
  <2>2. a \in Msgs /\ a.type # "REGISTER"
    BY <1>1 DEF Msg, Msgs, Types, Reasons, Impus
  <2> HIDE DEF a
  <2> QED BY <1>2, <2>1, <2>2, OtherCommandWay
<1>4. CASE doReject(u)
  <2>1. Perform(u, "REJECT", In(u, "REGISTERED"), r) /\ fates \subseteq fates'
    BY <1>4 DEF doReject
  <2> HIDE DEF id
  <2>2. r \in Msgs /\ r.type # "REGISTER"
    BY <1>1 DEF Msg, Msgs, Types, Impus
  <2> HIDE DEF r
  <2> QED BY <1>2, <2>1, <2>2, OtherCommandWay
<1>5. CASE doBye(u)
  <2>1. Perform(u, "BYE", In(u, "REGISTERED"), b) /\ fates \subseteq fates'
    BY <1>5 DEF doBye, Befalls
  <2> HIDE DEF id
  <2>2. b \in Msgs /\ b.type # "REGISTER"
    BY <1>1 DEF Msg, Msgs, Types, Impus
  <2> HIDE DEF b
  <2> QED BY <1>2, <2>1, <2>2, OtherCommandWay
<1> QED BY <1>3, <1>4, <1>5

(* A re-INVITE. *)
LEMMA ReInviteSentWay ==
  ASSUME IInv, WayInv, NEW u \in Ues, NEW c, NEW new, NEW sdp \in Sdps, NEW t \in Impus,
         Perform(u, c, new, Msg("INVITE", ue[u].call, u, t, sdp)), Invites(u, ue[u].call),
         \/ new = ue[u]
         \/ \E s \in States \ {"REGISTERING", "CALLING"} : new = In(u, s)
  PROVE  WayInv'
<1>f. fates \subseteq fates'
  BY DEF Invites, Befalls
<1> DEFINE id == ue[u].call
           m == Msg("INVITE", id, u, t, sdp)
<1>1. id \in CallIds /\ u \in Impus
  BY UeFields DEF IInv
<1>2. Perform(u, c, new, m)
  OBVIOUS
<1> HIDE DEF id
<1>3. m \in Msgs /\ m.type # "REGISTER"
  BY <1>1 DEF Msg, Msgs, Types
<1> HIDE DEF m
<1> QED BY <1>f, <1>2, <1>3, OtherCommandWay

(* HOLD, RESUME, CONF, UPDATE, VIDEO and VOICE. *)
LEMMA ReInvitingWay ==
  ASSUME IInv, WayInv, NEW u \in Ues,
         \/ doHold(u) \/ doResume(u) \/ doConference(u) \/ doUpdate(u)
         \/ doVideo(u) \/ doVoice(u)
  PROVE  WayInv'
<1> DEFINE c == ue[u].callee
           t == ue[u].cmd[2]
<1>1. c \in Impus /\ t \in Impus
  BY UeFields DEF IInv, NoCommand, Impus
<1>2. {"IN_CALL", "ON_HOLD"} \subseteq States \ {"REGISTERING", "CALLING"}
  BY DEF States
<1>3. {"sendonly", "sendrecv", "conf", "video", "novideo"} \subseteq Sdps
  BY DEF Sdps
<1>4. CASE doHold(u)
  <2>1. /\ Perform(u, "HOLD", In(u, "ON_HOLD"), Msg("INVITE", ue[u].call, u, c, "sendonly"))
        /\ Invites(u, ue[u].call)
    BY <1>4 DEF doHold, ReInvite
  <2> HIDE DEF c
  <2> QED BY <1>1, <1>2, <1>3, <2>1, ReInviteSentWay
<1>5. CASE doResume(u)
  <2>1. /\ Perform(u, "RESUME", In(u, "IN_CALL"), Msg("INVITE", ue[u].call, u, c, "sendrecv"))
        /\ Invites(u, ue[u].call)
    BY <1>5 DEF doResume, ReInvite
  <2> HIDE DEF c
  <2> QED BY <1>1, <1>2, <1>3, <2>1, ReInviteSentWay
<1>6. CASE doConference(u)
  <2>1. /\ Perform(u, "CONF", ue[u], Msg("INVITE", ue[u].call, u, t, "conf"))
        /\ Invites(u, ue[u].call)
    BY <1>6 DEF doConference
  <2> HIDE DEF t
  <2> QED BY <1>1, <1>3, <2>1, ReInviteSentWay
<1>7. CASE doUpdate(u)
  <2>1. /\ Perform(u, "UPDATE", ue[u], Msg("INVITE", ue[u].call, u, c, "sendrecv"))
        /\ Invites(u, ue[u].call)
    BY <1>7 DEF doUpdate, ReInvite
  <2> HIDE DEF c
  <2> QED BY <1>1, <1>3, <2>1, ReInviteSentWay
<1>8. CASE doVideo(u)
  <2>1. /\ Perform(u, "VIDEO", ue[u], Msg("INVITE", ue[u].call, u, c, "video"))
        /\ Invites(u, ue[u].call)
    BY <1>8 DEF doVideo, ReInvite
  <2> HIDE DEF c
  <2> QED BY <1>1, <1>3, <2>1, ReInviteSentWay
<1>9. CASE doVoice(u)
  <2>1. /\ Perform(u, "VOICE", ue[u], Msg("INVITE", ue[u].call, u, c, "novideo"))
        /\ Invites(u, ue[u].call)
    BY <1>9 DEF doVoice, ReInvite
  <2> HIDE DEF c
  <2> QED BY <1>1, <1>3, <2>1, ReInviteSentWay
<1> QED BY <1>4, <1>5, <1>6, <1>7, <1>8, <1>9

(* A UE's command. *)
LEMMA CommandStepWay ==
  ASSUME IInv, WayInv, NEW u \in Ues, CommandStep(u) PROVE WayInv'
  BY DoRegisterWay, DoCallWay, EndingWay, ReInvitingWay DEF CommandStep

(* The test at the start of a command touches neither. *)
LEMMA TypeWay ==
  ASSUME IInv, WayInv, NEW u \in Ues, NEW c, NEW t, Type(u, c, t) PROVE WayInv'
<1> DEFINE n == [ue[u] EXCEPT !.cmd = <<c, t>>]
<1>1. ue \in [Ues -> UeRec] /\ ue[u] \in UeRec
  BY DEF IInv, UeOK
<1>2. n.on = ue[u].on /\ n.life = ue[u].life /\ n.st = ue[u].st /\ n.call = ue[u].call
  BY <1>1 DEF UeRec
<1>3. /\ ue' = [ue EXCEPT ![u] = n] /\ ue[u].on
      /\ UNCHANGED <<down, up, pth, route, wire, toP, scscf, server, target, fates>>
  BY DEF Type, pcscfVars, scscfVars
<1> HIDE DEF n
<1>4. ue'[u] = n /\ \A v \in Ues : v # u => ue'[v] = ue[v]
  BY <1>1, <1>3
<1>5. GoesOn(u)
  BY <1>2, <1>3, <1>4 DEF GoesOn
<1>6. UeMoves(u)
  BY <1>2, <1>3, <1>4 DEF UeMoves, WayInv
<1>7. RegisterOK(u)'
  BY <1>2, <1>3, <1>4, <1>5, <1>6, RegisterGoesOn
<1>8. CallOK(u)'
  BY <1>2, <1>3, <1>4, <1>5, <1>6, CallGoesOn
<1>9. InHand'
  BY <1>3 DEF WayInv, InHand
<1> QED BY <1>6, <1>7, <1>8, <1>9, UeStepWay

(* A UE that neither registers nor calls has nothing on its way. *)
LEMMA NothingAsked ==
  ASSUME NEW u \in Ues, ue'[u].st \notin {"REGISTERING", "CALLING"}
  PROVE  RegisterOK(u)' /\ CallOK(u)'
  BY DEF RegisterOK, CallOK

(* A process starts. *)
LEMMA StartWay ==
  ASSUME IInv, WayInv, NEW u \in Ues, Start(u) PROVE WayInv'
<1> DEFINE n == NewUe(ue[u].life + 1)
<1>1. ue \in [Ues -> UeRec]
  BY DEF IInv, UeOK
<1>2. n.st = "IDLE"
  BY DEF NewUe
<1>3. /\ ue' = [ue EXCEPT ![u] = n] /\ ~ ue[u].on
      /\ UNCHANGED <<down, up, pth, route, wire, toP, scscf, server, target, fates>>
  BY DEF Start, pcscfVars, scscfVars
<1> HIDE DEF n
<1>4. ue'[u] = n /\ \A v \in Ues : v # u => ue'[v] = ue[v]
  BY <1>1, <1>3
<1>5. UeMoves(u)
  BY <1>3, <1>4 DEF UeMoves, WayInv
<1>6. InHand'
  BY <1>3 DEF WayInv, InHand
<1> QED BY <1>2, <1>4, <1>5, <1>6, NothingAsked, UeStepWay

(* A process ends: the INVITEs it has not read cannot be delivered. *)
LEMMA QuitWay ==
  ASSUME IInv, WayInv, NEW u \in Ues, Quit(u) PROVE WayInv'
<1> DEFINE n == Off(ue[u].life)
<1>1. ue \in [Ues -> UeRec] /\ down \in [Ues -> Seq(Msgs)]
  BY DEF IInv, UeOK, DownOK
<1>2. n.st = "IDLE"
  BY DEF Off, NewUe
<1>3. /\ ue' = [ue EXCEPT ![u] = n] /\ down' = [down EXCEPT ![u] = << >>]
      /\ fates' = fates \cup {<<down[u][i].from, down[u][i].id, "unreachable">> :
                                 i \in DOMAIN down[u]}
      /\ UNCHANGED <<up, pth, route, wire, toP, scscf, server, target>>
  BY DEF Quit, pcscfVars, scscfVars
<1> HIDE DEF n
<1>4. /\ ue'[u] = n
      /\ \A v \in Ues : v # u => ue'[v] = ue[v] /\ down'[v] = down[v]
  BY <1>1, <1>3
<1>5. ASSUME NEW v \in Ues, NEW c \in CallIds, Has(down[u], InviteOf(v, c)) PROVE Met(fates', v, c)
  <2>1. PICK i \in DOMAIN down[u] : down[u][i] = InviteOf(v, c)
    BY <1>5 DEF Has
  <2>2. down[u][i].id = c /\ down[u][i].from = v
    BY <2>1, FollowedTyped
  <2>3. <<v, c, "unreachable">> \in fates'
    BY <1>3, <2>2
  <2> QED BY <2>3 DEF Met, Outcomes
<1>6. \A v \in Ues, c \in CallIds : Met(fates, v, c) => Met(fates', v, c)
  BY <1>3 DEF Met
<1>7. UeMoves(u)
  BY <1>3, <1>4, <1>5, <1>6 DEF UeMoves, WayInv
<1>8. InHand'
  BY <1>3 DEF WayInv, InHand
<1> QED BY <1>2, <1>4, <1>7, <1>8, NothingAsked, UeStepWay

(* A UE takes a frame: what was behind it is still to be read. *)
LEMMA TakeDownMoves ==
  ASSUME IInv, NEW u \in Ues, Receives(u), NEW new, TakeDown(u, new)
  PROVE  /\ ue[u].on /\ Head(down[u]) \in Msgs
         /\ ue'[u] = new
         /\ \A x : Has(down[u], x) => x = Head(down[u]) \/ Has(down'[u], x)
         /\ \A v \in Ues : v # u => ue'[v] = ue[v] /\ down'[v] = down[v]
         /\ UNCHANGED <<pth, route, wire, toP, scscf, server, target>>
<1>1. /\ ue \in [Ues -> UeRec] /\ down \in [Ues -> Seq(Msgs)] /\ ue[u].on
      /\ down[u] # << >> /\ down[u] \in Seq(Msgs)
  BY DEF IInv, UeOK, DownOK, Receives
<1>2. /\ ue' = [ue EXCEPT ![u] = new] /\ down' = [down EXCEPT ![u] = Tail(down[u])]
      /\ UNCHANGED <<pth, route, wire, toP, scscf, server, target>>
  BY DEF TakeDown, pcscfVars, scscfVars
<1>3. ue'[u] = new /\ down'[u] = Tail(down[u])
  BY <1>1, <1>2
<1>4. \A v \in Ues : v # u => ue'[v] = ue[v] /\ down'[v] = down[v]
  BY <1>1, <1>2
<1>5. \A x : Has(down[u], x) => x = Head(down[u]) \/ Has(down'[u], x)
  BY <1>1, <1>3, HasTail
<1>6. Head(down[u]) \in Msgs
  BY <1>1
<1> QED BY <1>1, <1>2, <1>3, <1>4, <1>5, <1>6

(* A 200 OK. *)
LEMMA Handle200Way ==
  ASSUME IInv, WayInv, NEW u \in Ues, Handle200(u) PROVE WayInv'
<1> DEFINE id == ue[u].call
           c == ue[u].callee
           m == Msg("ACK", id, u, c, "")
           p == In(u, "IN_CALL")
<1>1. Receives(u) /\ Head(down[u]).type = "200" /\ fates' = fates
  BY DEF Handle200
<1>2. ue[u].on
  BY <1>1 DEF Receives
<1>3. \A v \in Ues, d \in CallIds : Head(down[u]) # InviteOf(v, d)
  BY <1>1, FollowedTyped
<1>4. SUFFICES ASSUME NEW new, TakeDown(u, new), new.on,
                      new.st \notin {"REGISTERING", "CALLING"},
                      UNCHANGED up \/ SendUp(u, m)
               PROVE  WayInv'
  <2>1. p \in UeRec /\ p.on = ue[u].on /\ p.st = "IN_CALL"
    BY RecIn DEF States
  <2>2. In(u, "REGISTERED").on = ue[u].on /\ In(u, "REGISTERED").st = "REGISTERED"
    BY RecIn DEF States
  <2> HIDE DEF p
  <2>3. [p EXCEPT !.seq = @ + 1].on = ue[u].on /\ [p EXCEPT !.seq = @ + 1].st = "IN_CALL"
    BY <2>1 DEF UeRec
  <2> DEFINE q == [p EXCEPT !.seq = @ + 1]
  <2>4. \/ TakeDown(u, q) /\ SendUp(u, m)
        \/ TakeDown(u, In(u, "REGISTERED")) /\ UNCHANGED up
        \/ TakeDown(u, p) /\ UNCHANGED up
    BY DEF Handle200, p
  <2> HIDE DEF m, q
  <2>5. q.on = ue[u].on /\ q.st = "IN_CALL"
    BY <2>3 DEF q
  <2>6. CASE TakeDown(u, q) /\ SendUp(u, m)
    BY <1>2, <1>4, <2>5, <2>6
  <2>7. CASE TakeDown(u, In(u, "REGISTERED")) /\ UNCHANGED up
    BY <1>2, <1>4, <2>2, <2>7
  <2>8. CASE TakeDown(u, p) /\ UNCHANGED up
    BY <1>2, <1>4, <2>1, <2>8
  <2> QED BY <2>4, <2>6, <2>7, <2>8
<1>5. /\ \A k \in Conns : OwnRegister(up'[k], k[1])
      /\ \A k \in Conns : \A x : Has(up[k], x) => Has(up'[k], x)
  <2>1. id \in CallIds /\ c \in Impus /\ u \in Impus
    BY UeFields DEF IInv
  <2> HIDE DEF id, c
  <2>2. m \in Msgs /\ m.type # "REGISTER"
    BY <2>1 DEF Msg, Msgs, Types
  <2> HIDE DEF m
  <2>3. CASE SendUp(u, m)
    BY <1>2, <2>2, <2>3, SendUpWay
  <2>4. CASE UNCHANGED up
    BY <2>4 DEF WayInv
  <2> QED BY <1>4, <2>3, <2>4
<1>6. UeMoves(u)
  BY <1>1, <1>3, <1>4, <1>5, TakeDownMoves DEF UeMoves
<1>7. InHand' /\ ue'[u] = new
  BY <1>1, <1>4, TakeDownMoves DEF WayInv, InHand
<1> QED BY <1>4, <1>6, <1>7, NothingAsked, UeStepWay

(* An INVITE rings, unless it puts the UE's call on hold. *)
LEMMA HandleInviteWay ==
  ASSUME IInv, WayInv, NEW u \in Ues, HandleInvite(u) PROVE WayInv'
<1> DEFINE m == Head(down[u])
           p == In(u, "RINGING")
           n == [p EXCEPT !.call = m.id]
<1>1. Receives(u) /\ m.type = "INVITE" /\ up' = up
  BY DEF HandleInvite
<1>2. p \in UeRec /\ p.on = ue[u].on /\ p.st = "RINGING"
  BY RecIn DEF States
<1>3. m # RegisteredOf(u)
  BY <1>1, FollowedTyped
<1>4. CASE m.body = "sendonly" /\ TakeDown(u, ue[u]) /\ fates' = fates
  <2>1. TakeDown(u, ue[u])
    BY <1>4
  <2>2. \A v \in Ues, c \in CallIds : m # InviteOf(v, c)
    BY <1>4, FollowedTyped
  <2> HIDE DEF m
  <2>3. UeMoves(u)
    BY <1>1, <1>4, <2>1, <2>2, TakeDownMoves DEF UeMoves, WayInv, m
  <2>4. /\ ue'[u] = ue[u] /\ GoesOn(u)
        /\ Has(down[u], RegisteredOf(u)) => Has(down'[u], RegisteredOf(u))
    BY <1>1, <1>3, <2>1, TakeDownMoves DEF GoesOn, m
  <2>5. RegisterOK(u)' /\ CallOK(u)'
    BY <1>4, <2>3, <2>4, RegisterGoesOn, CallGoesOn
  <2>6. InHand'
    BY <1>1, <2>1, TakeDownMoves DEF WayInv, InHand
  <2> QED BY <2>3, <2>5, <2>6, UeStepWay
<1>5. CASE TakeDown(u, n) /\ fates' = fates \cup {<<m.from, m.id, "rung">>}
  <2>1. \A v \in Ues, c \in CallIds : m = InviteOf(v, c) => Met(fates', v, c)
    BY <1>5, FollowedTyped DEF Met, Outcomes
  <2>2. \A v \in Ues, c \in CallIds : Met(fates, v, c) => Met(fates', v, c)
    BY <1>5 DEF Met
  <2>3. n.on = ue[u].on /\ n.st = "RINGING"
    <3> HIDE DEF p
    <3> QED BY <1>2 DEF UeRec
  <2> HIDE DEF n, m
  <2>4. ue'[u] = n /\ ue[u].on
    BY <1>1, <1>5, TakeDownMoves
  <2>5. UeMoves(u)
    BY <1>1, <1>5, <2>1, <2>2, <2>3, TakeDownMoves DEF UeMoves, WayInv, m
  <2>6. InHand'
    BY <1>1, <1>5, TakeDownMoves DEF WayInv, InHand
  <2> QED BY <2>3, <2>4, <2>5, <2>6, NothingAsked, UeStepWay
<1> QED BY <1>4, <1>5 DEF HandleInvite, Befalls
----------------------------------------------------------------------------
(* At the start nobody has asked for anything. *)
LEMMA InitWay == Init => WayInv
<1> SUFFICES ASSUME Init PROVE WayInv
  OBVIOUS
<1>1. ASSUME NEW u \in Ues PROVE ue[u].st \notin {"REGISTERING", "CALLING"}
  <2>1. CASE u \in Registered
    <3> DEFINE r == NewUe(1)
    <3>1. r \in UeRec
      BY NewTyped, ImsAssumption DEF ImsAssumption
    <3>2. ue[u] = [r EXCEPT !.st = "REGISTERED", !.seq = 2]
      BY <2>1 DEF Init
    <3> HIDE DEF r
    <3> QED BY <3>1, <3>2 DEF UeRec
  <2>2. CASE u \notin Registered
    <3>1. ue[u] = Off(0)
      BY <2>2 DEF Init
    <3>2. Off(0).st = "IDLE"
      BY DEF Off, NewUe
    <3> QED BY <3>1, <3>2
  <2> QED BY <2>1, <2>2
<1>2. \A k \in Conns : OwnRegister(up[k], k[1])
  BY DEF Init, OwnRegister
<1>3. InHand
  BY DEF Init, InHand
<1> QED BY <1>1, <1>2, <1>3 DEF WayInv, RegisterOK, CallOK

(* No step loses a REGISTER or an INVITE. *)
LEMMA NextWay == IInv /\ WayInv /\ [Next]_vars => WayInv'
<1> SUFFICES ASSUME IInv, WayInv, [Next]_vars PROVE WayInv'
  OBVIOUS
<1>1. CASE ThreadStep
  <2>1. ASSUME NEW u \in Ues, CommandStep(u) PROVE WayInv'
    BY <2>1, CommandStepWay
  <2>2. ASSUME NEW u \in Ues, handleIncoming(u) PROVE WayInv'
    BY <2>2, Handle200Way, HandleInviteWay DEF handleIncoming
  <2>3. ASSUME NEW k \in Conns, UeThread(k) PROVE WayInv'
    BY <2>3, UeThreadWay
  <2>4. CASE handleSAR
    BY <2>4, UntouchedWay DEF handleSAR, pcscfVars
  <2> QED BY <1>1, <2>1, <2>2, <2>3, <2>4, ScscfThreadWay, ScscfReceiveWay
          DEF ThreadStep
<1>2. ASSUME NEW u \in Ues, Start(u) PROVE WayInv'
  BY <1>2, StartWay
<1>3. ASSUME NEW u \in Ues, Quit(u) PROVE WayInv'
  BY <1>3, QuitWay
<1>4. ASSUME NEW u \in Ues, SetBarred(u) PROVE WayInv'
  BY <1>4, UntouchedWay DEF SetBarred, pcscfVars, scscfVars
<1>5. ASSUME NEW u \in Ues, NEW c, NEW t, Type(u, c, t) PROVE WayInv'
  BY <1>5, TypeWay
<1>6. CASE UNCHANGED vars
  BY <1>6, UntouchedWay DEF vars, pcscfVars, scscfVars
<1> QED BY <1>1, <1>2, <1>3, <1>4, <1>5, <1>6 DEF Next

(* When everybody waits, nothing is on its way. *)
LEMMA SettledEmpty ==
  ASSUME IInv, Settled, ~ Broken
  PROVE  /\ ~ Doomed /\ scscf.pc = "loop" /\ wire = << >> /\ toP = << >>
         /\ \A k \in Conns : pth[k].pc = "recv" /\ up[k] = << >>
         /\ \A u \in Ues : ue[u].on => down[u] = << >>
<1>1. server = "up" /\ scscf.pc # "ended"
  BY DEF IInv, RestOK, Broken
<1> QED BY <1>1 DEF Settled, Doomed, Garbled

(* So a UE that is still REGISTERING has lost its route, *)
LEMMA WayRegisterEnds == IInv /\ WayInv => RegisterEnds
<1> SUFFICES ASSUME IInv, WayInv, Settled, ~ Broken, NEW u \in Ues, ue[u].st = "REGISTERING"
             PROVE  Stale(u)
  BY DEF RegisterEnds
<1>1. ue[u].on /\ RegisterWay(u)
  BY SettledEmpty DEF WayInv, RegisterOK
<1>2. Conn(u) \in Conns
  BY <1>1, ConnsTyped
<1>3. ~ Forwards(pth[Conn(u)], RegisterOf(u))
  BY <1>2, SettledEmpty DEF Forwards
<1> QED BY <1>1, <1>2, <1>3, SettledEmpty, HasNothing DEF RegisterWay

(* and the call of one that is still CALLING has met its outcome. *)
LEMMA WayCallRings == IInv /\ WayInv => CallRings
<1> SUFFICES ASSUME IInv, WayInv, Settled, ~ Broken, NEW u \in Ues, ue[u].st = "CALLING"
             PROVE  Met(fates, u, ue[u].call)
  BY DEF CallRings, Met
<1> DEFINE m == InviteOf(u, ue[u].call)
<1>1. ue[u].on /\ (Met(fates, u, ue[u].call) \/ InviteWay(u, m))
  BY SettledEmpty DEF WayInv, CallOK
<1>2. Conn(u) \in Conns
  BY <1>1, ConnsTyped
<1> HIDE DEF m
<1>3. ~ Forwards(pth[Conn(u)], m)
  BY <1>2, SettledEmpty DEF Forwards
<1>4. ~ InviteWay(u, m)
  BY <1>2, <1>3, SettledEmpty, HasNothing DEF InviteWay
<1> QED BY <1>1, <1>4

(* A REG comes to an end (ue_sim.cpp doRegister; scscf_node.cpp            *)
(* handleRegister and waitCxSAA): when every thread waits for input, a UE  *)
(* is left REGISTERING only by a server that is gone or whose S-CSCF       *)
(* thread has ended, or by a route of the P-CSCF that is not that of the   *)
(* UE's running process; for any UEs, commands, restarts and late or       *)
(* missing HSS answers.                                                    *)
THEOREM ImsRegisterEnds == Spec => []RegisterEnds
<1>1. Init => IInv /\ WayInv
  BY InitIInv, InitWay
<1>2. IInv /\ WayInv /\ [Next]_vars => (IInv /\ WayInv)'
  BY NextIInv, NextWay
<1>3. IInv /\ WayInv => RegisterEnds
  BY WayRegisterEnds
<1> QED BY <1>1, <1>2, <1>3, PTL DEF Spec

(* A call rings (pcscf_node.cpp handleInviteFromUe and handleFromScscf,    *)
(* scscf_node.cpp handleInvite): when every thread waits for input, a UE   *)
(* is left CALLING only by a broken server, or its call has rung at a UE,  *)
(* was barred, or found no UE behind its callee's name; a Call-ID given    *)
(* out again by a restarted UE, or by two UEs, is no exception.            *)
THEOREM ImsCallRings == Spec => []CallRings
<1>1. Init => IInv /\ WayInv
  BY InitIInv, InitWay
<1>2. IInv /\ WayInv /\ [Next]_vars => (IInv /\ WayInv)'
  BY NextIInv, NextWay
<1>3. IInv /\ WayInv => CallRings
  BY WayCallRings
<1> QED BY <1>1, <1>2, <1>3, PTL DEF Spec
=============================================================================
