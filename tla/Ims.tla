-------------------------------- MODULE Ims --------------------------------
(***************************************************************************)
(* The IMS (ims-simulator/src): UE processes with a command thread and a   *)
(* receiving thread each; the server process with the P-CSCF (a thread per *)
(* UE connection and one for the S-CSCF), the S-CSCF with the MTAS, and    *)
(* the IMS-HSS.  An IMPU is its UE; a body of SDP is told apart only as    *)
(* far as somebody looks into it.  The S-CSCF's registry_, on_hold and     *)
(* in_conference and the UE's caller_impu_ are written and only printed.   *)
(***************************************************************************)
EXTENDS Integers, Sequences, FiniteSets

CONSTANTS
  Ues,          \* A, B, C
  Registered,   \* those that are registered at the start
  Prefix,       \* what a UE's Call-IDs begin with: see doCall
  Vocabulary,   \* what is typed at each UE, and at the server ("BARR")
  MaxCommands,  \* bound: commands typed at a UE or at the server
  MaxQuits,     \* bound: those of them that end a UE's process
  MaxTimeouts   \* bound: Cx answers that take more than 3 s

Nobody == "nobody"    \* the empty IMPU
Commands == {"REG", "CALL", "ACCEPT", "REJECT", "HOLD", "RESUME", "CONF",
             "UPDATE", "VIDEO", "VOICE", "BYE"}
NoCallId == [from |-> Nobody, to |-> Nobody, seq |-> 0, conf |-> 0]

ASSUME ImsAssumption ==
  /\ Registered \subseteq Ues /\ Nobody \notin Ues /\ "-" \notin Ues
  /\ Prefix \in [Ues -> Ues \cup {Nobody}]
  /\ Vocabulary \in [Ues -> SUBSET (Commands \cup {"QUIT", "BARR"})]
  /\ MaxCommands \in Nat /\ MaxQuits \in Nat /\ MaxTimeouts \in Nat

VARIABLES
  ue,         \* the UEs: state_, current_call_id_, callee_impu_, next_seq_,
              \* the command being carried out and the process's life
  down,       \* frames from the P-CSCF to each UE
  up,         \* frames from each UE connection to the P-CSCF
  pth,        \* the P-CSCF's threads: what each is forwarding
  route,      \* P-CSCF ue_by_impu_
  caller,     \* P-CSCF call_to_caller_
  callee,     \* P-CSCF call_to_callee_
  delivered,  \* P-CSCF call_invite_delivered_
  wire,       \* the byte stream from the P-CSCF to the S-CSCF
  toP,        \* frames from the S-CSCF to the P-CSCF
  target,     \* P-CSCF: whom the 200 OK in hand goes to
  scscf,      \* the S-CSCF's thread
  calls,      \* S-CSCF calls_
  cx,         \* requests at the HSS and answers not read
  barred,     \* MtasState::barred
  server,     \* the server's process
  fates,      \* history: what has happened to whom in which call
  commands, quits, timeouts

pcscfVars == <<pth, route, caller, callee, delivered, target>>
scscfVars == <<scscf, calls, cx>>
bounds    == <<commands, quits, timeouts>>
vars == <<ue, down, up, pcscfVars, wire, toP, scscfVars, barred, server,
          fates, bounds>>

States == {"IDLE", "REGISTERING", "REGISTERED", "CALLING", "RINGING",
           "IN_CALL", "ON_HOLD"}
Impus  == Ues \cup {Nobody}

(* A UE connection: the UE and which of its processes it belongs to. *)
Conns == Ues \X (1 .. MaxQuits + 1)

CallIds == [from : Impus, to : Impus, seq : Nat, conf : Nat]

Types == {"REGISTER", "INVITE", "ACK", "BYE", "CANCEL",
          "100", "180", "183", "200"}
Sdps  == {"video", "sendonly", "sendrecv", "conf", "novideo"}
Reasons == {"REGISTER", "INVITE", "BARRED", "re-INVITE-HOLD",
            "re-INVITE-RESUME", "CONFERENCE", "VIDEO-ADD", "VIDEO-REMOVE",
            "BYE", "UPDATE"}

(* body is the SDP of an INVITE and the reason of a response. *)
Msgs == [type : Types, id : CallIds, from : Impus, to : Impus,
         body : Sdps \cup Reasons \cup {""}]
Msg(t, id, f, to, b) ==
  [type |-> t, id |-> id, from |-> f, to |-> to, body |-> b]
NoMsg == Msg("ACK", NoCallId, Nobody, Nobody, "")
garbage == Msg("100", NoCallId, Nobody, Nobody, "")

(* What the properties remember: <<u, c, f>>.  An INVITE of u for call c   *)
(* rang at a UE, found its callee barred at the S-CSCF, or no UE to be     *)
(* delivered to; u accepted c, or ended it as its callee; u has sent an    *)
(* INVITE for c or, under c's Call-ID, for a conference leg of it.         *)
Outcomes == {"rung", "barred", "unreachable"}
Fates == Outcomes \cup {"accepted", "ended", "invited"}

NoCommand == <<"none", Nobody>>

NewUe(n) == [on |-> TRUE, life |-> n, st |-> "IDLE", call |-> NoCallId,
             callee |-> Nobody, seq |-> 1, cmd |-> NoCommand]
Off(n)   == [NewUe(n) EXCEPT !.on = FALSE]

Conn(u) == <<u, ue[u].life>>

TypeOK ==
  /\ ue \in [Ues -> [on : BOOLEAN, life : 0 .. MaxQuits + 1, st : States,
                     call : CallIds, callee : Impus, seq : Nat,
                     cmd : (Commands \X Impus) \cup {NoCommand}]]
  /\ \A u \in Ues : ue[u].on => ue[u].life > 0
  /\ down \in [Ues -> Seq(Msgs)]
  /\ up \in [Conns -> Seq(Msgs)]
  /\ pth \in [Conns -> [pc : {"recv", "send", "erase"}, msg : Msgs]]
  /\ route \in [Ues -> Conns \cup {<<Nobody, 0>>}]
  /\ DOMAIN caller \subseteq CallIds
  /\ \A c \in DOMAIN caller : caller[c] \in Ues
  /\ DOMAIN callee \subseteq CallIds
  /\ \A c \in DOMAIN callee : callee[c] \in Impus
  /\ delivered \subseteq CallIds
  /\ wire \in Seq(Msgs) /\ toP \in Seq(Msgs)
  /\ target \in Impus \cup {"-"}
  /\ scscf \in [pc : {"loop", "saa", "ended"}, impu : Impus]
  /\ DOMAIN calls \subseteq CallIds
  /\ \A c \in DOMAIN calls : calls[c] \in [caller : Ues, callee : Impus]
  /\ cx \in [sar : Nat, saa : Nat]
  /\ barred \subseteq Ues /\ server \in {"up", "dead"}
  /\ fates \subseteq Impus \X CallIds \X Fates
  /\ commands \in 0 .. MaxCommands /\ quits \in 0 .. MaxQuits
  /\ timeouts \in 0 .. MaxTimeouts

(* The call a conference leg was made from. *)
Root(c) == [c EXCEPT !.conf = 0]

(* A call with the Call-ID of an earlier one of the same UE has its        *)
(* outcome still before it.                                                *)
Befalls(u, c, f) == fates' = fates \cup {<<u, c, f>>}
Invites(u, c)    == Befalls(u, Root(c), "invited")
CalledAnew(u, c) ==
  fates' = (fates \ ({u} \X {c} \X Outcomes)) \cup {<<u, Root(c), "invited">>}

Idle == [pc |-> "recv", msg |-> NoMsg]

Init ==
  /\ ue = [u \in Ues |-> IF u \in Registered
                         THEN [NewUe(1) EXCEPT !.st = "REGISTERED", !.seq = 2]
                         ELSE Off(0)]
  /\ down = [u \in Ues |-> << >>] /\ up = [k \in Conns |-> << >>]
  /\ pth = [k \in Conns |-> Idle]
  /\ route = [u \in Ues |-> IF u \in Registered THEN <<u, 1>>
                            ELSE <<Nobody, 0>>]
  /\ caller = << >> /\ callee = << >> /\ delivered = {}
  /\ wire = << >> /\ toP = << >> /\ target = "-"
  /\ scscf = [pc |-> "loop", impu |-> Nobody] /\ calls = << >>
  /\ cx = [sar |-> 0, saa |-> 0]
  /\ barred = {} /\ server = "up" /\ fates = {}
  /\ commands = 0 /\ quits = 0 /\ timeouts = 0
----------------------------------------------------------------------------
(* The UE's command thread.  It tests state_ and then acts; the receiving  *)
(* thread may change state_ between.  A command that fails the test only   *)
(* prints.                                                                 *)
Permitted(c) ==
  CASE c = "REG" -> States \ {"IN_CALL"}
    [] c = "CALL" -> {"REGISTERED"}
    [] c \in {"ACCEPT", "REJECT"} -> {"RINGING"}
    [] c = "RESUME" -> {"ON_HOLD"}
    [] c \in {"UPDATE", "BYE"} -> {"IN_CALL", "ON_HOLD"}
    [] OTHER -> {"IN_CALL"}

Type(u, c, t) ==
  /\ ue[u].on /\ ue[u].cmd = NoCommand
  /\ c \in Vocabulary[u] /\ ue[u].st \in Permitted(c)
  /\ commands < MaxCommands /\ commands' = commands + 1
  /\ ue' = [ue EXCEPT ![u].cmd = <<c, t>>]
  /\ UNCHANGED <<down, up, pcscfVars, wire, toP, scscfVars, barred, server,
                 fates, quits, timeouts>>

(* sendFrame; nothing arrives at a server that is gone. *)
SendUp(u, m) ==
  up' = IF server = "up" THEN [up EXCEPT ![Conn(u)] = Append(@, m)] ELSE up

(* The command c: the UE becomes `new` and sends m. *)
Perform(u, c, new, m) ==
  /\ ue[u].on /\ ue[u].cmd[1] = c
  /\ ue' = [ue EXCEPT ![u] = [new EXCEPT !.cmd = NoCommand, !.seq = @ + 1]]
  /\ SendUp(u, m)
  /\ UNCHANGED <<down, pcscfVars, wire, toP, scscfVars, barred, server,
                 bounds>>

In(u, s) == [ue[u] EXCEPT !.st = s]
ReInvite(u, sdp) == Msg("INVITE", ue[u].call, u, ue[u].callee, sdp)

doRegister(u) ==
  /\ Perform(u, "REG", In(u, "REGISTERING"),
             Msg("REGISTER", NoCallId, u, Nobody, ""))
  /\ UNCHANGED fates

(* The Call-ID is to be "call-<label>:<callee>-<seq>", but `"call-" +      *)
(* label.back()` adds a char to a pointer: it is whatever string the       *)
(* binary holds so many bytes past the literal, and may be the same for    *)
(* two labels.                                                             *)
doCall(u) ==
  LET t  == ue[u].cmd[2]
      id == [from |-> Prefix[u], to |-> t, seq |-> ue[u].seq, conf |-> 0]
  IN  /\ Perform(u, "CALL",
                 [In(u, "CALLING") EXCEPT !.call = id, !.callee = t],
                 Msg("INVITE", id, u, t, "video"))
      /\ CalledAnew(u, id)

doAccept(u) ==
  /\ Perform(u, "ACCEPT", In(u, "IN_CALL"),
             Msg("200", ue[u].call, Nobody, Nobody, "INVITE"))
  /\ Befalls(u, ue[u].call, "accepted")

doReject(u) ==
  /\ Perform(u, "REJECT", In(u, "REGISTERED"),
             Msg("CANCEL", ue[u].call, Nobody, Nobody, ""))
  /\ UNCHANGED fates

doHold(u) ==
  /\ Perform(u, "HOLD", In(u, "ON_HOLD"), ReInvite(u, "sendonly"))
  /\ Invites(u, ue[u].call)

doResume(u) ==
  /\ Perform(u, "RESUME", In(u, "IN_CALL"), ReInvite(u, "sendrecv"))
  /\ Invites(u, ue[u].call)

doConference(u) ==
  /\ Perform(u, "CONF", ue[u],
             Msg("INVITE", ue[u].call, u, ue[u].cmd[2], "conf"))
  /\ Invites(u, ue[u].call)

doUpdate(u) ==
  /\ Perform(u, "UPDATE", ue[u], ReInvite(u, "sendrecv"))
  /\ Invites(u, ue[u].call)

doVideo(u) ==
  /\ Perform(u, "VIDEO", ue[u], ReInvite(u, "video"))
  /\ Invites(u, ue[u].call)

doVoice(u) ==
  /\ Perform(u, "VOICE", ue[u], ReInvite(u, "novideo"))
  /\ Invites(u, ue[u].call)

doBye(u) ==
  /\ Perform(u, "BYE", In(u, "REGISTERED"),
             Msg("BYE", ue[u].call, Nobody, Nobody, ""))
  /\ IF ue[u].call.to = u THEN Befalls(u, ue[u].call, "ended")
     ELSE UNCHANGED fates

CommandStep(u) ==
  \/ doRegister(u) \/ doCall(u) \/ doAccept(u) \/ doReject(u) \/ doHold(u)
  \/ doResume(u) \/ doConference(u) \/ doUpdate(u) \/ doVideo(u)
  \/ doVoice(u) \/ doBye(u)

(* main: connect() needs the server; QUIT ends the process. *)
Start(u) ==
  /\ ~ ue[u].on /\ server = "up" /\ ue[u].life <= quits
  /\ ue' = [ue EXCEPT ![u] = NewUe(@.life + 1)]
  /\ UNCHANGED <<down, up, pcscfVars, wire, toP, scscfVars, barred, server,
                 fates, bounds>>

Quit(u) ==
  /\ ue[u].on /\ ue[u].cmd = NoCommand /\ "QUIT" \in Vocabulary[u]
  /\ commands < MaxCommands /\ commands' = commands + 1
  /\ quits < MaxQuits /\ quits' = quits + 1
  /\ ue' = [ue EXCEPT ![u] = Off(@.life)]
  /\ down' = [down EXCEPT ![u] = << >>]
  /\ fates' = fates \cup
       {<<down[u][i].from, down[u][i].id, "unreachable">> : i \in DOMAIN down[u]}
  /\ UNCHANGED <<up, pcscfVars, wire, toP, scscfVars, barred, server,
                 timeouts>>
----------------------------------------------------------------------------
(* The UE's receiving thread: handleIncoming.  What it only prints, a BYE  *)
(* too, is left out of `down`.                                             *)
Printed(m) ==
  \/ m.type \notin {"200", "INVITE"}
  \/ m.type = "200" /\ m.body \notin {"REGISTER", "INVITE", "", "BYE",
                                      "re-INVITE-RESUME"}

Receives(u) == ue[u].on /\ down[u] # << >>

TakeDown(u, new) ==
  /\ ue' = [ue EXCEPT ![u] = new]
  /\ down' = [down EXCEPT ![u] = Tail(@)]
  /\ UNCHANGED <<pcscfVars, wire, toP, scscfVars, barred, server, bounds>>

(* The call in the response is not compared with the UE's. *)
Handle200(u) ==
  /\ Receives(u)
  /\ LET m == Head(down[u])
     IN  /\ m.type = "200"
         /\ \/ /\ m.body \in {"INVITE", ""}
               /\ TakeDown(u, [In(u, "IN_CALL") EXCEPT !.seq = @ + 1])
               /\ SendUp(u, Msg("ACK", ue[u].call, u, ue[u].callee, ""))
            \/ /\ m.body \in {"REGISTER", "BYE"}
               /\ TakeDown(u, In(u, "REGISTERED")) /\ UNCHANGED up
            \/ /\ m.body = "re-INVITE-RESUME"
               /\ TakeDown(u, In(u, "IN_CALL")) /\ UNCHANGED up
  /\ UNCHANGED fates

HandleInvite(u) ==
  /\ Receives(u)
  /\ LET m == Head(down[u])
     IN  /\ m.type = "INVITE"
         /\ IF m.body = "sendonly" /\ m.id = ue[u].call
            THEN TakeDown(u, ue[u]) /\ UNCHANGED fates
            ELSE /\ TakeDown(u, [In(u, "RINGING") EXCEPT !.call = m.id])
                 /\ Befalls(m.from, m.id, "rung")
         /\ UNCHANGED up

handleIncoming(u) == Handle200(u) \/ HandleInvite(u)
----------------------------------------------------------------------------
(* The P-CSCF's thread of connection k.  sendPayload sends the length and  *)
(* the payload apart, over a connection all these threads share: a length  *)
(* put between another thread's two parts garbles the stream for good.     *)
With(f, c, v) == [x \in DOMAIN f \cup {c} |-> IF x = c THEN v ELSE f[x]]
Without(f, c) == [x \in DOMAIN f \ {c} |-> f[x]]

Sending == {k \in Conns : pth[k].pc = "send"}
Garbled == wire # << >> /\ wire[Len(wire)] = garbage

FromUe(k, t) ==
  server = "up" /\ pth[k].pc = "recv" /\ up[k] # << >> /\ Head(up[k]).type = t

SendHeader(k) ==
  /\ pth' = [pth EXCEPT ![k] = [pc |-> "send", msg |-> Head(up[k])]]
  /\ up' = [up EXCEPT ![k] = Tail(@)]
  /\ wire' = IF Sending # {} /\ ~ Garbled THEN Append(wire, garbage) ELSE wire
  /\ UNCHANGED <<ue, down, delivered, target, toP, scscfVars, barred, server,
                 fates, bounds>>

handleRegisterFromUe(k) ==
  /\ FromUe(k, "REGISTER")
  /\ route' = [route EXCEPT ![Head(up[k]).from] = k]
  /\ SendHeader(k) /\ UNCHANGED <<caller, callee>>

(* Mutant: caller and callee swapped. *)
InviteFromUeSwapped(k) ==
  /\ FromUe(k, "INVITE")
  /\ LET m == Head(up[k])
     IN  /\ caller' = With(caller, m.id, m.to)
         /\ callee' = With(callee, m.id, m.from)
  /\ SendHeader(k) /\ UNCHANGED route

(* Every INVITE, a re-INVITE too, names the call's caller and callee anew. *)
handleInviteFromUe(k) ==
  /\ FromUe(k, "INVITE")
  /\ LET m == Head(up[k])
     IN  /\ caller' = With(caller, m.id, m.from)
         /\ callee' = With(callee, m.id, m.to)
  /\ SendHeader(k) /\ UNCHANGED route

handleOtherFromUe(k) ==
  /\ \E t \in {"200", "ACK", "BYE", "CANCEL"} : FromUe(k, t)
  /\ SendHeader(k) /\ UNCHANGED <<route, caller, callee>>

sendToScscf(k) ==
  /\ server = "up" /\ pth[k].pc = "send"
  /\ wire' = IF Garbled THEN wire ELSE Append(wire, pth[k].msg)
  /\ pth' = [pth EXCEPT ![k] = IF @.msg.type = "BYE"
                               THEN [@ EXCEPT !.pc = "erase"] ELSE Idle]
  /\ UNCHANGED <<ue, down, up, route, caller, callee, delivered, target, toP,
                 scscfVars, barred, server, fates, bounds>>

(* Mutant: the entries are taken to be there; at() throws when they are not. *)
CleanUpKnownRouting(k) ==
  /\ server = "up" /\ pth[k].pc = "erase"
  /\ LET c == pth[k].msg.id
     IN  /\ c \in DOMAIN caller
         /\ caller' = Without(caller, c) /\ callee' = Without(callee, c)
         /\ delivered' = delivered \ {c}
  /\ pth' = [pth EXCEPT ![k] = Idle]
  /\ UNCHANGED <<ue, down, up, route, target, wire, toP, scscfVars, barred,
                 server, fates, bounds>>

CleanUpRouting(k) ==
  /\ server = "up" /\ pth[k].pc = "erase"
  /\ LET c == pth[k].msg.id
     IN  /\ caller' = Without(caller, c) /\ callee' = Without(callee, c)
         /\ delivered' = delivered \ {c}
  /\ pth' = [pth EXCEPT ![k] = Idle]
  /\ UNCHANGED <<ue, down, up, route, target, wire, toP, scscfVars, barred,
                 server, fates, bounds>>

UeThread(k) ==
  \/ handleRegisterFromUe(k) \/ handleInviteFromUe(k) \/ handleOtherFromUe(k)
  \/ sendToScscf(k) \/ CleanUpRouting(k)
----------------------------------------------------------------------------
(* The S-CSCF: one thread, from frame to frame. *)
Takes(t) ==
  /\ server = "up" /\ scscf.pc = "loop"
  /\ wire # << >> /\ Head(wire) # garbage /\ Head(wire).type = t

Respond(out) ==
  /\ wire' = Tail(wire) /\ toP' = toP \o out
  /\ UNCHANGED <<ue, down, up, pcscfVars, cx, barred, server, bounds>>

(* receiveLoop breaks at a frame it cannot read, and nothing reads the     *)
(* connection any more.                                                    *)
ReceiveLoopEnds ==
  /\ server = "up" /\ scscf.pc = "loop" /\ wire # << >> /\ Head(wire) = garbage
  /\ scscf' = [scscf EXCEPT !.pc = "ended"]
  /\ UNCHANGED <<ue, down, up, pcscfVars, wire, toP, calls, cx, barred, server,
                 fates, bounds>>

handleRegister ==
  /\ Takes("REGISTER")
  /\ scscf' = [pc |-> "saa", impu |-> Head(wire).from]
  /\ cx' = [cx EXCEPT !.sar = @ + 1]
  /\ wire' = Tail(wire)
  /\ UNCHANGED <<ue, down, up, pcscfVars, toP, calls, barred, server, fates,
                 bounds>>

(* The IMS-HSS answers every SAR. *)
handleSAR ==
  /\ server = "up" /\ cx.sar > 0
  /\ cx' = [sar |-> cx.sar - 1, saa |-> cx.saa + 1]
  /\ UNCHANGED <<ue, down, up, pcscfVars, wire, toP, scscf, calls, barred,
                 server, fates, bounds>>

(* Mutant: no answer from the HSS, no registration. *)
RegisterOnlyWithProfile(got) ==
  /\ toP' = IF got THEN Append(toP, Msg("200", NoCallId, scscf.impu, scscf.impu,
                                        "REGISTER")) ELSE toP
  /\ scscf' = [pc |-> "loop", impu |-> Nobody]

FinishRegister(got) ==
  /\ toP' = Append(toP, Msg("200", NoCallId, scscf.impu, scscf.impu,
                            "REGISTER"))
  /\ scscf' = [pc |-> "loop", impu |-> Nobody]

(* waitCxSAA takes whatever answer is there, or gives up after 3 s. *)
waitCxSAA ==
  /\ server = "up" /\ scscf.pc = "saa"
  /\ \/ /\ cx.saa > 0 /\ cx' = [cx EXCEPT !.saa = @ - 1]
        /\ FinishRegister(TRUE) /\ UNCHANGED timeouts
     \/ /\ cx.saa = 0 /\ timeouts < MaxTimeouts /\ timeouts' = timeouts + 1
        /\ FinishRegister(FALSE) /\ UNCHANGED cx
  /\ UNCHANGED <<ue, down, up, pcscfVars, wire, calls, barred, server, fates,
                 commands, quits>>

(* Mutant: any barring bars the call. *)
PassesUnlessBarring(x) == barred = {}

invokeMtas(x) == x \notin barred

(* Mutant: the response to a barred call carries no reason. *)
BarredWithoutReason(m) == Msg("200", m.id, m.from, m.to, "")

Declined(m) == Msg("200", m.id, m.from, m.to, "BARRED")

(* A call the S-CSCF does not know. *)
handleInvite ==
  /\ Takes("INVITE") /\ Head(wire).id \notin DOMAIN calls
  /\ LET m == Head(wire)
         Trying == Msg("100", m.id, m.from, m.to, "INVITE")
         Progress == Msg("183", m.id, m.from, m.to, "INVITE")
     IN  IF invokeMtas(m.to)
         THEN /\ calls' = With(calls, m.id, [caller |-> m.from, callee |-> m.to])
              /\ Respond(<<Trying, m, Progress>>)
         ELSE Respond(<<Trying, Declined(m)>>) /\ UNCHANGED calls
  /\ IF Head(wire).to \in barred
     THEN Befalls(Head(wire).from, Head(wire).id, "barred")
     ELSE UNCHANGED fates
  /\ UNCHANGED scscf

(* A call it knows: what the SDP asks for. *)
ReInviteReason(sdp) ==
  CASE sdp = "sendonly" -> "re-INVITE-HOLD"
    [] sdp = "conf"     -> "CONFERENCE"
    [] sdp = "video"    -> "VIDEO-ADD"
    [] sdp = "novideo"  -> "VIDEO-REMOVE"
    [] OTHER            -> "re-INVITE-RESUME"

handleReInvite ==
  /\ Takes("INVITE") /\ Head(wire).id \in DOMAIN calls
  /\ LET m  == Head(wire)
         cs == calls[m.id]
         OK == Msg("200", m.id, cs.caller, cs.callee, ReInviteReason(m.body))
         Leg == Msg("INVITE", [m.id EXCEPT !.conf = @ + 1], cs.caller, m.to,
                    "conf")
     IN  Respond(IF m.body # "conf" THEN <<m, OK>>
                 ELSE IF m.to # Nobody THEN <<Leg, OK>> ELSE <<OK>>)
  /\ UNCHANGED <<scscf, calls, fates>>

handleAck ==
  /\ Takes("ACK")
  /\ Respond(IF Head(wire).id \in DOMAIN calls THEN <<Head(wire)>> ELSE << >>)
  /\ UNCHANGED <<scscf, calls, fates>>

handle200Ok ==
  Takes("200") /\ Respond(<<Head(wire)>>) /\ UNCHANGED <<scscf, calls, fates>>

handleBye ==
  /\ Takes("BYE")
  /\ calls' = Without(calls, Head(wire).id)
  /\ Respond(<<Msg("200", Head(wire).id, Nobody, Nobody, "BYE"), Head(wire)>>)
  /\ UNCHANGED <<scscf, fates>>

(* The SIP_CANCEL a UE rejects a call with. *)
handleUpdate ==
  /\ Takes("CANCEL")
  /\ LET m  == Head(wire)
         OK == Msg("200", m.id, Nobody, Nobody, "UPDATE")
     IN  Respond(IF m.id \in DOMAIN calls THEN <<m, OK>> ELSE <<OK>>)
  /\ UNCHANGED <<scscf, calls, fates>>

ScscfThread ==
  \/ handleRegister \/ waitCxSAA \/ handleInvite \/ handleReInvite \/ handleAck
  \/ handle200Ok \/ handleBye \/ handleUpdate \/ ReceiveLoopEnds

SetBarred(u) ==
  /\ server = "up" /\ "BARR" \in Vocabulary[u]
  /\ commands < MaxCommands /\ commands' = commands + 1
  /\ \/ u \notin barred /\ barred' = barred \cup {u}
     \/ u \in barred /\ barred' = barred \ {u}
  /\ UNCHANGED <<ue, down, up, pcscfVars, wire, toP, scscfVars, server,
                 fates, quits, timeouts>>
----------------------------------------------------------------------------
(* The P-CSCF's thread for the S-CSCF: handleFromScscf. *)
Live(x)  == x \in Ues /\ ue[x].on /\ route[x] = Conn(x)
Stale(x) == x \in Ues /\ route[x] # <<Nobody, 0>> /\ ~ Live(x)

Lookup(f, c) == IF c \in DOMAIN f THEN f[c] ELSE Nobody
Or(x, y)     == IF x # Nobody THEN x ELSE y

(* A frame for a receiver; for nobody it is not sent. *)
NoSend == <<Nobody, NoMsg>>

Delivered(u, d) ==
  IF d[1] = u /\ Live(u) /\ ~ Printed(d[2]) THEN <<d[2]>> ELSE << >>

(* sendToUe, for one frame or two in turn.  A write to a UE that is gone   *)
(* is lost, or is the second one and SIGPIPE ends the server.              *)
sendToUe(d, e) ==
  \/ /\ down' = [u \in Ues |-> down[u] \o Delivered(u, d) \o Delivered(u, e)]
     /\ UNCHANGED server
  \/ /\ Stale(d[1]) \/ Stale(e[1])
     /\ server' = "dead" /\ UNCHANGED down

FromScscf(types) ==
  server = "up" /\ target = "-" /\ toP # << >> /\ Head(toP).type \in types

Routed(d, e) ==
  /\ sendToUe(d, e)
  /\ toP' = Tail(toP)
  /\ UNCHANGED <<ue, up, pth, route, wire, scscfVars, barred, bounds>>

(* The 180 goes out whether or not the INVITE could be delivered. *)
RouteInvite ==
  /\ FromScscf({"INVITE"})
  /\ LET m == Head(toP)
         new == m.id \notin delivered
         Ringing == Msg("180", m.id, m.from, m.to, "INVITE")
     IN  /\ delivered' = delivered \cup {m.id}
         /\ caller' = IF new /\ m.id \notin DOMAIN caller
                      THEN With(caller, m.id, m.from) ELSE caller
         /\ callee' = IF new /\ m.id \notin DOMAIN callee /\ m.to # Nobody
                      THEN With(callee, m.id, m.to) ELSE callee
         /\ Routed(<<m.to, m>>, IF new THEN <<m.from, Ringing>> ELSE NoSend)
         /\ IF Live(m.to) THEN UNCHANGED fates ELSE Befalls(m.from, m.id, "unreachable")
  /\ UNCHANGED target

RouteProvisional ==
  /\ FromScscf({"100", "183"})
  /\ LET m == Head(toP)
     IN  Routed(<<Or(Lookup(caller, m.id), m.from), m>>, NoSend)
  /\ UNCHANGED <<caller, callee, delivered, target, fates>>

RouteRegister200 ==
  /\ FromScscf({"200"}) /\ Head(toP).body = "REGISTER"
  /\ Routed(<<Head(toP).from, Head(toP)>>, NoSend)
  /\ UNCHANGED <<caller, callee, delivered, target, fates>>

ToBoth == {"re-INVITE-HOLD", "re-INVITE-RESUME", "VIDEO-ADD", "VIDEO-REMOVE"}

Route200 ==
  /\ FromScscf({"200"}) /\ Head(toP).body \notin ToBoth \cup {"REGISTER"}
  /\ LET m == Head(toP)
     IN  Routed(<<Or(Lookup(caller, m.id), m.from), m>>, NoSend)
  /\ UNCHANGED <<caller, callee, delivered, target, fates>>

(* The call maps are locked for each lookup apart. *)
LookUpCaller ==
  /\ FromScscf({"200"}) /\ Head(toP).body \in ToBoth
  /\ target' = Or(Lookup(caller, Head(toP).id), Head(toP).from)
  /\ UNCHANGED <<ue, down, up, pth, route, caller, callee, delivered, wire, toP,
                 scscfVars, barred, server, fates, bounds>>

RouteToBoth ==
  /\ server = "up" /\ target # "-"
  /\ LET m == Head(toP)
     IN  Routed(<<Lookup(callee, m.id), m>>, <<target, m>>)
  /\ target' = "-" /\ UNCHANGED <<caller, callee, delivered, fates>>

RouteAck ==
  /\ FromScscf({"ACK"})
  /\ LET m == Head(toP)
     IN  Routed(<<Or(Lookup(callee, m.id), m.to), m>>, NoSend)
  /\ UNCHANGED <<caller, callee, delivered, target, fates>>

(* BYE and CANCEL, too, go to the caller; they carry no IMPU. *)
RouteOther ==
  /\ FromScscf({"BYE", "CANCEL"})
  /\ Routed(<<Lookup(caller, Head(toP).id), Head(toP)>>, NoSend)
  /\ UNCHANGED <<caller, callee, delivered, target, fates>>

ScscfReceive ==
  \/ RouteInvite \/ RouteProvisional \/ RouteRegister200 \/ Route200
  \/ LookUpCaller \/ RouteToBoth \/ RouteAck \/ RouteOther
----------------------------------------------------------------------------
(* The threads: what happens without anybody typing. *)
ThreadStep ==
  \/ \E u \in Ues : CommandStep(u) \/ handleIncoming(u)
  \/ \E k \in Conns : UeThread(k)
  \/ ScscfThread \/ handleSAR \/ ScscfReceive

Next ==
  \/ ThreadStep
  \/ \E u \in Ues :
       \/ Start(u) \/ Quit(u) \/ SetBarred(u)
       \/ \E c \in Commands \ {"CALL", "CONF"} : Type(u, c, Nobody)
       \/ \E c \in {"CALL", "CONF"}, t \in Ues : Type(u, c, t)

Spec == Init /\ [][Next]_vars
----------------------------------------------------------------------------
Accepted(c) == \E v \in Ues : <<v, c, "accepted">> \in fates

(* The 200 OK that makes a UE show "CALL CONNECTED" (ue_sim.cpp:401)       *)
(* answers a call somebody has accepted, not a barred or a rejected one,   *)
(* and reaches a UE that has sent an INVITE for that call: whoever hangs   *)
(* up, holds or adds a party meanwhile, and although it goes to whomever   *)
(* the P-CSCF's map names.  It need not be the call the UE is in by then:  *)
(* the UE compares no Call-IDs, and shows its latest call as connected.    *)
ConnectsTheCaller ==
  \A u \in Ues : \A i \in DOMAIN down[u] :
    LET m == down[u][i]
    IN  m.type = "200" /\ m.body \in {"INVITE", ""}
          => Accepted(m.id) /\ <<u, Root(m.id), "invited">> \in fates

(* Every thread waits for input: the UEs' for a command and for a frame,   *)
(* the server's for a frame each, unless its process or its loop ended.    *)
Settled ==
  /\ \A u \in Ues : ue[u].on => ue[u].cmd = NoCommand /\ down[u] = << >>
  /\ server = "up" =>
       /\ \A k \in Conns : pth[k].pc = "recv" /\ up[k] = << >>
       /\ scscf.pc = "ended" \/ (scscf.pc = "loop" /\ wire = << >>)
       /\ toP = << >> /\ target = "-" /\ cx.sar = 0

(* Nobody is stuck: when no thread can take a step, each of them waits for *)
(* input and has none, whoever hangs up twice (pcscf_node.cpp:241) and     *)
(* however late the HSS answers (scscf_node.cpp:112).                      *)
NobodyStuck == Settled <=> ~ ENABLED ThreadStep

(* What makes the server deaf: its process is gone (a write to a UE that   *)
(* quit), or the S-CSCF's thread has ended at a garbled stream.            *)
Broken == server = "dead" \/ scscf.pc = "ended"

(* A REG comes to an end, even when the HSS answers late or the answer is  *)
(* the one to another REGISTER (scscf_node.cpp:112): a UE is left          *)
(* REGISTERING only by a broken server, or when the P-CSCF's route is      *)
(* still, or is again, that of the UE's last process.                      *)
RegisterEnds ==
  Settled => \A u \in Ues : ue[u].st = "REGISTERING" => Broken \/ Stale(u)

(* A call rings at its callee, unless the callee was barred, no UE is      *)
(* behind its name, or the server is broken: also when the caller was      *)
(* restarted and gives out the same Call-ID again, for a call the S-CSCF   *)
(* still knows, and when its Call-ID is that of another UE's call.         *)
CallRings ==
  Settled => \A u \in Ues :
    ue[u].st = "CALLING" =>
      \/ Broken
      \/ \E f \in Outcomes : <<u, ue[u].call, f>> \in fates

(* ims-simulator/README.md:204: the callee's BYE ends the call at both UEs. *)
ByeEndsCall ==
  Settled => \A u \in Ues :
    ue[u].st \in {"IN_CALL", "ON_HOLD"} /\ ue[u].call.from = Prefix[u]
      => (\A v \in Ues : <<v, ue[u].call, "ended">> \notin fates) \/ Broken
=============================================================================
