----------------------------- MODULE EpcServers -----------------------------
(***************************************************************************)
(* The nodes behind the MME (4g-simulator/src/{hss,sgw,pgw,pcrf}): each is *)
(* one thread that handles a request to the end before it reads the next.  *)
(* The S-GW and the P-GW block in their handlers for the node behind them, *)
(* with a time-out; none of the four matches an answer to a request.       *)
(***************************************************************************)
EXTENDS EpcBase

NoSession(next) == [busy |-> FALSE, imsi |-> 0, s1u |-> 0, next |-> next]
PgwIdle         == [busy |-> FALSE, imsi |-> 0]

ServersInit ==
  /\ sgw = NoSession(FirstSgwTeid)
  /\ pgw = PgwIdle
  /\ sessions = << >>

(* The vector is a function of the IMSI alone: the generator is seeded with it. *)
GenerateAuthVectors(imsi) == [imsi |-> imsi, rand |-> imsi, xres |-> Response(imsi)]

HandleAIR ==
  /\ Got("s6aReq", "AIR")
  /\ LET av == GenerateAuthVectors(Head(chan["s6aReq"]).imsi)
     IN  Reply("s6aReq", "s6aAns",
               [About("AIA", av.imsi) EXCEPT !.val = av.rand, !.xres = av.xres])
  /\ UNCHANGED <<enbVars, mmeVars, coreVars, envVars>>
----------------------------------------------------------------------------
(* Mutant: next_teid_ is read twice and never advanced. *)
TeidsNotAdvanced ==
  /\ ~sgw.busy
  /\ Got("s11Req", "CreateReq")
  /\ LET m == Head(chan["s11Req"])
     IN  /\ Reply("s11Req", "s5Req", About("CreateReq", m.imsi))
         /\ sgw' = [busy |-> TRUE, imsi |-> m.imsi, s1u |-> sgw.next + 1, next |-> sgw.next]
  /\ UNCHANGED <<enbVars, mmeVars, pgw, sessions, envVars>>

(* S-GW handleCreateSessionReq up to its wait: two TEIDs, forward on S5. *)
SgwCreateSessionReq ==
  /\ ~sgw.busy
  /\ Got("s11Req", "CreateReq")
  /\ LET m == Head(chan["s11Req"])
     IN  /\ Reply("s11Req", "s5Req", About("CreateReq", m.imsi))
         /\ sgw' = [busy |-> TRUE, imsi |-> m.imsi, s1u |-> sgw.next + 1, next |-> sgw.next + 2]
  /\ UNCHANGED <<enbVars, mmeVars, pgw, sessions, envVars>>

(* The rest of it, on whatever datagram arrives on the S5 socket: an answer *)
(* to the MME, or none at all if the P-GW refused.                          *)
SgwCreateSessionRsp ==
  /\ sgw.busy
  /\ chan["s5Rsp"] # << >>
  /\ LET r == Head(chan["s5Rsp"])
     IN  IF r.cause = Accepted /\ r.ip # 0
           THEN Reply("s5Rsp", "s11Rsp",
                      [About("CreateRsp", sgw.imsi) EXCEPT !.cause = Accepted,
                                                           !.val = sgw.s1u, !.ip = r.ip])
           ELSE Consume("s5Rsp")
  /\ sgw' = NoSession(sgw.next)
  /\ UNCHANGED <<enbVars, mmeVars, pgw, sessions, envVars>>

SgwTimeout ==
  /\ sgw.busy
  /\ chan["s5Rsp"] = << >>
  /\ timeouts < MaxTimeouts
  /\ timeouts' = timeouts + 1
  /\ sgw' = NoSession(sgw.next)
  /\ UNCHANGED <<chan, enbVars, mmeVars, pgw, sessions, drops, mobility>>

(* Mutant: the request is handled and not answered. *)
ModifyWithoutAnswer ==
  /\ ~sgw.busy
  /\ Got("s11Req", "ModifyReq")
  /\ Consume("s11Req")
  /\ UNCHANGED <<enbVars, mmeVars, coreVars, envVars>>

(* handleModifyBearerReq only acknowledges. *)
SgwModifyBearerReq ==
  /\ ~sgw.busy
  /\ Got("s11Req", "ModifyReq")
  /\ Reply("s11Req", "s11Rsp", [Blank EXCEPT !.type = "ModifyRsp", !.cause = Accepted])
  /\ UNCHANGED <<enbVars, mmeVars, coreVars, envVars>>
----------------------------------------------------------------------------
(* P-GW handleCreateSessionReq up to its wait in sendCCRandWaitCCA. *)
PgwCreateSessionReq ==
  /\ ~pgw.busy
  /\ Got("s5Req", "CreateReq")
  /\ LET m == Head(chan["s5Req"])
     IN  /\ Reply("s5Req", "gxReq", About("CCR", m.imsi))
         /\ pgw' = [busy |-> TRUE, imsi |-> m.imsi]
  /\ UNCHANGED <<enbVars, mmeVars, sgw, sessions, envVars>>

(* The rest of it: the PCRF's approval, then allocateIP and the answer. *)
PgwApproved ==
  /\ pgw.busy
  /\ Got("gxAns", "CCA")
  /\ Head(chan["gxAns"]).val = 1
  /\ sessions' = Append(sessions, pgw.imsi)
  /\ Reply("gxAns", "s5Rsp", [Blank EXCEPT !.type = "CreateRsp", !.cause = Accepted,
                                           !.ip = Len(sessions) + 1])
  /\ pgw' = PgwIdle
  /\ UNCHANGED <<enbVars, mmeVars, sgw, envVars>>

(* No answer in time counts as a denial. *)
PgwTimeout ==
  /\ pgw.busy
  /\ chan["gxAns"] = << >>
  /\ timeouts < MaxTimeouts
  /\ timeouts' = timeouts + 1
  /\ Send("s5Rsp", [Blank EXCEPT !.type = "CreateRsp", !.cause = Denied])
  /\ pgw' = PgwIdle
  /\ UNCHANGED <<enbVars, mmeVars, sgw, sessions, drops, mobility>>

(* PCRF handleCCR approves every request (result code 1). *)
HandleCCR ==
  /\ Got("gxReq", "CCR")
  /\ Reply("gxReq", "gxAns", [About("CCA", Head(chan["gxReq"]).imsi) EXCEPT !.val = 1])
  /\ UNCHANGED <<enbVars, mmeVars, coreVars, envVars>>
----------------------------------------------------------------------------
(* A time-out is not part of what a thread must do to make progress. *)
SgwThread == SgwCreateSessionReq \/ SgwCreateSessionRsp \/ SgwModifyBearerReq
PgwThread == PgwCreateSessionReq \/ PgwApproved
============================================================================
