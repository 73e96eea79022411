# Verification of the 4G/5G/IMS/CBRS simulators

TLA+ modules, TLC runs and TLAPS proofs for the programs under `src/`. The
repository holds five families of programs, each a small network of nodes that
talk over sockets or share memory between threads. This project models the
ones that carry protocol or concurrency logic of their own, in the order of the
plan below. `PROJECT.json` has the line-by-line correspondence ("map"), the
runs, one mutant per checked property, the hazards and the findings.

## 1. Inventory

### 1.1 4G core (`4g-simulator/src`)

Six nodes as threads of one process, connected by TCP (S1AP, S6a, Gx) and UDP
(S11, S5) sockets on localhost. What travels is the TLV frame of
`common/tlv.h`; the ASN.1 and NAS encoders write only to the pcap file.

| part | state | operations | talks to |
|---|---|---|---|
| eNB `enb/` | command queue, per-UE record, eNB id counter, TEID counter | commands ATTACH, TAU, HO on `cmd_th`; nine S1AP messages on `rx_th` | MME (TCP) |
| MME `mme/` | `UeContextStore`, `pending_auth_` | `mme_th` handles S1AP and blocks in S6a and S11 requests; `hss_rx_th` receives vectors | eNB, HSS, S-GW |
| S-GW, P-GW | TEID and address counters, sessions | Create Session (S-GW waits for P-GW, P-GW for PCRF), Modify Bearer | each other |
| HSS, PCRF | none that matters | one answer per request | MME, P-GW |
| thread pool `common/thread_pool.h` | queue, stop flag, condition variable | submit, worker loop, destructor | perf scenarios |
| metrics `common/metrics.h` | latencies, completed, expected | startBulk, recordAttach, waitForAll | MME thread, main |
| chaos mode | probabilities | drops an authentication answer, adds delay | MME |
| CLI, perf scenarios, scenario runner | - | commands to the eNB, BULK | eNB, metrics |
| codecs, pcap, Prometheus, loggers | files and text | output only | - |
| O-RAN E2 agent and xApp | measurement counters | periodic indication, threshold rule | each other |

Hard: the MME handles one message at a time and blocks inside handlers, with
time-outs (5 s to S-GW, 3 s to P-GW) after which the late answer is still in the
socket; the eNB has two threads using one connection and one set of counters;
`BULK` counts completions that other commands also produce; the pool's and the
queue's condition variables are notified without their mutex. Correct means:
the two id spaces agree, a registered UE has a bearer and a session of its own,
the TEID the core sends to is the UE's latest, every procedure ends, BULK
returns, the pool runs each task once and shuts down.

### 1.2 5G core (`5g-simulator/src`)

Separate single-threaded programs gNB, AMF, SMF, UPF, NRF, UDM over TCP (JSON
frames on N2, HTTP on the SBI) and UDP (PFCP). The NRF keeps the profiles; every
function registers at start (10 retries) and discovers its peers once and for ever. The AMF keeps a context
per UE (SUCI, challenge, state) and a fallback address for sessions the SMF does
not serve; the SMF an address counter of 16 bits and an N4 session per PDU
session; the UPF its PFCP sessions. Hard: start-up order, a peer that dies
before or during a call, an exception nobody catches, one gNB served at a time,
addresses that collide. Correct means: the verdict of a registration is right,
addresses are shared only for a known reason, every command ends.

### 1.3 UPF fast path (`5g-simulator/src/upf_fastpath`)

A producer thread copies packets into buffers of `MbufPool` and pushes their
addresses into the lock-free `SPSCRing`; one lcore thread pops bursts, applies
PDR and FAR (`RuleTable`) and counts. `SocketPath` does the same with a mutex
queue for comparison. Hard: publication order of slots and indices, wrap-around,
full against empty, buffers used again while in flight, draining at stop.

### 1.4 CBRS (`cbrs-domain-proxy/src`)

CBSD agents connect to a domain proxy, which keeps a registry and forwards to
one SAS over a single shared connection under a mutex. Hard: one stream for all
clients and no message ids, answers read after the state was checked, a peer
that dies between request and answer, SIGPIPE. Correct means: agent, registry
and SAS agree about every grant, ids move along the life cycle, every request
ends, and nothing an agent registered outlives its connection.

### 1.5 IMS (`ims-simulator/src`)

UEs, P-CSCF (a thread per UE and one for the S-CSCF, sharing the call maps),
S-CSCF (one thread; calls, registrations, hold, video, conference, barring
through the MTAS), HSS. Hard: BYE erases the P-CSCF's routing while the answer
to it is on the way, a conference and every re-INVITE overwrite routing, a late
answer of the HSS is taken for the next user's, a UE takes a 200 OK for its
current call whatever call it answers, Call-IDs may coincide, the threads of the P-CSCF write to
one connection in two parts, a UE that quit leaves its session behind. Correct
means: a UE is connected only by the 200 OK of an accepted call it has invited to
(that it shows this call, and not another, the code does not achieve), every
REGISTER ends, every call rings, and a BYE ends the call at both ends.

### 1.6 Go services, tools

Event store (bounded ring with fan-out to subscribers that may drop), gateway,
KPI consumer (windows, duplicates, retries, dead letters), token services.
`tools/`, `ipsec-lab/`, `interview_questions/`, `docs/`, `k8s/` hold scripts,
training material and deployment files.

## 2. Plan

Done, in this order:

1. `EpcBase`, `EnbNode`, `MmeNode`, `EpcServers`, composed in `Epc`: the 4G core.
2. `ThreadPool`, with what it promises in `TaskPool`.
3. `BulkMetrics`: the BULK command.
4. `Cbrs`, with the life cycle of a CBSD in `SpectrumState`.
5. `FastPath`, with what its ring promises in `BoundedFifo`.
6. Proofs: `Epc_proofs`, `EpcService_proofs`, `ThreadPool_proofs`,
   `BulkMetrics_proofs`, `FastPath_proofs`, `Ims_proofs`, `Core5g_proofs`,
   `Cbrs_proofs`.
7. `Core5g`: gNB, AMF, SMF, UPF control, NRF, UDM, with crashes and restarts.
8. `Ims`, with its users in `MCIms`: UEs, P-CSCF, S-CSCF with MTAS, HSS.

Left:

9. `Events`: the Go store and the KPI consumer. Subscribers see a subsequence
    in order; no event counted twice; what a crash can lose.
10. `EpcShutdown`: stop flag and joins of the six nodes.

## 3. What is modelled

### 3.1 `Epc` and the modules it composes

`EpcBase` declares the variables and the messages: one record type with the
fields of `Tag`, absent fields reading as the zero the C++ locals are
initialised with. A TCP connection or UDP socket is a FIFO sequence; a socket
whose owner waits with a time-out may be found empty at any time (`MmeTimeout`,
the servers' time-outs), and the answer then stays in it, as in the code.

`EnbNode` has an action per command and per received message. The command thread
and the receive thread interleave; `handleICSR` is two actions because the code
sleeps between the Context Setup Response and Attach Complete. `MmeNode` has an
action per S1AP message and per point where `mme_th` blocks: `call` records what
it waits for. `EpcServers` has S-GW, P-GW, PCRF and HSS. Drops of chaos mode are
a bounded nondeterministic choice. The model starts when all connections are up
and ends before the stop flag.

Bounds: `MaxUe` attaches, `MaxMobility` TAU or HO commands, `MaxTimeouts`
time-outs, `MaxDrops` dropped vectors.

### 3.2 `ThreadPool` and `TaskPool`

Workers with a program counter: take the mutex, evaluate the predicate, release
it and sleep in one step, wake by a notification or spuriously, take a task, run
it. `submit` pushes under the mutex and notifies after it; the destructor stores
`stop_` and notifies, both without the mutex, then joins. `TaskPool` says tasks
start in order, once each, at most one per worker, and that all have run when
the pool is gone.

### 3.3 `BulkMetrics`

`startBulk` in its two steps, `recordAttach` in its two halves and its
notification, `waitForAll` with the condition variable and the absolute
deadline. An attach is a number of outstanding completions per batch (0 for the
single attaches of CR), completing in any order or never.

### 3.4 `Cbrs` and `SpectrumState`

`Agents` run the script of `cbsd_agent.cpp`; `Others` are CBSDs of another make
that send any request at any time. The proxy has a thread per connection:
receive, look up, check, take `g_sas_mtx`, send, receive, release, update the
registry, answer. The registry is, like the `std::map`, a function on the ids it
knows; an UNREGISTERED device is one without an entry. `ids`, the ids registered
over a connection, is history: the code keeps only the last, `my`.
`SpectrumState` is the life cycle as the comment of `spectrum_state.h` draws it,
with no other transition; the proxy does not enforce all of it (section 4), and
what it does enforce is `GainsInOrder`. A crash of the
SAS closes the connection: the first send after it resets it and the second
raises SIGPIPE, which ends the proxy.

### 3.5 `FastPath` and `BoundedFifo`

Every atomic access to an index and every access to a slot is a step. `Alloc`
takes buffers in turn and keeps the counter's reset as the code has it;
`in_use` is left out because nothing reads it. A copy into a buffer that the
lcore is processing gives any verdict. `BoundedFifo` is a queue of `RingSize-1`
items from which bursts are taken.

### 3.6 `Core5g`

One variable per piece of state of a process. `proc` says how far each `main()`
has come (`register`, `discover`, `discoverSmf`, `up`), because order matters: UDM
and AMF listen before they go to the NRF, SMF and UPF after it, and a connection
to a listening process that is not yet in `accept` waits. `found` is what was
discovered; a peer not found is looked for at the default host, which reaches it
or not (`DefaultFinds`: in the containers it does not for every function, and in the run
for the UPF only, so that the AMF depends on what the NRF told it). The
AMF's handlers are split where they wait for the SBI: `handleRegistrationRequest`
and `StoreContext`, `handleAuthResponse` and `SendAccept`, and so on; `amf` and
`call` are the waiting thread and its connection. `callUdm` lets the exception of
`connectTo` end the process, `callSmf` catches it.

A hexadecimal string is `<< >>` or the tuple of what it was made from: `kFor`
differs between subscribers only in a trailing half byte that `fromHex` drops, so
the model, like the code, gives all subscribers the same key bytes. An address is
the pair of the SMF's life and its counter, or the AMF's own, and `ueIpAddress`
maps it to the pool. `Crash` kills any process once (`MaxCrashes`), `Start` starts
it again; a caller that waits sees an empty answer. `pdus`, what the gNBs showed
their users, is history.

### 3.7 `Ims` and `MCIms`

A UE has a command thread, which tests `state_` (`Type`) and later acts
(`doCall`, ...), and a receiving thread (`Handle200`, `HandleInvite`; what is only
printed never enters `down`). The P-CSCF has a thread per connection: it reads a
frame, updates its maps and sends the length (`handle...FromUe`), sends the
payload (`sendToScscf`) and, for a BYE, erases the call's entries
(`CleanUpRouting`). Two threads between these two sends garble the stream, and
the S-CSCF's loop ends there: the length it reads is part of a payload, which is
taken to exceed `recvFrame`'s limit. The thread for the S-CSCF is
`handleFromScscf`, an action per branch; the branches that look up caller and
callee under two locks are two steps. The S-CSCF is one thread that blocks only
in `waitCxSAA`. A connection is the pair of a UE and the number of its process,
so that a session of a process that quit stays in `route` as it does in
`ue_by_impu_`; writing to it loses the frame or, the second time, ends the server
by SIGPIPE. Names of parties are the UEs themselves, SDP is told apart as far as
`handleReInvite` does, and `fates` is history for the properties: who invited to,
accepted or ended which call, and what the INVITE of a UE has met; `doCall` forgets
the latter for the UE and the Call-ID it gives out (`CalledAnew`), so that a call
under a used id has to ring itself.

A Call-ID is what `doCall` builds: a prefix, the callee and a number. The prefix
is not the caller's label: in `"call-" + cfg_.label.back() + ...`
(`ue_sim.cpp:119`) the first `+` adds a char to a pointer, and the prefix is
whatever text the binary holds that many bytes past the literal (g++ gives
different tails of other string constants to different labels, and other ones
with and without optimisation). `Prefix` is therefore a constant about which
nothing is assumed. The theorems hold for all of them, `ims` runs with two UEs
whose prefixes are alike.

## 4. Runs

| run | asks | states |
|---|---|---|
| `epc_faults` | do ids, sessions, bearers and TEIDs stay right under time-outs, drops and interleaved handovers; does only a dropped answer cost an attach | 1.36 M |
| `epc_live` | do the nodes always come to rest, with every UE registered, when nothing fails | 13.6 k |
| `ho_path_switch` | violation: Handover Notify carries another UE's TEID | - |
| `pool` | order, conservation, refinement of `TaskPool`, every task runs | 12 k |
| `pool_shutdown` | violation: the destructor's notification is lost and join never returns | - |
| `bulk` | counts and report agree within one, a batch without leftovers is honest, BULK returns | 58.8 k |
| `cbrs` | agent, registry and SAS agree; nothing an agent registered outlives its connection; ids are registered, granted and authorized in order; every request ends | 278 k |
| `fast_path` | FIFO refinement, no packet lost by the counters, drained at stop, ends | 11.9 k |
| `fast_path_pool` | violation: a buffer is handed out while its packet is in flight | - |
| `core5g` | are verdicts right, shared addresses explained, does the AMF know the UDM before it needs it in every order of starts, does every command of the gNB being served end, whoever is killed | 327 k |
| `ims` | is a UE connected only by the 200 OK of an accepted call of its own, is no thread stuck, has every REGISTER ended and every call rung when the threads rest | 467 k |
| `ims_bye` | violation: the callee hangs up and the caller stays in the call | - |

Each violation run is described, with the line it contradicts, under "findings"
in `PROJECT.json`.

Three properties one would expect fail, and what the runs check in their place is
the part that holds:

- The domain proxy does not follow the life cycle. Its guard tests grants and
  heartbeats only (`domain_proxy.cpp:118`, `:131`), although `spectrum_state.h:31`
  says that out-of-order messages are rejected before anything is forwarded, and
  `cbrs-domain-proxy/README.md:357` repeats it. `[][Lifecycle!Next]_States`, with
  the drawing's transitions, is refuted already by REGISTER, GRANT, RELINQUISH of an
  ordinary agent: the id goes from GRANTED to REGISTERED without having been
  AUTHORIZED. A deregistration is likewise applied in any state. `GainsInOrder`
  says that such steps only ever give something back.
- A connection that registers twice leaks. `myCbsdId` is overwritten
  (`domain_proxy.cpp:233`) and only the last id is removed when the connection ends
  (`:98`), although the thread is said to handle "exactly ONE CBSD for its entire
  lifetime" (`:91`). That no id of a connection's `ids` outlives its thread is
  refuted by a foreign CBSD with two registrations and a disconnect: its first
  entry stays for ever. `GoneIsForgotten` claims it for agents, which never do
  this, and only the last id for the others.
- A UE may show the wrong call as connected. `ue_sim.cpp:401` compares no Call-ID.
  That a UE IN_CALL has a call somebody accepted
  (`ims-simulator/README.md:201`: "UE-B: ACCEPT     → both UEs show call
  connected") is refuted by CALL B, REG, CALL C at A and then ACCEPT at B: A shows
  its call to C as connected. `ConnectsTheCaller` says what does hold of that 200
  OK: its call was accepted, and is one that A has invited to.

Also met while modelling and not made a run: a batch of BULK counts attaches of an
earlier CR (`metrics.h:57`), which is why `CleanBatchIsHonest` speaks of batches
started alone; a UDM that dies
during the call leaves the AMF with an empty challenge whose answer compares
equal (`amf_main.cpp:74`), hence the exception in `VerdictsRight`; the P-CSCF
sends 180 Ringing also when there was no route to the callee
(`pcscf_node.cpp:325`); a CALL after a restart reuses a Call-ID and is taken for a
re-INVITE, as is one whose Call-ID another UE's prefix makes the same
(`ue_sim.cpp:119`); QUIT at the IMS server joins threads that were not told to stop
(`ims_server_main.cpp:107`).

Bounds. Two UEs are enough for one to be served another's answer, id or TEID,
and `MaxMobility=2` lets both be handed over or one twice; one time-out suffices
to leave an answer behind and one drop to leave an attach undone. Three workers
and three tasks let a notification wake the wrong one of two sleepers. Two
batches of two with two single attaches let leftovers of the first reach the
second. One agent and one foreign CBSD compete for the SAS's stream, with one
SAS crash; two allocations each are a registration and a grant, or two
registrations over one connection. A ring of 4 with 6 packets wraps around, fills (3 items) and gives
bursts of 1 and 2; a pool of 7 keeps the assumption that it is larger than ring
and burst together, as 65536 is against 4096 + 32. In `core5g` NRF, UDM and UPF run and AMF
and SMF are started, before or after each other or not at all; two gNBs with two
commands let a UE register twice and through either gNB, and a pool of one address
makes the second allocation wrap around; one crash at any point, with restart,
reaches each failure path; the default host finds the UPF only, so that the AMF
must have discovered UDM and SMF to reach them. In `ims` A calls, holds, confers
and quits, B answers, rejects, changes media, hangs up and is barred, C joins late
and may call under A's Call-IDs (`AlikeAC`); four commands are a call,
its acceptance and two more, or a quit, a new registration and a call; one
time-out of Cx leaves one answer for the next. `ims_bye` shows its violation with
Call-IDs that differ (`Distinct`).

Deadlock checking is off: in every model the operator may stop typing and the
program then rests, or the program has ended.

Fairness. Weak fairness for each thread that the code keeps running: node
threads, workers, the owner's operation once begun, producer, lcore. None for
the operator, for time-outs that only rescue (`fast_path`, `epc_live`), for
spurious wake-ups or crashes. In `bulk` the deadline of `wait_for` is fair
because time passes. `RequestEnds` of `cbrs` needs only weak fairness because it
speaks of the holder and of a proxy that is dead; that a waiter gets `g_sas_mtx` is not claimed, since a
`std::mutex` promises no order. In `core5g` each
process that can take its next step does; starting, killing, typing and the loss
of datagrams are not fair, so `CommandEnds` holds although peers never come back.
`ims` states that things end as invariants of the states in which every thread
waits for input and has none (`Settled`), which assumes only that threads run, and
which TLC checks at a fraction of the cost of a temporal formula. `NobodyStuck`
says that these are the states in which no thread can take a step, so that none is
held up by anything else. Since every command and frame is consumed and nothing
loops, threads always come to rest.

## 5. Proofs

All theorems hold for every value of the constants under the named assumptions.

- `Epc_proofs`: `TypeCorrect` (`Spec => []TypeOK`); `NumberingInvariant` and
  `IdsAlwaysAgree`. That a context's MME and eNB id are equal is not inductive:
  it holds because the attach requests in flight are, in order, exactly the UEs
  numbered by the eNB and not yet by the MME. `IdsInv` says so, and is preserved
  by every action.
- `ThreadPool_proofs`: `PoolTypeCorrect`, `PoolInvariant`, `PoolTasksInOrder`,
  `PoolWorkConserving` and `PoolImplementsTaskPool`. The invariant ties the
  program counters to the owner of the mutex and to the tasks taken.
- `EpcService_proofs`: every invariant of `Epc` about what a UE is given, and
  `EmmForward`, from the types and the numbering. First
  each step of the six nodes is shown to have one of a few effects on the S1
  connection, the contexts and the core's sockets (`StepKinds`, `CoreKinds`); the
  invariants are then shown to survive each effect, not each action.
  `RegisteredAlwaysServed` and `EmmAlwaysForward` rest on `AttachInv`: handlers do
  not test `emm_state`, so the state is right only because of what is in flight. A
  challenge or response on its way means the UE still awaits it (`DlInv`, `UlInv`)
  and is the only one for that UE (`AuthOnce`), the handler that waits for the HSS
  or the S-GW waits for a UE in the matching state (`CallInv`), and the Attach
  Complete is behind the Context Setup Response that stores the TEID (`RxInv`,
  `OrderInv`), also across the sleep between the two.
  `StoredTeidAlwaysOwned` needs that the TEID in every response was allocated for
  the UE named in it (`TeidInv`); `LatestTeidAlwaysStored` that TEIDs rise along
  the connection, are newer than what is stored, and that each TEID the eNB gave
  out is stored, overtaken or under way (`LatestInv`).
  `SessionsAlwaysDisjoint` holds although answers are not matched to requests,
  because an address or tunnel is in one place only, an answer, the S-GW's hands
  or one context, and counters make new ones (`AddrInv`).
  `SessionAlwaysOwn` needs the opposite: while `timeouts = 0` there is one request
  in the chain MME, S-GW, P-GW, in one place and for the IMSI its callers wait for
  (`S11Chain`, `S5Chain`; theorem `ChainInvariant`); a time-out is what breaks this,
  hence the hypothesis.
  `OnlyDropsAlwaysCost` says of the states in which every thread waits for a
  message (`Waiting`) that no procedure is half done and that no more UEs are
  unregistered than chaos mode dropped answers. It speaks of states at rest, so
  `DueInv` says for every other state what is under way. A UE whose request the
  MME has just read has `mme_th` waiting for its vector (`StartedInv`), which is in
  the HSS's request, its answer or `pendingAuth` (`VectorDue`); one that is
  AUTH_PENDING has its challenge or response on the S1 connection, with the value
  the MME compares it with (`AuthDue`, `AuthVals`); one that is further is owed the
  rest of its attach, up to the Attach Complete the eNB holds back while it sleeps
  (`CompleteDue`, `PendingInv`); or it is `Lost`, and `Cardinality(Lost) <= drops`
  is preserved because only a drop loses a UE and a drop loses one (`LostInv`). A
  P-GW that waits for the PCRF has its question or answer under way (`PolicyDue`),
  and while nothing has timed out no Create Session is refused (`NoRefusal`).
  After a time-out a late answer is taken for the next UE's, so that more UEs than
  those dropped may fail: the hypothesis `timeouts = 0` is the same as that of `OwnSession`.
- `BulkMetrics_proofs`: `BulkTypeCorrect`, `BulkCountsNearlyAgree`, from an
  invariant that adds that the report is empty between the two steps of
  `startBulk`, and `BulkCleanBatchIsHonest`: in a batch started alone nothing else
  completes, so `completed` counts its own UEs, each once, except the one between
  the two halves of `recordAttach` (`BatchInv`).
- `FastPath_proofs`: `FastPathTypeCorrect`, `FastPathConserved`, `FastPathDrained`
  and `RingImplementsFifo`, for every size of ring, burst and pool. The invariant
  says that the producer between its check and its publication still has room and
  has its own buffer in the slot at `head`, that what the lcore has read of a
  burst is still in the slots from `tail` on, and in which order the threads end.
  The arithmetic of wrapped indices is in five lemmas about `Between` and `Wrap`.
- `Ims_proofs`: `ImsTypeCorrect`, `ImsConnectsTheCaller`, `ImsRegisterEnds` and
  `ImsCallRings`, for any UEs, prefixes of Call-IDs, vocabulary and bounds. That a
  UE is connected only by the 200 OK of an accepted call it has invited to is not
  inductive. In every queue and in every thread's hands the 200 OK to an INVITE
  belongs to an accepted call (`Sound`, `AcceptedIn`), which holds because the
  S-CSCF answers a barred call and every re-INVITE with another reason; and every
  INVITE, and every caller in the maps of P-CSCF and S-CSCF, is a UE that has sent
  an INVITE for that call (`Invited`), so that wherever these maps send the 200 OK
  it reaches such a UE (`Reaches`), however often they are overwritten. Types
  need that an INVITE names its caller, and that the P-CSCF keeps the 200 OK in
  hand between its two lookups. There is a lemma for each way a step is built
  (`PerformOK`, `TakeDownOK`, `SendHeaderOK`, `RespondOK`, `RoutedOK`), and one
  per handler that cites it.
  That a REG ends and that a call rings speak of states at rest and are far from
  inductive: `WayInv` says where the message is in every other state. The REGISTER
  of a UE that is REGISTERING, or its 200 OK, is on one of the hops, in the hands
  of the connection's thread or of the S-CSCF (`RegisterWay`), with the P-CSCF's
  route the UE's own from the REGISTER's arrival on unless it is stale; the INVITE
  of a UE that is CALLING is on one of them or at a running UE unless the call has
  met an outcome (`InviteWay`, `Met`); or the server is broken or its stream
  garbled, and then stays so (`Doomed`). It needs that a connection carries the
  REGISTERs of its own UE only (`OwnRegister`), and that what the P-CSCF holds
  between its two lookups is neither (`InHand`): its other thread's erasures cannot
  make it drop an INVITE. Again there is a lemma per way a step is built, and steps
  of a UE are shown to cost the other UEs nothing (`UeStepWay`). At rest no hop
  holds anything, and what is left of `WayInv` is the theorem.
- `Core5g_proofs`: `Core5gTypeCorrect`, `Core5gVerdictsRight`,
  `Core5gSharedAddressExplained` and `Core5gAmfKeptWithoutKill`, for any gNBs, UEs,
  commands, crashes and pool size. Types need that the SMF has been started at
  most once more than processes were killed (`StartsOK`). `FlowInv` says that a gNB
  over an open connection has one procedure in one place, a request, the AMF's
  call or an answer, that a challenge in flight belongs to the context the AMF
  stored and that a gNB which goes leaves at most a matching response behind: the
  AMF's comparison then cannot fail. `AllocInv` says that an address of one life
  of the SMF has one holder, so that two sessions with equal addresses differ in
  their counters by a multiple of the pool (a lemma about `%`). `KeptInv` says that
  until a process is killed UDM and NRF stay up with the UDM's profile, and that an
  AMF past its discovery of the UDM, hence every AMF that serves a gNB, knows it. `RAND`s and the
  UDM's counter are unbounded in `TypeOK`; `MaxCommands` bounds them in a run.
- `Cbrs_proofs`: `CbrsTypeCorrect`, `CbrsGrantsDistinct`, `CbrsGoneIsForgotten`,
  `CbrsAgentAgrees` and `CbrsGainsInOrder`, a refinement of `SpectrumState` up to
  steps that give something back, for any number of agents beside any number of foreign CBSDs. `LockInv`: with
  `g_sas_mtx` held there is one request or answer on the shared connection and it
  is the holder's; this is what replaces message ids. `FreshInv`: ids and grants in
  answers on their way are in no entry yet. `AgentInv`: only the thread of the
  connection that registered an id writes its entry, so the state that thread
  checked before it took the lock still holds when it applies the answer, and the
  agent's state is the entry's, or will be once it reads the answer under way. The
  refinement follows: what `Apply` does is allowed by the guard checked earlier.
  `HistoryOK` is what `CbrsGoneIsForgotten` adds: a connection has an entry from its
  registration to its end, so that an agent, which by `AgentInv` asks to be
  registered when it has none, registers over it once.

Only model-checked: liveness (`ProceduresEnd`, `AllTasksRun`,
`BulkReturns`, `RequestEnds`, `BenchmarkEnds`, `CommandEnds`), and `NobodyStuck`,
which says ENABLED, because TLAPS here does not reason about fairness or ENABLED.
Every other invariant and action property of a passing run, and every refinement,
is stated by a theorem.

## 6. Not modelled, and why

Output (pcap, logs, Prometheus, SIP texts, diagrams), the codecs that feed it, byte
layout and partial reads of sockets (except the two-part writes of the P-CSCF),
numeric QoS values, key derivation beyond what comparisons tell apart, the real
DPDK program, the socket path (the pool's structure again), the Go token services
(stateless), the IMS demonstration programs (straight sequences of printing), tools
and training material. Start-up and shutdown of the EPC's and the IMS's nodes, with
their STATUS commands. `registry_`, `on_hold`, `in_conference` and `caller_impu_` of
the IMS are written and only printed; `next_seq_` and the strings of the UE are
shared by its two threads without a lock and are taken as atomic. The PFCP messages
for modification and deletion are never sent. The Go event services are left for a
module of their own.
