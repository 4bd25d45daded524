----------------------------- MODULE PolicySync -----------------------------
(***************************************************************************)
(* Distribution of one gateway's policy configuration from the Collector   *)
(* to its Agent.                                                           *)
(*                                                                         *)
(*   Collector   the policy database (crates/collector/src/policy/         *)
(*               service.rs), the in-memory PolicyHub and one run_socket   *)
(*               task per WebSocket session (push.rs, lib.rs);             *)
(*   Agent       the policy receiver (crates/agent/src/policy/             *)
(*               receiver.rs) over the executor, which is one atomic step  *)
(*               here and is opened up in module AgentExecutor.            *)
(*                                                                         *)
(* Policies are identified by the revision they were published under.  A   *)
(* Collector database that is re-created starts a new "life", in which     *)
(* revisions start again from 0 and stand for other policies.              *)
(***************************************************************************)
EXTENDS Naturals, Sequences

CONSTANTS
  MaxRev,       \* policy revisions the operator publishes in one life
  MaxEpoch,     \* Collector processes (controller epochs)
  MaxLife,      \* Collector databases
  MaxSession,   \* WebSocket sessions per Collector process
  MaxGen,       \* bundles after which an unchanged revision is not compiled again
  MaxBoot,      \* Agent processes (boot ids)
  MaxQueue,     \* frames in flight before periodic frames pause
  MaxRefresh,   \* refresh tasks that have not read the database yet
  MaxUnlock,    \* times the emergency marker is set
  ApplyFaults   \* whether a snapshot may be refused or only partly applied

ASSUME BoundsAssumption ==
  /\ MaxRev \in Nat /\ MaxEpoch \in Nat \ {0} /\ MaxLife \in Nat \ {0}
  /\ MaxSession \in Nat /\ MaxGen \in Nat /\ MaxBoot \in Nat \ {0}
  /\ MaxQueue \in Nat /\ MaxRefresh \in Nat /\ MaxUnlock \in Nat
  /\ ApplyFaults \in BOOLEAN

VARIABLES
  \* policy database
  life,         \* which database the revisions count in
  desired,      \* policy_gateways.desired_revision
  row,          \* policy_deployments row of the gateway
  \* PolicyHub, lost when the Collector stops
  epoch,        \* controller_epoch
  nextSession,  \* next_session_id
  active,       \* GatewayState.session, 0 when None
  bundle,       \* GatewayState.bundle and generation
  sock,         \* the run_socket task of each session
  spawned,      \* forced refresh tasks that have not read the database yet
  reads,        \* refresh tasks between the database read and the hub lock
  handshake,    \* the upgrade request of agent_policy_stream
  \* Agent
  boot,         \* boot_id of the running process
  saved,        \* the persisted PolicyState and the ack it leads to
  marker,       \* policy_disabled_path exists
  unlocks,      \* how often the marker was set
  link,         \* the Agent's WebSocket
  inbox,        \* frames sent on that socket and not handled yet
  signature     \* last_reconcile_signature

dbVars    == <<life, desired, row>>
hubVars   == <<epoch, nextSession, active, bundle, sock, spawned, reads, handshake>>
agentVars == <<boot, saved, marker, unlocks, link, inbox, signature>>
vars      == <<dbVars, hubVars, agentVars>>

-----------------------------------------------------------------------------
(* Data.                                                                   *)

Rev      == Nat
Sessions == 1..MaxSession
Status   == {"not_deployed", "offline", "pending", "applied", "partial", "failed"}
AckStatus == {"applied", "partial", "failed"}   \* "unsupported" counts as failed

\* snapshot_identity: controller epoch, revision and bundle generation (the
\* checksum is a function of these), with the life the revision counts in.
Identity   == [epoch : Nat, life : Nat, rev : Rev, gen : Nat]
NoIdentity == [epoch |-> 0, life |-> 0, rev |-> 0, gen |-> 0]

Signature   == [id : Identity, status : AckStatus \cup {"none"}]
NoSignature == [id |-> NoIdentity, status |-> "none"]

HealthFrame == [kind : {"health"}, boot : Nat, rev : Rev, disabled : BOOLEAN]
AckFrame    == [kind : {"ack"}, boot : Nat, id : Identity, status : AckStatus]
Frame       == HealthFrame \cup AckFrame

Row ==
  [connected : BOOLEAN, connEpoch : Nat, connId : Nat, delivered : Rev,
   boot : Nat, ctrlEpoch : Nat, gen : Nat, reported : Rev,
   ack : AckStatus \cup {"none"}, agentApplied : Rev, applied : Rev,
   status : Status]

EmptyRow ==
  [connected |-> FALSE, connEpoch |-> 0, connId |-> 0, delivered |-> 0,
   boot |-> 0, ctrlEpoch |-> 0, gen |-> 0, reported |-> 0, ack |-> "none",
   agentApplied |-> 0, applied |-> 0, status |-> "not_deployed"]

SockState == {"none", "start", "greet", "run", "closing", "done"}
Sock ==
  [pc : SockState, seen : Nat, sent : Identity, boot : Nat, up : Seq(Frame)]
NoSock == [pc |-> "none", seen |-> 0, sent |-> NoIdentity, boot |-> 0, up |-> <<>>]

Link   == [epoch : Nat, id : Nat, greeted : BOOLEAN]
NoLink == [epoch |-> 0, id |-> 0, greeted |-> FALSE]

Handshake == [stage : {"idle", "read", "published"}, rev : Rev]
Idle      == [stage |-> "idle", rev |-> 0]

Larger(a, b) == IF a >= b THEN a ELSE b
-----------------------------------------------------------------------------
(* PolicyService: one SQLite transaction each.                             *)

\* The session a deployment write must come from.
OwnedBy(r, s) == r.connEpoch = epoch /\ r.connId = s

\* mark_agent_connected is refused once a later session of this process has
\* claimed the row; a row of another process is always taken over.
Claimable(r, s) == r.connEpoch # epoch \/ r.connId <= s

\* Mutant: the delivery of the previous session is kept.
MarkConnectedKeepsDelivery(r, s) ==
  [r EXCEPT !.connected = TRUE, !.connEpoch = epoch, !.connId = s,
            !.status = IF desired > r.reported THEN "pending" ELSE @]

MarkConnected(r, s) ==
  [r EXCEPT !.connected = TRUE, !.connEpoch = epoch, !.connId = s,
            !.delivered = 0,
            !.status = IF desired > r.reported THEN "pending" ELSE @]

RecordDelivery(r, s, rev) ==
  IF OwnedBy(r, s) /\ r.delivered <= rev THEN [r EXCEPT !.delivered = rev] ELSE r

\* Mutant: any session may mark the gateway offline.
MarkDisconnectedUnfenced(r, s) ==
  [r EXCEPT !.connected = FALSE,
            !.status = IF desired = 0 THEN "not_deployed" ELSE "offline"]

MarkDisconnected(r, s) ==
  IF OwnedBy(r, s)
  THEN [r EXCEPT !.connected = FALSE,
                 !.status = IF desired = 0 THEN "not_deployed" ELSE "offline"]
  ELSE r

\* Mutant: with nothing to wait for, the status is that of the last ack.
RecordHealthOfAck(r, f) ==
  LET changed == r.ctrlEpoch # epoch \/ r.boot # f.boot IN
  [r EXCEPT !.connected = TRUE, !.boot = f.boot, !.ctrlEpoch = epoch,
            !.gen = IF r.ctrlEpoch = epoch THEN @ ELSE 0,
            !.reported = IF changed THEN 0 ELSE @,
            !.ack = IF changed THEN "none" ELSE @,
            !.agentApplied = Larger(@, f.rev),
            !.status = IF f.rev > desired \/ f.disabled THEN "failed"
                       ELSE IF desired > r.reported THEN "pending" ELSE r.ack]

RecordHealth(r, f) ==
  LET changed == r.ctrlEpoch # epoch \/ r.boot # f.boot IN
  [r EXCEPT !.connected = TRUE, !.boot = f.boot, !.ctrlEpoch = epoch,
            !.gen = IF r.ctrlEpoch = epoch THEN @ ELSE 0,
            !.reported = IF changed THEN 0 ELSE @,
            !.ack = IF changed THEN "none" ELSE @,
            !.agentApplied = Larger(@, f.rev),
            !.status = IF f.rev > desired \/ f.disabled THEN "failed"
                       ELSE IF \/ changed /\ desired > 0
                               \/ desired > r.reported THEN "pending"
                       ELSE @]

AckSuperseded(r, s, f) ==
  \/ ~OwnedBy(r, s)
  \/ f.id.rev < r.agentApplied
  \/ r.ctrlEpoch = f.id.epoch /\ f.id.gen < r.gen

RecordAck(r, f) ==
  [r EXCEPT !.connected = TRUE, !.boot = f.boot,
            !.ctrlEpoch = f.id.epoch, !.gen = f.id.gen,
            !.reported = f.id.rev, !.ack = f.status,
            !.agentApplied = IF f.status # "failed" THEN Larger(@, f.id.rev) ELSE @,
            !.applied = IF f.status = "applied" THEN Larger(@, f.id.rev) ELSE @,
            !.status = IF f.status = "applied" /\ f.id.rev # desired
                       THEN "pending" ELSE f.status]

\* bump_revision and republish leave the deployment row in the same way.
Republished(r) ==
  [r EXCEPT !.status = IF r.connected THEN "pending" ELSE "offline"]

\* What the API and the UI show of the row.
DeploymentStatus ==
  IF ~row.connected
  THEN IF desired = 0 THEN "not_deployed" ELSE "offline"
  ELSE IF row.reported < desired THEN "pending" ELSE row.status

-----------------------------------------------------------------------------
(* PolicyHub: bundles.                                                     *)

\* Mutant: a refresh that read an older revision still publishes it.
PublishedStale(rev, force) ==
  IF bundle.gen > 0 /\ bundle.rev = rev /\ ~force
  THEN bundle
  ELSE [epoch |-> epoch, life |-> life, rev |-> rev, gen |-> bundle.gen + 1]

\* refresh_gateway under the hub lock, for the revision read before it.
Published(rev, force) ==
  IF bundle.gen > 0 /\ (bundle.rev > rev \/ (bundle.rev = rev /\ ~force))
  THEN bundle
  ELSE [epoch |-> epoch, life |-> life, rev |-> rev, gen |-> bundle.gen + 1]

\* Mutant: the mutation handler forgets to schedule the refresh.
MutateUnpublished ==
  /\ desired < MaxRev /\ spawned < MaxRefresh
  /\ desired' = desired + 1
  /\ row' = Republished(row)
  /\ UNCHANGED <<life, hubVars, agentVars>>

\* An accepted mutation commits the next revision and spawns a refresh.
Mutate ==
  /\ desired < MaxRev /\ spawned < MaxRefresh
  /\ desired' = desired + 1
  /\ row' = Republished(row)
  /\ spawned' = spawned + 1
  /\ UNCHANGED <<life, epoch, nextSession, active, bundle, sock, reads, handshake, agentVars>>

\* The republish endpoint moves past the revision the Agent reported.
Republish ==
  /\ Larger(desired, row.agentApplied) < MaxRev /\ spawned < MaxRefresh
  /\ desired' = Larger(desired, row.agentApplied) + 1
  /\ row' = Republished(row)
  /\ spawned' = spawned + 1
  /\ UNCHANGED <<life, epoch, nextSession, active, bundle, sock, reads, handshake, agentVars>>

\* The daily task refreshes every connected gateway.
ScheduleRefresh ==
  /\ active # 0 /\ bundle.gen <= MaxGen /\ spawned < MaxRefresh
  /\ spawned' = spawned + 1
  /\ UNCHANGED <<dbVars, epoch, nextSession, active, bundle, sock, reads, handshake, agentVars>>

RefreshRead ==
  /\ spawned > 0
  /\ spawned' = spawned - 1
  /\ reads' = reads \cup {desired}
  /\ UNCHANGED <<dbVars, epoch, nextSession, active, bundle, sock, handshake, agentVars>>

RefreshPublish ==
  \E rev \in reads :
    /\ reads' = reads \ {rev}
    /\ bundle' = Published(rev, TRUE)
    /\ UNCHANGED <<dbVars, epoch, nextSession, active, sock, spawned, handshake, agentVars>>

-----------------------------------------------------------------------------
(* Connecting: agent_policy_stream and PolicyHub::register.                *)

\* The Agent opens its socket; the handler reads the revision.
Upgrade ==
  /\ link = NoLink /\ handshake = Idle /\ nextSession <= MaxSession
  /\ handshake' = [stage |-> "read", rev |-> desired]
  /\ UNCHANGED <<dbVars, epoch, nextSession, active, bundle, sock, spawned, reads, agentVars>>

\* The bundle is compiled when there is none, when the revision is new, or
\* when the one in memory has passed its valid_until_ms.
UpgradePublish ==
  /\ handshake.stage = "read"
  /\ \E expired \in BOOLEAN :
       /\ expired => bundle.gen < MaxGen
       /\ bundle' = Published(handshake.rev, expired)
  /\ handshake' = [handshake EXCEPT !.stage = "published"]
  /\ UNCHANGED <<dbVars, epoch, nextSession, active, sock, spawned, reads, agentVars>>

\* A new session replaces (cancels) the one that is registered.
Register ==
  /\ handshake.stage = "published" /\ nextSession <= MaxSession
  /\ handshake' = Idle
  /\ active' = nextSession
  /\ nextSession' = nextSession + 1
  /\ sock' = [sock EXCEPT ![nextSession] = [NoSock EXCEPT !.pc = "start", !.seen = bundle.gen]]
  /\ link' = [epoch |-> epoch, id |-> nextSession, greeted |-> FALSE]
  /\ inbox' = <<>>
  /\ signature' = NoSignature
  /\ UNCHANGED <<dbVars, epoch, bundle, spawned, reads, boot, saved, marker, unlocks>>

-----------------------------------------------------------------------------
(* run_socket: the task of session s.                                      *)

\* What is sent on a socket the Agent no longer reads is lost.
Linked(s) == link.epoch = epoch /\ link.id = s
SendDown(s, b) == inbox' = IF Linked(s) THEN Append(inbox, b) ELSE inbox

\* Sending a bundle, record_bundle_delivery and last_sent.
SendBundle(s, r, b) ==
  /\ SendDown(s, b)
  /\ row' = IF active = s THEN RecordDelivery(r, s, b.rev) ELSE r

SockStart(s) ==
  /\ sock[s].pc = "start"
  /\ IF Claimable(row, s)
     THEN /\ row' = MarkConnected(row, s)
          /\ sock' = [sock EXCEPT ![s].pc = "greet"]
          /\ UNCHANGED active
     ELSE /\ active' = IF active = s THEN 0 ELSE active
          /\ sock' = [sock EXCEPT ![s] = [NoSock EXCEPT !.pc = "done"]]
          /\ UNCHANGED row
  /\ UNCHANGED <<life, desired, epoch, nextSession, bundle, spawned, reads, handshake, agentVars>>

SockGreet(s) ==
  /\ sock[s].pc = "greet"
  /\ SendBundle(s, row, bundle)
  /\ sock' = [sock EXCEPT ![s].pc = "run", ![s].seen = bundle.gen, ![s].sent = bundle]
  /\ UNCHANGED <<life, desired, epoch, nextSession, active, bundle, spawned, reads,
                 handshake, boot, saved, marker, unlocks, link, signature>>

\* session.updates.changed(): the watch channel holds only the latest bundle.
SockUpdate(s) ==
  /\ sock[s].pc = "run" /\ active = s /\ sock[s].seen # bundle.gen
  /\ SendBundle(s, row, bundle)
  /\ sock' = [sock EXCEPT ![s].seen = bundle.gen, ![s].sent = bundle]
  /\ UNCHANGED <<life, desired, epoch, nextSession, active, bundle, spawned, reads,
                 handshake, boot, saved, marker, unlocks, link, signature>>

\* handle_agent_frame on policy_health.
SockHealth(s) ==
  /\ sock[s].pc = "run" /\ active = s
  /\ sock[s].up # <<>> /\ Head(sock[s].up).kind = "health"
  /\ LET f == Head(sock[s].up)
         switched == sock[s].boot # 0 /\ sock[s].boot # f.boot
         rest == [sock EXCEPT ![s].up = Tail(@)]
     IN IF ~OwnedBy(row, s)
        THEN sock' = rest /\ UNCHANGED <<row, inbox>>
        ELSE IF switched
        THEN /\ SendBundle(s, RecordHealth(row, f), bundle)
             /\ sock' = [rest EXCEPT ![s].boot = f.boot, ![s].sent = bundle]
        ELSE /\ row' = RecordHealth(row, f)
             /\ sock' = [rest EXCEPT ![s].boot = f.boot]
             /\ UNCHANGED inbox
  /\ UNCHANGED <<life, desired, epoch, nextSession, active, bundle, spawned, reads,
                 handshake, boot, saved, marker, unlocks, link, signature>>

\* handle_agent_frame on policy_ack: only the answer to the last bundle sent
\* on this session counts, anything else makes the Collector send again.
SockAck(s) ==
  /\ sock[s].pc = "run" /\ active = s
  /\ sock[s].up # <<>> /\ Head(sock[s].up).kind = "ack"
  /\ LET f == Head(sock[s].up)
         rest == [sock EXCEPT ![s].up = Tail(@)]
     IN IF sock[s].boot # f.boot \/ sock[s].sent # f.id
        THEN /\ SendBundle(s, row, bundle)
             /\ sock' = [rest EXCEPT ![s].sent = bundle]
        ELSE /\ row' = IF AckSuperseded(row, s, f) THEN row ELSE RecordAck(row, f)
             /\ sock' = rest
             /\ UNCHANGED inbox
  /\ UNCHANGED <<life, desired, epoch, nextSession, active, bundle, spawned, reads,
                 handshake, boot, saved, marker, unlocks, link, signature>>

\* A replaced session, or one whose peer is gone (close, error or activity
\* timeout), leaves the loop; only the registered one unregisters itself.
SockBreak(s) ==
  /\ sock[s].pc = "run" /\ (active # s \/ ~Linked(s))
  /\ active' = IF active = s THEN 0 ELSE active
  /\ sock' = [sock EXCEPT ![s] = [NoSock EXCEPT !.pc = IF active = s THEN "closing" ELSE "done"]]
  /\ link' = IF Linked(s) THEN NoLink ELSE link
  /\ inbox' = IF Linked(s) THEN <<>> ELSE inbox
  /\ UNCHANGED <<dbVars, epoch, nextSession, bundle, spawned, reads, handshake,
                 boot, saved, marker, unlocks, signature>>

\* disconnect_session after unregister returned true.
SockOffline(s) ==
  /\ sock[s].pc = "closing"
  /\ row' = MarkDisconnected(row, s)
  /\ sock' = [sock EXCEPT ![s].pc = "done"]
  /\ UNCHANGED <<life, desired, epoch, nextSession, active, bundle, spawned, reads,
                 handshake, agentVars>>

SockStep(s) ==
  \/ SockStart(s) \/ SockGreet(s) \/ SockUpdate(s)
  \/ SockHealth(s) \/ SockAck(s) \/ SockBreak(s) \/ SockOffline(s)

-----------------------------------------------------------------------------
(* Agent: connect_and_run and handle_frame.                                *)

\* The Agent's frames reach the session unless its end of the socket is gone.
SendUp(f) ==
  sock' = IF link.epoch = epoch /\ sock[link.id].pc \in {"start", "greet", "run"}
          THEN [sock EXCEPT ![link.id].up = Append(@, f)] ELSE sock

\* Periodic frames pause while this many frames are in flight.
Quiet ==
  Len(inbox) + (IF link.epoch = epoch THEN Len(sock[link.id].up) ELSE 0) < MaxQueue

Health == [kind |-> "health", boot |-> boot, rev |-> saved.id.rev, disabled |-> marker]
Ack(sig) == [kind |-> "ack", boot |-> boot, id |-> sig.id, status |-> sig.status]

\* process_snapshot refuses these before it looks at the policies: the
\* emergency marker, a lower revision, an older bundle of the same revision.
Refused(id) ==
  \/ marker
  \/ id.rev < saved.id.rev
  \/ id.epoch = saved.id.epoch /\ id.rev = saved.id.rev /\ id.gen < saved.id.gen

\* Mutant: the ack does not wait for the state file.
OutcomeUnpersisted(id) ==
  IF Refused(id) THEN {[status |-> "failed", persisted |-> FALSE]}
  ELSE [status : AckStatus, persisted : BOOLEAN]

\* What applying a snapshot may come to: persisted, with the status of its
\* policies, or failed with the previous configuration still in place.
Outcome(id) ==
  IF Refused(id) THEN {[status |-> "failed", persisted |-> FALSE]}
  ELSE IF ApplyFaults
       THEN [status : AckStatus, persisted : {TRUE}]
              \cup {[status |-> "failed", persisted |-> FALSE]}
       ELSE {[status |-> "applied", persisted |-> TRUE]}

\* The first frame of a connection reports the persisted revision.
AgentGreet ==
  /\ link # NoLink /\ ~link.greeted
  /\ SendUp(Health)
  /\ link' = [link EXCEPT !.greeted = TRUE]
  /\ UNCHANGED <<dbVars, epoch, nextSession, active, bundle, spawned, reads, handshake,
                 boot, saved, marker, unlocks, inbox, signature>>

AgentHeartbeat ==
  /\ link.greeted /\ Quiet
  /\ SendUp(Health)
  /\ UNCHANGED <<dbVars, epoch, nextSession, active, bundle, spawned, reads, handshake, agentVars>>

\* handle_frame on policy_snapshot: apply, acknowledge, remember the ack.
AgentSnapshot ==
  /\ link.greeted /\ inbox # <<>>
  /\ \E out \in Outcome(Head(inbox)) :
       LET sig == [id |-> Head(inbox), status |-> out.status] IN
       /\ saved' = IF out.persisted THEN sig ELSE saved
       /\ signature' = sig
       /\ SendUp(Ack(sig))
  /\ inbox' = Tail(inbox)
  /\ UNCHANGED <<dbVars, epoch, nextSession, active, bundle, spawned, reads, handshake,
                 boot, marker, unlocks, link>>

\* policy_tick: reconcile_saved, whose ack is sent when it differs from the
\* last one sent.  It does nothing while the marker is present.
AgentReconcile ==
  /\ link.greeted /\ ~marker /\ saved.id # NoIdentity
  /\ \E out \in Outcome(saved.id) \cup {[status |-> saved.status, persisted |-> TRUE]} :
       LET sig == [id |-> saved.id, status |-> out.status] IN
       /\ signature # sig /\ Quiet
       /\ saved' = IF out.persisted THEN sig ELSE saved
       /\ signature' = sig
       /\ SendUp(Ack(sig))
  /\ UNCHANGED <<dbVars, epoch, nextSession, active, bundle, spawned, reads, handshake,
                 boot, marker, unlocks, link, inbox>>

\* `policies unlock` and `policies resume` on the Agent's host.
Unlock ==
  /\ ~marker /\ unlocks < MaxUnlock
  /\ marker' = TRUE /\ unlocks' = unlocks + 1
  /\ UNCHANGED <<dbVars, hubVars, boot, saved, link, inbox, signature>>

Resume ==
  /\ marker /\ marker' = FALSE
  /\ UNCHANGED <<dbVars, hubVars, boot, saved, unlocks, link, inbox, signature>>

-----------------------------------------------------------------------------
(* Failures.                                                               *)

\* The connection breaks; the Agent retries while there are session ids.
LinkFail ==
  /\ link # NoLink /\ nextSession <= MaxSession
  /\ link' = NoLink /\ inbox' = <<>>
  /\ UNCHANGED <<dbVars, hubVars, boot, saved, marker, unlocks, signature>>

\* The Agent notices that the Collector process it was connected to is gone.
LinkDead ==
  /\ link # NoLink
  /\ link.epoch # epoch \/ sock[link.id].pc \in {"closing", "done"}
  /\ link' = NoLink /\ inbox' = <<>>
  /\ UNCHANGED <<dbVars, hubVars, boot, saved, marker, unlocks, signature>>

AgentRestart ==
  /\ boot < MaxBoot /\ nextSession <= MaxSession
  /\ boot' = boot + 1
  /\ link' = NoLink /\ inbox' = <<>> /\ signature' = NoSignature
  /\ handshake' = Idle
  /\ UNCHANGED <<dbVars, epoch, nextSession, active, bundle, sock, spawned, reads,
                 saved, marker, unlocks>>

\* The database survives; everything in memory, spawned refreshes included,
\* is gone.  A database that is re-created as well starts a new life.
RestartHub ==
  /\ epoch < MaxEpoch
  /\ epoch' = epoch + 1
  /\ nextSession' = 1 /\ active' = 0 /\ bundle' = NoIdentity
  /\ sock' = [s \in Sessions |-> NoSock]
  /\ spawned' = 0 /\ reads' = {} /\ handshake' = Idle

CollectorRestart == RestartHub /\ UNCHANGED <<dbVars, agentVars>>

DatabaseReset ==
  /\ life < MaxLife
  /\ RestartHub
  /\ life' = life + 1 /\ desired' = 0 /\ row' = EmptyRow
  /\ UNCHANGED agentVars

-----------------------------------------------------------------------------
Init ==
  /\ life = 1 /\ desired = 0 /\ row = EmptyRow
  /\ epoch = 1 /\ nextSession = 1 /\ active = 0 /\ bundle = NoIdentity
  /\ sock = [s \in Sessions |-> NoSock]
  /\ spawned = 0 /\ reads = {} /\ handshake = Idle
  /\ boot = 1 /\ saved = NoSignature /\ marker = FALSE /\ unlocks = 0
  /\ link = NoLink /\ inbox = <<>> /\ signature = NoSignature

Connecting == Upgrade \/ UpgradePublish \/ Register
Refreshing == RefreshRead \/ RefreshPublish
Operator   == Mutate \/ Republish \/ ScheduleRefresh \/ Unlock \/ Resume
Agent      == AgentGreet \/ AgentHeartbeat \/ AgentSnapshot \/ AgentReconcile
Failure    == LinkFail \/ LinkDead \/ AgentRestart \/ CollectorRestart \/ DatabaseReset

Next ==
  \/ Operator \/ Refreshing \/ Connecting \/ Agent \/ Failure
  \/ \E s \in Sessions : SockStep(s)

Spec == Init /\ [][Next]_vars

\* Every task the runtime polls runs, and tokio::select! polls its branches in
\* random order, so no ready branch of run_socket is passed over for ever; the
\* Agent keeps reconnecting and its timers (heartbeat, policy_tick) keep
\* firing.  Operators and failures are not fair.
Fairness ==
  /\ WF_vars(RefreshRead) /\ WF_vars(RefreshPublish)
  /\ WF_vars(Upgrade) /\ WF_vars(UpgradePublish) /\ WF_vars(Register)
  /\ WF_vars(AgentGreet) /\ WF_vars(AgentSnapshot)
  /\ SF_vars(AgentHeartbeat) /\ SF_vars(AgentReconcile)
  /\ WF_vars(LinkDead)
  /\ \A s \in Sessions :
       /\ WF_vars(SockStart(s)) /\ WF_vars(SockGreet(s)) /\ WF_vars(SockUpdate(s))
       /\ WF_vars(SockHealth(s)) /\ WF_vars(SockAck(s))
       /\ WF_vars(SockBreak(s)) /\ WF_vars(SockOffline(s))

FairSpec == Spec /\ Fairness

-----------------------------------------------------------------------------
(* Properties.                                                             *)

\* The state has its type: in particular no revision, session id, refresh task
\* or Agent process exceeds what the database and the hub have given out.
TypeOK ==
  /\ life \in 1..MaxLife /\ desired \in 0..MaxRev /\ row \in Row
  /\ epoch \in 1..MaxEpoch /\ nextSession \in 1..MaxSession + 1
  /\ active \in 0..MaxSession /\ bundle \in Identity
  /\ sock \in [Sessions -> Sock]
  /\ spawned \in 0..MaxRefresh /\ reads \in SUBSET (0..MaxRev)
  /\ handshake \in Handshake
  /\ boot \in 1..MaxBoot /\ saved \in Signature
  /\ marker \in BOOLEAN /\ unlocks \in 0..MaxUnlock
  /\ link \in Link /\ inbox \in Seq(Identity) /\ signature \in Signature

\* "Applied" is never shown for a configuration the Agent has not stored: the
\* Agent's persisted snapshot is then the desired revision of this database.
\* The revisions the row records for the Agent never run ahead of what it stored,
\* so that republish cannot skip past it for nothing.
AppliedIsStored ==
  /\ DeploymentStatus = "applied" => saved.id.rev = desired /\ saved.id.life = life
  /\ row.applied <= row.agentApplied /\ row.agentApplied <= saved.id.rev

\* The registered session that has entered its loop owns the deployment row
\* and is shown connected: no late write of an older session takes it away.
ActiveOwnsRow ==
  \A s \in Sessions :
    active = s /\ sock[s].pc \in {"greet", "run"} => OwnedBy(row, s) /\ row.connected

\* A delivered revision has been sent on the session that owns the row.
DeliveredWasSent ==
  \A s \in Sessions :
    OwnedBy(row, s) /\ sock[s].pc \in {"greet", "run"} =>
      row.delivered <= sock[s].sent.rev

\* Concurrent refreshes never replace a bundle by one of a lower revision, and
\* no two bundles of a Collector process share a generation.
BundleNeverGoesBack ==
  [][epoch' = epoch =>
       \/ bundle' = bundle
       \/ bundle'.gen > bundle.gen /\ bundle'.rev >= bundle.rev]_vars

\* Once failures and edits stop, the deployment settles on "applied" with the
\* desired revision, or on "failed" when the Agent is ahead of the database.  An
\* operator who has used the emergency unlock may find "failed" for longer: the
\* Agent repeats its refusal until the next snapshot.
Settles ==
  <>[](\/ unlocks > 0
       \/ IF saved.id.rev > desired THEN row.status = "failed" ELSE DeploymentStatus = "applied")

=============================================================================
