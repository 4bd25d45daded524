------------------------------ MODULE Telemetry ------------------------------
(***************************************************************************)
(* The path of a telemetry batch: the Agent's byte-bounded retry buffer    *)
(* and its sender thread (crates/agent/src/transport.rs), the enrolment of *)
(* the gateway and the ingest handler of the Collector                     *)
(* (crates/collector/src/lib.rs), and the ingest_batches table that makes  *)
(* a retried batch count once (crates/storage/src/lib.rs).  Requests and   *)
(* responses are late, lost, or cut off by the restart of either side.     *)
(***************************************************************************)
EXTENDS Naturals, Sequences

CONSTANTS
  Capacity,     \* telemetry_retry_buffer_bytes, in units of the smallest batch
  MaxBatch,     \* the most batches of a scenario
  MaxBoot,      \* the most processes of a scenario
  Scenarios     \* what a behaviour may meet; one is chosen at its start:
                \*   batches  batches the Agent submits
                \*   sizes    encoded sizes of a batch, in the unit of Capacity
                \*   boots    processes of the Agent
                \*   fault    requests late or lost, answers lost, refusals (503,
                \*            500), credential files that cannot be written
                \*   crash    restarts of the Collector
                \*   rival    enrolments by another device with the same token

Scenario ==
  [batches : 0 .. MaxBatch, sizes : SUBSET (Nat \ {0}), boots : 1 .. MaxBoot,
   fault : Nat, crash : Nat, rival : Nat]

ASSUME BoundsAssumption ==
  /\ {Capacity, MaxBatch, MaxBoot} \subseteq Nat
  /\ Scenarios \subseteq Scenario

VARIABLES
  agent,      \* the Agent's process: its buffer and its sender thread
  file,       \* the token in credentials.toml, 0 when there is no file
  wire,       \* requests of the sender, being answered by the Collector
  gateway,    \* the gateways row: its token, and whether last_seen is stale
  ingested,   \* rows of ingest_batches, each with the batch it stored
  decided,    \* how often the flow decisions of a batch were queued
  collector,  \* whether the Collector is up
  submitted,  \* batches submitted so far
  left        \* how much of the scenario is left

vars == <<agent, file, wire, gateway, ingested, decided, collector, submitted, left>>

Ids == 1 .. MaxBatch
Boots == 1 .. MaxBoot
Pcs == {"pop", "enroll", "enrolling", "send", "sending", "delay", "done"}
Stages == {"sent", "authed", "stored", "answered"}
Statuses == {"none", "ok", "unauthorized", "failed"}
Queued == [id : Ids, size : 1 .. Capacity]
Messages ==
  [kind : {"enroll", "batch"}, boot : Boots, seq : 0 .. MaxBatch, id : 0 .. MaxBatch,
   token : Nat, stage : Stages, status : Statuses, live : BOOLEAN]

Down(boot) ==
  [up |-> FALSE, boot |-> boot, stopping |-> FALSE, closed |-> FALSE, queue |-> <<>>,
   hand |-> 0, seq |-> 0, pc |-> "done", cred |-> 0]

Init ==
  /\ agent = Down(0)
  /\ file = 0
  /\ wire = {}
  /\ gateway = [token |-> 0, stale |-> FALSE]
  /\ ingested = {}
  /\ decided = [i \in Ids |-> 0]
  /\ collector = TRUE
  /\ submitted = 0
  /\ left \in Scenarios

-----------------------------------------------------------------------------
(* The Agent: the retry buffer, filled by the main loop.                   *)

Bytes(q) ==
  LET sum[i \in 0 .. Len(q)] == IF i = 0 THEN 0 ELSE sum[i - 1] + q[i].size
  IN  sum[Len(q)]

\* The longest tail of the buffer that leaves room for `size` more.
Room(q, size) ==
  LET fits == {i \in 0 .. Len(q) : Bytes(SubSeq(q, i + 1, Len(q))) + size <= Capacity}
  IN  SubSeq(q, (CHOOSE i \in fits : \A j \in fits : i <= j) + 1, Len(q))

Start ==
  /\ ~agent.up
  /\ agent.boot < left.boots
  /\ agent' = [Down(agent.boot + 1) EXCEPT !.up = TRUE, !.pc = "pop", !.cred = file]
  /\ UNCHANGED <<file, wire, gateway, ingested, decided, collector, submitted, left>>

PushUnevicted(size) ==
  /\ agent.up
  /\ submitted < left.batches
  /\ submitted' = submitted + 1
  /\ IF agent.closed \/ size > Capacity
       THEN UNCHANGED agent
       ELSE agent' = [agent EXCEPT !.queue = Append(@, [id |-> submitted', size |-> size])]
  /\ UNCHANGED <<file, wire, gateway, ingested, decided, collector, left>>

\* TelemetryBuffer::push: the oldest batches make room, unless the new one is
\* larger than the whole buffer or the buffer is closed.
Push(size) ==
  /\ agent.up
  /\ submitted < left.batches
  /\ submitted' = submitted + 1
  /\ IF agent.closed \/ size > Capacity
       THEN UNCHANGED agent
       ELSE agent' = [agent EXCEPT !.queue =
                        Append(Room(@, size), [id |-> submitted', size |-> size])]
  /\ UNCHANGED <<file, wire, gateway, ingested, decided, collector, left>>

\* SIGTERM: the main loop leaves at its next turn and closes the buffer.
Signal ==
  /\ agent.up /\ ~agent.stopping
  /\ agent' = [agent EXCEPT !.stopping = TRUE]
  /\ UNCHANGED <<file, wire, gateway, ingested, decided, collector, submitted, left>>

Close ==
  /\ agent.up /\ agent.stopping /\ ~agent.closed
  /\ agent' = [agent EXCEPT !.closed = TRUE]
  /\ UNCHANGED <<file, wire, gateway, ingested, decided, collector, submitted, left>>

\* The process is gone; a request on its way has nobody waiting for it.
Orphans == {[m EXCEPT !.live = FALSE] : m \in {n \in wire : n.stage # "answered"}}

Exit ==
  /\ agent.up /\ agent.closed /\ agent.pc = "done"
  /\ agent' = Down(agent.boot)
  /\ wire' = Orphans
  /\ UNCHANGED <<file, gateway, ingested, decided, collector, submitted, left>>

Kill ==
  /\ agent.up
  /\ agent' = Down(agent.boot)
  /\ wire' = Orphans
  /\ UNCHANGED <<file, gateway, ingested, decided, collector, submitted, left>>

-----------------------------------------------------------------------------
(* The Agent: the sender thread.                                           *)

\* pop_timeout, and the sequence number the batch keeps for all its retries.
\* With nothing to pop the thread ends once the shutdown flag is set, even if
\* the main loop is yet to push its last batch.
Pop ==
  /\ agent.up /\ agent.pc = "pop"
  /\ IF agent.queue # <<>>
       THEN agent' = [agent EXCEPT !.queue = Tail(@), !.hand = Head(agent.queue).id,
                        !.seq = @ + 1,
                        !.pc = IF agent.cred = 0 THEN "enroll" ELSE "send"]
       ELSE /\ agent.stopping
            /\ agent' = [agent EXCEPT !.pc = "done"]
  /\ UNCHANGED <<file, wire, gateway, ingested, decided, collector, submitted, left>>

Request(kind) ==
  [kind |-> kind, boot |-> agent.boot,
   seq |-> IF kind = "batch" THEN agent.seq ELSE 0,
   id |-> IF kind = "batch" THEN agent.hand ELSE 0,
   token |-> IF kind = "batch" THEN agent.cred ELSE 0,
   stage |-> "sent", status |-> "none", live |-> TRUE]

\* enroll or send_batch: the request leaves, and the thread waits for it.
SendEnroll ==
  /\ agent.up /\ agent.pc = "enroll"
  /\ wire' = wire \cup {Request("enroll")}
  /\ agent' = [agent EXCEPT !.pc = "enrolling"]
  /\ UNCHANGED <<file, gateway, ingested, decided, collector, submitted, left>>

SendBatch ==
  /\ agent.up /\ agent.pc = "send"
  /\ wire' = wire \cup {Request("batch")}
  /\ agent' = [agent EXCEPT !.pc = "sending"]
  /\ UNCHANGED <<file, gateway, ingested, decided, collector, submitted, left>>

Waiting == agent.up /\ agent.pc \in {"enrolling", "sending"}

\* An enrolment: the credentials are saved, or only kept, and the batch goes.
TakeEnrollment(m) ==
  /\ m.kind = "enroll"
  /\ IF m.status = "ok"
       THEN /\ agent' = [agent EXCEPT !.cred = m.token, !.pc = "send"]
            /\ \/ file' = m.token /\ UNCHANGED left
               \/ /\ left.fault > 0
                  /\ left' = [left EXCEPT !.fault = @ - 1]
                  /\ UNCHANGED file
       ELSE /\ agent' = [agent EXCEPT !.pc = "delay"]
            /\ UNCHANGED <<file, left>>

TakeAnswerAnyStatus(m) ==
  /\ m.kind = "batch"
  /\ agent' = CASE m.status = "unauthorized" -> [agent EXCEPT !.cred = 0, !.pc = "delay"]
                [] OTHER                     -> [agent EXCEPT !.hand = 0, !.pc = "pop"]
  /\ UNCHANGED <<file, left>>

TakeAnswerKeepsToken(m) ==
  /\ m.kind = "batch"
  /\ agent' = CASE m.status = "ok" -> [agent EXCEPT !.hand = 0, !.pc = "pop"]
                [] OTHER           -> [agent EXCEPT !.pc = "delay"]
  /\ UNCHANGED <<file, left>>

\* The answer to a batch: sent, or the credential was rejected, or retry.
TakeAnswer(m) ==
  /\ m.kind = "batch"
  /\ agent' = CASE m.status = "ok"           -> [agent EXCEPT !.hand = 0, !.pc = "pop"]
                [] m.status = "unauthorized" -> [agent EXCEPT !.cred = 0, !.pc = "delay"]
                [] m.status = "failed"       -> [agent EXCEPT !.pc = "delay"]
  /\ UNCHANGED <<file, left>>

Receive ==
  /\ Waiting
  /\ \E m \in wire :
       /\ m.live /\ m.stage = "answered"
       /\ TakeEnrollment(m) \/ TakeAnswer(m)
       /\ wire' = wire \ {m}
  /\ UNCHANGED <<gateway, ingested, decided, collector, submitted>>

\* The connection is gone, with the request, or with only its answer.
Disconnected ==
  /\ Waiting
  /\ ~\E m \in wire : m.live
  /\ agent' = [agent EXCEPT !.pc = "delay"]
  /\ UNCHANGED <<file, wire, gateway, ingested, decided, collector, submitted, left>>

\* IO_TIMEOUT passes while the Collector is still at work on the request.
Timeout ==
  /\ Waiting
  /\ left.fault > 0
  /\ left' = [left EXCEPT !.fault = @ - 1]
  /\ \E m \in wire :
       /\ m.live /\ m.stage # "answered"
       /\ wire' = (wire \ {m}) \cup {[m EXCEPT !.live = FALSE]}
  /\ agent' = [agent EXCEPT !.pc = "delay"]
  /\ UNCHANGED <<file, gateway, ingested, decided, collector, submitted>>

\* should_stop: the delay ends, or the thread gives the batch and everything
\* behind it up because the process is stopping.
Delay ==
  /\ agent.up /\ agent.pc = "delay"
  /\ agent' = [agent EXCEPT !.pc = IF agent.stopping THEN "done"
                                   ELSE IF agent.cred = 0 THEN "enroll" ELSE "send"]
  /\ UNCHANGED <<file, wire, gateway, ingested, decided, collector, submitted, left>>

-----------------------------------------------------------------------------
(* The Collector.                                                          *)

\* A request is answered; nobody reads the answer of one that timed out.
Answer(m, status, token) ==
  wire' = (wire \ {m}) \cup
    (IF m.live THEN {[m EXCEPT !.stage = "answered", !.status = status, !.token = token]}
               ELSE {})

Fresh == gateway.token + 1

\* CollectorState::enroll for the Agent: the first gateway is saved, a stale
\* one has its token rotated, and any other is refused (409).
Enroll(m) ==
  /\ collector /\ m.kind = "enroll" /\ m.stage = "sent"
  /\ IF gateway.token = 0 \/ gateway.stale
       THEN /\ gateway' = [token |-> Fresh, stale |-> FALSE]
            /\ Answer(m, "ok", Fresh)
       ELSE /\ Answer(m, "failed", 0)
            /\ UNCHANGED gateway
  /\ UNCHANGED <<agent, file, ingested, decided, collector, submitted, left>>

\* Another device enrols with the same enrolment token and takes the row over.
RivalEnroll ==
  /\ collector
  /\ left.rival > 0
  /\ gateway.token = 0 \/ gateway.stale
  /\ gateway' = [token |-> Fresh, stale |-> FALSE]
  /\ left' = [left EXCEPT !.rival = @ - 1]
  /\ UNCHANGED <<agent, file, wire, ingested, decided, collector, submitted>>

\* GATEWAY_REPLACEMENT_STALE_AFTER_MS passes without a stored batch.
GoStale ==
  /\ gateway.token # 0 /\ ~gateway.stale
  /\ gateway' = [gateway EXCEPT !.stale = TRUE]
  /\ UNCHANGED <<agent, file, wire, ingested, decided, collector, submitted, left>>

\* AgentIdentity: the bearer token is compared with the gateway's.
Authenticate(m) ==
  /\ collector /\ m.kind = "batch" /\ m.stage = "sent"
  /\ IF m.token = gateway.token
       THEN wire' = (wire \ {m}) \cup {[m EXCEPT !.stage = "authed"]}
       ELSE Answer(m, "unauthorized", 0)
  /\ UNCHANGED <<agent, file, gateway, ingested, decided, collector, submitted, left>>

\* The processing mutex of accept_batch is free.
Unlocked == collector /\ ~\E m \in wire : m.stage = "stored"

\* 503 while the classifier is away, 500 when the transaction fails.
Refuse(m) ==
  /\ Unlocked /\ m.stage = "authed"
  /\ left.fault > 0
  /\ left' = [left EXCEPT !.fault = @ - 1]
  /\ Answer(m, "failed", 0)
  /\ UNCHANGED <<agent, file, gateway, ingested, decided, collector, submitted>>

Row(m) == [boot |-> m.boot, seq |-> m.seq, id |-> m.id]

PersistTwice(m) ==
  /\ Unlocked /\ m.stage = "authed"
  /\ ingested' = ingested \cup {Row(m)}
  /\ gateway' = [gateway EXCEPT !.stale = FALSE]
  /\ wire' = (wire \ {m}) \cup {[m EXCEPT !.stage = "stored"]}
  /\ UNCHANGED <<agent, file, decided, collector, submitted, left>>

\* persist_classified_batch: one transaction takes the batch in and refreshes
\* last_seen, unless its boot and sequence number are known already.
Persist(m) ==
  /\ Unlocked /\ m.stage = "authed"
  /\ IF \E r \in ingested : r.boot = m.boot /\ r.seq = m.seq
       THEN /\ Answer(m, "ok", 0)
            /\ UNCHANGED <<ingested, gateway>>
       ELSE /\ ingested' = ingested \cup {Row(m)}
            /\ gateway' = [gateway EXCEPT !.stale = FALSE]
            /\ wire' = (wire \ {m}) \cup {[m EXCEPT !.stage = "stored"]}
  /\ UNCHANGED <<agent, file, decided, collector, submitted, left>>

\* The rest of accept_batch: the flow decisions of a stored batch are queued,
\* and the request is answered.
Decide(m) ==
  /\ collector /\ m.stage = "stored"
  /\ decided' = [decided EXCEPT ![m.id] = @ + 1]
  /\ Answer(m, "ok", 0)
  /\ UNCHANGED <<agent, file, gateway, ingested, collector, submitted, left>>

\* A restart cuts the requests off; with_geo_provider reads the row again.
CollectorCrash ==
  /\ collector
  /\ left.crash > 0
  /\ left' = [left EXCEPT !.crash = @ - 1]
  /\ collector' = FALSE
  /\ wire' = {m \in wire : m.stage = "answered"}
  /\ UNCHANGED <<agent, file, gateway, ingested, decided, submitted>>

CollectorStart ==
  /\ ~collector
  /\ collector' = TRUE
  /\ UNCHANGED <<agent, file, wire, gateway, ingested, decided, submitted, left>>

\* A request never reaches the Collector, or its answer never comes back.
Lose(m) ==
  /\ m.stage \in {"sent", "answered"}
  /\ left.fault > 0
  /\ left' = [left EXCEPT !.fault = @ - 1]
  /\ wire' = wire \ {m}
  /\ UNCHANGED <<agent, file, gateway, ingested, decided, collector, submitted>>

\* With the Collector down nobody accepts the connection.
Unreachable(m) ==
  /\ ~collector /\ m.stage = "sent"
  /\ wire' = wire \ {m}
  /\ UNCHANGED <<agent, file, gateway, ingested, decided, collector, submitted, left>>

Handle(m) == Enroll(m) \/ Authenticate(m) \/ Persist(m) \/ Decide(m) \/ Unreachable(m)

Sender == Pop \/ SendEnroll \/ SendBatch \/ Receive \/ Disconnected \/ Delay

Next ==
  \/ Start \/ Signal \/ Close \/ Exit \/ Kill
  \/ \E size \in left.sizes : Push(size)
  \/ Pop \/ SendEnroll \/ SendBatch \/ Receive \/ Disconnected \/ Timeout \/ Delay
  \/ \E m \in wire : Enroll(m) \/ Authenticate(m) \/ Refuse(m) \/ Persist(m)
                     \/ Decide(m) \/ Lose(m) \/ Unreachable(m)
  \/ RivalEnroll \/ GoStale \/ CollectorCrash \/ CollectorStart

Fairness ==
  /\ WF_vars(Sender) /\ WF_vars(Close \/ Exit)
  /\ WF_vars(\E m \in wire : m.live /\ Handle(m))
  /\ WF_vars(\E m \in wire : ~m.live /\ Handle(m))
  /\ WF_vars(GoStale) /\ WF_vars(CollectorStart)

Spec == Init /\ [][Next]_vars /\ Fairness

-----------------------------------------------------------------------------
(* Properties.                                                             *)

Stored(b) == {r.id : r \in {q \in ingested : q.boot = b}}

\* The batches of a process that may still be stored.
Open(b) ==
  IF agent.up /\ agent.boot = b
    THEN ({agent.queue[i].id : i \in DOMAIN agent.queue} \cup ({agent.hand} \ {0}))
           \ Stored(b)
    ELSE {m.id : m \in {n \in wire : n.kind = "batch" /\ n.boot = b}} \ Stored(b)

\* The refinement mapping: the process that is up, and per process the batches
\* that may still be stored and those that are.
Running == IF agent.up THEN {agent.boot} ELSE {}
OpenOf == [b \in Boots |-> Open(b)]
LogOf == [b \in Boots |-> Stored(b)]

Promise == INSTANCE TelemetryDelivery WITH
  running <- Running, open <- OpenOf, log <- LogOf

\* The variables range over what the code lets them hold; the buffer stays
\* within telemetry_retry_buffer_bytes, the sender waits for at most one
\* request, and at most one is past the transaction of accept_batch.
TypeOK ==
  /\ agent \in [up : BOOLEAN, boot : 0 .. MaxBoot, stopping : BOOLEAN, closed : BOOLEAN,
                queue : Seq(Queued), hand : 0 .. MaxBatch, seq : 0 .. MaxBatch,
                pc : Pcs, cred : Nat]
  /\ Bytes(agent.queue) <= Capacity
  /\ file \in Nat
  /\ wire \subseteq Messages
  /\ \A m, n \in wire : m.live /\ n.live => m = n
  /\ \A m, n \in wire : m.stage = "stored" /\ n.stage = "stored" => m = n
  /\ gateway \in [token : Nat, stale : BOOLEAN]
  /\ ingested \subseteq [boot : Boots, seq : Ids, id : Ids]
  /\ decided \in [Ids -> Nat]
  /\ collector \in BOOLEAN
  /\ submitted \in 0 .. MaxBatch
  /\ left \in Scenario

\* accept_batch: however often a batch is retried, its flow decisions are
\* queued at most once, and only after the transaction that stored it.
DecidedOnce ==
  \A i \in Ids : /\ decided[i] <= 1
                 /\ decided[i] = 1 => \E r \in ingested : r.id = i

\* sender_loop, push and persist_classified_batch together keep the promise of
\* TelemetryDelivery: the batches of a process are stored once and in order,
\* and only eviction or the end of the process loses one.
KeepsPromise == Promise!Spec

Pending(i) == \E b \in Boots : i \in Open(b)

\* sender_loop and enroll: no batch is on its way for ever.  Whatever was
\* lost, refused, not saved or rotated away, each one is stored, evicted or
\* given up with its process.
Settles == \A i \in Ids : Pending(i) ~> ~Pending(i)
=============================================================================
