---------------------------- MODULE FlowDelivery ----------------------------
(***************************************************************************)
(* How the Collector's PolicyHub delivers per-flow verdicts to one Agent   *)
(* (crates/collector/src/policy/push.rs).  Telemetry batches produce       *)
(* decisions; the hub keeps the last command of every flow, a bounded      *)
(* queue of those to send, and a window of those sent and not yet          *)
(* acknowledged, which a socket task retries.  The telemetry thread (the   *)
(* processing mutex of lib.rs admits one at a time), policy changes and    *)
(* the tasks of old and new sockets share the state under one lock, taken  *)
(* once per step here.  Time is abstracted: a command may expire, and a    *)
(* retry may be due, at any moment.                                        *)
(***************************************************************************)
EXTENDS Naturals, Sequences, FiniteSets, Functions

CONSTANTS
  Flows,        \* policy flow ids
  QueueCap,     \* FLOW_COMMAND_QUEUE_CAPACITY
  WindowCap,    \* FLOW_COMMAND_IN_FLIGHT_CAPACITY
  StateCap,     \* FLOW_COMMAND_STATE_CAPACITY
  MaxAttempts,  \* FLOW_COMMAND_MAX_ATTEMPTS
  Scenarios     \* what a behaviour may meet; one is chosen at its start:
                \*   flows      flows that are seen
                \*   revs       policy revisions
                \*   boots      boots of the Agent
                \*   sessions   policy connections
                \*   decisions  flow samples and evaluations

ASSUME FlowAssumption ==
  /\ IsFiniteSet(Flows)
  /\ Scenarios \subseteq [flows : SUBSET Flows, revs : Nat, boots : Nat \ {0}, sessions : Nat,
                          decisions : Nat]
  /\ {QueueCap, WindowCap, StateCap, MaxAttempts} \subseteq Nat \ {0}

VARIABLES
  g,          \* the GatewayState; caps is the boot whose capabilities are on record
              \* for the bundle's revision, notified the permit of flow_notify
  sock,       \* the run_socket tasks
  agentBoot,  \* the boot the Agent is in
  decisions,  \* evaluations whose command has not reached the hub yet
  expired,    \* commands whose expires_at_ms has passed
  clock,      \* the last generation given out
  bound       \* the scenario

vars == <<g, sock, agentBoot, decisions, expired, clock>>

-----------------------------------------------------------------------------
Boots == 0 .. bound.boots      \* 0 stands for None
Revs  == 0 .. bound.revs
Sessions == 1 .. bound.sessions

\* A command is an Upsert with a verdict, or a Revoke.  Its uuid tells which
\* decision or which change of the revision created it.
Id  == [kind : {"none", "decision", "revision"}, n : Nat, flow : Flows]
Op  == {"none", "block", "shape", "revoke"}
Cmd == [id : Id, flow : Flows, boot : Boots, rev : Revs, op : Op]
NoCmd(f) == [id |-> [kind |-> "none", n |-> 0, flow |-> f], flow |-> f,
             boot |-> 0, rev |-> 0, op |-> "none"]
Present(c) == c.op # "none"
Upsert(c)  == c.op \in {"block", "shape"}

\* A decision carries the generation of the context it was made from.  An upsert
\* is checked against it when it arrives; a revoke is not, it first looks
\* whether the flow has an active command (ready).  by is the thread that made
\* it: the telemetry thread or the task of a session.
Telemetry == 0
Decision == [cmd : Cmd, gen : Nat, ready : BOOLEAN, by : Sessions \cup {Telemetry}]

NoId(f) == NoCmd(f).id
None == [f \in Flows |-> NoCmd(f)]
NoDelay == [f \in Flows |-> NoId(f)]
Forget(attempts, ids) == Restrict(attempts, DOMAIN attempts \ ids)
Flying(s) == {e.cmd.id : e \in s.flight}

\* A socket task: the boot of the Agent at its other end, the boot it has
\* latched, the revision it sent last, and the command it is sending.
NoSock == [pc |-> "none", agent |-> 0, boot |-> 0, sent |-> 0, sending |-> {}]
Sock == [pc : {"none", "start", "run", "send", "retry", "done"}, agent : Boots, boot : Boots,
         sent : Revs, sending : SUBSET Cmd]

-----------------------------------------------------------------------------
(* The methods of GatewayState, as functions of the state.                 *)

ClearDelivery(s) ==
  [s EXCEPT !.pending = None, !.queue = <<>>, !.flight = {}, !.attempts = <<>>,
            !.delayed = NoDelay]

ClearCommands(s) ==
  [ClearDelivery(s) EXCEPT !.states = None, !.contexts = [f \in Flows |-> 0]]

\* VecDeque::retain: the entries of q that are in S, in their order.
Retain(q, S) ==
  LET kept[i \in 0 .. Len(q)] ==
        IF i = 0 THEN <<>>
        ELSE IF q[i] \in S THEN Append(kept[i - 1], q[i]) ELSE kept[i - 1]
  IN kept[Len(q)]

\* fill_flow_queue: expired commands and those of an older revision leave, and
\* the queue is topped up with commands of the current one, in any order.
Fills(s) ==
  LET dropped  == {f \in Flows : /\ Present(s.pending[f])
                                 /\ \/ s.pending[f].id \in expired
                                    \/ s.pending[f].rev < s.bundle}
      pending  == [f \in Flows |-> IF f \in dropped THEN NoCmd(f) ELSE s.pending[f]]
      gone     == {s.pending[f].id : f \in dropped} \ (Flying(s) \cup Range(s.delayed))
      states   == [f \in Flows |-> IF s.states[f].id \in expired THEN NoCmd(f) ELSE s.states[f]]
      eligible == {f \in Flows : Present(pending[f]) /\ (s.bundle = 0 \/ pending[f].rev = s.bundle)}
      queue    == Retain(s.queue, eligible)
      waiting  == eligible \ Range(queue)
      room     == IF Len(queue) >= QueueCap THEN 0 ELSE QueueCap - Len(queue)
      count    == IF Cardinality(waiting) < room THEN Cardinality(waiting) ELSE room
  IN {[s EXCEPT !.pending = pending, !.states = states, !.queue = queue \o more,
                !.attempts = Forget(s.attempts, gone)] :
        more \in Injection(1 .. count, waiting)}

NotifyIfQueued(s) == [s EXCEPT !.notified = @ \/ s.queue # <<>>]

\* requeue_flow_states after the same boot has connected again.
RequeueStates(s) ==
  LET live(f) == Present(s.states[f]) /\ s.states[f].id \notin expired IN
  {NotifyIfQueued(h) : h \in
     Fills([s EXCEPT !.flight = {}, !.attempts = <<>>, !.delayed = NoDelay,
                     !.pending = [f \in Flows |-> IF live(f) THEN s.states[f]
                                                  ELSE s.pending[f]]])}

\* revoke_active_flow_states, called before the bundle is replaced.
RevokeNothing(s, rev) == {s}
RevokeActive(s, rev) ==
  LET revoke(f) == [id |-> [kind |-> "revision", n |-> rev, flow |-> f], flow |-> f,
                    boot |-> s.states[f].boot, rev |-> rev, op |-> "revoke"]
      update(m) == [f \in Flows |-> IF Upsert(s.states[f]) THEN revoke(f) ELSE m[f]]
  IN {NotifyIfQueued(h) : h \in
        Fills([s EXCEPT !.states = update(s.states), !.pending = update(s.pending),
                        !.queue = <<>>])}

-----------------------------------------------------------------------------
(* Policy changes and telemetry, on threads of their own.                  *)

\* refresh_gateway with a new revision.
Publish ==
  /\ g.bundle < bound.revs
  /\ \E h \in (IF g.bundle = 0 THEN {g} ELSE RevokeActive(g, g.bundle + 1)) :
       g' = [h EXCEPT !.bundle = g.bundle + 1, !.caps = 0]
  /\ UNCHANGED <<sock, agentBoot, decisions, expired, clock>>

\* remember_flow_context: a sample of another boot is refused while the session
\* has one; the context is not kept when there are too many.
Refused(b) == g.sessionBoot \notin {0, b}
Adopted(b) == [IF g.flowBoot \in {0, b} THEN g ELSE ClearCommands(g)
               EXCEPT !.flowBoot = b, !.sessionBoot = b]
Remembers(s, f) ==
  s.contexts[f] # 0 \/ Cardinality({e \in Flows : s.contexts[e] # 0}) < StateCap

NewCmd(f, b, rev, op) ==
  [id |-> [kind |-> "decision", n |-> clock + 1, flow |-> f], flow |-> f,
   boot |-> b, rev |-> rev, op |-> op]
Decide(by, f, b, rev, op, gen) ==
  [cmd |-> NewCmd(f, b, rev, op), gen |-> gen, ready |-> op # "revoke", by |-> by]

\* A thread goes on when the commands it has made are queued or dropped.
Free(t) == \A d \in decisions : d.by # t

\* queue_policy_flow_decisions for a live flow, with the bundle the thread read
\* at the start of its batch: the context is remembered, and the evaluation
\* gives a verdict or none.
Classify(f, b) ==
  /\ Free(Telemetry) /\ clock < bound.decisions
  /\ clock' = clock + 1
  /\ \E op \in {"block", "shape", "revoke"}, rev \in 1 .. g.bundle :
       LET s == IF Refused(b) THEN g ELSE Adopted(b)
           kept == ~Refused(b) /\ Remembers(s, f) IN
       /\ g' = IF kept THEN [s EXCEPT !.contexts[f] = clock + 1] ELSE s
       /\ decisions' = IF kept \/ op = "revoke"
                       THEN decisions \cup {Decide(Telemetry, f, b, rev, op, clock + 1)} ELSE decisions
  /\ UNCHANGED <<sock, agentBoot, expired>>

\* The same for a flow that has ended.
Ended(f, b) ==
  /\ Free(Telemetry) /\ clock < bound.decisions
  /\ clock' = clock + 1
  /\ g' = IF b = g.flowBoot THEN [g EXCEPT !.contexts[f] = 0] ELSE g
  /\ \E rev \in 1 .. g.bundle :
       decisions' = decisions \cup {Decide(Telemetry, f, b, rev, "revoke", clock + 1)}
  /\ UNCHANGED <<sock, agentBoot, expired>>

\* The first half of revoke_flow_if_active.
RevokeCheck(d) ==
  /\ ~d.ready
  /\ LET c == g.states[d.cmd.flow] IN
     decisions' = (decisions \ {d}) \cup
                    (IF Upsert(c) /\ c.boot = d.cmd.boot
                     THEN {[d EXCEPT !.ready = TRUE]} ELSE {})
  /\ UNCHANGED <<g, sock, agentBoot, expired, clock>>

\* queue_flow_command_inner: what makes it drop the command ...
StaleAnyBoot(d) ==
  \/ d.cmd.rev # g.bundle
  \/ Upsert(d.cmd) /\ (g.flowBoot # d.cmd.boot \/ g.contexts[d.cmd.flow] # d.gen)
StaleAnyPacket(d) == g.sessionBoot \notin {0, d.cmd.boot} \/ d.cmd.rev # g.bundle
Stale(d) ==
  \/ g.sessionBoot \notin {0, d.cmd.boot}
  \/ d.cmd.rev # g.bundle
  \/ Upsert(d.cmd) /\ (g.flowBoot # d.cmd.boot \/ g.contexts[d.cmd.flow] # d.gen)

\* ... a repetition of a command that is not near its expiry ...
SameDecision(c, d) == [c EXCEPT !.id = d.id] = d /\ c.id \notin expired

\* ... and the command taking the place of the flow's last one.
Insert(s, c) ==
  LET f == c.flow
      old == {s.delayed[f]} \cup ({s.pending[f].id} \ Flying(s)) IN
  {[h EXCEPT !.notified = TRUE] : h \in
     Fills([s EXCEPT !.delayed[f] = NoId(f), !.states[f] = c, !.pending[f] = c,
                     !.attempts = Forget(s.attempts, old)])}

Arrive(d) ==
  /\ d.ready
  /\ decisions' = decisions \ {d}
  /\ LET c == d.cmd
         s == [IF g.flowBoot \in {0, c.boot} THEN g ELSE ClearCommands(g)
               EXCEPT !.flowBoot = c.boot]
         full == /\ ~Present(s.states[c.flow])
                 /\ Cardinality({e \in Flows : Present(s.states[e])}) >= StateCap
     IN IF Stale(d) THEN g' = g
        ELSE \/ (full \/ SameDecision(s.states[c.flow], c)) /\ g' = s
             \/ ~full /\ g' \in Insert(s, c)
  /\ UNCHANGED <<sock, agentBoot, expired, clock>>

-----------------------------------------------------------------------------
(* The socket tasks.                                                       *)

Active(s)  == g.session = s
Running(s) == sock[s].pc = "run" /\ Free(s)

\* register, for a connection of the running Agent.
Register(s) ==
  /\ sock[s].pc = "none" /\ \A t \in 1 .. s - 1 : sock[t].pc # "none"
  /\ g.bundle # 0
  /\ sock' = [sock EXCEPT ![s] = [NoSock EXCEPT !.pc = "start", !.agent = agentBoot]]
  /\ g' = [ClearDelivery(g) EXCEPT !.session = s, !.sessionBoot = 0]
  /\ UNCHANGED <<agentBoot, decisions, expired, clock>>

\* run_socket sends the bundle when it starts, and whenever it has changed.
SendBundle(s) ==
  /\ \/ sock[s].pc = "start"
     \/ Running(s) /\ sock[s].sent # g.bundle
  /\ sock' = [sock EXCEPT ![s].pc = "run", ![s].sent = g.bundle]
  /\ g' = [g EXCEPT !.notified = TRUE]
  /\ UNCHANGED <<agentBoot, decisions, expired, clock>>

\* The loop ends, and unregister forgets the session if it is still this one.
SockEnd(s) ==
  /\ sock[s].pc = "start" \/ Running(s)
  /\ sock' = [sock EXCEPT ![s].pc = "done"]
  /\ g' = IF Active(s) THEN [g EXCEPT !.session = 0] ELSE g
  /\ UNCHANGED <<agentBoot, decisions, expired, clock>>

\* latch_agent_boot.
Latched(b) ==
  LET changed == g.flowBoot # b
      s == IF changed THEN [ClearCommands(g) EXCEPT !.caps = 0] ELSE g
      t == [s EXCEPT !.sessionBoot = b, !.flowBoot = b]
  IN IF g.sessionBoot = 0 /\ ~changed THEN RequeueStates(t) ELSE {t}

\* The evaluation of the contexts by record_flow_capabilities and by
\* refresh_active_flow_commands: each has expired, or gets a verdict or none.
Outcomes == {"expired", "none", "block", "shape"}
Contexts(s) == {f \in Flows : s.contexts[f] # 0}
Evaluate(t, s, out) ==
  LET made == {f \in DOMAIN out : out[f] \in {"block", "shape"}} IN
  /\ g' = [s EXCEPT !.contexts = [f \in Flows |-> IF f \in DOMAIN out /\ out[f] = "expired"
                                                  THEN 0 ELSE s.contexts[f]]]
  /\ made # {} => clock < bound.decisions
  /\ decisions' = decisions \cup
       {Decide(t, f, s.flowBoot, s.bundle, out[f], s.contexts[f]) : f \in made}
  /\ clock' = IF made = {} THEN clock ELSE clock + 1

\* A PolicyHealth frame: the boot is latched, and the capabilities are recorded
\* if the Agent has applied the current snapshot.
SockHealth(s) ==
  /\ Running(s) /\ Active(s)
  /\ sock' = [sock EXCEPT ![s].boot = sock[s].agent]
  /\ \E h \in Latched(sock[s].agent) :
       \/ g' = h /\ UNCHANGED <<decisions, clock>>
       \/ /\ sock[s].sent = g.bundle
          /\ \E out \in [Contexts(h) -> Outcomes] :
               Evaluate(s, [h EXCEPT !.caps = sock[s].agent], out)
  /\ UNCHANGED <<agentBoot, expired>>

\* A PolicyAck of the current snapshot that record_ack accepts.
SockAck(s) ==
  /\ Running(s) /\ Active(s) /\ sock[s].boot # 0 /\ sock[s].sent = g.bundle
  /\ \E out \in [Contexts(g) -> Outcomes] :
       Evaluate(s, [g EXCEPT !.caps = sock[s].boot], out)
  /\ UNCHANGED <<sock, agentBoot, expired>>

\* The retry tick: refresh_active_flow_commands, and then retry_flow_commands.
SockRefresh(s) ==
  /\ Running(s)
  /\ sock' = [sock EXCEPT ![s].pc = "retry"]
  /\ IF Active(s)
     THEN \E out \in [Contexts(g) -> IF g.caps = 0 THEN {"expired", "none"} ELSE Outcomes] :
            Evaluate(s, g, out)
     ELSE UNCHANGED <<g, decisions, clock>>
  /\ UNCHANGED <<agentBoot, expired>>

\* The delayed retries and the unacknowledged commands that are due: the flow's
\* last command is pending again, any other is forgotten; after the last
\* attempt the command is given up.
RetriedUpTo(ready, due, limit) ==
  LET again(f) == \/ f \in ready /\ g.states[f].id = g.delayed[f] /\ g.delayed[f] \notin expired
                  \/ \E e \in due : e.attempts < limit /\ e.cmd.id = g.states[f].id
      ids  == {g.delayed[f] : f \in ready} \cup {e.cmd.id : e \in due}
      kept == {g.states[f].id : f \in {x \in Flows : again(x)}}
  IN [g EXCEPT !.delayed = [f \in Flows |-> IF f \in ready THEN NoId(f) ELSE @[f]],
               !.flight = @ \ due,
               !.pending = [f \in Flows |-> IF again(f) THEN g.states[f] ELSE @[f]],
               !.attempts = Forget(@, ids \ kept)]
RetriedNeverGivesUp(ready, due) ==
  RetriedUpTo(ready, {e \in due : e.attempts < MaxAttempts}, MaxAttempts)
Retried(ready, due) == RetriedUpTo(ready, due, MaxAttempts)

Retry(ready, due) == {NotifyIfQueued(h) : h \in Fills(Retried(ready, due))}

Delayed == {f \in Flows : g.delayed[f] # NoId(f)}
SockRetry(s, ready, due) ==
  /\ sock[s].pc = "retry" /\ Free(s)
  /\ sock' = [sock EXCEPT ![s].pc = "run"]
  /\ IF Active(s) THEN g' \in Retry(ready, due) ELSE g' = g
  /\ UNCHANGED <<agentBoot, decisions, expired, clock>>

\* take_flow_command on a permit of flow_notify, which the task of a replaced
\* session may consume too: the first queued command of the revision sent and
\* the boot latched; those before it leave the queue.
Taken(s, h) ==
  LET sendable(i) == LET c == h.pending[h.queue[i]] IN
                     c.rev = sock[s].sent /\ c.boot = sock[s].boot
      hits  == {i \in DOMAIN h.queue : sendable(i)}
      first == IF hits = {} THEN Len(h.queue) + 1 ELSE CHOOSE i \in hits : \A j \in hits : i <= j
      drop  == {h.queue[i] : i \in {j \in 1 .. first - 1 : h.pending[h.queue[j]].rev = sock[s].sent}}
               \cup {h.queue[i] : i \in hits \cap {first}}
  IN [cmd   |-> {h.pending[h.queue[i]] : i \in hits \cap {first}},
      state |-> [h EXCEPT !.queue = SubSeq(@, first + 1, Len(@)),
                          !.pending = [f \in Flows |-> IF f \in drop THEN NoCmd(f) ELSE @[f]]]]

MayTakeOneMore(s) ==
  Active(s) /\ sock[s].boot # 0 /\ Cardinality(g.flight) <= WindowCap
MayTake(s) == Active(s) /\ sock[s].boot # 0 /\ Cardinality(g.flight) < WindowCap

SockTake(s) ==
  /\ Running(s) /\ g.notified
  /\ LET idle == [g EXCEPT !.notified = FALSE] IN
     IF ~MayTake(s)
     THEN g' = idle /\ UNCHANGED sock
     ELSE \E h \in Fills(idle) :
            LET t == Taken(s, h) IN
            IF t.cmd = {} THEN g' = t.state /\ UNCHANGED sock
            ELSE /\ \E k \in Fills(t.state) : g' = NotifyIfQueued(k)
                 /\ sock' = [sock EXCEPT ![s].pc = "send", ![s].sending = t.cmd]
  /\ UNCHANGED <<agentBoot, decisions, expired, clock>>

\* The write to the socket has succeeded: mark_flow_command_sent.
MarkSent(s, c) ==
  LET n == IF c.id \in DOMAIN g.attempts THEN g.attempts[c.id] + 1 ELSE 1 IN
  IF ~Active(s) THEN g
  ELSE [g EXCEPT !.attempts = [i \in DOMAIN @ \cup {c.id} |-> IF i = c.id THEN n ELSE @[i]],
                 !.flight = {e \in @ : e.cmd.id # c.id} \cup {[cmd |-> c, attempts |-> n]}]

SockSent(s) ==
  /\ sock[s].pc = "send"
  /\ sock' = [sock EXCEPT ![s].pc = "run", ![s].sending = {}]
  /\ \E c \in sock[s].sending : g' = MarkSent(s, c)
  /\ UNCHANGED <<agentBoot, decisions, expired, clock>>

\* It has failed: requeue_unsent_flow_command, and the task ends.
SendFailsRequeues(s) ==
  /\ sock[s].pc = "send"
  /\ sock' = [sock EXCEPT ![s].pc = "done", ![s].sending = {}]
  /\ \E c \in sock[s].sending :
       IF ~Active(s) THEN g' = g
       ELSE \E h \in Fills([g EXCEPT !.pending[c.flow] = c]) :
              g' = [h EXCEPT !.notified = TRUE, !.session = 0]
  /\ UNCHANGED <<agentBoot, decisions, expired, clock>>
SockSendFails(s) ==
  /\ sock[s].pc = "send"
  /\ sock' = [sock EXCEPT ![s].pc = "done", ![s].sending = {}]
  /\ \E c \in sock[s].sending :
       IF ~Active(s) THEN g' = g
       ELSE IF g.states[c.flow].id # c.id THEN g' = [g EXCEPT !.session = 0]
       ELSE \E h \in Fills([g EXCEPT !.pending[c.flow] = c]) :
              g' = [h EXCEPT !.notified = TRUE, !.session = 0]
  /\ UNCHANGED <<agentBoot, decisions, expired, clock>>

\* acknowledge_flow_command: a shape with partial alias coverage is tried again
\* later, an acknowledged revoke ends the flow's state.
FlowAck(s, e, status) ==
  LET f == e.cmd.flow
      last == g.states[f].id = e.cmd.id
      later == /\ status = "partial" /\ e.cmd.op = "shape" /\ e.attempts < MaxAttempts
               /\ last /\ e.cmd.id \notin expired
      over == e.cmd.op = "revoke" /\ status # "failed" /\ last
      gone == IF later THEN {g.delayed[f]} \ {e.cmd.id} ELSE {e.cmd.id}
  IN {NotifyIfQueued(h) : h \in
        Fills([g EXCEPT !.flight = @ \ {e}, !.attempts = Forget(@, gone),
                        !.delayed[f] = IF later THEN e.cmd.id ELSE @,
                        !.states[f] = IF over THEN NoCmd(f) ELSE @])}

SockFlowAck(s) ==
  /\ Running(s) /\ Active(s)
  /\ \E e \in g.flight, status \in {"applied", "partial", "failed"} :
       e.cmd.boot = sock[s].boot /\ g' \in FlowAck(s, e, status)
  /\ UNCHANGED <<sock, agentBoot, decisions, expired, clock>>

-----------------------------------------------------------------------------
(* The rest of the world, and the specification.                           *)

\* The Agent restarts: its next connection reports a new boot.
AgentRestart ==
  /\ agentBoot < bound.boots
  /\ agentBoot' = agentBoot + 1
  /\ UNCHANGED <<g, sock, decisions, expired, clock>>

\* The expires_at_ms of a flow's last command passes.
Expire(f) ==
  /\ Present(g.states[f])
  /\ g.states[f].id \notin expired
  /\ expired' = expired \cup {g.states[f].id}
  /\ UNCHANGED <<g, sock, agentBoot, decisions, clock>>

Init ==
  /\ bound \in Scenarios
  /\ g = [bundle |-> 0, session |-> 0, sessionBoot |-> 0, flowBoot |-> 0, pending |-> None,
          queue |-> <<>>, states |-> None, contexts |-> [f \in Flows |-> 0], flight |-> {},
          attempts |-> <<>>, delayed |-> NoDelay, notified |-> FALSE, caps |-> 0]
  /\ sock = [s \in Sessions |-> NoSock]
  /\ agentBoot = 1 /\ decisions = {} /\ expired = {} /\ clock = 0

Samples == \E f \in bound.flows, b \in 1 .. agentBoot : Classify(f, b) \/ Ended(f, b)
Deciding  == \E d \in decisions : RevokeCheck(d) \/ Arrive(d)
SockStep(s) ==
  \/ Register(s) \/ SendBundle(s) \/ SockEnd(s) \/ SockHealth(s) \/ SockAck(s)
  \/ SockRefresh(s) \/ SockTake(s) \/ SockSent(s) \/ SockSendFails(s) \/ SockFlowAck(s)
  \/ \E ready \in SUBSET Delayed, due \in SUBSET g.flight : SockRetry(s, ready, due)

Next ==
  /\ \/ Publish \/ Samples \/ Deciding
     \/ \E s \in Sessions : SockStep(s)
     \/ AgentRestart \/ \E f \in Flows : Expire(f)
  /\ UNCHANGED bound

Spec == Init /\ [][Next]_<<vars, bound>>

\* tokio::select! picks among the ready branches at random, so a branch that is
\* ready again and again is taken; the Agent sends health until it stops; the
\* retry tick comes every 5 s, when all that was sent before the last one is due.
Current(A(_)) == \E s \in Sessions : Active(s) /\ sock[s].agent = agentBoot /\ A(s)
RetryAll(s) == SockRetry(s, Delayed, g.flight)
Fairness ==
  /\ SF_vars(Current(SendBundle)) /\ SF_vars(Current(SockHealth)) /\ SF_vars(Current(SockTake))
  /\ SF_vars(Current(RetryAll))
  /\ WF_vars(Current(SockRefresh) \/ Current(SockSent) \/ Deciding)
FairSpec == Spec /\ Fairness

-----------------------------------------------------------------------------
(* Properties.                                                             *)

Sending == IF g.session = 0 THEN {} ELSE sock[g.session].sending

\* The state has its type; in particular no command is counted as sent more
\* than FLOW_COMMAND_MAX_ATTEMPTS times, however its retries are mixed with
\* partial acknowledgements and failed writes; the window, counting the command
\* being written, and the queue keep within their capacities; and the queue holds
\* distinct pending flows.
TypeOK ==
  /\ g.bundle \in Revs /\ g.session \in 0 .. bound.sessions
  /\ {g.sessionBoot, g.flowBoot, g.caps} \subseteq Boots
  /\ {g.pending, g.states} \subseteq [Flows -> Cmd]
  /\ g.queue \in Seq(Flows) /\ g.contexts \in [Flows -> 0 .. clock]
  /\ g.flight \subseteq [cmd : Cmd, attempts : 1 .. MaxAttempts]
  /\ g.attempts \in [DOMAIN g.attempts -> 1 .. MaxAttempts] /\ DOMAIN g.attempts \subseteq Id
  /\ g.delayed \in [Flows -> Id] /\ g.notified \in BOOLEAN
  /\ sock \in [Sessions -> Sock] /\ agentBoot \in Boots /\ decisions \subseteq Decision
  /\ expired \subseteq Id /\ clock \in 0 .. bound.decisions
  /\ Cardinality(g.flight) + Cardinality(Sending) <= WindowCap
  /\ Len(g.queue) <= QueueCap /\ IsInjective(g.queue)
  /\ \A i \in DOMAIN g.queue : Present(g.pending[g.queue[i]])

\* Only the last command of a flow is ever waiting to be sent: a superseded
\* verdict does not come back through a retry, a failed write or a reconnection.
\* And that command is never in two places at once: waiting, being written by the
\* session's task, unacknowledged, or set aside for a later retry.  A retry that
\* did not take it out of the window, or a reconnection that requeued what is
\* still being sent, would send it twice.
LastIsSentOnce ==
  \A f \in Flows :
    /\ Present(g.pending[f]) => g.pending[f] = g.states[f]
    /\ LET places == <<{g.pending[f].id}, {c.id : c \in Sending}, Flying(g), {g.delayed[f]}>> IN
       Present(g.states[f]) =>
         \A p, q \in DOMAIN places : p # q => g.states[f].id \notin places[p] \cap places[q]

\* Once the session's task has latched the Agent's boot, everything the hub holds
\* for the gateway is of that boot, whatever telemetry of other boots arrives.
LatchedBoot ==
  (g.session # 0 /\ sock[g.session].boot # 0) =>
    LET b == sock[g.session].boot IN
    /\ g.sessionBoot = b /\ g.flowBoot = b
    /\ \A f \in Flows : g.states[f].boot \in {0, b} /\ g.pending[f].boot \in {0, b}
    /\ \A e \in g.flight : e.cmd.boot = b

\* A verdict the hub regards as in force was made under the current revision:
\* refresh_gateway revokes the others, and a decision made under an older
\* revision that arrives late does not get in.
VerdictIsCurrent ==
  \A f \in Flows : Upsert(g.states[f]) => g.states[f].rev = g.bundle

\* A waiting command does not wait for ever on a session whose Agent is there: a
\* full window is emptied by retries that give up, and a permit of flow_notify
\* that the task of a replaced session consumed is made good by the next tick.
Waiting(f) ==
  /\ Present(g.pending[f])
  /\ g.session # 0 /\ sock[g.session].agent = agentBoot
NothingWaitsForever == \A f \in Flows : Waiting(f) ~> ~Waiting(f)

\* A command that takes a flow's place was made from evidence no older than the
\* flow's context.  The generation check of queue_flow_command_inner ensures it
\* for verdicts; revokes carry no generation, and rely on one telemetry thread
\* at a time.
NewerPacketStands ==
  [][\A d \in decisions :
       LET f == d.cmd.flow IN
       g'.states[f] # g.states[f] /\ g'.states[f] = d.cmd => d.gen >= g.contexts[f]]_vars

=============================================================================
