------------------------ MODULE FlowDeliverySteps ------------------------
(***************************************************************************)
(* The inductive invariant of FlowDelivery, and that steps keep it: those  *)
(* of the hub itself (restarts, registrations, decisions of telemetry)     *)
(* and those of a socket task that write no command (health, refresh,      *)
(* retries). It is for any flows, capacities and attempts, and any number  *)
(* of revisions, boots, sessions and decisions. What the hub holds is a    *)
(* record, and most steps change it by a few assignments and               *)
(* fill_flow_queue; the predicates are about such a record, so that they   *)
(* can be shown of the record before fill_flow_queue and carried over it.  *)
(***************************************************************************)
EXTENDS FlowDelivery, TLAPS

-----------------------------------------------------------------------------
(* The facts about numbers and finite sets the lemmas rest on.  They are   *)
(* theorems of the library; a lemma that needs them has them as its        *)
(* hypothesis, and CountingHolds discharges it for the theorems.           *)

Counting ==
  /\ \A S : S \in SUBSET Nat /\ S # {} => \E x \in S : \A y \in S : x <= y
  /\ IsFiniteSet({}) /\ Cardinality({}) = 0
  /\ \A x : IsFiniteSet({x}) /\ Cardinality({x}) = 1
  /\ \A S : IsFiniteSet(S) => Cardinality(S) \in Nat
  /\ \A S, T : IsFiniteSet(S) /\ T \in SUBSET S => IsFiniteSet(T) /\ Cardinality(T) <= Cardinality(S)
  /\ \A S, x : IsFiniteSet(S) =>
       /\ IsFiniteSet(S \cup {x})
       /\ Cardinality(S \cup {x}) = IF x \in S THEN Cardinality(S) ELSE Cardinality(S) + 1

-----------------------------------------------------------------------------
(* VecDeque::retain.                                                       *)

\* Induction over the naturals, for a set instead of a predicate.
LEMMA NatSetInduction ==
  ASSUME Counting, NEW T, 0 \in T, \A n \in Nat : n \in T => n + 1 \in T
  PROVE  Nat \subseteq T
<1> DEFINE Bad == Nat \ T
<1>1. SUFFICES ASSUME Bad # {} PROVE FALSE
  OBVIOUS
<1>2. PICK x \in Bad : \A y \in Bad : x <= y
  BY <1>1, Zenon DEF Counting
<1> QED
  BY <1>2

\* The recursion of Retain has a solution, which Retain therefore computes.
Keeps(f, q, S, n) ==
  /\ f \in [0 .. n -> Seq(Flows)] /\ f[0] = <<>>
  /\ \A i \in 1 .. n : f[i] = IF q[i] \in S THEN Append(f[i - 1], q[i]) ELSE f[i - 1]

LEMMA KeepsExists == ASSUME Counting, NEW q \in Seq(Flows), NEW S PROVE \E f : Keeps(f, q, S, Len(q))
<1> DEFINE T == {n \in Nat : n <= Len(q) => \E f : Keeps(f, q, S, n)}
<1>1. 0 \in T
  <2>1. Keeps([i \in 0 .. 0 |-> <<>>], q, S, 0)
    BY DEF Keeps
  <2> QED
    BY <2>1, Zenon
<1>2. ASSUME NEW n \in Nat, n \in T PROVE n + 1 \in T
  <2>1. SUFFICES ASSUME n + 1 <= Len(q) PROVE \E f : Keeps(f, q, S, n + 1)
    OBVIOUS
  <2>2. n <= Len(q) /\ n + 1 \in 1 .. Len(q) /\ q[n + 1] \in Flows
    BY <2>1
  <2>3. PICK f : Keeps(f, q, S, n)
    BY <1>2, <2>2, Zenon
  <2> DEFINE new == IF q[n + 1] \in S THEN Append(f[n], q[n + 1]) ELSE f[n]
             h == [i \in 0 .. n + 1 |-> IF i <= n THEN f[i] ELSE new]
  <2>4. f[n] \in Seq(Flows) /\ new \in Seq(Flows)
    <3>1. f[n] \in Seq(Flows)
      BY <2>3 DEF Keeps
    <3> QED
      BY <2>2, <3>1
  <2> HIDE DEF new
  <2>5. h \in [0 .. n + 1 -> Seq(Flows)] /\ h[0] = <<>>
    BY <2>3, <2>4 DEF Keeps
  <2>6. h[n + 1] = new /\ h[n] = f[n] /\ \A i \in 1 .. n : h[i] = f[i] /\ h[i - 1] = f[i - 1]
    OBVIOUS
  <2> HIDE DEF h
  <2>7. ASSUME NEW i \in 1 .. n + 1
        PROVE  h[i] = IF q[i] \in S THEN Append(h[i - 1], q[i]) ELSE h[i - 1]
    <3>1. CASE i = n + 1
      <4>1. i - 1 = n
        BY <3>1
      <4> QED
        BY <2>6, <3>1, <4>1, Zenon DEF new
    <3>2. CASE i # n + 1
      <4>1. i \in 1 .. n
        BY <3>2
      <4> QED
        BY <2>3, <2>6, <4>1, Zenon DEF Keeps
    <3> QED
      BY <3>1, <3>2, Zenon
  <2> QED
    BY <2>5, <2>7, Zenon DEF Keeps
<1>3. Nat \subseteq T
  <2> HIDE DEF T
  <2> QED
    BY <1>1, <1>2, NatSetInduction, Zenon
<1>4. Len(q) \in Nat /\ Len(q) <= Len(q)
  OBVIOUS
<1> QED
  BY <1>3, <1>4, Zenon

\* The body of the recursion.
KeptAt(f, q, S, i) ==
  IF i = 0 THEN <<>> ELSE IF q[i] \in S THEN Append(f[i - 1], q[i]) ELSE f[i - 1]

LEMMA RetainFcn ==
  ASSUME Counting, NEW q \in Seq(Flows), NEW S PROVE \E f : Keeps(f, q, S, Len(q)) /\ Retain(q, S) = f[Len(q)]
<1> DEFINE Eq(f) == f = [i \in 0 .. Len(q) |-> KeptAt(f, q, S, i)]
           k == CHOOSE f : Eq(f)
<1>1. PICK f : Keeps(f, q, S, Len(q))
  BY KeepsExists, Zenon
<1>2. Eq(f)
  <2>1. ASSUME NEW i \in 0 .. Len(q) PROVE f[i] = KeptAt(f, q, S, i)
    <3>1. CASE i = 0
      BY <1>1, <3>1, Zenon DEF Keeps, KeptAt
    <3>2. CASE i # 0
      <4>1. i \in 1 .. Len(q)
        BY <3>2
      <4> QED
        BY <1>1, <3>2, <4>1, Zenon DEF Keeps, KeptAt
    <3> QED
      BY <3>1, <3>2, Zenon
  <2>2. f = [i \in 0 .. Len(q) |-> f[i]]
    BY <1>1, Zenon DEF Keeps
  <2> QED
    BY <2>1, <2>2, Zenon
<1>3. Eq(k)
  <2> HIDE DEF Eq
  <2> QED
    BY <1>2, Zenon
<1>4. Retain(q, S) = k[Len(q)]
  BY Zenon DEF Retain, KeptAt
<1> HIDE DEF k
<1>5. /\ DOMAIN k = 0 .. Len(q) /\ k[0] = <<>>
      /\ \A i \in 1 .. Len(q) : k[i] = IF q[i] \in S THEN Append(k[i - 1], q[i]) ELSE k[i - 1]
      /\ k = [i \in 0 .. Len(q) |-> k[i]]
  <2>1. DOMAIN k = 0 .. Len(q) /\ \A i \in 0 .. Len(q) : k[i] = KeptAt(k, q, S, i)
    BY <1>3, Zenon
  <2>2. 0 \in 0 .. Len(q) /\ \A i \in 1 .. Len(q) : i \in 0 .. Len(q) /\ i # 0
    OBVIOUS
  <2>3. k = [i \in 0 .. Len(q) |-> k[i]]
    BY <1>3, <2>1, Zenon
  <2> QED
    BY <2>1, <2>2, <2>3, Zenon DEF KeptAt
<1>6. \A i \in 0 .. Len(q) : k[i] \in Seq(Flows)
  <2> DEFINE T == {n \in Nat : n <= Len(q) => k[n] \in Seq(Flows)}
  <2>1. 0 \in T
    BY <1>5
  <2>2. ASSUME NEW n \in Nat, n \in T PROVE n + 1 \in T
    <3>1. SUFFICES ASSUME n + 1 <= Len(q) PROVE k[n + 1] \in Seq(Flows)
      OBVIOUS
    <3>2. n + 1 \in 1 .. Len(q) /\ q[n + 1] \in Flows /\ k[n] \in Seq(Flows) /\ (n + 1) - 1 = n
      BY <2>2, <3>1
    <3>3. k[n + 1] = IF q[n + 1] \in S THEN Append(k[n], q[n + 1]) ELSE k[n]
      BY <1>5, <3>2, Zenon
    <3> QED
      BY <3>2, <3>3
  <2>3. Nat \subseteq T
    <3> HIDE DEF T
    <3> QED
      BY <2>1, <2>2, NatSetInduction, Zenon
  <2> QED
    BY <2>3
<1>7. Keeps(k, q, S, Len(q))
  <2>1. k \in [0 .. Len(q) -> Seq(Flows)]
    BY <1>5, <1>6, Zenon
  <2> QED
    BY <1>5, <2>1, Zenon DEF Keeps
<1> QED
  BY <1>4, <1>7, Zenon

\* It keeps entries of q that are in S, at most as many as there were, and each
\* once if q had each once.
LEMMA RetainSound ==
  ASSUME Counting, NEW q \in Seq(Flows), NEW S
  PROVE  /\ Retain(q, S) \in Seq(Flows) /\ Len(Retain(q, S)) <= Len(q)
         /\ \A j \in 1 .. Len(Retain(q, S)) : Retain(q, S)[j] \in S
         /\ IsInjective(q) => IsInjective(Retain(q, S))
<1>1. PICK f : Keeps(f, q, S, Len(q)) /\ Retain(q, S) = f[Len(q)]
  BY RetainFcn, Zenon
<1>2. /\ f[0] = <<>> /\ \A i \in 0 .. Len(q) : f[i] \in Seq(Flows)
      /\ \A i \in 1 .. Len(q) : f[i] = IF q[i] \in S THEN Append(f[i - 1], q[i]) ELSE f[i - 1]
  BY <1>1, Zenon DEF Keeps
<1> DEFINE Once(x) == \A j, m \in 1 .. Len(x) : x[j] = x[m] => j = m
           Good(n) == /\ Len(f[n]) <= n
                      /\ \A j \in 1 .. Len(f[n]) : \E i \in 1 .. n : f[n][j] = q[i] /\ q[i] \in S
                      /\ Once(q) => Once(f[n])
           T == {n \in Nat : n <= Len(q) => Good(n)}
<1>3. 0 \in T
  BY <1>2
<1>4. ASSUME NEW n \in Nat, n \in T PROVE n + 1 \in T
  <2>1. SUFFICES ASSUME n + 1 <= Len(q) PROVE Good(n + 1)
    <3> HIDE DEF Good
    <3> QED
      OBVIOUS
  <2>2. /\ n + 1 \in 1 .. Len(q) /\ n \in 0 .. Len(q) /\ n <= Len(q) /\ q[n + 1] \in Flows /\ (n + 1) - 1 = n
    BY <2>1
  <2>3. Good(n) /\ f[n] \in Seq(Flows)
    BY <1>2, <1>4, <2>2, Zenon
  <2>4. f[n + 1] = IF q[n + 1] \in S THEN Append(f[n], q[n + 1]) ELSE f[n]
    BY <1>2, <2>2, Zenon
  <2>5. CASE q[n + 1] \notin S
    <3>1. f[n + 1] = f[n]
      BY <2>4, <2>5, Zenon
    <3>2. \A i \in 1 .. n : i \in 1 .. n + 1
      OBVIOUS
    <3>3. Len(f[n]) <= n + 1
      BY <2>3
    <3> QED
      BY <2>3, <3>1, <3>2, <3>3, Zenon
  <2>6. CASE q[n + 1] \in S
    <3> DEFINE x == f[n]
               y == f[n + 1]
    <3>1. /\ y = Append(x, q[n + 1]) /\ x \in Seq(Flows)
      BY <2>3, <2>4, <2>6, Zenon
    <3>2. /\ Len(x) \in Nat /\ Len(x) <= n
          /\ \A j \in 1 .. Len(x) : \E i \in 1 .. n : x[j] = q[i] /\ q[i] \in S
          /\ Once(q) => Once(x)
      BY <2>3
    <3> HIDE DEF x, y
    <3>3. Len(y) = Len(x) + 1 /\ y[Len(x) + 1] = q[n + 1] /\ \A j \in 1 .. Len(x) : y[j] = x[j]
      BY <2>2, <3>1
    <3>4. Len(y) <= n + 1
      BY <3>2, <3>3
    <3>5. ASSUME NEW j \in 1 .. Len(y) PROVE \E i \in 1 .. n + 1 : y[j] = q[i] /\ q[i] \in S
      <4>1. CASE j = Len(x) + 1
        BY <2>6, <3>3, <4>1
      <4>2. CASE j # Len(x) + 1
        <5>1. j \in 1 .. Len(x)
          BY <3>2, <3>3, <4>2
        <5>2. PICK i \in 1 .. n : x[j] = q[i] /\ q[i] \in S
          BY <3>2, <5>1, Zenon
        <5>3. i \in 1 .. n + 1
          OBVIOUS
        <5> QED
          BY <3>3, <5>1, <5>2, <5>3, Zenon
      <4> QED
        BY <4>1, <4>2, Zenon
    <3>6. ASSUME Once(q) PROVE Once(y)
      <4>1. ASSUME NEW j \in 1 .. Len(x) PROVE x[j] # q[n + 1]
        <5>1. PICK i \in 1 .. n : x[j] = q[i]
          BY <3>2, Zenon
        <5>2. i \in 1 .. Len(q) /\ i # n + 1
          BY <2>2
        <5> QED
          BY <2>2, <3>6, <5>1, <5>2, Zenon
      <4>2. ASSUME NEW j \in 1 .. Len(y), NEW m \in 1 .. Len(y), y[j] = y[m] PROVE j = m
        <5>1. CASE j \in 1 .. Len(x) /\ m \in 1 .. Len(x)
          BY <3>2, <3>3, <3>6, <4>2, <5>1
        <5>2. CASE j \notin 1 .. Len(x) \/ m \notin 1 .. Len(x)
          <6>1. \A z \in 1 .. Len(y) : z \in 1 .. Len(x) \/ z = Len(x) + 1
            BY <3>2, <3>3
          <6> QED
            BY <3>3, <4>1, <4>2, <5>2, <6>1, Zenon
        <5> QED
          BY <5>1, <5>2, Zenon
      <4> QED
        BY <4>2, Zenon
    <3> QED
      BY <3>4, <3>5, <3>6, Zenon DEF x, y
  <2> QED
    BY <2>5, <2>6, Zenon
<1>5. Nat \subseteq T
  <2> HIDE DEF T
  <2> QED
    BY <1>3, <1>4, NatSetInduction, Zenon
<1>6. Good(Len(q)) /\ f[Len(q)] \in Seq(Flows)
  BY <1>2, <1>5
<1>7. IsInjective(q) => Once(q)
  BY DEF IsInjective
<1>8. Once(Retain(q, S)) => IsInjective(Retain(q, S))
  <2>1. DOMAIN Retain(q, S) = 1 .. Len(Retain(q, S))
    BY <1>1, <1>6
  <2> QED
    BY <2>1, Zenon DEF IsInjective
<1> QED
  BY <1>1, <1>6, <1>7, <1>8, Zenon

-----------------------------------------------------------------------------
(* The inductive invariant.  s is the state of the hub, snd what the task   *)
(* of the session is writing, boot the boot it has latched, ds the decisions*)
(* on their way, n the last generation, bd the scenario.                    *)

Fields == {"bundle", "session", "sessionBoot", "flowBoot", "pending", "queue", "states", "contexts",
           "flight", "attempts", "delayed", "notified", "caps"}
Cmds(bd) == [id : Id, flow : Flows, boot : 0 .. bd.boots, rev : 0 .. bd.revs, op : Op]

\* The record, field by field.
Gateway(s, bd) ==
  /\ DOMAIN s = Fields
  /\ s.bundle \in 0 .. bd.revs /\ s.session \in 0 .. bd.sessions
  /\ s.sessionBoot \in 0 .. bd.boots /\ s.flowBoot \in 0 .. bd.boots /\ s.caps \in 0 .. bd.boots
  /\ s.pending \in [Flows -> Cmds(bd)] /\ s.states \in [Flows -> Cmds(bd)]
  /\ s.queue \in Seq(Flows) /\ s.contexts \in [Flows -> Nat]
  /\ s.flight \in SUBSET [cmd : Cmds(bd), attempts : 1 .. MaxAttempts]
  /\ DOMAIN s.attempts \in SUBSET Id /\ s.attempts \in [DOMAIN s.attempts -> 1 .. MaxAttempts]
  /\ s.delayed \in [Flows -> Id] /\ s.notified \in BOOLEAN

\* The queue is short and names a flow once.
Short(s) == Len(s.queue) <= QueueCap /\ IsInjective(s.queue)
Line(s)  == \A i \in DOMAIN s.queue : Present(s.pending[s.queue[i]])

\* The command of a flow names the flow, and so does its id.
Own(c, f) == /\ c.flow = f /\ c.id.flow = f
             /\ Present(c) => c.id.kind # "none" /\ c.rev # 0
             /\ ~Present(c) => c = NoCmd(f)
Sent(c) == c.id.flow = c.flow /\ c.id.kind # "none" /\ Present(c) /\ c.rev # 0
Owned(s, snd) ==
  /\ \A f \in Flows : Own(s.states[f], f) /\ Own(s.pending[f], f) /\ s.delayed[f].flow = f
  /\ \A e \in s.flight : Sent(e.cmd)
  /\ \A c \in snd : Sent(c)

\* Only the last command of a flow waits, or comes back after a failed write.
Last(s, snd) ==
  /\ \A f \in Flows : Present(s.pending[f]) => s.pending[f] = s.states[f]
  /\ \A c \in snd : c.flow \in Flows /\ s.states[c.flow].id = c.id => s.states[c.flow] = c

\* No command is in two places.
Apart(s, snd) ==
  /\ \A f \in Flows : Present(s.pending[f]) =>
       /\ s.pending[f].id # s.delayed[f]
       /\ \A e \in s.flight : e.cmd.id # s.pending[f].id
       /\ \A c \in snd : c.id # s.pending[f].id
  /\ \A f \in Flows : /\ \A e \in s.flight : e.cmd.id # s.delayed[f]
                      /\ \A c \in snd : c.id # s.delayed[f]
  /\ \A e \in s.flight : /\ \A x \in s.flight : x.cmd.id = e.cmd.id => x = e
                         /\ \A c \in snd : c.id # e.cmd.id

\* The attempts are counted, and a command that will be sent has one left.
Spare(s, i) == i \in DOMAIN s.attempts => s.attempts[i] < MaxAttempts
Counted(s, snd) ==
  /\ \A e \in s.flight : e.cmd.id \in DOMAIN s.attempts /\ s.attempts[e.cmd.id] = e.attempts
  /\ \A f \in Flows : /\ Present(s.pending[f]) => Spare(s, s.pending[f].id)
                      /\ s.delayed[f].kind # "none" => Spare(s, s.delayed[f])
  /\ \A c \in snd : Spare(s, c.id)

\* The window.
Window(s, snd) ==
  IsFiniteSet(s.flight) /\ IsFiniteSet(snd) /\ Cardinality(s.flight) + Cardinality(snd) <= WindowCap

\* Everything is of one boot.
Homed(s, snd, boot) ==
  /\ boot # 0 => s.sessionBoot = boot /\ s.flowBoot = boot
  /\ \A f \in Flows : s.states[f].boot \in {0, s.flowBoot} /\ s.pending[f].boot \in {0, s.flowBoot}
  /\ \A e \in s.flight : e.cmd.boot = s.flowBoot /\ s.flowBoot # 0
  /\ \A c \in snd : c.boot = boot /\ boot # 0

\* An id that is in use is not that of a revision to come, of a decision to come
\* or of one on its way.
Old(i, rev, n, ds) ==
  /\ i.kind = "revision" => i.n <= rev
  /\ i.kind = "decision" => i.n <= n /\ \A d \in ds : d.cmd.id # i
Dated(s, snd, rev, n, ds) ==
  /\ \A f \in Flows : Old(s.states[f].id, rev, n, ds) /\ Old(s.delayed[f], rev, n, ds)
  /\ \A e \in s.flight : Old(e.cmd.id, rev, n, ds)
  /\ \A i \in DOMAIN s.attempts : Old(i, rev, n, ds)
  /\ \A c \in snd : Old(c.id, rev, n, ds)

\* A verdict in force is of the current revision.
Timely(s) == \A f \in Flows : Upsert(s.states[f]) => s.states[f].rev = s.bundle

\* The decisions on their way, and what they were made from.
Decided(s, n, ds) ==
  /\ \A f \in Flows : s.contexts[f] <= n
  /\ \A d \in ds : /\ d.cmd.id.kind = "decision" /\ d.cmd.id.n <= n /\ d.cmd.id.flow = d.cmd.flow
                   /\ d.cmd.op \in {"block", "shape", "revoke"} /\ d.cmd.rev # 0
                   /\ d.cmd.op = "revoke" => d.by = Telemetry
                   /\ d.by = Telemetry => \A f \in Flows : s.contexts[f] <= d.gen
                   /\ \A e \in ds : e.cmd.id = d.cmd.id => e = d

\* The tasks: what each is writing.
Writes(k, bd) ==
  /\ k.pc # "send" => k.sending = {}
  /\ k.pc = "send" => \E c \in k.sending : c \in Cmds(bd) /\ k.sending = {c} /\ Sent(c)
Tasks(socks, s, bd) ==
  /\ \A t \in 1 .. bd.sessions : Writes(socks[t], bd) /\ (socks[t].pc # "none" => s.bundle # 0)

\* What holds before fill_flow_queue, and after it.
Kept(s, snd, rev, n, ds) ==
  /\ Owned(s, snd) /\ Last(s, snd) /\ Apart(s, snd) /\ Counted(s, snd) /\ Window(s, snd)
  /\ Dated(s, snd, rev, n, ds) /\ Timely(s) /\ Decided(s, n, ds)

LatchedBy == IF g.session = 0 THEN 0 ELSE sock[g.session].boot

IInv ==
  /\ bound \in Scenarios /\ sock \in [Sessions -> Sock] /\ agentBoot \in Boots
  /\ decisions \in SUBSET Decision /\ expired \in SUBSET Id /\ clock \in 0 .. bound.decisions
  /\ Gateway(g, bound) /\ Short(g) /\ Line(g)
  /\ Kept(g, Sending, g.bundle, clock, decisions) /\ Homed(g, Sending, LatchedBy)
  /\ Tasks(sock, g, bound)

-----------------------------------------------------------------------------
(* fill_flow_queue.                                                        *)

\* h is s with some commands, states, contexts and counters dropped ...
Shrinks(s, h) ==
  /\ h.bundle = s.bundle
  /\ \A f \in Flows : h.pending[f] \in {s.pending[f], NoCmd(f)}
  /\ \A f \in Flows : h.states[f] \in {s.states[f], NoCmd(f)}
  /\ \A f \in Flows :
       Present(h.pending[f]) /\ s.pending[f] = s.states[f] => h.states[f] = s.states[f]
  /\ \A f \in Flows : h.contexts[f] \in {s.contexts[f], 0} /\ h.delayed[f] \in {s.delayed[f], NoId(f)}
  /\ h.flight \in SUBSET s.flight
  /\ \A i \in DOMAIN h.attempts : i \in DOMAIN s.attempts /\ h.attempts[i] = s.attempts[i]
  /\ \A e \in h.flight : e.cmd.id \in DOMAIN s.attempts => e.cmd.id \in DOMAIN h.attempts

\* ... and otherwise as it was.
Stays(s, h) ==
  /\ h.session = s.session /\ h.sessionBoot = s.sessionBoot /\ h.flowBoot = s.flowBoot
  /\ h.caps = s.caps /\ h.contexts = s.contexts /\ h.flight = s.flight /\ h.delayed = s.delayed
  /\ h.notified = s.notified

LEMMA NoCmdTyped ==
  ASSUME NEW bd \in Scenarios, NEW f \in Flows
  PROVE  /\ NoCmd(f) \in Cmds(bd) /\ ~Present(NoCmd(f)) /\ NoId(f) \in Id /\ Own(NoCmd(f), f)
         /\ NoCmd(f).id = NoId(f) /\ NoId(f).flow = f /\ NoId(f).kind = "none" /\ NoCmd(f).boot = 0
         /\ NoCmd(f).op = "none" /\ NoCmd(f).flow = f /\ NoCmd(f).rev = 0
<1>1. bd.boots \in Nat /\ bd.revs \in Nat
  BY FlowAssumption, Zenon
<1>2. 0 \in 0 .. bd.boots /\ 0 \in 0 .. bd.revs
  BY <1>1
<1> QED
  BY <1>2, Zenon DEF NoCmd, Cmds, Id, Op, Present, Own, NoId

\* Forget keeps the counters of the ids that are not named.
LEMMA ForgetSound ==
  ASSUME NEW a, NEW ids, DOMAIN a \in SUBSET Id, a \in [DOMAIN a -> 1 .. MaxAttempts]
  PROVE  /\ DOMAIN Forget(a, ids) = DOMAIN a \ ids /\ DOMAIN Forget(a, ids) \in SUBSET Id
         /\ \A i \in DOMAIN a \ ids : Forget(a, ids)[i] = a[i]
         /\ Forget(a, ids) \in [DOMAIN Forget(a, ids) -> 1 .. MaxAttempts]
<1>1. Forget(a, ids) = [i \in DOMAIN a \ ids |-> a[i]]
  BY Zenon DEF Forget, Restrict
<1> QED
  BY <1>1, Zenon

\* The queue that fill_flow_queue makes.
LEMMA FilledQueue ==
  ASSUME Counting, NEW q \in Seq(Flows), Len(q) <= QueueCap, IsInjective(q), NEW S \in SUBSET Flows,
         NEW count \in Nat, Len(Retain(q, S)) + count <= QueueCap,
         NEW more \in Injection(1 .. count, S \ Range(Retain(q, S)))
  PROVE  LET x == Retain(q, S) \o more IN
         /\ x \in Seq(Flows) /\ Len(x) <= QueueCap /\ IsInjective(x)
         /\ DOMAIN x = 1 .. Len(x) /\ \A i \in DOMAIN x : x[i] \in S
<1> DEFINE k == Retain(q, S)
           x == k \o more
<1>1. /\ k \in Seq(Flows) /\ IsInjective(k) /\ \A j \in 1 .. Len(k) : k[j] \in S
  BY RetainSound, Zenon
<1>2. /\ more \in [1 .. count -> S \ Range(k)] /\ IsInjective(more)
  BY Zenon DEF Injection
<1>3. Len(k) + count <= QueueCap
  OBVIOUS
<1> HIDE DEF k
<1>4. more \in Seq(Flows) /\ Len(more) = count
  BY <1>2
<1>5. /\ x \in Seq(Flows) /\ Len(x) = Len(k) + count /\ DOMAIN x = 1 .. Len(x)
      /\ \A i \in 1 .. Len(x) : x[i] = IF i <= Len(k) THEN k[i] ELSE more[i - Len(k)]
  BY <1>1, <1>4
<1>6. Len(x) <= QueueCap
  BY <1>3, <1>5, Zenon
<1> HIDE DEF x
<1>7. \A j \in 1 .. Len(k), m \in 1 .. count : k[j] # more[m]
  <2>1. \A j \in 1 .. Len(k) : k[j] \in Range(k)
    BY <1>1 DEF Range
  <2> QED
    BY <1>2, <2>1, Zenon
<1>8. /\ \A j, m \in 1 .. Len(k) : k[j] = k[m] => j = m
      /\ \A j, m \in 1 .. count : more[j] = more[m] => j = m
  <2>1. DOMAIN k = 1 .. Len(k) /\ DOMAIN more = 1 .. count
    BY <1>1, <1>2
  <2> QED
    BY <1>1, <1>2, <2>1, Zenon DEF IsInjective
<1>9. ASSUME NEW i \in 1 .. Len(x) PROVE x[i] \in S
  <2>1. CASE i <= Len(k)
    BY <1>1, <1>5, <2>1
  <2>2. CASE ~(i <= Len(k))
    <3>1. i - Len(k) \in 1 .. count
      BY <1>1, <1>5, <2>2
    <3> QED
      BY <1>2, <1>5, <2>2, <3>1, Zenon
  <2> QED
    BY <2>1, <2>2, Zenon
<1>10. ASSUME NEW i \in 1 .. Len(x), NEW j \in 1 .. Len(x), x[i] = x[j] PROVE i = j
  <2>1. Len(k) \in Nat
    BY <1>1
  <2>2. CASE i <= Len(k) /\ j <= Len(k)
    BY <1>5, <1>8, <1>10, <2>1, <2>2
  <2>3. CASE i <= Len(k) /\ ~(j <= Len(k))
    <3>1. j - Len(k) \in 1 .. count /\ i \in 1 .. Len(k)
      BY <1>5, <2>1, <2>3
    <3> QED
      BY <1>5, <1>7, <1>10, <2>3, <3>1, Zenon
  <2>4. CASE ~(i <= Len(k)) /\ j <= Len(k)
    <3>1. i - Len(k) \in 1 .. count /\ j \in 1 .. Len(k)
      BY <1>5, <2>1, <2>4
    <3> QED
      BY <1>5, <1>7, <1>10, <2>4, <3>1, Zenon
  <2>5. CASE ~(i <= Len(k)) /\ ~(j <= Len(k))
    <3>1. i - Len(k) \in 1 .. count /\ j - Len(k) \in 1 .. count
      BY <1>5, <2>1, <2>5
    <3>2. more[i - Len(k)] = more[j - Len(k)]
      BY <1>5, <1>10, <2>5, Zenon
    <3>3. i - Len(k) = j - Len(k)
      BY <1>8, <3>1, <3>2, Zenon
    <3> QED
      BY <2>1, <3>3
  <2> QED
    BY <2>2, <2>3, <2>4, <2>5, Zenon
<1>11. IsInjective(x)
  BY <1>5, <1>10, Zenon DEF IsInjective
<1> QED
  BY <1>5, <1>6, <1>9, <1>11, Zenon DEF x, k

LEMMA FillsShrinks ==
  ASSUME Counting, NEW bd \in Scenarios, NEW s, Gateway(s, bd), Short(s), NEW h \in Fills(s)
  PROVE  Shrinks(s, h) /\ Stays(s, h) /\ Gateway(h, bd) /\ Short(h) /\ Line(h)
<1> DEFINE
      dropped  == {f \in Flows : /\ Present(s.pending[f])
                                 /\ \/ s.pending[f].id \in expired
                                    \/ s.pending[f].rev < s.bundle}
      pending  == [f \in Flows |-> IF f \in dropped THEN NoCmd(f) ELSE s.pending[f]]
      gone     == {s.pending[f].id : f \in dropped} \ (Flying(s) \cup Range(s.delayed))
      states   == [f \in Flows |-> IF s.states[f].id \in expired THEN NoCmd(f) ELSE s.states[f]]
      eligible == {f \in Flows : Present(pending[f]) /\ (s.bundle = 0 \/ pending[f].rev = s.bundle)}
      queue    == Retain(s.queue, eligible)
      waiting  == eligible \ Range(queue)
      room     == IF Len(queue) >= QueueCap THEN 0 ELSE QueueCap - Len(queue)
      count    == IF Cardinality(waiting) < room THEN Cardinality(waiting) ELSE room
      attempts == Forget(s.attempts, gone)
<1>1. PICK more \in Injection(1 .. count, waiting) :
        h = [s EXCEPT !.pending = pending, !.states = states, !.queue = queue \o more,
                      !.attempts = attempts]
  BY Zenon DEF Fills
<1>2. s.queue \in Seq(Flows) /\ Len(s.queue) <= QueueCap /\ IsInjective(s.queue)
  BY Zenon DEF Gateway, Short
<1>3. queue \in Seq(Flows) /\ Len(queue) <= QueueCap /\ eligible \in SUBSET Flows
  <2>1. eligible \in SUBSET Flows
    BY Zenon
  <2> HIDE DEF eligible
  <2>2. queue \in Seq(Flows) /\ Len(queue) <= Len(s.queue)
    BY <1>2, RetainSound, Zenon
  <2>3. Len(queue) <= QueueCap
    <3> HIDE DEF queue
    <3> QED
      BY <1>2, <2>2, FlowAssumption
  <2> QED
    BY <2>1, <2>2, <2>3, Zenon
<1>4. count \in Nat /\ Len(queue) + count <= QueueCap
  <2>1. waiting \in SUBSET Flows
    BY <1>3, Zenon
  <2>2. Cardinality(waiting) \in Nat
    <3> HIDE DEF waiting
    <3>1. IsFiniteSet(waiting)
      BY <2>1, FlowAssumption, Zenon DEF Counting
    <3> QED
      BY <3>1, Zenon DEF Counting
  <2> HIDE DEF queue, waiting
  <2> QED
    BY <1>3, <2>2, FlowAssumption
<1>5. LET x == queue \o more IN
      /\ x \in Seq(Flows) /\ Len(x) <= QueueCap /\ IsInjective(x)
      /\ DOMAIN x = 1 .. Len(x) /\ \A i \in DOMAIN x : x[i] \in eligible
  <2> HIDE DEF eligible, count
  <2> QED
    BY <1>1, <1>2, <1>3, <1>4, FilledQueue, Zenon
<1>6. \A f \in Flows : /\ pending[f] = s.pending[f] \/ pending[f] = NoCmd(f)
                       /\ states[f] = s.states[f] \/ states[f] = NoCmd(f)
                       /\ Present(pending[f]) /\ s.pending[f] = s.states[f] => states[f] = s.states[f]
  <2>1. \A f \in Flows : ~Present(NoCmd(f))
    BY NoCmdTyped, Zenon
  <2> QED
    BY <2>1, Zenon
<1>7. \A f \in eligible : Present(pending[f])
  BY Zenon
<1>8. pending \in [Flows -> Cmds(bd)] /\ states \in [Flows -> Cmds(bd)]
  <2>1. \A f \in Flows : /\ s.pending[f] \in Cmds(bd) /\ s.states[f] \in Cmds(bd)
                         /\ NoCmd(f) \in Cmds(bd)
    BY NoCmdTyped, Zenon DEF Gateway
  <2> QED
    BY <2>1, Zenon
<1>9. DOMAIN s.attempts \in SUBSET Id /\ s.attempts \in [DOMAIN s.attempts -> 1 .. MaxAttempts]
  BY Zenon DEF Gateway
<1>10. /\ DOMAIN attempts = DOMAIN s.attempts \ gone /\ DOMAIN attempts \in SUBSET Id
       /\ \A i \in DOMAIN s.attempts \ gone : attempts[i] = s.attempts[i]
       /\ attempts \in [DOMAIN attempts -> 1 .. MaxAttempts]
  <2> HIDE DEF gone
  <2> QED
    BY <1>9, ForgetSound, Zenon
<1>11. \A e \in s.flight : e.cmd.id \notin gone
  BY Zenon DEF Flying
<1> HIDE DEF pending, states, queue, attempts, gone, eligible, count, waiting
<1>12. /\ DOMAIN h = Fields /\ h.bundle = s.bundle /\ h.session = s.session
       /\ h.sessionBoot = s.sessionBoot /\ h.flowBoot = s.flowBoot /\ h.caps = s.caps
       /\ h.contexts = s.contexts /\ h.flight = s.flight /\ h.delayed = s.delayed
       /\ h.notified = s.notified /\ h.pending = pending /\ h.states = states
       /\ h.queue = queue \o more /\ h.attempts = attempts
  BY <1>1, Zenon DEF Gateway, Fields
<1>13. Shrinks(s, h) /\ Stays(s, h)
  BY <1>6, <1>10, <1>11, <1>12, Zenon DEF Shrinks, Stays
<1>14. Gateway(h, bd)
  BY <1>5, <1>8, <1>10, <1>12, Zenon DEF Gateway
<1>15. Short(h) /\ Line(h)
  BY <1>5, <1>7, <1>12, Zenon DEF Short, Line
<1> QED
  BY <1>13, <1>14, <1>15, Zenon

\* Dropping things keeps what the invariant says, and so does forgetting what
\* was being written.
LEMMA ShrinksKept ==
  ASSUME Counting, NEW bd \in Scenarios, NEW s, NEW h, Gateway(s, bd), Shrinks(s, h), NEW snd,
         NEW rest \in SUBSET snd, NEW rev, NEW n \in Nat, NEW ds, Kept(s, snd, rev, n, ds),
         \A d \in ds : d.gen \in Nat
  PROVE  Kept(h, rest, rev, n, ds)
<1>1. \A f \in Flows : ~Present(NoCmd(f)) /\ Own(NoCmd(f), f) /\ NoCmd(f).id = NoId(f)
                       /\ NoId(f).flow = f /\ NoId(f).kind = "none" /\ NoCmd(f).op = "none"
  BY NoCmdTyped, Zenon
<1>2. Owned(h, rest)
  BY <1>1, Zenon DEF Owned, Kept, Shrinks
<1>3. Last(h, rest)
  <2>1. ASSUME NEW f \in Flows, Present(h.pending[f]) PROVE h.pending[f] = h.states[f]
    <3>1. h.pending[f] = s.pending[f]
      BY <1>1, <2>1, Zenon DEF Shrinks
    <3>2. s.pending[f] = s.states[f]
      BY <2>1, <3>1, Zenon DEF Kept, Last
    <3> QED
      BY <2>1, <3>1, <3>2, Zenon DEF Shrinks
  <2>2. ASSUME NEW c \in rest, c.flow \in Flows, h.states[c.flow].id = c.id PROVE h.states[c.flow] = c
    <3>1. c \in snd /\ c.id.kind # "none"
      BY Zenon DEF Kept, Owned, Sent
    <3>2. h.states[c.flow] # NoCmd(c.flow)
      <4>1. NoCmd(c.flow).id.kind = "none"
        BY <1>1, <2>2, Zenon
      <4>2. h.states[c.flow].id.kind # "none"
        BY <2>2, <3>1, Zenon
      <4> QED
        BY <4>1, <4>2, Zenon
    <3>3. h.states[c.flow] = s.states[c.flow]
      BY <2>2, <3>2, Zenon DEF Shrinks
    <3> QED
      BY <2>2, <3>1, <3>3, Zenon DEF Kept, Last
  <2> QED
    BY <2>1, <2>2, Zenon DEF Last
<1>4. \A f \in Flows : Present(h.pending[f]) => h.pending[f] = s.pending[f]
  BY <1>1, Zenon DEF Shrinks
<1>5. \A f \in Flows : h.delayed[f].kind # "none" => h.delayed[f] = s.delayed[f]
  BY <1>1, Zenon DEF Shrinks
<1>6. \A e \in h.flight : e \in s.flight /\ Sent(e.cmd) /\ e.cmd.id.kind # "none"
  BY Zenon DEF Shrinks, Kept, Owned, Sent
<1>7. \A c \in rest : c \in snd /\ c.id.kind # "none"
  BY Zenon DEF Kept, Owned, Sent
<1>8. \A f \in Flows : Present(h.pending[f]) => h.pending[f].id.kind # "none"
  BY <1>2, Zenon DEF Owned, Own
<1>9. Apart(h, rest)
  <2>1. ASSUME NEW f \in Flows, Present(h.pending[f])
        PROVE  /\ h.pending[f].id # h.delayed[f]
               /\ \A e \in h.flight : e.cmd.id # h.pending[f].id
               /\ \A c \in rest : c.id # h.pending[f].id
    <3>1. h.pending[f] = s.pending[f] /\ Present(s.pending[f]) /\ h.pending[f].id.kind # "none"
      BY <1>4, <1>8, <2>1, Zenon
    <3>2. h.pending[f].id # h.delayed[f]
      BY <1>5, <3>1, Zenon DEF Kept, Apart
    <3> QED
      BY <1>6, <1>7, <3>1, <3>2, Zenon DEF Kept, Apart
  <2>2. ASSUME NEW f \in Flows
        PROVE  /\ \A e \in h.flight : e.cmd.id # h.delayed[f]
               /\ \A c \in rest : c.id # h.delayed[f]
    BY <1>5, <1>6, <1>7, ZenonT(40) DEF Kept, Apart
  <2>3. ASSUME NEW e \in h.flight
        PROVE  /\ \A x \in h.flight : x.cmd.id = e.cmd.id => x = e
               /\ \A c \in rest : c.id # e.cmd.id
    BY <1>6, <1>7, Zenon DEF Kept, Apart
  <2> QED
    BY <2>1, <2>2, <2>3, Zenon DEF Apart
<1>10. \A i : Spare(s, i) => Spare(h, i)
  BY Zenon DEF Spare, Shrinks
<1>11. Counted(h, rest)
  <2>1. ASSUME NEW e \in h.flight
        PROVE  e.cmd.id \in DOMAIN h.attempts /\ h.attempts[e.cmd.id] = e.attempts
    BY <1>6, Zenon DEF Kept, Counted, Shrinks
  <2>2. ASSUME NEW f \in Flows
        PROVE  /\ Present(h.pending[f]) => Spare(h, h.pending[f].id)
               /\ h.delayed[f].kind # "none" => Spare(h, h.delayed[f])
    BY <1>4, <1>5, <1>10, Zenon DEF Kept, Counted
  <2>3. \A c \in rest : Spare(h, c.id)
    BY <1>10, Zenon DEF Kept, Counted
  <2> QED
    BY <2>1, <2>2, <2>3, Zenon DEF Counted
<1>12. Window(h, rest)
  <2>1. IsFiniteSet(s.flight) /\ IsFiniteSet(snd) /\ Cardinality(s.flight) + Cardinality(snd) <= WindowCap
    BY Zenon DEF Kept, Window
  <2>2. /\ IsFiniteSet(h.flight) /\ IsFiniteSet(rest) /\ Cardinality(h.flight) <= Cardinality(s.flight)
        /\ Cardinality(rest) <= Cardinality(snd)
    BY <2>1, Zenon DEF Shrinks, Counting
  <2>3. /\ Cardinality(h.flight) \in Nat /\ Cardinality(rest) \in Nat
        /\ Cardinality(s.flight) \in Nat /\ Cardinality(snd) \in Nat
    BY <2>1, <2>2, Zenon DEF Counting
  <2>4. Cardinality(h.flight) + Cardinality(rest) <= WindowCap
    BY <2>1, <2>2, <2>3, FlowAssumption
  <2> QED
    BY <2>2, <2>4, Zenon DEF Window
<1>13. Dated(h, rest, rev, n, ds)
  <2>1. \A i : i.kind = "none" => Old(i, rev, n, ds)
    BY Zenon DEF Old
  <2>2. \A f \in Flows : Old(h.states[f].id, rev, n, ds) /\ Old(h.delayed[f], rev, n, ds)
    <3> SUFFICES ASSUME NEW f \in Flows
                 PROVE  Old(h.states[f].id, rev, n, ds) /\ Old(h.delayed[f], rev, n, ds)
      OBVIOUS
    <3>1. /\ Old(s.states[f].id, rev, n, ds) /\ Old(s.delayed[f], rev, n, ds)
          /\ h.states[f] = s.states[f] \/ h.states[f] = NoCmd(f)
          /\ h.delayed[f] = s.delayed[f] \/ h.delayed[f] = NoId(f)
      BY Zenon DEF Shrinks, Kept, Dated
    <3>2. Old(NoId(f), rev, n, ds) /\ NoCmd(f).id = NoId(f)
      BY <1>1, <2>1, Zenon
    <3> QED
      BY <3>1, <3>2, Zenon
  <2>3. /\ \A e \in h.flight : Old(e.cmd.id, rev, n, ds)
        /\ \A i \in DOMAIN h.attempts : Old(i, rev, n, ds)
        /\ \A c \in rest : Old(c.id, rev, n, ds)
    BY <1>6, <1>7, Zenon DEF Shrinks, Kept, Dated
  <2> QED
    BY <2>2, <2>3, Zenon DEF Dated
<1>14. Timely(h)
  <2>1. \A f \in Flows : ~Upsert(NoCmd(f))
    BY <1>1, Zenon DEF Upsert
  <2> QED
    BY <2>1, Zenon DEF Timely, Kept, Shrinks
<1>15. Decided(h, n, ds)
  <2>1. \A f \in Flows : s.contexts[f] \in Nat
    BY Zenon DEF Gateway
  <2>2. \A f \in Flows : \A x \in Nat : s.contexts[f] <= x => h.contexts[f] <= x
    BY <2>1 DEF Shrinks
  <2> QED
    BY <2>2, Zenon DEF Kept, Decided
<1> QED
  BY <1>2, <1>3, <1>9, <1>11, <1>12, <1>13, <1>14, <1>15, Zenon DEF Kept

LEMMA ShrinksHomed ==
  ASSUME NEW bd \in Scenarios, NEW s, NEW h, Shrinks(s, h), NEW snd, NEW boot, Homed(s, snd, boot),
         h.sessionBoot = s.sessionBoot, h.flowBoot = s.flowBoot
  PROVE  Homed(h, snd, boot)
<1>1. \A f \in Flows : NoCmd(f).boot = 0
  BY NoCmdTyped, Zenon
<1> QED
  BY <1>1, Zenon DEF Homed, Shrinks

-----------------------------------------------------------------------------
(* Steps.                                                                  *)

\* What a step may put in a flow's place: nothing, the revocation of a revision,
\* or a decision that is not older than the flow's context.
Calm ==
  \A f \in Flows : \/ g'.states[f] = g.states[f] \/ ~Present(g'.states[f])
                   \/ g'.states[f].id.kind = "revision"
                   \/ \E d \in decisions : g'.states[f] = d.cmd /\ d.gen >= g.contexts[f]

LEMMA Frame ==
  ASSUME bound' = bound
  PROVE  Sock' = Sock /\ Decision' = Decision /\ Boots' = Boots /\ Sessions' = Sessions
<1>1. Boots' = Boots /\ Sessions' = Sessions /\ Revs' = Revs
  BY Zenon DEF Boots, Sessions, Revs
<1>2. Cmd' = Cmd
  BY <1>1, Zenon DEF Cmd, Id, Op
<1> QED
  BY <1>1, <1>2, Zenon DEF Sock, Decision, Telemetry

\* The facts most steps start from.
LEMMA Known ==
  ASSUME IInv
  PROVE  /\ bound \in Scenarios /\ bound.boots \in Nat /\ bound.revs \in Nat /\ bound.sessions \in Nat
         /\ bound.decisions \in Nat /\ bound.flows \in SUBSET Flows /\ clock \in Nat
         /\ g.bundle \in Nat /\ Cmd = Cmds(bound)
         /\ \A d \in decisions : d.gen \in Nat /\ d.cmd \in Cmd /\ d.cmd.flow \in Flows
         /\ Gateway(g, bound) /\ Short(g) /\ Line(g)
         /\ Kept(g, Sending, g.bundle, clock, decisions) /\ Homed(g, Sending, LatchedBy)
<1>1. /\ bound \in Scenarios /\ decisions \in SUBSET Decision /\ clock \in 0 .. bound.decisions
      /\ g.bundle \in 0 .. bound.revs
  BY Zenon DEF IInv, Gateway
<1>2. /\ bound.boots \in Nat /\ bound.revs \in Nat /\ bound.sessions \in Nat
      /\ bound.decisions \in Nat /\ bound.flows \in SUBSET Flows
  BY <1>1, FlowAssumption, Zenon
<1>3. clock \in Nat /\ g.bundle \in Nat
  BY <1>1, <1>2
<1>4. Cmd = Cmds(bound)
  BY Zenon DEF Cmd, Cmds, Boots, Revs
<1>5. \A d \in decisions : d.gen \in Nat /\ d.cmd \in Cmd
  BY <1>1, Zenon DEF Decision
<1>6. \A c \in Cmd : c.flow \in Flows
  BY Zenon DEF Cmd
<1> QED
  BY <1>1, <1>2, <1>3, <1>4, <1>5, <1>6, Zenon DEF IInv

LEMMA Finish ==
  ASSUME IInv, bound' = bound, sock' \in [Sessions -> Sock], Tasks(sock', g', bound),
         agentBoot' \in Boots, decisions' \in SUBSET Decision, expired' \in SUBSET Id,
         clock' \in 0 .. bound.decisions, Gateway(g', bound), Short(g'), Line(g'),
         Kept(g', Sending', g'.bundle, clock', decisions'), Homed(g', Sending', LatchedBy')
  PROVE  IInv'
<1>1. Sock' = Sock /\ Decision' = Decision /\ Boots' = Boots /\ Sessions' = Sessions
  BY Frame, Zenon
<1>2. bound \in Scenarios
  BY Known, Zenon
<1>3. (bound \in Scenarios)' /\ (sock \in [Sessions -> Sock])' /\ (agentBoot \in Boots)'
  BY <1>1, <1>2, Zenon
<1>4. (decisions \in SUBSET Decision)' /\ (expired \in SUBSET Id)' /\ (clock \in 0 .. bound.decisions)'
  BY <1>1, Zenon DEF Id
<1>5. (Tasks(sock, g, bound) /\ Gateway(g, bound) /\ Short(g) /\ Line(g))'
  BY Zenon
<1>6. (Kept(g, Sending, g.bundle, clock, decisions) /\ Homed(g, Sending, LatchedBy))'
  BY Zenon
<1> QED
  BY <1>3, <1>4, <1>5, <1>6, Zenon DEF IInv

\* What the session's task writes and has latched.
LEMMA Task ==
  ASSUME IInv, NEW s \in Sessions
  PROVE  /\ s # 0 /\ sock[s] \in Sock /\ Writes(sock[s], bound) /\ (sock[s].pc # "none" => g.bundle # 0)
         /\ sock[s].pc # "send" => sock[s].sending = {}
         /\ Active(s) => Sending = sock[s].sending /\ LatchedBy = sock[s].boot
         /\ sock[s].sending \subseteq Cmd
<1>1. s # 0 /\ s \in 1 .. bound.sessions
  BY Known DEF Sessions
<1>2. sock[s] \in Sock
  BY Zenon DEF IInv
<1>3. Writes(sock[s], bound) /\ (sock[s].pc # "none" => g.bundle # 0)
  BY <1>1, Zenon DEF IInv, Tasks
<1>4. sock[s].pc # "send" => sock[s].sending = {}
  BY <1>3, Zenon DEF Writes
<1>5. sock[s].sending \subseteq Cmd
  BY <1>2, Zenon DEF Sock
<1> QED
  BY <1>1, <1>2, <1>3, <1>4, <1>5, Zenon DEF Active, Sending, LatchedBy

\* The state of one task changes.
LEMMA TaskMoves ==
  ASSUME IInv, bound' = bound, NEW s \in Sessions, NEW k \in Sock, sock' = [sock EXCEPT ![s] = k],
         Writes(k, bound), g'.bundle = g.bundle, g.bundle # 0, g'.session \in 0 .. bound.sessions
  PROVE  /\ sock' \in [Sessions -> Sock] /\ Tasks(sock', g', bound)
         /\ sock'[s] = k /\ \A t \in Sessions : t # s => sock'[t] = sock[t]
         /\ g'.session = s => Sending' = k.sending /\ LatchedBy' = k.boot
         /\ g'.session # s /\ g'.session = g.session => Sending' = Sending /\ LatchedBy' = LatchedBy
         /\ g'.session = 0 => Sending' = {} /\ LatchedBy' = 0
<1>1. sock \in [Sessions -> Sock] /\ Sessions = 1 .. bound.sessions
  BY Zenon DEF IInv, Sessions
<1>2. sock' \in [Sessions -> Sock] /\ sock'[s] = k /\ \A t \in Sessions : t # s => sock'[t] = sock[t]
  BY <1>1, Zenon
<1>3. Tasks(sock', g', bound)
  <2>1. \A t \in Sessions : Writes(sock[t], bound)
    BY <1>1, Zenon DEF IInv, Tasks
  <2> QED
    BY <1>1, <1>2, <2>1, Zenon DEF Tasks
<1>4. s # 0
  BY Task, Zenon
<1>5. g'.session = s => Sending' = k.sending /\ LatchedBy' = k.boot
  BY <1>2, <1>4, Zenon DEF Sending, LatchedBy
<1>6. ASSUME g'.session # s, g'.session = g.session PROVE Sending' = Sending /\ LatchedBy' = LatchedBy
  <2>1. CASE g.session = 0
    BY <1>6, <2>1, Zenon DEF Sending, LatchedBy
  <2>2. CASE g.session # 0
    <3>1. g.session \in Sessions
      BY <1>1, <1>6, <2>2
    <3>2. sock'[g.session] = sock[g.session]
      BY <1>2, <1>6, <3>1, Zenon
    <3>3. sock'[g'.session] = sock[g.session] /\ g'.session # 0
      BY <1>6, <2>2, <3>2, Zenon
    <3>4. Sending = sock[g.session].sending /\ LatchedBy = sock[g.session].boot
      BY <2>2, Zenon DEF Sending, LatchedBy
    <3>5. Sending' = sock'[g'.session].sending /\ LatchedBy' = sock'[g'.session].boot
      BY <3>3, Zenon DEF Sending, LatchedBy
    <3> QED
      BY <3>3, <3>4, <3>5
  <2> QED
    BY <2>1, <2>2, Zenon
<1>7. g'.session = 0 => Sending' = {} /\ LatchedBy' = 0
  BY Zenon DEF Sending, LatchedBy
<1> QED
  BY <1>2, <1>3, <1>5, <1>6, <1>7, Zenon

\* No task changes.
LEMMA TasksStand ==
  ASSUME IInv, bound' = bound, sock' = sock, g'.session = g.session,
         g.bundle # 0 => g'.bundle # 0
  PROVE  /\ sock' \in [Sessions -> Sock] /\ Tasks(sock', g', bound)
         /\ Sending' = Sending /\ LatchedBy' = LatchedBy
<1>1. sock' \in [Sessions -> Sock]
  BY Zenon DEF IInv
<1>2. Tasks(sock', g', bound)
  BY Zenon DEF IInv, Tasks
<1> QED
  BY <1>1, <1>2, Zenon DEF Sending, LatchedBy

\* x is h but for the permit, the session and the capabilities on record.
Like(h, x) ==
  /\ x.bundle = h.bundle /\ x.sessionBoot = h.sessionBoot /\ x.flowBoot = h.flowBoot
  /\ x.pending = h.pending /\ x.queue = h.queue /\ x.states = h.states /\ x.contexts = h.contexts
  /\ x.flight = h.flight /\ x.attempts = h.attempts /\ x.delayed = h.delayed

LEMMA LikeShrinks == ASSUME NEW h, NEW x, Like(h, x) PROVE Shrinks(h, x)
BY Zenon DEF Like, Shrinks

LEMMA LikeSound ==
  ASSUME NEW bd \in Scenarios, NEW h, Gateway(h, bd), Short(h), Line(h), NEW x, Like(h, x),
         DOMAIN x = Fields, x.session \in 0 .. bd.sessions, x.caps \in 0 .. bd.boots,
         x.notified \in BOOLEAN
  PROVE  Gateway(x, bd) /\ Short(x) /\ Line(x)
BY Zenon DEF Like, Gateway, Short, Line

LEMMA NotifyLike ==
  ASSUME NEW bd \in Scenarios, NEW h, Gateway(h, bd), Short(h), Line(h)
  PROVE  LET x == NotifyIfQueued(h) IN
         Like(h, x) /\ x.session = h.session /\ Gateway(x, bd) /\ Short(x) /\ Line(x)
<1> DEFINE x == NotifyIfQueued(h)
<1>1. /\ DOMAIN x = Fields /\ Like(h, x) /\ x.session = h.session /\ x.caps = h.caps
      /\ x.notified = (h.notified \/ h.queue # <<>>)
  BY Zenon DEF NotifyIfQueued, Gateway, Fields, Like
<1>2. x.notified \in BOOLEAN /\ x.session \in 0 .. bd.sessions /\ x.caps \in 0 .. bd.boots
  BY <1>1, Zenon DEF Gateway
<1> QED
  BY <1>1, <1>2, LikeSound, Zenon

\* A step that only drops things.
LEMMA ShrinkStep ==
  ASSUME Counting, IInv, bound' = bound, Shrinks(g, g'), Gateway(g', bound), Short(g'), Line(g'),
         sock' \in [Sessions -> Sock], Tasks(sock', g', bound), UNCHANGED <<agentBoot, decisions, expired, clock>>,
         Sending' \in SUBSET Sending, Homed(g', Sending', LatchedBy')
  PROVE  IInv' /\ Calm
<1>1. Kept(g', Sending', g.bundle, clock, decisions)
  BY Known, ShrinksKept, Zenon
<1>2. Kept(g', Sending', g'.bundle, clock', decisions')
  BY <1>1, Zenon DEF Shrinks
<1>3. /\ agentBoot' \in Boots /\ decisions' \in SUBSET Decision /\ expired' \in SUBSET Id
      /\ clock' \in 0 .. bound.decisions
  BY Zenon DEF IInv
<1>4. Calm
  <2>1. \A f \in Flows : ~Present(NoCmd(f))
    BY Known, NoCmdTyped, Zenon
  <2> QED
    BY <2>1, Zenon DEF Calm, Shrinks
<1> QED
  BY <1>2, <1>3, <1>4, Finish, Zenon

\* A step that ends with fill_flow_queue.
LEMMA FillStep ==
  ASSUME Counting, IInv, bound' = bound, NEW s, Gateway(s, bound), Short(s), NEW h \in Fills(s),
         Like(h, g'), DOMAIN g' = Fields, g'.session \in 0 .. bound.sessions,
         g'.caps \in 0 .. bound.boots, g'.notified \in BOOLEAN,
         sock' \in [Sessions -> Sock], Tasks(sock', g', bound), UNCHANGED <<agentBoot, expired>>,
         decisions' \in SUBSET Decision, clock' \in 0 .. bound.decisions,
         Kept(s, Sending', s.bundle, clock', decisions'), Homed(s, Sending', LatchedBy'),
         \A f \in Flows : \/ s.states[f] = g.states[f] \/ ~Present(s.states[f])
                          \/ s.states[f].id.kind = "revision"
                          \/ \E d \in decisions : s.states[f] = d.cmd /\ d.gen >= g.contexts[f]
  PROVE  IInv' /\ Calm
<1>1. bound \in Scenarios /\ bound.decisions \in Nat
  BY Known, Zenon
<1>2. Shrinks(s, h) /\ Stays(s, h) /\ Gateway(h, bound) /\ Short(h) /\ Line(h)
  BY <1>1, FillsShrinks, Zenon
<1>3. Gateway(g', bound) /\ Short(g') /\ Line(g') /\ Shrinks(h, g')
  BY <1>1, <1>2, LikeSound, LikeShrinks, Zenon
<1>4. clock' \in Nat /\ \A d \in decisions' : d.gen \in Nat
  BY <1>1 DEF Decision
<1>5. Kept(h, Sending', s.bundle, clock', decisions')
  BY <1>1, <1>2, <1>4, ShrinksKept, Zenon
<1>6. Kept(g', Sending', s.bundle, clock', decisions')
  BY <1>1, <1>2, <1>3, <1>4, <1>5, ShrinksKept, Zenon
<1>7. g'.bundle = s.bundle
  BY <1>2, <1>3, Zenon DEF Shrinks
<1>8. Homed(h, Sending', LatchedBy')
  BY <1>1, <1>2, ShrinksHomed, Zenon DEF Stays
<1>9. Homed(g', Sending', LatchedBy')
  BY <1>1, <1>3, <1>8, ShrinksHomed, Zenon DEF Like
<1>10. agentBoot' \in Boots /\ expired' \in SUBSET Id
  BY Zenon DEF IInv
<1>11. IInv'
  BY <1>3, <1>6, <1>7, <1>9, <1>10, Finish, Zenon
<1>12. Calm
  <2>1. \A f \in Flows : ~Present(NoCmd(f))
    BY <1>1, NoCmdTyped, Zenon
  <2>2. \A f \in Flows : g'.states[f] = s.states[f] \/ ~Present(g'.states[f])
    BY <1>2, <2>1, ZenonT(40) DEF Shrinks, Like
  <2> QED
    BY <2>2, Zenon DEF Calm
<1> QED
  BY <1>11, <1>12, Zenon

-----------------------------------------------------------------------------
(* Steps that change little.                                               *)

LEMMA RestartStep == ASSUME IInv, bound' = bound, AgentRestart PROVE IInv' /\ Calm
<1>1. g' = g /\ sock' = sock /\ UNCHANGED <<decisions, expired, clock>> /\ agentBoot' \in Boots
  <2>1. agentBoot \in 0 .. bound.boots /\ bound.boots \in Nat
    BY Known, Zenon DEF IInv, Boots
  <2>2. agentBoot' \in Boots
    BY <2>1 DEF AgentRestart, Boots
  <2> QED
    BY <2>2, Zenon DEF AgentRestart
<1>2. /\ sock' \in [Sessions -> Sock] /\ Tasks(sock', g', bound)
      /\ Sending' = Sending /\ LatchedBy' = LatchedBy
  BY <1>1, TasksStand, Zenon
<1>3. IInv'
  BY <1>1, <1>2, Finish, Known, Zenon DEF IInv
<1> QED
  BY <1>1, <1>3, Zenon DEF Calm

LEMMA ExpireStep ==
  ASSUME IInv, bound' = bound, NEW f \in Flows, Expire(f) PROVE IInv' /\ Calm
<1>1. g' = g /\ sock' = sock /\ UNCHANGED <<decisions, agentBoot, clock>> /\ expired' \in SUBSET Id
  <2>1. g.states[f] \in Cmds(bound)
    BY Zenon DEF IInv, Gateway
  <2>2. g.states[f].id \in Id
    BY <2>1, Zenon DEF Cmds
  <2>3. expired' \in SUBSET Id
    BY <2>2, Zenon DEF Expire, IInv
  <2> QED
    BY <2>3, Zenon DEF Expire
<1>2. /\ sock' \in [Sessions -> Sock] /\ Tasks(sock', g', bound)
      /\ Sending' = Sending /\ LatchedBy' = LatchedBy
  BY <1>1, TasksStand, Zenon
<1>3. IInv'
  BY <1>1, <1>2, Finish, Known, Zenon DEF IInv
<1> QED
  BY <1>1, <1>3, Zenon DEF Calm

LEMMA SendBundleStep ==
  ASSUME Counting, IInv, bound' = bound, NEW s \in Sessions, SendBundle(s) PROVE IInv' /\ Calm
<1> DEFINE k == [sock[s] EXCEPT !.pc = "run", !.sent = g.bundle]
<1>1. /\ sock' = [sock EXCEPT ![s] = k] /\ g' = [g EXCEPT !.notified = TRUE]
      /\ UNCHANGED <<agentBoot, decisions, expired, clock>> /\ sock[s].pc \in {"start", "run"}
  <2>1. sock' = [sock EXCEPT ![s] = k]
    BY Zenon DEF SendBundle
  <2> QED
    BY <2>1, Zenon DEF SendBundle, Running
<1>2. /\ DOMAIN g' = Fields /\ Like(g, g') /\ g'.session = g.session /\ g'.caps = g.caps
      /\ g'.notified = TRUE /\ g'.bundle = g.bundle
  BY <1>1, Known, Zenon DEF Gateway, Fields, Like
<1>3. Gateway(g', bound) /\ Short(g') /\ Line(g') /\ Shrinks(g, g') /\ g'.session \in 0 .. bound.sessions
  <2>1. g'.session \in 0 .. bound.sessions /\ g'.caps \in 0 .. bound.boots /\ g'.notified \in BOOLEAN
    BY <1>2, Known, Zenon DEF Gateway
  <2> QED
    BY <1>2, <2>1, Known, LikeSound, LikeShrinks, Zenon
<1>4. /\ sock[s] \in Sock /\ g.bundle # 0 /\ sock[s].sending = {}
      /\ Active(s) => Sending = sock[s].sending /\ LatchedBy = sock[s].boot
  BY <1>1, Task, Zenon
<1>5. k \in Sock /\ k.sending = sock[s].sending /\ k.boot = sock[s].boot /\ k.pc = "run"
  <2>1. g.bundle \in Revs
    BY Known, Zenon DEF Gateway, Revs
  <2> DEFINE r == [sock[s] EXCEPT !.pc = "run"]
  <2>2. /\ r \in Sock /\ r.pc = "run" /\ r.boot = sock[s].boot /\ r.sending = sock[s].sending
    BY <1>4, Zenon DEF Sock
  <2>3. k = [r EXCEPT !.sent = g.bundle]
    BY Zenon
  <2> HIDE DEF r, k
  <2> QED
    BY <2>1, <2>2, <2>3, Zenon DEF Sock
<1> HIDE DEF k
<1>6. Writes(k, bound)
  BY <1>4, <1>5, Zenon DEF Writes
<1>7. /\ sock' \in [Sessions -> Sock] /\ Tasks(sock', g', bound)
      /\ g'.session = s => Sending' = k.sending /\ LatchedBy' = k.boot
      /\ g'.session # s /\ g'.session = g.session => Sending' = Sending /\ LatchedBy' = LatchedBy
  BY <1>1, <1>2, <1>3, <1>4, <1>5, <1>6, TaskMoves, Zenon
<1>8. Sending' = Sending /\ LatchedBy' = LatchedBy
  BY <1>2, <1>4, <1>5, <1>7, Zenon DEF Active
<1>9. Homed(g', Sending', LatchedBy')
  BY <1>2, <1>3, <1>8, Known, ShrinksHomed, Zenon DEF Like
<1> QED
  BY <1>1, <1>3, <1>7, <1>8, <1>9, ShrinkStep, Zenon

LEMMA SockEndStep ==
  ASSUME Counting, IInv, bound' = bound, NEW s \in Sessions, SockEnd(s) PROVE IInv' /\ Calm
<1> DEFINE k == [sock[s] EXCEPT !.pc = "done"]
<1>1. /\ sock' = [sock EXCEPT ![s] = k] /\ g' = IF Active(s) THEN [g EXCEPT !.session = 0] ELSE g
      /\ UNCHANGED <<agentBoot, decisions, expired, clock>> /\ sock[s].pc \in {"start", "run"}
  <2>1. sock' = [sock EXCEPT ![s] = k]
    BY Zenon DEF SockEnd
  <2> QED
    BY <2>1, Zenon DEF SockEnd, Running
<1>2. /\ DOMAIN g' = Fields /\ Like(g, g') /\ g'.caps = g.caps
      /\ g'.notified = g.notified /\ g'.bundle = g.bundle
      /\ g'.session = IF Active(s) THEN 0 ELSE g.session
  BY <1>1, Known, Zenon DEF Gateway, Fields, Like
<1>3. Gateway(g', bound) /\ Short(g') /\ Line(g') /\ Shrinks(g, g') /\ g'.session \in 0 .. bound.sessions
  <2>1. g'.session \in 0 .. bound.sessions
    BY <1>2, Known DEF Gateway
  <2>2. g'.caps \in 0 .. bound.boots /\ g'.notified \in BOOLEAN
    BY <1>2, Known, Zenon DEF Gateway
  <2> QED
    BY <1>2, <2>1, <2>2, Known, LikeSound, LikeShrinks, Zenon
<1>4. /\ sock[s] \in Sock /\ g.bundle # 0 /\ sock[s].sending = {} /\ s # 0
      /\ Active(s) => Sending = sock[s].sending /\ LatchedBy = sock[s].boot
  BY <1>1, Task, Zenon
<1>5. k \in Sock /\ k.sending = {} /\ k.pc = "done"
  BY <1>4, Zenon DEF Sock
<1> HIDE DEF k
<1>6. Writes(k, bound)
  BY <1>5, Zenon DEF Writes
<1>7. /\ sock' \in [Sessions -> Sock] /\ Tasks(sock', g', bound)
      /\ g'.session # s /\ g'.session = g.session => Sending' = Sending /\ LatchedBy' = LatchedBy
      /\ g'.session = 0 => Sending' = {} /\ LatchedBy' = 0
  BY <1>1, <1>2, <1>3, <1>4, <1>5, <1>6, TaskMoves, Zenon
<1>8. Homed(g, Sending, LatchedBy)
  BY Known, Zenon
<1>9. Sending' \in SUBSET Sending /\ Homed(g', Sending', LatchedBy')
  <2>1. CASE Active(s)
    <3>1. Sending' = {} /\ LatchedBy' = 0
      BY <1>2, <1>7, <2>1, Zenon
    <3> QED
      BY <1>2, <1>8, <3>1, Zenon DEF Homed, Like
  <2>2. CASE ~Active(s)
    <3>1. Sending' = Sending /\ LatchedBy' = LatchedBy
      BY <1>2, <1>7, <2>2, Zenon DEF Active
    <3> QED
      BY <1>2, <1>3, <1>8, <3>1, Known, ShrinksHomed, Zenon DEF Like
  <2> QED
    BY <2>1, <2>2, Zenon
<1> QED
  BY <1>1, <1>3, <1>7, <1>9, ShrinkStep, Zenon

\* ClearDelivery and ClearCommands.
LEMMA ClearDeliverySound ==
  ASSUME NEW bd \in Scenarios, NEW s, Gateway(s, bd)
  PROVE  LET h == ClearDelivery(s) IN
         /\ Gateway(h, bd) /\ Short(h) /\ Line(h) /\ Shrinks(s, h) /\ h.flight = {}
         /\ h.session = s.session /\ h.sessionBoot = s.sessionBoot /\ h.flowBoot = s.flowBoot
         /\ h.bundle = s.bundle /\ h.contexts = s.contexts /\ h.states = s.states
         /\ h.pending = None
<1> DEFINE h == ClearDelivery(s)
<1>1. /\ DOMAIN h = Fields /\ h.bundle = s.bundle /\ h.session = s.session
      /\ h.sessionBoot = s.sessionBoot /\ h.flowBoot = s.flowBoot /\ h.caps = s.caps
      /\ h.contexts = s.contexts /\ h.flight = {} /\ h.delayed = NoDelay
      /\ h.notified = s.notified /\ h.pending = None /\ h.states = s.states
      /\ h.queue = <<>> /\ h.attempts = <<>>
  BY Zenon DEF ClearDelivery, Gateway, Fields
<1> HIDE DEF h
<1>2. \A f \in Flows : NoCmd(f) \in Cmds(bd) /\ NoId(f) \in Id /\ ~Present(NoCmd(f))
  BY NoCmdTyped, Zenon
<1>3. /\ None \in [Flows -> Cmds(bd)] /\ NoDelay \in [Flows -> Id]
      /\ \A f \in Flows : None[f] = NoCmd(f) /\ NoDelay[f] = NoId(f)
  BY <1>2, Zenon DEF None, NoDelay
<1>4. /\ <<>> \in Seq(Flows) /\ DOMAIN h.attempts = {} /\ h.attempts \in [DOMAIN h.attempts -> 1 .. MaxAttempts]
      /\ Len(h.queue) = 0 /\ DOMAIN h.queue = {}
  BY <1>1
<1>5. Gateway(h, bd)
  BY <1>1, <1>3, <1>4, Zenon DEF Gateway
<1>6. Short(h) /\ Line(h)
  <2>1. Len(h.queue) <= QueueCap
    BY <1>4, FlowAssumption
  <2> QED
    BY <1>4, <2>1, Zenon DEF Short, Line, IsInjective
<1>7. Shrinks(s, h)
  BY <1>1, <1>2, <1>3, <1>4, Zenon DEF Shrinks
<1> QED
  BY <1>1, <1>5, <1>6, <1>7, Zenon DEF h

LEMMA ClearCommandsSound ==
  ASSUME NEW bd \in Scenarios, NEW s, Gateway(s, bd)
  PROVE  LET h == ClearCommands(s) IN
         /\ Gateway(h, bd) /\ Short(h) /\ Line(h) /\ Shrinks(s, h) /\ h.flight = {}
         /\ h.session = s.session /\ h.bundle = s.bundle
         /\ h.states = None /\ h.pending = None /\ \A f \in Flows : h.contexts[f] = 0
<1> DEFINE c == ClearDelivery(s)
           h == ClearCommands(s)
           zero == [f \in Flows |-> 0]
<1>1. /\ Gateway(c, bd) /\ Short(c) /\ Line(c) /\ Shrinks(s, c) /\ c.flight = {}
      /\ c.session = s.session /\ c.sessionBoot = s.sessionBoot /\ c.flowBoot = s.flowBoot
      /\ c.bundle = s.bundle /\ c.contexts = s.contexts /\ c.states = s.states /\ c.pending = None
  BY ClearDeliverySound, Zenon
<1> HIDE DEF c
<1>2. h = [c EXCEPT !.states = None, !.contexts = zero]
  BY Zenon DEF ClearCommands, c
<1>3. /\ DOMAIN h = Fields /\ h.bundle = c.bundle /\ h.session = c.session
      /\ h.sessionBoot = c.sessionBoot /\ h.flowBoot = c.flowBoot /\ h.caps = c.caps
      /\ h.contexts = zero /\ h.flight = c.flight /\ h.delayed = c.delayed
      /\ h.notified = c.notified /\ h.pending = c.pending /\ h.states = None
      /\ h.queue = c.queue /\ h.attempts = c.attempts
  BY <1>1, <1>2, ZenonT(40) DEF Gateway, Fields
<1> HIDE DEF h
<1>4. zero \in [Flows -> Nat] /\ \A f \in Flows : zero[f] = 0
  OBVIOUS
<1> HIDE DEF zero
<1>5. \A f \in Flows : NoCmd(f) \in Cmds(bd) /\ NoId(f) \in Id /\ ~Present(NoCmd(f))
  BY NoCmdTyped, Zenon
<1>6. None \in [Flows -> Cmds(bd)] /\ \A f \in Flows : None[f] = NoCmd(f)
  BY <1>5, Zenon DEF None
<1>7. Gateway(h, bd)
  BY <1>1, <1>3, <1>4, <1>6, Zenon DEF Gateway
<1>8. Short(h) /\ Line(h)
  BY <1>1, <1>3, Zenon DEF Short, Line
<1>9. Shrinks(s, h)
  <2>1. \A f \in Flows : h.contexts[f] = 0 /\ h.states[f] = NoCmd(f) /\ h.pending[f] = NoCmd(f)
    BY <1>1, <1>3, <1>4, <1>6, Zenon
  <2>2. /\ h.bundle = s.bundle /\ h.flight \in SUBSET s.flight
        /\ \A f \in Flows : h.delayed[f] \in {s.delayed[f], NoId(f)}
        /\ \A i \in DOMAIN h.attempts : i \in DOMAIN s.attempts /\ h.attempts[i] = s.attempts[i]
        /\ \A e \in h.flight : e.cmd.id \in DOMAIN s.attempts => e.cmd.id \in DOMAIN h.attempts
    BY <1>1, <1>3, Zenon DEF Shrinks
  <2> QED
    BY <1>5, <2>1, <2>2, Zenon DEF Shrinks
<1> QED
  BY <1>1, <1>3, <1>4, <1>7, <1>8, <1>9, Zenon DEF h

LEMMA RegisterStep ==
  ASSUME Counting, IInv, bound' = bound, NEW s \in Sessions, Register(s) PROVE IInv' /\ Calm
<1> DEFINE k == [NoSock EXCEPT !.pc = "start", !.agent = agentBoot]
           c == ClearDelivery(g)
<1>1. /\ sock' = [sock EXCEPT ![s] = k] /\ g' = [c EXCEPT !.session = s, !.sessionBoot = 0]
      /\ UNCHANGED <<agentBoot, decisions, expired, clock>> /\ g.bundle # 0
  BY Zenon DEF Register
<1>2. /\ Gateway(c, bound) /\ Short(c) /\ Line(c) /\ Shrinks(g, c) /\ c.flight = {}
      /\ c.flowBoot = g.flowBoot /\ c.states = g.states /\ c.pending = None /\ c.bundle = g.bundle
  BY Known, ClearDeliverySound, Zenon
<1> HIDE DEF c
<1>3. /\ DOMAIN g' = Fields /\ g'.bundle = c.bundle /\ g'.session = s
      /\ g'.sessionBoot = 0 /\ g'.flowBoot = c.flowBoot /\ g'.caps = c.caps
      /\ g'.contexts = c.contexts /\ g'.flight = c.flight /\ g'.delayed = c.delayed
      /\ g'.notified = c.notified /\ g'.pending = c.pending /\ g'.states = c.states
      /\ g'.queue = c.queue /\ g'.attempts = c.attempts
  BY <1>1, <1>2, Zenon DEF Gateway, Fields
<1>4. s \in 0 .. bound.sessions /\ 0 \in 0 .. bound.boots /\ 0 \in 0 .. bound.revs
  BY Known DEF Sessions
<1>5. Gateway(g', bound) /\ Short(g') /\ Line(g')
  BY <1>2, <1>3, <1>4, Zenon DEF Gateway, Short, Line
<1>6. Shrinks(g, g')
  BY <1>2, <1>3, Zenon DEF Shrinks
<1>7. k \in Sock /\ k.sending = {} /\ k.pc = "start" /\ k.boot = 0
  <2>1. agentBoot \in Boots /\ 0 \in Boots /\ 0 \in Revs
    BY <1>4, Zenon DEF IInv, Boots, Revs
  <2> DEFINE r == [NoSock EXCEPT !.pc = "start"]
  <2>2. NoSock \in Sock /\ NoSock.sending = {} /\ NoSock.boot = 0
    BY <2>1, Zenon DEF NoSock, Sock
  <2>3. r \in Sock /\ r.pc = "start" /\ r.boot = 0 /\ r.sending = {}
    BY <2>2, Zenon DEF Sock
  <2>4. k = [r EXCEPT !.agent = agentBoot]
    BY Zenon
  <2> HIDE DEF r, k
  <2> QED
    BY <2>1, <2>3, <2>4, Zenon DEF Sock
<1> HIDE DEF k
<1>8. Writes(k, bound)
  BY <1>7, Zenon DEF Writes
<1>9. /\ sock' \in [Sessions -> Sock] /\ Tasks(sock', g', bound) /\ Sending' = {} /\ LatchedBy' = 0
  <2>1. g'.bundle = g.bundle /\ g'.session \in 0 .. bound.sessions
    BY <1>2, <1>3, <1>4, Zenon
  <2> QED
    BY <1>1, <1>3, <1>7, <1>8, <2>1, TaskMoves, Zenon
<1>10. Homed(g', Sending', LatchedBy')
  <2>1. Homed(g, Sending, LatchedBy) /\ \A f \in Flows : None[f].boot = 0
    BY Known, NoCmdTyped, Zenon DEF None
  <2> QED
    BY <1>2, <1>3, <1>9, <2>1 DEF Homed
<1>11. Sending' \in SUBSET Sending
  BY <1>9, Zenon
<1> QED
  BY <1>1, <1>5, <1>6, <1>9, <1>10, <1>11, ShrinkStep, Zenon

-----------------------------------------------------------------------------
(* Decisions arrive.                                                       *)

\* Some of the decisions have gone.
LEMMA FewerDecisions ==
  ASSUME NEW s, NEW snd, NEW rev, NEW n, NEW ds, Kept(s, snd, rev, n, ds), NEW rest \in SUBSET ds
  PROVE  Kept(s, snd, rev, n, rest)
<1>1. \A i : Old(i, rev, n, ds) => Old(i, rev, n, rest)
  BY Zenon DEF Old
<1>2. Dated(s, snd, rev, n, rest)
  BY <1>1, Zenon DEF Kept, Dated
<1>3. Decided(s, n, rest)
  BY Zenon DEF Kept, Decided
<1> QED
  BY <1>2, <1>3, Zenon DEF Kept

\* One of them is replaced by its like.
LEMMA SwapDecision ==
  ASSUME NEW s, NEW snd, NEW rev, NEW n, NEW ds, Kept(s, snd, rev, n, ds), NEW d \in ds, NEW x,
         x.cmd = d.cmd, x.gen = d.gen, x.by = d.by
  PROVE  Kept(s, snd, rev, n, (ds \ {d}) \cup {x})
<1> DEFINE new == (ds \ {d}) \cup {x}
<1>1. \A e \in new : \E o \in ds : e.cmd = o.cmd /\ e.gen = o.gen /\ e.by = o.by
  BY Zenon
<1>2. \A i : Old(i, rev, n, ds) => Old(i, rev, n, new)
  <2> HIDE DEF new
  <2> QED
    BY <1>1, Zenon DEF Old
<1>3. Dated(s, snd, rev, n, new)
  <2> HIDE DEF new
  <2> QED
    BY <1>2, Zenon DEF Kept, Dated
<1>4. \A a, b \in ds : a.cmd.id = b.cmd.id => a = b
  BY Zenon DEF Kept, Decided
<1>5. \A a, b \in new : a.cmd.id = b.cmd.id => a = b
  BY <1>4
<1>6. Decided(s, n, new)
  <2> HIDE DEF new
  <2>1. ASSUME NEW e \in new
        PROVE  /\ e.cmd.id.kind = "decision" /\ e.cmd.id.n <= n /\ e.cmd.id.flow = e.cmd.flow
               /\ e.cmd.op \in {"block", "shape", "revoke"} /\ e.cmd.rev # 0
               /\ e.cmd.op = "revoke" => e.by = Telemetry
               /\ e.by = Telemetry => \A f \in Flows : s.contexts[f] <= e.gen
    <3>1. PICK o \in ds : e.cmd = o.cmd /\ e.gen = o.gen /\ e.by = o.by
      BY <1>1, Zenon
    <3> QED
      BY <3>1, Zenon DEF Kept, Decided
  <2>2. \A f \in Flows : s.contexts[f] <= n
    BY Zenon DEF Kept, Decided
  <2> QED
    BY <1>5, <2>1, <2>2, Zenon DEF Decided
<1> HIDE DEF new
<1>7. Kept(s, snd, rev, n, new)
  BY <1>3, <1>6, Zenon DEF Kept
<1> QED
  BY <1>7, Zenon DEF new

LEMMA RevokeCheckStep ==
  ASSUME IInv, bound' = bound, NEW d \in decisions, RevokeCheck(d) PROVE IInv' /\ Calm
<1> DEFINE x == [d EXCEPT !.ready = TRUE]
<1>1. /\ g' = g /\ sock' = sock /\ UNCHANGED <<agentBoot, expired, clock>>
      /\ \/ decisions' = decisions \ {d}
         \/ decisions' = (decisions \ {d}) \cup {x}
  BY Zenon DEF RevokeCheck
<1>2. decisions \in SUBSET Decision /\ Kept(g, Sending, g.bundle, clock, decisions)
  BY Known, Zenon DEF IInv
<1>3. x \in Decision /\ x.cmd = d.cmd /\ x.gen = d.gen /\ x.by = d.by
  <2>1. d \in Decision
    BY <1>2, Zenon
  <2> QED
    BY <2>1, Zenon DEF Decision
<1> HIDE DEF x
<1>4. decisions' \in SUBSET Decision /\ Kept(g, Sending, g.bundle, clock, decisions')
  <2>1. CASE decisions' = decisions \ {d}
    <3>1. decisions' \in SUBSET decisions
      BY <2>1, Zenon
    <3> QED
      BY <1>2, <3>1, FewerDecisions, Zenon
  <2>2. CASE decisions' = (decisions \ {d}) \cup {x}
    <3>1. Kept(g, Sending, g.bundle, clock, (decisions \ {d}) \cup {x})
      BY <1>2, <1>3, SwapDecision, Zenon
    <3>2. (decisions \ {d}) \cup {x} \in SUBSET Decision
      BY <1>2, <1>3, Zenon
    <3> QED
      BY <2>2, <3>1, <3>2, Zenon
  <2> QED
    BY <1>1, <2>1, <2>2, Zenon
<1>5. /\ sock' \in [Sessions -> Sock] /\ Tasks(sock', g', bound)
      /\ Sending' = Sending /\ LatchedBy' = LatchedBy
  BY <1>1, TasksStand, Zenon
<1>6. IInv'
  BY <1>1, <1>4, <1>5, Finish, Known, Zenon DEF IInv
<1> QED
  BY <1>1, <1>6, Zenon DEF Calm

\* A boot is adopted that the session does not contradict.
Base(s, b) == IF s.flowBoot \in {0, b} THEN s ELSE ClearCommands(s)

OfBoot(s, b, x) ==
  /\ DOMAIN x = Fields /\ x.flowBoot = b /\ x.sessionBoot \in {s.sessionBoot, b}
  /\ LET h == Base(s, b) IN
     /\ x.bundle = h.bundle /\ x.session = h.session /\ x.caps = h.caps /\ x.pending = h.pending
     /\ x.queue = h.queue /\ x.states = h.states /\ x.contexts = h.contexts /\ x.flight = h.flight
     /\ x.attempts = h.attempts /\ x.delayed = h.delayed /\ x.notified = h.notified

LEMMA Adopts ==
  ASSUME NEW bd \in Scenarios, NEW s, Gateway(s, bd), Short(s), Line(s), NEW snd, NEW boot,
         Homed(s, snd, boot), NEW b \in 0 .. bd.boots, s.sessionBoot \in {0, b},
         NEW x, OfBoot(s, b, x)
  PROVE  /\ Gateway(x, bd) /\ Short(x) /\ Line(x) /\ Shrinks(s, x) /\ Homed(x, snd, boot)
         /\ x.session = s.session
<1> DEFINE h == Base(s, b)
<1>1. h = s \/ h = ClearCommands(s)
  BY Zenon DEF Base
<1>2. Gateway(h, bd) /\ Short(h) /\ Line(h) /\ Shrinks(s, h) /\ h.session = s.session
  <2>1. CASE h = s
    <3>1. Like(s, s)
      BY Zenon DEF Like
    <3>2. Shrinks(s, s)
      BY <3>1, LikeShrinks, Zenon
    <3> QED
      BY <2>1, <3>2, Zenon
  <2>2. CASE h = ClearCommands(s)
    BY <2>2, ClearCommandsSound, Zenon
  <2> QED
    BY <1>1, <2>1, <2>2, Zenon
<1>3. \A f \in Flows : h.states[f].boot \in {0, b} /\ h.pending[f].boot \in {0, b}
  <2>1. CASE s.flowBoot \in {0, b}
    <3>1. h = s
      BY <2>1, Zenon DEF Base
    <3> QED
      BY <2>1, <3>1, Zenon DEF Homed
  <2>2. CASE s.flowBoot \notin {0, b}
    <3>1. h.states = None /\ h.pending = None
      BY <2>2, ClearCommandsSound, Zenon DEF Base
    <3>2. \A f \in Flows : None[f].boot = 0
      BY NoCmdTyped, Zenon DEF None
    <3> QED
      BY <3>1, <3>2, Zenon
  <2> QED
    BY <2>1, <2>2, Zenon
<1>4. \A e \in h.flight : e.cmd.boot = b /\ b # 0
  <2>1. CASE s.flowBoot \in {0, b}
    <3>1. h = s
      BY <2>1, Zenon DEF Base
    <3> QED
      BY <2>1, <3>1, Zenon DEF Homed
  <2>2. CASE s.flowBoot \notin {0, b}
    <3>1. h.flight = {}
      BY <2>2, ClearCommandsSound, Zenon DEF Base
    <3> QED
      BY <3>1, Zenon
  <2> QED
    BY <2>1, <2>2, Zenon
<1>5. boot # 0 => x.sessionBoot = boot /\ x.flowBoot = boot
  <2>1. x.flowBoot = b /\ x.sessionBoot \in {s.sessionBoot, b}
    BY Zenon DEF OfBoot
  <2> QED
    BY <2>1, Zenon DEF Homed
<1> HIDE DEF h
<1>6. /\ x.bundle = h.bundle /\ x.session = h.session /\ x.caps = h.caps
      /\ x.pending = h.pending /\ x.queue = h.queue /\ x.states = h.states
      /\ x.contexts = h.contexts /\ x.flight = h.flight
      /\ x.attempts = h.attempts /\ x.delayed = h.delayed /\ x.notified = h.notified
      /\ DOMAIN x = Fields /\ x.flowBoot = b /\ x.sessionBoot \in {s.sessionBoot, b}
  BY Zenon DEF h, OfBoot
<1>7. x.sessionBoot \in 0 .. bd.boots /\ x.flowBoot \in 0 .. bd.boots
  BY <1>6, Zenon DEF Gateway
<1>8. Gateway(x, bd) /\ Short(x) /\ Line(x)
  BY <1>2, <1>6, <1>7, Zenon DEF Gateway, Short, Line
<1>9. Shrinks(s, x)
  BY <1>2, <1>6, Zenon DEF Shrinks
<1>10. \A c \in snd : c.boot = boot /\ boot # 0
  BY Zenon DEF Homed
<1>11. Homed(x, snd, boot)
  BY <1>3, <1>4, <1>5, <1>6, <1>10, Zenon DEF Homed
<1> QED
  BY <1>2, <1>6, <1>8, <1>9, <1>11, Zenon

\* x is s with the command c of the decision d in the place of the flow's last one.
Places(s, bd, d, c, ids, x) ==
  /\ c = d.cmd /\ c \in Cmds(bd) /\ c.rev = s.bundle /\ c.boot = s.flowBoot
  /\ s.delayed[c.flow] \in ids /\ \A e \in s.flight : e.cmd.id \notin ids
  /\ DOMAIN x = Fields /\ x.bundle = s.bundle /\ x.session = s.session
  /\ x.sessionBoot = s.sessionBoot /\ x.flowBoot = s.flowBoot /\ x.caps = s.caps
  /\ x.contexts = s.contexts /\ x.flight = s.flight /\ x.notified = s.notified /\ x.queue = s.queue
  /\ x.attempts = Forget(s.attempts, ids) /\ x.delayed = [s.delayed EXCEPT ![c.flow] = NoId(c.flow)]
  /\ x.states = [s.states EXCEPT ![c.flow] = c] /\ x.pending = [s.pending EXCEPT ![c.flow] = c]

\* The id of a decision that arrives is new.
LEMMA PlaceKept ==
  ASSUME NEW bd \in Scenarios, NEW s, Gateway(s, bd), Short(s), NEW snd, NEW boot, NEW rev, NEW n, NEW ds,
         Kept(s, snd, rev, n, ds), Homed(s, snd, boot), NEW d \in ds, NEW rest \in SUBSET ds, d \notin rest, NEW c, NEW ids, NEW x,
         Places(s, bd, d, c, ids, x)
  PROVE  /\ Gateway(x, bd) /\ Short(x) /\ Kept(x, snd, rev, n, rest) /\ Homed(x, snd, boot)
         /\ x.bundle = s.bundle /\ x.session = s.session /\ x.contexts = s.contexts
         /\ x.states[c.flow] = c /\ \A f \in Flows : f # c.flow => x.states[f] = s.states[f]
<1> DEFINE a == Forget(s.attempts, ids)
           f0 == c.flow
<1>1. f0 \in Flows /\ c.id \in Id
  <2>1. c \in Cmds(bd)
    BY Zenon DEF Places
  <2> QED
    BY <2>1, Zenon DEF Cmds
<1>2. /\ DOMAIN a = DOMAIN s.attempts \ ids /\ DOMAIN a \in SUBSET Id
      /\ \A i \in DOMAIN s.attempts \ ids : a[i] = s.attempts[i]
      /\ a \in [DOMAIN a -> 1 .. MaxAttempts]
  BY ForgetSound, Zenon DEF Gateway
<1>3. s.delayed \in [Flows -> Id] /\ s.states \in [Flows -> Cmds(bd)] /\ s.pending \in [Flows -> Cmds(bd)]
  BY Zenon DEF Gateway
<1>4. /\ DOMAIN x = Fields /\ x.bundle = s.bundle /\ x.session = s.session
      /\ x.sessionBoot = s.sessionBoot /\ x.flowBoot = s.flowBoot /\ x.caps = s.caps
      /\ x.contexts = s.contexts /\ x.flight = s.flight
      /\ x.notified = s.notified /\ x.queue = s.queue /\ x.attempts = a
  BY Zenon DEF Places
<1> HIDE DEF a
<1>5. /\ NoId(f0) \in Id /\ NoId(f0).kind = "none" /\ NoId(f0).flow = f0
  BY <1>1, NoCmdTyped, Zenon
<1>6. /\ x.delayed \in [Flows -> Id] /\ x.delayed[f0] = NoId(f0)
      /\ x.states \in [Flows -> Cmds(bd)] /\ x.states[f0] = c
      /\ x.pending \in [Flows -> Cmds(bd)] /\ x.pending[f0] = c
      /\ \A f \in Flows : f # f0 => /\ x.delayed[f] = s.delayed[f] /\ x.states[f] = s.states[f]
                                    /\ x.pending[f] = s.pending[f]
  <2>1. /\ x.delayed = [s.delayed EXCEPT ![f0] = NoId(f0)] /\ c \in Cmds(bd)
        /\ x.states = [s.states EXCEPT ![f0] = c] /\ x.pending = [s.pending EXCEPT ![f0] = c]
    BY Zenon DEF Places
  <2> QED
    BY <1>1, <1>3, <1>5, <2>1
<1>7. /\ c.id.kind = "decision" /\ c.id.n <= n /\ c.id.flow = f0
      /\ c.op \in {"block", "shape", "revoke"} /\ c.rev # 0
      /\ d.cmd.id = c.id /\ \A e \in ds : e.cmd.id = c.id => e = d
  <2>1. c = d.cmd
    BY Zenon DEF Places
  <2> QED
    BY <2>1, Zenon DEF Kept, Decided
<1>8. Present(c) /\ Own(c, f0)
  BY <1>7, Zenon DEF Present, Own
<1>9. \A i : Old(i, rev, n, ds) => i # c.id
  BY <1>7, Zenon DEF Old
<1>10. /\ \A f \in Flows : s.states[f].id # c.id /\ s.delayed[f] # c.id
       /\ \A e \in s.flight : e.cmd.id # c.id
       /\ c.id \notin DOMAIN s.attempts
       /\ \A k \in snd : k.id # c.id
  BY <1>9, Zenon DEF Kept, Dated
<1> HIDE DEF f0
<1>0. x.flight = s.flight
  BY <1>4, Zenon
<1>11. Gateway(x, bd) /\ Short(x)
  BY <1>2, <1>4, <1>6, Zenon DEF Gateway, Short
<1>12. Owned(x, snd)
  <2>1. ASSUME NEW f \in Flows PROVE Own(x.states[f], f) /\ Own(x.pending[f], f) /\ x.delayed[f].flow = f
    <3>1. CASE f = f0
      BY <1>5, <1>6, <1>8, <3>1, Zenon
    <3>2. CASE f # f0
      BY <1>6, <3>2, Zenon DEF Kept, Owned
    <3> QED
      BY <3>1, <3>2, Zenon
  <2> QED
    BY <1>0, <2>1, Zenon DEF Kept, Owned
<1>13. Last(x, snd)
  <2>1. \A f \in Flows : Present(x.pending[f]) => x.pending[f] = x.states[f]
    BY <1>6, Zenon DEF Kept, Last
  <2>2. ASSUME NEW k \in snd, k.flow \in Flows, x.states[k.flow].id = k.id PROVE x.states[k.flow] = k
    <3>1. k.flow # f0
      BY <1>6, <1>10, <2>2, Zenon
    <3>2. x.states[k.flow] = s.states[k.flow]
      BY <1>6, <2>2, <3>1, Zenon
    <3> QED
      BY <2>2, <3>2, Zenon DEF Kept, Last
  <2> QED
    BY <2>1, <2>2, Zenon DEF Last
<1>14. Apart(x, snd)
  <2>1. c.id # NoId(f0)
    BY <1>5, <1>7, Zenon
  <2>2. ASSUME NEW f \in Flows, Present(x.pending[f])
        PROVE  /\ x.pending[f].id # x.delayed[f]
               /\ \A e \in x.flight : e.cmd.id # x.pending[f].id
               /\ \A k \in snd : k.id # x.pending[f].id
    <3>1. CASE f = f0
      BY <1>4, <1>6, <1>10, <2>1, <3>1, ZenonT(40)
    <3>2. CASE f # f0
      <4>1. x.pending[f] = s.pending[f] /\ x.delayed[f] = s.delayed[f] /\ Present(s.pending[f])
        BY <1>6, <2>2, <3>2, Zenon
      <4>2. /\ s.pending[f].id # s.delayed[f]
            /\ \A e \in s.flight : e.cmd.id # s.pending[f].id
            /\ \A k \in snd : k.id # s.pending[f].id
        BY <4>1, Zenon DEF Kept, Apart
      <4> QED
        BY <1>0, <4>1, <4>2, Zenon
    <3> QED
      BY <3>1, <3>2, Zenon
  <2>3. ASSUME NEW f \in Flows
        PROVE  /\ \A e \in x.flight : e.cmd.id # x.delayed[f]
               /\ \A k \in snd : k.id # x.delayed[f]
    <3>1. CASE f = f0
      <4>1. \A e \in x.flight : e.cmd.id.kind # "none"
        BY <1>4, Zenon DEF Kept, Owned, Sent
      <4>2. \A k \in snd : k.id.kind # "none"
        BY Zenon DEF Kept, Owned, Sent
      <4>3. x.delayed[f].kind = "none"
        BY <1>5, <1>6, <3>1, Zenon
      <4> QED
        BY <4>1, <4>2, <4>3, Zenon
    <3>2. CASE f # f0
      <4>1. x.delayed[f] = s.delayed[f]
        BY <1>6, <3>2, Zenon
      <4>2. (\A e \in s.flight : e.cmd.id # s.delayed[f]) /\ \A k \in snd : k.id # s.delayed[f]
        BY Zenon DEF Kept, Apart
      <4> QED
        BY <1>0, <4>1, <4>2, Zenon
    <3> QED
      BY <3>1, <3>2, Zenon
  <2>4. \A e \in x.flight : /\ \A y \in x.flight : y.cmd.id = e.cmd.id => y = e
                            /\ \A k \in snd : k.id # e.cmd.id
    BY <1>4, Zenon DEF Kept, Apart
  <2> QED
    BY <2>2, <2>3, <2>4, Zenon DEF Apart
<1>15. Counted(x, snd)
  <2>1. \A i : Spare(s, i) => Spare(x, i)
    BY <1>2, <1>4, Zenon DEF Spare
  <2>2. Spare(x, c.id)
    BY <1>2, <1>4, <1>10, Zenon DEF Spare
  <2>3. ASSUME NEW e \in x.flight PROVE e.cmd.id \in DOMAIN x.attempts /\ x.attempts[e.cmd.id] = e.attempts
    <3>1. e \in s.flight /\ e.cmd.id \notin ids
      BY <1>4, Zenon DEF Places
    <3>2. e.cmd.id \in DOMAIN s.attempts /\ s.attempts[e.cmd.id] = e.attempts
      BY <3>1, Zenon DEF Kept, Counted
    <3> QED
      BY <1>2, <1>4, <3>1, <3>2, Zenon
  <2>4. ASSUME NEW f \in Flows
        PROVE  /\ Present(x.pending[f]) => Spare(x, x.pending[f].id)
               /\ x.delayed[f].kind # "none" => Spare(x, x.delayed[f])
    <3>1. CASE f = f0
      BY <1>5, <1>6, <2>2, <3>1, Zenon
    <3>2. CASE f # f0
      BY <1>6, <2>1, <3>2, Zenon DEF Kept, Counted
    <3> QED
      BY <3>1, <3>2, Zenon
  <2>5. \A k \in snd : Spare(x, k.id)
    BY <2>1, Zenon DEF Kept, Counted
  <2> QED
    BY <2>3, <2>4, <2>5, Zenon DEF Counted
<1>16. Window(x, snd)
  BY <1>4, Zenon DEF Kept, Window
<1>17. Dated(x, snd, rev, n, rest)
  <2>1. \A i : Old(i, rev, n, ds) => Old(i, rev, n, rest)
    BY Zenon DEF Old
  <2>2. Old(c.id, rev, n, rest) /\ Old(NoId(f0), rev, n, rest)
    BY <1>5, <1>7, Zenon DEF Old
  <2>3. ASSUME NEW f \in Flows
        PROVE  Old(x.states[f].id, rev, n, rest) /\ Old(x.delayed[f], rev, n, rest)
    <3>1. CASE f = f0
      BY <1>6, <2>2, <3>1, Zenon
    <3>2. CASE f # f0
      BY <1>6, <2>1, <3>2, Zenon DEF Kept, Dated
    <3> QED
      BY <3>1, <3>2, Zenon
  <2>4. /\ \A e \in x.flight : Old(e.cmd.id, rev, n, rest)
        /\ \A i \in DOMAIN x.attempts : Old(i, rev, n, rest)
        /\ \A k \in snd : Old(k.id, rev, n, rest)
    BY <1>2, <1>4, <2>1, Zenon DEF Kept, Dated
  <2> QED
    BY <2>3, <2>4, Zenon DEF Dated
<1>18. Timely(x)
  <2>1. c.rev = s.bundle
    BY Zenon DEF Places
  <2> QED
    BY <1>4, <1>6, <2>1, Zenon DEF Kept, Timely
<1>19. Decided(x, n, rest)
  BY <1>4, Zenon DEF Kept, Decided
<1>20. Homed(x, snd, boot)
  <2>1. \A f \in Flows : x.states[f].boot \in {0, x.flowBoot} /\ x.pending[f].boot \in {0, x.flowBoot}
    <3> SUFFICES ASSUME NEW f \in Flows
                 PROVE  x.states[f].boot \in {0, x.flowBoot} /\ x.pending[f].boot \in {0, x.flowBoot}
      OBVIOUS
    <3>1. CASE f = f0
      <4>1. c.boot = s.flowBoot
        BY Zenon DEF Places
      <4> QED
        BY <1>4, <1>6, <3>1, <4>1, Zenon
    <3>2. CASE f # f0
      BY <1>4, <1>6, <3>2, Zenon DEF Homed
    <3> QED
      BY <3>1, <3>2, Zenon
  <2> QED
    BY <1>4, <2>1, Zenon DEF Homed
<1>21. Kept(x, snd, rev, n, rest)
  BY <1>12, <1>13, <1>14, <1>15, <1>16, <1>17, <1>18, <1>19, Zenon DEF Kept
<1> QED
  BY <1>4, <1>6, <1>11, <1>20, <1>21, Zenon DEF f0

LEMMA ArriveStep ==
  ASSUME Counting, IInv, bound' = bound, NEW d \in decisions, Arrive(d) PROVE IInv' /\ Calm
<1> DEFINE c == d.cmd
           s == [Base(g, c.boot) EXCEPT !.flowBoot = c.boot]
           old == {s.delayed[c.flow]} \cup ({s.pending[c.flow].id} \ Flying(s))
           x == [s EXCEPT !.delayed[c.flow] = NoId(c.flow), !.states[c.flow] = c,
                          !.pending[c.flow] = c, !.attempts = Forget(s.attempts, old)]
<1>1. /\ sock' = sock /\ UNCHANGED <<agentBoot, expired, clock>> /\ decisions' = decisions \ {d}
      /\ \/ g' = g
         \/ ~Stale(d) /\ (g' = s \/ \E h \in Fills(x) : g' = [h EXCEPT !.notified = TRUE])
  BY Zenon DEF Arrive, Base, Insert
<1>2. /\ bound \in Scenarios /\ Gateway(g, bound) /\ Short(g) /\ Line(g)
      /\ Kept(g, Sending, g.bundle, clock, decisions) /\ Homed(g, Sending, LatchedBy)
      /\ clock \in Nat /\ c \in Cmds(bound) /\ c.flow \in Flows
      /\ \A e \in decisions : e.gen \in Nat
  BY Known, Zenon
<1>3. decisions' \in SUBSET decisions /\ decisions' \in SUBSET Decision
  BY <1>1, Zenon DEF IInv
<1>4. CASE g' = g
  <2>1. /\ sock' \in [Sessions -> Sock] /\ Tasks(sock', g', bound)
        /\ Sending' = Sending /\ LatchedBy' = LatchedBy
    BY <1>1, <1>4, TasksStand, Zenon
  <2>2. Kept(g, Sending, g.bundle, clock, decisions')
    BY <1>2, <1>3, FewerDecisions, Zenon
  <2>3. IInv'
    BY <1>1, <1>2, <1>3, <1>4, <2>1, <2>2, Finish, Zenon DEF IInv
  <2> QED
    BY <1>4, <2>3, Zenon DEF Calm
<1>5. CASE ~Stale(d) /\ (g' = s \/ \E h \in Fills(x) : g' = [h EXCEPT !.notified = TRUE])
  <2>1. /\ g.sessionBoot \in {0, c.boot} /\ c.rev = g.bundle
        /\ Upsert(c) => g.contexts[c.flow] = d.gen
    BY <1>5, Zenon DEF Stale
  <2>2. c.boot \in 0 .. bound.boots
    BY <1>2, Zenon DEF Cmds
  <2> DEFINE b == Base(g, c.boot)
  <2>3. Gateway(b, bound)
    BY <1>2, ClearCommandsSound, Zenon DEF Base
  <2>4. /\ DOMAIN s = Fields /\ s.flowBoot = c.boot /\ s.sessionBoot = b.sessionBoot
        /\ s.bundle = b.bundle /\ s.session = b.session /\ s.caps = b.caps
        /\ s.pending = b.pending /\ s.queue = b.queue /\ s.states = b.states
        /\ s.contexts = b.contexts /\ s.flight = b.flight
        /\ s.attempts = b.attempts /\ s.delayed = b.delayed /\ s.notified = b.notified
    <3> HIDE DEF c, b
    <3>1. s = [b EXCEPT !.flowBoot = c.boot]
      BY Zenon DEF b
    <3> HIDE DEF s
    <3> QED
      BY <2>3, <3>1, Zenon DEF Gateway, Fields
  <2>5. b.sessionBoot = g.sessionBoot
    BY <1>2, Zenon DEF Base, ClearCommands, ClearDelivery, Gateway, Fields
  <2> HIDE DEF s
  <2>6. /\ Gateway(s, bound) /\ Short(s) /\ Line(s) /\ Shrinks(g, s) /\ Homed(s, Sending, LatchedBy)
        /\ s.session = g.session
    <3>1. OfBoot(g, c.boot, s)
      BY <2>4, <2>5, Zenon DEF OfBoot
    <3> HIDE DEF c
    <3> QED
      BY <1>2, <2>1, <2>2, <3>1, Adopts, SMT
  <2>7. Kept(s, Sending, g.bundle, clock, decisions) /\ s.bundle = g.bundle
    <3>1. Sending \in SUBSET Sending
      BY Zenon
    <3> QED
      BY <1>2, <2>6, <3>1, ShrinksKept, Zenon DEF Shrinks
  <2>8. \A f \in Flows : s.states[f] = g.states[f] \/ ~Present(s.states[f])
    BY <1>2, <2>6, NoCmdTyped, Zenon DEF Shrinks
  <2>9. CASE g' = s
    <3>1. /\ sock' \in [Sessions -> Sock] /\ Tasks(sock', g', bound)
          /\ Sending' = Sending /\ LatchedBy' = LatchedBy
      BY <1>1, <2>6, <2>7, <2>9, TasksStand, Zenon
    <3>2. Kept(s, Sending, g.bundle, clock, decisions')
      BY <1>3, <2>7, FewerDecisions, Zenon
    <3>3. Kept(g', Sending', g'.bundle, clock', decisions') /\ Homed(g', Sending', LatchedBy')
      BY <1>1, <2>6, <2>7, <2>9, <3>1, <3>2, Zenon
    <3>4. Gateway(g', bound) /\ Short(g') /\ Line(g')
      BY <2>6, <2>9, Zenon
    <3>5. agentBoot' \in Boots /\ expired' \in SUBSET Id /\ clock' \in 0 .. bound.decisions
      BY <1>1, Zenon DEF IInv
    <3>6. IInv'
      BY <1>3, <3>1, <3>3, <3>4, <3>5, Finish, Zenon
    <3> QED
      BY <2>8, <2>9, <3>6, Zenon DEF Calm
  <2>10. CASE \E h \in Fills(x) : g' = [h EXCEPT !.notified = TRUE]
    <3>1. PICK h \in Fills(x) : g' = [h EXCEPT !.notified = TRUE]
      BY <2>10, Zenon
    <3>2. Places(s, bound, d, c, old, x)
      <4>1. /\ DOMAIN x = Fields /\ x.bundle = s.bundle /\ x.session = s.session
            /\ x.sessionBoot = s.sessionBoot /\ x.flowBoot = s.flowBoot /\ x.caps = s.caps
            /\ x.contexts = s.contexts /\ x.flight = s.flight /\ x.notified = s.notified
            /\ x.queue = s.queue /\ x.attempts = Forget(s.attempts, old)
            /\ x.delayed = [s.delayed EXCEPT ![c.flow] = NoId(c.flow)]
            /\ x.states = [s.states EXCEPT ![c.flow] = c]
            /\ x.pending = [s.pending EXCEPT ![c.flow] = c]
        <5> HIDE DEF old, c
        <5> QED
          BY <2>6, Zenon DEF Gateway, Fields
      <4> HIDE DEF x
      <4>2. s.delayed[c.flow] \in old
        BY Zenon
      <4>3. \A e \in s.flight : e.cmd.id \notin old
        <5>1. \A e \in s.flight : e.cmd.id # s.delayed[c.flow]
          BY <1>2, <2>7, Zenon DEF Kept, Apart
        <5>2. \A e \in s.flight : e.cmd.id \in Flying(s)
          BY Zenon DEF Flying
        <5> QED
          BY <5>1, <5>2, Zenon
      <4>4. c.rev = s.bundle /\ c.boot = s.flowBoot
        BY <2>1, <2>4, <2>7, Zenon
      <4> HIDE DEF old
      <4> QED
        BY <1>2, <4>1, <4>2, <4>3, <4>4, Zenon DEF Places
    <3> HIDE DEF x, old, c
    <3>3. /\ Gateway(x, bound) /\ Short(x) /\ Kept(x, Sending, g.bundle, clock, decisions')
          /\ Homed(x, Sending, LatchedBy) /\ x.bundle = s.bundle /\ x.session = s.session
          /\ x.states[c.flow] = c /\ \A f \in Flows : f # c.flow => x.states[f] = s.states[f]
      <4>1. /\ bound \in Scenarios /\ Gateway(s, bound) /\ Short(s) /\ d \in decisions
            /\ Kept(s, Sending, g.bundle, clock, decisions) /\ Homed(s, Sending, LatchedBy)
            /\ decisions' \in SUBSET decisions /\ d \notin decisions'
        BY <1>1, <1>2, <1>3, <2>6, <2>7, Zenon
      <4> QED
        BY <3>2, <4>1, PlaceKept, SMT
    <3>4. Shrinks(x, h) /\ Stays(x, h) /\ Gateway(h, bound)
      BY <1>2, <3>1, <3>3, FillsShrinks, Zenon
    <3>5. /\ Like(h, g') /\ DOMAIN g' = Fields /\ g'.session = h.session /\ g'.caps = h.caps
          /\ g'.notified = TRUE
      BY <3>1, <3>4, Zenon DEF Gateway, Fields, Like
    <3>6. /\ g'.session \in 0 .. bound.sessions /\ g'.caps \in 0 .. bound.boots
          /\ g'.notified \in BOOLEAN
      BY <3>4, <3>5, Zenon DEF Gateway
    <3>7. g'.session = g.session /\ g'.bundle = g.bundle
      BY <2>6, <2>7, <3>3, <3>4, <3>5, ZenonT(40) DEF Stays, Shrinks, Like
    <3>8. /\ sock' \in [Sessions -> Sock] /\ Tasks(sock', g', bound)
          /\ Sending' = Sending /\ LatchedBy' = LatchedBy
      BY <1>1, <3>7, TasksStand, Zenon
    <3>9. Kept(x, Sending', x.bundle, clock', decisions') /\ Homed(x, Sending', LatchedBy')
      BY <1>1, <2>7, <3>3, <3>8, Zenon
    <3>10. d.gen >= g.contexts[c.flow]
      <4>1. d.gen \in Nat /\ g.contexts[c.flow] \in Nat
        BY <1>2, Zenon DEF Gateway
      <4>2. CASE Upsert(c)
        BY <2>1, <4>1, <4>2
      <4>3. CASE ~Upsert(c)
        <5>1. c.op = "revoke"
          <6>1. c.op \in {"block", "shape", "revoke"}
            BY <1>2, Zenon DEF Kept, Decided, c
          <6> QED
            BY <4>3, <6>1, Zenon DEF Upsert
        <5>2. d.by = Telemetry
          BY <1>2, <5>1, Zenon DEF Kept, Decided, c
        <5>3. g.contexts[c.flow] <= d.gen
          BY <1>2, <5>2, Zenon DEF Kept, Decided
        <5> QED
          BY <4>1, <5>3, Zenon
      <4> QED
        BY <4>2, <4>3, Zenon
    <3>11. \A f \in Flows : \/ x.states[f] = g.states[f] \/ ~Present(x.states[f])
                            \/ x.states[f].id.kind = "revision"
                            \/ \E e \in decisions : x.states[f] = e.cmd /\ e.gen >= g.contexts[f]
      <4> SUFFICES ASSUME NEW f \in Flows
                   PROVE  \/ x.states[f] = g.states[f] \/ ~Present(x.states[f])
                          \/ \E e \in decisions : x.states[f] = e.cmd /\ e.gen >= g.contexts[f]
        BY Zenon
      <4>1. CASE f = c.flow
        BY <3>3, <3>10, <4>1, Zenon DEF c
      <4>2. CASE f # c.flow
        BY <2>8, <3>3, <4>2, Zenon
      <4> QED
        BY <4>1, <4>2, Zenon
    <3>12. UNCHANGED <<agentBoot, expired>> /\ clock' \in 0 .. bound.decisions
      BY <1>1, Zenon DEF IInv
    <3> QED
      BY <1>3, <3>1, <3>3, <3>5, <3>6, <3>8, <3>9, <3>11, <3>12, FillStep, Zenon
  <2> QED
    BY <1>5, <2>9, <2>10, Zenon
<1> QED
  BY <1>1, <1>4, <1>5, Zenon

-----------------------------------------------------------------------------
(* Decisions are made.                                                     *)

\* x is s but for the contexts, the session's boot and what no predicate reads.
SameCommands(s, x) ==
  /\ x.bundle = s.bundle /\ x.pending = s.pending /\ x.states = s.states /\ x.flight = s.flight
  /\ x.attempts = s.attempts /\ x.delayed = s.delayed

\* A set of decisions made after the generation n, up to m, when the contexts are those of x.
Made(x, n, m, new) ==
  /\ \A e \in new : /\ e.cmd.id.kind = "decision" /\ e.cmd.id.n \in Nat /\ e.cmd.id.n > n /\ e.cmd.id.n <= m
                    /\ e.cmd.id.flow = e.cmd.flow /\ e.cmd.op \in {"block", "shape", "revoke"}
                    /\ e.cmd.rev # 0 /\ (e.cmd.op = "revoke" => e.by = Telemetry)
                    /\ e.by = Telemetry => \A f \in Flows : x.contexts[f] <= e.gen
  /\ \A e, o \in new : e.cmd.id = o.cmd.id => e = o
  /\ \A f \in Flows : x.contexts[f] <= m

LEMMA NewDecisions ==
  ASSUME NEW bd \in Scenarios, NEW s, Gateway(s, bd), NEW snd \in SUBSET Cmds(bd), NEW rev,
         NEW n \in Nat, NEW ds, Kept(s, snd, rev, n, ds), NEW x, SameCommands(s, x),
         NEW m \in Nat, n <= m, NEW new, Made(x, n, m, new),
         \A d \in ds : d.cmd.id \in Id,
         \A d \in ds : d.by = Telemetry => \A f \in Flows : x.contexts[f] <= d.gen
  PROVE  Kept(x, snd, rev, m, ds \cup new)
<1>1. \A i \in Id : i.n \in Nat
  BY Zenon DEF Id
<1>2. ASSUME NEW i \in Id, Old(i, rev, n, ds) PROVE Old(i, rev, m, ds \cup new)
  <2>1. i.n \in Nat /\ (i.kind = "revision" => i.n <= rev)
    BY <1>1, <1>2, Zenon DEF Old
  <2>2. ASSUME i.kind = "decision" PROVE i.n <= m /\ \A d \in ds \cup new : d.cmd.id # i
    <3>1. i.n <= n /\ \A d \in ds : d.cmd.id # i
      BY <1>2, <2>2, Zenon DEF Old
    <3>2. i.n <= m
      BY <2>1, <3>1
    <3>3. ASSUME NEW d \in new PROVE d.cmd.id # i
      <4>1. d.cmd.id.n \in Nat /\ d.cmd.id.n > n
        BY Zenon DEF Made
      <4>2. d.cmd.id.n # i.n
        BY <2>1, <3>1, <4>1
      <4> QED
        BY <4>2, Zenon
    <3> QED
      BY <3>1, <3>2, <3>3, Zenon
  <2> QED
    BY <2>1, <2>2, Zenon DEF Old
<1>3. /\ \A f \in Flows : s.states[f].id \in Id /\ s.delayed[f] \in Id
      /\ \A e \in s.flight : e.cmd.id \in Id
      /\ \A i \in DOMAIN s.attempts : i \in Id
      /\ \A c \in snd : c.id \in Id
  <2>1. \A c \in Cmds(bd) : c.id \in Id
    BY Zenon DEF Cmds
  <2>2. /\ s.states \in [Flows -> Cmds(bd)] /\ s.delayed \in [Flows -> Id]
        /\ DOMAIN s.attempts \in SUBSET Id
        /\ s.flight \in SUBSET [cmd : Cmds(bd), attempts : 1 .. MaxAttempts]
    BY Zenon DEF Gateway
  <2>3. \A e \in s.flight : e.cmd \in Cmds(bd)
    BY <2>2, Zenon
  <2> QED
    BY <2>1, <2>2, <2>3, Zenon
<1>4. Dated(x, snd, rev, m, ds \cup new)
  <2>1. \A f \in Flows : Old(s.states[f].id, rev, m, ds \cup new) /\ Old(s.delayed[f], rev, m, ds \cup new)
    BY <1>2, <1>3, Zenon DEF Kept, Dated
  <2>2. /\ \A e \in s.flight : Old(e.cmd.id, rev, m, ds \cup new)
        /\ \A i \in DOMAIN s.attempts : Old(i, rev, m, ds \cup new)
        /\ \A c \in snd : Old(c.id, rev, m, ds \cup new)
    BY <1>2, <1>3, Zenon DEF Kept, Dated
  <2> QED
    BY <2>1, <2>2, Zenon DEF Dated, SameCommands
<1>5. \A d \in ds : d.cmd.id.n \in Nat /\ d.cmd.id.n <= n /\ d.cmd.id.n <= m
  <2>1. \A d \in ds : d.cmd.id.n \in Nat /\ d.cmd.id.n <= n
    BY <1>1, Zenon DEF Kept, Decided
  <2> QED
    BY <2>1
<1>6. ASSUME NEW d \in ds, NEW e \in new PROVE d.cmd.id # e.cmd.id
  <2>1. e.cmd.id.n \in Nat /\ e.cmd.id.n > n
    BY Zenon DEF Made
  <2>2. d.cmd.id.n # e.cmd.id.n
    BY <1>5, <2>1
  <2> QED
    BY <2>2, Zenon
<1>7. Decided(x, m, ds \cup new)
  <2>1. \A f \in Flows : x.contexts[f] <= m
    BY Zenon DEF Made
  <2>2. ASSUME NEW d \in ds
        PROVE  /\ d.cmd.id.kind = "decision" /\ d.cmd.id.n <= m /\ d.cmd.id.flow = d.cmd.flow
               /\ d.cmd.op \in {"block", "shape", "revoke"} /\ d.cmd.rev # 0
               /\ d.cmd.op = "revoke" => d.by = Telemetry
               /\ d.by = Telemetry => \A f \in Flows : x.contexts[f] <= d.gen
               /\ \A e \in ds \cup new : e.cmd.id = d.cmd.id => e = d
    <3>1. \A e \in ds \cup new : e.cmd.id = d.cmd.id => e = d
      BY <1>6, Zenon DEF Kept, Decided
    <3> QED
      BY <1>5, <3>1, Zenon DEF Kept, Decided
  <2>3. ASSUME NEW d \in new
        PROVE  /\ d.cmd.id.kind = "decision" /\ d.cmd.id.n <= m /\ d.cmd.id.flow = d.cmd.flow
               /\ d.cmd.op \in {"block", "shape", "revoke"} /\ d.cmd.rev # 0
               /\ d.cmd.op = "revoke" => d.by = Telemetry
               /\ d.by = Telemetry => \A f \in Flows : x.contexts[f] <= d.gen
               /\ \A e \in ds \cup new : e.cmd.id = d.cmd.id => e = d
    <3>1. \A e \in ds \cup new : e.cmd.id = d.cmd.id => e = d
      BY <1>6, Zenon DEF Made
    <3> QED
      BY <3>1, Zenon DEF Made
  <2> QED
    BY <2>1, <2>2, <2>3, Zenon DEF Decided
<1>8. \A i : Spare(s, i) => Spare(x, i)
  BY Zenon DEF Spare, SameCommands
<1>9. Owned(x, snd) /\ Last(x, snd) /\ Window(x, snd) /\ Timely(x)
  BY Zenon DEF Kept, Owned, Last, Window, Timely, SameCommands
<1>10. Apart(x, snd)
  <2>1. x.pending = s.pending /\ x.flight = s.flight /\ x.delayed = s.delayed
    BY Zenon DEF SameCommands
  <2> QED
    BY <2>1, Zenon DEF Kept, Apart
<1>11. Counted(x, snd)
  <2>1. x.pending = s.pending /\ x.flight = s.flight /\ x.delayed = s.delayed /\ x.attempts = s.attempts
    BY Zenon DEF SameCommands
  <2> QED
    BY <1>8, <2>1, Zenon DEF Kept, Counted
<1> QED
  BY <1>4, <1>7, <1>9, <1>10, <1>11, Zenon DEF Kept

\* The command of a new decision.
Chosen(by, f, b, rev, op, gen, d) ==
  /\ by \in Sessions \cup {Telemetry} /\ f \in Flows /\ b \in Boots /\ rev \in Revs
  /\ op \in {"block", "shape", "revoke"} /\ gen \in Nat /\ d = Decide(by, f, b, rev, op, gen)

LEMMA DecideTyped ==
  ASSUME IInv, NEW by, NEW f, NEW b, NEW rev, NEW op, NEW gen, NEW d,
         Chosen(by, f, b, rev, op, gen, d)
  PROVE  /\ d \in Decision /\ d.by = by /\ d.gen = gen /\ d.cmd.flow = f /\ d.cmd.rev = rev /\ d.cmd.op = op
         /\ d.cmd.id.kind = "decision" /\ d.cmd.id.n = clock + 1 /\ d.cmd.id.flow = f
<1> DEFINE i == [kind |-> "decision", n |-> clock + 1, flow |-> f]
           c == [id |-> i, flow |-> f, boot |-> b, rev |-> rev, op |-> op]
<1>1. /\ clock + 1 \in Nat /\ by \in Sessions \cup {Telemetry} /\ f \in Flows /\ b \in Boots
      /\ rev \in Revs /\ op \in {"block", "shape", "revoke"} /\ gen \in Nat
      /\ d = Decide(by, f, b, rev, op, gen)
  BY Known DEF Chosen
<1>2. i \in Id /\ i.kind = "decision" /\ i.n = clock + 1 /\ i.flow = f
  BY <1>1, Zenon DEF Id
<1> HIDE DEF i
<1>3. c \in Cmd /\ c.id = i /\ c.flow = f /\ c.rev = rev /\ c.op = op
  BY <1>1, <1>2, Zenon DEF Cmd, Op
<1>4. c = NewCmd(f, b, rev, op)
  BY Zenon DEF NewCmd, i
<1> HIDE DEF c
<1> DEFINE ready == op # "revoke"
<1>5. d = [cmd |-> c, gen |-> gen, ready |-> ready, by |-> by] /\ ready \in BOOLEAN
  BY <1>1, <1>4, Zenon DEF Decide
<1> HIDE DEF ready
<1>6. d \in Decision /\ d.by = by /\ d.gen = gen /\ d.cmd = c
  BY <1>1, <1>3, <1>5 DEF Decision
<1> QED
  BY <1>2, <1>3, <1>6, Zenon

\* A step that makes decisions, after the state of the hub has become s.
LEMMA DecideStep ==
  ASSUME IInv, bound' = bound, NEW s, Gateway(s, bound), SameCommands(s, g'), s.bundle = g.bundle,
         Gateway(g', bound), Short(g'), Line(g'),
         sock' \in [Sessions -> Sock], Tasks(sock', g', bound), UNCHANGED <<agentBoot, expired>>,
         clock' \in 0 .. bound.decisions, clock <= clock',
         NEW new \in SUBSET Decision, decisions' = decisions \cup new, Made(g', clock, clock', new),
         \A d \in decisions : d.by = Telemetry => \A f \in Flows : g'.contexts[f] <= d.gen,
         Kept(s, Sending', g.bundle, clock, decisions), Homed(g', Sending', LatchedBy'),
         Sending' \in SUBSET Cmds(bound),
         \A f \in Flows : s.states[f] = g.states[f] \/ ~Present(s.states[f])
  PROVE  IInv' /\ Calm
<1>1. /\ bound \in Scenarios /\ clock \in Nat /\ decisions \in SUBSET Decision /\ bound.decisions \in Nat
      /\ \A d \in decisions : d.cmd \in Cmd
  BY Known, Zenon DEF IInv
<1>2. clock' \in Nat
  BY <1>1
<1>3. \A d \in decisions : d.cmd.id \in Id
  BY <1>1, Zenon DEF Cmd
<1>4. Kept(g', Sending', g.bundle, clock', decisions \cup new)
  BY <1>1, <1>2, <1>3, NewDecisions, Zenon
<1>5. Kept(g', Sending', g'.bundle, clock', decisions')
  BY <1>4, Zenon DEF SameCommands
<1>6. decisions' \in SUBSET Decision /\ agentBoot' \in Boots /\ expired' \in SUBSET Id
  BY <1>1, Zenon DEF IInv
<1>7. IInv'
  BY <1>5, <1>6, Finish, Zenon
<1>8. Calm
  BY Zenon DEF Calm, SameCommands
<1> QED
  BY <1>7, <1>8, Zenon

\* What the session's task is writing is made of commands.
LEMMA SendingTyped == ASSUME IInv PROVE Sending \in SUBSET Cmds(bound)
<1>1. CASE g.session = 0
  BY <1>1, Zenon DEF Sending
<1>2. CASE g.session # 0
  <2>1. g.session \in Sessions
    BY <1>2, Known, SMTT(30) DEF Gateway, Sessions
  <2>2. sock[g.session].sending \subseteq Cmd
    BY <2>1, Task, Zenon
  <2> QED
    BY <1>2, <2>2, Known, Zenon DEF Sending
<1> QED
  BY <1>1, <1>2, Zenon

LEMMA ClassifyStep ==
  ASSUME Counting, IInv, bound' = bound, NEW f \in bound.flows, NEW b \in 1 .. agentBoot, Classify(f, b)
  PROVE  IInv' /\ Calm
<1> DEFINE s == IF Refused(b) THEN g ELSE Adopted(b)
           kept == ~Refused(b) /\ Remembers(s, f)
<1>1. /\ Free(Telemetry) /\ clock < bound.decisions /\ clock' = clock + 1
      /\ sock' = sock /\ UNCHANGED <<agentBoot, expired>>
      /\ g' = IF kept THEN [s EXCEPT !.contexts[f] = clock + 1] ELSE s
  BY Zenon DEF Classify
<1>2. PICK op \in {"block", "shape", "revoke"}, rev \in 1 .. g.bundle :
        decisions' = IF kept \/ op = "revoke"
                     THEN decisions \cup {Decide(Telemetry, f, b, rev, op, clock + 1)} ELSE decisions
  BY Zenon DEF Classify
<1>3. /\ bound \in Scenarios /\ Gateway(g, bound) /\ Short(g) /\ Line(g)
      /\ Kept(g, Sending, g.bundle, clock, decisions) /\ Homed(g, Sending, LatchedBy)
      /\ clock \in Nat /\ bound.decisions \in Nat /\ bound.boots \in Nat /\ g.bundle \in 0 .. bound.revs
      /\ bound.revs \in Nat /\ f \in Flows /\ \A e \in decisions : e.gen \in Nat
  BY Known, Zenon DEF Gateway
<1>4. b \in 0 .. bound.boots /\ b \in Boots
  BY <1>3, SMTT(30) DEF IInv, Boots
<1>5. /\ Gateway(s, bound) /\ Short(s) /\ Line(s) /\ Shrinks(g, s) /\ Homed(s, Sending, LatchedBy)
      /\ s.session = g.session
  <2>1. CASE Refused(b)
    <3>1. Like(g, g)
      BY Zenon DEF Like
    <3> QED
      BY <1>3, <2>1, <3>1, LikeShrinks, Zenon
  <2>2. CASE ~Refused(b)
    <3> DEFINE h == Base(g, b)
    <3>1. Gateway(h, bound)
      BY <1>3, ClearCommandsSound, Zenon DEF Base
    <3>2. s = [h EXCEPT !.flowBoot = b, !.sessionBoot = b]
      BY <2>2, Zenon DEF Adopted, Base
    <3> HIDE DEF s, h
    <3>3. /\ DOMAIN s = Fields /\ s.flowBoot = b /\ s.sessionBoot = b
          /\ s.bundle = h.bundle /\ s.session = h.session /\ s.caps = h.caps
          /\ s.pending = h.pending /\ s.queue = h.queue /\ s.states = h.states
          /\ s.contexts = h.contexts /\ s.flight = h.flight
          /\ s.attempts = h.attempts /\ s.delayed = h.delayed /\ s.notified = h.notified
      BY <3>1, <3>2, Zenon DEF Gateway, Fields
    <3>4. OfBoot(g, b, s)
      BY <3>3, Zenon DEF OfBoot, h
    <3>5. g.sessionBoot \in {0, b}
      BY <2>2, Zenon DEF Refused
    <3> QED
      BY <1>3, <1>4, <3>4, <3>5, Adopts, SMTT(30)
  <2> QED
    BY <2>1, <2>2, Zenon
<1>6. Kept(s, Sending, g.bundle, clock, decisions) /\ s.bundle = g.bundle
  <2>1. Sending \in SUBSET Sending
    BY Zenon
  <2> HIDE DEF s
  <2> QED
    BY <1>3, <1>5, <2>1, ShrinksKept, Zenon DEF Shrinks
<1>7. /\ s.contexts \in [Flows -> Nat] /\ \A e \in Flows : s.contexts[e] <= clock
  BY <1>5, <1>6, Zenon DEF Gateway, Kept, Decided
<1>8. \A e \in Flows : s.states[e] = g.states[e] \/ ~Present(s.states[e])
  BY <1>3, <1>5, NoCmdTyped, ZenonT(40) DEF Shrinks
<1> HIDE DEF s, kept
<1>9. /\ DOMAIN g' = Fields /\ SameCommands(s, g') /\ g'.session = s.session
      /\ g'.sessionBoot = s.sessionBoot /\ g'.flowBoot = s.flowBoot /\ g'.queue = s.queue
      /\ g'.caps = s.caps /\ g'.notified = s.notified
      /\ g'.contexts = IF kept THEN [s.contexts EXCEPT ![f] = clock + 1] ELSE s.contexts
  <2>1. CASE kept
    <3>1. g' = [s EXCEPT !.contexts = [s.contexts EXCEPT ![f] = clock + 1]]
      BY <1>1, <2>1, Zenon
    <3> QED
      BY <1>5, <2>1, <3>1, Zenon DEF Gateway, Fields, SameCommands
  <2>2. CASE ~kept
    BY <1>1, <1>5, <2>2, Zenon DEF Gateway, SameCommands
  <2> QED
    BY <2>1, <2>2, Zenon
<1>10. g'.contexts \in [Flows -> Nat] /\ \A e \in Flows : g'.contexts[e] <= clock + 1
  BY <1>3, <1>7, <1>9, SMTT(30)
<1>11. Gateway(g', bound) /\ Short(g') /\ Line(g') /\ Homed(g', Sending, LatchedBy)
  BY <1>5, <1>9, <1>10, Zenon DEF Gateway, Short, Line, Homed, SameCommands
<1>12. /\ sock' \in [Sessions -> Sock] /\ Tasks(sock', g', bound)
       /\ Sending' = Sending /\ LatchedBy' = LatchedBy
  BY <1>1, <1>5, <1>6, <1>9, TasksStand, Zenon DEF SameCommands
<1> DEFINE d == Decide(Telemetry, f, b, rev, op, clock + 1)
<1>13. /\ d \in Decision /\ d.by = Telemetry /\ d.gen = clock + 1 /\ d.cmd.flow = f /\ d.cmd.rev = rev
       /\ d.cmd.op = op /\ d.cmd.id.kind = "decision" /\ d.cmd.id.n = clock + 1 /\ d.cmd.id.flow = f
  <2>1. Telemetry \in Sessions \cup {Telemetry} /\ rev \in Revs /\ clock + 1 \in Nat
    BY <1>2, <1>3, SMTT(30) DEF Revs
  <2>2. Chosen(Telemetry, f, b, rev, op, clock + 1, d)
    BY <1>3, <1>4, <2>1, Zenon DEF Chosen
  <2> HIDE DEF d
  <2> QED
    BY <2>2, DecideTyped, SMTT(30)
<1> HIDE DEF d
<1>14. Made(g', clock, clock', {d}) /\ Made(g', clock, clock', {})
  <2>1. /\ clock + 1 \in Nat /\ clock + 1 > clock /\ clock + 1 <= clock + 1 /\ rev # 0
    BY <1>2, <1>3, SMTT(30)
  <2> QED
    BY <1>1, <1>10, <1>13, <2>1, Zenon DEF Made
<1>15. \A e \in decisions : e.by # Telemetry
  BY <1>1, Zenon DEF Free
<1>16. \E new \in SUBSET Decision : decisions' = decisions \cup new /\ Made(g', clock, clock', new)
  <2>1. CASE kept \/ op = "revoke"
    <3>1. decisions' = decisions \cup {d}
      BY <1>2, <2>1, Zenon DEF d
    <3> QED
      BY <1>13, <1>14, <3>1, Zenon
  <2>2. CASE ~(kept \/ op = "revoke")
    <3>1. decisions' = decisions \cup {}
      BY <1>2, <2>2, Zenon
    <3> QED
      BY <1>14, <3>1, Zenon
  <2> QED
    BY <2>1, <2>2, Zenon
<1>17. clock' \in 0 .. bound.decisions /\ clock <= clock'
  BY <1>1, <1>3, SMTT(30)
<1>18. Sending' \in SUBSET Cmds(bound)
  BY <1>12, SendingTyped, Zenon
<1>19. Kept(s, Sending', g.bundle, clock, decisions) /\ Homed(g', Sending', LatchedBy')
  BY <1>6, <1>11, <1>12, Zenon
<1> QED
  BY <1>1, <1>5, <1>6, <1>8, <1>9, <1>11, <1>12, <1>15, <1>16, <1>17, <1>18, <1>19, DecideStep, ZenonT(30)

LEMMA EndedStep ==
  ASSUME IInv, bound' = bound, NEW f \in bound.flows, NEW b \in 1 .. agentBoot, Ended(f, b)
  PROVE  IInv' /\ Calm
<1>1. /\ Free(Telemetry) /\ clock < bound.decisions /\ clock' = clock + 1
      /\ sock' = sock /\ UNCHANGED <<agentBoot, expired>>
      /\ g' = IF b = g.flowBoot THEN [g EXCEPT !.contexts[f] = 0] ELSE g
  BY Zenon DEF Ended
<1>2. PICK rev \in 1 .. g.bundle :
        decisions' = decisions \cup {Decide(Telemetry, f, b, rev, "revoke", clock + 1)}
  BY Zenon DEF Ended
<1>3. /\ bound \in Scenarios /\ Gateway(g, bound) /\ Short(g) /\ Line(g)
      /\ Kept(g, Sending, g.bundle, clock, decisions) /\ Homed(g, Sending, LatchedBy)
      /\ clock \in Nat /\ bound.decisions \in Nat /\ bound.boots \in Nat /\ g.bundle \in 0 .. bound.revs
      /\ bound.revs \in Nat /\ f \in Flows /\ \A e \in decisions : e.gen \in Nat
  BY Known, Zenon DEF Gateway
<1>4. b \in 0 .. bound.boots /\ b \in Boots
  BY <1>3, SMTT(30) DEF IInv, Boots
<1>5. /\ g.contexts \in [Flows -> Nat] /\ \A e \in Flows : g.contexts[e] <= clock
  BY <1>3, Zenon DEF Gateway, Kept, Decided
<1>6. /\ DOMAIN g' = Fields /\ SameCommands(g, g') /\ g'.session = g.session
      /\ g'.sessionBoot = g.sessionBoot /\ g'.flowBoot = g.flowBoot /\ g'.queue = g.queue
      /\ g'.caps = g.caps /\ g'.notified = g.notified
      /\ g'.contexts = [g.contexts EXCEPT ![f] = 0] \/ g'.contexts = g.contexts
  <2>1. CASE b = g.flowBoot
    <3>1. g' = [g EXCEPT !.contexts = [g.contexts EXCEPT ![f] = 0]]
      BY <1>1, <2>1, Zenon
    <3> QED
      BY <1>3, <3>1, Zenon DEF Gateway, Fields, SameCommands
  <2>2. CASE b # g.flowBoot
    BY <1>1, <1>3, <2>2, Zenon DEF Gateway, SameCommands
  <2> QED
    BY <2>1, <2>2, Zenon
<1>7. g'.contexts \in [Flows -> Nat] /\ \A e \in Flows : g'.contexts[e] <= clock + 1
  BY <1>3, <1>5, <1>6, SMTT(30)
<1>8. Gateway(g', bound) /\ Short(g') /\ Line(g') /\ Homed(g', Sending, LatchedBy)
  BY <1>3, <1>6, <1>7, Zenon DEF Gateway, Short, Line, Homed, SameCommands
<1>9. /\ sock' \in [Sessions -> Sock] /\ Tasks(sock', g', bound)
      /\ Sending' = Sending /\ LatchedBy' = LatchedBy
  BY <1>1, <1>6, TasksStand, Zenon DEF SameCommands
<1> DEFINE d == Decide(Telemetry, f, b, rev, "revoke", clock + 1)
<1>10. /\ d \in Decision /\ d.by = Telemetry /\ d.gen = clock + 1 /\ d.cmd.flow = f /\ d.cmd.rev = rev
       /\ d.cmd.op = "revoke" /\ d.cmd.id.kind = "decision" /\ d.cmd.id.n = clock + 1 /\ d.cmd.id.flow = f
  <2>1. Telemetry \in Sessions \cup {Telemetry} /\ rev \in Revs /\ clock + 1 \in Nat
    BY <1>2, <1>3, SMTT(30) DEF Revs
  <2>2. Chosen(Telemetry, f, b, rev, "revoke", clock + 1, d)
    BY <1>3, <1>4, <2>1, Zenon DEF Chosen
  <2> HIDE DEF d
  <2> QED
    BY <2>2, DecideTyped, SMTT(30)
<1>11. decisions' = decisions \cup {d}
  BY <1>2, Zenon
<1> HIDE DEF d
<1>12. Made(g', clock, clock', {d})
  <2>1. /\ clock + 1 \in Nat /\ clock + 1 > clock /\ clock + 1 <= clock + 1 /\ rev # 0
    BY <1>2, <1>3, SMTT(30)
  <2> QED
    BY <1>1, <1>7, <1>10, <2>1, Zenon DEF Made
<1>13. \A e \in decisions : e.by # Telemetry
  BY <1>1, Zenon DEF Free
<1>14. clock' \in 0 .. bound.decisions /\ clock <= clock' /\ {d} \in SUBSET Decision
  BY <1>1, <1>3, <1>10, SMTT(30)
<1>15. Sending' \in SUBSET Cmds(bound)
  BY <1>9, SendingTyped, Zenon
<1>16. Kept(g, Sending', g.bundle, clock, decisions) /\ Homed(g', Sending', LatchedBy')
  BY <1>3, <1>8, <1>9, Zenon
<1> QED
  BY <1>1, <1>3, <1>6, <1>8, <1>9, <1>11, <1>12, <1>13, <1>14, <1>15, <1>16, DecideStep, ZenonT(30)

\* The evaluation of the contexts by the task t, when the hub has become s.
LEMMA EvaluateFields ==
  ASSUME NEW bd \in Scenarios, NEW s, Gateway(s, bd), Short(s), Line(s), NEW t, NEW out, Evaluate(t, s, out)
  PROVE  /\ Gateway(g', bd) /\ Short(g') /\ Line(g') /\ SameCommands(s, g') /\ g'.session = s.session
         /\ g'.sessionBoot = s.sessionBoot /\ g'.flowBoot = s.flowBoot
         /\ \A f \in Flows : g'.contexts[f] = s.contexts[f] \/ g'.contexts[f] = 0
<1> DEFINE cs == [f \in Flows |-> IF f \in DOMAIN out /\ out[f] = "expired" THEN 0 ELSE s.contexts[f]]
<1>1. g' = [s EXCEPT !.contexts = cs]
  BY Zenon DEF Evaluate
<1>2. s.contexts \in [Flows -> Nat]
  BY Zenon DEF Gateway
<1>3. cs \in [Flows -> Nat] /\ \A f \in Flows : cs[f] = s.contexts[f] \/ cs[f] = 0
  BY <1>2, Zenon
<1> HIDE DEF cs
<1>4. /\ DOMAIN g' = Fields /\ SameCommands(s, g') /\ g'.session = s.session
      /\ g'.sessionBoot = s.sessionBoot /\ g'.flowBoot = s.flowBoot /\ g'.queue = s.queue
      /\ g'.caps = s.caps /\ g'.notified = s.notified /\ g'.contexts = cs
  BY <1>1, Zenon DEF Gateway, Fields, SameCommands
<1>5. Gateway(g', bd) /\ Short(g') /\ Line(g')
  BY <1>3, <1>4, Zenon DEF Gateway, Short, Line, SameCommands
<1> QED
  BY <1>3, <1>4, <1>5, Zenon

LEMMA EvaluateStep ==
  ASSUME IInv, bound' = bound, NEW s, Gateway(s, bound), Short(s), Line(s), s.bundle = g.bundle, g.bundle # 0,
         NEW t \in Sessions, NEW out, out \in [DOMAIN out -> Outcomes], DOMAIN out \in SUBSET Flows,
         Evaluate(t, s, out),
         sock' \in [Sessions -> Sock], Tasks(sock', g', bound), UNCHANGED <<agentBoot, expired>>,
         Kept(s, Sending', g.bundle, clock, decisions), Homed(s, Sending', LatchedBy'),
         Sending' \in SUBSET Cmds(bound),
         \A f \in Flows : s.states[f] = g.states[f] \/ ~Present(s.states[f])
  PROVE  IInv' /\ Calm
<1> DEFINE made == {f \in DOMAIN out : out[f] \in {"block", "shape"}}
           D(f) == Decide(t, f, s.flowBoot, s.bundle, out[f], s.contexts[f])
           new == {D(f) : f \in made}
<1>1. /\ decisions' = decisions \cup new /\ (made # {} => clock < bound.decisions)
      /\ clock' = IF made = {} THEN clock ELSE clock + 1
  BY Zenon DEF Evaluate
<1>2. /\ bound \in Scenarios /\ clock \in Nat /\ bound.decisions \in Nat /\ clock \in 0 .. bound.decisions
      /\ \A e \in decisions : e.gen \in Nat
  BY Known, Zenon DEF IInv
<1>3. /\ Gateway(g', bound) /\ Short(g') /\ Line(g') /\ SameCommands(s, g') /\ g'.session = s.session
      /\ g'.sessionBoot = s.sessionBoot /\ g'.flowBoot = s.flowBoot
      /\ \A f \in Flows : g'.contexts[f] = s.contexts[f] \/ g'.contexts[f] = 0
  BY <1>2, EvaluateFields, Zenon
<1>4. /\ s.contexts \in [Flows -> Nat] /\ s.flowBoot \in Boots /\ s.bundle \in Revs
  BY Zenon DEF Gateway, Boots, Revs
<1>5. t # Telemetry /\ t \in Sessions \cup {Telemetry}
  BY Task, Zenon DEF Telemetry
<1>6. ASSUME NEW f \in made
      PROVE  LET d == D(f) IN
             /\ d \in Decision /\ d.by = t /\ d.cmd.flow = f /\ d.cmd.rev = s.bundle
             /\ d.cmd.op \in {"block", "shape"}
             /\ d.cmd.id.kind = "decision" /\ d.cmd.id.n = clock + 1 /\ d.cmd.id.flow = f
  <2> DEFINE d == D(f)
  <2>1. f \in Flows /\ out[f] \in {"block", "shape", "revoke"} /\ out[f] \in {"block", "shape"}
    BY Zenon
  <2>2. Chosen(t, f, s.flowBoot, s.bundle, out[f], s.contexts[f], d)
    BY <1>4, <1>5, <2>1, Zenon DEF Chosen
  <2> HIDE DEF d
  <2>3. /\ d \in Decision /\ d.by = t /\ d.cmd.flow = f /\ d.cmd.rev = s.bundle /\ d.cmd.op = out[f]
        /\ d.cmd.id.kind = "decision" /\ d.cmd.id.n = clock + 1 /\ d.cmd.id.flow = f
    BY <2>2, DecideTyped, SMTT(30)
  <2>4. d.cmd.op \in {"block", "shape"}
    BY <2>1, <2>3, Zenon
  <2> QED
    BY <2>3, <2>4, Zenon DEF d
<1>7. new \in SUBSET Decision
  <2>1. \A f \in made : D(f) \in Decision
    BY <1>6, Zenon
  <2> HIDE DEF D, made
  <2> QED
    BY <2>1, Zenon
<1>8. clock' \in 0 .. bound.decisions /\ clock <= clock' /\ clock' \in Nat /\ (new # {} => clock' = clock + 1)
  <2>1. new # {} => made # {}
    BY Zenon
  <2> HIDE DEF new, made
  <2> QED
    BY <1>1, <1>2, <2>1, SMTT(30)
<1>9. \A f \in Flows : g'.contexts[f] \in Nat /\ g'.contexts[f] <= s.contexts[f] /\ s.contexts[f] \in Nat
  BY <1>3, <1>4, SMTT(30)
<1>10. \A f \in Flows : g'.contexts[f] <= clock'
  <2>1. \A f \in Flows : s.contexts[f] <= clock
    BY Zenon DEF Kept, Decided
  <2> QED
    BY <1>2, <1>8, <1>9, <2>1, SMTT(30)
<1>11. Made(g', clock, clock', new)
  <2>1. ASSUME NEW e \in new
        PROVE  /\ e.cmd.id.kind = "decision" /\ e.cmd.id.n \in Nat /\ e.cmd.id.n > clock /\ e.cmd.id.n <= clock'
               /\ e.cmd.id.flow = e.cmd.flow /\ e.cmd.op \in {"block", "shape", "revoke"}
               /\ e.cmd.rev # 0 /\ (e.cmd.op = "revoke" => e.by = Telemetry)
               /\ e.by = Telemetry => \A f \in Flows : g'.contexts[f] <= e.gen
    <3>1. PICK f \in made : e = D(f)
      BY Zenon
    <3>2. clock' = clock + 1
      BY <1>8, <2>1, Zenon
    <3> HIDE DEF D, made, new
    <3>3. /\ e.by = t /\ e.cmd.flow = f /\ e.cmd.rev = s.bundle /\ e.cmd.op \in {"block", "shape"}
          /\ e.cmd.id.kind = "decision" /\ e.cmd.id.n = clock + 1 /\ e.cmd.id.flow = f
      BY <1>6, <3>1, Zenon
    <3> QED
      BY <1>2, <1>5, <3>2, <3>3, SMTT(30)
  <2>2. ASSUME NEW e \in new, NEW o \in new, e.cmd.id = o.cmd.id PROVE e = o
    <3>1. PICK f \in made : e = D(f)
      BY Zenon
    <3>2. PICK h \in made : o = D(h)
      BY Zenon
    <3> HIDE DEF D, made, new
    <3>3. e.cmd.id.flow = f /\ o.cmd.id.flow = h
      BY <1>6, <3>1, <3>2, Zenon
    <3>4. f = h
      BY <2>2, <3>3, Zenon
    <3> QED
      BY <3>1, <3>2, <3>4, Zenon
  <2> HIDE DEF new
  <2> QED
    BY <1>10, <2>1, <2>2, Zenon DEF Made
<1>12. \A d \in decisions : d.by = Telemetry => \A f \in Flows : g'.contexts[f] <= d.gen
  <2>1. \A d \in decisions : d.by = Telemetry => \A f \in Flows : s.contexts[f] <= d.gen
    BY Zenon DEF Kept, Decided
  <2> QED
    BY <1>2, <1>9, <2>1, SMTT(30)
<1>13. Homed(g', Sending', LatchedBy')
  BY <1>3, Zenon DEF Homed, SameCommands
<1> HIDE DEF new
<1>14. decisions' = decisions \cup new
  BY <1>1, Zenon
<1> QED
  BY <1>3, <1>7, <1>8, <1>11, <1>12, <1>13, <1>14, DecideStep, ZenonT(30)

-----------------------------------------------------------------------------
(* The socket tasks: health, acknowledgements of the bundle, refresh.      *)

\* What requeue_flow_states leaves for fill_flow_queue.
Requeues(t, x) ==
  /\ DOMAIN x = Fields /\ x.bundle = t.bundle /\ x.session = t.session /\ x.sessionBoot = t.sessionBoot
  /\ x.flowBoot = t.flowBoot /\ x.caps = t.caps /\ x.contexts = t.contexts /\ x.notified = t.notified
  /\ x.queue = t.queue /\ x.states = t.states /\ x.flight = {} /\ x.attempts = <<>>
  /\ x.delayed = NoDelay /\ DOMAIN x.pending = Flows
  /\ x.pending = [f \in Flows |-> x.pending[f]]
  /\ \A f \in Flows : x.pending[f] = t.pending[f] \/ (Present(t.states[f]) /\ x.pending[f] = t.states[f])

LEMMA RequeueKept ==
  ASSUME Counting, NEW bd \in Scenarios, NEW t, Gateway(t, bd), Short(t), NEW boot, NEW rev, NEW n, NEW ds,
         Kept(t, {}, rev, n, ds), Homed(t, {}, boot), NEW x, Requeues(t, x)
  PROVE  Gateway(x, bd) /\ Short(x) /\ Kept(x, {}, rev, n, ds) /\ Homed(x, {}, boot)
<1>1. /\ x.flight = {} /\ x.attempts = <<>> /\ x.delayed = NoDelay /\ x.states = t.states
      /\ \A f \in Flows : x.pending[f] = t.pending[f] \/ (Present(t.states[f]) /\ x.pending[f] = t.states[f])
      /\ x.bundle = t.bundle /\ x.contexts = t.contexts
  BY Zenon DEF Requeues
<1>2. /\ \A f \in Flows : NoDelay[f] = NoId(f) /\ NoId(f).kind = "none" /\ NoId(f).flow = f
      /\ NoDelay \in [Flows -> Id] /\ DOMAIN x.attempts = {}
      /\ x.attempts \in [DOMAIN x.attempts -> 1 .. MaxAttempts]
  BY <1>1, NoCmdTyped, SMTT(30) DEF NoDelay
<1>3. x.pending \in [Flows -> Cmds(bd)]
  <2>1. \A f \in Flows : t.pending[f] \in Cmds(bd) /\ t.states[f] \in Cmds(bd)
    BY Zenon DEF Gateway
  <2>2. \A f \in Flows : x.pending[f] \in Cmds(bd)
    BY <1>1, <2>1, Zenon
  <2>3. x.pending = [f \in Flows |-> x.pending[f]]
    BY Zenon DEF Requeues
  <2> QED
    BY <2>2, <2>3, Zenon
<1>4. Gateway(x, bd) /\ Short(x)
  BY <1>1, <1>2, <1>3, Zenon DEF Gateway, Short, Requeues
<1>5. Owned(x, {})
  BY <1>1, <1>2, Zenon DEF Kept, Owned
<1>6. Last(x, {})
  BY <1>1, Zenon DEF Kept, Last
<1>7. Apart(x, {})
  <2>1. ASSUME NEW f \in Flows, Present(x.pending[f]) PROVE x.pending[f].id # x.delayed[f]
    <3>1. x.pending[f].id.kind # "none"
      BY <1>5, <2>1, Zenon DEF Owned, Own
    <3>2. x.delayed[f].kind = "none"
      BY <1>1, <1>2, ZenonT(40)
    <3> QED
      BY <3>1, <3>2, Zenon
  <2> QED
    BY <1>1, <2>1, Zenon DEF Apart
<1>8. Counted(x, {})
  BY <1>1, <1>2, Zenon DEF Counted, Spare
<1>9. Window(x, {})
  <2>1. IsFiniteSet({}) /\ Cardinality({}) = 0
    BY Zenon DEF Counting
  <2> QED
    BY <1>1, <2>1, FlowAssumption, SMTT(30) DEF Window
<1>10. Dated(x, {}, rev, n, ds)
  <2>1. \A f \in Flows : Old(x.delayed[f], rev, n, ds)
    <3> SUFFICES ASSUME NEW f \in Flows PROVE Old(x.delayed[f], rev, n, ds)
      BY SMTT(30)
    <3>1. x.delayed[f].kind = "none"
      BY <1>1, <1>2, Zenon
    <3> QED
      BY <3>1, Zenon DEF Old
  <2> QED
    BY <1>1, <1>2, <2>1, Zenon DEF Kept, Dated
<1>11. Timely(x) /\ Decided(x, n, ds)
  BY <1>1, Zenon DEF Kept, Timely, Decided
<1>12. Homed(x, {}, boot)
  <2>1. x.flowBoot = t.flowBoot /\ x.sessionBoot = t.sessionBoot
    BY Zenon DEF Requeues
  <2> QED
    BY <1>1, <2>1, Zenon DEF Homed
<1> QED
  BY <1>4, <1>5, <1>6, <1>7, <1>8, <1>9, <1>10, <1>11, <1>12, Zenon DEF Kept

LEMMA LatchedSound ==
  ASSUME Counting, IInv, Sending = {}, NEW b \in Boots, NEW h \in Latched(b)
  PROVE  /\ Gateway(h, bound) /\ Short(h) /\ Line(h) /\ Kept(h, {}, g.bundle, clock, decisions)
         /\ Homed(h, {}, b) /\ h.session = g.session /\ h.bundle = g.bundle
         /\ \A f \in Flows : h.states[f] = g.states[f] \/ ~Present(h.states[f])
<1> DEFINE c == IF g.flowBoot # b THEN ClearCommands(g) ELSE g
           s == IF g.flowBoot # b THEN [ClearCommands(g) EXCEPT !.caps = 0] ELSE g
           t == [s EXCEPT !.sessionBoot = b, !.flowBoot = b]
<1>1. h = t \/ h \in RequeueStates(t)
  BY Zenon DEF Latched
<1>2. /\ bound \in Scenarios /\ Gateway(g, bound) /\ Short(g) /\ Line(g) /\ clock \in Nat
      /\ Kept(g, {}, g.bundle, clock, decisions) /\ Homed(g, {}, LatchedBy)
      /\ \A e \in decisions : e.gen \in Nat
  BY Known, Zenon
<1>3. b \in 0 .. bound.boots /\ 0 \in 0 .. bound.boots
  BY Known, SMTT(30) DEF Boots
<1>4. Gateway(c, bound) /\ Short(c) /\ Line(c) /\ Shrinks(g, c) /\ c.session = g.session /\ c.bundle = g.bundle
  <2>1. CASE g.flowBoot # b
    <3>1. c = ClearCommands(g)
      BY <2>1, Zenon
    <3> HIDE DEF c
    <3> QED
      BY <1>2, <3>1, ClearCommandsSound, Zenon
  <2>2. CASE g.flowBoot = b
    <3>1. Like(g, g) /\ c = g
      BY <2>2, Zenon DEF Like
    <3> QED
      BY <1>2, <3>1, LikeShrinks, Zenon
  <2> QED
    BY <2>1, <2>2, Zenon
<1>5. /\ \A f \in Flows : c.states[f].boot \in {0, b} /\ c.pending[f].boot \in {0, b}
      /\ \A e \in c.flight : e.cmd.boot = b /\ b # 0
  <2>1. CASE g.flowBoot # b
    <3>1. c.states = None /\ c.pending = None /\ c.flight = {}
      BY <1>2, <2>1, ClearCommandsSound, Zenon
    <3>2. \A f \in Flows : None[f].boot = 0
      BY <1>2, NoCmdTyped, Zenon DEF None
    <3> HIDE DEF c
    <3> QED
      BY <3>1, <3>2, Zenon
  <2>2. CASE g.flowBoot = b
    BY <1>2, <2>2, Zenon DEF Homed
  <2> QED
    BY <2>1, <2>2, Zenon
<1>6. /\ DOMAIN t = Fields /\ t.flowBoot = b /\ t.sessionBoot = b /\ t.caps \in 0 .. bound.boots
      /\ t.bundle = c.bundle /\ t.session = c.session
      /\ t.pending = c.pending /\ t.queue = c.queue /\ t.states = c.states
      /\ t.contexts = c.contexts /\ t.flight = c.flight
      /\ t.attempts = c.attempts /\ t.delayed = c.delayed /\ t.notified = c.notified
  <2>1. s = c \/ s = [c EXCEPT !.caps = 0]
    BY Zenon
  <2> HIDE DEF c, s
  <2>2. /\ DOMAIN s = Fields /\ s.caps \in 0 .. bound.boots /\ s.bundle = c.bundle /\ s.session = c.session
        /\ s.pending = c.pending /\ s.queue = c.queue /\ s.states = c.states
        /\ s.contexts = c.contexts /\ s.flight = c.flight
        /\ s.attempts = c.attempts /\ s.delayed = c.delayed /\ s.notified = c.notified
    BY <1>3, <1>4, <2>1, Zenon DEF Gateway, Fields
  <2>3. /\ DOMAIN t = Fields /\ t.flowBoot = b /\ t.sessionBoot = b /\ t.caps = s.caps
        /\ t.bundle = s.bundle /\ t.session = s.session
        /\ t.pending = s.pending /\ t.queue = s.queue /\ t.states = s.states
        /\ t.contexts = s.contexts /\ t.flight = s.flight
        /\ t.attempts = s.attempts /\ t.delayed = s.delayed /\ t.notified = s.notified
    BY <2>2, Zenon DEF Fields
  <2> HIDE DEF t
  <2> QED
    BY <2>2, <2>3, Zenon
<1> HIDE DEF c, s, t
<1>7. Gateway(t, bound) /\ Short(t) /\ Line(t) /\ Shrinks(g, t)
  <2>1. Gateway(t, bound) /\ Short(t) /\ Line(t)
    BY <1>3, <1>4, <1>6, Zenon DEF Gateway, Short, Line
  <2>2. Shrinks(g, t)
    BY <1>4, <1>6, Zenon DEF Shrinks
  <2> QED
    BY <2>1, <2>2, Zenon
<1>8. Kept(t, {}, g.bundle, clock, decisions)
  <2>1. {} \in SUBSET {}
    BY Zenon
  <2> QED
    BY <1>2, <1>7, <2>1, ShrinksKept, Zenon
<1>9. Homed(t, {}, b)
  BY <1>5, <1>6, Zenon DEF Homed
<1>10. \A f \in Flows : t.states[f] = g.states[f] \/ ~Present(t.states[f])
  BY <1>2, <1>7, NoCmdTyped, Zenon DEF Shrinks
<1>11. CASE h = t
  BY <1>4, <1>6, <1>7, <1>8, <1>9, <1>10, <1>11, Zenon
<1>12. CASE h \in RequeueStates(t)
  <2> DEFINE live(f) == Present(t.states[f]) /\ t.states[f].id \notin expired
             p == [f \in Flows |-> IF live(f) THEN t.states[f] ELSE t.pending[f]]
             x == [t EXCEPT !.flight = {}, !.attempts = <<>>, !.delayed = NoDelay, !.pending = p]
  <2>1. PICK k \in Fills(x) : h = NotifyIfQueued(k)
    BY <1>12, Zenon DEF RequeueStates
  <2>2. /\ DOMAIN p = Flows /\ p = [f \in Flows |-> p[f]]
        /\ \A f \in Flows : p[f] = t.pending[f] \/ (Present(t.states[f]) /\ p[f] = t.states[f])
    BY Zenon
  <2> HIDE DEF p
  <2>3. Requeues(t, x)
    <3>1. /\ DOMAIN x = Fields /\ x.bundle = t.bundle /\ x.session = t.session
          /\ x.sessionBoot = t.sessionBoot /\ x.flowBoot = t.flowBoot /\ x.caps = t.caps
          /\ x.contexts = t.contexts /\ x.notified = t.notified /\ x.queue = t.queue
          /\ x.states = t.states /\ x.flight = {} /\ x.attempts = <<>> /\ x.delayed = NoDelay
          /\ x.pending = p
      BY <1>6, Zenon DEF Fields
    <3> HIDE DEF x
    <3> QED
      BY <2>2, <3>1, Zenon DEF Requeues
  <2> HIDE DEF x
  <2>4. Gateway(x, bound) /\ Short(x) /\ Kept(x, {}, g.bundle, clock, decisions) /\ Homed(x, {}, b)
    BY <1>2, <1>7, <1>8, <1>9, <2>3, RequeueKept, Zenon
  <2>5. Shrinks(x, k) /\ Stays(x, k) /\ Gateway(k, bound) /\ Short(k) /\ Line(k)
    BY <1>2, <2>1, <2>4, FillsShrinks, Zenon
  <2>6. Like(k, h) /\ h.session = k.session /\ Gateway(h, bound) /\ Short(h) /\ Line(h) /\ Shrinks(k, h)
    BY <1>2, <2>1, <2>5, NotifyLike, LikeShrinks, Zenon
  <2>7. {} \in SUBSET {}
    BY Zenon
  <2>8. Kept(k, {}, g.bundle, clock, decisions)
    BY <1>2, <2>4, <2>5, <2>7, ShrinksKept, Zenon
  <2>9. Kept(h, {}, g.bundle, clock, decisions)
    BY <1>2, <2>5, <2>6, <2>7, <2>8, ShrinksKept, Zenon
  <2>10. Homed(k, {}, b)
    BY <1>2, <2>4, <2>5, ShrinksHomed, Zenon DEF Stays
  <2>11. Homed(h, {}, b)
    BY <1>2, <2>6, <2>10, ShrinksHomed, Zenon DEF Like
  <2>12. h.session = g.session /\ h.bundle = g.bundle
    BY <1>4, <1>6, <2>3, <2>5, <2>6, ZenonT(40) DEF Requeues, Shrinks, Stays
  <2>13. \A f \in Flows : h.states[f] = g.states[f] \/ ~Present(h.states[f])
    <3>1. \A f \in Flows : k.states[f] = t.states[f] \/ ~Present(k.states[f])
      <4>1. x.states = t.states
        BY <2>3, Zenon DEF Requeues
      <4>2. \A f \in Flows : ~Present(NoCmd(f))
        BY <1>2, NoCmdTyped, Zenon
      <4> QED
        BY <2>5, <4>1, <4>2, Zenon DEF Shrinks
    <3> QED
      BY <1>10, <2>6, <3>1, Zenon DEF Like
  <2> QED
    BY <2>6, <2>9, <2>11, <2>12, <2>13, Zenon
<1> QED
  BY <1>1, <1>11, <1>12, Zenon

LEMMA SockHealthStep ==
  ASSUME Counting, IInv, bound' = bound, NEW s \in Sessions, SockHealth(s) PROVE IInv' /\ Calm
<1> DEFINE b == sock[s].agent
           k == [sock[s] EXCEPT !.boot = b]
<1>1. /\ sock[s].pc = "run" /\ Active(s) /\ sock' = [sock EXCEPT ![s] = k]
      /\ UNCHANGED <<agentBoot, expired>>
  BY Zenon DEF SockHealth, Running
<1>2. PICK h \in Latched(b) :
        \/ g' = h /\ UNCHANGED <<decisions, clock>>
        \/ \E out \in [Contexts(h) -> Outcomes] : Evaluate(s, [h EXCEPT !.caps = b], out)
  BY Zenon DEF SockHealth
<1>3. /\ sock[s] \in Sock /\ g.bundle # 0 /\ sock[s].sending = {} /\ Sending = {} /\ s # 0 /\ g.session = s
  BY <1>1, Task, Zenon DEF Active
<1>4. b \in Boots /\ k \in Sock /\ k.sending = {} /\ k.pc = "run" /\ k.boot = b
  BY <1>1, <1>3, Zenon DEF Sock
<1> HIDE DEF b, k
<1>5. /\ Gateway(h, bound) /\ Short(h) /\ Line(h) /\ Kept(h, {}, g.bundle, clock, decisions)
      /\ Homed(h, {}, b) /\ h.session = g.session /\ h.bundle = g.bundle
      /\ \A f \in Flows : h.states[f] = g.states[f] \/ ~Present(h.states[f])
  BY <1>2, <1>3, <1>4, LatchedSound, Zenon
<1>6. Writes(k, bound)
  BY <1>4, Zenon DEF Writes
<1>7. ASSUME g'.session = s, g'.bundle = g.bundle
      PROVE  sock' \in [Sessions -> Sock] /\ Tasks(sock', g', bound) /\ Sending' = {} /\ LatchedBy' = b
  <2>1. g'.session \in 0 .. bound.sessions
    BY <1>7, Known, SMTT(30) DEF Sessions
  <2> QED
    BY <1>1, <1>3, <1>4, <1>6, <1>7, <2>1, TaskMoves, Zenon
<1>8. CASE g' = h /\ UNCHANGED <<decisions, clock>>
  <2>1. sock' \in [Sessions -> Sock] /\ Tasks(sock', g', bound) /\ Sending' = {} /\ LatchedBy' = b
    BY <1>3, <1>5, <1>7, <1>8, Zenon
  <2>2. Kept(g', Sending', g'.bundle, clock', decisions') /\ Homed(g', Sending', LatchedBy')
    BY <1>5, <1>8, <2>1, Zenon
  <2>3. Gateway(g', bound) /\ Short(g') /\ Line(g')
    BY <1>5, <1>8, Zenon
  <2>4. /\ agentBoot' \in Boots /\ expired' \in SUBSET Id /\ clock' \in 0 .. bound.decisions
        /\ decisions' \in SUBSET Decision
    BY <1>1, <1>8, Zenon DEF IInv
  <2>5. IInv'
    BY <2>1, <2>2, <2>3, <2>4, Finish, Zenon
  <2> QED
    BY <1>5, <1>8, <2>5, Zenon DEF Calm
<1>9. CASE \E out \in [Contexts(h) -> Outcomes] : Evaluate(s, [h EXCEPT !.caps = b], out)
  <2> DEFINE x == [h EXCEPT !.caps = b]
  <2>1. PICK out \in [Contexts(h) -> Outcomes] : Evaluate(s, x, out)
    BY <1>9, Zenon
  <2>2. /\ Like(h, x) /\ DOMAIN x = Fields /\ x.session = h.session /\ x.notified = h.notified /\ x.caps = b
    BY <1>5, Zenon DEF Gateway, Fields, Like
  <2> HIDE DEF x
  <2>3. bound \in Scenarios /\ clock \in Nat /\ \A e \in decisions : e.gen \in Nat
    BY Known, Zenon
  <2>4. Gateway(x, bound) /\ Short(x) /\ Line(x) /\ Shrinks(h, x)
    <3>1. x.session \in 0 .. bound.sessions /\ x.caps \in 0 .. bound.boots /\ x.notified \in BOOLEAN
      BY <1>4, <1>5, <2>2, Zenon DEF Gateway, Boots
    <3> QED
      BY <1>5, <2>2, <2>3, <3>1, LikeSound, LikeShrinks, Zenon
  <2>5. Kept(x, {}, g.bundle, clock, decisions) /\ Homed(x, {}, b)
    <3>1. {} \in SUBSET {}
      BY Zenon
    <3>2. Kept(x, {}, g.bundle, clock, decisions)
      BY <1>5, <2>3, <2>4, <3>1, ShrinksKept, Zenon
    <3>3. Homed(x, {}, b)
      BY <1>5, <2>2, <2>3, <2>4, ShrinksHomed, Zenon DEF Like
    <3> QED
      BY <3>2, <3>3, Zenon
  <2>6. SameCommands(x, g') /\ g'.session = x.session
    BY <2>1, <2>3, <2>4, EvaluateFields, Zenon
  <2>7. x.bundle = g.bundle /\ g'.bundle = g.bundle /\ g'.session = s
    BY <1>3, <1>5, <2>2, <2>6, Zenon DEF SameCommands, Like
  <2>8. sock' \in [Sessions -> Sock] /\ Tasks(sock', g', bound) /\ Sending' = {} /\ LatchedBy' = b
    BY <1>7, <2>7, Zenon
  <2>9. Kept(x, Sending', g.bundle, clock, decisions) /\ Homed(x, Sending', LatchedBy')
    BY <2>5, <2>8, Zenon
  <2>10. out \in [DOMAIN out -> Outcomes] /\ DOMAIN out \in SUBSET Flows /\ Sending' \in SUBSET Cmds(bound)
    BY <2>1, <2>8, Zenon DEF Contexts
  <2>11. \A f \in Flows : x.states[f] = g.states[f] \/ ~Present(x.states[f])
    BY <1>5, <2>2, Zenon DEF Like
  <2> QED
    BY <1>1, <1>3, <2>1, <2>4, <2>7, <2>8, <2>9, <2>10, <2>11, EvaluateStep, ZenonT(30)
<1> QED
  BY <1>2, <1>8, <1>9, Zenon

LEMMA SockAckStep ==
  ASSUME Counting, IInv, bound' = bound, NEW s \in Sessions, SockAck(s) PROVE IInv' /\ Calm
<1> DEFINE x == [g EXCEPT !.caps = sock[s].boot]
<1>1. /\ sock[s].pc = "run" /\ Active(s) /\ sock' = sock /\ UNCHANGED <<agentBoot, expired>>
  BY Zenon DEF SockAck, Running
<1>2. PICK out \in [Contexts(g) -> Outcomes] : Evaluate(s, x, out)
  BY Zenon DEF SockAck
<1>3. /\ sock[s] \in Sock /\ g.bundle # 0
  BY <1>1, Task, Zenon
<1>4. sock[s].boot \in Boots
  BY <1>3, Zenon DEF Sock
<1>5. /\ bound \in Scenarios /\ Gateway(g, bound) /\ Short(g) /\ Line(g) /\ clock \in Nat
      /\ Kept(g, Sending, g.bundle, clock, decisions) /\ Homed(g, Sending, LatchedBy)
      /\ \A e \in decisions : e.gen \in Nat
  BY Known, Zenon
<1>6. /\ Like(g, x) /\ DOMAIN x = Fields /\ x.session = g.session /\ x.notified = g.notified
      /\ x.caps = sock[s].boot
  BY <1>5, Zenon DEF Gateway, Fields, Like
<1> HIDE DEF x
<1>7. Gateway(x, bound) /\ Short(x) /\ Line(x) /\ Shrinks(g, x)
  <2>1. x.session \in 0 .. bound.sessions /\ x.caps \in 0 .. bound.boots /\ x.notified \in BOOLEAN
    BY <1>4, <1>5, <1>6, Zenon DEF Gateway, Boots
  <2> QED
    BY <1>5, <1>6, <2>1, LikeSound, LikeShrinks, Zenon
<1>8. Kept(x, Sending, g.bundle, clock, decisions) /\ Homed(x, Sending, LatchedBy)
  <2>1. Sending \in SUBSET Sending
    BY Zenon
  <2>2. Kept(x, Sending, g.bundle, clock, decisions)
    BY <1>5, <1>7, <2>1, ShrinksKept, Zenon
  <2>3. Homed(x, Sending, LatchedBy)
    BY <1>5, <1>6, <1>7, ShrinksHomed, Zenon DEF Like
  <2> QED
    BY <2>2, <2>3, Zenon
<1>9. SameCommands(x, g') /\ g'.session = x.session
  BY <1>2, <1>5, <1>7, EvaluateFields, Zenon
<1>10. x.bundle = g.bundle /\ g'.bundle = g.bundle /\ g'.session = g.session
  BY <1>6, <1>9, Zenon DEF SameCommands, Like
<1>11. /\ sock' \in [Sessions -> Sock] /\ Tasks(sock', g', bound)
       /\ Sending' = Sending /\ LatchedBy' = LatchedBy
  BY <1>1, <1>10, TasksStand, Zenon
<1>12. Kept(x, Sending', g.bundle, clock, decisions) /\ Homed(x, Sending', LatchedBy')
  BY <1>8, <1>11, Zenon
<1>13. out \in [DOMAIN out -> Outcomes] /\ DOMAIN out \in SUBSET Flows /\ Sending' \in SUBSET Cmds(bound)
  BY <1>2, <1>11, SendingTyped, Zenon DEF Contexts
<1>14. \A f \in Flows : x.states[f] = g.states[f] \/ ~Present(x.states[f])
  BY <1>6, Zenon DEF Like
<1> QED
  BY <1>1, <1>2, <1>3, <1>7, <1>10, <1>11, <1>12, <1>13, <1>14, EvaluateStep, ZenonT(30)

LEMMA SockRefreshStep ==
  ASSUME IInv, bound' = bound, NEW s \in Sessions, SockRefresh(s) PROVE IInv' /\ Calm
<1> DEFINE k == [sock[s] EXCEPT !.pc = "retry"]
<1>1. /\ sock[s].pc = "run" /\ sock' = [sock EXCEPT ![s] = k] /\ UNCHANGED <<agentBoot, expired>>
  BY Zenon DEF SockRefresh, Running
<1>2. \/ \E out \in [Contexts(g) -> IF g.caps = 0 THEN {"expired", "none"} ELSE Outcomes] :
             Evaluate(s, g, out)
      \/ UNCHANGED <<g, decisions, clock>>
  BY Zenon DEF SockRefresh
<1>3. /\ sock[s] \in Sock /\ g.bundle # 0 /\ sock[s].sending = {}
      /\ Active(s) => Sending = sock[s].sending /\ LatchedBy = sock[s].boot
  BY <1>1, Task, Zenon
<1>4. k \in Sock /\ k.sending = sock[s].sending /\ k.pc = "retry" /\ k.boot = sock[s].boot
  BY <1>3, Zenon DEF Sock
<1> HIDE DEF k
<1>5. Writes(k, bound)
  BY <1>3, <1>4, Zenon DEF Writes
<1>6. /\ bound \in Scenarios /\ Gateway(g, bound) /\ Short(g) /\ Line(g) /\ clock \in Nat
      /\ Kept(g, Sending, g.bundle, clock, decisions) /\ Homed(g, Sending, LatchedBy)
      /\ g.session \in 0 .. bound.sessions
  BY Known, Zenon DEF Gateway
<1>7. ASSUME g'.session = g.session, g'.bundle = g.bundle
      PROVE  /\ sock' \in [Sessions -> Sock] /\ Tasks(sock', g', bound)
             /\ Sending' = Sending /\ LatchedBy' = LatchedBy
  <2>1. g'.session \in 0 .. bound.sessions
    BY <1>6, <1>7, Zenon
  <2>2. /\ sock' \in [Sessions -> Sock] /\ Tasks(sock', g', bound)
        /\ g'.session = s => Sending' = k.sending /\ LatchedBy' = k.boot
        /\ g'.session # s => Sending' = Sending /\ LatchedBy' = LatchedBy
    BY <1>1, <1>3, <1>4, <1>5, <1>7, <2>1, TaskMoves, Zenon
  <2>3. g.session = s => Active(s)
    BY Zenon DEF Active
  <2> QED
    BY <1>3, <1>4, <1>7, <2>2, <2>3, Zenon
<1>8. CASE UNCHANGED <<g, decisions, clock>>
  <2>1. /\ sock' \in [Sessions -> Sock] /\ Tasks(sock', g', bound)
        /\ Sending' = Sending /\ LatchedBy' = LatchedBy
    BY <1>7, <1>8, Zenon
  <2>2. IInv'
    BY <1>1, <1>6, <1>8, <2>1, Finish, Zenon DEF IInv
  <2> QED
    BY <1>8, <2>2, Zenon DEF Calm
<1>9. CASE \E out \in [Contexts(g) -> IF g.caps = 0 THEN {"expired", "none"} ELSE Outcomes] :
             Evaluate(s, g, out)
  <2>1. PICK out \in [Contexts(g) -> IF g.caps = 0 THEN {"expired", "none"} ELSE Outcomes] :
             Evaluate(s, g, out)
    BY <1>9, Zenon
  <2>2. out \in [Contexts(g) -> Outcomes]
    BY <2>1, Zenon DEF Outcomes
  <2>3. SameCommands(g, g') /\ g'.session = g.session
    BY <1>6, <2>1, EvaluateFields, Zenon
  <2>4. g'.bundle = g.bundle
    BY <2>3, Zenon DEF SameCommands
  <2>5. /\ sock' \in [Sessions -> Sock] /\ Tasks(sock', g', bound)
        /\ Sending' = Sending /\ LatchedBy' = LatchedBy
    BY <1>7, <2>3, <2>4, Zenon
  <2>6. Kept(g, Sending', g.bundle, clock, decisions) /\ Homed(g, Sending', LatchedBy')
    BY <1>6, <2>5, Zenon
  <2>7. out \in [DOMAIN out -> Outcomes] /\ DOMAIN out \in SUBSET Flows /\ Sending' \in SUBSET Cmds(bound)
    BY <2>2, <2>5, SendingTyped, Zenon DEF Contexts
  <2> QED
    BY <1>1, <1>3, <1>6, <2>1, <2>5, <2>6, <2>7, EvaluateStep, ZenonT(30)
<1> QED
  BY <1>2, <1>8, <1>9, Zenon

-----------------------------------------------------------------------------
(* The socket tasks: retrying.                                             *)

\* x is y, with the last command of some flows waiting again.
Pends(y, x, snd) ==
  /\ DOMAIN x = Fields /\ x.bundle = y.bundle /\ x.session = y.session /\ x.sessionBoot = y.sessionBoot
  /\ x.flowBoot = y.flowBoot /\ x.caps = y.caps /\ x.contexts = y.contexts /\ x.notified = y.notified
  /\ x.queue = y.queue /\ x.states = y.states /\ x.flight = y.flight /\ x.attempts = y.attempts
  /\ x.delayed = y.delayed /\ x.pending = [f \in Flows |-> x.pending[f]]
  /\ \A f \in Flows :
       \/ x.pending[f] = y.pending[f]
       \/ /\ x.pending[f] = y.states[f] /\ Spare(y, y.states[f].id) /\ y.states[f].id # y.delayed[f]
          /\ \A e \in y.flight : e.cmd.id # y.states[f].id
          /\ \A c \in snd : c.id # y.states[f].id

LEMMA PendsKept ==
  ASSUME NEW bd \in Scenarios, NEW y, Gateway(y, bd), Short(y), NEW snd, NEW boot, NEW rev, NEW n, NEW ds,
         Kept(y, snd, rev, n, ds), Homed(y, snd, boot), NEW x, Pends(y, x, snd)
  PROVE  Gateway(x, bd) /\ Short(x) /\ Kept(x, snd, rev, n, ds) /\ Homed(x, snd, boot)
<1>1. /\ x.bundle = y.bundle /\ x.contexts = y.contexts /\ x.states = y.states /\ x.flight = y.flight
      /\ x.attempts = y.attempts /\ x.delayed = y.delayed
      /\ x.flowBoot = y.flowBoot /\ x.sessionBoot = y.sessionBoot
  BY Zenon DEF Pends
<1>2. \A f \in Flows :
       \/ x.pending[f] = y.pending[f]
       \/ /\ x.pending[f] = y.states[f] /\ Spare(y, y.states[f].id) /\ y.states[f].id # y.delayed[f]
          /\ \A e \in y.flight : e.cmd.id # y.states[f].id
          /\ \A c \in snd : c.id # y.states[f].id
  BY Zenon DEF Pends
<1>3. x.pending \in [Flows -> Cmds(bd)]
  <2>1. \A f \in Flows : y.pending[f] \in Cmds(bd) /\ y.states[f] \in Cmds(bd)
    BY Zenon DEF Gateway
  <2>2. \A f \in Flows : x.pending[f] \in Cmds(bd)
    BY <1>2, <2>1, Zenon
  <2>3. x.pending = [f \in Flows |-> x.pending[f]]
    BY Zenon DEF Pends
  <2> QED
    BY <2>2, <2>3, Zenon
<1>4. Gateway(x, bd) /\ Short(x)
  BY <1>3, Zenon DEF Gateway, Short, Pends
<1>5. /\ Owned(y, snd) /\ Last(y, snd) /\ Apart(y, snd) /\ Counted(y, snd) /\ Window(y, snd)
      /\ Dated(y, snd, rev, n, ds) /\ Timely(y) /\ Decided(y, n, ds)
  BY Zenon DEF Kept
<1>6. Owned(x, snd) /\ Last(x, snd)
  <2>1. \A f \in Flows : x.pending[f] = y.pending[f] \/ x.pending[f] = y.states[f]
    BY <1>2, Zenon
  <2>2. Owned(x, snd)
    <3>1. \A f \in Flows : Own(x.states[f], f) /\ Own(x.pending[f], f) /\ x.delayed[f].flow = f
      BY <1>1, <1>5, <2>1, Zenon DEF Owned
    <3> QED
      BY <1>1, <1>5, <3>1, Zenon DEF Owned
  <2>3. Last(x, snd)
    BY <1>1, <1>5, <2>1, Zenon DEF Last
  <2> QED
    BY <2>2, <2>3, Zenon
<1>7. Apart(x, snd)
  <2>1. ASSUME NEW f \in Flows, Present(x.pending[f])
        PROVE  /\ x.pending[f].id # x.delayed[f]
               /\ \A e \in x.flight : e.cmd.id # x.pending[f].id
               /\ \A c \in snd : c.id # x.pending[f].id
    <3>1. CASE x.pending[f] = y.pending[f]
      <4>1. Present(y.pending[f])
        BY <2>1, <3>1, Zenon
      <4>2. /\ y.pending[f].id # y.delayed[f]
            /\ \A e \in y.flight : e.cmd.id # y.pending[f].id
            /\ \A c \in snd : c.id # y.pending[f].id
        BY <1>5, <4>1, Zenon DEF Apart
      <4> QED
        BY <1>1, <3>1, <4>2, Zenon
    <3>2. CASE x.pending[f] # y.pending[f]
      BY <1>1, <1>2, <3>2, SMTT(30)
    <3> QED
      BY <3>1, <3>2, Zenon
  <2>2. \A f \in Flows : /\ \A e \in x.flight : e.cmd.id # x.delayed[f]
                         /\ \A c \in snd : c.id # x.delayed[f]
    BY <1>1, <1>5, SMTT(30) DEF Apart
  <2>3. \A e \in x.flight : /\ \A z \in x.flight : z.cmd.id = e.cmd.id => z = e
                            /\ \A c \in snd : c.id # e.cmd.id
    BY <1>1, <1>5, Zenon DEF Apart
  <2> QED
    BY <2>1, <2>2, <2>3, Zenon DEF Apart
<1>8. Counted(x, snd)
  <2>1. \A i : Spare(x, i) <=> Spare(y, i)
    BY <1>1, Zenon DEF Spare
  <2> QED
    BY <1>1, <1>2, <1>5, <2>1, Zenon DEF Counted
<1>9. Window(x, snd) /\ Dated(x, snd, rev, n, ds) /\ Timely(x) /\ Decided(x, n, ds)
  BY <1>1, <1>5, Zenon DEF Window, Dated, Timely, Decided
<1>10. Homed(x, snd, boot)
  BY <1>1, <1>2, Zenon DEF Homed
<1> QED
  BY <1>4, <1>6, <1>7, <1>8, <1>9, <1>10, Zenon DEF Kept

\* retry_flow_commands.
LEMMA RetriedSound ==
  ASSUME Counting, IInv, Sending = {}, NEW ready \in SUBSET Delayed, NEW due \in SUBSET g.flight
  PROVE  LET x == Retried(ready, due) IN
         /\ Gateway(x, bound) /\ Short(x) /\ Kept(x, {}, g.bundle, clock, decisions)
         /\ Homed(x, {}, LatchedBy) /\ x.states = g.states /\ x.bundle = g.bundle
         /\ x.session = g.session /\ x.caps = g.caps /\ x.notified = g.notified
<1> DEFINE
      again(f) == \/ f \in ready /\ g.states[f].id = g.delayed[f] /\ g.delayed[f] \notin expired
                  \/ \E e \in due : e.attempts < MaxAttempts /\ e.cmd.id = g.states[f].id
      ids  == {g.delayed[f] : f \in ready} \cup {e.cmd.id : e \in due}
      kept == {g.states[f].id : f \in {x \in Flows : again(x)}}
      del  == [f \in Flows |-> IF f \in ready THEN NoId(f) ELSE g.delayed[f]]
      pend == [f \in Flows |-> IF again(f) THEN g.states[f] ELSE g.pending[f]]
      att  == Forget(g.attempts, ids \ kept)
      y == [g EXCEPT !.delayed = del, !.flight = g.flight \ due, !.attempts = att]
      x == [g EXCEPT !.delayed = del, !.flight = g.flight \ due, !.pending = pend, !.attempts = att]
<1>1. x = Retried(ready, due)
  BY Zenon DEF Retried, RetriedUpTo
<1>2. /\ bound \in Scenarios /\ Gateway(g, bound) /\ Short(g) /\ Kept(g, {}, g.bundle, clock, decisions)
      /\ Homed(g, {}, LatchedBy) /\ clock \in Nat /\ \A d \in decisions : d.gen \in Nat
  BY Known, Zenon
<1>3. /\ DOMAIN y = Fields /\ y.bundle = g.bundle /\ y.session = g.session /\ y.sessionBoot = g.sessionBoot
      /\ y.flowBoot = g.flowBoot /\ y.caps = g.caps /\ y.contexts = g.contexts /\ y.notified = g.notified
      /\ y.queue = g.queue /\ y.states = g.states /\ y.pending = g.pending
      /\ y.flight = g.flight \ due /\ y.attempts = att /\ y.delayed = del
  BY <1>2, Zenon DEF Gateway, Fields
<1>4. /\ DOMAIN x = Fields /\ x.bundle = y.bundle /\ x.session = y.session /\ x.sessionBoot = y.sessionBoot
      /\ x.flowBoot = y.flowBoot /\ x.caps = y.caps /\ x.contexts = y.contexts /\ x.notified = y.notified
      /\ x.queue = y.queue /\ x.states = y.states /\ x.flight = y.flight /\ x.attempts = y.attempts
      /\ x.delayed = y.delayed /\ x.pending = pend
  BY <1>2, <1>3, Zenon DEF Gateway, Fields
<1>5. \A f \in Flows : del[f] = IF f \in ready THEN NoId(f) ELSE g.delayed[f]
  BY Zenon
<1>6. /\ pend = [f \in Flows |-> pend[f]]
      /\ \A f \in Flows : pend[f] = IF again(f) THEN g.states[f] ELSE g.pending[f]
  BY Zenon
<1>7. DOMAIN g.attempts \in SUBSET Id /\ g.attempts \in [DOMAIN g.attempts -> 1 .. MaxAttempts]
  BY <1>2, Zenon DEF Gateway
<1>8. /\ DOMAIN att = DOMAIN g.attempts \ (ids \ kept) /\ DOMAIN att \in SUBSET Id
      /\ \A i \in DOMAIN g.attempts \ (ids \ kept) : att[i] = g.attempts[i]
      /\ att \in [DOMAIN att -> 1 .. MaxAttempts]
  BY <1>7, ForgetSound, Zenon
<1>9. ready \in SUBSET Flows /\ \A f \in ready : g.delayed[f] # NoId(f)
  BY Zenon DEF Delayed
<1>10. \A f \in Flows : /\ NoId(f) \in Id /\ NoId(f).kind = "none" /\ NoId(f).flow = f
                        /\ NoCmd(f).id = NoId(f)
  BY <1>2, NoCmdTyped, Zenon
<1>11. del \in [Flows -> Id]
  <2>1. \A f \in Flows : g.delayed[f] \in Id
    BY <1>2, Zenon DEF Gateway
  <2> QED
    BY <1>10, <2>1, Zenon
<1>12. \A e \in g.flight \ due : e.cmd.id \notin ids
  <2>1. ASSUME NEW e \in g.flight \ due, NEW f \in ready PROVE e.cmd.id # g.delayed[f]
    BY <1>2, <1>9, Zenon DEF Kept, Apart
  <2>2. ASSUME NEW e \in g.flight \ due, NEW z \in due PROVE e.cmd.id # z.cmd.id
    BY <1>2, Zenon DEF Kept, Apart
  <2> QED
    BY <2>1, <2>2, Zenon
<1>13. ASSUME NEW f \in Flows, again(f)
       PROVE  /\ Spare(g, g.states[f].id) /\ g.states[f].id # del[f]
              /\ \A z \in g.flight \ due : z.cmd.id # g.states[f].id
  <2>1. Own(g.states[f], f) /\ \A z \in g.flight : g.delayed[f] # z.cmd.id
    BY <1>2, Zenon DEF Kept, Owned, Apart
  <2>2. CASE f \in ready /\ g.states[f].id = g.delayed[f] /\ g.delayed[f] \notin expired
    <3>1. Present(g.states[f])
      BY <1>9, <1>10, <2>1, <2>2, Zenon DEF Own
    <3>2. g.states[f].id.kind # "none"
      BY <2>1, <3>1, Zenon DEF Own
    <3>3. Spare(g, g.delayed[f])
      BY <1>2, <2>2, <3>2, Zenon DEF Kept, Counted
    <3>4. g.states[f].id # del[f]
      BY <1>5, <1>10, <3>2, <2>2, Zenon
    <3> QED
      BY <2>1, <2>2, <3>3, <3>4, Zenon
  <2>3. CASE \E e \in due : e.attempts < MaxAttempts /\ e.cmd.id = g.states[f].id
    <3>1. PICK e \in due : e.attempts < MaxAttempts /\ e.cmd.id = g.states[f].id
      BY <2>3, Zenon
    <3>2. e \in g.flight /\ e.cmd.id.kind # "none" /\ g.attempts[e.cmd.id] = e.attempts
      BY <1>2, Zenon DEF Kept, Owned, Sent, Counted
    <3>3. Spare(g, g.states[f].id)
      BY <3>1, <3>2, Zenon DEF Spare
    <3>4. g.states[f].id # del[f]
      BY <1>5, <1>10, <2>1, <3>1, <3>2, ZenonT(40)
    <3>5. \A z \in g.flight \ due : z.cmd.id # g.states[f].id
      BY <1>2, <3>1, <3>2, Zenon DEF Kept, Apart
    <3> QED
      BY <3>3, <3>4, <3>5, Zenon
  <2> QED
    BY <1>13, <2>2, <2>3, Zenon
<1> HIDE DEF x, y, del, pend, att, ids, kept, again
<1>14. Shrinks(g, y)
  <2>1. \A e \in y.flight : e.cmd.id \in DOMAIN g.attempts => e.cmd.id \in DOMAIN y.attempts
    BY <1>3, <1>8, <1>12, Zenon
  <2>2. y.flight \in SUBSET g.flight
    BY <1>3, Zenon
  <2>3. \A i \in DOMAIN y.attempts : i \in DOMAIN g.attempts /\ y.attempts[i] = g.attempts[i]
    BY <1>3, <1>8, Zenon
  <2>4. \A f \in Flows : y.contexts[f] \in {g.contexts[f], 0} /\ y.delayed[f] \in {g.delayed[f], NoId(f)}
    BY <1>3, <1>5, Zenon
  <2> QED
    BY <1>3, <2>1, <2>2, <2>3, <2>4, Zenon DEF Shrinks
<1>15. Gateway(y, bound) /\ Short(y)
  <2>1. y.flight \in SUBSET [cmd : Cmds(bound), attempts : 1 .. MaxAttempts]
    BY <1>2, <1>3, Zenon DEF Gateway
  <2> QED
    BY <1>2, <1>3, <1>8, <1>11, <2>1, Zenon DEF Gateway, Short
<1>16. Kept(y, {}, g.bundle, clock, decisions) /\ Homed(y, {}, LatchedBy)
  <2>1. {} \in SUBSET {}
    BY Zenon
  <2>2. Kept(y, {}, g.bundle, clock, decisions)
    BY <1>2, <1>14, <2>1, ShrinksKept, Zenon
  <2>3. Homed(y, {}, LatchedBy)
    BY <1>2, <1>3, <1>14, ShrinksHomed, Zenon
  <2> QED
    BY <2>2, <2>3, Zenon
<1>17. Pends(y, x, {})
  <2>1. \A i : Spare(g, i) => Spare(y, i)
    BY <1>3, <1>8, Zenon DEF Spare
  <2>2. ASSUME NEW f \in Flows
        PROVE  \/ x.pending[f] = y.pending[f]
               \/ /\ x.pending[f] = y.states[f] /\ Spare(y, y.states[f].id) /\ y.states[f].id # y.delayed[f]
                  /\ \A e \in y.flight : e.cmd.id # y.states[f].id
    <3>1. CASE again(f)
      <4>1. /\ Spare(g, g.states[f].id) /\ g.states[f].id # del[f]
            /\ \A z \in g.flight \ due : z.cmd.id # g.states[f].id
        BY <1>13, <3>1, Zenon
      <4>2. Spare(y, g.states[f].id)
        BY <2>1, <4>1, Zenon
      <4>3. x.pending[f] = y.states[f] /\ y.states[f] = g.states[f]
        BY <1>3, <1>4, <1>6, <3>1, Zenon
      <4> QED
        BY <1>3, <4>1, <4>2, <4>3, Zenon
    <3>2. CASE ~again(f)
      BY <1>3, <1>4, <1>6, <3>2, Zenon
    <3> QED
      BY <3>1, <3>2, Zenon
  <2>3. x.pending = [f \in Flows |-> x.pending[f]]
    BY <1>4, <1>6, Zenon
  <2> QED
    BY <1>4, <2>2, <2>3, Zenon DEF Pends
<1>18. /\ Gateway(x, bound) /\ Short(x) /\ Kept(x, {}, g.bundle, clock, decisions)
       /\ Homed(x, {}, LatchedBy)
  BY <1>2, <1>15, <1>16, <1>17, PendsKept, Zenon
<1> QED
  BY <1>1, <1>3, <1>4, <1>18, Zenon

LEMMA SockRetryStep ==
  ASSUME Counting, IInv, bound' = bound, NEW s \in Sessions, NEW ready \in SUBSET Delayed,
         NEW due \in SUBSET g.flight, SockRetry(s, ready, due)
  PROVE  IInv' /\ Calm
<1> DEFINE k == [sock[s] EXCEPT !.pc = "run"]
<1>1. /\ sock[s].pc = "retry" /\ sock' = [sock EXCEPT ![s] = k]
      /\ UNCHANGED <<agentBoot, decisions, expired, clock>>
      /\ Active(s) => g' \in Retry(ready, due)
      /\ ~Active(s) => g' = g
  BY Zenon DEF SockRetry
<1>2. /\ sock[s] \in Sock /\ g.bundle # 0 /\ sock[s].sending = {} /\ s # 0
      /\ Active(s) => Sending = sock[s].sending /\ LatchedBy = sock[s].boot
  BY <1>1, Task, Zenon
<1>3. k \in Sock /\ k.sending = {} /\ k.pc = "run" /\ k.boot = sock[s].boot
  BY <1>2, Zenon DEF Sock
<1> HIDE DEF k
<1>4. Writes(k, bound)
  BY <1>3, Zenon DEF Writes
<1>5. bound \in Scenarios /\ g.session \in 0 .. bound.sessions /\ Gateway(g, bound)
  BY Known, Zenon DEF Gateway
<1>6. ASSUME g'.session = g.session, g'.bundle = g.bundle
      PROVE  /\ sock' \in [Sessions -> Sock] /\ Tasks(sock', g', bound)
             /\ Sending' = Sending /\ LatchedBy' = LatchedBy
  <2>1. g'.session \in 0 .. bound.sessions
    BY <1>5, <1>6, Zenon
  <2>2. /\ sock' \in [Sessions -> Sock] /\ Tasks(sock', g', bound)
        /\ g'.session = s => Sending' = k.sending /\ LatchedBy' = k.boot
        /\ g'.session # s => Sending' = Sending /\ LatchedBy' = LatchedBy
    BY <1>1, <1>2, <1>3, <1>4, <1>6, <2>1, TaskMoves, Zenon
  <2>3. g.session = s => Active(s)
    BY Zenon DEF Active
  <2> QED
    BY <1>2, <1>3, <1>6, <2>2, <2>3, Zenon
<1>7. /\ decisions' \in SUBSET Decision /\ clock' \in 0 .. bound.decisions
      /\ agentBoot' \in Boots /\ expired' \in SUBSET Id
  BY <1>1, Zenon DEF IInv
<1>8. CASE ~Active(s)
  <2>1. g' = g
    BY <1>1, <1>8, Zenon
  <2>2. /\ sock' \in [Sessions -> Sock] /\ Tasks(sock', g', bound)
        /\ Sending' = Sending /\ LatchedBy' = LatchedBy
    BY <1>6, <2>1, Zenon
  <2>3. IInv'
    BY <1>1, <1>7, <2>1, <2>2, Known, Finish, Zenon
  <2> QED
    BY <2>1, <2>3, Zenon DEF Calm
<1>9. CASE Active(s)
  <2> DEFINE x == Retried(ready, due)
  <2>1. PICK h \in Fills(x) : g' = NotifyIfQueued(h)
    BY <1>1, <1>9, Zenon DEF Retry
  <2>2. Sending = {}
    BY <1>2, <1>9, Zenon
  <2>3. /\ Gateway(x, bound) /\ Short(x) /\ Kept(x, {}, g.bundle, clock, decisions)
        /\ Homed(x, {}, LatchedBy) /\ x.states = g.states /\ x.bundle = g.bundle
        /\ x.session = g.session /\ x.caps = g.caps /\ x.notified = g.notified
    BY <2>2, RetriedSound, Zenon
  <2> HIDE DEF x
  <2>4. Shrinks(x, h) /\ Stays(x, h) /\ Gateway(h, bound) /\ Short(h) /\ Line(h)
    BY <1>5, <2>1, <2>3, FillsShrinks, Zenon
  <2>5. Like(h, g') /\ g'.session = h.session /\ Gateway(g', bound)
    BY <1>5, <2>1, <2>4, NotifyLike, Zenon
  <2>6. g'.session = g.session /\ g'.bundle = g.bundle
    BY <2>3, <2>4, <2>5, Zenon DEF Stays, Like, Shrinks
  <2>7. /\ sock' \in [Sessions -> Sock] /\ Tasks(sock', g', bound)
        /\ Sending' = {} /\ LatchedBy' = LatchedBy
    BY <1>6, <2>2, <2>6, Zenon
  <2>8. Kept(x, Sending', x.bundle, clock', decisions') /\ Homed(x, Sending', LatchedBy')
    BY <1>1, <2>3, <2>7, Zenon
  <2>9. /\ DOMAIN g' = Fields /\ g'.session \in 0 .. bound.sessions
        /\ g'.caps \in 0 .. bound.boots /\ g'.notified \in BOOLEAN
    BY <2>5, Zenon DEF Gateway
  <2>10. \A f \in Flows : x.states[f] = g.states[f]
    BY <2>3, Zenon
  <2> QED
    BY <1>1, <1>7, <2>1, <2>3, <2>5, <2>7, <2>8, <2>9, <2>10, FillStep, ZenonT(30)
<1> QED
  BY <1>8, <1>9, Zenon

=============================================================================
