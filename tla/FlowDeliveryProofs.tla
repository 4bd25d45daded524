------------------------ MODULE FlowDeliveryProofs ------------------------
(***************************************************************************)
(* What FlowDelivery guarantees for any flows, capacities and attempts,    *)
(* and any number of revisions, boots, sessions and decisions: sending and *)
(* acknowledging commands and a new revision keep the invariant as well,   *)
(* and the theorems follow from it.                                        *)
(***************************************************************************)
EXTENDS FlowDeliverySteps, TLAPS

-----------------------------------------------------------------------------
(* The socket tasks: sending and acknowledging.                            *)

\* take_flow_command: the command of f leaves the pending ones.
Takes(h, x, f, c) ==
  /\ c = h.pending[f] /\ Present(c) /\ ~Present(x.pending[f]) /\ Cardinality(h.flight) < WindowCap
  /\ x.states = h.states /\ x.flight = h.flight /\ x.delayed = h.delayed /\ x.attempts = h.attempts

LEMMA TakeKept ==
  ASSUME Counting, NEW bd \in Scenarios, NEW h, NEW x, NEW f \in Flows, NEW c, Takes(h, x, f, c),
         NEW rev, NEW n, NEW ds, Kept(h, {}, rev, n, ds), Kept(x, {}, rev, n, ds)
  PROVE  Kept(x, {c}, rev, n, ds) /\ Sent(c)
<1>1. /\ c = h.pending[f] /\ Present(c) /\ ~Present(x.pending[f]) /\ Cardinality(h.flight) < WindowCap
      /\ x.states = h.states /\ x.flight = h.flight /\ x.delayed = h.delayed /\ x.attempts = h.attempts
  BY Zenon DEF Takes
<1>2. /\ Owned(h, {}) /\ Last(h, {}) /\ Apart(h, {}) /\ Counted(h, {}) /\ Dated(h, {}, rev, n, ds)
  BY Zenon DEF Kept
<1>3. /\ Owned(x, {}) /\ Last(x, {}) /\ Apart(x, {}) /\ Counted(x, {}) /\ Window(x, {})
      /\ Dated(x, {}, rev, n, ds) /\ Timely(x) /\ Decided(x, n, ds)
  BY Zenon DEF Kept
<1>4. c.flow = f /\ c.id.flow = f /\ c.id.kind # "none" /\ c.rev # 0 /\ Sent(c)
  BY <1>1, <1>2, Zenon DEF Owned, Own, Sent
<1>5. x.states[f] = c
  BY <1>1, <1>2, Zenon DEF Last
<1>6. Owned(x, {c})
  BY <1>3, <1>4, Zenon DEF Owned
<1>7. Last(x, {c})
  BY <1>3, <1>4, <1>5, Zenon DEF Last
<1>8. Apart(x, {c})
  <2>1. ASSUME NEW e \in Flows, Present(x.pending[e]) PROVE c.id # x.pending[e].id
    <3>1. e # f
      BY <1>1, <2>1, Zenon
    <3>2. x.pending[e].id.flow = e
      BY <1>3, Zenon DEF Owned, Own
    <3> QED
      BY <1>4, <3>1, <3>2, Zenon
  <2>2. ASSUME NEW e \in Flows PROVE c.id # x.delayed[e]
    <3>1. CASE e = f
      BY <1>1, <1>2, <3>1, Zenon DEF Apart
    <3>2. CASE e # f
      <4>1. x.delayed[e].flow = e
        BY <1>3, Zenon DEF Owned
      <4> QED
        BY <1>4, <3>2, <4>1, Zenon
    <3> QED
      BY <3>1, <3>2, Zenon
  <2>3. \A e \in x.flight : c.id # e.cmd.id
    BY <1>1, <1>2, Zenon DEF Apart
  <2> QED
    BY <1>3, <2>1, <2>2, <2>3, Zenon DEF Apart
<1>9. Counted(x, {c})
  <2>1. Spare(x, c.id)
    BY <1>1, <1>2, Zenon DEF Counted, Spare
  <2> QED
    BY <1>3, <2>1, Zenon DEF Counted
<1>10. Window(x, {c})
  <2>1. IsFiniteSet(x.flight)
    BY <1>3, Zenon DEF Window
  <2>2. Cardinality(x.flight) \in Nat
    BY <2>1, Zenon DEF Counting
  <2>3. IsFiniteSet({c}) /\ Cardinality({c}) = 1
    BY Zenon DEF Counting
  <2>4. Cardinality(x.flight) + Cardinality({c}) <= WindowCap
    BY <1>1, <2>2, <2>3, FlowAssumption, SMTT(30)
  <2> QED
    BY <2>1, <2>3, <2>4, Zenon DEF Window
<1>11. Dated(x, {c}, rev, n, ds)
  <2>1. Old(c.id, rev, n, ds)
    BY <1>3, <1>5, Zenon DEF Dated
  <2> QED
    BY <1>3, <2>1, Zenon DEF Dated
<1> QED
  BY <1>3, <1>4, <1>6, <1>7, <1>8, <1>9, <1>10, <1>11, Zenon DEF Kept

LEMMA TakenSound ==
  ASSUME Counting, NEW bd \in Scenarios, NEW s \in Sessions, NEW h, Gateway(h, bd), Short(h), Line(h),
         NEW rev, NEW n \in Nat, NEW ds, Kept(h, {}, rev, n, ds), \A d \in ds : d.gen \in Nat,
         Homed(h, {}, sock[s].boot), sock[s].boot # 0, Cardinality(h.flight) < WindowCap
  PROVE  LET t == Taken(s, h) IN
         /\ Gateway(t.state, bd) /\ Short(t.state) /\ Shrinks(h, t.state) /\ Stays(h, t.state)
         /\ t.cmd = {} => /\ Line(t.state) /\ Kept(t.state, {}, rev, n, ds)
                          /\ Homed(t.state, {}, sock[s].boot)
         /\ t.cmd # {} => \E c \in Cmds(bd) :
              /\ t.cmd = {c} /\ Sent(c) /\ Kept(t.state, {c}, rev, n, ds)
              /\ Homed(t.state, {c}, sock[s].boot)
<1> DEFINE
      sendable(i) == LET c == h.pending[h.queue[i]] IN
                     c.rev = sock[s].sent /\ c.boot = sock[s].boot
      hits  == {i \in DOMAIN h.queue : sendable(i)}
      first == IF hits = {} THEN Len(h.queue) + 1 ELSE CHOOSE i \in hits : \A j \in hits : i <= j
      drop  == {h.queue[i] : i \in {j \in 1 .. first - 1 : h.pending[h.queue[j]].rev = sock[s].sent}}
               \cup {h.queue[i] : i \in hits \cap {first}}
      queue == SubSeq(h.queue, first + 1, Len(h.queue))
      pend  == [f \in Flows |-> IF f \in drop THEN NoCmd(f) ELSE h.pending[f]]
      cmd   == {h.pending[h.queue[i]] : i \in hits \cap {first}}
      x     == [h EXCEPT !.queue = queue, !.pending = pend]
<1>1. Taken(s, h).cmd = cmd /\ Taken(s, h).state = x
  <2>1. Taken(s, h) = [cmd |-> cmd, state |-> x]
    BY Zenon DEF Taken
  <2> HIDE DEF cmd, x
  <2> QED
    BY <2>1, SMTT(30)
<1>2. /\ DOMAIN x = Fields /\ x.bundle = h.bundle /\ x.session = h.session /\ x.sessionBoot = h.sessionBoot
      /\ x.flowBoot = h.flowBoot /\ x.caps = h.caps /\ x.contexts = h.contexts /\ x.notified = h.notified
      /\ x.queue = queue /\ x.states = h.states /\ x.pending = pend
      /\ x.flight = h.flight /\ x.attempts = h.attempts /\ x.delayed = h.delayed
  BY Zenon DEF Gateway, Fields
<1>3. h.queue \in Seq(Flows) /\ Len(h.queue) \in Nat /\ DOMAIN h.queue = 1 .. Len(h.queue)
  BY SMTT(30) DEF Gateway
<1>4. ASSUME hits # {} PROVE first \in hits
  <2>1. hits \in SUBSET Nat
    BY <1>3, SMTT(30)
  <2>2. \E i \in hits : \A j \in hits : i <= j
    BY <1>4, <2>1, Zenon DEF Counting
  <2> QED
    BY <1>4, <2>2, Zenon
<1>5. /\ hits = {} => first = Len(h.queue) + 1
      /\ hits \in SUBSET DOMAIN h.queue
      /\ first \in hits => h.pending[h.queue[first]].boot = sock[s].boot
  BY Zenon
<1> HIDE DEF hits, first
<1>6. first \in Nat /\ first >= 1
  BY <1>3, <1>4, <1>5, SMTT(30)
<1>7. hits = {} => queue = <<>> /\ cmd = {}
  <2>1. hits = {} => cmd = {}
    BY Zenon
  <2> QED
    BY <1>3, <1>5, <2>1, SMTT(30)
<1>8. hits # {} => cmd = {h.pending[h.queue[first]]} /\ h.queue[first] \in drop
  BY <1>4, Zenon
<1>9. \A f \in Flows : pend[f] = IF f \in drop THEN NoCmd(f) ELSE h.pending[f]
  BY Zenon
<1>10. queue \in Seq(Flows) /\ Len(queue) <= Len(h.queue) /\ IsInjective(queue)
  <2>1. \A i \in first + 1 .. Len(h.queue) : h.queue[i] \in Flows
    BY <1>3, <1>6, SMTT(30)
  <2>2. /\ queue \in Seq(Flows)
        /\ Len(queue) = IF first + 1 <= Len(h.queue) THEN Len(h.queue) - (first + 1) + 1 ELSE 0
        /\ \A i \in 1 .. Len(h.queue) - (first + 1) + 1 : queue[i] = h.queue[(first + 1) + i - 1]
    <3>1. first + 1 \in Int /\ Len(h.queue) \in Int
      BY <1>3, <1>6, SMTT(30)
    <3> HIDE DEF queue
    <3> QED
      BY <1>3, <1>6, <2>1, <3>1, SMTT(30) DEF queue
  <2> HIDE DEF queue
  <2>3. Len(queue) <= Len(h.queue) /\ DOMAIN queue = 1 .. Len(queue)
    BY <1>3, <1>6, <2>2, SMTT(30)
  <2>4. \A i \in DOMAIN queue : /\ queue[i] = h.queue[first + i] /\ first + i \in DOMAIN h.queue
                                /\ i \in Nat
    BY <1>3, <1>6, <2>2, <2>3, SMTT(30)
  <2>5. \A i, j \in DOMAIN h.queue : h.queue[i] = h.queue[j] => i = j
    BY Zenon DEF Short, IsInjective
  <2>6. ASSUME NEW i \in DOMAIN queue, NEW j \in DOMAIN queue, queue[i] = queue[j] PROVE i = j
    <3>1. first + i = first + j
      BY <2>4, <2>5, <2>6, Zenon
    <3> QED
      BY <1>6, <2>4, <3>1, SMTT(30)
  <2> QED
    BY <2>2, <2>3, <2>6, Zenon DEF IsInjective
<1> HIDE DEF queue, drop, cmd, pend, x
<1>11. \A f \in Flows : NoCmd(f) \in Cmds(bd) /\ ~Present(NoCmd(f))
  BY NoCmdTyped, Zenon
<1>12. pend \in [Flows -> Cmds(bd)]
  <2>1. \A f \in Flows : h.pending[f] \in Cmds(bd)
    BY Zenon DEF Gateway
  <2>2. \A f \in Flows : pend[f] \in Cmds(bd)
    BY <1>9, <1>11, <2>1, Zenon
  <2>3. pend = [f \in Flows |-> pend[f]]
    BY Zenon DEF pend
  <2> QED
    BY <2>2, <2>3, Zenon
<1>13. Gateway(x, bd)
  BY <1>2, <1>10, <1>12, Zenon DEF Gateway
<1>14. Short(x)
  <2>1. Len(h.queue) <= QueueCap
    BY Zenon DEF Short
  <2>2. Len(queue) <= QueueCap
    BY <1>3, <1>10, <2>1, FlowAssumption, SMTT(30)
  <2> QED
    BY <1>2, <1>10, <2>2, Zenon DEF Short
<1>15. Shrinks(h, x) /\ Stays(h, x)
  BY <1>2, <1>9, Zenon DEF Shrinks, Stays
<1>16. Kept(x, {}, rev, n, ds) /\ Homed(x, {}, sock[s].boot)
  <2>1. {} \in SUBSET {}
    BY Zenon
  <2>2. Kept(x, {}, rev, n, ds)
    BY <1>15, <2>1, ShrinksKept, Zenon
  <2>3. Homed(x, {}, sock[s].boot)
    BY <1>2, <1>15, ShrinksHomed, Zenon
  <2> QED
    BY <2>2, <2>3, Zenon
<1>17. CASE hits = {}
  <2>1. Line(x)
    <3>1. DOMAIN x.queue = {}
      BY <1>2, <1>7, <1>17, SMTT(30)
    <3> QED
      BY <3>1, Zenon DEF Line
  <2> QED
    BY <1>1, <1>7, <1>13, <1>14, <1>15, <1>16, <1>17, <2>1, Zenon
<1>18. CASE hits # {}
  <2> DEFINE f == h.queue[first]
             c == h.pending[f]
  <2>1. first \in DOMAIN h.queue /\ c.boot = sock[s].boot /\ cmd = {c} /\ f \in drop
    BY <1>4, <1>5, <1>8, <1>18, Zenon
  <2>2. f \in Flows
    BY <1>3, <2>1, SMTT(30)
  <2>3. Present(c) /\ c \in Cmds(bd)
    BY <2>1, <2>2, Zenon DEF Line, Gateway
  <2>4. ~Present(x.pending[f])
    BY <1>2, <1>9, <1>11, <2>1, <2>2, Zenon
  <2>5. Takes(h, x, f, c)
    BY <1>2, <2>3, <2>4, Zenon DEF Takes
  <2> HIDE DEF f
  <2>6. Kept(x, {c}, rev, n, ds) /\ Sent(c)
    BY <1>16, <2>2, <2>5, TakeKept, Zenon
  <2>7. Homed(x, {c}, sock[s].boot)
    BY <1>16, <2>1, Zenon DEF Homed
  <2> HIDE DEF c
  <2>8. {c} # {}
    BY Zenon
  <2> QED
    BY <1>1, <1>13, <1>14, <1>15, <2>1, <2>3, <2>6, <2>7, <2>8, Zenon
<1> QED
  BY <1>17, <1>18, ZenonT(30)

\* fill_flow_queue and the permit, at the end of a step.
LEMMA FillFields ==
  ASSUME Counting, NEW bd \in Scenarios, NEW s, Gateway(s, bd), Short(s), NEW h \in Fills(s), NEW x,
         x = NotifyIfQueued(h)
  PROVE  /\ Like(h, x) /\ DOMAIN x = Fields /\ x.session = s.session /\ x.bundle = s.bundle
         /\ x.session \in 0 .. bd.sessions /\ x.caps \in 0 .. bd.boots /\ x.notified \in BOOLEAN
<1>1. Shrinks(s, h) /\ Stays(s, h) /\ Gateway(h, bd) /\ Short(h) /\ Line(h)
  BY FillsShrinks, Zenon
<1>2. Like(h, x) /\ x.session = h.session /\ Gateway(x, bd)
  BY <1>1, NotifyLike, Zenon
<1> QED
  BY <1>1, <1>2, Zenon DEF Gateway, Shrinks, Stays, Like

LEMMA SockTakeStep ==
  ASSUME Counting, IInv, bound' = bound, NEW s \in Sessions, SockTake(s) PROVE IInv' /\ Calm
<1> DEFINE idle == [g EXCEPT !.notified = FALSE]
<1>1. /\ sock[s].pc = "run" /\ UNCHANGED <<agentBoot, decisions, expired, clock>>
      /\ ~MayTake(s) => g' = idle /\ sock' = sock
  BY Zenon DEF SockTake, Running
<1>2. MayTake(s) => \E h \in Fills(idle) :
        IF Taken(s, h).cmd = {} THEN g' = Taken(s, h).state /\ sock' = sock
        ELSE /\ \E x \in Fills(Taken(s, h).state) : g' = NotifyIfQueued(x)
             /\ sock' = [sock EXCEPT ![s].pc = "send", ![s].sending = Taken(s, h).cmd]
  BY Zenon DEF SockTake
<1>3. /\ bound \in Scenarios /\ Gateway(g, bound) /\ Short(g) /\ Line(g) /\ clock \in Nat
      /\ Kept(g, Sending, g.bundle, clock, decisions) /\ Homed(g, Sending, LatchedBy)
      /\ \A d \in decisions : d.gen \in Nat
  BY Known, Zenon
<1>4. /\ Like(g, idle) /\ DOMAIN idle = Fields /\ idle.session = g.session /\ idle.caps = g.caps
      /\ idle.notified = FALSE /\ idle.bundle = g.bundle /\ idle.flight = g.flight
      /\ idle.states = g.states
  BY <1>3, Zenon DEF Gateway, Fields, Like
<1> HIDE DEF idle
<1>5. Gateway(idle, bound) /\ Short(idle) /\ Line(idle) /\ Shrinks(g, idle)
  <2>1. idle.session \in 0 .. bound.sessions /\ idle.caps \in 0 .. bound.boots /\ idle.notified \in BOOLEAN
    BY <1>3, <1>4, Zenon DEF Gateway
  <2> QED
    BY <1>3, <1>4, <2>1, LikeSound, LikeShrinks, Zenon
<1>6. Homed(idle, Sending, LatchedBy)
  BY <1>3, <1>4, <1>5, ShrinksHomed, Zenon DEF Like
<1>7. CASE ~MayTake(s)
  <2>1. g' = idle /\ sock' = sock
    BY <1>1, <1>7, Zenon
  <2>2. /\ sock' \in [Sessions -> Sock] /\ Tasks(sock', g', bound)
        /\ Sending' = Sending /\ LatchedBy' = LatchedBy
    BY <1>4, <2>1, TasksStand, Zenon
  <2>3. Homed(g', Sending', LatchedBy') /\ Sending' \in SUBSET Sending
    BY <1>6, <2>1, <2>2, Zenon
  <2> QED
    BY <1>1, <1>5, <2>1, <2>2, <2>3, ShrinkStep, Zenon
<1>8. CASE MayTake(s)
  <2>1. PICK h \in Fills(idle) :
        IF Taken(s, h).cmd = {} THEN g' = Taken(s, h).state /\ sock' = sock
        ELSE /\ \E x \in Fills(Taken(s, h).state) : g' = NotifyIfQueued(x)
             /\ sock' = [sock EXCEPT ![s].pc = "send", ![s].sending = Taken(s, h).cmd]
    BY <1>2, <1>8, Zenon
  <2> DEFINE x == Taken(s, h).state
             t == Taken(s, h).cmd
  <2>2. Active(s) /\ sock[s].boot # 0 /\ Cardinality(g.flight) < WindowCap
    BY <1>8, Zenon DEF MayTake
  <2>3. /\ sock[s] \in Sock /\ g.bundle # 0 /\ Sending = {} /\ LatchedBy = sock[s].boot
        /\ g.session = s /\ s # 0
    BY <1>1, <2>2, Task, Zenon DEF Active
  <2>4. Shrinks(idle, h) /\ Stays(idle, h) /\ Gateway(h, bound) /\ Short(h) /\ Line(h)
    BY <1>3, <1>5, FillsShrinks, Zenon
  <2>5. Kept(h, {}, g.bundle, clock, decisions) /\ Homed(h, {}, sock[s].boot)
    <3>1. {} \in SUBSET {} /\ Kept(g, {}, g.bundle, clock, decisions) /\ Homed(idle, {}, sock[s].boot)
      BY <1>3, <1>6, <2>3, Zenon
    <3>2. Kept(idle, {}, g.bundle, clock, decisions)
      BY <1>3, <1>5, <3>1, ShrinksKept, Zenon
    <3>3. Kept(h, {}, g.bundle, clock, decisions)
      BY <1>3, <1>5, <2>4, <3>1, <3>2, ShrinksKept, Zenon
    <3>4. Homed(h, {}, sock[s].boot)
      BY <1>3, <2>4, <3>1, ShrinksHomed, Zenon DEF Stays
    <3> QED
      BY <3>3, <3>4, Zenon
  <2>6. Cardinality(h.flight) < WindowCap
    BY <1>4, <2>2, <2>4, Zenon DEF Stays
  <2>7. /\ Gateway(x, bound) /\ Short(x) /\ Shrinks(h, x) /\ Stays(h, x)
        /\ t = {} => /\ Line(x) /\ Kept(x, {}, g.bundle, clock, decisions)
                     /\ Homed(x, {}, sock[s].boot)
        /\ t # {} => \E c \in Cmds(bound) :
              /\ t = {c} /\ Sent(c) /\ Kept(x, {c}, g.bundle, clock, decisions)
              /\ Homed(x, {c}, sock[s].boot)
    BY <1>3, <2>2, <2>4, <2>5, <2>6, TakenSound, Zenon
  <2>8. x.session = s /\ x.bundle = g.bundle
    BY <1>4, <2>3, <2>4, <2>7, Zenon DEF Stays, Shrinks
  <2>9. \A f \in Flows : x.states[f] = g.states[f] \/ ~Present(x.states[f])
    <3>1. \A f \in Flows : ~Present(NoCmd(f))
      BY <1>3, NoCmdTyped, Zenon
    <3> QED
      BY <1>4, <2>4, <2>7, <3>1, ZenonT(40) DEF Shrinks
  <2>10. /\ decisions' \in SUBSET Decision /\ clock' \in 0 .. bound.decisions
         /\ agentBoot' \in Boots /\ expired' \in SUBSET Id
    BY <1>1, Zenon DEF IInv
  <2>11. CASE t = {}
    <3>1. g' = x /\ sock' = sock
      BY <2>1, <2>11, Zenon
    <3>2. g'.session = g.session /\ g'.bundle = g.bundle
      BY <2>3, <2>8, <3>1, Zenon
    <3>3. /\ sock' \in [Sessions -> Sock] /\ Tasks(sock', g', bound)
          /\ Sending' = Sending /\ LatchedBy' = LatchedBy
      BY <3>1, <3>2, TasksStand, Zenon
    <3>4. Kept(g', Sending', g'.bundle, clock', decisions') /\ Homed(g', Sending', LatchedBy')
      BY <1>1, <2>3, <2>7, <2>11, <3>1, <3>2, <3>3, Zenon
    <3>5. IInv'
      BY <2>7, <2>10, <2>11, <3>1, <3>3, <3>4, Finish, Zenon
    <3> QED
      BY <2>9, <3>1, <3>5, Zenon DEF Calm
  <2>12. CASE t # {}
    <3> DEFINE k == [sock[s] EXCEPT !.pc = "send", !.sending = t]
    <3>1. sock' = [sock EXCEPT ![s] = k]
      <4>1. sock' = [sock EXCEPT ![s].pc = "send", ![s].sending = t]
        BY <2>1, <2>12, Zenon
      <4>2. sock \in [Sessions -> Sock]
        BY Zenon DEF IInv
      <4> HIDE DEF t
      <4> QED
        BY <4>1, <4>2, Zenon
    <3>2. PICK y \in Fills(x) : g' = NotifyIfQueued(y)
      BY <2>1, <2>12, Zenon
    <3>3. PICK c \in Cmds(bound) :
            /\ t = {c} /\ Sent(c) /\ Kept(x, {c}, g.bundle, clock, decisions)
            /\ Homed(x, {c}, sock[s].boot)
      BY <2>7, <2>12, Zenon
    <3> HIDE DEF t, x
    <3>4. k \in Sock /\ k.pc = "send" /\ k.sending = {c} /\ k.boot = sock[s].boot
      <4>1. {c} \in SUBSET Cmd
        BY Known, Zenon
      <4>2. /\ [sock[s] EXCEPT !.pc = "send"] \in Sock /\ [sock[s] EXCEPT !.pc = "send"].pc = "send"
            /\ [sock[s] EXCEPT !.pc = "send"].boot = sock[s].boot
        BY <2>3, Zenon DEF Sock
      <4> DEFINE j == [sock[s] EXCEPT !.pc = "send"]
      <4>3. k = [j EXCEPT !.sending = t]
        BY Zenon
      <4> HIDE DEF j, k
      <4> QED
        BY <3>3, <4>1, <4>2, <4>3, ZenonT(30) DEF Sock, j
    <3> HIDE DEF k
    <3>5. Writes(k, bound)
      BY <3>3, <3>4, Zenon DEF Writes
    <3>6. /\ Like(y, g') /\ DOMAIN g' = Fields /\ g'.session = s /\ g'.bundle = g.bundle
          /\ g'.session \in 0 .. bound.sessions /\ g'.caps \in 0 .. bound.boots /\ g'.notified \in BOOLEAN
      <4>1. Gateway(x, bound) /\ Short(x)
        BY <2>7, Zenon
      <4>2. /\ Like(y, g') /\ DOMAIN g' = Fields /\ g'.session = x.session /\ g'.bundle = x.bundle
            /\ g'.session \in 0 .. bound.sessions /\ g'.caps \in 0 .. bound.boots /\ g'.notified \in BOOLEAN
        BY <1>3, <3>2, <4>1, FillFields, SMTT(30)
      <4> QED
        BY <2>8, <4>2, Zenon
    <3>7. /\ sock' \in [Sessions -> Sock] /\ Tasks(sock', g', bound)
          /\ Sending' = {c} /\ LatchedBy' = sock[s].boot
      BY <2>3, <3>1, <3>4, <3>5, <3>6, TaskMoves, Zenon
    <3>8. Kept(x, Sending', x.bundle, clock', decisions') /\ Homed(x, Sending', LatchedBy')
      BY <1>1, <2>8, <3>3, <3>7, Zenon
    <3> QED
      BY <1>1, <2>7, <2>9, <2>10, <3>2, <3>6, <3>7, <3>8, FillStep, ZenonT(30)
  <2> QED
    BY <2>11, <2>12, Zenon
<1> QED
  BY <1>7, <1>8, Zenon

\* mark_flow_command_sent: c enters the window.
Marks(s, x, c, n) ==
  /\ DOMAIN x = Fields /\ x.bundle = s.bundle /\ x.session = s.session /\ x.sessionBoot = s.sessionBoot
  /\ x.flowBoot = s.flowBoot /\ x.caps = s.caps /\ x.contexts = s.contexts /\ x.notified = s.notified
  /\ x.queue = s.queue /\ x.states = s.states /\ x.pending = s.pending /\ x.delayed = s.delayed
  /\ x.flight = s.flight \cup {[cmd |-> c, attempts |-> n]}
  /\ DOMAIN x.attempts = DOMAIN s.attempts \cup {c.id} /\ x.attempts[c.id] = n
  /\ \A i \in DOMAIN s.attempts : i # c.id => x.attempts[i] = s.attempts[i]
  /\ x.attempts = [i \in DOMAIN x.attempts |-> x.attempts[i]]

LEMMA MarkKept ==
  ASSUME Counting, NEW bd \in Scenarios, NEW s, Gateway(s, bd), Short(s), Line(s), NEW c \in Cmds(bd),
         NEW n \in 1 .. MaxAttempts, NEW x, Marks(s, x, c, n), NEW rev, NEW m, NEW ds,
         Kept(s, {c}, rev, m, ds), NEW boot, Homed(s, {c}, boot)
  PROVE  Gateway(x, bd) /\ Short(x) /\ Line(x) /\ Kept(x, {}, rev, m, ds) /\ Homed(x, {}, boot)
<1> DEFINE e == [cmd |-> c, attempts |-> n]
<1>1. /\ x.bundle = s.bundle /\ x.sessionBoot = s.sessionBoot /\ x.flowBoot = s.flowBoot
      /\ x.contexts = s.contexts /\ x.queue = s.queue /\ x.states = s.states
      /\ x.pending = s.pending /\ x.delayed = s.delayed /\ x.flight = s.flight \cup {e}
  BY Zenon DEF Marks
<1>2. /\ DOMAIN x.attempts = DOMAIN s.attempts \cup {c.id} /\ x.attempts[c.id] = n
      /\ \A i \in DOMAIN s.attempts : i # c.id => x.attempts[i] = s.attempts[i]
      /\ x.attempts = [i \in DOMAIN x.attempts |-> x.attempts[i]]
  BY Zenon DEF Marks
<1>3. /\ Owned(s, {c}) /\ Last(s, {c}) /\ Apart(s, {c}) /\ Counted(s, {c}) /\ Window(s, {c})
      /\ Dated(s, {c}, rev, m, ds) /\ Timely(s) /\ Decided(s, m, ds)
  BY Zenon DEF Kept
<1>4. e.cmd = c /\ e.attempts = n /\ e \in [cmd : Cmds(bd), attempts : 1 .. MaxAttempts] /\ c.id \in Id
  BY Zenon DEF Cmds
<1> HIDE DEF e
<1>5. Gateway(x, bd) /\ Short(x) /\ Line(x)
  <2>1. x.flight \in SUBSET [cmd : Cmds(bd), attempts : 1 .. MaxAttempts]
    BY <1>1, <1>4, Zenon DEF Gateway
  <2>2. DOMAIN x.attempts \in SUBSET Id
    BY <1>2, <1>4, Zenon DEF Gateway
  <2>3. x.attempts \in [DOMAIN x.attempts -> 1 .. MaxAttempts]
    <3>1. \A i \in DOMAIN s.attempts : s.attempts[i] \in 1 .. MaxAttempts
      BY Zenon DEF Gateway
    <3>2. \A i \in DOMAIN x.attempts : x.attempts[i] \in 1 .. MaxAttempts
      BY <1>2, <3>1, Zenon
    <3> QED
      BY <1>2, <3>2, Zenon
  <2> QED
    BY <2>1, <2>2, <2>3, Zenon DEF Gateway, Short, Line, Marks
<1>6. Owned(x, {}) /\ Last(x, {})
  <2>1. \A z \in x.flight : Sent(z.cmd)
    BY <1>1, <1>3, <1>4, Zenon DEF Owned
  <2> QED
    BY <1>1, <1>3, <2>1, Zenon DEF Owned, Last
<1>7. Apart(x, {})
  <2>1. \A f \in Flows : Present(x.pending[f]) =>
          x.pending[f].id # x.delayed[f] /\ \A z \in x.flight : z.cmd.id # x.pending[f].id
    BY <1>1, <1>3, <1>4, ZenonT(40) DEF Apart
  <2>2. \A f \in Flows : \A z \in x.flight : z.cmd.id # x.delayed[f]
    BY <1>1, <1>3, <1>4, Zenon DEF Apart
  <2>3. \A z, w \in x.flight : w.cmd.id = z.cmd.id => w = z
    BY <1>1, <1>3, <1>4, Zenon DEF Apart
  <2> QED
    BY <2>1, <2>2, <2>3, Zenon DEF Apart
<1>8. Counted(x, {})
  <2>1. ASSUME NEW i, i # c.id, Spare(s, i) PROVE Spare(x, i)
    BY <1>2, <2>1, Zenon DEF Spare
  <2>2. \A z \in x.flight : z.cmd.id \in DOMAIN x.attempts /\ x.attempts[z.cmd.id] = z.attempts
    <3>1. ASSUME NEW z \in s.flight
          PROVE  z.cmd.id \in DOMAIN x.attempts /\ x.attempts[z.cmd.id] = z.attempts
      <4>1. z.cmd.id \in DOMAIN s.attempts /\ s.attempts[z.cmd.id] = z.attempts /\ z.cmd.id # c.id
        BY <1>3, Zenon DEF Counted, Apart
      <4> QED
        BY <1>2, <4>1, Zenon
    <3> QED
      BY <1>1, <1>2, <1>4, <3>1, Zenon
  <2>3. ASSUME NEW f \in Flows, Present(x.pending[f]) PROVE Spare(x, x.pending[f].id)
    <3>1. x.pending[f].id # c.id /\ Spare(s, x.pending[f].id)
      BY <1>1, <1>3, <2>3, Zenon DEF Counted, Apart
    <3> QED
      BY <2>1, <3>1, Zenon
  <2>4. ASSUME NEW f \in Flows, x.delayed[f].kind # "none" PROVE Spare(x, x.delayed[f])
    <3>1. x.delayed[f] # c.id /\ Spare(s, x.delayed[f])
      BY <1>1, <1>3, <2>4, Zenon DEF Counted, Apart
    <3> QED
      BY <2>1, <3>1, Zenon
  <2> QED
    BY <2>2, <2>3, <2>4, Zenon DEF Counted
<1>9. Window(x, {})
  <2>1. IsFiniteSet(s.flight) /\ Cardinality(s.flight) + Cardinality({c}) <= WindowCap
    BY <1>3, Zenon DEF Window
  <2>2. Cardinality({c}) = 1 /\ IsFiniteSet({}) /\ Cardinality({}) = 0
    BY Zenon DEF Counting
  <2>3. Cardinality(s.flight) \in Nat
    BY <2>1, Zenon DEF Counting
  <2>4. /\ IsFiniteSet(s.flight \cup {e})
        /\ Cardinality(s.flight \cup {e}) = IF e \in s.flight THEN Cardinality(s.flight) ELSE Cardinality(s.flight) + 1
    BY <2>1, Zenon DEF Counting
  <2>5. Cardinality(x.flight) + Cardinality({}) <= WindowCap
    BY <1>1, <2>1, <2>2, <2>3, <2>4, FlowAssumption, SMTT(30)
  <2> QED
    BY <1>1, <2>2, <2>4, <2>5, Zenon DEF Window
<1>10. Dated(x, {}, rev, m, ds)
  <2>1. \A z \in x.flight : Old(z.cmd.id, rev, m, ds)
    BY <1>1, <1>3, <1>4, Zenon DEF Dated
  <2>2. \A i \in DOMAIN x.attempts : Old(i, rev, m, ds)
    BY <1>2, <1>3, Zenon DEF Dated
  <2> QED
    BY <1>1, <1>3, <2>1, <2>2, Zenon DEF Dated
<1>11. Timely(x) /\ Decided(x, m, ds)
  BY <1>1, <1>3, Zenon DEF Timely, Decided
<1>12. Homed(x, {}, boot)
  <2>1. c.boot = boot /\ boot # 0 /\ s.flowBoot = boot
    BY Zenon DEF Homed
  <2>2. \A z \in x.flight : z.cmd.boot = x.flowBoot /\ x.flowBoot # 0
    BY <1>1, <1>4, <2>1, Zenon DEF Homed
  <2> QED
    BY <1>1, <2>2, Zenon DEF Homed
<1> QED
  BY <1>5, <1>6, <1>7, <1>8, <1>9, <1>10, <1>11, <1>12, Zenon DEF Kept

\* The task of s stops writing.
LEMMA StopsWriting ==
  ASSUME IInv, bound' = bound, NEW s \in Sessions, NEW pc \in {"run", "done"}, sock[s].pc = "send",
         sock' = [sock EXCEPT ![s].pc = pc, ![s].sending = {}],
         g'.bundle = g.bundle, g'.session \in 0 .. bound.sessions
  PROVE  /\ sock' \in [Sessions -> Sock] /\ Tasks(sock', g', bound)
         /\ g'.session = s => Sending' = {} /\ LatchedBy' = sock[s].boot
         /\ g'.session # s /\ g'.session = g.session => Sending' = Sending /\ LatchedBy' = LatchedBy
         /\ g'.session = 0 => Sending' = {} /\ LatchedBy' = 0
<1> DEFINE j == [sock[s] EXCEPT !.pc = pc]
           k == [j EXCEPT !.sending = {}]
<1>1. sock \in [Sessions -> Sock] /\ sock[s] \in Sock /\ g.bundle # 0
  BY Task, Zenon DEF IInv
<1>2. j \in Sock /\ j.pc = pc /\ j.boot = sock[s].boot
  BY <1>1, Zenon DEF Sock
<1>3. sock' = [sock EXCEPT ![s] = k]
  BY <1>1, Zenon
<1> HIDE DEF j
<1>4. k \in Sock /\ k.pc = pc /\ k.sending = {} /\ k.boot = sock[s].boot
  BY <1>2, Zenon DEF Sock
<1> HIDE DEF k
<1>5. Writes(k, bound)
  BY <1>4, Zenon DEF Writes
<1> QED
  BY <1>1, <1>3, <1>4, <1>5, TaskMoves, ZenonT(30)

LEMMA SockSentStep ==
  ASSUME Counting, IInv, bound' = bound, NEW s \in Sessions, SockSent(s) PROVE IInv' /\ Calm
<1>1. /\ sock[s].pc = "send" /\ sock' = [sock EXCEPT ![s].pc = "run", ![s].sending = {}]
      /\ UNCHANGED <<agentBoot, decisions, expired, clock>>
  BY Zenon DEF SockSent
<1>2. PICK c \in sock[s].sending : g' = MarkSent(s, c)
  BY Zenon DEF SockSent
<1>3. /\ bound \in Scenarios /\ Gateway(g, bound) /\ Short(g) /\ Line(g) /\ clock \in Nat
      /\ Kept(g, Sending, g.bundle, clock, decisions) /\ Homed(g, Sending, LatchedBy)
      /\ \A d \in decisions : d.gen \in Nat /\ g.session \in 0 .. bound.sessions
  BY Known, Zenon DEF Gateway
<1>4. /\ decisions' \in SUBSET Decision /\ clock' \in 0 .. bound.decisions
      /\ agentBoot' \in Boots /\ expired' \in SUBSET Id /\ g.session \in 0 .. bound.sessions
  BY <1>1, Zenon DEF IInv, Gateway
<1>5. CASE ~Active(s)
  <2>1. g' = g /\ g'.session # s
    BY <1>2, <1>5, Zenon DEF MarkSent, Active
  <2>2. /\ sock' \in [Sessions -> Sock] /\ Tasks(sock', g', bound)
        /\ Sending' = Sending /\ LatchedBy' = LatchedBy
    BY <1>1, <1>4, <2>1, StopsWriting, Zenon
  <2>3. IInv'
    BY <1>1, <1>3, <1>4, <2>1, <2>2, Finish, Zenon
  <2> QED
    BY <2>1, <2>3, Zenon DEF Calm
<1>6. CASE Active(s)
  <2> DEFINE n == IF c.id \in DOMAIN g.attempts THEN g.attempts[c.id] + 1 ELSE 1
             att == [i \in DOMAIN g.attempts \cup {c.id} |-> IF i = c.id THEN n ELSE g.attempts[i]]
             e == [cmd |-> c, attempts |-> n]
             rest == {z \in g.flight : z.cmd.id # c.id}
  <2>1. g' = [g EXCEPT !.attempts = att, !.flight = rest \cup {e}]
    BY <1>2, <1>6, Zenon DEF MarkSent
  <2>2. Sending = {c} /\ LatchedBy = sock[s].boot /\ g.session = s /\ c \in Cmds(bound)
    <3>1. Sending = sock[s].sending /\ LatchedBy = sock[s].boot
      BY <1>6, Task, Zenon
    <3>2. Writes(sock[s], bound)
      BY Task, Zenon
    <3>3. \E d \in sock[s].sending : d \in Cmds(bound) /\ sock[s].sending = {d}
      BY <1>1, <3>2, Zenon DEF Writes
    <3> QED
      BY <1>2, <1>6, <3>1, <3>3, Zenon DEF Active
  <2>3. Kept(g, {c}, g.bundle, clock, decisions) /\ Homed(g, {c}, LatchedBy)
    BY <1>3, <2>2, Zenon
  <2>4. Spare(g, c.id) /\ \A z \in g.flight : c.id # z.cmd.id
    BY <2>3, Zenon DEF Kept, Counted, Apart
  <2>5. n \in 1 .. MaxAttempts
    <3>1. c.id \in DOMAIN g.attempts => g.attempts[c.id] \in 1 .. MaxAttempts
      BY <1>3, Zenon DEF Gateway
    <3> QED
      BY <2>4, <3>1, FlowAssumption, SMTT(30) DEF Spare
  <2>6. rest = g.flight
    BY <2>4, Zenon
  <2>7. /\ DOMAIN att = DOMAIN g.attempts \cup {c.id} /\ att[c.id] = n
        /\ \A i \in DOMAIN g.attempts : i # c.id => att[i] = g.attempts[i]
        /\ att = [i \in DOMAIN att |-> att[i]]
    <3> HIDE DEF n
    <3> QED
      BY Zenon
  <2> HIDE DEF att, rest, n
  <2>8. Marks(g, g', c, n)
    <3>1. /\ DOMAIN g' = Fields /\ g'.bundle = g.bundle /\ g'.session = g.session
          /\ g'.sessionBoot = g.sessionBoot /\ g'.flowBoot = g.flowBoot /\ g'.caps = g.caps
          /\ g'.contexts = g.contexts /\ g'.notified = g.notified /\ g'.queue = g.queue
          /\ g'.states = g.states /\ g'.pending = g.pending /\ g'.delayed = g.delayed
          /\ g'.flight = rest \cup {e} /\ g'.attempts = att
      BY <1>3, <2>1, Zenon DEF Gateway, Fields
    <3> QED
      BY <2>6, <2>7, <3>1, Zenon DEF Marks
  <2>9. /\ Gateway(g', bound) /\ Short(g') /\ Line(g')
        /\ Kept(g', {}, g.bundle, clock, decisions) /\ Homed(g', {}, LatchedBy)
    BY <1>3, <2>2, <2>3, <2>5, <2>8, MarkKept, Zenon
  <2>10. g'.session = s /\ g'.bundle = g.bundle /\ g'.states = g.states
    BY <2>2, <2>8, Zenon DEF Marks
  <2>11. /\ sock' \in [Sessions -> Sock] /\ Tasks(sock', g', bound)
         /\ Sending' = {} /\ LatchedBy' = LatchedBy
    BY <1>1, <1>4, <2>2, <2>10, StopsWriting, Zenon
  <2>12. Kept(g', Sending', g'.bundle, clock', decisions') /\ Homed(g', Sending', LatchedBy')
    BY <1>1, <2>9, <2>10, <2>11, Zenon
  <2>13. IInv'
    BY <1>4, <2>9, <2>11, <2>12, Finish, Zenon
  <2> QED
    BY <2>10, <2>13, Zenon DEF Calm
<1> QED
  BY <1>5, <1>6, Zenon

LEMMA SockSendFailsStep ==
  ASSUME Counting, IInv, bound' = bound, NEW s \in Sessions, SockSendFails(s) PROVE IInv' /\ Calm
<1>1. /\ sock[s].pc = "send" /\ sock' = [sock EXCEPT ![s].pc = "done", ![s].sending = {}]
      /\ UNCHANGED <<agentBoot, decisions, expired, clock>>
  BY Zenon DEF SockSendFails
<1>2. PICK c \in sock[s].sending :
        /\ ~Active(s) => g' = g
        /\ Active(s) /\ g.states[c.flow].id # c.id => g' = [g EXCEPT !.session = 0]
        /\ Active(s) /\ g.states[c.flow].id = c.id =>
             \E h \in Fills([g EXCEPT !.pending[c.flow] = c]) :
               g' = [h EXCEPT !.notified = TRUE, !.session = 0]
  BY Zenon DEF SockSendFails
<1>3. /\ bound \in Scenarios /\ Gateway(g, bound) /\ Short(g) /\ Line(g) /\ clock \in Nat
      /\ Kept(g, Sending, g.bundle, clock, decisions) /\ Homed(g, Sending, LatchedBy)
      /\ \A d \in decisions : d.gen \in Nat
  BY Known, Zenon
<1>4. /\ decisions' \in SUBSET Decision /\ clock' \in 0 .. bound.decisions
      /\ agentBoot' \in Boots /\ expired' \in SUBSET Id /\ g.session \in 0 .. bound.sessions
  BY <1>1, Zenon DEF IInv, Gateway
<1>5. CASE ~Active(s)
  <2>1. g' = g /\ g'.session # s
    BY <1>2, <1>5, Zenon DEF Active
  <2>2. /\ sock' \in [Sessions -> Sock] /\ Tasks(sock', g', bound)
        /\ Sending' = Sending /\ LatchedBy' = LatchedBy
    BY <1>1, <1>4, <2>1, StopsWriting, Zenon
  <2>3. IInv'
    BY <1>1, <1>3, <1>4, <2>1, <2>2, Finish, Zenon
  <2> QED
    BY <2>1, <2>3, Zenon DEF Calm
<1>6. ASSUME Active(s) PROVE IInv' /\ Calm
  <2>1. Sending = {c} /\ c \in Cmds(bound) /\ Sent(c) /\ c.flow \in Flows
    <3>1. Sending = sock[s].sending
      BY <1>6, Task, Zenon
    <3>2. Writes(sock[s], bound)
      BY Task, Zenon
    <3>3. \E d \in sock[s].sending : d \in Cmds(bound) /\ sock[s].sending = {d} /\ Sent(d)
      BY <1>1, <3>2, Zenon DEF Writes
    <3>4. \A d \in Cmds(bound) : d.flow \in Flows
      BY Zenon DEF Cmds
    <3> QED
      BY <1>2, <3>1, <3>3, <3>4, Zenon
  <2>2. 0 \in 0 .. bound.sessions
    BY Known, SMTT(30)
  <2>3. /\ Kept(g, {c}, g.bundle, clock, decisions) /\ Homed(g, {c}, LatchedBy)
        /\ Shrinks(g, g) /\ {} \in SUBSET {c}
    <3>1. Like(g, g)
      BY Zenon DEF Like
    <3> QED
      BY <1>3, <2>1, <3>1, LikeShrinks, Zenon
  <2>4. Kept(g, {}, g.bundle, clock, decisions)
    BY <1>3, <2>3, ShrinksKept, Zenon
  <2>5. Homed(g, {}, 0)
    BY <2>3, Zenon DEF Homed
  <2>6. CASE g.states[c.flow].id # c.id
    <3>1. g' = [g EXCEPT !.session = 0]
      BY <1>2, <1>6, <2>6, Zenon
    <3>2. /\ Like(g, g') /\ DOMAIN g' = Fields /\ g'.session = 0 /\ g'.caps = g.caps
          /\ g'.notified = g.notified /\ g'.bundle = g.bundle
      BY <1>3, <3>1, Zenon DEF Gateway, Fields, Like
    <3>3. g'.session \in 0 .. bound.sessions /\ g'.caps \in 0 .. bound.boots /\ g'.notified \in BOOLEAN
      BY <1>3, <2>2, <3>2, Zenon DEF Gateway
    <3>4. Gateway(g', bound) /\ Short(g') /\ Line(g') /\ Shrinks(g, g')
      BY <1>3, <3>2, <3>3, LikeSound, LikeShrinks, Zenon
    <3>5. /\ sock' \in [Sessions -> Sock] /\ Tasks(sock', g', bound)
          /\ Sending' = {} /\ LatchedBy' = 0
      BY <1>1, <3>2, <3>3, StopsWriting, Zenon
    <3>6. Homed(g', Sending', LatchedBy') /\ Sending' \in SUBSET Sending
      BY <1>3, <2>5, <3>2, <3>4, <3>5, ShrinksHomed, Zenon DEF Like
    <3> QED
      BY <1>1, <3>4, <3>5, <3>6, ShrinkStep, Zenon
  <2>7. CASE g.states[c.flow].id = c.id
    <3> DEFINE x == [g EXCEPT !.pending[c.flow] = c]
    <3>1. PICK h \in Fills(x) : g' = [h EXCEPT !.notified = TRUE, !.session = 0]
      BY <1>2, <1>6, <2>7, Zenon
    <3>2. g.states[c.flow] = c
      BY <2>1, <2>3, <2>7, Zenon DEF Kept, Last
    <3>3. /\ DOMAIN x = Fields /\ x.bundle = g.bundle /\ x.session = g.session
          /\ x.sessionBoot = g.sessionBoot /\ x.flowBoot = g.flowBoot /\ x.caps = g.caps
          /\ x.contexts = g.contexts /\ x.notified = g.notified /\ x.queue = g.queue
          /\ x.states = g.states /\ x.flight = g.flight /\ x.attempts = g.attempts
          /\ x.delayed = g.delayed /\ x.pending = [g.pending EXCEPT ![c.flow] = c]
      BY <1>3, Zenon DEF Gateway, Fields
    <3> HIDE DEF x
    <3>4. DOMAIN g.pending = Flows
      BY <1>3, Zenon DEF Gateway
    <3>5. /\ x.pending = [f \in Flows |-> x.pending[f]]
          /\ \A f \in Flows : x.pending[f] = IF f = c.flow THEN c ELSE g.pending[f]
      BY <3>3, <3>4, Zenon
    <3>6. /\ Spare(g, c.id) /\ c.id # g.delayed[c.flow] /\ \A e \in g.flight : e.cmd.id # c.id
      BY <2>1, <2>3, Zenon DEF Kept, Counted, Apart
    <3>7. Pends(g, x, {})
      <4>1. ASSUME NEW f \in Flows
            PROVE  \/ x.pending[f] = g.pending[f]
                   \/ /\ x.pending[f] = g.states[f] /\ Spare(g, g.states[f].id) /\ g.states[f].id # g.delayed[f]
                      /\ \A e \in g.flight : e.cmd.id # g.states[f].id
        BY <3>2, <3>5, <3>6, Zenon
      <4> QED
        BY <3>3, <3>5, <4>1, Zenon DEF Pends
    <3>8. Gateway(x, bound) /\ Short(x) /\ Kept(x, {}, g.bundle, clock, decisions) /\ Homed(x, {}, 0)
      BY <1>3, <2>4, <2>5, <3>7, PendsKept, Zenon
    <3>9. Shrinks(x, h) /\ Stays(x, h) /\ Gateway(h, bound)
      BY <1>3, <3>1, <3>8, FillsShrinks, Zenon
    <3>10. /\ Like(h, g') /\ DOMAIN g' = Fields /\ g'.session = 0 /\ g'.caps = h.caps
           /\ g'.notified = TRUE /\ g'.bundle = h.bundle
      BY <3>1, <3>9, Zenon DEF Gateway, Fields, Like
    <3>11. /\ g'.session \in 0 .. bound.sessions /\ g'.caps \in 0 .. bound.boots
           /\ g'.notified \in BOOLEAN /\ g'.bundle = g.bundle
      BY <2>2, <3>3, <3>9, <3>10, Zenon DEF Gateway, Shrinks
    <3>12. /\ sock' \in [Sessions -> Sock] /\ Tasks(sock', g', bound)
           /\ Sending' = {} /\ LatchedBy' = 0
      BY <1>1, <3>10, <3>11, StopsWriting, Zenon
    <3>13. Kept(x, Sending', x.bundle, clock', decisions') /\ Homed(x, Sending', LatchedBy')
      BY <1>1, <3>3, <3>8, <3>12, Zenon
    <3>14. \A f \in Flows : x.states[f] = g.states[f]
      BY <3>3, Zenon
    <3> QED
      BY <1>1, <1>4, <3>1, <3>8, <3>10, <3>11, <3>12, <3>13, <3>14, FillStep, ZenonT(30)
  <2> QED
    BY <2>6, <2>7, Zenon
<1> QED
  BY <1>5, <1>6, Zenon

\* acknowledge_flow_command, when the command is set aside for a later retry.
Postpones(s, x, e) ==
  /\ DOMAIN x = Fields /\ x.bundle = s.bundle /\ x.session = s.session /\ x.sessionBoot = s.sessionBoot
  /\ x.flowBoot = s.flowBoot /\ x.caps = s.caps /\ x.contexts = s.contexts /\ x.notified = s.notified
  /\ x.queue = s.queue /\ x.states = s.states /\ x.pending = s.pending
  /\ x.flight = s.flight \ {e} /\ x.attempts = Forget(s.attempts, {s.delayed[e.cmd.flow]} \ {e.cmd.id})
  /\ x.delayed = [s.delayed EXCEPT ![e.cmd.flow] = e.cmd.id]
  /\ s.states[e.cmd.flow].id = e.cmd.id /\ e.attempts < MaxAttempts

LEMMA PostponeKept ==
  ASSUME Counting, NEW bd \in Scenarios, NEW s, Gateway(s, bd), Short(s), NEW e \in s.flight, NEW x,
         Postpones(s, x, e), NEW rev, NEW m, NEW ds, Kept(s, {}, rev, m, ds), NEW boot, Homed(s, {}, boot)
  PROVE  Gateway(x, bd) /\ Short(x) /\ Kept(x, {}, rev, m, ds) /\ Homed(x, {}, boot)
<1> DEFINE f == e.cmd.flow
           i == e.cmd.id
           gone == {s.delayed[f]} \ {i}
<1>1. /\ x.bundle = s.bundle /\ x.sessionBoot = s.sessionBoot /\ x.flowBoot = s.flowBoot
      /\ x.contexts = s.contexts /\ x.queue = s.queue /\ x.states = s.states /\ x.pending = s.pending
      /\ x.flight = s.flight \ {e} /\ x.attempts = Forget(s.attempts, gone)
      /\ x.delayed = [s.delayed EXCEPT ![f] = i] /\ s.states[f].id = i /\ e.attempts < MaxAttempts
  BY Zenon DEF Postpones
<1>2. /\ Owned(s, {}) /\ Last(s, {}) /\ Apart(s, {}) /\ Counted(s, {}) /\ Window(s, {})
      /\ Dated(s, {}, rev, m, ds) /\ Timely(s) /\ Decided(s, m, ds)
  BY Zenon DEF Kept
<1>3. f \in Flows /\ i \in Id
  <2>1. e \in [cmd : Cmds(bd), attempts : 1 .. MaxAttempts]
    BY Zenon DEF Gateway
  <2> QED
    BY <2>1, Zenon DEF Cmds
<1>4. i.flow = f /\ i.kind # "none" /\ i \in DOMAIN s.attempts /\ s.attempts[i] = e.attempts
  BY <1>2, Zenon DEF Owned, Sent, Counted
<1>5. DOMAIN s.attempts \in SUBSET Id /\ s.attempts \in [DOMAIN s.attempts -> 1 .. MaxAttempts]
  BY Zenon DEF Gateway
<1>6. /\ DOMAIN x.attempts = DOMAIN s.attempts \ gone /\ DOMAIN x.attempts \in SUBSET Id
      /\ \A j \in DOMAIN s.attempts \ gone : x.attempts[j] = s.attempts[j]
      /\ x.attempts \in [DOMAIN x.attempts -> 1 .. MaxAttempts]
  <2> DEFINE att == Forget(s.attempts, gone)
  <2>1. /\ DOMAIN att = DOMAIN s.attempts \ gone /\ DOMAIN att \in SUBSET Id
        /\ \A j \in DOMAIN s.attempts \ gone : att[j] = s.attempts[j]
        /\ att \in [DOMAIN att -> 1 .. MaxAttempts]
    BY <1>5, ForgetSound, Zenon
  <2>2. x.attempts = att
    BY <1>1, Zenon
  <2> HIDE DEF att, gone
  <2> QED
    BY <2>1, <2>2, Zenon
<1>7. \A j : j \in gone <=> j = s.delayed[f] /\ j # i
  BY Zenon
<1>8. \A h \in Flows : x.delayed[h] = IF h = f THEN i ELSE s.delayed[h]
  <2>1. DOMAIN s.delayed = Flows
    BY Zenon DEF Gateway
  <2> QED
    BY <1>1, <2>1, Zenon
<1>9. ~Present(s.pending[f])
  <2>1. ASSUME Present(s.pending[f]) PROVE FALSE
    <3>1. s.pending[f].id = i
      BY <1>1, <1>2, <1>3, <2>1, Zenon DEF Last
    <3> QED
      BY <1>2, <1>3, <2>1, <3>1, Zenon DEF Apart
  <2> QED
    BY <2>1, Zenon
<1> HIDE DEF f, i, gone
<1>10. Gateway(x, bd) /\ Short(x)
  <2>1. x.delayed \in [Flows -> Id]
    <3>1. s.delayed \in [Flows -> Id]
      BY Zenon DEF Gateway
    <3> QED
      BY <1>1, <1>3, <3>1, Zenon
  <2>2. x.flight \in SUBSET [cmd : Cmds(bd), attempts : 1 .. MaxAttempts]
    BY <1>1, Zenon DEF Gateway
  <2> QED
    BY <1>6, <2>1, <2>2, Zenon DEF Gateway, Short, Postpones
<1>11. Owned(x, {}) /\ Last(x, {})
  <2>1. \A h \in Flows : x.delayed[h].flow = h
    BY <1>2, <1>4, <1>8, Zenon DEF Owned
  <2> QED
    BY <1>1, <1>2, <2>1, Zenon DEF Owned, Last
<1>12. \A z \in x.flight : z \in s.flight /\ z.cmd.id # i
  BY <1>1, <1>2, Zenon DEF Apart, i
<1>13. Apart(x, {})
  <2>1. ASSUME NEW h \in Flows, Present(x.pending[h])
        PROVE  x.pending[h].id # x.delayed[h] /\ \A z \in x.flight : z.cmd.id # x.pending[h].id
    <3>1. h # f /\ Present(s.pending[h])
      BY <1>1, <1>9, <2>1, Zenon
    <3>2. s.pending[h].id # s.delayed[h] /\ \A z \in s.flight : z.cmd.id # s.pending[h].id
      BY <1>2, <3>1, Zenon DEF Apart
    <3> QED
      BY <1>1, <1>8, <1>12, <3>1, <3>2, Zenon
  <2>2. ASSUME NEW h \in Flows, NEW z \in x.flight PROVE z.cmd.id # x.delayed[h]
    <3>1. z \in s.flight /\ z.cmd.id # i /\ z.cmd.id # s.delayed[h]
      BY <1>2, <1>12, Zenon DEF Apart
    <3> QED
      BY <1>8, <3>1, Zenon
  <2>3. \A z, w \in x.flight : w.cmd.id = z.cmd.id => w = z
    BY <1>2, <1>12, Zenon DEF Apart
  <2> QED
    BY <2>1, <2>2, <2>3, Zenon DEF Apart
<1>14. Counted(x, {})
  <2>1. \A j : Spare(s, j) => Spare(x, j)
    BY <1>6, Zenon DEF Spare
  <2>2. ASSUME NEW z \in x.flight
        PROVE  z.cmd.id \in DOMAIN x.attempts /\ x.attempts[z.cmd.id] = z.attempts
    <3>1. z \in s.flight /\ z.cmd.id # s.delayed[f]
      BY <1>2, <1>3, <1>12, Zenon DEF Apart
    <3>2. z.cmd.id \in DOMAIN s.attempts /\ s.attempts[z.cmd.id] = z.attempts
      BY <1>2, <3>1, Zenon DEF Counted
    <3> QED
      BY <1>6, <1>7, <3>1, <3>2, Zenon
  <2>3. ASSUME NEW h \in Flows, x.delayed[h].kind # "none" PROVE Spare(x, x.delayed[h])
    <3>1. CASE h = f
      <4>1. Spare(s, i)
        BY <1>1, <1>4, Zenon DEF Spare
      <4> QED
        BY <1>8, <2>1, <3>1, <4>1, Zenon
    <3>2. CASE h # f
      <4>1. x.delayed[h] = s.delayed[h]
        BY <1>8, <3>2, Zenon
      <4> QED
        BY <1>2, <2>1, <2>3, <4>1, Zenon DEF Counted
    <3> QED
      BY <3>1, <3>2, Zenon
  <2>4. \A h \in Flows : Present(x.pending[h]) => Spare(x, x.pending[h].id)
    BY <1>1, <1>2, <2>1, Zenon DEF Counted
  <2> QED
    BY <2>2, <2>3, <2>4, Zenon DEF Counted
<1>15. Window(x, {})
  <2>1. IsFiniteSet(s.flight) /\ Cardinality(s.flight) + Cardinality({}) <= WindowCap
    BY <1>2, Zenon DEF Window
  <2>2. IsFiniteSet({}) /\ Cardinality({}) = 0
    BY Zenon DEF Counting
  <2>3. x.flight \in SUBSET s.flight
    BY <1>1, Zenon
  <2>4. IsFiniteSet(x.flight) /\ Cardinality(x.flight) <= Cardinality(s.flight)
    BY <2>1, <2>3, Zenon DEF Counting
  <2>5. Cardinality(x.flight) \in Nat /\ Cardinality(s.flight) \in Nat
    BY <2>1, <2>4, Zenon DEF Counting
  <2>6. Cardinality(x.flight) + Cardinality({}) <= WindowCap
    BY <2>1, <2>2, <2>4, <2>5, FlowAssumption, SMTT(30)
  <2> QED
    BY <2>2, <2>4, <2>6, Zenon DEF Window
<1>16. Dated(x, {}, rev, m, ds)
  <2>1. Old(i, rev, m, ds)
    BY <1>2, Zenon DEF Dated, i
  <2>2. \A h \in Flows : Old(x.delayed[h], rev, m, ds)
    BY <1>2, <1>8, <2>1, Zenon DEF Dated
  <2>3. \A z \in x.flight : Old(z.cmd.id, rev, m, ds)
    BY <1>2, <1>12, Zenon DEF Dated
  <2>4. \A j \in DOMAIN x.attempts : Old(j, rev, m, ds)
    BY <1>2, <1>6, Zenon DEF Dated
  <2> QED
    BY <1>1, <1>2, <2>2, <2>3, <2>4, Zenon DEF Dated
<1>17. Timely(x) /\ Decided(x, m, ds) /\ Homed(x, {}, boot)
  BY <1>1, <1>2, Zenon DEF Timely, Decided, Homed
<1> QED
  BY <1>10, <1>11, <1>13, <1>14, <1>15, <1>16, <1>17, Zenon DEF Kept

LEMMA FlowAckSound ==
  ASSUME Counting, IInv, Sending = {}, NEW e \in g.flight, NEW status,
         NEW s, NEW y \in FlowAck(s, e, status)
  PROVE  \E x : /\ Gateway(x, bound) /\ Short(x) /\ Kept(x, {}, g.bundle, clock, decisions)
                /\ Homed(x, {}, LatchedBy) /\ x.bundle = g.bundle /\ x.session = g.session
                /\ \A h \in Flows : x.states[h] = g.states[h] \/ ~Present(x.states[h])
                /\ \E h \in Fills(x) : y = NotifyIfQueued(h)
<1> DEFINE
      f == e.cmd.flow
      i == e.cmd.id
      last == g.states[f].id = i
      later == /\ status = "partial" /\ e.cmd.op = "shape" /\ e.attempts < MaxAttempts
               /\ last /\ i \notin expired
      over == e.cmd.op = "revoke" /\ status # "failed" /\ last
      gone == IF later THEN {g.delayed[f]} \ {i} ELSE {i}
      x == [g EXCEPT !.flight = g.flight \ {e}, !.attempts = Forget(g.attempts, gone),
                     !.delayed = [g.delayed EXCEPT ![f] = IF later THEN i ELSE g.delayed[f]],
                     !.states = [g.states EXCEPT ![f] = IF over THEN NoCmd(f) ELSE g.states[f]]]
<1>1. \E h \in Fills(x) : y = NotifyIfQueued(h)
  <2>1. x = [g EXCEPT !.flight = @ \ {e}, !.attempts = Forget(@, gone),
                      !.delayed[f] = IF later THEN i ELSE @,
                      !.states[f] = IF over THEN NoCmd(f) ELSE @]
    <3> HIDE DEF later, over, gone
    <3> QED
      BY Zenon
  <2> QED
    BY <2>1, Zenon DEF FlowAck
<1>2. /\ bound \in Scenarios /\ Gateway(g, bound) /\ Short(g) /\ clock \in Nat
      /\ Kept(g, {}, g.bundle, clock, decisions) /\ Homed(g, {}, LatchedBy)
      /\ \A d \in decisions : d.gen \in Nat
  BY Known, Zenon
<1>3. f \in Flows /\ i \in Id
  <2>1. e \in [cmd : Cmds(bound), attempts : 1 .. MaxAttempts]
    BY <1>2, Zenon DEF Gateway
  <2> QED
    BY <2>1, Zenon DEF Cmds
<1>4. /\ later => last /\ e.attempts < MaxAttempts /\ ~over
      /\ later => gone = {g.delayed[f]} \ {i}
      /\ ~later => gone = {i}
      /\ over => last
  BY Zenon
<1> HIDE DEF later, over, gone
<1>5. /\ DOMAIN x = Fields /\ x.bundle = g.bundle /\ x.session = g.session
      /\ x.sessionBoot = g.sessionBoot /\ x.flowBoot = g.flowBoot /\ x.caps = g.caps
      /\ x.contexts = g.contexts /\ x.notified = g.notified /\ x.queue = g.queue
      /\ x.pending = g.pending /\ x.flight = g.flight \ {e} /\ x.attempts = Forget(g.attempts, gone)
      /\ x.delayed = [g.delayed EXCEPT ![f] = IF later THEN i ELSE g.delayed[f]]
      /\ x.states = [g.states EXCEPT ![f] = IF over THEN NoCmd(f) ELSE g.states[f]]
  BY <1>2, Zenon DEF Gateway, Fields
<1> HIDE DEF x
<1>6. /\ g.states \in [Flows -> Cmds(bound)] /\ DOMAIN g.delayed = Flows /\ DOMAIN g.states = Flows
      /\ g.delayed \in [Flows -> Id]
      /\ DOMAIN g.attempts \in SUBSET Id /\ g.attempts \in [DOMAIN g.attempts -> 1 .. MaxAttempts]
  BY <1>2, Zenon DEF Gateway
<1>7. NoCmd(f) \in Cmds(bound) /\ ~Present(NoCmd(f))
  BY <1>2, <1>3, NoCmdTyped, Zenon
<1>8. \A h \in Flows : x.states[h] = g.states[h] \/ (x.states[h] = NoCmd(h) /\ h = f /\ over)
  BY <1>5, <1>6, Zenon
<1>9. ASSUME later
      PROVE  /\ Gateway(x, bound) /\ Short(x) /\ Kept(x, {}, g.bundle, clock, decisions)
             /\ Homed(x, {}, LatchedBy)
  <2>1. g.states[f].id = i /\ e.attempts < MaxAttempts /\ ~over /\ gone = {g.delayed[f]} \ {i}
    BY <1>4, <1>9, Zenon
  <2>2. x.states = g.states
    BY <1>5, <1>6, <2>1, Zenon
  <2>3. x.delayed = [g.delayed EXCEPT ![f] = i]
    BY <1>5, <1>9, Zenon
  <2>4. Postpones(g, x, e)
    BY <1>5, <2>1, <2>2, <2>3, Zenon DEF Postpones
  <2> QED
    BY <1>2, <2>4, PostponeKept, Zenon
<1>10. ASSUME ~later
       PROVE  /\ Gateway(x, bound) /\ Short(x) /\ Kept(x, {}, g.bundle, clock, decisions)
              /\ Homed(x, {}, LatchedBy)
  <2>1. gone = {i} /\ x.delayed = g.delayed
    BY <1>4, <1>5, <1>6, <1>10, Zenon
  <2>2. /\ DOMAIN x.attempts = DOMAIN g.attempts \ gone /\ DOMAIN x.attempts \in SUBSET Id
        /\ \A j \in DOMAIN g.attempts \ gone : x.attempts[j] = g.attempts[j]
        /\ x.attempts \in [DOMAIN x.attempts -> 1 .. MaxAttempts]
    <3> DEFINE att == Forget(g.attempts, gone)
    <3>1. /\ DOMAIN att = DOMAIN g.attempts \ gone /\ DOMAIN att \in SUBSET Id
          /\ \A j \in DOMAIN g.attempts \ gone : att[j] = g.attempts[j]
          /\ att \in [DOMAIN att -> 1 .. MaxAttempts]
      BY <1>6, ForgetSound, Zenon
    <3>2. x.attempts = att
      BY <1>5, Zenon
    <3> HIDE DEF att
    <3> QED
      BY <3>1, <3>2, Zenon
  <2>3. x.states \in [Flows -> Cmds(bound)]
    <3>1. \A h \in Flows : x.states[h] \in Cmds(bound)
      BY <1>6, <1>7, <1>8, Zenon
    <3>2. x.states = [h \in Flows |-> x.states[h]]
      BY <1>5, <1>6, Zenon
    <3> QED
      BY <3>1, <3>2, Zenon
  <2>4. x.flight \in SUBSET g.flight
    BY <1>5, Zenon
  <2>5. x.flight \in SUBSET [cmd : Cmds(bound), attempts : 1 .. MaxAttempts]
    BY <1>2, <2>4, Zenon DEF Gateway
  <2>6. Gateway(x, bound) /\ Short(x)
    BY <1>2, <1>5, <2>1, <2>2, <2>3, <2>5, Zenon DEF Gateway, Short
  <2>7. ASSUME over PROVE ~Present(g.pending[f])
    <3>1. g.states[f].id = i
      BY <1>4, <2>7, Zenon
    <3>2. Present(g.pending[f]) => g.pending[f].id = i
      BY <1>2, <1>3, <3>1, Zenon DEF Kept, Last
    <3> QED
      BY <1>2, <1>3, <3>2, Zenon DEF Kept, Apart
  <2>8. \A z \in x.flight : z.cmd.id \in DOMAIN g.attempts => z.cmd.id \in DOMAIN x.attempts
    <3>1. ASSUME NEW z \in x.flight PROVE z.cmd.id # i
      <4>1. z \in g.flight /\ z # e
        BY <1>5, Zenon
      <4> QED
        BY <1>2, <4>1, Zenon DEF Kept, Apart
    <3> QED
      BY <2>1, <2>2, <3>1, Zenon
  <2>9. \A h \in Flows : Present(x.pending[h]) /\ g.pending[h] = g.states[h] => x.states[h] = g.states[h]
    BY <1>5, <1>8, <2>7, Zenon
  <2>10. Shrinks(g, x)
    <3>1. \A h \in Flows : x.states[h] \in {g.states[h], NoCmd(h)}
      BY <1>8, Zenon
    <3>2. \A j \in DOMAIN x.attempts : j \in DOMAIN g.attempts /\ x.attempts[j] = g.attempts[j]
      BY <2>2, Zenon
    <3> QED
      BY <1>5, <2>1, <2>4, <2>8, <2>9, <3>1, <3>2, Zenon DEF Shrinks
  <2>11. {} \in SUBSET {}
    BY Zenon
  <2>12. Kept(x, {}, g.bundle, clock, decisions)
    BY <1>2, <2>10, <2>11, ShrinksKept, Zenon
  <2>13. Homed(x, {}, LatchedBy)
    BY <1>2, <1>5, <2>10, ShrinksHomed, Zenon
  <2> QED
    BY <2>6, <2>12, <2>13, Zenon
<1>11. \A h \in Flows : x.states[h] = g.states[h] \/ ~Present(x.states[h])
  BY <1>7, <1>8, Zenon
<1>12. /\ Gateway(x, bound) /\ Short(x) /\ Kept(x, {}, g.bundle, clock, decisions)
       /\ Homed(x, {}, LatchedBy)
  BY <1>9, <1>10, Zenon
<1> QED
  BY <1>1, <1>5, <1>11, <1>12, Zenon

LEMMA SockFlowAckStep ==
  ASSUME Counting, IInv, bound' = bound, NEW s \in Sessions, SockFlowAck(s) PROVE IInv' /\ Calm
<1>1. /\ sock[s].pc = "run" /\ Active(s) /\ sock' = sock
      /\ UNCHANGED <<agentBoot, decisions, expired, clock>>
  BY Zenon DEF SockFlowAck, Running
<1>2. PICK e \in g.flight, status \in {"applied", "partial", "failed"} : g' \in FlowAck(s, e, status)
  BY Zenon DEF SockFlowAck
<1>3. Sending = {} /\ bound \in Scenarios
  BY <1>1, Task, Known, Zenon
<1>4. PICK x : /\ Gateway(x, bound) /\ Short(x) /\ Kept(x, {}, g.bundle, clock, decisions)
               /\ Homed(x, {}, LatchedBy) /\ x.bundle = g.bundle /\ x.session = g.session
               /\ \A h \in Flows : x.states[h] = g.states[h] \/ ~Present(x.states[h])
               /\ \E h \in Fills(x) : g' = NotifyIfQueued(h)
  BY <1>2, <1>3, FlowAckSound, SMTT(30)
<1>5. PICK h \in Fills(x) : g' = NotifyIfQueued(h)
  BY <1>4, Zenon
<1>6. /\ Like(h, g') /\ DOMAIN g' = Fields /\ g'.session = x.session /\ g'.bundle = x.bundle
      /\ g'.session \in 0 .. bound.sessions /\ g'.caps \in 0 .. bound.boots /\ g'.notified \in BOOLEAN
  BY <1>3, <1>4, <1>5, FillFields, Zenon
<1>7. g'.session = g.session /\ g'.bundle = g.bundle
  BY <1>4, <1>6, Zenon
<1>8. /\ sock' \in [Sessions -> Sock] /\ Tasks(sock', g', bound)
      /\ Sending' = Sending /\ LatchedBy' = LatchedBy
  BY <1>1, <1>7, TasksStand, Zenon
<1>9. Kept(x, Sending', x.bundle, clock', decisions') /\ Homed(x, Sending', LatchedBy')
  BY <1>1, <1>3, <1>4, <1>8, Zenon
<1>10. decisions' \in SUBSET Decision /\ clock' \in 0 .. bound.decisions
  BY <1>1, Zenon DEF IInv
<1> QED
  BY <1>1, <1>4, <1>5, <1>6, <1>8, <1>9, <1>10, FillStep, ZenonT(30)

-----------------------------------------------------------------------------
(* A new revision.                                                         *)

\* revoke_active_flow_states, before fill_flow_queue.
Revocation(s, f, r) ==
  [id |-> [kind |-> "revision", n |-> r, flow |-> f], flow |-> f,
   boot |-> s.states[f].boot, rev |-> r, op |-> "revoke"]
Revokes(s, x, r) ==
  /\ DOMAIN x = Fields /\ x.bundle = s.bundle /\ x.session = s.session /\ x.sessionBoot = s.sessionBoot
  /\ x.flowBoot = s.flowBoot /\ x.caps = s.caps /\ x.contexts = s.contexts /\ x.notified = s.notified
  /\ x.queue = <<>> /\ x.flight = s.flight /\ x.attempts = s.attempts /\ x.delayed = s.delayed
  /\ x.states = [f \in Flows |-> x.states[f]] /\ x.pending = [f \in Flows |-> x.pending[f]]
  /\ \A f \in Flows : \/ /\ Upsert(s.states[f]) /\ x.states[f] = Revocation(s, f, r)
                         /\ x.pending[f] = Revocation(s, f, r)
                      \/ /\ ~Upsert(s.states[f]) /\ x.states[f] = s.states[f]
                         /\ x.pending[f] = s.pending[f]

\* The ids in use are not those of the next revision.
LEMMA OldLater ==
  ASSUME NEW i \in Id, NEW rev \in Nat, NEW n, NEW ds, Old(i, rev, n, ds)
  PROVE  Old(i, rev + 1, n, ds) /\ (i.kind = "revision" => i.n # rev + 1)
<1>1. i.n \in Nat
  BY Zenon DEF Id
<1>2. i.kind = "revision" => i.n <= rev + 1 /\ i.n # rev + 1
  BY <1>1, SMTT(30) DEF Old
<1> QED
  BY <1>2, Zenon DEF Old

LEMMA IdsTyped ==
  ASSUME NEW bd \in Scenarios, NEW s, Gateway(s, bd), NEW snd \in SUBSET Cmds(bd)
  PROVE  /\ \A f \in Flows : s.states[f].id \in Id /\ s.delayed[f] \in Id
         /\ \A e \in s.flight : e.cmd.id \in Id
         /\ \A i \in DOMAIN s.attempts : i \in Id
         /\ \A c \in snd : c.id \in Id
<1>1. \A c \in Cmds(bd) : c.id \in Id
  BY Zenon DEF Cmds
<1>2. \A e \in [cmd : Cmds(bd), attempts : 1 .. MaxAttempts] : e.cmd \in Cmds(bd)
  BY SMTT(30)
<1>3. \A e \in s.flight : e.cmd \in Cmds(bd)
  BY <1>2, Zenon DEF Gateway
<1>4. \A f \in Flows : s.states[f] \in Cmds(bd) /\ s.delayed[f] \in Id
  BY Zenon DEF Gateway
<1> QED
  BY <1>1, <1>3, <1>4, Zenon DEF Gateway

\* The revision after b.
Follows(r, b, bd) == r \in 0 .. bd.revs /\ r = b + 1

LEMMA DatedLater ==
  ASSUME NEW bd \in Scenarios, NEW s, Gateway(s, bd), NEW snd \in SUBSET Cmds(bd),
         NEW rev \in Nat, NEW n, NEW ds, Dated(s, snd, rev, n, ds)
  PROVE  Dated(s, snd, rev + 1, n, ds)
<1>1. /\ \A f \in Flows : s.states[f].id \in Id /\ s.delayed[f] \in Id
      /\ \A e \in s.flight : e.cmd.id \in Id
      /\ \A i \in DOMAIN s.attempts : i \in Id
      /\ \A c \in snd : c.id \in Id
  BY IdsTyped, Zenon
<1> QED
  BY <1>1, OldLater, Zenon DEF Dated

\* What holds of a record before and after the verdicts of the old revision are revoked.
Before(s, bd, snd, n, ds, boot) ==
  /\ bd \in Scenarios /\ Gateway(s, bd) /\ snd \in SUBSET Cmds(bd) /\ s.bundle \in Nat
  /\ Kept(s, snd, s.bundle, n, ds) /\ Homed(s, snd, boot)
After(s, x, bd, snd, n, ds, boot, r) ==
  /\ Gateway(x, bd) /\ Short(x) /\ Kept(x, snd, r, n, ds) /\ Homed(x, snd, boot)
  /\ \A f \in Flows : ~Upsert(x.states[f])
  /\ \A f \in Flows : x.states[f] = s.states[f] \/ x.states[f].id.kind = "revision"

LEMMA RevokeKept ==
  ASSUME NEW s, NEW bd, NEW snd, NEW n, NEW ds, NEW boot, Before(s, bd, snd, n, ds, boot),
         NEW r, Follows(r, s.bundle, bd), NEW x, Revokes(s, x, r)
  PROVE  After(s, x, bd, snd, n, ds, boot, r)
<1> bd \in Scenarios /\ Gateway(s, bd) /\ snd \in SUBSET Cmds(bd) /\ s.bundle \in Nat
  BY Zenon DEF Before
<1> Kept(s, snd, s.bundle, n, ds) /\ Homed(s, snd, boot)
  BY Zenon DEF Before
<1> SUFFICES /\ Gateway(x, bd) /\ Short(x) /\ Kept(x, snd, r, n, ds) /\ Homed(x, snd, boot)
             /\ \A f \in Flows : ~Upsert(x.states[f])
             /\ \A f \in Flows : x.states[f] = s.states[f] \/ x.states[f].id.kind = "revision"
  BY Zenon DEF After
<1>1. /\ DOMAIN x = Fields /\ x.bundle = s.bundle /\ x.session = s.session /\ x.sessionBoot = s.sessionBoot
      /\ x.flowBoot = s.flowBoot /\ x.caps = s.caps /\ x.contexts = s.contexts /\ x.notified = s.notified
      /\ x.queue = <<>> /\ x.flight = s.flight /\ x.attempts = s.attempts /\ x.delayed = s.delayed
      /\ x.states = [f \in Flows |-> x.states[f]] /\ x.pending = [f \in Flows |-> x.pending[f]]
  BY Zenon DEF Revokes
<1>2. \A f \in Flows : \/ /\ Upsert(s.states[f]) /\ x.states[f] = Revocation(s, f, r)
                          /\ x.pending[f] = Revocation(s, f, r)
                       \/ /\ ~Upsert(s.states[f]) /\ x.states[f] = s.states[f]
                          /\ x.pending[f] = s.pending[f]
  BY Zenon DEF Revokes
<1>3. /\ Owned(s, snd) /\ Last(s, snd) /\ Apart(s, snd) /\ Counted(s, snd) /\ Window(s, snd)
      /\ Dated(s, snd, s.bundle, n, ds) /\ Timely(s) /\ Decided(s, n, ds)
  BY Zenon DEF Kept
<1>4. r \in Nat /\ r # 0 /\ r \in 0 .. bd.revs /\ r = s.bundle + 1
  BY SMTT(30) DEF Follows
<1>5. \A f \in Flows : s.states[f] \in Cmds(bd) /\ s.pending[f] \in Cmds(bd)
  BY Zenon DEF Gateway
<1>6. \A f \in Flows :
        /\ Revocation(s, f, r) \in Cmds(bd) /\ Revocation(s, f, r).flow = f
        /\ Revocation(s, f, r).id.flow = f /\ Revocation(s, f, r).id.kind = "revision"
        /\ Revocation(s, f, r).id.n = r /\ Revocation(s, f, r).rev = r
        /\ Revocation(s, f, r).boot = s.states[f].boot
        /\ Present(Revocation(s, f, r)) /\ ~Upsert(Revocation(s, f, r))
  <2> SUFFICES ASSUME NEW f \in Flows
               PROVE  LET c == Revocation(s, f, r) IN
                      /\ c \in Cmds(bd) /\ c.flow = f /\ c.id.flow = f /\ c.id.kind = "revision"
                      /\ c.id.n = r /\ c.rev = r /\ c.boot = s.states[f].boot
                      /\ Present(c) /\ ~Upsert(c)
    BY Zenon
  <2>1. s.states[f].boot \in 0 .. bd.boots
    BY <1>5, Zenon DEF Cmds
  <2> QED
    BY <1>4, <2>1, Zenon DEF Revocation, Cmds, Id, Op, Present, Upsert
<1>7. /\ \A f \in Flows : s.states[f].id \in Id /\ s.delayed[f] \in Id
      /\ \A e \in s.flight : e.cmd.id \in Id
      /\ \A i \in DOMAIN s.attempts : i \in Id
      /\ \A c \in snd : c.id \in Id
  BY IdsTyped, Zenon
<1>8. \A i \in Id : Old(i, s.bundle, n, ds) =>
        Old(i, r, n, ds) /\ \A f \in Flows : i # Revocation(s, f, r).id
  <2> SUFFICES ASSUME NEW i \in Id, Old(i, s.bundle, n, ds)
               PROVE  Old(i, r, n, ds) /\ \A f \in Flows : i # Revocation(s, f, r).id
    BY SMTT(30)
  <2>1. Old(i, r, n, ds) /\ (i.kind = "revision" => i.n # r)
    BY <1>4, OldLater, Zenon
  <2> QED
    BY <1>6, <2>1, Zenon
<1>9. /\ \A f, h \in Flows : s.delayed[f] # Revocation(s, h, r).id
      /\ \A e \in s.flight, h \in Flows : e.cmd.id # Revocation(s, h, r).id
      /\ \A i \in DOMAIN s.attempts, h \in Flows : i # Revocation(s, h, r).id
      /\ \A c \in snd, h \in Flows : c.id # Revocation(s, h, r).id
  BY <1>3, <1>7, <1>8, Zenon DEF Dated
<1>10. Gateway(x, bd) /\ Short(x)
  <2>1. \A f \in Flows : x.states[f] \in Cmds(bd) /\ x.pending[f] \in Cmds(bd)
    BY <1>2, <1>5, <1>6, ZenonT(40)
  <2>2. x.states \in [Flows -> Cmds(bd)] /\ x.pending \in [Flows -> Cmds(bd)]
    BY <1>1, <2>1, Zenon
  <2>3. <<>> \in Seq(Flows) /\ Len(<<>>) = 0 /\ DOMAIN <<>> = {}
    BY SMTT(30)
  <2>4. Gateway(x, bd)
    BY <1>1, <2>2, <2>3, Zenon DEF Gateway
  <2>5. Len(x.queue) <= QueueCap
    BY <1>1, <2>3, FlowAssumption, SMTT(30)
  <2>6. IsInjective(x.queue)
    BY <1>1, <2>3, Zenon DEF IsInjective
  <2> QED
    BY <2>4, <2>5, <2>6, Zenon DEF Short
<1>11. Owned(x, snd)
  <2>1. \A f \in Flows : Own(Revocation(s, f, r), f)
    BY <1>4, <1>6, Zenon DEF Own
  <2>2. \A f \in Flows : Own(s.states[f], f) /\ Own(s.pending[f], f)
    BY <1>3, Zenon DEF Owned
  <2>3. \A f \in Flows : Own(x.states[f], f) /\ Own(x.pending[f], f)
    BY <1>2, <2>1, <2>2, Zenon
  <2> QED
    BY <1>1, <1>3, <2>3, Zenon DEF Owned
<1>12. Last(x, snd)
  <2>1. \A f \in Flows : Present(x.pending[f]) => x.pending[f] = x.states[f]
    BY <1>2, <1>3, Zenon DEF Last
  <2>2. ASSUME NEW c \in snd, c.flow \in Flows, x.states[c.flow].id = c.id PROVE x.states[c.flow] = c
    <3>1. x.states[c.flow] = s.states[c.flow]
      <4>1. x.states[c.flow] = s.states[c.flow] \/ x.states[c.flow] = Revocation(s, c.flow, r)
        BY <1>2, <2>2, Zenon
      <4>2. c.id # Revocation(s, c.flow, r).id
        BY <1>9, <2>2, Zenon
      <4> QED
        BY <2>2, <4>1, <4>2, Zenon
    <3> QED
      BY <1>3, <2>2, <3>1, Zenon DEF Last
  <2> QED
    BY <2>1, <2>2, Zenon DEF Last
<1>13. Apart(x, snd)
  <2>1. ASSUME NEW f \in Flows, Present(x.pending[f])
        PROVE  /\ x.pending[f].id # x.delayed[f]
               /\ \A e \in x.flight : e.cmd.id # x.pending[f].id
               /\ \A c \in snd : c.id # x.pending[f].id
    <3>1. CASE x.pending[f] = Revocation(s, f, r)
      <4>1. /\ Revocation(s, f, r).id # s.delayed[f]
            /\ \A e \in s.flight : e.cmd.id # Revocation(s, f, r).id
            /\ \A c \in snd : c.id # Revocation(s, f, r).id
        BY <1>9, Zenon
      <4> QED
        BY <1>1, <3>1, <4>1
    <3>2. CASE x.pending[f] = s.pending[f]
      <4>1. /\ s.pending[f].id # s.delayed[f]
            /\ \A e \in s.flight : e.cmd.id # s.pending[f].id
            /\ \A c \in snd : c.id # s.pending[f].id
        BY <1>3, <2>1, <3>2, Zenon DEF Apart
      <4> QED
        BY <1>1, <3>2, <4>1
    <3> QED
      BY <1>2, <3>1, <3>2, Zenon
  <2>2. \A f \in Flows : /\ \A e \in x.flight : e.cmd.id # x.delayed[f]
                         /\ \A c \in snd : c.id # x.delayed[f]
    BY <1>1, <1>3, SMTT(30) DEF Apart
  <2>3. \A e \in x.flight : /\ \A z \in x.flight : z.cmd.id = e.cmd.id => z = e
                            /\ \A c \in snd : c.id # e.cmd.id
    BY <1>1, <1>3, Zenon DEF Apart
  <2> QED
    BY <2>1, <2>2, <2>3, Zenon DEF Apart
<1>14. Counted(x, snd)
  <2>1. \A i : Spare(s, i) => Spare(x, i)
    BY <1>1, Zenon DEF Spare
  <2>2. \A f \in Flows : Spare(x, Revocation(s, f, r).id)
    BY <1>1, <1>9, Zenon DEF Spare
  <2>3. \A f \in Flows : Present(x.pending[f]) => Spare(x, x.pending[f].id)
    BY <1>2, <1>3, <2>1, <2>2, Zenon DEF Counted
  <2> QED
    BY <1>1, <1>3, <2>1, <2>3, Zenon DEF Counted
<1>15. Window(x, snd) /\ Decided(x, n, ds)
  BY <1>1, <1>3, Zenon DEF Window, Decided
<1>16. Dated(x, snd, r, n, ds)
  <2>1. \A f \in Flows : Old(Revocation(s, f, r).id, r, n, ds)
    <3>1. r <= r
      BY <1>4, SMTT(30)
    <3> QED
      BY <1>6, <3>1, Zenon DEF Old
  <2>2. Dated(s, snd, r, n, ds)
    BY <1>3, <1>4, DatedLater, Zenon
  <2>3. \A f \in Flows : Old(x.states[f].id, r, n, ds)
    BY <1>2, <2>1, <2>2, Zenon DEF Dated
  <2> QED
    BY <1>1, <2>2, <2>3, Zenon DEF Dated
<1>17. \A f \in Flows : ~Upsert(x.states[f])
  BY <1>2, <1>6, Zenon
<1>18. Timely(x)
  BY <1>17, Zenon DEF Timely
<1>19. Homed(x, snd, boot)
  <2>1. \A f \in Flows : x.states[f].boot \in {0, x.flowBoot} /\ x.pending[f].boot \in {0, x.flowBoot}
    <3>1. \A f \in Flows : s.states[f].boot \in {0, s.flowBoot} /\ s.pending[f].boot \in {0, s.flowBoot}
      BY Zenon DEF Homed
    <3>2. \A f \in Flows : /\ x.states[f].boot = s.states[f].boot
                           /\ x.pending[f].boot \in {s.states[f].boot, s.pending[f].boot}
      BY <1>2, <1>6, Zenon
    <3> QED
      BY <1>1, <3>1, <3>2, Zenon
  <2> QED
    BY <1>1, <2>1, Zenon DEF Homed
<1>20. \A f \in Flows : x.states[f] = s.states[f] \/ x.states[f].id.kind = "revision"
  BY <1>2, <1>6, Zenon
<1>21. Kept(x, snd, r, n, ds)
  BY <1>11, <1>12, <1>13, <1>14, <1>15, <1>16, <1>18, Zenon DEF Kept
<1> QED
  BY <1>10, <1>17, <1>19, <1>20, <1>21, Zenon

\* The bundle is replaced when no verdict is in force.
Replaces(y, x, r) == x = [y EXCEPT !.bundle = r, !.caps = 0]
LEMMA NewBundle ==
  ASSUME NEW bd \in Scenarios, NEW y, Gateway(y, bd), Short(y), Line(y), NEW snd, NEW rev, NEW n, NEW ds,
         Kept(y, snd, rev, n, ds), NEW boot, Homed(y, snd, boot), \A f \in Flows : ~Upsert(y.states[f]),
         NEW r \in 0 .. bd.revs, NEW x, Replaces(y, x, r)
  PROVE  /\ Gateway(x, bd) /\ Short(x) /\ Line(x) /\ Kept(x, snd, rev, n, ds) /\ Homed(x, snd, boot)
         /\ x.bundle = r /\ x.session = y.session /\ x.states = y.states
<1>1. /\ DOMAIN x = Fields /\ x.bundle = r /\ x.session = y.session /\ x.sessionBoot = y.sessionBoot
      /\ x.flowBoot = y.flowBoot /\ x.caps = 0 /\ x.contexts = y.contexts /\ x.notified = y.notified
      /\ x.queue = y.queue /\ x.states = y.states /\ x.pending = y.pending /\ x.flight = y.flight
      /\ x.attempts = y.attempts /\ x.delayed = y.delayed
  BY Zenon DEF Gateway, Fields, Replaces
<1>2. 0 \in 0 .. bd.boots
  BY FlowAssumption, SMTT(30)
<1>3. Gateway(x, bd) /\ Short(x) /\ Line(x)
  BY <1>1, <1>2, Zenon DEF Gateway, Short, Line
<1>4. /\ Owned(y, snd) /\ Last(y, snd) /\ Apart(y, snd) /\ Counted(y, snd) /\ Window(y, snd)
      /\ Dated(y, snd, rev, n, ds) /\ Decided(y, n, ds)
  BY Zenon DEF Kept
<1>5. Owned(x, snd) /\ Last(x, snd)
  BY <1>1, <1>4, Zenon DEF Owned, Last
<1>6. Apart(x, snd)
  BY <1>1, <1>4, SMTT(30) DEF Apart
<1>7. Counted(x, snd) /\ Window(x, snd)
  BY <1>1, <1>4, Zenon DEF Counted, Window, Spare
<1>8. Dated(x, snd, rev, n, ds) /\ Decided(x, n, ds)
  BY <1>1, <1>4, Zenon DEF Dated, Decided
<1>9. Timely(x)
  BY <1>1, Zenon DEF Timely
<1>10. Homed(x, snd, boot)
  BY <1>1, Zenon DEF Homed
<1> QED
  BY <1>1, <1>3, <1>5, <1>6, <1>7, <1>8, <1>9, <1>10, Zenon DEF Kept

LEMMA PublishStep == ASSUME Counting, IInv, bound' = bound, Publish PROVE IInv' /\ Calm
<1> DEFINE r == g.bundle + 1
<1>1. /\ g.bundle < bound.revs /\ sock' = sock /\ UNCHANGED <<agentBoot, decisions, expired, clock>>
  BY Zenon DEF Publish
<1>2. \E h \in (IF g.bundle = 0 THEN {g} ELSE RevokeActive(g, r)) : g' = [h EXCEPT !.bundle = r, !.caps = 0]
  BY Zenon DEF Publish
<1>3. /\ bound \in Scenarios /\ Gateway(g, bound) /\ Short(g) /\ Line(g) /\ clock \in Nat
      /\ Kept(g, Sending, g.bundle, clock, decisions) /\ Homed(g, Sending, LatchedBy)
      /\ g.bundle \in Nat /\ bound.revs \in Nat /\ \A d \in decisions : d.gen \in Nat
  BY Known, Zenon
<1>4. r \in 0 .. bound.revs /\ r # 0
  BY <1>1, <1>3, SMTT(30)
<1>5. Sending \in SUBSET Cmds(bound)
  BY SendingTyped, Zenon
<1>6. \E y : /\ Gateway(y, bound) /\ Short(y) /\ Line(y) /\ Kept(y, Sending, r, clock, decisions)
             /\ Homed(y, Sending, LatchedBy) /\ \A f \in Flows : ~Upsert(y.states[f])
             /\ y.session = g.session /\ g' = [y EXCEPT !.bundle = r, !.caps = 0]
             /\ \A f \in Flows : \/ y.states[f] = g.states[f] \/ ~Present(y.states[f])
                                 \/ y.states[f].id.kind = "revision"
  <2>1. CASE g.bundle = 0
    <3>1. g' = [g EXCEPT !.bundle = r, !.caps = 0]
      BY <1>2, <2>1, Zenon
    <3>2. \A f \in Flows : ~Upsert(g.states[f])
      <4>1. \A f \in Flows : Present(g.states[f]) => g.states[f].rev # 0
        BY <1>3, Zenon DEF Kept, Owned, Own
      <4>2. \A f \in Flows : Upsert(g.states[f]) => g.states[f].rev = g.bundle
        BY <1>3, Zenon DEF Kept, Timely
      <4>3. \A f \in Flows : Upsert(g.states[f]) => Present(g.states[f])
        BY Zenon DEF Upsert, Present
      <4> QED
        BY <2>1, <4>1, <4>2, <4>3, Zenon
    <3>3. Dated(g, Sending, r, clock, decisions)
      <4>1. Dated(g, Sending, g.bundle, clock, decisions)
        BY <1>3, Zenon DEF Kept
      <4> QED
        BY <1>3, <1>5, <4>1, DatedLater, Zenon
    <3>4. Kept(g, Sending, r, clock, decisions)
      <4> HIDE DEF r
      <4> QED
        BY <1>3, <3>3, Zenon DEF Kept
    <3> HIDE DEF r
    <3> QED
      BY <1>3, <3>1, <3>2, <3>4, Zenon
  <2>2. CASE g.bundle # 0
    <3> DEFINE
          revoke(f) == [id |-> [kind |-> "revision", n |-> r, flow |-> f], flow |-> f,
                        boot |-> g.states[f].boot, rev |-> r, op |-> "revoke"]
          st == [f \in Flows |-> IF Upsert(g.states[f]) THEN revoke(f) ELSE g.states[f]]
          pe == [f \in Flows |-> IF Upsert(g.states[f]) THEN revoke(f) ELSE g.pending[f]]
          x  == [g EXCEPT !.states = st, !.pending = pe, !.queue = <<>>]
    <3>1. PICK h \in Fills(x) : g' = [NotifyIfQueued(h) EXCEPT !.bundle = r, !.caps = 0]
      BY <1>2, <2>2, Zenon DEF RevokeActive
    <3>2. /\ DOMAIN x = Fields /\ x.bundle = g.bundle /\ x.session = g.session
          /\ x.sessionBoot = g.sessionBoot /\ x.flowBoot = g.flowBoot /\ x.caps = g.caps
          /\ x.contexts = g.contexts /\ x.notified = g.notified /\ x.queue = <<>>
          /\ x.flight = g.flight /\ x.attempts = g.attempts /\ x.delayed = g.delayed
          /\ x.states = st /\ x.pending = pe
      BY <1>3, Zenon DEF Gateway, Fields
    <3>3. \A f \in Flows : revoke(f) = Revocation(g, f, r)
      BY Zenon DEF Revocation
    <3>4. /\ st = [f \in Flows |-> st[f]] /\ pe = [f \in Flows |-> pe[f]]
          /\ \A f \in Flows : /\ st[f] = IF Upsert(g.states[f]) THEN revoke(f) ELSE g.states[f]
                              /\ pe[f] = IF Upsert(g.states[f]) THEN revoke(f) ELSE g.pending[f]
      <4> HIDE DEF revoke
      <4> QED
        BY Zenon
    <3> HIDE DEF revoke, st, pe, x
    <3>5. Revokes(g, x, r)
      <4>1. \A f \in Flows : \/ /\ Upsert(g.states[f]) /\ x.states[f] = Revocation(g, f, r)
                                /\ x.pending[f] = Revocation(g, f, r)
                             \/ /\ ~Upsert(g.states[f]) /\ x.states[f] = g.states[f]
                                /\ x.pending[f] = g.pending[f]
        BY <3>2, <3>3, <3>4, SMTT(30)
      <4>2. x.states = [f \in Flows |-> x.states[f]] /\ x.pending = [f \in Flows |-> x.pending[f]]
        BY <3>2, <3>4, Zenon
      <4> QED
        BY <3>2, <4>1, <4>2, Zenon DEF Revokes
    <3>6. /\ Gateway(x, bound) /\ Short(x) /\ Kept(x, Sending, r, clock, decisions)
          /\ Homed(x, Sending, LatchedBy)
          /\ \A f \in Flows : ~Upsert(x.states[f])
          /\ \A f \in Flows : x.states[f] = g.states[f] \/ x.states[f].id.kind = "revision"
      <4>1. Follows(r, g.bundle, bound)
        BY <1>4, Zenon DEF Follows
      <4> HIDE DEF r
      <4> QED
        <5>1. Before(g, bound, Sending, clock, decisions, LatchedBy)
          BY <1>3, <1>5, Zenon DEF Before
        <5>2. After(g, x, bound, Sending, clock, decisions, LatchedBy, r)
          BY <3>5, <4>1, <5>1, RevokeKept, Zenon
        <5> QED
          BY <5>2, Zenon DEF After
    <3>7. Shrinks(x, h) /\ Stays(x, h) /\ Gateway(h, bound) /\ Short(h) /\ Line(h)
      BY <1>3, <3>6, FillsShrinks, Zenon
    <3> DEFINE y == NotifyIfQueued(h)
    <3>8. Like(h, y) /\ y.session = h.session /\ Gateway(y, bound) /\ Short(y) /\ Line(y)
      BY <1>3, <3>7, NotifyLike, Zenon
    <3>9. g' = [y EXCEPT !.bundle = r, !.caps = 0]
      BY <3>1, Zenon
    <3> HIDE DEF y, r
    <3>10. Shrinks(h, y)
      BY <3>8, LikeShrinks, Zenon
    <3>11. Sending \in SUBSET Sending
      BY Zenon
    <3>12. Kept(h, Sending, r, clock, decisions)
      BY <1>3, <3>6, <3>7, <3>11, ShrinksKept, Zenon
    <3>13. Kept(y, Sending, r, clock, decisions)
      BY <1>3, <3>7, <3>10, <3>11, <3>12, ShrinksKept, Zenon
    <3>14. Homed(h, Sending, LatchedBy)
      BY <1>3, <3>6, <3>7, ShrinksHomed, Zenon DEF Stays
    <3>15. Homed(y, Sending, LatchedBy)
      BY <1>3, <3>8, <3>10, <3>14, ShrinksHomed, Zenon DEF Like
    <3>16. \A f \in Flows : y.states[f] = x.states[f] \/ y.states[f] = NoCmd(f)
      BY <3>7, <3>8, Zenon DEF Shrinks, Like
    <3>17. \A f \in Flows : ~Present(NoCmd(f)) /\ ~Upsert(NoCmd(f))
      BY Zenon DEF NoCmd, Present, Upsert
    <3>18. \A f \in Flows : ~Upsert(y.states[f])
      BY <3>6, <3>16, <3>17, Zenon
    <3>19. \A f \in Flows : \/ y.states[f] = g.states[f] \/ ~Present(y.states[f])
                            \/ y.states[f].id.kind = "revision"
      BY <3>6, <3>16, <3>17, Zenon
    <3>20. y.session = g.session
      BY <3>2, <3>7, <3>8, Zenon DEF Stays
    <3> QED
      BY <3>8, <3>9, <3>13, <3>15, <3>18, <3>19, <3>20, Zenon
  <2> QED
    BY <2>1, <2>2, ZenonT(30)
<1> HIDE DEF r
<1>7. PICK y : /\ Gateway(y, bound) /\ Short(y) /\ Line(y) /\ Kept(y, Sending, r, clock, decisions)
               /\ Homed(y, Sending, LatchedBy) /\ \A f \in Flows : ~Upsert(y.states[f])
               /\ y.session = g.session /\ g' = [y EXCEPT !.bundle = r, !.caps = 0]
               /\ \A f \in Flows : \/ y.states[f] = g.states[f] \/ ~Present(y.states[f])
                                   \/ y.states[f].id.kind = "revision"
  BY <1>6, Zenon
<1>8. /\ Gateway(g', bound) /\ Short(g') /\ Line(g') /\ Kept(g', Sending, r, clock, decisions)
      /\ Homed(g', Sending, LatchedBy) /\ g'.bundle = r /\ g'.session = y.session /\ g'.states = y.states
  <2>1. Replaces(y, g', r)
    BY <1>7, Zenon DEF Replaces
  <2> QED
    BY <1>3, <1>4, <1>7, <2>1, NewBundle, SMTT(30)
<1>9. g'.session = g.session /\ (g.bundle # 0 => g'.bundle # 0)
  BY <1>4, <1>7, <1>8, Zenon
<1>10. /\ sock' \in [Sessions -> Sock] /\ Tasks(sock', g', bound)
       /\ Sending' = Sending /\ LatchedBy' = LatchedBy
  BY <1>1, <1>9, TasksStand, Zenon
<1>11. Kept(g', Sending', g'.bundle, clock', decisions') /\ Homed(g', Sending', LatchedBy')
  BY <1>1, <1>8, <1>10, Zenon
<1>12. /\ decisions' \in SUBSET Decision /\ clock' \in 0 .. bound.decisions
       /\ agentBoot' \in Boots /\ expired' \in SUBSET Id
  BY <1>1, Zenon DEF IInv
<1>13. IInv'
  BY <1>8, <1>10, <1>11, <1>12, Finish, Zenon
<1>14. Calm
  BY <1>7, <1>8, Zenon DEF Calm
<1> QED
  BY <1>13, <1>14, Zenon

-----------------------------------------------------------------------------
(* The specification.                                                      *)

LEMMA InitHolds == ASSUME Counting, Init PROVE IInv
<1>1. /\ bound \in Scenarios /\ sock = [s \in Sessions |-> NoSock]
      /\ agentBoot = 1 /\ decisions = {} /\ expired = {} /\ clock = 0
  BY Zenon DEF Init
<1>2. /\ bound.boots \in Nat \ {0} /\ bound.revs \in Nat /\ bound.sessions \in Nat /\ bound.decisions \in Nat
  BY <1>1, FlowAssumption, Zenon
<1>3. /\ 0 \in 0 .. bound.boots /\ 1 \in 0 .. bound.boots /\ 0 \in 0 .. bound.revs
      /\ 0 \in 0 .. bound.sessions /\ 0 \in 0 .. bound.decisions
  BY <1>2, SMTT(30)
<1>4. /\ DOMAIN g = Fields /\ g.bundle = 0 /\ g.session = 0 /\ g.sessionBoot = 0 /\ g.flowBoot = 0
      /\ g.pending = None /\ g.queue = <<>> /\ g.states = None /\ g.contexts = [f \in Flows |-> 0]
      /\ g.flight = {} /\ g.attempts = <<>> /\ g.delayed = NoDelay /\ g.notified = FALSE /\ g.caps = 0
  BY Zenon DEF Init, Fields
<1>5. \A f \in Flows : /\ NoCmd(f) \in Cmds(bound) /\ ~Present(NoCmd(f)) /\ NoId(f) \in Id
                       /\ Own(NoCmd(f), f) /\ NoCmd(f).id = NoId(f) /\ NoId(f).flow = f
                       /\ NoId(f).kind = "none" /\ NoCmd(f).boot = 0 /\ NoCmd(f).op = "none"
  BY <1>1, NoCmdTyped, Zenon
<1>6. /\ None \in [Flows -> Cmds(bound)] /\ NoDelay \in [Flows -> Id]
      /\ \A f \in Flows : None[f] = NoCmd(f) /\ NoDelay[f] = NoId(f)
  BY <1>5, Zenon DEF None, NoDelay
<1>7. /\ g.contexts \in [Flows -> Nat] /\ \A f \in Flows : g.contexts[f] = 0
  BY <1>4, SMTT(30)
<1>8. /\ <<>> \in Seq(Flows) /\ Len(<<>>) = 0 /\ DOMAIN <<>> = {}
      /\ <<>> \in [DOMAIN <<>> -> 1 .. MaxAttempts]
  BY SMTT(30)
<1>9. Gateway(g, bound)
  BY <1>3, <1>4, <1>6, <1>7, <1>8, Zenon DEF Gateway
<1>10. Short(g) /\ Line(g)
  <2>1. Len(g.queue) <= QueueCap
    BY <1>4, <1>8, FlowAssumption, SMTT(30)
  <2> QED
    BY <1>4, <1>8, <2>1, Zenon DEF Short, Line, IsInjective
<1>11. Sending = {} /\ LatchedBy = 0
  BY <1>4, Zenon DEF Sending, LatchedBy
<1>12. \A f \in Flows : /\ g.states[f] = NoCmd(f) /\ g.pending[f] = NoCmd(f) /\ g.delayed[f] = NoId(f)
  BY <1>4, <1>6, Zenon
<1>13. Owned(g, {}) /\ Last(g, {})
  BY <1>4, <1>5, <1>12, Zenon DEF Owned, Last
<1>14. Apart(g, {}) /\ Counted(g, {})
  BY <1>4, <1>5, <1>12, Zenon DEF Apart, Counted
<1>15. Window(g, {})
  <2>1. IsFiniteSet({}) /\ Cardinality({}) = 0
    BY Zenon DEF Counting
  <2> QED
    BY <1>4, <2>1, FlowAssumption, SMTT(30) DEF Window
<1>16. Dated(g, {}, 0, 0, {})
  <2>1. \A f \in Flows : Old(NoId(f), 0, 0, {})
    BY <1>5, Zenon DEF Old
  <2> QED
    BY <1>4, <1>5, <1>8, <1>12, <2>1, Zenon DEF Dated
<1>17. Timely(g)
  <2>1. \A f \in Flows : ~Upsert(NoCmd(f))
    BY <1>5, Zenon DEF Upsert
  <2> QED
    BY <1>12, <2>1, Zenon DEF Timely
<1>18. Decided(g, 0, {})
  BY <1>7, SMTT(30) DEF Decided
<1>19. Homed(g, {}, 0)
  BY <1>4, <1>5, <1>12, Zenon DEF Homed
<1>20. Kept(g, Sending, g.bundle, clock, decisions) /\ Homed(g, Sending, LatchedBy)
  BY <1>1, <1>4, <1>11, <1>13, <1>14, <1>15, <1>16, <1>17, <1>18, <1>19, Zenon DEF Kept
<1>21. sock \in [Sessions -> Sock] /\ Tasks(sock, g, bound)
  <2>1. NoSock \in Sock /\ NoSock.pc = "none" /\ NoSock.sending = {}
    BY <1>3, Zenon DEF NoSock, Sock, Boots, Revs
  <2>2. \A t \in 1 .. bound.sessions : sock[t] = NoSock
    BY <1>1, Zenon DEF Sessions
  <2>3. Writes(NoSock, bound)
    BY <2>1, Zenon DEF Writes
  <2> QED
    BY <1>1, <2>1, <2>2, <2>3, Zenon DEF Tasks
<1>22. agentBoot \in Boots /\ decisions \in SUBSET Decision /\ expired \in SUBSET Id /\ clock \in 0 .. bound.decisions
  BY <1>1, <1>3, Zenon DEF Boots
<1> QED
  BY <1>1, <1>9, <1>10, <1>20, <1>21, <1>22, Zenon DEF IInv

LEMMA SockSteps ==
  ASSUME Counting, IInv, bound' = bound, NEW s \in Sessions, SockStep(s) PROVE IInv' /\ Calm
<1>1. CASE Register(s)
  BY <1>1, RegisterStep, Zenon
<1>2. CASE SendBundle(s)
  BY <1>2, SendBundleStep, Zenon
<1>3. CASE SockEnd(s)
  BY <1>3, SockEndStep, Zenon
<1>4. CASE SockHealth(s)
  BY <1>4, SockHealthStep, Zenon
<1>5. CASE SockAck(s)
  BY <1>5, SockAckStep, Zenon
<1>6. CASE SockRefresh(s)
  BY <1>6, SockRefreshStep, Zenon
<1>7. CASE SockTake(s)
  BY <1>7, SockTakeStep, Zenon
<1>8. CASE SockSent(s)
  BY <1>8, SockSentStep, Zenon
<1>9. CASE SockSendFails(s)
  BY <1>9, SockSendFailsStep, Zenon
<1>10. CASE SockFlowAck(s)
  BY <1>10, SockFlowAckStep, Zenon
<1>11. ASSUME NEW ready \in SUBSET Delayed, NEW due \in SUBSET g.flight, SockRetry(s, ready, due)
       PROVE  IInv' /\ Calm
  BY <1>11, SockRetryStep, Zenon
<1> QED
  BY <1>1, <1>2, <1>3, <1>4, <1>5, <1>6, <1>7, <1>8, <1>9, <1>10, <1>11, Zenon DEF SockStep

LEMMA Steps == ASSUME Counting, IInv, Next PROVE IInv' /\ Calm
<1>1. bound' = bound
  BY Zenon DEF Next
<1>2. CASE Publish
  BY <1>1, <1>2, PublishStep, Zenon
<1>3. ASSUME NEW f \in bound.flows, NEW b \in 1 .. agentBoot, Classify(f, b) \/ Ended(f, b)
      PROVE  IInv' /\ Calm
  BY <1>1, <1>3, ClassifyStep, EndedStep, Zenon
<1>4. ASSUME NEW d \in decisions, RevokeCheck(d) \/ Arrive(d) PROVE IInv' /\ Calm
  BY <1>1, <1>4, RevokeCheckStep, ArriveStep, Zenon
<1>5. ASSUME NEW s \in Sessions, SockStep(s) PROVE IInv' /\ Calm
  BY <1>1, <1>5, SockSteps, Zenon
<1>6. CASE AgentRestart
  BY <1>1, <1>6, RestartStep, Zenon
<1>7. ASSUME NEW f \in Flows, Expire(f) PROVE IInv' /\ Calm
  BY <1>1, <1>7, ExpireStep, Zenon
<1> QED
  BY <1>2, <1>3, <1>4, <1>5, <1>6, <1>7, Zenon DEF Next, Samples, Deciding

LEMMA Stutter == ASSUME IInv, UNCHANGED <<vars, bound>> PROVE IInv'
<1>1. UNCHANGED <<g, sock, agentBoot, decisions, expired, clock, bound>>
  BY Zenon DEF vars
<1>2. g'.session = g.session /\ (g.bundle # 0 => g'.bundle # 0)
  BY <1>1, Zenon
<1>3. /\ sock' \in [Sessions -> Sock] /\ Tasks(sock', g', bound)
      /\ Sending' = Sending /\ LatchedBy' = LatchedBy
  BY <1>1, <1>2, TasksStand, Zenon
<1>4. /\ Gateway(g', bound) /\ Short(g') /\ Line(g')
      /\ Kept(g', Sending', g'.bundle, clock', decisions') /\ Homed(g', Sending', LatchedBy')
  BY <1>1, <1>3, Known, Zenon
<1>5. /\ decisions' \in SUBSET Decision /\ clock' \in 0 .. bound.decisions
      /\ agentBoot' \in Boots /\ expired' \in SUBSET Id
  BY <1>1, Zenon DEF IInv
<1> QED
  BY <1>1, <1>3, <1>4, <1>5, Finish, Zenon

-----------------------------------------------------------------------------
(* The theorems.                                                           *)

INSTANCE FiniteSetTheorems

\* A set of numbers that is not empty has a least member.
LEMMA LeastMember ==
  ASSUME NEW S \in SUBSET Nat, S # {} PROVE \E x \in S : \A y \in S : x <= y
<1>1. PICK x \in S : \A y \in S : ~(<<y, x>> \in OpToRel(<, Nat))
  BY NatLessThanWellFounded, WFMin, Zenon
<1>2. OpToRel(<, Nat) = {p \in Nat \X Nat : p[1] < p[2]}
  BY Zenon DEF OpToRel
<1>3. ASSUME NEW y \in S PROVE ~(y < x)
  <2>1. <<y, x>> \notin {p \in Nat \X Nat : p[1] < p[2]}
    BY <1>1, <1>2, Zenon
  <2> QED
    BY <2>1, Zenon
<1> QED
  BY <1>3, SMTT(30)

LEMMA CountingHolds == Counting
<1>1. \A S : S \in SUBSET Nat /\ S # {} => \E x \in S : \A y \in S : x <= y
  BY LeastMember, Zenon
<1>2. IsFiniteSet({}) /\ Cardinality({}) = 0
  BY FS_EmptySet, Zenon
<1>3. \A x : IsFiniteSet({x}) /\ Cardinality({x}) = 1
  BY FS_Singleton, Zenon
<1>4. \A S : IsFiniteSet(S) => Cardinality(S) \in Nat
  BY FS_CardinalityType, Zenon
<1>5. \A S, T : IsFiniteSet(S) /\ T \in SUBSET S => IsFiniteSet(T) /\ Cardinality(T) <= Cardinality(S)
  BY FS_Subset, Zenon
<1>6. \A S, x : IsFiniteSet(S) =>
        /\ IsFiniteSet(S \cup {x})
        /\ Cardinality(S \cup {x}) = IF x \in S THEN Cardinality(S) ELSE Cardinality(S) + 1
  BY FS_AddElement, Zenon
<1> QED
  BY <1>1, <1>2, <1>3, <1>4, <1>5, <1>6, Zenon DEF Counting

\* The inductive invariant holds whatever the telemetry thread, the policy
\* changes, and the tasks of old and new sockets do in whatever order.
THEOREM DeliveryInvariant == Spec => []IInv
<1>1. Init => IInv
  BY CountingHolds, InitHolds, Zenon
<1>2. IInv /\ [Next]_<<vars, bound>> => IInv'
  BY CountingHolds, Steps, Stutter, Zenon
<1> QED
  BY <1>1, <1>2, PTL DEF Spec

\* The hub's state has its type: no command is counted as sent more than
\* FLOW_COMMAND_MAX_ATTEMPTS times, the window with the command being written and
\* the queue keep within their capacities, and the queue holds distinct pending
\* flows.
THEOREM DeliveryTypes == Spec => []TypeOK
<1>1. ASSUME IInv PROVE TypeOK
  <2>1. /\ bound \in Scenarios /\ clock \in Nat /\ Cmd = Cmds(bound) /\ Gateway(g, bound) /\ Short(g) /\ Line(g)
        /\ Kept(g, Sending, g.bundle, clock, decisions)
    BY <1>1, Known, Zenon
  <2>2. /\ g.bundle \in Revs /\ g.session \in 0 .. bound.sessions
        /\ {g.sessionBoot, g.flowBoot, g.caps} \subseteq Boots
        /\ {g.pending, g.states} \subseteq [Flows -> Cmd] /\ g.queue \in Seq(Flows)
    BY <2>1, Zenon DEF Gateway, Boots, Revs
  <2>3. g.contexts \in [Flows -> 0 .. clock]
    <3>1. g.contexts \in [Flows -> Nat]
      BY <2>1, Zenon DEF Gateway
    <3>2. \A f \in Flows : g.contexts[f] <= clock
      BY <2>1, Zenon DEF Kept, Decided
    <3>3. \A f \in Flows : g.contexts[f] \in Nat
      BY <3>1, Zenon
    <3>4. \A f \in Flows : g.contexts[f] \in 0 .. clock
      BY <2>1, <3>2, <3>3, SMTT(30)
    <3> QED
      BY <3>1, <3>4, Zenon
  <2>4. /\ g.flight \subseteq [cmd : Cmd, attempts : 1 .. MaxAttempts]
        /\ g.attempts \in [DOMAIN g.attempts -> 1 .. MaxAttempts] /\ DOMAIN g.attempts \subseteq Id
        /\ g.delayed \in [Flows -> Id] /\ g.notified \in BOOLEAN
    <3>1. /\ g.flight \in SUBSET [cmd : Cmds(bound), attempts : 1 .. MaxAttempts]
          /\ g.attempts \in [DOMAIN g.attempts -> 1 .. MaxAttempts] /\ DOMAIN g.attempts \in SUBSET Id
          /\ g.delayed \in [Flows -> Id] /\ g.notified \in BOOLEAN
      BY <2>1, Zenon DEF Gateway
    <3>2. [cmd : Cmd, attempts : 1 .. MaxAttempts] = [cmd : Cmds(bound), attempts : 1 .. MaxAttempts]
      BY <2>1, Zenon
    <3> QED
      BY <3>1, <3>2, Zenon
  <2>5. /\ sock \in [Sessions -> Sock] /\ agentBoot \in Boots /\ decisions \subseteq Decision
        /\ expired \subseteq Id /\ clock \in 0 .. bound.decisions
    BY <1>1, Zenon DEF IInv
  <2>6. Cardinality(g.flight) + Cardinality(Sending) <= WindowCap
    BY <2>1, Zenon DEF Kept, Window
  <2>7. /\ Len(g.queue) <= QueueCap /\ IsInjective(g.queue)
        /\ \A i \in DOMAIN g.queue : Present(g.pending[g.queue[i]])
    BY <2>1, Zenon DEF Short, Line
  <2> QED
    BY <2>2, <2>3, <2>4, <2>5, <2>6, <2>7, Zenon DEF TypeOK
<1> QED
  BY <1>1, DeliveryInvariant, PTL

\* A superseded verdict does not come back through a retry, a failed write or a
\* reconnection, and the last one is never in two of the places from which it
\* would be sent.
THEOREM DeliverySendsLastOnce == Spec => []LastIsSentOnce
<1>1. ASSUME IInv PROVE LastIsSentOnce
  <2>1. Owned(g, Sending) /\ Last(g, Sending) /\ Apart(g, Sending) /\ bound \in Scenarios
    BY <1>1, Known, Zenon DEF Kept
  <2>2. SUFFICES ASSUME NEW f \in Flows
                 PROVE  /\ Present(g.pending[f]) => g.pending[f] = g.states[f]
                        /\ LET places == <<{g.pending[f].id}, {c.id : c \in Sending}, Flying(g), {g.delayed[f]}>> IN
                           Present(g.states[f]) =>
                             \A p, q \in DOMAIN places : p # q => g.states[f].id \notin places[p] \cap places[q]
    BY Zenon DEF LastIsSentOnce
  <2>3. Present(g.pending[f]) => g.pending[f] = g.states[f]
    BY <2>1, Zenon DEF Last
  <2>4. ASSUME Present(g.states[f])
        PROVE  LET places == <<{g.pending[f].id}, {c.id : c \in Sending}, Flying(g), {g.delayed[f]}>> IN
               \A p, q \in DOMAIN places : p # q => g.states[f].id \notin places[p] \cap places[q]
    <3> DEFINE i == g.states[f].id
               A == {g.pending[f].id}
               B == {c.id : c \in Sending}
               C == Flying(g)
               D == {g.delayed[f]}
    <3>1. i.kind # "none"
      BY <2>1, <2>4, Zenon DEF Owned, Own
    <3>2. i \in A => Present(g.pending[f])
      <4>1. ~Present(g.pending[f]) => g.pending[f] = NoCmd(f)
        BY <2>1, Zenon DEF Owned, Own
      <4>2. NoCmd(f).id.kind = "none"
        BY <2>1, NoCmdTyped, Zenon
      <4> QED
        BY <3>1, <4>1, <4>2, Zenon
    <3>3. i \in A => i \notin B /\ i \notin C /\ i \notin D
      <4>1. ASSUME Present(g.pending[f]), g.pending[f].id = i PROVE i \notin B /\ i \notin C /\ i \notin D
        BY <2>1, <4>1, Zenon DEF Apart, Flying
      <4> QED
        BY <3>2, <4>1, Zenon
    <3>4. i \in B => i \notin C /\ i \notin D
      BY <2>1, Zenon DEF Apart, Flying
    <3>5. i \in C => i \notin D
      BY <2>1, Zenon DEF Apart, Flying
    <3> HIDE DEF i, A, B, C, D
    <3>6. \A p, q \in DOMAIN <<A, B, C, D>> : p # q => i \notin <<A, B, C, D>>[p] \cap <<A, B, C, D>>[q]
      BY <3>3, <3>4, <3>5, SMTT(30)
    <3> QED
      BY <3>6, Zenon DEF i, A, B, C, D
  <2> QED
    BY <2>3, <2>4, Zenon
<1> QED
  BY <1>1, DeliveryInvariant, PTL

\* Once the session's task has latched the Agent's boot, everything the hub holds
\* for the gateway is of that boot, whatever telemetry of other boots arrives.
THEOREM DeliveryOfOneBoot == Spec => []LatchedBoot
<1>1. ASSUME IInv PROVE LatchedBoot
  <2>1. SUFFICES ASSUME g.session # 0, sock[g.session].boot # 0
                 PROVE  LET b == sock[g.session].boot IN
                        /\ g.sessionBoot = b /\ g.flowBoot = b
                        /\ \A f \in Flows : g.states[f].boot \in {0, b} /\ g.pending[f].boot \in {0, b}
                        /\ \A e \in g.flight : e.cmd.boot = b
    BY Zenon DEF LatchedBoot
  <2>2. Homed(g, Sending, LatchedBy)
    BY <1>1, Known, Zenon
  <2>3. LatchedBy = sock[g.session].boot
    BY <2>1, Zenon DEF LatchedBy
  <2> QED
    BY <2>1, <2>2, <2>3, Zenon DEF Homed
<1> QED
  BY <1>1, DeliveryInvariant, PTL

\* A verdict the hub regards as in force was made under the current revision,
\* although decisions made under an older one may arrive late.
THEOREM DeliveryVerdictsAreCurrent == Spec => []VerdictIsCurrent
<1>1. ASSUME IInv PROVE VerdictIsCurrent
  BY <1>1, Known, Zenon DEF Kept, Timely, VerdictIsCurrent
<1> QED
  BY <1>1, DeliveryInvariant, PTL

\* No command takes a flow's place that was made from evidence older than the
\* flow's context, although revokes are not checked against a generation.
THEOREM DeliveryKeepsNewerPackets == Spec => NewerPacketStands
<1>1. ASSUME IInv, Next, NEW d \in decisions,
             g'.states[d.cmd.flow] # g.states[d.cmd.flow], g'.states[d.cmd.flow] = d.cmd
      PROVE  d.gen >= g.contexts[d.cmd.flow]
  <2> DEFINE f == d.cmd.flow
  <2>1. f \in Flows /\ Decided(g, clock, decisions)
    BY <1>1, Known, Zenon DEF Kept
  <2>2. d.cmd.id.kind = "decision" /\ d.cmd.op \in {"block", "shape", "revoke"}
    BY <2>1, Zenon DEF Decided
  <2>3. Present(d.cmd) /\ d.cmd.id.kind # "revision"
    BY <2>2, Zenon DEF Present
  <2>4. Calm
    BY <1>1, CountingHolds, Steps, Zenon
  <2>5. PICK e \in decisions : g'.states[f] = e.cmd /\ e.gen >= g.contexts[f]
    BY <1>1, <2>1, <2>3, <2>4, Zenon DEF Calm
  <2>6. e.cmd.id = d.cmd.id
    BY <1>1, <2>5, Zenon
  <2>7. e = d
    BY <2>1, <2>6, Zenon DEF Decided
  <2> QED
    BY <2>5, <2>7, Zenon
<1>2. IInv /\ [Next]_<<vars, bound>> =>
        [\A d \in decisions :
           LET f == d.cmd.flow IN
           g'.states[f] # g.states[f] /\ g'.states[f] = d.cmd => d.gen >= g.contexts[f]]_vars
  BY <1>1, Zenon
<1> QED
  BY <1>2, DeliveryInvariant, PTL DEF Spec, NewerPacketStands
=============================================================================
