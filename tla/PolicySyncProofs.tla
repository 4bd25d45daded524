--------------------------- MODULE PolicySyncProofs ---------------------------
(***************************************************************************)
(* What PolicySync guarantees for every number of revisions, sessions,     *)
(* Collector restarts and Agent boots.  Refused and lost frames, replaced  *)
(* sessions and database resets are all part of the specification here.    *)
(***************************************************************************)
EXTENDS PolicySync, TLAPS

USE DEF Rev

-----------------------------------------------------------------------------
(* The inductive invariant.                                                *)

\* What the Agent stores came with an outcome, and a socket it holds open is a
\* session this or an earlier Collector process has given out.
AgentSide ==
  /\ saved.id # NoIdentity => saved.status # "none"
  /\ link.epoch <= epoch
  /\ link.epoch = epoch => link.id \in 1..nextSession - 1

\* Sessions are numbered in the order they register, and the registered one is
\* the last: a task that is not the last one is never the registered one.
SessionOrder ==
  /\ active # 0 => active = nextSession - 1
  /\ \A s \in Sessions : s >= nextSession => sock[s].pc = "none"
  /\ \A s \in Sessions : active = s => sock[s].pc \in {"start", "greet", "run"}

\* The row was claimed by a session that exists.
RowOwner ==
  /\ row.connEpoch <= epoch
  /\ row.connEpoch = epoch => row.connId < nextSession

\* Nothing was sent that is ahead of the bundle.
SentBehindBundle ==
  /\ bundle.gen = 0 => bundle.rev = 0
  /\ \A s \in Sessions : sock[s].sent.rev <= bundle.rev

TypeInv == TypeOK /\ AgentSide
Inv == SessionOrder /\ RowOwner /\ SentBehindBundle /\ ActiveOwnsRow /\ DeliveredWasSent

-----------------------------------------------------------------------------
(* Types.                                                                  *)

\* record_health neither moves the row to another session nor forgets what was
\* delivered.
LEMMA HealthRow ==
  ASSUME NEW r \in Row, NEW f \in HealthFrame, epoch \in Nat, desired \in Nat
  PROVE  /\ RecordHealth(r, f) \in Row
         /\ RecordHealth(r, f).connEpoch = r.connEpoch /\ RecordHealth(r, f).connId = r.connId
         /\ RecordHealth(r, f).delivered = r.delivered /\ RecordHealth(r, f).connected
<1> DEFINE changed == r.ctrlEpoch # epoch \/ r.boot # f.boot
           gen == IF r.ctrlEpoch = epoch THEN r.gen ELSE 0
           reported == IF changed THEN 0 ELSE r.reported
           ack == IF changed THEN "none" ELSE r.ack
           known == Larger(r.agentApplied, f.rev)
           status == IF f.rev > desired \/ f.disabled THEN "failed"
                     ELSE IF \/ changed /\ desired > 0
                             \/ desired > r.reported THEN "pending"
                     ELSE r.status
<1>1. f.boot \in Nat /\ f.rev \in Nat /\ gen \in Nat /\ reported \in Nat
  BY DEF HealthFrame, Row
<1>2. ack \in AckStatus \cup {"none"} /\ status \in Status
  BY DEF Row, Status
<1>3. known \in Nat
  BY <1>1 DEF Row, Larger
<1> DEFINE q == [r EXCEPT !.connected = TRUE, !.boot = f.boot, !.ctrlEpoch = epoch, !.gen = gen]
           m == [q EXCEPT !.reported = reported, !.ack = ack]
<1>4. RecordHealth(r, f) =
        [m EXCEPT !.agentApplied = known, !.status = status]
  BY DEF RecordHealth
<1> HIDE DEF gen, reported, ack, known, status
<1>5. /\ q \in Row /\ q.connEpoch = r.connEpoch /\ q.connId = r.connId
      /\ q.delivered = r.delivered /\ q.connected
  BY <1>1, Zenon DEF Row
<1> HIDE DEF q
<1>6. /\ m \in Row /\ m.connEpoch = q.connEpoch /\ m.connId = q.connId
      /\ m.delivered = q.delivered /\ m.connected = q.connected
  BY <1>1, <1>2, <1>5, Zenon DEF Row
<1> HIDE DEF m
<1> DEFINE w == [m EXCEPT !.agentApplied = known, !.status = status]
<1>7. w \in Row
  BY <1>2, <1>3, <1>6, Zenon DEF Row
<1>8. w.connEpoch = m.connEpoch /\ w.connId = m.connId /\ w.delivered = m.delivered /\ w.connected = m.connected
  BY <1>6 DEF Row
<1> HIDE DEF w
<1>9. RecordHealth(r, f) = w
  BY <1>4 DEF w
<1> QED
  BY <1>5, <1>6, <1>7, <1>8, <1>9, Zenon

\* record_ack leaves a well-formed row.
LEMMA AckRow ==
  ASSUME NEW r \in Row, NEW f \in AckFrame, desired \in Nat
  PROVE  RecordAck(r, f) \in Row
<1> DEFINE known == IF f.status # "failed" THEN Larger(r.agentApplied, f.id.rev) ELSE r.agentApplied
           applied == IF f.status = "applied" THEN Larger(r.applied, f.id.rev) ELSE r.applied
           status == IF f.status = "applied" /\ f.id.rev # desired THEN "pending" ELSE f.status
<1>1. f.boot \in Nat /\ f.id.epoch \in Nat /\ f.id.gen \in Nat /\ f.id.rev \in Nat
  BY DEF AckFrame, Identity
<1>2. f.status \in AckStatus /\ status \in Status
  BY DEF AckFrame, AckStatus, Status
<1>3. known \in Nat /\ applied \in Nat
  BY <1>1 DEF Row, Larger
<1> DEFINE q == [r EXCEPT !.connected = TRUE, !.boot = f.boot,
                          !.ctrlEpoch = f.id.epoch, !.gen = f.id.gen]
           m == [q EXCEPT !.reported = f.id.rev, !.ack = f.status]
<1>4. RecordAck(r, f) =
        [m EXCEPT !.agentApplied = known, !.applied = applied, !.status = status]
  BY DEF RecordAck
<1> HIDE DEF known, applied, status
<1>5. q \in Row
  BY <1>1, Zenon DEF Row
<1> HIDE DEF q
<1>6. m \in Row
  BY <1>1, <1>2, <1>5, Zenon DEF Row
<1> HIDE DEF m
<1>7. [m EXCEPT !.agentApplied = known, !.applied = applied] \in Row
  BY <1>3, <1>6, Zenon DEF Row
<1> DEFINE w == [m EXCEPT !.agentApplied = known, !.applied = applied]
<1>8. RecordAck(r, f) = [w EXCEPT !.status = status]
  BY <1>4, <1>6, Zenon DEF Row
<1> HIDE DEF w
<1>9. w \in Row
  BY <1>7 DEF w
<1> QED
  BY <1>2, <1>8, <1>9, Zenon DEF Row

\* refresh_gateway publishes an identity, never of a lower revision than the
\* bundle in memory, and only under a new generation.
LEMMA PublishedBundle ==
  ASSUME TypeOK, SentBehindBundle, NEW rev \in Nat, NEW force \in BOOLEAN
  PROVE  /\ Published(rev, force) \in Identity
         /\ Published(rev, force).rev >= bundle.rev
         /\ Published(rev, force).gen = 0 => Published(rev, force).rev = 0
         /\ \/ Published(rev, force) = bundle
            \/ Published(rev, force).gen > bundle.gen
<1>1. /\ bundle \in Identity /\ epoch \in Nat /\ life \in Nat
      /\ bundle.gen = 0 => bundle.rev = 0
  BY DEF TypeOK, SentBehindBundle
<1>2. CASE bundle.gen > 0 /\ (bundle.rev > rev \/ (bundle.rev = rev /\ ~force))
  BY <1>1, <1>2 DEF Published, Identity
<1>3. CASE ~(bundle.gen > 0 /\ (bundle.rev > rev \/ (bundle.rev = rev /\ ~force)))
  <2> DEFINE b == [epoch |-> epoch, life |-> life, rev |-> rev, gen |-> bundle.gen + 1]
  <2>1. Published(rev, force) = b
    BY <1>3 DEF Published
  <2>2. b \in Identity /\ b.rev = rev /\ b.gen = bundle.gen + 1
    BY <1>1 DEF Identity
  <2>3. bundle.gen \in Nat /\ bundle.rev \in Nat
    BY <1>1 DEF Identity
  <2>4. rev >= bundle.rev
    BY <1>1, <1>3, <2>3
  <2> QED
    BY <2>1, <2>2, <2>3, <2>4
<1> QED
  BY <1>2, <1>3

\* A frame of the Agent is queued on its session, or lost; no session changes
\* otherwise.
LEMMA SendUpSock ==
  ASSUME TypeInv, BoundsAssumption, NEW f \in Frame, SendUp(f)
  PROVE  /\ sock' \in [Sessions -> Sock]
         /\ \A s \in Sessions : sock'[s].pc = sock[s].pc /\ sock'[s].sent = sock[s].sent
<1>1. CASE link.epoch = epoch /\ sock[link.id].pc \in {"start", "greet", "run"}
  <2>1. link.id \in Sessions
    BY <1>1 DEF TypeInv, TypeOK, AgentSide, Sessions, BoundsAssumption, Link
  <2>2. sock[link.id] \in Sock
    BY <2>1 DEF TypeInv, TypeOK
  <2>3. Append(sock[link.id].up, f) \in Seq(Frame)
    BY <2>2 DEF Sock
  <2>4. sock' = [sock EXCEPT ![link.id].up = Append(sock[link.id].up, f)]
    BY <1>1 DEF SendUp
  <2> QED
    BY <2>1, <2>2, <2>3, <2>4, Zenon DEF TypeInv, TypeOK, Sock
<1>2. CASE ~(link.epoch = epoch /\ sock[link.id].pc \in {"start", "greet", "run"})
  BY <1>2, Zenon DEF SendUp, TypeInv, TypeOK
<1> QED
  BY <1>1, <1>2

\* A session task starts, goes on and ends with a well-formed local state.
LEMMA SockStates ==
  /\ NoIdentity \in Identity /\ NoSock \in Sock
  /\ \A k \in Sock, p \in SockState, n \in Nat : [k EXCEPT !.pc = p, !.seen = n] \in Sock
  /\ \A k \in Sock, p \in SockState : [k EXCEPT !.pc = p] \in Sock
<1>1. NoIdentity \in Identity
  BY DEF NoIdentity, Identity
<1>2. NoSock \in Sock
  BY <1>1 DEF NoSock, Sock, SockState
<1>3. ASSUME NEW k \in Sock, NEW p \in SockState, NEW n \in Nat
      PROVE  [k EXCEPT !.pc = p, !.seen = n] \in Sock /\ [k EXCEPT !.pc = p] \in Sock
  BY Zenon DEF Sock
<1> QED
  BY <1>1, <1>2, <1>3, Zenon

\* Init satisfies the type invariant.
LEMMA InitTypes == BoundsAssumption /\ Init => TypeInv
<1> SUFFICES ASSUME BoundsAssumption, Init PROVE TypeInv
  OBVIOUS
<1>1. row \in Row
  BY DEF Init, EmptyRow, Row, Status
<1>2. NoIdentity \in Identity /\ NoSignature \in Signature
  BY DEF NoIdentity, Identity, NoSignature, Signature
<1>3. NoSock \in Sock
  BY <1>2 DEF NoSock, Sock, SockState
<1>4. sock \in [Sessions -> Sock]
  BY <1>3 DEF Init
<1>5. handshake \in Handshake /\ link \in Link
  BY DEF Init, Idle, Handshake, NoLink, Link
<1>6. TypeOK
  <2>1. /\ life = 1 /\ desired = 0 /\ epoch = 1 /\ nextSession = 1 /\ active = 0 /\ bundle = NoIdentity
        /\ spawned = 0 /\ reads = {} /\ boot = 1 /\ saved = NoSignature /\ marker = FALSE
        /\ unlocks = 0 /\ inbox = <<>> /\ signature = NoSignature
    BY DEF Init
  <2>2. marker \in BOOLEAN
    BY <2>1, Zenon
  <2>4. inbox \in Seq(Identity)
    BY <2>1
  <2>3. /\ life \in 1..MaxLife /\ epoch \in 1..MaxEpoch /\ nextSession \in 1..MaxSession + 1
        /\ boot \in 1..MaxBoot /\ desired \in 0..MaxRev /\ active \in 0..MaxSession
        /\ spawned \in 0..MaxRefresh /\ unlocks \in 0..MaxUnlock
    BY <2>1 DEF BoundsAssumption
  <2> QED
    BY <1>1, <1>2, <1>4, <1>5, <2>1, <2>2, <2>3, <2>4 DEF TypeOK
<1>7. AgentSide
  BY DEF Init, AgentSide, NoSignature, NoLink
<1> QED
  BY <1>6, <1>7 DEF TypeInv

\* The frames the Agent sends are well-formed.
LEMMA AgentFrames ==
  ASSUME TypeInv
  PROVE  /\ Health \in Frame
         /\ \A sig \in Signature : sig.status # "none" => Ack(sig) \in Frame
<1>1. Health \in HealthFrame
  BY DEF TypeInv, TypeOK, Health, HealthFrame, Signature, Identity
<1>2. ASSUME NEW sig \in Signature, sig.status # "none"
      PROVE  Ack(sig) \in AckFrame
  BY <1>2 DEF TypeInv, TypeOK, Ack, AckFrame, Signature
<1> QED
  BY <1>1, <1>2 DEF Frame

\* The operator's steps keep the types.
LEMMA OperatorTypes ==
  ASSUME BoundsAssumption, TypeInv, Operator
  PROVE  TypeInv'
<1> USE DEF TypeInv, AgentSide, BoundsAssumption
<1>0. Republished(row) \in Row
  BY Zenon DEF TypeOK, Republished, Row, Status
<1>1. CASE Mutate
  BY <1>0, <1>1 DEF Mutate, TypeOK, agentVars
<1>2. CASE Republish
  <2>1. Larger(desired, row.agentApplied) + 1 \in 0..MaxRev
    <3>1. desired \in Nat /\ row.agentApplied \in Nat
      BY DEF TypeOK, Row
    <3>2. Larger(desired, row.agentApplied) < MaxRev
      BY <1>2 DEF Republish
    <3> QED
      BY <3>1, <3>2 DEF Larger
  <2> QED
    BY <1>0, <1>2, <2>1 DEF Republish, TypeOK, agentVars
<1>3. CASE ScheduleRefresh
  BY <1>3 DEF ScheduleRefresh, TypeOK, dbVars, agentVars
<1>4. CASE Unlock
  BY <1>4 DEF Unlock, TypeOK, dbVars, hubVars
<1>5. CASE Resume
  BY <1>5, Zenon DEF Resume, TypeOK, dbVars, hubVars
<1> QED
  BY <1>1, <1>2, <1>3, <1>4, <1>5 DEF Operator

\* The refresh tasks and the connection handler keep the types.
LEMMA HubTypes ==
  ASSUME BoundsAssumption, TypeInv, SentBehindBundle, Refreshing \/ Connecting
  PROVE  TypeInv'
<1> USE DEF TypeInv, AgentSide, BoundsAssumption
<1>1. CASE RefreshRead
  BY <1>1 DEF RefreshRead, TypeOK, dbVars, agentVars
<1>2. CASE RefreshPublish
  <2>1. PICK rev \in reads : reads' = reads \ {rev} /\ bundle' = Published(rev, TRUE)
    BY <1>2, Zenon DEF RefreshPublish
  <2>2. rev \in Nat
    BY <2>1 DEF TypeOK
  <2>3. bundle' \in Identity
    BY <2>1, <2>2, PublishedBundle, Zenon
  <2>4. UNCHANGED <<dbVars, epoch, nextSession, active, sock, spawned, handshake, agentVars>>
    BY <1>2 DEF RefreshPublish
  <2> QED
    BY <2>1, <2>3, <2>4, Zenon DEF TypeOK, dbVars, agentVars
<1>3. CASE Upgrade
  BY <1>3 DEF Upgrade, TypeOK, Handshake, dbVars, agentVars
<1>4. CASE UpgradePublish
  <2>1. PICK e \in BOOLEAN : bundle' = Published(handshake.rev, e)
    BY <1>4 DEF UpgradePublish
  <2>2. handshake.rev \in Nat
    BY DEF TypeOK, Handshake
  <2>3. bundle' \in Identity
    BY <2>1, <2>2, PublishedBundle
  <2>4. handshake' \in Handshake
    BY <1>4, Zenon DEF UpgradePublish, TypeOK, Handshake
  <2>5. UNCHANGED <<dbVars, epoch, nextSession, active, sock, spawned, reads, agentVars>>
    BY <1>4 DEF UpgradePublish
  <2> QED
    BY <2>3, <2>4, <2>5 DEF TypeOK, dbVars, agentVars
<1>5. CASE Register
  <2> DEFINE new == [NoSock EXCEPT !.pc = "start", !.seen = bundle.gen]
  <2>1. new \in Sock
    BY SockStates, Zenon DEF TypeOK, Identity, SockState
  <2>2. nextSession \in Sessions
    BY <1>5 DEF Register, TypeOK, Sessions
  <2>3. /\ sock' = [sock EXCEPT ![nextSession] = new]
        /\ active' = nextSession /\ nextSession' = nextSession + 1
        /\ link' = [epoch |-> epoch, id |-> nextSession, greeted |-> FALSE]
        /\ inbox' = <<>> /\ signature' = NoSignature /\ handshake' = Idle
        /\ UNCHANGED <<dbVars, epoch, bundle, spawned, reads, boot, saved, marker, unlocks>>
    BY <1>5 DEF Register
  <2> HIDE DEF new
  <2>4. sock' \in [Sessions -> Sock] /\ active' \in 0..MaxSession /\ nextSession' \in 1..MaxSession + 1
    BY <2>1, <2>2, <2>3 DEF TypeOK, Sessions
  <2>5. link' \in Link /\ inbox' \in Seq(Identity) /\ signature' \in Signature /\ handshake' \in Handshake
    BY <2>3 DEF TypeOK, Link, NoSignature, Signature, NoIdentity, Identity, Idle, Handshake
  <2>6. AgentSide'
    BY <2>2, <2>3 DEF TypeOK, Sessions
  <2> QED
    BY <2>3, <2>4, <2>5, <2>6 DEF TypeOK, dbVars
<1> QED
  BY <1>1, <1>2, <1>3, <1>4, <1>5 DEF Refreshing, Connecting

\* Sending a bundle on a session keeps the types of what it writes.
LEMMA SendBundleTypes ==
  ASSUME TypeOK, NEW s \in Sessions, NEW r \in Row, SendBundle(s, r, bundle)
  PROVE  inbox' \in Seq(Identity) /\ row' \in Row
<1>1. inbox' \in Seq(Identity)
  BY DEF SendBundle, SendDown, TypeOK
<1>2. bundle.rev \in Nat
  BY DEF TypeOK, Identity
<1>3. RecordDelivery(r, s, bundle.rev) \in Row
  BY <1>2 DEF RecordDelivery, Row
<1> QED
  BY <1>1, <1>3 DEF SendBundle

\* The frame at the head of a session's queue.
LEMMA HeadFrame ==
  ASSUME NEW k \in Sock, k.up # <<>>
  PROVE  /\ Tail(k.up) \in Seq(Frame)
         /\ Head(k.up).kind = "health" => Head(k.up) \in HealthFrame
         /\ Head(k.up).kind = "ack" => Head(k.up) \in AckFrame
<1>1. k.up \in Seq(Frame)
  BY DEF Sock
<1>2. Head(k.up) \in Frame /\ Tail(k.up) \in Seq(Frame)
  BY <1>1
<1> QED
  BY <1>2 DEF Frame, HealthFrame, AckFrame

\* The local state of a session task after it has handled a frame.
LEMMA HandledStates ==
  ASSUME NEW k \in Sock, k.up # <<>>, NEW b \in Nat, NEW id \in Identity
  PROVE  /\ [k EXCEPT !.up = Tail(k.up)] \in Sock
         /\ [k EXCEPT !.up = Tail(k.up), !.boot = b] \in Sock
         /\ [k EXCEPT !.up = Tail(k.up), !.sent = id] \in Sock
         /\ [k EXCEPT !.up = Tail(k.up), !.boot = b, !.sent = id] \in Sock
  BY HeadFrame, Zenon DEF Sock

\* The state of a session task and what it may write, gathered once.
SockFrame(s, k) ==
  /\ sock' = [sock EXCEPT ![s] = k] /\ k \in Sock
  /\ row' \in Row /\ active' \in 0..MaxSession
  /\ inbox' \in Seq(Identity) /\ link' \in Link
  /\ link' = link \/ link' = NoLink
  /\ UNCHANGED <<life, desired, epoch, nextSession, bundle, spawned, reads, handshake,
                 boot, saved, marker, unlocks, signature>>

\* A step that writes the record of one session, the row and the socket to the
\* Agent, each with a value of its type, keeps the types.
LEMMA SockFrameTypes ==
  ASSUME TypeInv, NEW s \in Sessions, NEW k, SockFrame(s, k)
  PROVE  TypeInv'
<1>1. TypeOK'
  BY DEF TypeInv, TypeOK, SockFrame
<1>2. AgentSide'
  BY DEF TypeInv, TypeOK, AgentSide, SockFrame, NoLink
<1> QED
  BY <1>1, <1>2 DEF TypeInv

\* run_socket's first step, mark_agent_connected, is such a step.
LEMMA SockStartFrame ==
  ASSUME TypeInv, NEW s \in Sessions, SockStart(s)
  PROVE  \E k : SockFrame(s, k)
<1> DEFINE k == IF Claimable(row, s) THEN [sock[s] EXCEPT !.pc = "greet"]
                                     ELSE [NoSock EXCEPT !.pc = "done"]
<1>1. sock[s] \in Sock /\ row \in Row /\ desired \in Nat /\ epoch \in Nat /\ s \in Nat
  BY DEF TypeInv, TypeOK, Sessions
<1>2. k \in Sock
  BY <1>1, SockStates, Zenon DEF SockState
<1>3. MarkConnected(row, s) \in Row
  BY <1>1, Zenon DEF MarkConnected, Row, Status
<1>4. sock' = [sock EXCEPT ![s] = k]
  BY DEF SockStart
<1>5. row' \in Row /\ active' \in 0..MaxSession
  <2>1. row' \in {row, MarkConnected(row, s)} /\ active' \in {active, 0}
    BY DEF SockStart
  <2>2. active \in 0..MaxSession /\ 0 \in 0..MaxSession
    BY BoundsAssumption DEF TypeInv, TypeOK, BoundsAssumption
  <2> QED
    BY <1>1, <1>3, <2>1, <2>2
<1> HIDE DEF k
<1>6. UNCHANGED <<life, desired, epoch, nextSession, bundle, spawned, reads, handshake, agentVars>>
  BY DEF SockStart
<1>7. SockFrame(s, k)
  BY <1>2, <1>4, <1>5, <1>6 DEF SockFrame, TypeInv, TypeOK, agentVars
<1> QED
  BY <1>7

\* So is sending the bundle, at the greeting and on every update.
LEMMA SockSendFrame ==
  ASSUME TypeInv, NEW s \in Sessions, SockGreet(s) \/ SockUpdate(s)
  PROVE  \E k : SockFrame(s, k)
<1> DEFINE k == [sock[s] EXCEPT !.pc = "run", !.seen = bundle.gen, !.sent = bundle]
<1>1. sock[s] \in Sock /\ row \in Row /\ bundle \in Identity /\ active \in 0..MaxSession /\ link \in Link
  BY DEF TypeInv, TypeOK
<1>2. k \in Sock
  BY <1>1, Zenon DEF Sock, SockState, Identity
<1>3. sock' = [sock EXCEPT ![s] = k]
  <2>1. CASE SockGreet(s)
    BY <2>1, Zenon DEF SockGreet
  <2>2. CASE SockUpdate(s)
    <3>1. sock[s].pc = "run" /\ sock' = [sock EXCEPT ![s] = [sock[s] EXCEPT !.seen = bundle.gen, !.sent = bundle]]
      BY <2>2, Zenon DEF SockUpdate
    <3>2. [sock[s] EXCEPT !.seen = bundle.gen, !.sent = bundle] = k
      BY <1>1, <3>1, Zenon DEF Sock
    <3> QED
      BY <3>1, <3>2, Zenon
  <2> QED
    BY <2>1, <2>2
<1>4. SendBundle(s, row, bundle)
  BY DEF SockGreet, SockUpdate
<1>5. inbox' \in Seq(Identity) /\ row' \in Row
  BY <1>1, <1>4, SendBundleTypes DEF TypeInv
<1>6. UNCHANGED <<life, desired, epoch, nextSession, active, bundle, spawned, reads,
                  handshake, boot, saved, marker, unlocks, link, signature>>
  BY DEF SockGreet, SockUpdate
<1> HIDE DEF k
<1>7. SockFrame(s, k)
  BY <1>1, <1>2, <1>3, <1>5, <1>6 DEF SockFrame
<1> QED
  BY <1>7

\* So is handling a health frame, with or without a repeated bundle.
LEMMA SockHealthFrame ==
  ASSUME TypeInv, NEW s \in Sessions, SockHealth(s)
  PROVE  \E k : SockFrame(s, k)
<1> DEFINE f == Head(sock[s].up)
           switched == sock[s].boot # 0 /\ sock[s].boot # f.boot
           k0 == [sock[s] EXCEPT !.up = Tail(sock[s].up)]
           k1 == [sock[s] EXCEPT !.up = Tail(sock[s].up), !.boot = f.boot, !.sent = bundle]
           k2 == [sock[s] EXCEPT !.up = Tail(sock[s].up), !.boot = f.boot]
<1>1. /\ sock[s] \in Sock /\ row \in Row /\ bundle \in Identity /\ active \in 0..MaxSession
      /\ link \in Link /\ inbox \in Seq(Identity) /\ desired \in Nat /\ epoch \in Nat
  BY DEF TypeInv, TypeOK
<1>2. f \in HealthFrame /\ sock[s].up # <<>>
  BY <1>1, HeadFrame, Zenon DEF SockHealth
<1>3. k0 \in Sock /\ k1 \in Sock /\ k2 \in Sock
  BY <1>1, <1>2, HandledStates, Zenon DEF HealthFrame
<1>4. RecordHealth(row, f) \in Row
  BY <1>1, <1>2, HealthRow
<1>5. UNCHANGED <<life, desired, epoch, nextSession, active, bundle, spawned, reads,
                  handshake, boot, saved, marker, unlocks, link, signature>>
  BY Zenon DEF SockHealth
<1>6. CASE ~OwnedBy(row, s)
  <2>1. sock' = [sock EXCEPT ![s] = k0] /\ row' = row /\ inbox' = inbox
    BY <1>6 DEF SockHealth
  <2> HIDE DEF k0
  <2>2. SockFrame(s, k0)
    BY <1>1, <1>3, <1>5, <2>1 DEF SockFrame
  <2> QED
    BY <2>2
<1>7. CASE OwnedBy(row, s) /\ switched
  <2>1. sock' = [sock EXCEPT ![s] = k1]
    BY <1>1, <1>7, Zenon DEF SockHealth, TypeInv, TypeOK, Sock
  <2>2. SendBundle(s, RecordHealth(row, f), bundle)
    BY <1>7 DEF SockHealth
  <2>3. inbox' \in Seq(Identity) /\ row' \in Row
    BY <1>4, <2>2, SendBundleTypes DEF TypeInv
  <2> HIDE DEF k1
  <2>4. SockFrame(s, k1)
    BY <1>1, <1>3, <1>5, <2>1, <2>3 DEF SockFrame
  <2> QED
    BY <2>4
<1>8. CASE OwnedBy(row, s) /\ ~switched
  <2>1. sock' = [sock EXCEPT ![s] = k2]
    BY <1>1, <1>8, Zenon DEF SockHealth, TypeInv, TypeOK, Sock
  <2>2. row' = RecordHealth(row, f) /\ inbox' = inbox
    BY <1>8, Zenon DEF SockHealth
  <2> HIDE DEF k2
  <2>3. SockFrame(s, k2)
    BY <1>1, <1>3, <1>4, <1>5, <2>1, <2>2 DEF SockFrame
  <2> QED
    BY <2>3
<1> QED
  BY <1>6, <1>7, <1>8

\* So is handling an ack, recorded, superseded or answered with the bundle.
LEMMA SockAckFrame ==
  ASSUME TypeInv, NEW s \in Sessions, SockAck(s)
  PROVE  \E k : SockFrame(s, k)
<1> DEFINE f == Head(sock[s].up)
           k0 == [sock[s] EXCEPT !.up = Tail(sock[s].up)]
           k1 == [sock[s] EXCEPT !.up = Tail(sock[s].up), !.sent = bundle]
<1>1. /\ sock[s] \in Sock /\ row \in Row /\ bundle \in Identity /\ active \in 0..MaxSession
      /\ link \in Link /\ inbox \in Seq(Identity) /\ desired \in Nat /\ epoch \in Nat
  BY DEF TypeInv, TypeOK
<1>2. f \in AckFrame /\ sock[s].up # <<>>
  BY <1>1, HeadFrame DEF SockAck
<1>3. k0 \in Sock /\ k1 \in Sock
  BY <1>1, <1>2, HandledStates, Zenon
<1>4. RecordAck(row, f) \in Row
  BY <1>1, <1>2, AckRow
<1>5. UNCHANGED <<life, desired, epoch, nextSession, active, bundle, spawned, reads,
                  handshake, boot, saved, marker, unlocks, link, signature>>
  BY DEF SockAck
<1>6. CASE sock[s].boot # f.boot \/ sock[s].sent # f.id
  <2>1. sock' = [sock EXCEPT ![s] = k1]
    BY <1>1, <1>6, Zenon DEF SockAck, TypeInv, TypeOK, Sock
  <2>2. SendBundle(s, row, bundle)
    BY <1>6 DEF SockAck
  <2>3. inbox' \in Seq(Identity) /\ row' \in Row
    BY <1>1, <2>2, SendBundleTypes DEF TypeInv
  <2> HIDE DEF k1
  <2>4. SockFrame(s, k1)
    BY <1>1, <1>3, <1>5, <2>1, <2>3 DEF SockFrame
  <2> QED
    BY <2>4
<1>7. CASE ~(sock[s].boot # f.boot \/ sock[s].sent # f.id)
  <2>1. sock' = [sock EXCEPT ![s] = k0] /\ row' \in {row, RecordAck(row, f)} /\ inbox' = inbox
    BY <1>7 DEF SockAck
  <2> HIDE DEF k0
  <2>2. SockFrame(s, k0)
    BY <1>1, <1>3, <1>4, <1>5, <2>1 DEF SockFrame
  <2> QED
    BY <2>2
<1> QED
  BY <1>6, <1>7

\* So is leaving the loop and recording the disconnection.
LEMMA SockEndFrame ==
  ASSUME TypeInv, NEW s \in Sessions, SockBreak(s) \/ SockOffline(s)
  PROVE  \E k : SockFrame(s, k)
<1>1. /\ sock[s] \in Sock /\ row \in Row /\ active \in 0..MaxSession /\ 0 \in 0..MaxSession
      /\ link \in Link /\ NoLink \in Link /\ inbox \in Seq(Identity) /\ <<>> \in Seq(Identity)
      /\ desired \in Nat
  BY BoundsAssumption DEF TypeInv, TypeOK, NoLink, Link, BoundsAssumption
<1>2. CASE SockBreak(s)
  <2> DEFINE k == [NoSock EXCEPT !.pc = IF active = s THEN "closing" ELSE "done"]
  <2>1. k \in Sock
    BY SockStates, Zenon DEF SockState
  <2>2. /\ sock' = [sock EXCEPT ![s] = k] /\ active' \in {active, 0}
        /\ link' \in {link, NoLink} /\ inbox' \in {inbox, <<>>} /\ row' = row
    BY <1>2 DEF SockBreak, dbVars
  <2>3. UNCHANGED <<life, desired, epoch, nextSession, bundle, spawned, reads, handshake,
                    boot, saved, marker, unlocks, signature>>
    BY <1>2 DEF SockBreak, dbVars
  <2> HIDE DEF k
  <2>4. SockFrame(s, k)
    BY <1>1, <2>1, <2>2, <2>3, Zenon DEF SockFrame
  <2> QED
    BY <2>4
<1>3. CASE SockOffline(s)
  <2> DEFINE k == [sock[s] EXCEPT !.pc = "done"]
  <2>1. k \in Sock
    BY <1>1, SockStates, Zenon DEF SockState
  <2>2. sock' = [sock EXCEPT ![s] = k] /\ row' = MarkDisconnected(row, s)
    BY <1>3 DEF SockOffline
  <2>3. UNCHANGED <<life, desired, epoch, nextSession, active, bundle, spawned, reads,
                    handshake, agentVars>>
    BY <1>3 DEF SockOffline
  <2>4. row' \in Row
    BY <1>1, <2>2, Zenon DEF MarkDisconnected, Row, Status
  <2> HIDE DEF k
  <2>5. SockFrame(s, k)
    BY <1>1, <2>1, <2>2, <2>3, <2>4 DEF SockFrame, agentVars
  <2> QED
    BY <2>5
<1> QED
  BY <1>2, <1>3

\* A session task keeps the types.
LEMMA SockTypes ==
  ASSUME TypeInv, NEW s \in Sessions, SockStep(s)
  PROVE  TypeInv'
  BY SockStartFrame, SockSendFrame, SockHealthFrame, SockAckFrame, SockEndFrame, SockFrameTypes
     DEF SockStep

\* What an apply or a reconciliation comes to.
LEMMA Outcomes ==
  ASSUME NEW id, NEW out \in Outcome(id)
  PROVE  out.status \in AckStatus
<1>1. CASE Refused(id)
  BY <1>1 DEF Outcome, AckStatus
<1>2. CASE ~Refused(id) /\ ApplyFaults
  <2>1. \/ out \in [status : AckStatus, persisted : {TRUE}]
        \/ out = [status |-> "failed", persisted |-> FALSE]
    BY <1>2, Zenon DEF Outcome
  <2>2. "failed" \in AckStatus
    BY DEF AckStatus
  <2>3. CASE out \in [status : AckStatus, persisted : {TRUE}]
    BY <2>3
  <2>4. CASE out = [status |-> "failed", persisted |-> FALSE]
    BY <2>2, <2>4
  <2> QED
    BY <2>1, <2>3, <2>4, Zenon
<1>3. CASE ~Refused(id) /\ ~ApplyFaults
  BY <1>3 DEF Outcome, AckStatus
<1> QED
  BY <1>1, <1>2, <1>3

\* Every step of the Agent sends one well-formed frame.
LEMMA AgentSends ==
  ASSUME TypeInv, Agent
  PROVE  \E f \in Frame : SendUp(f)
<1>1. CASE AgentGreet \/ AgentHeartbeat
  BY <1>1, AgentFrames DEF AgentGreet, AgentHeartbeat
<1>2. CASE AgentSnapshot
  <2> DEFINE sig(out) == [id |-> Head(inbox), status |-> out.status]
  <2>1. PICK out \in Outcome(Head(inbox)) : SendUp(Ack(sig(out)))
    BY <1>2, Zenon DEF AgentSnapshot
  <2>2. Head(inbox) \in Identity
    BY <1>2 DEF AgentSnapshot, TypeInv, TypeOK
  <2>3. sig(out) \in Signature /\ sig(out).status # "none"
    BY <2>2, Outcomes, Zenon DEF Signature, AckStatus
  <2> QED
    BY <2>1, <2>3, AgentFrames, Zenon
<1>3. CASE AgentReconcile
  <2> DEFINE sig(out) == [id |-> saved.id, status |-> out.status]
  <2>1. PICK out \in Outcome(saved.id) \cup {[status |-> saved.status, persisted |-> TRUE]} :
          SendUp(Ack(sig(out)))
    BY <1>3 DEF AgentReconcile
  <2>2. saved \in Signature /\ saved.status # "none"
    BY <1>3 DEF AgentReconcile, TypeInv, TypeOK, AgentSide
  <2>3. out.status \in AckStatus
    BY <2>1, <2>2, Outcomes DEF Signature
  <2>4. sig(out) \in Signature /\ sig(out).status # "none"
    BY <2>2, <2>3 DEF Signature, AckStatus
  <2> QED
    BY <2>1, <2>4, AgentFrames
<1> QED
  BY <1>1, <1>2, <1>3 DEF Agent

\* The Agent's steps keep the types.
LEMMA AgentTypes ==
  ASSUME TypeInv, Agent
  PROVE  TypeInv'
<1>0. sock' \in [Sessions -> Sock]
  BY AgentSends, SendUpSock, BoundsAssumption
<1>1. CASE AgentGreet
  <2>1. link' = [link EXCEPT !.greeted = TRUE]
    BY <1>1 DEF AgentGreet
  <2>2. link' \in Link /\ link'.epoch = link.epoch /\ link'.id = link.id
    BY <2>1, Zenon DEF TypeInv, TypeOK, Link
  <2>3. UNCHANGED <<dbVars, epoch, nextSession, active, bundle, spawned, reads, handshake,
                    boot, saved, marker, unlocks, inbox, signature>>
    BY <1>1 DEF AgentGreet
  <2> QED
    BY <1>0, <2>2, <2>3 DEF TypeInv, TypeOK, AgentSide, dbVars
<1>2. CASE AgentHeartbeat
  <2>1. UNCHANGED <<dbVars, epoch, nextSession, active, bundle, spawned, reads, handshake, agentVars>>
    BY <1>2 DEF AgentHeartbeat
  <2> QED
    BY <1>0, <2>1 DEF TypeInv, TypeOK, AgentSide, dbVars, agentVars
<1>3. CASE AgentSnapshot
  <2> DEFINE sig(out) == [id |-> Head(inbox), status |-> out.status]
  <2>1. PICK out \in Outcome(Head(inbox)) :
          /\ saved' = IF out.persisted THEN sig(out) ELSE saved
          /\ signature' = sig(out)
    BY <1>3, Zenon DEF AgentSnapshot
  <2>2. Head(inbox) \in Identity /\ inbox' \in Seq(Identity)
    BY <1>3 DEF AgentSnapshot, TypeInv, TypeOK
  <2>3. sig(out) \in Signature /\ sig(out).status # "none"
    BY <2>2, Outcomes DEF Signature, AckStatus
  <2>5. saved' \in Signature /\ signature' \in Signature /\ (saved'.id # NoIdentity => saved'.status # "none")
    BY <2>1, <2>3, Zenon DEF TypeInv, TypeOK, AgentSide
  <2>6. UNCHANGED <<dbVars, epoch, nextSession, active, bundle, spawned, reads, handshake,
                    boot, marker, unlocks, link>>
    BY <1>3 DEF AgentSnapshot
  <2> QED
    BY <1>0, <2>2, <2>5, <2>6, Zenon DEF TypeInv, TypeOK, AgentSide, dbVars
<1>4. CASE AgentReconcile
  <2> DEFINE sig(out) == [id |-> saved.id, status |-> out.status]
             outs == Outcome(saved.id) \cup {[status |-> saved.status, persisted |-> TRUE]}
  <2>1. PICK out \in outs :
          /\ saved' = IF out.persisted THEN sig(out) ELSE saved
          /\ signature' = sig(out)
    BY <1>4 DEF AgentReconcile
  <2>2. saved \in Signature /\ saved.status # "none"
    BY <1>4, Zenon DEF AgentReconcile, TypeInv, TypeOK, AgentSide
  <2>3. out.status \in AckStatus
    BY <2>1, <2>2, Outcomes DEF Signature
  <2>4. sig(out) \in Signature /\ sig(out).status # "none"
    BY <2>2, <2>3 DEF Signature, AckStatus
  <2>6. saved' \in Signature /\ signature' \in Signature /\ (saved'.id # NoIdentity => saved'.status # "none")
    BY <2>1, <2>2, <2>4
  <2>7. UNCHANGED <<dbVars, epoch, nextSession, active, bundle, spawned, reads, handshake,
                    boot, marker, unlocks, link, inbox>>
    BY <1>4 DEF AgentReconcile
  <2> QED
    BY <1>0, <2>6, <2>7, Zenon DEF TypeInv, TypeOK, AgentSide, dbVars
<1> QED
  BY <1>1, <1>2, <1>3, <1>4 DEF Agent

\* Failures keep the types.
LEMMA FailureTypes ==
  ASSUME TypeInv, Failure
  PROVE  TypeInv'
<1>0. NoLink \in Link /\ NoSignature \in Signature /\ Idle \in Handshake /\ <<>> \in Seq(Identity)
  BY DEF NoLink, Link, NoSignature, Signature, NoIdentity, Identity, Idle, Handshake
<1>1. CASE LinkFail \/ LinkDead
  <2>1. link' = NoLink /\ inbox' = <<>> /\ UNCHANGED <<dbVars, hubVars, boot, saved, marker, unlocks, signature>>
    BY <1>1 DEF LinkFail, LinkDead
  <2>2. TypeOK'
    BY <1>0, <2>1 DEF TypeInv, TypeOK, dbVars, hubVars
  <2>3. AgentSide'
    BY <2>1 DEF TypeInv, TypeOK, AgentSide, hubVars, NoLink
  <2> QED
    BY <2>2, <2>3 DEF TypeInv
<1>2. CASE AgentRestart
  <2>1. TypeOK'
    BY <1>0, <1>2, BoundsAssumption DEF AgentRestart, TypeInv, TypeOK, dbVars, BoundsAssumption
  <2>2. AgentSide'
    BY <1>2 DEF AgentRestart, TypeInv, TypeOK, AgentSide, NoLink
  <2> QED
    BY <2>1, <2>2 DEF TypeInv
<1>3. ASSUME RestartHub, UNCHANGED agentVars, life' \in 1..MaxLife, desired' \in 0..MaxRev, row' \in Row
      PROVE  TypeInv'
  <2>1. /\ epoch' = epoch + 1 /\ epoch' \in 1..MaxEpoch /\ nextSession' = 1 /\ active' = 0
        /\ bundle' = NoIdentity /\ spawned' = 0 /\ reads' = {} /\ handshake' = Idle
    BY <1>3, BoundsAssumption DEF RestartHub, TypeInv, TypeOK, BoundsAssumption
  <2>2. sock' \in [Sessions -> Sock] /\ bundle' \in Identity
    BY <1>3, SockStates, Zenon DEF RestartHub
  <2>3. /\ nextSession' \in 1..MaxSession + 1 /\ active' \in 0..MaxSession /\ spawned' \in 0..MaxRefresh
        /\ reads' \in SUBSET (0..MaxRev)
    BY <2>1, BoundsAssumption DEF BoundsAssumption
  <2>4. TypeOK'
    BY <1>0, <1>3, <2>1, <2>2, <2>3 DEF TypeInv, TypeOK, agentVars
  <2>5. AgentSide'
    <3>1. AgentSide /\ UNCHANGED agentVars /\ link \in Link /\ epoch \in Nat
      BY <1>3 DEF TypeInv, TypeOK
    <3>2. link.epoch \in Nat
      BY <3>1 DEF Link
    <3> QED
      BY <2>1, <3>1, <3>2 DEF AgentSide, agentVars
  <2> QED
    BY <2>4, <2>5 DEF TypeInv
<1>4. CASE CollectorRestart
  BY <1>3, <1>4, Zenon DEF CollectorRestart, TypeInv, TypeOK, dbVars
<1>5. CASE DatabaseReset
  <2>1. EmptyRow \in Row
    BY DEF EmptyRow, Row, Status
  <2>2. life' \in 1..MaxLife /\ desired' \in 0..MaxRev
    BY <1>5, BoundsAssumption DEF DatabaseReset, TypeInv, TypeOK, BoundsAssumption
  <2> QED
    BY <1>3, <1>5, <2>1, <2>2 DEF DatabaseReset
<1> QED
  BY <1>1, <1>2, <1>4, <1>5 DEF Failure

-----------------------------------------------------------------------------
(* Sessions, the deployment row and the bundle.                            *)

\* Init satisfies the rest of the invariant.
LEMMA InitInv == Init => Inv
<1> SUFFICES ASSUME Init PROVE Inv
  OBVIOUS
<1>1. \A s \in Sessions : sock[s].pc = "none" /\ sock[s].sent.rev = 0
  BY DEF Init, NoSock, NoIdentity
<1>2. active = 0 /\ nextSession = 1 /\ epoch = 1 /\ row = EmptyRow /\ bundle = NoIdentity
  BY DEF Init
<1>3. SessionOrder /\ ActiveOwnsRow
  BY <1>1, <1>2 DEF SessionOrder, ActiveOwnsRow, Sessions
<1>4. RowOwner /\ SentBehindBundle
  BY <1>1, <1>2 DEF RowOwner, SentBehindBundle, EmptyRow, NoIdentity
<1>5. DeliveredWasSent
  BY <1>1 DEF DeliveredWasSent
<1> QED
  BY <1>3, <1>4, <1>5 DEF Inv

\* A step that leaves the sessions, the row's owner and delivery and the hub
\* alone keeps the invariant.
SessionsKept ==
  /\ UNCHANGED <<epoch, nextSession, active>>
  /\ \A s \in Sessions : sock'[s].pc = sock[s].pc /\ sock'[s].sent = sock[s].sent
  /\ row'.connEpoch = row.connEpoch /\ row'.connId = row.connId
  /\ (row.connected => row'.connected) /\ row'.delivered = row.delivered
  /\ bundle' = bundle \/ bundle'.gen > bundle.gen
  /\ bundle'.rev >= bundle.rev /\ (bundle'.gen = 0 => bundle'.rev = 0)

\* Such a step keeps the invariant: a bundle that moves only grows.
LEMMA KeptInv ==
  ASSUME TypeInv, TypeInv', Inv, SessionsKept
  PROVE  Inv'
<1>1. SessionOrder'
  BY DEF Inv, SessionOrder, SessionsKept
<1>2. RowOwner'
  BY DEF Inv, RowOwner, SessionsKept
<1>3. SentBehindBundle'
  <2>1. ASSUME NEW s \in Sessions PROVE sock'[s].sent.rev <= bundle'.rev
    <3>1. sock[s].sent \in Identity /\ bundle \in Identity /\ bundle' \in Identity
      BY Zenon DEF TypeInv, TypeOK, Sock
    <3>2. sock[s].sent.rev <= bundle.rev /\ bundle'.rev >= bundle.rev /\ sock'[s].sent = sock[s].sent
      BY DEF Inv, SentBehindBundle, SessionsKept
    <3> QED
      BY <3>1, <3>2 DEF Identity
  <2> QED
    BY <2>1 DEF SentBehindBundle, SessionsKept
<1>4. ActiveOwnsRow'
  BY DEF Inv, ActiveOwnsRow, SessionsKept, OwnedBy
<1>5. DeliveredWasSent'
  BY DEF Inv, DeliveredWasSent, SessionsKept, OwnedBy
<1> QED
  BY <1>1, <1>2, <1>3, <1>4, <1>5 DEF Inv

\* The operator, the refresh tasks, the Agent and an upgrade request that has
\* not registered yet do not touch sessions.
LEMMA QuietSteps ==
  ASSUME TypeInv, Inv, Operator \/ Refreshing \/ Upgrade \/ UpgradePublish \/ Agent
                         \/ LinkFail \/ LinkDead \/ AgentRestart
  PROVE  SessionsKept
<1>0. bundle.rev >= bundle.rev /\ (bundle.gen = 0 => bundle.rev = 0)
  BY DEF Inv, SentBehindBundle, TypeInv, TypeOK, Identity
<1>1. CASE Mutate \/ Republish
  <2>1. UNCHANGED <<epoch, nextSession, active, bundle, sock>> /\ row' = Republished(row)
    BY <1>1 DEF Mutate, Republish
  <2> QED
    BY <1>0, <2>1 DEF SessionsKept, Republished, TypeInv, TypeOK, Row
<1>2. CASE ScheduleRefresh \/ Unlock \/ Resume \/ RefreshRead \/ Upgrade \/ LinkFail \/ LinkDead \/ AgentRestart
  <2>1. UNCHANGED <<epoch, nextSession, active, bundle, sock, row>>
    BY <1>2, Zenon DEF ScheduleRefresh, Unlock, Resume, RefreshRead, Upgrade, LinkFail, LinkDead, AgentRestart,
       dbVars, hubVars
  <2> QED
    BY <1>0, <2>1 DEF SessionsKept
<1>3. CASE RefreshPublish
  <2>1. PICK rev \in reads : bundle' = Published(rev, TRUE)
    BY <1>3, Zenon DEF RefreshPublish
  <2>2. rev \in Nat
    BY <2>1 DEF TypeInv, TypeOK
  <2>3. UNCHANGED <<epoch, nextSession, active, sock, row>>
    BY <1>3 DEF RefreshPublish, dbVars
  <2> QED
    BY <2>1, <2>2, <2>3, PublishedBundle, Zenon DEF SessionsKept, TypeInv, Inv
<1>4. CASE UpgradePublish
  <2>1. PICK e \in BOOLEAN : bundle' = Published(handshake.rev, e)
    BY <1>4 DEF UpgradePublish
  <2>2. handshake.rev \in Nat
    BY DEF TypeInv, TypeOK, Handshake
  <2>3. UNCHANGED <<epoch, nextSession, active, sock, row>>
    BY <1>4 DEF UpgradePublish, dbVars
  <2> QED
    BY <2>1, <2>2, <2>3, PublishedBundle DEF SessionsKept, TypeInv, Inv
<1>5. CASE Agent
  <2>1. UNCHANGED <<epoch, nextSession, active, bundle, row>>
    BY <1>5, Zenon DEF Agent, AgentGreet, AgentHeartbeat, AgentSnapshot, AgentReconcile, dbVars
  <2>2. \E f \in Frame : SendUp(f)
    BY <1>5, AgentSends
  <2> QED
    BY <1>0, <2>1, <2>2, SendUpSock, BoundsAssumption, Zenon DEF SessionsKept
<1> QED
  BY <1>1, <1>2, <1>3, <1>4, <1>5 DEF Operator, Refreshing

\* A new session starts behind the bundle and owns nothing yet.
LEMMA RegisterInv ==
  ASSUME TypeInv, Inv, Register
  PROVE  Inv'
<1> DEFINE n == nextSession
<1>1. /\ n \in Sessions /\ active' = n /\ nextSession' = n + 1 /\ epoch' = epoch
      /\ bundle' = bundle /\ row' = row
  BY DEF Register, TypeInv, TypeOK, Sessions, dbVars
<1>2. /\ \A s \in Sessions : s # n => sock'[s] = sock[s]
      /\ sock'[n].pc = "start" /\ sock'[n].sent.rev = 0
  BY <1>1 DEF Register, TypeInv, TypeOK, NoSock, NoIdentity
<1>3. bundle.rev \in Nat /\ row.connId \in Nat
  BY DEF TypeInv, TypeOK, Identity, Row
<1>4. SessionOrder'
  BY <1>1, <1>2 DEF Inv, SessionOrder, Sessions
<1>5. RowOwner'
  BY <1>1, <1>3 DEF Inv, RowOwner, Sessions
<1>6. SentBehindBundle'
  BY <1>1, <1>2, <1>3 DEF Inv, SentBehindBundle
<1>7. ActiveOwnsRow'
  BY <1>1, <1>2 DEF Inv, ActiveOwnsRow
<1>8. DeliveredWasSent'
  BY <1>1, <1>2, Zenon DEF Inv, DeliveredWasSent, OwnedBy
<1> QED
  BY <1>4, <1>5, <1>6, <1>7, <1>8 DEF Inv

\* After a restart no session is left, and the row belongs to an earlier
\* process or to nobody.
LEMMA RestartInv ==
  ASSUME TypeInv, Inv, CollectorRestart \/ DatabaseReset
  PROVE  Inv'
<1>1. /\ epoch' = epoch + 1 /\ nextSession' = 1 /\ active' = 0 /\ bundle' = NoIdentity
      /\ row' \in {row, EmptyRow}
      /\ \A s \in Sessions : sock'[s].pc = "none" /\ sock'[s].sent.rev = 0
  BY DEF CollectorRestart, DatabaseReset, RestartHub, dbVars, NoSock, NoIdentity
<1>2. epoch \in Nat \ {0} /\ row.connEpoch \in Nat /\ row.connEpoch <= epoch /\ EmptyRow.connEpoch = 0
  <2>1. epoch \in Nat \ {0} /\ row \in Row
    BY DEF TypeInv, TypeOK
  <2>2. row.connEpoch <= epoch
    BY DEF Inv, RowOwner
  <2> QED
    BY <2>1, <2>2 DEF Row, EmptyRow
<1>3. row'.connEpoch < epoch'
  BY <1>1, <1>2
<1>4. row'.connEpoch \in Nat /\ epoch' \in Nat
  BY <1>1, <1>2
<1>5. SessionOrder'
  BY <1>1 DEF SessionOrder, Sessions
<1>6. RowOwner'
  BY <1>3, <1>4 DEF RowOwner
<1>7. SentBehindBundle'
  BY <1>1 DEF SentBehindBundle, NoIdentity
<1>8. ActiveOwnsRow'
  BY <1>1 DEF ActiveOwnsRow, Sessions
<1>9. DeliveredWasSent'
  BY <1>1 DEF DeliveredWasSent
<1> QED
  BY <1>5, <1>6, <1>7, <1>8, <1>9, Zenon DEF Inv

\* Only session s moves, and it neither registers nor sends a new bundle.
OnlyMoves(s) ==
  /\ UNCHANGED <<epoch, nextSession, bundle>>
  /\ \A t \in Sessions : t # s => sock'[t] = sock[t]

\* A session of the past is below the registered one.
LEMMA RegisteredIsLast ==
  ASSUME TypeInv, Inv, NEW s \in Sessions, sock[s].pc # "none", NEW t \in Sessions, active = t
  PROVE  s <= t
  BY DEF Inv, SessionOrder, TypeInv, TypeOK, Sessions

\* A session that leaves without touching the row.
LEMMA LeaveInv ==
  ASSUME TypeInv, Inv, NEW s \in Sessions, OnlyMoves(s), sock[s].pc # "none",
         active' = IF active = s THEN 0 ELSE active,
         sock'[s].pc \in {"closing", "done"}, sock'[s].sent.rev = 0, row' = row
  PROVE  Inv'
<1>1. bundle.rev \in Nat
  BY DEF TypeInv, TypeOK, Identity
<1>2. SessionOrder'
  BY DEF OnlyMoves, Inv, SessionOrder, Sessions
<1>3. RowOwner'
  BY DEF OnlyMoves, Inv, RowOwner
<1>4. SentBehindBundle'
  BY <1>1 DEF OnlyMoves, Inv, SentBehindBundle
<1>5. ActiveOwnsRow'
  BY DEF OnlyMoves, Inv, ActiveOwnsRow, OwnedBy, Sessions
<1>6. DeliveredWasSent'
  BY Zenon DEF OnlyMoves, Inv, DeliveredWasSent, OwnedBy
<1> QED
  BY <1>2, <1>3, <1>4, <1>5, <1>6, Zenon DEF Inv

\* A session that claims the row, or finds it claimed by a later one.
LEMMA StartInv ==
  ASSUME TypeInv, Inv, NEW s \in Sessions, SockStart(s)
  PROVE  Inv'
<1>1. OnlyMoves(s)
  BY DEF SockStart, OnlyMoves, TypeInv, TypeOK
<1>2. sock[s].pc = "start" /\ sock[s] \in Sock /\ row \in Row /\ epoch \in Nat
  BY DEF SockStart, TypeInv, TypeOK
<1>3. s < nextSession
  BY <1>2 DEF Inv, SessionOrder, TypeInv, TypeOK, Sessions
<1>4. CASE Claimable(row, s)
  <2>1. active' = active /\ sock'[s].pc = "greet" /\ sock'[s].sent = sock[s].sent
    BY <1>2, <1>4 DEF SockStart, TypeInv, TypeOK, Sock
  <2>2. row' = MarkConnected(row, s)
    BY <1>4 DEF SockStart
  <2>3. row'.connEpoch = epoch /\ row'.connId = s /\ row'.connected /\ row'.delivered = 0
    BY <1>2, <2>2 DEF MarkConnected, Row
  <2>4. SessionOrder'
    BY <1>1, <2>1, <1>2 DEF OnlyMoves, Inv, SessionOrder
  <2>5. RowOwner'
    BY <1>1, <1>2, <1>3, <2>3 DEF OnlyMoves, RowOwner
  <2>6. SentBehindBundle'
    BY <1>1, <2>1, Zenon DEF OnlyMoves, Inv, SentBehindBundle
  <2>7. ASSUME NEW t \in Sessions, active = t, t # s, sock[t].pc \in {"greet", "run"}
        PROVE  FALSE
    <3>1. row.connEpoch = epoch /\ row.connId = t
      BY <2>7 DEF Inv, ActiveOwnsRow, OwnedBy
    <3>2. t <= s
      BY <1>4, <3>1 DEF Claimable
    <3>3. s <= t
      BY <1>2, <2>7, RegisteredIsLast
    <3> QED
      BY <2>7, <3>2, <3>3 DEF Sessions
  <2>8. ActiveOwnsRow'
    BY <1>1, <2>1, <2>3, <2>7 DEF OnlyMoves, ActiveOwnsRow, OwnedBy
  <2>9. DeliveredWasSent'
    <3>1. \A t \in Sessions : OwnedBy(row, t)' => t = s
      BY <2>3 DEF OwnedBy
    <3>2. sock[s].sent.rev \in Nat
      BY <1>2 DEF Sock, Identity
    <3> QED
      BY <2>1, <2>3, <3>1, <3>2 DEF DeliveredWasSent
  <2> QED
    BY <2>4, <2>5, <2>6, <2>8, <2>9 DEF Inv
<1>5. CASE ~Claimable(row, s)
  <2>1. /\ active' = IF active = s THEN 0 ELSE active
        /\ sock'[s].pc = "done" /\ sock'[s].sent.rev = 0 /\ row' = row
    BY <1>5 DEF SockStart, TypeInv, TypeOK, NoSock, NoIdentity
  <2> QED
    BY <1>1, <1>2, <1>3, <2>1, LeaveInv
<1> QED
  BY <1>4, <1>5

\* Every revision in the state is a natural number.
LEMMA Revisions ==
  /\ \A b \in Identity : b.rev \in Nat
  /\ \A k \in Sock : k.sent.rev \in Nat
  /\ \A r \in Row : r.delivered \in Nat
<1>1. \A b \in Identity : b.rev \in Nat
  BY DEF Identity
<1>2. \A k \in Sock : k.sent \in Identity
  BY DEF Sock
<1>3. \A r \in Row : r.delivered \in Nat
  BY DEF Row
<1> QED
  BY <1>1, <1>2, <1>3, Zenon

\* Sending the bundle: the owner of the row records what it sends, and no row
\* was ahead of it.
LEMMA SendInv ==
  ASSUME TypeInv, Inv, NEW s \in Sessions, OnlyMoves(s), active' = active,
         sock[s].pc \in {"greet", "run"}, sock'[s].pc = "run", sock'[s].sent = bundle,
         NEW r \in Row, SendBundle(s, r, bundle),
         r.connEpoch = row.connEpoch, r.connId = row.connId, r.delivered = row.delivered,
         row.connected => r.connected
  PROVE  Inv'
<1>0. row \in Row /\ bundle \in Identity /\ sock[s] \in Sock
  BY Zenon DEF TypeInv, TypeOK
<1>1. row \in Row /\ bundle.rev \in Nat /\ sock[s].sent.rev \in Nat /\ r.delivered \in Nat
  BY <1>0, Revisions, Zenon
<1>2. sock[s].sent.rev <= bundle.rev
  BY Zenon DEF Inv, SentBehindBundle
<1>3. row' = IF active = s THEN RecordDelivery(r, s, bundle.rev) ELSE r
  BY Zenon DEF SendBundle
<1>4. /\ row'.connEpoch = row.connEpoch /\ row'.connId = row.connId
      /\ row.connected => row'.connected
  BY <1>3 DEF RecordDelivery, Row
<1>5. \/ row'.delivered = row.delivered
      \/ OwnedBy(r, s) /\ row'.delivered = bundle.rev
  BY <1>1, <1>3 DEF RecordDelivery, Row
<1>6. SessionOrder'
  <2>1. SessionOrder /\ nextSession' = nextSession
    BY Zenon DEF Inv, OnlyMoves
  <2>2. ASSUME NEW t \in Sessions
        PROVE  /\ sock[t].pc = "none" => sock'[t].pc = "none"
               /\ sock[t].pc \in {"start", "greet", "run"} => sock'[t].pc \in {"start", "greet", "run"}
    <3>1. CASE t = s
      BY <3>1, Zenon
    <3>2. CASE t # s
      BY <3>2, Zenon DEF OnlyMoves
    <3> QED
      BY <3>1, <3>2, Zenon
  <2> QED
    BY <2>1, <2>2, Zenon DEF SessionOrder
<1>7. RowOwner'
  BY <1>4, Zenon DEF OnlyMoves, Inv, RowOwner
<1>8. SentBehindBundle'
  BY <1>1 DEF OnlyMoves, Inv, SentBehindBundle
<1>9. ActiveOwnsRow'
  BY <1>4, Zenon DEF OnlyMoves, Inv, ActiveOwnsRow, OwnedBy
<1>10. DeliveredWasSent'
  <2>1. ASSUME NEW t \in Sessions, OwnedBy(row, t)', sock'[t].pc \in {"greet", "run"}
        PROVE  row'.delivered <= sock'[t].sent.rev
    <3>1. OwnedBy(row, t)
      BY <1>4, <2>1, Zenon DEF OwnedBy, OnlyMoves
    <3>2. CASE t = s
      <4>1. row.delivered <= sock[s].sent.rev
        BY <3>1, <3>2, Zenon DEF Inv, DeliveredWasSent
      <4>2. row.delivered <= bundle.rev
        BY <1>1, <1>2, <4>1
      <4> QED
        BY <1>1, <1>5, <3>2, <4>2
    <3>3. CASE t # s
      <4>1. row'.delivered = row.delivered
        BY <1>5, <3>1, <3>3, Zenon DEF OwnedBy
      <4>2. sock'[t] = sock[t]
        BY <3>3 DEF OnlyMoves
      <4> QED
        BY <2>1, <3>1, <4>1, <4>2, Zenon DEF Inv, DeliveredWasSent
    <3> QED
      BY <3>2, <3>3, Zenon
  <2> QED
    BY <2>1, Zenon DEF DeliveredWasSent
<1> QED
  BY <1>6, <1>7, <1>8, <1>9, <1>10, Zenon DEF Inv

\* The first snapshot and every update send the bundle in memory.
LEMMA GreetInv ==
  ASSUME TypeInv, Inv, NEW s \in Sessions, SockGreet(s) \/ SockUpdate(s)
  PROVE  Inv'
<1>1. row \in Row /\ sock[s] \in Sock
  BY DEF TypeInv, TypeOK
<1>2. OnlyMoves(s) /\ active' = active
  BY DEF SockGreet, SockUpdate, OnlyMoves, TypeInv, TypeOK
<1>3. sock[s].pc \in {"greet", "run"} /\ sock'[s].pc = "run" /\ sock'[s].sent = bundle
  BY <1>1 DEF SockGreet, SockUpdate, TypeInv, TypeOK, Sock
<1>4. SendBundle(s, row, bundle)
  BY DEF SockGreet, SockUpdate
<1> QED
  BY <1>1, <1>2, <1>3, <1>4, SendInv, Zenon

\* A health frame writes the row of the session that owns it, and may repeat the
\* bundle; any other effect leaves the sessions as they were.
LEMMA HealthInv ==
  ASSUME TypeInv, Inv, NEW s \in Sessions, SockHealth(s)
  PROVE  Inv' \/ SessionsKept
<1> DEFINE f == Head(sock[s].up)
           switched == sock[s].boot # 0 /\ sock[s].boot # f.boot
<1>1. /\ row \in Row /\ sock[s] \in Sock /\ sock \in [Sessions -> Sock] /\ desired \in Nat /\ epoch \in Nat
      /\ bundle \in Identity
  BY DEF TypeInv, TypeOK
<1>2. f \in HealthFrame /\ sock[s].up # <<>>
  BY <1>1, HeadFrame DEF SockHealth
<1>4. /\ RecordHealth(row, f) \in Row
      /\ RecordHealth(row, f).connEpoch = row.connEpoch /\ RecordHealth(row, f).connId = row.connId
      /\ RecordHealth(row, f).delivered = row.delivered /\ RecordHealth(row, f).connected
  BY <1>1, <1>2, HealthRow, Zenon
<1>5. active' = active /\ sock[s].pc = "run" /\ UNCHANGED <<epoch, nextSession, bundle>>
  BY Zenon DEF SockHealth
<1>6. CASE OwnedBy(row, s) /\ switched
  <2>1. SendBundle(s, RecordHealth(row, f), bundle)
    BY <1>6 DEF SockHealth
  <2>2. OnlyMoves(s) /\ sock'[s].pc = "run" /\ sock'[s].sent = bundle
    BY <1>1, <1>5, <1>6 DEF SockHealth, OnlyMoves, Sock
  <2> QED
    BY <1>4, <1>5, <2>1, <2>2, SendInv, Zenon
<1>7. CASE ~(OwnedBy(row, s) /\ switched)
  <2>1. row' \in {row, RecordHealth(row, f)}
    BY <1>7, Zenon DEF SockHealth
  <2>2. \A t \in Sessions : sock'[t].pc = sock[t].pc /\ sock'[t].sent = sock[t].sent
    <3> DEFINE k0 == [sock[s] EXCEPT !.up = Tail(sock[s].up)]
               k2 == [sock[s] EXCEPT !.up = Tail(sock[s].up), !.boot = f.boot]
    <3>1. /\ k0.pc = sock[s].pc /\ k0.sent = sock[s].sent
          /\ k2.pc = sock[s].pc /\ k2.sent = sock[s].sent
      BY <1>1 DEF Sock
    <3>2. CASE ~OwnedBy(row, s)
      <4>1. sock' = [sock EXCEPT ![s] = k0]
        BY <3>2 DEF SockHealth
      <4> HIDE DEF k0
      <4> QED
        BY <1>1, <3>1, <4>1
    <3>3. CASE OwnedBy(row, s) /\ ~switched
      <4>1. sock' = [sock EXCEPT ![s] = k2]
        BY <1>1, <3>3, Zenon DEF SockHealth, Sock
      <4> HIDE DEF k2
      <4> QED
        BY <1>1, <3>1, <4>1
    <3> QED
      BY <1>7, <3>2, <3>3, Zenon
  <2>3. /\ row'.connEpoch = row.connEpoch /\ row'.connId = row.connId
        /\ (row.connected => row'.connected) /\ row'.delivered = row.delivered
    BY <1>4, <2>1
  <2>4. bundle' = bundle /\ bundle.rev >= bundle.rev /\ (bundle.gen = 0 => bundle.rev = 0)
    BY <1>1, <1>5 DEF Inv, SentBehindBundle, Identity
  <2>5. SessionsKept
    BY <1>5, <2>2, <2>3, <2>4, Zenon DEF SessionsKept
  <2> QED
    BY <2>5
<1> QED
  BY <1>6, <1>7

\* An ack of what the session did not send repeats the bundle; a recorded ack
\* leaves the owner and the delivery mark alone.
LEMMA AckInv ==
  ASSUME TypeInv, Inv, NEW s \in Sessions, SockAck(s)
  PROVE  Inv' \/ SessionsKept
<1> DEFINE f == Head(sock[s].up)
           other == sock[s].boot # f.boot \/ sock[s].sent # f.id
<1>1. row \in Row /\ sock[s] \in Sock /\ sock \in [Sessions -> Sock] /\ bundle \in Identity
  BY DEF TypeInv, TypeOK
<1>2. /\ RecordAck(row, f).connEpoch = row.connEpoch /\ RecordAck(row, f).connId = row.connId
      /\ RecordAck(row, f).delivered = row.delivered /\ RecordAck(row, f).connected
  BY <1>1 DEF RecordAck, Row
<1>3. active' = active /\ sock[s].pc = "run" /\ UNCHANGED <<epoch, nextSession, bundle>>
  BY DEF SockAck
<1>4. CASE other
  <2>1. SendBundle(s, row, bundle)
    BY <1>4 DEF SockAck
  <2>2. OnlyMoves(s) /\ sock'[s].pc = "run" /\ sock'[s].sent = bundle
    BY <1>1, <1>3, <1>4 DEF SockAck, OnlyMoves, Sock
  <2> QED
    BY <1>1, <1>3, <2>1, <2>2, SendInv, Zenon
<1>5. CASE ~other
  <2>1. row' \in {row, RecordAck(row, f)}
    BY <1>5 DEF SockAck
  <2>2. \A t \in Sessions : sock'[t].pc = sock[t].pc /\ sock'[t].sent = sock[t].sent
    BY <1>1, <1>5, Zenon DEF SockAck, Sock
  <2>3. /\ row'.connEpoch = row.connEpoch /\ row'.connId = row.connId
        /\ (row.connected => row'.connected) /\ row'.delivered = row.delivered
    BY <1>2, <2>1
  <2>4. bundle' = bundle /\ bundle.rev >= bundle.rev /\ (bundle.gen = 0 => bundle.rev = 0)
    BY <1>1, <1>3 DEF Inv, SentBehindBundle, Identity
  <2>5. SessionsKept
    BY <1>3, <2>2, <2>3, <2>4 DEF SessionsKept
  <2> QED
    BY <2>5
<1> QED
  BY <1>4, <1>5

\* disconnect_session marks the row offline only while the session that leaves
\* still owns it, when no registered session does.
LEMMA OfflineInv ==
  ASSUME TypeInv, Inv, NEW s \in Sessions, SockOffline(s)
  PROVE  Inv'
<1>1. row \in Row /\ sock \in [Sessions -> Sock]
  BY DEF TypeInv, TypeOK
<1>2. OnlyMoves(s) /\ active' = active /\ sock[s].pc = "closing" /\ active # s
  BY <1>1 DEF SockOffline, OnlyMoves, Inv, SessionOrder
<1>3. sock'[s].pc = "done" /\ sock'[s].sent = sock[s].sent
  BY <1>1 DEF SockOffline, Sock
<1>4. row' = MarkDisconnected(row, s)
  BY DEF SockOffline
<1>5. /\ row'.connEpoch = row.connEpoch /\ row'.connId = row.connId
      /\ row'.delivered = row.delivered
      /\ ~OwnedBy(row, s) => row' = row
  BY <1>1, <1>4 DEF MarkDisconnected, Row
<1>6. SessionOrder'
  BY <1>2, <1>3 DEF OnlyMoves, Inv, SessionOrder
<1>7. RowOwner'
  BY <1>2, <1>5, Zenon DEF OnlyMoves, Inv, RowOwner
<1>8. SentBehindBundle'
  BY <1>2, <1>3, Zenon DEF OnlyMoves, Inv, SentBehindBundle
<1>9. ActiveOwnsRow'
  BY <1>2, <1>3, <1>5, Zenon DEF OnlyMoves, Inv, ActiveOwnsRow, OwnedBy
<1>10. DeliveredWasSent'
  BY <1>2, <1>3, <1>5, Zenon DEF OnlyMoves, Inv, DeliveredWasSent, OwnedBy
<1> QED
  BY <1>6, <1>7, <1>8, <1>9, <1>10 DEF Inv

\* A session task whose socket broke or that was replaced.
LEMMA BreakInv ==
  ASSUME TypeInv, Inv, NEW s \in Sessions, SockBreak(s)
  PROVE  Inv'
<1>1. sock \in [Sessions -> Sock]
  BY DEF TypeInv, TypeOK
<1>2. /\ OnlyMoves(s) /\ sock[s].pc = "run" /\ row' = row
      /\ active' = IF active = s THEN 0 ELSE active
  BY <1>1 DEF SockBreak, OnlyMoves, dbVars
<1>3. sock'[s].pc \in {"closing", "done"} /\ sock'[s].sent.rev = 0
  BY <1>1 DEF SockBreak, NoSock, NoIdentity
<1> QED
  BY <1>2, <1>3, LeaveInv, Zenon

\* Every step of a session task keeps the invariant.
LEMMA SockInv ==
  ASSUME TypeInv, Inv, NEW s \in Sessions, SockStep(s)
  PROVE  Inv'
<1>1. CASE SockHealth(s)
  <2>1. TypeInv'
    BY SockTypes
  <2>2. Inv' \/ SessionsKept
    BY <1>1, HealthInv
  <2> QED
    BY <2>1, <2>2, KeptInv
<1>2. CASE SockAck(s)
  <2>1. TypeInv'
    BY SockTypes
  <2>2. Inv' \/ SessionsKept
    BY <1>2, AckInv
  <2> QED
    BY <2>1, <2>2, KeptInv
<1> QED
  BY <1>1, <1>2, StartInv, GreetInv, BreakInv, OfflineInv DEF SockStep

-----------------------------------------------------------------------------
(* The theorems.                                                           *)

\* Every step of the Collector, the Agent, the operator or the environment
\* keeps the types and the invariant.
LEMMA Step ==
  ASSUME BoundsAssumption, TypeInv, Inv, [Next]_vars
  PROVE  TypeInv' /\ Inv'
<1>1. CASE Operator \/ Refreshing \/ Upgrade \/ UpgradePublish \/ Agent
           \/ LinkFail \/ LinkDead \/ AgentRestart
  <2>1. TypeInv'
    BY <1>1, OperatorTypes, HubTypes, AgentTypes, FailureTypes DEF Connecting, Failure, Inv
  <2>2. SessionsKept
    BY <1>1, QuietSteps
  <2> QED
    BY <2>1, <2>2, KeptInv
<1>2. CASE Register
  BY <1>2, HubTypes, RegisterInv DEF Connecting, Inv
<1>3. CASE CollectorRestart \/ DatabaseReset
  BY <1>3, FailureTypes, RestartInv DEF Failure
<1>4. ASSUME NEW s \in Sessions, SockStep(s) PROVE TypeInv' /\ Inv'
  BY <1>4, SockTypes, SockInv
<1>5. CASE UNCHANGED vars
  <2>1. TypeInv'
    BY <1>5, Zenon DEF vars, dbVars, hubVars, agentVars, TypeInv, TypeOK, AgentSide
  <2>2. Inv'
    BY <1>5, Zenon DEF vars, dbVars, hubVars, Inv, SessionOrder, RowOwner, SentBehindBundle,
                ActiveOwnsRow, DeliveredWasSent, OwnedBy
  <2> QED
    BY <2>1, <2>2
<1> QED
  BY <1>1, <1>2, <1>3, <1>4, <1>5 DEF Next, Connecting, Failure

\* The types and the invariant hold in every reachable state.
LEMMA Always == Spec => [](TypeInv /\ Inv)
<1>1. Init => TypeInv /\ Inv
  BY BoundsAssumption, InitTypes, InitInv
<1>2. TypeInv /\ Inv /\ [Next]_vars => TypeInv' /\ Inv'
  BY BoundsAssumption, Step
<1> QED
  BY <1>1, <1>2, PTL DEF Spec

\* Rows, identities, frames and session records of the policy stream stay well
\* formed whatever the interleaving of pushes, acks, restarts and resets, for
\* every bound.
THEOREM TypesHold == Spec => []TypeOK
<1>1. TypeInv /\ Inv => TypeOK
  BY DEF TypeInv
<1> QED
  BY <1>1, Always, PTL

\* The registered session that has begun its greeting owns the deployment row
\* and the row says connected: a replaced session that is slow to close never
\* marks its successor's row offline (mark_agent_disconnected's fence).
THEOREM RegisteredSessionOwnsRow == Spec => []ActiveOwnsRow
<1>1. TypeInv /\ Inv => ActiveOwnsRow
  BY DEF Inv
<1> QED
  BY <1>1, Always, PTL

\* The delivery mark of the row never claims a revision its session has not
\* put on the socket (record_delivery and mark_agent_connected's reset).
THEOREM DeliveryWasSent == Spec => []DeliveredWasSent
<1>1. TypeInv /\ Inv => DeliveredWasSent
  BY DEF Inv
<1> QED
  BY <1>1, Always, PTL

\* In one Collector process the bundle in memory is replaced only under a
\* higher generation, never by a lower revision, however many refreshes read
\* the database and publish out of order (refresh_gateway).
THEOREM BundleIsMonotone == Spec => BundleNeverGoesBack
<1> DEFINE A == epoch' = epoch =>
                  \/ bundle' = bundle
                  \/ bundle'.gen > bundle.gen /\ bundle'.rev >= bundle.rev
<1>1. ASSUME TypeInv, Inv, [Next]_vars PROVE A
  <2>1. CASE Operator \/ Refreshing \/ Upgrade \/ UpgradePublish \/ Agent
             \/ LinkFail \/ LinkDead \/ AgentRestart
    BY <1>1, <2>1, QuietSteps, Zenon DEF SessionsKept
  <2>2. CASE Register \/ UNCHANGED vars
    BY <2>2 DEF Register, vars, hubVars
  <2>3. CASE CollectorRestart \/ DatabaseReset
    <3>1. epoch' = epoch + 1 /\ epoch \in Nat
      BY <1>1, <2>3 DEF CollectorRestart, DatabaseReset, RestartHub, TypeInv, TypeOK
    <3> QED
      BY <3>1
  <2>4. ASSUME NEW s \in Sessions, SockStep(s) PROVE bundle' = bundle
    BY <2>4, Zenon DEF SockStep, SockStart, SockGreet, SockUpdate, SockHealth, SockAck, SockBreak,
                SockOffline
  <2> QED
    BY <1>1, <2>1, <2>2, <2>3, <2>4 DEF Next, Connecting, Failure
<1>2. TypeInv /\ Inv /\ [Next]_vars => [A]_vars
  BY <1>1
<1> HIDE DEF A
<1>3. Spec => [][A]_vars
  BY <1>2, Always, PTL DEF Spec
<1> QED
  BY <1>3 DEF BundleNeverGoesBack, A
=============================================================================
