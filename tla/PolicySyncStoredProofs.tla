------------------------ MODULE PolicySyncStoredProofs ------------------------
(***************************************************************************)
(* What the Agent acknowledged is what it stored, for every number of      *)
(* revisions, sessions, Collector restarts and Agent boots.                *)
(*                                                                         *)
(* An ack reaches the row later than it was sent, so the invariant follows *)
(* every frame from the bundle to the inbox, the state file, the session's *)
(* queue and the row.  Revisions of a database that was re-created cannot  *)
(* be told from those of the new one; what keeps them apart is that the    *)
(* Agent's inbox is emptied with its socket.                               *)
(***************************************************************************)
EXTENDS PolicySyncProofs, TLAPS

USE DEF Rev

\* The frames of a queue.
Frames(q) == {q[i] : i \in DOMAIN q}

\* An identity of an earlier database, or of a revision of this one.
Sane(id, l, d) == id.life <= l /\ (id.life = l => id.rev <= d)

\* An identity of a revision of this database.
Current(id, l, d) == id.life = l /\ id.rev <= d

\* A frame of the Agent, given the identity it has stored: what it says was
\* stored has been, and what was stored since is not of an older database.
Truthful(f, id, l) ==
  /\ f.kind = "health" => f.rev <= id.rev
  /\ f.kind = "ack" /\ f.status # "failed" => f.id.rev <= id.rev /\ (f.id.life = l => id.life = l)

\* AppliedIsStored of a row, given the identity the Agent has stored.
TrueRow(r, id, l, d) ==
  /\ r.applied <= r.agentApplied /\ r.agentApplied <= id.rev
  /\ r.status = "applied" /\ r.reported >= d => id.rev = d /\ id.life = l

Alive == {"start", "greet", "run"}

\* The hub offers only revisions of the database it runs on.
Offered ==
  /\ bundle.gen > 0 => Current(bundle, life, desired)
  /\ reads \subseteq 0..desired /\ handshake.rev <= desired
  /\ handshake.stage = "published" => bundle.gen > 0
  /\ \A s \in Sessions :
       /\ sock[s].pc \in Alive => bundle.gen > 0
       /\ sock[s].pc = "run" => Current(sock[s].sent, life, desired)

\* What the Agent holds was offered by some database at some time.
Received ==
  /\ Sane(saved.id, life, desired)
  /\ \A x \in Frames(inbox) : Sane(x, life, desired)

\* Once the Agent has talked to a process on this database, nothing of an
\* earlier database is left in its inbox.
SameLife ==
  (\/ link.epoch = epoch
   \/ row.status = "applied"
   \/ \E s \in Sessions : Frames(sock[s].up) # {})
    => \A x \in Frames(inbox) : x.life = life

\* Frames on their way to the Collector are still true of the Agent.
Reported == \A s \in Sessions : \A f \in Frames(sock[s].up) : Truthful(f, saved.id, life)

StoredInv ==
  Offered /\ Received /\ SameLife /\ Reported /\ TrueRow(row, saved.id, life, desired)

\* The frames of a queue that grew, shrank or was emptied.
LEMMA FramesOf ==
  /\ Frames(<<>>) = {}
  /\ \A S : \A q \in Seq(S), x \in S :
       Frames(Append(q, x)) \subseteq Frames(q) \cup {x}
  /\ \A S : \A q \in Seq(S) :
       q # <<>> => Frames(Tail(q)) \subseteq Frames(q) /\ Head(q) \in Frames(q)
<1>1. Frames(<<>>) = {}
  BY DEF Frames
<1>2. ASSUME NEW S, NEW q \in Seq(S), NEW x \in S
      PROVE  Frames(Append(q, x)) \subseteq Frames(q) \cup {x}
  <2>1. ASSUME NEW i \in DOMAIN Append(q, x)
        PROVE  Append(q, x)[i] = x \/ (i \in DOMAIN q /\ Append(q, x)[i] = q[i])
    <3>1. DOMAIN Append(q, x) = 1..Len(q) + 1 /\ DOMAIN q = 1..Len(q) /\ Len(q) \in Nat
      OBVIOUS
    <3>2. CASE i = Len(q) + 1
      BY <3>1, <3>2
    <3>3. CASE i # Len(q) + 1
      BY <3>1, <3>3
    <3> QED
      BY <3>2, <3>3
  <2> QED
    BY <2>1 DEF Frames
<1>3. ASSUME NEW S, NEW q \in Seq(S), q # <<>>
      PROVE  Frames(Tail(q)) \subseteq Frames(q) /\ Head(q) \in Frames(q)
  <2>1. ASSUME NEW i \in DOMAIN Tail(q)
        PROVE  i + 1 \in DOMAIN q /\ Tail(q)[i] = q[i + 1]
    BY <1>3
  <2>2. 1 \in DOMAIN q /\ Head(q) = q[1]
    BY <1>3
  <2> QED
    BY <2>1, <2>2 DEF Frames
<1> QED
  BY <1>1, <1>2, <1>3

\* The identities of a database stay its identities while it goes on, and are
\* those of an earlier one when it is re-created.
LEMMA Identities ==
  ASSUME NEW id \in Identity, NEW l \in Nat, NEW d \in Nat, NEW e \in Nat, d <= e
  PROVE  /\ Sane(id, l, d) => Sane(id, l, e)
         /\ Current(id, l, d) => Current(id, l, e)
         /\ Current(id, l, d) => Sane(id, l, d)
         /\ Sane(id, l, d) => Sane(id, l + 1, 0)
  BY DEF Sane, Current, Identity

\* mark_agent_connected, record_bundle_delivery, mark_agent_disconnected and a
\* new revision say nothing new of what was applied.
LEMMA PlainRows ==
  ASSUME NEW r \in Row, NEW s, NEW rev, NEW id \in Identity, NEW l, desired \in Nat,
         TrueRow(r, id, l, desired)
  PROVE  /\ \A q \in {MarkConnected(r, s), RecordDelivery(r, s, rev), MarkDisconnected(r, s)} :
              TrueRow(q, id, l, desired) /\ (q.status = "applied" => r.status = "applied")
         /\ \A d : TrueRow(Republished(r), id, l, d)
         /\ Republished(r).status # "applied"
<1>1. ASSUME NEW q, q = MarkConnected(r, s)
      PROVE  TrueRow(q, id, l, desired) /\ (q.status = "applied" => r.status = "applied")
  <2>1. /\ q.applied = r.applied /\ q.agentApplied = r.agentApplied /\ q.reported = r.reported
        /\ q.status = IF desired > r.reported THEN "pending" ELSE r.status
    BY <1>1 DEF MarkConnected, Row
  <2> QED
    BY <2>1 DEF TrueRow
<1>2. ASSUME NEW q, q = RecordDelivery(r, s, rev)
      PROVE  TrueRow(q, id, l, desired) /\ (q.status = "applied" => r.status = "applied")
  <2>1. /\ q.applied = r.applied /\ q.agentApplied = r.agentApplied /\ q.reported = r.reported
        /\ q.status = r.status
    BY <1>2 DEF RecordDelivery, Row
  <2> QED
    BY <2>1 DEF TrueRow
<1>3. ASSUME NEW q, q = MarkDisconnected(r, s)
      PROVE  TrueRow(q, id, l, desired) /\ (q.status = "applied" => r.status = "applied")
  <2>1. /\ q.applied = r.applied /\ q.agentApplied = r.agentApplied /\ q.reported = r.reported
        /\ q.status \in {r.status, "not_deployed", "offline"}
    BY <1>3 DEF MarkDisconnected, Row
  <2> QED
    BY <2>1 DEF TrueRow
<1>4. (\A d : TrueRow(Republished(r), id, l, d)) /\ Republished(r).status # "applied"
  BY DEF Republished, Row, TrueRow
<1> QED
  BY <1>1, <1>2, <1>3, <1>4

\* record_health takes the Agent's word for its revision, and keeps "applied"
\* only where it stood.
LEMMA HealthTrue ==
  ASSUME NEW r \in Row, NEW f \in HealthFrame, NEW id \in Identity, NEW l, desired \in Nat,
         TrueRow(r, id, l, desired), Truthful(f, id, l)
  PROVE  /\ TrueRow(RecordHealth(r, f), id, l, desired)
         /\ RecordHealth(r, f).status = "applied" => r.status = "applied"
<1> DEFINE q == RecordHealth(r, f)
           changed == r.ctrlEpoch # epoch \/ r.boot # f.boot
<1>1. /\ q.applied = r.applied /\ q.agentApplied = Larger(r.agentApplied, f.rev)
      /\ q.reported = IF changed THEN 0 ELSE r.reported
      /\ q.status = IF f.rev > desired \/ f.disabled THEN "failed"
                    ELSE IF \/ changed /\ desired > 0
                            \/ desired > r.reported THEN "pending"
                    ELSE r.status
  BY DEF RecordHealth, Row
<1> HIDE DEF q, changed
<1>2. f.rev <= id.rev /\ f.rev \in Nat /\ r.agentApplied \in Nat /\ r.applied \in Nat /\ id.rev \in Nat
  BY DEF Truthful, HealthFrame, Row, Identity
<1>3. q.applied <= q.agentApplied /\ q.agentApplied <= id.rev
  BY <1>1, <1>2 DEF Larger, TrueRow
<1>4. q.status = "applied" => r.status = "applied" /\ ~(desired > r.reported)
  BY <1>1
<1>5. r.reported \in Nat
  BY SMTT(20) DEF Row
<1> QED
  BY <1>3, <1>4, <1>5 DEF TrueRow, q

\* record_ack sets "applied" only for the desired revision of this database,
\* acknowledged as applied.
LEMMA AckTrue ==
  ASSUME NEW r \in Row, NEW f \in AckFrame, NEW id \in Identity, NEW l \in Nat, desired \in Nat,
         TrueRow(r, id, l, desired), Truthful(f, id, l), Sane(id, l, desired),
         f.id.life = l
  PROVE  TrueRow(RecordAck(r, f), id, l, desired)
<1> DEFINE q == RecordAck(r, f)
<1>1. /\ q.applied = IF f.status = "applied" THEN Larger(r.applied, f.id.rev) ELSE r.applied
      /\ q.agentApplied = IF f.status # "failed" THEN Larger(r.agentApplied, f.id.rev)
                          ELSE r.agentApplied
      /\ q.status = IF f.status = "applied" /\ f.id.rev # desired THEN "pending" ELSE f.status
  BY DEF RecordAck, Row
<1> HIDE DEF q
<1>2. /\ f.id.rev \in Nat /\ r.agentApplied \in Nat /\ r.applied \in Nat /\ id.rev \in Nat
      /\ f.kind = "ack"
  BY DEF AckFrame, Row, Identity
<1>3. f.status # "failed" => f.id.rev <= id.rev /\ id.life = l
  BY <1>2 DEF Truthful
<1>4. q.applied <= q.agentApplied /\ q.agentApplied <= id.rev
  BY <1>1, <1>2, <1>3 DEF Larger, TrueRow
<1>5. q.status = "applied" => f.status = "applied" /\ f.id.rev = desired
  BY <1>1
<1>6. f.status = "applied" /\ f.id.rev = desired => id.rev = desired /\ id.life = l
  BY <1>2, <1>3 DEF Sane
<1> QED
  BY <1>4, <1>5, <1>6 DEF TrueRow, q

\* A step of session s, as far as StoredInv goes.
SockEffect(s) ==
  /\ UNCHANGED <<life, desired, epoch, bundle, reads, handshake, saved>>
  /\ link' = link \/ link' = NoLink
  /\ \/ Frames(inbox') \subseteq Frames(inbox)
     \/ sock[s].pc \in Alive /\ Frames(inbox') \subseteq Frames(inbox) \cup {bundle}
  /\ \A t \in Sessions :
       /\ Frames(sock'[t].up) \subseteq Frames(sock[t].up)
       /\ sock'[t].pc \in Alive => sock[t].pc \in Alive
       /\ sock'[t].pc = "run" => \/ sock[t].pc = "run" /\ sock'[t].sent = sock[t].sent
                                 \/ sock[t].pc \in Alive /\ sock'[t].sent = bundle
  /\ TrueRow(row', saved.id, life, desired)
  /\ row'.status = "applied" => row.status = "applied" \/ Frames(sock[s].up) # {}

\* Such a step keeps the invariant.
LEMMA SockEffectStored ==
  ASSUME TypeInv, StoredInv, NEW s \in Sessions, SockEffect(s)
  PROVE  StoredInv'
<1>0. /\ life' = life /\ desired' = desired /\ epoch' = epoch /\ bundle' = bundle
      /\ reads' = reads /\ handshake' = handshake /\ saved' = saved
  BY SMTT(20) DEF SockEffect
<1>1. Offered'
  <2>1. ASSUME NEW t \in Sessions
        PROVE  /\ sock'[t].pc \in Alive => bundle.gen > 0
               /\ sock'[t].pc = "run" => Current(sock'[t].sent, life, desired)
    BY Zenon DEF StoredInv, Offered, SockEffect
  <2> QED
    BY <1>0, <2>1 DEF StoredInv, Offered
<1>2. bundle \in Identity /\ life \in Nat /\ desired \in Nat /\ desired <= desired
  BY DEF TypeInv, TypeOK
<1>3. sock[s].pc \in Alive => Current(bundle, life, desired) /\ Sane(bundle, life, desired)
  BY <1>2, Identities, SMTT(20) DEF StoredInv, Offered
<1>4. Received'
  BY <1>0, <1>3, SMTT(20) DEF StoredInv, Received, SockEffect
<1>5. SameLife'
  <2>1. link'.epoch = epoch => link.epoch = epoch
    BY DEF SockEffect, NoLink, TypeInv, TypeOK
  <2>2. sock[s].pc \in Alive => bundle.life = life
    BY <1>3 DEF Current
  <2>3. ASSUME \/ link'.epoch = epoch
               \/ row'.status = "applied"
               \/ \E t \in Sessions : Frames(sock'[t].up) # {}
        PROVE  \A x \in Frames(inbox) : x.life = life
    BY <2>1, <2>3, SMTT(20) DEF SockEffect, StoredInv, SameLife
  <2> QED
    BY <1>0, <2>2, <2>3, SMTT(20) DEF SockEffect, SameLife
<1>6. Reported'
  BY <1>0, SMTT(20) DEF SockEffect, StoredInv, Reported
<1>7. TrueRow(row', saved'.id, life', desired')
  BY <1>0 DEF SockEffect
<1> QED
  BY <1>1, <1>4, <1>5, <1>6, <1>7 DEF StoredInv

\* Sending the bundle on session s, after the row was written as r.
LEMMA SendEffect ==
  ASSUME TypeInv, StoredInv, NEW s \in Sessions, NEW r \in Row,
         TrueRow(r, saved.id, life, desired), SendBundle(s, r, bundle)
  PROVE  /\ Frames(inbox') \subseteq Frames(inbox) \cup {bundle}
         /\ TrueRow(row', saved.id, life, desired)
         /\ row'.status = "applied" => r.status = "applied"
<1>1. /\ inbox \in Seq(Identity) /\ bundle \in Identity /\ saved.id \in Identity
      /\ desired \in Nat
  BY DEF TypeInv, TypeOK, Signature
<1>2. Frames(inbox') \subseteq Frames(inbox) \cup {bundle}
  <2>1. inbox' = inbox \/ inbox' = Append(inbox, bundle)
    BY DEF SendBundle, SendDown
  <2> QED
    BY <1>1, <2>1, FramesOf, Zenon
<1>3. row' = r \/ row' = RecordDelivery(r, s, bundle.rev)
  BY DEF SendBundle
<1> QED
  BY <1>1, <1>2, <1>3, PlainRows

\* mark_agent_connected, and a session that finds the row taken.
LEMMA StartEffect ==
  ASSUME TypeInv, StoredInv, NEW s \in Sessions, SockStart(s)
  PROVE  SockEffect(s)
<1>1. row \in Row /\ saved.id \in Identity /\ desired \in Nat /\ sock \in [Sessions -> Sock]
  BY DEF TypeInv, TypeOK, Signature
<1>2. /\ UNCHANGED <<life, desired, epoch, bundle, reads, handshake, saved, link, inbox>>
      /\ sock[s].pc = "start" /\ row' \in {row, MarkConnected(row, s)}
  BY DEF SockStart, agentVars
<1>3. /\ \A t \in Sessions : t # s => sock'[t] = sock[t]
      /\ \/ sock'[s].pc = "greet" /\ sock'[s].up = sock[s].up
         \/ sock'[s].pc = "done" /\ sock'[s].up = <<>>
  BY <1>1, SMTT(20) DEF SockStart, NoSock, Sock
<1>4. \A t \in Sessions :
        /\ Frames(sock'[t].up) \subseteq Frames(sock[t].up)
        /\ sock'[t].pc \in Alive => sock[t].pc \in Alive
        /\ sock'[t].pc = "run" => sock[t].pc = "run" /\ sock'[t].sent = sock[t].sent
  BY <1>2, <1>3, FramesOf DEF Alive
<1>5. TrueRow(row', saved.id, life, desired) /\ (row'.status = "applied" => row.status = "applied")
  BY <1>1, <1>2, PlainRows DEF StoredInv
<1> QED
  BY <1>2, <1>4, <1>5, Zenon DEF SockEffect

\* The greeting and every update put the bundle on the socket.
LEMMA PushEffect ==
  ASSUME TypeInv, StoredInv, NEW s \in Sessions, SockGreet(s) \/ SockUpdate(s)
  PROVE  SockEffect(s)
<1>1. row \in Row /\ sock \in [Sessions -> Sock] /\ TrueRow(row, saved.id, life, desired)
  BY DEF TypeInv, TypeOK, StoredInv
<1>2. /\ UNCHANGED <<life, desired, epoch, bundle, reads, handshake, saved, link>>
      /\ sock[s].pc \in Alive /\ SendBundle(s, row, bundle)
  BY DEF SockGreet, SockUpdate, Alive
<1>3. /\ \A t \in Sessions : t # s => sock'[t] = sock[t]
      /\ sock'[s].up = sock[s].up /\ sock'[s].sent = bundle
  BY <1>1 DEF SockGreet, SockUpdate, Sock
<1>4. \A t \in Sessions :
        /\ Frames(sock'[t].up) \subseteq Frames(sock[t].up)
        /\ sock'[t].pc \in Alive => sock[t].pc \in Alive
        /\ sock'[t].pc = "run" => \/ sock[t].pc = "run" /\ sock'[t].sent = sock[t].sent
                                  \/ sock[t].pc \in Alive /\ sock'[t].sent = bundle
  BY <1>2, <1>3, Zenon
<1> QED
  BY <1>1, <1>2, <1>4, SendEffect, Zenon DEF SockEffect

\* The frame a session handles, with what the Agent has stored.
LEMMA HandledFrame ==
  ASSUME TypeInv, StoredInv, NEW s \in Sessions, sock[s].up # <<>>
  PROVE  /\ Head(sock[s].up) \in Frames(sock[s].up)
         /\ Truthful(Head(sock[s].up), saved.id, life)
         /\ Frames(Tail(sock[s].up)) \subseteq Frames(sock[s].up)
<1>1. sock[s].up \in Seq(Frame)
  BY DEF TypeInv, TypeOK, Sock
<1>2. Head(sock[s].up) \in Frames(sock[s].up) /\ Frames(Tail(sock[s].up)) \subseteq Frames(sock[s].up)
  BY <1>1, FramesOf, SMTT(20)
<1> QED
  BY <1>2, Zenon DEF StoredInv, Reported

\* The queue of session s loses its head and its task goes on.
LEMMA HandledSock ==
  ASSUME TypeInv, StoredInv, NEW s \in Sessions, sock[s].up # <<>>, sock[s].pc = "run",
         \A t \in Sessions : t # s => sock'[t] = sock[t],
         sock'[s].up = Tail(sock[s].up), sock'[s].sent \in {sock[s].sent, bundle}
  PROVE  \A t \in Sessions :
           /\ Frames(sock'[t].up) \subseteq Frames(sock[t].up)
           /\ sock'[t].pc \in Alive => sock[t].pc \in Alive
           /\ sock'[t].pc = "run" => \/ sock[t].pc = "run" /\ sock'[t].sent = sock[t].sent
                                     \/ sock[t].pc \in Alive /\ sock'[t].sent = bundle
  BY HandledFrame DEF Alive

\* handle_agent_frame on policy_health.
LEMMA HealthEffect ==
  ASSUME TypeInv, StoredInv, NEW s \in Sessions, SockHealth(s)
  PROVE  SockEffect(s)
<1> DEFINE f == Head(sock[s].up)
<1>1. /\ row \in Row /\ sock \in [Sessions -> Sock] /\ TrueRow(row, saved.id, life, desired)
      /\ saved.id \in Identity /\ desired \in Nat /\ epoch \in Nat /\ sock[s] \in Sock
  BY DEF TypeInv, TypeOK, StoredInv, Signature
<1>2. /\ UNCHANGED <<life, desired, epoch, bundle, reads, handshake, saved, link>>
      /\ sock[s].pc = "run" /\ sock[s].up # <<>> /\ f.kind = "health"
  BY DEF SockHealth
<1>3. /\ \A t \in Sessions : t # s => sock'[t] = sock[t]
      /\ sock'[s].up = Tail(sock[s].up) /\ sock'[s].sent \in {sock[s].sent, bundle}
  BY <1>1, SMTT(20) DEF SockHealth, Sock
<1>4. \A t \in Sessions :
        /\ Frames(sock'[t].up) \subseteq Frames(sock[t].up)
        /\ sock'[t].pc \in Alive => sock[t].pc \in Alive
        /\ sock'[t].pc = "run" => \/ sock[t].pc = "run" /\ sock'[t].sent = sock[t].sent
                                  \/ sock[t].pc \in Alive /\ sock'[t].sent = bundle
  BY <1>2, <1>3, HandledSock, Zenon
<1>5. f \in HealthFrame /\ Truthful(f, saved.id, life)
  BY <1>1, <1>2, HeadFrame, HandledFrame
<1> DEFINE q == RecordHealth(row, f)
<1>6. q \in Row /\ TrueRow(q, saved.id, life, desired) /\ (q.status = "applied" => row.status = "applied")
  <2>1. q \in Row
    BY <1>1, <1>5, HealthRow, Zenon
  <2> QED
    BY <1>1, <1>5, <2>1, HealthTrue, Zenon
<1>7. \/ UNCHANGED <<row, inbox>>
      \/ SendBundle(s, q, bundle)
      \/ row' = q /\ inbox' = inbox
  BY DEF SockHealth
<1> HIDE DEF q, f
<1>8. /\ Frames(inbox') \subseteq Frames(inbox) \cup {bundle}
      /\ TrueRow(row', saved.id, life, desired) /\ (row'.status = "applied" => row.status = "applied")
  BY <1>1, <1>6, <1>7, SendEffect, SMTT(20)
<1> QED
  BY <1>2, <1>4, <1>8, Zenon DEF SockEffect, Alive

\* handle_agent_frame on policy_ack: what counts answers the bundle sent last.
LEMMA AckEffect ==
  ASSUME TypeInv, StoredInv, NEW s \in Sessions, SockAck(s)
  PROVE  SockEffect(s)
<1> DEFINE f == Head(sock[s].up)
<1>1. /\ row \in Row /\ sock \in [Sessions -> Sock] /\ TrueRow(row, saved.id, life, desired)
      /\ saved.id \in Identity /\ desired \in Nat /\ life \in Nat /\ sock[s] \in Sock
      /\ Sane(saved.id, life, desired)
  BY DEF TypeInv, TypeOK, StoredInv, Received, Signature
<1>2. /\ UNCHANGED <<life, desired, epoch, bundle, reads, handshake, saved, link>>
      /\ sock[s].pc = "run" /\ sock[s].up # <<>> /\ f.kind = "ack"
  BY DEF SockAck
<1>3. /\ \A t \in Sessions : t # s => sock'[t] = sock[t]
      /\ sock'[s].up = Tail(sock[s].up) /\ sock'[s].sent \in {sock[s].sent, bundle}
  BY <1>1 DEF SockAck, Sock
<1>4. \A t \in Sessions :
        /\ Frames(sock'[t].up) \subseteq Frames(sock[t].up)
        /\ sock'[t].pc \in Alive => sock[t].pc \in Alive
        /\ sock'[t].pc = "run" => \/ sock[t].pc = "run" /\ sock'[t].sent = sock[t].sent
                                  \/ sock[t].pc \in Alive /\ sock'[t].sent = bundle
  BY <1>2, <1>3, HandledSock, Zenon
<1>5. f \in AckFrame /\ Truthful(f, saved.id, life) /\ Frames(sock[s].up) # {}
  BY <1>1, <1>2, HeadFrame, HandledFrame, SMTT(20)
<1>6. sock[s].sent = f.id => f.id.life = life
  BY <1>2, Zenon DEF StoredInv, Offered, Current
<1>7. \/ SendBundle(s, row, bundle)
      \/ row' = row /\ inbox' = inbox
      \/ row' = RecordAck(row, f) /\ inbox' = inbox /\ sock[s].sent = f.id
  BY DEF SockAck
<1> HIDE DEF f
<1>8. CASE SendBundle(s, row, bundle)
  <2>1. /\ Frames(inbox') \subseteq Frames(inbox) \cup {bundle}
        /\ TrueRow(row', saved.id, life, desired) /\ (row'.status = "applied" => row.status = "applied")
    BY <1>1, <1>8, SendEffect
  <2> QED
    BY <1>2, <1>4, <2>1, Zenon DEF SockEffect, Alive
<1>9. CASE row' = row /\ inbox' = inbox
  BY <1>1, <1>2, <1>4, <1>9, Zenon DEF SockEffect
<1>10. CASE row' = RecordAck(row, f) /\ inbox' = inbox /\ sock[s].sent = f.id
  <2>1. TrueRow(row', saved.id, life, desired)
    BY <1>1, <1>5, <1>6, <1>10, AckTrue
  <2> QED
    BY <1>2, <1>4, <1>5, <1>10, <2>1, ZenonT(30) DEF SockEffect
<1> QED
  BY <1>7, <1>8, <1>9, <1>10

\* A session that ends, and the row that says so.
LEMMA EndEffect ==
  ASSUME TypeInv, StoredInv, NEW s \in Sessions, SockBreak(s) \/ SockOffline(s)
  PROVE  SockEffect(s)
<1>1. row \in Row /\ saved.id \in Identity /\ desired \in Nat /\ sock \in [Sessions -> Sock]
  BY DEF TypeInv, TypeOK, Signature
<1>2. /\ UNCHANGED <<life, desired, epoch, bundle, reads, handshake, saved>>
      /\ link' = link \/ link' = NoLink
      /\ inbox' = inbox \/ inbox' = <<>>
      /\ row' \in {row, MarkDisconnected(row, s)}
  BY SMTT(20) DEF SockBreak, SockOffline, agentVars, dbVars
<1>3. /\ \A t \in Sessions : t # s => sock'[t] = sock[t]
      /\ sock'[s].pc \in {"closing", "done"}
      /\ sock'[s].up = sock[s].up \/ sock'[s].up = <<>>
  <2>1. CASE SockBreak(s)
    BY <1>1, <2>1 DEF SockBreak, NoSock
  <2>2. CASE SockOffline(s)
    BY <1>1, <2>2, SMTT(20) DEF SockOffline, Sock
  <2> QED
    BY <2>1, <2>2
<1>4. \A t \in Sessions :
        /\ Frames(sock'[t].up) \subseteq Frames(sock[t].up)
        /\ sock'[t].pc \in Alive => sock[t].pc \in Alive
        /\ sock'[t].pc = "run" => sock[t].pc = "run" /\ sock'[t].sent = sock[t].sent
  BY <1>3, FramesOf DEF Alive
<1>5. TrueRow(row', saved.id, life, desired) /\ (row'.status = "applied" => row.status = "applied")
  BY <1>1, <1>2, PlainRows, Zenon DEF StoredInv
<1>6. Frames(inbox') \subseteq Frames(inbox)
  BY <1>2, FramesOf
<1> QED
  BY <1>2, <1>4, <1>5, <1>6, Zenon DEF SockEffect

\* Every step of a session task keeps the invariant.
LEMMA SockStored ==
  ASSUME TypeInv, StoredInv, NEW s \in Sessions, SockStep(s)
  PROVE  StoredInv'
<1>1. SockEffect(s)
  BY StartEffect, PushEffect, HealthEffect, AckEffect, EndEffect DEF SockStep
<1> QED
  BY <1>1, SockEffectStored

\* The Agent sends frame f; it stores nothing, or the snapshot it was sent.
AgentEffect(f) ==
  /\ UNCHANGED <<life, desired, row, epoch, bundle, reads, handshake>>
  /\ link'.epoch = link.epoch /\ Frames(inbox') \subseteq Frames(inbox)
  /\ \/ saved'.id = saved.id
     \/ saved'.id \in Frames(inbox) /\ saved.id.rev <= saved'.id.rev
  /\ f \in Frame /\ SendUp(f) /\ Truthful(f, saved'.id, life)

\* Such a step keeps the invariant: a snapshot that replaces the stored one is
\* of this database if anything was said or recorded of the old one.
LEMMA AgentEffectStored ==
  ASSUME TypeInv, TypeInv', StoredInv, NEW f, AgentEffect(f)
  PROVE  StoredInv'
<1>0. /\ life' = life /\ desired' = desired /\ epoch' = epoch /\ bundle' = bundle
      /\ reads' = reads /\ handshake' = handshake /\ row' = row /\ link'.epoch = link.epoch
  BY DEF AgentEffect
<1>1. f \in Frame /\ SendUp(f)
  BY DEF AgentEffect
<1>2. \A t \in Sessions :
        /\ sock'[t].pc = sock[t].pc /\ sock'[t].sent = sock[t].sent
        /\ Frames(sock'[t].up) \subseteq Frames(sock[t].up) \cup {f}
        /\ link.epoch # epoch => sock'[t].up = sock[t].up
  <2>1. \A t \in Sessions : sock'[t].pc = sock[t].pc /\ sock'[t].sent = sock[t].sent
    BY <1>1, SendUpSock, BoundsAssumption, Zenon
  <2>2. ASSUME NEW t \in Sessions
        PROVE  /\ sock'[t].up = sock[t].up \/ sock'[t].up = Append(sock[t].up, f)
               /\ link.epoch # epoch => sock'[t].up = sock[t].up
    BY <1>1, Zenon DEF SendUp, TypeInv, TypeOK, Sock
  <2>3. ASSUME NEW t \in Sessions
        PROVE  Frames(sock'[t].up) \subseteq Frames(sock[t].up) \cup {f}
    <3>1. sock[t].up \in Seq(Frame)
      BY Zenon DEF TypeInv, TypeOK, Sock
    <3>2. CASE sock'[t].up = sock[t].up
      BY <3>2
    <3>3. CASE sock'[t].up = Append(sock[t].up, f)
      <4>1. \A q \in Seq(Frame), x \in Frame : Frames(Append(q, x)) \subseteq Frames(q) \cup {x}
        BY FramesOf
      <4> QED
        BY <1>1, <3>1, <3>3, <4>1, Zenon
    <3> QED
      BY <2>2, <3>2, <3>3, Zenon
  <2> QED
    BY <2>1, <2>2, <2>3, Zenon
<1>3. Offered'
  BY <1>0, <1>2, SMTT(20) DEF StoredInv, Offered
<1>4. Received'
  BY <1>0, Zenon DEF StoredInv, Received, AgentEffect
<1>5. SameLife'
  BY <1>0, <1>2, SMTT(20) DEF StoredInv, SameLife, AgentEffect
<1>6. /\ saved.id.rev \in Nat /\ saved'.id.rev \in Nat /\ saved.id.rev <= saved'.id.rev
  <2>1. saved \in Signature /\ saved' \in Signature
    BY Zenon DEF TypeInv, TypeOK
  <2>2. saved.id.rev \in Nat /\ saved'.id.rev \in Nat
    BY <2>1 DEF Signature, Identity
  <2>3. saved'.id = saved.id \/ saved.id.rev <= saved'.id.rev
    BY SMTT(20) DEF AgentEffect
  <2> QED
    BY <2>2, <2>3
<1>7. (row.status = "applied" \/ \E t \in Sessions : Frames(sock[t].up) # {})
        => (saved.id.life = life => saved'.id.life = life)
  BY Zenon DEF StoredInv, SameLife, AgentEffect
<1>8. Reported'
  <2>1. ASSUME NEW t \in Sessions, NEW g \in Frames(sock[t].up)
        PROVE  Truthful(g, saved'.id, life)
    <3>1. g \in Frame
      <4>1. sock[t].up \in Seq(Frame)
        BY Zenon DEF TypeInv, TypeOK, Sock
      <4>2. PICK i \in DOMAIN sock[t].up : g = sock[t].up[i]
        BY DEF Frames
      <4> QED
        BY <4>1, <4>2
    <3>2. g.kind = "health" => g.rev \in Nat
      BY <3>1 DEF Frame, HealthFrame, AckFrame
    <3>3. g.kind = "ack" => g.id.rev \in Nat
      BY <3>1 DEF Frame, HealthFrame, AckFrame, Identity
    <3>4. Truthful(g, saved.id, life)
      BY DEF StoredInv, Reported
    <3>5. saved.id.life = life => saved'.id.life = life
      BY <1>7
    <3> QED
      BY <1>6, <3>2, <3>3, <3>4, <3>5 DEF Truthful
  <2> QED
    BY <1>0, <1>2, <2>1, SMTT(20) DEF Reported, AgentEffect
<1>9. TrueRow(row', saved'.id, life', desired')
  <2>1. row.agentApplied \in Nat /\ desired \in Nat
    BY DEF TypeInv, TypeOK, Row
  <2>2. Sane(saved'.id, life, desired)
    BY <1>0, <1>4 DEF Received
  <2> QED
    BY <1>0, <1>6, <1>7, <2>1, <2>2 DEF StoredInv, TrueRow, Sane
<1> QED
  BY <1>3, <1>4, <1>5, <1>8, <1>9, SMTT(20) DEF StoredInv

\* A health frame reports the stored revision.
LEMMA HealthIsTruthful ==
  ASSUME saved.id \in Identity
  PROVE  \A l : Truthful(Health, saved.id, l)
<1>1. Health.kind = "health" /\ Health.rev = saved.id.rev
  BY DEF Health
<1>2. saved.id.rev <= saved.id.rev
  BY DEF Identity
<1> QED
  BY <1>1, <1>2 DEF Truthful

\* An ack that is not a failure was persisted first.
LEMMA AckIsTruthful ==
  ASSUME NEW sig \in Signature, NEW id, sig.status # "failed" => id = sig.id
  PROVE  \A l : Truthful(Ack(sig), id, l)
<1>1. Ack(sig).kind = "ack" /\ Ack(sig).status = sig.status /\ Ack(sig).id = sig.id
  BY DEF Ack
<1>2. sig.id.rev \in Nat /\ sig.id.rev <= sig.id.rev
  BY DEF Signature, Identity
<1>3. CASE sig.status = "failed"
  BY <1>1, <1>3 DEF Truthful
<1>4. CASE sig.status # "failed"
  BY <1>1, <1>2, <1>4 DEF Truthful
<1> QED
  BY <1>3, <1>4

\* process_snapshot and reconcile_saved: whatever is not persisted failed, and
\* what is persisted is not a lower revision than the one it replaces.
LEMMA OutcomeIsTrue ==
  ASSUME NEW id \in Identity, saved.id \in Identity, NEW out \in Outcome(id)
  PROVE  /\ out.persisted \/ out.status = "failed"
         /\ out.persisted => saved.id.rev <= id.rev
<1>1. CASE Refused(id)
  BY <1>1 DEF Outcome
<1>2. CASE ~Refused(id)
  <2>1. saved.id.rev <= id.rev
    BY <1>2 DEF Refused, Identity
  <2>2. out.persisted \/ out.status = "failed"
    <3>1. CASE ApplyFaults
      <4>1. \/ out \in [status : AckStatus, persisted : {TRUE}]
            \/ out = [status |-> "failed", persisted |-> FALSE]
        BY <1>2, <3>1, Zenon DEF Outcome
      <4>2. CASE out \in [status : AckStatus, persisted : {TRUE}]
        BY <4>2, Zenon
      <4>3. CASE out = [status |-> "failed", persisted |-> FALSE]
        BY <4>3
      <4> QED
        BY <4>1, <4>2, <4>3, Zenon
    <3>2. CASE ~ApplyFaults
      BY <1>2, <3>2 DEF Outcome
    <3> QED
      BY <3>1, <3>2
  <2> QED
    BY <2>1, <2>2
<1> QED
  BY <1>1, <1>2

\* Every step of the Agent is of that kind.
LEMMA AgentIsEffect ==
  ASSUME TypeInv, Agent
  PROVE  \E f : AgentEffect(f)
<1>0. inbox \in Seq(Identity) /\ link \in Link /\ saved \in Signature /\ saved.id \in Identity
  BY DEF TypeInv, TypeOK, Signature
<1>1. CASE AgentGreet \/ AgentHeartbeat
  <2>1. /\ UNCHANGED <<life, desired, row, epoch, bundle, reads, handshake, saved, inbox>>
        /\ link'.epoch = link.epoch /\ SendUp(Health)
    BY <1>0, <1>1 DEF AgentGreet, AgentHeartbeat, dbVars, agentVars, Link
  <2>2. Health \in Frame
    BY AgentFrames
  <2>3. AgentEffect(Health)
    BY <1>0, <2>1, <2>2, HealthIsTruthful, Zenon DEF AgentEffect
  <2> QED
    BY <2>3
<1>2. CASE AgentSnapshot
  <2> DEFINE sig(out) == [id |-> Head(inbox), status |-> out.status]
  <2>1. PICK out \in Outcome(Head(inbox)) :
          SendUp(Ack(sig(out))) /\ saved' = IF out.persisted THEN sig(out) ELSE saved
    BY <1>2, Zenon DEF AgentSnapshot
  <2>2. /\ UNCHANGED <<life, desired, row, epoch, bundle, reads, handshake, link>>
        /\ inbox # <<>> /\ inbox' = Tail(inbox)
    BY <1>2 DEF AgentSnapshot, dbVars
  <2>3. Head(inbox) \in Identity
    BY <1>0, <2>2
  <2>4. Head(inbox) \in Frames(inbox) /\ Frames(inbox') \subseteq Frames(inbox)
    BY <1>0, <2>2, FramesOf, Zenon
  <2>5. sig(out) \in Signature /\ sig(out).status # "none"
    BY <2>3, Outcomes, Zenon DEF Signature, AckStatus
  <2>6. /\ out.persisted \/ out.status = "failed"
        /\ out.persisted => saved.id.rev <= Head(inbox).rev
    BY <1>0, <2>3, OutcomeIsTrue, Zenon
  <2>7. /\ sig(out).status # "failed" => saved'.id = sig(out).id
        /\ saved'.id = saved.id \/ (saved'.id = Head(inbox) /\ saved.id.rev <= Head(inbox).rev)
    BY <2>1, <2>6
  <2>8. Ack(sig(out)) \in Frame
    BY <2>5, AgentFrames, Zenon
  <2>9. Truthful(Ack(sig(out)), saved'.id, life)
    BY <2>5, <2>7, AckIsTruthful, Zenon
  <2>10. AgentEffect(Ack(sig(out)))
    BY <2>1, <2>2, <2>4, <2>7, <2>8, <2>9, Zenon DEF AgentEffect
  <2> QED
    BY <2>10
<1>3. CASE AgentReconcile
  <2> DEFINE sig(out) == [id |-> saved.id, status |-> out.status]
  <2>1. PICK out \in Outcome(saved.id) \cup {[status |-> saved.status, persisted |-> TRUE]} :
          SendUp(Ack(sig(out))) /\ saved' = IF out.persisted THEN sig(out) ELSE saved
    BY <1>3, Zenon DEF AgentReconcile
  <2>2. UNCHANGED <<life, desired, row, epoch, bundle, reads, handshake, link, inbox>>
    BY <1>3 DEF AgentReconcile, dbVars
  <2>3. saved.status # "none"
    BY <1>3 DEF AgentReconcile, TypeInv, AgentSide
  <2>4. out.status \in AckStatus
    BY <1>0, <2>1, <2>3, Outcomes, SMTT(20) DEF Signature
  <2>5. sig(out) \in Signature /\ sig(out).status # "none"
    BY <1>0, <2>4 DEF Signature, AckStatus
  <2>6. saved'.id = saved.id
    BY <2>1
  <2>7. Ack(sig(out)) \in Frame
    BY <2>5, AgentFrames, Zenon
  <2>8. Truthful(Ack(sig(out)), saved'.id, life)
    BY <2>5, <2>6, AckIsTruthful, Zenon
  <2>9. AgentEffect(Ack(sig(out)))
    BY <2>1, <2>2, <2>6, <2>7, <2>8, Zenon DEF AgentEffect
  <2> QED
    BY <2>9
<1> QED
  BY <1>1, <1>2, <1>3 DEF Agent

\* The operator, the refresh tasks and an upgrade request before it registers:
\* nothing is sent, stored or recorded as applied.
OfferEffect ==
  /\ UNCHANGED <<life, epoch, sock, saved, link, inbox>>
  /\ desired <= desired'
  /\ \/ UNCHANGED <<desired, row>>
     \/ row' = Republished(row)

\* What such a step leaves of the invariant besides Offered.
LEMMA OfferEffectStored ==
  ASSUME TypeInv, TypeInv', StoredInv, OfferEffect, Offered'
  PROVE  StoredInv'
<1>0. /\ life' = life /\ epoch' = epoch /\ sock' = sock /\ saved' = saved
      /\ link' = link /\ inbox' = inbox
  BY SMTT(20) DEF OfferEffect
<1>1. /\ life \in Nat /\ desired \in Nat /\ desired' \in Nat /\ desired <= desired'
      /\ saved.id \in Identity /\ row \in Row
  BY DEF OfferEffect, TypeInv, TypeOK, Signature
<1>2. \A x \in Identity : Sane(x, life, desired) => Sane(x, life, desired')
  BY <1>1, Identities, Zenon
<1>3. \A x \in Frames(inbox) : x \in Identity
  <2>1. inbox \in Seq(Identity)
    BY DEF TypeInv, TypeOK
  <2> QED
    BY <2>1 DEF Frames
<1>4. Received'
  BY <1>0, <1>1, <1>2, <1>3, Zenon DEF StoredInv, Received
<1>5. row'.status = "applied" => row.status = "applied"
  BY <1>1, PlainRows DEF OfferEffect, StoredInv
<1>6. SameLife'
  BY <1>0, <1>5, Zenon DEF StoredInv, SameLife
<1>7. Reported'
  BY <1>0, Zenon DEF StoredInv, Reported
<1>8. TrueRow(row', saved'.id, life', desired')
  <2>1. CASE UNCHANGED <<desired, row>>
    BY <1>0, <2>1, Zenon DEF StoredInv
  <2>2. CASE row' = Republished(row)
    BY <1>0, <1>1, <2>2, PlainRows, Zenon DEF StoredInv
  <2> QED
    BY <2>1, <2>2 DEF OfferEffect
<1> QED
  BY <1>4, <1>6, <1>7, <1>8 DEF StoredInv

\* refresh_gateway publishes a revision of this database, and there is a bundle
\* afterwards.
LEMMA PublishedIsCurrent ==
  ASSUME TypeInv, Offered, NEW rev \in 0..desired, NEW force \in BOOLEAN
  PROVE  Published(rev, force).gen > 0 /\ Current(Published(rev, force), life, desired)
<1>1. bundle \in Identity /\ desired \in Nat
  BY SMTT(20) DEF TypeInv, TypeOK
<1>2. CASE bundle.gen > 0 /\ (bundle.rev > rev \/ (bundle.rev = rev /\ ~force))
  BY <1>2 DEF Published, Offered
<1>3. CASE ~(bundle.gen > 0 /\ (bundle.rev > rev \/ (bundle.rev = rev /\ ~force)))
  <2>1. Published(rev, force) = [epoch |-> epoch, life |-> life, rev |-> rev, gen |-> bundle.gen + 1]
    BY <1>3 DEF Published
  <2>2. bundle.gen + 1 > 0 /\ rev <= desired
    BY <1>1 DEF Identity
  <2> QED
    BY <2>1, <2>2 DEF Current
<1> QED
  BY <1>2, <1>3

\* A revision that only grows keeps what is on offer on offer.
LEMMA GrowingOffer ==
  ASSUME TypeInv, TypeInv', Offered, desired <= desired',
         UNCHANGED <<life, bundle, sock, reads, handshake>>
  PROVE  Offered'
<1>1. /\ life \in Nat /\ desired \in Nat /\ desired' \in Nat /\ bundle \in Identity
      /\ \A s \in Sessions : sock[s].sent \in Identity
  <2>1. life \in Nat /\ desired \in Nat /\ desired' \in Nat
    BY DEF TypeInv, TypeOK
  <2> QED
    BY <2>1, Zenon DEF TypeInv, TypeOK, Sock
<1>2. \A x \in Identity : Current(x, life, desired) => Current(x, life, desired')
  BY <1>1, Identities, Zenon
<1>3. handshake.rev \in Nat
  BY DEF TypeInv, TypeOK, Handshake
<1>4. reads \subseteq 0..desired' /\ handshake.rev <= desired'
  BY <1>1, <1>3 DEF Offered
<1>5. /\ life' = life /\ bundle' = bundle /\ sock' = sock
      /\ reads' = reads /\ handshake' = handshake
  OBVIOUS
<1> QED
  BY <1>1, <1>2, <1>4, <1>5, ZenonT(30) DEF Offered

\* A new bundle that is on offer keeps the rest.
LEMMA NewOffer ==
  ASSUME TypeInv, Offered, UNCHANGED <<life, desired, sock>>,
         bundle'.gen > 0, Current(bundle', life, desired),
         reads' \subseteq reads, handshake'.rev = handshake.rev
  PROVE  Offered'
  BY DEF Offered

\* The operator's steps, the refreshes and the upgrade.
LEMMA OfferStored ==
  ASSUME TypeInv, TypeInv', StoredInv,
         Operator \/ Refreshing \/ Upgrade \/ UpgradePublish
  PROVE  StoredInv'
<1>0. Offered /\ desired \in Nat /\ desired <= desired /\ row.agentApplied \in Nat
  BY SMTT(20) DEF StoredInv, TypeInv, TypeOK, Row
<1>1. CASE Mutate \/ Republish
  <2>1. /\ UNCHANGED <<life, epoch, bundle, sock, reads, handshake, saved, link, inbox>>
        /\ row' = Republished(row)
    BY <1>1 DEF Mutate, Republish, agentVars
  <2>2. desired' = desired + 1 \/ desired' = Larger(desired, row.agentApplied) + 1
    BY <1>1 DEF Mutate, Republish
  <2>3. desired <= desired'
    BY <1>0, <2>2 DEF Larger
  <2> QED
    BY <1>0, <2>1, <2>3, GrowingOffer, OfferEffectStored, SMTT(20) DEF OfferEffect
<1>2. CASE ScheduleRefresh \/ Unlock \/ Resume
  <2>1. /\ UNCHANGED <<life, epoch, bundle, sock, reads, handshake, saved, link, inbox>>
        /\ UNCHANGED <<desired, row>>
    BY <1>2, Zenon DEF ScheduleRefresh, Unlock, Resume, dbVars, hubVars, agentVars
  <2> QED
    BY <1>0, <2>1, GrowingOffer, OfferEffectStored DEF OfferEffect
<1>3. CASE RefreshRead
  <2>1. /\ UNCHANGED <<life, epoch, bundle, sock, handshake, saved, link, inbox, desired, row>>
        /\ reads' = reads \cup {desired}
    BY <1>3, SMTT(20) DEF RefreshRead, dbVars, agentVars
  <2>2. Offered'
    BY <1>0, <2>1 DEF Offered
  <2> QED
    BY <1>0, <2>1, <2>2, OfferEffectStored DEF OfferEffect
<1>4. CASE RefreshPublish
  <2>1. PICK rev \in reads : bundle' = Published(rev, TRUE) /\ reads' = reads \ {rev}
    BY <1>4, Zenon DEF RefreshPublish
  <2>2. UNCHANGED <<life, epoch, sock, handshake, saved, link, inbox, desired, row>>
    BY <1>4 DEF RefreshPublish, dbVars, agentVars
  <2>3. rev \in 0..desired
    BY <1>0 DEF Offered
  <2>4. bundle'.gen > 0 /\ Current(bundle', life, desired)
    BY <1>0, <2>1, <2>3, PublishedIsCurrent, Zenon
  <2>5. Offered'
    BY <1>0, <2>1, <2>2, <2>4, NewOffer, ZenonT(30)
  <2> QED
    BY <1>0, <2>2, <2>5, OfferEffectStored DEF OfferEffect
<1>5. CASE Upgrade
  <2>1. /\ UNCHANGED <<life, epoch, bundle, sock, reads, saved, link, inbox, desired, row>>
        /\ handshake' = [stage |-> "read", rev |-> desired]
    BY <1>5, SMTT(20) DEF Upgrade, dbVars, agentVars
  <2>2. Offered'
    BY <1>0, <2>1, SMTT(20) DEF Offered
  <2> QED
    BY <1>0, <2>1, <2>2, OfferEffectStored, SMTT(20) DEF OfferEffect
<1>6. CASE UpgradePublish
  <2>1. PICK e \in BOOLEAN : bundle' = Published(handshake.rev, e)
    BY <1>6 DEF UpgradePublish
  <2>2. /\ UNCHANGED <<life, epoch, sock, reads, saved, link, inbox, desired, row>>
        /\ handshake'.rev = handshake.rev
    BY <1>6 DEF UpgradePublish, dbVars, agentVars, TypeInv, TypeOK, Handshake
  <2>3. handshake.rev \in 0..desired
    BY <1>0, SMTT(20) DEF Offered, TypeInv, TypeOK, Handshake
  <2>4. bundle'.gen > 0 /\ Current(bundle', life, desired)
    BY <1>0, <2>1, <2>3, PublishedIsCurrent
  <2>5. Offered'
    BY <1>0, <2>2, <2>4, NewOffer
  <2> QED
    BY <1>0, <2>2, <2>5, OfferEffectStored DEF OfferEffect
<1> QED
  BY <1>1, <1>2, <1>3, <1>4, <1>5, <1>6, SMTT(20) DEF Operator, Refreshing

\* The Agent's socket is gone or new: its inbox is empty.
LEMMA RelinkStored ==
  ASSUME TypeInv, StoredInv, LinkFail \/ LinkDead \/ AgentRestart \/ Register
  PROVE  StoredInv'
<1>1. /\ UNCHANGED <<life, desired, row, epoch, bundle, reads, saved>>
      /\ inbox' = <<>> /\ handshake' \in {handshake, Idle}
  BY DEF LinkFail, LinkDead, AgentRestart, Register, dbVars, hubVars
<1>2. Frames(inbox') = {}
  BY <1>1, FramesOf
<1>3. \A t \in Sessions :
        /\ Frames(sock'[t].up) \subseteq Frames(sock[t].up)
        /\ sock'[t].pc \in Alive => bundle.gen > 0
        /\ sock'[t].pc = "run" => sock[t].pc = "run" /\ sock'[t].sent = sock[t].sent
  <2>1. CASE LinkFail \/ LinkDead \/ AgentRestart
    <3>1. sock' = sock
      BY <2>1 DEF LinkFail, LinkDead, AgentRestart, hubVars
    <3> QED
      BY <3>1, ZenonT(30) DEF StoredInv, Offered
  <2>2. CASE Register
    <3> DEFINE n == nextSession
    <3>1. /\ n \in Sessions /\ bundle.gen > 0
          /\ sock' = [sock EXCEPT ![n] = [NoSock EXCEPT !.pc = "start", !.seen = bundle.gen]]
      BY <2>2 DEF Register, StoredInv, Offered, TypeInv, TypeOK, Sessions
    <3>2. /\ sock'[n].up = <<>> /\ sock'[n].pc = "start"
          /\ \A t \in Sessions : t # n => sock'[t] = sock[t]
      BY <3>1 DEF TypeInv, TypeOK, NoSock
    <3> HIDE DEF n
    <3> QED
      BY <3>1, <3>2, FramesOf DEF StoredInv, Offered
  <2> QED
    BY <2>1, <2>2
<1>4. Offered'
  <2>1. handshake'.rev <= desired /\ (handshake'.stage = "published" => bundle.gen > 0)
    <3>1. desired \in Nat /\ Idle.rev = 0 /\ Idle.stage = "idle"
      BY DEF TypeInv, TypeOK, Idle
    <3>2. handshake' = handshake \/ handshake' = Idle
      BY <1>1
    <3>3. handshake.rev <= desired /\ (handshake.stage = "published" => bundle.gen > 0)
      BY Zenon DEF StoredInv, Offered
    <3>4. 0 <= desired
      BY <3>1
    <3> QED
      BY <3>1, <3>2, <3>3, <3>4, Zenon
  <2>2. /\ life' = life /\ desired' = desired /\ bundle' = bundle /\ reads' = reads
    BY <1>1
  <2> QED
    BY <1>3, <2>1, <2>2, Zenon DEF StoredInv, Offered
<1>5. Received' /\ SameLife'
  BY <1>1, <1>2, Zenon DEF StoredInv, Received, SameLife
<1>6. Reported' /\ TrueRow(row, saved.id, life, desired)'
  BY <1>1, <1>3, Zenon DEF StoredInv, Reported
<1> QED
  BY <1>4, <1>5, <1>6 DEF StoredInv

\* After a restart nothing is on offer, and no session has anything to read.
\* The Agent's socket is of an earlier process; if the database was re-created,
\* so is all it holds.
LEMMA RestartStored ==
  ASSUME TypeInv, TypeInv', StoredInv, CollectorRestart \/ DatabaseReset
  PROVE  StoredInv'
<1>1. /\ epoch' = epoch + 1 /\ bundle' = NoIdentity /\ reads' = {} /\ handshake' = Idle
      /\ sock' = [s \in Sessions |-> NoSock] /\ UNCHANGED <<saved, link, inbox>>
  BY DEF CollectorRestart, DatabaseReset, RestartHub, agentVars
<1>2. /\ life \in Nat /\ desired \in Nat /\ desired' \in Nat /\ saved.id \in Identity
      /\ link.epoch \in Nat /\ epoch \in Nat /\ link.epoch <= epoch
  BY DEF TypeInv, TypeOK, AgentSide, Signature, Link
<1>3. \A s \in Sessions : sock'[s].pc = "none" /\ Frames(sock'[s].up) = {}
  <2>1. ASSUME NEW s \in Sessions PROVE sock'[s] = NoSock
    BY <1>1, SMTT(20)
  <2> QED
    BY <2>1, FramesOf DEF NoSock
<1>4. Offered'
  <2>1. bundle'.gen = 0 /\ handshake'.rev = 0 /\ handshake'.stage = "idle"
    BY <1>1 DEF NoIdentity, Idle
  <2> QED
    BY <1>1, <1>2, <1>3, <2>1 DEF Offered, Alive
<1>5. Reported'
  BY <1>3, Zenon DEF Reported
<1>6. link'.epoch # epoch'
  BY <1>1, <1>2
<1>7. CASE CollectorRestart
  <2>1. UNCHANGED <<life, desired, row>>
    BY <1>7 DEF CollectorRestart, dbVars
  <2>2. Received' /\ TrueRow(row, saved.id, life, desired)'
    BY <1>1, <2>1, Zenon DEF StoredInv, Received
  <2>3. SameLife'
    BY <1>1, <1>3, <1>6, <2>1, Zenon DEF StoredInv, SameLife
  <2> QED
    BY <1>4, <1>5, <2>2, <2>3, SMTT(20) DEF StoredInv
<1>8. CASE DatabaseReset
  <2>1. life' = life + 1 /\ desired' = 0 /\ row' = EmptyRow
    BY <1>8 DEF DatabaseReset
  <2>2. \A x \in Identity : Sane(x, life, desired) => Sane(x, life', desired')
    BY <1>2, <2>1, Identities
  <2>3. \A x \in Frames(inbox) : x \in Identity
    <3>1. inbox \in Seq(Identity)
      BY DEF TypeInv, TypeOK
    <3> QED
      BY <3>1 DEF Frames
  <2>4. Received'
    BY <1>1, <1>2, <2>2, <2>3, ZenonT(30) DEF StoredInv, Received
  <2>5. row'.status # "applied" /\ row'.applied = 0 /\ row'.agentApplied = 0
    BY <2>1 DEF EmptyRow
  <2>6. SameLife'
    BY <1>3, <1>6, <2>5, Zenon DEF SameLife
  <2>7. TrueRow(row, saved.id, life, desired)'
    <3>1. saved'.id.rev \in Nat
      BY <1>1, <1>2 DEF Identity
    <3> QED
      BY <2>5, <3>1 DEF TrueRow
  <2> QED
    BY <1>4, <1>5, <2>4, <2>6, <2>7 DEF StoredInv
<1> QED
  BY <1>7, <1>8

\* In the beginning nothing is offered, stored or recorded.
LEMMA InitStored == BoundsAssumption /\ Init => StoredInv
<1> SUFFICES ASSUME BoundsAssumption, Init PROVE StoredInv
  OBVIOUS
<1>1. /\ life = 1 /\ desired = 0 /\ row = EmptyRow /\ bundle = NoIdentity /\ reads = {}
      /\ handshake = Idle /\ saved = NoSignature /\ inbox = <<>>
  BY SMTT(20) DEF Init
<1>2. \A s \in Sessions : sock[s].pc = "none" /\ Frames(sock[s].up) = {}
  <2>1. ASSUME NEW s \in Sessions PROVE sock[s] = NoSock
    BY DEF Init
  <2> QED
    BY <2>1, FramesOf DEF NoSock
<1>3. Frames(inbox) = {}
  BY <1>1, FramesOf, SMTT(20)
<1>4. Offered
  BY <1>1, <1>2 DEF Offered, NoIdentity, Idle, Alive
<1>5. Received /\ SameLife
  BY <1>1, <1>3, SMTT(20) DEF Received, SameLife, Sane, NoSignature, NoIdentity
<1>6. Reported
  BY <1>2, Zenon DEF Reported
<1>7. TrueRow(row, saved.id, life, desired)
  BY <1>1, SMTT(20) DEF TrueRow, EmptyRow, NoSignature, NoIdentity
<1> QED
  BY <1>4, <1>5, <1>6, <1>7 DEF StoredInv

\* Every step keeps it.
LEMMA StepStored ==
  ASSUME BoundsAssumption, TypeInv, Inv, StoredInv, [Next]_vars
  PROVE  StoredInv'
<1>0. TypeInv'
  BY Step
<1>1. CASE Operator \/ Refreshing \/ Upgrade \/ UpgradePublish
  BY <1>0, <1>1, OfferStored
<1>2. CASE Agent
  BY <1>0, <1>2, AgentIsEffect, AgentEffectStored
<1>3. CASE LinkFail \/ LinkDead \/ AgentRestart \/ Register
  BY <1>3, RelinkStored
<1>4. CASE CollectorRestart \/ DatabaseReset
  BY <1>0, <1>4, RestartStored
<1>5. ASSUME NEW s \in Sessions, SockStep(s) PROVE StoredInv'
  BY <1>5, SockStored
<1>6. CASE UNCHANGED vars
  BY <1>6, Zenon DEF vars, dbVars, hubVars, agentVars, StoredInv, Offered, Received, SameLife, Reported
<1> QED
  BY <1>1, <1>2, <1>3, <1>4, <1>5, <1>6 DEF Next, Connecting, Failure

\* "Applied" is shown only while the Agent's state file holds the desired
\* revision of this very database, and the revisions the row records never run
\* ahead of the file: process_snapshot persists before it acknowledges,
\* handle_agent_frame takes only the answer to the last bundle sent, and
\* record_health and record_ack fall back to "pending".
THEOREM AppliedWasStored == Spec => []AppliedIsStored
<1>1. Init => StoredInv
  BY BoundsAssumption, InitStored
<1>2. TypeInv /\ Inv /\ StoredInv /\ [Next]_vars => StoredInv'
  BY BoundsAssumption, StepStored
<1>3. TypeInv /\ StoredInv => AppliedIsStored
  <2>1. SUFFICES ASSUME TypeInv, StoredInv PROVE AppliedIsStored
    OBVIOUS
  <2>2. row.reported \in Nat /\ desired \in Nat
    BY <2>1 DEF TypeInv, TypeOK, Row
  <2>3. DeploymentStatus = "applied" => row.status = "applied" /\ row.reported >= desired
    BY <2>2 DEF DeploymentStatus
  <2> QED
    BY <2>1, <2>3 DEF StoredInv, TrueRow, AppliedIsStored
<1> QED
  BY <1>1, <1>2, <1>3, Always, PTL DEF Spec
=============================================================================
