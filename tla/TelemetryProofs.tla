--------------------------- MODULE TelemetryProofs ---------------------------
(***************************************************************************)
(* What holds of the telemetry transport for any buffer size, any number   *)
(* of batches and processes and any faults: the variables have their types *)
(* and the buffer its bound, no batch is decided twice, Telemetry keeps    *)
(* the promise of TelemetryDelivery, and stores batches once and in order. *)
(*                                                                         *)
(* The argument is about rows: the boot, sequence number and id of a batch *)
(* that is in the sender's hands, on its way, or in ingest_batches.  Two   *)
(* rows with the same id, or with the same boot and sequence number, are   *)
(* the same row, so that the check for a known boot and sequence number    *)
(* recognises exactly the repetitions of a batch; and of every process at  *)
(* most one row is on its way and not stored, the one in hand if it is up. *)
(***************************************************************************)
EXTENDS Telemetry, Integers, WellFoundedInduction, TLAPS

-----------------------------------------------------------------------------
(* The buffer.                                                             *)

\* Induction over the naturals, for a set instead of a predicate.
LEMMA NatSetInduction ==
  ASSUME NEW T, 0 \in T, \A n \in Nat : n \in T => n + 1 \in T
  PROVE  Nat \subseteq T
<1> DEFINE Bad == Nat \ T
<1>1. SUFFICES ASSUME Bad # {} PROVE FALSE
  OBVIOUS
<1>2. PICK x \in Bad : \A y \in Bad : ~(<<y, x>> \in OpToRel(<, Nat))
  BY <1>1, NatLessThanWellFounded, WFMin, Zenon
<1>3. OpToRel(<, Nat) = {p \in Nat \X Nat : p[1] < p[2]}
  BY Zenon DEF OpToRel
<1>4. x # 0 /\ x - 1 \in Nat /\ x - 1 \in Bad
  OBVIOUS
<1>5. <<x - 1, x>> \in {p \in Nat \X Nat : p[1] < p[2]}
  BY <1>4
<1> QED
  BY <1>2, <1>3, <1>4, <1>5, Zenon

\* f sums the sizes of the first n batches of q, the way Bytes does.
SumTo(f, q, n) == f = [i \in 0 .. n |-> IF i = 0 THEN 0 ELSE f[i - 1] + q[i].size]

\* The sum that Bytes defines exists.
LEMMA SumExists == ASSUME NEW q PROVE \A n \in Nat : \E f : SumTo(f, q, n)
<1> DEFINE T == {n \in Nat : \E f : SumTo(f, q, n)}
<1>1. 0 \in T
  <2> DEFINE z == [i \in 0 .. 0 |-> 0]
  <2>1. z = [i \in 0 .. 0 |-> IF i = 0 THEN 0 ELSE z[i - 1] + q[i].size]
    OBVIOUS
  <2> QED
    BY <2>1, Zenon DEF SumTo
<1>2. ASSUME NEW n \in Nat, n \in T PROVE n + 1 \in T
  <2>1. PICK f : SumTo(f, q, n)
    BY <1>2, Zenon
  <2> DEFINE h == [i \in 0 .. n + 1 |-> IF i = n + 1 THEN f[n] + q[n + 1].size ELSE f[i]]
  <2>2. ASSUME NEW i \in 0 .. n + 1
        PROVE  h[i] = IF i = 0 THEN 0 ELSE h[i - 1] + q[i].size
    <3>1. CASE i = n + 1
      BY <3>1
    <3>2. CASE i # n + 1
      <4>1. f[i] = IF i = 0 THEN 0 ELSE f[i - 1] + q[i].size
        BY <2>1, <3>2 DEF SumTo
      <4>2. i # 0 => h[i - 1] = f[i - 1]
        BY <3>2
      <4> QED
        BY <4>1, <4>2, <3>2, Zenon
    <3> QED
      BY <3>1, <3>2, Zenon
  <2>3. SumTo(h, q, n + 1)
    BY <2>2, Zenon DEF SumTo
  <2> QED
    BY <2>3
<1> HIDE DEF T
<1>3. Nat \subseteq T
  BY <1>1, <1>2, NatSetInduction, Zenon
<1> QED
  BY <1>3, Zenon DEF T

\* Bytes is that sum over the whole buffer.
LEMMA BytesIsSum ==
  ASSUME NEW q \in Seq(Queued) PROVE \E f : SumTo(f, q, Len(q)) /\ Bytes(q) = f[Len(q)]
<1> DEFINE S == CHOOSE f : f = [i \in 0 .. Len(q) |-> IF i = 0 THEN 0 ELSE f[i - 1] + q[i].size]
<1>1. \E f : f = [i \in 0 .. Len(q) |-> IF i = 0 THEN 0 ELSE f[i - 1] + q[i].size]
  BY SumExists DEF SumTo
<1>2. S = [i \in 0 .. Len(q) |-> IF i = 0 THEN 0 ELSE S[i - 1] + q[i].size]
  BY <1>1, Zenon
<1>3. Bytes(q) = S[Len(q)]
  BY Zenon DEF Bytes
<1> QED
  BY <1>2, <1>3, Zenon DEF SumTo

\* The first n batches of q are those of r after the first k.
Shifted(q, r, n, k) == \A i \in 1 .. n : q[i].size \in Nat /\ r[i + k].size = q[i].size

RunsAhead(h, f, n, k) == \A i \in 0 .. n : f[i] \in Nat /\ h[i + k] = h[k] + f[i]

\* A sum over one buffer, moved by k places, runs ahead of a sum over another
\* by what it had at k.
LEMMA SumsRunTogether ==
  ASSUME NEW q, NEW r, NEW n \in Nat, NEW k \in Nat, NEW f, NEW h, NEW m \in Nat, n + k <= m,
         SumTo(f, q, n), SumTo(h, r, m), h[k] \in Nat,
         Shifted(q, r, n, k)
  PROVE  RunsAhead(h, f, n, k)
<1> DEFINE T == {i \in Nat : i <= n => f[i] \in Nat /\ h[i + k] = h[k] + f[i]}
<1>1. 0 \in T
  BY DEF SumTo
<1>2. ASSUME NEW i \in Nat, i \in T PROVE i + 1 \in T
  <2>1. SUFFICES ASSUME i + 1 <= n
                 PROVE  f[i + 1] \in Nat /\ h[i + 1 + k] = h[k] + f[i + 1]
    OBVIOUS
  <2>2. f[i + 1] = f[i] + q[i + 1].size
    <3>1. i + 1 \in 0 .. n /\ i + 1 # 0 /\ (i + 1) - 1 = i
      BY <2>1
    <3> QED
      BY <3>1, Zenon DEF SumTo
  <2>3. h[i + 1 + k] = h[i + k] + r[i + 1 + k].size
    <3>1. i + 1 + k \in 0 .. m /\ i + 1 + k # 0 /\ (i + 1 + k) - 1 = i + k
      BY <2>1
    <3> QED
      BY <3>1, Zenon DEF SumTo
  <2>4. q[i + 1].size \in Nat /\ r[i + 1 + k].size = q[i + 1].size
    BY <2>1 DEF Shifted
  <2>5. f[i] \in Nat /\ h[i + k] = h[k] + f[i]
    BY <1>2, <2>1
  <2> QED
    BY <2>2, <2>3, <2>4, <2>5
<1> HIDE DEF T
<1>3. Nat \subseteq T
  BY <1>1, <1>2, NatSetInduction, Zenon
<1> QED
  BY <1>3 DEF T, RunsAhead

\* Bytes of nothing, and of a buffer with one more or one less.
LEMMA BytesOfEmpty == Bytes(<<>>) = 0
<1>1. PICK f : SumTo(f, <<>>, Len(<<>>)) /\ Bytes(<<>>) = f[Len(<<>>)]
  <2>1. <<>> \in Seq(Queued)
    OBVIOUS
  <2> QED
    BY <2>1, BytesIsSum, Zenon
<1> QED
  BY <1>1 DEF SumTo

\* push_back and pop_front: the byte count of the buffer goes up and down by
\* the size of the batch.
LEMMA BytesOfAppend ==
  ASSUME NEW q \in Seq(Queued), NEW x \in Queued
  PROVE  Bytes(Append(q, x)) = Bytes(q) + x.size
<1> DEFINE r == Append(q, x)
<1>0. r \in Seq(Queued) /\ Len(r) = Len(q) + 1 /\ r[Len(q) + 1] = x
      /\ \A i \in 1 .. Len(q) : r[i] = q[i] /\ q[i] \in Queued
  OBVIOUS
<1> HIDE DEF r
<1>1. PICK f : SumTo(f, q, Len(q)) /\ Bytes(q) = f[Len(q)]
  BY BytesIsSum, Zenon
<1>2. PICK h : SumTo(h, r, Len(r)) /\ Bytes(r) = h[Len(r)]
  BY <1>0, BytesIsSum, Zenon
<1>3. h[0] = 0
  BY <1>0, <1>2 DEF SumTo
<1>4. Shifted(q, r, Len(q), 0)
  BY <1>0, BoundsAssumption, SMTT(20) DEF Queued, Shifted
<1>5. h[Len(q)] = f[Len(q)]
  <2>1. Len(q) \in Nat /\ 0 \in Nat /\ Len(r) \in Nat /\ Len(q) + 0 <= Len(r) /\ h[0] \in Nat
    BY <1>0, <1>3
  <2>2. RunsAhead(h, f, Len(q), 0)
    BY <1>1, <1>2, <1>4, <2>1, SumsRunTogether, Zenon
  <2> QED
    BY <2>1, <2>2, <1>3 DEF RunsAhead
<1>6. h[Len(q) + 1] = h[Len(q)] + x.size
  BY <1>0, <1>2 DEF SumTo
<1> QED
  BY <1>0, <1>1, <1>2, <1>5, <1>6, Zenon DEF r

\* The same for the batch that leaves at the front.
LEMMA BytesOfTail ==
  ASSUME NEW q \in Seq(Queued), q # <<>>
  PROVE  Bytes(Tail(q)) \in Nat /\ Bytes(q) = Head(q).size + Bytes(Tail(q))
<1> DEFINE t == Tail(q)
<1>0. t \in Seq(Queued) /\ Len(q) = Len(t) + 1 /\ q[1] = Head(q) /\ q[1] \in Queued
      /\ \A i \in 1 .. Len(t) : t[i] = q[i + 1] /\ t[i] \in Queued
  OBVIOUS
<1> HIDE DEF t
<1>1. PICK f : SumTo(f, t, Len(t)) /\ Bytes(t) = f[Len(t)]
  BY <1>0, BytesIsSum, Zenon
<1>2. PICK h : SumTo(h, q, Len(q)) /\ Bytes(q) = h[Len(q)]
  BY BytesIsSum, Zenon
<1>3. h[1] = Head(q).size /\ h[1] \in Nat
  <2>1. 1 \in 0 .. Len(q) /\ 0 \in 0 .. Len(q)
    BY <1>0
  <2>2. h[0] = 0
    BY <1>2, <2>1, Zenon DEF SumTo
  <2>3. h[1] = h[0] + q[1].size
    BY <1>2, <2>1 DEF SumTo
  <2> QED
    BY <1>0, <2>2, <2>3, BoundsAssumption DEF Queued
<1>4. Shifted(t, q, Len(t), 1)
  <2>1. ASSUME NEW i \in 1 .. Len(t) PROVE t[i] = q[i + 1] /\ t[i] \in Queued
    BY <1>0, Zenon
  <2>2. \A b \in Queued : b.size \in Nat
    BY BoundsAssumption DEF Queued
  <2> QED
    BY <2>1, <2>2, Zenon DEF Shifted
<1>5. RunsAhead(h, f, Len(t), 1)
  <2>1. Len(t) \in Nat /\ 1 \in Nat /\ Len(q) \in Nat /\ Len(t) + 1 <= Len(q) /\ h[1] \in Nat
    BY <1>0, <1>3
  <2> QED
    BY <1>1, <1>2, <1>4, <2>1, SumsRunTogether, Zenon
<1> QED
  BY <1>0, <1>1, <1>2, <1>3, <1>5 DEF t, RunsAhead

\* The tail that Room keeps is a tail, and leaves room for the new batch.
LEMMA RoomIsTail ==
  ASSUME NEW q \in Seq(Queued), NEW size \in 1 .. Capacity
  PROVE  \E k \in 0 .. Len(q) : /\ Room(q, size) = SubSeq(q, k + 1, Len(q))
                                /\ Bytes(Room(q, size)) + size <= Capacity
<1> DEFINE fits == {i \in 0 .. Len(q) : Bytes(SubSeq(q, i + 1, Len(q))) + size <= Capacity}
           first == CHOOSE i \in fits : \A j \in fits : i <= j
<1>1. Len(q) \in fits
  <2>1. SubSeq(q, Len(q) + 1, Len(q)) = <<>>
    OBVIOUS
  <2>2. Bytes(SubSeq(q, Len(q) + 1, Len(q))) = 0
    BY <2>1, BytesOfEmpty, Zenon
  <2>3. 0 + size <= Capacity
    BY BoundsAssumption
  <2> QED
    BY <2>2, <2>3
<1>2. \E i \in fits : \A j \in fits : i <= j
  <2> DEFINE T == {n \in Nat : \A i \in fits : n <= i}
  <2>1. SUFFICES ASSUME ~\E i \in fits : \A j \in fits : i <= j PROVE FALSE
    OBVIOUS
  <2>2. 0 \in T
    OBVIOUS
  <2>3. ASSUME NEW n \in Nat, n \in T PROVE n + 1 \in T
    <3>1. n \notin fits
      BY <2>1, <2>3, Zenon
    <3>2. fits \subseteq Nat
      OBVIOUS
    <3> HIDE DEF fits
    <3> QED
      BY <2>3, <3>1, <3>2
  <2> HIDE DEF T
  <2>4. Nat \subseteq T
    BY <2>2, <2>3, NatSetInduction, Zenon
  <2>5. Len(q) + 1 \in T
    BY <2>4
  <2> QED
    BY <1>1, <2>5 DEF T
<1> HIDE DEF fits
<1>3. first \in fits
  BY <1>2, Zenon
<1>4. Room(q, size) = SubSeq(q, first + 1, Len(q))
  BY Zenon DEF Room, fits, first
<1> HIDE DEF first
<1> QED
  BY <1>3, <1>4, Zenon DEF fits

\* What push keeps of the buffer is a buffer.
LEMMA RoomTyped ==
  ASSUME NEW q \in Seq(Queued), NEW size \in 1 .. Capacity
  PROVE  Room(q, size) \in Seq(Queued)
<1>1. PICK k \in 0 .. Len(q) : Room(q, size) = SubSeq(q, k + 1, Len(q))
  BY RoomIsTail, Zenon
<1>2. \A i \in k + 1 .. Len(q) : q[i] \in Queued
  OBVIOUS
<1>3. k + 1 \in Int /\ Len(q) \in Int
  OBVIOUS
<1> QED
  BY <1>1, <1>2, <1>3

-----------------------------------------------------------------------------
(* The inductive invariant.                                                *)

Agents ==
  [up : BOOLEAN, boot : 0 .. MaxBoot, stopping : BOOLEAN, closed : BOOLEAN,
   queue : Seq(Queued), hand : 0 .. MaxBatch, seq : 0 .. MaxBatch, pc : Pcs, cred : Nat]
Rows == [boot : Boots, seq : Ids, id : Ids]

Typed ==
  /\ agent \in Agents
  /\ file \in Nat
  /\ wire \subseteq Messages
  /\ gateway \in [token : Nat, stale : BOOLEAN]
  /\ ingested \subseteq Rows
  /\ decided \in [Ids -> Nat]
  /\ collector \in BOOLEAN
  /\ submitted \in 0 .. MaxBatch
  /\ left \in Scenario

\* The rows on their way, and the one in the sender's hands.
Sent == {Row(m) : m \in {n \in wire : n.kind = "batch"}}
InHand == IF agent.hand = 0 THEN {}
          ELSE {[boot |-> agent.boot, seq |-> agent.seq, id |-> agent.hand]}
Known == ingested \cup Sent \cup InHand

\* sender_loop: where it has a batch in hand, and what it waits for.
SenderInv ==
  /\ ~agent.up => agent.hand = 0 /\ agent.queue = <<>>
  /\ agent.up => agent.boot # 0
  /\ agent.pc = "pop" => agent.hand = 0
  /\ agent.pc \notin {"pop", "done"} => agent.hand # 0
  /\ agent.hand # 0 => agent.seq # 0
  /\ \A m \in wire :
       m.live => /\ agent.up /\ m.boot = agent.boot
                 /\ agent.pc = IF m.kind = "batch" THEN "sending" ELSE "enrolling"
                 /\ m.kind = "batch" => Row(m) \in InHand
  /\ \A m, n \in wire : m.live /\ n.live => m = n

\* accept_batch: which requests it has in which stage.
HandlerInv ==
  /\ \A m \in wire :
       /\ m.stage \in {"authed", "stored"} => m.kind = "batch"
       /\ m.stage = "answered" => m.live /\ m.status # "none"
       /\ m.kind = "batch" /\ (m.stage = "stored" \/ m.status = "ok") => Row(m) \in ingested
  /\ \A m, n \in wire : m.stage = "stored" /\ n.stage = "stored" => m = n

\* The numbering of batches by submit and of requests by sender_loop.
RowsInv ==
  /\ Sent \subseteq Rows
  /\ \A t, u \in Known : t.id = u.id \/ (t.boot = u.boot /\ t.seq = u.seq) => t = u
  /\ \A t \in Known : /\ t.boot <= agent.boot /\ t.id <= submitted
                      /\ agent.up /\ t.boot = agent.boot => t.seq <= agent.seq
  /\ \A t, u \in Sent \ ingested : t.boot = u.boot => t = u
  /\ agent.up => \A t \in Sent \ ingested : t.boot = agent.boot => t \in InHand

QueueInv ==
  /\ agent.seq <= submitted
  /\ \A i, j \in DOMAIN agent.queue : i < j => agent.queue[i].id < agent.queue[j].id
  /\ \A i \in DOMAIN agent.queue :
       /\ agent.seq < agent.queue[i].id /\ agent.queue[i].id <= submitted
       /\ \A t \in Known : t.id < agent.queue[i].id

DecidedInv ==
  /\ \A i \in Ids : decided[i] = 0 \/ (decided[i] = 1 /\ \E r \in ingested : r.id = i)
  /\ \A m \in wire : m.stage = "stored" => decided[m.id] = 0

BytesInv == Bytes(agent.queue) <= Capacity

IInv == Typed /\ SenderInv /\ HandlerInv /\ RowsInv /\ QueueInv /\ DecidedInv /\ BytesInv

-----------------------------------------------------------------------------
(* Types.                                                                  *)

\* The configured bounds are numbers.
LEMMA Bounds == Capacity \in Nat /\ MaxBatch \in Nat /\ MaxBoot \in Nat
BY BoundsAssumption, Zenon

\* The fields of the records, and records with some of them changed.
LEMMA AgentFields ==
  ASSUME NEW a \in Agents
  PROVE  /\ a.boot \in 0 .. MaxBoot /\ a.queue \in Seq(Queued) /\ a.cred \in Nat
         /\ a.hand \in 0 .. MaxBatch /\ a.seq \in 0 .. MaxBatch /\ a.pc \in Pcs
         /\ a.up \in BOOLEAN /\ a.stopping \in BOOLEAN /\ a.closed \in BOOLEAN
BY Zenon DEF Agents

\* A buffered batch has a number and a size.
LEMMA QueuedFields ==
  ASSUME NEW b \in Queued PROVE b.id \in Ids /\ b.id \in 0 .. MaxBatch /\ b.size \in Nat
<1>1. b.id \in Ids /\ b.size \in 1 .. Capacity
  BY Zenon DEF Queued
<1> QED
  BY <1>1, Bounds DEF Ids

\* The budgets of a scenario.
LEMMA ScenarioFields ==
  ASSUME NEW s \in Scenario
  PROVE  /\ s.batches \in 0 .. MaxBatch /\ s.sizes \subseteq Nat \ {0}
         /\ s.boots \in 1 .. MaxBoot /\ s.fault \in Nat /\ s.crash \in Nat /\ s.rival \in Nat
BY Zenon DEF Scenario

\* The fields of a request.
LEMMA MessageFields ==
  ASSUME NEW m \in Messages
  PROVE  /\ m.kind \in {"enroll", "batch"} /\ m.boot \in Boots /\ m.seq \in 0 .. MaxBatch
         /\ m.id \in 0 .. MaxBatch /\ m.token \in Nat /\ m.stage \in Stages
         /\ m.status \in Statuses /\ m.live \in BOOLEAN
BY Zenon DEF Messages

\* The process as Kill and Exit leave it, and as Start finds it.
LEMMA DownTyped ==
  ASSUME NEW b \in 0 .. MaxBoot, NEW c \in Nat
  PROVE  Down(b) \in Agents /\ [Down(b) EXCEPT !.up = TRUE, !.pc = "pop", !.cred = c] \in Agents
<1>1. 0 \in 0 .. MaxBatch /\ 0 \in Nat
  BY Bounds
<1>2. "pop" \in Pcs /\ "done" \in Pcs
  BY Zenon DEF Pcs
<1>3. <<>> \in Seq(Queued)
  OBVIOUS
<1>4. Down(b) \in Agents
  BY <1>1, <1>2, <1>3, Zenon DEF Down, Agents
<1> QED
  BY <1>2, <1>4, Zenon DEF Agents

\* The process after a step of the main loop or of sender_loop.
LEMMA AgentUpdates ==
  ASSUME NEW a \in Agents
  PROVE  /\ [a EXCEPT !.stopping = TRUE] \in Agents
         /\ [a EXCEPT !.closed = TRUE] \in Agents
         /\ \A q \in Seq(Queued) : [a EXCEPT !.queue = q] \in Agents
         /\ \A p \in Pcs : [a EXCEPT !.pc = p] \in Agents
         /\ \A h \in 0 .. MaxBatch, p \in Pcs : [a EXCEPT !.hand = h, !.pc = p] \in Agents
         /\ \A c \in Nat, p \in Pcs : [a EXCEPT !.cred = c, !.pc = p] \in Agents
         /\ \A q \in Seq(Queued), h, s \in 0 .. MaxBatch, p \in Pcs :
              [a EXCEPT !.queue = q, !.hand = h, !.seq = s, !.pc = p] \in Agents
BY Zenon DEF Agents

\* A request that the Collector moves on stays a request.
LEMMA MessageUpdates ==
  ASSUME NEW m \in Messages, NEW s \in Stages, NEW t \in Statuses, NEW k \in Nat
  PROVE  /\ [m EXCEPT !.stage = s] \in Messages
         /\ [m EXCEPT !.live = FALSE] \in Messages
         /\ [m EXCEPT !.stage = s, !.status = t, !.token = k] \in Messages
BY Zenon DEF Messages

\* A fault, a crash or a rival is taken from what is left of the scenario.
LEMMA LeftUpdates ==
  ASSUME NEW s \in Scenario, NEW n \in Nat
  PROVE  /\ [s EXCEPT !.fault = n] \in Scenario
         /\ [s EXCEPT !.crash = n] \in Scenario
         /\ [s EXCEPT !.rival = n] \in Scenario
BY Zenon DEF Scenario

\* A scenario with one failure fewer is a scenario.
LEMMA LeftTyped ==
  ASSUME left \in Scenario
  PROVE  /\ left.fault > 0 => [left EXCEPT !.fault = @ - 1] \in Scenario
         /\ left.crash > 0 => [left EXCEPT !.crash = @ - 1] \in Scenario
         /\ left.rival > 0 => [left EXCEPT !.rival = @ - 1] \in Scenario
<1>1. left.fault \in Nat /\ left.crash \in Nat /\ left.rival \in Nat
  BY ScenarioFields, Zenon
<1>2. /\ left.fault > 0 => left.fault - 1 \in Nat
      /\ left.crash > 0 => left.crash - 1 \in Nat
      /\ left.rival > 0 => left.rival - 1 \in Nat
  BY <1>1
<1> QED
  BY <1>2, LeftUpdates, Zenon

\* Answer keeps wire a set of requests.
LEMMA AnswerTyped ==
  ASSUME wire \subseteq Messages, NEW m \in wire, NEW t \in Statuses, NEW k \in Nat,
         Answer(m, t, k)
  PROVE  wire' \subseteq Messages
<1>1. "answered" \in Stages
  BY Zenon DEF Stages
<1>2. [m EXCEPT !.stage = "answered", !.status = t, !.token = k] \in Messages
  BY <1>1, MessageUpdates, Zenon
<1> QED
  BY <1>2, Zenon DEF Answer

\* The main loop and the buffer keep the types.
LEMMA TypedMainLoop ==
  ASSUME Typed,
         Start \/ Signal \/ Close \/ Exit \/ Kill \/ \E size \in left.sizes : Push(size)
  PROVE  Typed'
<1>0. /\ agent \in Agents /\ agent.boot \in 0 .. MaxBoot /\ agent.queue \in Seq(Queued)
      /\ agent.hand \in 0 .. MaxBatch /\ agent.pc \in Pcs /\ agent.cred \in Nat
  BY AgentFields, Zenon DEF Typed
<1>1. CASE Start
  <2>1. left.boots \in 1 .. MaxBoot /\ file \in Nat
    BY ScenarioFields, Zenon DEF Typed
  <2>2. agent.boot + 1 \in 0 .. MaxBoot
    BY <1>0, <1>1, <2>1, Bounds DEF Start
  <2>3. agent' \in Agents
    BY <1>1, <2>1, <2>2, DownTyped, Zenon DEF Start
  <2> QED
    BY <1>1, <2>3, Zenon DEF Start, Typed
<1>2. CASE Signal
  <2>1. agent' \in Agents
    BY <1>0, <1>2, AgentUpdates, Zenon DEF Signal
  <2> QED
    BY <1>2, <2>1, Zenon DEF Signal, Typed
<1>3. CASE Close
  <2>1. agent' \in Agents
    BY <1>0, <1>3, AgentUpdates, Zenon DEF Close
  <2> QED
    BY <1>3, <2>1, Zenon DEF Close, Typed
<1>4. CASE Exit \/ Kill
  <2>1. agent' \in Agents
    BY <1>0, <1>4, DownTyped, Zenon DEF Exit, Kill
  <2>2. Orphans \subseteq Messages
    <3>1. ASSUME NEW m \in wire PROVE [m EXCEPT !.live = FALSE] \in Messages
      BY Zenon DEF Typed, Messages
    <3> QED
      BY <3>1, Zenon DEF Orphans
  <2> QED
    BY <1>4, <2>1, <2>2, Zenon DEF Exit, Kill, Typed
<1>5. ASSUME NEW size \in left.sizes, Push(size) PROVE Typed'
  <2>1. submitted' \in Ids
    BY <1>5, Bounds, ScenarioFields DEF Push, Typed, Ids
  <2>2. size \in Nat \ {0}
    BY ScenarioFields, Zenon DEF Typed
  <2>3. agent' \in Agents
    <3>1. CASE agent.closed \/ size > Capacity
      BY <1>0, <1>5, <3>1, Zenon DEF Push
    <3>2. CASE ~(agent.closed \/ size > Capacity)
      <4>1. size \in 1 .. Capacity
        BY <2>2, <3>2, Bounds
      <4>2. Room(agent.queue, size) \in Seq(Queued)
        BY <1>0, <4>1, RoomTyped, Zenon
      <4>3. [id |-> submitted', size |-> size] \in Queued
        BY <2>1, <4>1, Zenon DEF Queued
      <4>4. Append(Room(agent.queue, size), [id |-> submitted', size |-> size]) \in Seq(Queued)
        BY <4>2, <4>3
      <4>5. agent' = [agent EXCEPT !.queue = Append(Room(agent.queue, size),
                                                    [id |-> submitted', size |-> size])]
        BY <1>5, <3>2, Zenon DEF Push
      <4> QED
        BY <1>0, <4>4, <4>5, AgentUpdates, Zenon
    <3> QED
      BY <3>1, <3>2, Zenon
  <2>4. submitted' \in 0 .. MaxBatch
    BY <2>1, Bounds DEF Ids
  <2> QED
    BY <1>5, <2>3, <2>4, Zenon DEF Push, Typed
<1> QED
  BY <1>1, <1>2, <1>3, <1>4, <1>5, Zenon

\* sender_loop keeps the types.
LEMMA TypedSender ==
  ASSUME Typed, SenderInv, HandlerInv, QueueInv,
         Pop \/ SendEnroll \/ SendBatch \/ Receive \/ Disconnected \/ Timeout \/ Delay
  PROVE  Typed'
<1>0. /\ agent \in Agents /\ agent.boot \in 0 .. MaxBoot /\ agent.queue \in Seq(Queued)
      /\ agent.hand \in 0 .. MaxBatch /\ agent.seq \in 0 .. MaxBatch
      /\ agent.pc \in Pcs /\ agent.cred \in Nat /\ 0 \in Nat /\ 0 \in 0 .. MaxBatch
  BY AgentFields, Bounds DEF Typed
<1>p. /\ "pop" \in Pcs /\ "enroll" \in Pcs /\ "enrolling" \in Pcs /\ "send" \in Pcs
      /\ "sending" \in Pcs /\ "delay" \in Pcs /\ "done" \in Pcs
  BY Zenon DEF Pcs
<1>1. CASE Pop
  <2>1. agent' \in Agents
    <3>1. CASE agent.queue # <<>>
      <4> DEFINE p == IF agent.cred = 0 THEN "enroll" ELSE "send"
      <4>1. Tail(agent.queue) \in Seq(Queued) /\ 1 \in DOMAIN agent.queue
            /\ Head(agent.queue) = agent.queue[1] /\ agent.queue[1] \in Queued
        BY <1>0, <3>1
      <4>2. agent.seq + 1 \in 0 .. MaxBatch
        <5>1. agent.seq < agent.queue[1].id /\ agent.queue[1].id <= submitted
          BY <4>1, Zenon DEF QueueInv
        <5>2. agent.queue[1].id \in 0 .. MaxBatch
          BY <4>1, QueuedFields, Zenon
        <5> QED
          BY <1>0, <5>1, <5>2, Bounds
      <4>3. Head(agent.queue).id \in 0 .. MaxBatch
        BY <4>1, QueuedFields, Zenon
      <4>4. p \in Pcs
        BY <1>p, Zenon
      <4>5. agent' = [agent EXCEPT !.queue = Tail(agent.queue), !.hand = Head(agent.queue).id,
                                   !.seq = agent.seq + 1, !.pc = p]
        BY <1>1, <3>1, Zenon DEF Pop
      <4> HIDE DEF p
      <4> QED
        BY <1>0, <4>1, <4>2, <4>3, <4>4, <4>5, AgentUpdates, Zenon
    <3>2. CASE agent.queue = <<>>
      BY <1>0, <1>1, <1>p, <3>2, AgentUpdates, Zenon DEF Pop
    <3> QED
      BY <3>1, <3>2, Zenon
  <2> QED
    BY <1>1, <2>1, Zenon DEF Pop, Typed
<1>2. CASE SendEnroll \/ SendBatch
  <2>1. agent' \in Agents
    <3>1. CASE SendEnroll
      BY <1>0, <1>p, <3>1, AgentUpdates, Zenon DEF SendEnroll
    <3>2. CASE SendBatch
      BY <1>0, <1>p, <3>2, AgentUpdates, Zenon DEF SendBatch
    <3> QED
      BY <1>2, <3>1, <3>2, Zenon
  <2>2. agent.boot \in Boots
    BY <1>0, <1>2, Bounds DEF SenderInv, SendEnroll, SendBatch, Boots
  <2>3. "sent" \in Stages /\ "none" \in Statuses
    BY Zenon DEF Stages, Statuses
  <2>4. ASSUME NEW k \in {"enroll", "batch"} PROVE Request(k) \in Messages
    <3>1. /\ (IF k = "batch" THEN agent.seq ELSE 0) \in 0 .. MaxBatch
          /\ (IF k = "batch" THEN agent.hand ELSE 0) \in 0 .. MaxBatch
          /\ (IF k = "batch" THEN agent.cred ELSE 0) \in Nat
      BY <1>0, Zenon
    <3> QED
      BY <2>2, <2>3, <3>1, Zenon DEF Request, Messages
  <2>5. wire' \subseteq Messages
    BY <1>2, <2>4, Zenon DEF SendEnroll, SendBatch, Typed
  <2> QED
    BY <1>2, <2>1, <2>5, Zenon DEF SendEnroll, SendBatch, Typed
<1>3. CASE Receive
  <2>1. PICK m \in wire : /\ TakeEnrollment(m) \/ TakeAnswer(m)
                          /\ m.stage = "answered" /\ wire' = wire \ {m}
    BY <1>3, Zenon DEF Receive
  <2>2. m \in Messages /\ m.token \in Nat /\ wire' \subseteq Messages
    BY <2>1, MessageFields, Zenon DEF Typed
  <2>3. CASE TakeEnrollment(m)
    <3>1. agent' \in Agents
      <4>1. CASE m.status = "ok"
        <5>1. agent' = [agent EXCEPT !.cred = m.token, !.pc = "send"]
          BY <2>3, <4>1, Zenon DEF TakeEnrollment
        <5> QED
          BY <1>0, <1>p, <2>2, <5>1, AgentUpdates, Zenon
      <4>2. CASE m.status # "ok"
        <5>1. agent' = [agent EXCEPT !.pc = "delay"]
          BY <2>3, <4>2, Zenon DEF TakeEnrollment
        <5> QED
          BY <1>0, <1>p, <5>1, AgentUpdates, Zenon
      <4> QED
        BY <4>1, <4>2, Zenon
    <3>2. file' \in Nat
      BY <2>2, <2>3, Zenon DEF TakeEnrollment, Typed
    <3>3. left' \in Scenario
      BY <2>3, LeftTyped, Zenon DEF TakeEnrollment, Typed
    <3> QED
      BY <1>3, <2>2, <3>1, <3>2, <3>3, Zenon DEF Receive, Typed
  <2>4. CASE TakeAnswer(m)
    <3>1. m.status = "ok" \/ m.status = "unauthorized" \/ m.status = "failed"
      BY <2>1, <2>2, MessageFields, Zenon DEF HandlerInv, Statuses
    <3>2. agent' \in Agents
      BY <1>0, <1>p, <2>4, <3>1, AgentUpdates, Zenon DEF TakeAnswer
    <3> QED
      BY <1>3, <2>2, <2>4, <3>2, Zenon DEF Receive, Typed, TakeAnswer
  <2> QED
    BY <2>1, <2>3, <2>4, Zenon
<1>4. CASE Disconnected
  <2>1. agent' \in Agents
    BY <1>0, <1>4, <1>p, AgentUpdates, Zenon DEF Disconnected
  <2> QED
    BY <1>4, <2>1, Zenon DEF Disconnected, Typed
<1>5. CASE Timeout
  <2>1. agent' \in Agents
    BY <1>0, <1>5, <1>p, AgentUpdates, Zenon DEF Timeout
  <2>2. PICK m \in wire : wire' = (wire \ {m}) \cup {[m EXCEPT !.live = FALSE]}
    BY <1>5, Zenon DEF Timeout
  <2>3. [m EXCEPT !.live = FALSE] \in Messages
    BY Zenon DEF Typed, Messages
  <2>4. wire' \subseteq Messages
    BY <2>2, <2>3, Zenon DEF Typed
  <2>5. left' \in Scenario
    BY <1>5, LeftTyped, Zenon DEF Timeout, Typed
  <2> QED
    BY <1>5, <2>1, <2>4, <2>5, Zenon DEF Timeout, Typed
<1>6. CASE Delay
  <2>1. agent' \in Agents
    BY <1>0, <1>6, <1>p, AgentUpdates, Zenon DEF Delay
  <2> QED
    BY <1>6, <2>1, Zenon DEF Delay, Typed
<1> QED
  BY <1>1, <1>2, <1>3, <1>4, <1>5, <1>6, Zenon

\* The Collector and the network keep the types.
LEMMA TypedCollector ==
  ASSUME Typed, RowsInv, HandlerInv, NEW m \in wire,
         Enroll(m) \/ Authenticate(m) \/ Refuse(m) \/ Persist(m) \/ Decide(m) \/ Lose(m)
           \/ Unreachable(m)
  PROVE  Typed'
<1>0. /\ wire \subseteq Messages /\ m \in Messages /\ 0 \in Nat
      /\ gateway.token \in Nat /\ gateway.stale \in BOOLEAN
  BY Zenon DEF Typed
<1>s. /\ "ok" \in Statuses /\ "unauthorized" \in Statuses /\ "failed" \in Statuses
      /\ "authed" \in Stages /\ "stored" \in Stages
  BY Zenon DEF Statuses, Stages
<1>1. CASE Enroll(m)
  <2>1. Fresh \in Nat
    BY <1>0 DEF Fresh
  <2>2. wire' \subseteq Messages
    <3>1. Answer(m, "ok", Fresh) \/ Answer(m, "failed", 0)
      BY <1>1, Zenon DEF Enroll
    <3> QED
      BY <1>0, <1>s, <2>1, <3>1, AnswerTyped, Zenon
  <2>3. gateway' \in [token : Nat, stale : BOOLEAN]
    <3>1. [token |-> Fresh, stale |-> FALSE] \in [token : Nat, stale : BOOLEAN]
      BY <2>1, Zenon
    <3>2. gateway' = [token |-> Fresh, stale |-> FALSE] \/ gateway' = gateway
      BY <1>1, Zenon DEF Enroll
    <3> QED
      BY <3>1, <3>2, Zenon DEF Typed
  <2> QED
    BY <1>1, <2>2, <2>3, Zenon DEF Enroll, Typed
<1>2. CASE Authenticate(m)
  <2>1. [m EXCEPT !.stage = "authed"] \in Messages
    BY <1>0, <1>s, Zenon DEF Messages
  <2>2. wire' \subseteq Messages
    BY <1>0, <1>s, <1>2, <2>1, AnswerTyped, Zenon DEF Authenticate
  <2> QED
    BY <1>2, <2>2, Zenon DEF Authenticate, Typed
<1>3. CASE Refuse(m)
  <2>1. wire' \subseteq Messages
    BY <1>0, <1>s, <1>3, AnswerTyped, Zenon DEF Refuse
  <2>2. left' \in Scenario
    BY <1>3, LeftTyped, Zenon DEF Refuse, Typed
  <2> QED
    BY <1>3, <2>1, <2>2, Zenon DEF Refuse, Typed
<1>4. CASE Persist(m)
  <2>1. [m EXCEPT !.stage = "stored"] \in Messages
    BY <1>0, <1>s, Zenon DEF Messages
  <2>2. wire' \subseteq Messages
    BY <1>0, <1>s, <1>4, <2>1, AnswerTyped, Zenon DEF Persist
  <2>3. Row(m) \in Rows
    BY <1>4, Zenon DEF Persist, HandlerInv, RowsInv, Sent
  <2>4. ingested' \subseteq Rows
    BY <1>4, <2>3, Zenon DEF Persist, Typed
  <2>5. gateway' \in [token : Nat, stale : BOOLEAN]
    BY <1>4, Zenon DEF Persist, Typed
  <2> QED
    BY <1>4, <2>2, <2>4, <2>5, Zenon DEF Persist, Typed
<1>5. CASE Decide(m)
  <2>1. wire' \subseteq Messages
    BY <1>0, <1>s, <1>5, AnswerTyped, Zenon DEF Decide
  <2>2. decided' \in [Ids -> Nat]
    <3>1. m.id \in Ids
      <4>1. Row(m) \in Rows
        BY <1>5, Zenon DEF Decide, HandlerInv, RowsInv, Sent
      <4> QED
        BY <4>1, Zenon DEF Row, Rows
    <3>2. decided \in [Ids -> Nat] /\ decided' = [decided EXCEPT ![m.id] = decided[m.id] + 1]
      BY <1>5, Zenon DEF Decide, Typed
    <3> QED
      BY <3>1, <3>2
  <2> QED
    BY <1>5, <2>1, <2>2, Zenon DEF Decide, Typed
<1>6. CASE Lose(m)
  <2>1. left' \in Scenario
    BY <1>6, LeftTyped, Zenon DEF Lose, Typed
  <2> QED
    BY <1>6, <2>1, Zenon DEF Lose, Typed
<1>7. CASE Unreachable(m)
  BY <1>7, Zenon DEF Unreachable, Typed
<1> QED
  BY <1>1, <1>2, <1>3, <1>4, <1>5, <1>6, <1>7, Zenon

\* RivalEnroll, GoStale and the restart of the Collector keep the types.
LEMMA TypedOthers ==
  ASSUME Typed, RivalEnroll \/ GoStale \/ CollectorCrash \/ CollectorStart \/ UNCHANGED vars
  PROVE  Typed'
<1>1. CASE RivalEnroll
  <2>1. Fresh \in Nat
    BY DEF Fresh, Typed
  <2>2. left' \in Scenario
    BY <1>1, LeftTyped, Zenon DEF RivalEnroll, Typed
  <2>3. gateway' \in [token : Nat, stale : BOOLEAN]
    BY <1>1, <2>1, Zenon DEF RivalEnroll
  <2> QED
    BY <1>1, <2>2, <2>3, Zenon DEF RivalEnroll, Typed
<1>2. CASE GoStale
  <2>1. gateway' \in [token : Nat, stale : BOOLEAN]
    BY <1>2, Zenon DEF GoStale, Typed
  <2> QED
    BY <1>2, <2>1, Zenon DEF GoStale, Typed
<1>3. CASE CollectorCrash
  <2>1. left' \in Scenario
    BY <1>3, LeftTyped, Zenon DEF CollectorCrash, Typed
  <2> QED
    BY <1>3, <2>1, Zenon DEF CollectorCrash, Typed
<1>4. CASE CollectorStart
  BY <1>4, Zenon DEF CollectorStart, Typed
<1>5. CASE UNCHANGED vars
  BY <1>5, Zenon DEF vars, Typed
<1> QED
  BY <1>1, <1>2, <1>3, <1>4, <1>5, Zenon

-----------------------------------------------------------------------------
(* What the steps do to the requests on their way.                         *)

\* x is the request m at a later stage, and takes its place.
SameBatch(x, m) == x.kind = m.kind /\ x.boot = m.boot /\ x.seq = m.seq /\ x.id = m.id
Replaced(m, x) == wire' = (wire \ {m}) \cup {x} /\ SameBatch(x, m)

\* A request is the same batch in every stage.
LEMMA MovedMessage ==
  ASSUME NEW m \in Messages, NEW s, NEW t, NEW k
  PROVE  /\ LET x == [m EXCEPT !.stage = s]
            IN  SameBatch(x, m) /\ x.stage = s /\ x.status = m.status /\ x.live = m.live
         /\ LET x == [m EXCEPT !.live = FALSE]
            IN  SameBatch(x, m) /\ x.stage = m.stage /\ x.status = m.status /\ x.live = FALSE
         /\ LET x == [m EXCEPT !.stage = s, !.status = t, !.token = k]
            IN  SameBatch(x, m) /\ x.stage = s /\ x.status = t /\ x.live = m.live
BY Zenon DEF Messages, SameBatch

\* An answered request that nobody waits for is gone.
LEMMA AnswerEffect ==
  ASSUME wire \subseteq Messages, NEW m \in wire, NEW t, NEW k, Answer(m, t, k)
  PROVE  \/ wire' = wire \ {m}
         \/ m.live /\ \E x : /\ Replaced(m, x) /\ x.live = m.live
                             /\ x.stage = "answered" /\ x.status = t
<1> DEFINE x == [m EXCEPT !.stage = "answered", !.status = t, !.token = k]
<1>0. m \in Messages
  OBVIOUS
<1>1. SameBatch(x, m) /\ x.stage = "answered" /\ x.status = t /\ x.live = m.live
  BY <1>0, Zenon DEF Messages, SameBatch
<1>2. CASE m.live
  <2>1. wire' = (wire \ {m}) \cup {x}
    BY <1>2, Zenon DEF Answer
  <2> HIDE DEF x
  <2> QED
    BY <1>1, <1>2, <2>1, Zenon DEF Replaced
<1>3. CASE ~m.live
  BY <1>3, Zenon DEF Answer
<1> QED
  BY <1>2, <1>3, Zenon

\* ingest_batches: the row of a request depends on its batch only.
LEMMA SameRow == ASSUME NEW x, NEW m, SameBatch(x, m) PROVE Row(x) = Row(m)
BY Zenon DEF SameBatch, Row

\* No new rows are on their way.
LEMMA SentShrinks ==
  ASSUME \A n \in wire' : n.kind = "batch" => \E m \in wire : SameBatch(n, m)
  PROVE  Sent' \subseteq Sent
<1>1. ASSUME NEW n \in wire', n.kind = "batch" PROVE Row(n) \in Sent
  <2>1. PICK m \in wire : SameBatch(n, m)
    BY <1>1, Zenon
  <2>2. Row(n) = Row(m) /\ m.kind = "batch"
    BY <1>1, <2>1, SameRow, Zenon DEF SameBatch
  <2> QED
    BY <2>2, Zenon DEF Sent
<1> QED
  BY <1>1, Zenon DEF Sent, Row

-----------------------------------------------------------------------------
(* The numbering survives steps that create no row.                        *)

core == <<agent.up, agent.boot, agent.hand, agent.seq, agent.queue>>

\* A step that creates no request and leaves the buffer alone keeps the
\* numbering.
LEMMA RowsKept ==
  ASSUME RowsInv, QueueInv, UNCHANGED <<core, ingested, submitted>>, Sent' \subseteq Sent
  PROVE  RowsInv' /\ QueueInv'
<1>1. /\ InHand' = InHand /\ Known' \subseteq Known /\ Sent' \ ingested' \subseteq Sent \ ingested
      /\ agent'.up = agent.up /\ agent'.boot = agent.boot /\ agent'.hand = agent.hand
      /\ agent'.seq = agent.seq /\ agent'.queue = agent.queue /\ submitted' = submitted
  BY Zenon DEF core, InHand, Known
<1>2. RowsInv'
  BY <1>1 DEF RowsInv
<1>3. QueueInv'
  BY <1>1, Zenon DEF QueueInv
<1> QED
  BY <1>2, <1>3, Zenon

-----------------------------------------------------------------------------
(* The Collector and the network.                                          *)

\* Requests that are lost take nothing with them.
LEMMA DropKeeps ==
  ASSUME SenderInv, HandlerInv, RowsInv, QueueInv, DecidedInv,
         wire' \subseteq wire, UNCHANGED <<agent, ingested, decided, submitted>>
  PROVE  (SenderInv /\ HandlerInv /\ RowsInv /\ QueueInv /\ DecidedInv)'
<1>0. /\ agent' = agent /\ ingested' = ingested /\ decided' = decided /\ submitted' = submitted
      /\ InHand' = InHand
  BY Zenon DEF InHand
<1>1. SenderInv'
  BY <1>0 DEF SenderInv, Row
<1>2. HandlerInv'
  BY <1>0, Zenon DEF HandlerInv, Row
<1>3. Sent' \subseteq Sent
  BY SentShrinks, Zenon DEF SameBatch
<1>4. RowsInv' /\ QueueInv'
  BY <1>0, <1>3, RowsKept, Zenon DEF core
<1>5. DecidedInv'
  BY <1>0, Zenon DEF DecidedInv
<1> QED
  BY <1>1, <1>2, <1>4, <1>5, Zenon

\* A request moves to another stage, short of the one after the transaction.
LEMMA ReplaceKeeps ==
  ASSUME SenderInv, HandlerInv, RowsInv, QueueInv, DecidedInv,
         NEW m \in wire, NEW x, Replaced(m, x), UNCHANGED <<agent, ingested, submitted>>,
         x.live = m.live, x.stage = "answered" => m.live /\ x.status # "none",
         x.stage = "authed" => m.kind = "batch", x.stage # "stored",
         m.kind = "batch" /\ x.status = "ok" => Row(m) \in ingested
  PROVE  (SenderInv /\ HandlerInv /\ RowsInv /\ QueueInv)' /\ (decided' = decided => DecidedInv')
<1>0. /\ agent' = agent /\ ingested' = ingested /\ submitted' = submitted /\ InHand' = InHand
      /\ wire' = (wire \ {m}) \cup {x} /\ Row(x) = Row(m) /\ x.kind = m.kind /\ x.boot = m.boot
  BY SameRow, Zenon DEF InHand, Replaced, SameBatch
<1>1. SenderInv'
  <2>1. \A n \in wire' : n.live => \E k \in wire : k.live /\ k.boot = n.boot /\ k.kind = n.kind
                                                   /\ Row(k) = Row(n)
    BY <1>0, Zenon
  <2>2. \A n, k \in wire' : n.live /\ k.live => n = k
    BY <1>0, Zenon DEF SenderInv
  <2> QED
    BY <1>0, <2>1, <2>2 DEF SenderInv
<1>2. HandlerInv'
  BY <1>0 DEF HandlerInv
<1>3. Sent' \subseteq Sent
  <2>1. \A n \in wire' : \E k \in wire : SameBatch(n, k)
    BY <1>0, Zenon DEF SameBatch, Replaced
  <2> QED
    BY <2>1, SentShrinks, Zenon
<1>4. RowsInv' /\ QueueInv'
  BY <1>0, <1>3, RowsKept, Zenon DEF core
<1>5. decided' = decided => DecidedInv'
  BY <1>0 DEF DecidedInv
<1> QED
  BY <1>1, <1>2, <1>4, <1>5, Zenon

\* An answer: `ok` goes to a batch only after it was stored.
LEMMA AnswerKeeps ==
  ASSUME wire \subseteq Messages, SenderInv, HandlerInv, RowsInv, QueueInv, DecidedInv,
         NEW m \in wire, NEW t, NEW k, Answer(m, t, k), t # "none",
         m.kind = "batch" /\ t = "ok" => Row(m) \in ingested,
         UNCHANGED <<agent, ingested, submitted>>
  PROVE  /\ (SenderInv /\ HandlerInv /\ RowsInv /\ QueueInv)'
         /\ decided' = decided => DecidedInv'
         /\ \A n \in wire' : n.stage = "stored" => n \in wire \ {m}
<1>1. CASE wire' = wire \ {m}
  <2>1. wire' \subseteq wire /\ \A n \in wire' : n \in wire \ {m}
    BY <1>1, Zenon
  <2>2. /\ agent' = agent /\ ingested' = ingested /\ submitted' = submitted /\ InHand' = InHand
    BY Zenon DEF InHand
  <2>3. SenderInv' /\ HandlerInv' /\ (decided' = decided => DecidedInv')
    BY <2>1, <2>2 DEF SenderInv, HandlerInv, DecidedInv, Row
  <2>4. Sent' \subseteq Sent
    BY <2>1, SentShrinks, Zenon DEF SameBatch
  <2>5. RowsInv' /\ QueueInv'
    BY <2>2, <2>4, RowsKept, Zenon DEF core
  <2> QED
    BY <2>1, <2>3, <2>5, Zenon
<1>2. CASE m.live /\ \E x : /\ Replaced(m, x) /\ x.live = m.live
                            /\ x.stage = "answered" /\ x.status = t
  <2>1. PICK x : Replaced(m, x) /\ x.live = m.live /\ x.stage = "answered" /\ x.status = t
    BY <1>2, Zenon
  <2>2. x.stage # "authed" /\ x.stage # "stored"
    BY <2>1, Zenon
  <2>3. (SenderInv /\ HandlerInv /\ RowsInv /\ QueueInv)' /\ (decided' = decided => DecidedInv')
    BY <1>2, <2>1, <2>2, ReplaceKeeps, Zenon
  <2>4. \A n \in wire' : n.stage = "stored" => n \in wire \ {m}
    BY <2>1, Zenon DEF Replaced
  <2> QED
    BY <2>3, <2>4, Zenon
<1> QED
  BY <1>1, <1>2, AnswerEffect, Zenon

\* The check for a known boot and sequence number recognises exactly the rows
\* that are stored.
LEMMA KnownIsStored ==
  ASSUME HandlerInv, RowsInv, NEW m \in wire, m.kind = "batch"
  PROVE  /\ Row(m) \in Sent /\ Row(m) \in Known /\ Row(m) \in Rows
         /\ (\E r \in ingested : r.boot = m.boot /\ r.seq = m.seq) <=> Row(m) \in ingested
<1>1. Row(m) \in Sent /\ Row(m) \in Known /\ Row(m) \in Rows
  BY Zenon DEF Sent, Known, RowsInv
<1>2. Row(m).boot = m.boot /\ Row(m).seq = m.seq
  BY Zenon DEF Row
<1>3. ASSUME NEW r \in ingested, r.boot = m.boot, r.seq = m.seq PROVE r = Row(m)
  BY <1>1, <1>2, <1>3, Zenon DEF RowsInv, Known
<1> QED
  BY <1>1, <1>2, <1>3, Zenon

\* The handlers of the Collector, Persist aside, and the network.
LEMMA CollectorKeeps ==
  ASSUME Typed, SenderInv, HandlerInv, RowsInv, QueueInv, DecidedInv, NEW m \in wire,
         Enroll(m) \/ Authenticate(m) \/ Refuse(m) \/ Decide(m) \/ Lose(m) \/ Unreachable(m)
  PROVE  (SenderInv /\ HandlerInv /\ RowsInv /\ QueueInv /\ DecidedInv)'
<1>0. wire \subseteq Messages /\ m \in Messages
  BY Zenon DEF Typed
<1>1. CASE Enroll(m)
  <2>1. /\ Answer(m, "ok", Fresh) \/ Answer(m, "failed", 0)
        /\ m.kind # "batch" /\ UNCHANGED <<agent, ingested, decided, submitted>>
    BY <1>1, Zenon DEF Enroll
  <2> QED
    BY <1>0, <2>1, AnswerKeeps, Zenon
<1>2. CASE Authenticate(m)
  <2>1. m.kind = "batch" /\ m.stage = "sent" /\ UNCHANGED <<agent, ingested, decided, submitted>>
    BY <1>2, Zenon DEF Authenticate
  <2>2. CASE m.token # gateway.token
    <3>1. Answer(m, "unauthorized", 0)
      BY <1>2, <2>2, Zenon DEF Authenticate
    <3> QED
      BY <1>0, <2>1, <3>1, AnswerKeeps, Zenon
  <2>3. CASE m.token = gateway.token
    <3> DEFINE x == [m EXCEPT !.stage = "authed"]
    <3>1. SameBatch(x, m) /\ x.stage = "authed" /\ x.status = m.status /\ x.live = m.live
      BY <1>0, Zenon DEF Messages, SameBatch
    <3>2. wire' = (wire \ {m}) \cup {x}
      BY <1>2, <2>3, Zenon DEF Authenticate
    <3> HIDE DEF x
    <3>3. Replaced(m, x)
      BY <3>1, <3>2, Zenon DEF Replaced
    <3>4. x.status = "ok" => Row(m) \in ingested
      BY <2>1, <3>1, Zenon DEF HandlerInv
    <3> QED
      BY <2>1, <3>1, <3>3, <3>4, ReplaceKeeps, Zenon
  <2> QED
    BY <2>2, <2>3, Zenon
<1>3. CASE Refuse(m)
  <2>1. Answer(m, "failed", 0) /\ UNCHANGED <<agent, ingested, decided, submitted>>
    BY <1>3, Zenon DEF Refuse
  <2> QED
    BY <1>0, <2>1, AnswerKeeps, Zenon
<1>4. CASE Decide(m)
  <2>1. /\ Answer(m, "ok", 0) /\ UNCHANGED <<agent, ingested, submitted>> /\ m.stage = "stored"
        /\ decided' = [decided EXCEPT ![m.id] = decided[m.id] + 1]
    BY <1>4, Zenon DEF Decide
  <2>2. m.kind = "batch" /\ Row(m) \in ingested
    BY <2>1, Zenon DEF HandlerInv
  <2>3. /\ (SenderInv /\ HandlerInv /\ RowsInv /\ QueueInv)'
        /\ \A n \in wire' : n.stage = "stored" => n \in wire \ {m}
    BY <1>0, <2>1, <2>2, AnswerKeeps, Zenon
  <2>4. \A n \in wire' : n.stage # "stored"
    BY <2>1, <2>3, Zenon DEF HandlerInv
  <2>5. m.id \in Ids /\ \E r \in ingested : r.id = m.id
    <3>1. Row(m) \in Rows /\ Row(m).id = m.id
      BY <2>2, KnownIsStored, Zenon DEF Row
    <3> QED
      BY <2>2, <3>1, Zenon DEF Rows
  <2>6. decided[m.id] = 0 /\ decided \in [Ids -> Nat]
    BY <2>1, Zenon DEF DecidedInv, Typed
  <2>7. DecidedInv'
    BY <2>1, <2>4, <2>5, <2>6 DEF DecidedInv
  <2> QED
    BY <2>3, <2>7, Zenon
<1>5. CASE Lose(m) \/ Unreachable(m)
  <2>1. wire' \subseteq wire /\ UNCHANGED <<agent, ingested, decided, submitted>>
    BY <1>5, Zenon DEF Lose, Unreachable
  <2> QED
    BY <2>1, DropKeeps, Zenon
<1> QED
  BY <1>1, <1>2, <1>3, <1>4, <1>5, Zenon

\* The transaction of accept_batch: a batch that is not stored yet is.
LEMMA PersistKeeps ==
  ASSUME Typed, SenderInv, HandlerInv, RowsInv, QueueInv, DecidedInv, NEW m \in wire, Persist(m)
  PROVE  (SenderInv /\ HandlerInv /\ RowsInv /\ QueueInv /\ DecidedInv)'
<1>0. wire \subseteq Messages /\ m \in Messages
  BY Zenon DEF Typed
<1>1. /\ m.stage = "authed" /\ m.kind = "batch" /\ UNCHANGED <<agent, decided, submitted>>
      /\ \A n \in wire : n.stage # "stored"
  BY Zenon DEF Persist, HandlerInv, Unlocked
<1>2. /\ Row(m) \in Sent /\ Row(m) \in Known /\ Row(m) \in Rows
      /\ (\E r \in ingested : r.boot = m.boot /\ r.seq = m.seq) <=> Row(m) \in ingested
  BY <1>1, KnownIsStored, Zenon
<1>3. CASE Row(m) \in ingested
  <2>1. Answer(m, "ok", 0) /\ ingested' = ingested
    BY <1>2, <1>3, Zenon DEF Persist
  <2> QED
    BY <1>0, <1>1, <1>3, <2>1, AnswerKeeps, Zenon
<1>4. CASE Row(m) \notin ingested
  <2> DEFINE x == [m EXCEPT !.stage = "stored"]
  <2>1. SameBatch(x, m) /\ x.stage = "stored" /\ x.status = m.status /\ x.live = m.live
    BY <1>0, Zenon DEF Messages, SameBatch
  <2>2. ingested' = ingested \cup {Row(m)} /\ wire' = (wire \ {m}) \cup {x}
    BY <1>2, <1>4, Zenon DEF Persist
  <2> HIDE DEF x
  <2>3. /\ agent' = agent /\ submitted' = submitted /\ decided' = decided /\ InHand' = InHand
        /\ Row(x) = Row(m) /\ x.kind = m.kind /\ x.boot = m.boot /\ x.id = m.id
    BY <1>1, <2>1, SameRow, Zenon DEF InHand, SameBatch
  <2>4. SenderInv'
    <3>1. \A n \in wire' : n.live => \E k \in wire : k.live /\ k.boot = n.boot /\ k.kind = n.kind
                                                     /\ Row(k) = Row(n)
      BY <2>1, <2>2, <2>3, Zenon
    <3>2. \A n, k \in wire' : n.live /\ k.live => n = k
      BY <2>1, <2>2, Zenon DEF SenderInv
    <3> QED
      BY <2>3, <3>1, <3>2 DEF SenderInv
  <2>5. HandlerInv'
    BY <1>1, <2>1, <2>2, <2>3, Zenon DEF HandlerInv
  <2>6. /\ Sent' \subseteq Sent /\ Known' \subseteq Known
        /\ Sent' \ ingested' \subseteq Sent \ ingested
    <3>1. \A n \in wire' : \E k \in wire : SameBatch(n, k)
      BY <2>1, <2>2, Zenon DEF SameBatch
    <3>2. Sent' \subseteq Sent
      BY <3>1, SentShrinks, Zenon
    <3> QED
      BY <1>2, <2>2, <2>3, <3>2, Zenon DEF Known
  <2>7. RowsInv'
    BY <2>3, <2>6, Zenon DEF RowsInv
  <2>8. QueueInv'
    BY <2>3, <2>6, Zenon DEF QueueInv
  <2>9. DecidedInv'
    <3>1. Row(m).id = m.id /\ m.id \in Ids
      BY <1>2, Zenon DEF Row, Rows
    <3>2. ASSUME NEW r \in ingested, r.id = m.id PROVE FALSE
      BY <1>2, <1>4, <3>1, <3>2, Zenon DEF RowsInv, Known
    <3>3. decided[m.id] = 0
      BY <3>1, <3>2, Zenon DEF DecidedInv
    <3> QED
      BY <1>1, <2>1, <2>2, <2>3, <3>3 DEF DecidedInv
  <2> QED
    BY <2>4, <2>5, <2>7, <2>8, <2>9, Zenon
<1> QED
  BY <1>3, <1>4, Zenon

-----------------------------------------------------------------------------
(* The Agent.                                                              *)

\* A step of the Agent that leaves the requests and the database alone does
\* not concern the Collector.
LEMMA CollectorUntouched ==
  ASSUME HandlerInv, DecidedInv, UNCHANGED <<wire, ingested, decided>>
  PROVE  HandlerInv' /\ DecidedInv' /\ Sent' = Sent
BY Zenon DEF HandlerInv, DecidedInv, Sent, Row

\* SIGTERM and the closing of the buffer concern no batch.
LEMMA SignalKeeps ==
  ASSUME Typed, SenderInv, HandlerInv, RowsInv, QueueInv, DecidedInv, Signal \/ Close
  PROVE  (SenderInv /\ HandlerInv /\ RowsInv /\ QueueInv /\ DecidedInv)'
<1>0. agent \in Agents
  BY Zenon DEF Typed
<1>1. UNCHANGED <<core, agent.pc>>
  BY <1>0, Zenon DEF Signal, Close, Agents, core
<1>2. UNCHANGED <<wire, ingested, decided, submitted>>
  BY Zenon DEF Signal, Close
<1>3. HandlerInv' /\ DecidedInv' /\ Sent' = Sent
  BY <1>2, CollectorUntouched, Zenon
<1>4. RowsInv' /\ QueueInv'
  BY <1>1, <1>2, <1>3, RowsKept, Zenon
<1>5. SenderInv'
  BY <1>1, <1>2, Zenon DEF SenderInv, core, InHand, Row
<1> QED
  BY <1>3, <1>4, <1>5, Zenon

\* A process starts with nothing of its own known anywhere.
LEMMA StartKeeps ==
  ASSUME Typed, SenderInv, HandlerInv, RowsInv, QueueInv, DecidedInv, Start
  PROVE  (SenderInv /\ HandlerInv /\ RowsInv /\ QueueInv /\ DecidedInv)'
<1>0. agent.boot \in Nat /\ submitted \in Nat /\ ingested \subseteq Rows /\ Sent \subseteq Rows
  BY Bounds, AgentFields DEF Typed, RowsInv
<1>1. /\ agent'.up = TRUE /\ agent'.boot = agent.boot + 1 /\ agent'.hand = 0 /\ agent'.seq = 0
      /\ agent'.queue = <<>> /\ agent'.pc = "pop"
  BY Zenon DEF Start, Down
<1>2. UNCHANGED <<wire, ingested, decided, submitted>> /\ ~agent.up
  BY Zenon DEF Start
<1>3. HandlerInv' /\ DecidedInv' /\ Sent' = Sent
  BY <1>2, CollectorUntouched, Zenon
<1>4. InHand = {} /\ InHand' = {} /\ Known' = Known
  BY <1>1, <1>2, <1>3, Zenon DEF SenderInv, InHand, Known
<1>5. \A t \in Known : t.boot \in Nat
  BY <1>0, <1>4, Bounds DEF Known, Rows, Boots
<1>6. RowsInv'
  BY <1>0, <1>1, <1>2, <1>3, <1>4, <1>5 DEF RowsInv, Known
<1>7. QueueInv'
  BY <1>0, <1>1, <1>2 DEF QueueInv
<1>8. SenderInv'
  BY <1>0, <1>1, <1>2 DEF SenderInv
<1> QED
  BY <1>3, <1>6, <1>7, <1>8, Zenon

\* A request outlives its process as it was, with nobody waiting for it.
LEMMA OrphansKeep ==
  ASSUME Typed, SenderInv, HandlerInv, RowsInv, QueueInv, DecidedInv, Exit \/ Kill
  PROVE  (SenderInv /\ HandlerInv /\ RowsInv /\ QueueInv /\ DecidedInv)'
<1>0. wire \subseteq Messages /\ agent.boot \in Nat /\ submitted \in Nat
  BY AgentFields, Bounds DEF Typed
<1>1. /\ agent'.up = FALSE /\ agent'.boot = agent.boot /\ agent'.hand = 0 /\ agent'.seq = 0
      /\ agent'.queue = <<>> /\ agent'.pc = "done"
  <2>1. agent' = Down(agent.boot)
    BY Zenon DEF Exit, Kill
  <2> QED
    BY <2>1, Zenon DEF Down
<1>2. UNCHANGED <<ingested, decided, submitted>> /\ wire' = Orphans
  BY Zenon DEF Exit, Kill
<1>3. ASSUME NEW n \in wire'
      PROVE  \E m \in wire : /\ n = [m EXCEPT !.live = FALSE] /\ m.stage # "answered"
                             /\ SameBatch(n, m) /\ n.stage = m.stage /\ n.status = m.status
                             /\ n.live = FALSE
  <2>1. PICK m \in wire : n = [m EXCEPT !.live = FALSE] /\ m.stage # "answered"
    BY <1>2, Zenon DEF Orphans
  <2>2. m \in Messages
    BY <1>0, Zenon
  <2> QED
    BY <2>1, <2>2, Zenon DEF Messages, SameBatch
<1>4. Sent' \subseteq Sent
  BY <1>3, SentShrinks, Zenon
<1>5. InHand' = {} /\ Known' \subseteq Known /\ Sent' \ ingested' \subseteq Sent \ ingested
  BY <1>1, <1>2, <1>4, Zenon DEF InHand, Known
<1>6. SenderInv'
  BY <1>1, <1>3, Zenon DEF SenderInv
<1>7. HandlerInv'
  <2>1. \A n \in wire' : /\ n.stage \in {"authed", "stored"} => n.kind = "batch"
                         /\ n.stage # "answered"
                         /\ n.kind = "batch" /\ (n.stage = "stored" \/ n.status = "ok")
                              => Row(n) \in ingested
    <3>1. SUFFICES ASSUME NEW n \in wire'
                   PROVE  /\ n.stage \in {"authed", "stored"} => n.kind = "batch"
                          /\ n.stage # "answered"
                          /\ n.kind = "batch" /\ (n.stage = "stored" \/ n.status = "ok")
                               => Row(n) \in ingested
      OBVIOUS
    <3>2. PICK m \in wire : /\ m.stage # "answered" /\ SameBatch(n, m)
                            /\ n.stage = m.stage /\ n.status = m.status
      BY <1>3, Zenon
    <3>3. Row(n) = Row(m) /\ n.kind = m.kind
      BY <3>2, SameRow, Zenon DEF SameBatch
    <3> QED
      BY <3>2, <3>3, Zenon DEF HandlerInv
  <2>2. ASSUME NEW n \in wire', NEW k \in wire', n.stage = "stored", k.stage = "stored"
        PROVE  n = k
    <3>1. PICK m \in wire : n = [m EXCEPT !.live = FALSE] /\ n.stage = m.stage
      BY <1>3, Zenon
    <3>2. PICK l \in wire : k = [l EXCEPT !.live = FALSE] /\ k.stage = l.stage
      BY <1>3, Zenon
    <3> QED
      BY <2>2, <3>1, <3>2, Zenon DEF HandlerInv
  <2> QED
    BY <1>2, <2>1, <2>2, Zenon DEF HandlerInv, Row
<1>8. RowsInv'
  BY <1>0, <1>1, <1>2, <1>4, <1>5, Zenon DEF RowsInv
<1>9. QueueInv'
  BY <1>0, <1>1, <1>2 DEF QueueInv
<1>10. DecidedInv'
  <2>1. \A n \in wire' : n.stage = "stored" => \E m \in wire : m.stage = "stored" /\ m.id = n.id
    <3>1. SUFFICES ASSUME NEW n \in wire', n.stage = "stored"
                   PROVE  \E m \in wire : m.stage = "stored" /\ m.id = n.id
      OBVIOUS
    <3>2. PICK m \in wire : SameBatch(n, m) /\ n.stage = m.stage
      BY <1>3, Zenon
    <3> QED
      BY <3>1, <3>2, Zenon DEF SameBatch
  <2>2. \A n \in wire' : n.stage = "stored" => decided'[n.id] = 0
    BY <1>2, <2>1 DEF DecidedInv
  <2> QED
    BY <1>2, <2>2, Zenon DEF DecidedInv
<1> QED
  BY <1>6, <1>7, <1>8, <1>9, <1>10, Zenon

\* sender_loop goes on with the batch in its hands while no request is waited
\* for: the retry keeps the sequence number.
LEMMA SenderMoves ==
  ASSUME SenderInv, UNCHANGED core, agent.pc \notin {"pop", "done"}, agent'.pc # "pop",
         \A m \in wire' : ~m.live
  PROVE  SenderInv'
<1>1. agent.hand # 0
  BY Zenon DEF SenderInv
<1>2. agent'.hand = agent.hand /\ agent'.up = agent.up /\ agent'.boot = agent.boot
      /\ agent'.seq = agent.seq /\ agent'.queue = agent.queue
  BY Zenon DEF core
<1> QED
  BY <1>1, <1>2, Zenon DEF SenderInv

\* Where the sender is when no request is waited for.
LEMMA NobodyWaits ==
  ASSUME SenderInv, agent.pc \notin {"enrolling", "sending"}
  PROVE  \A m \in wire : ~m.live
BY Zenon DEF SenderInv

\* The delay between two attempts, and a connection that is gone.
LEMMA DelayKeeps ==
  ASSUME Typed, SenderInv, HandlerInv, RowsInv, QueueInv, DecidedInv, Delay \/ Disconnected
  PROVE  (SenderInv /\ HandlerInv /\ RowsInv /\ QueueInv /\ DecidedInv)'
<1>0. agent \in Agents
  BY Zenon DEF Typed
<1>1. PICK p : agent' = [agent EXCEPT !.pc = p] /\ p # "pop"
  BY DEF Delay, Disconnected
<1>2. UNCHANGED core /\ agent'.pc # "pop"
  BY <1>0, <1>1, Zenon DEF core, Agents
<1>3. UNCHANGED <<wire, ingested, decided, submitted>> /\ agent.pc \notin {"pop", "done"}
  BY Zenon DEF Delay, Disconnected, Waiting
<1>4. \A m \in wire' : ~m.live
  BY <1>3, NobodyWaits, Zenon DEF Delay, Disconnected
<1>5. HandlerInv' /\ DecidedInv' /\ Sent' = Sent
  BY <1>3, CollectorUntouched, Zenon
<1>6. RowsInv' /\ QueueInv'
  BY <1>2, <1>3, <1>5, RowsKept, Zenon
<1>7. SenderInv'
  BY <1>2, <1>3, <1>4, SenderMoves, Zenon
<1> QED
  BY <1>5, <1>6, <1>7, Zenon

\* The handlers have nothing to do yet with a request that has just left.
LEMMA NewRequest ==
  ASSUME HandlerInv, DecidedInv, NEW x, wire' = wire \cup {x}, UNCHANGED <<ingested, decided>>,
         x.stage = "sent", x.status = "none"
  PROVE  HandlerInv' /\ DecidedInv'
<1>1. HandlerInv'
  BY Zenon DEF HandlerInv, Row
<1>2. DecidedInv'
  BY Zenon DEF DecidedInv
<1> QED
  BY <1>1, <1>2, Zenon

\* enroll: a request without a batch.
LEMMA SendEnrollKeeps ==
  ASSUME Typed, SenderInv, HandlerInv, RowsInv, QueueInv, DecidedInv, SendEnroll
  PROVE  (SenderInv /\ HandlerInv /\ RowsInv /\ QueueInv /\ DecidedInv)'
<1>0. agent \in Agents
  BY Zenon DEF Typed
<1> DEFINE x == Request("enroll")
<1>1. x.kind = "enroll" /\ x.boot = agent.boot /\ x.stage = "sent" /\ x.status = "none"
  BY Zenon DEF Request
<1>2. UNCHANGED core /\ agent'.pc = "enrolling"
  BY <1>0, Zenon DEF core, Agents, SendEnroll
<1>3. /\ UNCHANGED <<ingested, decided, submitted>> /\ wire' = wire \cup {x}
      /\ agent.up /\ agent.pc = "enroll"
  BY Zenon DEF SendEnroll
<1> HIDE DEF x
<1>4. HandlerInv' /\ DecidedInv'
  BY <1>1, <1>3, NewRequest, Zenon
<1>5. Sent' = Sent
  BY <1>1, <1>3, Zenon DEF Sent, Row
<1>6. RowsInv' /\ QueueInv'
  BY <1>2, <1>3, <1>5, RowsKept, Zenon
<1>7. SenderInv'
  <2>1. \A m \in wire : ~m.live
    BY <1>3, NobodyWaits, Zenon
  <2>2. agent.hand # 0 /\ agent'.hand = agent.hand /\ agent'.up = agent.up /\ agent'.boot = agent.boot
        /\ agent'.seq = agent.seq /\ agent'.queue = agent.queue
    BY <1>2, <1>3, Zenon DEF core, SenderInv
  <2> QED
    BY <1>1, <1>2, <1>3, <2>1, <2>2, Zenon DEF SenderInv
<1> QED
  BY <1>4, <1>6, <1>7, Zenon

\* send_batch: the row in the sender's hands is on its way, once more or for
\* the first time.
LEMMA SendBatchKeeps ==
  ASSUME Typed, SenderInv, HandlerInv, RowsInv, QueueInv, DecidedInv, SendBatch
  PROVE  (SenderInv /\ HandlerInv /\ RowsInv /\ QueueInv /\ DecidedInv)'
<1>0. agent \in Agents
  BY Zenon DEF Typed
<1> DEFINE x == Request("batch")
<1>1. /\ x.kind = "batch" /\ x.boot = agent.boot /\ x.stage = "sent" /\ x.status = "none"
      /\ x.seq = agent.seq /\ x.id = agent.hand
  BY Zenon DEF Request
<1>2. UNCHANGED core /\ agent'.pc = "sending"
  BY <1>0, Zenon DEF core, Agents, SendBatch
<1>3. /\ UNCHANGED <<ingested, decided, submitted>> /\ wire' = wire \cup {x}
      /\ agent.up /\ agent.pc = "send"
  BY Zenon DEF SendBatch
<1> HIDE DEF x
<1>4. HandlerInv' /\ DecidedInv'
  BY <1>1, <1>3, NewRequest, Zenon
<1>5. /\ agent.hand # 0 /\ agent'.hand = agent.hand /\ agent'.up = agent.up
      /\ agent'.boot = agent.boot /\ agent'.seq = agent.seq /\ agent'.queue = agent.queue
  BY <1>2, <1>3, Zenon DEF core, SenderInv
<1>6. InHand = {Row(x)} /\ InHand' = InHand
  BY <1>1, <1>5, Zenon DEF InHand, Row
<1>7. Sent' = Sent \cup {Row(x)}
  BY <1>1, <1>3, Zenon DEF Sent, Row
<1>8. Known' = Known /\ Sent' \ ingested' \subseteq (Sent \ ingested) \cup InHand
  BY <1>3, <1>6, <1>7, Zenon DEF Known
<1>9. Row(x) \in Rows
  <2>1. agent.boot \in Boots /\ agent.seq \in Ids /\ agent.hand \in Ids
    BY <1>0, <1>3, <1>5, AgentFields, Bounds DEF SenderInv, Boots, Ids
  <2> QED
    BY <1>1, <2>1, Zenon DEF Row, Rows
<1>10. RowsInv'
  <2>1. Sent' \subseteq Rows
    BY <1>7, <1>9, Zenon DEF RowsInv
  <2>2. /\ \A t, u \in Known' : t.id = u.id \/ (t.boot = u.boot /\ t.seq = u.seq) => t = u
        /\ \A t \in Known' : /\ t.boot <= agent'.boot /\ t.id <= submitted'
                             /\ agent'.up /\ t.boot = agent'.boot => t.seq <= agent'.seq
    BY <1>3, <1>5, <1>8, Zenon DEF RowsInv
  <2>3. \A t \in Sent' \ ingested' : t.boot = agent.boot => t \in InHand
    BY <1>3, <1>8, Zenon DEF RowsInv
  <2>4. ASSUME NEW t \in Sent' \ ingested', NEW u \in Sent' \ ingested', t.boot = u.boot
        PROVE  t = u
    <3>1. CASE t.boot = agent.boot
      <4>1. t \in InHand
        BY <2>3, <3>1, Zenon
      <4>2. u.boot = agent.boot
        BY <2>4, <3>1, Zenon
      <4>3. u \in InHand
        BY <2>3, <4>2, Zenon
      <4> QED
        BY <1>6, <4>1, <4>3, Zenon
    <3>2. CASE t.boot # agent.boot
      <4>1. Row(x).boot = agent.boot
        BY <1>1, Zenon DEF Row
      <4>2. t \in Sent \ ingested /\ u \in Sent \ ingested
        BY <1>6, <1>8, <2>4, <3>2, <4>1, Zenon
      <4> QED
        BY <2>4, <4>2, Zenon DEF RowsInv
    <3> QED
      BY <3>1, <3>2, Zenon
  <2> QED
    BY <1>3, <1>5, <1>6, <2>1, <2>2, <2>3, <2>4, Zenon DEF RowsInv
<1>11. QueueInv'
  BY <1>3, <1>5, <1>8, Zenon DEF QueueInv
<1>12. SenderInv'
  <2>1. \A m \in wire : ~m.live
    BY <1>3, NobodyWaits, Zenon
  <2> QED
    BY <1>1, <1>2, <1>3, <1>5, <1>6, <2>1, Zenon DEF SenderInv
<1> QED
  BY <1>4, <1>10, <1>11, <1>12, Zenon

\* One request is waited for; without it nobody waits.
LEMMA LastWaiter ==
  ASSUME SenderInv, NEW m \in wire, m.live, NEW y, ~y.live, wire' \subseteq (wire \ {m}) \cup {y}
  PROVE  \A n \in wire' : ~n.live
BY Zenon DEF SenderInv

\* IO_TIMEOUT: the request goes on without the sender.
LEMMA TimeoutKeeps ==
  ASSUME Typed, SenderInv, HandlerInv, RowsInv, QueueInv, DecidedInv, Timeout
  PROVE  (SenderInv /\ HandlerInv /\ RowsInv /\ QueueInv /\ DecidedInv)'
<1>0. agent \in Agents /\ wire \subseteq Messages
  BY Zenon DEF Typed
<1>1. PICK m \in wire : /\ m.live /\ m.stage # "answered"
                        /\ wire' = (wire \ {m}) \cup {[m EXCEPT !.live = FALSE]}
  BY Zenon DEF Timeout
<1>2. UNCHANGED core /\ agent'.pc = "delay"
  BY <1>0, Zenon DEF core, Agents, Timeout
<1>3. UNCHANGED <<ingested, decided, submitted>> /\ agent.pc \notin {"pop", "done"}
  BY Zenon DEF Timeout, Waiting
<1> DEFINE x == [m EXCEPT !.live = FALSE]
<1>4. SameBatch(x, m) /\ x.live = FALSE /\ x.stage = m.stage /\ x.status = m.status
  <2>1. m \in Messages
    BY <1>0, Zenon
  <2> QED
    BY <2>1, Zenon DEF Messages, SameBatch
<1>5. wire' = (wire \ {m}) \cup {x}
  BY <1>1, Zenon
<1> HIDE DEF x
<1>6. SenderInv'
  <2>1. \A n \in wire' : ~n.live
    BY <1>1, <1>4, <1>5, LastWaiter, Zenon
  <2> QED
    BY <1>2, <1>3, <2>1, SenderMoves, Zenon
<1>7. Row(x) = Row(m) /\ x.kind = m.kind /\ x.id = m.id
  BY <1>4, SameRow, Zenon DEF SameBatch
<1>8. HandlerInv'
  <2>1. ASSUME NEW n \in wire'
        PROVE  /\ n.stage \in {"authed", "stored"} => n.kind = "batch"
               /\ n.stage = "answered" => n.live /\ n.status # "none"
               /\ n.kind = "batch" /\ (n.stage = "stored" \/ n.status = "ok") => Row(n) \in ingested
    <3>1. CASE n \in wire
      BY <3>1, Zenon DEF HandlerInv
    <3>2. CASE n = x
      BY <1>1, <1>4, <1>7, <3>2 DEF HandlerInv
    <3> QED
      BY <1>5, <3>1, <3>2, Zenon
  <2>2. \A n, k \in wire' : n.stage = "stored" /\ k.stage = "stored" => n = k
    <3>1. \A n \in wire : n.stage = "stored" /\ x.stage = "stored" => n = m
      BY <1>4, Zenon DEF HandlerInv
    <3>2. \A n, k \in wire : n.stage = "stored" /\ k.stage = "stored" => n = k
      BY Zenon DEF HandlerInv
    <3> QED
      BY <1>5, <3>1, <3>2, Zenon
  <2> QED
    BY <1>3, <2>1, <2>2, Zenon DEF HandlerInv, Row
<1>9. DecidedInv'
  <2>1. \A n \in wire' : n.stage = "stored" => decided[n.id] = 0
    BY <1>4, <1>5, <1>7 DEF DecidedInv
  <2> QED
    BY <1>3, <2>1, Zenon DEF DecidedInv
<1>10. Sent' \subseteq Sent
  <2>1. ASSUME NEW n \in wire' PROVE \E k \in wire : SameBatch(n, k)
    BY <1>4, <1>5, Zenon DEF SameBatch
  <2> QED
    BY <2>1, SentShrinks, Zenon
<1>11. RowsInv' /\ QueueInv'
  BY <1>2, <1>3, <1>10, RowsKept, Zenon
<1> QED
  BY <1>6, <1>8, <1>9, <1>11, Zenon

\* The answer leaves the wire, whatever the sender makes of it.
LEMMA AnswerTaken ==
  ASSUME SenderInv, HandlerInv, DecidedInv, NEW m \in wire, m.live,
         wire' = wire \ {m}, UNCHANGED <<ingested, decided>>
  PROVE  HandlerInv' /\ DecidedInv' /\ Sent' \subseteq Sent /\ \A n \in wire' : ~n.live
<1>1. HandlerInv'
  BY Zenon DEF HandlerInv, Row
<1>2. DecidedInv'
  <2>1. \A n \in wire' : n.stage = "stored" => decided[n.id] = 0
    BY Zenon DEF DecidedInv
  <2> QED
    BY <2>1, Zenon DEF DecidedInv
<1>3. Sent' \subseteq Sent
  BY Zenon DEF Sent, Row
<1>4. \A n \in wire' : ~n.live
  BY Zenon DEF SenderInv
<1> QED
  BY <1>1, <1>2, <1>3, <1>4, Zenon

\* An accepted batch leaves the sender's hands; after any other answer the
\* sender keeps it.
LEMMA ReceiveEffect ==
  ASSUME Typed, HandlerInv, NEW m \in wire, m.stage = "answered",
         TakeEnrollment(m) \/ TakeAnswer(m)
  PROVE  \/ UNCHANGED core /\ agent'.pc # "pop"
         \/ m.kind = "batch" /\ m.status = "ok" /\ agent' = [agent EXCEPT !.hand = 0, !.pc = "pop"]
<1>0. agent \in Agents
  BY Zenon DEF Typed
<1>1. CASE TakeEnrollment(m)
  <2>1. \/ agent' = [agent EXCEPT !.cred = m.token, !.pc = "send"]
        \/ agent' = [agent EXCEPT !.pc = "delay"]
    BY <1>1, Zenon DEF TakeEnrollment
  <2>2. CASE agent' = [agent EXCEPT !.cred = m.token, !.pc = "send"]
    <3>1. UNCHANGED core
      BY <1>0, <2>2, Zenon DEF core, Agents
    <3>2. agent'.pc = "send"
      BY <1>0, <2>2, Zenon DEF Agents
    <3> QED
      BY <3>1, <3>2, Zenon
  <2>3. CASE agent' = [agent EXCEPT !.pc = "delay"]
    <3>1. UNCHANGED core
      BY <1>0, <2>3, Zenon DEF core, Agents
    <3>2. agent'.pc = "delay"
      BY <1>0, <2>3, Zenon DEF Agents
    <3> QED
      BY <3>1, <3>2, Zenon
  <2> QED
    BY <2>1, <2>2, <2>3, Zenon
<1>2. CASE TakeAnswer(m)
  <2>1. m.kind = "batch"
    BY <1>2, Zenon DEF TakeAnswer
  <2>2. m.status \in {"ok", "unauthorized", "failed"}
    <3>1. m.status \in Statuses /\ m.status # "none"
      <4>1. m \in Messages
        BY Zenon DEF Typed
      <4> QED
        BY <4>1, MessageFields, Zenon DEF HandlerInv
    <3> QED
      BY <3>1, Zenon DEF Statuses
  <2>3. \/ m.status = "ok" /\ agent' = [agent EXCEPT !.hand = 0, !.pc = "pop"]
        \/ agent' = [agent EXCEPT !.cred = 0, !.pc = "delay"]
        \/ agent' = [agent EXCEPT !.pc = "delay"]
    BY <1>2, <2>2, Zenon DEF TakeAnswer
  <2>4. CASE agent' = [agent EXCEPT !.cred = 0, !.pc = "delay"]
    <3>1. UNCHANGED core
      BY <1>0, <2>4, Zenon DEF core, Agents
    <3>2. agent'.pc = "delay"
      BY <1>0, <2>4, Zenon DEF Agents
    <3> QED
      BY <3>1, <3>2, Zenon
  <2>5. CASE agent' = [agent EXCEPT !.pc = "delay"]
    <3>1. UNCHANGED core
      BY <1>0, <2>5, Zenon DEF core, Agents
    <3>2. agent'.pc = "delay"
      BY <1>0, <2>5, Zenon DEF Agents
    <3> QED
      BY <3>1, <3>2, Zenon
  <2> QED
    BY <2>1, <2>3, <2>4, <2>5, Zenon
<1> QED
  BY <1>1, <1>2, Zenon

\* An accepted batch leaves the sender's hands, and it is stored; after any
\* other answer the sender keeps it.
LEMMA ReceiveKeeps ==
  ASSUME Typed, SenderInv, HandlerInv, RowsInv, QueueInv, DecidedInv, Receive
  PROVE  (SenderInv /\ HandlerInv /\ RowsInv /\ QueueInv /\ DecidedInv)'
<1>0. agent \in Agents
  BY Zenon DEF Typed
<1>1. PICK m \in wire : /\ m.live /\ m.stage = "answered" /\ wire' = wire \ {m}
                        /\ TakeEnrollment(m) \/ TakeAnswer(m)
  BY Zenon DEF Receive
<1>2. UNCHANGED <<ingested, decided, submitted>> /\ agent.pc \notin {"pop", "done"}
  BY Zenon DEF Receive, Waiting
<1>3. HandlerInv' /\ DecidedInv' /\ Sent' \subseteq Sent /\ \A n \in wire' : ~n.live
  BY <1>1, <1>2, AnswerTaken, Zenon
<1>4. CASE UNCHANGED core /\ agent'.pc # "pop"
  <2>1. SenderInv'
    BY <1>2, <1>3, <1>4, SenderMoves, Zenon
  <2>2. RowsInv' /\ QueueInv'
    BY <1>2, <1>3, <1>4, RowsKept, Zenon
  <2> QED
    BY <1>3, <2>1, <2>2, Zenon
<1>5. CASE m.kind = "batch" /\ m.status = "ok" /\ agent' = [agent EXCEPT !.hand = 0, !.pc = "pop"]
  <2>1. /\ agent'.hand = 0 /\ agent'.pc = "pop" /\ agent'.up = agent.up
        /\ agent'.boot = agent.boot /\ agent'.seq = agent.seq /\ agent'.queue = agent.queue
    BY <1>0, <1>5, Zenon DEF Agents
  <2>2. Row(m) \in InHand /\ Row(m) \in ingested /\ agent.up
    BY <1>1, <1>5, Zenon DEF SenderInv, HandlerInv
  <2>3. InHand \subseteq ingested /\ InHand' = {}
    BY <2>1, <2>2, Zenon DEF InHand
  <2>4. Known' \subseteq Known /\ Sent' \ ingested' \subseteq Sent \ ingested
    BY <1>2, <1>3, <2>3, Zenon DEF Known
  <2>5. RowsInv'
    BY <1>2, <1>3, <2>1, <2>2, <2>3, <2>4, SMTT(20) DEF RowsInv
  <2>6. QueueInv'
    BY <1>2, <2>1, <2>4, Zenon DEF QueueInv
  <2>7. SenderInv'
    BY <1>3, <2>1, Zenon DEF SenderInv
  <2> QED
    BY <1>3, <2>5, <2>6, <2>7, Zenon
<1> QED
  BY <1>1, <1>4, <1>5, ReceiveEffect, Zenon

-----------------------------------------------------------------------------
(* The buffer: what push and pop_timeout do to it.                         *)

\* r is q without its first k batches and with batch id behind them.
Pushed(q, r, k, id) ==
  /\ k \in 0 .. Len(q) /\ Len(r) = Len(q) - k + 1
  /\ \A i \in 1 .. Len(q) - k : r[i] = q[i + k]
  /\ r[Len(q) - k + 1].id = id

\* push keeps a tail of the buffer behind which the new batch fits, or leaves
\* the process as it was.
LEMMA PushEffect ==
  ASSUME Typed, NEW size \in left.sizes, Push(size)
  PROVE  /\ submitted \in Nat /\ submitted' = submitted + 1 /\ agent.up
         /\ \/ UNCHANGED agent
            \/ /\ \E k \in Nat : Pushed(agent.queue, agent'.queue, k, submitted + 1)
               /\ Bytes(agent'.queue) <= Capacity
               /\ agent'.up = agent.up /\ agent'.boot = agent.boot /\ agent'.hand = agent.hand
               /\ agent'.seq = agent.seq /\ agent'.pc = agent.pc
<1>0. agent \in Agents /\ agent.queue \in Seq(Queued) /\ size \in Nat \ {0} /\ submitted \in Nat
  BY AgentFields, ScenarioFields, Bounds DEF Typed
<1>1. submitted' = submitted + 1 /\ agent.up /\ submitted + 1 \in Ids
  BY Bounds, ScenarioFields DEF Push, Typed, Ids
<1>2. CASE agent.closed \/ size > Capacity
  BY <1>0, <1>1, <1>2, Zenon DEF Push
<1>3. CASE ~(agent.closed \/ size > Capacity)
  <2> DEFINE q == agent.queue
             x == [id |-> submitted + 1, size |-> size]
             kept == Room(q, size)
             r == Append(kept, x)
  <2>1. size \in 1 .. Capacity
    BY <1>0, <1>3, Bounds
  <2>2. agent' = [agent EXCEPT !.queue = r]
    BY <1>1, <1>3, Zenon DEF Push
  <2>3. /\ agent'.queue = r /\ agent'.up = agent.up /\ agent'.boot = agent.boot
        /\ agent'.hand = agent.hand /\ agent'.seq = agent.seq /\ agent'.pc = agent.pc
    BY <1>0, <2>2, Zenon DEF Agents
  <2>4. x \in Queued /\ x.id = submitted + 1 /\ x.size = size
    BY <1>1, <2>1, Zenon DEF Queued
  <2>5. PICK k \in 0 .. Len(q) : /\ kept = SubSeq(q, k + 1, Len(q))
                                 /\ Bytes(kept) + size <= Capacity
    BY <1>0, <2>1, RoomIsTail, Zenon
  <2>6. kept \in Seq(Queued)
    BY <1>0, <2>1, RoomTyped, Zenon
  <2> HIDE DEF x, kept, q
  <2>7. Len(q) \in Nat /\ Len(kept) = Len(q) - k /\ \A i \in 1 .. Len(q) - k : kept[i] = q[i + k]
    <3>1. q \in Seq(Queued)
      BY <1>0, Zenon DEF q
    <3> QED
      BY <2>5, <3>1
  <2>8. Len(r) = Len(q) - k + 1 /\ (\A i \in 1 .. Len(q) - k : r[i] = q[i + k])
        /\ r[Len(q) - k + 1] = x
    BY <2>4, <2>6, <2>7
  <2>9. Bytes(r) <= Capacity
    BY <2>4, <2>5, <2>6, BytesOfAppend, Zenon
  <2>10. k \in Nat /\ Pushed(agent.queue, agent'.queue, k, submitted + 1)
    <3>1. k \in 0 .. Len(q) /\ x.id = submitted + 1
      BY <2>3, <2>4, <2>7, Zenon
    <3>2. agent.queue = q /\ agent'.queue = r
      BY <2>3, <2>4, Zenon DEF q
    <3>3. Pushed(q, r, k, submitted + 1)
      BY <2>7, <2>8, <3>1, SMTT(20) DEF Pushed
    <3> QED
      BY <3>1, <3>2, <3>3
  <2> QED
    BY <1>0, <1>1, <2>3, <2>9, <2>10, Zenon
<1> QED
  BY <1>2, <1>3, Zenon

\* pop_timeout takes the oldest batch, and sender_loop numbers the request.
LEMMA PopEffect ==
  ASSUME Typed, SenderInv, Pop
  PROVE  LET q == agent.queue
         IN  /\ agent.up /\ agent'.up = agent.up /\ agent'.boot = agent.boot /\ agent.hand = 0
             /\ \/ /\ q # <<>> /\ Len(agent'.queue) = Len(q) - 1 /\ agent'.queue = Tail(q)
                   /\ \A i \in 1 .. Len(q) - 1 : agent'.queue[i] = q[i + 1]
                   /\ agent'.hand = q[1].id /\ agent'.seq = agent.seq + 1
                   /\ agent'.pc \notin {"pop", "done"}
                \/ /\ agent'.queue = q /\ agent'.hand = agent.hand /\ agent'.seq = agent.seq
                   /\ agent'.pc = "done"
<1> DEFINE q == agent.queue
<1>0. agent \in Agents /\ q \in Seq(Queued)
  BY AgentFields, Zenon DEF Typed
<1>1. agent.up /\ agent.hand = 0
  BY Zenon DEF Pop, SenderInv
<1>2. CASE q # <<>>
  <2>1. PICK p \in {"enroll", "send"} :
          agent' = [agent EXCEPT !.queue = Tail(q), !.hand = Head(q).id, !.seq = agent.seq + 1,
                                 !.pc = p]
    BY <1>2, Zenon DEF Pop
  <2>2. /\ agent'.queue = Tail(q) /\ agent'.hand = Head(q).id /\ agent'.seq = agent.seq + 1
        /\ agent'.pc = p /\ agent'.up = agent.up /\ agent'.boot = agent.boot
    BY <1>0, <2>1, Zenon DEF Agents
  <2>3. Len(Tail(q)) = Len(q) - 1 /\ Head(q) = q[1] /\ \A i \in 1 .. Len(q) - 1 : Tail(q)[i] = q[i + 1]
    BY <1>0, <1>2
  <2> HIDE DEF q
  <2>4. agent'.pc \notin {"pop", "done"}
    BY <2>1, <2>2, Zenon
  <2>5. Len(agent'.queue) = Len(q) - 1 /\ \A i \in 1 .. Len(q) - 1 : agent'.queue[i] = q[i + 1]
    BY <2>2, <2>3, Zenon
  <2>6. agent'.hand = q[1].id
    BY <2>2, <2>3, Zenon
  <2> QED
    BY <1>1, <1>2, <2>2, <2>4, <2>5, <2>6, Zenon DEF q
<1>3. CASE q = <<>>
  <2>1. agent' = [agent EXCEPT !.pc = "done"]
    BY <1>3, Zenon DEF Pop
  <2>2. /\ agent'.queue = agent.queue /\ agent'.hand = agent.hand /\ agent'.seq = agent.seq
        /\ agent'.pc = "done" /\ agent'.up = agent.up /\ agent'.boot = agent.boot
    BY <1>0, <2>1, Zenon DEF Agents
  <2> QED
    BY <1>1, <2>2, Zenon
<1> QED
  BY <1>2, <1>3, Zenon

\* The new batch has the largest number; those before it keep their order.
LEMMA PushKeeps ==
  ASSUME Typed, SenderInv, HandlerInv, RowsInv, QueueInv, DecidedInv,
         NEW size \in left.sizes, Push(size)
  PROVE  (SenderInv /\ HandlerInv /\ RowsInv /\ QueueInv /\ DecidedInv)'
<1> DEFINE q == agent.queue
           r == agent'.queue
<1>0. /\ submitted \in Nat /\ submitted' = submitted + 1 /\ agent.up
      /\ agent'.up = agent.up /\ agent'.boot = agent.boot /\ agent'.hand = agent.hand
      /\ agent'.seq = agent.seq /\ agent'.pc = agent.pc
      /\ r = q \/ \E k \in Nat : Pushed(q, r, k, submitted + 1)
  BY PushEffect, Zenon
<1>1. UNCHANGED <<wire, ingested, decided>>
  BY Zenon DEF Push
<1>2. HandlerInv' /\ DecidedInv' /\ Sent' = Sent
  BY <1>1, CollectorUntouched, Zenon
<1>3. InHand' = InHand /\ Known' = Known
  BY <1>0, <1>1, <1>2, Zenon DEF InHand, Known
<1>4. SenderInv'
  BY <1>0, <1>1, <1>3, Zenon DEF SenderInv, Row
<1>5. /\ agent.seq \in Nat /\ \A t \in Known : t.id \in Nat
      /\ Len(q) \in Nat /\ DOMAIN q = 1 .. Len(q) /\ \A i \in 1 .. Len(q) : q[i].id \in Nat
  <2>1. agent \in Agents /\ q \in Seq(Queued)
    BY AgentFields, Zenon DEF Typed
  <2>2. \A i \in 1 .. Len(q) : q[i] \in Queued
    BY <2>1
  <2>3. \A t \in Known : t.id \in Nat
    <3>1. \A t \in ingested \cup Sent : t.id \in Ids
      BY Zenon DEF Typed, RowsInv, Rows
    <3>2. agent.hand \in Nat
      BY <2>1, AgentFields, Bounds, SMTT(20)
    <3> QED
      BY <3>1, <3>2, Bounds DEF Known, InHand, Ids
  <2> QED
    BY <2>1, <2>2, <2>3, AgentFields, QueuedFields, Bounds DEF Ids
<1>6. RowsInv'
  <2>1. \A t \in Known' : t.id <= submitted'
    BY <1>0, <1>3, <1>5 DEF RowsInv
  <2> QED
    BY <1>0, <1>1, <1>2, <1>3, <2>1, Zenon DEF RowsInv
<1>7. QueueInv'
  <2>1. agent'.seq <= submitted'
    BY <1>0, <1>5 DEF QueueInv
  <2>2. CASE r = q
    <3>1. \A i \in DOMAIN q : q[i].id <= submitted'
      BY <1>0, <1>5, SMTT(20) DEF QueueInv
    <3> QED
      BY <1>0, <1>3, <2>1, <2>2, <3>1, Zenon DEF QueueInv
  <2>3. ASSUME NEW k \in Nat, Pushed(q, r, k, submitted + 1) PROVE QueueInv'
    <3>1. DOMAIN r = 1 .. Len(q) - k + 1
      <4>1. r \in Seq(Queued)
        BY TypedMainLoop, AgentFields, Zenon DEF Typed
      <4> QED
        BY <2>3, <4>1, SMTT(20) DEF Pushed
    <3>2. ASSUME NEW i \in 1 .. Len(q) - k
          PROVE  /\ i + k \in 1 .. Len(q) /\ r[i] = q[i + k] /\ r[i].id \in Nat
                 /\ agent.seq < r[i].id /\ r[i].id <= submitted
                 /\ \A t \in Known : t.id < r[i].id
      <4>1. i + k \in 1 .. Len(q) /\ r[i] = q[i + k]
        BY <1>5, <2>3, SMTT(20) DEF Pushed
      <4> QED
        BY <1>5, <4>1, Zenon DEF QueueInv
    <3>3. /\ r[Len(q) - k + 1].id = submitted + 1 /\ Len(q) - k \in Nat
          /\ \A t \in Known : t.id < submitted + 1
      BY <1>0, <1>5, <2>3 DEF Pushed, RowsInv
    <3>4. \A i \in DOMAIN r : /\ agent.seq < r[i].id /\ r[i].id <= submitted'
                              /\ \A t \in Known : t.id < r[i].id
      <4>1. \A i \in DOMAIN r : i \in 1 .. Len(q) - k \/ i = Len(q) - k + 1
        BY <1>5, <3>1, <3>3
      <4>2. agent.seq < submitted + 1
        BY <1>0, <1>5 DEF QueueInv
      <4>3. ASSUME NEW i \in 1 .. Len(q) - k PROVE r[i].id <= submitted'
        <5>1. r[i].id \in Nat /\ r[i].id <= submitted
          BY <3>2, Zenon
        <5> QED
          BY <1>0, <5>1
      <4>4. submitted + 1 <= submitted'
        BY <1>0
      <4> HIDE DEF r, q
      <4> QED
        BY <3>2, <3>3, <4>1, <4>2, <4>3, <4>4, SMTT(20)
    <3>5. ASSUME NEW i \in DOMAIN r, NEW j \in DOMAIN r, i < j PROVE r[i].id < r[j].id
      <4>1. i \in 1 .. Len(q) - k /\ (j \in 1 .. Len(q) - k \/ j = Len(q) - k + 1)
        BY <1>5, <3>1, <3>3, <3>5
      <4>2. CASE j \in 1 .. Len(q) - k
        <5>1. q[i + k].id < q[j + k].id
          <6>1. i + k \in DOMAIN q /\ j + k \in DOMAIN q
            BY <1>5, <3>2, <4>1, <4>2, Zenon
          <6>2. i + k < j + k
            BY <1>5, <2>3, <3>5, <4>1, <4>2, SMTT(20)
          <6> QED
            BY <6>1, <6>2, Zenon DEF QueueInv
        <5> QED
          BY <3>2, <4>1, <4>2, <5>1, Zenon
      <4>3. CASE j = Len(q) - k + 1
        BY <1>0, <3>2, <3>3, <4>1, <4>3, SMTT(20)
      <4> QED
        BY <4>1, <4>2, <4>3, Zenon
    <3> QED
      BY <1>0, <1>3, <2>1, <3>4, <3>5 DEF QueueInv
  <2> QED
    BY <1>0, <2>2, <2>3, Zenon
<1> QED
  BY <1>2, <1>4, <1>6, <1>7, Zenon

\* The row the sender takes in hand is new, and follows all of its process.
LEMMA PopKeeps ==
  ASSUME Typed, SenderInv, HandlerInv, RowsInv, QueueInv, DecidedInv, Pop
  PROVE  (SenderInv /\ HandlerInv /\ RowsInv /\ QueueInv /\ DecidedInv)'
<1> DEFINE q == agent.queue
           r == agent'.queue
<1>0. agent.up /\ agent'.up = agent.up /\ agent'.boot = agent.boot /\ agent.hand = 0
  BY PopEffect, Zenon
<1>1. UNCHANGED <<wire, ingested, decided, submitted>>
  BY Zenon DEF Pop
<1>2. HandlerInv' /\ DecidedInv' /\ Sent' = Sent
  BY <1>1, CollectorUntouched, Zenon
<1>3. \A m \in wire' : ~m.live
  BY <1>1, NobodyWaits, Zenon DEF Pop
<1>4. /\ agent.seq \in Nat /\ agent.boot \in Nat /\ submitted \in Nat /\ q \in Seq(Queued)
      /\ Len(q) \in Nat /\ DOMAIN q = 1 .. Len(q) /\ \A i \in 1 .. Len(q) : q[i].id \in Nat \ {0}
  <2>1. agent \in Agents /\ q \in Seq(Queued)
    BY AgentFields, Zenon DEF Typed
  <2>2. \A i \in 1 .. Len(q) : q[i] \in Queued
    BY <2>1
  <2> QED
    BY <2>1, <2>2, AgentFields, QueuedFields, Bounds DEF Ids, Typed
<1>5. CASE r = q /\ agent'.hand = agent.hand /\ agent'.seq = agent.seq /\ agent'.pc = "done"
  <2>1. UNCHANGED core
    BY <1>0, <1>5, Zenon DEF core
  <2>2. RowsInv' /\ QueueInv'
    BY <1>1, <1>2, <2>1, RowsKept, Zenon
  <2>3. SenderInv'
    BY <1>0, <1>3, <1>5, Zenon DEF SenderInv
  <2> QED
    BY <1>2, <2>2, <2>3, Zenon
<1>6. CASE /\ q # <<>> /\ Len(r) = Len(q) - 1 /\ r = Tail(q)
           /\ \A i \in 1 .. Len(q) - 1 : r[i] = q[i + 1]
           /\ agent'.hand = q[1].id /\ agent'.seq = agent.seq + 1
           /\ agent'.pc \notin {"pop", "done"}
  <2>1. 1 \in 1 .. Len(q) /\ q[1].id \in Nat \ {0}
    BY <1>4, <1>6
  <2> DEFINE x == [boot |-> agent.boot, seq |-> agent.seq + 1, id |-> q[1].id]
  <2>2. InHand = {} /\ InHand' = {x}
    BY <1>0, <1>6, <2>1, Zenon DEF InHand
  <2>3. Known' = Known \cup {x} /\ x.boot = agent.boot /\ x.seq = agent.seq + 1 /\ x.id = q[1].id
    BY <1>1, <1>2, <2>2, SMTT(20) DEF Known
  <2> HIDE DEF x
  <2>4. SenderInv'
    BY <1>0, <1>3, <1>4, <1>6, <2>1 DEF SenderInv
  <2>5. \A t \in Known : t.id < q[1].id
    BY <1>4, <2>1, Zenon DEF QueueInv
  <2>6. RowsInv'
    <3>1. Sent' \subseteq Rows
      BY <1>2, Zenon DEF RowsInv
    <3>2. \A t \in Known : t.id # x.id /\ ~(t.boot = x.boot /\ t.seq = x.seq)
      <4>1. \A t \in Known : t.seq \in Nat /\ t.id \in Nat
        BY <2>2, Bounds DEF Known, Typed, RowsInv, Rows, Ids
      <4>2. \A t \in Known : t.boot = agent.boot => t.seq <= agent.seq
        BY <1>0, Zenon DEF RowsInv
      <4> QED
        BY <1>4, <2>1, <2>3, <2>5, <4>1, <4>2
    <3>3. \A t, u \in Known' : t.id = u.id \/ (t.boot = u.boot /\ t.seq = u.seq) => t = u
      <4>1. \A t, u \in Known : t.id = u.id \/ (t.boot = u.boot /\ t.seq = u.seq) => t = u
        BY Zenon DEF RowsInv
      <4> QED
        BY <2>3, <3>2, <4>1
    <3>4. \A t \in Known' : /\ t.boot <= agent'.boot /\ t.id <= submitted'
                            /\ agent'.up /\ t.boot = agent'.boot => t.seq <= agent'.seq
      <4>1. x.boot <= agent.boot /\ x.id <= submitted /\ x.seq <= agent'.seq
        BY <1>4, <1>6, <2>1, <2>3 DEF QueueInv
      <4>2. \A t \in Known : t.boot = agent.boot => t.seq <= agent.seq + 1
        <5>1. \A t \in Known : t.seq \in Nat
          BY <2>2, Bounds DEF Known, Typed, RowsInv, Rows, Ids
        <5> QED
          BY <1>0, <1>4, <5>1 DEF RowsInv
      <4>3. \A t \in Known : t.boot <= agent.boot /\ t.id <= submitted
        BY Zenon DEF RowsInv
      <4> QED
        BY <1>0, <1>1, <1>6, <2>3, <4>1, <4>2, <4>3
    <3>5. /\ \A t, u \in Sent' \ ingested' : t.boot = u.boot => t = u
          /\ \A t \in Sent' \ ingested' : t.boot # agent.boot
      BY <1>0, <1>1, <1>2, <2>2, SMTT(20) DEF RowsInv
    <3> QED
      BY <1>0, <3>1, <3>3, <3>4, <3>5, Zenon DEF RowsInv
  <2>7. QueueInv'
    <3>1. DOMAIN r = 1 .. Len(q) - 1
      <4>1. r \in Seq(Queued)
        BY TypedSender, AgentFields, SMTT(20) DEF Typed
      <4> QED
        BY <1>6, <4>1
    <3>2. ASSUME NEW i \in DOMAIN r
          PROVE  i + 1 \in DOMAIN q /\ r[i] = q[i + 1] /\ q[1].id < r[i].id /\ r[i].id \in Nat
                 /\ agent.seq + 1 < r[i].id /\ r[i].id <= submitted
                 /\ \A t \in Known : t.id < r[i].id
      <4>1. i + 1 \in DOMAIN q /\ r[i] = q[i + 1] /\ 1 < i + 1
        BY <1>4, <1>6, <3>1
      <4>2. agent.seq < q[1].id /\ q[1].id < r[i].id
        BY <1>4, <2>1, <4>1, Zenon DEF QueueInv
      <4>3. r[i].id <= submitted /\ \A t \in Known : t.id < r[i].id
        BY <1>4, <4>1, Zenon DEF QueueInv
      <4> QED
        BY <1>4, <2>1, <4>1, <4>2, <4>3
    <3>3. agent.seq + 1 <= submitted
      BY <1>4, <2>1 DEF QueueInv
    <3>4. \A i, j \in DOMAIN r : i < j => r[i].id < r[j].id
      <4>1. \A i, j \in DOMAIN r : i < j => i + 1 < j + 1
        BY <1>4, <3>1
      <4> QED
        BY <3>2, <4>1, Zenon DEF QueueInv
    <3>5. \A i \in DOMAIN r : \A t \in Known' : t.id < r[i].id
      BY <2>3, <3>2, Zenon
    <3> QED
      BY <1>1, <1>6, <3>2, <3>3, <3>4, <3>5 DEF QueueInv
  <2> QED
    BY <1>2, <2>4, <2>6, <2>7, Zenon
<1> QED
  BY <1>5, <1>6, PopEffect, SMTT(20)

-----------------------------------------------------------------------------
(* The invariant.                                                          *)

\* A restart of the Collector cuts requests off; the other steps it takes by
\* itself, and another device, concern none.
LEMMA OthersKeep ==
  ASSUME SenderInv, HandlerInv, RowsInv, QueueInv, DecidedInv,
         RivalEnroll \/ GoStale \/ CollectorCrash \/ CollectorStart \/ UNCHANGED vars
  PROVE  (SenderInv /\ HandlerInv /\ RowsInv /\ QueueInv /\ DecidedInv)'
<1>1. wire' \subseteq wire /\ UNCHANGED <<agent, ingested, decided, submitted>>
  BY Zenon DEF RivalEnroll, GoStale, CollectorCrash, CollectorStart, vars
<1> QED
  BY <1>1, DropKeeps, Zenon

\* The steps that leave the buffer and the batch in hand as they are.
Elsewhere ==
  \/ Signal \/ Close \/ SendEnroll \/ SendBatch \/ Disconnected \/ Timeout \/ Delay
  \/ RivalEnroll \/ GoStale \/ CollectorCrash \/ CollectorStart \/ UNCHANGED vars
  \/ \E m \in wire : Enroll(m) \/ Authenticate(m) \/ Refuse(m) \/ Persist(m)
                     \/ Decide(m) \/ Lose(m) \/ Unreachable(m)

\* Whatever is not push_back, pop_front, an answer, a start or an end of the
\* process leaves the sender's buffer alone.
LEMMA CoreUntouched ==
  ASSUME Typed, Elsewhere
  PROVE  UNCHANGED core
<1>0. agent \in Agents
  BY Zenon DEF Typed
<1>1. CASE RivalEnroll \/ GoStale
  BY <1>1, Zenon DEF RivalEnroll, GoStale, core
<1>2. CASE CollectorCrash \/ CollectorStart
  BY <1>2, Zenon DEF CollectorCrash, CollectorStart, core
<1>3. CASE UNCHANGED vars
  BY <1>3, Zenon DEF vars, core
<1>4. ASSUME NEW m \in wire, Enroll(m) \/ Authenticate(m) \/ Refuse(m) \/ Persist(m)
                              \/ Decide(m) \/ Lose(m) \/ Unreachable(m)
      PROVE  UNCHANGED core
  <2>1. agent' = agent
    BY <1>4, Zenon DEF Enroll, Authenticate, Refuse, Persist, Decide, Lose, Unreachable
  <2> QED
    BY <2>1, Zenon DEF core
<1>5. CASE Signal \/ Close
  BY <1>0, <1>5, Zenon DEF Signal, Close, Agents, core
<1>6. CASE SendEnroll \/ SendBatch
  BY <1>0, <1>6, Zenon DEF SendEnroll, SendBatch, Agents, core
<1>7. CASE Disconnected \/ Timeout
  BY <1>0, <1>7, Zenon DEF Disconnected, Timeout, Agents, core
<1>8. CASE Delay
  BY <1>0, <1>8, Zenon DEF Delay, Agents, core
<1> QED
  BY <1>1, <1>2, <1>3, <1>4, <1>5, <1>6, <1>7, <1>8, Zenon DEF Elsewhere

\* telemetry_retry_buffer_bytes bounds the buffer through every step.
LEMMA BytesKept ==
  ASSUME IInv, [Next]_vars
  PROVE  BytesInv'
<1>0. Typed /\ SenderInv /\ HandlerInv /\ BytesInv /\ agent.queue \in Seq(Queued) /\ Capacity \in Nat
  BY AgentFields, Bounds, Zenon DEF IInv, Typed
<1>1. CASE agent'.queue = agent.queue
  BY <1>0, <1>1, Zenon DEF BytesInv
<1>2. CASE agent'.queue = <<>>
  BY <1>0, <1>2, BytesOfEmpty DEF BytesInv
<1>3. CASE agent'.queue # agent.queue /\ Pop
  <2>1. agent.queue # <<>> /\ agent'.queue = Tail(agent.queue)
    BY <1>0, <1>3, PopEffect, Zenon
  <2>2. Head(agent.queue).size \in Nat
    <3>1. Head(agent.queue) \in Queued
      BY <1>0, <2>1
    <3> QED
      BY <3>1, QueuedFields, Zenon
  <2>3. Bytes(Tail(agent.queue)) <= Bytes(agent.queue)
    BY <1>0, <2>1, <2>2, BytesOfTail
  <2> QED
    BY <1>0, <2>1, <2>2, <2>3, BytesOfTail DEF BytesInv
<1>4. CASE agent'.queue # agent.queue /\ \E size \in left.sizes : Push(size)
  BY <1>0, <1>4, PushEffect, Zenon DEF BytesInv
<1>5. Start => agent'.queue = <<>>
  BY Zenon DEF Start, Down
<1>6. Exit \/ Kill => agent' = Down(agent.boot)
  BY Zenon DEF Exit, Kill
<1>7. Down(agent.boot).queue = <<>>
  BY ZenonT(30) DEF Down
<1> QED
  <2>1. CASE UNCHANGED core
    BY <1>1, <2>1, Zenon DEF core
  <2>2. CASE Receive
    <3>1. PICK m \in wire : m.stage = "answered" /\ (TakeEnrollment(m) \/ TakeAnswer(m))
      BY <2>2, Zenon DEF Receive
    <3>2. CASE agent' = [agent EXCEPT !.hand = 0, !.pc = "pop"]
      <4>1. agent \in Agents
        BY <1>0, Zenon DEF Typed
      <4>2. agent'.queue = agent.queue
        BY <3>2, <4>1, Zenon DEF Agents
      <4> QED
        BY <1>1, <4>2, Zenon
    <3> QED
      BY <1>0, <2>1, <3>1, <3>2, ReceiveEffect, Zenon
  <2>3. CASE Start \/ Exit \/ Kill
    BY <1>2, <1>5, <1>6, <1>7, <2>3, Zenon
  <2>4. CASE Pop \/ \E size \in left.sizes : Push(size)
    BY <1>1, <1>3, <1>4, <2>4, Zenon
  <2>5. CASE Elsewhere
    BY <1>0, <2>1, <2>5, CoreUntouched, Zenon
  <2>6. \/ Start \/ Exit \/ Kill \/ Pop \/ Receive \/ \E size \in left.sizes : Push(size)
        \/ Elsewhere
    BY Zenon DEF Next, Elsewhere
  <2> QED
    BY <2>2, <2>3, <2>4, <2>5, <2>6, Zenon

\* Every step preserves the invariant.
LEMMA IInvKept ==
  ASSUME IInv, [Next]_vars
  PROVE  IInv'
<1>0. Typed /\ SenderInv /\ HandlerInv /\ RowsInv /\ QueueInv /\ DecidedInv
  BY Zenon DEF IInv
<1>1. BytesInv'
  BY BytesKept, Zenon
<1>2. CASE Start
  BY <1>0, <1>1, <1>2, TypedMainLoop, StartKeeps, Zenon DEF IInv
<1>3. CASE Signal \/ Close
  BY <1>0, <1>1, <1>3, TypedMainLoop, SignalKeeps, Zenon DEF IInv
<1>4. CASE Exit \/ Kill
  BY <1>0, <1>1, <1>4, TypedMainLoop, OrphansKeep, Zenon DEF IInv
<1>5. CASE \E size \in left.sizes : Push(size)
  BY <1>0, <1>1, <1>5, TypedMainLoop, PushKeeps, Zenon DEF IInv
<1>6. CASE Pop
  BY <1>0, <1>1, <1>6, TypedSender, PopKeeps, Zenon DEF IInv
<1>7. CASE SendEnroll
  BY <1>0, <1>1, <1>7, TypedSender, SendEnrollKeeps, Zenon DEF IInv
<1>8. CASE SendBatch
  BY <1>0, <1>1, <1>8, TypedSender, SendBatchKeeps, Zenon DEF IInv
<1>9. CASE Receive
  BY <1>0, <1>1, <1>9, TypedSender, ReceiveKeeps, Zenon DEF IInv
<1>10. CASE Disconnected \/ Delay
  BY <1>0, <1>1, <1>10, TypedSender, DelayKeeps, Zenon DEF IInv
<1>11. CASE Timeout
  BY <1>0, <1>1, <1>11, TypedSender, TimeoutKeeps, Zenon DEF IInv
<1>12. ASSUME NEW m \in wire,
              Enroll(m) \/ Authenticate(m) \/ Refuse(m) \/ Decide(m) \/ Lose(m) \/ Unreachable(m)
       PROVE  IInv'
  BY <1>0, <1>1, <1>12, TypedCollector, CollectorKeeps, Zenon DEF IInv
<1>13. ASSUME NEW m \in wire, Persist(m) PROVE IInv'
  BY <1>0, <1>1, <1>13, TypedCollector, PersistKeeps, Zenon DEF IInv
<1>14. CASE RivalEnroll \/ GoStale \/ CollectorCrash \/ CollectorStart \/ UNCHANGED vars
  BY <1>0, <1>1, <1>14, TypedOthers, OthersKeep, Zenon DEF IInv
<1> QED
  BY <1>2, <1>3, <1>4, <1>5, <1>6, <1>7, <1>8, <1>9, <1>10, <1>11, <1>12, <1>13, <1>14 DEF Next

\* The invariant holds before anything has happened.
LEMMA IInvInit ==
  ASSUME Init
  PROVE  IInv
<1>1. Typed
  <2>1. Down(0) \in Agents
    <3>1. 0 \in 0 .. MaxBoot /\ 0 \in Nat
      BY Bounds
    <3> QED
      BY <3>1, DownTyped, Zenon
  <2>2. left \in Scenario
    <3>1. left \in Scenarios
      BY Zenon DEF Init
    <3>2. Scenarios \subseteq Scenario
      BY BoundsAssumption, Zenon
    <3> QED
      BY <3>1, <3>2, Zenon
  <2>3. [i \in Ids |-> 0] \in [Ids -> Nat] /\ 0 \in 0 .. MaxBatch /\ 0 \in Nat
    BY Bounds
  <2>4. [token |-> 0, stale |-> FALSE] \in [token : Nat, stale : BOOLEAN]
    BY <2>3, Zenon
  <2> QED
    BY <2>1, <2>2, <2>3, <2>4, Zenon DEF Init, Typed
<1>2. /\ agent.up = FALSE /\ agent.hand = 0 /\ agent.queue = <<>> /\ agent.seq = 0
      /\ agent.pc = "done" /\ agent.boot = 0
  BY Zenon DEF Init, Down
<1>3. Sent = {} /\ InHand = {} /\ Known = {}
  BY <1>2, Zenon DEF Sent, InHand, Known, Init
<1>4. SenderInv /\ HandlerInv
  BY <1>2, Zenon DEF Init, SenderInv, HandlerInv
<1>5. RowsInv /\ QueueInv
  BY <1>2, <1>3 DEF RowsInv, QueueInv, Init
<1>6. DecidedInv
  BY Zenon DEF DecidedInv, Init
<1>7. BytesInv
  BY <1>2, BytesOfEmpty, Bounds DEF BytesInv
<1> QED
  BY <1>1, <1>4, <1>5, <1>6, <1>7, Zenon DEF IInv

\* The invariant of sender_loop, push and accept_batch holds throughout.
THEOREM IInvariant == Spec => []IInv
<1>1. Init => IInv
  BY IInvInit, Zenon
<1>2. IInv /\ [Next]_vars => IInv'
  BY IInvKept, Zenon
<1> QED
  BY <1>1, <1>2, PTL DEF Spec

\* The sender waits for one request at a time, accept_batch has one past its
\* transaction, and the buffer stays within telemetry_retry_buffer_bytes.
THEOREM TypeCorrect == Spec => []TypeOK
<1>1. IInv => TypeOK
  <2>1. SUFFICES ASSUME IInv PROVE TypeOK
    OBVIOUS
  <2>2. \A m, n \in wire : m.live /\ n.live => m = n
    BY <2>1, Zenon DEF IInv, SenderInv
  <2>3. \A m, n \in wire : m.stage = "stored" /\ n.stage = "stored" => m = n
    BY <2>1, Zenon DEF IInv, HandlerInv
  <2> QED
    BY <2>1, <2>2, <2>3, Zenon DEF IInv, Typed, BytesInv, TypeOK, Agents, Rows
<1> QED
  BY <1>1, IInvariant, PTL

\* accept_batch queues the flow decisions of a batch at most once and only
\* after its transaction, however often the sender repeats the request, and
\* whichever side stops in between.
THEOREM DecidedOnceHolds == Spec => []DecidedOnce
<1>1. IInv => DecidedOnce
  BY DEF IInv, DecidedInv, DecidedOnce
<1> QED
  BY <1>1, IInvariant, PTL

-----------------------------------------------------------------------------
(* Telemetry keeps the promise of TelemetryDelivery.                       *)

\* The batches of process b among the rows of S, and those in the buffer.
IdsOf(S, b) == {t.id : t \in {u \in S : u.boot = b}}
Buffered == {agent.queue[i].id : i \in DOMAIN agent.queue}
Mine(b) == agent.up /\ agent.boot = b

\* The refinement mapping in terms of rows.
LEMMA OpenIs ==
  \A b : /\ Stored(b) = IdsOf(ingested, b)
         /\ Mine(b) => Open(b) = (Buffered \cup ({agent.hand} \ {0})) \ IdsOf(ingested, b)
         /\ ~Mine(b) => Open(b) = IdsOf(Sent, b) \ IdsOf(ingested, b)
<1>1. ASSUME NEW b
      PROVE  {m.id : m \in {n \in wire : n.kind = "batch" /\ n.boot = b}} = IdsOf(Sent, b)
  <2>1. \A m : Row(m).boot = m.boot /\ Row(m).id = m.id
    BY Zenon DEF Row
  <2>2. ASSUME NEW m \in wire, m.kind = "batch", m.boot = b PROVE m.id \in IdsOf(Sent, b)
    <3>1. Row(m) \in Sent
      BY <2>2, Zenon DEF Sent, Row
    <3> QED
      BY <2>1, <2>2, <3>1, Zenon DEF IdsOf
  <2>3. ASSUME NEW t \in Sent, t.boot = b
        PROVE  \E m \in wire : m.kind = "batch" /\ m.boot = b /\ m.id = t.id
    <3>1. PICK m \in wire : m.kind = "batch" /\ t = Row(m)
      BY Zenon DEF Sent, Row
    <3> QED
      BY <2>1, <2>3, <3>1, Zenon
  <2> QED
    BY <2>2, <2>3, Zenon DEF IdsOf
<1>2. \A b : Stored(b) = IdsOf(ingested, b)
  BY Zenon DEF Stored, IdsOf
<1> QED
  BY <1>1, <1>2, Zenon DEF Open, Mine, Buffered

\* The same after a step.
LEMMA OpenIsNext ==
  \A b : /\ Stored(b)' = IdsOf(ingested', b)
         /\ Mine(b)' => Open(b)' = (Buffered' \cup ({agent'.hand} \ {0})) \ IdsOf(ingested', b)
         /\ ~Mine(b)' => Open(b)' = IdsOf(Sent', b) \ IdsOf(ingested', b)
<1>1. ASSUME NEW b
      PROVE  {m.id : m \in {n \in wire' : n.kind = "batch" /\ n.boot = b}} = IdsOf(Sent', b)
  <2>1. \A m : Row(m).boot = m.boot /\ Row(m).id = m.id
    BY Zenon DEF Row
  <2>2. ASSUME NEW m \in wire', m.kind = "batch", m.boot = b PROVE m.id \in IdsOf(Sent', b)
    <3>1. Row(m) \in Sent'
      BY <2>2, Zenon DEF Sent, Row
    <3> QED
      BY <2>1, <2>2, <3>1, Zenon DEF IdsOf
  <2>3. ASSUME NEW t \in Sent', t.boot = b
        PROVE  \E m \in wire' : m.kind = "batch" /\ m.boot = b /\ m.id = t.id
    <3>1. PICK m \in wire' : m.kind = "batch" /\ t = Row(m)
      BY Zenon DEF Sent, Row
    <3> QED
      BY <2>1, <2>3, <3>1, Zenon
  <2> QED
    BY <2>2, <2>3, Zenon DEF IdsOf
<1>2. \A b : Stored(b)' = IdsOf(ingested', b)
  BY Zenon DEF Stored, IdsOf
<1> QED
  BY <1>1, <1>2, Zenon DEF Open, Mine, Buffered, Stored

\* Abandon, in terms of what may still be stored.
LEMMA PromiseAbandon ==
  ASSUME \A b \in Boots : Open(b)' \subseteq Open(b) /\ Open(b) \subseteq Nat,
         \A b \in Boots : b \in Running => Open(b)' = Open(b),
         \A b \in Boots : Stored(b)' = Stored(b),
         submitted' = submitted, Running' = Running
  PROVE  Promise!Next
<1>1. Promise!Abandon
  BY Zenon DEF Promise!Abandon, Running, OpenOf, LogOf
<1> QED
  BY <1>1, Zenon DEF Promise!Next

\* Batches have numbers, and those that wait in the buffer the largest.
LEMMA Numbers ==
  ASSUME IInv
  PROVE  /\ agent.boot \in Nat /\ submitted \in Nat /\ agent.hand \in Nat
         /\ Len(agent.queue) \in Nat /\ DOMAIN agent.queue = 1 .. Len(agent.queue)
         /\ \A t \in Known : t.id \in Nat \ {0} /\ t.boot \in Nat /\ t.id <= submitted
         /\ Buffered \subseteq Nat
         /\ \A x \in Buffered : \A t \in Known : t.id < x
         /\ \A x \in Buffered : x <= submitted
         /\ agent.hand # 0 => \E t \in Known : t.id = agent.hand
<1>1. /\ agent \in Agents /\ agent.queue \in Seq(Queued) /\ agent.boot \in Nat
      /\ submitted \in Nat /\ agent.hand \in Nat
  BY AgentFields, Bounds DEF IInv, Typed
<1>2. /\ Len(agent.queue) \in Nat /\ DOMAIN agent.queue = 1 .. Len(agent.queue)
      /\ \A i \in DOMAIN agent.queue : agent.queue[i].id \in Nat
  <2>1. \A i \in 1 .. Len(agent.queue) : agent.queue[i] \in Queued
    BY <1>1
  <2>2. \A x \in Queued : x.id \in Nat
    BY QueuedFields, Bounds DEF Ids
  <2> QED
    BY <1>1, <2>1, <2>2
<1>3. \A t \in Known : t.id \in Nat \ {0} /\ t.boot \in Nat
  <2>1. \A t \in ingested \cup Sent : t.id \in Nat \ {0} /\ t.boot \in Nat
    BY Bounds DEF IInv, Typed, RowsInv, Rows, Ids, Boots
  <2> QED
    BY <1>1, <2>1 DEF Known, InHand
<1>4. \A t \in Known : t.id <= submitted
  BY Zenon DEF IInv, RowsInv
<1>5. Buffered \subseteq Nat /\ \A x \in Buffered : x <= submitted /\ \A t \in Known : t.id < x
  BY <1>2, Zenon DEF IInv, QueueInv, Buffered
<1>6. agent.hand # 0 => \E t \in Known : t.id = agent.hand
  <2> DEFINE x == [boot |-> agent.boot, seq |-> agent.seq, id |-> agent.hand]
  <2>1. x.id = agent.hand /\ (agent.hand # 0 => x \in Known)
    BY Zenon DEF Known, InHand
  <2> QED
    BY <2>1, Zenon
<1> QED
  BY <1>1, <1>2, <1>3, <1>4, <1>5, <1>6, Zenon

\* What may still be stored is numbered.
LEMMA OpenNumbers ==
  ASSUME IInv
  PROVE  \A b : Open(b) \subseteq Nat
<1>1. ASSUME NEW b PROVE IdsOf(Sent, b) \subseteq Nat
  BY Numbers, Zenon DEF IdsOf, Known
<1>2. Buffered \cup ({agent.hand} \ {0}) \subseteq Nat
  BY Numbers, Zenon
<1> QED
  BY <1>1, <1>2, OpenIs, Zenon

\* A step that stores nothing, submits nothing and starts or ends no process
\* may only lose requests that ended processes left behind.
LEMMA QuietStep ==
  ASSUME IInv, UNCHANGED <<agent.up, agent.boot, ingested, submitted>>,
         \A t \in Sent' : t \in Sent \/ Mine(t.boot),
         agent.up => Buffered' \cup ({agent'.hand} \ {0}) \cup IdsOf(ingested, agent.boot)
                       = Buffered \cup ({agent.hand} \ {0}) \cup IdsOf(ingested, agent.boot)
  PROVE  Promise!Next
<1>1. \A b : Stored(b)' = Stored(b)
  BY OpenIs, OpenIsNext, Zenon
<1>2. \A b : Mine(b)' <=> Mine(b)
  BY Zenon DEF Mine
<1>3. Running' = Running
  BY Zenon DEF Running
<1>4. ASSUME NEW b, Mine(b) PROVE Open(b)' = Open(b)
  <2>1. agent.up /\ agent.boot = b
    BY <1>4, Zenon DEF Mine
  <2>2. /\ Open(b) = (Buffered \cup ({agent.hand} \ {0})) \ IdsOf(ingested, b)
        /\ Open(b)' = (Buffered' \cup ({agent'.hand} \ {0})) \ IdsOf(ingested, b)
    BY <1>2, <1>4, OpenIs, OpenIsNext, Zenon
  <2> QED
    BY <2>1, <2>2, Zenon
<1>5. ASSUME NEW b, ~Mine(b) PROVE Open(b)' \subseteq Open(b)
  <2>1. IdsOf(Sent', b) \subseteq IdsOf(Sent, b)
    BY <1>5, Zenon DEF IdsOf
  <2>2. /\ Open(b) = IdsOf(Sent, b) \ IdsOf(ingested, b)
        /\ Open(b)' = IdsOf(Sent', b) \ IdsOf(ingested, b)
    BY <1>2, <1>5, OpenIs, OpenIsNext, Zenon
  <2> QED
    BY <2>1, <2>2, Zenon
<1>6. \A b : b \in Running => Mine(b)
  BY Zenon DEF Running, Mine
<1>7. \A b : Open(b)' \subseteq Open(b) /\ Open(b) \subseteq Nat
  BY <1>4, <1>5, OpenNumbers, Zenon
<1> QED
  BY <1>1, <1>3, <1>4, <1>6, <1>7, PromiseAbandon, Zenon

\* A process starts with nothing open and nothing stored.
LEMMA StartStep ==
  ASSUME IInv, Start
  PROVE  Promise!Next
<1>0. PICK b : b = agent.boot + 1
  OBVIOUS
<1>1. /\ agent'.up = TRUE /\ agent'.boot = b /\ agent'.hand = 0 /\ agent'.queue = <<>>
  BY <1>0, Zenon DEF Start, Down
<1>2. UNCHANGED <<wire, ingested, submitted>> /\ ~agent.up /\ b \in Boots
  BY <1>0, Numbers, ScenarioFields, Bounds DEF Start, IInv, Typed, Boots
<1>3. Sent' = Sent
  BY <1>2, Zenon DEF Sent, Row
<1>4. \A t \in Known : t.boot # b
  <2>1. \A t \in Known : t.boot <= agent.boot
    BY Zenon DEF IInv, RowsInv
  <2> QED
    BY <1>0, <2>1, Numbers
<1>5. IdsOf(ingested, b) = {} /\ IdsOf(Sent, b) = {}
  BY <1>4, Zenon DEF IdsOf, Known
<1>6. Buffered' = {}
  BY <1>1 DEF Buffered
<1>7. (\A c : ~Mine(c)) /\ (\A c : Mine(c)' <=> c = b)
  BY <1>1, <1>2, Zenon DEF Mine
<1>8. Running = {} /\ Running' = {b}
  BY <1>1, <1>2, Zenon DEF Running
<1>9. /\ \A c : Stored(c)' = Stored(c)
      /\ Stored(b) = {} /\ Open(b) = {} /\ Open(b)' = {}
  <2>1. \A c : Stored(c)' = Stored(c)
    BY <1>2, OpenIs, OpenIsNext, Zenon
  <2>2. Stored(b) = {}
    BY <1>5, OpenIs, Zenon
  <2>3. Open(b) = {} \ {}
    BY <1>5, <1>7, OpenIs, Zenon
  <2>4. Open(b)' = ({} \cup ({0} \ {0})) \ {}
    <3>1. Mine(b)' /\ agent'.hand = 0 /\ IdsOf(ingested', b) = {}
      BY <1>1, <1>2, <1>5, <1>7, Zenon
    <3> QED
      BY <1>6, <3>1, OpenIsNext, Zenon
  <2> QED
    BY <2>1, <2>2, <2>3, <2>4, Zenon
<1>10. ASSUME NEW c, c # b PROVE Open(c)' = Open(c)
  BY <1>2, <1>3, <1>7, <1>10, OpenIs, OpenIsNext, Zenon
<1>11. \A c : Open(c)' = Open(c)
  BY <1>9, <1>10, Zenon
<1>12. Promise!Start(b)
  BY <1>2, <1>8, <1>9, <1>11, Zenon DEF Promise!Start, Running, OpenOf, LogOf
<1> QED
  BY <1>2, <1>12, Zenon DEF Promise!Next

\* push gives up the oldest batches of the buffer, or refuses the new one.
LEMMA SubmitStep ==
  ASSUME IInv, NEW size \in left.sizes, Push(size)
  PROVE  Promise!Next
<1>0. PICK b : b = agent.boot
  OBVIOUS
<1> DEFINE q == agent.queue
           r == agent'.queue
<1>1. /\ submitted \in Nat /\ submitted' = submitted + 1 /\ agent.up
      /\ agent'.up = agent.up /\ agent'.boot = agent.boot /\ agent'.hand = agent.hand
      /\ UNCHANGED agent \/ \E k \in Nat : Pushed(q, r, k, submitted + 1)
  BY PushEffect, Zenon DEF IInv
<1>2. UNCHANGED <<wire, ingested>> /\ Sent' = Sent
  BY Zenon DEF Push, Sent, Row
<1>3. b \in Boots /\ Running = {b} /\ Running' = {b}
  <2>1. agent.boot \in 0 .. MaxBoot /\ agent.boot # 0
    BY <1>1, AgentFields, Zenon DEF IInv, Typed, SenderInv
  <2> QED
    BY <1>0, <1>1, <2>1, Bounds, SMTT(20) DEF Running, Boots
<1>4. \A c : (Mine(c) <=> c = b) /\ (Mine(c)' <=> c = b)
  BY <1>0, <1>1, Zenon DEF Mine
<1>5. \A c : Stored(c)' = Stored(c)
  BY <1>2, OpenIs, OpenIsNext, Zenon
<1>6. \A c : c # b => Open(c)' = Open(c)
  BY <1>2, <1>4, OpenIs, OpenIsNext, Zenon
<1>7. /\ Open(b) = (Buffered \cup ({agent.hand} \ {0})) \ IdsOf(ingested, b)
      /\ Open(b)' = (Buffered' \cup ({agent.hand} \ {0})) \ IdsOf(ingested, b)
  BY <1>1, <1>2, <1>4, OpenIs, OpenIsNext, Zenon
<1>8. CASE UNCHANGED agent
  <2>1. Buffered' = Buffered
    BY <1>8, Zenon DEF Buffered
  <2>2. Open(b)' = Open(b)
    BY <1>7, <2>1, Zenon
  <2>3. \A c \in Boots : Open(c)' = Open(c)
    BY <1>6, <2>2, Zenon
  <2>4. Promise!Submit(b)
    BY <1>1, <1>3, <1>5, <2>3, Zenon DEF Promise!Submit, Running, OpenOf, LogOf
  <2> QED
    BY <1>3, <2>4, Zenon DEF Promise!Next
<1>9. ASSUME NEW k \in Nat, Pushed(q, r, k, submitted + 1) PROVE Promise!Next
  <2> DEFINE d == {q[i].id : i \in 1 .. k}
  <2>1. Len(q) \in Nat /\ DOMAIN q = 1 .. Len(q) /\ k \in 0 .. Len(q) /\ DOMAIN r = 1 .. Len(q) - k + 1
    <3>1. r \in Seq(Queued)
      BY TypedMainLoop, AgentFields, Zenon DEF IInv, Typed
    <3> QED
      BY <1>9, <3>1, Numbers DEF Pushed
  <2>2. \A i, j \in 1 .. Len(q) : i < j => q[i].id < q[j].id
    BY <2>1, Zenon DEF IInv, QueueInv
  <2>3. \A i \in 1 .. Len(q) : q[i].id \in Buffered
    BY <2>1, Zenon DEF Buffered
  <2>4. ASSUME NEW x \in Buffered
        PROVE  /\ x \in Nat /\ x <= submitted /\ x \notin IdsOf(ingested, b)
               /\ agent.hand # 0 => agent.hand < x
    <3>1. \A t \in Known : t.id < x /\ t.id \in Nat
      BY Numbers, Zenon
    <3>2. x \in Nat /\ x <= submitted
      BY Numbers, Zenon
    <3>3. \A t \in ingested : t.id # x
      BY <3>1, <3>2 DEF Known
    <3>4. agent.hand # 0 => agent.hand < x
      BY <3>1, Numbers, Zenon
    <3> QED
      BY <3>2, <3>3, <3>4, Zenon DEF IdsOf
  <2>5. submitted + 1 \notin IdsOf(ingested, b) /\ submitted + 1 \notin Buffered
    <3>1. \A t \in ingested : t.id # submitted + 1
      BY <1>1, Numbers DEF Known
    <3>2. submitted + 1 \notin Buffered
      BY <1>1, <2>4
    <3> QED
      BY <3>1, <3>2, Zenon DEF IdsOf
  <2>6. Buffered = {q[i].id : i \in 1 .. Len(q)}
    BY <2>1, Zenon DEF Buffered
  <2>7. Buffered' = (Buffered \ d) \cup {submitted + 1}
    <3>1. ASSUME NEW i \in DOMAIN r PROVE r[i].id \in (Buffered \ d) \cup {submitted + 1}
      <4>1. CASE i = Len(q) - k + 1
        BY <1>9, <4>1, Zenon DEF Pushed
      <4>2. CASE i # Len(q) - k + 1
        <5>1. i \in 1 .. Len(q) - k /\ i + k \in 1 .. Len(q) /\ r[i] = q[i + k]
          <6>1. i \in 1 .. Len(q) - k /\ i + k \in 1 .. Len(q)
            BY <2>1, <4>2
          <6> QED
            BY <1>9, <6>1, Zenon DEF Pushed
        <5>2. \A j \in 1 .. k : j \in 1 .. Len(q) /\ j < i + k
          BY <2>1, <5>1
        <5>3. \A j \in 1 .. k : q[j].id < q[i + k].id /\ q[j].id \in Nat /\ q[i + k].id \in Nat
          BY <2>2, <2>3, <2>4, <5>1, <5>2
        <5>4. q[i + k].id \notin d
          BY <5>3
        <5> QED
          BY <2>3, <5>1, <5>4, Zenon
      <4> QED
        BY <4>1, <4>2, Zenon
    <3>2. ASSUME NEW j \in 1 .. Len(q), q[j].id \notin d PROVE \E i \in DOMAIN r : r[i].id = q[j].id
      <4>1. ~(j \in 1 .. k)
        BY <3>2, Zenon
      <4>2. j - k \in 1 .. Len(q) - k /\ (j - k) + k = j
        BY <2>1, <4>1
      <4>3. r[j - k] = q[j] /\ j - k \in DOMAIN r
        BY <1>9, <2>1, <4>2 DEF Pushed
      <4> QED
        BY <4>3, Zenon
    <3>3. \E i \in DOMAIN r : r[i].id = submitted + 1
      <4>1. Len(q) - k + 1 \in DOMAIN r
        BY <2>1
      <4>2. r[Len(q) - k + 1].id = submitted + 1
        BY <1>9, Zenon DEF Pushed
      <4> QED
        BY <4>1, <4>2, Zenon
    <3> HIDE DEF d, q
    <3>4. Buffered' \subseteq (Buffered \ d) \cup {submitted + 1}
      BY <3>1, Zenon DEF Buffered
    <3>5. (Buffered \ d) \subseteq Buffered'
      <4>1. SUFFICES ASSUME NEW y \in Buffered \ d PROVE y \in Buffered'
        OBVIOUS
      <4>2. PICK j \in 1 .. Len(q) : y = q[j].id
        BY <2>6, Zenon
      <4>3. \E i \in DOMAIN r : r[i].id = y
        BY <3>2, <4>2, Zenon
      <4> QED
        BY <4>3, Zenon DEF Buffered
    <3>6. submitted + 1 \in Buffered'
      BY <3>3, Zenon DEF Buffered
    <3> QED
      BY <3>4, <3>5, <3>6, Zenon
  <2>8. d \subseteq Buffered
    BY <2>1, <2>3
  <2>9. Open(b)' = (Open(b) \ d) \cup {submitted'}
    <3>1. ASSUME agent.hand # 0, agent.hand \in d PROVE FALSE
      <4> HIDE DEF d
      <4>1. agent.hand \in Nat /\ agent.hand < agent.hand
        BY <2>4, <2>8, <3>1, Zenon
      <4> QED
        BY <4>1
    <3> HIDE DEF d
    <3> QED
      BY <1>1, <1>7, <2>5, <2>7, <3>1, Zenon
  <2>10. d \in Promise!Evictable(Open(b))
    <3>1. d \subseteq Open(b)
      BY <1>7, <2>4, <2>8, Zenon
    <3>2. ASSUME NEW x \in d, NEW y \in Open(b) \ d, ~ x < y
          PROVE  \A z \in Open(b) : y <= z
      <4>1. y \notin Buffered
        <5>1. PICK i \in 1 .. k : x = q[i].id
          OBVIOUS
        <5>2. ASSUME NEW j \in 1 .. Len(q), y = q[j].id PROVE FALSE
          <6>1. ~(j \in 1 .. k)
            BY <3>2, <5>2, Zenon
          <6>2. i \in 1 .. Len(q) /\ i < j
            BY <2>1, <6>1
          <6> QED
            BY <2>2, <3>2, <5>1, <5>2, <6>2
        <5> QED
          BY <2>6, <5>2, Zenon
      <4>2. y = agent.hand /\ agent.hand # 0
        BY <1>7, <4>1, Zenon
      <4>3. ASSUME NEW z \in Open(b) PROVE y <= z
        <5>1. z \in Buffered \/ z = agent.hand
          BY <1>7, Zenon
        <5> QED
          BY <2>4, <4>2, <5>1, Numbers
      <4> QED
        BY <4>3, Zenon
    <3> HIDE DEF d
    <3> QED
      BY <3>1, <3>2, Zenon DEF Promise!Evictable
  <2> HIDE DEF d
  <2>11. [c \in Boots |-> Open(c)]' =
           [[c \in Boots |-> Open(c)] EXCEPT ![b] = (@ \ d) \cup {submitted'}]
    BY <1>3, <1>6, <2>9, Zenon
  <2>12. [c \in Boots |-> Open(c)][b] = Open(b)
    BY <1>3, Zenon
  <2>13. Promise!Submit(b)
    BY <1>1, <1>3, <1>5, <2>10, <2>11, <2>12, Zenon DEF Promise!Submit, Running, OpenOf, LogOf
  <2> QED
    BY <1>3, <2>13, Zenon DEF Promise!Next
<1> QED
  BY <1>1, <1>8, <1>9, Zenon

\* persist_classified_batch stores the oldest batch that its process still has
\* on its way, whether or not the process is there any more.
LEMMA StoreStep ==
  ASSUME IInv, NEW m \in wire, Persist(m), ingested' # ingested
  PROVE  Promise!Next
<1>0. PICK b, x : b = m.boot /\ x = m.id
  OBVIOUS
<1>1. /\ ingested' = ingested \cup {Row(m)} /\ UNCHANGED <<agent, submitted>> /\ m.stage = "authed"
      /\ wire' = (wire \ {m}) \cup {[m EXCEPT !.stage = "stored"]}
      /\ Row(m) \notin ingested
  <2>1. /\ ingested' = ingested \cup {Row(m)}
        /\ wire' = (wire \ {m}) \cup {[m EXCEPT !.stage = "stored"]}
    BY Zenon DEF Persist
  <2>2. UNCHANGED <<agent, submitted>> /\ m.stage = "authed"
    BY Zenon DEF Persist
  <2>3. Row(m) \notin ingested
    BY <2>1, Zenon
  <2> QED
    BY <2>1, <2>2, <2>3, Zenon
<1>2. m.kind = "batch" /\ Row(m).boot = b /\ Row(m).id = x /\ Row(m) \in Sent
  <2>1. m.kind = "batch"
    BY <1>1, Zenon DEF IInv, HandlerInv
  <2> QED
    BY <1>0, <2>1, Zenon DEF Row, Sent
<1>3. b \in Boots
  <2>1. m \in Messages
    BY Zenon DEF IInv, Typed
  <2> QED
    BY <1>0, <2>1, MessageFields
<1>4. Sent' = Sent
  <2> DEFINE n == [m EXCEPT !.stage = "stored"]
  <2>1. n.kind = "batch" /\ Row(n) = Row(m)
    <3>1. m \in Messages
      BY Zenon DEF IInv, Typed
    <3> QED
      BY <1>2, <3>1, Zenon DEF Messages, Row
  <2>2. wire' = (wire \ {m}) \cup {n}
    BY <1>1, Zenon
  <2> HIDE DEF n
  <2> QED
    BY <1>2, <2>1, <2>2, Zenon DEF Sent, Row
<1>5. /\ IdsOf(ingested', b) = IdsOf(ingested, b) \cup {x}
      /\ \A c : c # b => IdsOf(ingested', c) = IdsOf(ingested, c)
  BY <1>1, <1>2, Zenon DEF IdsOf
<1>6. x \notin IdsOf(ingested, b)
  <2>1. \A t \in ingested : t.id = x => t = Row(m)
    BY <1>2, Zenon DEF IInv, RowsInv, Known
  <2> QED
    BY <1>1, <2>1, Zenon DEF IdsOf
<1>7. /\ \A c : (Mine(c)' <=> Mine(c)) /\ Buffered' = Buffered /\ agent' = agent
      /\ Running' = Running
  BY <1>1, Zenon DEF Mine, Buffered, Running
<1>8. Open(b)' = Open(b) \ {x} /\ \A c : c # b => Open(c)' = Open(c)
  <2>1. ASSUME NEW c PROVE Open(c)' = Open(c) \ (IdsOf(ingested', c) \ IdsOf(ingested, c))
    <3>1. IdsOf(ingested, c) \subseteq IdsOf(ingested', c)
      BY <1>1, Zenon DEF IdsOf
    <3>2. CASE Mine(c)
      <4>1. /\ Open(c) = (Buffered \cup ({agent.hand} \ {0})) \ IdsOf(ingested, c)
            /\ Open(c)' = (Buffered \cup ({agent.hand} \ {0})) \ IdsOf(ingested', c)
        BY <1>7, <3>2, OpenIs, OpenIsNext, Zenon
      <4> QED
        BY <3>1, <4>1, Zenon
    <3>3. CASE ~Mine(c)
      <4>1. /\ Open(c) = IdsOf(Sent, c) \ IdsOf(ingested, c)
            /\ Open(c)' = IdsOf(Sent, c) \ IdsOf(ingested', c)
        BY <1>4, <1>7, <3>3, OpenIs, OpenIsNext, Zenon
      <4> QED
        BY <3>1, <4>1, Zenon
    <3> QED
      BY <3>2, <3>3, Zenon
  <2>2. IdsOf(ingested', b) \ IdsOf(ingested, b) = {x}
    BY <1>5, <1>6, Zenon
  <2>3. \A c : c # b => IdsOf(ingested', c) \ IdsOf(ingested, c) = {}
    BY <1>5, Zenon
  <2>4. \A c : c # b => Open(c)' = Open(c) \ {}
    BY <2>1, <2>3, Zenon
  <2>5. Open(b)' = Open(b) \ {x}
    BY <2>1, <2>2, Zenon
  <2> QED
    BY <2>4, <2>5, Zenon
<1>9. \A c : Stored(c)' = IF c = b THEN Stored(c) \cup {x} ELSE Stored(c)
  BY <1>5, OpenIs, OpenIsNext, Zenon
<1>10. x \in Open(b) /\ \A y \in Open(b) : x <= y
  <2>1. CASE Mine(b)
    <3>1. agent.up /\ agent.boot = b
      BY <2>1, Zenon DEF Mine
    <3>2. Row(m) \in InHand
      BY <1>1, <1>2, <3>1, Zenon DEF IInv, RowsInv
    <3>3. agent.hand # 0 /\ agent.hand = x
      BY <1>2, <3>2 DEF InHand
    <3>4. Open(b) = (Buffered \cup ({agent.hand} \ {0})) \ IdsOf(ingested, b)
      BY <2>1, OpenIs, Zenon
    <3>5. ASSUME NEW y \in Buffered PROVE x < y /\ x \in Nat /\ y \in Nat
      <4>1. Row(m) \in Known
        BY <1>2, Zenon DEF Known
      <4> QED
        BY <1>2, <4>1, Numbers, Zenon
    <3>6. x \in Nat
      BY <3>3, Numbers, Zenon
    <3>7. \A y \in Buffered : x <= y
      BY <3>5
    <3> QED
      BY <1>6, <3>3, <3>4, <3>6, <3>7
  <2>2. CASE ~Mine(b)
    <3>1. Open(b) = IdsOf(Sent, b) \ IdsOf(ingested, b)
      BY <2>2, OpenIs, Zenon
    <3>2. x \in IdsOf(Sent, b)
      BY <1>2, Zenon DEF IdsOf
    <3>3. ASSUME NEW y \in Open(b) PROVE y = x
      <4>1. PICK t \in Sent : t.boot = b /\ t.id = y
        BY <3>1, Zenon DEF IdsOf
      <4>2. t \notin ingested
        BY <3>1, <4>1, Zenon DEF IdsOf
      <4>3. t = Row(m)
        BY <1>1, <1>2, <4>1, <4>2 DEF IInv, RowsInv
      <4> QED
        BY <1>2, <4>1, <4>3, Zenon
    <3>4. x \in Nat
      BY <1>2, Numbers, Zenon DEF Known
    <3> QED
      BY <1>6, <3>1, <3>2, <3>3, <3>4
  <2> QED
    BY <2>1, <2>2, Zenon
<1>11. /\ [c \in Boots |-> Open(c)]' = [[c \in Boots |-> Open(c)] EXCEPT ![b] = @ \ {x}]
       /\ [c \in Boots |-> Open(c)][b] = Open(b)
  BY <1>3, <1>8, Zenon
<1>12. [c \in Boots |-> Stored(c)]' = [[c \in Boots |-> Stored(c)] EXCEPT ![b] = @ \cup {x}]
  BY <1>3, <1>9, Zenon
<1>13. Promise!Store(b)
  BY <1>1, <1>7, <1>10, <1>11, <1>12, Zenon DEF Promise!Store, Running, OpenOf, LogOf
<1> QED
  BY <1>3, <1>13, Zenon DEF Promise!Next

\* When a process ends, at most the batch in its sender's hands may still be
\* stored; requests of earlier processes go on.
LEMMA EndStep ==
  ASSUME IInv, Exit \/ Kill
  PROVE  Promise!Next
<1>0. PICK b : b = agent.boot
  OBVIOUS
<1>1. agent'.up = FALSE /\ agent'.boot = b /\ agent.up
  <2>1. agent' = Down(agent.boot) /\ agent.up
    BY Zenon DEF Exit, Kill
  <2> QED
    BY <1>0, <2>1, Zenon DEF Down
<1>2. UNCHANGED <<ingested, submitted>> /\ wire' = Orphans
  BY Zenon DEF Exit, Kill
<1>3. b \in Boots /\ Running = {b} /\ Running' = {}
  <2>1. agent.boot \in 0 .. MaxBoot /\ agent.boot # 0
    BY <1>1, AgentFields, Zenon DEF IInv, Typed, SenderInv
  <2> QED
    BY <1>0, <1>1, <2>1, Bounds DEF Running, Boots
<1>4. \A c : (Mine(c) <=> c = b) /\ ~Mine(c)'
  BY <1>0, <1>1, Zenon DEF Mine
<1>5. \A c : Stored(c)' = Stored(c)
  BY <1>2, OpenIs, OpenIsNext, Zenon
<1>6. ASSUME NEW n \in wire'
      PROVE  \E m \in wire : SameBatch(n, m)
  <2>1. PICK m \in wire : n = [m EXCEPT !.live = FALSE]
    BY <1>2, Zenon DEF Orphans
  <2>2. m \in Messages
    BY Zenon DEF IInv, Typed
  <2> QED
    BY <2>1, <2>2, Zenon DEF Messages, SameBatch
<1>7. Sent' \subseteq Sent
  BY <1>6, SentShrinks, Zenon
<1>8. ASSUME NEW t \in Sent, t.boot # b PROVE t \in Sent'
  <2>1. PICK m \in wire : m.kind = "batch" /\ t = Row(m)
    BY Zenon DEF Sent
  <2>2. m.boot # b
    BY <1>8, <2>1 DEF Row
  <2>3. m.stage # "answered"
    BY <1>0, <2>2, Zenon DEF IInv, HandlerInv, SenderInv
  <2> DEFINE n == [m EXCEPT !.live = FALSE]
  <2>4. n \in wire'
    BY <1>2, <2>3, Zenon DEF Orphans
  <2>5. n.kind = "batch" /\ Row(n) = Row(m)
    <3>1. m \in Messages
      BY Zenon DEF IInv, Typed
    <3> QED
      BY <2>1, <3>1, Zenon DEF Messages, Row
  <2> HIDE DEF n
  <2> QED
    BY <2>1, <2>4, <2>5, Zenon DEF Sent, Row
<1>9. ASSUME NEW c, c # b PROVE Open(c)' = Open(c)
  <2>1. IdsOf(Sent', c) = IdsOf(Sent, c)
    <3>1. {u \in Sent' : u.boot = c} = {u \in Sent : u.boot = c}
      BY <1>7, <1>8, <1>9, Zenon
    <3> QED
      BY <3>1, Zenon DEF IdsOf
  <2> QED
    BY <1>2, <1>4, <1>9, <2>1, OpenIs, OpenIsNext, ZenonT(30)
<1>10. Open(b)' \subseteq Open(b)
  <2>1. /\ Open(b)' = IdsOf(Sent', b) \ IdsOf(ingested, b)
        /\ Open(b) = (Buffered \cup ({agent.hand} \ {0})) \ IdsOf(ingested, b)
    BY <1>2, <1>4, OpenIs, OpenIsNext, Zenon
  <2>2. ASSUME NEW x \in Open(b)' PROVE x \in Open(b)
    <3>1. PICK t \in Sent' : t.boot = b /\ t.id = x
      BY <2>1, Zenon DEF IdsOf
    <3>2. t \notin ingested /\ x \notin IdsOf(ingested, b)
      BY <2>1, <3>1, Zenon DEF IdsOf
    <3>3. t \in InHand
      BY <1>0, <1>1, <1>7, <3>1, <3>2 DEF IInv, RowsInv
    <3>4. x = agent.hand /\ agent.hand # 0
      BY <3>1, <3>3 DEF InHand
    <3> QED
      BY <2>1, <3>2, <3>4, Zenon
  <2> QED
    BY <2>2, Zenon
<1>11. PICK s : s = Open(b)'
  OBVIOUS
<1>12. /\ [c \in Boots |-> Open(c)]' = [[c \in Boots |-> Open(c)] EXCEPT ![b] = s]
       /\ [c \in Boots |-> Open(c)][b] = Open(b)
  BY <1>3, <1>9, <1>11, Zenon
<1>13. s \in SUBSET Open(b)
  BY <1>10, <1>11, Zenon
<1>14. Promise!End(b)
  BY <1>2, <1>3, <1>5, <1>12, <1>13, Zenon DEF Promise!End, Running, OpenOf, LogOf
<1> QED
  BY <1>3, <1>14, Zenon DEF Promise!Next

\* A request is a new one of the running process, or it was on its way before.
NoneNew == \A n \in wire' : (\E m \in wire : SameBatch(n, m)) \/ (agent.up /\ n.boot = agent.boot)

\* Only the sender creates requests; the network and the Collector move or
\* drop them.
LEMMA WireMoves ==
  ASSUME Typed,
         Elsewhere \/ Pop \/ Receive
  PROVE  NoneNew
<1>0. wire \subseteq Messages /\ \A m : SameBatch(m, m)
  BY Zenon DEF Typed, SameBatch
<1>1. CASE wire' \subseteq wire
  BY <1>0, <1>1, Zenon DEF NoneNew
<1>2. ASSUME NEW m \in wire, NEW x, Replaced(m, x) PROVE NoneNew
  BY <1>0, <1>2, Zenon DEF NoneNew, Replaced
<1>3. ASSUME NEW k, agent.up, wire' = wire \cup {Request(k)} PROVE NoneNew
  <2>1. Request(k).boot = agent.boot
    BY Zenon DEF Request
  <2> QED
    BY <1>0, <1>3, <2>1, Zenon DEF NoneNew
<1>4. CASE SendEnroll \/ SendBatch
  BY <1>3, <1>4, Zenon DEF SendEnroll, SendBatch
<1>5. ASSUME NEW m \in wire, NEW t, NEW k, Answer(m, t, k) PROVE NoneNew
  <2>1. CASE wire' = wire \ {m}
    BY <1>1, <2>1, Zenon
  <2>2. ASSUME NEW x, Replaced(m, x) PROVE NoneNew
    BY <1>2, <2>2, Zenon
  <2> QED
    BY <1>0, <1>5, <2>1, <2>2, AnswerEffect, Zenon
<1>6. ASSUME NEW m \in wire, NEW s, wire' = (wire \ {m}) \cup {[m EXCEPT !.stage = s]} PROVE NoneNew
  <2> DEFINE x == [m EXCEPT !.stage = s]
  <2>1. m \in Messages
    BY <1>0, Zenon
  <2>2. SameBatch(x, m)
    BY <2>1, Zenon DEF Messages, SameBatch
  <2>3. wire' = (wire \ {m}) \cup {x}
    BY <1>6, Zenon
  <2> HIDE DEF x
  <2> QED
    BY <1>2, <2>2, <2>3, Zenon DEF Replaced
<1>7. CASE Timeout
  <2>1. PICK m \in wire : wire' = (wire \ {m}) \cup {[m EXCEPT !.live = FALSE]}
    BY <1>7, Zenon DEF Timeout
  <2> DEFINE x == [m EXCEPT !.live = FALSE]
  <2>2. m \in Messages
    BY <1>0, Zenon
  <2>3. SameBatch(x, m)
    BY <2>2, Zenon DEF Messages, SameBatch
  <2>4. wire' = (wire \ {m}) \cup {x}
    BY <2>1, Zenon
  <2> HIDE DEF x
  <2> QED
    BY <1>2, <2>3, <2>4, Zenon DEF Replaced
<1>8. ASSUME NEW m \in wire, Enroll(m) PROVE NoneNew
  BY <1>5, <1>8, Zenon DEF Enroll
<1>9. ASSUME NEW m \in wire, Authenticate(m) PROVE NoneNew
  BY <1>5, <1>6, <1>9, Zenon DEF Authenticate
<1>10. ASSUME NEW m \in wire, Refuse(m) \/ Decide(m) PROVE NoneNew
  BY <1>5, <1>10, Zenon DEF Refuse, Decide
<1>11. ASSUME NEW m \in wire, Persist(m) PROVE NoneNew
  BY <1>5, <1>6, <1>11, Zenon DEF Persist
<1>12. ASSUME NEW m \in wire, Lose(m) \/ Unreachable(m) PROVE NoneNew
  BY <1>1, <1>12, Zenon DEF Lose, Unreachable
<1>13. CASE Signal \/ Close \/ Disconnected \/ Delay \/ Pop
  BY <1>1, <1>13, Zenon DEF Signal, Close, Disconnected, Delay, Pop
<1>14. CASE RivalEnroll \/ GoStale \/ CollectorCrash \/ CollectorStart \/ UNCHANGED vars
  BY <1>1, <1>14, Zenon DEF RivalEnroll, GoStale, CollectorCrash, CollectorStart, vars
<1>15. CASE Receive
  BY <1>1, <1>15, Zenon DEF Receive
<1> QED
  BY <1>4, <1>7, <1>8, <1>9, <1>10, <1>11, <1>12, <1>13, <1>14, <1>15 DEF Elsewhere

\* The rows on their way are those of before, or of the running process.
LEMMA SentMoves ==
  ASSUME NoneNew
  PROVE  \A t \in Sent' : t \in Sent \/ Mine(t.boot)
<1>1. SUFFICES ASSUME NEW t \in Sent' PROVE t \in Sent \/ Mine(t.boot)
  OBVIOUS
<1>2. PICK n \in wire' : n.kind = "batch" /\ t = Row(n)
  BY Zenon DEF Sent, Row
<1>3. CASE agent.up /\ n.boot = agent.boot
  <2>1. t.boot = n.boot
    BY <1>2, Zenon DEF Row
  <2> QED
    BY <1>3, <2>1, Zenon DEF Mine
<1>4. ASSUME NEW m \in wire, SameBatch(n, m) PROVE t \in Sent
  <2>1. Row(n) = Row(m) /\ m.kind = "batch"
    BY <1>2, <1>4, SameRow, Zenon DEF SameBatch
  <2> QED
    BY <1>2, <2>1, Zenon DEF Sent
<1> QED
  BY <1>3, <1>4, Zenon DEF NoneNew

\* The steps of the sender, the network and the Collector that the promise
\* does not see: what may still be stored stays so.
LEMMA OtherStep ==
  ASSUME IInv, UNCHANGED <<ingested, submitted>>,
         Elsewhere \/ Pop \/ Receive
  PROVE  Promise!Next
<1>0. Typed /\ SenderInv /\ HandlerInv /\ agent \in Agents
  BY Zenon DEF IInv, Typed
<1>1. \A t \in Sent' : t \in Sent \/ Mine(t.boot)
  BY <1>0, WireMoves, SentMoves, Zenon
<1>2. CASE UNCHANGED core
  <2>1. agent'.up = agent.up /\ agent'.boot = agent.boot /\ agent'.hand = agent.hand
        /\ agent'.queue = agent.queue
    BY <1>2, Zenon DEF core
  <2>2. Buffered' = Buffered
    BY <2>1, Zenon DEF Buffered
  <2> QED
    BY <1>1, <2>1, <2>2, QuietStep, Zenon
<1>3. CASE Receive
  <2>1. PICK m \in wire : /\ m.live /\ m.stage = "answered"
                          /\ TakeEnrollment(m) \/ TakeAnswer(m)
    BY <1>3, Zenon DEF Receive
  <2>2. CASE m.kind = "batch" /\ m.status = "ok" /\ agent' = [agent EXCEPT !.hand = 0, !.pc = "pop"]
    <3>1. /\ agent'.hand = 0 /\ agent'.up = agent.up /\ agent'.boot = agent.boot
          /\ agent'.queue = agent.queue
      BY <1>0, <2>2, Zenon DEF Agents
    <3>2. Row(m) \in InHand /\ Row(m) \in ingested
      BY <1>0, <2>1, <2>2 DEF SenderInv, HandlerInv
    <3>3. Row(m).boot = agent.boot /\ Row(m).id = agent.hand
      BY <3>2 DEF InHand
    <3>4. agent.hand \in IdsOf(ingested, agent.boot)
      BY <3>2, <3>3, Zenon DEF IdsOf
    <3>5. Buffered' = Buffered
      BY <3>1, Zenon DEF Buffered
    <3>6. Buffered' \cup ({agent'.hand} \ {0}) \cup IdsOf(ingested, agent.boot)
            = Buffered \cup ({agent.hand} \ {0}) \cup IdsOf(ingested, agent.boot)
      BY <3>1, <3>4, <3>5, Zenon
    <3> QED
      BY <1>1, <3>1, <3>6, QuietStep, Zenon
  <2> QED
    BY <1>0, <1>2, <2>1, <2>2, ReceiveEffect
<1>4. CASE Pop
  <2>1. agent'.up = agent.up /\ agent'.boot = agent.boot /\ agent.hand = 0
    BY <1>0, <1>4, PopEffect, SMTT(20)
  <2>2. Buffered' \cup ({agent'.hand} \ {0}) = Buffered \cup ({agent.hand} \ {0})
    <3> DEFINE q == agent.queue
               r == agent'.queue
    <3>1. CASE agent'.queue = agent.queue /\ agent'.hand = agent.hand
      BY <3>1, Zenon DEF Buffered
    <3>2. CASE /\ q # <<>> /\ Len(r) = Len(q) - 1 /\ r = Tail(q)
               /\ \A i \in 1 .. Len(q) - 1 : r[i] = q[i + 1]
               /\ agent'.hand = q[1].id
      <4>1. q \in Seq(Queued)
        BY <1>0, AgentFields, Zenon
      <4>2. /\ Len(q) \in Nat \ {0} /\ DOMAIN q = 1 .. Len(q) /\ DOMAIN r = 1 .. Len(q) - 1
            /\ q[1] \in Queued
        BY <3>2, <4>1
      <4>3. q[1].id # 0
        BY <4>2, QueuedFields, Bounds DEF Ids
      <4>4. ASSUME NEW x \in Buffered PROVE x \in Buffered' \cup {agent'.hand}
        <5>1. PICK i \in DOMAIN q : x = q[i].id
          BY Zenon DEF Buffered
        <5>2. CASE i = 1
          BY <3>2, <5>1, <5>2
        <5>3. CASE i # 1
          <6>1. i - 1 \in DOMAIN r /\ r[i - 1] = q[i]
            BY <3>2, <4>2, <5>3
          <6> QED
            BY <5>1, <6>1, Zenon DEF Buffered
        <5> QED
          BY <5>2, <5>3, Zenon
      <4>5. ASSUME NEW x \in Buffered' PROVE x \in Buffered
        <5>1. PICK i \in DOMAIN r : x = r[i].id
          BY Zenon DEF Buffered
        <5>2. i + 1 \in DOMAIN q /\ r[i] = q[i + 1]
          BY <3>2, <4>2
        <5> QED
          BY <5>1, <5>2, Zenon DEF Buffered
      <4>6. agent'.hand \in Buffered
        BY <3>2, <4>2 DEF Buffered
      <4> QED
        BY <2>1, <3>2, <4>3, <4>4, <4>5, <4>6
    <3> QED
      BY <1>0, <1>4, <3>1, <3>2, PopEffect
  <2> QED
    BY <1>1, <2>1, <2>2, QuietStep, Zenon
<1> QED
  BY <1>0, <1>2, <1>3, <1>4, CoreUntouched, Zenon

\* Telemetry implements TelemetryDelivery: whatever is lost, refused, repeated
\* or cut off, sender_loop, push and persist_classified_batch store the batches
\* of a process once and in order, and lose one only to eviction or to the end
\* of the process.
THEOREM PromiseKept == Spec => KeepsPromise
<1>1. Init => Promise!Init
  <2>1. SUFFICES ASSUME Init PROVE Promise!Init
    OBVIOUS
  <2>2. agent.up = FALSE
    BY <2>1, Zenon DEF Init, Down
  <2>3. wire = {} /\ ingested = {} /\ submitted = 0
    BY <2>1, Zenon DEF Init
  <2>4. \A b : ~Mine(b)
    BY <2>2, Zenon DEF Mine
  <2>5. Sent = {}
    BY <2>3, Zenon DEF Sent
  <2>6. \A b : IdsOf({}, b) = {}
    BY Zenon DEF IdsOf
  <2>7. \A b : Open(b) = {} /\ Stored(b) = {}
    BY <2>3, <2>4, <2>5, <2>6, OpenIs, SMTT(20)
  <2> QED
    BY <2>2, <2>3, <2>7, Zenon DEF Promise!Init, Running, OpenOf, LogOf
<1>2. IInv /\ [Next]_vars => [Promise!Next]_(Promise!vars)
  <2>1. SUFFICES ASSUME IInv, [Next]_vars PROVE Promise!Next
    OBVIOUS
  <2>2. CASE Start
    BY <2>1, <2>2, StartStep, Zenon
  <2>3. CASE Exit \/ Kill
    BY <2>1, <2>3, EndStep, Zenon
  <2>4. CASE \E size \in left.sizes : Push(size)
    BY <2>1, <2>4, SubmitStep, Zenon
  <2>5. ASSUME NEW m \in wire, Persist(m) PROVE Promise!Next
    <3>1. UNCHANGED submitted
      BY <2>5, Zenon DEF Persist
    <3>2. CASE ingested' # ingested
      BY <2>1, <2>5, <3>2, StoreStep
    <3>3. CASE ingested' = ingested
      BY <2>1, <2>5, <3>1, <3>3, OtherStep DEF Elsewhere
    <3> QED
      BY <3>2, <3>3, Zenon
  <2>6. CASE \/ Signal \/ Close \/ Pop \/ SendEnroll \/ SendBatch \/ Receive \/ Disconnected
             \/ Timeout \/ Delay
    <3>1. UNCHANGED <<ingested, submitted>>
      BY <2>6, Zenon DEF Signal, Close, Pop, SendEnroll, SendBatch, Receive, Disconnected, Timeout, Delay
    <3> QED
      BY <2>1, <2>6, <3>1, OtherStep DEF Elsewhere
  <2>7. CASE RivalEnroll \/ GoStale \/ CollectorCrash \/ CollectorStart \/ UNCHANGED vars
    <3>1. UNCHANGED <<ingested, submitted>>
      BY <2>7, Zenon DEF RivalEnroll, GoStale, CollectorCrash, CollectorStart, vars
    <3> QED
      BY <2>1, <2>7, <3>1, OtherStep DEF Elsewhere
  <2>8. ASSUME NEW m \in wire,
               Enroll(m) \/ Authenticate(m) \/ Refuse(m) \/ Decide(m) \/ Lose(m) \/ Unreachable(m)
        PROVE  Promise!Next
    <3>1. UNCHANGED <<ingested, submitted>>
      BY <2>8, Zenon DEF Enroll, Authenticate, Refuse, Decide, Lose, Unreachable
    <3> QED
      BY <2>1, <2>8, <3>1, OtherStep DEF Elsewhere
  <2> QED
    BY <2>1, <2>2, <2>3, <2>4, <2>5, <2>6, <2>7, <2>8 DEF Next
<1> QED
  BY <1>1, <1>2, IInvariant, PTL DEF Spec, KeepsPromise, Promise!Spec

-----------------------------------------------------------------------------
(* What the promise amounts to.                                            *)

\* Every step keeps the numbers numbers: submit counts up by one, and
\* sender_loop and ingest_batches only move or drop batches.
LEMMA TypeStep == Promise!TypeOK /\ [Promise!Next]_(Promise!vars) => Promise!TypeOK'
<1> SUFFICES ASSUME Promise!TypeOK, [Promise!Next]_(Promise!vars) PROVE Promise!TypeOK'
  OBVIOUS
<1> USE DEF Promise!TypeOK
<1>1. CASE Promise!Abandon
  BY <1>1 DEF Promise!Abandon
<1>2. ASSUME NEW b \in Boots, Promise!Start(b) PROVE Promise!TypeOK'
  BY <1>2 DEF Promise!Start
<1>3. ASSUME NEW b \in Boots, Promise!Submit(b) PROVE Promise!TypeOK'
  <2>1. submitted' \in Nat /\ LogOf' = LogOf /\ Running' = Running
    BY <1>3 DEF Promise!Submit
  <2>2. OpenOf' \in [Boots -> SUBSET Nat]
    <3>1. CASE UNCHANGED OpenOf
      BY <3>1
    <3>2. ASSUME NEW d \in Promise!Evictable(OpenOf[b]),
                 OpenOf' = [OpenOf EXCEPT ![b] = (@ \ d) \cup {submitted'}]
          PROVE  OpenOf' \in [Boots -> SUBSET Nat]
      BY <3>2, <2>1
    <3> QED
      BY <3>1, <3>2, <1>3 DEF Promise!Submit
  <2> QED
    BY <2>1, <2>2
<1>4. ASSUME NEW b \in Boots, Promise!Store(b) PROVE Promise!TypeOK'
  <2>1. PICK x \in OpenOf[b] : /\ OpenOf' = [OpenOf EXCEPT ![b] = @ \ {x}]
                               /\ LogOf' = [LogOf EXCEPT ![b] = @ \cup {x}]
                               /\ UNCHANGED <<submitted, Running>>
    BY <1>4 DEF Promise!Store
  <2> QED
    BY <2>1
<1>5. ASSUME NEW b \in Boots, Promise!End(b) PROVE Promise!TypeOK'
  <2>1. PICK s \in SUBSET OpenOf[b] : OpenOf' = [OpenOf EXCEPT ![b] = s]
    BY <1>5 DEF Promise!End
  <2> QED
    BY <2>1, <1>5 DEF Promise!End
<1>6. CASE UNCHANGED Promise!vars
  BY <1>6 DEF Promise!vars
<1> QED
  BY <1>1, <1>2, <1>3, <1>4, <1>5, <1>6 DEF Promise!Next

\* A step that opens nothing new and stores nothing keeps the order: the end
\* of a process and the loss of what it left on its way are of this kind.
LEMMA DropKeepsOrder ==
  ASSUME Promise!Ordered, UNCHANGED <<submitted, LogOf>>,
         \A b \in Boots : OpenOf'[b] \subseteq OpenOf[b]
  PROVE  Promise!Ordered'
BY DEF Promise!Ordered

\* push, persist_classified_batch and the end of a process keep every stored
\* batch before every open one, and every batch in one process.
LEMMA OrderStep == Promise!TypeOK /\ Promise!Ordered /\ [Promise!Next]_(Promise!vars) => Promise!Ordered'
<1> SUFFICES ASSUME Promise!TypeOK, Promise!Ordered, [Promise!Next]_(Promise!vars) PROVE Promise!Ordered'
  OBVIOUS
<1>1. CASE Promise!Abandon
  BY <1>1, DropKeepsOrder DEF Promise!Abandon
<1>2. ASSUME NEW b \in Boots, Promise!Start(b) PROVE Promise!Ordered'
  BY <1>2, DropKeepsOrder DEF Promise!Start
<1>3. ASSUME NEW b \in Boots, Promise!Submit(b) PROVE Promise!Ordered'
  <2>1. submitted' = submitted + 1 /\ LogOf' = LogOf
    BY <1>3 DEF Promise!Submit
  <2>2. \A c \in Boots : OpenOf'[c] \subseteq OpenOf[c] \cup (IF c = b THEN {submitted'} ELSE {})
    BY <1>3 DEF Promise!Submit, Promise!TypeOK
  <2>3. ASSUME NEW c \in Boots, NEW x \in LogOf[c] \cup OpenOf[c] PROVE x < submitted'
    BY <2>1, <2>3 DEF Promise!Ordered, Promise!TypeOK
  <2>4. ASSUME NEW c \in Boots PROVE \A x \in LogOf'[c], y \in OpenOf'[c] : x < y
    BY <2>1, <2>2, <2>3 DEF Promise!Ordered
  <2>5. ASSUME NEW c \in Boots PROVE \A x \in LogOf'[c] \cup OpenOf'[c] : x <= submitted'
    BY <2>1, <2>2, <2>3 DEF Promise!TypeOK
  <2>6. ASSUME NEW c \in Boots, NEW e \in Boots \ {c}
        PROVE  (LogOf'[c] \cup OpenOf'[c]) \cap (LogOf'[e] \cup OpenOf'[e]) = {}
    <3>1. (LogOf[c] \cup OpenOf[c]) \cap (LogOf[e] \cup OpenOf[e]) = {}
      BY DEF Promise!Ordered
    <3>2. /\ submitted' \notin LogOf[c] \cup OpenOf[c]
          /\ submitted' \notin LogOf[e] \cup OpenOf[e]
      BY <2>1, <2>3 DEF Promise!TypeOK
    <3> QED
      BY <2>1, <2>2, <3>1, <3>2
  <2> QED
    BY <2>4, <2>5, <2>6 DEF Promise!Ordered
<1>4. ASSUME NEW b \in Boots, Promise!Store(b) PROVE Promise!Ordered'
  <2>1. PICK x \in OpenOf[b] : /\ \A y \in OpenOf[b] : x <= y
                               /\ OpenOf' = [OpenOf EXCEPT ![b] = @ \ {x}]
                               /\ LogOf' = [LogOf EXCEPT ![b] = @ \cup {x}]
                               /\ UNCHANGED <<submitted, Running>>
    BY <1>4 DEF Promise!Store
  <2>2. \A c \in Boots : LogOf'[c] \cup OpenOf'[c] = LogOf[c] \cup OpenOf[c]
    BY <2>1 DEF Promise!TypeOK
  <2>3. ASSUME NEW c \in Boots PROVE \A u \in LogOf'[c], v \in OpenOf'[c] : u < v
    <3>1. CASE c = b
      <4>1. \A v \in OpenOf'[b] : v \in OpenOf[b] /\ x < v
        BY <2>1 DEF Promise!TypeOK
      <4> QED
        BY <2>1, <3>1, <4>1 DEF Promise!Ordered, Promise!TypeOK
    <3>2. CASE c # b
      BY <2>1, <3>2 DEF Promise!Ordered, Promise!TypeOK
    <3> QED
      BY <3>1, <3>2
  <2>4. submitted' = submitted
    BY <2>1
  <2> QED
    BY <2>2, <2>3, <2>4 DEF Promise!Ordered
<1>5. ASSUME NEW b \in Boots, Promise!End(b) PROVE Promise!Ordered'
  <2>1. PICK s \in SUBSET OpenOf[b] : OpenOf' = [OpenOf EXCEPT ![b] = s]
    BY <1>5 DEF Promise!End
  <2>2. \A c \in Boots : OpenOf'[c] \subseteq OpenOf[c]
    BY <2>1 DEF Promise!TypeOK
  <2> QED
    BY <2>2, <1>5, DropKeepsOrder DEF Promise!End
<1>6. CASE UNCHANGED Promise!vars
  BY <1>6, DropKeepsOrder DEF Promise!vars
<1> QED
  BY <1>1, <1>2, <1>3, <1>4, <1>5, <1>6 DEF Promise!Next

\* Whoever keeps the promise always has the stored batches before the open ones,
\* and every batch in one Agent process.
LEMMA PromiseOrdered == Promise!Spec => [](Promise!TypeOK /\ Promise!Ordered)
<1>1. Promise!Init => Promise!TypeOK /\ Promise!Ordered
  BY DEF Promise!Init, Promise!TypeOK, Promise!Ordered
<1>2. Promise!TypeOK /\ Promise!Ordered /\ [Promise!Next]_(Promise!vars)
        => (Promise!TypeOK /\ Promise!Ordered)'
  BY TypeStep, OrderStep
<1> QED
  BY <1>1, <1>2, PTL DEF Promise!Spec

\* Whoever keeps the promise stores each batch once and after all that its
\* process had stored before.
LEMMA PromiseStores == Promise!Spec => Promise!StoredInOrder
<1> DEFINE A == \A b \in Boots :
                  /\ LogOf[b] \subseteq LogOf'[b]
                  /\ \A x \in LogOf'[b] \ LogOf[b], y \in LogOf[b] : y < x
<1>1. ASSUME Promise!TypeOK, Promise!Ordered, [Promise!Next]_(Promise!vars) PROVE A
  <2>1. CASE LogOf' = LogOf
    BY <2>1
  <2>2. ASSUME NEW b \in Boots, Promise!Store(b) PROVE A
    <3>1. PICK x \in OpenOf[b] : LogOf' = [LogOf EXCEPT ![b] = @ \cup {x}]
      BY <2>2 DEF Promise!Store
    <3>2. \A y \in LogOf[b] : y < x
      BY <1>1 DEF Promise!Ordered
    <3> QED
      BY <1>1, <3>1, <3>2 DEF Promise!TypeOK
  <2> QED
    BY <1>1, <2>1, <2>2 DEF Promise!Next, Promise!vars, Promise!Abandon, Promise!Start, Promise!Submit,
                                Promise!End
<1>2. Promise!TypeOK /\ Promise!Ordered /\ [Promise!Next]_(Promise!vars) => [A]_(Promise!vars)
  BY <1>1
<1> HIDE DEF A
<1>3. Promise!Spec => [][A]_(Promise!vars)
  BY <1>2, PromiseOrdered, PTL DEF Promise!Spec
<1> QED
  BY <1>3 DEF A, Promise!StoredInOrder

\* sender_loop, push and ingest_batches: the stored batches of an Agent process
\* always precede those it may still store, and every batch is of one process.
THEOREM BatchesAreOrdered == Spec => []Promise!Ordered
BY PromiseKept, PromiseOrdered, PTL DEF KeepsPromise

\* However often sender_loop repeats a request, and whatever becomes of the
\* answers, ingest_batches takes each batch once, and after all the batches of
\* its process that it has taken before.
THEOREM StoresInOrder == Spec => Promise!StoredInOrder
BY PromiseKept, PromiseStores, PTL DEF KeepsPromise
=============================================================================
