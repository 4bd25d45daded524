-------------------------- MODULE AgentFlowsProofs --------------------------
(***************************************************************************)
(* Proofs about AgentFlows: the verdict map is of the revision its         *)
(* switches say, a block has an owner, a command leaves the blocks of      *)
(* other flows alone, and an older command never replaces a newer one,     *)
(* for every set of flows, policies and clients and every bound.           *)
(***************************************************************************)
EXTENDS AgentFlows, TLAPS

-----------------------------------------------------------------------------
(* The inductive invariant.                                                *)

Slot  == Verdicts \cup {None}
Claim == [flow : Flows, rev : Nat, pol : Policies \cup {None}, mac : Macs \cup {None},
          until : Nat, seen : BOOLEAN]

\* The owners of one key: they are of one revision, and t is the lease.
Book(C, t) ==
  /\ C \in SUBSET Claim
  /\ \A c, d \in C : c.rev = d.rev
  /\ \A c \in C : c.until <= MaxNow + t

EntryFields == {"keys", "verified", "unresolved", "mac", "conflict", "ended", "partial", "last", "shaped"}
Entry(e)    == DOMAIN e = EntryFields /\ e.mac \in Macs \cup {None} /\ (e.last = None \/ e.last \in Nat)
Cached(c)   == c = [f \in Flows |-> c[f]] /\ \A f \in Flows : c[f] = None \/ Entry(c[f])

\* The switches: commands are let in only when the maps were reset for the saved
\* revision, and never while the emergency switch counts as done.
GateFields == {"ready", "tracked", "commands", "saved", "needs", "applied", "marker", "cleared"}
Switches(h) ==
  /\ DOMAIN h = GateFields /\ h.saved \in 0..MaxRev /\ h.applied \in {None} \cup 1..MaxRev
  /\ h.applied # None => h.applied <= h.saved
  /\ h.commands => h.applied = h.saved /\ ~h.cleared

OfRevision(v, applied) == applied # None /\ v # None => v.rev = applied

\* The maps: what is in them is of the revision they were reset for, and nothing is
\* in them once the emergency switch is done.
Tables(m, C, L, h, t) ==
  /\ m \in [Keys -> Slot] /\ C = [k \in Keys |-> C[k]] /\ L = [c \in Macs |-> L[c]]
  /\ \A k \in Keys : Book(C[k], t) /\ OfRevision(m[k], h.applied)
  /\ h.cleared => (\A k \in Keys : m[k] = None) /\ \A c \in Macs : L[c] = None

\* A staged update p of one key whose owners are C.
Clears(cmd) == cmd.op \in {"allow", "revoke"}
Sound(p, cmd, C, h, n, t) ==
  /\ p.prev \in Slot /\ p.next \in Slot /\ Book(p.claims, t)
  /\ OfRevision(p.prev, h.applied) /\ OfRevision(p.next, h.applied)
  /\ h.cleared => p.prev = None /\ p.next = None
  /\ p.next # None /\ p.next # p.prev /\ p.next.flow # cmd.flow => p.prev # None /\ p.prev.kind = "block"
  /\ ~Clears(cmd) => p.next # None
  /\ cmd.op = "shape" => p.next.flow = cmd.flow
  /\ Clears(cmd) /\ (\E c \in C : Matches(c, p.prev)) /\ (\E c \in C : c.until > n /\ c.flow # cmd.flow)
       => p.next # None /\ p.next.kind = "block"

\* A command that is being written, or undone.
BusyFields == {"pc", "cmd", "at", "mac", "ends", "plan", "todo", "done"}
Busy(r, m, C, h, n, t) ==
  /\ DOMAIN r = BusyFields /\ r.cmd \in Command
  /\ r.todo \in SUBSET DOMAIN r.plan /\ r.done \in SUBSET DOMAIN r.plan
  /\ \A k \in Keys \cap DOMAIN r.plan : Sound(r.plan[k], r.cmd, C[k], h, n, t)
  /\ \A k \in Keys \cap r.todo : m[k] \in {None, r.plan[k].prev}
  /\ ~Clears(r.cmd) => \A k \in DOMAIN r.plan : r.plan[k].next # None
  /\ h.cleared => r.cmd.op = "revoke"

Newest(r, c) ==
  LET e == c[r.cmd.flow] IN e # None /\ e.last # None => e.last <= r.cmd.issued

Thread(r, c, m, C, h, n, t) ==
  /\ r.pc \in {"idle", "tick", "read", "stage", "write", "undo"}
  /\ r.pc = "tick" => h.saved # 0
  /\ r.pc \in {"read", "stage"} => r.cmd \in Command /\ r.saved = h.saved
  /\ r.pc = "stage" => r.mac \in Macs \cup {None}
  /\ r.pc \in {"write", "undo"} => Busy(r, m, C, h, n, t)
  /\ r.pc = "write" => Newest(r, c)

Base ==
  /\ budget \in Scenario /\ now \in Nat /\ Cached(cache) /\ Switches(gate)
  /\ Tables(map, claims, leases, gate, budget.ttl)
  /\ Thread(rc, cache, map, claims, gate, now, budget.ttl)

\* A live block v has an owner in C, and one with a lease as long as its own.
Held(v, C, n) ==
  v # None /\ v.until > n /\ v.kind = "block" =>
    (\E c \in C : Matches(c, v)) /\ \E c \in C : c.until >= v.until

\* Owners of the map, between commands and during one, while the maps are those
\* that were reset for the revision.
Owns(r, m, C, n, fault) ==
  /\ r.pc \notin {"write", "undo"} => \A k \in Keys : Held(m[k], C[k], n)
  /\ r.pc \in {"write", "undo"} =>
       /\ \A k \in Keys \ r.done : Held(m[k], C[k], n)
       /\ \A k \in Keys \cap r.done : m[k] \in {None, r.plan[k].next}
       /\ \A k \in Keys \cap DOMAIN r.plan :
            /\ Held(r.plan[k].prev, C[k], n) /\ Held(r.plan[k].next, r.plan[k].claims, n)
            /\ Clears(r.cmd) => Held(r.plan[k].next, C[k], n)
            /\ r.pc = "write" /\ k \notin r.todo \cup r.done =>
                 r.plan[k].next = r.plan[k].prev /\ m[k] \in {None, r.plan[k].prev}
  /\ r.pc = "undo" => fault = 0 \/ Clears(r.cmd)

\* The Agent's map operations fail at most once.
OneFault == \A s \in Scenarios : s.fault <= 1

IInv ==
  /\ Base
  /\ OneFault => /\ budget.fault <= 1
                 /\ gate.applied # None /\ state.gen = gate.applied =>
                      Owns(rc, map, claims, now, budget.fault)

-----------------------------------------------------------------------------
(* The entries of the cache.                                               *)

\* Looking at keys changes neither the client of an entry nor the time of its last
\* command.
Kept(e, x) == DOMAIN x = EntryFields /\ x.mac = e.mac /\ x.last = e.last

LEMMA InsertAliasKeeps ==
  ASSUME NEW e, DOMAIN e = EntryFields, NEW key PROVE Kept(e, InsertAlias(e, key))
<1>1. Kept(e, [e EXCEPT !.partial = TRUE])
  BY Zenon DEF Kept, EntryFields
<1>2. Kept(e, [e EXCEPT !.keys = @ \cup {key}, !.verified = @ \cup {key}, !.unresolved = @ \ {key}])
  BY Zenon DEF Kept, EntryFields
<1> QED
  BY <1>1, <1>2, Zenon DEF InsertAlias

LEMMA RecordUnresolvedKeeps ==
  ASSUME NEW e, DOMAIN e = EntryFields, NEW key PROVE Kept(e, RecordUnresolved(e, key))
<1>1. Kept(e, [e EXCEPT !.partial = TRUE]) /\ Kept(e, e)
  BY Zenon DEF Kept, EntryFields
<1>2. Kept(e, [e EXCEPT !.unresolved = @ \cup {key}])
  BY Zenon DEF Kept, EntryFields
<1> QED
  BY <1>1, <1>2, Zenon DEF RecordUnresolved

LEMMA KeptTwice ==
  ASSUME NEW e, NEW x, NEW y, Kept(e, x), Kept(x, y) PROVE Kept(e, y)
BY Zenon DEF Kept

LEMMA ObserveDirectionKeeps ==
  ASSUME NEW e, DOMAIN e = EntryFields, NEW key, NEW n, NEW tracked
  PROVE  Kept(e, ObserveDirection(e, key, n, tracked))
<1> DEFINE upload == Upload(key.tuple)
           seen   == [e EXCEPT !.unresolved = @ \ {key}]
           aside  == key.hook = Hook(upload) /\ key.ifx = "lan"
           proven == aside \/ tracked \/ Direct(key.tuple)
           tuple  == IF ~aside /\ tracked THEN ClientSide(n, upload) ELSE key.tuple
           with   == InsertAlias(seen, Key(tuple, Hook(upload), "lan"))
           last   == InsertAlias(with, Key(ClientSide(n, ~upload), Hook(~upload), "lan"))
           open   == RecordUnresolved(with, Key(Flip[key.tuple], Hook(~upload), "lan"))
<1>1. Kept(e, seen) /\ Kept(e, e)
  BY Zenon DEF Kept, EntryFields
<1>2. ObserveDirection(e, key, n, tracked) =
        IF key \notin e.keys THEN e
        ELSE IF ~proven THEN RecordUnresolved(seen, key)
        ELSE IF tracked THEN last ELSE open
  BY Zenon DEF ObserveDirection
<1>3. Kept(seen, RecordUnresolved(seen, key)) /\ Kept(seen, with)
  BY <1>1, InsertAliasKeeps, RecordUnresolvedKeeps, Zenon DEF Kept
<1>4. Kept(with, last) /\ Kept(with, open)
  <2> HIDE DEF with
  <2>1. DOMAIN with = EntryFields
    BY <1>3, Zenon DEF Kept
  <2> QED
    BY <2>1, InsertAliasKeeps, RecordUnresolvedKeeps, Zenon
<1> HIDE DEF seen, with, last, open, proven
<1>5. Kept(e, RecordUnresolved(seen, key)) /\ Kept(e, last) /\ Kept(e, open)
  BY <1>1, <1>3, <1>4, KeptTwice, Zenon
<1> QED
  BY <1>1, <1>2, <1>5, Zenon

LEMMA ReconcileKeeps ==
  ASSUME NEW e, DOMAIN e = EntryFields, NEW n, NEW tracked PROVE Kept(e, Reconcile(e, n, tracked))
<1> DEFINE With(a, b, c, d) == [e EXCEPT !.keys = a, !.verified = b, !.unresolved = c, !.partial = d]
<1>1. \A a, b, c, d : Kept(e, With(a, b, c, d))
  BY Zenon DEF Kept, EntryFields
<1>2. Kept(e, e)
  BY Zenon DEF Kept
<1>3. Reconcile(e, n, tracked) = e \/ \E a, b, c, d : Reconcile(e, n, tracked) = With(a, b, c, d)
  BY Zenon DEF Reconcile
<1> HIDE DEF With
<1> QED
  BY <1>1, <1>2, <1>3, Zenon

LEMMA ProxyReturnKeeps == ASSUME NEW e, DOMAIN e = EntryFields PROVE Kept(e, ProxyReturn(e))
<1> DEFINE key == Key("proxy", 2, "lan")
<1>1. Kept(e, [e EXCEPT !.partial = TRUE]) /\ Kept(e, e)
  BY Zenon DEF Kept, EntryFields
<1>2. Kept(e, [e EXCEPT !.keys = @ \cup {key}, !.verified = @ \cup {key}, !.unresolved = @ \ {key}])
  BY Zenon DEF Kept, EntryFields
<1> QED
  BY <1>1, <1>2, Zenon DEF ProxyReturn

\* observe_with_client may change the client, not the time of the last command.
LEMMA ClientKeeps ==
  ASSUME NEW e, Entry(e), NEW mac \in Macs \cup {None}
  PROVE  Entry(Client(e, mac)) /\ Client(e, mac).last = e.last
<1>1. Entry([e EXCEPT !.mac = mac]) /\ [e EXCEPT !.mac = mac].last = e.last
  BY Zenon DEF Entry, EntryFields
<1>2. /\ Entry([e EXCEPT !.mac = None, !.conflict = TRUE, !.partial = TRUE])
      /\ [e EXCEPT !.mac = None, !.conflict = TRUE, !.partial = TRUE].last = e.last
  BY Zenon DEF Entry, EntryFields
<1> QED
  BY <1>1, <1>2, Zenon DEF Client

LEMMA NewEntryIsEntry ==
  ASSUME NEW key, NEW mac \in Macs \cup {None}
  PROVE  Entry(NewEntry(key, mac)) /\ NewEntry(key, mac).last = None
BY Zenon DEF NewEntry, Entry, EntryFields

\* record_command
LEMMA RecordedKeeps ==
  ASSUME NEW e, e = None \/ Entry(e), NEW cmd \in Command, NEW keys
  PROVE  Recorded(e, cmd, keys) = None \/ Entry(Recorded(e, cmd, keys))
<1> DEFINE timed == IF e.last # None /\ cmd.issued < e.last THEN e ELSE [e EXCEPT !.last = cmd.issued]
           noted == [rev |-> cmd.rev, pol |-> cmd.pol, keys |-> keys, until |-> Until(cmd)]
<1>1. cmd.issued \in Nat
  BY FlowAssumption DEF Command
<1>2. ASSUME e # None PROVE Entry(timed)
  BY <1>1, <1>2, Zenon DEF Entry, EntryFields
<1> HIDE DEF timed
<1>3. ASSUME e # None PROVE Entry([timed EXCEPT !.shaped = noted])
  BY <1>2, <1>3, Zenon DEF Entry, EntryFields
<1> QED
  BY <1>2, <1>3, Zenon DEF Recorded, timed

-----------------------------------------------------------------------------
(* The verdict map and its owners.                                         *)

\* Every set of numbers that is not empty has a least member.  It is a theorem of
\* the library; a lemma that needs it has it as its hypothesis, and LeastHolds
\* discharges it for the theorems.
Least == \A S : S \in SUBSET Nat /\ S # {} => \E x \in S : \A y \in S : x <= y

LEMMA MaxIs ==
  ASSUME Least, NEW S \in SUBSET Nat, S # {}, NEW b \in Nat, \A x \in S : x <= b
  PROVE  Max(S) \in S /\ \A x \in S : x <= Max(S)
<1> DEFINE D == {b - x : x \in S}
<1>1. D \in SUBSET Nat /\ D # {}
  <2>1. \A x \in S : b - x \in Nat
    OBVIOUS
  <2> QED
    BY <2>1, Zenon
<1>2. PICK d \in D : \A y \in D : d <= y
  BY <1>1, Zenon DEF Least
<1>3. PICK m \in S : d = b - m
  BY <1>2, Zenon
<1>4. ASSUME NEW x \in S PROVE m >= x
  <2>1. d <= b - x
    BY <1>2, <1>4, Zenon
  <2> QED
    BY <1>3, <2>1
<1>5. Max(S) \in S /\ \A x \in S : Max(S) >= x
  BY <1>3, <1>4, Zenon DEF Max
<1> QED
  BY <1>5

\* What owners promise is a block, of one of them, for as long as one of them.
LEMMA VerdictIs ==
  ASSUME Least, NEW t \in Nat, NEW C, Book(C, t), C # {}, NEW previous, NEW v, v = Verdict(C, previous)
  PROVE  /\ v \in Verdicts /\ v # None /\ v.kind = "block"
         /\ \E c \in C : Matches(c, v)
         /\ \E c \in C : c.until >= v.until
<1> DEFINE rank(c) == (IF c.seen THEN 2 ELSE 0) + (IF Matches(c, previous) THEN 1 ELSE 0)
           best == CHOOSE c \in C : \A d \in C : rank(d) <= rank(c)
           ends == {c.until : c \in C}
<1>1. /\ v = [kind |-> "block", flow |-> best.flow, rev |-> best.rev, pol |-> best.pol,
              mac |-> best.mac, until |-> Max(ends)]
  BY Zenon DEF Verdict
<1>2. best \in C
  <2> DEFINE ranks == {rank(c) : c \in C}
  <2>1. \A c \in C : rank(c) \in Nat /\ rank(c) <= 3
    OBVIOUS
  <2> HIDE DEF rank
  <2>2. ranks \in SUBSET Nat /\ ranks # {} /\ \A x \in ranks : x <= 3
    BY <2>1, Zenon
  <2>3. Max(ranks) \in ranks /\ \A x \in ranks : x <= Max(ranks)
    <3> HIDE DEF ranks
    <3> QED
      BY <2>2, MaxIs
  <2>4. \E c \in C : \A d \in C : rank(d) <= rank(c)
    BY <2>3, Zenon
  <2> QED
    BY <2>4, Zenon
<1>3. Max(ends) \in ends /\ ends \in SUBSET Nat
  <2>1. ends \in SUBSET Nat /\ ends # {} /\ \A x \in ends : x <= MaxNow + t
    BY Zenon DEF Book, Claim
  <2>2. MaxNow + t \in Nat
    BY FlowAssumption
  <2> HIDE DEF ends
  <2> QED
    BY <2>1, <2>2, MaxIs, Zenon
<1>4. PICK c \in C : c.until = Max(ends)
  BY <1>3, Zenon
<1> HIDE DEF best, ends
<1>5. /\ best.flow \in Flows /\ best.rev \in Nat /\ best.pol \in Policies \cup {None}
      /\ best.mac \in Macs \cup {None} /\ c.until \in Nat
  BY <1>2, Zenon DEF Book, Claim
<1>6. /\ v \in Verdicts /\ v.kind = "block" /\ v.flow = best.flow /\ v.rev = best.rev
      /\ v.pol = best.pol /\ v.mac = best.mac /\ v.until = c.until
  BY <1>1, <1>4, <1>5 DEF Verdicts
<1>7. v # None
  BY <1>6, FlowAssumption, Zenon
<1>8. Matches(best, v)
  BY <1>6, <1>7, Zenon DEF Matches
<1>9. c.until >= v.until
  BY <1>5, <1>6
<1> QED
  BY <1>2, <1>6, <1>7, <1>8, <1>9, Zenon

\* Nothing waits in an update that leaves no owners, and a part of a key's owners
\* keeps what all of them keep.
LEMMA PartOfBook == ASSUME NEW t, NEW C, Book(C, t), NEW D \in SUBSET C PROVE Book(D, t)
BY Zenon DEF Book

LEMMA ValidIsPart == ASSUME NEW C, NEW v PROVE Valid(C, v) \in SUBSET C
BY Zenon DEF Valid

\* The switches let a verdict of this revision into the map.
Lets(h, rev) == (h.applied # None => rev = h.applied) /\ ~h.cleared

\* install_owned_block at a key: its owners are those of the same revision and the
\* new one, and the block is of one of them.
LEMMA BlockAtSound ==
  ASSUME Least, NEW t \in Nat, NEW k, map[k] \in Slot, Book(claims[k], t),
         NEW claim \in Claim, claim.until <= MaxNow + t, NEW cmd, claim.flow = cmd.flow, cmd.op = "block",
         NEW h, OfRevision(map[k], h.applied), Lets(h, claim.rev),
         NEW p, p = BlockAt(k, claim)
  PROVE  /\ Sound(p, cmd, claims[k], h, now, t) /\ p.prev = map[k]
         /\ Held(p.next, p.claims, now)
<1> DEFINE old  == Valid(claims[k], map[k])
           same == \A c \in old : c.rev = claim.rev /\ c.pol = claim.pol /\ c.mac = claim.mac
           new  == {c \in IF same THEN old ELSE {} : c.flow # claim.flow} \cup {claim}
           v    == Verdict(new, map[k])
<1>1. p.prev = map[k] /\ p.next = v /\ p.claims = new
  <2>1. p = [prev |-> map[k], next |-> v, claims |-> new]
    BY Zenon DEF BlockAt
  <2> HIDE DEF v, new
  <2> QED
    BY <2>1
<1>2. /\ \A c \in new : c = claim \/ (c \in old /\ c.rev = claim.rev)
      /\ new # {}
  BY Zenon
<1>3. old \in SUBSET claims[k] /\ (old # {} => \E c \in claims[k] : Matches(c, map[k]))
  BY Zenon DEF Valid
<1> HIDE DEF old, new
<1>4. Book(new, t)
  <2>1. new \in SUBSET Claim /\ \A c \in new : c.rev = claim.rev /\ c.until <= MaxNow + t
    BY <1>2, <1>3, Zenon DEF Book
  <2> QED
    BY <2>1, Zenon DEF Book
<1>5. /\ v \in Verdicts /\ v # None /\ v.kind = "block"
      /\ \E c \in new : Matches(c, v)
      /\ \E c \in new : c.until >= v.until
  <2> HIDE DEF v
  <2> QED
    BY <1>2, <1>4, VerdictIs, Zenon DEF v
<1> HIDE DEF v
<1>6. PICK c \in new : c.rev = v.rev /\ c.flow = v.flow
  BY <1>5, Zenon DEF Matches
<1>7. v.rev = claim.rev /\ (v.flow # cmd.flow => map[k] # None /\ map[k].kind = "block")
  BY <1>2, <1>3, <1>6, Zenon DEF Matches
<1>8. Held(v, new, now)
  BY <1>5, Zenon DEF Held
<1>9. cmd.op # "shape" /\ ~Clears(cmd)
  BY DEF Clears
<1>10. v \in Slot /\ OfRevision(v, h.applied)
  BY <1>5, <1>7, Zenon DEF Slot, OfRevision, Lets
<1> QED
  BY <1>1, <1>4, <1>5, <1>7, <1>8, <1>9, <1>10, Zenon DEF Sound, Lets

\* clear_aliases at a key: the flow's own claim is gone, and another owner's block
\* takes its place if the map holds a block of one of them.
LEMMA ClearAtSound ==
  ASSUME Least, NEW t \in Nat, NEW k, map[k] \in Slot, Book(claims[k], t), NEW cmd, Clears(cmd),
         NEW h, OfRevision(map[k], h.applied), h.cleared => map[k] = None,
         NEW p, p = ClearAt(k, cmd.flow)
  PROVE  /\ Sound(p, cmd, claims[k], h, now, t) /\ p.prev = map[k]
         /\ Held(map[k], claims[k], now) => Held(p.next, p.claims, now) /\ Held(p.next, claims[k], now)
<1> DEFINE C     == claims[k]
           old   == Valid(C, map[k])
           rest  == {c \in old : c.flow # cmd.flow}
           known == \E c \in C : Matches(c, map[k])
           mine  == map[k] # None /\ map[k].flow = cmd.flow
           v     == Verdict(rest, map[k])
           next  == IF known THEN IF rest = {} THEN None ELSE v ELSE IF mine THEN None ELSE map[k]
<1>1. p.prev = map[k] /\ p.next = next /\ p.claims = rest
  <2>1. p = [prev |-> map[k], claims |-> rest, next |-> next]
    BY Zenon DEF ClearAt
  <2> HIDE DEF rest, next
  <2> QED
    BY <2>1
<1>2. rest \in SUBSET C /\ (~known => rest = {})
  BY Zenon DEF Valid
<1>3. known /\ (\E c \in C : c.until > now /\ c.flow # cmd.flow) => rest # {}
  BY Zenon DEF Valid
<1>4. known => map[k] # None /\ map[k].kind = "block" /\ \A c \in C : c.rev = map[k].rev
  BY Zenon DEF Matches, Book
<1>5. Book(rest, t)
  BY <1>2, PartOfBook, Zenon
<1>6. ~known => ~(map[k] # None /\ map[k].until > now /\ map[k].kind = "block" /\ Held(map[k], C, now))
  BY Zenon DEF Held
<1> HIDE DEF rest, known
<1>7. rest # {} => /\ v \in Verdicts /\ v # None /\ v.kind = "block"
                   /\ \E c \in rest : Matches(c, v)
                   /\ \E c \in rest : c.until >= v.until
  <2> HIDE DEF v
  <2> QED
    BY <1>5, VerdictIs, Zenon DEF v
<1> HIDE DEF v
<1>8. rest # {} => (\E c \in C : Matches(c, v)) /\ (\E c \in C : c.until >= v.until)
  BY <1>2, <1>7, Zenon
<1>9. known /\ rest # {} => v.rev = map[k].rev
  BY <1>4, <1>8, Zenon DEF Matches
<1>10. next \in Slot /\ OfRevision(next, h.applied)
  BY <1>4, <1>7, <1>9, Zenon DEF Slot, OfRevision
<1>11. h.cleared => next = None
  BY <1>4, Zenon
<1>12. next # None /\ next # map[k] => map[k] # None /\ map[k].kind = "block"
  BY <1>4, Zenon
<1>13. known /\ (\E c \in C : c.until > now /\ c.flow # cmd.flow) => next # None /\ next.kind = "block"
  BY <1>3, <1>7, Zenon
<1>14. Held(map[k], C, now) => Held(next, rest, now) /\ Held(next, C, now)
  BY <1>6, <1>7, <1>8, Zenon DEF Held
<1>15. cmd.op # "shape"
  BY DEF Clears
<1> HIDE DEF next
<1> QED
  BY <1>1, <1>5, <1>10, <1>11, <1>12, <1>13, <1>14, <1>15, Zenon DEF Sound, known

\* install_shape at a key: its owners are gone with the block.
LEMMA ShapeAtSound ==
  ASSUME NEW t \in Nat, NEW k, map[k] \in Slot, NEW cmd, cmd.flow \in Flows, cmd.rev \in Nat,
         cmd.op = "shape", NEW until \in Nat, NEW h, OfRevision(map[k], h.applied),
         Lets(h, cmd.rev),
         NEW p, p = ShapeAt(k, cmd.flow, cmd.rev, until)
  PROVE  /\ Sound(p, cmd, claims[k], h, now, t) /\ p.prev = map[k]
         /\ Held(p.next, p.claims, now)
<1> DEFINE v == [kind |-> "shape", flow |-> cmd.flow, rev |-> cmd.rev, pol |-> None, mac |-> None,
                 until |-> until]
<1>1. p.prev = map[k] /\ p.next = v /\ p.claims = {}
  <2>1. p = [prev |-> map[k], claims |-> {}, next |-> v]
    BY Zenon DEF ShapeAt
  <2> HIDE DEF v
  <2> QED
    BY <2>1
<1>2. v \in Verdicts /\ v.kind = "shape" /\ v.flow = cmd.flow /\ v.rev = cmd.rev
  BY DEF Verdicts
<1> HIDE DEF v
<1>3. v # None
  BY <1>2, FlowAssumption, Zenon
<1>4. Book({}, t) /\ ~Clears(cmd) /\ v.kind # "block"
  BY <1>2 DEF Book, Clears
<1>5. v \in Slot /\ OfRevision(v, h.applied) /\ Held(v, {}, now)
  BY <1>2, <1>4, Zenon DEF Slot, OfRevision, Held, Lets
<1> QED
  BY <1>1, <1>2, <1>3, <1>4, <1>5, Zenon DEF Sound, Lets

-----------------------------------------------------------------------------
(* The other threads, the operator, the packet program and the clock.      *)

\* They may remove verdicts and leases, change entries, the marker and the
\* readiness of the hooks, and time may pass.
Around ==
  /\ rc' = rc /\ claims' = claims /\ state' = state
  /\ map' = [k \in Keys |-> map'[k]] /\ \A k \in Keys : map'[k] \in {map[k], None}
  /\ leases' = [m \in Macs |-> leases'[m]] /\ \A m \in Macs : leases'[m] \in {leases[m], None}
  /\ Switches(gate') /\ gate'.applied = gate.applied /\ gate'.saved = gate.saved
  /\ gate'.cleared = gate.cleared
  /\ budget' \in Scenario /\ budget'.ttl = budget.ttl /\ budget'.fault <= budget.fault
  /\ now' \in Nat /\ now <= now'
  /\ Cached(cache')
  /\ \A f \in Flows : \/ cache'[f] = None \/ cache'[f].last = None
                      \/ cache[f] # None /\ cache'[f].last = cache[f].last

\* What a staged update is worth does not change as time passes.
LEMMA SoundLater ==
  ASSUME NEW p, NEW cmd, NEW C \in SUBSET Claim, NEW h, NEW n \in Nat, NEW t, Sound(p, cmd, C, h, n, t),
         NEW g, g.applied = h.applied, g.cleared = h.cleared, NEW i \in Nat, n <= i
  PROVE  Sound(p, cmd, C, g, i, t)
<1>1. \A c \in C : c.until > i => c.until > n
  BY DEF Claim
<1> QED
  BY <1>1, Zenon DEF Sound

LEMMA HeldLater ==
  ASSUME NEW v \in Slot, NEW C, NEW n \in Nat, NEW i \in Nat, n <= i, Held(v, C, n)
  PROVE  Held(v, C, i)
<1>1. v # None /\ v.until > i => v.until > n
  BY DEF Slot, Verdicts
<1> QED
  BY <1>1, Zenon DEF Held

LEMMA HeldNone == \A C, n : Held(None, C, n)
BY Zenon DEF Held

LEMMA AroundBase == ASSUME Base, Around PROVE Base'
<1> DEFINE t == budget.ttl
<1>1. /\ rc' = rc /\ claims' = claims /\ budget'.ttl = t /\ now' \in Nat /\ now <= now' /\ now \in Nat
      /\ gate'.applied = gate.applied /\ gate'.saved = gate.saved /\ gate'.cleared = gate.cleared
  BY Zenon DEF Around, Base
<1>2. /\ map \in [Keys -> Slot] /\ claims = [k \in Keys |-> claims[k]]
      /\ \A k \in Keys : Book(claims[k], t) /\ OfRevision(map[k], gate.applied)
      /\ gate.cleared => (\A k \in Keys : map[k] = None) /\ \A c \in Macs : leases[c] = None
  BY Zenon DEF Base, Tables
<1>3. \A k \in Keys : map'[k] \in {map[k], None} /\ map[k] \in Slot
  BY <1>2, Zenon DEF Around
<1>4. map' \in [Keys -> Slot]
  <2>1. \A k \in Keys : map'[k] \in Slot
    BY <1>3, Zenon DEF Slot
  <2> QED
    BY <2>1, Zenon DEF Around
<1>5. Tables(map', claims', leases', gate', budget'.ttl)
  <2>1. \A k \in Keys : Book(claims'[k], budget'.ttl) /\ OfRevision(map'[k], gate'.applied)
    BY <1>1, <1>2, <1>3, Zenon DEF OfRevision
  <2>2. gate'.cleared => (\A k \in Keys : map'[k] = None) /\ \A c \in Macs : leases'[c] = None
    BY <1>1, <1>2, <1>3, Zenon DEF Around
  <2> QED
    BY <1>1, <1>2, <1>4, <2>1, <2>2, Zenon DEF Tables, Around
<1>6. Thread(rc, cache, map, claims, gate, now, t)
  BY Zenon DEF Base
<1>7. ASSUME rc.pc \in {"write", "undo"} PROVE Busy(rc, map', claims, gate', now', t)
  <2>1. Busy(rc, map, claims, gate, now, t)
    BY <1>6, <1>7, Zenon DEF Thread
  <2>2. ASSUME NEW k \in Keys \cap DOMAIN rc.plan
        PROVE  Sound(rc.plan[k], rc.cmd, claims[k], gate', now', t)
    <3>1. claims[k] \in SUBSET Claim /\ Sound(rc.plan[k], rc.cmd, claims[k], gate, now, t)
      BY <1>2, <2>1, Zenon DEF Book, Busy
    <3> QED
      BY <1>1, <3>1, SoundLater, Zenon
  <2>3. \A k \in Keys \cap rc.todo : map'[k] \in {None, rc.plan[k].prev}
    BY <1>3, <2>1, Zenon DEF Busy
  <2> QED
    BY <1>1, <2>1, <2>2, <2>3, Zenon DEF Busy
<1>8. ASSUME rc.pc = "write" PROVE Newest(rc, cache')
  <2>1. Newest(rc, cache) /\ rc.cmd \in Command
    <3>1. rc.pc \in {"write", "undo"}
      BY <1>8
    <3> QED
      BY <1>6, <1>8, <3>1, Zenon DEF Thread, Busy
  <2>2. rc.cmd.flow \in Flows
    BY <2>1 DEF Command
  <2> QED
    BY <2>1, <2>2, Zenon DEF Newest, Around
<1>9. Thread(rc', cache', map', claims', gate', now', budget'.ttl)
  BY <1>1, <1>6, <1>7, <1>8, Zenon DEF Thread
<1> QED
  BY <1>5, <1>9, Zenon DEF Base, Around

LEMMA AroundOwns ==
  ASSUME Base, Around, Owns(rc, map, claims, now, budget.fault)
  PROVE  Owns(rc', map', claims', now', budget'.fault)
<1>1. /\ rc' = rc /\ claims' = claims /\ now' \in Nat /\ now <= now' /\ now \in Nat
      /\ \A k \in Keys : map'[k] \in {map[k], None} /\ map[k] \in Slot
  BY Zenon DEF Around, Base, Tables
<1>2. ASSUME NEW k \in Keys, Held(map[k], claims[k], now) PROVE Held(map'[k], claims[k], now')
  <2>1. Held(map[k], claims[k], now') /\ Held(None, claims[k], now')
    BY <1>1, <1>2, HeldLater, HeldNone, Zenon
  <2> QED
    BY <1>1, <2>1, Zenon
<1>3. ASSUME rc.pc \in {"write", "undo"}, NEW k \in Keys \cap DOMAIN rc.plan
      PROVE  /\ Held(rc.plan[k].prev, claims[k], now') /\ Held(rc.plan[k].next, rc.plan[k].claims, now')
             /\ Clears(rc.cmd) => Held(rc.plan[k].next, claims[k], now')
  <2>1. rc.plan[k].prev \in Slot /\ rc.plan[k].next \in Slot
    BY <1>3, Zenon DEF Base, Thread, Busy, Sound
  <2>2. /\ Held(rc.plan[k].prev, claims[k], now) /\ Held(rc.plan[k].next, rc.plan[k].claims, now)
        /\ Clears(rc.cmd) => Held(rc.plan[k].next, claims[k], now)
    BY <1>3, Zenon DEF Owns
  <2> QED
    BY <1>1, <2>1, <2>2, HeldLater, Zenon
<1>4. rc.pc = "undo" => budget'.fault = 0 \/ Clears(rc.cmd)
  <2>1. rc.pc = "undo" => budget.fault = 0 \/ Clears(rc.cmd)
    BY Zenon DEF Owns
  <2>2. budget.fault \in Nat /\ budget'.fault \in Nat /\ budget'.fault <= budget.fault
    BY DEF Base, Around, Scenario
  <2>3. budget.fault = 0 => budget'.fault = 0
    BY <2>2
  <2> QED
    BY <2>1, <2>3, Zenon
<1>5. rc.pc \notin {"write", "undo"} => \A k \in Keys : Held(map'[k], claims[k], now')
  BY <1>2, Zenon DEF Owns
<1>6. rc.pc \in {"write", "undo"} =>
        /\ \A k \in Keys \ rc.done : Held(map'[k], claims[k], now')
        /\ \A k \in Keys \cap rc.done : map'[k] \in {None, rc.plan[k].next}
        /\ \A k \in Keys \cap DOMAIN rc.plan :
             rc.pc = "write" /\ k \notin rc.todo \cup rc.done =>
               rc.plan[k].next = rc.plan[k].prev /\ map'[k] \in {None, rc.plan[k].prev}
  BY <1>1, <1>2, Zenon DEF Owns
<1> QED
  BY <1>1, <1>3, <1>4, <1>5, <1>6, Zenon DEF Owns

LEMMA AroundStep == ASSUME IInv, Around PROVE IInv'
<1>1. Base'
  BY AroundBase, Zenon DEF IInv
<1>2. ASSUME OneFault
      PROVE  /\ budget'.fault <= 1
             /\ gate'.applied # None /\ state'.gen = gate'.applied =>
                  Owns(rc', map', claims', now', budget'.fault)
  <2>1. budget'.fault <= 1
    <3>1. budget.fault <= 1
      BY <1>2, Zenon DEF IInv
    <3> QED
      BY <3>1 DEF IInv, Base, Around, Scenario
  <2>2. ASSUME gate'.applied # None, state'.gen = gate'.applied
        PROVE  Owns(rc', map', claims', now', budget'.fault)
    <3>1. Owns(rc, map, claims, now, budget.fault) /\ Base
      BY <1>2, <2>2, Zenon DEF IInv, Around
    <3> QED
      BY <3>1, AroundOwns, Zenon
  <2> QED
    BY <2>1, <2>2, Zenon
<1> QED
  BY <1>1, <1>2, Zenon DEF IInv, OneFault

Spendable == {"command", "change", "stop", "prune", "fault", "tick"}

LEMMA Spent ==
  ASSUME budget \in Scenario, NEW x \in Spendable, May(x), Spend(x)
  PROVE  /\ budget' \in Scenario /\ budget'.ttl = budget.ttl /\ budget'.fault <= budget.fault
         /\ x = "fault" => budget'.fault = budget.fault - 1
<1>1. budget' = [budget EXCEPT ![x] = @ - 1] /\ budget[x] > 0
  BY Zenon DEF May, Spend
<1>2. CASE x = "command" BY <1>1, <1>2 DEF Scenario
<1>3. CASE x = "change" BY <1>1, <1>3 DEF Scenario
<1>4. CASE x = "stop" BY <1>1, <1>4 DEF Scenario
<1>5. CASE x = "prune" BY <1>1, <1>5 DEF Scenario
<1>6. CASE x = "fault" BY <1>1, <1>6 DEF Scenario
<1>7. CASE x = "tick" BY <1>1, <1>7, FlowAssumption DEF Scenario
<1> QED
  BY <1>2, <1>3, <1>4, <1>5, <1>6, <1>7, Zenon DEF Spendable

\* What stays as it is.
LEMMA Still ==
  ASSUME Base
  PROVE  /\ map = [k \in Keys |-> map[k]] /\ leases = [m \in Macs |-> leases[m]] /\ Switches(gate)
         /\ budget \in Scenario /\ budget.fault <= budget.fault /\ now \in Nat /\ now <= now
         /\ Cached(cache) /\ budget.flows \in SUBSET Flows /\ budget.macs \in SUBSET (Macs \cup {None})
<1>1. /\ map \in [Keys -> Slot] /\ leases = [m \in Macs |-> leases[m]] /\ Switches(gate)
      /\ budget \in Scenario /\ now \in Nat /\ Cached(cache)
  BY Zenon DEF Base, Tables
<1>2. /\ budget.fault <= budget.fault /\ now <= now
      /\ budget.flows \in SUBSET Flows /\ budget.macs \in SUBSET (Macs \cup {None})
  BY <1>1 DEF Scenario
<1> QED
  BY <1>1, <1>2, Zenon

\* One entry is looked at, ends or is forgotten.
EntryStep(f, x) ==
  /\ f \in Flows /\ cache' = [cache EXCEPT ![f] = x] /\ (x = None \/ Entry(x))
  /\ x = None \/ x.last = None \/ (cache[f] # None /\ x.last = cache[f].last)

Remembers(c, d) ==
  /\ Cached(d)
  /\ \A f \in Flows : d[f] = None \/ d[f].last = None \/ (c[f] # None /\ d[f].last = c[f].last)

LEMMA EntryRemembers == ASSUME Cached(cache), NEW f, NEW x, EntryStep(f, x) PROVE Remembers(cache, cache')
<1>1. /\ \A g \in Flows : cache'[g] = IF g = f THEN x ELSE cache[g]
      /\ cache' = [g \in Flows |-> cache'[g]]
  BY Zenon DEF EntryStep, Cached
<1>2. \A g \in Flows : cache'[g] = None \/ Entry(cache'[g])
  BY <1>1, Zenon DEF EntryStep, Cached
<1>3. \A g \in Flows : cache'[g] = None \/ cache'[g].last = None
                       \/ (cache[g] # None /\ cache'[g].last = cache[g].last)
  BY <1>1, Zenon DEF EntryStep
<1> QED
  BY <1>1, <1>2, <1>3, Zenon DEF Cached, Remembers

LEMMA ForgetRemembers == Remembers(cache, [f \in Flows |-> None])
BY Zenon DEF Remembers, Cached

\* The marker and the readiness of the hooks are not among what the maps depend on.
LEMMA GateMoves ==
  ASSUME Switches(gate), NEW x, \/ gate' = [gate EXCEPT !.ready = x] \/ gate' = [gate EXCEPT !.marker = x]
                                \/ gate' = gate
  PROVE  /\ Switches(gate') /\ gate'.applied = gate.applied /\ gate'.saved = gate.saved
         /\ gate'.cleared = gate.cleared
BY Zenon DEF Switches, GateFields


\* The parts of Around.
MapsShrink ==
  /\ map' = [k \in Keys |-> map'[k]] /\ \A k \in Keys : map'[k] \in {map[k], None}
  /\ leases' = [m \in Macs |-> leases'[m]] /\ \A m \in Macs : leases'[m] \in {leases[m], None}
GateStays == /\ Switches(gate') /\ gate'.applied = gate.applied /\ gate'.saved = gate.saved
             /\ gate'.cleared = gate.cleared
BudgetShrinks == budget' \in Scenario /\ budget'.ttl = budget.ttl /\ budget'.fault <= budget.fault
TimePasses == now' \in Nat /\ now <= now'

LEMMA AroundParts ==
  ASSUME rc' = rc, claims' = claims, state' = state, MapsShrink, GateStays, BudgetShrinks, TimePasses,
         Remembers(cache, cache')
  PROVE  Around
BY Zenon DEF Around, MapsShrink, GateStays, BudgetShrinks, TimePasses, Remembers

LEMMA PartsStill ==
  ASSUME Base
  PROVE  /\ map' = map /\ leases' = leases => MapsShrink
         /\ gate' = gate => GateStays
         /\ budget' = budget => BudgetShrinks
         /\ now' = now => TimePasses
         /\ cache' = cache => Remembers(cache, cache')
         /\ cache' = [f \in Flows |-> None] => Remembers(cache, cache')
<1>1. map' = map /\ leases' = leases => MapsShrink
  BY Still, Zenon DEF MapsShrink
<1>2. gate' = gate => GateStays
  BY Still, Zenon DEF GateStays
<1>3. /\ budget' = budget => BudgetShrinks
      /\ now' = now => TimePasses
  BY Still, Zenon DEF BudgetShrinks, TimePasses
<1>4. cache' = cache => Remembers(cache, cache')
  BY Still, Zenon DEF Remembers, Cached
<1>5. cache' = [f \in Flows |-> None] => Remembers(cache, cache')
  BY ForgetRemembers, Zenon
<1> QED
  BY <1>1, <1>2, <1>3, <1>4, <1>5, Zenon

LEMMA ObserveIsAround == ASSUME Base, NEW f \in Flows, NEW mac \in Macs \cup {None}, Observe(f, mac) PROVE Around
<1> DEFINE new == ObserveDirection(NewEntry(f, mac), f, nat, ct)
           old == ObserveDirection(Client(cache[f], mac), f, nat, ct)
<1>1. Cached(cache) /\ (cache[f] = None \/ Entry(cache[f]))
  BY Still, Zenon DEF Cached
<1>2. Entry(new) /\ new.last = None
  <2>1. Entry(NewEntry(f, mac)) /\ NewEntry(f, mac).last = None
    BY NewEntryIsEntry, Zenon
  <2>2. Kept(NewEntry(f, mac), new)
    BY <2>1, ObserveDirectionKeeps, Zenon DEF Entry
  <2> HIDE DEF new
  <2> QED
    BY <2>1, <2>2, Zenon DEF Entry, Kept
<1>3. cache[f] # None => Entry(old) /\ old.last = cache[f].last
  <2>1. cache[f] # None => Entry(Client(cache[f], mac)) /\ Client(cache[f], mac).last = cache[f].last
    BY <1>1, ClientKeeps, Zenon
  <2>2. cache[f] # None => Kept(Client(cache[f], mac), old)
    BY <2>1, ObserveDirectionKeeps, Zenon DEF Entry
  <2> HIDE DEF old
  <2> QED
    BY <2>1, <2>2, Zenon DEF Entry, Kept
<1>4. \/ cache' = [cache EXCEPT ![f] = new]
      \/ cache[f] # None /\ cache' = [cache EXCEPT ![f] = old]
  <2>1. f \in DOMAIN cache
    BY <1>1, Zenon DEF Cached
  <2> QED
    BY <2>1, Zenon DEF Observe
<1> HIDE DEF new, old
<1>5. EntryStep(f, new) \/ EntryStep(f, old)
  BY <1>2, <1>3, <1>4, Zenon DEF EntryStep
<1>6. Remembers(cache, cache')
  BY <1>1, <1>5, EntryRemembers, Zenon
<1>7. rc' = rc /\ claims' = claims /\ state' = state /\ map' = map /\ leases' = leases /\ gate' = gate
      /\ budget' = budget /\ now' = now
  BY Zenon DEF Observe, kernel
<1> QED
  BY <1>6, <1>7, PartsStill, AroundParts, Zenon

LEMMA MarkEndedIsAround == ASSUME Base, NEW f \in Flows, MarkEnded(f) PROVE Around
<1>1. Cached(cache) /\ cache[f] # None /\ Entry(cache[f])
  BY Still, Zenon DEF Cached, MarkEnded
<1> DEFINE x == [cache[f] EXCEPT !.ended = TRUE]
<1>2. Entry(x) /\ x.last = cache[f].last
  BY <1>1, Zenon DEF Entry, EntryFields
<1>3. cache' = [cache EXCEPT ![f] = x]
  BY <1>1, Zenon DEF MarkEnded, Cached
<1> HIDE DEF x
<1>4. Remembers(cache, cache')
  BY <1>1, <1>2, <1>3, EntryRemembers, Zenon DEF EntryStep
<1>5. rc' = rc /\ claims' = claims /\ state' = state /\ map' = map /\ leases' = leases /\ gate' = gate
      /\ budget' = budget /\ now' = now
  BY Zenon DEF MarkEnded, kernel
<1> QED
  BY <1>4, <1>5, PartsStill, AroundParts, Zenon

LEMMA PruneIsAround == ASSUME Base, NEW f \in Flows, Prune(f) PROVE Around
<1>1. Cached(cache) /\ cache' = [cache EXCEPT ![f] = None]
  BY Still, Zenon DEF Prune
<1>2. Remembers(cache, cache')
  BY <1>1, EntryRemembers, Zenon DEF EntryStep
<1>3. BudgetShrinks
  BY Still, Spent, Zenon DEF Prune, Spendable, BudgetShrinks
<1>4. rc' = rc /\ claims' = claims /\ state' = state /\ map' = map /\ leases' = leases /\ gate' = gate
      /\ now' = now
  BY Zenon DEF Prune, kernel
<1> QED
  BY <1>2, <1>3, <1>4, PartsStill, AroundParts, Zenon

LEMMA ClearCacheIsAround == ASSUME Base, ClearCache PROVE Around
<1>1. rc' = rc /\ claims' = claims /\ state' = state /\ map' = map /\ leases' = leases /\ gate' = gate
      /\ budget' = budget /\ now' = now /\ cache' = [f \in Flows |-> None]
  BY Zenon DEF ClearCache, kernel
<1> QED
  BY <1>1, PartsStill, AroundParts, Zenon

LEMMA RefreshIsAround == ASSUME Base, RefreshConntrack PROVE Around
<1>1. rc' = rc /\ claims' = claims /\ state' = state /\ map' = map /\ leases' = leases /\ gate' = gate
      /\ budget' = budget /\ now' = now /\ cache' = cache
  BY Zenon DEF RefreshConntrack, kernel
<1> QED
  BY <1>1, PartsStill, AroundParts, Zenon

LEMMA InterfacesChangeIsAround == ASSUME Base, InterfacesChange PROVE Around
<1>1. rc' = rc /\ claims' = claims /\ state' = state /\ map' = map /\ leases' = leases
      /\ gate' = [gate EXCEPT !.ready = FALSE] /\ now' = now /\ cache' = [f \in Flows |-> None]
  BY Zenon DEF InterfacesChange, kernel
<1>2. BudgetShrinks
  BY Still, Spent, Zenon DEF InterfacesChange, Spendable, BudgetShrinks
<1>3. GateStays
  BY <1>1, Still, GateMoves, Zenon DEF GateStays
<1> QED
  BY <1>1, <1>2, <1>3, PartsStill, AroundParts, Zenon


LEMMA DeleteListedIsAround == ASSUME Base, DeleteListed PROVE Around
<1>1. PICK left \in {{}} \cup (IF May("fault") THEN {{k} : k \in sweep} ELSE {}) :
        /\ map' = [k \in Keys |-> IF k \in sweep \ left THEN None ELSE map[k]]
        /\ IF left = {} THEN budget' = budget ELSE Spend("fault")
  BY Zenon DEF DeleteListed
<1>2. BudgetShrinks
  <2>1. CASE left = {}
    BY <1>1, <2>1, PartsStill, Zenon
  <2>2. CASE left # {}
    <3>1. May("fault") /\ Spend("fault")
      BY <1>1, <2>2, Zenon
    <3> QED
      BY <3>1, Still, Spent, Zenon DEF Spendable, BudgetShrinks
  <2> QED
    BY <2>1, <2>2, Zenon
<1>3. MapsShrink
  <2>1. leases' = [m \in Macs |-> None]
    BY Zenon DEF DeleteListed
  <2> QED
    BY <1>1, <2>1, Zenon DEF MapsShrink
<1>4. rc' = rc /\ claims' = claims /\ state' = state /\ gate' = gate /\ now' = now /\ cache' = cache
  BY Zenon DEF DeleteListed
<1> QED
  BY <1>2, <1>3, <1>4, PartsStill, AroundParts, Zenon

LEMMA ReattachIsAround == ASSUME Base, Reattach PROVE Around
<1>1. rc' = rc /\ claims' = claims /\ state' = state /\ map' = map /\ leases' = leases
      /\ gate' = [gate EXCEPT !.ready = TRUE] /\ budget' = budget /\ now' = now /\ cache' = cache
  BY Zenon DEF Reattach, kernel
<1>2. GateStays
  BY <1>1, Still, GateMoves, Zenon DEF GateStays
<1> QED
  BY <1>1, <1>2, PartsStill, AroundParts, Zenon

LEMMA DisableIsAround == ASSUME Base, Disable PROVE Around
<1>1. rc' = rc /\ claims' = claims /\ state' = state /\ map' = map /\ leases' = leases
      /\ gate' = [gate EXCEPT !.marker = TRUE] /\ now' = now /\ cache' = cache
  BY Zenon DEF Disable, kernel
<1>2. GateStays
  BY <1>1, Still, GateMoves, Zenon DEF GateStays
<1>3. BudgetShrinks
  BY Still, Spent, Zenon DEF Disable, Spendable, BudgetShrinks
<1> QED
  BY <1>1, <1>2, <1>3, PartsStill, AroundParts, Zenon

LEMMA EnableIsAround == ASSUME Base, Enable PROVE Around
<1>1. rc' = rc /\ claims' = claims /\ state' = state /\ map' = map /\ leases' = leases
      /\ gate' = [gate EXCEPT !.marker = FALSE] /\ budget' = budget /\ now' = now /\ cache' = cache
  BY Zenon DEF Enable, kernel
<1>2. GateStays
  BY <1>1, Still, GateMoves, Zenon DEF GateStays
<1> QED
  BY <1>1, <1>2, PartsStill, AroundParts, Zenon

LEMMA PacketIsAround == ASSUME Base, NEW k \in Keys, Packet(k) PROVE Around
<1>1. rc' = rc /\ claims' = claims /\ state' = state /\ map' = [map EXCEPT ![k] = None] /\ leases' = leases
      /\ gate' = gate /\ budget' = budget /\ now' = now /\ cache' = cache
  BY Zenon DEF Packet
<1>2. MapsShrink
  <2>1. map = [j \in Keys |-> map[j]] /\ leases = [m \in Macs |-> leases[m]]
    BY Still, Zenon
  <2>2. map' = [j \in Keys |-> map'[j]] /\ \A j \in Keys : map'[j] \in {map[j], None}
    BY <1>1, <2>1, Zenon
  <2> QED
    BY <1>1, <2>1, <2>2, Zenon DEF MapsShrink
<1> QED
  BY <1>1, <1>2, PartsStill, AroundParts, Zenon

LEMMA ClockTickIsAround == ASSUME Base, ClockTick PROVE Around
<1>1. rc' = rc /\ claims' = claims /\ state' = state /\ map' = map /\ leases' = leases
      /\ gate' = gate /\ now' = now + 1 /\ cache' = cache
  BY Zenon DEF ClockTick, kernel
<1>2. BudgetShrinks
  BY Still, Spent, Zenon DEF ClockTick, Spendable, BudgetShrinks
<1>3. TimePasses
  <2>1. now \in Nat
    BY Still, Zenon
  <2> QED
    BY <1>1, <2>1 DEF TimePasses
<1> QED
  BY <1>1, <1>2, <1>3, PartsStill, AroundParts, Zenon

-----------------------------------------------------------------------------
(* The receiver, one command at a time: what it reads.                     *)

\* Whether commands are let in does not depend on the marker being noticed.
NoticedOf(g) ==
  /\ Switches(g) /\ g.saved = gate.saved /\ (g.cleared => gate.cleared /\ g.marker)
  /\ g.marker = gate.marker /\ (g = gate \/ g.applied = None)

LEMMA NoticedIs == ASSUME Switches(gate) PROVE NoticedOf(Noticed(gate))
<1> DEFINE h == [gate EXCEPT !.cleared = FALSE, !.applied = None]
<1>1. CASE gate.marker \/ ~gate.cleared
  BY <1>1, Zenon DEF NoticedOf, Noticed
<1>2. CASE ~(gate.marker \/ ~gate.cleared)
  <2>1. Noticed(gate) = h
    BY <1>2, Zenon DEF Noticed
  <2>2. /\ DOMAIN h = GateFields /\ h.saved = gate.saved /\ h.commands = gate.commands
        /\ h.marker = gate.marker /\ h.applied = None /\ h.cleared = FALSE
    BY Zenon DEF Switches, GateFields
  <2>3. ~gate.commands /\ gate.saved \in 0..MaxRev
    BY <1>2, Zenon DEF Switches
  <2> HIDE DEF h
  <2> QED
    BY <2>1, <2>2, <2>3, Zenon DEF Switches, NoticedOf
<1> QED
  BY <1>1, <1>2, Zenon

\* Nothing but the receiver and the switches changes.
LEMMA TakeBase == ASSUME Base, NEW cmd \in Command, Take(cmd) PROVE Base' /\ rc'.pc = "read"
<1> DEFINE t == budget.ttl
<1>1. /\ claims' = claims /\ map' = map /\ leases' = leases /\ state' = state /\ now' = now
      /\ gate' = Noticed(gate) /\ May("command") /\ Spend("command")
  BY Zenon DEF Take, kernel
<1>2. Switches(gate') /\ gate'.saved = gate.saved /\ gate'.applied \in {gate.applied, None}
      /\ (gate'.cleared => gate.cleared)
  BY <1>1, Still, NoticedIs, Zenon DEF NoticedOf
<1>3. budget' \in Scenario /\ budget'.ttl = t
  BY <1>1, Still, Spent, Zenon DEF Spendable
<1>4. rc'.pc = "read" /\ rc'.cmd = cmd /\ rc'.saved = gate.saved
  <2>1. rc' = [pc |-> "read", cmd |-> cmd, at |-> now, ready |-> gate.ready, saved |-> gate.saved]
    BY Zenon DEF Take
  <2> QED
    BY <2>1
<1>5. Cached(cache')
  <2> DEFINE f == cmd.flow
             mine(tracked) == IF Upsert(cmd) THEN Reconcile(cache[f], nat, tracked) ELSE cache[f]
             back(tracked) == ProxyReturn(mine(tracked))
  <2>1. f \in Flows
    BY DEF Command
  <2>2. Cached(cache) /\ (cache[f] = None \/ Entry(cache[f]))
    BY <2>1, Still, Zenon DEF Cached
  <2>3. PICK tracked : \/ cache' = [cache EXCEPT ![f] = None]
                       \/ cache[f] # None /\ cache' = [cache EXCEPT ![f] = mine(tracked)]
                       \/ cache[f] # None /\ cache' = [cache EXCEPT ![f] = back(tracked)]
    <3>1. f \in DOMAIN cache
      BY <2>1, <2>2, Zenon DEF Cached
    <3> QED
      BY <3>1, Zenon DEF Take
  <2>4. cache[f] # None => Kept(cache[f], mine(tracked))
    BY <2>2, ReconcileKeeps, Zenon DEF Kept, Entry
  <2> HIDE DEF mine
  <2>5. cache[f] # None => Kept(mine(tracked), back(tracked))
    BY <2>4, ProxyReturnKeeps, Zenon DEF Kept
  <2> HIDE DEF back
  <2>6. cache[f] # None => /\ Entry(mine(tracked)) /\ mine(tracked).last = cache[f].last
                           /\ Entry(back(tracked)) /\ back(tracked).last = cache[f].last
    BY <2>2, <2>4, <2>5, Zenon DEF Kept, Entry
  <2>7. EntryStep(f, None) \/ EntryStep(f, mine(tracked)) \/ EntryStep(f, back(tracked))
    BY <2>1, <2>3, <2>6, Zenon DEF EntryStep
  <2> HIDE DEF f
  <2> QED
    BY <2>2, <2>7, EntryRemembers, Zenon DEF Remembers
<1>6. Tables(map', claims', leases', gate', budget'.ttl)
  <2>1. Tables(map, claims, leases, gate, t)
    BY Zenon DEF Base
  <2>2. Tables(map, claims, leases, gate', t)
    BY <1>2, <2>1, Zenon DEF Tables, OfRevision
  <2> QED
    BY <1>1, <1>3, <2>2, Zenon
<1>7. Thread(rc', cache', map', claims', gate', now', budget'.ttl)
  <2>1. rc'.pc \notin {"stage", "write", "undo"} /\ rc'.pc # "tick" /\ rc'.pc \in {"idle", "tick", "read", "stage", "write", "undo"}
    BY <1>4
  <2> QED
    BY <1>2, <1>4, <2>1, Zenon DEF Thread
<1>8. now' \in Nat
  BY <1>1, Still, Zenon
<1> QED
  BY <1>2, <1>3, <1>4, <1>5, <1>6, <1>7, <1>8, Zenon DEF Base


\* The invariant after a step, from its parts.
LEMMA Assembled ==
  ASSUME IInv, Base', BudgetShrinks,
         OneFault /\ gate'.applied # None /\ state'.gen = gate'.applied =>
           Owns(rc', map', claims', now', budget'.fault)
  PROVE  IInv'
<1>1. OneFault => budget'.fault <= 1
  <2>1. OneFault => budget.fault <= 1
    BY Zenon DEF IInv
  <2> QED
    BY <2>1 DEF IInv, Base, BudgetShrinks, Scenario
<1> QED
  BY <1>1, Zenon DEF IInv, OneFault

\* A step of the receiver that writes nothing and stages nothing.
LEMMA QuietStep ==
  ASSUME IInv, Base', BudgetShrinks, rc.pc \notin {"write", "undo"}, rc'.pc \notin {"write", "undo"},
         map' = map, claims' = claims, now' = now, state' = state, gate'.applied \in {gate.applied, None}
  PROVE  IInv'
<1>1. ASSUME OneFault, gate'.applied # None, state'.gen = gate'.applied
      PROVE  Owns(rc', map', claims', now', budget'.fault)
  <2>1. Owns(rc, map, claims, now, budget.fault)
    BY <1>1, Zenon DEF IInv
  <2> QED
    BY <2>1, Zenon DEF Owns
<1> QED
  BY <1>1, Assembled, Zenon

LEMMA TakeStep == ASSUME IInv, NEW cmd \in Command, Take(cmd) PROVE IInv'
<1>1. Base
  BY Zenon DEF IInv
<1>2. Base' /\ rc'.pc = "read"
  BY <1>1, TakeBase, Zenon
<1>3. /\ claims' = claims /\ map' = map /\ leases' = leases /\ state' = state /\ now' = now
      /\ gate' = Noticed(gate) /\ May("command") /\ Spend("command") /\ rc = Idle
  BY Zenon DEF Take, kernel
<1>4. BudgetShrinks
  BY <1>1, <1>3, Still, Spent, Zenon DEF Spendable, BudgetShrinks
<1>5. gate'.applied \in {gate.applied, None}
  BY <1>1, <1>3, Still, NoticedIs, Zenon DEF NoticedOf
<1>6. rc.pc \notin {"write", "undo"} /\ rc'.pc \notin {"write", "undo"}
  BY <1>2, <1>3 DEF Idle
<1> QED
  BY <1>1, <1>2, <1>3, <1>4, <1>5, <1>6, QuietStep, Zenon

\* A step that changes the receiver alone, to a record that is not being written.
LEMMA ThreadStep ==
  ASSUME IInv, rc.pc \notin {"write", "undo"}, rc'.pc \in {"idle", "tick", "stage"},
         rc'.pc = "stage" => rc'.cmd \in Command /\ rc'.saved = gate.saved /\ rc'.mac \in Macs \cup {None},
         rc'.pc = "tick" => gate.saved # 0,
         cache' = cache, claims' = claims, gate' = gate, budget' = budget, map' = map, leases' = leases,
         state' = state, now' = now
  PROVE  IInv'
<1>1. Base
  BY Zenon DEF IInv
<1>2. rc'.pc \notin {"read", "write", "undo"} /\ rc'.pc \in {"idle", "tick", "read", "stage", "write", "undo"}
  OBVIOUS
<1>3. Thread(rc', cache, map, claims, gate, now, budget.ttl)
  BY <1>2, Zenon DEF Thread
<1>4. Base'
  BY <1>1, <1>3, Zenon DEF Base
<1>5. BudgetShrinks
  BY <1>1, PartsStill, Zenon
<1> QED
  BY <1>2, <1>4, <1>5, QuietStep, Zenon

LEMMA ReadEntryStep == ASSUME IInv, ReadEntry PROVE IInv'
<1> DEFINE e == cache[rc.cmd.flow]
<1>1. Base /\ rc.pc = "read"
  BY Zenon DEF IInv, ReadEntry
<1>2. rc.cmd \in Command /\ rc.saved = gate.saved
  BY <1>1, Zenon DEF Base, Thread
<1>3. rc'.pc = "stage" /\ rc'.cmd = rc.cmd /\ rc'.saved = rc.saved /\ rc'.mac = IF e # None THEN e.mac ELSE None
  <2>1. \E keys, ended, ends : 
          rc' = [pc |-> "stage", cmd |-> rc.cmd, at |-> rc.at, ready |-> rc.ready, saved |-> rc.saved,
                 keys |-> keys, mac |-> IF e # None THEN e.mac ELSE None, ended |-> ended, ends |-> ends]
    BY Zenon DEF ReadEntry
  <2> HIDE DEF e
  <2> QED
    BY <2>1
<1>4. rc'.mac \in Macs \cup {None}
  <2>1. rc.cmd.flow \in Flows
    BY <1>2 DEF Command
  <2>2. e = None \/ Entry(e)
    BY <1>1, <2>1, Still, Zenon DEF Cached
  <2> QED
    BY <1>3, <2>2, Zenon DEF Entry
<1>5. /\ cache' = cache /\ claims' = claims /\ gate' = gate /\ budget' = budget /\ map' = map
      /\ leases' = leases /\ state' = state /\ now' = now
  BY Zenon DEF ReadEntry, kernel
<1>6. rc.pc \notin {"write", "undo"} /\ rc'.pc \in {"idle", "tick", "stage"} /\ rc'.pc # "tick"
  BY <1>1, <1>3
<1> HIDE DEF e
<1> QED
  BY <1>2, <1>3, <1>4, <1>5, <1>6, ThreadStep, Zenon

LEMMA TickBeginsStep == ASSUME IInv, TickBegins PROVE IInv'
<1>1. /\ cache' = cache /\ claims' = claims /\ gate' = gate /\ budget' = budget /\ map' = map
      /\ leases' = leases /\ state' = state /\ now' = now
  BY Zenon DEF TickBegins, kernel
<1>2. rc = Idle /\ rc' = [pc |-> "tick", capable |-> gate.ready] /\ gate.saved # 0
  BY Zenon DEF TickBegins
<1>3. rc.pc \notin {"write", "undo"} /\ rc'.pc = "tick"
  BY <1>2 DEF Idle
<1> QED
  BY <1>1, <1>2, <1>3, ThreadStep


-----------------------------------------------------------------------------
(* The receiver: the checks and what is staged.                            *)

\* What the checks of a command that is not refused have established.
LEMMA NotRefused ==
  ASSUME Base, rc.pc = "stage", ~Refused
  PROVE  /\ rc.cmd \in Command /\ rc.cmd.rev = gate.saved /\ rc.mac \in Macs \cup {None}
         /\ Upsert(rc.cmd) => gate.applied = rc.cmd.rev /\ ~gate.cleared
         /\ Newest(rc, cache)
<1> DEFINE e == cache[rc.cmd.flow]
<1>1. rc.cmd \in Command /\ rc.saved = gate.saved /\ rc.mac \in Macs \cup {None}
  <2>1. rc.pc \in {"read", "stage"}
    OBVIOUS
  <2> QED
    BY <2>1, Zenon DEF Base, Thread
<1>2. rc.cmd.rev = rc.saved /\ (Upsert(rc.cmd) => gate.commands) /\ ~Stale(rc.cmd)
  BY Zenon DEF Refused
<1>3. gate.commands => gate.applied = gate.saved /\ ~gate.cleared
  BY Zenon DEF Base, Switches
<1>4. ASSUME e # None, e.last # None PROVE e.last <= rc.cmd.issued
  <2>1. rc.cmd.flow \in Flows /\ rc.cmd.issued \in Nat
    BY <1>1, FlowAssumption DEF Command
  <2>2. e.last \in Nat
    BY <1>4, <2>1, Still, Zenon DEF Cached, Entry
  <2>3. ~(rc.cmd.issued < e.last)
    BY <1>2, <1>4, Zenon DEF Stale
  <2> QED
    BY <2>1, <2>2, <2>3
<1> QED
  BY <1>1, <1>2, <1>3, <1>4, Zenon DEF Newest

\* The updates a command stages.
Staged(plan, cmd, k) ==
  /\ Sound(plan[k], cmd, claims[k], gate, now, budget.ttl) /\ plan[k].prev = map[k]
  /\ Held(map[k], claims[k], now) =>
       /\ Held(plan[k].next, plan[k].claims, now)
       /\ Clears(cmd) => Held(plan[k].next, claims[k], now)

LEMMA TablesAt ==
  ASSUME Base, NEW k \in Keys
  PROVE  /\ map[k] \in Slot /\ Book(claims[k], budget.ttl) /\ OfRevision(map[k], gate.applied)
         /\ gate.cleared => map[k] = None
BY Zenon DEF Base, Tables

LEMMA PlannedSound ==
  ASSUME Least, Base, rc.pc = "stage", ~Refused, NEW plan, plan = Planned(rc.cmd)
  PROVE  /\ \A k \in Keys \cap DOMAIN plan : Staged(plan, rc.cmd, k)
         /\ ~Clears(rc.cmd) => \A k \in DOMAIN plan : plan[k].next # None
<1> DEFINE cmd == rc.cmd
           t   == budget.ttl
           claim(k) == [flow |-> cmd.flow, rev |-> cmd.rev, pol |-> cmd.pol, mac |-> rc.mac,
                        until |-> Until(cmd),
                        seen |-> k.tuple = cmd.flow.tuple /\ k.ifx = cmd.flow.ifx]
           blocks == [k \in BlockKeys(rc.keys) |-> BlockAt(k, claim(k))]
           shapes == [k \in Shapeable(rc.keys) |-> ShapeAt(k, cmd.flow, cmd.rev, Until(cmd))]
           clears == [k \in BlockKeys(rc.keys) |-> ClearAt(k, cmd.flow)]
<1>1. plan = CASE cmd.op = "block" -> blocks [] cmd.op = "shape" -> shapes [] OTHER -> clears
  BY Zenon DEF Planned
<1>2. /\ cmd \in Command /\ cmd.rev = gate.saved /\ rc.mac \in Macs \cup {None}
      /\ Upsert(cmd) => gate.applied = cmd.rev /\ ~gate.cleared
  BY NotRefused, Zenon
<1>3. t \in Nat
  BY Still DEF Scenario
<1>4. /\ cmd.flow \in Flows /\ cmd.rev \in Nat /\ cmd.pol \in Policies \cup {None} /\ cmd.op \in Ops
      /\ Until(cmd) \in Nat /\ Until(cmd) <= MaxNow + t
  <2>1. /\ cmd.flow \in Flows /\ cmd.rev \in 1..MaxRev /\ cmd.pol \in Policies \cup {None} /\ cmd.op \in Ops
        /\ cmd.issued \in 0..MaxNow
    BY <1>2 DEF Command
  <2>2. Until(cmd) = cmd.issued + t
    BY Zenon DEF Until, Ttl
  <2> QED
    BY <1>3, <2>1, <2>2, FlowAssumption
<1>5. ASSUME cmd.op = "block" 
      PROVE  /\ \A k \in Keys \cap DOMAIN plan : Staged(plan, cmd, k)
             /\ \A k \in DOMAIN plan : plan[k].next # None
  <2>1. plan = blocks
    <3> HIDE DEF blocks, shapes, clears
    <3> QED
      BY <1>1, <1>5
  <2>2. DOMAIN plan \in SUBSET Keys /\ \A k \in DOMAIN plan : plan[k] = BlockAt(k, claim(k))
    <3>1. BlockKeys(rc.keys) \in SUBSET Keys
      BY Zenon DEF BlockKeys, FirstOf
    <3> HIDE DEF claim
    <3> QED
      BY <2>1, <3>1, Zenon
  <2>3. Upsert(cmd) /\ ~Clears(cmd)
    BY <1>5 DEF Upsert, Clears
  <2>4. ASSUME NEW k \in DOMAIN plan PROVE Staged(plan, cmd, k) /\ plan[k].next # None
    <3>1. claim(k) \in Claim /\ claim(k).flow = cmd.flow /\ claim(k).rev = cmd.rev
          /\ claim(k).until = Until(cmd)
      <4>1. (k.tuple = cmd.flow.tuple /\ k.ifx = cmd.flow.ifx) \in BOOLEAN
        BY Zenon
      <4> QED
        BY <1>2, <1>4, <4>1, Zenon DEF Claim
    <3>2. /\ map[k] \in Slot /\ Book(claims[k], t) /\ OfRevision(map[k], gate.applied)
      BY <2>2, <2>4, TablesAt, Zenon
    <3> HIDE DEF claim
    <3>3. /\ claim(k).until <= MaxNow + t /\ Lets(gate, claim(k).rev)
          /\ plan[k] = BlockAt(k, claim(k))
      BY <1>2, <1>4, <2>2, <2>3, <2>4, <3>1, Zenon DEF Lets
    <3> HIDE DEF cmd, t
    <3>4. Sound(plan[k], cmd, claims[k], gate, now, t) /\ plan[k].prev = map[k]
          /\ Held(plan[k].next, plan[k].claims, now)
      BY <1>3, <1>5, <3>1, <3>2, <3>3, BlockAtSound, SMT
    <3> QED
      BY <2>3, <3>4, Zenon DEF Staged, Sound, t
  <2> QED
    BY <2>4, Zenon
<1>6. ASSUME cmd.op = "shape" 
      PROVE  /\ \A k \in Keys \cap DOMAIN plan : Staged(plan, cmd, k)
             /\ \A k \in DOMAIN plan : plan[k].next # None
  <2>1. plan = shapes
    <3> HIDE DEF blocks, shapes, clears
    <3> QED
      BY <1>1, <1>6
  <2>2. \A k \in DOMAIN plan : plan[k] = ShapeAt(k, cmd.flow, cmd.rev, Until(cmd))
    BY <2>1, Zenon
  <2>3. Upsert(cmd) /\ ~Clears(cmd)
    BY <1>6 DEF Upsert, Clears
  <2>4. ASSUME NEW k \in DOMAIN plan PROVE plan[k].next # None
    <3> DEFINE v == [kind |-> "shape", flow |-> cmd.flow, rev |-> cmd.rev, pol |-> None, mac |-> None,
                     until |-> Until(cmd)]
    <3>1. plan[k] = [prev |-> map[k], claims |-> {}, next |-> v]
      BY <2>2, <2>4, Zenon DEF ShapeAt
    <3>2. v \in Verdicts
      BY <1>4 DEF Verdicts
    <3>3. v # None
      BY <3>2, FlowAssumption, Zenon
    <3> HIDE DEF v
    <3> QED
      BY <3>1, <3>3
  <2>5. ASSUME NEW k \in Keys \cap DOMAIN plan PROVE Staged(plan, cmd, k)
    <3>1. /\ map[k] \in Slot /\ OfRevision(map[k], gate.applied)
      BY <2>5, TablesAt, Zenon
    <3>2. /\ Lets(gate, cmd.rev)
          /\ plan[k] = ShapeAt(k, cmd.flow, cmd.rev, Until(cmd))
      BY <1>2, <2>2, <2>3, <2>5, Zenon DEF Lets
    <3> HIDE DEF cmd, t
    <3>3. Sound(plan[k], cmd, claims[k], gate, now, t) /\ plan[k].prev = map[k]
          /\ Held(plan[k].next, plan[k].claims, now)
      BY <1>3, <1>4, <1>6, <3>1, <3>2, ShapeAtSound, SMT
    <3> QED
      BY <2>3, <3>3, Zenon DEF Staged, t
  <2> QED
    BY <2>4, <2>5, Zenon
<1>7. ASSUME cmd.op \notin {"block", "shape"}
      PROVE  Clears(cmd) /\ \A k \in Keys \cap DOMAIN plan : Staged(plan, cmd, k)
  <2>1. plan = clears
    <3> HIDE DEF blocks, shapes, clears
    <3> QED
      BY <1>1, <1>7
  <2>2. \A k \in DOMAIN plan : plan[k] = ClearAt(k, cmd.flow)
    BY <2>1, Zenon
  <2>3. Clears(cmd)
    BY <1>4, <1>7 DEF Clears, Ops
  <2>4. ASSUME NEW k \in Keys \cap DOMAIN plan PROVE Staged(plan, cmd, k)
    <3>1. /\ map[k] \in Slot /\ Book(claims[k], t) /\ OfRevision(map[k], gate.applied)
          /\ gate.cleared => map[k] = None
      BY <2>4, TablesAt, Zenon
    <3>2. /\ Sound(plan[k], cmd, claims[k], gate, now, t) /\ plan[k].prev = map[k]
          /\ Held(map[k], claims[k], now) =>
               Held(plan[k].next, plan[k].claims, now) /\ Held(plan[k].next, claims[k], now)
      BY <1>3, <2>2, <2>3, <2>4, <3>1, ClearAtSound, Zenon
    <3> QED
      BY <3>2, Zenon DEF Staged
  <2> QED
    BY <2>3, <2>4, Zenon
<1> HIDE DEF cmd
<1> QED
  BY <1>5, <1>6, <1>7, Zenon DEF cmd


\* The sweep of the registry drops nobody whose claim has not expired.
SweptTo(C) ==
  /\ C = [k \in Keys |-> C[k]]
  /\ \A k \in Keys : C[k] = claims[k] \/ (C[k] = {} /\ \A c \in claims[k] : ~(c.until > now))

LEMMA SweptIs == ASSUME Base, NEW plan, NEW C \in Swept(claims, plan) PROVE SweptTo(C)
<1> DEFINE D == [k \in Keys |-> IF \E c \in claims[k] : c.until > now THEN claims[k] ELSE {}]
<1>1. C = claims \/ C = D
  BY Zenon DEF Swept
<1>2. claims = [k \in Keys |-> claims[k]]
  BY Zenon DEF Base, Tables
<1>3. CASE C = claims
  BY <1>2, <1>3, Zenon DEF SweptTo
<1>4. CASE C = D
  BY <1>4, Zenon DEF SweptTo
<1> QED
  BY <1>1, <1>3, <1>4, Zenon

LEMMA SweptKeeps ==
  ASSUME Base, NEW C, SweptTo(C), NEW k \in Keys, NEW v \in Slot
  PROVE  /\ Book(C[k], budget.ttl)
         /\ Held(v, claims[k], now) => Held(v, C[k], now)
<1>1. Book(claims[k], budget.ttl) /\ now \in Nat
  BY TablesAt, Still, Zenon
<1>2. CASE C[k] = claims[k]
  BY <1>1, <1>2, Zenon
<1>3. CASE C[k] = {} /\ \A c \in claims[k] : ~(c.until > now)
  <2>1. Book({}, budget.ttl)
    BY Zenon DEF Book
  <2>2. ASSUME v # None, v.until > now, NEW c \in claims[k], c.until >= v.until PROVE FALSE
    <3>1. c.until \in Nat /\ v.until \in Nat
      BY <1>1, <2>2 DEF Book, Claim, Slot, Verdicts
    <3>2. c.until > now
      BY <1>1, <2>2, <3>1
    <3> QED
      BY <1>3, <3>2, Zenon
  <2> QED
    BY <1>3, <2>1, <2>2, Zenon DEF Held
<1> QED
  BY <1>2, <1>3, Zenon DEF SweptTo

\* Where the owners after the checks are C: the tables and, between commands, the
\* owners of the map are as before.
LEMMA SweptTables ==
  ASSUME Base, NEW C, SweptTo(C)
  PROVE  /\ Tables(map, C, leases, gate, budget.ttl)
         /\ \A k \in Keys : Held(map[k], claims[k], now) => Held(map[k], C[k], now)
<1>1. \A k \in Keys : Book(C[k], budget.ttl) /\ map[k] \in Slot
  BY SweptKeeps, TablesAt, Zenon
<1>2. C = [k \in Keys |-> C[k]]
  BY Zenon DEF SweptTo
<1>3. Tables(map, C, leases, gate, budget.ttl)
  <2>1. Tables(map, claims, leases, gate, budget.ttl)
    BY Zenon DEF Base
  <2> QED
    BY <1>1, <1>2, <2>1, Zenon DEF Tables
<1> QED
  BY <1>1, <1>3, SweptKeeps, Zenon

\* The command is refused, or does not fit in the registry.
LEMMA RefusedStep ==
  ASSUME IInv, rc.pc = "stage", rc' = Idle, SweptTo(claims'), cache' = cache, gate' = gate, budget' = budget,
         map' = map, leases' = leases, state' = state, now' = now
  PROVE  IInv'
<1>1. Base
  BY Zenon DEF IInv
<1>2. rc'.pc = "idle"
  BY DEF Idle
<1>3. rc'.pc \notin {"read", "stage", "write", "undo"} /\ rc'.pc # "tick"
      /\ rc'.pc \in {"idle", "tick", "read", "stage", "write", "undo"}
  BY <1>2
<1>4. Thread(rc', cache', map', claims', gate', now', budget'.ttl)
  BY <1>3, Zenon DEF Thread
<1>5. Tables(map, claims', leases, gate, budget.ttl)
      /\ \A k \in Keys : Held(map[k], claims[k], now) => Held(map[k], claims'[k], now)
  BY <1>1, SweptTables, Zenon
<1>6. Base'
  BY <1>1, <1>4, <1>5, Zenon DEF Base
<1>7. BudgetShrinks
  BY <1>1, PartsStill, Zenon
<1>8. ASSUME OneFault, gate'.applied # None, state'.gen = gate'.applied
      PROVE  Owns(rc', map', claims', now', budget'.fault)
  <2>1. Owns(rc, map, claims, now, budget.fault)
    BY <1>8, Zenon DEF IInv
  <2>2. rc.pc \notin {"write", "undo"}
    OBVIOUS
  <2> QED
    BY <1>3, <1>5, <2>1, <2>2, Zenon DEF Owns
<1> QED
  BY <1>6, <1>7, <1>8, Assembled, Zenon

\* The updates are staged.
LEMMA StagedStep ==
  ASSUME Least, IInv, rc.pc = "stage", ~Refused, SweptTo(claims'), rc.cmd.op # "block" => claims' = claims,
         rc' = [pc |-> "write", cmd |-> rc.cmd, at |-> rc.at, mac |-> rc.mac, ends |-> rc.ends,
                plan |-> Planned(rc.cmd), todo |-> DOMAIN Planned(rc.cmd), done |-> {}],
         cache' = cache, gate' = gate, budget' = budget, map' = map, leases' = leases, state' = state,
         now' = now
  PROVE  IInv'
<1> DEFINE plan == Planned(rc.cmd)
           cmd  == rc.cmd
           t    == budget.ttl
<1>1. Base
  BY Zenon DEF IInv
<1>2. /\ cmd \in Command /\ cmd.rev = gate.saved /\ rc.mac \in Macs \cup {None}
      /\ Upsert(cmd) => gate.applied = cmd.rev /\ ~gate.cleared
      /\ Newest(rc, cache)
  BY <1>1, NotRefused, Zenon
<1>3. /\ \A k \in Keys \cap DOMAIN plan : Staged(plan, cmd, k)
      /\ ~Clears(cmd) => \A k \in DOMAIN plan : plan[k].next # None
  <2> HIDE DEF plan
  <2> QED
    BY <1>1, PlannedSound, Zenon DEF plan
<1> HIDE DEF plan
<1>4. /\ DOMAIN rc' = BusyFields /\ rc'.pc = "write" /\ rc'.cmd = cmd /\ rc'.plan = plan
      /\ rc'.todo = DOMAIN plan /\ rc'.done = {}
  <2>1. rc' = [pc |-> "write", cmd |-> rc.cmd, at |-> rc.at, mac |-> rc.mac, ends |-> rc.ends,
               plan |-> plan, todo |-> DOMAIN plan, done |-> {}]
    BY Zenon DEF plan
  <2> QED
    BY <2>1 DEF BusyFields
<1>5. /\ Tables(map, claims', leases, gate, t)
      /\ \A k \in Keys : Held(map[k], claims[k], now) => Held(map[k], claims'[k], now)
  BY <1>1, SweptTables, Zenon
<1>6. Clears(cmd) => claims' = claims
  <2>1. Clears(cmd) => cmd.op # "block"
    BY DEF Clears
  <2> QED
    BY <2>1, Zenon
<1> HIDE DEF cmd
<1>7. ASSUME NEW k \in Keys \cap DOMAIN plan PROVE Sound(plan[k], cmd, claims'[k], gate, now, t)
  <2>1. Sound(plan[k], cmd, claims[k], gate, now, t)
    BY <1>3, <1>7, Zenon DEF Staged
  <2> QED
    BY <1>6, <2>1, Zenon DEF Sound
<1>8. \A k \in Keys \cap DOMAIN plan : map[k] \in {None, plan[k].prev}
  BY <1>3, Zenon DEF Staged
<1>9. gate.cleared => cmd.op = "revoke"
  BY <1>2, Zenon DEF Upsert
<1>10. Busy(rc', map', claims', gate', now', budget'.ttl)
  BY <1>2, <1>3, <1>4, <1>7, <1>8, <1>9, Zenon DEF Busy
<1>11. Thread(rc', cache', map', claims', gate', now', budget'.ttl)
  <2>1. rc'.pc \notin {"read", "stage"} /\ rc'.pc \in {"idle", "tick", "read", "stage", "write", "undo"}
        /\ rc'.pc # "stage" /\ rc'.pc # "tick"
    BY <1>4
  <2>2. Newest(rc', cache')
    BY <1>2, <1>4, Zenon DEF Newest, cmd
  <2> QED
    BY <1>10, <2>1, <2>2, Zenon DEF Thread
<1>12. Base'
  BY <1>1, <1>5, <1>11, Zenon DEF Base
<1>13. BudgetShrinks
  BY <1>1, PartsStill, Zenon
<1>14. ASSUME OneFault, gate'.applied # None, state'.gen = gate'.applied
       PROVE  Owns(rc', map', claims', now', budget'.fault)
  <2>1. Owns(rc, map, claims, now, budget.fault)
    BY <1>14, Zenon DEF IInv
  <2>2. rc.pc \notin {"write", "undo"} /\ rc'.pc \in {"write", "undo"} /\ rc'.pc # "undo"
    BY <1>4
  <2>3. \A k \in Keys : Held(map[k], claims[k], now) /\ Held(map[k], claims'[k], now)
    BY <1>5, <2>1, <2>2, Zenon DEF Owns
  <2>4. ASSUME NEW k \in Keys \cap DOMAIN plan
        PROVE  /\ Held(plan[k].prev, claims'[k], now) /\ Held(plan[k].next, plan[k].claims, now)
               /\ Clears(cmd) => Held(plan[k].next, claims'[k], now)
    BY <1>3, <1>6, <2>3, <2>4, Zenon DEF Staged
  <2> QED
    BY <1>4, <2>2, <2>3, <2>4, Zenon DEF Owns
<1> QED
  BY <1>12, <1>13, <1>14, Assembled, Zenon

LEMMA StageStep == ASSUME Least, IInv, Stage PROVE IInv'
<1>1. /\ rc.pc = "stage" /\ cache' = cache /\ gate' = gate /\ budget' = budget
      /\ map' = map /\ leases' = leases /\ state' = state /\ now' = now
  BY Zenon DEF Stage, kernel
<1>2. Base
  BY Zenon DEF IInv
<1>3. SweptTo(claims)
  BY <1>2, Zenon DEF Base, Tables, SweptTo
<1>4. CASE Refused
  <2>1. rc' = Idle /\ claims' = claims
    BY <1>4, Zenon DEF Stage
  <2> QED
    BY <1>1, <1>3, <2>1, RefusedStep, Zenon
<1>5. CASE ~Refused
  <2>1. PICK C \in IF rc.cmd.op = "block" THEN Swept(claims, Planned(rc.cmd)) ELSE {claims} :
          /\ claims' = C
          /\ \/ rc' = Idle
             \/ rc' = [pc |-> "write", cmd |-> rc.cmd, at |-> rc.at, mac |-> rc.mac, ends |-> rc.ends,
                       plan |-> Planned(rc.cmd), todo |-> DOMAIN Planned(rc.cmd), done |-> {}]
    BY <1>5, Zenon DEF Stage
  <2>2. SweptTo(claims') /\ (rc.cmd.op # "block" => claims' = claims)
    BY <1>2, <1>3, <2>1, SweptIs, Zenon
  <2>3. CASE rc' = Idle
    BY <1>1, <2>2, <2>3, RefusedStep, Zenon
  <2>4. CASE rc' = [pc |-> "write", cmd |-> rc.cmd, at |-> rc.at, mac |-> rc.mac, ends |-> rc.ends,
                    plan |-> Planned(rc.cmd), todo |-> DOMAIN Planned(rc.cmd), done |-> {}]
    BY <1>1, <1>5, <2>2, <2>4, StagedStep, Zenon
  <2> QED
    BY <2>1, <2>3, <2>4, Zenon
<1> QED
  BY <1>4, <1>5, Zenon


-----------------------------------------------------------------------------
(* The receiver: the maps are written, or put back.                        *)

LEMMA BusyHere ==
  ASSUME Base, rc.pc \in {"write", "undo"}
  PROVE  /\ Busy(rc, map, claims, gate, now, budget.ttl) /\ Tables(map, claims, leases, gate, budget.ttl)
         /\ rc.pc = "write" => Newest(rc, cache)
BY Zenon DEF Base, Thread

\* A map some keys of which have the value before or after a staged update.
LEMMA PlanTables ==
  ASSUME Base, rc.pc \in {"write", "undo"}, map' = [k \in Keys |-> map'[k]],
         \A k \in Keys : map'[k] = map[k] \/ (k \in DOMAIN rc.plan /\ map'[k] \in {rc.plan[k].prev, rc.plan[k].next})
  PROVE  Tables(map', claims, leases, gate, budget.ttl)
<1>1. Busy(rc, map, claims, gate, now, budget.ttl) /\ Tables(map, claims, leases, gate, budget.ttl)
  BY BusyHere, Zenon
<1>2. ASSUME NEW k \in Keys
      PROVE  map'[k] \in Slot /\ OfRevision(map'[k], gate.applied) /\ (gate.cleared => map'[k] = None)
  <2>1. CASE map'[k] = map[k]
    BY <1>2, <2>1, TablesAt, Zenon
  <2>2. CASE k \in DOMAIN rc.plan /\ map'[k] \in {rc.plan[k].prev, rc.plan[k].next}
    <3>1. Sound(rc.plan[k], rc.cmd, claims[k], gate, now, budget.ttl)
      BY <1>1, <1>2, <2>2, Zenon DEF Busy
    <3> QED
      BY <2>2, <3>1, Zenon DEF Sound
  <2> QED
    BY <1>2, <2>1, <2>2, Zenon
<1>3. map' \in [Keys -> Slot]
  BY <1>2, Zenon
<1> QED
  BY <1>1, <1>2, <1>3, Zenon DEF Tables

\* One step of apply_verdict_updates: the keys of set are written, in a slice keys of
\* what is left.
Wrote(keys, fail, set) ==
  /\ keys \in SUBSET rc.todo /\ fail \in SUBSET keys /\ set \in SUBSET keys
  /\ \A k \in set : ~Same(k)
  /\ fail = {} => \A k \in keys \ set : Same(k)
  /\ fail # {} => (\E k \in fail : Lost(k)) \/ (May("fault") /\ Spend("fault"))
  /\ budget' = budget \/ (fail # {} /\ May("fault") /\ Spend("fault"))
  /\ map' = [k \in Keys |-> IF k \in set THEN rc.plan[k].next ELSE map[k]]
  /\ rc' = [rc EXCEPT !.pc = IF fail = {} THEN "write" ELSE "undo", !.done = @ \cup set,
                      !.todo = IF fail = {} THEN @ \ keys ELSE {}]

LEMMA WriteIs == ASSUME Write PROVE \E keys, fail, set : Wrote(keys, fail, set)
<1> DEFINE slices == IF rc.done = {} THEN {FirstOf(1, rc.todo), rc.todo} ELSE {rc.todo}
           set(keys, fail) == {k \in keys : ~Same(k) /\ \A j \in fail : Rank[k] < Rank[j]}
<1>1. PICK keys \in slices : \E fail \in {{}} \cup {{k} : k \in keys} : WriteUntil(keys, fail)
  BY Zenon DEF Write
<1>2. PICK fail \in {{}} \cup {{k} : k \in keys} : WriteUntil(keys, fail)
  BY <1>1, Zenon
<1>3. keys \in SUBSET rc.todo /\ fail \in SUBSET keys
  BY <1>1, <1>2, Zenon DEF FirstOf
<1>4. set(keys, fail) \in SUBSET keys /\ (\A k \in set(keys, fail) : ~Same(k)) /\ (fail = {} => \A k \in keys \ set(keys, fail) : Same(k))
  BY Zenon
<1>5. /\ IF fail = {} \/ \E k \in fail : Lost(k) THEN budget' = budget
         ELSE (\A k \in fail : ~Same(k)) /\ May("fault") /\ Spend("fault")
      /\ map' = [k \in Keys |-> IF k \in set(keys, fail) THEN rc.plan[k].next ELSE map[k]]
      /\ rc'  = [rc EXCEPT !.pc = IF fail = {} THEN "write" ELSE "undo", !.done = @ \cup set(keys, fail),
                           !.todo = IF fail = {} THEN @ \ keys ELSE {}]
  BY <1>2, Zenon DEF WriteUntil
<1> HIDE DEF set
<1>6. Wrote(keys, fail, set(keys, fail))
  BY <1>3, <1>4, <1>5, Zenon DEF Wrote
<1> QED
  BY <1>6, Zenon

LEMMA WroteReceiver ==
  ASSUME Base, rc.pc = "write", NEW keys, NEW fail, NEW set, Wrote(keys, fail, set)
  PROVE  /\ DOMAIN rc' = BusyFields /\ rc'.cmd = rc.cmd /\ rc'.plan = rc.plan /\ rc'.done = rc.done \cup set
         /\ fail = {} => rc'.pc = "write" /\ rc'.todo = rc.todo \ keys
         /\ fail # {} => rc'.pc = "undo" /\ rc'.todo = {}
<1>1. DOMAIN rc = BusyFields
  <2>1. rc.pc \in {"write", "undo"}
    OBVIOUS
  <2> QED
    BY <2>1, BusyHere, Zenon DEF Busy
<1> DEFINE pc == IF fail = {} THEN "write" ELSE "undo"
           todo == IF fail = {} THEN rc.todo \ keys ELSE {}
<1>2. rc' = [rc EXCEPT !.pc = pc, !.done = @ \cup set, !.todo = todo]
  BY <1>1, Zenon DEF Wrote, BusyFields
<1>3. (fail = {} => pc = "write" /\ todo = rc.todo \ keys) /\ (fail # {} => pc = "undo" /\ todo = {})
  BY Zenon
<1> HIDE DEF pc, todo
<1>4. /\ DOMAIN rc' = BusyFields /\ rc'.cmd = rc.cmd /\ rc'.plan = rc.plan /\ rc'.done = rc.done \cup set
      /\ rc'.pc = pc /\ rc'.todo = todo
  BY <1>1, <1>2, Zenon DEF BusyFields
<1> QED
  BY <1>3, <1>4, Zenon

LEMMA WriteStep == ASSUME IInv, Write PROVE IInv'
<1>1. /\ Base /\ rc.pc = "write" /\ claims' = claims /\ leases' = leases /\ state' = state /\ gate' = gate
      /\ now' = now /\ cache' = cache
  BY Zenon DEF IInv, Write
<1>2. PICK keys, fail, set : Wrote(keys, fail, set)
  BY WriteIs, Zenon
<1>3. /\ DOMAIN rc' = BusyFields /\ rc'.cmd = rc.cmd /\ rc'.plan = rc.plan /\ rc'.done = rc.done \cup set
      /\ fail = {} => rc'.pc = "write" /\ rc'.todo = rc.todo \ keys
      /\ fail # {} => rc'.pc = "undo" /\ rc'.todo = {}
  BY <1>1, <1>2, WroteReceiver, Zenon
<1>4. rc.pc \in {"write", "undo"}
  BY <1>1
<1>5. Busy(rc, map, claims, gate, now, budget.ttl) /\ Newest(rc, cache)
  BY <1>1, <1>4, BusyHere, Zenon
<1>6. /\ keys \in SUBSET rc.todo /\ set \in SUBSET keys /\ rc.todo \in SUBSET DOMAIN rc.plan
      /\ rc.done \in SUBSET DOMAIN rc.plan
      /\ \A k \in Keys : map'[k] = IF k \in set THEN rc.plan[k].next ELSE map[k]
      /\ map' = [k \in Keys |-> map'[k]]
  BY <1>2, <1>5, Zenon DEF Wrote, Busy
<1>7. BudgetShrinks /\ (fail # {} => (\E k \in fail : Lost(k)) \/ budget'.fault = budget.fault - 1)
  <2>1. CASE budget' = budget /\ (fail # {} => \E k \in fail : Lost(k))
    BY <1>1, <2>1, PartsStill, Zenon
  <2>2. CASE May("fault") /\ Spend("fault")
    BY <1>1, <2>2, Still, Spent, Zenon DEF Spendable, BudgetShrinks
  <2> QED
    BY <1>2, <2>1, <2>2, Zenon DEF Wrote
<1>8. Tables(map', claims', leases', gate', budget'.ttl)
  <2>1. \A k \in Keys : map'[k] = map[k] \/ (k \in DOMAIN rc.plan /\ map'[k] \in {rc.plan[k].prev, rc.plan[k].next})
    BY <1>6, Zenon
  <2>2. Tables(map', claims, leases, gate, budget.ttl)
    BY <1>1, <1>4, <1>6, <2>1, PlanTables, Zenon
  <2> QED
    BY <1>1, <1>7, <2>2, Zenon DEF BudgetShrinks
<1>9. Busy(rc', map', claims', gate', now', budget'.ttl)
  <2>1. rc'.todo \in SUBSET DOMAIN rc'.plan /\ rc'.done \in SUBSET DOMAIN rc'.plan
    BY <1>3, <1>6, Zenon
  <2>2. \A k \in Keys \cap rc'.todo : map'[k] \in {None, rc'.plan[k].prev}
    <3>1. \A k \in Keys \cap rc'.todo : k \in rc.todo /\ k \notin set
      BY <1>3, <1>6, Zenon
    <3> QED
      BY <1>3, <1>5, <1>6, <3>1, Zenon DEF Busy
  <2>3. budget'.ttl = budget.ttl
    BY <1>7, Zenon DEF BudgetShrinks
  <2> QED
    BY <1>1, <1>3, <1>5, <2>1, <2>2, <2>3, Zenon DEF Busy
<1>10. rc'.pc \in {"write", "undo"} /\ rc'.pc \notin {"read", "stage"} /\ rc'.pc # "stage" /\ rc'.pc # "tick"
       /\ rc'.pc \in {"idle", "tick", "read", "stage", "write", "undo"}
  BY <1>3
<1>11. Thread(rc', cache', map', claims', gate', now', budget'.ttl)
  <2>1. Newest(rc', cache')
    BY <1>1, <1>3, <1>5, Zenon DEF Newest
  <2> QED
    BY <1>9, <1>10, <2>1, Zenon DEF Thread
<1>12. Base'
  BY <1>1, <1>7, <1>8, <1>11, Zenon DEF Base, BudgetShrinks
<1>13. ASSUME OneFault, gate'.applied # None, state'.gen = gate'.applied
       PROVE  Owns(rc', map', claims', now', budget'.fault)
  <2>1. Owns(rc, map, claims, now, budget.fault) /\ budget.fault <= 1
    BY <1>1, <1>13, Zenon DEF IInv
  <2>2. /\ \A k \in Keys \ rc.done : Held(map[k], claims[k], now)
        /\ \A k \in Keys \cap rc.done : map[k] \in {None, rc.plan[k].next}
        /\ \A k \in Keys \cap DOMAIN rc.plan :
             /\ Held(rc.plan[k].prev, claims[k], now) /\ Held(rc.plan[k].next, rc.plan[k].claims, now)
             /\ Clears(rc.cmd) => Held(rc.plan[k].next, claims[k], now)
             /\ k \notin rc.todo \cup rc.done => rc.plan[k].next = rc.plan[k].prev /\ map[k] \in {None, rc.plan[k].prev}
    BY <1>1, <1>4, <2>1, Zenon DEF Owns
  <2>3. \A k \in Keys \ rc'.done : Held(map'[k], claims[k], now)
    BY <1>3, <1>6, <2>2, Zenon
  <2>4. \A k \in Keys \cap rc'.done : map'[k] \in {None, rc.plan[k].next}
    BY <1>3, <1>6, <2>2, Zenon
  <2>5. ASSUME NEW k \in Keys \cap DOMAIN rc.plan, rc'.pc = "write", k \notin rc'.todo \cup rc'.done
        PROVE  rc.plan[k].next = rc.plan[k].prev /\ map'[k] \in {None, rc.plan[k].prev}
    <3>1. fail = {}
      BY <1>3, <2>5
    <3>2. k \notin rc.done /\ k \notin set /\ (k \in rc.todo => k \in keys) /\ map'[k] = map[k]
      BY <1>3, <1>6, <2>5, <3>1, Zenon
    <3>3. CASE k \in rc.todo
      <4>1. rc.plan[k].prev = rc.plan[k].next
        BY <1>2, <3>1, <3>2, <3>3, Zenon DEF Wrote, Same
      <4>2. map[k] \in {None, rc.plan[k].prev}
        BY <1>5, <2>5, <3>3, Zenon DEF Busy
      <4> QED
        BY <3>2, <4>1, <4>2, Zenon
    <3>4. CASE k \notin rc.todo
      BY <2>2, <2>5, <3>2, <3>4, Zenon
    <3> QED
      BY <3>3, <3>4, Zenon
  <2>6. ASSUME rc'.pc = "undo" PROVE budget'.fault = 0 \/ Clears(rc.cmd)
    <3>1. fail # {}
      BY <1>3, <2>6
    <3>2. CASE \E k \in fail : Lost(k)
      <4>1. \E k \in DOMAIN rc.plan : rc.plan[k].next = None
        BY <1>2, <1>6, <3>2, Zenon DEF Wrote, Lost
      <4> QED
        BY <1>5, <4>1, Zenon DEF Busy
    <3>3. CASE budget'.fault = budget.fault - 1
      <4>1. budget.fault \in Nat /\ budget'.fault \in Nat
        BY <1>1, <1>7, Still DEF BudgetShrinks, Scenario
      <4> QED
        BY <2>1, <3>3, <4>1
    <3> QED
      BY <1>7, <3>1, <3>2, <3>3, Zenon
  <2> QED
    BY <1>1, <1>3, <1>10, <2>2, <2>3, <2>4, <2>5, <2>6, Zenon DEF Owns
<1> QED
  BY <1>7, <1>12, <1>13, Assembled, Zenon


LEMMA UndoStep == ASSUME IInv, Undo PROVE IInv'
<1>1. /\ Base /\ rc.pc = "undo" /\ rc' = Idle /\ claims' = claims /\ leases' = leases /\ state' = state
      /\ gate' = gate /\ now' = now /\ cache' = cache
  BY Zenon DEF IInv, Undo
<1>2. PICK left \in {{}} \cup (IF May("fault") THEN {{k} : k \in rc.done} ELSE {}) :
        /\ map' = [k \in Keys |-> IF k \in rc.done \ left THEN rc.plan[k].prev ELSE map[k]]
        /\ IF left = {} THEN budget' = budget ELSE Spend("fault")
  BY Zenon DEF Undo
<1>3. left # {} => May("fault") /\ Spend("fault")
  BY <1>2, Zenon
<1>4. rc.pc \in {"write", "undo"} /\ rc'.pc = "idle"
  BY <1>1 DEF Idle
<1>5. Busy(rc, map, claims, gate, now, budget.ttl)
  BY <1>1, <1>4, BusyHere, Zenon
<1>6. /\ rc.done \in SUBSET DOMAIN rc.plan /\ map' = [k \in Keys |-> map'[k]]
      /\ \A k \in Keys : map'[k] = IF k \in rc.done \ left THEN rc.plan[k].prev ELSE map[k]
  BY <1>2, <1>5, Zenon DEF Busy
<1>7. BudgetShrinks
  <2>1. CASE left = {}
    BY <1>1, <1>2, <2>1, PartsStill, Zenon
  <2>2. CASE left # {}
    BY <1>1, <1>3, <2>2, Still, Spent, Zenon DEF Spendable, BudgetShrinks
  <2> QED
    BY <2>1, <2>2, Zenon
<1>8. Tables(map', claims', leases', gate', budget'.ttl)
  <2>1. \A k \in Keys : map'[k] = map[k] \/ (k \in DOMAIN rc.plan /\ map'[k] \in {rc.plan[k].prev, rc.plan[k].next})
    BY <1>6, Zenon
  <2>2. Tables(map', claims, leases, gate, budget.ttl)
    BY <1>1, <1>4, <1>6, <2>1, PlanTables, Zenon
  <2> QED
    BY <1>1, <1>7, <2>2, Zenon DEF BudgetShrinks
<1>9. rc'.pc \notin {"read", "stage", "write", "undo"} /\ rc'.pc # "tick"
      /\ rc'.pc \in {"idle", "tick", "read", "stage", "write", "undo"}
  BY <1>4
<1>10. Thread(rc', cache', map', claims', gate', now', budget'.ttl)
  BY <1>9, Zenon DEF Thread
<1>11. Base'
  BY <1>1, <1>7, <1>8, <1>10, Zenon DEF Base, BudgetShrinks
<1>12. ASSUME OneFault, gate'.applied # None, state'.gen = gate'.applied
       PROVE  Owns(rc', map', claims', now', budget'.fault)
  <2>1. Owns(rc, map, claims, now, budget.fault)
    BY <1>1, <1>12, Zenon DEF IInv
  <2>2. /\ \A k \in Keys \ rc.done : Held(map[k], claims[k], now)
        /\ \A k \in Keys \cap rc.done : map[k] \in {None, rc.plan[k].next}
        /\ \A k \in Keys \cap DOMAIN rc.plan :
             /\ Held(rc.plan[k].prev, claims[k], now)
             /\ Clears(rc.cmd) => Held(rc.plan[k].next, claims[k], now)
        /\ budget.fault = 0 \/ Clears(rc.cmd)
    BY <1>1, <1>4, <2>1, Zenon DEF Owns
  <2>3. left # {} => Clears(rc.cmd)
    <3>1. left # {} => budget.fault > 0
      BY <1>3, Zenon DEF May
    <3>2. budget.fault = 0 => ~(budget.fault > 0)
      OBVIOUS
    <3> QED
      BY <2>2, <3>1, <3>2, Zenon
  <2>4. ASSUME NEW k \in Keys PROVE Held(map'[k], claims[k], now)
    <3>1. CASE k \notin rc.done
      BY <1>6, <2>2, <2>4, <3>1, Zenon
    <3>2. CASE k \in rc.done \ left
      BY <1>6, <2>2, <2>4, <3>2, Zenon
    <3>3. CASE k \in rc.done /\ k \in left
      <4>1. map'[k] \in {None, rc.plan[k].next} /\ Held(rc.plan[k].next, claims[k], now)
        BY <1>6, <2>2, <2>3, <2>4, <3>3, Zenon
      <4> QED
        BY <4>1, HeldNone, Zenon
    <3> QED
      BY <3>1, <3>2, <3>3, Zenon
  <2> QED
    BY <1>1, <1>9, <2>4, Zenon DEF Owns
<1> QED
  BY <1>7, <1>11, <1>12, Assembled, Zenon

\* The owners, the lease and the time of the command are recorded.
LEMMA FinishCache ==
  ASSUME Base, rc.cmd \in Command, NEW keys, cache' = [cache EXCEPT ![rc.cmd.flow] = Recorded(@, rc.cmd, keys)]
  PROVE  Cached(cache')
<1> DEFINE f == rc.cmd.flow
           e == Recorded(cache[f], rc.cmd, keys)
<1>1. f \in Flows
  BY DEF Command
<1>2. Cached(cache) /\ (cache[f] = None \/ Entry(cache[f]))
  BY <1>1, Still, Zenon DEF Cached
<1>3. e = None \/ Entry(e)
  <2> HIDE DEF f
  <2> QED
    BY <1>2, RecordedKeeps, Zenon
<1>4. cache' = [cache EXCEPT ![f] = e]
  BY <1>1, <1>2, Zenon DEF Cached
<1> HIDE DEF e, f
<1>5. cache' = [g \in Flows |-> cache'[g]] /\ \A g \in Flows : cache'[g] = IF g = f THEN e ELSE cache[g]
  BY <1>2, <1>4, Zenon DEF Cached
<1> QED
  BY <1>2, <1>3, <1>5, Zenon DEF Cached

LEMMA FinishStep == ASSUME IInv, Finish PROVE IInv'
<1> DEFINE cmd   == rc.cmd
           lease == [rev |-> cmd.rev, until |-> cmd.issued + EndpointTtl]
           put   == [leases EXCEPT ![rc.mac] = IF cmd.op = "block" THEN lease ELSE None]
<1>1. /\ Base /\ rc.pc = "write" /\ rc' = Idle /\ rc.todo = {} /\ map' = map /\ state' = state
      /\ gate' = gate /\ now' = now
      /\ claims' = [k \in Keys |-> IF k \in DOMAIN rc.plan THEN rc.plan[k].claims ELSE claims[k]]
  BY Zenon DEF IInv, Finish
<1>2. rc.pc \in {"write", "undo"} /\ rc'.pc = "idle"
  BY <1>1 DEF Idle
<1>3. Busy(rc, map, claims, gate, now, budget.ttl) /\ Tables(map, claims, leases, gate, budget.ttl)
  BY <1>1, <1>2, BusyHere, Zenon
<1>4. leases' = leases \/ (cmd.op \in {"block", "allow"} /\ leases' = put)
  BY Zenon DEF Finish
<1>5. BudgetShrinks /\ Cached(cache')
  <2>1. CASE budget' = budget /\ cache' = [cache EXCEPT ![cmd.flow] = Recorded(@, cmd, DOMAIN rc.plan)]
    BY <1>1, <1>3, <2>1, PartsStill, FinishCache, Zenon DEF Busy
  <2>2. CASE May("fault") /\ Spend("fault") /\ cache' = cache
    BY <1>1, <2>2, Still, Spent, Zenon DEF Spendable, BudgetShrinks
  <2> QED
    BY <2>1, <2>2, Zenon DEF Finish
<1>6. /\ leases' = [m \in Macs |-> leases'[m]]
      /\ gate.cleared => leases' = leases
  <2>1. leases = [m \in Macs |-> leases[m]]
    BY <1>3, Zenon DEF Tables
  <2>2. put = [m \in Macs |-> put[m]]
    <3> HIDE DEF lease
    <3> QED
      BY <2>1, Zenon
  <2>3. gate.cleared => cmd.op \notin {"block", "allow"}
    <3>1. gate.cleared => cmd.op = "revoke"
      BY <1>3, Zenon DEF Busy
    <3> QED
      BY <3>1
  <2> HIDE DEF put
  <2> QED
    BY <1>4, <2>1, <2>2, <2>3, Zenon
<1>7. /\ claims' = [k \in Keys |-> claims'[k]]
      /\ \A k \in Keys : claims'[k] = IF k \in DOMAIN rc.plan THEN rc.plan[k].claims ELSE claims[k]
  BY <1>1, Zenon
<1>8. Tables(map', claims', leases', gate', budget'.ttl)
  <2>1. \A k \in Keys : Book(claims'[k], budget.ttl)
    <3>1. \A k \in Keys \cap DOMAIN rc.plan : Book(rc.plan[k].claims, budget.ttl)
      BY <1>3, Zenon DEF Busy, Sound
    <3>2. \A k \in Keys : Book(claims[k], budget.ttl)
      BY <1>3, Zenon DEF Tables
    <3> QED
      BY <1>7, <3>1, <3>2, Zenon
  <2>2. budget'.ttl = budget.ttl
    BY <1>5, Zenon DEF BudgetShrinks
  <2> QED
    BY <1>1, <1>3, <1>6, <1>7, <2>1, <2>2, Zenon DEF Tables
<1>9. rc'.pc \notin {"read", "stage", "write", "undo"} /\ rc'.pc # "tick"
      /\ rc'.pc \in {"idle", "tick", "read", "stage", "write", "undo"}
  BY <1>2
<1>10. Thread(rc', cache', map', claims', gate', now', budget'.ttl)
  BY <1>9, Zenon DEF Thread
<1>11. Base'
  BY <1>1, <1>5, <1>8, <1>10, Zenon DEF Base, BudgetShrinks
<1>12. ASSUME OneFault, gate'.applied # None, state'.gen = gate'.applied
       PROVE  Owns(rc', map', claims', now', budget'.fault)
  <2>1. Owns(rc, map, claims, now, budget.fault)
    BY <1>1, <1>12, Zenon DEF IInv
  <2>2. /\ \A k \in Keys \ rc.done : Held(map[k], claims[k], now)
        /\ \A k \in Keys \cap rc.done : map[k] \in {None, rc.plan[k].next}
        /\ \A k \in Keys \cap DOMAIN rc.plan :
             /\ Held(rc.plan[k].next, rc.plan[k].claims, now)
             /\ k \notin rc.done => map[k] \in {None, rc.plan[k].next}
    BY <1>1, <1>2, <2>1, Zenon DEF Owns
  <2>3. ASSUME NEW k \in Keys PROVE Held(map[k], claims'[k], now)
    <3>1. CASE k \in DOMAIN rc.plan
      <4>1. map[k] \in {None, rc.plan[k].next} /\ Held(rc.plan[k].next, rc.plan[k].claims, now)
            /\ claims'[k] = rc.plan[k].claims
        BY <1>7, <2>2, <2>3, <3>1, Zenon
      <4> QED
        BY <4>1, HeldNone, Zenon
    <3>2. CASE k \notin DOMAIN rc.plan
      <4>1. k \notin rc.done
        BY <1>3, <3>2, Zenon DEF Busy
      <4> QED
        BY <1>7, <2>2, <2>3, <3>2, <4>1, Zenon
    <3> QED
      BY <3>1, <3>2, Zenon
  <2> QED
    BY <1>1, <1>9, <2>3, Zenon DEF Owns
<1> QED
  BY <1>5, <1>11, <1>12, Assembled, Zenon


-----------------------------------------------------------------------------
(* The switches: snapshots, the reconciliation tick, the emergency marker. *)

Emptied(m, L) == (\A k \in Keys : m[k] = None) /\ \A c \in Macs : L[c] = None

\* FlowVerdictWriter::reset
LEMMA ResetIs ==
  ASSUME Base, NEW generation, NEW enabled, NEW ok, Reset(generation, enabled, ok)
  PROVE  /\ claims' = NoClaims /\ state'.gen = generation /\ MapsShrink /\ BudgetShrinks
         /\ ok => Emptied(map', leases')
<1> DEFINE empty == [m \in Macs |-> None]
<1>1. claims' = NoClaims /\ state' = [on |-> ok /\ enabled, gen |-> generation]
  BY Zenon DEF Reset
<1>2. state'.gen = generation
  BY <1>1
<1>3. /\ NoVerdicts = [k \in Keys |-> NoVerdicts[k]] /\ \A k \in Keys : NoVerdicts[k] = None
      /\ empty = [m \in Macs |-> empty[m]] /\ \A m \in Macs : empty[m] = None
  BY Zenon DEF NoVerdicts
<1>4. ASSUME NEW k \in Keys
      PROVE  LET one == [NoVerdicts EXCEPT ![k] = map[k]]
             IN one = [j \in Keys |-> one[j]] /\ \A j \in Keys : one[j] \in {map[j], None}
  BY <1>3, <1>4, Zenon
<1>5. ASSUME NEW m \in Macs
      PROVE  LET one == [empty EXCEPT ![m] = leases[m]]
             IN one = [c \in Macs |-> one[c]] /\ \A c \in Macs : one[c] \in {leases[c], None}
  BY <1>5, Zenon
<1>6. \/ ok /\ map' = NoVerdicts /\ leases' = empty /\ budget' = budget
      \/ /\ ~ok /\ May("fault") /\ Spend("fault")
         /\ \/ map' = NoVerdicts /\ leases' = empty
            \/ leases' = empty /\ \E k \in Keys : map' = [NoVerdicts EXCEPT ![k] = map[k]]
            \/ map' = NoVerdicts /\ \E m \in Macs : leases' = [empty EXCEPT ![m] = leases[m]]
  BY Zenon DEF Reset
<1> HIDE DEF empty
<1>7. BudgetShrinks
  <2>1. CASE budget' = budget
    BY <2>1, PartsStill, Zenon
  <2>2. CASE May("fault") /\ Spend("fault")
    BY <2>2, Still, Spent, Zenon DEF Spendable, BudgetShrinks
  <2> QED
    BY <1>6, <2>1, <2>2, Zenon
<1>8. map' = NoVerdicts \/ \E k \in Keys : map' = [NoVerdicts EXCEPT ![k] = map[k]]
  BY <1>6, Zenon
<1>9. map' = [k \in Keys |-> map'[k]] /\ \A k \in Keys : map'[k] \in {map[k], None}
  BY <1>3, <1>4, <1>8, Zenon
<1>10. leases' = empty \/ \E m \in Macs : leases' = [empty EXCEPT ![m] = leases[m]]
  BY <1>6, Zenon
<1>11. leases' = [m \in Macs |-> leases'[m]] /\ \A m \in Macs : leases'[m] \in {leases[m], None}
  BY <1>3, <1>5, <1>10, Zenon
<1>12. ok => Emptied(map', leases')
  BY <1>3, <1>6, Zenon DEF Emptied
<1> QED
  BY <1>1, <1>2, <1>7, <1>9, <1>11, <1>12, Zenon DEF MapsShrink

\* A step between commands that resets the maps, or leaves them.
Settles ==
  /\ rc.pc \in {"idle", "tick"} /\ rc'.pc = "idle" /\ now' = now /\ Cached(cache')
  /\ Switches(gate') /\ MapsShrink /\ BudgetShrinks /\ claims' \in {claims, NoClaims}
  /\ Emptied(map', leases') \/ gate'.applied \in {gate.applied, None}
  /\ gate'.cleared => gate.cleared \/ Emptied(map', leases')
  /\ gate'.applied # None /\ state'.gen = gate'.applied =>
       \/ Emptied(map', leases')
       \/ claims' = claims /\ map' = map /\ gate'.applied = gate.applied /\ state' = state

LEMMA SettlesStep == ASSUME IInv, Settles PROVE IInv'
<1> DEFINE t == budget.ttl
<1>1. Base /\ Tables(map, claims, leases, gate, t)
  BY Zenon DEF IInv, Base
<1>2. \A k \in Keys : map'[k] \in {map[k], None} /\ map[k] \in Slot /\ Book(claims[k], t)
  BY <1>1, Zenon DEF Settles, MapsShrink, Tables
<1>3. claims' = [k \in Keys |-> claims'[k]] /\ \A k \in Keys : Book(claims'[k], t)
  <2>1. Book({}, t)
    BY Zenon DEF Book
  <2>2. CASE claims' = claims
    BY <1>1, <1>2, <2>2, Zenon DEF Tables
  <2>3. CASE claims' = NoClaims
    BY <2>1, <2>3, Zenon DEF NoClaims
  <2> QED
    BY <2>2, <2>3, Zenon DEF Settles
<1>4. map' \in [Keys -> Slot]
  <2>1. \A k \in Keys : map'[k] \in Slot
    BY <1>2, Zenon DEF Slot
  <2> QED
    BY <2>1, Zenon DEF Settles, MapsShrink
<1>5. \A k \in Keys : OfRevision(map'[k], gate'.applied)
  <2>1. CASE Emptied(map', leases')
    BY <2>1, Zenon DEF Emptied, OfRevision
  <2>2. CASE gate'.applied \in {gate.applied, None}
    BY <1>1, <1>2, <2>2, Zenon DEF Tables, OfRevision
  <2> QED
    BY <2>1, <2>2, Zenon DEF Settles
<1>6. gate'.cleared => (\A k \in Keys : map'[k] = None) /\ \A c \in Macs : leases'[c] = None
  <2>1. CASE Emptied(map', leases')
    BY <2>1, Zenon DEF Emptied
  <2>2. CASE gate.cleared
    BY <1>1, <2>2, Zenon DEF Tables, Settles, MapsShrink
  <2> QED
    BY <2>1, <2>2, Zenon DEF Settles
<1>7. Tables(map', claims', leases', gate', budget'.ttl)
  <2>1. budget'.ttl = t /\ leases' = [m \in Macs |-> leases'[m]]
    BY Zenon DEF Settles, BudgetShrinks, MapsShrink
  <2> QED
    BY <1>3, <1>4, <1>5, <1>6, <2>1, Zenon DEF Tables
<1>8. rc.pc \notin {"write", "undo"} /\ rc'.pc \notin {"read", "stage", "write", "undo"} /\ rc'.pc # "tick"
      /\ rc'.pc \in {"idle", "tick", "read", "stage", "write", "undo"}
  BY DEF Settles
<1>9. Thread(rc', cache', map', claims', gate', now', budget'.ttl)
  BY <1>8, Zenon DEF Thread
<1>10. Base'
  BY <1>1, <1>7, <1>9, Zenon DEF Base, Settles, BudgetShrinks
<1>11. ASSUME OneFault, gate'.applied # None, state'.gen = gate'.applied
       PROVE  Owns(rc', map', claims', now', budget'.fault)
  <2>1. \A k \in Keys : Held(map'[k], claims'[k], now')
    <3>1. CASE Emptied(map', leases')
      BY <3>1, HeldNone, Zenon DEF Emptied
    <3>2. CASE claims' = claims /\ map' = map /\ gate'.applied = gate.applied /\ state' = state
      <4>1. Owns(rc, map, claims, now, budget.fault)
        BY <1>11, <3>2, Zenon DEF IInv
      <4> QED
        BY <1>8, <3>2, <4>1, Zenon DEF Owns, Settles
    <3> QED
      BY <1>11, <3>1, <3>2, Zenon DEF Settles
  <2> QED
    BY <1>8, <2>1, Zenon DEF Owns
<1> QED
  BY <1>10, <1>11, Assembled, Zenon DEF Settles


LEMMA NoResetIs ==
  ASSUME Base, NoReset
  PROVE  MapsShrink /\ BudgetShrinks /\ claims' = claims /\ map' = map /\ state' = state
<1>1. map' = map /\ leases' = leases /\ state' = state /\ claims' = claims /\ budget' = budget
  BY Zenon DEF NoReset
<1> QED
  BY <1>1, PartsStill, Zenon

\* The maps after a reset for a revision, a reset that failed, or none.
Tried(reset, generation, ok) ==
  \/ /\ reset /\ claims' = NoClaims /\ state'.gen = generation /\ MapsShrink /\ BudgetShrinks
     /\ ok => Emptied(map', leases')
  \/ ~reset /\ ok /\ MapsShrink /\ BudgetShrinks /\ claims' = claims /\ map' = map /\ state' = state

LEMMA TriedIs ==
  ASSUME Base, NEW reset, NEW generation, NEW enabled, NEW ok,
         IF reset THEN Reset(generation, enabled, ok) ELSE ok /\ NoReset
  PROVE  Tried(reset, generation, ok)
<1>1. CASE reset
  BY <1>1, ResetIs, Zenon DEF Tried
<1>2. CASE ~reset
  BY <1>2, NoResetIs, Zenon DEF Tried
<1> QED
  BY <1>1, <1>2, Zenon

LEMMA SnapshotStep == ASSUME IInv, NEW rev \in 1..MaxRev, NEW needs \in BOOLEAN, Snapshot(rev, needs) PROVE IInv'
<1> DEFINE g     == Noticed(gate)
           reset == g.ready /\ g.applied # rev
           applied(ok) == IF ~ok THEN None ELSE IF reset THEN rev ELSE g.applied
           commands(ok) == ok /\ needs /\ g.ready
           tracked == g.ready
<1>1. Base /\ Switches(gate)
  BY Zenon DEF IInv, Base
<1>2. PICK ok \in BOOLEAN :
        /\ IF reset THEN Reset(rev, needs, ok) ELSE ok /\ NoReset
        /\ gate' = [g EXCEPT !.saved = rev, !.needs = needs, !.tracked = tracked,
                             !.applied = IF ~ok THEN None ELSE IF reset THEN rev ELSE @,
                             !.commands = ok /\ needs /\ g.ready]
        /\ cache' = IF needs THEN cache ELSE [f \in Flows |-> None]
  BY Zenon DEF Snapshot
<1>3. Tried(reset, rev, ok)
  <2> HIDE DEF reset
  <2> QED
    BY <1>1, <1>2, TriedIs, Zenon
<1>4. /\ rc = Idle /\ rc' = rc /\ now' = now /\ ~gate.marker /\ rev \in {gate.saved, gate.saved + 1}
  BY Zenon DEF Snapshot
<1>5. /\ Switches(g) /\ g.saved = gate.saved /\ ~g.cleared
      /\ g = gate \/ g.applied = None
  <2>1. NoticedOf(g)
    BY <1>1, NoticedIs, Zenon
  <2> HIDE DEF g
  <2> QED
    BY <1>4, <2>1, Zenon DEF NoticedOf
<1> HIDE DEF g
<1>6. /\ DOMAIN gate' = GateFields /\ gate'.saved = rev /\ gate'.applied = applied(ok)
      /\ gate'.commands = commands(ok) /\ gate'.cleared = g.cleared
  <2>1. DOMAIN g = GateFields
    BY <1>5, Zenon DEF Switches
  <2>2. gate' = [g EXCEPT !.saved = rev, !.needs = needs, !.tracked = tracked, !.applied = applied(ok),
                          !.commands = commands(ok)]
    BY <1>2, <2>1, Zenon DEF GateFields
  <2> HIDE DEF applied, commands, tracked
  <2> QED
    BY <2>1, <2>2, Zenon DEF GateFields
<1>7. Switches(gate')
  <2>1. rev \in 0..MaxRev /\ applied(ok) \in {None} \cup 1..MaxRev
    <3>1. g.applied \in {None} \cup 1..MaxRev
      BY <1>5, Zenon DEF Switches
    <3>2. rev \in 0..MaxRev
      BY FlowAssumption
    <3> QED
      BY <3>1, <3>2, Zenon
  <2>2. applied(ok) # None => applied(ok) <= rev
    <3>1. g.applied # None => g.applied <= rev
      <4>1. g.saved \in 0..MaxRev /\ g.applied \in {None} \cup 1..MaxRev /\ (g.applied # None => g.applied <= g.saved)
        BY <1>5, Zenon DEF Switches
      <4>2. rev \in {g.saved, g.saved + 1}
        BY <1>4, <1>5, Zenon
      <4> QED
        BY <4>1, <4>2, FlowAssumption
    <3>2. rev <= rev
      OBVIOUS
    <3> QED
      BY <3>1, <3>2, Zenon
  <2>3. commands(ok) => applied(ok) = rev
    BY Zenon
  <2> HIDE DEF applied, commands
  <2> QED
    BY <1>5, <1>6, <2>1, <2>2, <2>3, Zenon DEF Switches
<1>8. Settles
  <2>1. Cached(cache')
    BY <1>1, <1>2, Still, ForgetRemembers, Zenon DEF Remembers
  <2>2. rc.pc \in {"idle", "tick"} /\ rc'.pc = "idle"
    BY <1>4 DEF Idle
  <2>3. /\ MapsShrink /\ BudgetShrinks /\ claims' \in {claims, NoClaims}
    BY <1>3, Zenon DEF Tried
  <2>4. ok /\ reset => Emptied(map', leases')
    BY <1>3, Zenon DEF Tried
  <2>5. ~reset => claims' = claims /\ map' = map /\ state' = state /\ applied(ok) \in {g.applied, None}
    BY <1>3, Zenon DEF Tried
  <2>6. ~ok => applied(ok) = None
    BY Zenon
  <2> HIDE DEF applied, reset
  <2>7. Emptied(map', leases') \/ gate'.applied \in {gate.applied, None}
    BY <1>5, <1>6, <2>4, <2>5, <2>6, Zenon
  <2>8. gate'.applied # None => \/ Emptied(map', leases')
                                \/ claims' = claims /\ map' = map /\ gate'.applied = gate.applied /\ state' = state
    BY <1>5, <1>6, <2>4, <2>5, <2>6, Zenon
  <2> QED
    BY <1>4, <1>5, <1>6, <1>7, <2>1, <2>2, <2>3, <2>7, <2>8, Zenon DEF Settles
<1> QED
  BY <1>8, SettlesStep, Zenon

LEMMA TickEndsStep == ASSUME IInv, TickEnds PROVE IInv'
<1> DEFINE g     == Noticed(gate)
           reset == g.ready /\ g.applied # g.saved
           on    == g.ready /\ ~g.marker
           applied == IF reset THEN g.saved ELSE g.applied
           commands == g.needs /\ on /\ rc.capable
<1>1. Base /\ Switches(gate)
  BY Zenon DEF IInv, Base
<1>2. PICK ok \in BOOLEAN :
        /\ IF reset THEN Reset(g.saved, g.needs /\ rc.capable, ok) ELSE ok /\ NoReset
        /\ gate' = IF ok THEN [g EXCEPT !.applied = IF reset THEN g.saved ELSE @, !.tracked = on,
                                        !.commands = g.needs /\ on /\ rc.capable]
                   ELSE [g EXCEPT !.commands = FALSE]
  BY Zenon DEF TickEnds
<1>3. Tried(reset, g.saved, ok)
  <2> HIDE DEF reset, g
  <2> QED
    BY <1>1, <1>2, TriedIs, Zenon
<1>4. rc.pc = "tick" /\ rc' = Idle /\ now' = now /\ cache' = cache
  BY Zenon DEF TickEnds
<1>5. /\ Switches(g) /\ g.saved = gate.saved /\ (g.cleared => gate.cleared) /\ (g.cleared => g.marker)
      /\ g = gate \/ g.applied = None
  <2>1. NoticedOf(g)
    BY <1>1, NoticedIs, Zenon
  <2> HIDE DEF g
  <2> QED
    BY <2>1, Zenon DEF NoticedOf
<1> HIDE DEF g
<1>6. DOMAIN g = GateFields
  BY <1>5, Zenon DEF Switches
<1>7. ok => /\ DOMAIN gate' = GateFields /\ gate'.saved = g.saved /\ gate'.applied = applied
            /\ gate'.commands = commands /\ gate'.cleared = g.cleared
  <2>1. ok => gate' = [g EXCEPT !.applied = applied, !.tracked = on, !.commands = commands]
    BY <1>2, <1>6, Zenon DEF GateFields
  <2> HIDE DEF applied, commands, on
  <2> QED
    BY <1>6, <2>1, Zenon DEF GateFields
<1>8. ~ok => /\ DOMAIN gate' = GateFields /\ gate'.saved = g.saved /\ gate'.applied = g.applied
             /\ gate'.commands = FALSE /\ gate'.cleared = g.cleared
  BY <1>2, <1>6, Zenon DEF GateFields
<1>9. (~ok => reset) /\ (ok /\ reset => Emptied(map', leases'))
  BY <1>2, <1>3, Zenon DEF Tried
<1>10. ~reset => claims' = claims /\ map' = map /\ state' = state /\ applied = g.applied
  BY <1>3, Zenon DEF Tried
<1>11. Switches(gate')
  <2>1. /\ g.saved \in 0..MaxRev /\ g.applied \in {None} \cup 1..MaxRev /\ (g.applied # None => g.applied <= g.saved)
    BY <1>5, Zenon DEF Switches
  <2>2. CASE ~ok
    BY <1>8, <2>1, <2>2, Zenon DEF Switches
  <2>3. CASE ok
    <3>1. applied \in {None} \cup 1..MaxRev /\ (applied # None => applied <= g.saved)
      <4>1. g.saved # 0 => g.saved \in 1..MaxRev /\ g.saved <= g.saved
        BY <2>1, FlowAssumption
      <4>2. g.saved # 0
        BY <1>1, <1>4, <1>5, Zenon DEF Base, Thread
      <4> QED
        BY <2>1, <4>1, <4>2, Zenon
    <3>2. commands => applied = g.saved /\ ~g.cleared
      BY <1>5, Zenon
    <3> HIDE DEF applied, commands
    <3> QED
      BY <1>7, <2>1, <2>3, <3>1, <3>2, Zenon DEF Switches
  <2> QED
    BY <2>2, <2>3, Zenon
<1>12. Settles
  <2>1. Cached(cache') /\ rc.pc \in {"idle", "tick"} /\ rc'.pc = "idle"
    BY <1>1, <1>4, Still DEF Idle
  <2>2. MapsShrink /\ BudgetShrinks /\ claims' \in {claims, NoClaims}
    BY <1>3, Zenon DEF Tried
  <2>3. Emptied(map', leases') \/ gate'.applied \in {gate.applied, None}
    BY <1>5, <1>7, <1>8, <1>9, <1>10, Zenon
  <2>4. gate'.cleared => gate.cleared
    BY <1>5, <1>7, <1>8, Zenon
  <2>5. ASSUME gate'.applied # None, state'.gen = gate'.applied
        PROVE  \/ Emptied(map', leases')
               \/ claims' = claims /\ map' = map /\ gate'.applied = gate.applied /\ state' = state
    <3>1. CASE ~reset
      BY <1>5, <1>7, <1>9, <1>10, <2>5, <3>1, Zenon
    <3>2. CASE reset /\ ~ok
      BY <1>3, <1>8, <2>5, <3>2, Zenon DEF Tried
    <3>3. CASE reset /\ ok
      BY <1>9, <3>3, Zenon
    <3> QED
      BY <3>1, <3>2, <3>3, Zenon
  <2> HIDE DEF applied, commands, reset, on
  <2> QED
    BY <1>4, <1>11, <2>1, <2>2, <2>3, <2>4, <2>5, Zenon DEF Settles
<1> QED
  BY <1>12, SettlesStep, Zenon


LEMMA EmergencyStep == ASSUME IInv, Emergency PROVE IInv'
<1> DEFINE reset == ~gate.cleared
<1>1. Base /\ Switches(gate)
  BY Zenon DEF IInv, Base
<1>2. PICK ok \in BOOLEAN :
        /\ IF gate.cleared THEN ok /\ NoReset ELSE Reset(0, FALSE, ok)
        /\ gate' = [gate EXCEPT !.tracked = FALSE, !.commands = FALSE, !.cleared = @ \/ ok]
        /\ cache' = cache \/ cache' = [f \in Flows |-> None]
  BY Zenon DEF Emergency
<1>3. Tried(reset, 0, ok)
  <2>1. IF reset THEN Reset(0, FALSE, ok) ELSE ok /\ NoReset
    BY <1>2, Zenon
  <2> HIDE DEF reset
  <2> QED
    BY <1>1, <2>1, TriedIs, Zenon
<1>4. rc = Idle /\ rc' = rc /\ now' = now
  BY Zenon DEF Emergency
<1>5. /\ DOMAIN gate' = GateFields /\ gate'.saved = gate.saved /\ gate'.applied = gate.applied
      /\ gate'.commands = FALSE /\ (gate'.cleared => gate.cleared \/ ok)
  <2>1. DOMAIN gate = GateFields
    BY <1>1, Zenon DEF Switches
  <2> QED
    BY <1>2, <2>1, Zenon DEF GateFields
<1>6. Switches(gate')
  BY <1>1, <1>5, Zenon DEF Switches
<1>7. Settles
  <2>1. Cached(cache')
    BY <1>1, <1>2, Still, ForgetRemembers, Zenon DEF Remembers
  <2>2. rc.pc \in {"idle", "tick"} /\ rc'.pc = "idle"
    BY <1>4 DEF Idle
  <2>3. MapsShrink /\ BudgetShrinks /\ claims' \in {claims, NoClaims}
    BY <1>3, Zenon DEF Tried
  <2>4. gate'.cleared => gate.cleared \/ Emptied(map', leases')
    BY <1>3, <1>5, Zenon DEF Tried
  <2>5. ASSUME gate'.applied # None, state'.gen = gate'.applied
        PROVE  claims' = claims /\ map' = map /\ gate'.applied = gate.applied /\ state' = state
    <3>1. gate.applied \in 1..MaxRev
      BY <1>1, <1>5, <2>5, Zenon DEF Switches
    <3>2. gate.applied # 0
      BY <3>1
    <3> QED
      BY <1>3, <1>5, <2>5, <3>2, Zenon DEF Tried
  <2> QED
    BY <1>4, <1>5, <1>6, <2>1, <2>2, <2>3, <2>4, <2>5, Zenon DEF Settles
<1> QED
  BY <1>7, SettlesStep, Zenon

-----------------------------------------------------------------------------
(* The theorems.                                                           *)

LEMMA InitHolds == ASSUME Init PROVE IInv
<1>1. /\ cache = [f \in Flows |-> None] /\ map = NoVerdicts /\ claims = NoClaims
      /\ leases = [m \in Macs |-> None] /\ rc = Idle /\ now = 0 /\ budget \in Scenarios
      /\ gate = [ready |-> TRUE, tracked |-> FALSE, commands |-> FALSE, saved |-> 0, needs |-> FALSE,
                 applied |-> None, marker |-> FALSE, cleared |-> FALSE]
  BY Zenon DEF Init
<1>2. /\ DOMAIN gate = GateFields /\ gate.commands = FALSE /\ gate.saved = 0 /\ gate.applied = None
      /\ gate.cleared = FALSE
  BY <1>1, Zenon DEF GateFields
<1>3. Switches(gate)
  <2>1. 0 \in 0..MaxRev
    BY FlowAssumption
  <2> QED
    BY <1>2, <2>1, Zenon DEF Switches
<1>4. Cached(cache) /\ budget \in Scenario /\ now \in Nat
  BY <1>1, FlowAssumption, ForgetRemembers, Zenon DEF Remembers, Nat
<1>5. Tables(map, claims, leases, gate, budget.ttl)
  <2>1. Book({}, budget.ttl)
    BY Zenon DEF Book
  <2>2. map \in [Keys -> Slot] /\ \A k \in Keys : map[k] = None /\ OfRevision(map[k], gate.applied)
    BY <1>1, Zenon DEF NoVerdicts, Slot, OfRevision
  <2>3. claims = [k \in Keys |-> claims[k]] /\ \A k \in Keys : Book(claims[k], budget.ttl)
    BY <1>1, <2>1, Zenon DEF NoClaims
  <2>4. leases = [m \in Macs |-> leases[m]] /\ \A m \in Macs : leases[m] = None
    BY <1>1, Zenon
  <2> QED
    BY <2>2, <2>3, <2>4, Zenon DEF Tables
<1>6. Thread(rc, cache, map, claims, gate, now, budget.ttl)
  <2>1. rc.pc = "idle"
    BY <1>1 DEF Idle
  <2>2. rc.pc \notin {"read", "stage", "write", "undo"} /\ rc.pc # "tick"
        /\ rc.pc \in {"idle", "tick", "read", "stage", "write", "undo"}
    BY <2>1
  <2> QED
    BY <2>2, Zenon DEF Thread
<1>7. OneFault => budget.fault <= 1
  BY <1>1, Zenon DEF OneFault
<1> QED
  BY <1>2, <1>3, <1>4, <1>5, <1>6, <1>7, Zenon DEF IInv, Base

LEMMA StutterHolds == ASSUME IInv, UNCHANGED vars PROVE IInv'
<1>1. /\ cache' = cache /\ map' = map /\ claims' = claims /\ leases' = leases /\ state' = state
      /\ gate' = gate /\ rc' = rc /\ now' = now /\ budget' = budget
  BY Zenon DEF vars
<1> QED
  BY <1>1, Zenon DEF IInv, Base, OneFault

\* Every step of either thread keeps the invariant.
LEMMA Steps == ASSUME Least, IInv, [Next]_vars PROVE IInv'
<1>1. Base /\ budget.flows \in SUBSET Flows /\ budget.macs \in SUBSET (Macs \cup {None})
  BY Still, Zenon DEF IInv
<1>2. CASE UNCHANGED vars
  BY <1>2, StutterHolds, Zenon
<1>3. CASE \E f \in budget.flows : MarkEnded(f) \/ Prune(f) \/ \E mac \in budget.macs : Observe(f, mac)
  <2>1. PICK f \in budget.flows : MarkEnded(f) \/ Prune(f) \/ \E mac \in budget.macs : Observe(f, mac)
    BY <1>3, Zenon
  <2>2. f \in Flows
    BY <1>1, Zenon
  <2>3. Around
    BY <1>1, <2>1, <2>2, MarkEndedIsAround, PruneIsAround, ObserveIsAround, Zenon
  <2> QED
    BY <2>3, AroundStep, Zenon
<1>4. CASE ClearCache \/ RefreshConntrack \/ InterfacesChange \/ DeleteListed \/ Reattach
  BY <1>1, <1>4, ClearCacheIsAround, RefreshIsAround, InterfacesChangeIsAround, DeleteListedIsAround,
     ReattachIsAround, AroundStep, Zenon
<1>5. CASE Disable \/ Enable \/ ClockTick \/ \E k \in Keys : Packet(k)
  BY <1>1, <1>5, DisableIsAround, EnableIsAround, ClockTickIsAround, PacketIsAround, AroundStep, Zenon
<1>6. CASE \E cmd \in Command : cmd.flow \in budget.flows /\ cmd.op \in budget.ops /\ Take(cmd)
  BY <1>6, TakeStep, Zenon
<1>7. CASE \E rev \in 1..MaxRev, needs \in BOOLEAN : Snapshot(rev, needs)
  BY <1>7, SnapshotStep, Zenon
<1>8. CASE Receiver
  BY <1>8, ReadEntryStep, StageStep, WriteStep, UndoStep, FinishStep, TickEndsStep, EmergencyStep, Zenon
     DEF Receiver
<1>9. CASE TickBegins
  BY <1>9, TickBeginsStep, Zenon
<1> QED
  BY <1>2, <1>3, <1>4, <1>5, <1>6, <1>7, <1>8, <1>9, Zenon DEF Next


\* Only writing and finishing change the receiver while a command is written.
LEMMA WhileWriting ==
  ASSUME Base, Next, rc.pc = "write", rc' # rc
  PROVE  Write \/ Finish
<1>1. rc # Idle /\ rc.pc \notin {"read", "stage", "undo", "tick"}
  BY DEF Idle
<1>2. budget.flows \in SUBSET Flows /\ budget.macs \in SUBSET (Macs \cup {None})
  BY Still, Zenon
<1>3. ~Around
  BY Zenon DEF Around
<1>4. ~\E f \in budget.flows : MarkEnded(f) \/ Prune(f) \/ \E mac \in budget.macs : Observe(f, mac)
  BY Zenon DEF MarkEnded, Prune, Observe
<1>5. ~(ClearCache \/ RefreshConntrack \/ InterfacesChange \/ DeleteListed \/ Reattach)
  BY Zenon DEF ClearCache, RefreshConntrack, InterfacesChange, DeleteListed, Reattach
<1>6. ~(Disable \/ Enable \/ ClockTick \/ \E k \in Keys : Packet(k))
  BY Zenon DEF Disable, Enable, ClockTick, Packet
<1>7. ~\E cmd \in Command : cmd.flow \in budget.flows /\ cmd.op \in budget.ops /\ Take(cmd)
  BY <1>1, Zenon DEF Take
<1>8. ~\E rev \in 1..MaxRev, needs \in BOOLEAN : Snapshot(rev, needs)
  BY Zenon DEF Snapshot
<1>9. ~(ReadEntry \/ Stage \/ Undo \/ TickEnds \/ Emergency \/ TickBegins)
  BY <1>1, Zenon DEF ReadEntry, Stage, Undo, TickEnds, Emergency, TickBegins
<1> QED
  BY <1>4, <1>5, <1>6, <1>7, <1>8, <1>9, Zenon DEF Next, Receiver

\* A key that is written gets its staged value, which is a block when another flow
\* still claims the key, and another flow's only over a block.
LEMMA OthersKept ==
  ASSUME Base, rc.pc = "write", Write \/ Finish, NEW k \in Keys
  PROVE  /\ rc.cmd.op \in {"allow", "revoke"} /\ (\E c \in Valid(claims[k], map[k]) : c.flow # rc.cmd.flow)
              => map'[k] # None /\ map'[k].kind = "block"
         /\ map'[k] # map[k] /\ map'[k] # None /\ map'[k].flow # rc.cmd.flow
              => rc.plan[k].prev # None /\ rc.plan[k].prev.kind = "block"
<1> DEFINE p == rc.plan[k]
<1>1. rc.pc \in {"write", "undo"}
  OBVIOUS
<1>2. Busy(rc, map, claims, gate, now, budget.ttl)
  BY <1>1, BusyHere, Zenon
<1>3. (\E c \in Valid(claims[k], map[k]) : c.flow # rc.cmd.flow) =>
        /\ map[k] # None /\ map[k].kind = "block" /\ \E c \in claims[k] : Matches(c, map[k])
        /\ \E c \in claims[k] : c.until > now /\ c.flow # rc.cmd.flow
  BY Zenon DEF Valid, Matches
<1>4. CASE map'[k] = map[k]
  BY <1>3, <1>4, Zenon
<1>5. CASE map'[k] # map[k]
  <2>1. Write
    BY <1>5, Zenon DEF Finish
  <2>2. PICK keys, fail, set : Wrote(keys, fail, set)
    BY <2>1, WriteIs, Zenon
  <2>3. k \in set /\ map'[k] = p.next /\ ~Same(k) /\ k \in rc.todo
    BY <1>5, <2>2, Zenon DEF Wrote
  <2>4. map[k] \in {None, p.prev} /\ Sound(p, rc.cmd, claims[k], gate, now, budget.ttl)
    BY <1>2, <2>3, Zenon DEF Busy
  <2>5. p.next # p.prev \/ rc.cmd.op = "shape"
    BY <2>3, Zenon DEF Same
  <2> HIDE DEF p
  <2>6. map'[k] # None /\ map'[k].flow # rc.cmd.flow => p.prev # None /\ p.prev.kind = "block"
    BY <2>3, <2>4, <2>5, Zenon DEF Sound
  <2>7. rc.cmd.op \in {"allow", "revoke"} /\ (\E c \in Valid(claims[k], map[k]) : c.flow # rc.cmd.flow)
          => map'[k] # None /\ map'[k].kind = "block"
    BY <1>3, <2>3, <2>4, Zenon DEF Sound, Clears
  <2> QED
    BY <2>6, <2>7, Zenon DEF p
<1> QED
  BY <1>4, <1>5, Zenon

INSTANCE WellFoundedInduction

\* A set of numbers that is not empty has a least member.
LEMMA LeastMember ==
  ASSUME NEW S \in SUBSET Nat, S # {} PROVE \E x \in S : \A y \in S : x <= y
<1>1. PICK x \in S : \A y \in S : ~(<<y, x>> \in OpToRel(<, Nat))
  BY NatLessThanWellFounded, WFMin, Zenon
<1>2. OpToRel(<, Nat) = {p \in Nat \X Nat : p[1] < p[2]}
  BY Zenon DEF OpToRel
<1>3. ASSUME NEW y \in S PROVE ~(y < x)
  <2>1. <<y, x>> \notin {p \in Nat \X Nat : p[1] < p[2]}
    BY <1>1, <1>2, Zenon
  <2> QED
    BY <2>1
<1> QED
  BY <1>3


LEMMA LeastHolds == Least
BY LeastMember, Zenon DEF Least

\* The inductive invariant: the map holds the revision it was reset for, every
\* staged update is sound for the owners as they are, and the receiver never works
\* with an older command than the last one of the flow.
THEOREM FlowsInvariant == Spec => []IInv
<1>1. Init => IInv
  BY InitHolds, Zenon
<1>2. IInv /\ [Next]_vars => IInv'
  BY LeastHolds, Steps, Zenon
<1> QED
  BY <1>1, <1>2, PTL DEF Spec

\* While commands are accepted every verdict in the map is of the saved revision,
\* and once the emergency switch has acted nothing is left in the maps
\* (handle_frame, policy_tick, synchronize_emergency_disable).
THEOREM FlowsMapsAreReset == Spec => []MapsAreReset
<1>1. ASSUME IInv PROVE MapsAreReset
  <2>1. Switches(gate) /\ Tables(map, claims, leases, gate, budget.ttl)
    BY <1>1, Zenon DEF IInv, Base
  <2>2. gate.commands => gate.applied = gate.saved /\ gate.applied # None
    <3>1. gate.saved # None
      <4>1. gate.saved \in Nat
        BY <2>1, FlowAssumption DEF Switches
      <4> QED
        BY <4>1, FlowAssumption, Zenon
    <3> QED
      BY <2>1, <3>1, Zenon DEF Switches
  <2> QED
    BY <2>1, <2>2, Zenon DEF MapsAreReset, Tables, OfRevision
<1> QED
  BY <1>1, FlowsInvariant, PTL

\* With at most one failing map operation, every live block in the map belongs to a
\* flow the registry knows (install_owned_block, clear_aliases, and the rollback of
\* apply_verdict_updates).
THEOREM FlowsBlockHasOwner == ASSUME OneFault PROVE Spec => []BlockHasOwner
<1>1. ASSUME IInv PROVE BlockHasOwner
  <2>1. SUFFICES ASSUME gate.commands, state.gen = gate.saved, rc.pc \notin {"write", "undo"}, NEW k \in Keys,
                        Live(map[k]), map[k].kind = "block"
                 PROVE  \E c \in claims[k] : Matches(c, map[k])
    BY Zenon DEF BlockHasOwner
  <2>2. Switches(gate)
    BY <1>1, Zenon DEF IInv, Base
  <2>3. gate.saved # None
    <3>1. gate.saved \in Nat
      BY <2>2, FlowAssumption DEF Switches
    <3> QED
      BY <3>1, FlowAssumption, Zenon
  <2>4. Owns(rc, map, claims, now, budget.fault)
    BY <1>1, <2>1, <2>2, <2>3, Zenon DEF IInv, Switches
  <2> QED
    BY <2>1, <2>4, Zenon DEF Owns, Held, Live
<1> QED
  BY <1>1, FlowsInvariant, PTL

\* A revoke or an allow keeps a key blocked while another flow holds an unexpired
\* claim on it, and a command writes another flow's block only over a block
\* (clear_aliases, install_shape).
THEOREM FlowsOthersKeepTheirBlocks == Spec => OthersKeepTheirBlocks
<1>1. ASSUME IInv, Next, rc.pc = "write", rc' # rc, NEW k \in Keys
      PROVE  /\ rc.cmd.op \in {"allow", "revoke"} /\ (\E c \in Valid(claims[k], map[k]) : c.flow # rc.cmd.flow)
                  => map'[k] # None /\ map'[k].kind = "block"
             /\ map'[k] # map[k] /\ map'[k] # None /\ map'[k].flow # rc.cmd.flow
                  => rc.plan[k].prev # None /\ rc.plan[k].prev.kind = "block"
  <2>1. Base
    BY <1>1, Zenon DEF IInv
  <2>2. Write \/ Finish
    BY <1>1, <2>1, WhileWriting, Zenon
  <2> QED
    BY <1>1, <2>1, <2>2, OthersKept
<1>2. IInv /\ [Next]_vars =>
        [rc.pc = "write" /\ rc' # rc => \A k \in Keys :
           /\ rc.cmd.op \in {"allow", "revoke"} /\ (\E c \in Valid(claims[k], map[k]) : c.flow # rc.cmd.flow)
                => map'[k] # None /\ map'[k].kind = "block"
           /\ map'[k] # map[k] /\ map'[k] # None /\ map'[k].flow # rc.cmd.flow
                => rc.plan[k].prev # None /\ rc.plan[k].prev.kind = "block"]_vars
  BY <1>1, Zenon
<1> QED
  BY <1>2, FlowsInvariant, PTL DEF Spec, OthersKeepTheirBlocks

\* A command that is written was not overtaken by a later one of its flow
\* (command_is_stale against record_command).
THEOREM FlowsNewestWins == Spec => NewestWins
<1>1. ASSUME IInv, rc.pc = "write"
      PROVE  LET e == cache[rc.cmd.flow] IN e # None /\ e.last # None => e.last <= rc.cmd.issued
  BY <1>1, Zenon DEF IInv, Base, Thread, Newest
<1>2. IInv /\ [Next]_vars =>
        [rc.pc = "write" /\ rc.todo = {} /\ rc'.pc = "idle" /\ rc.cmd.flow \notin dropped =>
           LET e == cache[rc.cmd.flow] IN e # None /\ e.last # None => e.last <= rc.cmd.issued]_vars
  BY <1>1, Zenon
<1> QED
  BY <1>2, FlowsInvariant, PTL DEF Spec, NewestWins
=============================================================================
