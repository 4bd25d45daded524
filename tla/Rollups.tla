------------------------------- MODULE Rollups -------------------------------
(***************************************************************************)
(* The SQLite accounts of the Collector (crates/storage/src/lib.rs,        *)
(* attribution.rs, attribution/pending.rs and the triggers of migration    *)
(* 0009): minute counters that triggers queue for the hour, hours that     *)
(* they queue for the day, the correction ledger through which a late      *)
(* classification moves traffic from one identity to another in every      *)
(* tier, and the sessions of a flow, which live in the writer's memory, in *)
(* a recovery row and in flow_sessions.  Each action is one transaction;   *)
(* maintenance runs on a connection of its own, between the writer's.      *)
(*                                                                         *)
(* One flow key is modelled, with several lifetimes: a session is named by *)
(* the time at which its lifetime began.  A delta counts one unit.         *)
(***************************************************************************)
EXTENDS Integers, FiniteSets, FiniteSetsExt, TLC

CONSTANTS
  Hour, Day,        \* HOUR_MS and DAY_MS, in the unit of the clock
  Window,           \* CORRECTION_WINDOW_MS and ACTIVE_FLOW_TTL_MS, both 30 minutes
  Grace,            \* ENDED_GRACE_MS
  Checkpoint,       \* FLOW_CHECKPOINT_MS
  Limit,            \* max_rows_per_batch of a maintenance transaction
  Lag,              \* how old a delta may be when it arrives
  Scenarios         \* what a behaviour may meet; one is chosen at its start:
                    \*   now       how far the clock runs
                    \*   starts    lifetimes of the flow
                    \*   incoming  classifications a delta or a sample carries
                    \*   deltas    flow deltas the batches carry
                    \*   samples   late classifications
                    \*   sweeps    maintenance transactions
                    \*   restarts  restarts of the Collector

Identity == [app : Nat, conf : Nat, proto : BOOLEAN]

Scenario ==
  [now : Nat, starts : SUBSET Nat, incoming : SUBSET Identity, deltas : Nat,
   samples : Nat, sweeps : Nat, restarts : Nat]

ASSUME TimesAssumption ==
  /\ {Hour, Day, Window, Grace, Checkpoint, Limit} \subseteq Nat \ {0} /\ Lag \in Nat
  /\ Hour < Day /\ Day % Hour = 0
  /\ Scenarios \subseteq Scenario

VARIABLES
  store,     \* the tables of the database
  active,    \* active_flows of the writer, at the flow's key
  now,       \* the Collector's clock
  maintain,  \* the clock that run_maintenance read, Null when it is not running
  counted,   \* per session, the units its deltas have brought
  resumed,   \* sessions that have gone on after their end
  left       \* what is left of the scenario

vars == <<store, active, now, maintain, counted, resumed, left>>

Null == -1
Absent == [session |-> Null]
Empty == [x \in {} |-> 0]
Unknown == [app |-> 0, conf |-> 0, proto |-> FALSE]

Init ==
  /\ store = [minute |-> Empty, hour |-> Empty, day |-> Empty,
              hourPending |-> Empty, dayPending |-> Empty,
              ledger |-> Empty, recovery |-> Empty, sessions |-> Empty]
  /\ active = Absent
  /\ now = 0
  /\ maintain = Null
  /\ left \in Scenarios
  /\ counted = [s \in left.starts |-> 0]
  /\ resumed = {}

-----------------------------------------------------------------------------
(* Counters: tables of rows <<bucket, key>>, and the triggers on them.     *)

HourOf(t) == (t \div Hour) * Hour
DayOf(t) == (t \div Day) * Day
Bucket(tier, t) == CASE tier = "minute" -> t [] tier = "hour" -> HourOf(t) [] tier = "day" -> DayOf(t)

Most(a, b) == IF a > b THEN a ELSE b

Without(table, rows) == [r \in DOMAIN table \ rows |-> table[r]]

AddTo(table, row, n) ==
  IF row \in DOMAIN table THEN [table EXCEPT ![row] = @ + n] ELSE table @@ (row :> n)

\* adjust_rollup on the pending table of a tier, which has no trigger.
Queue(d, tier, row, n) ==
  IF tier = "hour" THEN [d EXCEPT !.hourPending = AddTo(@, row, n)]
                   ELSE [d EXCEPT !.dayPending = AddTo(@, row, n)]

\* adjust_rollup, with the trigger that queues the change for the next tier.
Adjust(d, tier, bucket, key, n) ==
  CASE tier = "minute" -> Queue([d EXCEPT !.minute = AddTo(@, <<bucket, key>>, n)],
                                "hour", <<HourOf(bucket), key>>, n)
    [] tier = "hour"   -> Queue([d EXCEPT !.hour = AddTo(@, <<bucket, key>>, n)],
                                "day", <<DayOf(bucket), key>>, n)
    [] tier = "day"    -> [d EXCEPT !.day = AddTo(@, <<bucket, key>>, n)]

Pending(d, tier) == IF tier = "hour" THEN d.hourPending ELSE d.dayPending

\* (mutant) rows that come to nothing stay
AggregateKeepsEmpty(d, tier, cutoff) ==
  LET due == {r \in DOMAIN Pending(d, tier) : r[1] < cutoff}
      added == FoldSet(LAMBDA r, e : Adjust(e, tier, r[1], r[2], Pending(d, tier)[r]), d, due)
  IN  [added EXCEPT ![IF tier = "hour" THEN "hourPending" ELSE "dayPending"] = Without(@, due)]

\* aggregate: what is queued for closed buckets is added to the tier, rows that
\* come to nothing are deleted, and the queue is emptied.
Aggregate(d, tier, cutoff) ==
  LET due == {r \in DOMAIN Pending(d, tier) : r[1] < cutoff}
      added == FoldSet(LAMBDA r, e : Adjust(e, tier, r[1], r[2], Pending(d, tier)[r]), d, due)
      nothing == {r \in DOMAIN added[tier] : /\ \E q \in due : q[1] = r[1]
                                             /\ added[tier][r] = 0}
  IN  [added EXCEPT ![tier] = Without(@, nothing),
                    ![IF tier = "hour" THEN "hourPending" ELSE "dayPending"] = Without(@, due)]

\* mark_aggregated: the ledger remembers what each tier has taken up.
MarkAggregated(ledger, at) ==
  [c \in DOMAIN ledger |->
     LET hour == IF c[2] < HourOf(at) THEN ledger[c].minute ELSE ledger[c].hour
     IN  [ledger[c] EXCEPT !.hour = hour,
                           !.day = IF c[2] < DayOf(at) THEN hour ELSE @]]

-----------------------------------------------------------------------------
(* Identities.                                                             *)

\* merge: an application is replaced only by one of higher confidence, and a
\* protocol only fills a gap.
Merge(old, new) ==
  LET app == new.app # 0 /\ (old.app = 0 \/ new.conf > old.conf)
  IN  [app |-> IF app THEN new.app ELSE old.app, conf |-> IF app THEN new.conf ELSE old.conf,
       proto |-> old.proto \/ new.proto]

\* application_keys: traffic without an application is counted under its protocol.
Key(i) == IF i.app = 0 /\ i.proto THEN "proto" ELSE ToString(i.app)

\* Whether reassign may still move a row of the ledger.
Correctable(d, c, at) ==
  /\ d.ledger[c].expires > at
  /\ d.recovery[c[1]].updated > at - Window
  /\ d.recovery[c[1]].ended = Null \/ d.recovery[c[1]].ended > at - Grace

\* (mutant) what the tier below has queued is moved a second time
TransferUncancelled(d, tier, bucket, old, new, n) ==
  IF n = 0 \/ old = new \/ <<bucket, old>> \notin DOMAIN d[tier] THEN d
  ELSE LET moved == Adjust(Adjust(d, tier, bucket, old, -n), tier, bucket, new, n)
       IN  [moved EXCEPT ![tier] =
              Without(@, {r \in {<<bucket, old>>} : moved[tier][r] = 0})]

\* transfer: one tier's share of a ledger row changes its key, at once.  What
\* the tier below has queued for the same move is cancelled.
Transfer(d, tier, bucket, old, new, n) ==
  IF n = 0 \/ old = new \/ <<bucket, old>> \notin DOMAIN d[tier] THEN d
  ELSE LET moved == Adjust(Adjust(d, tier, bucket, old, -n), tier, bucket, new, n)
           settled == IF tier = "minute" THEN moved
                      ELSE Queue(Queue(moved, tier, <<bucket, old>>, n),
                                 tier, <<bucket, new>>, -n)
       IN  [settled EXCEPT ![tier] =
              Without(@, {r \in {<<bucket, old>>} : settled[tier][r] = 0})]

MoveRow(d, c, i) ==
  LET old == Key(d.ledger[c].ident)
      m == Transfer(d, "minute", c[2], old, Key(i), d.ledger[c].minute)
      h == Transfer(m, "hour", HourOf(c[2]), old, Key(i), d.ledger[c].hour)
      y == Transfer(h, "day", DayOf(c[2]), old, Key(i), d.ledger[c].day)
  IN  [y EXCEPT !.ledger[c].ident = i]

\* reassign: the session's recovery row takes the identity in, and the rows of
\* its ledger that are still correctable follow.
Reassign(d, s, i, at) ==
  IF s \notin DOMAIN d.recovery THEN d
  ELSE LET new == Merge(d.recovery[s].attr, i)
           rows == {c \in DOMAIN d.ledger : c[1] = s /\ Correctable(d, c, at)}
           moved == FoldSet(LAMBDA c, e : MoveRow(e, c, new), d, rows)
       IN  [moved EXCEPT !.recovery[s].attr = new]

-----------------------------------------------------------------------------
(* Sessions.                                                               *)

\* write_flow_session: the row takes the counters over; a session that has
\* gone on after its end is open again.
WriteSession(d, s, flow, ended, at) ==
  LET old == IF s \in DOMAIN d.sessions THEN d.sessions[s].ended ELSE Null
      end == IF old # Null /\ flow.seen > old THEN ended
             ELSE IF ended = Null THEN old ELSE ended
  IN  [d EXCEPT !.sessions =
         (s :> [count |-> flow.count, attr |-> flow.attr, seen |-> flow.seen,
                ended |-> end, checkpointed |-> at]) @@ @]

\* A flow that is not in memory: restore reads its recovery row, or the session
\* that was written before the row was collected.
Restore(d, s, sent) ==
  LET new == [session |-> s, count |-> 0, attr |-> Unknown, seen |-> Most(sent, s),
              checkpointed |-> s, received |-> now]
      from(row) == [new EXCEPT !.count = row.count, !.attr = Merge(Unknown, row.attr),
                               !.seen = Most(@, row.seen)]
  IN  IF s \in DOMAIN d.recovery THEN from(d.recovery[s])
      ELSE IF s \in DOMAIN d.sessions THEN from(d.sessions[s]) ELSE new

\* (mutant) an expired or ended row of the ledger is counted on
RecordUnfrozen(d, s, flow, t, ended) ==
  LET old == IF s \in DOMAIN d.recovery THEN d.recovery[s]
             ELSE [updated |-> now, ended |-> Null]
      row == [count |-> flow.count, attr |-> flow.attr, seen |-> flow.seen,
              checkpointed |-> flow.checkpointed, updated |-> Most(old.updated, now),
              ended |-> IF old.ended = Null /\ ended THEN now ELSE old.ended]
      had == IF <<s, t>> \in DOMAIN d.ledger THEN d.ledger[<<s, t>>]
             ELSE [minute |-> 0, hour |-> 0, day |-> 0]
      entry == [ident |-> flow.attr, minute |-> had.minute + 1, hour |-> had.hour,
                day |-> had.day, expires |-> now + Window]
  IN  [d EXCEPT !.recovery = (s :> row) @@ @, !.ledger = (<<s, t>> :> entry) @@ @]

\* record: the recovery row of the session and the ledger row of the minute.
\* The ledger of a session that ended long ago is dropped, and a row that has
\* expired starts anew: what it counted stays where it is.
Record(d, s, flow, t, ended) ==
  LET old == IF s \in DOMAIN d.recovery THEN d.recovery[s]
             ELSE [updated |-> now, ended |-> Null]
      row == [count |-> flow.count, attr |-> flow.attr, seen |-> flow.seen,
              checkpointed |-> flow.checkpointed, updated |-> Most(old.updated, now),
              ended |-> IF old.ended = Null /\ ended THEN now ELSE old.ended]
      kept == IF row.ended # Null /\ row.ended + Grace <= now
                THEN Without(d.ledger, {c \in DOMAIN d.ledger : c[1] = s}) ELSE d.ledger
      had == IF <<s, t>> \in DOMAIN kept /\ kept[<<s, t>>].expires > now
               THEN kept[<<s, t>>] ELSE [minute |-> 0, hour |-> 0, day |-> 0]
      entry == [ident |-> flow.attr, minute |-> had.minute + 1, hour |-> had.hour,
                day |-> had.day, expires |-> now + Window]
  IN  [d EXCEPT !.recovery = (s :> row) @@ @, !.ledger = (<<s, t>> :> entry) @@ kept]

EndedIn(table) == {s \in DOMAIN table : table[s].ended # Null}

\* update_active_flows for one delta, sent at minute t of a lifetime that began
\* at start.  A flow in memory keeps its session, whatever the delta says.
Ingest(start, t, i, ended) ==
  LET flow == IF active = Absent THEN Restore(store, start, t) ELSE active
      s == flow.session
      grown == [flow EXCEPT !.received = Most(@, now), !.count = @ + 1,
                            !.seen = Most(@, t), !.attr = Merge(@, i)]
      moved == IF grown.attr = flow.attr THEN store
               ELSE Reassign(store, s, grown.attr, now)
      total == Adjust(moved, "minute", t, "total", 1)
      byApp == Adjust(total, "minute", t, Key(grown.attr), 1)
      recorded == Record(byApp, s, grown, t, ended)
      due == ended \/ now - flow.checkpointed >= Checkpoint
  IN  /\ store' = IF due THEN WriteSession(recorded, s, grown, IF ended THEN t ELSE Null, now)
                  ELSE recorded
      /\ active' = IF ended THEN Absent
                   ELSE [grown EXCEPT !.checkpointed = IF due THEN now ELSE @]
      /\ counted' = [counted EXCEPT ![s] = @ + 1]
      /\ resumed' = resumed \cup ({s} \cap (EndedIn(store.recovery) \cup EndedIn(store.sessions)))

Delta ==
  /\ left.deltas > 0
  /\ \E start \in left.starts, t \in Most(0, now - Lag) .. now, i \in left.incoming, ended \in BOOLEAN :
       start <= t /\ Ingest(start, t, i, ended)
  /\ left' = [left EXCEPT !.deltas = @ - 1]
  /\ UNCHANGED <<now, maintain>>

\* Whether a sample taken at time t belongs to a session.
Sampled(start, seen, t) == start <= t + 1 /\ seen >= t - 1

\* reclassify_sqlite: a late classification reaches the session in memory and
\* the written sessions of the flow at that time.
Reclassify(t, i) ==
  LET live == active # Absent /\ Sampled(active.session, active.seen, t)
      staged == IF live THEN [active EXCEPT !.attr = Merge(@, i)] ELSE active
      rows == {s \in DOMAIN store.sessions : Sampled(s, store.sessions[s].seen, t)}
      attr(s) == IF live /\ s = active.session THEN staged.attr
                 ELSE Merge(store.sessions[s].attr, i)
      change(s, d) ==
        LET e == Reassign(d, s, attr(s), now)
        IN  IF s \in DOMAIN e.sessions THEN [e EXCEPT !.sessions[s].attr = attr(s)] ELSE e
  IN  /\ store' = FoldSet(change, store, rows \cup (IF live THEN {active.session} ELSE {}))
      /\ active' = staged

Sample ==
  /\ left.samples > 0
  /\ \E t \in 0 .. now, i \in left.incoming \ {Unknown} : Reclassify(t, i)
  /\ left' = [left EXCEPT !.samples = @ - 1]
  /\ UNCHANGED <<now, maintain, counted, resumed>>

-----------------------------------------------------------------------------
(* Maintenance and restart.                                                *)

Earlier(a, b) == \E i \in DOMAIN a : a[i] < b[i] /\ \A j \in 1 .. i - 1 : a[j] = b[j]

\* The first Limit rows in the order of the index that SQLite reads.
Oldest(rows, index(_)) ==
  {r \in rows : Cardinality({q \in rows : Earlier(index(q), index(r))}) < Limit}

Quiet(d, at) ==
  {s \in DOMAIN d.recovery : d.recovery[s].ended = Null /\ d.recovery[s].updated <= at - Window}

Expired(d, at) == {c \in DOMAIN d.ledger : d.ledger[c].expires <= at}

Over(d, at) ==
  {s \in DOMAIN d.recovery : \/ d.recovery[s].ended # Null /\ d.recovery[s].ended <= at - Grace
                             \/ d.recovery[s].updated <= at - Window}

Stale(d, at) ==
  {s \in DOMAIN d.sessions :
     /\ d.sessions[s].ended = Null /\ d.sessions[s].checkpointed <= at - Window
     /\ ~(/\ s \in DOMAIN d.recovery
          /\ d.recovery[s].ended = Null /\ d.recovery[s].updated > at - Window)}

\* (mutant) quiet sessions are dropped unwritten
PruneWriteNothing(d, at) == d

\* prune_bounded, 1: open sessions that have gone quiet are written and closed.
PruneWrite(d, at) ==
  LET updated(s) == <<d.recovery[s].updated, s>>
  IN  FoldSet(LAMBDA s, e : WriteSession(e, s, e.recovery[s], e.recovery[s].seen, at), d,
              Oldest(Quiet(d, at), updated))

\* 2: ledger rows whose correction window is over go.
PruneLedger(d, at) ==
  LET expires(c) == <<d.ledger[c].expires, c[1], c[2]>>
  IN  [d EXCEPT !.ledger = Without(@, Oldest(Expired(d, at), expires))]

\* 3: recovery rows that no ledger row refers to go, once ended or quiet.
PruneRecovery(d, at) ==
  LET free == {s \in Over(d, at) : ~\E c \in DOMAIN d.ledger : c[1] = s}
      ended(s) == d.recovery[s].ended # Null /\ d.recovery[s].ended <= at - Grace
      index(s) == IF ended(s) THEN <<0, d.recovery[s].ended, s>>
                              ELSE <<1, d.recovery[s].updated, s>>
  IN  [d EXCEPT !.recovery = Without(@, Oldest(free, index))]

\* 4: written sessions without a live recovery row are closed.
PruneSessions(d, at) ==
  LET checkpointed(s) == <<d.sessions[s].checkpointed, s>>
      closed == Oldest(Stale(d, at), checkpointed)
  IN  [d EXCEPT !.sessions = [s \in DOMAIN d.sessions |->
         IF s \in closed THEN [d.sessions[s] EXCEPT !.ended = d.sessions[s].seen]
                         ELSE d.sessions[s]]]

Prune(d, at) == PruneSessions(PruneRecovery(PruneLedger(PruneWrite(d, at), at), at), at)

MoreWork(d, at) == Expired(d, at) # {} \/ Over(d, at) # {} \/ Stale(d, at) # {}

\* prune_reclassification_bounded: one slice.  With more work left the pass
\* ends and is tried again; else run_maintenance goes on to the roll-up.
Sweep ==
  /\ left.sweeps > 0 /\ maintain = Null
  /\ store' = Prune(store, now)
  /\ maintain' = IF MoreWork(store', now) THEN Null ELSE now
  /\ left' = [left EXCEPT !.sweeps = @ - 1]
  /\ UNCHANGED <<active, now, counted, resumed>>

\* roll_up_hour_and_day, with the clock read before the sweep.
RollUp ==
  /\ maintain # Null
  /\ LET hours == Aggregate(store, "hour", HourOf(maintain))
         days == Aggregate(hours, "day", DayOf(maintain))
     IN  store' = [days EXCEPT !.ledger = MarkAggregated(@, maintain)]
  /\ maintain' = Null
  /\ UNCHANGED <<active, now, counted, resumed, left>>

\* load_active_flows: open sessions written lately, then the recovery rows.
\* At one key the latest lifetime wins.
Load(d, at) ==
  LET written == {s \in DOMAIN d.sessions :
                    d.sessions[s].ended = Null /\ d.sessions[s].checkpointed > at - Window}
      open == {s \in DOMAIN d.recovery :
                 d.recovery[s].ended = Null /\ d.recovery[s].updated > at - Window}
      row(s) == [session |-> s, count |-> d.sessions[s].count, attr |-> d.sessions[s].attr,
                 seen |-> d.sessions[s].seen, checkpointed |-> d.sessions[s].checkpointed,
                 received |-> d.sessions[s].checkpointed]
      recovered(s) ==
        LET r == d.recovery[s]
            new == [session |-> s, count |-> r.count, attr |-> r.attr, seen |-> r.seen,
                    checkpointed |-> r.checkpointed, received |-> r.updated]
        IN  IF s \notin written THEN new
            ELSE [new EXCEPT !.count = Most(@, row(s).count),
                             !.attr = Merge(@, row(s).attr),
                             !.seen = Most(@, row(s).seen),
                             !.checkpointed = Most(@, row(s).checkpointed)]
      found == written \cup open
  IN  IF found = {} THEN Absent
      ELSE LET s == CHOOSE x \in found : \A y \in found : y <= x
           IN  IF s \in open THEN recovered(s) ELSE row(s)

\* from_connection_at: start-up takes slices of the clean-up until none is left
\* or its time is over, and loads what remains.
Restart ==
  /\ left.restarts > 0
  /\ \E d \in {store, Prune(store, now), Prune(Prune(store, now), now)} :
       store' = d /\ active' = Load(d, now)
  /\ maintain' = Null
  /\ left' = [left EXCEPT !.restarts = @ - 1]
  /\ UNCHANGED <<now, counted, resumed>>

Tick ==
  /\ now < left.now
  /\ now' = now + 1
  /\ UNCHANGED <<store, active, maintain, counted, resumed, left>>

Next == Delta \/ Sample \/ Sweep \/ RollUp \/ Restart \/ Tick

Spec == Init /\ [][Next]_vars

-----------------------------------------------------------------------------
(* Properties.                                                             *)

Rows(tier) == DOMAIN store[tier]
Value(table, row) == IF row \in DOMAIN table THEN table[row] ELSE 0
Total(table, rows) == FoldSet(LAMBDA r, n : table[r] + n, 0, rows \cap DOMAIN table)

\* The rows hold integers for buckets and keys that exist, ledger rows have
\* their recovery row, and nothing is maintained ahead of the clock.
TypeOK ==
  /\ \A tier \in {"minute", "hour", "day"} : \A r \in Rows(tier) :
       r[1] = Bucket(tier, r[1]) /\ store[tier][r] \in Nat \ {0}
  /\ \A c \in DOMAIN store.ledger : c[1] \in DOMAIN store.recovery
  /\ DOMAIN store.sessions \cup DOMAIN store.recovery \subseteq left.starts
  /\ active = Absent \/ active.session \in left.starts
  /\ maintain \in Null .. now

\* The triggers, aggregate and transfer: however deltas, late corrections and
\* roll-ups interleave, a tier and what is queued for it add up to the tier
\* below, for every bucket and every key; and in every tier the traffic of a
\* bucket is the same whether it is added up by identity or taken as the total.
AccountsAgree ==
  /\ \A r \in DOMAIN store.hourPending \cup Rows("hour") :
       Value(store.hour, r) + Value(store.hourPending, r)
         = Total(store.minute, {q \in Rows("minute") : HourOf(q[1]) = r[1] /\ q[2] = r[2]})
  /\ \A r \in DOMAIN store.dayPending \cup Rows("day") :
       Value(store.day, r) + Value(store.dayPending, r)
         = Total(store.hour, {q \in Rows("hour") : DayOf(q[1]) = r[1] /\ q[2] = r[2]})
  /\ \A tier \in {"minute", "hour", "day"} : \A b \in {r[1] : r \in Rows(tier)} :
       Total(store[tier], {r \in Rows(tier) : r[1] = b /\ r[2] # "total"})
         = Value(store[tier], <<b, "total">>)

\* record, reassign and mark_aggregated: every tier holds, under the identity
\* the ledger gives, at least what the ledger says it has taken up, so that a
\* correction never takes traffic from a row that has not got it; and the rows
\* that can still be corrected carry the identity of their session.
LedgerIsTrue ==
  \A c \in DOMAIN store.ledger :
    /\ Correctable(store, c, now) =>
         Key(store.ledger[c].ident) = Key(store.recovery[c[1]].attr)
    /\ \A tier \in {"minute", "hour", "day"} :
         LET bucket == Bucket(tier, c[2])
             key == Key(store.ledger[c].ident)
             same == {e \in DOMAIN store.ledger : /\ Bucket(tier, e[2]) = bucket
                                                  /\ Key(store.ledger[e].ident) = key}
         IN  FoldSet(LAMBDA e, n : store.ledger[e][tier] + n, 0, same)
               <= Value(store[tier], <<bucket, key>>)

\* The counters of a session where they are read next.
Known(s) ==
  IF active.session = s THEN active.count
  ELSE IF s \in DOMAIN store.recovery THEN store.recovery[s].count
  ELSE IF s \in DOMAIN store.sessions THEN store.sessions[s].count ELSE 0

\* restore, restore_active and prune_bounded: through restarts, clean-ups and
\* late deltas, the place that a session is read from next has every unit it
\* counted, unless the session has gone on after its end.
CountsSurvive == \A s \in left.starts \ resumed : Known(s) = counted[s]

\* run_retention_bounded "returns true when a complete pass found no further
\* expired rows": a slice that leaves the database as it was is the last one.
SweepsEnd == [][maintain = Null /\ left'.sweeps < left.sweeps /\ store' = store
                  => maintain' # Null]_vars
=============================================================================
