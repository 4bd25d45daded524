----------------------------- MODULE AgentFlows -----------------------------
(***************************************************************************)
(* How the Agent enforces a verdict on one flow: the cache of the on-wire  *)
(* keys of a flow (policy/flow_alias.rs), the owner of the kernel's        *)
(* verdict maps (policy/flow_verdict.rs, endpoint_block.rs), the handler   *)
(* of flow commands and the switches around it (policy/receiver.rs), and   *)
(* what the packet program reads (bpf/flow.bpf.c).  Two threads share the  *)
(* cache and the maps: the policy receiver, which runs one command at a    *)
(* time and gives the cache's lock back between its steps, and the capture *)
(* loop (linux.rs), which observes, ends and forgets flows and empties the *)
(* maps when the interfaces change.                                        *)
(***************************************************************************)
EXTENDS Integers, FiniteSets, FiniteSetsExt

CONSTANTS
  Flows,       \* the tracked flows; a flow is named by its raw key
  MaxEntries,  \* flows the cache holds (DEFAULT_POLICY_FLOW_CAPACITY)
  Policies,    \* the application policies a command may cite
  Macs,        \* the clients an address may resolve to
  None,        \* nothing there
  MaxAliases,  \* keys of a flow (MAX_ALIASES_PER_FLOW, 8)
  MaxBlock,    \* keys one block covers (MAX_BLOCK_ALIASES, 8)
  MaxOwners,   \* flows that may own a block of a key (16)
  MaxRev,      \* revisions the Collector publishes
  MaxNow,      \* ticks of the clock
  EndpointTtl, \* the lease of an endpoint (CACHE_TTL_MS)
  Scenarios    \* what may happen in a run, and how often

\* A key is a tuple of the connection as it is seen at a hook (1 ingress,
\* 2 egress) of an interface.  up and down are the client's side, wan and wanr
\* the translated side, proxy and proxyr those of a local proxy.
Tuples  == {"up", "down", "wan", "wanr", "proxy", "proxyr"}
Key(t, h, i) == [tuple |-> t, hook |-> h, ifx |-> i]
Keys    == {Key(t, h, "lan") : t \in {"up", "down", "proxy", "proxyr"}, h \in 1..2}
             \cup {Key(t, h, "wan") : t \in {"wan", "wanr"}, h \in 1..2}
Flip    == [t \in Tuples |-> CASE t = "up" -> "down"      [] t = "down" -> "up"
                               [] t = "wan" -> "wanr"     [] t = "wanr" -> "wan"
                               [] t = "proxy" -> "proxyr" [] t = "proxyr" -> "proxy"]
Upload(t) == t \in {"up", "wan", "proxyr"}
Hook(upload) == IF upload THEN 1 ELSE 2

\* A list of keys is written from one end to the other; which order that is, is
\* left to one fixed choice.
Place   == [t \in Tuples |-> CASE t = "up" -> 0   [] t = "down" -> 1  [] t = "wan" -> 2
                               [] t = "wanr" -> 3 [] t = "proxy" -> 4 [] t = "proxyr" -> 5]
Rank    == [k \in Keys |-> 2 * Place[k.tuple] + k.hook]
FirstOf(n, S) == {k \in Keys : k \in S /\ Cardinality({j \in S : Rank[j] < Rank[k]}) < n}

Ops     == {"block", "allow", "shape", "revoke"}
Verdicts == [kind : {"block", "shape"}, flow : Flows, rev : Nat, pol : Policies \cup {None},
             mac : Macs \cup {None}, until : Nat]

Scenario == [flows : SUBSET Flows, macs : SUBSET (Macs \cup {None}), ops : SUBSET Ops,
             nat : {"snat", "redirect"}, revision : 0..MaxRev, ttl : Nat, claims : Nat,
             command : Nat, change : Nat, stop : Nat, prune : Nat, fault : Nat, tick : 0..MaxNow]

ASSUME FlowAssumption ==
  /\ Flows \subseteq Keys
  /\ None \notin Policies \cup Macs \cup Verdicts \cup Nat
  /\ {MaxEntries, MaxAliases, MaxBlock, MaxOwners, MaxRev, MaxNow, EndpointTtl} \subseteq Nat
  /\ Scenarios \subseteq Scenario

VARIABLES
  ct,       \* the conntrack snapshot has the connection
  cache,    \* PolicyFlowAliasCache: an entry of each flow, or None
  map,      \* flow_verdict_map
  claims,   \* BlockClaims: the flows that want a key blocked
  leases,   \* endpoint_blocks, by client
  state,    \* flow_policy_state: enabled and generation
  gate,     \* the switches the two threads share
  rc,       \* the receiver
  sweep,    \* the capture loop: the keys it is about to delete, or None
  now,
  budget,   \* the scenario: its flows, clients and commands, how the gateway
            \* translates the connection, the lease of a command, the claims the
            \* registry holds, the last revision, and what is left of commands,
            \* interface changes, emergency stops, pruned entries, failures of a map
            \* operation and ticks of the clock
  dropped   \* history: flows whose entry was forgotten with verdicts in place

vars == <<ct, cache, map, claims, leases, state, gate, rc, sweep, now, budget, dropped>>
kernel == <<map, leases, state>>
nat    == budget.nat
Ttl    == budget.ttl
MaxClaims == budget.claims  \* MAX_BLOCK_CLAIMS, 32768

May(x)   == budget[x] > 0
Spend(x) == budget' = [budget EXCEPT ![x] = @ - 1]

-----------------------------------------------------------------------------
(* The alias cache.                                                        *)

NewEntry(key, mac) ==
  [keys |-> {key}, verified |-> {}, unresolved |-> {}, mac |-> mac, conflict |-> FALSE,
   ended |-> FALSE, partial |-> FALSE, last |-> None, shaped |-> None]

\* observe_with_client on an entry that exists; the raw key is already there.
Client(e, mac) ==
  IF mac = None \/ e.conflict \/ e.mac = mac THEN e
  ELSE IF e.mac = None THEN [e EXCEPT !.mac = mac]
  ELSE [e EXCEPT !.mac = None, !.conflict = TRUE, !.partial = TRUE]

\* (mutant) the bound on the keys of a flow is not checked
InsertAliasUncapped(e, key) ==
  [e EXCEPT !.keys = @ \cup {key}, !.verified = @ \cup {key}, !.unresolved = @ \ {key}]

\* insert_alias
InsertAlias(e, key) ==
  IF key \notin e.keys /\ Cardinality(e.keys) >= MaxAliases
  THEN [e EXCEPT !.partial = TRUE]
  ELSE [e EXCEPT !.keys = @ \cup {key}, !.verified = @ \cup {key}, !.unresolved = @ \ {key}]

\* record_unresolved
RecordUnresolved(e, key) ==
  IF key \in e.verified \cup e.unresolved THEN e
  ELSE IF Cardinality(e.unresolved) >= MaxAliases THEN [e EXCEPT !.partial = TRUE]
  ELSE [e EXCEPT !.unresolved = @ \cup {key}]

\* client_side_tuple: the connection as the client sees it.
ClientSide(n, upload) == IF upload THEN "up" ELSE IF n = "redirect" THEN "proxy" ELSE "down"

\* direct_client_tuple: the tuple carries the client's own address.
Direct(t) == t \notin {"wan", "wanr"}

\* observe_direction of a key of the entry: the client-side keys are added when
\* the hook, conntrack or the address itself proves them.
ObserveDirection(e, key, n, tracked) ==
  LET upload == Upload(key.tuple)
      seen   == [e EXCEPT !.unresolved = @ \ {key}]
      aside  == key.hook = Hook(upload) /\ key.ifx = "lan"
      proven == aside \/ tracked \/ Direct(key.tuple)
      tuple  == IF ~aside /\ tracked THEN ClientSide(n, upload) ELSE key.tuple
      with   == InsertAlias(seen, Key(tuple, Hook(upload), "lan"))
  IN IF key \notin e.keys THEN e
     ELSE IF ~proven THEN RecordUnresolved(seen, key)
     ELSE IF tracked THEN InsertAlias(with, Key(ClientSide(n, ~upload), Hook(~upload), "lan"))
     ELSE RecordUnresolved(with, Key(Flip[key.tuple], Hook(~upload), "lan"))

\* reconcile_for_command: observe again what was left open.
Reconcile(e, n, tracked) ==
  LET sides == \A h \in 1..2 : \E k \in e.keys : k.hook = h /\ k.ifx = "lan"
      again(k, acc) == ObserveDirection(acc, k, n, tracked)
      seen  == FoldSet(again, [e EXCEPT !.unresolved = {}], e.keys)
  IN IF e.ended \/ (e.unresolved = {} /\ sides) THEN e
     ELSE [e EXCEPT !.keys = seen.keys, !.verified = seen.verified, !.unresolved = seen.unresolved,
                    !.partial = seen.partial]

\* insert_proxy_return
ProxyReturn(e) ==
  LET key == Key("proxy", 2, "lan")
  IN IF e.ended THEN e
     ELSE IF key \notin e.keys /\ Cardinality(e.keys) >= MaxAliases
     THEN [e EXCEPT !.partial = TRUE]
     ELSE [e EXCEPT !.keys = @ \cup {key}, !.verified = @ \cup {key}, !.unresolved = @ \ {key}]

\* endpoint_block_aliases: only a proven key of the client's own ingress.
EndpointKeys(e) ==
  IF e.conflict \/ e.mac = None THEN {}
  ELSE {k \in e.keys \cap e.verified : k.hook = 1 /\ k.ifx = "lan" /\ Upload(k.tuple)
                                         /\ Direct(k.tuple)}

-----------------------------------------------------------------------------
(* The verdict map and its owners.                                         *)

NoClaims == [k \in Keys |-> {}]
NoVerdicts == [k \in Keys |-> None]
Live(v) == v # None /\ v.until > now

\* block_claim_matches_value: everything but the deadline.
Matches(c, v) == /\ v # None /\ v.kind = "block"
                 /\ c.flow = v.flow /\ c.rev = v.rev /\ c.pol = v.pol /\ c.mac = v.mac

\* select_block_claim and encode_block_claim: an owner that saw this tuple, then
\* the present one; the deadline is the latest of all owners.
Verdict(C, previous) ==
  LET rank(c) == (IF c.seen THEN 2 ELSE 0) + (IF Matches(c, previous) THEN 1 ELSE 0)
      best == CHOOSE c \in C : \A d \in C : rank(d) <= rank(c)
  IN [kind |-> "block", flow |-> best.flow, rev |-> best.rev, pol |-> best.pol,
      mac |-> best.mac, until |-> Max({c.until : c \in C})]

\* (mutant) claims count whatever the map holds
ValidAny(C, previous) == {c \in C : c.until > now}

\* The claims that still count: none when the map no longer holds one of them.
Valid(C, previous) ==
  IF \E c \in C : Matches(c, previous) THEN {c \in C : c.until > now} ELSE {}

\* install_owned_block at one key
BlockAt(k, claim) ==
  LET old    == Valid(claims[k], map[k])
      same   == \A c \in old : c.rev = claim.rev /\ c.pol = claim.pol /\ c.mac = claim.mac
      new    == {c \in IF same THEN old ELSE {} : c.flow # claim.flow} \cup {claim}
  IN [prev |-> map[k], next |-> Verdict(new, map[k]), claims |-> new]

\* clear_aliases at one key: the flow's own claim goes, another one takes over.
ClearAt(k, flow) ==
  LET old   == Valid(claims[k], map[k])
      rest  == {c \in old : c.flow # flow}
      known == \E c \in claims[k] : Matches(c, map[k])
      mine  == map[k] # None /\ map[k].flow = flow
  IN [prev |-> map[k], claims |-> rest,
      next |-> IF known THEN IF rest = {} THEN None ELSE Verdict(rest, map[k])
               ELSE IF mine THEN None ELSE map[k]]

\* install_shape at one key; its block claims go with it.
ShapeAt(k, flow, rev, until) ==
  [prev |-> map[k], claims |-> {},
   next |-> [kind |-> "shape", flow |-> flow, rev |-> rev, pol |-> None, mac |-> None,
             until |-> until]]

\* block_reverse_aliases: the keys themselves first, then their reverse on both
\* hooks and the same tuple on the other hook, up to the bound.
BlockKeys(keys) ==
  LET other(k) == {Key(Flip[k.tuple], h, k.ifx) : h \in 1..2} \cup {Key(k.tuple, 3 - k.hook, k.ifx)}
      others   == UNION {other(k) : k \in keys} \ keys
  IN FirstOf(MaxBlock, keys) \cup FirstOf(MaxBlock - Cardinality(keys), others)

-----------------------------------------------------------------------------
(* The state.                                                              *)

Command == {c \in [flow : Flows, op : Ops, issued : 0..MaxNow, rev : 1..MaxRev,
                   pol : Policies \cup {None}] : c.pol = None <=> c.op \in {"allow", "revoke"}}
Upsert(cmd) == cmd.op # "revoke"
Until(cmd)  == cmd.issued + Ttl

Idle == [pc |-> "idle"]

Init ==
  /\ ct = FALSE
  /\ cache = [f \in Flows |-> None]
  /\ map = NoVerdicts /\ claims = NoClaims /\ leases = [m \in Macs |-> None]
  /\ state = [on |-> FALSE, gen |-> 0]
  /\ gate = [ready |-> TRUE, tracked |-> FALSE, commands |-> FALSE, saved |-> 0, needs |-> FALSE,
              applied |-> None, marker |-> FALSE, cleared |-> FALSE]
  /\ rc = Idle /\ sweep = None
  /\ now = 0 /\ budget \in Scenarios /\ dropped = {}

\* The flows that lose their entry while something is installed for them.
Holding == {f \in Flows : (rc.pc \notin {"idle", "tick"} /\ rc.cmd.flow = f)
                            \/ \E k \in Keys : (map[k] # None /\ map[k].flow = f)
                                               \/ \E c \in claims[k] : c.flow = f}
Forgotten(F) == dropped' = dropped \cup {f \in F \cap Holding : cache[f] # None}

-----------------------------------------------------------------------------
(* The capture loop.                                                       *)

\* A poll delivers a delta of the flow; the lock is held throughout.
Observe(f, mac) ==
  /\ sweep = None /\ gate.tracked
  /\ f.ifx = "lan" \/ nat = "snat"
  /\ \/ /\ cache[f] = None
        /\ Cardinality({g \in Flows : cache[g] # None}) < MaxEntries
        /\ cache' = [cache EXCEPT ![f] = ObserveDirection(NewEntry(f, mac), f, nat, ct)]
     \/ /\ cache[f] # None /\ ~cache[f].ended
        /\ cache' = [cache EXCEPT ![f] = ObserveDirection(Client(@, mac), f, nat, ct)]
  /\ UNCHANGED <<ct, claims, gate, rc, sweep, budget, dropped, kernel, now>>

\* mark_ended, on the End event of FlowRuntime
MarkEnded(f) ==
  /\ sweep = None /\ cache[f] # None /\ ~cache[f].ended
  /\ cache' = [cache EXCEPT ![f].ended = TRUE]
  /\ UNCHANGED <<ct, claims, gate, rc, sweep, budget, dropped, kernel, now>>

\* prune, of a flow that was idle for too long
Prune(f) ==
  /\ sweep = None /\ gate.tracked /\ cache[f] # None /\ May("prune") /\ Spend("prune")
  /\ cache' = [cache EXCEPT ![f] = None] /\ Forgotten({f})
  /\ UNCHANGED <<ct, claims, gate, rc, sweep, kernel, now>>

\* Identities are not tracked: the loop empties the cache.
ClearCache ==
  /\ sweep = None /\ ~gate.tracked /\ \E f \in Flows : cache[f] # None
  /\ cache' = [f \in Flows |-> None] /\ Forgotten(Flows)
  /\ UNCHANGED <<ct, claims, gate, rc, sweep, budget, kernel, now>>

\* ConntrackContext::discover, every five seconds: the connection shows up.
RefreshConntrack ==
  /\ sweep = None /\ ~ct /\ ct' = TRUE
  /\ UNCHANGED <<cache, claims, gate, rc, sweep, budget, dropped, kernel, now>>

\* The observed interfaces change or are gone: hooks off, cache emptied, and the
\* keys of the verdict map listed.
InterfacesChange ==
  /\ sweep = None /\ May("change") /\ Spend("change")
  /\ gate' = [gate EXCEPT !.ready = FALSE]
  /\ cache' = [f \in Flows |-> None] /\ Forgotten(Flows)
  /\ sweep' = {k \in Keys : map[k] # None}
  /\ UNCHANGED <<ct, claims, rc, kernel, now>>

\* The listed keys are deleted; a failure is logged and not repeated.
DeleteListed ==
  /\ sweep # None /\ sweep' = None
  /\ \E left \in {{}} \cup (IF May("fault") THEN {{k} : k \in sweep} ELSE {}) :
       /\ map' = [k \in Keys |-> IF k \in sweep \ left THEN None ELSE map[k]]
       /\ IF left = {} THEN budget' = budget ELSE Spend("fault")
  /\ leases' = [m \in Macs |-> None]
  /\ UNCHANGED <<ct, cache, claims, state, gate, rc, dropped, now>>

\* The hooks are attached again.
Reattach ==
  /\ sweep = None /\ ~gate.ready
  /\ gate' = [gate EXCEPT !.ready = TRUE]
  /\ UNCHANGED <<ct, cache, claims, rc, sweep, budget, dropped, kernel, now>>

-----------------------------------------------------------------------------
(* One flow command in the receiver (apply_flow_command).                  *)

\* handle_frame before it looks at the frame: the marker of the emergency
\* switch is gone, so the next reconciliation writes the maps again.
Noticed(g) == IF g.marker \/ ~g.cleared THEN g
              ELSE [g EXCEPT !.cleared = FALSE, !.applied = None]

\* The saved state and the readiness are read; an upsert looks conntrack up
\* again and completes the entry; the proxy's return path is looked up.
Take(cmd) ==
  /\ rc = Idle /\ cmd.issued <= now /\ (gate.marker => gate.cleared)
  /\ May("command") /\ Spend("command") /\ cmd.rev <= gate.saved
  /\ gate' = Noticed(gate)
  /\ LET f == cmd.flow IN
     \E tracked \in IF Upsert(cmd) /\ cache[f] # None /\ ~ct THEN BOOLEAN ELSE {ct},
        socket \in BOOLEAN :
       /\ ct' = tracked
       /\ LET mine  == IF Upsert(cmd) THEN Reconcile(cache[f], nat, tracked) ELSE cache[f]
              proxy == nat = "redirect" /\ (tracked \/ socket)
                         /\ \E k \in mine.keys : Direct(k.tuple)
          IN cache' = [cache EXCEPT ![f] = IF @ = None THEN None
                                           ELSE IF proxy THEN ProxyReturn(mine) ELSE mine]
  /\ rc' = [pc |-> "read", cmd |-> cmd, at |-> now, ready |-> gate.ready, saved |-> gate.saved]
  /\ UNCHANGED <<claims, sweep, dropped, kernel, now>>

\* The keys and the client of the entry, under the lock.
ReadEntry ==
  /\ rc.pc = "read"
  /\ LET e    == cache[rc.cmd.flow]
         have == e # None
     IN rc' = [pc |-> "stage", cmd |-> rc.cmd, at |-> rc.at, ready |-> rc.ready, saved |-> rc.saved,
               keys |-> IF have THEN e.keys ELSE {}, mac |-> IF have THEN e.mac ELSE None,
               ended |-> have /\ e.ended,
               ends |-> IF have THEN EndpointKeys(e) ELSE {}]
  /\ UNCHANGED <<ct, cache, claims, gate, sweep, budget, dropped, kernel, now>>

\* select_priority_shape_tags: the client's upload where it enters and its
\* download where it leaves, on a port with a class.
Shapeable(keys) == {k \in keys : k.hook = Hook(Upload(k.tuple)) /\ k.ifx = "lan"}

\* (mutant) no command is ever stale
StaleNever(cmd) == FALSE

\* command_is_stale
Stale(cmd) == /\ cache[cmd.flow] # None /\ cache[cmd.flow].last # None
              /\ cmd.issued < cache[cmd.flow].last

\* The checks, in which order they come only decides the reason of the refusal.
Refused ==
  LET cmd == rc.cmd IN
  \/ Until(cmd) <= rc.at
  \/ gate.marker
  \/ cmd.rev # rc.saved
  \/ Upsert(cmd) /\ (~gate.commands \/ ~rc.ready \/ rc.ended \/ rc.mac = None)
  \/ Stale(cmd) /\ rc.keys # {}
  \/ rc.keys = {}
  \/ cmd.op = "shape" /\ Shapeable(rc.keys) = {}

\* (mutant) a revoke clears the keys of the entry and not their variants
PlannedKeysOnly(cmd) ==
  LET claim(k) == [flow |-> cmd.flow, rev |-> cmd.rev, pol |-> cmd.pol, mac |-> rc.mac,
                   until |-> Until(cmd),
                   seen |-> k.tuple = cmd.flow.tuple /\ k.ifx = cmd.flow.ifx]
  IN CASE cmd.op = "block" -> [k \in BlockKeys(rc.keys) |-> BlockAt(k, claim(k))]
       [] cmd.op = "shape" -> [k \in Shapeable(rc.keys) |-> ShapeAt(k, cmd.flow, cmd.rev, Until(cmd))]
       [] OTHER            -> [k \in rc.keys |-> ClearAt(k, cmd.flow)]

\* The new value and owners of every key the command is about.
Planned(cmd) ==
  LET claim(k) == [flow |-> cmd.flow, rev |-> cmd.rev, pol |-> cmd.pol, mac |-> rc.mac,
                   until |-> Until(cmd),
                   seen |-> k.tuple = cmd.flow.tuple /\ k.ifx = cmd.flow.ifx]
  IN CASE cmd.op = "block" -> [k \in BlockKeys(rc.keys) |-> BlockAt(k, claim(k))]
       [] cmd.op = "shape" -> [k \in Shapeable(rc.keys) |-> ShapeAt(k, cmd.flow, cmd.rev, Until(cmd))]
       [] OTHER            -> [k \in BlockKeys(rc.keys) |-> ClearAt(k, cmd.flow)]

\* The bounds of the registry C: owners of one key, and claims in all.
TooMany(plan, C) ==
  \/ \E k \in DOMAIN plan : Cardinality(plan[k].claims) > MaxOwners
  \/ MapThenSumSet(LAMBDA k : Cardinality(IF k \in DOMAIN plan THEN plan[k].claims ELSE C[k]),
                   Keys) > MaxClaims

\* Near its bound the registry drops the keys all of whose claims are expired,
\* at most once a second.
Swept(C, plan) ==
  IF MapThenSumSet(LAMBDA k : Cardinality(C[k]), Keys) + Cardinality(DOMAIN plan) <= MaxClaims
  THEN {C}
  ELSE {C, [k \in Keys |-> IF \E c \in C[k] : c.until > now THEN C[k] ELSE {}]}

\* The checks, and the updates staged from one look at every key.
Stage ==
  /\ rc.pc = "stage"
  /\ LET cmd  == rc.cmd
         plan == Planned(cmd)
     IN IF Refused THEN rc' = Idle /\ claims' = claims
        ELSE \E C \in IF cmd.op = "block" THEN Swept(claims, plan) ELSE {claims} :
          /\ claims' = C
          /\ IF cmd.op = "block" /\ TooMany(plan, C) THEN rc' = Idle
             ELSE rc' = [pc |-> "write", cmd |-> cmd, at |-> rc.at, mac |-> rc.mac,
                         ends |-> rc.ends, plan |-> plan, todo |-> DOMAIN plan,
                         done |-> {}]
  /\ UNCHANGED <<ct, cache, gate, sweep, budget, dropped, kernel, now>>

\* A key whose value stays is left alone (a shape is always written); a key to delete
\* that is gone is an error.
Same(k) == rc.plan[k].prev = rc.plan[k].next /\ rc.cmd.op # "shape"
Lost(k) == ~Same(k) /\ rc.plan[k].next = None /\ map[k] = None

\* The keys are written up to the one that fails, if any.
WriteUntil(keys, fail) ==
  LET ok  == fail = {}
      set == {k \in keys : ~Same(k) /\ \A j \in fail : Rank[k] < Rank[j]}
  IN /\ \A k \in set : ~Lost(k)
     /\ IF ok \/ \E k \in fail : Lost(k) THEN budget' = budget
        ELSE (\A k \in fail : ~Same(k)) /\ May("fault") /\ Spend("fault")
     /\ map' = [k \in Keys |-> IF k \in set THEN rc.plan[k].next ELSE map[k]]
     /\ rc'  = [rc EXCEPT !.pc = IF ok THEN "write" ELSE "undo", !.done = @ \cup set,
                          !.todo = IF ok THEN @ \ keys ELSE {}]

\* apply_verdict_updates: key by key, until one fails.  Another thread may get in
\* between once, after the first key.
Write ==
  /\ rc.pc = "write" /\ rc.todo # {}
  /\ \E keys \in IF rc.done = {} THEN {FirstOf(1, rc.todo), rc.todo} ELSE {rc.todo} :
     \E fail \in {{}} \cup {{k} : k \in keys} : WriteUntil(keys, fail)
  /\ UNCHANGED <<ct, cache, claims, leases, state, gate, sweep, dropped, now>>

\* (mutant) what was written before the failure stays
UndoNothing ==
  /\ rc.pc = "undo" /\ rc' = Idle
  /\ UNCHANGED <<ct, cache, claims, gate, sweep, budget, dropped, kernel, now>>

\* The rollback: what was written is put back; a key that fails stays as it is.
Undo ==
  /\ rc.pc = "undo" /\ rc' = Idle
  /\ \E left \in {{}} \cup (IF May("fault") THEN {{k} : k \in rc.done} ELSE {}) :
       /\ map' = [k \in Keys |-> IF k \in rc.done \ left THEN rc.plan[k].prev ELSE map[k]]
       /\ IF left = {} THEN budget' = budget ELSE Spend("fault")
  /\ UNCHANGED <<ct, cache, claims, leases, state, gate, sweep, dropped, now>>

\* record_command and, for a shape, remember_shape
Recorded(e, cmd, keys) ==
  IF e = None THEN None
  ELSE LET timed == IF e.last # None /\ cmd.issued < e.last THEN e
                    ELSE [e EXCEPT !.last = cmd.issued]
       IN IF cmd.op # "shape" THEN timed
          ELSE [timed EXCEPT !.shaped = [rev |-> cmd.rev, pol |-> cmd.pol, keys |-> keys,
                                         until |-> Until(cmd)]]

\* Every key is written: the owners are recorded, then the endpoint's lease is
\* written or forgotten, then the command's time.  When the lease fails the
\* command is reported Failed, with its verdicts in place.
Finish ==
  /\ rc.pc = "write" /\ rc.todo = {} /\ rc' = Idle
  /\ claims' = [k \in Keys |-> IF k \in DOMAIN rc.plan THEN rc.plan[k].claims ELSE claims[k]]
  /\ LET cmd   == rc.cmd
         lease == [rev |-> cmd.rev, until |-> cmd.issued + EndpointTtl]
         next  == IF rc.ends = {} \/ cmd.op \notin {"block", "allow"} \/ rc.mac = None THEN leases
                  ELSE [leases EXCEPT ![rc.mac] = IF cmd.op = "block" THEN lease ELSE None]
     IN \/ /\ leases' = next /\ budget' = budget
           /\ cache' = [cache EXCEPT ![cmd.flow] = Recorded(@, cmd, DOMAIN rc.plan)]
        \/ /\ next # leases /\ May("fault") /\ Spend("fault")
           /\ leases' = leases /\ cache' = cache
  /\ UNCHANGED <<ct, map, state, gate, sweep, dropped, now>>

-----------------------------------------------------------------------------
(* The switches: policies, the reconciliation tick, the emergency marker.  *)

\* FlowVerdictWriter::reset.  When a delete fails the maps keep what is left and
\* stay disabled under the new generation.
Reset(generation, enabled, ok) ==
  LET empty == [m \in Macs |-> None] IN
  /\ claims' = NoClaims
  /\ state' = [on |-> ok /\ enabled, gen |-> generation]
  /\ \/ ok /\ map' = NoVerdicts /\ leases' = empty /\ budget' = budget
     \/ /\ ~ok /\ May("fault") /\ Spend("fault")
        /\ \/ map' = NoVerdicts /\ leases' = empty
           \/ /\ leases' = empty
              /\ \E k \in Keys : map[k] # None /\ map' = [NoVerdicts EXCEPT ![k] = map[k]]
           \/ /\ map' = NoVerdicts
              /\ \E m \in Macs : leases[m] # None /\ leases' = [empty EXCEPT ![m] = leases[m]]

NoReset == UNCHANGED <<map, leases, state, claims, budget>>

\* A snapshot, new or sent again, that the executor accepted (handle_frame).
Snapshot(rev, needs) ==
  LET g     == Noticed(gate)
      reset == g.ready /\ g.applied # rev
  IN /\ rc = Idle /\ ~gate.marker /\ rev \in {gate.saved, gate.saved + 1} \cap 1..budget.revision
     /\ rev = gate.saved => needs = gate.needs
     /\ \E ok \in BOOLEAN :
          /\ IF reset THEN Reset(rev, needs, ok) ELSE ok /\ NoReset
          /\ gate' = [g EXCEPT !.saved = rev, !.needs = needs, !.tracked = g.ready,
                               !.applied = IF ~ok THEN None ELSE IF reset THEN rev ELSE @,
                               !.commands = ok /\ needs /\ g.ready]
          /\ cache' = IF needs THEN cache ELSE [f \in Flows |-> None]
          /\ IF reset /\ ok THEN dropped' = {}
             ELSE Forgotten(IF needs THEN {} ELSE Flows)
     /\ UNCHANGED <<ct, rc, sweep, now>>

\* policy_tick: the saved policy is reconciled with the hooks as they are now ...
TickBegins ==
  /\ rc = Idle /\ ~gate.marker /\ gate.saved # 0
  /\ rc' = [pc |-> "tick", capable |-> gate.ready]
  /\ UNCHANGED <<ct, cache, claims, gate, sweep, budget, dropped, kernel, now>>

\* ... and the switches are set from the hooks as they are then.  A failed reset
\* ends the session with the switches as they were, but for the commands.
TickEnds ==
  LET g     == Noticed(gate)
      reset == g.ready /\ g.applied # g.saved
      on    == g.ready /\ ~g.marker
  IN /\ rc.pc = "tick" /\ rc' = Idle
     /\ \E ok \in BOOLEAN :
          /\ IF reset THEN Reset(g.saved, g.needs /\ rc.capable, ok) ELSE ok /\ NoReset
          /\ gate' = IF ok THEN [g EXCEPT !.applied = IF reset THEN g.saved ELSE @, !.tracked = on,
                                          !.commands = g.needs /\ on /\ rc.capable]
                     ELSE [g EXCEPT !.commands = FALSE]
          /\ dropped' = IF reset /\ ok THEN {} ELSE dropped
     /\ UNCHANGED <<ct, cache, sweep, now>>

\* (mutant) the switch counts as done even when the maps could not be emptied
EmergencyOnce ==
  /\ rc = Idle /\ gate.marker /\ (gate.tracked \/ gate.commands \/ ~gate.cleared)
  /\ \E ok \in BOOLEAN : IF gate.cleared THEN ok /\ NoReset ELSE Reset(0, FALSE, ok)
  /\ gate' = [gate EXCEPT !.tracked = FALSE, !.commands = FALSE, !.cleared = TRUE]
  /\ cache' = [f \in Flows |-> None] /\ dropped' = {}
  /\ UNCHANGED <<ct, rc, sweep, now>>

\* synchronize_emergency_disable, every second and before every frame
Emergency ==
  /\ rc = Idle /\ gate.marker /\ (gate.tracked \/ gate.commands \/ ~gate.cleared)
  /\ \E ok \in BOOLEAN :
       /\ IF gate.cleared THEN ok /\ NoReset ELSE Reset(0, FALSE, ok)
       /\ gate' = [gate EXCEPT !.tracked = FALSE, !.commands = FALSE, !.cleared = @ \/ ok]
       /\ IF ~gate.cleared /\ ok THEN cache' = [f \in Flows |-> None] /\ dropped' = {}
          ELSE UNCHANGED <<cache, dropped>>
  /\ UNCHANGED <<ct, rc, sweep, now>>

\* The operator writes and removes the marker.
Disable ==
  /\ ~gate.marker /\ gate' = [gate EXCEPT !.marker = TRUE] /\ May("stop") /\ Spend("stop")
  /\ UNCHANGED <<ct, cache, claims, rc, sweep, dropped, kernel, now>>

Enable ==
  /\ gate.marker /\ gate' = [gate EXCEPT !.marker = FALSE]
  /\ UNCHANGED <<ct, cache, claims, rc, sweep, budget, dropped, kernel, now>>

-----------------------------------------------------------------------------
(* The packet program and the clock.                                       *)

\* active_flow_verdict: an expired verdict, or one of another generation, is no
\* verdict; the program deletes it.  Generation 0 accepts all.
Current(v) == Live(v) /\ (state.gen = 0 \/ v.rev = state.gen)

\* The keys the connection's packets really have.
OnWire == IF nat = "redirect" THEN {Key("up", 1, "lan"), Key("proxy", 2, "lan")}
          ELSE {Key("up", 1, "lan"), Key("wan", 2, "wan"), Key("wanr", 1, "wan"), Key("down", 2, "lan")}

Packet(k) ==
  /\ gate.ready /\ k \in OnWire /\ map[k] # None /\ ~Current(map[k])
  /\ map' = [map EXCEPT ![k] = None]
  /\ UNCHANGED <<ct, cache, claims, leases, state, gate, rc, sweep, budget, dropped, now>>

ClockTick ==
  /\ May("tick") /\ Spend("tick") /\ now' = now + 1
  /\ UNCHANGED <<ct, cache, claims, gate, rc, sweep, dropped, kernel>>

Receiver == \/ ReadEntry \/ Stage \/ Write \/ Undo \/ Finish \/ TickEnds \/ Emergency

Next ==
  \/ \E f \in budget.flows : MarkEnded(f) \/ Prune(f) \/ \E mac \in budget.macs : Observe(f, mac)
  \/ ClearCache \/ RefreshConntrack \/ InterfacesChange \/ DeleteListed \/ Reattach
  \/ \E cmd \in Command : cmd.flow \in budget.flows /\ cmd.op \in budget.ops /\ Take(cmd)
  \/ \E rev \in 1..MaxRev, needs \in BOOLEAN : Snapshot(rev, needs)
  \/ Receiver \/ TickBegins \/ Disable \/ Enable \/ ClockTick
  \/ \E k \in Keys : Packet(k)

Spec == Init /\ [][Next]_vars

-----------------------------------------------------------------------------
(* Properties.                                                             *)

\* The values every variable may take (the records of flow_alias.rs,
\* flow_verdict.rs and the shared switches of receiver.rs), with the bounds on the
\* keys of an entry and on the registry of owners.
TypeOK ==
  /\ ct \in BOOLEAN /\ now \in 0..MaxNow
  /\ {budget.command, budget.change, budget.stop, budget.prune, budget.fault} \subseteq Nat
  /\ dropped \subseteq Flows
  /\ \A f \in Flows : cache[f] = None \/
       LET e == cache[f] IN
       /\ e.keys \subseteq Keys /\ f \in e.keys /\ Cardinality(e.keys) <= MaxAliases
       /\ e.verified \subseteq e.keys /\ e.unresolved \cap e.verified = {}
       /\ e.mac \in Macs \cup {None} /\ (e.conflict => e.mac = None /\ e.partial)
       /\ e.last \in 0..MaxNow \cup {None}
  /\ \A k \in Keys : /\ map[k] = None \/ (map[k].kind \in {"block", "shape"} /\ map[k].flow \in Flows)
                     /\ Cardinality(claims[k]) <= MaxOwners
  /\ MapThenSumSet(LAMBDA k : Cardinality(claims[k]), Keys) <= MaxClaims
  /\ state \in [on : BOOLEAN, gen : 0..MaxRev]
  /\ gate.saved \in 0..MaxRev /\ gate.applied \in {None} \cup 1..MaxRev
  /\ rc.pc \in {"idle", "read", "stage", "write", "undo", "tick"}
  /\ sweep = None \/ sweep \subseteq Keys

\* While commands are accepted, none is being written and the maps are of the
\* saved revision, every live block in the kernel's map belongs to a flow the
\* registry knows: no block is stranded (install_owned_block, clear_aliases).
BlockHasOwner ==
  gate.commands /\ state.gen = gate.saved /\ rc.pc \notin {"write", "undo"} =>
    \A k \in Keys : Live(map[k]) /\ map[k].kind = "block" => \E c \in claims[k] : Matches(c, map[k])

\* A revoke or an allow of one flow keeps a key blocked while another flow still
\* holds an unexpired claim on it (clear_aliases promotes that owner).  And a
\* command writes another flow's block only over a block: claims whose verdict
\* was replaced by a shape or removed from the map are never promoted again
\* ("must never be promoted again on a later revoke", install_shape).
OthersKeepTheirBlocks ==
  [][rc.pc = "write" /\ rc' # rc => \A k \in Keys :
       /\ rc.cmd.op \in {"allow", "revoke"} /\ (\E c \in Valid(claims[k], map[k]) : c.flow # rc.cmd.flow)
            => map'[k] # None /\ map'[k].kind = "block"
       /\ map'[k] # map[k] /\ map'[k] # None /\ map'[k].flow # rc.cmd.flow
            => rc.plan[k].prev # None /\ rc.plan[k].prev.kind = "block"]_vars

\* When a revoke or an allow is done, nothing in the map belongs to its flow any
\* more, whatever keys were learnt since the verdict was installed; a flow whose
\* entry was forgotten in between is the exception, its verdicts end by their lease.
RevokeIsClean ==
  [][rc.pc = "write" /\ rc.todo = {} /\ rc'.pc = "idle" /\ rc.cmd.op \in {"allow", "revoke"}
       /\ rc.cmd.flow \notin dropped
     => \A k \in Keys : map[k] # None => map[k].flow # rc.cmd.flow]_vars

\* While commands are accepted every verdict in the map is of the saved revision,
\* whatever interface changes, failed resets and emergency stops came in between:
\* the reset of handle_frame or of policy_tick came first.  And once the emergency
\* switch reports that it has acted, no verdict and no lease is left and no command
\* can add one (synchronize_emergency_disable).
MapsAreReset ==
  /\ gate.commands => \A k \in Keys : map[k] # None => map[k].rev = gate.saved
  /\ gate.marker /\ gate.cleared =>
       /\ \A k \in Keys : map[k] = None
       /\ \A m \in Macs : leases[m] = None

\* A command that is written was not overtaken: an applied command of the flow
\* that was issued later refuses it, unless the flow's entry was forgotten since
\* (command_is_stale against record_command).
NewestWins ==
  [][rc.pc = "write" /\ rc.todo = {} /\ rc'.pc = "idle" /\ rc.cmd.flow \notin dropped =>
       LET e == cache[rc.cmd.flow] IN e # None /\ e.last # None => e.last <= rc.cmd.issued]_vars

\* "Snapshots containing application rules are restored by the running Agent on its
\* next reconciliation tick, when its eBPF writer is available"
\* (docs/agent-cli-reference.md): a tick that lets commands in leaves the packet
\* program enforcing the saved revision.
TickRestores ==
  [][rc.pc = "tick" /\ rc'.pc = "idle" /\ gate'.commands
     => state'.on /\ state'.gen = gate'.saved]_vars

=============================================================================
