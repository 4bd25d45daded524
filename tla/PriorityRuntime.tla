-------------------------- MODULE PriorityRuntime --------------------------
(***************************************************************************)
(* The client budget backend of the Agent (crates/agent/src/linux/         *)
(* qos_priority_runtime.rs and qos_priority_maps.rs, policy/priority_*.rs).*)
(* It takes over the root queue of every LAN port, adds an intermediate    *)
(* device (ifb) with a queueing tree of its own, attaches classifiers, and *)
(* publishes a map from clients to classes.  A new process has to find out *)
(* what a killed one left behind, from the kernel and from four files.     *)
(* One Agent runs at a time; the service manager sees to it.               *)
(***************************************************************************)
EXTENDS Naturals, FiniteSets

CONSTANTS
  Ports,       \* the LAN ports
  Clients,     \* the clients, numbered in the order of their MAC addresses
  Snapshots,   \* the snapshots the Collector may send
  SlotCount,   \* client slots (SLOT_COUNT, 256 in the code)
  Capacity,    \* the largest rate a port carries
  None,        \* nothing there
  MaxFault,    \* commands and file operations that fail
  MaxCrash,    \* kills of the process
  MaxReboot,   \* reboots of the gateway
  MaxAdmin     \* root queues replaced by someone else

\* The content of priority-state.json.
State == [snap : Snapshots, lease : [Clients -> (0..(SlotCount - 1)) \cup {None}]]

ASSUME RuntimeAssumption ==
  /\ Clients \subseteq Nat /\ IsFiniteSet(Clients) /\ SlotCount \in Nat \ {0} /\ Capacity \in Nat
  /\ \A s \in Snapshots : s.rev \in Nat \ {0} /\ s.rate \in [Clients -> Nat]
  /\ None \notin Snapshots \cup State
  /\ MaxFault \in Nat /\ MaxCrash \in Nat /\ MaxReboot \in Nat /\ MaxAdmin \in Nat

VARIABLES
  root,      \* the root queue of each port
  ifb,       \* the intermediate device: absent, a bare link, with a tree
  filters,   \* attached: the Agent's hooks, the classifiers, the ifb observer
  pins,      \* a directory of pinned programs exists
  rates,     \* the rate of each client's class, 0 when it has none
  table,     \* the client map this process published: a snapshot, or None
  verdicts,  \* clients with a flow whose verdict names their class
  evidence,  \* priority-runtime.json
  record,    \* priority-recovery.json: a boot, while a recovery is under way
  state,     \* priority-state.json: the snapshot and the slots
  journal,   \* priority-journal.json exists
  disabled,  \* the emergency marker exists
  rt,        \* the process
  boot,      \* the current boot
  outcome,   \* how the last process ended
  faults, crashes, admins

vars == <<root, ifb, filters, pins, rates, table, verdicts, evidence, record, state, journal,
          disabled, rt, boot, outcome, faults, crashes, admins>>

kernel == <<root, ifb, filters, pins>>
queues == <<rates, table, verdicts>>
maps   == <<table, verdicts>>
files  == <<evidence, record, state, journal>>
limits == <<boot, crashes, admins>>

-----------------------------------------------------------------------------
(* What the kernel holds.                                                  *)

\* Roots the runtime can put back ("default" is what the kernel attaches when a
\* root is deleted), one it cannot, and its own: bare before the base classes
\* are added, tree afterwards.
Supported == {"fq", "fq2", "default"}
Root      == Supported \cup {"alien", "bare", "tree"}
IfbState  == {"none", "link", "bare", "tree"}

NoFilters == [hooks |-> FALSE, matcher |-> {}, observer |-> FALSE]
Attached(f) == f.matcher # {} \/ f.observer

\* inspect_owned_priority_resources fails on a tree it cannot recognise.
Unrecognised == (\E p \in Ports : root[p] = "bare") \/ ifb \in {"link", "bare"}
OwnedPorts   == {p \in Ports : root[p] = "tree"}
NothingOwned == OwnedPorts = {} /\ ifb = "none" /\ filters = NoFilters /\ ~pins

\* safe_preflight_fallback: the other backend may take over when no file and no
\* resource of this one is left.
SafeFallback ==
  /\ state = None /\ ~journal /\ evidence = None /\ record = None
  /\ ~Unrecognised /\ NothingOwned

-----------------------------------------------------------------------------
(* Slots: priority_slots::allocate.                                        *)

NoLease == [c \in Clients |-> None]
Selected(s) == {c \in Clients : s.rate[c] # 0}
Free(lease) == {n \in 0..(SlotCount - 1) : \A c \in Clients : lease[c] # n}
Joining(s, lease) == {c \in Selected(s) : lease[c] = None}

\* A mutant that takes the slots of clients the snapshot no longer names.
AllocateReusing(s, lease) ==
  LET kept == [c \in Clients |-> IF c \in Selected(s) THEN lease[c] ELSE None]
      slot(c) == CHOOSE n \in Free(kept) :
                   Cardinality({m \in Free(kept) : m < n})
                     = Cardinality({d \in Joining(s, kept) : d < c})
  IN [c \in Clients |-> IF c \in Joining(s, kept) THEN slot(c) ELSE kept[c]]

\* Every new client gets the lowest slot nobody has ever had.
Allocate(s, lease) ==
  LET slot(c) == CHOOSE n \in Free(lease) :
                   Cardinality({m \in Free(lease) : m < n})
                     = Cardinality({d \in Joining(s, lease) : d < c})
  IN [c \in Clients |-> IF c \in Joining(s, lease) THEN slot(c) ELSE lease[c]]
Allocatable(s, lease) == Cardinality(Joining(s, lease)) <= Cardinality(Free(lease))

\* PriorityPlan::build refuses a rate above the capacity of the port.
Buildable(s) == \A c \in Clients : s.rate[c] <= Capacity

-----------------------------------------------------------------------------
(* The process.                                                            *)

Pc == {"down", "preflight", "inspect", "filters", "pins", "roots", "putback", "ifbroot",
       "ifblink", "recovered", "gate", "hooks", "link", "tree", "base", "port", "portbase",
       "pin", "attach", "observe", "active", "detach", "remove", "restore", "dellink",
       "stop", "startup", "running", "install", "publish", "persist", "undo", "commit", "prune"}

\* pc; the ports still to do and the one being done; the roots captured; whether
\* an error was met; the state in memory, the one being replaced and the one to
\* come; force_reapply, emergency_disabled, PriorityMaps.poisoned; whether the map
\* could not be put back; why an apply runs and the map before it; flow_commands_enabled and
\* applied_flow_snapshot.
Stopped == [pc |-> "down", todo |-> {}, at |-> None, orig |-> [p \in Ports |-> None],
            final |-> FALSE, errs |-> FALSE, active |-> None, old |-> None, next |-> None,
            force |-> FALSE, off |-> FALSE, poisoned |-> FALSE, stuck |-> FALSE, how |-> None,
            before |-> None, flows |-> FALSE, mark |-> None]

Goto(pc) == rt' = [rt EXCEPT !.pc = pc]
Fault == faults < MaxFault /\ faults' = faults + 1
FailsWhen(cond) == IF cond THEN UNCHANGED faults ELSE Fault

\* The process is gone: its maps go with it, its netlink filters only when it
\* returns from main.
Exit(result) ==
  /\ rt' = Stopped /\ table' = None /\ verdicts' = {} /\ outcome' = result

\* write_evidence lists the queues of the ifb first, which fails while there is
\* no such device.
Evidence(ev) ==
  IF ifb = "none" THEN ev ELSE [boot |-> boot, roots |-> rt.orig]

\* prepare, up to the recovery: a gateway that cannot run this backend falls
\* back to the other one, unless something of this one is left.
Start ==
  /\ rt.pc = "down"
  /\ rt' = [Stopped EXCEPT !.pc = "preflight"]
  /\ outcome' = "alive"
  /\ UNCHANGED <<kernel, queues, files, disabled, faults, limits>>

Preflight ==
  /\ rt.pc = "preflight"
  /\ LET unfit == SafeFallback /\ \E p \in Ports : root[p] = "alien" IN
     \/ /\ ~unfit /\ Goto("inspect") /\ UNCHANGED <<faults, maps, outcome>>
     \/ /\ FailsWhen(unfit) /\ Exit(IF SafeFallback THEN "legacy" ELSE "refused")
  /\ UNCHANGED <<kernel, rates, files, disabled, limits>>

\* recover_stale_priority_resources, which reads the evidence and the kernel and
\* leaves another boot alone.
Inspect ==
  /\ rt.pc = "inspect"
  /\ \/ /\ evidence # None /\ evidence.boot # boot
        /\ Goto("gate") /\ UNCHANGED <<record, journal, maps, outcome>>
     \/ /\ evidence # None => evidence.boot = boot
        /\ IF Unrecognised THEN Exit("refused") /\ UNCHANGED <<record, journal>>
           ELSE /\ UNCHANGED <<maps, outcome>>
                /\ IF ~NothingOwned
                   THEN record' = boot /\ Goto("filters") /\ UNCHANGED journal
                   ELSE /\ Goto("gate")
                        /\ IF record = boot THEN record' = 0 /\ journal' = FALSE
                           ELSE UNCHANGED <<record, journal>>
  /\ UNCHANGED <<kernel, rates, evidence, state, disabled, faults, limits>>

-----------------------------------------------------------------------------
(* execute_recovery_plan.                                                  *)

\* Some of the filters may be gone when a command fails.
FewerFilters == [hooks : {filters.hooks, FALSE}, matcher : SUBSET filters.matcher,
                 observer : {filters.observer, FALSE}]

RecoverFilters ==
  /\ rt.pc = "filters"
  /\ \/ filters' = NoFilters /\ Goto("pins") /\ UNCHANGED <<faults, maps, outcome>>
     \/ Fault /\ filters' \in FewerFilters /\ Exit("refused")
  /\ UNCHANGED <<root, ifb, pins, rates, files, disabled, limits>>

\* A mutant that forgets the pinned programs.
RecoverNoPins ==
  /\ rt.pc = "pins"
  /\ rt' = [rt EXCEPT !.pc = "roots", !.todo = OwnedPorts]
  /\ UNCHANGED <<kernel, queues, files, disabled, outcome, faults, limits>>

RecoverPins ==
  /\ rt.pc = "pins"
  /\ \/ /\ pins' = FALSE /\ rt' = [rt EXCEPT !.pc = "roots", !.todo = OwnedPorts]
        /\ UNCHANGED <<faults, maps, outcome>>
     \/ Fault /\ pins' \in {pins, FALSE} /\ Exit("refused")
  /\ UNCHANGED <<root, ifb, filters, rates, files, disabled, limits>>

\* delete_owned_root looks again before it deletes; the original comes back in a
\* second command, when the evidence has it.
RecoverRoot ==
  /\ rt.pc = "roots" /\ rt.todo # {}
  /\ \E p \in rt.todo :
       \/ /\ root[p] = "tree"
          /\ root' = [root EXCEPT ![p] = "default"]
          /\ rt' = IF evidence = None THEN [rt EXCEPT !.todo = @ \ {p}]
                   ELSE [rt EXCEPT !.todo = @ \ {p}, !.at = p, !.pc = "putback"]
          /\ UNCHANGED <<faults, maps, outcome>>
       \/ /\ FailsWhen(root[p] # "tree") /\ Exit("refused") /\ UNCHANGED root
  /\ UNCHANGED <<ifb, filters, pins, rates, files, disabled, limits>>

RecoverOriginal ==
  /\ rt.pc = "putback"
  /\ \/ /\ root' = [root EXCEPT ![rt.at] = evidence.roots[rt.at]]
        /\ rt' = [rt EXCEPT !.pc = "roots", !.at = None] /\ UNCHANGED <<faults, maps, outcome>>
     \/ Fault /\ Exit("refused") /\ UNCHANGED root
  /\ UNCHANGED <<ifb, filters, pins, rates, files, disabled, limits>>

\* remove_owned_ifb deletes the tree, then the link.
RecoverIfb ==
  /\ \/ rt.pc = "roots" /\ rt.todo = {}
     \/ rt.pc = "ifblink"
  /\ \/ /\ ifb = "none" /\ Goto("recovered") /\ UNCHANGED <<ifb, faults, maps, outcome>>
     \/ /\ ifb = "tree" /\ ifb' = "link" /\ Goto("ifblink") /\ UNCHANGED <<faults, maps, outcome>>
     \/ /\ ifb = "link" /\ ifb' = "none" /\ Goto("recovered") /\ UNCHANGED <<faults, maps, outcome>>
     \/ /\ ifb # "none" /\ Fault /\ Exit("refused") /\ UNCHANGED ifb
  /\ UNCHANGED <<root, filters, pins, rates, files, disabled, limits>>

\* The transaction the dead process may have left open is closed with its trees.
Recovered ==
  /\ rt.pc = "recovered"
  /\ \/ /\ journal' = FALSE /\ record' = 0 /\ Goto("gate") /\ UNCHANGED <<faults, maps, outcome>>
     \/ journal /\ Fault /\ Exit("refused") /\ UNCHANGED <<journal, record>>
  /\ UNCHANGED <<kernel, rates, evidence, state, disabled, limits>>

-----------------------------------------------------------------------------
(* The rest of prepare, and activate.                                      *)

Fresh == UNCHANGED <<rates, files, disabled, limits>>
Going == UNCHANGED <<faults, maps, outcome>>

\* A mutant that captures a root it cannot put back.
GateAnyRoot ==
  /\ rt.pc = "gate"
  /\ IF ~journal /\ filters = NoFilters /\ ifb = "none"
     THEN rt' = [rt EXCEPT !.pc = "hooks", !.orig = root] /\ UNCHANGED <<maps, outcome>>
     ELSE Exit("refused")
  /\ UNCHANGED <<kernel, rates, files, disabled, faults, limits>>

\* An open transaction, a filter, an ifb, or a root that could not be put back
\* stops the start; otherwise the roots are captured.
Gate ==
  /\ rt.pc = "gate"
  /\ IF ~journal /\ filters = NoFilters /\ ifb = "none" /\ \A p \in Ports : root[p] \in Supported
     THEN /\ rt' = [rt EXCEPT !.pc = "hooks", !.orig = root]
          /\ evidence' = Evidence(evidence) /\ UNCHANGED <<maps, outcome>>
     ELSE Exit("refused") /\ UNCHANGED evidence
  /\ UNCHANGED <<kernel, rates, record, state, journal, disabled, faults, limits>>

\* The Agent attaches its own hooks; they are detached when it returns.
Hooks ==
  /\ rt.pc = "hooks"
  /\ \/ filters' = [filters EXCEPT !.hooks = TRUE] /\ Goto("link") /\ Going
     \/ Fault /\ Exit("refused") /\ UNCHANGED filters
  /\ UNCHANGED <<root, ifb, pins>> /\ Fresh

\* A failed step of the set-up undoes the ports it had taken.
Undo(taken) == [rt EXCEPT !.pc = "remove", !.todo = taken, !.final = FALSE, !.errs = TRUE]
Taken == {p \in Ports : root[p] \in {"bare", "tree"}}

\* create_owned_queues: the link, the root of the ifb, its base classes.
CreateIfb ==
  /\ \/ /\ rt.pc = "link" /\ ifb' = "link" /\ Goto("tree") /\ Going /\ UNCHANGED rates
     \/ /\ rt.pc = "tree" /\ ifb' = "bare" /\ rates' = [c \in Clients |-> 0]
        /\ Goto("base") /\ Going
     \/ /\ rt.pc = "base" /\ ifb' = "tree" /\ rt' = [rt EXCEPT !.pc = "port", !.todo = Ports]
        /\ Going /\ UNCHANGED rates
     \/ /\ rt.pc \in {"link", "tree", "base"} /\ Fault /\ rt' = Undo({})
        /\ UNCHANGED <<ifb, rates, maps, outcome>>
  /\ UNCHANGED <<root, filters, pins, files, disabled, limits>>

\* add_root replaces the root of a port, after checking that it is still the
\* one that was captured.
TakePort ==
  /\ rt.pc = "port" /\ rt.todo # {}
  /\ LET p == CHOOSE q \in rt.todo : TRUE IN
     \/ /\ root[p] = rt.orig[p]
        /\ root' = [root EXCEPT ![p] = "bare"]
        /\ rt' = [rt EXCEPT !.pc = "portbase", !.at = p, !.todo = @ \ {p}] /\ Going
     \/ /\ FailsWhen(root[p] # rt.orig[p]) /\ rt' = Undo(Taken)
        /\ UNCHANGED <<root, maps, outcome>>
  /\ UNCHANGED <<ifb, filters, pins>> /\ Fresh

\* install_tree_base.
TreeBase ==
  /\ rt.pc = "portbase"
  /\ \/ /\ root[rt.at] = "bare" /\ root' = [root EXCEPT ![rt.at] = "tree"]
        /\ rt' = [rt EXCEPT !.pc = "port", !.at = None] /\ Going
     \/ /\ FailsWhen(root[rt.at] # "bare") /\ rt' = [Undo(Taken \cup {rt.at}) EXCEPT !.at = None]
        /\ UNCHANGED <<root, maps, outcome>>
  /\ UNCHANGED <<ifb, filters, pins>> /\ Fresh

\* verify_owned_queues and configure_classifier_maps, then the pin directory.
Pin ==
  /\ rt.pc = "port" /\ rt.todo = {}
  /\ \/ /\ ~pins /\ \A p \in Ports : root[p] = "tree"
        /\ pins' = TRUE /\ Goto("attach") /\ Going
     \/ /\ FailsWhen(pins \/ \E p \in Ports : root[p] # "tree") /\ rt' = Undo(Ports)
        /\ UNCHANGED <<pins, maps, outcome>>
  /\ UNCHANGED <<root, ifb, filters>> /\ Fresh

\* The classifier of every port, then the observer of the ifb, then the evidence.
Attach ==
  /\ \/ /\ rt.pc = "attach" /\ filters' = [filters EXCEPT !.matcher = Ports]
        /\ Goto("observe") /\ Going /\ UNCHANGED evidence
     \/ /\ rt.pc = "observe" /\ filters' = [filters EXCEPT !.observer = TRUE]
        /\ Goto("active") /\ Going /\ UNCHANGED evidence
     \/ /\ rt.pc = "active" /\ evidence' = Evidence(evidence)
        /\ rt' = [rt EXCEPT !.pc = "startup"]
        /\ Going /\ UNCHANGED filters
     \/ /\ rt.pc \in {"attach", "observe", "active"} /\ Fault /\ Goto("detach")
        /\ \/ UNCHANGED filters
           \/ \E on \in SUBSET Ports :
                rt.pc = "attach" /\ filters' = [filters EXCEPT !.matcher = on]
        /\ UNCHANGED <<evidence, maps, outcome>>
  /\ UNCHANGED <<root, ifb, pins, rates, record, state, journal, disabled, limits>>

-----------------------------------------------------------------------------
(* rollback_activation, rollback_prepare, shutdown and Drop.               *)

Bare(f) == [f EXCEPT !.matcher = {}, !.observer = FALSE]
Hookless(f) == [f EXCEPT !.hooks = FALSE]
FewerAttached == {f \in FewerFilters : f.hooks = filters.hooks}

RollbackActivation ==
  /\ rt.pc = "detach"
  /\ \/ filters' = Bare(filters) /\ pins' = FALSE /\ rt' = Undo(Ports) /\ Going
     \/ /\ Fault /\ filters' \in FewerAttached /\ pins' = (pins /\ Attached(filters'))
        /\ Goto("stop") /\ UNCHANGED <<maps, outcome>>
  /\ UNCHANGED <<root, ifb>> /\ Fresh

\* A mutant that removes a root whoever owns it.
RemoveAnyRoot ==
  /\ rt.pc = "remove" /\ rt.todo # {}
  /\ LET p == CHOOSE q \in rt.todo : TRUE IN
     /\ root' = [root EXCEPT ![p] = "default"]
     /\ rt' = [rt EXCEPT !.pc = "restore", !.at = p, !.todo = @ \ {p}]
  /\ Going /\ UNCHANGED <<ifb, filters, pins>> /\ Fresh

\* remove_owned_root: only a root with the runtime's own handle.
RemoveRoot ==
  /\ rt.pc = "remove" /\ rt.todo # {}
  /\ LET p == CHOOSE q \in rt.todo : TRUE IN
     \/ /\ root[p] \in {"bare", "tree"}
        /\ root' = [root EXCEPT ![p] = "default"]
        /\ rt' = [rt EXCEPT !.pc = "restore", !.at = p, !.todo = @ \ {p}] /\ Going
     \/ /\ FailsWhen(root[p] \notin {"bare", "tree"})
        /\ rt' = [rt EXCEPT !.todo = @ \ {p}, !.errs = TRUE]
        /\ UNCHANGED <<root, maps, outcome>>
  /\ UNCHANGED <<ifb, filters, pins>> /\ Fresh

\* A mutant that leaves the default root in place.
RestoreNothing ==
  /\ rt.pc = "restore"
  /\ rt' = [rt EXCEPT !.pc = "remove", !.at = None]
  /\ Going /\ UNCHANGED <<root, ifb, filters, pins>> /\ Fresh

\* restore_original_root.
RestoreRoot ==
  /\ rt.pc = "restore"
  /\ \/ /\ root' = [root EXCEPT ![rt.at] = rt.orig[rt.at]]
        /\ rt' = [rt EXCEPT !.pc = "remove", !.at = None] /\ Going
     \/ /\ Fault /\ rt' = [rt EXCEPT !.pc = "remove", !.at = None, !.errs = TRUE]
        /\ UNCHANGED <<root, maps, outcome>>
  /\ UNCHANGED <<ifb, filters, pins>> /\ Fresh

\* The root of the ifb goes after those of the ports.
RemoveIfbRoot ==
  /\ rt.pc = "remove" /\ rt.todo = {}
  /\ \/ /\ ifb' = (IF ifb \in {"bare", "tree"} THEN "link" ELSE ifb) /\ Goto("dellink") /\ Going
     \/ /\ ifb \in {"bare", "tree"} /\ Fault /\ rt' = [rt EXCEPT !.pc = "dellink", !.errs = TRUE]
        /\ UNCHANGED <<ifb, maps, outcome>>
  /\ UNCHANGED <<root, filters, pins>> /\ Fresh

\* A rollback deletes the link whatever failed before and goes on to shutdown;
\* shutdown deletes it only when nothing failed.  Then the process returns.
DeleteLink ==
  /\ rt.pc = "dellink"
  /\ \/ /\ ~rt.final /\ ifb' = "none" /\ Goto("stop") /\ Going /\ UNCHANGED filters
     \/ /\ ~rt.final /\ ifb # "none" /\ Fault /\ Goto("stop")
        /\ UNCHANGED <<ifb, filters, maps, outcome>>
     \/ /\ rt.final /\ ~rt.errs /\ ifb' = "none" /\ filters' = Hookless(filters)
        /\ Exit("clean") /\ UNCHANGED faults
     \/ /\ rt.final /\ FailsWhen(rt.errs) /\ filters' = Hookless(filters)
        /\ Exit("dirty") /\ UNCHANGED ifb
  /\ UNCHANGED <<root, pins>> /\ Fresh

\* shutdown up to the roots: an empty map, no filters, no pins, drained queues
\* and a last evidence.  On an error the roots stay and Drop tries the filters
\* again.
Stop ==
  /\ rt.pc = "stop"
  /\ \/ /\ ifb = "tree" /\ ~rt.poisoned
        /\ table' = None /\ filters' = Bare(filters) /\ pins' = FALSE
        /\ evidence' = Evidence(evidence)
        /\ rt' = [rt EXCEPT !.pc = "remove", !.todo = Ports, !.final = TRUE, !.errs = FALSE]
        /\ UNCHANGED <<verdicts, faults, outcome>>
     \/ /\ FailsWhen(ifb # "tree" \/ rt.poisoned)
        /\ \E f \in IF ifb # "tree" \/ rt.poisoned THEN {Bare(filters)} ELSE FewerAttached :
             filters' = Hookless(f) /\ pins' = (pins /\ Attached(f))
        /\ evidence' = Evidence(evidence)
        /\ Exit("dirty")
  /\ UNCHANGED <<root, ifb, rates, record, state, journal, disabled, limits>>

\* SIGTERM: the receiver is joined first, so no apply is under way.
Shutdown ==
  /\ rt.pc = "running" /\ Goto("stop")
  /\ UNCHANGED <<kernel, queues, files, disabled, outcome, faults, limits>>

-----------------------------------------------------------------------------
(* apply: one snapshot at a time, under the lock of the runtime.           *)

Trees == ifb = "tree" /\ \A p \in Ports : root[p] = "tree"
SnapOf(st) == IF st = None THEN None ELSE st.snap
LeaseOf(st) == IF st = None THEN NoLease ELSE st.lease

\* load_state: the state in memory before the file.
Known == IF rt.active # None THEN rt.active ELSE state

\* What the caller does with a refusal, and with an acceptance.
Failed(r, how) == [r EXCEPT !.pc = "running", !.old = None, !.next = None, !.before = None,
                            !.how = None, !.stuck = FALSE, !.flows = @ /\ how # "reconcile"]
Accepted(r, how) == [r EXCEPT !.pc = IF how = "startup" THEN "running" ELSE "prune",
                              !.old = None, !.next = None, !.before = None, !.how = how]

\* emergency_disable: clients are no longer looked up, the trees stay.
Disable(r) == [r EXCEPT !.force = TRUE, !.off = TRUE]

\* apply up to the journal.  r is the process as the caller left it.
Begin(r, s, how, old) ==
  \/ /\ disabled
     /\ IF r.off \/ r.poisoned THEN UNCHANGED table /\ rt' = Failed(r, how)
        ELSE table' = None /\ rt' = Failed(Disable(r), how)
     /\ UNCHANGED <<journal, faults>>
  \/ /\ ~disabled
     /\ UNCHANGED table
     /\ LET q == [r EXCEPT !.off = FALSE] IN
        \/ /\ old # None /\ s.rev < old.snap.rev
           /\ rt' = Failed(q, how) /\ UNCHANGED <<journal, faults>>
        \/ /\ old # None /\ s = old.snap /\ ~q.force
           /\ rt' = Accepted([q EXCEPT !.active = old], how)
           /\ UNCHANGED <<journal, faults>>
        \/ /\ old # None => s.rev > old.snap.rev \/ (s = old.snap /\ q.force)
           /\ LET ok == Allocatable(s, LeaseOf(old)) /\ Buildable(s) /\ ~q.poisoned IN
              \/ /\ ok /\ journal' = TRUE /\ UNCHANGED faults
                 /\ rt' = [q EXCEPT !.pc = "install", !.old = old, !.how = how,
                                    !.next = [snap |-> s, lease |-> Allocate(s, LeaseOf(old))],
                                    !.before = table]
              \/ FailsWhen(~ok) /\ rt' = Failed(q, how) /\ UNCHANGED journal

Applying == UNCHANGED <<kernel, rates, verdicts, evidence, record, state, disabled, outcome, limits>>

\* restore_local, when the process starts.
RestoreLocal ==
  /\ rt.pc = "startup"
  /\ IF state = None THEN Goto("running") /\ UNCHANGED <<table, journal, faults>>
     ELSE Begin([rt EXCEPT !.force = TRUE, !.active = state], state.snap, "startup", state)
  /\ Applying

\* handle_frame, for a snapshot.
Receive ==
  /\ rt.pc = "running"
  /\ \E s \in Snapshots : Begin(rt, s, "snapshot", Known)
  /\ Applying

\* reconcile_saved, on the receiver's timer.
ReconcileSaved ==
  /\ rt.pc = "running" /\ Known # None
  /\ Begin([rt EXCEPT !.force = @ \/ rt.active = None], Known.snap, "reconcile", Known)
  /\ Applying

\* The rates of s over those that are there.
Over(s) == [c \in Clients |-> IF s # None /\ s.rate[c] # 0 THEN s.rate[c] ELSE rates[c]]

\* install_plan replaces the classes one by one.
InstallPlan ==
  /\ rt.pc = "install"
  /\ \/ Trees /\ rates' = Over(rt.next.snap) /\ Goto("publish") /\ UNCHANGED faults
     \/ /\ FailsWhen(~Trees) /\ Goto("undo")
        /\ \E done \in SUBSET Clients :
             rates' = [c \in Clients |-> IF c \in done THEN Over(rt.next.snap)[c] ELSE rates[c]]
  /\ UNCHANGED <<kernel, maps, files, disabled, outcome, limits>>

\* PriorityMaps::publish replaces the outer entry, or puts the old one back; what
\* makes the first update or its readback fail may also fail the second.
Publish ==
  /\ rt.pc = "publish"
  /\ \/ table' = rt.next.snap /\ Goto("persist") /\ UNCHANGED faults
     \/ Fault /\ Goto("undo") /\ UNCHANGED table
     \/ /\ Fault /\ table' \in {table, rt.next.snap}
        /\ rt' = [rt EXCEPT !.pc = "undo", !.poisoned = TRUE]
  /\ UNCHANGED <<kernel, rates, verdicts, files, disabled, outcome, limits>>

\* persist_state; when it fails the map goes back first.
Persist ==
  /\ rt.pc = "persist"
  /\ \/ state' = rt.next /\ Goto("commit") /\ UNCHANGED <<faults, table>>
     \/ /\ Fault /\ UNCHANGED state
        /\ \/ table' = rt.before /\ Goto("undo")
           \/ /\ table' \in {table, rt.before}
              /\ rt' = [rt EXCEPT !.pc = "undo", !.poisoned = TRUE, !.stuck = TRUE]
  /\ UNCHANGED <<kernel, rates, verdicts, evidence, record, journal, disabled, outcome, limits>>

\* A mutant that forgets the classes of the state it returns to.
RestoreNoRates ==
  /\ rt.pc = "undo" /\ rt' = Failed(rt, rt.how) /\ journal' = FALSE
  /\ UNCHANGED <<kernel, rates, maps, evidence, record, state, disabled, outcome, faults, limits>>

\* restore_rates; the journal goes when this succeeds and the map is the old one
\* or was never replaced.
RestoreRates ==
  /\ rt.pc = "undo" /\ rt' = Failed(rt, rt.how)
  /\ \/ Trees /\ rates' = Over(SnapOf(rt.old)) /\ journal' = rt.stuck /\ UNCHANGED faults
     \/ FailsWhen(~Trees) /\ UNCHANGED <<rates, journal>>
  /\ UNCHANGED <<kernel, maps, evidence, record, state, disabled, outcome, limits>>

\* The state in memory, the journal, and the evidence, whose failure fails the
\* whole apply although the state is committed.
Commit ==
  /\ rt.pc = "commit"
  /\ LET done == [rt EXCEPT !.active = rt.next, !.force = FALSE] IN
     \/ /\ rt' = Accepted(done, rt.how)
        /\ journal' = FALSE /\ evidence' = Evidence(evidence) /\ UNCHANGED faults
     \/ /\ Fault /\ journal' = FALSE /\ UNCHANGED evidence /\ rt' = Failed(done, rt.how)
     \/ /\ Fault /\ UNCHANGED journal /\ evidence' = Evidence(evidence) /\ rt' = Accepted(done, rt.how)
  /\ UNCHANGED <<kernel, queues, record, state, disabled, outcome, limits>>

Live(s) == [c \in Clients |-> IF s.rate[c] = 0 THEN 0 ELSE rates[c]]
Marked(flows, mark) == rt' = [rt EXCEPT !.pc = "running", !.how = None, !.flows = flows, !.mark = mark]

\* A mutant that prunes although the verdicts could not be reset.
PruneUnreset ==
  /\ rt.pc = "prune" /\ Marked(TRUE, rt.active.snap) /\ rates' = Live(rt.active.snap)
  /\ UNCHANGED <<kernel, maps, files, disabled, outcome, faults, limits>>

\* What the receiver does after an acceptance: the verdicts of the flows are
\* reset unless that was done for this snapshot, and after a snapshot from the
\* Collector prune_unused_classes_after_flow_reset removes the classes nobody has.
Prune ==
  /\ rt.pc = "prune"
  /\ LET s == rt.active.snap IN
     \/ /\ verdicts' = IF rt.mark = s THEN verdicts ELSE {}
        /\ Marked(TRUE, s)
        /\ \/ Trees /\ rt.how = "snapshot" /\ rates' = Live(s) /\ UNCHANGED faults
           \/ FailsWhen(~Trees \/ rt.how = "reconcile") /\ UNCHANGED rates
     \/ rt.mark # s /\ Fault /\ verdicts' \in {verdicts, {}} /\ Marked(FALSE, None) /\ UNCHANGED rates
  /\ UNCHANGED <<kernel, table, files, disabled, outcome, limits>>

\* A flow verdict is written with the class of its client; the references are
\* checked against the active state under the same lock.
WriteVerdict ==
  /\ rt.pc = "running" /\ rt.flows /\ ~rt.off /\ ~disabled
  /\ \E c \in Selected(rt.active.snap) : verdicts' = verdicts \cup {c}
  /\ UNCHANGED <<kernel, rates, table, files, disabled, rt, outcome, faults, limits>>

\* The marker is created or removed by an operator, and seen by the receiver.
Marker ==
  /\ disabled' = ~disabled
  /\ UNCHANGED <<kernel, queues, files, rt, outcome, faults, limits>>

EmergencyDisable ==
  /\ rt.pc = "running" /\ disabled /\ ~rt.off
  /\ \/ /\ ~rt.poisoned /\ table' = None /\ verdicts' = {} /\ UNCHANGED faults
        /\ rt' = [Disable(rt) EXCEPT !.flows = FALSE, !.mark = None]
     \/ FailsWhen(rt.poisoned) /\ verdicts' \in {verdicts, {}} /\ UNCHANGED <<table, rt>>
  /\ UNCHANGED <<kernel, rates, files, disabled, outcome, limits>>

-----------------------------------------------------------------------------
(* The surroundings.                                                       *)

\* The process is killed: its filters, queues and pins stay.
Crash ==
  /\ rt.pc # "down" /\ crashes < MaxCrash /\ crashes' = crashes + 1
  /\ Exit("killed")
  /\ UNCHANGED <<kernel, rates, files, disabled, faults, boot, admins>>

\* A reboot empties the kernel and, on OpenWrt, /tmp, where the evidence and the
\* record are; the state and the journal are on flash.
Reboot ==
  /\ boot <= MaxReboot /\ boot' = boot + 1
  /\ Exit("killed")
  /\ root' = [p \in Ports |-> "fq"] /\ ifb' = "none" /\ filters' = NoFilters /\ pins' = FALSE
  /\ rates' = [c \in Clients |-> 0]
  /\ \/ evidence' = None /\ record' = None
     \/ UNCHANGED <<evidence, record>>
  /\ UNCHANGED <<state, journal, disabled, faults, crashes, admins>>

\* Someone else replaces the root of a port.
AdminReplaces ==
  /\ admins < MaxAdmin /\ admins' = admins + 1
  /\ \E p \in Ports, q \in {"fq2", "alien"} : root[p] # q /\ root' = [root EXCEPT ![p] = q]
  /\ UNCHANGED <<ifb, filters, pins, queues, files, disabled, rt, outcome, faults, boot, crashes>>

Init ==
  /\ root = [p \in Ports |-> "fq"] /\ ifb = "none" /\ filters = NoFilters /\ pins = FALSE
  /\ rates = [c \in Clients |-> 0] /\ table = None /\ verdicts = {}
  /\ evidence = None /\ record = None /\ state = None /\ journal = FALSE
  /\ disabled = FALSE /\ rt = Stopped /\ boot = 1 /\ outcome = "none"
  /\ faults = 0 /\ crashes = 0 /\ admins = 0

Process ==
  \/ Start \/ Preflight \/ Inspect
  \/ RecoverFilters \/ RecoverPins \/ RecoverRoot \/ RecoverOriginal \/ RecoverIfb \/ Recovered
  \/ Gate \/ Hooks \/ CreateIfb \/ TakePort \/ TreeBase \/ Pin \/ Attach
  \/ RollbackActivation \/ RemoveRoot \/ RestoreRoot \/ RemoveIfbRoot \/ DeleteLink \/ Stop
  \/ RestoreLocal \/ InstallPlan \/ Publish \/ Persist \/ RestoreRates \/ Commit \/ Prune

Next ==
  \/ Process
  \/ Shutdown \/ Receive \/ ReconcileSaved \/ WriteVerdict \/ EmergencyDisable
  \/ Marker \/ Crash \/ Reboot \/ AdminReplaces

Spec == Init /\ [][Next]_vars

-----------------------------------------------------------------------------
(* Properties.                                                             *)

Written == [boot : Nat, roots : [Ports -> Root]]

\* The variables have their types.
TypeOK ==
  /\ root \in [Ports -> Root] /\ ifb \in IfbState /\ pins \in BOOLEAN
  /\ filters \in [hooks : BOOLEAN, matcher : SUBSET Ports, observer : BOOLEAN]
  /\ rates \in [Clients -> Nat] /\ table \in Snapshots \cup {None} /\ verdicts \subseteq Clients
  /\ evidence \in Written \cup {None} /\ record \in Nat \cup {None}
  /\ state \in State \cup {None} /\ journal \in BOOLEAN /\ disabled \in BOOLEAN
  /\ rt.pc \in Pc /\ rt.active \in State \cup {None} /\ rt.next \in State \cup {None}
  /\ \A p \in Ports : rt.orig[p] \in Supported \cup {None}

\* A root queue somebody else put on a port is never deleted or replaced: the
\* runtime takes a port only while its root is the one it captured, and removes
\* only its own (add_root, remove_owned_root, delete_owned_root).
ForeignRootStands ==
  [][\A p \in Ports : root'[p] # root[p] =>
       \/ root[p] \in {"bare", "tree"}
       \/ rt.pc = "port" /\ root[p] = rt.orig[p]
       \/ p = rt.at
       \/ admins' # admins \/ boot' # boot]_vars

\* A shutdown that reports success has put everything back: the root of every
\* port is the one captured at the start, and no device, filter or pinned
\* program of the runtime is left (PriorityRuntime::shutdown).
CleanExit ==
  [][outcome' = "clean" /\ outcome # "clean" =>
       /\ ifb' = "none" /\ filters' = NoFilters /\ ~pins'
       /\ \A p \in Ports : root'[p] = rt.orig[p] \/ admins > 0]_vars

\* A process sets up its trees only when nothing of an earlier process is left,
\* whatever step that one was killed in (recover_stale_priority_resources and
\* the checks at the end of prepare).
StartsFromNothing ==
  rt.pc = "hooks" => NothingOwned /\ ~journal /\ \A p \in Ports : root[p] # "bare"

\* Between two applies, whichever step of one failed, the published map, the state
\* in memory and the state on disk are the same snapshot; and while the trees are
\* in place and the rollback of the classes did not fail, every client in the map
\* has a class with its rate: classes are installed before the map and put back
\* when a later step fails.
PublishedIsActive ==
  rt.pc = "running" /\ table # None /\ ~rt.poisoned =>
    /\ rt.active # None /\ table = rt.active.snap /\ state = rt.active
    /\ Trees /\ ~journal => \A c \in Selected(table) : rates[c] = table.rate[c]

\* No flow verdict names a class that was deleted: classes are pruned only after
\* the verdicts were reset (prune_unused_classes_after_flow_reset).
VerdictHasClass == rt.pc = "running" /\ Trees => \A c \in verdicts : rates[c] # 0

\* A client keeps its slot, and no other client ever gets it, over restarts and
\* failed applies (priority_slots::allocate).
LeaseIsStable ==
  [][\A c \in Clients :
       /\ LeaseOf(state)[c] # None => LeaseOf(state')[c] = LeaseOf(state)[c]
       /\ \A d \in Clients \ {c} :
            LeaseOf(state')[c] # None => LeaseOf(state')[c] # LeaseOf(state')[d]]_vars

\* A start that finds a recovery of this boot interrupted, with nothing left but
\* the empty ifb, finishes it (recover_resumed_ifb).
InterruptedRecoveryResumes ==
  [][rt.pc = "inspect" /\ record = boot /\ ifb = "link" /\ OwnedPorts = {} /\ filters = NoFilters
       => outcome' # "refused"]_vars
=============================================================================
