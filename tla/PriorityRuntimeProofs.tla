----------------------- MODULE PriorityRuntimeProofs -----------------------
(***************************************************************************)
(* Proofs about PriorityRuntime, for any ports, clients, slots, snapshots  *)
(* and numbers of failures, kills, reboots and foreign roots.              *)
(***************************************************************************)
EXTENDS PriorityRuntime, TLAPS

-----------------------------------------------------------------------------
(* Slots.  That priority_slots::allocate is sound is shown at the end, where *)
(* the library's facts about finite sets come in; a lemma that needs it has  *)
(* it as its hypothesis.                                                     *)

\* No two clients have a slot in common, and a new table keeps the slots of an old one.
Distinct(lease) == \A c \in Clients : \A d \in Clients \ {c} : lease[c] # None => lease[c] # lease[d]
Extends(new, old) == \A c \in Clients : old[c] # None => new[c] = old[c]
Lease == [Clients -> (0..(SlotCount - 1)) \cup {None}]

\* A new table has the old slots and no slot twice.
Allocates ==
  \A s \in Snapshots : \A lease \in Lease :
    Distinct(lease) /\ Allocatable(s, lease) =>
      /\ Allocate(s, lease) \in Lease
      /\ Distinct(Allocate(s, lease))
      /\ Extends(Allocate(s, lease), lease)

-----------------------------------------------------------------------------
(* The inductive invariant.                                                *)

\* The steps of a start up to the capture of the roots, those of the set-up, those
\* of an apply, and those that give the ports back.
Recovering == {"down", "preflight", "inspect", "filters", "pins", "roots", "putback", "ifbroot",
               "ifblink", "recovered", "gate"}
SettingUp == {"hooks", "link", "tree", "base", "port", "portbase", "pin", "attach", "observe",
              "active", "detach"}
Starting == Recovering \cup SettingUp \cup {"startup"}
Changing == {"install", "publish", "persist", "undo", "commit"}
Serving == {"running", "prune"} \cup Changing
Leaving == {"remove", "restore", "dellink"}

\* The process, field by field.
Runtime ==
  /\ DOMAIN rt = DOMAIN Stopped
  /\ rt.pc \in Pc /\ rt.todo \in SUBSET Ports /\ rt.at \in Ports \cup {None}
  /\ rt.orig \in [Ports -> Supported \cup {None}] /\ rt.final \in BOOLEAN /\ rt.errs \in BOOLEAN
  /\ rt.active \in State \cup {None} /\ rt.old \in State \cup {None}
  /\ rt.next \in State \cup {None} /\ rt.force \in BOOLEAN /\ rt.poisoned \in BOOLEAN
  /\ rt.stuck \in BOOLEAN /\ rt.flows \in BOOLEAN
  /\ rt.before \in Snapshots \cup {None} /\ rt.mark \in Snapshots \cup {None}

\* Everything but the process.
World ==
  /\ root \in [Ports -> Root] /\ ifb \in IfbState /\ pins \in BOOLEAN
  /\ filters \in [hooks : BOOLEAN, matcher : SUBSET Ports, observer : BOOLEAN]
  /\ rates \in [Clients -> Nat] /\ table \in Snapshots \cup {None} /\ verdicts \in SUBSET Clients
  /\ evidence \in Written \cup {None} /\ record \in Nat \cup {None}
  /\ state \in State \cup {None} /\ journal \in BOOLEAN /\ disabled \in BOOLEAN
  /\ boot \in Nat /\ admins \in Nat

\* The roots are captured once the gate is passed, and a step about a port, a
\* state or the evidence has one.
Equipped ==
  /\ rt.pc \notin Recovering => rt.orig \in [Ports -> Supported]
  /\ rt.pc \in {"putback", "portbase", "restore"} => rt.at \in Ports
  /\ rt.pc = "putback" => evidence # None
  /\ rt.pc \in Changing => rt.next \in State
  /\ rt.pc = "prune" => rt.active \in State

\* A pinned program is never left without the ifb.
Pinned ==
  /\ pins => ifb # "none"
  /\ rt.pc \in {"tree", "base", "port", "portbase"} => ifb # "none"
  /\ rt.pc \in {"roots", "putback", "ifblink", "recovered", "hooks", "link", "tree", "base", "port",
                "portbase"} \cup Leaving => ~pins
  /\ rt.pc = "hooks" => /\ ifb = "none" /\ filters = NoFilters /\ ~journal
                        /\ \A p \in Ports : root[p] \notin {"bare", "tree"}

\* The ports that a shutdown has done with have their root again.
Returned ==
  rt.pc \in Leaving /\ rt.final =>
    /\ filters.matcher = {} /\ ~filters.observer
    /\ rt.pc = "dellink" => rt.todo = {}
    /\ ~rt.errs /\ admins = 0 =>
         \A p \in Ports \ rt.todo : (rt.pc = "restore" => p # rt.at) => root[p] = rt.orig[p]

\* A process that has not served yet has nothing in memory.
Unserved ==
  rt.pc \in Starting =>
    /\ rt.active = None /\ rt.mark = None /\ ~rt.flows /\ ~rt.poisoned
    /\ table = None /\ verdicts = {}

\* The state in memory is the one on disk, and what an apply is about to write
\* extends it.
Leased ==
  /\ Distinct(LeaseOf(state))
  /\ rt.pc # "commit" /\ rt.active # None => state = rt.active
  /\ rt.pc \in Serving \ {"commit"} /\ state # None => rt.active # None
  /\ rt.pc \in Changing =>
       /\ Distinct(rt.next.lease)
       /\ rt.active # None => rt.old = rt.active
       /\ rt.old # None => rt.next.snap = rt.old.snap \/ rt.next.snap.rev > rt.old.snap.rev
  /\ rt.pc \in {"install", "publish", "persist"} => Extends(rt.next.lease, LeaseOf(state))
  /\ rt.pc = "commit" => state = rt.next

\* Every class that a snapshot asks for has its rate.
Classed(s) == \A c \in Clients : s.rate[c] # 0 => rates[c] = s.rate[c]

\* What is published is what is in memory, at every step of an apply.
Published ==
  /\ rt.pc \in Changing => journal
  /\ rt.stuck => rt.poisoned /\ rt.pc = "undo"
  /\ ~rt.poisoned =>
       /\ rt.pc \in {"running", "prune"} /\ table # None => rt.active # None /\ table = rt.active.snap
       /\ rt.pc \in Changing /\ rt.before # None => rt.active # None /\ rt.before = rt.active.snap
       /\ rt.pc \in {"install", "publish", "undo"} => table = rt.before
       /\ rt.pc \in {"persist", "commit"} => table = rt.next.snap
       /\ rt.pc \in {"running", "prune"} /\ table # None /\ Trees /\ ~journal => Classed(table)
  /\ rt.pc \in {"publish", "persist", "commit"} /\ Trees => Classed(rt.next.snap)

\* Who has a verdict has a class, until the verdicts are reset for a snapshot
\* that leaves the client out.
Verdicts ==
  rt.pc \in Serving =>
    /\ Trees => \A c \in verdicts : rates[c] # 0
    /\ rt.pc = "prune" => ~rt.force
    /\ (rt.flows \/ ~rt.force) /\ rt.active # None /\ Trees =>
         \A c \in Clients : rt.active.snap.rate[c] # 0 => rates[c] # 0
    /\ rt.flows => rt.active # None
    /\ rt.mark # None =>
         /\ rt.active # None
         /\ \/ rt.mark = rt.active.snap /\ verdicts \subseteq Selected(rt.mark)
            \/ rt.mark.rev < rt.active.snap.rev

Typed == Runtime /\ World /\ Equipped
Served == Unserved /\ Leased /\ Published /\ Verdicts

IInv == Typed /\ Pinned /\ Returned /\ Served

-----------------------------------------------------------------------------
(* The process ends, and the steps that leave what is served alone.        *)

\* The fields of a process that is not there, and of one that begins.
LEMMA StoppedFields ==
  ASSUME NEW r, NEW pc, (r = Stopped /\ pc = "down") \/ r = [Stopped EXCEPT !.pc = pc]
  PROVE  /\ DOMAIN r = DOMAIN Stopped /\ r.pc = pc /\ r.todo = {} /\ r.at = None
         /\ r.orig = [p \in Ports |-> None] /\ r.final = FALSE /\ r.errs = FALSE
         /\ r.active = None /\ r.old = None /\ r.next = None /\ r.force = FALSE
         /\ r.poisoned = FALSE /\ r.stuck = FALSE /\ r.flows = FALSE
         /\ r.before = None /\ r.mark = None
<1>1. CASE r = [Stopped EXCEPT !.pc = pc]
  BY <1>1, Zenon DEF Stopped
<1>2. CASE r = Stopped /\ pc = "down"
  BY <1>2, Zenon DEF Stopped
<1> QED
  BY <1>1, <1>2, Zenon

\* What the steps of the start and of the shutdown leave alone.
Kept ==
  /\ rt'.active = rt.active /\ rt'.old = rt.old /\ rt'.next = rt.next /\ rt'.force = rt.force
  /\ rt'.poisoned = rt.poisoned /\ rt'.stuck = rt.stuck /\ rt'.flows = rt.flows
  /\ rt'.before = rt.before /\ rt'.mark = rt.mark

\* The process is gone or begins.
Blank ==
  /\ rt' = Stopped \/ rt' = [Stopped EXCEPT !.pc = "preflight"]
  /\ table' = None /\ verdicts' = {} /\ state' = state

\* The process takes a step of its start or of its shutdown.
Outside == Starting \cup Leaving \cup {"stop"}
Quiet ==
  /\ rt.pc \in Outside \cup {"running"} /\ rt'.pc \in Outside
  /\ rt'.pc \in Starting => rt.pc \in Starting /\ table' = table
  /\ Kept /\ verdicts' = verdicts /\ state' = state

\* A step that ends or begins a process keeps the invariant, whatever it does to
\* the kernel and the files, as long as no pin stays without an ifb.
LEMMA BlankKeeps ==
  ASSUME IInv, Blank, World', pins' => ifb' # "none" PROVE IInv'
<1>1. PICK pc \in {"down", "preflight"} :
        (rt' = Stopped /\ pc = "down") \/ rt' = [Stopped EXCEPT !.pc = pc]
  BY Zenon DEF Blank
<1>2. /\ DOMAIN rt' = DOMAIN Stopped /\ rt'.pc = pc /\ rt'.todo = {} /\ rt'.at = None
      /\ rt'.orig = [p \in Ports |-> None] /\ rt'.final = FALSE /\ rt'.errs = FALSE
      /\ rt'.active = None /\ rt'.old = None /\ rt'.next = None /\ rt'.force = FALSE
      /\ rt'.poisoned = FALSE /\ rt'.stuck = FALSE /\ rt'.flows = FALSE
      /\ rt'.before = None /\ rt'.mark = None
  BY <1>1, StoppedFields, Zenon
<1>3. rt'.pc \in Recovering /\ rt'.pc \notin Serving \cup Leaving \cup {"hooks", "putback", "roots"}
  BY <1>2 DEF Recovering, Serving, Changing, Leaving
<1>4. Typed'
  <2>1. Runtime'
    <3>1. rt'.pc \in Pc
      BY <1>2 DEF Pc
    <3>2. rt'.orig \in [Ports -> Supported \cup {None}]
      BY <1>2
    <3> QED
      BY <1>2, <3>1, <3>2, Zenon DEF Runtime, Stopped
  <2>2. Equipped'
    BY <1>2, <1>3 DEF Equipped, Recovering, Changing
  <2> QED
    BY <2>1, <2>2, Zenon DEF Typed
<1>5. Pinned' /\ Returned'
  BY <1>2, <1>3 DEF Pinned, Returned, Leaving
<1>6. Unserved'
  BY <1>2, Zenon DEF Unserved, Blank
<1>7. Leased'
  <2>1. Distinct(LeaseOf(state))
    BY Zenon DEF IInv, Served, Leased
  <2>2. Distinct(LeaseOf(state'))
    BY <2>1, Zenon DEF Blank
  <2>3. rt'.pc # "commit" /\ rt'.pc \notin Changing \cup {"install", "publish", "persist"} /\ rt'.pc \notin Serving
    BY <1>2 DEF Serving, Changing
  <2> QED
    BY <1>2, <2>2, <2>3, Zenon DEF Leased
<1>8. Published' /\ Verdicts'
  BY <1>2 DEF Published, Verdicts, Serving, Changing
<1> QED
  BY <1>4, <1>5, <1>6, <1>7, <1>8, Zenon DEF IInv, Served

\* A step of the start or of the shutdown leaves what is served alone.
LEMMA QuietKeeps == ASSUME IInv, Quiet PROVE Served'
<1>0. Unserved /\ Leased /\ Published
  BY Zenon DEF IInv, Served
<1>1. rt'.pc \notin Serving /\ rt'.pc \notin Changing /\ rt.pc # "undo" /\ rt.pc # "commit"
  BY DEF Quiet, Outside, Starting, Recovering, SettingUp, Leaving, Serving, Changing
<1>2. Unserved'
  BY <1>0, Zenon DEF Unserved, Quiet, Kept
<1>3. Leased'
  <2>1. Distinct(LeaseOf(state'))
    BY <1>0, Zenon DEF Leased, Quiet
  <2>2. rt'.active # None => state' = rt'.active
    BY <1>0, <1>1, Zenon DEF Leased, Quiet, Kept
  <2>3. rt'.pc \notin {"commit", "install", "publish", "persist"}
    BY <1>1 DEF Changing
  <2> QED
    BY <1>1, <2>1, <2>2, <2>3, Zenon DEF Leased
<1>4. Published'
  <2>1. ~rt'.stuck
    BY <1>0, <1>1, Zenon DEF Published, Quiet, Kept
  <2>2. rt'.pc \notin {"running", "prune", "install", "publish", "undo", "persist", "commit"}
    BY <1>1 DEF Serving, Changing
  <2> QED
    BY <1>1, <2>1, <2>2, Zenon DEF Published
<1>5. Verdicts'
  BY <1>1, Zenon DEF Verdicts
<1> QED
  BY <1>2, <1>3, <1>4, <1>5, Zenon DEF Served

\* What such a step may change of the process.
SameSpot ==
  rt'.todo = rt.todo /\ rt'.at = rt.at /\ rt'.orig = rt.orig /\ rt'.final = rt.final /\ rt'.errs = rt.errs
Moves ==
  /\ DOMAIN rt' = DOMAIN Stopped /\ Kept
  /\ rt'.todo \in SUBSET Ports /\ rt'.at \in Ports \cup {None}
  /\ rt'.orig \in [Ports -> Supported \cup {None}] /\ rt'.final \in BOOLEAN /\ rt'.errs \in BOOLEAN

LEMMA GotoFields ==
  ASSUME IInv, NEW pc, Goto(pc)
  PROVE  rt'.pc = pc /\ SameSpot /\ Moves
<1>1. Runtime
  BY Zenon DEF IInv, Typed
<1>2. DOMAIN rt = DOMAIN Stopped
  BY <1>1, Zenon DEF Runtime
<1>3. rt'.pc = pc /\ SameSpot /\ Kept /\ DOMAIN rt' = DOMAIN Stopped
  BY <1>2, Zenon DEF Goto, SameSpot, Kept, Stopped
<1> QED
  BY <1>1, <1>3, Zenon DEF Moves, SameSpot, Runtime

LEMMA MovesKeep ==
  ASSUME IInv, Quiet, Moves, World', Equipped', Pinned', Returned' PROVE IInv'
<1>1. Runtime
  BY Zenon DEF IInv, Typed
<1>2. rt'.pc \in Pc
  BY DEF Quiet, Outside, Starting, Recovering, SettingUp, Leaving, Pc
<1>3. Runtime'
  BY <1>1, <1>2, Zenon DEF Runtime, Moves, Kept
<1> QED
  BY <1>3, QuietKeeps, Zenon DEF IInv, Typed

\* A step of the start, and one of the shutdown.
LEMMA StartKeeps ==
  ASSUME IInv, Moves, rt.pc \in Starting, rt'.pc \in Starting,
         table' = table, verdicts' = verdicts, state' = state, World', Equipped', Pinned'
  PROVE  IInv'
<1>1. Quiet
  BY Zenon DEF Quiet, Moves, Outside
<1>2. Returned'
  BY DEF Returned, Starting, Recovering, SettingUp, Leaving
<1> QED
  BY <1>1, <1>2, MovesKeep, Zenon

LEMMA LeaveKeeps ==
  ASSUME IInv, Moves, rt.pc \in Outside \cup {"running"}, rt'.pc \in Leaving \cup {"stop"},
         verdicts' = verdicts, state' = state, World', Pinned', Returned',
         rt'.orig \in [Ports -> Supported], rt'.pc = "restore" => rt'.at \in Ports
  PROVE  IInv'
<1>1. Quiet
  <2>1. rt'.pc \notin Starting /\ rt'.pc \in Outside
    BY DEF Outside, Starting, Recovering, SettingUp, Leaving
  <2> QED
    BY <2>1, Zenon DEF Quiet, Moves
<1>2. Equipped'
  BY DEF Equipped, Leaving, Changing
<1> QED
  BY <1>1, <1>2, MovesKeep, Zenon

\* The steps of the recovery that go on.
LEMMA RecoveringKeeps ==
  ASSUME IInv, Moves, rt.pc \in Recovering, rt'.pc \in Recovering,
         table' = table, verdicts' = verdicts, state' = state, World', Pinned',
         rt'.pc = "putback" => rt'.at \in Ports /\ evidence' # None
  PROVE  IInv'
<1>1. Equipped'
  BY DEF Equipped, Recovering, Changing
<1>2. rt.pc \in Starting /\ rt'.pc \in Starting
  BY Zenon DEF Starting
<1> QED
  BY <1>1, <1>2, StartKeeps, Zenon

\* prepare begins.
LEMMA StartStep == ASSUME IInv, Start PROVE IInv'
<1>1. rt.pc \in Starting
  BY DEF Start, Starting, Recovering
<1>2. table = None /\ verdicts = {}
  BY <1>1, Zenon DEF IInv, Served, Unserved
<1>3. Blank
  BY <1>2, Zenon DEF Start, Blank, queues, files
<1>4. World'
  BY Zenon DEF IInv, Typed, World, Start, kernel, queues, files, limits
<1>5. pins' => ifb' # "none"
  BY Zenon DEF IInv, Pinned, Start, kernel
<1> QED
  BY <1>3, <1>4, <1>5, BlankKeeps, Zenon

\* The process ends.
LEMMA ExitKeeps ==
  ASSUME IInv, NEW o, Exit(o), state' = state, World', pins' => ifb' # "none" PROVE IInv'
<1>1. Blank
  BY Zenon DEF Blank, Exit
<1> QED
  BY <1>1, BlankKeeps, Zenon

LEMMA PreflightStep == ASSUME IInv, Preflight PROVE IInv'
<1>1. UNCHANGED <<kernel, rates, files, disabled, limits>> /\ rt.pc = "preflight"
  BY Zenon DEF Preflight
<1>2. pins' => ifb' # "none"
  BY <1>1, Zenon DEF IInv, Pinned, kernel
<1>3. CASE Goto("inspect") /\ UNCHANGED maps
  <2>1. rt'.pc = "inspect" /\ Moves
    BY <1>3, GotoFields, Zenon
  <2>2. World'
    BY <1>1, <1>3, Zenon DEF IInv, Typed, World, kernel, files, limits, maps
  <2>3. Pinned'
    BY <1>2, <2>1 DEF Pinned, Leaving
  <2>4. rt.pc \in Recovering /\ rt'.pc \in Recovering /\ rt'.pc # "putback"
    BY <1>1, <2>1 DEF Recovering
  <2> QED
    BY <1>1, <1>3, <2>1, <2>2, <2>3, <2>4, RecoveringKeeps, Zenon DEF maps, files
<1>4. CASE \E o : Exit(o)
  <2>1. World'
    BY <1>1, <1>4, Zenon DEF IInv, Typed, World, kernel, files, limits, Exit
  <2> QED
    BY <1>1, <1>2, <1>4, <2>1, ExitKeeps, Zenon DEF files
<1> QED
  BY <1>3, <1>4, Zenon DEF Preflight

\* recover_stale_priority_resources reads the kernel.
LEMMA InspectStep == ASSUME IInv, Inspect PROVE IInv'
<1>1. UNCHANGED <<kernel, rates, evidence, state, disabled, limits>> /\ rt.pc = "inspect"
  BY Zenon DEF Inspect
<1>2. pins' => ifb' # "none"
  BY <1>1, Zenon DEF IInv, Pinned, kernel
<1>3. record' \in Nat \cup {None} /\ journal' \in BOOLEAN
  <2>1. record' \in {record, boot, 0} /\ journal' \in {journal, FALSE}
    BY Zenon DEF Inspect
  <2>2. 0 \in Nat
    OBVIOUS
  <2> QED
    BY <2>1, <2>2, Zenon DEF IInv, Typed, World
<1>4. CASE UNCHANGED maps /\ (Goto("gate") \/ Goto("filters"))
  <2>1. rt'.pc \in {"gate", "filters"} /\ Moves
    BY <1>4, GotoFields, Zenon
  <2>2. World'
    BY <1>1, <1>3, <1>4, Zenon DEF IInv, Typed, World, kernel, limits, maps
  <2>3. Pinned'
    BY <1>2, <2>1 DEF Pinned, Leaving
  <2>4. rt.pc \in Recovering /\ rt'.pc \in Recovering /\ rt'.pc # "putback"
    BY <1>1, <2>1 DEF Recovering
  <2> QED
    BY <1>1, <1>4, <2>1, <2>2, <2>3, <2>4, RecoveringKeeps, Zenon DEF maps
<1>5. CASE Exit("refused")
  <2>1. World'
    BY <1>1, <1>3, <1>5, Zenon DEF IInv, Typed, World, kernel, limits, Exit
  <2> QED
    BY <1>1, <1>2, <1>5, <2>1, ExitKeeps, Zenon
<1> QED
  BY <1>4, <1>5, Zenon DEF Inspect

\* Fewer filters are filters.
LEMMA FewerTyped ==
  ASSUME World, NEW f \in FewerFilters
  PROVE  f \in [hooks : BOOLEAN, matcher : SUBSET Ports, observer : BOOLEAN]
<1>1. filters \in [hooks : BOOLEAN, matcher : SUBSET Ports, observer : BOOLEAN]
  BY Zenon DEF World
<1>2. filters.hooks \in BOOLEAN /\ filters.matcher \in SUBSET Ports /\ filters.observer \in BOOLEAN
  BY <1>1, Zenon
<1>3. {filters.hooks, FALSE} \subseteq BOOLEAN /\ {filters.observer, FALSE} \subseteq BOOLEAN
      /\ SUBSET filters.matcher \subseteq SUBSET Ports
  BY <1>2, Zenon
<1> QED
  BY <1>3, Zenon DEF FewerFilters

\* execute_recovery_plan: the filters, the pins, the roots, the ifb, the journal.
LEMMA RecoverFiltersStep == ASSUME IInv, RecoverFilters PROVE IInv'
<1>0. World
  BY Zenon DEF IInv, Typed
<1>1. UNCHANGED <<root, ifb, pins, rates, files, disabled, limits>> /\ rt.pc = "filters"
  BY Zenon DEF RecoverFilters
<1>2. pins' => ifb' # "none"
  BY <1>1, Zenon DEF IInv, Pinned
<1>3. CASE filters' = NoFilters /\ Goto("pins") /\ UNCHANGED maps
  <2>1. rt'.pc = "pins" /\ Moves
    BY <1>3, GotoFields, Zenon
  <2>2. filters' \in [hooks : BOOLEAN, matcher : SUBSET Ports, observer : BOOLEAN]
    BY <1>3, Zenon DEF NoFilters
  <2>3. World'
    BY <1>0, <1>1, <1>3, <2>2, Zenon DEF World, files, limits, maps
  <2>4. Pinned'
    BY <1>2, <2>1 DEF Pinned, Leaving
  <2>5. rt.pc \in Recovering /\ rt'.pc \in Recovering /\ rt'.pc # "putback"
    BY <1>1, <2>1 DEF Recovering
  <2> QED
    BY <1>1, <1>3, <2>1, <2>3, <2>4, <2>5, RecoveringKeeps, Zenon DEF maps, files
<1>4. CASE filters' \in FewerFilters /\ Exit("refused")
  <2>1. filters' \in [hooks : BOOLEAN, matcher : SUBSET Ports, observer : BOOLEAN]
    BY <1>0, <1>4, FewerTyped, Zenon
  <2>2. World'
    BY <1>0, <1>1, <1>4, <2>1, Zenon DEF World, files, limits, Exit
  <2> QED
    BY <1>1, <1>2, <1>4, <2>2, ExitKeeps, Zenon DEF files
<1> QED
  BY <1>3, <1>4, Zenon DEF RecoverFilters

LEMMA RecoverPinsStep == ASSUME IInv, RecoverPins PROVE IInv'
<1>0. World /\ Runtime
  BY Zenon DEF IInv, Typed
<1>1. UNCHANGED <<root, ifb, filters, rates, files, disabled, limits>> /\ rt.pc = "pins"
  BY Zenon DEF RecoverPins
<1>2. pins' \in BOOLEAN /\ (pins' => ifb' # "none")
  <2>1. pins' = FALSE \/ pins' = pins
    BY Zenon DEF RecoverPins
  <2>2. pins \in BOOLEAN /\ (pins => ifb # "none")
    BY <1>0, Zenon DEF IInv, Pinned, World
  <2>3. CASE pins' = FALSE
    BY <2>3, Zenon
  <2>4. CASE pins' = pins
    BY <1>1, <2>2, <2>4, Zenon
  <2> QED
    BY <2>1, <2>3, <2>4, Zenon
<1>3. CASE pins' = FALSE /\ rt' = [rt EXCEPT !.pc = "roots", !.todo = OwnedPorts] /\ UNCHANGED maps
  <2>0. DOMAIN rt = DOMAIN Stopped
    BY <1>0, Zenon DEF Runtime
  <2>1. /\ rt'.pc = "roots" /\ rt'.todo = OwnedPorts /\ Kept /\ DOMAIN rt' = DOMAIN Stopped
        /\ rt'.at = rt.at /\ rt'.orig = rt.orig /\ rt'.final = rt.final /\ rt'.errs = rt.errs
    BY <1>3, <2>0, Zenon DEF Kept, Stopped
  <2>2. Moves
    BY <1>0, <2>1, Zenon DEF Moves, OwnedPorts, Runtime
  <2>3. World'
    BY <1>0, <1>1, <1>2, <1>3, Zenon DEF World, files, limits, maps
  <2>4. Pinned'
    BY <1>3, <2>1 DEF Pinned, Leaving
  <2>5. rt.pc \in Recovering /\ rt'.pc \in Recovering /\ rt'.pc # "putback"
    BY <1>1, <2>1 DEF Recovering
  <2> QED
    BY <1>1, <1>3, <2>2, <2>3, <2>4, <2>5, RecoveringKeeps, Zenon DEF maps, files
<1>4. CASE Exit("refused")
  <2>1. World'
    BY <1>0, <1>1, <1>2, <1>4, Zenon DEF World, files, limits, Exit
  <2> QED
    BY <1>1, <1>2, <1>4, <2>1, ExitKeeps, Zenon DEF files
<1> QED
  BY <1>3, <1>4, Zenon DEF RecoverPins

LEMMA RecoverRootStep == ASSUME IInv, RecoverRoot PROVE IInv'
<1>0. World /\ Runtime /\ Pinned
  BY Zenon DEF IInv, Typed
<1>1. UNCHANGED <<ifb, filters, pins, rates, files, disabled, limits>> /\ rt.pc = "roots"
  BY Zenon DEF RecoverRoot
<1>2. (pins' => ifb' # "none") /\ ~pins'
  BY <1>0, <1>1 DEF Pinned
<1>3. ASSUME NEW p \in rt.todo, UNCHANGED maps, root' = [root EXCEPT ![p] = "default"],
             rt' = IF evidence = None THEN [rt EXCEPT !.todo = @ \ {p}]
                   ELSE [rt EXCEPT !.todo = @ \ {p}, !.at = p, !.pc = "putback"]
      PROVE  IInv'
  <2>0. DOMAIN rt = DOMAIN Stopped /\ p \in Ports
    BY <1>0, Zenon DEF Runtime
  <2>1. /\ rt'.todo = rt.todo \ {p} /\ Kept /\ DOMAIN rt' = DOMAIN Stopped
        /\ rt'.orig = rt.orig /\ rt'.final = rt.final /\ rt'.errs = rt.errs
        /\ \/ evidence = None /\ rt'.pc = rt.pc /\ rt'.at = rt.at
           \/ evidence # None /\ rt'.pc = "putback" /\ rt'.at = p
    <3>1. CASE evidence = None
      BY <1>3, <2>0, <3>1, Zenon DEF Kept, Stopped
    <3>2. CASE evidence # None
      BY <1>3, <2>0, <3>2, Zenon DEF Kept, Stopped
    <3> QED
      BY <3>1, <3>2, Zenon
  <2>2. Moves
    BY <1>0, <2>0, <2>1, Zenon DEF Moves, Runtime
  <2>3. root' \in [Ports -> Root]
    BY <1>0, <1>3, <2>0 DEF World, Root, Supported
  <2>4. World'
    BY <1>0, <1>1, <1>3, <2>3, Zenon DEF World, files, limits, maps
  <2>5. rt.pc \in Recovering /\ rt'.pc \in {"roots", "putback"}
    BY <1>1, <2>1 DEF Recovering
  <2>6. Pinned'
    BY <1>2, <2>5 DEF Pinned, Leaving
  <2>7. rt'.pc \in Recovering /\ (rt'.pc = "putback" => rt'.at \in Ports /\ evidence' # None)
    BY <1>1, <2>0, <2>1 DEF Recovering, files
  <2> QED
    BY <1>1, <1>3, <2>2, <2>4, <2>5, <2>6, <2>7, RecoveringKeeps, Zenon DEF maps, files
<1>4. CASE Exit("refused") /\ UNCHANGED root
  <2>1. World'
    BY <1>0, <1>1, <1>4, Zenon DEF World, files, limits, Exit
  <2> QED
    BY <1>1, <1>2, <1>4, <2>1, ExitKeeps, Zenon DEF files
<1> QED
  BY <1>3, <1>4, Zenon DEF RecoverRoot

LEMMA RecoverOriginalStep == ASSUME IInv, RecoverOriginal PROVE IInv'
<1>0. World /\ Runtime /\ Pinned /\ Equipped
  BY Zenon DEF IInv, Typed
<1>1. UNCHANGED <<ifb, filters, pins, rates, files, disabled, limits>> /\ rt.pc = "putback"
  BY Zenon DEF RecoverOriginal
<1>2. (pins' => ifb' # "none") /\ ~pins'
  BY <1>0, <1>1 DEF Pinned
<1>3. CASE /\ root' = [root EXCEPT ![rt.at] = evidence.roots[rt.at]]
           /\ rt' = [rt EXCEPT !.pc = "roots", !.at = None] /\ UNCHANGED maps
  <2>0. DOMAIN rt = DOMAIN Stopped
    BY <1>0, Zenon DEF Runtime
  <2>1. /\ rt'.pc = "roots" /\ rt'.at = None /\ Kept /\ DOMAIN rt' = DOMAIN Stopped
        /\ rt'.todo = rt.todo /\ rt'.orig = rt.orig /\ rt'.final = rt.final /\ rt'.errs = rt.errs
    BY <1>3, <2>0, Zenon DEF Kept, Stopped
  <2>2. Moves
    BY <1>0, <2>1, Zenon DEF Moves, Runtime
  <2>3. evidence \in Written /\ rt.at \in Ports
    BY <1>0, <1>1, Zenon DEF World, Equipped
  <2>4. root' \in [Ports -> Root]
    BY <1>0, <1>3, <2>3 DEF World, Written
  <2>5. World'
    BY <1>0, <1>1, <1>3, <2>4, Zenon DEF World, files, limits, maps
  <2>6. rt.pc \in Recovering /\ rt'.pc \in Recovering /\ rt'.pc # "putback"
    BY <1>1, <2>1 DEF Recovering
  <2>7. Pinned'
    BY <1>2, <2>1 DEF Pinned, Leaving
  <2> QED
    BY <1>1, <1>3, <2>2, <2>5, <2>6, <2>7, RecoveringKeeps, Zenon DEF maps, files
<1>4. CASE Exit("refused") /\ UNCHANGED root
  <2>1. World'
    BY <1>0, <1>1, <1>4, Zenon DEF World, files, limits, Exit
  <2> QED
    BY <1>1, <1>2, <1>4, <2>1, ExitKeeps, Zenon DEF files
<1> QED
  BY <1>3, <1>4, Zenon DEF RecoverOriginal

LEMMA RecoverIfbStep == ASSUME IInv, RecoverIfb PROVE IInv'
<1>0. World /\ Pinned
  BY Zenon DEF IInv, Typed
<1>1. UNCHANGED <<root, filters, pins, rates, files, disabled, limits>> /\ rt.pc \in {"roots", "ifblink"}
  BY Zenon DEF RecoverIfb
<1>2. (pins' => ifb' # "none") /\ ~pins'
  BY <1>0, <1>1 DEF Pinned
<1>3. ifb' \in IfbState
  BY <1>0 DEF World, RecoverIfb, IfbState
<1>4. CASE UNCHANGED maps /\ (Goto("recovered") \/ Goto("ifblink"))
  <2>1. rt'.pc \in {"recovered", "ifblink"} /\ Moves
    BY <1>4, GotoFields, Zenon
  <2>2. World'
    BY <1>0, <1>1, <1>3, <1>4, Zenon DEF World, files, limits, maps
  <2>3. Pinned'
    BY <1>2, <2>1 DEF Pinned, Leaving
  <2>4. rt.pc \in Recovering /\ rt'.pc \in Recovering /\ rt'.pc # "putback"
    BY <1>1, <2>1 DEF Recovering
  <2> QED
    BY <1>1, <1>4, <2>1, <2>2, <2>3, <2>4, RecoveringKeeps, Zenon DEF maps, files
<1>5. CASE Exit("refused")
  <2>1. World'
    BY <1>0, <1>1, <1>3, <1>5, Zenon DEF World, files, limits, Exit
  <2> QED
    BY <1>1, <1>2, <1>5, <2>1, ExitKeeps, Zenon DEF files
<1> QED
  BY <1>4, <1>5, Zenon DEF RecoverIfb

LEMMA RecoveredStep == ASSUME IInv, Recovered PROVE IInv'
<1>0. World /\ Pinned
  BY Zenon DEF IInv, Typed
<1>1. UNCHANGED <<kernel, rates, evidence, state, disabled, limits>> /\ rt.pc = "recovered"
  BY Zenon DEF Recovered
<1>2. pins' => ifb' # "none"
  BY <1>0, <1>1, Zenon DEF Pinned, kernel
<1>3. CASE journal' = FALSE /\ record' = 0 /\ Goto("gate") /\ UNCHANGED maps
  <2>1. rt'.pc = "gate" /\ Moves
    BY <1>3, GotoFields, Zenon
  <2>2. journal' \in BOOLEAN /\ record' \in Nat \cup {None}
    BY <1>3
  <2>3. World'
    BY <1>0, <1>1, <1>3, <2>2, Zenon DEF World, kernel, limits, maps
  <2>4. Pinned'
    BY <1>2, <2>1 DEF Pinned, Leaving
  <2>5. rt.pc \in Recovering /\ rt'.pc \in Recovering /\ rt'.pc # "putback"
    BY <1>1, <2>1 DEF Recovering
  <2> QED
    BY <1>1, <1>3, <2>1, <2>3, <2>4, <2>5, RecoveringKeeps, Zenon DEF maps
<1>4. CASE Exit("refused") /\ UNCHANGED <<journal, record>>
  <2>1. World'
    BY <1>0, <1>1, <1>4, Zenon DEF World, kernel, limits, Exit
  <2> QED
    BY <1>1, <1>2, <1>4, <2>1, ExitKeeps, Zenon
<1> QED
  BY <1>3, <1>4, Zenon DEF Recovered

\* The end of prepare captures the roots.
LEMMA GateStep == ASSUME IInv, Gate PROVE IInv'
<1>0. World /\ Runtime /\ Pinned
  BY Zenon DEF IInv, Typed
<1>1. UNCHANGED <<kernel, rates, record, state, journal, disabled, limits>> /\ rt.pc = "gate"
  BY Zenon DEF Gate
<1>2. pins' => ifb' # "none"
  BY <1>0, <1>1, Zenon DEF Pinned, kernel
<1>3. CASE /\ ~journal /\ filters = NoFilters /\ ifb = "none" /\ \A p \in Ports : root[p] \in Supported
           /\ rt' = [rt EXCEPT !.pc = "hooks", !.orig = root]
           /\ evidence' = Evidence(evidence) /\ UNCHANGED maps
  <2>0. DOMAIN rt = DOMAIN Stopped
    BY <1>0, Zenon DEF Runtime
  <2>1. /\ rt'.pc = "hooks" /\ rt'.orig = root /\ Kept /\ DOMAIN rt' = DOMAIN Stopped
        /\ rt'.todo = rt.todo /\ rt'.at = rt.at /\ rt'.final = rt.final /\ rt'.errs = rt.errs
    BY <1>3, <2>0, Zenon DEF Kept, Stopped
  <2>2. root \in [Ports -> Supported] /\ root \in [Ports -> Supported \cup {None}]
    BY <1>0, <1>3 DEF World
  <2>3. Moves
    BY <1>0, <2>1, <2>2, Zenon DEF Moves, Runtime
  <2>4. evidence' = evidence
    BY <1>3, Zenon DEF Evidence
  <2>5. World'
    BY <1>0, <1>1, <1>3, <2>4, Zenon DEF World, kernel, limits, maps
  <2>6. Pinned'
    <3>1. ~pins' /\ ifb' = "none" /\ filters' = NoFilters /\ ~journal'
      BY <1>0, <1>1, <1>3, Zenon DEF Pinned, kernel
    <3>2. \A p \in Ports : root'[p] \notin {"bare", "tree"}
      BY <1>1, <1>3 DEF kernel, Supported
    <3> QED
      BY <2>1, <3>1, <3>2 DEF Pinned, Leaving
  <2>7. Equipped'
    BY <2>1, <2>2 DEF Equipped, Changing
  <2>8. rt.pc \in Starting /\ rt'.pc \in Starting
    BY <1>1, <2>1 DEF Starting, Recovering, SettingUp
  <2> QED
    BY <1>1, <1>3, <2>3, <2>5, <2>6, <2>7, <2>8, StartKeeps, Zenon DEF maps
<1>4. CASE Exit("refused") /\ UNCHANGED evidence
  <2>1. World'
    BY <1>0, <1>1, <1>4, Zenon DEF World, kernel, limits, Exit
  <2> QED
    BY <1>1, <1>2, <1>4, <2>1, ExitKeeps, Zenon
<1> QED
  BY <1>3, <1>4, Zenon DEF Gate

\* The set-up: a step that goes on has the roots that were captured.
LEMMA SetUpKeeps ==
  ASSUME IInv, Moves, rt.pc \in SettingUp, rt'.pc \in SettingUp \cup {"startup"},
         Going, state' = state, World', Pinned', rt'.orig = rt.orig,
         rt'.pc = "portbase" => rt'.at \in Ports
  PROVE  IInv'
<1>1. rt.orig \in [Ports -> Supported]
  <2>1. rt.pc \notin Recovering
    BY DEF SettingUp, Recovering
  <2> QED
    BY <2>1, Zenon DEF IInv, Typed, Equipped
<1>2. Equipped'
  BY <1>1 DEF Equipped, Changing, SettingUp
<1>3. rt.pc \in Starting /\ rt'.pc \in Starting
  BY Zenon DEF Starting
<1> QED
  BY <1>2, <1>3, StartKeeps, Zenon DEF Going, maps

\* A failed one gives back the ports it had taken.
LEMMA UndoKeeps ==
  ASSUME IInv, rt.pc \in SettingUp, NEW taken \in SUBSET Ports,
         rt' = Undo(taken) \/ rt' = [Undo(taken) EXCEPT !.at = None],
         UNCHANGED <<maps, state>>, World', ~pins'
  PROVE  IInv'
<1>0. World /\ Runtime
  BY Zenon DEF IInv, Typed
<1>1. DOMAIN rt = DOMAIN Stopped
  BY <1>0, Zenon DEF Runtime
<1>2. /\ rt'.pc = "remove" /\ rt'.todo = taken /\ rt'.final = FALSE /\ rt'.errs = TRUE
      /\ rt'.at \in {rt.at, None} /\ rt'.orig = rt.orig /\ Kept /\ DOMAIN rt' = DOMAIN Stopped
  <2>1. CASE rt' = Undo(taken)
    BY <1>1, <2>1, Zenon DEF Undo, Kept, Stopped
  <2>2. CASE rt' = [Undo(taken) EXCEPT !.at = None]
    BY <1>1, <2>2, Zenon DEF Undo, Kept, Stopped
  <2> QED
    BY <2>1, <2>2, Zenon
<1>3. Moves
  BY <1>0, <1>2, Zenon DEF Moves, Runtime
<1>4. rt.orig \in [Ports -> Supported]
  <2>1. rt.pc \notin Recovering
    BY DEF SettingUp, Recovering
  <2> QED
    BY <2>1, Zenon DEF IInv, Typed, Equipped
<1>5. Pinned' /\ Returned'
  BY <1>2 DEF Pinned, Returned
<1>6. rt.pc \in Outside /\ rt'.pc \in Leaving /\ rt'.pc # "restore"
  BY <1>2 DEF Outside, Starting, Leaving
<1> QED
  BY <1>2, <1>3, <1>4, <1>5, <1>6, LeaveKeeps, Zenon DEF maps

\* activate: the hooks, the ifb, the ports, the pins, the filters.
LEMMA HooksStep == ASSUME IInv, Hooks PROVE IInv'
<1>0. World /\ Pinned
  BY Zenon DEF IInv, Typed
<1>1. UNCHANGED <<root, ifb, pins>> /\ Fresh /\ rt.pc = "hooks"
  BY Zenon DEF Hooks
<1>2. (pins' => ifb' # "none") /\ ~pins'
  BY <1>0, <1>1 DEF Pinned
<1>3. CASE filters' = [filters EXCEPT !.hooks = TRUE] /\ Goto("link") /\ Going
  <2>1. rt'.pc = "link" /\ Moves /\ SameSpot
    BY <1>3, GotoFields, Zenon
  <2>2. filters' \in [hooks : BOOLEAN, matcher : SUBSET Ports, observer : BOOLEAN]
    BY <1>0, <1>3, Zenon DEF World
  <2>3. World'
    BY <1>0, <1>1, <1>3, <2>2, Zenon DEF World, files, limits, maps, Fresh, Going
  <2>4. Pinned'
    BY <1>2, <2>1 DEF Pinned, Leaving
  <2>5. rt.pc \in SettingUp /\ rt'.pc \in SettingUp /\ rt'.pc # "portbase"
    BY <1>1, <2>1 DEF SettingUp
  <2> QED
    BY <1>1, <1>3, <2>1, <2>3, <2>4, <2>5, SetUpKeeps, Zenon DEF SameSpot, Fresh, files
<1>4. CASE Exit("refused") /\ UNCHANGED filters
  <2>1. World'
    BY <1>0, <1>1, <1>4, Zenon DEF World, files, limits, Exit, Fresh
  <2> QED
    BY <1>1, <1>2, <1>4, <2>1, ExitKeeps, Zenon DEF Fresh, files
<1> QED
  BY <1>3, <1>4, Zenon DEF Hooks

LEMMA CreateIfbStep == ASSUME IInv, CreateIfb PROVE IInv'
<1>0. World /\ Runtime /\ Pinned
  BY Zenon DEF IInv, Typed
<1>1. UNCHANGED <<root, filters, pins, files, disabled, limits, maps>> /\ rt.pc \in {"link", "tree", "base"}
  BY Zenon DEF CreateIfb, Going
<1>2. ~pins'
  BY <1>0, <1>1 DEF Pinned
<1>3. rates' \in [Clients -> Nat]
  BY <1>0 DEF CreateIfb, World
<1>4. ifb' \in IfbState
  BY <1>0 DEF CreateIfb, World, IfbState
<1>5. World'
  BY <1>0, <1>1, <1>3, <1>4, Zenon DEF World, files, limits, maps
<1>6. rt.pc \in SettingUp
  BY <1>1 DEF SettingUp
<1>7. CASE Going /\ ifb' # "none" /\ (Goto("tree") \/ Goto("base"))
  <2>1. rt'.pc \in {"tree", "base"} /\ Moves /\ SameSpot
    BY <1>7, GotoFields, Zenon
  <2>2. Pinned'
    BY <1>2, <1>7, <2>1 DEF Pinned, Leaving
  <2>3. rt'.pc \in SettingUp /\ rt'.pc # "portbase"
    BY <2>1 DEF SettingUp
  <2> QED
    BY <1>1, <1>5, <1>6, <1>7, <2>1, <2>2, <2>3, SetUpKeeps, Zenon DEF SameSpot, files
<1>8. CASE Going /\ ifb' # "none" /\ rt' = [rt EXCEPT !.pc = "port", !.todo = Ports]
  <2>0. DOMAIN rt = DOMAIN Stopped
    BY <1>0, Zenon DEF Runtime
  <2>1. /\ rt'.pc = "port" /\ rt'.todo = Ports /\ Kept /\ DOMAIN rt' = DOMAIN Stopped
        /\ rt'.at = rt.at /\ rt'.orig = rt.orig /\ rt'.final = rt.final /\ rt'.errs = rt.errs
    BY <1>8, <2>0, Zenon DEF Kept, Stopped
  <2>2. Moves
    BY <1>0, <2>1, Zenon DEF Moves, Runtime
  <2>3. Pinned'
    BY <1>2, <1>8, <2>1 DEF Pinned, Leaving
  <2>4. rt'.pc \in SettingUp /\ rt'.pc # "portbase"
    BY <2>1 DEF SettingUp
  <2> QED
    BY <1>1, <1>5, <1>6, <1>8, <2>1, <2>2, <2>3, <2>4, SetUpKeeps, Zenon DEF files
<1>9. CASE rt' = Undo({})
  <2>1. {} \in SUBSET Ports /\ UNCHANGED <<maps, state>>
    BY <1>1, Zenon DEF files
  <2> QED
    BY <1>2, <1>5, <1>6, <1>9, <2>1, UndoKeeps, Zenon
<1>10. \/ Going /\ ifb' # "none" /\ (Goto("tree") \/ Goto("base"))
       \/ Going /\ ifb' # "none" /\ rt' = [rt EXCEPT !.pc = "port", !.todo = Ports]
       \/ rt' = Undo({})
  <2>1. "link" # "none" /\ "bare" # "none" /\ "tree" # "none"
    OBVIOUS
  <2> QED
    BY <2>1, Zenon DEF CreateIfb
<1> QED
  BY <1>7, <1>8, <1>9, <1>10, Zenon

\* The chosen port is one of those to do.
LEMMA ChosenPort == ASSUME NEW S, S # {} PROVE (CHOOSE q \in S : TRUE) \in S
BY Zenon

LEMMA TakePortStep == ASSUME IInv, TakePort PROVE IInv'
<1>0. World /\ Runtime /\ Pinned
  BY Zenon DEF IInv, Typed
<1>1. UNCHANGED <<ifb, filters, pins>> /\ Fresh /\ rt.pc = "port" /\ rt.todo # {}
  BY Zenon DEF TakePort
<1> DEFINE p == CHOOSE q \in rt.todo : TRUE
<1>2. p \in rt.todo /\ p \in Ports
  BY <1>0, <1>1, ChosenPort, Zenon DEF Runtime
<1>3. ~pins' /\ ifb' # "none"
  BY <1>0, <1>1 DEF Pinned
<1>4. rt.pc \in SettingUp
  BY <1>1 DEF SettingUp
<1>a. \/ /\ root' = [root EXCEPT ![p] = "bare"] /\ Going
         /\ rt' = [rt EXCEPT !.pc = "portbase", !.at = p, !.todo = @ \ {p}]
      \/ rt' = Undo(Taken) /\ UNCHANGED <<root, maps>>
  BY Zenon DEF TakePort
<1> HIDE DEF p
<1>5. CASE /\ root' = [root EXCEPT ![p] = "bare"] /\ Going
           /\ rt' = [rt EXCEPT !.pc = "portbase", !.at = p, !.todo = @ \ {p}]
  <2>0. DOMAIN rt = DOMAIN Stopped
    BY <1>0, Zenon DEF Runtime
  <2>1. /\ rt'.pc = "portbase" /\ rt'.todo = rt.todo \ {p} /\ rt'.at = p /\ Kept
        /\ DOMAIN rt' = DOMAIN Stopped
        /\ rt'.orig = rt.orig /\ rt'.final = rt.final /\ rt'.errs = rt.errs
    BY <1>5, <2>0, Zenon DEF Kept, Stopped
  <2>2. Moves
    BY <1>0, <1>2, <2>1, Zenon DEF Moves, Runtime
  <2>3. root' \in [Ports -> Root]
    BY <1>0, <1>2, <1>5 DEF World, Root
  <2>4. World'
    BY <1>0, <1>1, <1>5, <2>3, Zenon DEF World, files, limits, maps, Fresh, Going
  <2>5. Pinned'
    BY <1>3, <2>1 DEF Pinned, Leaving
  <2>6. rt'.pc \in SettingUp
    BY <2>1 DEF SettingUp
  <2> QED
    BY <1>1, <1>2, <1>4, <1>5, <2>1, <2>2, <2>4, <2>5, <2>6, SetUpKeeps, Zenon DEF files, Fresh
<1>6. CASE rt' = Undo(Taken) /\ UNCHANGED <<root, maps>>
  <2>1. World'
    BY <1>0, <1>1, <1>6, Zenon DEF World, files, limits, maps, Fresh
  <2>2. Taken \in SUBSET Ports
    BY Zenon DEF Taken
  <2> QED
    BY <1>1, <1>3, <1>4, <1>6, <2>1, <2>2, UndoKeeps, Zenon DEF files, maps, Fresh
<1> QED
  BY <1>a, <1>5, <1>6, Zenon

LEMMA TreeBaseStep == ASSUME IInv, TreeBase PROVE IInv'
<1>0. World /\ Runtime /\ Pinned /\ Equipped
  BY Zenon DEF IInv, Typed
<1>1. UNCHANGED <<ifb, filters, pins>> /\ Fresh /\ rt.pc = "portbase"
  BY Zenon DEF TreeBase
<1>2. rt.at \in Ports
  BY <1>0, <1>1 DEF Equipped
<1>3. ~pins' /\ ifb' # "none"
  BY <1>0, <1>1 DEF Pinned
<1>4. rt.pc \in SettingUp
  BY <1>1 DEF SettingUp
<1>5. CASE /\ root' = [root EXCEPT ![rt.at] = "tree"] /\ Going
           /\ rt' = [rt EXCEPT !.pc = "port", !.at = None]
  <2>0. DOMAIN rt = DOMAIN Stopped
    BY <1>0, Zenon DEF Runtime
  <2>1. /\ rt'.pc = "port" /\ rt'.todo = rt.todo /\ rt'.at = None /\ Kept
        /\ DOMAIN rt' = DOMAIN Stopped
        /\ rt'.orig = rt.orig /\ rt'.final = rt.final /\ rt'.errs = rt.errs
    BY <1>5, <2>0, Zenon DEF Kept, Stopped
  <2>2. Moves
    BY <1>0, <2>1, Zenon DEF Moves, Runtime
  <2>3. root' \in [Ports -> Root]
    BY <1>0, <1>2, <1>5 DEF World, Root
  <2>4. World'
    BY <1>0, <1>1, <1>5, <2>3, Zenon DEF World, files, limits, maps, Fresh, Going
  <2>5. Pinned'
    BY <1>3, <2>1 DEF Pinned, Leaving
  <2>6. rt'.pc \in SettingUp /\ rt'.pc # "portbase"
    BY <2>1 DEF SettingUp
  <2> QED
    BY <1>1, <1>4, <1>5, <2>1, <2>2, <2>4, <2>5, <2>6, SetUpKeeps, Zenon DEF files, Fresh
<1>6. CASE rt' = [Undo(Taken \cup {rt.at}) EXCEPT !.at = None] /\ UNCHANGED <<root, maps>>
  <2>1. World'
    BY <1>0, <1>1, <1>6, Zenon DEF World, files, limits, maps, Fresh
  <2>2. Taken \cup {rt.at} \in SUBSET Ports
    BY <1>2, Zenon DEF Taken
  <2>3. UNCHANGED <<maps, state>>
    BY <1>1, <1>6, Zenon DEF Fresh, files
  <2> QED
    BY <1>3, <1>4, <1>6, <2>1, <2>2, <2>3, UndoKeeps, Zenon
<1> QED
  BY <1>5, <1>6, Zenon DEF TreeBase

LEMMA PinStep == ASSUME IInv, Pin PROVE IInv'
<1>0. World /\ Pinned
  BY Zenon DEF IInv, Typed
<1>1. UNCHANGED <<root, ifb, filters>> /\ Fresh /\ rt.pc = "port"
  BY Zenon DEF Pin
<1>2. ~pins /\ ifb' # "none"
  BY <1>0, <1>1 DEF Pinned
<1>3. rt.pc \in SettingUp
  BY <1>1 DEF SettingUp
<1>4. CASE pins' = TRUE /\ Goto("attach") /\ Going
  <2>1. rt'.pc = "attach" /\ Moves /\ SameSpot
    BY <1>4, GotoFields, Zenon
  <2>2. World'
    BY <1>0, <1>1, <1>4, Zenon DEF World, files, limits, maps, Fresh, Going
  <2>3. Pinned'
    BY <1>2, <2>1 DEF Pinned, Leaving
  <2>4. rt'.pc \in SettingUp /\ rt'.pc # "portbase"
    BY <2>1 DEF SettingUp
  <2> QED
    BY <1>1, <1>3, <1>4, <2>1, <2>2, <2>3, <2>4, SetUpKeeps, Zenon DEF SameSpot, Fresh, files
<1>5. CASE rt' = Undo(Ports) /\ UNCHANGED <<pins, maps>>
  <2>1. World'
    BY <1>0, <1>1, <1>5, Zenon DEF World, files, limits, maps, Fresh
  <2>2. Ports \in SUBSET Ports /\ UNCHANGED <<maps, state>> /\ ~pins'
    BY <1>1, <1>2, <1>5, Zenon DEF Fresh, files
  <2> QED
    BY <1>3, <1>5, <2>1, <2>2, UndoKeeps, Zenon
<1> QED
  BY <1>4, <1>5, Zenon DEF Pin

\* write_evidence writes the roots that were captured.
LEMMA EvidenceTyped ==
  ASSUME IInv, rt.pc \notin Recovering PROVE Evidence(evidence) \in Written \cup {None}
<1>1. rt.orig \in [Ports -> Root]
  <2>1. rt.orig \in [Ports -> Supported]
    BY Zenon DEF IInv, Typed, Equipped
  <2> QED
    BY <2>1 DEF Root
<1>2. [boot |-> boot, roots |-> rt.orig] \in Written
  BY <1>1, Zenon DEF IInv, Typed, World, Written
<1> QED
  BY <1>2, Zenon DEF IInv, Typed, World, Evidence

LEMMA AttachStep == ASSUME IInv, Attach PROVE IInv'
<1>0. World /\ Pinned
  BY Zenon DEF IInv, Typed
<1>1. /\ UNCHANGED <<root, ifb, pins, rates, record, state, journal, disabled, limits>>
      /\ rt.pc \in {"attach", "observe", "active"} /\ UNCHANGED maps
  BY Zenon DEF Attach, Going
<1>2. pins' => ifb' # "none"
  BY <1>0, <1>1, Zenon DEF Pinned
<1>3. rt.pc \in SettingUp /\ rt.pc \notin Recovering
  BY <1>1 DEF SettingUp, Recovering
<1>4. filters' \in [hooks : BOOLEAN, matcher : SUBSET Ports, observer : BOOLEAN]
  <2>1. filters \in [hooks : BOOLEAN, matcher : SUBSET Ports, observer : BOOLEAN]
    BY <1>0, Zenon DEF World
  <2>2. \/ UNCHANGED filters
        \/ \E on \in SUBSET Ports : filters' = [filters EXCEPT !.matcher = on]
        \/ filters' = [filters EXCEPT !.observer = TRUE]
    <3>1. Ports \in SUBSET Ports
      BY Zenon
    <3> QED
      BY <3>1, Zenon DEF Attach
  <2>3. CASE UNCHANGED filters
    BY <2>1, <2>3, Zenon
  <2>4. CASE \E on \in SUBSET Ports : filters' = [filters EXCEPT !.matcher = on]
    BY <2>1, <2>4, Zenon
  <2>5. CASE filters' = [filters EXCEPT !.observer = TRUE]
    BY <2>1, <2>5, Zenon
  <2> QED
    BY <2>2, <2>3, <2>4, <2>5, Zenon
<1>5. evidence' \in Written \cup {None}
  <2>1. evidence' = evidence \/ evidence' = Evidence(evidence)
    BY Zenon DEF Attach
  <2> QED
    BY <1>0, <1>3, <2>1, EvidenceTyped, Zenon DEF World
<1>6. World'
  BY <1>0, <1>1, <1>4, <1>5, Zenon DEF World, limits, maps
<1>7. Goto("observe") \/ Goto("active") \/ Goto("startup") \/ Goto("detach")
  BY Zenon DEF Attach, Goto
<1>8. rt'.pc \in {"observe", "active", "startup", "detach"} /\ Moves /\ SameSpot
  BY <1>7, GotoFields, Zenon
<1>9. Pinned'
  BY <1>2, <1>8 DEF Pinned, Leaving
<1>10. Equipped'
  BY <1>3, <1>8 DEF IInv, Typed, Equipped, SameSpot, Changing
<1>11. rt.pc \in Starting /\ rt'.pc \in Starting
  BY <1>3, <1>8 DEF Starting, SettingUp
<1> QED
  BY <1>1, <1>6, <1>8, <1>9, <1>10, <1>11, StartKeeps, Zenon DEF maps

\* rollback_activation, rollback_prepare and shutdown.
LEMMA CapturedRoots == ASSUME IInv, rt.pc \notin Recovering PROVE rt.orig \in [Ports -> Supported]
BY Zenon DEF IInv, Typed, Equipped

LEMMA BareTyped ==
  ASSUME World, NEW f \in [hooks : BOOLEAN, matcher : SUBSET Ports, observer : BOOLEAN]
  PROVE  /\ Bare(f) \in [hooks : BOOLEAN, matcher : SUBSET Ports, observer : BOOLEAN]
         /\ Bare(f).matcher = {} /\ Bare(f).observer = FALSE
         /\ Hookless(f) \in [hooks : BOOLEAN, matcher : SUBSET Ports, observer : BOOLEAN]
<1>1. {} \in SUBSET Ports
  BY Zenon
<1> QED
  BY <1>1, Zenon DEF Bare, Hookless

LEMMA RollbackActivationStep == ASSUME IInv, RollbackActivation PROVE IInv'
<1>0. World /\ Pinned
  BY Zenon DEF IInv, Typed
<1>1. UNCHANGED <<root, ifb>> /\ Fresh /\ rt.pc = "detach" /\ UNCHANGED maps
  BY Zenon DEF RollbackActivation, Going
<1>2. rt.pc \in SettingUp /\ rt.pc \notin Recovering
  BY <1>1 DEF SettingUp, Recovering
<1>3. filters \in [hooks : BOOLEAN, matcher : SUBSET Ports, observer : BOOLEAN]
  BY <1>0, Zenon DEF World
<1>4. CASE filters' = Bare(filters) /\ pins' = FALSE /\ rt' = Undo(Ports)
  <2>1. filters' \in [hooks : BOOLEAN, matcher : SUBSET Ports, observer : BOOLEAN]
    BY <1>0, <1>3, <1>4, BareTyped, Zenon
  <2>2. World'
    BY <1>0, <1>1, <1>4, <2>1, Zenon DEF World, files, limits, maps, Fresh
  <2>3. Ports \in SUBSET Ports /\ UNCHANGED <<maps, state>> /\ ~pins'
    BY <1>1, <1>4, Zenon DEF Fresh, files
  <2> QED
    BY <1>2, <1>4, <2>2, <2>3, UndoKeeps, Zenon
<1>5. CASE /\ filters' \in FewerAttached /\ pins' = (pins /\ Attached(filters'))
           /\ Goto("stop")
  <2>1. filters' \in [hooks : BOOLEAN, matcher : SUBSET Ports, observer : BOOLEAN]
    BY <1>0, <1>5, FewerTyped, Zenon DEF FewerAttached
  <2>2. pins' \in BOOLEAN /\ (pins' => ifb' # "none")
    BY <1>0, <1>1, <1>5, Zenon DEF Pinned
  <2>3. World'
    BY <1>0, <1>1, <1>5, <2>1, <2>2, Zenon DEF World, files, limits, maps, Fresh
  <2>4. rt'.pc = "stop" /\ Moves /\ SameSpot
    BY <1>5, GotoFields, Zenon
  <2>5. Pinned' /\ Returned'
    BY <2>2, <2>4 DEF Pinned, Returned, Leaving
  <2>6. rt.pc \in Outside \cup {"running"} /\ rt'.pc \in Leaving \cup {"stop"} /\ rt'.pc # "restore"
    BY <1>2, <2>4 DEF Outside, Starting
  <2>7. rt'.orig \in [Ports -> Supported]
    BY <1>2, <2>4, CapturedRoots, Zenon DEF SameSpot
  <2> QED
    BY <1>1, <2>3, <2>4, <2>5, <2>6, <2>7, LeaveKeeps, Zenon DEF maps, Fresh, files
<1> QED
  BY <1>4, <1>5, Zenon DEF RollbackActivation

LEMMA RemoveRootStep == ASSUME IInv, RemoveRoot PROVE IInv'
<1>0. World /\ Runtime /\ Pinned /\ Returned
  BY Zenon DEF IInv, Typed
<1>1. UNCHANGED <<ifb, filters, pins>> /\ Fresh /\ rt.pc = "remove" /\ rt.todo # {} /\ UNCHANGED maps
  BY Zenon DEF RemoveRoot, Going
<1>2. ~pins'
  BY <1>0, <1>1 DEF Pinned, Leaving
<1> DEFINE p == CHOOSE q \in rt.todo : TRUE
<1>3. p \in rt.todo /\ p \in Ports
  BY <1>0, <1>1, ChosenPort, Zenon DEF Runtime
<1>4. \/ /\ root' = [root EXCEPT ![p] = "default"]
         /\ rt' = [rt EXCEPT !.pc = "restore", !.at = p, !.todo = @ \ {p}]
      \/ rt' = [rt EXCEPT !.todo = @ \ {p}, !.errs = TRUE] /\ UNCHANGED root
  BY Zenon DEF RemoveRoot
<1> HIDE DEF p
<1>5. DOMAIN rt = DOMAIN Stopped
  BY <1>0, Zenon DEF Runtime
<1>6. /\ rt'.todo = rt.todo \ {p} /\ Kept /\ DOMAIN rt' = DOMAIN Stopped
      /\ rt'.orig = rt.orig /\ rt'.final = rt.final
      /\ \/ /\ root' = [root EXCEPT ![p] = "default"] /\ rt'.pc = "restore" /\ rt'.at = p
            /\ rt'.errs = rt.errs
         \/ rt'.pc = "remove" /\ rt'.errs = TRUE /\ rt'.at = rt.at /\ UNCHANGED root
  <2>1. CASE /\ root' = [root EXCEPT ![p] = "default"]
             /\ rt' = [rt EXCEPT !.pc = "restore", !.at = p, !.todo = @ \ {p}]
    BY <1>5, <2>1, Zenon DEF Kept, Stopped
  <2>2. CASE rt' = [rt EXCEPT !.todo = @ \ {p}, !.errs = TRUE] /\ UNCHANGED root
    BY <1>1, <1>5, <2>2, Zenon DEF Kept, Stopped
  <2> QED
    BY <1>4, <2>1, <2>2, Zenon
<1>7. Moves
  BY <1>0, <1>3, <1>6, Zenon DEF Moves, Runtime
<1>8. root' \in [Ports -> Root]
  BY <1>0, <1>3, <1>6 DEF World, Root, Supported
<1>9. World'
  BY <1>0, <1>1, <1>8, Zenon DEF World, files, limits, maps, Fresh
<1>10. rt'.pc \in {"remove", "restore"} /\ rt'.pc \in Leaving /\ rt.pc \in Leaving /\ rt.pc \notin Recovering
  BY <1>1, <1>6 DEF Leaving, Recovering
<1>11. Pinned'
  BY <1>2, <1>10 DEF Pinned
<1>12. Returned'
  <2>1. SUFFICES ASSUME rt'.final
                 PROVE  /\ filters'.matcher = {} /\ ~filters'.observer
                        /\ ~rt'.errs /\ admins' = 0 =>
                             \A q \in Ports \ rt'.todo : (rt'.pc = "restore" => q # rt'.at) => root'[q] = rt'.orig[q]
    BY <1>10 DEF Returned
  <2>2. /\ filters.matcher = {} /\ ~filters.observer
        /\ ~rt.errs /\ admins = 0 => \A q \in Ports \ rt.todo : root[q] = rt.orig[q]
    BY <1>0, <1>1, <1>6, <1>10, <2>1 DEF Returned
  <2>3. filters'.matcher = {} /\ ~filters'.observer
    BY <1>1, <2>2, Zenon
  <2>4. ASSUME ~rt'.errs, admins' = 0, NEW q \in Ports \ rt'.todo, rt'.pc = "restore" => q # rt'.at
        PROVE  root'[q] = rt'.orig[q]
    <3>1. root' = [root EXCEPT ![p] = "default"] /\ rt'.pc = "restore" /\ rt'.at = p /\ ~rt.errs
      BY <1>6, <2>4, Zenon
    <3>2. q \in Ports \ rt.todo /\ q # p /\ admins = 0
      BY <1>1, <1>6, <2>4, <3>1, Zenon DEF Fresh, limits
    <3>3. root[q] = rt.orig[q]
      BY <2>2, <3>1, <3>2, Zenon
    <3>4. root'[q] = root[q]
      BY <1>0, <3>1, <3>2 DEF World
    <3> QED
      BY <1>6, <3>3, <3>4, Zenon
  <2> QED
    BY <2>3, <2>4, Zenon
<1>13. rt'.orig \in [Ports -> Supported]
  BY <1>6, <1>10, CapturedRoots, Zenon
<1>14. rt'.pc = "restore" => rt'.at \in Ports
  BY <1>3, <1>6
<1>15. rt.pc \in Outside
  BY <1>10, Zenon DEF Outside
<1> QED
  BY <1>1, <1>7, <1>9, <1>10, <1>11, <1>12, <1>13, <1>14, <1>15, LeaveKeeps, Zenon DEF maps, Fresh, files

LEMMA RestoreRootStep == ASSUME IInv, RestoreRoot PROVE IInv'
<1>0. World /\ Runtime /\ Pinned /\ Returned /\ Equipped
  BY Zenon DEF IInv, Typed
<1>1. UNCHANGED <<ifb, filters, pins>> /\ Fresh /\ rt.pc = "restore" /\ UNCHANGED maps
  BY Zenon DEF RestoreRoot, Going
<1>2. ~pins'
  BY <1>0, <1>1 DEF Pinned, Leaving
<1>3. rt.at \in Ports
  BY <1>0, <1>1 DEF Equipped
<1>4. DOMAIN rt = DOMAIN Stopped
  BY <1>0, Zenon DEF Runtime
<1>5. /\ rt'.pc = "remove" /\ rt'.at = None /\ rt'.todo = rt.todo /\ Kept /\ DOMAIN rt' = DOMAIN Stopped
      /\ rt'.orig = rt.orig /\ rt'.final = rt.final
      /\ \/ root' = [root EXCEPT ![rt.at] = rt.orig[rt.at]] /\ rt'.errs = rt.errs
         \/ rt'.errs = TRUE /\ UNCHANGED root
  <2>1. CASE /\ root' = [root EXCEPT ![rt.at] = rt.orig[rt.at]]
             /\ rt' = [rt EXCEPT !.pc = "remove", !.at = None]
    BY <1>4, <2>1, Zenon DEF Kept, Stopped
  <2>2. CASE rt' = [rt EXCEPT !.pc = "remove", !.at = None, !.errs = TRUE] /\ UNCHANGED root
    BY <1>4, <2>2, Zenon DEF Kept, Stopped
  <2> QED
    BY <2>1, <2>2, Zenon DEF RestoreRoot
<1>6. Moves
  BY <1>0, <1>5, Zenon DEF Moves, Runtime
<1>7. rt'.pc \in Leaving /\ rt.pc \in Leaving /\ rt.pc \notin Recovering
  BY <1>1, <1>5 DEF Leaving, Recovering
<1>8. rt.orig \in [Ports -> Supported]
  BY <1>7, CapturedRoots, Zenon
<1>9. root' \in [Ports -> Root]
  BY <1>0, <1>3, <1>5, <1>8 DEF World, Root
<1>10. World'
  BY <1>0, <1>1, <1>9, Zenon DEF World, files, limits, maps, Fresh
<1>11. Pinned'
  BY <1>2, <1>5 DEF Pinned
<1>12. Returned'
  <2>1. SUFFICES ASSUME rt'.final
                 PROVE  /\ filters'.matcher = {} /\ ~filters'.observer
                        /\ ~rt'.errs /\ admins' = 0 => \A q \in Ports \ rt'.todo : root'[q] = rt'.orig[q]
    BY <1>5 DEF Returned
  <2>2. /\ filters.matcher = {} /\ ~filters.observer
        /\ ~rt.errs /\ admins = 0 => \A q \in Ports \ rt.todo : q # rt.at => root[q] = rt.orig[q]
    BY <1>0, <1>1, <1>5, <1>7, <2>1 DEF Returned
  <2>3. filters'.matcher = {} /\ ~filters'.observer
    BY <1>1, <2>2, Zenon
  <2>4. ASSUME ~rt'.errs, admins' = 0, NEW q \in Ports \ rt'.todo PROVE root'[q] = rt'.orig[q]
    <3>1. root' = [root EXCEPT ![rt.at] = rt.orig[rt.at]] /\ ~rt.errs /\ admins = 0
      BY <1>1, <1>5, <2>4, Zenon DEF Fresh, limits
    <3>2. q # rt.at => root[q] = rt.orig[q]
      BY <1>5, <2>2, <2>4, <3>1, Zenon
    <3>3. root'[q] = rt.orig[q]
      BY <1>0, <3>1, <3>2 DEF World
    <3> QED
      BY <1>5, <3>3, Zenon
  <2> QED
    BY <2>3, <2>4, Zenon
<1>13. rt.pc \in Outside /\ rt'.pc # "restore"
  BY <1>5, <1>7 DEF Outside
<1> QED
  BY <1>1, <1>5, <1>6, <1>7, <1>8, <1>10, <1>11, <1>12, <1>13, LeaveKeeps, Zenon DEF maps, Fresh, files

LEMMA RemoveIfbRootStep == ASSUME IInv, RemoveIfbRoot PROVE IInv'
<1>0. World /\ Runtime /\ Pinned /\ Returned
  BY Zenon DEF IInv, Typed
<1>1. UNCHANGED <<root, filters, pins>> /\ Fresh /\ rt.pc = "remove" /\ rt.todo = {} /\ UNCHANGED maps
  BY Zenon DEF RemoveIfbRoot, Going
<1>2. ~pins'
  BY <1>0, <1>1 DEF Pinned, Leaving
<1>3. DOMAIN rt = DOMAIN Stopped
  BY <1>0, Zenon DEF Runtime
<1>4. /\ rt'.pc = "dellink" /\ rt'.at = rt.at /\ rt'.todo = rt.todo /\ Kept /\ DOMAIN rt' = DOMAIN Stopped
      /\ rt'.orig = rt.orig /\ rt'.final = rt.final /\ (rt'.errs = rt.errs \/ rt'.errs = TRUE)
  <2>1. CASE Goto("dellink")
    BY <1>3, <2>1, Zenon DEF Goto, Kept, Stopped
  <2>2. CASE rt' = [rt EXCEPT !.pc = "dellink", !.errs = TRUE]
    BY <1>3, <2>2, Zenon DEF Kept, Stopped
  <2> QED
    BY <2>1, <2>2, Zenon DEF RemoveIfbRoot
<1>5. Moves
  BY <1>0, <1>4, Zenon DEF Moves, Runtime
<1>6. rt'.pc \in Leaving /\ rt.pc \in Leaving /\ rt.pc \notin Recovering
  BY <1>1, <1>4 DEF Leaving, Recovering
<1>7. rt.orig \in [Ports -> Supported]
  BY <1>6, CapturedRoots, Zenon
<1>8. ifb' \in IfbState
  BY <1>0 DEF World, RemoveIfbRoot, IfbState
<1>9. World'
  BY <1>0, <1>1, <1>8, Zenon DEF World, files, limits, maps, Fresh
<1>10. Pinned'
  BY <1>2, <1>4 DEF Pinned
<1>11. Returned'
  <2>1. SUFFICES ASSUME rt'.final
                 PROVE  /\ filters'.matcher = {} /\ ~filters'.observer /\ rt'.todo = {}
                        /\ ~rt'.errs /\ admins' = 0 => \A q \in Ports \ rt'.todo : root'[q] = rt'.orig[q]
    BY <1>4 DEF Returned
  <2>2. /\ filters.matcher = {} /\ ~filters.observer
        /\ ~rt.errs /\ admins = 0 => \A q \in Ports \ rt.todo : root[q] = rt.orig[q]
    BY <1>0, <1>1, <1>4, <1>6, <2>1 DEF Returned
  <2> QED
    BY <1>1, <1>4, <2>2, Zenon DEF Fresh, limits
<1>12. rt.pc \in Outside /\ rt'.pc # "restore"
  BY <1>4, <1>6 DEF Outside
<1> QED
  BY <1>1, <1>4, <1>5, <1>6, <1>7, <1>9, <1>10, <1>11, <1>12, LeaveKeeps, Zenon DEF maps, Fresh, files

LEMMA DeleteLinkStep == ASSUME IInv, DeleteLink PROVE IInv'
<1>0. World /\ Runtime /\ Pinned
  BY Zenon DEF IInv, Typed
<1>1. UNCHANGED <<root, pins>> /\ Fresh /\ rt.pc = "dellink"
  BY Zenon DEF DeleteLink
<1>2. ~pins'
  BY <1>0, <1>1 DEF Pinned, Leaving
<1>3. ifb' \in IfbState
  BY <1>0 DEF World, DeleteLink, IfbState
<1>4. CASE Goto("stop") /\ UNCHANGED <<maps, filters>>
  <2>1. rt'.pc = "stop" /\ Moves /\ SameSpot
    BY <1>4, GotoFields, Zenon
  <2>2. World'
    BY <1>0, <1>1, <1>3, <1>4, Zenon DEF World, files, limits, maps, Fresh
  <2>3. Pinned' /\ Returned'
    BY <1>2, <2>1 DEF Pinned, Returned, Leaving
  <2>4. rt.pc \in Outside \cup {"running"} /\ rt'.pc \in Leaving \cup {"stop"} /\ rt'.pc # "restore"
    BY <1>1, <2>1 DEF Outside, Leaving
  <2>5. rt'.orig \in [Ports -> Supported]
    <3>1. rt.pc \notin Recovering
      BY <1>1 DEF Recovering
    <3> QED
      BY <2>1, <3>1, CapturedRoots, Zenon DEF SameSpot
  <2> QED
    BY <1>1, <1>4, <2>1, <2>2, <2>3, <2>4, <2>5, LeaveKeeps, Zenon DEF maps, Fresh, files
<1>5. CASE filters' = Hookless(filters) /\ (Exit("clean") \/ Exit("dirty"))
  <2>1. filters' \in [hooks : BOOLEAN, matcher : SUBSET Ports, observer : BOOLEAN]
    BY <1>0, <1>5, BareTyped, Zenon DEF World
  <2>2. World'
    BY <1>0, <1>1, <1>3, <1>5, <2>1, Zenon DEF World, files, limits, Fresh, Exit
  <2> QED
    BY <1>1, <1>2, <1>5, <2>2, ExitKeeps, Zenon DEF Fresh, files
<1> QED
  BY <1>4, <1>5, Zenon DEF DeleteLink, Going

LEMMA StopStep == ASSUME IInv, Stop PROVE IInv'
<1>0. World /\ Runtime /\ Pinned
  BY Zenon DEF IInv, Typed
<1>1. UNCHANGED <<root, ifb, rates, record, state, journal, disabled, limits>> /\ rt.pc = "stop"
  BY Zenon DEF Stop
<1>2. rt.pc \notin Recovering
  BY <1>1 DEF Recovering
<1>3. filters \in [hooks : BOOLEAN, matcher : SUBSET Ports, observer : BOOLEAN]
  BY <1>0, Zenon DEF World
<1>4. evidence' \in Written \cup {None}
  <2>1. evidence' = Evidence(evidence)
    BY Zenon DEF Stop
  <2> QED
    BY <1>2, <2>1, EvidenceTyped, Zenon
<1>5. CASE /\ table' = None /\ filters' = Bare(filters) /\ pins' = FALSE /\ UNCHANGED verdicts
           /\ rt' = [rt EXCEPT !.pc = "remove", !.todo = Ports, !.final = TRUE, !.errs = FALSE]
  <2>0. DOMAIN rt = DOMAIN Stopped
    BY <1>0, Zenon DEF Runtime
  <2>1. /\ rt'.pc = "remove" /\ rt'.todo = Ports /\ rt'.final = TRUE /\ rt'.errs = FALSE
        /\ Kept /\ DOMAIN rt' = DOMAIN Stopped /\ rt'.at = rt.at /\ rt'.orig = rt.orig
    BY <1>5, <2>0, Zenon DEF Kept, Stopped
  <2>2. Moves
    <3>1. Ports \in SUBSET Ports
      BY Zenon
    <3> QED
      BY <1>0, <2>1, <3>1, Zenon DEF Moves, Runtime
  <2>3. /\ filters' \in [hooks : BOOLEAN, matcher : SUBSET Ports, observer : BOOLEAN]
        /\ filters'.matcher = {} /\ filters'.observer = FALSE
    BY <1>0, <1>3, <1>5, BareTyped, Zenon
  <2>4. World'
    BY <1>0, <1>1, <1>4, <1>5, <2>3, Zenon DEF World, limits
  <2>5. Pinned'
    BY <1>5, <2>1 DEF Pinned
  <2>6. Returned'
    BY <2>1, <2>3 DEF Returned
  <2>7. rt.pc \in Outside \cup {"running"} /\ rt'.pc \in Leaving \cup {"stop"} /\ rt'.pc # "restore"
    BY <1>1, <2>1 DEF Outside, Leaving
  <2>8. rt'.orig \in [Ports -> Supported]
    BY <1>2, <2>1, CapturedRoots, Zenon
  <2> QED
    BY <1>1, <1>5, <2>2, <2>4, <2>5, <2>6, <2>7, <2>8, LeaveKeeps, Zenon
<1>6. CASE Exit("dirty") /\ \E f \in {Bare(filters)} \cup FewerAttached :
                              filters' = Hookless(f) /\ pins' = (pins /\ Attached(f))
  <2>1. PICK f \in {Bare(filters)} \cup FewerAttached :
               filters' = Hookless(f) /\ pins' = (pins /\ Attached(f))
    BY <1>6, Zenon
  <2>2. f \in [hooks : BOOLEAN, matcher : SUBSET Ports, observer : BOOLEAN]
    BY <1>0, <1>3, BareTyped, FewerTyped, Zenon DEF FewerAttached
  <2>3. filters' \in [hooks : BOOLEAN, matcher : SUBSET Ports, observer : BOOLEAN]
    BY <1>0, <2>1, <2>2, BareTyped, Zenon
  <2>4. pins' \in BOOLEAN /\ (pins' => ifb' # "none")
    BY <1>0, <1>1, <2>1, Zenon DEF Pinned
  <2>5. World'
    BY <1>0, <1>1, <1>4, <1>6, <2>3, <2>4, Zenon DEF World, limits, Exit
  <2> QED
    BY <1>1, <1>6, <2>4, <2>5, ExitKeeps, Zenon
<1> QED
  BY <1>5, <1>6, Zenon DEF Stop

LEMMA ShutdownStep == ASSUME IInv, Shutdown PROVE IInv'
<1>0. World /\ Pinned
  BY Zenon DEF IInv, Typed
<1>1. UNCHANGED <<kernel, queues, files, disabled, limits>> /\ rt.pc = "running" /\ Goto("stop")
  BY Zenon DEF Shutdown
<1>2. World'
  BY <1>0, <1>1, Zenon DEF World, kernel, queues, files, limits
<1>3. rt'.pc = "stop" /\ Moves /\ SameSpot
  BY <1>1, GotoFields, Zenon
<1>4. pins' => ifb' # "none"
  BY <1>0, <1>1, Zenon DEF Pinned, kernel
<1>5. Pinned' /\ Returned'
  BY <1>3, <1>4 DEF Pinned, Returned, Leaving
<1>6. rt.pc \in Outside \cup {"running"} /\ rt'.pc \in Leaving \cup {"stop"} /\ rt'.pc # "restore"
  BY <1>1, <1>3 DEF Outside
<1>7. rt'.orig \in [Ports -> Supported]
  <2>1. rt.pc \notin Recovering
    BY <1>1 DEF Recovering
  <2> QED
    BY <1>3, <2>1, CapturedRoots, Zenon DEF SameSpot
<1> QED
  BY <1>1, <1>2, <1>3, <1>5, <1>6, <1>7, LeaveKeeps, Zenon DEF queues, files

\* A kill, and a reboot.
LEMMA CrashStep == ASSUME IInv, Crash PROVE IInv'
<1>1. World'
  BY Zenon DEF IInv, Typed, World, Crash, Exit, kernel, files
<1>2. (pins' => ifb' # "none") /\ state' = state /\ Exit("killed")
  BY Zenon DEF IInv, Pinned, Crash, kernel, files
<1> QED
  BY <1>1, <1>2, ExitKeeps, Zenon

LEMMA RebootStep == ASSUME IInv, Reboot PROVE IInv'
<1>0. World
  BY Zenon DEF IInv, Typed
<1>1. root' \in [Ports -> Root] /\ ifb' \in IfbState /\ rates' \in [Clients -> Nat] /\ boot' \in Nat
  BY <1>0 DEF Reboot, World, Root, Supported, IfbState
<1>2. filters' \in [hooks : BOOLEAN, matcher : SUBSET Ports, observer : BOOLEAN]
  BY Zenon DEF Reboot, NoFilters
<1>3. World'
  BY <1>0, <1>1, <1>2, Zenon DEF World, Reboot, Exit
<1>4. ~pins' /\ state' = state /\ Exit("killed")
  BY Zenon DEF Reboot
<1> QED
  BY <1>3, <1>4, ExitKeeps, Zenon

\* Someone else's root takes a tree away, and the marker changes nothing at once.
LEMMA AdminReplacesStep == ASSUME IInv, AdminReplaces PROVE IInv'
<1>0. Typed /\ World /\ Runtime /\ Equipped /\ Pinned /\ Returned /\ Unserved /\ Leased /\ Published /\ Verdicts
  BY Zenon DEF IInv, Typed, Served
<1>1. /\ UNCHANGED <<ifb, filters, pins, rates, table, verdicts, evidence, record, state, journal, disabled, rt, boot>>
      /\ admins' = admins + 1
  BY Zenon DEF AdminReplaces, queues, files
<1>2. PICK p \in Ports, q \in {"fq2", "alien"} : root' = [root EXCEPT ![p] = q]
  BY Zenon DEF AdminReplaces
<1>3. root' \in [Ports -> Root] /\ admins' \in Nat /\ admins' # 0
  BY <1>0, <1>1, <1>2 DEF World, Root, Supported
<1>4. \A x \in Ports : root'[x] \in {"bare", "tree"} => root'[x] = root[x]
  BY <1>0, <1>2 DEF World
<1>5. Trees' => Trees
  BY <1>1, <1>4 DEF Trees
<1>6. Typed'
  <2>1. World'
    BY <1>0, <1>1, <1>3, Zenon DEF World
  <2>2. Runtime' /\ Equipped'
    BY <1>0, <1>1 DEF Runtime, Equipped
  <2> QED
    BY <2>1, <2>2, Zenon DEF Typed
<1>7. Pinned'
  BY <1>0, <1>1, <1>4, Zenon DEF Pinned
<1>8. Returned'
  BY <1>0, <1>1, <1>3, Zenon DEF Returned
<1>9. Unserved' /\ Leased'
  BY <1>0, <1>1, Zenon DEF Unserved, Leased
<1>10. Published'
  BY <1>0, <1>1, <1>5, Zenon DEF Published, Classed
<1>11. Verdicts'
  BY <1>0, <1>1, <1>5, Zenon DEF Verdicts
<1> QED
  BY <1>6, <1>7, <1>8, <1>9, <1>10, <1>11, Zenon DEF IInv, Served

LEMMA MarkerStep == ASSUME IInv, Marker PROVE IInv'
<1>1. /\ UNCHANGED <<root, ifb, filters, pins, rates, table, verdicts, evidence, record, state, journal, rt, boot, admins>>
      /\ disabled' \in BOOLEAN
  BY Zenon DEF Marker, kernel, queues, files, limits
<1>2. Typed'
  <2>1. World'
    BY <1>1, Zenon DEF IInv, Typed, World
  <2>2. Runtime' /\ Equipped'
    BY <1>1 DEF IInv, Typed, Runtime, Equipped
  <2> QED
    BY <2>1, <2>2, Zenon DEF Typed
<1>3. Pinned' /\ Returned'
  BY <1>1, Zenon DEF IInv, Pinned, Returned
<1>4. Unserved' /\ Leased'
  BY <1>1, Zenon DEF IInv, Served, Unserved, Leased
<1>5. Published' /\ Verdicts'
  <2>1. Trees' <=> Trees
    BY <1>1, Zenon DEF Trees
  <2>2. Published'
    BY <1>1, <2>1, Zenon DEF IInv, Served, Published, Classed
  <2>3. Verdicts'
    BY <1>1, <2>1, Zenon DEF IInv, Served, Verdicts
  <2> QED
    BY <2>2, <2>3
<1> QED
  BY <1>2, <1>3, <1>4, <1>5, Zenon DEF IInv, Served

-----------------------------------------------------------------------------
(* The steps of an apply.                                                  *)

\* They leave the kernel and the captured roots alone.
LEMMA ServeKeeps ==
  ASSUME IInv, UNCHANGED kernel, rt.pc \in Serving \cup {"startup"}, rt'.pc \in Serving, SameSpot,
         World', Runtime', rt'.pc \in Changing => rt'.next \in State,
         rt'.pc = "prune" => rt'.active \in State,
         Leased', Published', Verdicts'
  PROVE  IInv'
<1>1. rt.pc \notin Recovering
  BY DEF Serving, Changing, Recovering
<1>2. rt'.orig \in [Ports -> Supported]
  BY <1>1, CapturedRoots, Zenon DEF SameSpot
<1>3. Equipped'
  BY <1>2 DEF Equipped, Serving, Changing
<1>4. pins' => ifb' # "none"
  BY Zenon DEF IInv, Pinned, kernel
<1>5. Pinned' /\ Returned' /\ Unserved'
  BY <1>4 DEF Pinned, Returned, Unserved, Serving, Changing, Leaving, Starting, Recovering, SettingUp
<1> QED
  BY <1>3, <1>5, Zenon DEF IInv, Typed, Served

\* The three ways apply gets to the journal: it refuses, it finds the snapshot in
\* place, or it opens the transaction.
Refuses(r) ==
  /\ rt'.pc = "running" /\ rt'.active = r.active
  /\ rt'.old = None /\ rt'.next = None /\ rt'.before = None /\ rt'.stuck = FALSE
  /\ rt'.force = r.force \/ rt'.force = TRUE
  /\ rt'.flows = r.flows \/ rt'.flows = FALSE
  /\ table' = table \/ table' = None
  /\ journal' = journal
Finds(r, s, how, old) ==
  /\ old # None /\ s = old.snap /\ ~r.force
  /\ rt'.pc = IF how = "startup" THEN "running" ELSE "prune"
  /\ rt'.active = old /\ rt'.old = None /\ rt'.next = None /\ rt'.before = None
  /\ rt'.stuck = r.stuck /\ rt'.force = r.force /\ rt'.flows = r.flows
  /\ table' = table /\ journal' = journal
Opens(r, s, old) ==
  /\ old # None => s.rev > old.snap.rev \/ s = old.snap
  /\ Allocatable(s, LeaseOf(old)) /\ ~r.poisoned
  /\ rt'.pc = "install" /\ rt'.active = r.active /\ rt'.old = old
  /\ rt'.next = [snap |-> s, lease |-> Allocate(s, LeaseOf(old))]
  /\ rt'.before = table /\ rt'.stuck = r.stuck /\ rt'.force = r.force
  /\ rt'.flows = r.flows /\ table' = table /\ journal' = TRUE

LEMMA BeginEffect ==
  ASSUME NEW r, DOMAIN r = DOMAIN Stopped, r.flows \in BOOLEAN, NEW s, NEW how, NEW old,
         Begin(r, s, how, old)
  PROVE  /\ DOMAIN rt' = DOMAIN Stopped
         /\ rt'.todo = r.todo /\ rt'.at = r.at /\ rt'.orig = r.orig /\ rt'.final = r.final
         /\ rt'.errs = r.errs /\ rt'.mark = r.mark /\ rt'.poisoned = r.poisoned
         /\ Refuses(r) \/ Finds(r, s, how, old) \/ Opens(r, s, old)
<1> DEFINE q == [r EXCEPT !.off = FALSE]
<1>1. CASE \/ rt' = Failed(r, how) /\ table' = table /\ journal' = journal
           \/ rt' = Failed(q, how) /\ table' = table /\ journal' = journal
           \/ rt' = Failed(Disable(r), how) /\ table' = None /\ journal' = journal
  <2>1. PICK x : /\ x = r \/ x = q \/ x = Disable(r)
                 /\ rt' = Failed(x, how) /\ (table' = table \/ table' = None) /\ journal' = journal
    BY <1>1, Zenon
  <2>2. /\ DOMAIN x = DOMAIN Stopped /\ x.todo = r.todo /\ x.at = r.at /\ x.orig = r.orig
        /\ x.final = r.final /\ x.errs = r.errs /\ x.mark = r.mark /\ x.poisoned = r.poisoned
        /\ x.active = r.active /\ x.flows = r.flows /\ (x.force = r.force \/ x.force = TRUE)
    <3>1. CASE x = r
      BY <3>1, Zenon
    <3>2. CASE x = q
      BY <3>2, Zenon DEF Stopped
    <3>3. CASE x = Disable(r)
      BY <3>3, Zenon DEF Disable, Stopped
    <3> QED
      BY <2>1, <3>1, <3>2, <3>3, Zenon
  <2> HIDE DEF q
  <2>3. /\ DOMAIN rt' = DOMAIN Stopped /\ rt'.todo = x.todo /\ rt'.at = x.at /\ rt'.orig = x.orig
        /\ rt'.final = x.final /\ rt'.errs = x.errs /\ rt'.mark = x.mark /\ rt'.poisoned = x.poisoned
        /\ rt'.active = x.active /\ rt'.force = x.force /\ rt'.pc = "running"
        /\ rt'.old = None /\ rt'.next = None /\ rt'.before = None /\ rt'.stuck = FALSE
        /\ rt'.flows = (x.flows /\ how # "reconcile")
    BY <2>1, <2>2, Zenon DEF Failed, Stopped
  <2>4. rt'.flows = r.flows \/ rt'.flows = FALSE
    BY <2>2, <2>3, Zenon
  <2> QED
    BY <2>1, <2>2, <2>3, <2>4, Zenon DEF Refuses
<1>2. CASE /\ old # None /\ s = old.snap /\ ~q.force
           /\ rt' = Accepted([q EXCEPT !.active = old], how) /\ table' = table /\ journal' = journal
  <2>1. q.force = r.force
    BY Zenon DEF Stopped
  <2>2. /\ DOMAIN rt' = DOMAIN Stopped
        /\ rt'.todo = r.todo /\ rt'.at = r.at /\ rt'.orig = r.orig /\ rt'.final = r.final
        /\ rt'.errs = r.errs /\ rt'.mark = r.mark /\ rt'.poisoned = r.poisoned
        /\ rt'.pc = (IF how = "startup" THEN "running" ELSE "prune")
        /\ rt'.active = old /\ rt'.old = None /\ rt'.next = None /\ rt'.before = None
        /\ rt'.stuck = r.stuck /\ rt'.force = r.force /\ rt'.flows = r.flows
    BY <1>2, Zenon DEF Accepted, Stopped
  <2> QED
    BY <1>2, <2>1, <2>2, Zenon DEF Finds
<1>3. CASE /\ old # None => s.rev > old.snap.rev \/ (s = old.snap /\ q.force)
           /\ Allocatable(s, LeaseOf(old)) /\ ~q.poisoned /\ journal' = TRUE /\ table' = table
           /\ rt' = [q EXCEPT !.pc = "install", !.old = old, !.how = how,
                              !.next = [snap |-> s, lease |-> Allocate(s, LeaseOf(old))],
                              !.before = table]
  <2>1. q.poisoned = r.poisoned
    BY Zenon DEF Stopped
  <2>2. /\ DOMAIN rt' = DOMAIN Stopped
        /\ rt'.todo = r.todo /\ rt'.at = r.at /\ rt'.orig = r.orig /\ rt'.final = r.final
        /\ rt'.errs = r.errs /\ rt'.mark = r.mark /\ rt'.poisoned = r.poisoned
        /\ rt'.pc = "install" /\ rt'.active = r.active /\ rt'.old = old
        /\ rt'.next = [snap |-> s, lease |-> Allocate(s, LeaseOf(old))]
        /\ rt'.before = table /\ rt'.stuck = r.stuck /\ rt'.force = r.force /\ rt'.flows = r.flows
    BY <1>3, Zenon DEF Stopped
  <2> QED
    BY <1>3, <2>1, <2>2, Zenon DEF Opens
<1> QED
  BY <1>1, <1>2, <1>3, Zenon DEF Begin

\* What holds of a process r that is about to apply a snapshot: the state in
\* memory is the one on disk.
Ready(r) ==
  /\ DOMAIN r = DOMAIN Stopped /\ r.active = state /\ r.stuck = FALSE
  /\ r.force \in BOOLEAN /\ r.flows \in BOOLEAN /\ r.poisoned \in BOOLEAN
  /\ r.mark \in Snapshots \cup {None}
  /\ r.todo = rt.todo /\ r.at = rt.at /\ r.orig = rt.orig /\ r.final = rt.final /\ r.errs = rt.errs
  /\ ~r.poisoned /\ table # None =>
       state # None /\ table = state.snap /\ (Trees /\ ~journal => Classed(table))
  /\ Trees => \A c \in verdicts : rates[c] # 0
  /\ (r.flows \/ ~r.force) /\ state # None /\ Trees =>
       \A c \in Clients : state.snap.rate[c] # 0 => rates[c] # 0
  /\ r.flows => state # None
  /\ r.mark # None =>
       /\ state # None
       /\ \/ r.mark = state.snap /\ verdicts \subseteq Selected(r.mark)
          \/ r.mark.rev < state.snap.rev

\* A slot table that was written is one.
LEMMA LeaseTyped == ASSUME IInv PROVE LeaseOf(state) \in Lease
<1>1. state \in State \cup {None}
  BY Zenon DEF IInv, Typed, World
<1>2. CASE state = None
  BY <1>2 DEF LeaseOf, NoLease, Lease
<1>3. CASE state # None
  BY <1>1, <1>3 DEF LeaseOf, State, Lease
<1> QED
  BY <1>2, <1>3

LEMMA BeginKeeps ==
  ASSUME Allocates, IInv, Applying, rt.pc \in {"running", "startup"}, NEW r, Ready(r),
         NEW s \in Snapshots, NEW how, Begin(r, s, how, state)
  PROVE  IInv'
<1>0. World /\ Runtime /\ Leased
  BY Zenon DEF IInv, Typed, Served
<1>1. /\ UNCHANGED <<root, ifb, filters, pins, rates, verdicts, evidence, record, state, disabled, boot, admins>>
      /\ UNCHANGED kernel /\ (Trees' <=> Trees)
  BY Zenon DEF Applying, kernel, limits, Trees
<1>2. DOMAIN r = DOMAIN Stopped /\ r.flows \in BOOLEAN
  BY Zenon DEF Ready
<1>a. /\ DOMAIN rt' = DOMAIN Stopped
      /\ rt'.todo = r.todo /\ rt'.at = r.at /\ rt'.orig = r.orig /\ rt'.final = r.final
      /\ rt'.errs = r.errs /\ rt'.mark = r.mark /\ rt'.poisoned = r.poisoned
  BY <1>2, BeginEffect, Zenon
<1>3. SameSpot
  BY <1>a, Zenon DEF SameSpot, Ready
<1>4. state \in State \cup {None} /\ Distinct(LeaseOf(state))
  BY <1>0, Zenon DEF World, Leased
<1>5. rt.pc \in Serving \cup {"startup"}
  BY DEF Serving
<1>6. CASE Refuses(r)
  <2>r. /\ rt'.pc = "running" /\ rt'.active = r.active
        /\ rt'.old = None /\ rt'.next = None /\ rt'.before = None /\ rt'.stuck = FALSE
        /\ rt'.force = r.force \/ rt'.force = TRUE
        /\ rt'.flows = r.flows \/ rt'.flows = FALSE
        /\ table' = table \/ table' = None
        /\ journal' = journal
    BY <1>6, Zenon DEF Refuses
  <2>0. rt'.active = state /\ rt'.pc \in Serving /\ rt'.pc \in Pc /\ rt'.pc \notin Changing
    BY <2>r DEF Ready, Serving, Changing, Pc
  <2>1. World'
    BY <1>0, <1>1, <2>r, Zenon DEF World
  <2>2. rt'.force \in BOOLEAN /\ rt'.flows \in BOOLEAN
    BY <2>r, Zenon DEF Ready
  <2>3. Runtime'
    BY <1>0, <1>3, <1>4, <2>r, <1>a, <2>0, <2>2, Zenon DEF Runtime, SameSpot, Ready
  <2>4. Leased'
    <3>1. rt'.pc \notin {"install", "publish", "persist"} /\ rt'.pc # "commit"
      BY <2>r
    <3> QED
      BY <1>1, <1>4, <2>0, <3>1, Zenon DEF Leased
  <2>5. Published'
    <3>1. rt'.pc \notin {"install", "publish", "undo"} /\ rt'.pc \notin {"persist", "commit"}
          /\ rt'.pc \notin {"publish", "persist", "commit"}
      BY <2>r
    <3>2. ~rt'.poisoned /\ table' # None =>
            /\ state # None /\ table' = state.snap /\ table' = table
            /\ Trees /\ ~journal => Classed(table)
      BY <2>r, <1>a, Zenon DEF Ready
    <3>3. ~rt'.poisoned /\ table' # None /\ Trees' /\ ~journal' => Classed(table)'
      BY <1>1, <2>r, <3>2, Zenon DEF Classed
    <3> QED
      BY <1>1, <2>r, <2>0, <3>1, <3>2, <3>3, Zenon DEF Published
  <2>6. Verdicts'
    <3>1. rt'.flows => r.flows
      BY <2>r, Zenon DEF Ready
    <3>2. ~rt'.force => ~r.force
      BY <2>r, Zenon DEF Ready
    <3>3. rt'.pc # "prune"
      BY <2>r
    <3> QED
      BY <1>1, <1>a, <2>0, <3>1, <3>2, <3>3, Zenon DEF Verdicts, Ready
  <2> QED
    BY <1>1, <1>3, <1>5, <2>0, <2>1, <2>3, <2>4, <2>5, <2>6, <2>r, ServeKeeps
<1>7. CASE Finds(r, s, how, state)
  <2>r. /\ state # None /\ s = state.snap /\ ~r.force
        /\ rt'.pc = IF how = "startup" THEN "running" ELSE "prune"
        /\ rt'.active = state /\ rt'.old = None /\ rt'.next = None /\ rt'.before = None
        /\ rt'.stuck = r.stuck /\ rt'.force = r.force /\ rt'.flows = r.flows
        /\ table' = table /\ journal' = journal
    BY <1>7, Zenon DEF Finds
  <2>0. rt'.pc \in {"running", "prune"} /\ rt'.pc \in Serving /\ rt'.pc \in Pc /\ rt'.pc \notin Changing
    BY <2>r DEF Serving, Changing, Pc
  <2>1. World'
    BY <1>0, <1>1, <2>r, Zenon DEF World
  <2>3. Runtime'
    BY <1>0, <1>3, <1>4, <2>r, <1>a, <2>0, Zenon DEF Runtime, SameSpot, Ready
  <2>4. Leased'
    <3>1. rt'.pc \notin {"install", "publish", "persist"} /\ rt'.pc # "commit"
      BY <2>0
    <3> QED
      BY <1>1, <1>4, <2>r, <2>0, <3>1, Zenon DEF Leased
  <2>5. Published'
    <3>1. rt'.pc \notin {"install", "publish", "undo"} /\ rt'.pc \notin {"persist", "commit"}
          /\ rt'.pc \notin {"publish", "persist", "commit"}
      BY <2>0
    <3>2. ~rt'.poisoned /\ table' # None =>
            /\ table' = state.snap /\ table' = table
            /\ Trees /\ ~journal => Classed(table)
      BY <2>r, <1>a, Zenon DEF Ready
    <3>3. ~rt'.poisoned /\ table' # None /\ Trees' /\ ~journal' => Classed(table)'
      BY <1>1, <2>r, <3>2, Zenon DEF Classed
    <3> QED
      BY <1>1, <2>r, <2>0, <3>1, <3>2, <3>3, Zenon DEF Published, Ready
  <2>6. Verdicts'
    BY <1>1, <2>r, <1>a, Zenon DEF Verdicts, Ready
  <2>7. rt'.pc = "prune" => rt'.active \in State
    BY <1>4, <2>r, Zenon
  <2> QED
    BY <1>1, <1>3, <1>5, <2>0, <2>1, <2>3, <2>4, <2>5, <2>6, <2>7, ServeKeeps, Zenon
<1>8. CASE Opens(r, s, state)
  <2>r. /\ state # None => s.rev > state.snap.rev \/ s = state.snap
        /\ Allocatable(s, LeaseOf(state)) /\ ~r.poisoned
        /\ rt'.pc = "install" /\ rt'.active = r.active /\ rt'.old = state
        /\ rt'.next = [snap |-> s, lease |-> Allocate(s, LeaseOf(state))]
        /\ rt'.before = table /\ rt'.stuck = r.stuck /\ rt'.force = r.force
        /\ rt'.flows = r.flows /\ table' = table /\ journal' = TRUE
    BY <1>8, Zenon DEF Opens
  <2>0. rt'.pc \in Serving /\ rt'.pc \in Pc /\ rt'.pc \in Changing /\ rt'.pc # "prune"
    BY <2>r DEF Serving, Changing, Pc
  <2>1. World'
    BY <1>0, <1>1, <2>r, Zenon DEF World
  <2>2. /\ Allocate(s, LeaseOf(state)) \in Lease
        /\ Distinct(Allocate(s, LeaseOf(state)))
        /\ Extends(Allocate(s, LeaseOf(state)), LeaseOf(state))
    BY <1>4, <2>r, LeaseTyped, Zenon DEF Allocates
  <2>3. /\ rt'.next \in State /\ rt'.next.snap = s /\ rt'.next.lease = Allocate(s, LeaseOf(state))
    BY <2>r, <2>2 DEF State, Lease
  <2>4. Runtime'
    BY <1>0, <1>3, <1>4, <2>r, <1>a, <2>0, <2>3, Zenon DEF Runtime, SameSpot, Ready, World
  <2>5. Leased'
    <3>1. rt'.pc # "commit" /\ rt'.active = state
      BY <2>r DEF Ready
    <3> QED
      BY <1>1, <1>4, <2>r, <2>2, <2>3, <3>1, Zenon DEF Leased
  <2>6. Published'
    <3>1. rt'.pc \notin {"running", "prune"} /\ rt'.pc \notin {"persist", "commit"}
          /\ rt'.pc \notin {"publish", "persist", "commit"}
      BY <2>r
    <3>2. ~rt'.poisoned /\ rt'.before # None => rt'.active # None /\ rt'.before = rt'.active.snap
      BY <2>r, <1>a, Zenon DEF Ready
    <3>3. ~rt'.stuck
      BY <2>r, Zenon DEF Ready
    <3> QED
      BY <2>r, <3>1, <3>2, <3>3, Zenon DEF Published
  <2>7. Verdicts'
    BY <1>1, <2>r, <1>a, <2>0, Zenon DEF Verdicts, Ready
  <2> QED
    BY <1>1, <1>3, <1>5, <2>0, <2>1, <2>3, <2>4, <2>5, <2>6, <2>7, ServeKeeps, Zenon
<1> QED
  BY <1>2, <1>6, <1>7, <1>8, BeginEffect, Zenon

LEMMA MemoryIsDisk == ASSUME IInv, rt.pc = "running" PROVE rt.active = state /\ Known = state
<1>1. rt.active = state
  BY DEF IInv, Served, Leased, Serving
<1> QED
  BY <1>1, Zenon DEF Known

LEMMA ReadyRunning == ASSUME IInv, rt.pc = "running" PROVE Ready(rt)
<1>0. Runtime /\ Published /\ Verdicts /\ rt.active = state
  BY MemoryIsDisk, Zenon DEF IInv, Typed, Served
<1>1. rt.pc \in Serving /\ rt.pc \in {"running", "prune"} /\ rt.pc # "undo"
  BY DEF Serving
<1>2. rt.stuck = FALSE
  BY <1>0, <1>1, Zenon DEF Published, Runtime
<1>3. ~rt.poisoned /\ table # None =>
        state # None /\ table = state.snap /\ (Trees /\ ~journal => Classed(table))
  BY <1>0, <1>1, Zenon DEF Published
<1>4. /\ Trees => \A c \in verdicts : rates[c] # 0
      /\ (rt.flows \/ ~rt.force) /\ state # None /\ Trees =>
           \A c \in Clients : state.snap.rate[c] # 0 => rates[c] # 0
      /\ rt.flows => state # None
      /\ rt.mark # None =>
           /\ state # None
           /\ \/ rt.mark = state.snap /\ verdicts \subseteq Selected(rt.mark)
              \/ rt.mark.rev < state.snap.rev
  BY <1>0, <1>1, Zenon DEF Verdicts
<1> QED
  BY <1>0, <1>2, <1>3, <1>4, Zenon DEF Ready, Runtime

\* handle_frame, reconcile_saved and restore_local.
LEMMA ReceiveStep == ASSUME Allocates, IInv, Receive PROVE IInv'
<1>1. PICK s \in Snapshots : Begin(rt, s, "snapshot", Known)
  BY Zenon DEF Receive
<1>2. rt.pc = "running" /\ Applying
  BY Zenon DEF Receive
<1>3. Ready(rt) /\ Known = state /\ rt.pc \in {"running", "startup"}
  BY <1>2, MemoryIsDisk, ReadyRunning, Zenon
<1> QED
  BY <1>1, <1>2, <1>3, BeginKeeps, Zenon

LEMMA ReconcileSavedStep == ASSUME Allocates, IInv, ReconcileSaved PROVE IInv'
<1>1. rt.pc = "running" /\ Applying /\ Known # None
  BY Zenon DEF ReconcileSaved
<1>2. Ready(rt) /\ Known = state /\ rt.active # None
  BY <1>1, MemoryIsDisk, ReadyRunning, Zenon
<1> DEFINE r == [rt EXCEPT !.force = @ \/ rt.active = None]
<1>3. /\ DOMAIN r = DOMAIN Stopped /\ r.todo = rt.todo /\ r.at = rt.at /\ r.orig = rt.orig
      /\ r.final = rt.final /\ r.errs = rt.errs /\ r.active = rt.active /\ r.stuck = rt.stuck
      /\ r.flows = rt.flows /\ r.poisoned = rt.poisoned /\ r.mark = rt.mark
      /\ r.force = (rt.force \/ rt.active = None)
  BY <1>2, Zenon DEF Ready, Stopped
<1>4. Begin(r, state.snap, "reconcile", state)
  BY <1>2, Zenon DEF ReconcileSaved
<1> HIDE DEF r
<1>5. r.force = rt.force
  BY <1>2, <1>3, Zenon DEF Ready
<1>6. Ready(r)
  BY <1>2, <1>3, <1>5, Zenon DEF Ready
<1>7. state.snap \in Snapshots
  BY <1>1, <1>2, Zenon DEF IInv, Typed, World, State
<1> QED
  BY <1>1, <1>4, <1>6, <1>7, BeginKeeps, Zenon

LEMMA RestoreLocalStep == ASSUME Allocates, IInv, RestoreLocal PROVE IInv'
<1>0. World /\ Runtime /\ Leased /\ Unserved /\ Published
  BY Zenon DEF IInv, Typed, Served
<1>1. Applying /\ rt.pc = "startup" /\ rt.pc \in Starting
  BY DEF RestoreLocal, Starting
<1>2. /\ rt.active = None /\ rt.mark = None /\ ~rt.flows /\ ~rt.poisoned
      /\ table = None /\ verdicts = {}
  BY <1>0, <1>1, Zenon DEF Unserved
<1>a. rt.stuck = FALSE
  <2>1. rt.pc # "undo"
    BY <1>1
  <2> QED
    BY <1>0, <2>1, Zenon DEF Published, Runtime
<1>3. CASE state # None
  <2> DEFINE r == [rt EXCEPT !.force = TRUE, !.active = state]
  <2>1. /\ DOMAIN r = DOMAIN Stopped /\ r.todo = rt.todo /\ r.at = rt.at /\ r.orig = rt.orig
        /\ r.final = rt.final /\ r.errs = rt.errs /\ r.active = state /\ r.stuck = rt.stuck
        /\ r.flows = rt.flows /\ r.poisoned = rt.poisoned /\ r.mark = rt.mark /\ r.force = TRUE
    BY <1>0, Zenon DEF Runtime, Stopped
  <2>2. Begin(r, state.snap, "startup", state)
    BY <1>3, Zenon DEF RestoreLocal
  <2> HIDE DEF r
  <2>3. r.flows = FALSE /\ r.poisoned = FALSE
    BY <1>0, <1>2, <2>1, Zenon DEF Runtime
  <2>4. Ready(r)
    BY <1>0, <1>2, <1>a, <2>1, <2>3, Zenon DEF Ready
  <2>5. state.snap \in Snapshots
    BY <1>0, <1>3, Zenon DEF World, State
  <2> QED
    BY <1>1, <2>2, <2>4, <2>5, BeginKeeps, Zenon
<1>4. CASE state = None
  <2>1. Goto("running") /\ UNCHANGED <<table, journal>>
    BY <1>4, Zenon DEF RestoreLocal
  <2>2. rt'.pc = "running" /\ SameSpot /\ Moves
    BY <2>1, GotoFields, Zenon
  <2>3. UNCHANGED <<root, ifb, filters, pins, rates, verdicts, evidence, record, state, disabled, boot, admins>>
    BY <1>1, Zenon DEF Applying, kernel, limits
  <2>4. World'
    BY <1>0, <2>1, <2>3, Zenon DEF World
  <2>5. rt'.pc \in Serving /\ rt'.pc \in Pc /\ rt'.pc \notin Changing /\ rt'.pc # "prune"
        /\ rt.pc \in Serving \cup {"startup"}
    BY <1>1, <2>2 DEF Serving, Changing, Pc
  <2>6. Runtime'
    BY <1>0, <2>2, <2>5, Zenon DEF Runtime, Moves, Kept
  <2>7. Leased'
    <3>1. rt'.pc \notin {"install", "publish", "persist"} /\ rt'.pc # "commit"
      BY <2>2
    <3>2. Distinct(LeaseOf(state')) /\ rt'.active = None /\ state' = None
      BY <1>0, <1>2, <1>4, <2>2, <2>3, Zenon DEF Leased, Moves, Kept
    <3> QED
      BY <2>5, <3>1, <3>2, Zenon DEF Leased
  <2>8. Published'
    <3>1. rt'.pc \notin {"install", "publish", "undo"} /\ rt'.pc \notin {"persist", "commit"}
          /\ rt'.pc \notin {"publish", "persist", "commit"}
      BY <2>2
    <3>2. table' = None /\ ~rt'.stuck
      BY <1>2, <1>a, <2>1, <2>2, Zenon DEF Moves, Kept
    <3> QED
      BY <2>5, <3>1, <3>2, Zenon DEF Published
  <2>9. Verdicts'
    <3>1. rt'.active = None /\ rt'.mark = None /\ ~rt'.flows /\ verdicts' = {}
      BY <1>2, <2>2, <2>3, Zenon DEF Moves, Kept
    <3> QED
      BY <2>5, <3>1, Zenon DEF Verdicts
  <2> QED
    BY <2>2, <2>3, <2>4, <2>5, <2>6, <2>7, <2>8, <2>9, ServeKeeps, Zenon DEF kernel
<1> QED
  BY <1>3, <1>4

\* What an apply is about to install.
LEMMA NextTyped ==
  ASSUME IInv, rt.pc \in Changing
  PROVE  /\ rt.next \in State /\ rt.next.snap \in Snapshots /\ rt.next # None
         /\ rt.next.snap.rate \in [Clients -> Nat]
<1>1. rt.next \in State
  BY Zenon DEF IInv, Typed, Equipped
<1>2. rt.next.snap \in Snapshots
  BY <1>1, Zenon DEF State
<1>3. None \notin State
  BY RuntimeAssumption, Zenon
<1> QED
  BY <1>1, <1>2, <1>3, RuntimeAssumption, Zenon

\* install_plan never takes a class away.
LEMMA OverGrows ==
  ASSUME IInv, NEW s, s # None => s.rate \in [Clients -> Nat]
  PROVE  /\ Over(s) \in [Clients -> Nat]
         /\ \A c \in Clients : rates[c] # 0 => Over(s)[c] # 0
         /\ s # None => \A c \in Clients : s.rate[c] # 0 => Over(s)[c] = s.rate[c]
<1>1. rates \in [Clients -> Nat]
  BY Zenon DEF IInv, Typed, World
<1> QED
  BY <1>1 DEF Over

\* The verdicts keep their classes when no class is taken away.
LEMMA VerdictsGrow ==
  ASSUME IInv, rt.pc \in Serving, rt'.pc \in Serving, rt'.pc # "prune", UNCHANGED <<root, ifb, verdicts>>,
         \A c \in Clients : rates[c] # 0 => rates'[c] # 0,
         rt'.active = rt.active, rt'.force = rt.force, rt'.mark = rt.mark,
         rt'.flows => rt.flows
  PROVE  Verdicts'
<1>1. Verdicts /\ verdicts \in SUBSET Clients /\ (Trees' <=> Trees)
  BY Zenon DEF IInv, Served, Typed, World, Trees
<1> QED
  BY <1>1, Zenon DEF Verdicts

LEMMA InstallPlanStep == ASSUME IInv, InstallPlan PROVE IInv'
<1>0. World /\ Runtime /\ Leased /\ Published
  BY Zenon DEF IInv, Typed, Served
<1>1. /\ UNCHANGED <<root, ifb, filters, pins, table, verdicts, evidence, record, state, journal, disabled, boot, admins>>
      /\ UNCHANGED kernel /\ (Trees' <=> Trees) /\ rt.pc = "install"
  BY Zenon DEF InstallPlan, kernel, maps, files, limits, Trees
<1>2. rt.pc \in Changing /\ rt.pc \in Serving
  BY <1>1 DEF Changing, Serving
<1>3. /\ Over(rt.next.snap) \in [Clients -> Nat]
      /\ \A c \in Clients : rates[c] # 0 => Over(rt.next.snap)[c] # 0
      /\ \A c \in Clients : rt.next.snap.rate[c] # 0 => Over(rt.next.snap)[c] = rt.next.snap.rate[c]
  <2>1. rt.next.snap # None
    BY <1>2, NextTyped, RuntimeAssumption, Zenon
  <2> QED
    BY <1>2, <2>1, NextTyped, OverGrows, Zenon
<1>4. PICK done \in SUBSET Clients :
        rates' = [c \in Clients |-> IF c \in done THEN Over(rt.next.snap)[c] ELSE rates[c]]
  <2>1. CASE rates' = Over(rt.next.snap)
    <3>1. rates' = [c \in Clients |-> IF c \in Clients THEN Over(rt.next.snap)[c] ELSE rates[c]]
      BY <1>3, <2>1
    <3>2. Clients \in SUBSET Clients
      BY Zenon
    <3> QED
      BY <3>1, <3>2, Zenon
  <2> QED
    BY <2>1, Zenon DEF InstallPlan
<1>5. /\ rates' \in [Clients -> Nat]
      /\ \A c \in Clients : rates[c] # 0 => rates'[c] # 0
  BY <1>0, <1>3, <1>4 DEF World
<1>6. \/ Goto("publish") /\ Trees /\ rates' = Over(rt.next.snap)
      \/ Goto("undo")
  BY Zenon DEF InstallPlan
<1>7. /\ rt'.pc = "undo" \/ (rt'.pc = "publish" /\ rates' = Over(rt.next.snap))
      /\ SameSpot /\ Moves
  BY <1>6, GotoFields, Zenon
<1>8. /\ rt'.active = rt.active /\ rt'.old = rt.old /\ rt'.next = rt.next /\ rt'.force = rt.force
      /\ rt'.poisoned = rt.poisoned /\ rt'.stuck = rt.stuck /\ rt'.flows = rt.flows
      /\ rt'.before = rt.before /\ rt'.mark = rt.mark
  BY <1>7, Zenon DEF Moves, Kept
<1>9. rt'.pc \in {"publish", "undo"} /\ rt'.pc \in Changing /\ rt'.pc \in Serving /\ rt'.pc \in Pc
      /\ rt'.pc # "prune" /\ rt'.pc # "commit"
  BY <1>7 DEF Changing, Serving, Pc
<1>10. World'
  BY <1>0, <1>1, <1>5, Zenon DEF World
<1>11. Runtime'
  BY <1>0, <1>7, <1>9, Zenon DEF Runtime, Moves, Kept
<1>12. Leased'
  <2>1. rt.pc # "commit" /\ rt.pc \in Serving \ {"commit"} /\ rt.pc \in {"install", "publish", "persist"}
    BY <1>1, <1>2
  <2> QED
    BY <1>0, <1>1, <1>2, <1>8, <1>9, <2>1, Zenon DEF Leased
<1>13. Published'
  <2>1. rt.pc \in {"install", "publish", "undo"} /\ rt.pc # "undo"
    BY <1>1
  <2>2. rt'.pc \notin {"running", "prune"} /\ rt'.pc \notin {"persist", "commit"}
    BY <1>9
  <2>3. rt'.pc \in {"publish", "persist", "commit"} => rt'.pc = "publish"
    BY <1>9
  <2>4. rt'.pc = "publish" => Classed(rt.next.snap)'
    <3>1. rt'.pc = "publish" => rates' = Over(rt.next.snap)
      BY <1>7
    <3> QED
      BY <1>3, <1>8, <3>1, Zenon DEF Classed
  <2> QED
    BY <1>0, <1>1, <1>2, <1>8, <2>1, <2>2, <2>3, <2>4, Zenon DEF Published
<1>14. Verdicts'
  BY <1>1, <1>2, <1>5, <1>8, <1>9, VerdictsGrow, Zenon
<1>15. rt'.next \in State
  BY <1>2, <1>8, NextTyped, Zenon
<1> QED
  BY <1>1, <1>2, <1>7, <1>9, <1>10, <1>11, <1>12, <1>13, <1>14, <1>15, ServeKeeps, Zenon

LEMMA PublishStep == ASSUME IInv, Publish PROVE IInv'
<1>0. World /\ Runtime /\ Leased /\ Published
  BY Zenon DEF IInv, Typed, Served
<1>1. /\ UNCHANGED <<root, ifb, filters, pins, rates, verdicts, evidence, record, state, journal, disabled, boot, admins>>
      /\ UNCHANGED kernel /\ (Trees' <=> Trees) /\ rt.pc = "publish"
  BY Zenon DEF Publish, kernel, files, limits, Trees
<1>2. rt.pc \in Changing /\ rt.pc \in Serving
  BY <1>1 DEF Changing, Serving
<1>3. /\ DOMAIN rt' = DOMAIN Stopped /\ SameSpot
      /\ rt'.active = rt.active /\ rt'.old = rt.old /\ rt'.next = rt.next /\ rt'.force = rt.force
      /\ rt'.stuck = rt.stuck /\ rt'.flows = rt.flows /\ rt'.before = rt.before /\ rt'.mark = rt.mark
      /\ \/ rt'.pc = "persist" /\ table' = rt.next.snap /\ rt'.poisoned = rt.poisoned
         \/ rt'.pc = "undo" /\ table' = table /\ rt'.poisoned = rt.poisoned
         \/ rt'.pc = "undo" /\ table' \in {table, rt.next.snap} /\ rt'.poisoned = TRUE
  <2>0. DOMAIN rt = DOMAIN Stopped
    BY <1>0, Zenon DEF Runtime
  <2>1. CASE table' = rt.next.snap /\ Goto("persist")
    BY <2>0, <2>1, Zenon DEF Goto, SameSpot, Stopped
  <2>2. CASE table' = table /\ Goto("undo")
    BY <2>0, <2>2, Zenon DEF Goto, SameSpot, Stopped
  <2>3. CASE table' \in {table, rt.next.snap} /\ rt' = [rt EXCEPT !.pc = "undo", !.poisoned = TRUE]
    BY <2>0, <2>3, Zenon DEF SameSpot, Stopped
  <2> QED
    BY <2>1, <2>2, <2>3, Zenon DEF Publish
<1>4. rt'.pc \in {"persist", "undo"} /\ rt'.pc \in Changing /\ rt'.pc \in Serving /\ rt'.pc \in Pc
      /\ rt'.pc # "prune" /\ rt'.pc # "commit"
  BY <1>3 DEF Changing, Serving, Pc
<1>5. World'
  <2>1. table' \in Snapshots \cup {None}
    BY <1>0, <1>2, <1>3, NextTyped, Zenon DEF World
  <2> QED
    BY <1>0, <1>1, <2>1, Zenon DEF World
<1>6. Runtime'
  <2>1. rt'.poisoned \in BOOLEAN
    BY <1>0, <1>3, Zenon DEF Runtime
  <2> QED
    BY <1>0, <1>3, <1>4, <2>1, Zenon DEF Runtime, SameSpot
<1>7. Leased'
  <2>1. rt.pc # "commit" /\ rt.pc \in Serving \ {"commit"} /\ rt.pc \in {"install", "publish", "persist"}
    BY <1>1, <1>2
  <2> QED
    BY <1>0, <1>1, <1>2, <1>3, <1>4, <2>1, Zenon DEF Leased
<1>8. Published'
  <2>1. rt.pc \in {"install", "publish", "undo"} /\ rt.pc # "undo" /\ rt.pc \in {"publish", "persist", "commit"}
    BY <1>1
  <2>2. rt'.pc \notin {"running", "prune"}
    BY <1>4
  <2>3. ~rt'.poisoned =>
          /\ rt'.pc \in {"install", "publish", "undo"} => table' = rt'.before
          /\ rt'.pc \in {"persist", "commit"} => table' = rt'.next.snap
    BY <1>0, <1>3, <2>1 DEF Published
  <2>4. Trees' => Classed(rt.next.snap)'
    BY <1>0, <1>1, <1>3, <2>1, Zenon DEF Published, Classed
  <2>5. ~rt'.poisoned => ~rt.poisoned
    BY <1>0, <1>3, Zenon DEF Runtime
  <2>6. ~rt'.stuck
    BY <1>0, <1>3, <2>1, Zenon DEF Published
  <2>7. ~rt'.poisoned /\ rt'.before # None => rt'.active # None /\ rt'.before = rt'.active.snap
    BY <1>0, <1>2, <1>3, <2>5, Zenon DEF Published
  <2> QED
    BY <1>0, <1>1, <1>2, <2>2, <2>3, <2>4, <2>6, <2>7, Zenon DEF Published
<1>9. Verdicts'
  BY <1>1, <1>2, <1>3, <1>4, VerdictsGrow, Zenon
<1>10. rt'.next \in State
  BY <1>2, <1>3, NextTyped, Zenon
<1> QED
  BY <1>1, <1>2, <1>3, <1>4, <1>5, <1>6, <1>7, <1>8, <1>9, <1>10, ServeKeeps, Zenon

LEMMA PersistStep == ASSUME IInv, Persist PROVE IInv'
<1>0. World /\ Runtime /\ Leased /\ Published
  BY Zenon DEF IInv, Typed, Served
<1>1. /\ UNCHANGED <<root, ifb, filters, pins, rates, verdicts, evidence, record, journal, disabled, boot, admins>>
      /\ UNCHANGED kernel /\ (Trees' <=> Trees) /\ rt.pc = "persist"
  BY Zenon DEF Persist, kernel, limits, Trees
<1>2. rt.pc \in Changing /\ rt.pc \in Serving
  BY <1>1 DEF Changing, Serving
<1>3. /\ DOMAIN rt' = DOMAIN Stopped /\ SameSpot
      /\ rt'.active = rt.active /\ rt'.old = rt.old /\ rt'.next = rt.next /\ rt'.force = rt.force
      /\ rt'.flows = rt.flows /\ rt'.before = rt.before /\ rt'.mark = rt.mark
      /\ \/ /\ rt'.pc = "commit" /\ state' = rt.next /\ table' = table
            /\ rt'.poisoned = rt.poisoned /\ rt'.stuck = rt.stuck
         \/ /\ rt'.pc = "undo" /\ state' = state /\ table' = rt.before
            /\ rt'.poisoned = rt.poisoned /\ rt'.stuck = rt.stuck
         \/ /\ rt'.pc = "undo" /\ state' = state /\ table' \in {table, rt.before}
            /\ rt'.poisoned = TRUE /\ rt'.stuck = TRUE
  <2>0. DOMAIN rt = DOMAIN Stopped
    BY <1>0, Zenon DEF Runtime
  <2>1. CASE state' = rt.next /\ Goto("commit") /\ UNCHANGED table
    BY <2>0, <2>1, Zenon DEF Goto, SameSpot, Stopped
  <2>2. CASE UNCHANGED state /\ table' = rt.before /\ Goto("undo")
    BY <2>0, <2>2, Zenon DEF Goto, SameSpot, Stopped
  <2>3. CASE /\ UNCHANGED state /\ table' \in {table, rt.before}
             /\ rt' = [rt EXCEPT !.pc = "undo", !.poisoned = TRUE, !.stuck = TRUE]
    BY <2>0, <2>3, Zenon DEF SameSpot, Stopped
  <2> QED
    BY <2>1, <2>2, <2>3, Zenon DEF Persist
<1>4. rt'.pc \in {"commit", "undo"} /\ rt'.pc \in Changing /\ rt'.pc \in Serving /\ rt'.pc \in Pc
      /\ rt'.pc # "prune"
  BY <1>3 DEF Changing, Serving, Pc
<1>5. World'
  <2>1. table' \in Snapshots \cup {None}
    BY <1>0, <1>3, Zenon DEF World, Runtime
  <2>2. state' \in State \cup {None}
    BY <1>0, <1>3, Zenon DEF World, Runtime
  <2> QED
    BY <1>0, <1>1, <2>1, <2>2, Zenon DEF World
<1>6. Runtime'
  <2>1. rt'.poisoned \in BOOLEAN /\ rt'.stuck \in BOOLEAN
    BY <1>0, <1>3, Zenon DEF Runtime
  <2> QED
    BY <1>0, <1>3, <1>4, <2>1, Zenon DEF Runtime, SameSpot
<1>7. Leased'
  <2>1. rt.pc # "commit" /\ rt.pc \in Serving \ {"commit"}
    BY <1>1, <1>2
  <2>2. rt'.pc \notin {"install", "publish", "persist"}
    BY <1>4
  <2>3. /\ Distinct(rt.next.lease) /\ Distinct(LeaseOf(state)) /\ LeaseOf(rt.next) = rt.next.lease
        /\ rt.active # None => rt.old = rt.active /\ state = rt.active
        /\ state # None => rt.active # None
        /\ rt.old # None => rt.next.snap = rt.old.snap \/ rt.next.snap.rev > rt.old.snap.rev
    BY <1>0, <1>2, <2>1, NextTyped, Zenon DEF Leased, LeaseOf
  <2>4. Distinct(LeaseOf(state'))
    BY <1>3, <2>3, Zenon
  <2>5. /\ rt'.pc = "commit" => state' = rt'.next
        /\ rt'.pc # "commit" => state' = state
    BY <1>3
  <2> QED
    BY <1>3, <2>2, <2>3, <2>4, <2>5, Zenon DEF Leased
<1>8. Published'
  <2>1. rt.pc \in {"persist", "commit"} /\ rt.pc # "undo" /\ rt.pc \in {"publish", "persist", "commit"}
    BY <1>1
  <2>2. rt'.pc \notin {"running", "prune"}
    BY <1>4
  <2>3. ~rt'.poisoned => ~rt.poisoned
    BY <1>0, <1>3, Zenon DEF Runtime
  <2>4. ~rt'.poisoned =>
          /\ rt'.pc \in {"install", "publish", "undo"} => table' = rt'.before
          /\ rt'.pc \in {"persist", "commit"} => table' = rt'.next.snap
    BY <1>0, <1>3, <2>1, <2>3 DEF Published
  <2>5. Trees' => Classed(rt.next.snap)'
    BY <1>0, <1>1, <1>3, <2>1, Zenon DEF Published, Classed
  <2>6. rt'.stuck => rt'.poisoned /\ rt'.pc = "undo"
    BY <1>0, <1>3, <2>1, Zenon DEF Published
  <2>7. ~rt'.poisoned /\ rt'.before # None => rt'.active # None /\ rt'.before = rt'.active.snap
    BY <1>0, <1>2, <1>3, <2>3, Zenon DEF Published
  <2> QED
    BY <1>0, <1>1, <1>2, <2>2, <2>4, <2>5, <2>6, <2>7, Zenon DEF Published
<1>9. Verdicts'
  BY <1>1, <1>2, <1>3, <1>4, VerdictsGrow, Zenon
<1>10. rt'.next \in State
  BY <1>2, <1>3, NextTyped, Zenon
<1> QED
  BY <1>1, <1>2, <1>3, <1>4, <1>5, <1>6, <1>7, <1>8, <1>9, <1>10, ServeKeeps, Zenon

\* How an apply ends, whatever it did.
LEMMA FailedFields ==
  ASSUME NEW r, DOMAIN r = DOMAIN Stopped, r.flows \in BOOLEAN, NEW how, rt' = Failed(r, how)
  PROVE  /\ DOMAIN rt' = DOMAIN Stopped /\ rt'.pc = "running"
         /\ rt'.todo = r.todo /\ rt'.at = r.at /\ rt'.orig = r.orig /\ rt'.final = r.final
         /\ rt'.errs = r.errs /\ rt'.mark = r.mark /\ rt'.poisoned = r.poisoned
         /\ rt'.active = r.active /\ rt'.force = r.force /\ rt'.stuck = FALSE
         /\ rt'.old = None /\ rt'.next = None /\ rt'.before = None
         /\ rt'.flows = r.flows \/ rt'.flows = FALSE
<1>1. /\ DOMAIN rt' = DOMAIN Stopped /\ rt'.pc = "running"
      /\ rt'.todo = r.todo /\ rt'.at = r.at /\ rt'.orig = r.orig /\ rt'.final = r.final
      /\ rt'.errs = r.errs /\ rt'.mark = r.mark /\ rt'.poisoned = r.poisoned
      /\ rt'.active = r.active /\ rt'.force = r.force /\ rt'.stuck = FALSE
      /\ rt'.old = None /\ rt'.next = None /\ rt'.before = None
      /\ rt'.flows = (r.flows /\ how # "reconcile")
  BY Zenon DEF Failed, Stopped
<1>2. rt'.flows = r.flows \/ rt'.flows = FALSE
  BY <1>1, Zenon
<1> QED
  BY <1>1, <1>2, Zenon

LEMMA AcceptedFields ==
  ASSUME NEW r, DOMAIN r = DOMAIN Stopped, NEW how, rt' = Accepted(r, how)
  PROVE  /\ DOMAIN rt' = DOMAIN Stopped
         /\ rt'.pc = (IF how = "startup" THEN "running" ELSE "prune")
         /\ rt'.todo = r.todo /\ rt'.at = r.at /\ rt'.orig = r.orig /\ rt'.final = r.final
         /\ rt'.errs = r.errs /\ rt'.mark = r.mark /\ rt'.poisoned = r.poisoned
         /\ rt'.active = r.active /\ rt'.force = r.force /\ rt'.stuck = r.stuck
         /\ rt'.old = None /\ rt'.next = None /\ rt'.before = None /\ rt'.flows = r.flows
BY Zenon DEF Accepted, Stopped

LEMMA RestoreRatesStep == ASSUME IInv, RestoreRates PROVE IInv'
<1>0. World /\ Runtime /\ Leased /\ Published
  BY Zenon DEF IInv, Typed, Served
<1>1. /\ UNCHANGED <<root, ifb, filters, pins, table, verdicts, evidence, record, state, disabled, boot, admins>>
      /\ UNCHANGED kernel /\ (Trees' <=> Trees) /\ rt.pc = "undo" /\ rt' = Failed(rt, rt.how)
  BY Zenon DEF RestoreRates, kernel, maps, limits, Trees
<1>2. rt.pc \in Changing /\ rt.pc \in Serving
  BY <1>1 DEF Changing, Serving
<1>3. /\ DOMAIN rt' = DOMAIN Stopped /\ rt'.pc = "running" /\ SameSpot
      /\ rt'.mark = rt.mark /\ rt'.poisoned = rt.poisoned
      /\ rt'.active = rt.active /\ rt'.force = rt.force /\ rt'.stuck = FALSE
      /\ rt'.old = None /\ rt'.next = None /\ rt'.before = None
      /\ rt'.flows = rt.flows \/ rt'.flows = FALSE
  BY <1>0, <1>1, FailedFields, Zenon DEF Runtime, SameSpot
<1>4. rt'.pc \in {"running", "prune"} /\ rt'.pc \in Serving /\ rt'.pc \in Pc /\ rt'.pc \notin Changing
      /\ rt'.pc # "prune"
  BY <1>3 DEF Serving, Changing, Pc
<1>5. SnapOf(rt.old) # None => SnapOf(rt.old).rate \in [Clients -> Nat]
  <2>1. rt.old # None => rt.old.snap \in Snapshots
    BY <1>0, Zenon DEF Runtime, State
  <2> QED
    BY <2>1, RuntimeAssumption, Zenon DEF SnapOf
<1>6. /\ \/ Trees /\ rates' = Over(SnapOf(rt.old)) /\ journal' = rt.stuck
         \/ rates' = rates /\ journal' = journal
  BY Zenon DEF RestoreRates
<1>7. rates' \in [Clients -> Nat] /\ \A c \in Clients : rates[c] # 0 => rates'[c] # 0
  <2>1. CASE rates' = rates
    BY <1>0, <2>1, Zenon DEF World
  <2>2. CASE rates' = Over(SnapOf(rt.old))
    BY <1>5, <2>2, OverGrows, Zenon
  <2> QED
    BY <1>6, <2>1, <2>2, Zenon
<1>8. journal' \in BOOLEAN
  BY <1>0, <1>6, Zenon DEF World, Runtime
<1>9. World'
  BY <1>0, <1>1, <1>7, <1>8, Zenon DEF World
<1>10. Runtime'
  <2>1. rt'.flows \in BOOLEAN
    BY <1>0, <1>3, Zenon DEF Runtime
  <2> QED
    BY <1>0, <1>3, <1>4, <2>1, Zenon DEF Runtime, SameSpot
<1>11. Leased'
  <2>1. rt.pc # "commit" /\ rt.pc \in Serving \ {"commit"}
    BY <1>1, <1>2
  <2>2. rt'.pc \notin {"install", "publish", "persist"} /\ rt'.pc # "commit"
    BY <1>3
  <2> QED
    BY <1>0, <1>1, <1>3, <1>4, <2>1, <2>2, Zenon DEF Leased
<1>12. Published'
  <2>1. rt.pc \in {"install", "publish", "undo"}
    BY <1>1
  <2>2. rt'.pc \notin {"install", "publish", "undo"} /\ rt'.pc \notin {"persist", "commit"}
        /\ rt'.pc \notin {"publish", "persist", "commit"}
    BY <1>3
  <2>3. ~rt'.poisoned /\ table' # None =>
          rt.active # None /\ table = rt.active.snap /\ rt.old = rt.active
    BY <1>0, <1>1, <1>2, <1>3, <2>1, Zenon DEF Published, Leased
  <2>4. ~rt'.poisoned /\ table' # None /\ Trees' /\ ~journal' => Classed(table)'
    <3>1. SUFFICES ASSUME ~rt'.poisoned, table' # None, ~journal' PROVE Classed(table)'
      BY Zenon
    <3>2. journal
      BY <1>0, <1>2, Zenon DEF Published
    <3>3. rates' = Over(SnapOf(rt.old))
      BY <1>6, <3>1, <3>2, Zenon
    <3>4. SnapOf(rt.old) = table /\ table # None
      BY <1>1, <2>3, <3>1, Zenon DEF SnapOf
    <3>5. \A c \in Clients : table.rate[c] # 0 => rates'[c] = table.rate[c]
      BY <1>5, <3>3, <3>4, OverGrows, Zenon
    <3> QED
      BY <1>1, <3>5, Zenon DEF Classed
  <2> QED
    BY <1>1, <1>3, <1>4, <2>2, <2>3, <2>4, Zenon DEF Published
<1>13. Verdicts'
  <2>1. rt'.flows => rt.flows
    BY <1>3, Zenon
  <2> QED
    BY <1>1, <1>2, <1>3, <1>4, <1>7, <2>1, VerdictsGrow, Zenon
<1> QED
  BY <1>1, <1>2, <1>3, <1>4, <1>9, <1>10, <1>11, <1>12, <1>13, ServeKeeps, Zenon


LEMMA CommitStep == ASSUME IInv, Commit PROVE IInv'
<1>0. World /\ Runtime /\ Leased /\ Published /\ Verdicts
  BY Zenon DEF IInv, Typed, Served
<1>1. /\ UNCHANGED <<root, ifb, filters, pins, rates, table, verdicts, record, state, disabled, boot, admins>>
      /\ UNCHANGED kernel /\ (Trees' <=> Trees) /\ rt.pc = "commit"
  BY Zenon DEF Commit, kernel, queues, limits, Trees
<1>2. rt.pc \in Changing /\ rt.pc \in Serving /\ rt.pc \notin Recovering
  BY <1>1 DEF Changing, Serving, Recovering
<1>n. /\ rt.next \in State /\ rt.next.snap \in Snapshots /\ rt.next # None
      /\ rt.next.snap.rate \in [Clients -> Nat]
  BY <1>2, NextTyped, Zenon
<1> DEFINE done == [rt EXCEPT !.active = rt.next, !.force = FALSE]
<1>3. /\ DOMAIN done = DOMAIN Stopped
      /\ done.todo = rt.todo /\ done.at = rt.at /\ done.orig = rt.orig /\ done.final = rt.final
      /\ done.errs = rt.errs /\ done.mark = rt.mark /\ done.poisoned = rt.poisoned
      /\ done.active = rt.next /\ done.force = FALSE /\ done.stuck = rt.stuck /\ done.flows = rt.flows
  BY <1>0, Zenon DEF Runtime, Stopped
<1>4. /\ rt' = Accepted(done, rt.how) \/ rt' = Failed(done, rt.how)
      /\ journal' = FALSE \/ journal' = journal
      /\ evidence' = Evidence(evidence) \/ evidence' = evidence
  BY Zenon DEF Commit
<1> HIDE DEF done
<1>5. ~rt.stuck /\ rt.stuck = FALSE
  <2>1. rt.pc # "undo"
    BY <1>1
  <2> QED
    BY <1>0, <2>1, Zenon DEF Published, Runtime
<1>6. /\ DOMAIN rt' = DOMAIN Stopped /\ rt'.pc \in {"running", "prune"} /\ SameSpot
      /\ rt'.mark = rt.mark /\ rt'.poisoned = rt.poisoned
      /\ rt'.active = rt.next /\ rt'.force = FALSE /\ rt'.stuck = FALSE
      /\ rt'.old = None /\ rt'.next = None /\ rt'.before = None
      /\ rt'.flows = rt.flows \/ rt'.flows = FALSE
  <2>1. CASE rt' = Accepted(done, rt.how)
    BY <1>3, <1>5, <2>1, AcceptedFields, Zenon DEF SameSpot
  <2>2. CASE rt' = Failed(done, rt.how)
    <3>1. done.flows \in BOOLEAN
      BY <1>0, <1>3, Zenon DEF Runtime
    <3> QED
      BY <1>3, <2>2, <3>1, FailedFields, Zenon DEF SameSpot
  <2> QED
    BY <1>4, <2>1, <2>2, Zenon
<1>7. rt'.pc \in Serving /\ rt'.pc \in Pc /\ rt'.pc \notin Changing
  BY <1>6 DEF Serving, Changing, Pc
<1>8. World'
  <2>1. evidence' \in Written \cup {None}
    BY <1>0, <1>2, <1>4, EvidenceTyped, Zenon DEF World
  <2>2. journal' \in BOOLEAN
    BY <1>0, <1>4, Zenon DEF World
  <2> QED
    BY <1>0, <1>1, <2>1, <2>2, Zenon DEF World
<1>9. Runtime'
  <2>1. rt'.flows \in BOOLEAN
    BY <1>0, <1>6, Zenon DEF Runtime
  <2> QED
    BY <1>0, <1>n, <1>6, <1>7, <2>1, Zenon DEF Runtime, SameSpot
<1>10. Leased'
  <2>1. rt'.pc \notin {"install", "publish", "persist"} /\ rt'.pc # "commit"
    BY <1>6
  <2> QED
    BY <1>0, <1>1, <1>n, <1>6, <1>7, <2>1, Zenon DEF Leased
<1>11. Trees => Classed(rt.next.snap)
  <2>1. rt.pc \in {"publish", "persist", "commit"}
    BY <1>1
  <2> QED
    BY <1>0, <2>1, Zenon DEF Published
<1>12. Published'
  <2>1. rt.pc \in {"persist", "commit"}
    BY <1>1
  <2>2. rt'.pc \notin {"install", "publish", "undo"} /\ rt'.pc \notin {"persist", "commit"}
        /\ rt'.pc \notin {"publish", "persist", "commit"}
    BY <1>6
  <2>3. ~rt'.poisoned => table' = rt.next.snap
    BY <1>0, <1>1, <1>6, <2>1, Zenon DEF Published
  <2>4. ~rt'.poisoned /\ Trees' => Classed(table)'
    BY <1>1, <1>11, <2>3, Zenon DEF Classed
  <2> QED
    BY <1>n, <1>6, <1>7, <2>2, <2>3, <2>4, Zenon DEF Published
<1>13. Verdicts'
  <2>1. Trees => \A c \in Clients : rt.next.snap.rate[c] # 0 => rates[c] # 0
    BY <1>11, Zenon DEF Classed
  <2>2. rt.mark # None =>
          \/ rt.mark = rt.next.snap /\ verdicts \subseteq Selected(rt.mark)
          \/ rt.mark.rev < rt.next.snap.rev
    <3>1. SUFFICES ASSUME rt.mark # None
                   PROVE  \/ rt.mark = rt.next.snap /\ verdicts \subseteq Selected(rt.mark)
                          \/ rt.mark.rev < rt.next.snap.rev
      BY Zenon
    <3>2. /\ rt.active # None
          /\ \/ rt.mark = rt.active.snap /\ verdicts \subseteq Selected(rt.mark)
             \/ rt.mark.rev < rt.active.snap.rev
      BY <1>0, <1>2, <3>1, Zenon DEF Verdicts
    <3>3. rt.next.snap = rt.active.snap \/ rt.next.snap.rev > rt.active.snap.rev
      BY <1>0, <1>2, <3>2, Zenon DEF Leased
    <3>4. rt.mark \in Snapshots /\ rt.active.snap \in Snapshots
      BY <1>0, <3>1, <3>2, Zenon DEF Runtime, State
    <3>5. rt.mark.rev \in Nat /\ rt.active.snap.rev \in Nat /\ rt.next.snap.rev \in Nat
      BY <1>n, <3>4, RuntimeAssumption
    <3>6. rt.mark.rev < rt.active.snap.rev /\ rt.next.snap.rev > rt.active.snap.rev
            => rt.mark.rev < rt.next.snap.rev
      BY <3>5
    <3>7. rt.next.snap.rev > rt.active.snap.rev => rt.active.snap.rev < rt.next.snap.rev
      BY <3>5
    <3> QED
      BY <3>2, <3>3, <3>6, <3>7, Zenon
  <2>3. Trees => \A c \in verdicts : rates[c] # 0
    BY <1>0, <1>2, Zenon DEF Verdicts
  <2> QED
    BY <1>1, <1>n, <1>6, <2>1, <2>2, <2>3, Zenon DEF Verdicts
<1> QED
  BY <1>1, <1>2, <1>n, <1>6, <1>7, <1>8, <1>9, <1>10, <1>12, <1>13, ServeKeeps, Zenon

\* A write of the verdicts or of the mark between two applies: the table of
\* classes may only be cut down to the clients of the active snapshot.
LEMMA RunningKeeps ==
  ASSUME IInv, UNCHANGED kernel, rt.pc \in {"running", "prune"}, rt'.pc = "running", SameSpot,
         UNCHANGED <<evidence, record, state, journal, disabled, boot, admins>>,
         DOMAIN rt' = DOMAIN Stopped, rt'.active = rt.active, rt'.old = rt.old, rt'.next = rt.next,
         rt'.before = rt.before, rt'.stuck = rt.stuck, rt'.poisoned = rt.poisoned,
         rt'.force \in BOOLEAN, rt'.flows \in BOOLEAN, rt'.mark \in Snapshots \cup {None},
         rates' \in [Clients -> Nat], verdicts' \in SUBSET Clients, table' \in {table, None},
         rt.active # None => \A c \in Clients : rt.active.snap.rate[c] # 0 => rates'[c] = rates[c],
         Verdicts'
  PROVE  IInv'
<1>0. World /\ Runtime /\ Leased /\ Published
  BY Zenon DEF IInv, Typed, Served
<1>1. rt.pc \in Serving /\ rt.pc \in Serving \ {"commit"} /\ rt.pc # "commit" /\ rt.pc # "undo"
  BY DEF Serving, Changing
<1>2. rt'.pc \in Serving /\ rt'.pc \in Pc /\ rt'.pc \notin Changing /\ rt'.pc # "commit"
      /\ rt'.pc # "prune" /\ rt'.pc # "undo"
      /\ rt'.pc \notin {"install", "publish", "persist"} /\ rt'.pc \notin {"install", "publish", "undo"}
      /\ rt'.pc \notin {"persist", "commit"} /\ rt'.pc \notin {"publish", "persist", "commit"}
  BY DEF Serving, Changing, Pc
<1>3. UNCHANGED <<root, ifb, filters, pins>> /\ (Trees' <=> Trees)
  BY Zenon DEF kernel, Trees
<1>4. World'
  BY <1>0, <1>3, Zenon DEF World
<1>5. Runtime'
  BY <1>0, <1>2, Zenon DEF Runtime, SameSpot
<1>6. Leased'
  BY <1>0, <1>1, <1>2, Zenon DEF Leased
<1>7. Published'
  <2>1. ~rt'.stuck
    BY <1>0, <1>1, Zenon DEF Published
  <2>2. ~rt'.poisoned /\ table' # None =>
          rt.active # None /\ table' = table /\ table = rt.active.snap /\ (Trees /\ ~journal => Classed(table))
    BY <1>0, Zenon DEF Published
  <2>3. ~rt'.poisoned /\ table' # None /\ Trees' /\ ~journal' => Classed(table)'
    BY <1>3, <2>2, Zenon DEF Classed
  <2> QED
    BY <1>2, <2>1, <2>2, <2>3, Zenon DEF Published
<1> QED
  BY <1>1, <1>2, <1>4, <1>5, <1>6, <1>7, ServeKeeps, Zenon

LEMMA WriteVerdictStep == ASSUME IInv, WriteVerdict PROVE IInv'
<1>0. World /\ Runtime /\ Verdicts
  BY Zenon DEF IInv, Typed, Served
<1>1. /\ UNCHANGED <<root, ifb, filters, pins, rates, table, evidence, record, state, journal, disabled, rt, boot, admins>>
      /\ UNCHANGED kernel /\ rt.pc = "running" /\ rt.flows
  BY Zenon DEF WriteVerdict, kernel, files, limits
<1>2. PICK c \in Selected(rt.active.snap) : verdicts' = verdicts \cup {c}
  BY Zenon DEF WriteVerdict
<1>3. rt.pc \in Serving /\ rt.pc \in {"running", "prune"} /\ rt.pc # "prune"
  BY <1>1 DEF Serving
<1>4. c \in Clients /\ rt.active.snap.rate[c] # 0
  BY <1>2, Zenon DEF Selected
<1>5. Verdicts'
  <2>1. Trees' <=> Trees
    BY <1>1, Zenon DEF Trees
  <2>2. Trees => \A d \in verdicts' : rates[d] # 0
    BY <1>0, <1>1, <1>2, <1>3, <1>4, Zenon DEF Verdicts
  <2>3. rt.mark = rt.active.snap /\ verdicts \subseteq Selected(rt.mark) => verdicts' \subseteq Selected(rt.mark)
    BY <1>2, Zenon
  <2> QED
    BY <1>0, <1>1, <1>3, <2>1, <2>2, <2>3, Zenon DEF Verdicts
<1>6. verdicts' \in SUBSET Clients
  BY <1>0, <1>2, <1>4, Zenon DEF World
<1> QED
  BY <1>0, <1>1, <1>3, <1>5, <1>6, RunningKeeps, Zenon DEF World, Runtime, SameSpot


LEMMA PruneStep == ASSUME IInv, Prune PROVE IInv'
<1>0. World /\ Runtime /\ Verdicts /\ Equipped
  BY Zenon DEF IInv, Typed, Served
<1>1. /\ UNCHANGED <<root, ifb, filters, pins, table, evidence, record, state, journal, disabled, boot, admins>>
      /\ UNCHANGED kernel /\ rt.pc = "prune"
  BY Zenon DEF Prune, kernel, files, limits
<1>2. rt.pc \in Serving /\ rt.pc \in {"running", "prune"}
  BY <1>1 DEF Serving
<1> DEFINE s == rt.active.snap
<1>3. rt.active \in State /\ rt.active # None /\ s \in Snapshots /\ s.rev \in Nat
  <2>1. rt.active \in State
    BY <1>0, <1>1, Zenon DEF Equipped
  <2>2. s \in Snapshots
    BY <2>1, Zenon DEF State
  <2> QED
    BY <2>1, <2>2, RuntimeAssumption, Zenon
<1>4. PICK flows \in BOOLEAN, mark \in {s, None} : Marked(flows, mark)
  BY Zenon DEF Prune
<1>5. /\ DOMAIN rt' = DOMAIN Stopped /\ rt'.pc = "running" /\ SameSpot
      /\ rt'.active = rt.active /\ rt'.old = rt.old /\ rt'.next = rt.next /\ rt'.force = rt.force
      /\ rt'.before = rt.before /\ rt'.stuck = rt.stuck /\ rt'.poisoned = rt.poisoned
      /\ rt'.flows = flows /\ rt'.mark = mark
  BY <1>0, <1>4, Zenon DEF Runtime, Marked, SameSpot, Stopped
<1>6. \/ verdicts' = (IF rt.mark = s THEN verdicts ELSE {}) /\ (rates' = Live(s) \/ rates' = rates)
      \/ verdicts' \in {verdicts, {}} /\ rt' = [rt EXCEPT !.pc = "running", !.how = None, !.flows = FALSE, !.mark = None]
         /\ rates' = rates
  BY Zenon DEF Prune, Marked
<1>7. rates' \in [Clients -> Nat] /\ \A c \in Clients : s.rate[c] # 0 => rates'[c] = rates[c]
  <2>1. CASE rates' = Live(s)
    BY <1>0, <2>1 DEF World, Live
  <2>2. CASE rates' = rates
    BY <1>0, <2>2, Zenon DEF World
  <2> QED
    BY <1>6, <2>1, <2>2, Zenon
<1>8. verdicts' \in SUBSET Clients
  BY <1>0, <1>6, Zenon DEF World
<1>9. (Trees' <=> Trees) /\ rt'.pc # "prune" /\ ~rt.force
  BY <1>0, <1>1, <1>2, <1>5 DEF Trees, Verdicts
<1>10. Trees => \A c \in Clients : s.rate[c] # 0 => rates'[c] # 0
  BY <1>0, <1>2, <1>3, <1>7, <1>9, Zenon DEF Verdicts
<1>11. Verdicts'
  <2>1. CASE verdicts' = (IF rt.mark = s THEN verdicts ELSE {})
    <3>1. rt.mark = s => verdicts \subseteq Selected(s)
      <4>1. ~(s.rev < s.rev)
        BY <1>3
      <4>2. s # None
        BY <1>3, RuntimeAssumption, Zenon
      <4> QED
        BY <1>0, <1>2, <4>1, <4>2, Zenon DEF Verdicts
    <3>2. verdicts' \subseteq Selected(s)
      BY <2>1, <3>1, Zenon
    <3>3. Trees => \A c \in verdicts' : rates'[c] # 0
      BY <1>10, <3>2, Zenon DEF Selected
    <3>4. rt'.mark # None => rt'.mark = s
      BY <1>4, <1>5, Zenon
    <3> QED
      BY <1>3, <1>5, <1>9, <1>10, <3>2, <3>3, <3>4, Zenon DEF Verdicts
  <2>2. CASE /\ verdicts' \in {verdicts, {}} /\ rates' = rates
             /\ rt' = [rt EXCEPT !.pc = "running", !.how = None, !.flows = FALSE, !.mark = None]
    <3>1. rt'.mark = None
      BY <1>0, <2>2, Zenon DEF Runtime, Stopped
    <3>2. Trees => \A c \in verdicts' : rates'[c] # 0
      BY <1>0, <1>2, <2>2, Zenon DEF Verdicts
    <3> QED
      BY <1>3, <1>5, <1>9, <1>10, <3>1, <3>2, Zenon DEF Verdicts
  <2> QED
    BY <1>6, <2>1, <2>2, Zenon
<1>12. rt'.force \in BOOLEAN /\ rt'.flows \in BOOLEAN /\ rt'.mark \in Snapshots \cup {None}
  BY <1>0, <1>3, <1>4, <1>5, Zenon DEF Runtime
<1> QED
  BY <1>1, <1>2, <1>5, <1>7, <1>8, <1>11, <1>12, RunningKeeps, Zenon

LEMMA EmergencyDisableStep == ASSUME IInv, EmergencyDisable PROVE IInv'
<1>0. World /\ Runtime /\ Verdicts
  BY Zenon DEF IInv, Typed, Served
<1>1. /\ UNCHANGED <<root, ifb, filters, pins, rates, evidence, record, state, journal, disabled, boot, admins>>
      /\ UNCHANGED kernel /\ rt.pc = "running"
  BY Zenon DEF EmergencyDisable, kernel, files, limits
<1>2. rt.pc \in Serving /\ rt.pc \in {"running", "prune"} /\ rt.pc # "prune" /\ (Trees' <=> Trees)
  BY <1>1 DEF Serving, Trees
<1>3. CASE table' = None /\ verdicts' = {} /\ rt' = [Disable(rt) EXCEPT !.flows = FALSE, !.mark = None]
  <2>1. /\ DOMAIN rt' = DOMAIN Stopped /\ rt'.pc = "running" /\ SameSpot
        /\ rt'.active = rt.active /\ rt'.old = rt.old /\ rt'.next = rt.next /\ rt'.force = TRUE
        /\ rt'.before = rt.before /\ rt'.stuck = rt.stuck /\ rt'.poisoned = rt.poisoned
        /\ rt'.flows = FALSE /\ rt'.mark = None
    BY <1>0, <1>1, <1>3, Zenon DEF Runtime, Disable, SameSpot, Stopped
  <2>2. rt'.pc # "prune"
    BY <2>1
  <2>3. Verdicts'
    BY <1>3, <2>1, <2>2, Zenon DEF Verdicts
  <2> QED
    BY <1>0, <1>1, <1>2, <1>3, <2>1, <2>3, RunningKeeps, Zenon DEF World
<1>4. CASE verdicts' \in {verdicts, {}} /\ UNCHANGED <<table, rt>>
  <2>1. verdicts' \subseteq verdicts
    BY <1>4, Zenon
  <2>2. Verdicts'
    <3>1. rt.mark = rt.active.snap /\ verdicts \subseteq Selected(rt.mark) => verdicts' \subseteq Selected(rt.mark)
      BY <2>1, Zenon
    <3>2. Trees => \A c \in verdicts' : rates[c] # 0
      BY <1>0, <1>2, <2>1, Zenon DEF Verdicts
    <3> QED
      BY <1>0, <1>1, <1>2, <1>4, <3>1, <3>2, Zenon DEF Verdicts
  <2> QED
    BY <1>0, <1>1, <1>2, <1>4, <2>2, RunningKeeps, Zenon DEF World, Runtime, SameSpot
<1> QED
  BY <1>3, <1>4, Zenon DEF EmergencyDisable

-----------------------------------------------------------------------------
(* Which steps touch a root, the state on disk, and the outcome.           *)

LEMMA RootMovers ==
  ASSUME Next
  PROVE  \/ root' = root
         \/ RecoverRoot \/ RecoverOriginal \/ TakePort \/ TreeBase \/ RemoveRoot \/ RestoreRoot
         \/ Reboot \/ AdminReplaces
<1>1. CASE Start
  BY <1>1, Zenon DEF Start, kernel
<1>2. CASE Preflight
  BY <1>2, Zenon DEF Preflight, kernel
<1>3. CASE Inspect
  BY <1>3, Zenon DEF Inspect, kernel
<1>4. CASE RecoverFilters
  BY <1>4, Zenon DEF RecoverFilters, kernel
<1>5. CASE RecoverPins
  BY <1>5, Zenon DEF RecoverPins, kernel
<1>6. CASE RecoverIfb
  BY <1>6, Zenon DEF RecoverIfb, kernel
<1>7. CASE Recovered
  BY <1>7, Zenon DEF Recovered, kernel
<1>8. CASE Gate
  BY <1>8, Zenon DEF Gate, kernel
<1>9. CASE Hooks
  BY <1>9, Zenon DEF Hooks, kernel
<1>10. CASE CreateIfb
  BY <1>10, Zenon DEF CreateIfb, kernel
<1>11. CASE Pin
  BY <1>11, Zenon DEF Pin, kernel
<1>12. CASE Attach
  BY <1>12, Zenon DEF Attach, kernel
<1>13. CASE RollbackActivation
  BY <1>13, Zenon DEF RollbackActivation, kernel
<1>14. CASE RemoveIfbRoot
  BY <1>14, Zenon DEF RemoveIfbRoot, kernel
<1>15. CASE DeleteLink
  BY <1>15, Zenon DEF DeleteLink, kernel
<1>16. CASE Stop
  BY <1>16, Zenon DEF Stop, kernel
<1>17. CASE RestoreLocal
  BY <1>17, Zenon DEF RestoreLocal, kernel, Applying
<1>18. CASE InstallPlan
  BY <1>18, Zenon DEF InstallPlan, kernel
<1>19. CASE Publish
  BY <1>19, Zenon DEF Publish, kernel
<1>20. CASE Persist
  BY <1>20, Zenon DEF Persist, kernel
<1>21. CASE RestoreRates
  BY <1>21, Zenon DEF RestoreRates, kernel
<1>22. CASE Commit
  BY <1>22, Zenon DEF Commit, kernel
<1>23. CASE Prune
  BY <1>23, Zenon DEF Prune, kernel
<1>24. CASE Shutdown
  BY <1>24, Zenon DEF Shutdown, kernel
<1>25. CASE Receive
  BY <1>25, Zenon DEF Receive, kernel, Applying
<1>26. CASE ReconcileSaved
  BY <1>26, Zenon DEF ReconcileSaved, kernel, Applying
<1>27. CASE WriteVerdict
  BY <1>27, Zenon DEF WriteVerdict, kernel
<1>28. CASE EmergencyDisable
  BY <1>28, Zenon DEF EmergencyDisable, kernel
<1>29. CASE Marker
  BY <1>29, Zenon DEF Marker, kernel
<1>30. CASE Crash
  BY <1>30, Zenon DEF Crash, kernel
<1> QED
  BY <1>1, <1>2, <1>3, <1>4, <1>5, <1>6, <1>7, <1>8, <1>9, <1>10, <1>11, <1>12, <1>13, <1>14,
     <1>15, <1>16, <1>17, <1>18, <1>19, <1>20, <1>21, <1>22, <1>23, <1>24, <1>25, <1>26, <1>27,
     <1>28, <1>29, <1>30, Zenon DEF Next, Process

LEMMA StateWriters == ASSUME Next PROVE state' = state \/ Persist
<1>1. CASE Start
  BY <1>1, Zenon DEF Start, files
<1>2. CASE Preflight
  BY <1>2, Zenon DEF Preflight, files
<1>3. CASE Inspect
  BY <1>3, Zenon DEF Inspect, files
<1>4. CASE RecoverFilters
  BY <1>4, Zenon DEF RecoverFilters, files
<1>5. CASE RecoverPins
  BY <1>5, Zenon DEF RecoverPins, files
<1>6. CASE RecoverRoot
  BY <1>6, Zenon DEF RecoverRoot, files
<1>7. CASE RecoverOriginal
  BY <1>7, Zenon DEF RecoverOriginal, files
<1>8. CASE RecoverIfb
  BY <1>8, Zenon DEF RecoverIfb, files
<1>9. CASE Recovered
  BY <1>9, Zenon DEF Recovered, files
<1>10. CASE Gate
  BY <1>10, Zenon DEF Gate, files
<1>11. CASE Hooks
  BY <1>11, Zenon DEF Hooks, files, Fresh
<1>12. CASE CreateIfb
  BY <1>12, Zenon DEF CreateIfb, files
<1>13. CASE TakePort
  BY <1>13, Zenon DEF TakePort, files, Fresh
<1>14. CASE TreeBase
  BY <1>14, Zenon DEF TreeBase, files, Fresh
<1>15. CASE Pin
  BY <1>15, Zenon DEF Pin, files, Fresh
<1>16. CASE Attach
  BY <1>16, Zenon DEF Attach, files
<1>17. CASE RollbackActivation
  BY <1>17, Zenon DEF RollbackActivation, files, Fresh
<1>18. CASE RemoveRoot
  BY <1>18, Zenon DEF RemoveRoot, files, Fresh
<1>19. CASE RestoreRoot
  BY <1>19, Zenon DEF RestoreRoot, files, Fresh
<1>20. CASE RemoveIfbRoot
  BY <1>20, Zenon DEF RemoveIfbRoot, files, Fresh
<1>21. CASE DeleteLink
  BY <1>21, Zenon DEF DeleteLink, files, Fresh
<1>22. CASE Stop
  BY <1>22, Zenon DEF Stop, files
<1>23. CASE RestoreLocal
  BY <1>23, Zenon DEF RestoreLocal, Applying
<1>24. CASE InstallPlan
  BY <1>24, Zenon DEF InstallPlan, files
<1>25. CASE Publish
  BY <1>25, Zenon DEF Publish, files
<1>26. CASE RestoreRates
  BY <1>26, Zenon DEF RestoreRates, files
<1>27. CASE Commit
  BY <1>27, Zenon DEF Commit, files
<1>28. CASE Prune
  BY <1>28, Zenon DEF Prune, files
<1>29. CASE Shutdown
  BY <1>29, Zenon DEF Shutdown, files
<1>30. CASE Receive
  BY <1>30, Zenon DEF Receive, Applying
<1>31. CASE ReconcileSaved
  BY <1>31, Zenon DEF ReconcileSaved, Applying
<1>32. CASE WriteVerdict
  BY <1>32, Zenon DEF WriteVerdict, files
<1>33. CASE EmergencyDisable
  BY <1>33, Zenon DEF EmergencyDisable, files
<1>34. CASE Marker
  BY <1>34, Zenon DEF Marker, files
<1>35. CASE Crash
  BY <1>35, Zenon DEF Crash, files
<1>36. CASE Reboot
  BY <1>36, Zenon DEF Reboot, files
<1>37. CASE AdminReplaces
  BY <1>37, Zenon DEF AdminReplaces, files
<1> QED
  BY <1>1, <1>2, <1>3, <1>4, <1>5, <1>6, <1>7, <1>8, <1>9, <1>10, <1>11, <1>12, <1>13, <1>14,
     <1>15, <1>16, <1>17, <1>18, <1>19, <1>20, <1>21, <1>22, <1>23, <1>24, <1>25, <1>26, <1>27,
     <1>28, <1>29, <1>30, <1>31, <1>32, <1>33, <1>34, <1>35, <1>36, <1>37, Zenon DEF Next,
     Process

LEMMA CleanIsLast == ASSUME Next PROVE outcome' = outcome \/ outcome' # "clean" \/ DeleteLink
<1>1. CASE Start
  BY <1>1, Zenon DEF Start
<1>2. CASE Preflight
  BY <1>2, Zenon DEF Preflight, Exit
<1>3. CASE Inspect
  BY <1>3, Zenon DEF Inspect, Exit
<1>4. CASE RecoverFilters
  BY <1>4, Zenon DEF RecoverFilters, Exit
<1>5. CASE RecoverPins
  BY <1>5, Zenon DEF RecoverPins, Exit
<1>6. CASE RecoverRoot
  BY <1>6, Zenon DEF RecoverRoot, Exit
<1>7. CASE RecoverOriginal
  BY <1>7, Zenon DEF RecoverOriginal, Exit
<1>8. CASE RecoverIfb
  BY <1>8, Zenon DEF RecoverIfb, Exit
<1>9. CASE Recovered
  BY <1>9, Zenon DEF Recovered, Exit
<1>10. CASE Gate
  BY <1>10, Zenon DEF Gate, Exit
<1>11. CASE Hooks
  BY <1>11, Zenon DEF Hooks, Exit, Going
<1>12. CASE CreateIfb
  BY <1>12, Zenon DEF CreateIfb, Going
<1>13. CASE TakePort
  BY <1>13, Zenon DEF TakePort, Going
<1>14. CASE TreeBase
  BY <1>14, Zenon DEF TreeBase, Going
<1>15. CASE Pin
  BY <1>15, Zenon DEF Pin, Going
<1>16. CASE Attach
  BY <1>16, Zenon DEF Attach, Going
<1>17. CASE RollbackActivation
  BY <1>17, Zenon DEF RollbackActivation, Going
<1>18. CASE RemoveRoot
  BY <1>18, Zenon DEF RemoveRoot, Going
<1>19. CASE RestoreRoot
  BY <1>19, Zenon DEF RestoreRoot, Going
<1>20. CASE RemoveIfbRoot
  BY <1>20, Zenon DEF RemoveIfbRoot, Going
<1>21. CASE Stop
  BY <1>21, Zenon DEF Stop, Exit
<1>22. CASE RestoreLocal
  BY <1>22, Zenon DEF RestoreLocal, Applying
<1>23. CASE InstallPlan
  BY <1>23, Zenon DEF InstallPlan
<1>24. CASE Publish
  BY <1>24, Zenon DEF Publish
<1>25. CASE Persist
  BY <1>25, Zenon DEF Persist
<1>26. CASE RestoreRates
  BY <1>26, Zenon DEF RestoreRates
<1>27. CASE Commit
  BY <1>27, Zenon DEF Commit
<1>28. CASE Prune
  BY <1>28, Zenon DEF Prune
<1>29. CASE Shutdown
  BY <1>29, Zenon DEF Shutdown
<1>30. CASE Receive
  BY <1>30, Zenon DEF Receive, Applying
<1>31. CASE ReconcileSaved
  BY <1>31, Zenon DEF ReconcileSaved, Applying
<1>32. CASE WriteVerdict
  BY <1>32, Zenon DEF WriteVerdict
<1>33. CASE EmergencyDisable
  BY <1>33, Zenon DEF EmergencyDisable
<1>34. CASE Marker
  BY <1>34, Zenon DEF Marker
<1>35. CASE Crash
  BY <1>35, Zenon DEF Crash, Exit
<1>36. CASE Reboot
  BY <1>36, Zenon DEF Reboot, Exit
<1>37. CASE AdminReplaces
  BY <1>37, Zenon DEF AdminReplaces
<1> QED
  BY <1>1, <1>2, <1>3, <1>4, <1>5, <1>6, <1>7, <1>8, <1>9, <1>10, <1>11, <1>12, <1>13, <1>14,
     <1>15, <1>16, <1>17, <1>18, <1>19, <1>20, <1>21, <1>22, <1>23, <1>24, <1>25, <1>26, <1>27,
     <1>28, <1>29, <1>30, <1>31, <1>32, <1>33, <1>34, <1>35, <1>36, <1>37, Zenon DEF Next,
     Process

-----------------------------------------------------------------------------
(* The invariant.                                                          *)

LEMMA InitHolds == ASSUME Init PROVE IInv
<1>1. rt = Stopped /\ table = None /\ verdicts = {} /\ state = None /\ pins = FALSE /\ journal = FALSE
  BY Zenon DEF Init
<1>2. /\ DOMAIN rt = DOMAIN Stopped /\ rt.pc = "down" /\ rt.todo = {} /\ rt.at = None
      /\ rt.orig = [p \in Ports |-> None] /\ rt.final = FALSE /\ rt.errs = FALSE
      /\ rt.active = None /\ rt.old = None /\ rt.next = None /\ rt.force = FALSE
      /\ rt.poisoned = FALSE /\ rt.stuck = FALSE /\ rt.flows = FALSE
      /\ rt.before = None /\ rt.mark = None
  BY <1>1, StoppedFields, Zenon
<1>3. World
  <2>1. root \in [Ports -> Root] /\ rates \in [Clients -> Nat] /\ ifb \in IfbState /\ boot \in Nat /\ admins \in Nat
    BY DEF Init, Root, Supported, IfbState
  <2>2. filters \in [hooks : BOOLEAN, matcher : SUBSET Ports, observer : BOOLEAN]
    BY DEF Init, NoFilters
  <2> QED
    BY <2>1, <2>2, Zenon DEF World, Init
<1>4. rt.pc \in Recovering /\ rt.pc \in Pc /\ rt.pc \notin Serving \cup Leaving \cup {"hooks", "putback", "roots"}
      /\ rt.pc \notin Changing
  BY <1>2 DEF Recovering, Serving, Changing, Leaving, Pc
<1>5. Runtime
  <2>1. rt.orig \in [Ports -> Supported \cup {None}]
    BY <1>2
  <2> QED
    BY <1>2, <1>4, <2>1, Zenon DEF Runtime
<1>6. Equipped /\ Pinned /\ Returned
  BY <1>1, <1>2, <1>4 DEF Equipped, Pinned, Returned, Recovering, Leaving, Changing
<1>7. Unserved
  BY <1>1, <1>2, Zenon DEF Unserved
<1>8. Leased
  <2>1. Distinct(LeaseOf(state))
    BY <1>1 DEF Distinct, LeaseOf, NoLease
  <2>2. rt.pc # "commit" /\ rt.pc \notin {"install", "publish", "persist"} /\ rt.pc \notin Serving
    BY <1>2, <1>4
  <2> QED
    BY <1>1, <1>2, <1>4, <2>1, <2>2, Zenon DEF Leased
<1>9. Published /\ Verdicts
  BY <1>1, <1>2 DEF Published, Verdicts, Serving, Changing
<1> QED
  BY <1>3, <1>5, <1>6, <1>7, <1>8, <1>9, Zenon DEF IInv, Typed, Served

LEMMA Stuttering == ASSUME IInv, UNCHANGED vars PROVE IInv'
<1>1. UNCHANGED <<root, ifb, filters, pins, rates, table, verdicts, evidence, record, state, journal,
                  disabled, rt, boot, admins>>
  BY Zenon DEF vars
<1>2. Typed'
  <2>1. World'
    BY <1>1, Zenon DEF IInv, Typed, World
  <2>2. Runtime' /\ Equipped'
    BY <1>1 DEF IInv, Typed, Runtime, Equipped
  <2> QED
    BY <2>1, <2>2, Zenon DEF Typed
<1>3. Pinned' /\ Returned'
  BY <1>1, Zenon DEF IInv, Pinned, Returned
<1>4. Unserved' /\ Leased'
  BY <1>1, Zenon DEF IInv, Served, Unserved, Leased
<1>5. Published' /\ Verdicts'
  <2>1. Trees' <=> Trees
    BY <1>1, Zenon DEF Trees
  <2>2. Published'
    BY <1>1, <2>1, Zenon DEF IInv, Served, Published, Classed
  <2>3. Verdicts'
    BY <1>1, <2>1, Zenon DEF IInv, Served, Verdicts
  <2> QED
    BY <2>2, <2>3
<1> QED
  BY <1>2, <1>3, <1>4, <1>5, Zenon DEF IInv, Served


LEMMA Inductive == ASSUME Allocates, IInv, [Next]_vars PROVE IInv'
<1>1. CASE Start
  BY <1>1, StartStep, Zenon
<1>2. CASE Preflight
  BY <1>2, PreflightStep, Zenon
<1>3. CASE Inspect
  BY <1>3, InspectStep, Zenon
<1>4. CASE RecoverFilters
  BY <1>4, RecoverFiltersStep, Zenon
<1>5. CASE RecoverPins
  BY <1>5, RecoverPinsStep, Zenon
<1>6. CASE RecoverRoot
  BY <1>6, RecoverRootStep, Zenon
<1>7. CASE RecoverOriginal
  BY <1>7, RecoverOriginalStep, Zenon
<1>8. CASE RecoverIfb
  BY <1>8, RecoverIfbStep, Zenon
<1>9. CASE Recovered
  BY <1>9, RecoveredStep, Zenon
<1>10. CASE Gate
  BY <1>10, GateStep, Zenon
<1>11. CASE Hooks
  BY <1>11, HooksStep, Zenon
<1>12. CASE CreateIfb
  BY <1>12, CreateIfbStep, Zenon
<1>13. CASE TakePort
  BY <1>13, TakePortStep, Zenon
<1>14. CASE TreeBase
  BY <1>14, TreeBaseStep, Zenon
<1>15. CASE Pin
  BY <1>15, PinStep, Zenon
<1>16. CASE Attach
  BY <1>16, AttachStep, Zenon
<1>17. CASE RollbackActivation
  BY <1>17, RollbackActivationStep, Zenon
<1>18. CASE RemoveRoot
  BY <1>18, RemoveRootStep, Zenon
<1>19. CASE RestoreRoot
  BY <1>19, RestoreRootStep, Zenon
<1>20. CASE RemoveIfbRoot
  BY <1>20, RemoveIfbRootStep, Zenon
<1>21. CASE DeleteLink
  BY <1>21, DeleteLinkStep, Zenon
<1>22. CASE Stop
  BY <1>22, StopStep, Zenon
<1>23. CASE RestoreLocal
  BY <1>23, RestoreLocalStep, Zenon
<1>24. CASE InstallPlan
  BY <1>24, InstallPlanStep, Zenon
<1>25. CASE Publish
  BY <1>25, PublishStep, Zenon
<1>26. CASE Persist
  BY <1>26, PersistStep, Zenon
<1>27. CASE RestoreRates
  BY <1>27, RestoreRatesStep, Zenon
<1>28. CASE Commit
  BY <1>28, CommitStep, Zenon
<1>29. CASE Prune
  BY <1>29, PruneStep, Zenon
<1>30. CASE Shutdown
  BY <1>30, ShutdownStep, Zenon
<1>31. CASE Receive
  BY <1>31, ReceiveStep, Zenon
<1>32. CASE ReconcileSaved
  BY <1>32, ReconcileSavedStep, Zenon
<1>33. CASE WriteVerdict
  BY <1>33, WriteVerdictStep, Zenon
<1>34. CASE EmergencyDisable
  BY <1>34, EmergencyDisableStep, Zenon
<1>35. CASE Marker
  BY <1>35, MarkerStep, Zenon
<1>36. CASE Crash
  BY <1>36, CrashStep, Zenon
<1>37. CASE Reboot
  BY <1>37, RebootStep, Zenon
<1>38. CASE AdminReplaces
  BY <1>38, AdminReplacesStep, Zenon
<1> QED
  BY <1>1, <1>2, <1>3, <1>4, <1>5, <1>6, <1>7, <1>8, <1>9, <1>10, <1>11, <1>12, <1>13, <1>14,
     <1>15, <1>16, <1>17, <1>18, <1>19, <1>20, <1>21, <1>22, <1>23, <1>24, <1>25, <1>26, <1>27,
     <1>28, <1>29, <1>30, <1>31, <1>32, <1>33, <1>34, <1>35, <1>36, <1>37, <1>38, Stuttering,
     Zenon DEF Next, Process

-----------------------------------------------------------------------------
(* Slots, from what the library says of finite sets.                       *)

INSTANCE FiniteSetTheorems

\* A set of numbers that is not empty has a least member.
LEMMA LeastMember ==
  ASSUME NEW S \in SUBSET Nat, S # {} PROVE \E x \in S : \A y \in S : x <= y
<1>1. PICK x \in S : \A y \in S : ~(<<y, x>> \in OpToRel(<, Nat))
  BY NatLessThanWellFounded, WFMin, Zenon
<1>2. OpToRel(<, Nat) = {p \in Nat \X Nat : p[1] < p[2]}
  BY Zenon DEF OpToRel
<1>3. ASSUME NEW y \in S PROVE ~(y < x)
  <2>1. <<y, x>> \notin {p \in Nat \X Nat : p[1] < p[2]}
    BY <1>1, <1>2, Zenon
  <2> QED
    BY <2>1
<1> QED
  BY <1>3

\* Induction over the naturals, for a set instead of a predicate.
LEMMA NatSetInduction ==
  ASSUME NEW T, 0 \in T, \A n \in Nat : n \in T => n + 1 \in T
  PROVE  Nat \subseteq T
<1> DEFINE Bad == Nat \ T
<1>1. SUFFICES ASSUME Bad # {} PROVE FALSE
  OBVIOUS
<1>2. PICK x \in Bad : \A y \in Bad : x <= y
  BY <1>1, LeastMember, Zenon
<1> QED
  BY <1>2

\* The members of S below n.
Below(S, n) == {m \in S : m < n}

\* A finite set of numbers has a member with k smaller ones, for each k below its
\* size.
LEMMA Ranked ==
  ASSUME NEW S \in SUBSET Nat, IsFiniteSet(S)
  PROVE  \A k \in Nat : k < Cardinality(S) => \E n \in S : Cardinality(Below(S, n)) = k
<1> DEFINE T == {k \in Nat : k < Cardinality(S) => \E n \in S : Cardinality(Below(S, n)) = k}
<1>0. Cardinality(S) \in Nat
  BY FS_CardinalityType
<1>a. \A y \in S : y \in Nat
  OBVIOUS
<1>1. 0 \in T
  <2>1. SUFFICES ASSUME 0 < Cardinality(S) PROVE \E n \in S : Cardinality(Below(S, n)) = 0
    OBVIOUS
  <2>2. S # {}
    BY <2>1, FS_EmptySet
  <2>3. PICK n \in S : \A y \in S : n <= y
    BY <2>2, LeastMember, Zenon
  <2>4. \A y \in S : ~(y < n)
    BY <1>a, <2>3
  <2>5. Below(S, n) = {}
    BY <2>4, Zenon DEF Below
  <2> QED
    BY <2>5, FS_EmptySet, Zenon
<1>2. ASSUME NEW k \in Nat, k \in T PROVE k + 1 \in T
  <2>1. SUFFICES ASSUME k + 1 < Cardinality(S)
                 PROVE  \E n \in S : Cardinality(Below(S, n)) = k + 1
    OBVIOUS
  <2>2. PICK n \in S : Cardinality(Below(S, n)) = k
    BY <1>0, <1>2, <2>1
  <2>3. IsFiniteSet(Below(S, n)) /\ n \notin Below(S, n)
    BY FS_Subset DEF Below
  <2>4. Cardinality(Below(S, n) \cup {n}) = k + 1
    BY <2>2, <2>3, FS_AddElement
  <2> DEFINE Above == {m \in S : m > n}
  <2>5. Above # {}
    <3>1. SUFFICES ASSUME Above = {} PROVE FALSE
      OBVIOUS
    <3>2. \A y \in S : ~(y > n)
      BY <3>1
    <3>3. \A y \in S : y < n \/ y = n
      BY <1>a, <3>2
    <3>4. S = Below(S, n) \cup {n}
      BY <3>3, Zenon DEF Below
    <3> QED
      <4>1. Cardinality(S) = k + 1
        BY <2>4, <3>4, Zenon
      <4> QED
        BY <2>1, <4>1
  <2>6. PICK m \in Above : \A y \in Above : m <= y
    BY <2>5, LeastMember, Zenon
  <2>7. \A y \in S : (y < m) <=> (y < n \/ y = n)
    BY <1>a, <2>6
  <2>8. Below(S, m) = Below(S, n) \cup {n}
    BY <2>7, Zenon DEF Below
  <2> QED
    BY <2>4, <2>6, <2>8
<1> HIDE DEF T
<1>3. Nat \subseteq T
  BY <1>1, <1>2, NatSetInduction, Zenon
<1> QED
  BY <1>3, Zenon DEF T

\* A member of a finite set has fewer smaller ones than a larger member has, and
\* fewer than the set has members.
LEMMA RankGrows ==
  ASSUME NEW S \in SUBSET Nat, IsFiniteSet(S), NEW c \in S
  PROVE  /\ Cardinality(Below(S, c)) \in Nat
         /\ Cardinality(Below(S, c)) < Cardinality(S)
         /\ \A d \in S : c < d => Cardinality(Below(S, c)) < Cardinality(Below(S, d))
<1>1. IsFiniteSet(Below(S, c)) /\ c \notin Below(S, c)
  BY FS_Subset DEF Below
<1>2. Cardinality(Below(S, c)) \in Nat /\ Cardinality(S) \in Nat
  BY <1>1, FS_CardinalityType
<1>3. Cardinality(Below(S, c) \cup {c}) = Cardinality(Below(S, c)) + 1
  BY <1>1, FS_AddElement, Zenon
<1>4. Cardinality(Below(S, c) \cup {c}) <= Cardinality(S)
  <2>1. Below(S, c) \cup {c} \in SUBSET S
    BY DEF Below
  <2> QED
    BY <2>1, FS_Subset
<1>5. ASSUME NEW d \in S, c < d PROVE Cardinality(Below(S, c)) < Cardinality(Below(S, d))
  <2>0. \A y \in S : y < c => y < d
    BY <1>5
  <2>1. Below(S, c) \cup {c} \in SUBSET Below(S, d)
    BY <1>5, <2>0, Zenon DEF Below
  <2>2. IsFiniteSet(Below(S, d))
    BY FS_Subset DEF Below
  <2>3. Cardinality(Below(S, d)) \in Nat
    BY <2>2, FS_CardinalityType
  <2>4. Cardinality(Below(S, c) \cup {c}) <= Cardinality(Below(S, d))
    BY <2>1, <2>2, FS_Subset
  <2> QED
    BY <1>2, <1>3, <2>3, <2>4
<1> QED
  BY <1>2, <1>3, <1>4, <1>5

\* priority_slots::allocate gives every new client a slot of its own and leaves
\* those that clients have, also the ones of clients the snapshot leaves out.
LEMMA AllocateSound ==
  ASSUME NEW s \in Snapshots, NEW lease \in Lease, Distinct(lease), Allocatable(s, lease)
  PROVE  /\ Allocate(s, lease) \in Lease
         /\ Distinct(Allocate(s, lease))
         /\ Extends(Allocate(s, lease), lease)
<1> DEFINE F == Free(lease)
           J == Joining(s, lease)
           Slot(c) == CHOOSE n \in F : Cardinality(Below(F, n)) = Cardinality(Below(J, c))
           A == [c \in Clients |-> IF c \in J THEN Slot(c) ELSE lease[c]]
<1>1. F \in SUBSET (0..(SlotCount - 1)) /\ J \in SUBSET Clients
  BY DEF Free, Joining, Selected
<1>2. F \in SUBSET Nat /\ J \in SUBSET Nat
  <2>1. 0..(SlotCount - 1) \subseteq Nat
    BY RuntimeAssumption
  <2>2. Clients \subseteq Nat
    BY RuntimeAssumption, Zenon
  <2> QED
    BY <1>1, <2>1, <2>2, Zenon
<1>3. IsFiniteSet(F) /\ IsFiniteSet(J)
  <2>1. IsFiniteSet(0..(SlotCount - 1))
    BY FS_Interval, RuntimeAssumption
  <2>2. IsFiniteSet(F)
    BY <1>1, <2>1, FS_Subset, Zenon
  <2>3. IsFiniteSet(J)
    BY <1>1, RuntimeAssumption, FS_Subset, Zenon
  <2> QED
    BY <2>2, <2>3
<1>4. Cardinality(J) <= Cardinality(F)
  BY Zenon DEF Allocatable
<1>5. Cardinality(J) \in Nat /\ Cardinality(F) \in Nat
  BY <1>3, FS_CardinalityType
<1>6. Allocate(s, lease) = A
  BY Zenon DEF Allocate, Below
<1>7. \A n : n \in F => \A d \in Clients : lease[d] # n
  BY DEF Free
<1>8. \A c \in Clients \ J : A[c] = lease[c]
  BY Zenon
<1>9. \A c \in J : lease[c] = None
  BY DEF Joining
<1> HIDE DEF F, J
<1>10. ASSUME NEW c \in J
       PROVE  Slot(c) \in F /\ Cardinality(Below(F, Slot(c))) = Cardinality(Below(J, c))
  <2>1. Cardinality(Below(J, c)) \in Nat /\ Cardinality(Below(J, c)) < Cardinality(J)
    BY <1>2, <1>3, RankGrows
  <2>2. Cardinality(Below(J, c)) < Cardinality(F)
    BY <1>4, <1>5, <2>1
  <2>3. \E n \in F : Cardinality(Below(F, n)) = Cardinality(Below(J, c))
    BY <1>2, <1>3, <2>1, <2>2, Ranked, Zenon
  <2> QED
    BY <2>3, Zenon
<1>11. \A c \in J : A[c] = Slot(c)
  BY <1>1, Zenon
<1>12. \A c \in J : A[c] \in F /\ Cardinality(Below(F, A[c])) = Cardinality(Below(J, c))
  BY <1>10, <1>11, Zenon
<1>13. ASSUME NEW c \in J, NEW d \in J, c # d PROVE A[c] # A[d]
  <2>1. Cardinality(Below(J, c)) \in Nat /\ Cardinality(Below(J, d)) \in Nat
    BY <1>2, <1>3, RankGrows
  <2>2. c < d => Cardinality(Below(J, c)) < Cardinality(Below(J, d))
    BY <1>2, <1>3, RankGrows
  <2>3. d < c => Cardinality(Below(J, d)) < Cardinality(Below(J, c))
    BY <1>2, <1>3, RankGrows
  <2>4. c \in Nat /\ d \in Nat
    BY <1>2
  <2>5. Cardinality(Below(J, c)) # Cardinality(Below(J, d))
    BY <1>13, <2>1, <2>2, <2>3, <2>4
  <2> QED
    BY <1>12, <2>5, Zenon
<1>14. A \in Lease
  <2>1. ASSUME NEW c \in Clients PROVE A[c] \in (0..(SlotCount - 1)) \cup {None}
    <3>1. CASE c \in J
      BY <1>1, <1>12, <3>1, Zenon
    <3>2. CASE c \notin J
      BY <1>8, <3>2 DEF Lease
    <3> QED
      BY <3>1, <3>2
  <2> QED
    BY <2>1 DEF Lease
<1> HIDE DEF A
<1>15. ASSUME NEW c \in Clients, NEW d \in Clients \ {c}, A[c] # None PROVE A[c] # A[d]
  <2>1. CASE c \in J /\ d \in J
    BY <1>13, <2>1
  <2>2. CASE c \in J /\ d \notin J
    BY <1>7, <1>8, <1>12, <2>2
  <2>3. CASE c \notin J /\ d \in J
    BY <1>7, <1>8, <1>12, <2>3
  <2>4. CASE c \notin J /\ d \notin J
    BY <1>8, <1>15, <2>4 DEF Distinct
  <2> QED
    BY <2>1, <2>2, <2>3, <2>4
<1>16. Distinct(A)
  BY <1>15, Zenon DEF Distinct
<1>17. Extends(A, lease)
  BY <1>8, <1>9, Zenon DEF Extends
<1> QED
  BY <1>6, <1>14, <1>16, <1>17, Zenon

LEMMA AllocatesHolds == Allocates
BY AllocateSound, Zenon DEF Allocates

-----------------------------------------------------------------------------
(* The theorems.                                                           *)

\* The inductive invariant holds in every reachable state, for any set of ports,
\* clients and snapshots and any number of faults, kills, reboots and foreign
\* replacements of a root.
THEOREM RuntimeInvariant == Spec => []IInv
<1>1. Init => IInv
  BY InitHolds
<1>2. IInv /\ [Next]_vars => IInv'
  BY AllocatesHolds, Inductive, Zenon
<1> QED
  BY <1>1, <1>2, PTL DEF Spec

\* Every variable keeps its type, whatever step a process of the runtime is
\* killed in.
THEOREM RuntimeTypes == Spec => []TypeOK
<1>1. ASSUME IInv PROVE TypeOK
  <2>1. Runtime /\ World
    BY <1>1, Zenon DEF IInv, Typed
  <2>2. \A p \in Ports : rt.orig[p] \in Supported \cup {None}
    BY <2>1, Zenon DEF Runtime
  <2> QED
    BY <2>1, <2>2, Zenon DEF Runtime, World, TypeOK
<1> QED
  BY <1>1, RuntimeInvariant, PTL

\* prepare goes on to the set-up only when nothing of an earlier process is left:
\* no owned root, device, filter or pinned program, and no open transaction.
THEOREM RuntimeStartsFromNothing == Spec => []StartsFromNothing
<1>1. ASSUME IInv PROVE StartsFromNothing
  <2>1. SUFFICES ASSUME rt.pc = "hooks"
                 PROVE  NothingOwned /\ ~journal /\ \A p \in Ports : root[p] # "bare"
    BY Zenon DEF StartsFromNothing
  <2>2. /\ ifb = "none" /\ filters = NoFilters /\ ~journal
        /\ \A p \in Ports : root[p] \notin {"bare", "tree"}
    BY <1>1, <2>1, Zenon DEF IInv, Pinned
  <2>3. ~pins
    BY <1>1, <2>1 DEF IInv, Pinned
  <2>4. OwnedPorts = {}
    BY <2>2 DEF OwnedPorts
  <2> QED
    BY <2>2, <2>3, <2>4, Zenon DEF NothingOwned
<1> QED
  BY <1>1, RuntimeInvariant, PTL

\* Between two applies the published map, the state in memory and the state on
\* disk are the same snapshot, and its clients have classes with their rates.
THEOREM RuntimePublishes == Spec => []PublishedIsActive
<1>1. ASSUME IInv PROVE PublishedIsActive
  <2>1. SUFFICES ASSUME rt.pc = "running", table # None, ~rt.poisoned
                 PROVE  /\ rt.active # None /\ table = rt.active.snap /\ state = rt.active
                        /\ Trees /\ ~journal => \A c \in Selected(table) : rates[c] = table.rate[c]
    BY Zenon DEF PublishedIsActive
  <2>2. rt.active = state
    BY <1>1, <2>1, MemoryIsDisk, Zenon
  <2>3. rt.active # None /\ table = rt.active.snap /\ (Trees /\ ~journal => Classed(table))
    <3>1. rt.pc \in {"running", "prune"}
      BY <2>1
    <3> QED
      BY <1>1, <2>1, <3>1, Zenon DEF IInv, Served, Published
  <2> QED
    BY <2>2, <2>3, Zenon DEF Classed, Selected
<1> QED
  BY <1>1, RuntimeInvariant, PTL

\* prune_unused_classes_after_flow_reset never deletes the class of a client that
\* a flow verdict names.
THEOREM RuntimeVerdictsHaveClasses == Spec => []VerdictHasClass
<1>1. ASSUME IInv PROVE VerdictHasClass
  <2>1. rt.pc = "running" => rt.pc \in Serving
    BY DEF Serving
  <2> QED
    BY <1>1, <2>1, Zenon DEF IInv, Served, Verdicts, VerdictHasClass
<1> QED
  BY <1>1, RuntimeInvariant, PTL

\* No step of the runtime deletes or replaces a root that is neither its own nor
\* the one it captured and checked again.
THEOREM RuntimeKeepsForeignRoots == Spec => ForeignRootStands
<1>1. ASSUME IInv, Next, NEW p \in Ports, root'[p] # root[p]
      PROVE  \/ root[p] \in {"bare", "tree"}
             \/ rt.pc = "port" /\ root[p] = rt.orig[p]
             \/ p = rt.at
             \/ admins' # admins \/ boot' # boot
  <2>0. root \in [Ports -> Root] /\ boot \in Nat /\ admins \in Nat
    BY <1>1, Zenon DEF IInv, Typed, World
  <2>1. CASE RecoverRoot
    <3>1. PICK q \in rt.todo : root[q] = "tree" /\ root' = [root EXCEPT ![q] = "default"]
      BY <1>1, <2>1, Zenon DEF RecoverRoot
    <3>2. p = q
      BY <1>1, <2>0, <3>1, Zenon
    <3> QED
      BY <3>1, <3>2
  <2>2. CASE RecoverOriginal
    <3>1. root' = [root EXCEPT ![rt.at] = evidence.roots[rt.at]]
      BY <1>1, <2>2, Zenon DEF RecoverOriginal
    <3> QED
      BY <1>1, <2>0, <3>1, Zenon
  <2>3. CASE TakePort
    <3> DEFINE q == CHOOSE r \in rt.todo : TRUE
    <3>1. rt.pc = "port" /\ root[q] = rt.orig[q] /\ root' = [root EXCEPT ![q] = "bare"]
      BY <1>1, <2>3, Zenon DEF TakePort
    <3> HIDE DEF q
    <3>2. p = q
      BY <1>1, <2>0, <3>1, Zenon
    <3> QED
      BY <3>1, <3>2
  <2>4. CASE TreeBase
    <3>1. root' = [root EXCEPT ![rt.at] = "tree"]
      BY <1>1, <2>4, Zenon DEF TreeBase
    <3> QED
      BY <1>1, <2>0, <3>1, Zenon
  <2>5. CASE RemoveRoot
    <3> DEFINE q == CHOOSE r \in rt.todo : TRUE
    <3>1. root[q] \in {"bare", "tree"} /\ root' = [root EXCEPT ![q] = "default"]
      BY <1>1, <2>5, Zenon DEF RemoveRoot
    <3> HIDE DEF q
    <3>2. p = q
      BY <1>1, <2>0, <3>1, Zenon
    <3> QED
      BY <3>1, <3>2
  <2>6. CASE RestoreRoot
    <3>1. root' = [root EXCEPT ![rt.at] = rt.orig[rt.at]]
      BY <1>1, <2>6, Zenon DEF RestoreRoot
    <3> QED
      BY <1>1, <2>0, <3>1, Zenon
  <2>7. CASE Reboot
    <3>1. boot' = boot + 1
      BY <2>7, Zenon DEF Reboot
    <3> QED
      BY <2>0, <3>1
  <2>8. CASE AdminReplaces
    <3>1. admins' = admins + 1
      BY <2>8, Zenon DEF AdminReplaces
    <3> QED
      BY <2>0, <3>1
  <2> QED
    BY <1>1, <2>1, <2>2, <2>3, <2>4, <2>5, <2>6, <2>7, <2>8, RootMovers, Zenon
<1>2. ASSUME IInv, [Next]_vars
      PROVE  [\A p \in Ports : root'[p] # root[p] =>
                \/ root[p] \in {"bare", "tree"}
                \/ rt.pc = "port" /\ root[p] = rt.orig[p]
                \/ p = rt.at
                \/ admins' # admins \/ boot' # boot]_vars
  BY <1>1, <1>2, Zenon
<1> QED
  BY <1>2, RuntimeInvariant, PTL DEF Spec, ForeignRootStands

\* A shutdown that reports success left every port with the root captured at the
\* start, and no device, filter or pinned program.
THEOREM RuntimeExitsClean == Spec => CleanExit
<1>1. ASSUME IInv, Next, outcome' = "clean", outcome # "clean"
      PROVE  /\ ifb' = "none" /\ filters' = NoFilters /\ ~pins'
             /\ \A p \in Ports : root'[p] = rt.orig[p] \/ admins > 0
  <2>0. World /\ Pinned /\ Returned
    BY <1>1, Zenon DEF IInv, Typed
  <2>1. DeleteLink
    BY <1>1, CleanIsLast, Zenon
  <2>2. rt.pc = "dellink" /\ root' = root /\ pins' = pins
    BY <2>1, Zenon DEF DeleteLink
  <2>3. rt.final /\ ~rt.errs /\ ifb' = "none" /\ filters' = Hookless(filters)
    <3>1. outcome' # outcome /\ outcome' # "dirty"
      BY <1>1
    <3> QED
      BY <2>1, <3>1, Zenon DEF DeleteLink, Exit, Going
  <2>4. rt.pc \in Leaving /\ rt.pc # "restore"
    BY <2>2 DEF Leaving
  <2>5. filters.matcher = {} /\ ~filters.observer /\ rt.todo = {}
    BY <2>0, <2>2, <2>3, <2>4, Zenon DEF Returned
  <2>6. filters' = NoFilters
    <3>1. filters \in [hooks : BOOLEAN, matcher : SUBSET Ports, observer : BOOLEAN]
      BY <2>0, Zenon DEF World
    <3>2. filters.observer = FALSE
      BY <2>5, <3>1, Zenon
    <3> DEFINE f == Hookless(filters)
    <3>3. f \in [hooks : BOOLEAN, matcher : SUBSET Ports, observer : BOOLEAN]
      BY <2>0, <3>1, BareTyped, Zenon
    <3>4. f.hooks = FALSE /\ f.matcher = {} /\ f.observer = FALSE
      BY <2>5, <3>1, <3>2, Zenon DEF Hookless
    <3> HIDE DEF f
    <3>5. f = NoFilters
      BY <3>3, <3>4 DEF NoFilters
    <3> QED
      BY <2>3, <3>5, Zenon DEF f
  <2>7. ~pins'
    <3>1. rt.pc \in {"roots", "putback", "ifblink", "recovered", "hooks", "link", "tree", "base", "port",
                     "portbase"} \cup Leaving
      BY <2>4
    <3> QED
      BY <2>0, <2>2, <3>1, Zenon DEF Pinned
  <2>8. admins = 0 \/ admins > 0
    BY <2>0 DEF World
  <2>9. admins = 0 => \A p \in Ports : root[p] = rt.orig[p]
    BY <2>0, <2>3, <2>4, <2>5, Zenon DEF Returned
  <2> QED
    BY <2>2, <2>3, <2>6, <2>7, <2>8, <2>9, Zenon
<1>2. ASSUME IInv, [Next]_vars
      PROVE  [outcome' = "clean" /\ outcome # "clean" =>
                /\ ifb' = "none" /\ filters' = NoFilters /\ ~pins'
                /\ \A p \in Ports : root'[p] = rt.orig[p] \/ admins > 0]_vars
  BY <1>1, <1>2, Zenon
<1> QED
  BY <1>2, RuntimeInvariant, PTL DEF Spec, CleanExit

\* priority_slots::allocate: a client keeps its slot, and no other client ever
\* gets it, over applies, failed applies, kills and reboots.
THEOREM RuntimeKeepsLeases == Spec => LeaseIsStable
<1>1. ASSUME IInv, Next, NEW c \in Clients
      PROVE  /\ LeaseOf(state)[c] # None => LeaseOf(state')[c] = LeaseOf(state)[c]
             /\ \A d \in Clients \ {c} :
                  LeaseOf(state')[c] # None => LeaseOf(state')[c] # LeaseOf(state')[d]
  <2>1. Distinct(LeaseOf(state')) /\ Leased
    <3>1. IInv'
      BY <1>1, AllocatesHolds, Inductive, Zenon
    <3>2. Leased'
      BY <3>1, Zenon DEF IInv, Served
    <3> QED
      BY <1>1, <3>2, Zenon DEF IInv, Served, Leased
  <2>2. LeaseOf(state)[c] # None => LeaseOf(state')[c] = LeaseOf(state)[c]
    <3>1. CASE state' = state
      BY <3>1, Zenon
    <3>2. CASE Persist /\ state' # state
      <4>1. rt.pc = "persist" /\ state' = rt.next
        BY <3>2, Zenon DEF Persist
      <4>2. rt.pc \in Changing /\ rt.pc \in {"install", "publish", "persist"}
        BY <4>1 DEF Changing
      <4>3. rt.next # None /\ Extends(rt.next.lease, LeaseOf(state))
        BY <1>1, <2>1, <4>2, NextTyped, Zenon DEF Leased
      <4>4. LeaseOf(state') = rt.next.lease
        BY <4>1, <4>3, Zenon DEF LeaseOf
      <4> QED
        BY <1>1, <4>3, <4>4, Zenon DEF Extends
    <3> QED
      BY <1>1, <3>1, <3>2, StateWriters, Zenon
  <2> QED
    BY <1>1, <2>1, <2>2, Zenon DEF Distinct
<1>2. ASSUME IInv, [Next]_vars
      PROVE  [\A c \in Clients :
                /\ LeaseOf(state)[c] # None => LeaseOf(state')[c] = LeaseOf(state)[c]
                /\ \A d \in Clients \ {c} :
                     LeaseOf(state')[c] # None => LeaseOf(state')[c] # LeaseOf(state')[d]]_vars
  BY <1>1, <1>2, Zenon
<1> QED
  BY <1>2, RuntimeInvariant, PTL DEF Spec, LeaseIsStable
=============================================================================
