--------------------------- MODULE AgentExecutor ---------------------------
(***************************************************************************)
(* How the Agent makes a policy snapshot effective on the gateway:         *)
(* process_snapshot_with (crates/agent/src/policy/executor.rs) changes the *)
(* nftables table, the traffic-control (tc) tree, the recovery journal and *)
(* the state file one after the other, and may fail or be killed between   *)
(* any two of them.  The `policies unlock` and `policies resume` commands  *)
(* are another process on the same files and the same kernel.              *)
(***************************************************************************)
EXTENDS Naturals

CONSTANTS
  Shapes,       \* traffic-control configurations (ShapingState)
  Blocks,       \* sets of blocked clients (NftPlan.blocked_v4, blocked_v6)
  Snapshots,    \* the snapshots the Collector may send
  None,         \* no shape, nothing blocked, no snapshot
  MaxFault,     \* file and kernel operations that fail
  SyncFaults,   \* whether a file operation may fail after it has taken effect
  MaxCrash,     \* Agent crashes
  MaxReboot,    \* gateway reboots, which clear the kernel
  MaxCommand    \* runs of `policies unlock` and `policies resume`

ASSUME SnapshotsAssumption ==
  /\ None \notin Shapes \cup Blocks
  /\ \A s \in Snapshots :
       /\ s.rev \in Nat \ {0} /\ s.app \in BOOLEAN
       /\ s.shape \in Shapes \cup {None} /\ s.block \in Blocks \cup {None}
  /\ None \notin Snapshots
  /\ SyncFaults \in BOOLEAN
  /\ MaxFault \in Nat /\ MaxCrash \in Nat /\ MaxReboot \in Nat /\ MaxCommand \in Nat

VARIABLES
  saved,     \* policy-state.json: the snapshot, and the shape it was given
  journal,   \* shaping-journal.json: [prev, next], or None
  marker,    \* policies-disabled exists
  nft,       \* the installed NetQmon table, None when there is none
  tc,        \* the queueing tree: which shapes its classes belong to
  run,       \* process_snapshot_with in the Agent and in `policies resume`
  cli,       \* `policies unlock` and `policies resume`
  acked,     \* the last acknowledgement of the Agent
  raced,     \* history: a run of the Agent has overlapped with a command
  faults, crashes, reboots, commands

vars == <<saved, journal, marker, nft, tc, run, cli, acked, raced,
          faults, crashes, reboots, commands>>

-----------------------------------------------------------------------------
(* The kernel and the files.                                               *)

Process == {"agent", "resume"}

\* An untouched root qdisc has no classes of ours.  A tree that is being
\* changed from one shape to another may hold classes of both.
Original  == [classes |-> {}, exact |-> TRUE]
Exact(sh) == IF sh = None THEN Original ELSE [classes |-> {sh}, exact |-> TRUE]
Partial(shs) == [classes |-> shs \ {None}, exact |-> FALSE]

\* The nft table holds the blocked clients and the marks of a shape; a table
\* without either is the same as no table.
Rules(block, shape) ==
  IF block = None /\ shape = None THEN None ELSE [block |-> block, marks |-> shape]

\* verify_owned: the tree is exactly the one of this shape.
VerifyOwned(sh) == tc = Exact(sh)

\* restore_from_journal accepts the original root and any mixture of the
\* classes the journal knows of.
Restorable(j) == tc.classes \subseteq {j.prev, j.next}

SavedShape == IF saved = None THEN None ELSE saved.shape

\* inspect_ownership: limits are supported while the tree is the one the state
\* file describes, an untouched root when it describes none.  When it describes
\* none, a gateway with an intermediate device (ifb) may do without the root.
LimitSupport == {VerifyOwned(SavedShape)} \cup (IF SavedShape = None THEN {TRUE} ELSE {})

Saved == [snap : Snapshots, shape : Shapes \cup {None}]
Journal == [prev : Shapes \cup {None}, next : Shapes \cup {None}]
Status == {"applied", "partial", "unsupported", "failed"}
Tree  == [classes : SUBSET Shapes, exact : BOOLEAN]

Pc == {"idle", "down", "check", "load", "recover", "reapply", "settle", "prepare",
       "journal", "nft", "tc", "tcdone", "persist", "clear", "undo", "undonft"}

\* A run: where it is, its snapshot, whether limits were supported when it
\* began, the state it loaded, whether it wrote the journal, the tree it is
\* rebuilding and where to go on after that.
Run  == [pc : Pc, snap : Snapshots \cup {None}, limit : BOOLEAN, old : Saved \cup {None},
         wrote : BOOLEAN, target : Shapes \cup {None}, after : Pc]
Resting(pc) == [pc |-> pc, snap |-> None, limit |-> FALSE, old |-> None, wrote |-> FALSE,
                target |-> None, after |-> "idle"]

CliPc == {"idle", "load", "journal", "nft", "restore", "persist", "clear", "resume"}
Cli   == [pc : CliPc, copy : Saved \cup {None}, done : BOOLEAN]
CliIdle == [pc |-> "idle", copy |-> None, done |-> FALSE]

Ack   == [snap : Snapshots, status : Status]

\* An absent file, journal or acknowledgement is none of the present ones.
ASSUME NoneAssumption == None \notin Saved \cup Journal \cup Ack

OldShape(p) == IF run[p].old = None THEN None ELSE run[p].old.shape
OldRules(p) == IF run[p].old = None THEN None
               ELSE Rules(run[p].old.snap.block, run[p].old.shape)

\* A mutant that acknowledges with the status of a policy result.
PlannedStatusOfResult(s, limit) ==
  IF limit \/ s.shape = None THEN "applied" ELSE "degraded"

\* build_plan drops the limits of a gateway that does not support them, and
\* says so in the status.
PlannedShape(s, limit) == IF limit THEN s.shape ELSE None
PlannedStatus(s, limit) ==
  IF PlannedShape(s, limit) = s.shape THEN "applied"
  ELSE IF s.block # None THEN "partial" ELSE "unsupported"
NewShape(p) == PlannedShape(run[p].snap, run[p].limit)
NewRules(p) == Rules(run[p].snap.block, NewShape(p))

Goto(p, pc) == run' = [run EXCEPT ![p].pc = pc]

\* A step whose condition does not hold fails; one whose condition holds may
\* still meet a failing command or file operation.
Fault == faults < MaxFault /\ faults' = faults + 1
FailsWhen(condition) == IF condition THEN UNCHANGED faults ELSE Fault

\* atomic_write and clear_journal sync the directory last: when only that
\* fails, the file has its new contents and the caller gets an error.
AfterFault(old, new) == {old} \cup (IF SyncFaults THEN {new} ELSE {})

\* Every outcome ends the run.  The Agent acknowledges; `policies resume`
\* writes the marker again when its own run failed.
Finish(p, status) ==
  /\ run' = [run EXCEPT ![p] = Resting("idle")]
  /\ acked' = IF p = "agent" THEN [snap |-> run[p].snap, status |-> status] ELSE acked
  /\ cli' = IF p = "resume" THEN CliIdle ELSE cli
  /\ marker' = IF p = "resume" /\ status \notin {"applied", "partial"} THEN TRUE ELSE marker

-----------------------------------------------------------------------------
(* process_snapshot_with, run by p.                                        *)

files  == <<saved, journal>>
kernel == <<nft, tc>>
limits == <<raced, crashes, reboots, commands>>

\* A mutant that does not look for the marker.
CheckUnmarked(p) ==
  /\ run[p].pc = "check"
  /\ Goto(p, "load")
  /\ UNCHANGED <<faults, files, kernel, marker, acked, cli, limits>>

Check(p) ==
  /\ run[p].pc = "check"
  /\ IF marker
     THEN Finish(p, "failed") /\ UNCHANGED raced
     ELSE /\ Goto(p, "load")
          /\ raced' = (raced \/ (p = "agent" /\ cli.pc # "idle"))
          /\ UNCHANGED <<acked, cli, marker>>
  /\ UNCHANGED <<faults, files, kernel, crashes, reboots, commands>>

Load(p) ==
  /\ run[p].pc = "load"
  /\ \/ /\ run' = [run EXCEPT ![p].pc = "recover", ![p].old = saved]
        /\ UNCHANGED <<faults, marker, acked, cli>>
     \/ Fault /\ Finish(p, "failed")
  /\ UNCHANGED <<files, kernel, limits>>

\* Rebuilding starts from the original root; the journal stays until the
\* target tree is complete, so that it can be done again.
BeginRecovery(p, after) ==
  /\ tc' = Original
  /\ run' = [run EXCEPT ![p].pc = "reapply", ![p].after = after,
                        ![p].target = IF OldShape(p) = journal.next
                                      THEN OldShape(p) ELSE journal.prev]

\* recover_journal before anything else is looked at.
Recover(p) ==
  /\ run[p].pc = "recover"
  /\ \/ /\ journal = None
        /\ Goto(p, "prepare") /\ UNCHANGED <<faults, tc, acked, cli, marker>>
     \/ /\ journal # None /\ Restorable(journal)
        /\ BeginRecovery(p, "prepare") /\ UNCHANGED <<faults, acked, cli, marker>>
     \/ /\ journal # None /\ FailsWhen(~Restorable(journal))
        /\ Finish(p, "failed") /\ UNCHANGED tc
  /\ UNCHANGED <<files, nft, limits>>

\* An error while rebuilding ends a run that is starting; one that is rolling
\* back goes on with its nft rules.
RecoveryFailed(p) ==
  IF run[p].after = "prepare" THEN Finish(p, "failed")
  ELSE /\ run' = [run EXCEPT ![p].pc = "undonft", ![p].wrote = FALSE]
       /\ UNCHANGED <<acked, cli, marker>>

Reapply(p) ==
  /\ run[p].pc = "reapply"
  /\ \/ /\ run[p].target = None \/ tc = Original
        /\ tc' = IF run[p].target = None THEN tc ELSE Partial({run[p].target})
        /\ Goto(p, "settle") /\ UNCHANGED <<faults, acked, cli, marker>>
     \/ /\ FailsWhen(run[p].target # None /\ tc # Original)
        /\ RecoveryFailed(p) /\ UNCHANGED tc
  /\ UNCHANGED <<files, nft, limits>>

Settle(p) ==
  /\ run[p].pc = "settle"
  /\ LET expected == IF run[p].target = None THEN Original ELSE Partial({run[p].target}) IN
     \/ /\ tc = expected
        /\ tc' = Exact(run[p].target) /\ journal' = None
        /\ Goto(p, run[p].after) /\ UNCHANGED <<faults, acked, cli, marker>>
     \/ /\ FailsWhen(tc # expected)
        /\ \/ tc' = tc /\ UNCHANGED journal
           \/ /\ tc = expected /\ tc' = Exact(run[p].target)
              /\ journal' \in AfterFault(journal, None)
        /\ RecoveryFailed(p)
  /\ UNCHANGED <<saved, nft, limits>>

\* The revision check, then prepare_state: the tree must be the one the state
\* file describes, or untouched when it describes none.
Prepared(p) ==
  /\ run[p].old # None => run[p].snap.rev >= run[p].old.snap.rev
  /\ OldShape(p) # None \/ NewShape(p) # None => VerifyOwned(OldShape(p))

Prepare(p) ==
  /\ run[p].pc = "prepare"
  /\ \/ /\ Prepared(p)
        /\ Goto(p, "journal") /\ UNCHANGED <<faults, acked, cli, marker>>
     \/ /\ FailsWhen(~Prepared(p))
        /\ Finish(p, "failed")
  /\ UNCHANGED <<files, kernel, limits>>

\* clear_journal, when this run wrote one.  A journal that cannot be removed is
\* left for the next run.
RemoveJournal(p) ==
  \/ /\ journal' = IF run[p].wrote THEN None ELSE journal
     /\ UNCHANGED faults
  \/ /\ run[p].wrote /\ Fault
     /\ journal' \in AfterFault(journal, None)

ShapeChanged(p) == OldShape(p) # NewShape(p)

\* A mutant that changes the tree without a journal.
WriteNoJournal(p) ==
  /\ run[p].pc = "journal"
  /\ Goto(p, "nft")
  /\ UNCHANGED <<faults, files, kernel, marker, acked, cli, limits>>

WriteJournal(p) ==
  /\ run[p].pc = "journal"
  /\ \/ /\ ShapeChanged(p)
        /\ journal' = [prev |-> OldShape(p), next |-> NewShape(p)]
        /\ run' = [run EXCEPT ![p].pc = "nft", ![p].wrote = TRUE]
        /\ UNCHANGED <<faults, acked, cli, marker>>
     \/ /\ ~ShapeChanged(p)
        /\ Goto(p, "nft") /\ UNCHANGED <<faults, journal, acked, cli, marker>>
     \/ /\ ShapeChanged(p) /\ Fault
        /\ journal' \in AfterFault(journal, [prev |-> OldShape(p), next |-> NewShape(p)])
        /\ Finish(p, "failed")
  /\ UNCHANGED <<saved, kernel, limits>>

\* A mutant that compares the shape only.
SameShape(p) == run[p].old # None /\ ~ShapeChanged(p)

\* is_installed is consulted when nothing changed, and only tells that a
\* table of ours exists.
SameConfiguration(p) ==
  run[p].old # None /\ run[p].old.snap = run[p].snap /\ ~ShapeChanged(p)

ReplaceNft(p) ==
  /\ run[p].pc = "nft"
  /\ \/ /\ nft' = IF NewRules(p) # None /\ SameConfiguration(p) /\ nft # None
                  THEN nft ELSE NewRules(p)
        /\ Goto(p, "tc") /\ UNCHANGED <<faults, journal, acked, cli, marker>>
     \/ /\ Fault
        /\ nft' \in {nft, OldRules(p)}
        /\ journal' \in {journal} \cup (IF run[p].wrote THEN {None} ELSE {})
        /\ Finish(p, "failed")
  /\ UNCHANGED <<saved, tc, limits>>

\* rollback_changed: a failing apply has tried to put the previous tree back
\* itself, and may have got nowhere, half way or all the way.
RolledBack(p) ==
  {tc} \cup (IF Restorable([prev |-> OldShape(p), next |-> NewShape(p)])
             THEN {Original, Exact(OldShape(p))} ELSE {})

\* qdisc::apply.  Taking the last shape away deletes the root in one command;
\* any other change passes through a partial tree.
ApplyTc(p) ==
  /\ run[p].pc = "tc"
  /\ \/ /\ ~ShapeChanged(p)
        /\ Goto(p, "persist") /\ UNCHANGED <<faults, tc>>
     \/ /\ ShapeChanged(p) /\ VerifyOwned(OldShape(p))
        /\ IF NewShape(p) = None
           THEN tc' = Original /\ Goto(p, "persist")
           ELSE tc' = Partial({OldShape(p), NewShape(p)}) /\ Goto(p, "tcdone")
        /\ UNCHANGED faults
     \/ /\ ShapeChanged(p) /\ FailsWhen(~VerifyOwned(OldShape(p)))
        /\ tc' \in RolledBack(p)
        /\ Goto(p, "undo")
  /\ UNCHANGED <<files, nft, marker, acked, cli, limits>>

FinishTc(p) ==
  /\ run[p].pc = "tcdone"
  /\ LET expected == Partial({OldShape(p), NewShape(p)}) IN
     \/ /\ tc = expected
        /\ tc' = Exact(NewShape(p)) /\ Goto(p, "persist")
        /\ UNCHANGED faults
     \/ /\ FailsWhen(tc # expected)
        /\ tc' \in RolledBack(p)
        /\ Goto(p, "undo")
  /\ UNCHANGED <<files, nft, marker, acked, cli, limits>>

\* The state file is written when it differs from the one that was loaded.
NextState(p) == [snap |-> run[p].snap, shape |-> NewShape(p)]

Persist(p) ==
  /\ run[p].pc = "persist"
  /\ \/ /\ saved' = IF run[p].old = NextState(p) THEN saved ELSE NextState(p)
        /\ Goto(p, "clear") /\ UNCHANGED faults
     \/ /\ run[p].old # NextState(p) /\ Fault
        /\ saved' \in AfterFault(saved, NextState(p))
        /\ Goto(p, IF ShapeChanged(p) THEN "undo" ELSE "undonft")
  /\ UNCHANGED <<journal, kernel, marker, acked, cli, limits>>

ClearJournal(p) ==
  /\ run[p].pc = "clear"
  /\ RemoveJournal(p)
  /\ Finish(p, PlannedStatus(run[p].snap, run[p].limit))
  /\ UNCHANGED <<saved, kernel, limits>>

\* rollback_runtime: the tree through the journal, or directly when there is
\* no journal, then the nft rules of the saved state.
Undo(p) ==
  /\ run[p].pc = "undo"
  /\ \/ /\ journal # None /\ Restorable(journal)
        /\ BeginRecovery(p, "undonft") /\ UNCHANGED faults
     \/ /\ journal = None /\ VerifyOwned(NewShape(p))
        /\ tc' = Exact(OldShape(p)) /\ Goto(p, "undonft") /\ UNCHANGED faults
     \/ /\ FailsWhen(IF journal # None THEN ~Restorable(journal)
                     ELSE ~VerifyOwned(NewShape(p)))
        /\ run' = [run EXCEPT ![p].pc = "undonft", ![p].wrote = FALSE]
        /\ UNCHANGED tc
  /\ UNCHANGED <<files, nft, marker, acked, cli, limits>>

\* A mutant that rolls the tree back and forgets the rules.
UndoNothing(p) ==
  /\ run[p].pc = "undonft"
  /\ RemoveJournal(p)
  /\ Finish(p, "failed")
  /\ UNCHANGED <<saved, kernel, limits>>

UndoNft(p) ==
  /\ run[p].pc = "undonft"
  /\ \/ /\ nft' = OldRules(p)
        /\ RemoveJournal(p)
     \/ Fault /\ UNCHANGED <<nft, journal>>
  /\ Finish(p, "failed")
  /\ UNCHANGED <<saved, tc, limits>>

Step(p) ==
  \/ Check(p) \/ Load(p) \/ Recover(p) \/ Reapply(p) \/ Settle(p) \/ Prepare(p)
  \/ WriteJournal(p) \/ ReplaceNft(p) \/ ApplyTc(p) \/ FinishTc(p)
  \/ Persist(p) \/ ClearJournal(p) \/ Undo(p) \/ UndoNft(p)

-----------------------------------------------------------------------------
(* The Agent process.                                                      *)

\* runtime_topology is read before anything else.
StartRun(p, s) ==
  \E limit \in LimitSupport :
    run' = [run EXCEPT ![p] = [Resting("check") EXCEPT !.snap = s, !.limit = limit]]

\* A snapshot from the Collector.
Receive ==
  /\ run["agent"].pc = "idle"
  /\ \E s \in Snapshots : StartRun("agent", s)
  /\ UNCHANGED <<faults, files, kernel, marker, acked, cli, limits>>

\* reconcile_saved: while the state file has the shape the plan asks for, the
\* acknowledgement is given without looking at the nft table.
Reconcile ==
  /\ run["agent"].pc = "idle" /\ saved # None /\ ~marker
  /\ \/ /\ \E limit \in LimitSupport :
             /\ saved.shape = PlannedShape(saved.snap, limit)
             /\ acked' = [snap |-> saved.snap, status |-> PlannedStatus(saved.snap, limit)]
        /\ UNCHANGED run
     \/ /\ \E limit \in LimitSupport : saved.shape # PlannedShape(saved.snap, limit)
        /\ StartRun("agent", saved.snap) /\ UNCHANGED acked
  /\ UNCHANGED <<faults, files, kernel, marker, cli, limits>>

\* restore_local when the process starts.
AgentStart ==
  /\ run["agent"].pc = "down"
  /\ IF marker \/ saved = None
     THEN run' = [run EXCEPT !["agent"] = Resting("idle")]
     ELSE StartRun("agent", saved.snap)
  /\ UNCHANGED <<faults, files, kernel, marker, acked, cli, limits>>

AgentCrash ==
  /\ crashes < MaxCrash /\ run["agent"].pc # "down"
  /\ crashes' = crashes + 1
  /\ run' = [run EXCEPT !["agent"] = Resting("down")]
  /\ acked' = None
  /\ UNCHANGED <<faults, files, kernel, marker, cli, raced, reboots, commands>>

Reboot ==
  /\ reboots < MaxReboot
  /\ reboots' = reboots + 1
  /\ run' = [p \in Process |-> Resting(IF p = "agent" THEN "down" ELSE "idle")]
  /\ cli' = CliIdle /\ acked' = None
  /\ nft' = None /\ tc' = Original
  /\ UNCHANGED <<faults, files, marker, raced, crashes, commands>>

-----------------------------------------------------------------------------
(* `policies unlock` and `policies resume`.                                *)

\* A run that has passed its check of the marker goes on whatever a command
\* does: the two processes share no lock.
AgentBusy == run["agent"].pc \notin {"idle", "down", "check"}

CliFree == cli.pc = "idle" /\ run["resume"].pc = "idle"

\* The marker is written first.
Unlock ==
  /\ CliFree /\ commands < MaxCommand
  /\ commands' = commands + 1
  /\ raced' = (raced \/ AgentBusy)
  /\ marker' = TRUE
  /\ cli' = [CliIdle EXCEPT !.pc = "load"]
  /\ UNCHANGED <<faults, files, kernel, run, acked, crashes, reboots>>

CopyShape == IF cli.copy = None THEN None ELSE cli.copy.shape

UnlockLoad ==
  /\ cli.pc = "load"
  /\ \/ cli' = [cli EXCEPT !.pc = "journal", !.copy = saved] /\ UNCHANGED faults
     \/ Fault /\ cli' = CliIdle
  /\ UNCHANGED <<files, kernel, marker, run, acked, limits>>

\* Whatever journal was there is replaced.
UnlockJournal ==
  /\ cli.pc = "journal"
  /\ \/ /\ journal' = IF CopyShape = None THEN journal
                      ELSE [prev |-> CopyShape, next |-> None]
        /\ cli' = [cli EXCEPT !.pc = "nft"] /\ UNCHANGED faults
     \/ /\ CopyShape # None /\ Fault /\ cli' = CliIdle
        /\ journal' \in AfterFault(journal, [prev |-> CopyShape, next |-> None])
  /\ UNCHANGED <<saved, kernel, marker, run, acked, limits>>

UnlockDone == cli' = [CliIdle EXCEPT !.done = TRUE]

UnlockNft ==
  /\ cli.pc = "nft"
  /\ \/ /\ nft' = None
        /\ IF CopyShape = None THEN UnlockDone ELSE cli' = [cli EXCEPT !.pc = "restore"]
        /\ UNCHANGED faults
     \/ Fault /\ cli' = CliIdle /\ UNCHANGED nft
  /\ UNCHANGED <<files, tc, marker, run, acked, limits>>

\* restore_interface puts the original root back, from the exact tree only.
UnlockRestore ==
  /\ cli.pc = "restore"
  /\ \/ /\ VerifyOwned(CopyShape)
        /\ tc' = Original /\ cli' = [cli EXCEPT !.pc = "persist"] /\ UNCHANGED faults
     \/ /\ FailsWhen(~VerifyOwned(CopyShape))
        /\ cli' = CliIdle /\ UNCHANGED tc
  /\ UNCHANGED <<files, nft, marker, run, acked, limits>>

\* The copy that was loaded is written back without its shape.
UnlockPersist ==
  /\ cli.pc = "persist"
  /\ \/ /\ saved' = [cli.copy EXCEPT !.shape = None]
        /\ cli' = [cli EXCEPT !.pc = "clear"] /\ UNCHANGED faults
     \/ /\ Fault /\ cli' = CliIdle
        /\ saved' \in AfterFault(saved, [cli.copy EXCEPT !.shape = None])
  /\ UNCHANGED <<journal, kernel, marker, run, acked, limits>>

UnlockClear ==
  /\ cli.pc = "clear"
  /\ \/ journal' = None /\ UnlockDone /\ UNCHANGED faults
     \/ Fault /\ cli' = CliIdle /\ journal' \in AfterFault(journal, None)
  /\ UNCHANGED <<saved, kernel, marker, run, acked, limits>>

\* Snapshots with application policies are left to the Agent, the others are
\* processed here.
Resume ==
  /\ CliFree /\ saved # None /\ commands < MaxCommand
  /\ commands' = commands + 1
  /\ marker' = FALSE
  /\ raced' = (raced \/ AgentBusy)
  /\ IF saved.snap.app
     THEN cli' = CliIdle /\ UNCHANGED run
     ELSE cli' = [CliIdle EXCEPT !.pc = "resume"] /\ StartRun("resume", saved.snap)
  /\ UNCHANGED <<faults, files, kernel, acked, crashes, reboots>>

-----------------------------------------------------------------------------
Init ==
  /\ saved = None /\ journal = None /\ marker = FALSE
  /\ nft = None /\ tc = Original
  /\ run = [p \in Process |-> Resting("idle")]
  /\ cli = CliIdle /\ acked = None /\ raced = FALSE
  /\ faults = 0 /\ crashes = 0 /\ reboots = 0 /\ commands = 0

Command ==
  \/ Unlock \/ UnlockLoad \/ UnlockJournal \/ UnlockNft \/ UnlockRestore
  \/ UnlockPersist \/ UnlockClear \/ Resume

Next ==
  \/ \E p \in Process : Step(p)
  \/ Receive \/ Reconcile \/ AgentStart \/ AgentCrash \/ Reboot
  \/ Command

Spec == Init /\ [][Next]_vars

-----------------------------------------------------------------------------
\* The shapes of the variables.
TypeOK ==
  /\ saved \in Saved \cup {None}
  /\ journal \in Journal \cup {None}
  /\ marker \in BOOLEAN /\ raced \in BOOLEAN
  /\ nft \in {Rules(b, sh) : b \in Blocks \cup {None}, sh \in Shapes \cup {None}} /\ tc \in Tree
  /\ run \in [Process -> Run] /\ cli \in Cli
  /\ acked \in Ack \cup {None}
  /\ faults \in 0..MaxFault /\ crashes \in 0..MaxCrash
  /\ reboots \in 0..MaxReboot /\ commands \in 0..MaxCommand

\* No reboot and no command has taken away what the Agent installed.
LeftAlone == reboots + commands = 0

\* Wherever process_snapshot_with is killed or fails, the queueing tree is the
\* one policy-state.json describes, or the journal lists every class on it and
\* names the saved shape, so that recover_journal can rebuild it.
TreeIsRecoverable ==
  LeftAlone =>
    \/ VerifyOwned(SavedShape)
    \/ /\ journal # None /\ Restorable(journal)
       /\ SavedShape \in {journal.prev, journal.next}

\* No kill either, and at most one operation has failed.
Undisturbed == LeftAlone /\ crashes = 0 /\ faults <= 1

\* When the Agent's last acknowledgement was a success, its snapshot is the
\* saved one with the whole of its shape, and its tree is the one in the kernel,
\* however often the Agent was killed and its operations failed before.  One case
\* is left out by the code: reconcile_saved looks at the tree only for a snapshot
\* with limits, so that one without may be acknowledged over what an interrupted
\* change has left, while the journal of that change is kept.  Without kills and
\* with at most one failing operation tree and rules are those of the snapshot.
AppliedIsInstalled ==
  (acked # None /\ acked.status = "applied" /\ run["agent"].pc = "idle" /\ LeftAlone) =>
     /\ saved = [snap |-> acked.snap, shape |-> acked.snap.shape]
     /\ VerifyOwned(saved.shape) \/ (saved.shape = None /\ journal # None)
     /\ Undisturbed => /\ VerifyOwned(saved.shape)
                       /\ nft = Rules(acked.snap.block, acked.snap.shape)

\* After a refusal the rules and the tree of the saved snapshot are in effect:
\* rollback_runtime undoes what the failed run had changed, unless it is killed
\* or meets a second failure.
RefusalKeepsPrevious ==
  (/\ acked # None /\ acked.status = "failed" /\ run["agent"].pc = "idle"
   /\ Undisturbed) =>
     /\ nft = (IF saved = None THEN None ELSE Rules(saved.snap.block, saved.shape))
     /\ VerifyOwned(SavedShape)

\* After `policies unlock` succeeded, and until resume, the gateway has none of
\* our rules and none of our qdiscs, as long as no run of the Agent has
\* overlapped with a command.  Unlock puts the root back only when the state file
\* has a shape: qdiscs of a change that was interrupted before its shape was
\* saved stay, with their journal, which takes a kill or a second failure.
UnlockIsClean ==
  (cli.done /\ marker /\ ~raced) =>
     /\ nft = None
     /\ tc = Original \/ journal # None
     /\ (crashes = 0 /\ faults <= 1) => tc = Original

=============================================================================
