------------------------ MODULE AgentExecutorProofs ------------------------
(***************************************************************************)
(* Proofs about the Agent's executor, for any snapshots and any number of  *)
(* failures, kills, reboots and commands.  One assumption is named where   *)
(* it is used: a file operation that fails has had no effect.              *)
(***************************************************************************)
EXTENDS AgentExecutor, TLAPS

-----------------------------------------------------------------------------
(* The inductive invariant.                                                *)

\* Every class of a tree is known to a journal.
Fits(t, j) == t.classes \subseteq {j.prev, j.next}

Rebuilding(p) == run[p].pc \in {"reapply", "settle"}

\* A run has a snapshot and goes on after rebuilding a tree, and an unlock that
\* restores a tree has a shape.
Local ==
  /\ \A p \in Process :
       /\ run[p].pc \notin {"idle", "down"} => run[p].snap # None
       /\ Rebuilding(p) => run[p].after \in {"prepare", "undonft"}
  /\ cli.pc \in {"restore", "persist"} => CopyShape # None

SavedRules == IF saved = None THEN None ELSE Rules(saved.snap.block, saved.shape)

\* Which processes and commands may be under way together.
Exclusive ==
  /\ (run["resume"].pc # "idle") <=> (cli.pc = "resume")
  /\ run["resume"].pc # "down"
  /\ cli.pc \in CliPc \ {"idle", "resume"} => marker
  /\ cli.done => cli.pc = "idle"
  /\ run["agent"].pc = "down" => acked = None
  /\ LeftAlone => ~raced /\ ~marker /\ cli = CliIdle
  /\ ~raced /\ (cli.pc # "idle" \/ (cli.done /\ marker)) => ~AgentBusy

\* In every state, whatever a run is doing: a journal names the saved shape, and
\* the tree is the saved one unless there is a journal or the root is untouched.
Base ==
  /\ journal # None => SavedShape \in {journal.prev, journal.next}
  /\ \/ tc = Exact(SavedShape)
     \/ tc = Original /\ ~LeftAlone
     \/ journal # None /\ (LeftAlone => Fits(tc, journal))

\* The journal of a run that changes the shape.
Journalled(p) ==
  IF run[p].wrote
  THEN journal = [prev |-> OldShape(p), next |-> NewShape(p)] /\ ShapeChanged(p)
  ELSE journal = None /\ ~ShapeChanged(p)

RollingBack(p) ==
  run[p].pc \in {"undo", "undonft"} \/ (Rebuilding(p) /\ run[p].after = "undonft")

\* What a run of p relies on at each of its steps.
At(p) ==
  /\ run[p].pc \notin {"idle", "down", "check", "load", "clear"} => run[p].old = saved
  /\ run[p].pc \in {"check", "load", "recover", "prepare", "journal"} => ~run[p].wrote
  /\ Rebuilding(p) =>
       /\ journal # None /\ run[p].target = SavedShape
       /\ run[p].after = "prepare" => ~run[p].wrote
       /\ tc = (IF run[p].pc = "reapply" \/ run[p].target = None
                THEN Original ELSE Partial({run[p].target}))
  /\ run[p].pc \in {"prepare", "journal"} => journal = None
  /\ run[p].pc \in {"journal", "nft", "tc"} => tc = Exact(SavedShape)
  /\ run[p].pc \in {"nft", "tc", "tcdone", "persist"} => Journalled(p)
  /\ run[p].pc = "tcdone" => run[p].wrote /\ tc = Partial({OldShape(p), NewShape(p)})
  /\ run[p].pc = "persist" => tc = Exact(NewShape(p))
  /\ run[p].pc = "clear" =>
       /\ saved = NextState(p) /\ tc = Exact(NewShape(p))
       /\ ~run[p].wrote => journal = None
  /\ run[p].pc = "undo" =>
       /\ run[p].wrote /\ journal = [prev |-> OldShape(p), next |-> NewShape(p)]
       /\ Fits(tc, journal)
  /\ run[p].pc = "undonft" =>
       /\ run[p].wrote => tc = Exact(SavedShape)
       /\ ~run[p].wrote /\ journal # None => faults >= 2
  /\ RollingBack(p) => faults >= 1

\* What `policies unlock` relies on at each of its steps.
Unlocking ==
  /\ cli.pc \in {"journal", "nft", "restore", "persist"} => cli.copy = saved
  /\ cli.pc \in {"nft", "restore", "persist"} /\ CopyShape # None =>
       journal = [prev |-> CopyShape, next |-> None]
  /\ cli.pc \in {"restore", "persist", "clear"} => nft = None
  /\ cli.pc \in {"persist", "clear"} => tc = Original

Quiet == {"idle", "down", "check", "load", "recover"}

\* Without kills and with at most one failure.
Calm ==
  crashes = 0 /\ faults <= 1 =>
    ((\A p \in Process : run[p].pc \in Quiet) /\ SavedShape = None => tc = Original)

\* The same, when there was no reboot and no command either.
Steady ==
  Undisturbed =>
    /\ run["agent"].pc # "down"
    /\ run["agent"].pc \in Quiet => tc = Exact(SavedShape) /\ (journal # None => faults >= 1)
    /\ Rebuilding("agent") => faults >= 1
    /\ run["agent"].pc \in {"tc", "tcdone", "persist"} => nft = NewRules("agent")
    /\ (run["agent"].pc \notin {"tc", "tcdone", "persist"} /\ ~RollingBack("agent"))
         => nft = SavedRules

IInv ==
  /\ TypeOK /\ Local /\ Exclusive
  /\ ~raced => Base /\ (\A p \in Process : At(p)) /\ Unlocking /\ Calm /\ Steady
  /\ AppliedIsInstalled
  /\ UnlockIsClean

-----------------------------------------------------------------------------
(* The trees, and the steps every action is made of.                       *)

\* Which trees a journal knows.
LEMMA Trees ==
  ASSUME NEW prev, NEW next, NEW j, j = [prev |-> prev, next |-> next]
  PROVE  /\ Exact(None) = Original
         /\ Fits(Original, j) /\ Fits(Exact(prev), j) /\ Fits(Exact(next), j)
         /\ Fits(Partial({prev}), j) /\ Fits(Partial({next}), j) /\ Fits(Partial({prev, next}), j)
BY Zenon DEF Fits, Exact, Original, Partial

\* Trees are built from shapes.
LEMMA TreeTypes ==
  ASSUME NEW sh \in Shapes \cup {None}, NEW sh2 \in Shapes \cup {None}
  PROVE  /\ Original \in Tree /\ Exact(sh) \in Tree
         /\ Partial({sh}) \in Tree /\ Partial({sh, sh2}) \in Tree
<1>1. Original \in Tree
  BY Zenon DEF Original, Tree
<1>2. {sh} \ {None} \in SUBSET Shapes /\ {sh, sh2} \ {None} \in SUBSET Shapes
  OBVIOUS
<1>3. Partial({sh}) \in Tree /\ Partial({sh, sh2}) \in Tree
  BY <1>2, Zenon DEF Partial, Tree
<1>4. CASE sh = None
  BY <1>1, <1>3, <1>4, Zenon DEF Exact
<1>5. CASE sh # None
  <2>1. {sh} \in SUBSET Shapes
    BY <1>5, Zenon
  <2>2. [classes |-> {sh}, exact |-> TRUE] \in Tree
    BY <2>1, Zenon DEF Tree
  <2> QED
    BY <1>1, <1>3, <1>5, <2>2, Zenon DEF Exact
<1> QED
  BY <1>4, <1>5, Zenon

\* The record of a run at rest.
LEMMA RestingRun ==
  ASSUME NEW pc \in Pc
  PROVE  /\ Resting(pc) \in Run
         /\ Resting(pc).pc = pc /\ Resting(pc).snap = None /\ Resting(pc).old = None
         /\ ~Resting(pc).wrote
<1>1. "idle" \in Pc
  BY Zenon DEF Pc
<1>2. Resting(pc) \in Run
  BY <1>1, Zenon DEF Resting, Run
<1> QED
  BY <1>2, Zenon DEF Resting

\* A run that only moves on keeps everything else.
LEMMA GotoRun ==
  ASSUME run \in [Process -> Run], NEW p \in Process, NEW pc \in Pc, Goto(p, pc)
  PROVE  /\ run' \in [Process -> Run]
         /\ run'[p].pc = pc /\ run'[p].snap = run[p].snap /\ run'[p].limit = run[p].limit
         /\ run'[p].old = run[p].old /\ run'[p].wrote = run[p].wrote
         /\ run'[p].target = run[p].target /\ run'[p].after = run[p].after
         /\ \A q \in Process : q # p => run'[q] = run[q]
<1>1. run[p] \in Run /\ run'[p] = [run[p] EXCEPT !.pc = pc]
  BY Zenon DEF Goto
<1>2. [run[p] EXCEPT !.pc = pc] \in Run
  BY <1>1, Zenon DEF Run
<1>3. run' \in [Process -> Run]
  BY <1>1, <1>2, Zenon DEF Goto
<1>4. \A q \in Process : q # p => run'[q] = run[q]
  BY Zenon DEF Goto
<1> QED
  BY <1>1, <1>3, <1>4 DEF Run

\* A finished run is at rest; what it reports has a snapshot and a status.
LEMMA FinishRun ==
  ASSUME TypeOK, NEW p \in Process, NEW status \in Status, run[p].snap # None,
         Finish(p, status)
  PROVE  /\ run' \in [Process -> Run] /\ run'[p] = Resting("idle")
         /\ \A q \in Process : q # p => run'[q] = run[q]
         /\ cli' \in Cli /\ cli' \in {cli, CliIdle} /\ marker' \in BOOLEAN
         /\ acked' \in Ack \cup {None}
<1>1. /\ "idle" \in Pc /\ run \in [Process -> Run] /\ run[p] \in Run /\ run[p].snap \in Snapshots
      /\ cli \in Cli /\ marker \in BOOLEAN /\ acked \in Ack \cup {None}
  BY DEF TypeOK, Pc, Run
<1>2. run' \in [Process -> Run] /\ run'[p] = Resting("idle")
  BY <1>1, RestingRun, Zenon DEF Finish
<1>3. \A q \in Process : q # p => run'[q] = run[q]
  BY <1>1, Zenon DEF Finish
<1>4. CliIdle \in Cli
  BY SnapshotsAssumption, Zenon DEF CliIdle, Cli, CliPc
<1>5. cli' \in Cli /\ cli' \in {cli, CliIdle}
  BY <1>1, <1>4, Zenon DEF Finish
<1>6. [snap |-> run[p].snap, status |-> status] \in Ack
  BY <1>1, Zenon DEF Ack
<1>7. acked' \in Ack \cup {None}
  BY <1>1, <1>6, Zenon DEF Finish
<1>8. marker' \in BOOLEAN
  BY <1>1, Zenon DEF Finish
<1> QED
  BY <1>2, <1>3, <1>5, <1>7, <1>8, Zenon

\* A failing operation stays within its bound.
LEMMA FaultCount ==
  ASSUME faults \in 0..MaxFault, Fault
  PROVE  faults' \in 0..MaxFault /\ faults' = faults + 1
BY SnapshotsAssumption DEF Fault

-----------------------------------------------------------------------------
(* Types.                                                                  *)

RuleSet == {Rules(b, sh) : b \in Blocks \cup {None}, sh \in Shapes \cup {None}}

\* What the steps of a run have in common: only the run of p and its command
\* move, and the run keeps its snapshot until it ends.
Advance(p) ==
  /\ run' \in [Process -> Run] /\ \A q \in Process : q # p => run'[q] = run[q]
  /\ \/ /\ run'[p] = Resting("idle")
        /\ cli' = IF p = "resume" THEN CliIdle ELSE cli
        /\ marker' = marker \/ (p = "resume" /\ marker' = TRUE)
     \/ /\ run'[p].snap = run[p].snap /\ run'[p].limit = run[p].limit
        /\ run'[p].pc \in Pc \ {"idle", "down", "check"}
        /\ run'[p].pc \in {"reapply", "settle"} => run'[p].after \in {"prepare", "undonft"}
        /\ UNCHANGED <<cli, marker, acked>>
  /\ \/ raced' = raced /\ (run[p].pc # "check" \/ run'[p] = Resting("idle"))
     \/ /\ run[p].pc = "check" /\ ~marker
        /\ raced' = (raced \/ (p = "agent" /\ cli.pc # "idle"))
  /\ acked' \in Ack \cup {None} /\ (p = "resume" => acked' = acked)
  /\ UNCHANGED <<crashes, reboots, commands>>

\* What the run of p may write.
Written ==
  /\ saved' \in Saved \cup {None} /\ journal' \in Journal \cup {None}
  /\ nft' \in RuleSet /\ tc' \in Tree /\ faults' \in 0..MaxFault

\* Such a step keeps the types.
LEMMA AdvanceTypes ==
  ASSUME TypeOK, Local, NEW p \in Process, run[p].pc \notin {"idle", "down"},
         Advance(p), Written
  PROVE  TypeOK' /\ Local'
<1>1. CliIdle \in Cli /\ CliIdle.pc = "idle"
  BY SnapshotsAssumption, Zenon DEF CliIdle, Cli, CliPc
<1>2. cli' \in Cli /\ cli' \in {cli, CliIdle} /\ marker' \in BOOLEAN
  <2>1. cli \in Cli /\ marker \in BOOLEAN
    BY DEF TypeOK
  <2> QED
    BY <1>1, <2>1, Zenon DEF Advance
<1> DEFINE overlap == p = "agent" /\ cli.pc # "idle"
<1>3. raced' \in BOOLEAN
  <2>1. raced \in BOOLEAN /\ overlap \in BOOLEAN
    BY DEF TypeOK
  <2>2. raced' = raced \/ raced' = (raced \/ overlap)
    BY Zenon DEF Advance
  <2> QED
    BY <2>1, <2>2, Zenon
<1>4. TypeOK'
  BY <1>2, <1>3 DEF TypeOK, Advance, Written, RuleSet
<1>5. ASSUME NEW q \in Process
      PROVE  /\ run'[q].pc \notin {"idle", "down"} => run'[q].snap # None
             /\ Rebuilding(q)' => run'[q].after \in {"prepare", "undonft"}
  <2>1. CASE q # p
    BY <2>1, Zenon DEF Local, Advance, Rebuilding
  <2>2. CASE q = p
    BY <2>2 DEF Local, Advance, Resting, Rebuilding
  <2> QED
    BY <2>1, <2>2, Zenon
<1>6. cli'.pc \in {"restore", "persist"} => CopyShape' # None
  BY <1>1, <1>2, Zenon DEF Local, CopyShape
<1> QED
  BY <1>4, <1>5, <1>6, Zenon DEF Local

\* Moving on is such a step.
LEMMA GotoAdvances ==
  ASSUME TypeOK, NEW p \in Process,
         NEW pc \in Pc \ {"idle", "down", "check", "reapply", "settle"}, Goto(p, pc),
         run[p].pc # "check",
         UNCHANGED <<cli, marker, acked, limits>>
  PROVE  Advance(p)
<1>1. run \in [Process -> Run]
  BY DEF TypeOK
<1> QED
  BY <1>1, GotoRun DEF Advance, TypeOK, limits

\* So is ending.
LEMMA FinishAdvances ==
  ASSUME TypeOK, NEW p \in Process, NEW status \in Status, run[p].snap # None,
         Finish(p, status), UNCHANGED limits
  PROVE  Advance(p)
<1>1. cli' = (IF p = "resume" THEN CliIdle ELSE cli) /\ (p = "resume" => acked' = acked)
  BY Zenon DEF Finish
<1>2. marker' = marker \/ (p = "resume" /\ marker' = TRUE)
  BY Zenon DEF Finish
<1> QED
  BY <1>1, <1>2, FinishRun DEF Advance, TypeOK, limits

\* The table of some clients and some shape.
LEMMA RulesTyped ==
  ASSUME NEW b \in Blocks \cup {None}, NEW sh \in Shapes \cup {None}
  PROVE  Rules(b, sh) \in RuleSet
BY DEF RuleSet

\* No table is the one that would be empty.
LEMMA NoRules == None \in RuleSet
<1>1. Rules(None, None) \in RuleSet
  BY RulesTyped, Zenon
<1> QED
  BY <1>1, Zenon DEF Rules

\* The types of what a run reads.
LEMMA RunTypes ==
  ASSUME TypeOK, Local, NEW p \in Process, run[p].pc \notin {"idle", "down"}
  PROVE  /\ run \in [Process -> Run] /\ run[p].snap \in Snapshots /\ run[p].snap # None
         /\ OldShape(p) \in Shapes \cup {None} /\ NewShape(p) \in Shapes \cup {None}
         /\ run[p].target \in Shapes \cup {None} /\ run[p].after \in Pc
         /\ NewRules(p) \in RuleSet /\ OldRules(p) \in RuleSet
         /\ NextState(p) \in Saved
         /\ [prev |-> OldShape(p), next |-> NewShape(p)] \in Journal
         /\ SavedShape \in Shapes \cup {None}
<1>1. /\ run \in [Process -> Run] /\ run[p] \in Run
      /\ run[p].target \in Shapes \cup {None} /\ run[p].after \in Pc
      /\ run[p].old \in Saved \cup {None} /\ run[p].snap \in Snapshots \cup {None}
  BY DEF TypeOK, Run
<1>2. run[p].snap \in Snapshots /\ run[p].snap # None
  BY <1>1, Zenon DEF Local
<1>3. /\ run[p].snap.shape \in Shapes \cup {None} /\ run[p].snap.block \in Blocks \cup {None}
  BY <1>2, SnapshotsAssumption, Zenon
<1>4. OldShape(p) \in Shapes \cup {None} /\ NewShape(p) \in Shapes \cup {None}
  BY <1>1, <1>3, Zenon DEF OldShape, NewShape, PlannedShape, Saved
<1>5. NewRules(p) \in RuleSet
  BY <1>3, <1>4, RulesTyped, Zenon DEF NewRules
<1>6. OldRules(p) \in RuleSet
  <2>1. CASE run[p].old = None
    BY <2>1, NoRules, Zenon DEF OldRules
  <2>2. CASE run[p].old # None
    <3>1. run[p].old.snap \in Snapshots /\ run[p].old.shape \in Shapes \cup {None}
      BY <1>1, <2>2, Zenon DEF Saved
    <3>2. run[p].old.snap.block \in Blocks \cup {None}
      BY <3>1, SnapshotsAssumption, Zenon
    <3> QED
      BY <2>2, <3>1, <3>2, RulesTyped, Zenon DEF OldRules
  <2> QED
    BY <2>1, <2>2, Zenon
<1>7. NextState(p) \in Saved
  BY <1>2, <1>4, Zenon DEF NextState, Saved
<1>8. [prev |-> OldShape(p), next |-> NewShape(p)] \in Journal
  BY <1>4, Zenon DEF Journal
<1>9. SavedShape \in Shapes \cup {None}
  BY DEF TypeOK, SavedShape, Saved
<1> QED
  BY <1>1, <1>2, <1>4, <1>5, <1>6, <1>7, <1>8, <1>9, Zenon

\* The steps of process_snapshot_with are such steps.
LEMMA StepAdvances ==
  ASSUME TypeOK, Local, NEW p \in Process, Step(p)
  PROVE  run[p].pc \notin {"idle", "down"} /\ Advance(p) /\ Written
<1>1. run[p].pc \notin {"idle", "down"}
  BY Zenon DEF Step, Check, Load, Recover, Reapply, Settle, Prepare, WriteJournal, ReplaceNft,
         ApplyTc, FinishTc, Persist, ClearJournal, Undo, UndoNft
<1>2. SUFFICES Advance(p) /\ Written
  BY <1>1, Zenon
<1>3. /\ run[p].snap \in Snapshots /\ run[p].snap # None /\ run \in [Process -> Run]
      /\ OldShape(p) \in Shapes \cup {None} /\ NewShape(p) \in Shapes \cup {None}
      /\ run[p].target \in Shapes \cup {None} /\ run[p].after \in Pc
      /\ NewRules(p) \in RuleSet /\ OldRules(p) \in RuleSet /\ NextState(p) \in Saved
      /\ [prev |-> OldShape(p), next |-> NewShape(p)] \in Journal
  BY <1>1, RunTypes, Zenon
<1>4. /\ saved \in Saved \cup {None} /\ journal \in Journal \cup {None} /\ raced \in BOOLEAN
      /\ nft \in RuleSet /\ tc \in Tree /\ faults \in 0..MaxFault
  BY DEF TypeOK, RuleSet
<1>5. "failed" \in Status /\ PlannedStatus(run[p].snap, run[p].limit) \in Status
  BY Zenon DEF Status, PlannedStatus
<1>6. /\ Original \in Tree /\ Exact(OldShape(p)) \in Tree /\ Exact(NewShape(p)) \in Tree
      /\ Exact(run[p].target) \in Tree /\ Partial({run[p].target}) \in Tree
      /\ Partial({OldShape(p), NewShape(p)}) \in Tree
  BY <1>3, TreeTypes, Zenon
<1>7. ASSUME Fault PROVE faults' \in 0..MaxFault
  BY <1>4, <1>7, FaultCount, Zenon
<1>8. ASSUME NEW c, FailsWhen(c) PROVE faults' \in 0..MaxFault
  BY <1>4, <1>7, <1>8, Zenon DEF FailsWhen
<1>9. ASSUME Finish(p, "failed"), UNCHANGED limits PROVE Advance(p)
  BY <1>3, <1>5, <1>9, FinishAdvances, Zenon
<1>10. CASE Check(p)
  <2>1. Written
    BY <1>4, <1>10, Zenon DEF Check, Written, files, kernel
  <2>2. CASE marker
    <3>1. UNCHANGED limits /\ Finish(p, "failed")
      BY <1>10, <2>2, Zenon DEF Check, limits
    <3> QED
      BY <1>9, <2>1, <3>1, Zenon
  <2>3. CASE ~marker
    <3>1. "load" \in Pc
      BY Zenon DEF Pc
    <3>2. Goto(p, "load") /\ UNCHANGED <<acked, cli, marker, crashes, reboots, commands>>
      BY <1>10, <2>3, Zenon DEF Check
    <3>3. raced' = (raced \/ (p = "agent" /\ cli.pc # "idle")) /\ run[p].pc = "check"
      BY <1>10, <2>3, Zenon DEF Check
    <3> QED
      BY <1>3, <2>1, <2>3, <3>1, <3>2, <3>3, GotoRun DEF Advance, TypeOK
  <2> QED
    BY <2>2, <2>3, Zenon
<1>11. CASE Load(p)
  <2>1. CASE Fault /\ Finish(p, "failed") /\ UNCHANGED <<files, kernel, limits>>
    BY <1>4, <1>7, <1>9, <2>1, Zenon DEF Written, files, kernel
  <2>2. CASE run' = [run EXCEPT ![p].pc = "recover", ![p].old = saved]
             /\ UNCHANGED <<faults, marker, acked, cli, files, kernel, limits>>
    <3>1. Written
      BY <1>4, <2>2, Zenon DEF Written, files, kernel
    <3>2. "recover" \in Pc
      BY Zenon DEF Pc
    <3>3. run[p] \in Run /\ run'[p] = [run[p] EXCEPT !.pc = "recover", !.old = saved]
      BY <1>3, <2>2, Zenon
    <3>4. run'[p] \in Run
      BY <1>4, <3>2, <3>3, Zenon DEF Run
    <3>5. /\ run'[p].snap = run[p].snap /\ run'[p].limit = run[p].limit
          /\ run'[p].pc = "recover"
      BY <3>3, Zenon DEF Run
    <3>6. run' \in [Process -> Run] /\ \A q \in Process : q # p => run'[q] = run[q]
      BY <1>3, <2>2, <3>4, Zenon
    <3>7. run[p].pc # "check"
      BY <1>11, Zenon DEF Load
    <3> QED
      BY <2>2, <3>1, <3>2, <3>5, <3>6, <3>7 DEF Advance, TypeOK, limits
  <2> QED
    BY <1>11, <2>1, <2>2, Zenon DEF Load
<1>12. ASSUME run[p].pc # "check", NEW after \in {"prepare", "undonft"}, BeginRecovery(p, after), journal # None,
              UNCHANGED <<faults, acked, cli, marker, files, nft, limits>>
       PROVE  Advance(p) /\ Written
  <2>1. Written
    BY <1>4, <1>6, <1>12, Zenon DEF Written, files, BeginRecovery
  <2> DEFINE target == IF OldShape(p) = journal.next THEN OldShape(p) ELSE journal.prev
  <2>2. target \in Shapes \cup {None}
    BY <1>3, <1>4, <1>12, Zenon DEF Journal
  <2>3. "reapply" \in Pc /\ after \in Pc
    BY <1>12, Zenon DEF Pc
  <2>4. run' = [run EXCEPT ![p].pc = "reapply", ![p].after = after, ![p].target = target]
    BY <1>12, Zenon DEF BeginRecovery
  <2> HIDE DEF target
  <2>5. /\ run[p] \in Run
        /\ run'[p] = [run[p] EXCEPT !.pc = "reapply", !.after = after, !.target = target]
    BY <1>3, <2>4, Zenon
  <2>6. run'[p] \in Run
    BY <1>12, <2>2, <2>3, <2>5, Zenon DEF Run
  <2>7. /\ run'[p].snap = run[p].snap /\ run'[p].limit = run[p].limit
        /\ run'[p].pc = "reapply" /\ run'[p].after = after
    BY <2>5, Zenon DEF Run
  <2>8. run' \in [Process -> Run] /\ \A q \in Process : q # p => run'[q] = run[q]
    BY <1>3, <2>4, <2>6, Zenon
  <2> QED
    BY <1>12, <2>1, <2>3, <2>7, <2>8 DEF Advance, TypeOK, limits
<1>13. ASSUME run[p].pc # "check", NEW pc \in Pc \ {"idle", "down", "check", "reapply", "settle"}, Goto(p, pc), UNCHANGED <<acked, cli, marker, limits>>
       PROVE  Advance(p)
  BY <1>13, GotoAdvances, Zenon
<1>14. {"prepare", "journal", "nft", "tc", "tcdone", "persist", "clear", "undo", "undonft"}
          \subseteq Pc \ {"idle", "down", "check", "reapply", "settle"}
  BY Zenon DEF Pc
<1>15. CASE Recover(p)
  <2>1. CASE Goto(p, "prepare") /\ UNCHANGED <<faults, tc, acked, cli, marker>>
    BY <1>4, <1>13, <1>14, <1>15, <2>1, Zenon DEF Recover, Written, files
  <2>2. CASE journal # None /\ BeginRecovery(p, "prepare") /\ UNCHANGED <<faults, acked, cli, marker>>
    BY <1>12, <1>14, <1>15, <2>2, Zenon DEF Recover
  <2>3. CASE FailsWhen(~Restorable(journal)) /\ Finish(p, "failed") /\ UNCHANGED tc
    BY <1>4, <1>8, <1>9, <1>15, <2>3, Zenon DEF Recover, Written, files
  <2> QED
    BY <1>15, <2>1, <2>2, <2>3, Zenon DEF Recover
<1>16. ASSUME run[p].pc # "check", run' = [run EXCEPT ![p].pc = "undonft", ![p].wrote = FALSE],
              UNCHANGED <<acked, cli, marker, limits>>
       PROVE  Advance(p)
  <2>1. /\ run[p] \in Run
        /\ run'[p] = [run[p] EXCEPT !.pc = "undonft", !.wrote = FALSE]
    BY <1>3, <1>16, Zenon
  <2>2. run'[p] \in Run
    BY <1>14, <2>1, Zenon DEF Run
  <2>3. /\ run'[p].snap = run[p].snap /\ run'[p].limit = run[p].limit
        /\ run'[p].pc = "undonft"
    BY <2>1, Zenon DEF Run
  <2>4. run' \in [Process -> Run] /\ \A q \in Process : q # p => run'[q] = run[q]
    BY <1>3, <1>16, <2>2, Zenon
  <2> QED
    BY <1>14, <1>16, <2>3, <2>4 DEF Advance, TypeOK, limits
<1>17. ASSUME run[p].pc # "check", RecoveryFailed(p), UNCHANGED limits PROVE Advance(p)
  BY <1>9, <1>16, <1>17, Zenon DEF RecoveryFailed
<1>18. CASE Reapply(p)
  <2>1. run[p].pc # "check" /\ UNCHANGED <<saved, journal, nft, limits>>
    BY <1>18, Zenon DEF Reapply, files
  <2>2. tc' \in Tree
    BY <1>4, <1>6, <1>18, Zenon DEF Reapply
  <2>3. CASE Goto(p, "settle") /\ UNCHANGED <<faults, acked, cli, marker>>
    <3>1. "settle" \in Pc
      BY Zenon DEF Pc
    <3>2. run[p].after \in {"prepare", "undonft"}
      BY <1>18, Zenon DEF Reapply, Local, Rebuilding
    <3>3. Advance(p)
      BY <1>3, <2>1, <2>3, <3>1, <3>2, GotoRun DEF Advance, TypeOK, limits
    <3> QED
      BY <1>4, <2>1, <2>2, <2>3, <3>3, Zenon DEF Written
  <2>4. CASE FailsWhen(run[p].target # None /\ tc # Original) /\ RecoveryFailed(p)
    BY <1>4, <1>8, <1>17, <2>1, <2>2, <2>4, Zenon DEF Written
  <2> QED
    BY <1>18, <2>3, <2>4, Zenon DEF Reapply
<1>19. ASSUME NEW old \in Journal \cup {None}, NEW new \in Journal \cup {None},
              journal' \in AfterFault(old, new)
       PROVE  journal' \in Journal \cup {None}
  BY <1>19, Zenon DEF AfterFault
<1>20. CASE Settle(p)
  <2> DEFINE expected == IF run[p].target = None THEN Original ELSE Partial({run[p].target})
  <2>1. run[p].pc # "check" /\ UNCHANGED <<saved, nft, limits>>
    BY <1>20, Zenon DEF Settle
  <2>2. CASE /\ tc' = Exact(run[p].target) /\ journal' = None
             /\ Goto(p, run[p].after) /\ UNCHANGED <<faults, acked, cli, marker>>
    <3>1. run[p].after \in {"prepare", "undonft"}
      BY <1>20, Zenon DEF Settle, Local, Rebuilding
    <3> QED
      BY <1>4, <1>6, <1>13, <1>14, <2>1, <2>2, <3>1, Zenon DEF Written
  <2>3. CASE /\ FailsWhen(tc # expected)
             /\ \/ tc' = tc /\ UNCHANGED journal
                \/ /\ tc = expected /\ tc' = Exact(run[p].target)
                   /\ journal' \in AfterFault(journal, None)
             /\ RecoveryFailed(p)
    <3>1. tc' \in Tree /\ journal' \in Journal \cup {None}
      BY <1>4, <1>6, <1>19, <2>3, Zenon
    <3> QED
      BY <1>4, <1>8, <1>17, <2>1, <2>3, <3>1, Zenon DEF Written
  <2> QED
    BY <1>20, <2>2, <2>3, Zenon DEF Settle
<1>21. CASE Prepare(p)
  <2>1. Written
    BY <1>4, <1>8, <1>21, Zenon DEF Prepare, Written, files, kernel
  <2>2. CASE Goto(p, "journal") /\ UNCHANGED <<faults, acked, cli, marker>>
    BY <1>13, <1>14, <1>21, <2>1, <2>2, Zenon DEF Prepare
  <2>3. CASE Finish(p, "failed")
    BY <1>9, <1>21, <2>1, <2>3, Zenon DEF Prepare
  <2> QED
    BY <1>21, <2>2, <2>3, Zenon DEF Prepare
<1>22. CASE WriteJournal(p)
  <2>1. run[p].pc # "check" /\ UNCHANGED <<saved, nft, tc, limits>>
    BY <1>22, Zenon DEF WriteJournal, kernel
  <2>2. CASE /\ journal' = [prev |-> OldShape(p), next |-> NewShape(p)]
             /\ run' = [run EXCEPT ![p].pc = "nft", ![p].wrote = TRUE]
             /\ UNCHANGED <<faults, acked, cli, marker>>
    <3>1. /\ run[p] \in Run
          /\ run'[p] = [run[p] EXCEPT !.pc = "nft", !.wrote = TRUE]
      BY <1>3, <2>2, Zenon
    <3>2. run'[p] \in Run
      BY <1>14, <3>1, Zenon DEF Run
    <3>3. /\ run'[p].snap = run[p].snap /\ run'[p].limit = run[p].limit
          /\ run'[p].pc = "nft"
      BY <3>1, Zenon DEF Run
    <3>4. run' \in [Process -> Run] /\ \A q \in Process : q # p => run'[q] = run[q]
      BY <1>3, <2>2, <3>2, Zenon
    <3>5. Written
      BY <1>3, <1>4, <2>1, <2>2, Zenon DEF Written
    <3> QED
      BY <1>14, <2>1, <2>2, <3>3, <3>4, <3>5 DEF Advance, TypeOK, limits
  <2>3. CASE Goto(p, "nft") /\ UNCHANGED <<faults, journal, acked, cli, marker>>
    BY <1>4, <1>13, <1>14, <2>1, <2>3, Zenon DEF Written
  <2>4. CASE /\ Fault /\ Finish(p, "failed")
             /\ journal' \in AfterFault(journal, [prev |-> OldShape(p), next |-> NewShape(p)])
    BY <1>3, <1>4, <1>7, <1>9, <1>19, <2>1, <2>4, Zenon DEF Written
  <2> QED
    BY <1>22, <2>2, <2>3, <2>4, Zenon DEF WriteJournal
<1>23. CASE ReplaceNft(p)
  <2>1. run[p].pc # "check" /\ UNCHANGED <<saved, tc, limits>> /\ nft' \in RuleSet
    BY <1>3, <1>4, <1>23, Zenon DEF ReplaceNft
  <2>2. CASE Goto(p, "tc") /\ UNCHANGED <<faults, journal, acked, cli, marker>>
    BY <1>4, <1>13, <1>14, <2>1, <2>2, Zenon DEF Written
  <2>3. CASE /\ Fault /\ Finish(p, "failed")
             /\ journal' \in {journal} \cup (IF run[p].wrote THEN {None} ELSE {})
    BY <1>4, <1>7, <1>9, <2>1, <2>3, Zenon DEF Written
  <2> QED
    BY <1>23, <2>2, <2>3, Zenon DEF ReplaceNft
<1>24. \A t \in RolledBack(p) : t \in Tree
  BY <1>4, <1>6, Zenon DEF RolledBack
<1>25. CASE ApplyTc(p)
  <2>1. /\ run[p].pc # "check" /\ UNCHANGED <<saved, journal, nft, marker, acked, cli, limits>>
        /\ tc' \in Tree /\ faults' \in 0..MaxFault
    BY <1>4, <1>6, <1>8, <1>24, <1>25, Zenon DEF ApplyTc, files
  <2>2. \E pc \in Pc \ {"idle", "down", "check", "reapply", "settle"} : Goto(p, pc)
    BY <1>14, <1>25, Zenon DEF ApplyTc
  <2> QED
    BY <1>4, <1>13, <2>1, <2>2, Zenon DEF Written
<1>26. CASE FinishTc(p)
  <2>1. /\ run[p].pc # "check" /\ UNCHANGED <<saved, journal, nft, marker, acked, cli, limits>>
        /\ tc' \in Tree /\ faults' \in 0..MaxFault
    BY <1>4, <1>6, <1>8, <1>24, <1>26, Zenon DEF FinishTc, files
  <2>2. \E pc \in Pc \ {"idle", "down", "check", "reapply", "settle"} : Goto(p, pc)
    BY <1>14, <1>26, Zenon DEF FinishTc
  <2> QED
    BY <1>4, <1>13, <2>1, <2>2, Zenon DEF Written
<1>27. CASE Persist(p)
  <2>1. /\ run[p].pc # "check" /\ UNCHANGED <<journal, nft, tc, marker, acked, cli, limits>>
        /\ saved' \in Saved \cup {None} /\ faults' \in 0..MaxFault
    BY <1>3, <1>4, <1>7, <1>27, Zenon DEF Persist, kernel, AfterFault
  <2>2. \E pc \in Pc \ {"idle", "down", "check", "reapply", "settle"} : Goto(p, pc)
    BY <1>14, <1>27, Zenon DEF Persist
  <2> QED
    BY <1>4, <1>13, <2>1, <2>2, Zenon DEF Written
<1>28. ASSUME RemoveJournal(p) PROVE journal' \in Journal \cup {None} /\ faults' \in 0..MaxFault
  BY <1>4, <1>7, <1>19, <1>28, Zenon DEF RemoveJournal
<1>29. CASE ClearJournal(p)
  <2>1. Written
    BY <1>4, <1>28, <1>29, Zenon DEF ClearJournal, Written, kernel
  <2> QED
    BY <1>3, <1>5, <1>29, <2>1, FinishAdvances, Zenon DEF ClearJournal
<1>30. CASE Undo(p)
  <2>1. run[p].pc # "check" /\ UNCHANGED <<saved, journal, nft, marker, acked, cli, limits>>
    BY <1>30, Zenon DEF Undo, files
  <2>2. CASE journal # None /\ BeginRecovery(p, "undonft") /\ UNCHANGED faults
    BY <1>12, <1>14, <1>30, <2>1, <2>2, Zenon DEF Undo
  <2>3. CASE tc' = Exact(OldShape(p)) /\ Goto(p, "undonft") /\ UNCHANGED faults
    BY <1>4, <1>6, <1>13, <1>14, <2>1, <2>3, Zenon DEF Written
  <2>4. CASE /\ FailsWhen(IF journal # None THEN ~Restorable(journal)
                          ELSE ~VerifyOwned(NewShape(p)))
             /\ run' = [run EXCEPT ![p].pc = "undonft", ![p].wrote = FALSE]
             /\ UNCHANGED tc
    BY <1>4, <1>8, <1>16, <2>1, <2>4, Zenon DEF Written
  <2> QED
    BY <1>30, <2>2, <2>3, <2>4, Zenon DEF Undo
<1>31. CASE UndoNft(p)
  <2>1. Written
    BY <1>3, <1>4, <1>7, <1>28, <1>31, Zenon DEF UndoNft, Written
  <2> QED
    BY <1>9, <1>31, <2>1, Zenon DEF UndoNft
<1> QED
  BY <1>10, <1>11, <1>15, <1>18, <1>20, <1>21, <1>22, <1>23, <1>25, <1>26, <1>27,
     <1>29, <1>30, <1>31, Zenon DEF Step

\* A run that starts has a snapshot, and nothing else of the old one.
LEMMA Started ==
  ASSUME TypeOK, NEW p \in Process, NEW s \in Snapshots, StartRun(p, s)
  PROVE  /\ run' \in [Process -> Run] /\ \A q \in Process : q # p => run'[q] = run[q]
         /\ run'[p].pc = "check" /\ run'[p].snap = s /\ ~run'[p].wrote
         /\ run'[p].limit \in LimitSupport
<1>1. PICK limit \in LimitSupport :
        run' = [run EXCEPT ![p] = [Resting("check") EXCEPT !.snap = s, !.limit = limit]]
  BY Zenon DEF StartRun
<1>2. limit \in BOOLEAN
  <2>1. VerifyOwned(SavedShape) \in BOOLEAN
    BY Zenon DEF VerifyOwned
  <2>2. limit = VerifyOwned(SavedShape) \/ limit = TRUE
    BY <1>1, Zenon DEF LimitSupport
  <2> QED
    BY <2>1, <2>2, Zenon
<1>3. "check" \in Pc /\ run \in [Process -> Run]
  BY DEF Pc, TypeOK
<1>4. Resting("check") \in Run
  BY <1>3, RestingRun, Zenon
<1>5. [Resting("check") EXCEPT !.snap = s, !.limit = limit] \in Run
  BY <1>2, <1>4, Zenon DEF Run
<1>6. run' \in [Process -> Run] /\ \A q \in Process : q # p => run'[q] = run[q]
  BY <1>1, <1>3, <1>5, Zenon
<1>7. run'[p] = [Resting("check") EXCEPT !.snap = s, !.limit = limit]
  BY <1>1, <1>3, Zenon
<1> QED
  BY <1>1, <1>6, <1>7, Zenon DEF Resting

\* An idle command.
LEMMA IdleCommand == CliIdle \in Cli /\ CliIdle.pc = "idle" /\ ~CliIdle.done
BY SnapshotsAssumption, Zenon DEF CliIdle, Cli, CliPc

\* What the Agent process does outside of a run keeps the types.
LEMMA AgentTypes ==
  ASSUME TypeOK, Local, Receive \/ Reconcile \/ AgentStart \/ AgentCrash \/ Reboot
  PROVE  TypeOK' /\ Local'
<1>0. "agent" \in Process /\ "resume" \in Process /\ Process = {"agent", "resume"}
  BY Zenon DEF Process
<1>1. "idle" \in Pc /\ "down" \in Pc
  BY Zenon DEF Pc
<1>2. ASSUME run' \in [Process -> Run], cli' = cli, acked' \in Ack \cup {None},
             UNCHANGED <<faults, files, kernel, marker, raced, reboots, commands>>,
             crashes' \in 0..MaxCrash,
             \A q \in Process : q # "agent" => run'[q] = run[q],
             run'["agent"].pc \notin {"idle", "down"} => run'["agent"].snap # None,
             run'["agent"].pc \notin {"reapply", "settle"} \/ run' = run
      PROVE  TypeOK' /\ Local'
  <2>1. TypeOK'
    BY <1>2 DEF TypeOK, files, kernel
  <2>2. Local'
    BY <1>2, Zenon DEF Local, CopyShape, Rebuilding
  <2> QED
    BY <2>1, <2>2, Zenon
<1>3. ASSUME NEW s \in Snapshots, StartRun("agent", s), acked' = acked,
             UNCHANGED <<faults, files, kernel, marker, cli, limits>>
      PROVE  TypeOK' /\ Local'
  <2>1. run'["agent"].snap # None /\ run'["agent"].pc = "check"
    BY <1>0, <1>3, Started, SnapshotsAssumption, Zenon
  <2>2. /\ run' \in [Process -> Run] /\ \A q \in Process : q # "agent" => run'[q] = run[q]
        /\ acked' \in Ack \cup {None} /\ crashes' \in 0..MaxCrash
    BY <1>0, <1>3, Started DEF TypeOK, limits
  <2> QED
    BY <1>2, <1>3, <2>1, <2>2, Zenon DEF limits
<1>4. CASE Receive
  BY <1>3, <1>4, Zenon DEF Receive
<1>5. CASE Reconcile
  <2>1. saved \in Saved /\ saved.snap \in Snapshots
    BY <1>5 DEF Reconcile, TypeOK, Saved
  <2>2. CASE StartRun("agent", saved.snap) /\ UNCHANGED acked
    BY <1>3, <1>5, <2>1, <2>2, Zenon DEF Reconcile
  <2>3. CASE /\ \E limit \in LimitSupport :
                  acked' = [snap |-> saved.snap, status |-> PlannedStatus(saved.snap, limit)]
             /\ UNCHANGED run
    <3>1. PICK limit \in LimitSupport :
            acked' = [snap |-> saved.snap, status |-> PlannedStatus(saved.snap, limit)]
      BY <2>3, Zenon
    <3>2. PlannedStatus(saved.snap, limit) \in Status
      BY Zenon DEF PlannedStatus, Status
    <3>3. acked' \in Ack
      BY <2>1, <3>1, <3>2, Zenon DEF Ack
    <3>4. UNCHANGED <<faults, files, kernel, marker, cli, raced, reboots, commands, crashes>>
      BY <1>5, Zenon DEF Reconcile, limits
    <3>5. run' \in [Process -> Run] /\ crashes' \in 0..MaxCrash
      BY <2>3, <3>4 DEF TypeOK
    <3>6. run'["agent"].pc \notin {"idle", "down"} => run'["agent"].snap # None
      BY <1>0, <2>3, Zenon DEF Local
    <3> QED
      BY <1>2, <2>3, <3>3, <3>4, <3>5, <3>6, Zenon
  <2> QED
    BY <1>5, <2>2, <2>3, Zenon DEF Reconcile
<1>6. ASSUME NEW pc \in {"idle", "down"}, run' = [run EXCEPT !["agent"] = Resting(pc)]
      PROVE  /\ run' \in [Process -> Run] /\ \A q \in Process : q # "agent" => run'[q] = run[q]
             /\ run'["agent"].pc \in {"idle", "down"}
  BY <1>0, <1>1, <1>6, RestingRun DEF TypeOK
<1>7. CASE AgentStart
  <2>1. CASE marker \/ saved = None
    <3>1. run' = [run EXCEPT !["agent"] = Resting("idle")]
      BY <1>7, <2>1, Zenon DEF AgentStart
    <3>2. acked' \in Ack \cup {None} /\ crashes' \in 0..MaxCrash
      BY <1>7 DEF AgentStart, TypeOK, limits
    <3> QED
      BY <1>2, <1>6, <1>7, <3>1, <3>2, Zenon DEF AgentStart, limits
  <2>2. CASE ~(marker \/ saved = None)
    <3>1. saved.snap \in Snapshots
      BY <2>2 DEF TypeOK, Saved
    <3> QED
      BY <1>3, <1>7, <2>2, <3>1, Zenon DEF AgentStart
  <2> QED
    BY <2>1, <2>2, Zenon
<1>8. CASE AgentCrash
  <2>1. crashes' \in 0..MaxCrash
    BY <1>8, SnapshotsAssumption DEF AgentCrash, TypeOK
  <2> QED
    BY <1>2, <1>6, <1>8, <2>1, Zenon DEF AgentCrash
<1>9. CASE Reboot
  <2>1. /\ reboots' \in 0..MaxReboot /\ cli' = CliIdle /\ acked' = None /\ nft' = None /\ tc' = Original
        /\ UNCHANGED <<faults, files, marker, raced, crashes, commands>>
    BY <1>9, SnapshotsAssumption DEF Reboot, TypeOK
  <2>2. \A q \in Process : run'[q] \in Run /\ run'[q].pc \in {"idle", "down"}
    BY <1>1, <1>9, RestingRun, Zenon DEF Reboot
  <2>3. run' \in [Process -> Run]
    BY <1>9, <2>2, Zenon DEF Reboot
  <2>4. tc' \in Tree /\ nft' \in RuleSet
    BY <2>1, NoRules, TreeTypes, Zenon
  <2>5. TypeOK'
    BY <2>1, <2>3, <2>4, IdleCommand DEF TypeOK, files, RuleSet
  <2>6. Local'
    BY <2>1, <2>2, IdleCommand, Zenon DEF Local, Rebuilding
  <2> QED
    BY <2>5, <2>6, Zenon
<1> QED
  BY <1>4, <1>5, <1>7, <1>8, <1>9, Zenon

\* The commands keep the types.
LEMMA CommandTypes ==
  ASSUME TypeOK, Local, Command
  PROVE  TypeOK' /\ Local'
<1>0. "agent" \in Process /\ "resume" \in Process
  BY Zenon DEF Process
<1>1. /\ saved \in Saved \cup {None} /\ journal \in Journal \cup {None} /\ marker \in BOOLEAN
      /\ raced \in BOOLEAN /\ nft \in RuleSet /\ tc \in Tree /\ run \in [Process -> Run]
      /\ cli \in Cli /\ acked \in Ack \cup {None} /\ faults \in 0..MaxFault
      /\ crashes \in 0..MaxCrash /\ reboots \in 0..MaxReboot /\ commands \in 0..MaxCommand
  BY DEF TypeOK, RuleSet
<1>2. ASSUME saved' \in Saved \cup {None}, journal' \in Journal \cup {None}, marker' \in BOOLEAN,
             raced' \in BOOLEAN, nft' \in RuleSet, tc' \in Tree, run' = run,
             cli' \in Cli, acked' = acked, faults' \in 0..MaxFault,
             crashes' = crashes, reboots' = reboots, commands' \in 0..MaxCommand,
             cli'.pc \in {"restore", "persist"} => cli'.copy # None /\ cli'.copy.shape # None
      PROVE  TypeOK' /\ Local'
  <2>1. TypeOK'
    BY <1>1, <1>2 DEF TypeOK, RuleSet
  <2>2. Local'
    BY <1>2, Zenon DEF Local, CopyShape, Rebuilding
  <2> QED
    BY <2>1, <2>2, Zenon
<1>3. ASSUME Fault PROVE faults' \in 0..MaxFault
  BY <1>1, <1>3, FaultCount, Zenon
<1>4. ASSUME NEW c, FailsWhen(c) PROVE faults' \in 0..MaxFault
  BY <1>1, <1>3, <1>4, Zenon DEF FailsWhen
<1>5. ASSUME NEW pc \in CliPc, NEW done \in BOOLEAN
      PROVE  /\ [pc |-> pc, copy |-> None, done |-> done] \in Cli
             /\ [pc |-> pc, copy |-> None, done |-> done].pc = pc
  BY <1>5, Zenon DEF Cli
<1>6. ASSUME NEW pc \in CliPc
      PROVE  /\ [cli EXCEPT !.pc = pc] \in Cli /\ [cli EXCEPT !.pc = pc].pc = pc
             /\ [cli EXCEPT !.pc = pc].copy = cli.copy
  <2>1. [cli EXCEPT !.pc = pc] \in Cli
    BY <1>1, <1>6, Zenon DEF Cli
  <2> QED
    BY <1>1, <2>1, Zenon DEF Cli
<1>7. [CliIdle EXCEPT !.done = TRUE] \in Cli /\ [CliIdle EXCEPT !.done = TRUE].pc = "idle"
  <2>1. [CliIdle EXCEPT !.done = TRUE] \in Cli
    BY IdleCommand, Zenon DEF Cli
  <2> QED
    BY <2>1, IdleCommand, Zenon DEF Cli
<1>8. CASE Unlock
  <2>1. commands' \in 0..MaxCommand
    BY <1>1, <1>8, SnapshotsAssumption DEF Unlock
  <2>2. "load" \in CliPc
    BY Zenon DEF CliPc
  <2>3. cli' = [pc |-> "load", copy |-> None, done |-> FALSE]
    BY <1>8, Zenon DEF Unlock, CliIdle
  <2>4. cli' \in Cli /\ cli'.pc = "load"
    BY <1>5, <2>2, <2>3, Zenon
  <2>5. raced' \in BOOLEAN /\ marker' \in BOOLEAN
    BY <1>1, <1>8, Zenon DEF Unlock
  <2>6. UNCHANGED <<faults, saved, journal, nft, tc, run, acked, crashes, reboots>>
    BY <1>8, Zenon DEF Unlock, files, kernel
  <2> QED
    BY <1>1, <1>2, <2>1, <2>4, <2>5, <2>6, Zenon
<1>9. CASE UnlockLoad
  <2>1. UNCHANGED <<saved, journal, nft, tc, marker, run, acked, limits>>
    BY <1>9, Zenon DEF UnlockLoad, files, kernel
  <2>2. CASE cli' = [cli EXCEPT !.pc = "journal", !.copy = saved] /\ UNCHANGED faults
    <3>1. "journal" \in CliPc
      BY Zenon DEF CliPc
    <3>2. cli' \in Cli
      BY <1>1, <2>2, <3>1, Zenon DEF Cli
    <3>3. cli'.pc = "journal"
      BY <1>1, <2>2, Zenon DEF Cli
    <3> QED
      BY <1>1, <1>2, <2>1, <2>2, <3>2, <3>3, Zenon DEF limits
  <2>3. CASE Fault /\ cli' = CliIdle
    BY <1>1, <1>2, <1>3, <2>1, <2>3, IdleCommand, Zenon DEF limits
  <2> QED
    BY <1>9, <2>2, <2>3, Zenon DEF UnlockLoad
<1>10. CASE UnlockJournal
  <2>1. UNCHANGED <<saved, nft, tc, marker, run, acked, limits>>
    BY <1>10, Zenon DEF UnlockJournal, kernel
  <2>2. cli.copy \in Saved \cup {None}
    BY <1>1, Zenon DEF Cli
  <2>3. CopyShape \in Shapes \cup {None}
    BY <2>2, Zenon DEF CopyShape, Saved
  <2>4. [prev |-> CopyShape, next |-> None] \in Journal
    BY <2>3, Zenon DEF Journal
  <2>5. journal' \in Journal \cup {None}
    BY <1>1, <1>10, <2>4, Zenon DEF UnlockJournal, AfterFault
  <2>6. "nft" \in CliPc
    BY Zenon DEF CliPc
  <2>7. CASE cli' = [cli EXCEPT !.pc = "nft"] /\ UNCHANGED faults
    BY <1>1, <1>2, <1>6, <2>1, <2>5, <2>6, <2>7, Zenon DEF limits
  <2>8. CASE Fault /\ cli' = CliIdle
    BY <1>1, <1>2, <1>3, <2>1, <2>5, <2>8, IdleCommand, Zenon DEF limits
  <2> QED
    BY <1>10, <2>7, <2>8, Zenon DEF UnlockJournal
<1>11. CASE UnlockNft
  <2>1. UNCHANGED <<saved, journal, tc, marker, run, acked, limits>> /\ nft' \in RuleSet
    BY <1>1, <1>11, NoRules, Zenon DEF UnlockNft, files
  <2>2. "restore" \in CliPc
    BY Zenon DEF CliPc
  <2>3. CASE UnlockDone /\ UNCHANGED faults
    BY <1>1, <1>2, <1>7, <2>1, <2>3, Zenon DEF limits, UnlockDone
  <2>4. CASE CopyShape # None /\ cli' = [cli EXCEPT !.pc = "restore"] /\ UNCHANGED faults
    <3>1. cli' \in Cli /\ cli'.copy = cli.copy
      BY <1>6, <2>2, <2>4, Zenon
    <3>2. cli'.copy # None /\ cli'.copy.shape # None
      BY <2>4, <3>1, Zenon DEF CopyShape
    <3> QED
      BY <1>1, <1>2, <2>1, <2>4, <3>1, <3>2, Zenon DEF limits
  <2>5. CASE Fault /\ cli' = CliIdle
    BY <1>1, <1>2, <1>3, <2>1, <2>5, IdleCommand, Zenon DEF limits
  <2> QED
    BY <1>11, <2>3, <2>4, <2>5, Zenon DEF UnlockNft
<1>12. CASE UnlockRestore
  <2>1. UNCHANGED <<saved, journal, nft, marker, run, acked, limits>>
    BY <1>12, Zenon DEF UnlockRestore, files
  <2>2. tc' \in Tree
    BY <1>1, <1>12, TreeTypes, Zenon DEF UnlockRestore
  <2>3. "persist" \in CliPc
    BY Zenon DEF CliPc
  <2>4. CASE cli' = [cli EXCEPT !.pc = "persist"] /\ UNCHANGED faults
    <3>1. cli' \in Cli /\ cli'.copy = cli.copy
      BY <1>6, <2>3, <2>4, Zenon
    <3>2. cli'.copy # None /\ cli'.copy.shape # None
      BY <1>12, <3>1, Zenon DEF UnlockRestore, Local, CopyShape
    <3> QED
      BY <1>1, <1>2, <2>1, <2>2, <2>4, <3>1, <3>2, Zenon DEF limits
  <2>5. CASE FailsWhen(~VerifyOwned(CopyShape)) /\ cli' = CliIdle
    BY <1>1, <1>2, <1>4, <2>1, <2>2, <2>5, IdleCommand, Zenon DEF limits
  <2> QED
    BY <1>12, <2>4, <2>5, Zenon DEF UnlockRestore
<1>13. CASE UnlockPersist
  <2>1. UNCHANGED <<journal, nft, tc, marker, run, acked, limits>>
    BY <1>13, Zenon DEF UnlockPersist, kernel
  <2>2. cli.copy \in Saved
    BY <1>1, <1>13, Zenon DEF UnlockPersist, Local, CopyShape, Cli
  <2>3. [cli.copy EXCEPT !.shape = None] \in Saved
    BY <2>2, Zenon DEF Saved
  <2>4. saved' \in Saved \cup {None}
    BY <1>1, <1>13, <2>3, Zenon DEF UnlockPersist, AfterFault
  <2>5. "clear" \in CliPc
    BY Zenon DEF CliPc
  <2>6. CASE cli' = [cli EXCEPT !.pc = "clear"] /\ UNCHANGED faults
    BY <1>1, <1>2, <1>6, <2>1, <2>4, <2>5, <2>6, Zenon DEF limits
  <2>7. CASE Fault /\ cli' = CliIdle
    BY <1>1, <1>2, <1>3, <2>1, <2>4, <2>7, IdleCommand, Zenon DEF limits
  <2> QED
    BY <1>13, <2>6, <2>7, Zenon DEF UnlockPersist
<1>14. CASE UnlockClear
  <2>1. UNCHANGED <<saved, nft, tc, marker, run, acked, limits>>
    BY <1>14, Zenon DEF UnlockClear, kernel
  <2>2. journal' \in Journal \cup {None}
    BY <1>1, <1>14, Zenon DEF UnlockClear, AfterFault
  <2>3. CASE UnlockDone /\ UNCHANGED faults
    BY <1>1, <1>2, <1>7, <2>1, <2>2, <2>3, Zenon DEF limits, UnlockDone
  <2>4. CASE Fault /\ cli' = CliIdle
    BY <1>1, <1>2, <1>3, <2>1, <2>2, <2>4, IdleCommand, Zenon DEF limits
  <2> QED
    BY <1>14, <2>3, <2>4, Zenon DEF UnlockClear
<1>15. CASE Resume
  <2>1. /\ UNCHANGED <<faults, saved, journal, nft, tc, acked, crashes, reboots>>
        /\ marker' = FALSE /\ saved.snap \in Snapshots
    BY <1>1, <1>15, Zenon DEF Resume, files, kernel, Saved
  <2>2. commands' \in 0..MaxCommand
    BY <1>1, <1>15, SnapshotsAssumption DEF Resume
  <2>3. raced' \in BOOLEAN /\ marker' \in BOOLEAN
    BY <1>1, <1>15, Zenon DEF Resume
  <2>4. CASE cli' = CliIdle /\ UNCHANGED run
    BY <1>1, <1>2, <2>1, <2>2, <2>3, <2>4, IdleCommand, Zenon
  <2>5. CASE cli' = [CliIdle EXCEPT !.pc = "resume"] /\ StartRun("resume", saved.snap)
    <3>1. "resume" \in CliPc
      BY Zenon DEF CliPc
    <3>2. cli' \in Cli /\ cli'.pc = "resume"
      <4>1. cli' = [pc |-> "resume", copy |-> None, done |-> FALSE]
        BY <2>5, Zenon DEF CliIdle
      <4> QED
        BY <1>5, <3>1, <4>1, Zenon
    <3>3. /\ run' \in [Process -> Run] /\ \A q \in Process : q # "resume" => run'[q] = run[q]
          /\ run'["resume"].snap # None /\ run'["resume"].pc = "check"
      BY <1>0, <2>1, <2>5, Started, SnapshotsAssumption
    <3>4. TypeOK'
      BY <1>1, <2>1, <2>2, <2>3, <3>2, <3>3 DEF TypeOK, RuleSet
    <3>5. Local'
      BY <3>2, <3>3, Zenon DEF Local, Rebuilding
    <3> QED
      BY <3>4, <3>5, Zenon
  <2> QED
    BY <1>15, <2>4, <2>5, Zenon DEF Resume
<1> QED
  BY <1>8, <1>9, <1>10, <1>11, <1>12, <1>13, <1>14, <1>15, Zenon DEF Command

\* The first start of the Agent has the types.
LEMMA InitTypes ==
  ASSUME Init
  PROVE  TypeOK /\ Local
<1>1. "idle" \in Pc
  BY Zenon DEF Pc
<1>2. run \in [Process -> Run] /\ \A p \in Process : run[p].pc = "idle"
  BY <1>1, RestingRun, Zenon DEF Init
<1>3. nft \in RuleSet
  BY NoRules, Zenon DEF Init
<1>4. tc \in Tree
  BY TreeTypes, Zenon DEF Init
<1>5. /\ 0 \in 0..MaxFault /\ 0 \in 0..MaxCrash /\ 0 \in 0..MaxReboot /\ 0 \in 0..MaxCommand
  BY SnapshotsAssumption
<1>6. marker \in BOOLEAN /\ raced \in BOOLEAN /\ cli \in Cli
  BY IdleCommand, Zenon DEF Init
<1>7. TypeOK
  BY <1>2, <1>3, <1>4, <1>5, <1>6 DEF Init, TypeOK, RuleSet
<1>8. Local
  BY <1>2, IdleCommand, Zenon DEF Init, Local, Rebuilding
<1> QED
  BY <1>7, <1>8, Zenon

\* The shapes of the executor's state are kept by every step, whatever fails,
\* crashes or overlaps.
THEOREM TypeCorrect == Spec => []TypeOK
<1>1. Init => TypeOK /\ Local
  BY InitTypes, Zenon
<1>2. TypeOK /\ Local /\ [Next]_vars => TypeOK' /\ Local'
  <2> SUFFICES ASSUME TypeOK, Local, [Next]_vars PROVE TypeOK' /\ Local'
    OBVIOUS
  <2>1. CASE \E p \in Process : Step(p)
    BY <2>1, StepAdvances, AdvanceTypes, Zenon
  <2>2. CASE Receive \/ Reconcile \/ AgentStart \/ AgentCrash \/ Reboot
    BY <2>2, AgentTypes, Zenon
  <2>3. CASE Command
    BY <2>3, CommandTypes, Zenon
  <2>4. CASE UNCHANGED vars
    BY <2>4 DEF vars, TypeOK, Local, CopyShape, Rebuilding
  <2> QED
    BY <2>1, <2>2, <2>3, <2>4, Zenon DEF Next
<1> QED
  BY <1>1, <1>2, PTL DEF Spec

-----------------------------------------------------------------------------
(* Which processes and commands overlap.                                   *)

\* The processes, by name.
LEMMA Processes ==
  /\ "agent" \in Process /\ "resume" \in Process
  /\ \A p \in Process : p = "agent" \/ p = "resume"
BY Zenon DEF Process

\* The steps of a run keep the processes apart.
LEMMA StepExclusive ==
  ASSUME TypeOK, Local, Exclusive, NEW p \in Process, Step(p)
  PROVE  Exclusive'
<1>1. run[p].pc \notin {"idle", "down"} /\ Advance(p)
  BY StepAdvances, Zenon
<1>2. CliIdle.pc = "idle" /\ ~CliIdle.done /\ Resting("idle").pc = "idle"
  BY IdleCommand, Zenon DEF Resting
<1>3. LeftAlone' = LeftAlone
  BY <1>1, Zenon DEF Advance, LeftAlone
<1>4. CASE p = "resume"
  <2>1. /\ run'["agent"] = run["agent"] /\ cli.pc = "resume" /\ ~cli.done /\ acked' = acked
        /\ ~LeftAlone
    BY <1>1, <1>2, <1>4, Processes, Zenon DEF Advance, Exclusive
  <2>2. raced => raced'
    BY <1>1, <1>4, Zenon DEF Advance
  <2>3. AgentBusy' = AgentBusy
    BY <2>1, Zenon DEF AgentBusy
  <2>4. CASE run'[p] = Resting("idle") /\ cli' = CliIdle
    BY <1>2, <1>3, <1>4, <2>1, <2>2, <2>3, <2>4, Zenon DEF Exclusive
  <2>5. CASE run'[p].pc \in Pc \ {"idle", "down", "check"} /\ UNCHANGED <<cli, marker>>
    BY <1>3, <1>4, <2>1, <2>2, <2>3, <2>5, Zenon DEF Exclusive
  <2> QED
    BY <1>1, <1>4, <2>4, <2>5, Zenon DEF Advance
<1>5. CASE p = "agent"
  <2>1. run'["resume"] = run["resume"] /\ cli' = cli /\ marker' = marker
    BY <1>1, <1>5, Processes, Zenon DEF Advance
  <2>2. run'["agent"].pc # "down" /\ run["agent"].pc # "down"
    BY <1>1, <1>2, <1>5, Zenon DEF Advance
  <2>3. ASSUME ~raced', cli.pc # "idle" \/ (cli.done /\ marker) PROVE ~AgentBusy'
    <3>1. CASE run'["agent"] = Resting("idle")
      BY <1>2, <3>1, Zenon DEF AgentBusy
    <3>2. CASE run'["agent"] # Resting("idle") /\ raced' = raced /\ run["agent"].pc # "check"
      <4>1. AgentBusy
        BY <1>1, <1>5, <3>2, Zenon DEF AgentBusy
      <4> QED
        BY <2>3, <3>2, <4>1, Zenon DEF Exclusive
    <3>3. CASE ~marker /\ raced' = (raced \/ (p = "agent" /\ cli.pc # "idle"))
      BY <1>5, <2>3, <3>3, Zenon
    <3> QED
      BY <1>1, <1>5, <3>1, <3>2, <3>3, Zenon DEF Advance
  <2>4. ASSUME LeftAlone PROVE ~raced'
    <3>1. ~raced /\ cli = CliIdle
      BY <2>4, Zenon DEF Exclusive
    <3> QED
      BY <1>1, <1>2, <3>1, Zenon DEF Advance
  <2> QED
    BY <1>3, <2>1, <2>2, <2>3, <2>4, Zenon DEF Exclusive
<1> QED
  BY <1>4, <1>5, Processes, Zenon

\* So does what the Agent process does outside of a run.
LEMMA AgentExclusive ==
  ASSUME TypeOK, Local, Exclusive, Receive \/ Reconcile \/ AgentStart \/ AgentCrash \/ Reboot
  PROVE  Exclusive'
<1>1. /\ \A pc \in {"idle", "down", "check"} : Resting(pc).pc = pc
      /\ CliIdle.pc = "idle" /\ ~CliIdle.done
  BY IdleCommand, Zenon DEF Resting
<1>2. CASE Receive \/ Reconcile \/ AgentStart \/ AgentCrash
  <2>1. /\ UNCHANGED <<cli, marker, raced, reboots, commands>>
    BY <1>2, Zenon DEF Receive, Reconcile, AgentStart, AgentCrash, limits
  <2>2. LeftAlone' = LeftAlone
    BY <2>1, Zenon DEF LeftAlone
  <2>3. /\ run'["resume"] = run["resume"]
        /\ \/ run' = run /\ run["agent"].pc = "idle"
           \/ run'["agent"].pc = "check" /\ acked' = acked
           \/ run'["agent"].pc = "idle"
           \/ run'["agent"].pc = "down" /\ acked' = None
    <3>1. ASSUME NEW s \in Snapshots, StartRun("agent", s)
          PROVE  run'["resume"] = run["resume"] /\ run'["agent"].pc = "check"
      BY <3>1, Started, Processes
    <3>2. CASE Receive
      BY <3>1, <3>2, Zenon DEF Receive
    <3>3. CASE Reconcile
      <4>1. saved.snap \in Snapshots
        BY <3>3 DEF Reconcile, TypeOK, Saved
      <4> QED
        BY <3>1, <3>3, <4>1, Zenon DEF Reconcile
    <3>4. CASE AgentStart
      <4>1. CASE marker \/ saved = None
        BY <1>1, <3>4, <4>1, Processes DEF AgentStart, TypeOK
      <4>2. CASE ~(marker \/ saved = None)
        <5>1. saved.snap \in Snapshots
          BY <4>2 DEF TypeOK, Saved
        <5> QED
          BY <3>1, <3>4, <4>2, <5>1, Zenon DEF AgentStart
      <4> QED
        BY <4>1, <4>2, Zenon
    <3>5. CASE AgentCrash
      BY <1>1, <3>5, Processes DEF AgentCrash, TypeOK
    <3> QED
      BY <1>2, <3>2, <3>3, <3>4, <3>5, Zenon
  <2> QED
    BY <2>1, <2>2, <2>3, Zenon DEF Exclusive, AgentBusy
<1>3. CASE Reboot
  <2>1. run'["agent"].pc = "down" /\ run'["resume"].pc = "idle"
    BY <1>1, <1>3, Processes, Zenon DEF Reboot
  <2>2. cli' = CliIdle /\ acked' = None /\ reboots' = reboots + 1 /\ commands' = commands
    BY <1>3, Zenon DEF Reboot
  <2>3. ~LeftAlone'
    BY <2>2 DEF LeftAlone, TypeOK
  <2> QED
    BY <1>1, <2>1, <2>2, <2>3, Zenon DEF Exclusive
<1> QED
  BY <1>2, <1>3, Zenon

\* And so do the commands.
LEMMA CommandExclusive ==
  ASSUME TypeOK, Local, Exclusive, Command
  PROVE  Exclusive'
<1>1. CliIdle.pc = "idle" /\ ~CliIdle.done /\ cli \in Cli
  BY IdleCommand DEF TypeOK
<1>2. ASSUME UNCHANGED <<run, marker, acked, raced, reboots, commands>>,
             cli.pc \notin {"idle", "resume"}, marker,
             \/ cli'.pc \in CliPc \ {"idle", "resume"} /\ ~cli'.done
             \/ cli'.pc = "idle"
      PROVE  Exclusive'
  <2>1. ~LeftAlone /\ LeftAlone' = LeftAlone
    BY <1>1, <1>2, Zenon DEF Exclusive, LeftAlone
  <2>2. AgentBusy' = AgentBusy
    BY <1>2, Zenon DEF AgentBusy
  <2> QED
    BY <1>2, <2>1, <2>2, Zenon DEF Exclusive
<1>3. ASSUME cli.pc \in CliPc \ {"idle", "resume"} PROVE marker /\ ~cli.done
  BY <1>3, Zenon DEF Exclusive
<1>4. [CliIdle EXCEPT !.done = TRUE].pc = "idle"
  BY <1>1, IdleCommand, Zenon DEF Cli
<1>5. ASSUME NEW pc \in CliPc \ {"idle", "resume"}, cli' = [cli EXCEPT !.pc = pc], ~cli.done
      PROVE  cli'.pc \in CliPc \ {"idle", "resume"} /\ ~cli'.done
  BY <1>1, <1>5, Zenon DEF Cli
<1>6. {"load", "journal", "nft", "restore", "persist", "clear"} \subseteq CliPc \ {"idle", "resume"}
  BY Zenon DEF CliPc
<1>7. CASE Unlock
  <2>1. /\ cli.pc = "idle" /\ run["resume"].pc = "idle" /\ marker'
        /\ UNCHANGED <<run, acked, reboots>> /\ commands' = commands + 1
        /\ raced' = (raced \/ AgentBusy)
    BY <1>7, Zenon DEF Unlock, CliFree
  <2>2. cli'.pc = "load" /\ ~cli'.done
    BY <1>1, <1>7, IdleCommand, Zenon DEF Unlock, Cli
  <2>3. ~LeftAlone'
    BY <2>1 DEF LeftAlone, TypeOK
  <2>4. AgentBusy' = AgentBusy
    BY <2>1, Zenon DEF AgentBusy
  <2> QED
    BY <2>1, <2>2, <2>3, <2>4, Zenon DEF Exclusive
<1>8. CASE UnlockLoad
  <2>1. UNCHANGED <<run, marker, acked, raced, reboots, commands>> /\ cli.pc = "load"
    BY <1>8, Zenon DEF UnlockLoad, limits
  <2>2. cli' = [cli EXCEPT !.pc = "journal", !.copy = saved] \/ cli' = CliIdle
    BY <1>8, Zenon DEF UnlockLoad
  <2>3. \/ cli'.pc \in CliPc \ {"idle", "resume"} /\ ~cli'.done
        \/ cli'.pc = "idle"
    BY <1>1, <1>3, <1>6, <2>1, <2>2, Zenon DEF Cli
  <2> QED
    BY <1>2, <1>3, <1>6, <2>1, <2>3, Zenon
<1>9. ASSUME UNCHANGED <<run, marker, acked, raced, reboots, commands>>,
             cli.pc \in CliPc \ {"idle", "resume"},
             \/ \E pc \in CliPc \ {"idle", "resume"} : cli' = [cli EXCEPT !.pc = pc]
             \/ cli' = CliIdle \/ UnlockDone
      PROVE  Exclusive'
  <2>1. marker /\ ~cli.done
    BY <1>3, <1>9, Zenon
  <2>2. \/ cli'.pc \in CliPc \ {"idle", "resume"} /\ ~cli'.done
        \/ cli'.pc = "idle"
    BY <1>1, <1>4, <1>5, <1>9, <2>1, Zenon DEF UnlockDone
  <2> QED
    BY <1>2, <1>9, <2>1, <2>2, Zenon
<1>10. CASE UnlockJournal
  BY <1>6, <1>9, <1>10, Zenon DEF UnlockJournal, limits
<1>11. CASE UnlockNft
  BY <1>6, <1>9, <1>11, Zenon DEF UnlockNft, limits
<1>12. CASE UnlockRestore
  BY <1>6, <1>9, <1>12, Zenon DEF UnlockRestore, limits
<1>13. CASE UnlockPersist
  BY <1>6, <1>9, <1>13, Zenon DEF UnlockPersist, limits
<1>14. CASE UnlockClear
  BY <1>6, <1>9, <1>14, Zenon DEF UnlockClear, limits
<1>15. CASE Resume
  <2>1. /\ cli.pc = "idle" /\ run["resume"].pc = "idle" /\ ~marker'
        /\ UNCHANGED <<acked, reboots>> /\ commands' = commands + 1
        /\ raced' = (raced \/ AgentBusy) /\ saved.snap \in Snapshots
    BY <1>15 DEF Resume, CliFree, TypeOK, Saved
  <2>2. ~LeftAlone'
    BY <2>1 DEF LeftAlone, TypeOK
  <2>3. CASE cli' = CliIdle /\ UNCHANGED run
    BY <1>1, <2>1, <2>2, <2>3, Zenon DEF Exclusive
  <2>4. CASE cli' = [CliIdle EXCEPT !.pc = "resume"] /\ StartRun("resume", saved.snap)
    <3>1. cli'.pc = "resume" /\ ~cli'.done
      BY <1>1, <2>4, IdleCommand, Zenon DEF Cli
    <3>2. run'["agent"] = run["agent"] /\ run'["resume"].pc = "check"
      BY <2>1, <2>4, Started, Processes
    <3>3. AgentBusy' = AgentBusy
      BY <3>2, Zenon DEF AgentBusy
    <3> QED
      BY <2>1, <2>2, <3>1, <3>2, <3>3, Zenon DEF Exclusive
  <2> QED
    BY <1>15, <2>3, <2>4, Zenon DEF Resume
<1> QED
  BY <1>7, <1>8, <1>10, <1>11, <1>12, <1>13, <1>14, <1>15, Zenon DEF Command

-----------------------------------------------------------------------------
(* One run at a time: what its steps do to the files and the kernel.       *)

\* Calm and Steady, seen from the run of p when the others are quiet.
Calmly(p) ==
  (crashes = 0 /\ faults <= 1 /\ run[p].pc \in Quiet /\ SavedShape = None) => tc = Original

Sound(p) == Base /\ At(p) /\ Calmly(p) /\ Steady

\* What the steps of p leave alone, and the types they rely on.
Alone(p) ==
  /\ p \in Process /\ run[p].pc \notin {"idle", "down", "check"}
  /\ UNCHANGED <<crashes, reboots, commands>>
  /\ p = "agent" \/ ~LeftAlone
  /\ faults \in Nat /\ faults' \in Nat /\ crashes \in Nat /\ reboots \in Nat /\ commands \in Nat
  /\ run \in [Process -> Run] /\ journal \in Journal \cup {None}
  /\ saved \in Saved \cup {None} /\ saved' \in Saved \cup {None}
  /\ [prev |-> OldShape(p), next |-> NewShape(p)] \in Journal /\ NextState(p) \in Saved

\* LeftAlone and Undisturbed change only with the counters.
LEMMA Counters ==
  ASSUME NEW p, Alone(p)
  PROVE  LeftAlone' = LeftAlone /\ Undisturbed' = (LeftAlone /\ crashes = 0 /\ faults' <= 1)
BY Zenon DEF Alone, LeftAlone, Undisturbed

\* A run that ends leaves a sound state when files and kernel agree.
LEMMA EndSound ==
  ASSUME NEW p, Alone(p), run'[p] = Resting("idle"), Base',
         (crashes = 0 /\ faults' <= 1 /\ SavedShape' = None) => tc' = Original,
         (LeftAlone /\ crashes = 0 /\ faults' <= 1) =>
            /\ tc' = Exact(SavedShape') /\ (journal' # None => faults' >= 1)
            /\ nft' = SavedRules'
  PROVE  Sound(p)'
<1>1. run'[p].pc = "idle"
  BY DEF Resting
<1>2. At(p)'
  BY <1>1, Zenon DEF At, Rebuilding, RollingBack
<1>3. Calmly(p)'
  BY Zenon DEF Calmly, Alone
<1>4. Steady'
  BY <1>1, Counters, Zenon DEF Steady, Alone, Rebuilding, RollingBack
<1> QED
  BY <1>2, <1>3, <1>4, Zenon DEF Sound

\* While a run goes on from the state it loaded, that state is the saved one.
LEMMA OldIsSaved ==
  ASSUME NEW p, run[p].old = saved
  PROVE  OldShape(p) = SavedShape /\ OldRules(p) = SavedRules
BY Zenon DEF OldShape, SavedShape, OldRules, SavedRules

\* Every journal knows the untouched root, and the trees of its shapes.
LEMMA Known ==
  ASSUME NEW j, NEW sh, sh \in {j.prev, j.next}
  PROVE  Fits(Original, j) /\ Fits(Exact(sh), j) /\ Fits(Partial({sh}), j)
BY Zenon DEF Fits, Original, Exact, Partial

\* A step that fails has met a failure of its own when its condition holds.
LEMMA Failing ==
  ASSUME NEW c, FailsWhen(c), faults \in Nat
  PROVE  faults' \in {faults, faults + 1} /\ (~c => faults' = faults + 1)
BY Zenon DEF FailsWhen, Fault

\* Load keeps what it read.
LEMMA LoadSound ==
  ASSUME NEW p, Alone(p), Sound(p), Load(p)
  PROVE  Sound(p)'
<1>1. UNCHANGED <<saved, journal, nft, tc>> /\ SavedShape' = SavedShape /\ SavedRules' = SavedRules
  BY Zenon DEF Load, files, kernel, SavedShape, SavedRules
<1>2. Base'
  BY <1>1, Counters, Zenon DEF Base, Sound
<1>3. CASE run' = [run EXCEPT ![p].pc = "recover", ![p].old = saved] /\ UNCHANGED faults
  <2>1. run'[p].pc = "recover" /\ run'[p].old = saved /\ run'[p].wrote = run[p].wrote
    BY <1>3 DEF Alone, Run
  <2>2. At(p)'
    BY <1>1, <2>1, Zenon DEF At, Rebuilding, RollingBack, Sound, Load
  <2>3. Calmly(p)'
    BY <1>1, <1>3, Zenon DEF Calmly, Alone, Sound, Load, Quiet
  <2>4. Steady'
    BY <1>1, <1>3, <2>1, Counters, Zenon DEF Steady, Alone, Rebuilding, RollingBack, Sound, Load, Quiet, Undisturbed
  <2> QED
    BY <1>2, <2>2, <2>3, <2>4, Zenon DEF Sound
<1>4. CASE Fault /\ Finish(p, "failed")
  <2>1. run'[p] = Resting("idle") /\ faults' = faults + 1
    BY <1>4, Zenon DEF Finish, Fault, Alone
  <2> QED
    BY <1>1, <1>2, <2>1, EndSound DEF Sound, Calmly, Steady, Quiet, Load, Alone, Undisturbed, Rebuilding, RollingBack
<1> QED
  BY <1>3, <1>4, Zenon DEF Load

\* recover_journal starts from a journal that names the saved shape.
LEMMA BeginSound ==
  ASSUME NEW p, Alone(p), Sound(p), NEW after, BeginRecovery(p, after),
         UNCHANGED <<saved, journal, nft, faults>>, journal # None, run[p].old = saved,
         \/ after = "prepare" /\ run[p].pc = "recover"
         \/ after = "undonft" /\ run[p].pc = "undo"
  PROVE  Sound(p)'
<1>1. SavedShape' = SavedShape /\ SavedRules' = SavedRules /\ SavedShape \in {journal.prev, journal.next}
  BY Zenon DEF SavedShape, SavedRules, Sound, Base
<1>2. /\ run'[p].pc = "reapply" /\ run'[p].after = after /\ run'[p].old = saved
      /\ run'[p].target = SavedShape /\ run'[p].wrote = run[p].wrote /\ tc' = Original
  BY <1>1, OldIsSaved DEF BeginRecovery, Alone, Run
<1>3. Fits(Original, journal)
  BY <1>1, Known, Zenon
<1>4. Base'
  BY <1>1, <1>2, <1>3, Zenon DEF Base
<1>5. RollingBack(p) \/ (after = "prepare" /\ ~run[p].wrote)
  BY Zenon DEF RollingBack, Sound, At
<1>6. At(p)'
  BY <1>1, <1>2, <1>5, Zenon DEF At, Rebuilding, RollingBack, Sound
<1>7. Calmly(p)'
  BY <1>2, Zenon DEF Calmly, Quiet
<1>8. ASSUME Undisturbed' PROVE p = "agent" /\ faults >= 1 /\ (after = "prepare" => nft = SavedRules)
  <2>1. Undisturbed /\ p = "agent"
    BY <1>8, Counters, Zenon DEF Undisturbed, Alone
  <2> QED
    BY <2>1, <1>5, Zenon DEF Steady, Sound, At, RollingBack, Rebuilding, Quiet
<1>9. Steady'
  <2> SUFFICES ASSUME Undisturbed'
               PROVE  /\ run'["agent"].pc # "down" /\ run'["agent"].pc \notin Quiet
                      /\ Rebuilding("agent")' => faults' >= 1
                      /\ run'["agent"].pc \notin {"tc", "tcdone", "persist"}
                      /\ ~RollingBack("agent")' => nft' = SavedRules'
    BY Zenon DEF Steady
  <2> QED
    BY <1>1, <1>2, <1>8, Zenon DEF Rebuilding, RollingBack, Quiet
<1> QED
  BY <1>4, <1>6, <1>7, <1>9, Zenon DEF Sound

\* recover_journal at the start of a run.
LEMMA RecoverSound ==
  ASSUME NEW p, Alone(p), Sound(p), Recover(p)
  PROVE  Sound(p)'
<1>1. /\ UNCHANGED <<saved, journal, nft>> /\ run[p].pc = "recover" /\ run[p].old = saved
      /\ ~run[p].wrote
  BY Zenon DEF Recover, files, Sound, At
<1>2. SavedShape' = SavedShape /\ SavedRules' = SavedRules
  BY <1>1, Zenon DEF SavedShape, SavedRules
<1>3. CASE journal = None /\ Goto(p, "prepare") /\ UNCHANGED <<faults, tc>>
  <2>1. run'[p].pc = "prepare" /\ run'[p].old = saved /\ ~run'[p].wrote
    BY <1>1, <1>3 DEF Goto, Alone, Run
  <2>2. Base'
    BY <1>1, <1>2, <1>3, Counters, Zenon DEF Base, Sound
  <2>3. At(p)'
    BY <1>1, <1>2, <1>3, <2>1, Zenon DEF At, Rebuilding, RollingBack
  <2>4. Calmly(p)'
    BY <2>1, Zenon DEF Calmly, Quiet
  <2>5. Steady'
    BY <1>1, <1>2, <1>3, <2>1, Counters, Zenon
       DEF Steady, Alone, Rebuilding, RollingBack, Sound, Quiet, Undisturbed
  <2> QED
    BY <2>2, <2>3, <2>4, <2>5, Zenon DEF Sound
<1>4. CASE journal # None /\ BeginRecovery(p, "prepare") /\ UNCHANGED faults
  BY <1>1, <1>4, BeginSound, ZenonT(30)
<1>5. CASE FailsWhen(~Restorable(journal)) /\ Finish(p, "failed") /\ UNCHANGED tc
  <2>1. run'[p] = Resting("idle") /\ faults' \in {faults, faults + 1}
    BY <1>5, Failing, Zenon DEF Finish, Alone
  <2>2. Base'
    BY <1>1, <1>2, <1>5, Counters, Zenon DEF Base, Sound
  <2> QED
    BY <1>1, <1>2, <1>5, <2>1, <2>2, EndSound
       DEF Sound, Calmly, Steady, Quiet, Alone, Undisturbed, Rebuilding, RollingBack
<1> QED
  BY <1>3, <1>4, <1>5, Zenon DEF Recover

\* A recovery that fails half way leaves a tree the journal knows.
LEMMA RecoveryFailedSound ==
  ASSUME NEW p, Alone(p), Sound(p), Local, Rebuilding(p), RecoveryFailed(p),
         UNCHANGED <<saved, journal, nft>>, faults' = faults + 1,
         tc' = tc \/ (run[p].pc = "settle" /\ tc' = Exact(SavedShape))
  PROVE  Sound(p)'
<1>1. /\ SavedShape' = SavedShape /\ SavedRules' = SavedRules /\ journal # None
      /\ SavedShape \in {journal.prev, journal.next}
      /\ run[p].target = SavedShape /\ run[p].old = saved
  BY Zenon DEF SavedShape, SavedRules, Sound, At, Rebuilding, Base
<1>2. Fits(tc', journal)
  BY <1>1, Known, Zenon DEF Sound, At, Rebuilding
<1>3. Base'
  BY <1>1, <1>2, Zenon DEF Base
<1>4. SavedShape = None => tc' = Original
  BY <1>1, Zenon DEF Sound, At, Rebuilding, Exact
<1>5. ~(LeftAlone /\ crashes = 0 /\ faults' <= 1)
  BY DEF Sound, Steady, Alone, Undisturbed, Rebuilding
<1>6. CASE run[p].after = "prepare"
  <2>1. run'[p] = Resting("idle")
    BY <1>6, Zenon DEF RecoveryFailed, Finish, Alone
  <2> QED
    BY <1>1, <1>3, <1>4, <1>5, <2>1, EndSound, Zenon
<1>7. CASE run[p].after = "undonft"
  <2>1. run'[p].pc = "undonft" /\ ~run'[p].wrote /\ run'[p].old = saved
    BY <1>1, <1>7 DEF RecoveryFailed, Alone, Run
  <2>2. faults >= 1
    BY <1>7, Zenon DEF Sound, At, RollingBack
  <2>3. At(p)'
    BY <1>1, <2>1, <2>2 DEF At, Rebuilding, RollingBack, Alone
  <2>4. Calmly(p)'
    BY <2>1, Zenon DEF Calmly, Quiet
  <2>5. Steady'
    BY <1>5, Counters, Zenon DEF Steady
  <2> QED
    BY <1>3, <2>3, <2>4, <2>5, Zenon DEF Sound
<1> QED
  BY <1>6, <1>7, Zenon DEF Local, Alone

\* apply of the tree the saved state describes, onto the original root.
LEMMA ReapplySound ==
  ASSUME NEW p, Alone(p), Sound(p), Local, Reapply(p)
  PROVE  Sound(p)'
<1>1. /\ UNCHANGED <<saved, journal, nft>> /\ run[p].pc = "reapply" /\ Rebuilding(p)
      /\ run[p].old = saved /\ tc = Original /\ journal # None /\ run[p].target = SavedShape
      /\ run[p].after = "prepare" => ~run[p].wrote
  BY Zenon DEF Reapply, files, Sound, At, Rebuilding
<1>2. /\ SavedShape' = SavedShape /\ SavedRules' = SavedRules
      /\ SavedShape \in {journal.prev, journal.next}
  BY <1>1, Zenon DEF SavedShape, SavedRules, Sound, Base
<1>3. CASE /\ tc' = (IF run[p].target = None THEN tc ELSE Partial({run[p].target}))
           /\ Goto(p, "settle") /\ UNCHANGED faults
  <2>1. /\ run'[p].pc = "settle" /\ run'[p].old = saved /\ run'[p].wrote = run[p].wrote
        /\ run'[p].target = run[p].target /\ run'[p].after = run[p].after
    BY <1>1, <1>3 DEF Goto, Alone, Run
  <2>2. Fits(tc', journal)
    BY <1>1, <1>2, <1>3, Known, Zenon
  <2>3. Base'
    BY <1>1, <1>2, <2>2, Zenon DEF Base
  <2>4. At(p)'
    BY <1>1, <1>2, <1>3, <2>1, Zenon DEF At, Rebuilding, RollingBack, Sound
  <2>5. Calmly(p)'
    BY <2>1, Zenon DEF Calmly, Quiet
  <2>6. Steady'
    BY <1>1, <1>2, <1>3, <2>1, Counters, Zenon
       DEF Steady, Alone, Rebuilding, RollingBack, Sound, Quiet, Undisturbed
  <2> QED
    BY <2>3, <2>4, <2>5, <2>6, Zenon DEF Sound
<1>4. CASE /\ FailsWhen(run[p].target # None /\ tc # Original)
           /\ RecoveryFailed(p) /\ UNCHANGED tc
  <2>1. faults' = faults + 1
    BY <1>1, <1>4, Failing, Zenon DEF Alone
  <2> QED
    BY <1>1, <1>4, <2>1, RecoveryFailedSound, Zenon
<1> QED
  BY <1>3, <1>4, Zenon DEF Reapply

\* The tree is complete: the journal goes, and the run goes on.
LEMMA SettleSound ==
  ASSUME NEW p, Alone(p), Sound(p), Local, ~SyncFaults, Settle(p)
  PROVE  Sound(p)'
<1> DEFINE expected == IF run[p].target = None THEN Original ELSE Partial({run[p].target})
<1>1. /\ UNCHANGED <<saved, nft>> /\ run[p].pc = "settle" /\ Rebuilding(p)
      /\ run[p].old = saved /\ tc = expected /\ run[p].target = SavedShape
      /\ run[p].after = "prepare" => ~run[p].wrote
      /\ run[p].after \in {"prepare", "undonft"}
  BY Zenon DEF Settle, Sound, At, Rebuilding, Local, Alone
<1>2. SavedShape' = SavedShape /\ SavedRules' = SavedRules
  BY <1>1, Zenon DEF SavedShape, SavedRules
<1>3. CASE /\ tc' = Exact(run[p].target) /\ journal' = None
           /\ Goto(p, run[p].after) /\ UNCHANGED faults
  <2>1. /\ run'[p].pc = run[p].after /\ run'[p].old = saved /\ run'[p].wrote = run[p].wrote
    BY <1>1, <1>3 DEF Goto, Alone, Run
  <2>2. Base'
    BY <1>1, <1>2, <1>3, Zenon DEF Base
  <2>3. At(p)'
    BY <1>1, <1>2, <1>3, <2>1, Zenon DEF At, Rebuilding, RollingBack, Sound
  <2>4. Calmly(p)'
    BY <1>1, <2>1, Zenon DEF Calmly, Quiet
  <2>5. Steady'
    BY <1>1, <1>2, <1>3, <2>1, Counters, Zenon
       DEF Steady, Alone, Rebuilding, RollingBack, Sound, Quiet, Undisturbed
  <2> QED
    BY <2>2, <2>3, <2>4, <2>5, Zenon DEF Sound
<1>4. CASE /\ FailsWhen(tc # expected)
           /\ \/ tc' = tc /\ UNCHANGED journal
              \/ /\ tc = expected /\ tc' = Exact(run[p].target)
                 /\ journal' \in AfterFault(journal, None)
           /\ RecoveryFailed(p)
  <2>1. faults' = faults + 1
    BY <1>1, <1>4, Failing, Zenon DEF Alone
  <2>2. UNCHANGED journal
    BY <1>4, Zenon DEF AfterFault
  <2> QED
    BY <1>1, <1>4, <2>1, <2>2, RecoveryFailedSound, Zenon
<1> QED
  BY <1>3, <1>4, Zenon DEF Settle

\* prepare_state and the revision check change nothing.
LEMMA PrepareSound ==
  ASSUME NEW p, Alone(p), Sound(p), Prepare(p)
  PROVE  Sound(p)'
<1>1. /\ UNCHANGED <<saved, journal, nft, tc>> /\ run[p].pc = "prepare"
      /\ run[p].old = saved /\ ~run[p].wrote /\ journal = None
  BY Zenon DEF Prepare, files, kernel, Sound, At
<1>2. SavedShape' = SavedShape /\ SavedRules' = SavedRules /\ Exact(None) = Original
  BY <1>1, Zenon DEF SavedShape, SavedRules, Exact
<1>3. tc = Exact(SavedShape) \/ (tc = Original /\ ~LeftAlone)
  BY <1>1, Zenon DEF Sound, Base
<1>4. Base'
  BY <1>1, <1>2, Counters, Zenon DEF Base, Sound
<1>5. CASE Prepared(p) /\ Goto(p, "journal") /\ UNCHANGED faults
  <2>1. run'[p].pc = "journal" /\ run'[p].old = saved /\ ~run'[p].wrote
    BY <1>1, <1>5, Zenon DEF Goto, Alone, Run
  <2>2. tc = Exact(SavedShape)
    BY <1>1, <1>2, <1>3, <1>5, OldIsSaved, Zenon DEF Prepared, VerifyOwned
  <2>3. At(p)'
    BY <1>1, <1>2, <2>1, <2>2, Zenon DEF At, Rebuilding, RollingBack
  <2>4. Calmly(p)'
    BY <2>1, Zenon DEF Calmly, Quiet
  <2>5. Steady'
    BY <1>1, <1>2, <1>5, <2>1, Counters, Zenon
       DEF Steady, Alone, Rebuilding, RollingBack, Sound, Quiet, Undisturbed
  <2> QED
    BY <1>4, <2>3, <2>4, <2>5, Zenon DEF Sound
<1>6. CASE FailsWhen(~Prepared(p)) /\ Finish(p, "failed")
  <2>1. run'[p] = Resting("idle") /\ faults' \in {faults, faults + 1}
    BY <1>6, Failing, Zenon DEF Finish, Alone
  <2>2. (LeftAlone /\ crashes = 0 /\ faults' <= 1) => nft = SavedRules
    BY <1>1, <2>1 DEF Sound, Steady, Alone, Undisturbed, Rebuilding, RollingBack
  <2> QED
    BY <1>1, <1>2, <1>3, <1>4, <2>1, <2>2, EndSound, Zenon
<1> QED
  BY <1>5, <1>6, Zenon DEF Prepare

\* The plan of a run depends on its snapshot only.
LEMMA PlanKept ==
  ASSUME NEW p, run'[p].snap = run[p].snap, run'[p].limit = run[p].limit,
         run'[p].old = run[p].old
  PROVE  /\ NewShape(p)' = NewShape(p) /\ OldShape(p)' = OldShape(p)
         /\ NewRules(p)' = NewRules(p) /\ NextState(p)' = NextState(p)
         /\ ShapeChanged(p)' = ShapeChanged(p)
BY Zenon DEF NewShape, OldShape, NewRules, NextState, ShapeChanged

\* The journal is written before the shape is changed.
LEMMA WriteJournalSound ==
  ASSUME NEW p, Alone(p), Sound(p), ~SyncFaults, WriteJournal(p)
  PROVE  Sound(p)'
<1>1. /\ UNCHANGED <<saved, nft, tc>> /\ run[p].pc = "journal"
      /\ run[p].old = saved /\ ~run[p].wrote /\ journal = None /\ tc = Exact(SavedShape)
  BY Zenon DEF WriteJournal, kernel, Sound, At
<1>2. SavedShape' = SavedShape /\ SavedRules' = SavedRules /\ Exact(None) = Original
  BY <1>1, Zenon DEF SavedShape, SavedRules, Exact
<1>3. ASSUME Undisturbed, p = "agent" PROVE nft = SavedRules
  BY <1>1, <1>3, Zenon DEF Sound, Steady, Rebuilding, RollingBack
<1>4. ASSUME run'[p].pc = "nft", run'[p].old = saved, Base', Journalled(p)', UNCHANGED faults
      PROVE  Sound(p)'
  <2>1. At(p)'
    BY <1>1, <1>2, <1>4, Zenon DEF At, Rebuilding, RollingBack
  <2>2. Calmly(p)'
    BY <1>4, Zenon DEF Calmly, Quiet
  <2>3. Steady'
    BY <1>1, <1>2, <1>3, <1>4, Counters, Zenon DEF Steady, Alone, Rebuilding, RollingBack, Quiet, Undisturbed
  <2> QED
    BY <1>4, <2>1, <2>2, <2>3, Zenon DEF Sound
<1>5. CASE /\ ShapeChanged(p) /\ journal' = [prev |-> OldShape(p), next |-> NewShape(p)]
           /\ run' = [run EXCEPT ![p].pc = "nft", ![p].wrote = TRUE] /\ UNCHANGED faults
  <2>1. run'[p] = [run[p] EXCEPT !.pc = "nft", !.wrote = TRUE] /\ run[p] \in Run
    BY <1>5, Zenon DEF Alone
  <2>2. /\ run'[p].pc = "nft" /\ run'[p].old = saved /\ run'[p].old = run[p].old
        /\ run'[p].snap = run[p].snap /\ run'[p].limit = run[p].limit /\ run'[p].wrote
    BY <1>1, <2>1, Zenon DEF Run
  <2>3. Journalled(p)'
    BY <1>5, <2>2, PlanKept, Zenon DEF Journalled
  <2>4. Base'
    BY <1>1, <1>2, <1>5, OldIsSaved, Zenon DEF Base
  <2> QED
    BY <1>4, <1>5, <2>2, <2>3, <2>4, Zenon
<1>6. CASE ~ShapeChanged(p) /\ Goto(p, "nft") /\ UNCHANGED <<faults, journal>>
  <2>1. /\ run'[p].pc = "nft" /\ run'[p].old = saved /\ run'[p].old = run[p].old
        /\ run'[p].snap = run[p].snap /\ run'[p].limit = run[p].limit /\ ~run'[p].wrote
    BY <1>1, <1>6 DEF Goto, Alone, Run
  <2>2. Journalled(p)'
    BY <1>1, <1>6, <2>1, PlanKept, Zenon DEF Journalled
  <2>3. Base'
    BY <1>1, <1>2, <1>6, Zenon DEF Base
  <2> QED
    BY <1>4, <1>6, <2>1, <2>2, <2>3, Zenon
<1>7. CASE /\ Fault /\ Finish(p, "failed")
           /\ journal' \in AfterFault(journal, [prev |-> OldShape(p), next |-> NewShape(p)])
  <2>1. run'[p] = Resting("idle") /\ faults' = faults + 1 /\ journal' = None
    BY <1>1, <1>7, Zenon DEF Finish, Alone, Fault, AfterFault
  <2>2. Base'
    BY <1>1, <1>2, <2>1, Zenon DEF Base
  <2>3. (LeftAlone /\ crashes = 0 /\ faults' <= 1) => nft = SavedRules
    BY <1>3, <2>1 DEF Alone, Undisturbed
  <2> QED
    BY <1>1, <1>2, <2>1, <2>2, <2>3, EndSound, Zenon
<1> QED
  BY <1>5, <1>6, <1>7, Zenon DEF WriteJournal

\* The table is replaced; a failure leaves the one of the saved state.
LEMMA ReplaceNftSound ==
  ASSUME NEW p, Alone(p), Sound(p), ReplaceNft(p)
  PROVE  Sound(p)'
<1>1. /\ UNCHANGED <<saved, tc>> /\ run[p].pc = "nft"
      /\ run[p].old = saved /\ Journalled(p) /\ tc = Exact(SavedShape)
  BY Zenon DEF ReplaceNft, Sound, At
<1>2. SavedShape' = SavedShape /\ SavedRules' = SavedRules /\ Exact(None) = Original
  BY <1>1, Zenon DEF SavedShape, SavedRules, Exact
<1>3. ASSUME Undisturbed, p = "agent" PROVE nft = SavedRules
  BY <1>1, <1>3, Zenon DEF Sound, Steady, Rebuilding, RollingBack
<1>4. CASE /\ nft' = (IF NewRules(p) # None /\ SameConfiguration(p) /\ nft # None
                      THEN nft ELSE NewRules(p))
           /\ Goto(p, "tc") /\ UNCHANGED <<faults, journal>>
  <2>1. /\ run'[p].pc = "tc" /\ run'[p].old = saved /\ run'[p].old = run[p].old
        /\ run'[p].snap = run[p].snap /\ run'[p].limit = run[p].limit
        /\ run'[p].wrote = run[p].wrote
    BY <1>1, <1>4 DEF Goto, Alone, Run
  <2>2. Journalled(p)'
    BY <1>1, <1>4, <2>1, PlanKept, Zenon DEF Journalled
  <2>3. Base'
    BY <1>1, <1>2, <1>4, Counters, Zenon DEF Base, Sound
  <2>4. At(p)'
    BY <1>1, <1>2, <2>1, <2>2, Zenon DEF At, Rebuilding, RollingBack
  <2>5. Calmly(p)'
    BY <2>1, Zenon DEF Calmly, Quiet
  <2>6. SameConfiguration(p) => SavedRules = NewRules(p)
    BY <1>1, OldIsSaved, Zenon DEF SameConfiguration, SavedRules, NewRules, ShapeChanged, SavedShape
  <2>7. Undisturbed /\ p = "agent" => nft' = NewRules(p)
    BY <1>3, <1>4, <2>6, Zenon
  <2>8. Steady'
    BY <1>4, <2>1, <2>7, Counters, PlanKept, Zenon
       DEF Steady, Alone, Rebuilding, RollingBack, Quiet, Undisturbed
  <2> QED
    BY <2>3, <2>4, <2>5, <2>8, Zenon DEF Sound
<1>5. CASE /\ Fault /\ nft' \in {nft, OldRules(p)}
           /\ journal' \in {journal} \cup (IF run[p].wrote THEN {None} ELSE {})
           /\ Finish(p, "failed")
  <2>1. run'[p] = Resting("idle") /\ faults' = faults + 1 /\ journal' \in {journal, None}
    BY <1>1, <1>5, Zenon DEF Finish, Alone, Fault
  <2>2. Base'
    BY <1>1, <1>2, <2>1, Zenon DEF Base, Sound
  <2>3. (LeftAlone /\ crashes = 0 /\ faults' <= 1) => nft' = SavedRules
    BY <1>1, <1>3, <1>5, <2>1, OldIsSaved DEF Alone, Undisturbed
  <2>4. faults' >= 1
    BY <2>1 DEF Alone
  <2> QED
    BY <1>1, <1>2, <2>1, <2>2, <2>3, <2>4, EndSound, Zenon
<1> QED
  BY <1>4, <1>5, Zenon DEF ReplaceNft

\* The journal a run writes is there, and names the two shapes of its plan.
LEMMA JournalOfPlan ==
  ASSUME NEW p, Alone(p), journal = [prev |-> OldShape(p), next |-> NewShape(p)]
  PROVE  journal # None /\ journal.prev = OldShape(p) /\ journal.next = NewShape(p)
<1>1. journal \in Journal
  BY Zenon DEF Alone
<1>2. journal # None
  BY <1>1, NoneAssumption, Zenon
<1> QED
  BY <1>2, Zenon

\* A failing change of the tree turns the run back to what its journal knows.
LEMMA TurnBack ==
  ASSUME NEW p, Alone(p), Sound(p), Goto(p, "undo"), UNCHANGED <<saved, journal>>,
         run[p].old = saved, run[p].wrote,
         journal = [prev |-> OldShape(p), next |-> NewShape(p)],
         Fits(tc', journal), faults' = faults + 1
  PROVE  Sound(p)'
<1>1. /\ run'[p].pc = "undo" /\ run'[p].old = saved /\ run'[p].old = run[p].old
      /\ run'[p].snap = run[p].snap /\ run'[p].limit = run[p].limit /\ run'[p].wrote
  BY Zenon DEF Goto, Alone, Run
<1>2. SavedShape' = SavedShape /\ SavedShape = journal.prev /\ journal # None
  BY OldIsSaved, JournalOfPlan, Zenon DEF SavedShape
<1>3. Base'
  BY <1>2, Zenon DEF Base
<1>4. faults' >= 1
  BY DEF Alone
<1>5. At(p)'
  BY <1>1, <1>4, PlanKept, Zenon DEF At, Rebuilding, RollingBack
<1>6. Calmly(p)'
  BY <1>1, Zenon DEF Calmly, Quiet
<1>7. Steady'
  BY <1>1, Counters, Zenon DEF Steady, Alone, Rebuilding, RollingBack, Quiet
<1> QED
  BY <1>3, <1>5, <1>6, <1>7, Zenon DEF Sound

\* The tree has become the one of the plan.
LEMMA Reshaped ==
  ASSUME NEW p, Alone(p), Sound(p), Goto(p, "persist"), UNCHANGED <<saved, journal, nft, faults>>,
         run[p].pc \in {"tc", "tcdone"}, tc' = Exact(NewShape(p))
  PROVE  Sound(p)'
<1>1. /\ run'[p].pc = "persist" /\ run'[p].old = run[p].old /\ run'[p].wrote = run[p].wrote
      /\ run'[p].snap = run[p].snap /\ run'[p].limit = run[p].limit
      /\ run[p].old = saved /\ Journalled(p)
  BY DEF Goto, Alone, Run, Sound, At
<1>2. SavedShape' = SavedShape /\ SavedShape = OldShape(p)
  BY <1>1, OldIsSaved, Zenon DEF SavedShape
<1>3. ASSUME run[p].wrote PROVE Base'
  <2>1. journal # None /\ journal.prev = SavedShape /\ journal.next = NewShape(p)
    BY <1>1, <1>2, <1>3, JournalOfPlan, Zenon DEF Journalled
  <2>2. Fits(tc', journal)
    BY <2>1, Known, Zenon
  <2> QED
    BY <1>2, <2>1, <2>2, Zenon DEF Base
<1>4. ASSUME ~run[p].wrote PROVE Base'
  BY <1>1, <1>2, <1>4, Zenon DEF Base, Journalled, ShapeChanged
<1>5. At(p)'
  BY <1>1, PlanKept, Zenon DEF At, Rebuilding, RollingBack, Journalled
<1>6. Calmly(p)'
  BY <1>1, Zenon DEF Calmly, Quiet
<1>7. Steady'
  BY <1>1, Counters, PlanKept, Zenon DEF Steady, Alone, Rebuilding, RollingBack, Quiet, Sound, Undisturbed
<1> QED
  BY <1>3, <1>4, <1>5, <1>6, <1>7, Zenon DEF Sound

\* Whatever a failing apply put back itself, the journal knows it.
LEMMA RolledBackFits ==
  ASSUME NEW p, NEW t \in RolledBack(p), NEW j, j = [prev |-> OldShape(p), next |-> NewShape(p)],
         Fits(tc, j)
  PROVE  Fits(t, j)
BY Known, Zenon DEF RolledBack

\* qdisc::apply changes the tree under its journal.
LEMMA ApplyTcSound ==
  ASSUME NEW p, Alone(p), Sound(p), ApplyTc(p)
  PROVE  Sound(p)'
<1>1. /\ UNCHANGED <<saved, journal, nft>> /\ run[p].pc = "tc"
      /\ run[p].old = saved /\ Journalled(p) /\ tc = Exact(SavedShape)
      /\ SavedShape = OldShape(p) /\ VerifyOwned(OldShape(p))
  BY OldIsSaved, Zenon DEF ApplyTc, Sound, At, files, VerifyOwned
<1>2. CASE ~ShapeChanged(p) /\ Goto(p, "persist") /\ UNCHANGED <<faults, tc>>
  BY <1>1, <1>2, Reshaped, Zenon DEF ShapeChanged
<1>3. ASSUME ShapeChanged(p)
      PROVE  /\ run[p].wrote /\ journal = [prev |-> OldShape(p), next |-> NewShape(p)]
             /\ journal # None /\ journal.prev = OldShape(p) /\ journal.next = NewShape(p)
  BY <1>1, <1>3, JournalOfPlan, Zenon DEF Journalled
<1>4. CASE /\ ShapeChanged(p) /\ UNCHANGED faults /\ NewShape(p) = None
           /\ tc' = Original /\ Goto(p, "persist")
  BY <1>1, <1>4, Reshaped, Zenon DEF Exact
<1>5. CASE /\ ShapeChanged(p) /\ UNCHANGED faults
           /\ tc' = Partial({OldShape(p), NewShape(p)}) /\ Goto(p, "tcdone")
  <2>1. /\ run'[p].pc = "tcdone" /\ run'[p].old = run[p].old /\ run'[p].wrote = run[p].wrote
        /\ run'[p].snap = run[p].snap /\ run'[p].limit = run[p].limit
    BY <1>5 DEF Goto, Alone, Run
  <2>2. Fits(tc', journal)
    BY <1>3, <1>5, Trees, Zenon
  <2>3. SavedShape' = SavedShape
    BY <1>1, Zenon DEF SavedShape
  <2>4. Base'
    BY <1>1, <1>3, <1>5, <2>2, <2>3, Zenon DEF Base
  <2>5. At(p)'
    BY <1>1, <1>3, <1>5, <2>1, PlanKept, Zenon DEF At, Rebuilding, RollingBack, Journalled
  <2>6. Calmly(p)'
    BY <2>1, Zenon DEF Calmly, Quiet
  <2>7. Steady'
    BY <1>1, <1>5, <2>1, Counters, PlanKept, Zenon DEF Steady, Alone, Rebuilding, RollingBack, Quiet, Sound, Undisturbed
  <2> QED
    BY <2>4, <2>5, <2>6, <2>7, Zenon DEF Sound
<1>6. CASE /\ ShapeChanged(p) /\ FailsWhen(~VerifyOwned(OldShape(p)))
           /\ tc' \in RolledBack(p) /\ Goto(p, "undo")
  <2>1. faults' = faults + 1
    BY <1>1, <1>6, Failing, Zenon DEF Alone
  <2>2. Fits(tc, journal)
    BY <1>1, <1>3, <1>6, Known, Zenon
  <2>3. Fits(tc', journal)
    BY <1>3, <1>6, <2>2, RolledBackFits, Zenon
  <2> QED
    BY <1>1, <1>3, <1>6, <2>1, <2>3, TurnBack, Zenon
<1> QED
  BY <1>2, <1>4, <1>5, <1>6, Zenon DEF ApplyTc

\* The last class is in place.
LEMMA FinishTcSound ==
  ASSUME NEW p, Alone(p), Sound(p), FinishTc(p)
  PROVE  Sound(p)'
<1>1. /\ UNCHANGED <<saved, journal, nft>> /\ run[p].pc = "tcdone"
      /\ run[p].old = saved /\ run[p].wrote
      /\ journal = [prev |-> OldShape(p), next |-> NewShape(p)]
      /\ tc = Partial({OldShape(p), NewShape(p)})
  BY Zenon DEF FinishTc, Sound, At, files, Journalled
<1>2. CASE tc' = Exact(NewShape(p)) /\ Goto(p, "persist") /\ UNCHANGED faults
  BY <1>1, <1>2, Reshaped, Zenon
<1>3. CASE /\ FailsWhen(tc # Partial({OldShape(p), NewShape(p)}))
           /\ tc' \in RolledBack(p) /\ Goto(p, "undo")
  <2>1. faults' = faults + 1
    BY <1>1, <1>3, Failing, Zenon DEF Alone
  <2>2. Fits(tc, journal)
    BY <1>1, Trees, Zenon
  <2>3. Fits(tc', journal)
    BY <1>1, <1>3, <2>2, RolledBackFits, Zenon
  <2> QED
    BY <1>1, <1>3, <2>1, <2>3, TurnBack, Zenon
<1> QED
  BY <1>2, <1>3, Zenon DEF FinishTc

\* The saved state becomes the one of the plan.
LEMMA PersistSound ==
  ASSUME NEW p, Alone(p), Sound(p), ~SyncFaults, Persist(p)
  PROVE  Sound(p)'
<1>1. /\ UNCHANGED <<journal, nft, tc>> /\ run[p].pc = "persist"
      /\ run[p].old = saved /\ Journalled(p) /\ tc = Exact(NewShape(p))
  BY Zenon DEF Persist, Sound, At, kernel
<1>2. SavedShape = OldShape(p)
  BY <1>1, OldIsSaved, Zenon
<1>3. CASE /\ saved' = (IF run[p].old = NextState(p) THEN saved ELSE NextState(p))
           /\ Goto(p, "clear") /\ UNCHANGED faults
  <2>1. /\ run'[p].pc = "clear" /\ run'[p].old = run[p].old /\ run'[p].wrote = run[p].wrote
        /\ run'[p].snap = run[p].snap /\ run'[p].limit = run[p].limit
    BY <1>3, Zenon DEF Goto, Alone, Run
  <2>2. saved' = NextState(p) /\ saved' # None
    BY <1>1, <1>3, NoneAssumption, Zenon DEF Alone
  <2>3. SavedShape' = NewShape(p) /\ SavedRules' = NewRules(p)
    BY <2>2, Zenon DEF SavedShape, SavedRules, NextState, NewRules
  <2>4. journal # None => journal.next = NewShape(p)
    BY <1>1, JournalOfPlan, Zenon DEF Journalled
  <2>5. Base'
    BY <1>1, <2>3, <2>4, Zenon DEF Base
  <2>6. At(p)'
    BY <1>1, <2>1, <2>2, PlanKept, Zenon DEF At, Rebuilding, RollingBack, Journalled
  <2>7. Calmly(p)'
    BY <2>1, Zenon DEF Calmly, Quiet
  <2>8. Steady'
    BY <1>1, <1>3, <2>1, <2>3, Counters, Zenon DEF Steady, Alone, Rebuilding, RollingBack, Quiet, Sound, Undisturbed
  <2> QED
    BY <2>5, <2>6, <2>7, <2>8, Zenon DEF Sound
<1>4. CASE /\ Fault /\ saved' \in AfterFault(saved, NextState(p))
           /\ Goto(p, IF ShapeChanged(p) THEN "undo" ELSE "undonft")
  <2>1. saved' = saved /\ faults' = faults + 1
    BY <1>4, Zenon DEF AfterFault, Fault
  <2>2. CASE ShapeChanged(p)
    <3>1. run[p].wrote /\ journal = [prev |-> OldShape(p), next |-> NewShape(p)]
      BY <1>1, <2>2, Zenon DEF Journalled
    <3>2. Fits(tc, journal)
      BY <1>1, <3>1, Trees, Zenon
    <3> QED
      BY <1>1, <1>4, <2>1, <2>2, <3>1, <3>2, TurnBack, Zenon
  <2>3. CASE ~ShapeChanged(p)
    <3>1. run'[p].pc = "undonft" /\ run'[p].old = saved /\ ~run'[p].wrote
      BY <1>1, <1>4, <2>3 DEF Goto, Alone, Run, Journalled
    <3>2. SavedShape' = SavedShape /\ tc' = Exact(SavedShape) /\ journal' = None
      BY <1>1, <1>2, <2>1, <2>3, Zenon DEF SavedShape, Journalled, ShapeChanged
    <3>3. Base'
      BY <3>2, Zenon DEF Base
    <3>4. At(p)'
      BY <2>1, <3>1, <3>2 DEF At, Rebuilding, RollingBack, Alone
    <3>5. Calmly(p)'
      BY <3>1, Zenon DEF Calmly, Quiet
    <3>6. Steady'
      BY <3>1, Counters, Zenon DEF Steady, Alone, Rebuilding, RollingBack, Quiet
    <3> QED
      BY <3>3, <3>4, <3>5, <3>6, Zenon DEF Sound
  <2> QED
    BY <2>2, <2>3, Zenon
<1> QED
  BY <1>3, <1>4, Zenon DEF Persist

\* The journal goes last, or stays over a tree that is the saved one.
LEMMA ClearJournalSound ==
  ASSUME NEW p, Alone(p), Sound(p), ~SyncFaults, ClearJournal(p)
  PROVE  Sound(p)'
<1>1. /\ UNCHANGED <<saved, nft, tc>> /\ run[p].pc = "clear"
      /\ saved = NextState(p) /\ tc = Exact(NewShape(p)) /\ (~run[p].wrote => journal = None)
  BY Zenon DEF ClearJournal, Sound, At, kernel
<1>2. /\ SavedShape' = SavedShape /\ SavedRules' = SavedRules /\ SavedShape = NewShape(p)
      /\ Exact(None) = Original
  BY <1>1, NoneAssumption, Zenon DEF SavedShape, SavedRules, NextState, Alone, Exact
<1>3. run'[p] = Resting("idle")
  BY ZenonT(30) DEF ClearJournal, Finish, Alone
<1>4. journal' = None \/ (journal' = journal /\ faults' >= 1)
  BY <1>1, SMTT(20) DEF ClearJournal, RemoveJournal, Fault, AfterFault, Alone
<1>5. faults' >= faults
  BY DEF ClearJournal, RemoveJournal, Fault, Alone
<1>6. Base'
  BY <1>1, <1>2, <1>4, Zenon DEF Base, Sound
<1>7. (LeftAlone /\ crashes = 0 /\ faults' <= 1) => nft = SavedRules
  BY <1>1, <1>5 DEF Sound, Steady, Alone, Undisturbed, Rebuilding, RollingBack
<1> QED
  BY <1>1, <1>2, <1>3, <1>4, <1>6, <1>7, EndSound, Zenon

\* rollback_runtime starts from a tree the journal knows.
LEMMA UndoSound ==
  ASSUME NEW p, Alone(p), Sound(p), Undo(p)
  PROVE  Sound(p)'
<1>1. /\ UNCHANGED <<saved, journal, nft>> /\ run[p].pc = "undo" /\ run[p].old = saved
      /\ journal = [prev |-> OldShape(p), next |-> NewShape(p)]
      /\ Fits(tc, journal) /\ faults >= 1
  BY Zenon DEF Undo, Sound, At, files, RollingBack
<1>2. journal # None /\ Restorable(journal)
  BY <1>1, JournalOfPlan, Zenon DEF Fits, Restorable
<1>3. CASE BeginRecovery(p, "undonft") /\ UNCHANGED faults
  BY <1>1, <1>2, <1>3, BeginSound, Zenon
<1>4. CASE /\ FailsWhen(IF journal # None THEN ~Restorable(journal) ELSE ~VerifyOwned(NewShape(p)))
           /\ run' = [run EXCEPT ![p].pc = "undonft", ![p].wrote = FALSE]
           /\ UNCHANGED tc
  <2>1. faults' >= 2
    BY <1>1, <1>2, <1>4 DEF FailsWhen, Fault, Alone
  <2>2. run'[p].pc = "undonft" /\ run'[p].old = saved /\ ~run'[p].wrote
    <3>1. run'[p] = [run[p] EXCEPT !.pc = "undonft", !.wrote = FALSE] /\ run[p] \in Run
      BY <1>4, Zenon DEF Alone
    <3>2. run'[p].pc = "undonft" /\ run'[p].old = run[p].old /\ ~run'[p].wrote
      BY <3>1, Zenon DEF Run
    <3> QED
      BY <1>1, <3>2, Zenon
  <2>3. SavedShape' = SavedShape
    BY <1>1, Zenon DEF SavedShape
  <2>4. Base'
    BY <1>1, <1>4, <2>3, Counters, ZenonT(30) DEF Base, Sound
  <2>5. At(p)'
    BY <1>1, <2>1, <2>2 DEF At, Rebuilding, RollingBack, Alone
  <2>6. Calmly(p)'
    BY <2>2, Zenon DEF Calmly, Quiet
  <2>7. ~(faults' <= 1)
    BY <2>1 DEF Alone
  <2>8. Steady'
    BY <2>7, Counters, Zenon DEF Steady
  <2> QED
    BY <2>4, <2>5, <2>6, <2>8, Zenon DEF Sound
<1> QED
  BY <1>2, <1>3, <1>4, Zenon DEF Undo

\* It ends with the rules of the saved state.
LEMMA UndoNftSound ==
  ASSUME NEW p, Alone(p), Sound(p), ~SyncFaults, UndoNft(p)
  PROVE  Sound(p)'
<1>1. /\ UNCHANGED <<saved, tc>> /\ run[p].pc = "undonft" /\ run[p].old = saved /\ faults >= 1
      /\ (run[p].wrote => tc = Exact(SavedShape))
      /\ (~run[p].wrote /\ journal # None => faults >= 2)
  BY Zenon DEF UndoNft, Sound, At, RollingBack
<1>2. /\ SavedShape' = SavedShape /\ SavedRules' = SavedRules /\ Exact(None) = Original
      /\ OldRules(p) = SavedRules
  BY <1>1, OldIsSaved, Zenon DEF SavedShape, SavedRules, Exact
<1>3. run'[p] = Resting("idle")
  BY Zenon DEF UndoNft, Finish, Alone
<1>4. CASE nft' = OldRules(p) /\ RemoveJournal(p)
  <2>1. /\ journal' \in {journal, None} /\ faults' >= faults
        /\ (~run[p].wrote => journal' = journal)
    BY <1>4 DEF RemoveJournal, Fault, AfterFault, Alone
  <2>2. faults' >= 1 /\ (faults' <= 1 => faults <= 1)
    BY <1>1, <2>1 DEF Alone
  <2>3. Base'
    BY <1>1, <1>2, <2>1, Counters, Zenon DEF Base, Sound
  <2>4. (faults' <= 1 /\ ~run[p].wrote) => journal = None
    BY <1>1, <2>2 DEF Alone
  <2>5. faults' <= 1 => tc = Exact(SavedShape) \/ (tc = Original /\ ~LeftAlone)
    BY <1>1, <2>4, Zenon DEF Base, Sound
  <2> QED
    BY <1>1, <1>2, <1>3, <1>4, <2>2, <2>3, <2>5, EndSound, Zenon
<1>5. CASE Fault /\ UNCHANGED <<nft, journal>>
  <2>1. faults' >= 2
    BY <1>1, <1>5 DEF Fault, Alone
  <2>2. Base'
    BY <1>1, <1>2, <1>5, Counters, Zenon DEF Base, Sound
  <2>3. ~(faults' <= 1)
    BY <2>1 DEF Alone
  <2> QED
    BY <1>3, <2>2, <2>3, EndSound, Zenon
<1> QED
  BY <1>4, <1>5, Zenon DEF UndoNft

-----------------------------------------------------------------------------
(* Every step keeps the whole.                                             *)

\* As long as no run has overlapped with a command.
Undivided == Base /\ (\A p \in Process : At(p)) /\ Unlocking /\ Calm /\ Steady

\* A run past its check of the marker has the files and the kernel to itself.
LEMMA Owner ==
  ASSUME TypeOK, Local, Exclusive, NEW p \in Process, Step(p), ~raced', run[p].pc # "check"
  PROVE  /\ ~raced /\ \A q \in Process : q # p => run[q].pc \in {"idle", "down", "check"}
         /\ cli.pc \in {"idle", "resume"} /\ ~(cli.done /\ marker)
         /\ p = "resume" => cli.pc = "resume" /\ ~cli.done
         /\ p = "agent" \/ ~LeftAlone
<1>1. run[p].pc \notin {"idle", "down"} /\ Advance(p)
  BY StepAdvances, Zenon
<1>2. ~raced
  BY <1>1, Zenon DEF Advance
<1>3. CliIdle.pc = "idle"
  BY IdleCommand, Zenon
<1>4. CASE p = "agent"
  <2>1. AgentBusy
    BY <1>1, <1>4, Zenon DEF AgentBusy
  <2>2. cli.pc = "idle" /\ ~(cli.done /\ marker)
    BY <1>2, <2>1, Zenon DEF Exclusive
  <2>3. run["resume"].pc = "idle"
    BY <2>2, Zenon DEF Exclusive
  <2> QED
    BY <1>2, <1>4, <2>2, <2>3, Processes, Zenon
<1>5. CASE p = "resume"
  <2>1. cli.pc = "resume" /\ ~cli.done /\ ~LeftAlone
    BY <1>1, <1>3, <1>5, Zenon DEF Exclusive
  <2>2. ~AgentBusy
    BY <1>2, <2>1, Zenon DEF Exclusive
  <2> QED
    BY <1>2, <1>5, <2>1, <2>2, Processes, Zenon DEF AgentBusy
<1> QED
  BY <1>4, <1>5, Processes, Zenon

\* Each step of such a run is sound.
LEMMA RunSound ==
  ASSUME TypeOK, Local, Exclusive, ~SyncFaults, NEW p \in Process, Step(p), ~raced',
         run[p].pc # "check", Undivided
  PROVE  Alone(p) /\ Sound(p)'
<1>1. run[p].pc \notin {"idle", "down"} /\ Advance(p) /\ Written
  BY StepAdvances, Zenon
<1>2. /\ \A q \in Process : q # p => run[q].pc \in {"idle", "down", "check"}
      /\ p = "agent" \/ ~LeftAlone
  BY Owner, Zenon
<1>3. /\ faults \in Nat /\ faults' \in Nat /\ crashes \in Nat /\ reboots \in Nat
      /\ commands \in Nat
  BY <1>1, SnapshotsAssumption DEF TypeOK, Written
<1>4. [prev |-> OldShape(p), next |-> NewShape(p)] \in Journal /\ NextState(p) \in Saved
  BY <1>1, RunTypes, ZenonT(30)
<1>5. Alone(p)
  BY <1>1, <1>2, <1>3, <1>4 DEF Alone, Advance, Written, TypeOK
<1>6. Calmly(p)
  BY <1>2, Zenon DEF Calmly, Calm, Undivided, Quiet
<1>7. Sound(p)
  BY <1>6, Zenon DEF Sound, Undivided
<1>8. Load(p) \/ Recover(p) \/ Reapply(p) \/ Settle(p) \/ Prepare(p) => Sound(p)'
  BY <1>5, <1>7, LoadSound, RecoverSound, ReapplySound, SettleSound, PrepareSound, Zenon
<1>9. WriteJournal(p) \/ ReplaceNft(p) \/ ApplyTc(p) \/ FinishTc(p) => Sound(p)'
  BY <1>5, <1>7, WriteJournalSound, ReplaceNftSound, ApplyTcSound, FinishTcSound, Zenon
<1>10. Persist(p) \/ ClearJournal(p) \/ Undo(p) \/ UndoNft(p) => Sound(p)'
  BY <1>5, <1>7, PersistSound, ClearJournalSound, UndoSound, UndoNftSound, Zenon
<1> QED
  BY <1>5, <1>8, <1>9, <1>10, Zenon DEF Step, Check

\* A run that has not loaded anything depends on nothing.
LEMMA RestingAt ==
  ASSUME NEW q, run'[q].pc \in {"idle", "down", "check", "load"}, ~run'[q].wrote
  PROVE  At(q)'
BY Zenon DEF At, Rebuilding, RollingBack

\* A run that stands still over the same files and the same tree relies on the
\* same things.
LEMMA AtKept ==
  ASSUME NEW q, run'[q] = run[q], UNCHANGED <<saved, journal, tc, faults>>
  PROVE  At(q)' = At(q)
<1>1. SavedShape' = SavedShape /\ OldShape(q)' = OldShape(q) /\ NewShape(q)' = NewShape(q)
  BY Zenon DEF SavedShape, OldShape, NewShape
<1>2. ShapeChanged(q)' = ShapeChanged(q) /\ NextState(q)' = NextState(q)
  BY <1>1, Zenon DEF ShapeChanged, NextState
<1>3. Rebuilding(q)' = Rebuilding(q) /\ RollingBack(q)' = RollingBack(q)
  BY Zenon DEF Rebuilding, RollingBack
<1>4. Journalled(q)' = Journalled(q)
  BY <1>1, <1>2, Zenon DEF Journalled
<1> QED
  BY <1>1, <1>2, <1>3, <1>4, Zenon DEF At

\* What the others and the command look at is kept.
LEMMA RunKeeps ==
  ASSUME TypeOK, Local, Exclusive, ~SyncFaults, NEW p \in Process, Step(p), ~raced',
         run[p].pc # "check", Undivided
  PROVE  Undivided'
<1>1. Alone(p) /\ Sound(p)'
  BY RunSound, Zenon
<1>2. Advance(p)
  BY StepAdvances, Zenon
<1>3. /\ \A q \in Process : q # p => run[q].pc \in {"idle", "down", "check"}
      /\ cli.pc \in {"idle", "resume"}
  BY Owner, Zenon
<1>4. cli'.pc \in {"idle", "resume"}
  BY <1>2, <1>3, IdleCommand, Zenon DEF Advance
<1>5. ASSUME NEW q \in Process PROVE At(q)'
  <2>1. CASE q = p
    BY <1>1, <2>1, Zenon DEF Sound
  <2>2. CASE q # p
    <3>1. run'[q] = run[q] /\ run[q].pc \in {"idle", "down", "check"} /\ At(q)
      BY <1>2, <1>3, <2>2, Zenon DEF Advance, Undivided
    <3> QED
      BY <3>1, Zenon DEF At, Rebuilding, RollingBack
  <2> QED
    BY <2>1, <2>2, Zenon
<1>6. Unlocking'
  BY <1>4, Zenon DEF Unlocking
<1>7. Calm'
  BY <1>1, Zenon DEF Sound, Calmly, Calm
<1> QED
  BY <1>1, <1>5, <1>6, <1>7, Zenon DEF Undivided, Sound

\* The marker is read before anything else, and only read.
LEMMA CheckKeeps ==
  ASSUME TypeOK, Local, Exclusive, NEW p \in Process, Check(p), ~raced', ~raced => Undivided
  PROVE  Undivided'
<1>1. /\ UNCHANGED <<saved, journal, nft, tc, faults, crashes, reboots, commands>>
      /\ run[p].pc = "check"
  BY Zenon DEF Check, files, kernel
<1>2. Advance(p)
  BY StepAdvances, Zenon DEF Step
<1>3. ~raced /\ Undivided
  <2>1. ~raced
    BY <1>2, Zenon DEF Advance
  <2> QED
    BY <2>1, Zenon
<1>4. /\ SavedShape' = SavedShape /\ SavedRules' = SavedRules /\ LeftAlone' = LeftAlone
      /\ Undisturbed' = Undisturbed
  BY <1>1, Zenon DEF SavedShape, SavedRules, LeftAlone, Undisturbed
<1>5. Base'
  BY <1>1, <1>3, <1>4, Zenon DEF Undivided, Base
<1>6. run'[p].pc \in {"idle", "load"} /\ ~run'[p].wrote
  <2>1. run[p] \in Run /\ run \in [Process -> Run] /\ ~run[p].wrote
    <3>1. run[p] \in Run /\ run \in [Process -> Run] /\ At(p)
      BY <1>3 DEF TypeOK, Undivided
    <3> QED
      BY <1>1, <3>1, Zenon DEF At
  <2>2. CASE Goto(p, "load")
    BY <2>1, <2>2, Zenon DEF Goto, Run
  <2>3. CASE Finish(p, "failed")
    BY <2>1, <2>3, Zenon DEF Finish, Resting
  <2> QED
    BY <2>2, <2>3, Zenon DEF Check
<1>7. ASSUME NEW q \in Process PROVE At(q)'
  <2>1. CASE q = p
    BY <1>6, <2>1, RestingAt
  <2>2. CASE q # p
    <3>1. run'[q] = run[q] /\ At(q)
      BY <1>2, <1>3, <2>2, Zenon DEF Advance, Undivided
    <3> QED
      BY <1>1, <3>1, AtKept, Zenon
  <2> QED
    BY <2>1, <2>2, Zenon
<1>8. Unlocking'
  <2>1. CASE cli' = cli
    BY <1>1, <1>3, <2>1, Zenon DEF Undivided, Unlocking, CopyShape
  <2>2. CASE cli' = CliIdle
    BY <2>2, IdleCommand, Zenon DEF Unlocking
  <2> QED
    BY <1>2, <2>1, <2>2, Zenon DEF Advance
<1>9. \A q \in Process : run'[q].pc \in Quiet => run[q].pc \in Quiet
  BY <1>1, <1>2, Zenon DEF Advance, Quiet
<1>10. Calm'
  BY <1>1, <1>3, <1>4, <1>9, Zenon DEF Undivided, Calm
<1>11. Steady'
  <2>1. CASE p = "agent"
    BY <1>1, <1>3, <1>4, <1>6, <2>1, Zenon DEF Undivided, Steady, Quiet, Rebuilding, RollingBack
  <2>2. CASE p # "agent"
    <3>1. run'["agent"] = run["agent"]
      BY <1>2, <2>2, Processes, Zenon DEF Advance
    <3> QED
      BY <1>1, <1>3, <1>4, <3>1, Zenon DEF Undivided, Steady, Rebuilding, RollingBack, NewRules, NewShape
  <2> QED
    BY <2>1, <2>2, Zenon
<1> QED
  BY <1>5, <1>7, <1>8, <1>10, <1>11, Zenon DEF Undivided

\* Only the last step of a run can acknowledge anything but a failure.
LEMMA Ends ==
  ASSUME TypeOK, Local, NEW p \in Process, Step(p), run'[p].pc = "idle"
  PROVE  Finish(p, "failed") \/ ClearJournal(p)
<1>1. run \in [Process -> Run] /\ run[p] \in Run
  BY DEF TypeOK
<1>2. ASSUME NEW pc \in Pc \ {"idle"} PROVE ~Goto(p, pc)
  BY <1>1, <1>2 DEF Goto, Run
<1>3. Rebuilding(p) => run[p].after \in {"prepare", "undonft"}
  BY Zenon DEF Local
<1>4. ASSUME NEW after, BeginRecovery(p, after) PROVE FALSE
  BY <1>1, <1>4, Zenon DEF BeginRecovery, Run
<1>5. RecoveryFailed(p) => Finish(p, "failed")
  BY <1>1 DEF RecoveryFailed, Run
<1>6. Check(p) \/ Load(p) \/ Recover(p) \/ Reapply(p) \/ Prepare(p) => Finish(p, "failed")
  BY <1>1, <1>2, <1>4, <1>5 DEF Check, Load, Recover, Reapply, Prepare, Run, Pc
<1>7. Settle(p) => Finish(p, "failed")
  BY <1>2, <1>3, <1>5, Zenon DEF Settle, Rebuilding, Pc
<1>8. WriteJournal(p) \/ ReplaceNft(p) \/ UndoNft(p) => Finish(p, "failed")
  BY <1>1, <1>2 DEF WriteJournal, ReplaceNft, UndoNft, Run, Pc
<1>9. ~ApplyTc(p) /\ ~FinishTc(p) /\ ~Persist(p)
  BY <1>2, Zenon DEF ApplyTc, FinishTc, Persist, Pc
<1>10. ~Undo(p)
  BY <1>1, <1>2, <1>4, SMTT(20) DEF Undo, Run, Pc
<1> QED
  BY <1>6, <1>7, <1>8, <1>9, <1>10, ZenonT(30) DEF Step

\* A run that ends with a success has installed its snapshot.
LEMMA StepApplied ==
  ASSUME TypeOK, Local, Exclusive, NEW p \in Process, Step(p), ~raced => Undivided,
         AppliedIsInstalled
  PROVE  AppliedIsInstalled'
<1> SUFFICES ASSUME acked' # None, acked'.status = "applied", run'["agent"].pc = "idle", LeftAlone'
             PROVE  /\ saved' = [snap |-> acked'.snap, shape |-> acked'.snap.shape]
                    /\ tc' = Exact(saved'.shape)
                    /\ Undisturbed' => nft' = Rules(acked'.snap.block, acked'.snap.shape)
  BY Zenon DEF AppliedIsInstalled, VerifyOwned
<1>1. run[p].pc \notin {"idle", "down"} /\ Advance(p)
  BY StepAdvances, Zenon
<1>2. LeftAlone
  BY <1>1, Zenon DEF Advance, LeftAlone
<1>3. ~raced /\ run["resume"].pc = "idle"
  BY <1>2, IdleCommand, Zenon DEF Exclusive
<1>4. p = "agent"
  BY <1>1, <1>3, Processes, Zenon
<1>5. Finish(p, "failed") \/ ClearJournal(p)
  BY <1>4, Ends, Zenon
<1>6. ClearJournal(p)
  BY <1>4, <1>5 DEF Finish
<1>7. /\ acked' = [snap |-> run[p].snap, status |-> PlannedStatus(run[p].snap, run[p].limit)]
      /\ UNCHANGED <<saved, nft, tc, crashes, reboots, commands>> /\ run[p].pc = "clear"
  BY <1>4, <1>6, Zenon DEF ClearJournal, Finish, kernel, limits
<1>8. acked'.snap = run[p].snap /\ NewShape(p) = run[p].snap.shape
  BY <1>7, Zenon DEF PlannedStatus, NewShape
<1>9. saved = NextState(p) /\ tc = Exact(NewShape(p))
  BY <1>3, <1>7, Zenon DEF Undivided, At
<1>10. saved = [snap |-> acked'.snap, shape |-> acked'.snap.shape]
  BY <1>8, <1>9, Zenon DEF NextState
<1>11. saved # None
  BY <1>1, <1>9, RunTypes, NoneAssumption, ZenonT(30)
<1>12. Undisturbed' => Undisturbed
  BY <1>6, <1>7 DEF ClearJournal, RemoveJournal, Fault, Undisturbed, LeftAlone, TypeOK
<1>13. Undisturbed => nft = SavedRules
  BY <1>3, <1>4, <1>7, Zenon DEF Undivided, Steady, Rebuilding, RollingBack
<1>14. SavedRules = Rules(acked'.snap.block, acked'.snap.shape)
  BY <1>10, <1>11, Zenon DEF SavedRules
<1> QED
  BY <1>7, <1>8, <1>9, <1>10, <1>12, <1>13, <1>14

\* No run goes on after an unlock that was not overlapped.
LEMMA StepClean ==
  ASSUME TypeOK, Local, Exclusive, NEW p \in Process, Step(p), UnlockIsClean
  PROVE  UnlockIsClean'
<1> SUFFICES ASSUME cli'.done, marker', ~raced'
             PROVE  /\ nft' = None /\ (tc' = Original \/ journal' # None)
                    /\ (crashes' = 0 /\ faults' <= 1) => tc' = Original
  BY Zenon DEF UnlockIsClean
<1>1. Advance(p)
  BY StepAdvances, Zenon
<1>2. CASE run[p].pc # "check"
  <2>1. ~(cli.done /\ marker) /\ (p = "resume" => ~cli.done)
    BY <1>2, Owner, Zenon
  <2>2. p = "agent" => cli' = cli /\ marker' = marker
    BY <1>1, Zenon DEF Advance
  <2>3. p = "resume" => ~cli'.done
    BY <1>1, <2>1, IdleCommand, Zenon DEF Advance
  <2> QED
    BY <2>1, <2>2, <2>3, Processes, Zenon
<1>3. CASE run[p].pc = "check"
  <2>1. Check(p)
    BY <1>3, Zenon DEF Step, Load, Recover, Reapply, Settle, Prepare, WriteJournal, ReplaceNft,
         ApplyTc, FinishTc, Persist, ClearJournal, Undo, UndoNft
  <2>2. UNCHANGED <<nft, tc, journal, crashes, faults>>
    BY <2>1, Zenon DEF Check, files, kernel
  <2>3. CASE p = "resume"
    <3>1. cli.pc = "resume" /\ ~cli.done
      BY <1>3, <2>3, Zenon DEF Exclusive
    <3> QED
      BY <1>1, <2>3, <3>1, IdleCommand, Zenon DEF Advance
  <2>4. CASE p = "agent"
    <3>1. cli' = cli /\ marker' = marker
      BY <1>1, <2>4, Zenon DEF Advance
    <3>2. ~raced
      BY <1>1, Zenon DEF Advance
    <3> QED
      BY <2>2, <3>1, <3>2, Zenon DEF UnlockIsClean
  <2> QED
    BY <2>3, <2>4, Processes
<1> QED
  BY <1>2, <1>3, Zenon

\* Starting, receiving and reconciling touch neither files nor kernel.
LEMMA AgentStarts ==
  ASSUME TypeOK, Local, Receive \/ Reconcile \/ AgentStart
  PROVE  /\ UNCHANGED <<faults, saved, journal, nft, tc, marker, cli, raced, crashes, reboots, commands>>
         /\ run'["resume"] = run["resume"] /\ run["agent"].pc \in {"idle", "down"}
         /\ \/ run' = run
            \/ run'["agent"].pc \in {"idle", "check"} /\ ~run'["agent"].wrote /\ acked' = acked
<1>1. ASSUME NEW s \in Snapshots, StartRun("agent", s)
      PROVE  /\ run'["resume"] = run["resume"]
             /\ run'["agent"].pc = "check" /\ ~run'["agent"].wrote
  BY <1>1, Started, Processes
<1>2. saved # None => saved.snap \in Snapshots
  BY DEF TypeOK, Saved
<1>3. CASE Receive
  BY <1>1, <1>3, Zenon DEF Receive, files, kernel, limits
<1>4. CASE Reconcile
  BY <1>1, <1>2, <1>4, Zenon DEF Reconcile, files, kernel, limits
<1>5. CASE AgentStart
  <2>1. /\ UNCHANGED <<faults, saved, journal, nft, tc, marker, cli, raced, crashes, reboots, commands>>
        /\ acked' = acked /\ run["agent"].pc = "down"
    BY <1>5, ZenonT(30) DEF AgentStart, files, kernel, limits
  <2>2. CASE marker \/ saved = None
    <3>1. run' = [run EXCEPT !["agent"] = Resting("idle")] /\ run \in [Process -> Run]
      BY <1>5, <2>2 DEF AgentStart, TypeOK
    <3>2. run'["resume"] = run["resume"] /\ run'["agent"] = Resting("idle")
      BY <3>1, Processes, Zenon
    <3> QED
      BY <2>1, <3>2 DEF Resting
  <2>3. CASE ~(marker \/ saved = None)
    BY <1>1, <1>2, <1>5, <2>1, <2>3, Zenon DEF AgentStart
  <2> QED
    BY <2>2, <2>3, Zenon
<1> QED
  BY <1>3, <1>4, <1>5, Zenon

\* So they keep the whole.
LEMMA StartsKeep ==
  ASSUME TypeOK, Local, Receive \/ Reconcile \/ AgentStart, Undivided
  PROVE  Undivided'
<1>1. /\ UNCHANGED <<faults, saved, journal, nft, tc, cli, crashes, reboots, commands>>
      /\ run'["resume"] = run["resume"] /\ run["agent"].pc \in {"idle", "down"}
      /\ \/ run' = run
         \/ run'["agent"].pc \in {"idle", "check"} /\ ~run'["agent"].wrote
  BY AgentStarts, Zenon
<1>2. /\ SavedShape' = SavedShape /\ SavedRules' = SavedRules /\ LeftAlone' = LeftAlone
      /\ Undisturbed' = Undisturbed
  BY <1>1, Zenon DEF SavedShape, SavedRules, LeftAlone, Undisturbed
<1>3. Base' /\ Unlocking'
  BY <1>1, <1>2, Zenon DEF Undivided, Base, Unlocking, CopyShape
<1>4. ASSUME NEW q, q \in Process, run'[q] = run[q] PROVE At(q)'
  BY <1>1, <1>4, AtKept, Zenon DEF Undivided
<1>5. At("agent")' /\ At("resume")'
  <2>1. At("resume")'
    BY <1>1, <1>4, Processes, Zenon
  <2>2. CASE run' = run
    BY <1>4, <2>2, Processes, Zenon
  <2>3. CASE run'["agent"].pc \in {"idle", "check"} /\ ~run'["agent"].wrote
    BY <2>1, <2>3, RestingAt
  <2> QED
    BY <1>1, <2>1, <2>2, <2>3, Zenon
<1>6. Calm'
  <2>1. \A q \in Process : run'[q].pc \in Quiet => run[q].pc \in Quiet
    BY <1>1, Zenon DEF Quiet, Process
  <2> QED
    BY <1>1, <1>2, <2>1, Zenon DEF Undivided, Calm
<1>7. Steady'
  BY <1>1, <1>2, Zenon DEF Undivided, Steady, Quiet, Rebuilding, RollingBack
<1> QED
  BY <1>3, <1>5, <1>6, <1>7, Processes, Zenon DEF Undivided

\* reconcile_saved acknowledges a snapshot with limits only over its tree.
LEMMA ReconcileApplied ==
  ASSUME TypeOK, Reconcile, run' = run, Undivided
  PROVE  AppliedIsInstalled'
<1> SUFFICES ASSUME acked'.status = "applied", LeftAlone'
             PROVE  /\ saved' = [snap |-> acked'.snap, shape |-> acked'.snap.shape]
                    /\ tc' = Exact(saved'.shape) \/ (saved'.shape = None /\ journal' # None)
                    /\ Undisturbed' => /\ tc' = Exact(saved'.shape)
                                       /\ nft' = Rules(acked'.snap.block, acked'.snap.shape)
  BY Zenon DEF AppliedIsInstalled, VerifyOwned
<1>1. /\ UNCHANGED <<saved, journal, nft, tc, faults, crashes, reboots, commands>>
      /\ run["agent"].pc = "idle" /\ saved # None
  BY Zenon DEF Reconcile, files, kernel, limits
<1>2. LeftAlone /\ Undisturbed' = Undisturbed
  BY <1>1, ZenonT(30) DEF LeftAlone, Undisturbed
<1>3. saved \in Saved /\ saved.snap \in Snapshots
  BY <1>1 DEF TypeOK, Saved
<1>4. PICK limit \in LimitSupport :
        /\ saved.shape = PlannedShape(saved.snap, limit)
        /\ acked' = [snap |-> saved.snap, status |-> PlannedStatus(saved.snap, limit)]
  <2>1. run["agent"].pc # "check" /\ run["agent"].pc = run'["agent"].pc
    BY <1>1, Zenon
  <2>2. ~StartRun("agent", saved.snap)
    BY <1>3, <2>1, Started, Processes, Zenon
  <2> QED
    BY <2>2, Zenon DEF Reconcile
<1>5. acked'.snap = saved.snap /\ saved.shape = saved.snap.shape
  BY <1>4, Zenon DEF PlannedStatus
<1>6. saved = [snap |-> saved.snap, shape |-> saved.shape]
  BY <1>3, Zenon DEF Saved
<1>7. SavedShape = saved.shape /\ SavedRules = Rules(saved.snap.block, saved.shape)
  BY <1>1, Zenon DEF SavedShape, SavedRules
<1>8. ASSUME saved.shape # None PROVE tc = Exact(saved.shape)
  <2>1. limit
    BY <1>4, <1>8, Zenon DEF PlannedShape
  <2>2. limit = VerifyOwned(SavedShape)
    BY <1>4, <1>7, <1>8, Zenon DEF LimitSupport
  <2> QED
    BY <1>7, <2>1, <2>2, Zenon DEF VerifyOwned
<1>9. tc = Exact(saved.shape) \/ (saved.shape = None /\ journal # None)
  BY <1>2, <1>7, <1>8, Zenon DEF Undivided, Base
<1>10. Undisturbed => tc = Exact(saved.shape) /\ nft = SavedRules
  BY <1>1, <1>7, Zenon DEF Undivided, Steady, Quiet, Rebuilding, RollingBack
<1> QED
  BY <1>1, <1>2, <1>5, <1>6, <1>7, <1>9, <1>10, Zenon

\* A kill and a reboot end the run of the Agent wherever it is.
LEMMA KillKeeps ==
  ASSUME TypeOK, Local, AgentCrash \/ Reboot, Undivided
  PROVE  Undivided'
<1>1. \A pc \in {"idle", "down"} : Resting(pc).pc = pc /\ ~Resting(pc).wrote
  BY Zenon DEF Resting
<1>2. run \in [Process -> Run] /\ crashes \in Nat /\ reboots \in Nat /\ commands \in Nat
  BY SnapshotsAssumption DEF TypeOK
<1>3. CASE AgentCrash
  <2>1. /\ UNCHANGED <<saved, journal, nft, tc, cli, faults, reboots, commands>>
        /\ crashes' # 0 /\ run'["agent"] = Resting("down") /\ run'["resume"] = run["resume"]
    BY <1>2, <1>3, Processes DEF AgentCrash, files, kernel
  <2>2. SavedShape' = SavedShape /\ LeftAlone' = LeftAlone /\ ~Undisturbed'
    BY <2>1, Zenon DEF SavedShape, LeftAlone, Undisturbed
  <2>3. Base' /\ Unlocking'
    BY <2>1, <2>2, ZenonT(30) DEF Undivided, Base, Unlocking, CopyShape
  <2>4. At("agent")'
    BY <1>1, <2>1, RestingAt
  <2>5. At("resume")'
    BY <2>1, AtKept, Processes, Zenon DEF Undivided
  <2>6. Calm' /\ Steady'
    BY <2>1, <2>2, Zenon DEF Calm, Steady
  <2> QED
    BY <2>3, <2>4, <2>5, <2>6, Processes, Zenon DEF Undivided
<1>4. CASE Reboot
  <2>1. /\ UNCHANGED <<saved, journal, faults, crashes, commands>> /\ tc' = Original
        /\ run'["agent"] = Resting("down") /\ run'["resume"] = Resting("idle") /\ cli' = CliIdle
        /\ reboots' = reboots + 1
    BY <1>4, Processes, Zenon DEF Reboot, files
  <2>2. SavedShape' = SavedShape /\ ~LeftAlone' /\ ~Undisturbed'
    BY <1>2, <2>1, SMTT(20) DEF SavedShape, LeftAlone, Undisturbed
  <2>3. Base'
    BY <2>1, <2>2, Zenon DEF Undivided, Base
  <2>4. At("agent")' /\ At("resume")'
    BY <1>1, <2>1, RestingAt
  <2>5. Unlocking' /\ Calm' /\ Steady'
    BY <2>1, <2>2, IdleCommand, Zenon DEF Unlocking, Calm, Steady
  <2> QED
    BY <2>3, <2>4, <2>5, Processes, Zenon DEF Undivided
<1> QED
  BY <1>3, <1>4, Zenon

\* While an unlock is under way no run is, and the gateway is not left alone.
LEMMA UnlockOwner ==
  ASSUME TypeOK, Exclusive, ~raced, cli.pc \in CliPc \ {"idle", "resume"}
  PROVE  /\ \A q \in Process : run[q].pc \in {"idle", "down", "check"}
         /\ ~LeftAlone
<1>1. ~AgentBusy /\ run["resume"].pc = "idle"
  BY Zenon DEF Exclusive
<1>2. ~LeftAlone
  BY IdleCommand, Zenon DEF Exclusive
<1> QED
  BY <1>1, <1>2, Processes, Zenon DEF AgentBusy

\* A step of an unlock keeps the whole when it keeps files and kernel together.
LEMMA UnlockStep ==
  ASSUME TypeOK, Exclusive, ~raced, cli.pc \in CliPc \ {"idle", "resume"},
         UNCHANGED <<run, limits>>, faults' = faults \/ Fault,
         Undivided, Unlocking',
         journal' # None => SavedShape' \in {journal'.prev, journal'.next},
         tc' = Exact(SavedShape') \/ tc' = Original \/ journal' # None,
         (crashes = 0 /\ faults <= 1 /\ SavedShape' = None) => tc' = Original
  PROVE  Undivided'
<1>1. (\A q \in Process : run[q].pc \in {"idle", "down", "check"}) /\ ~LeftAlone
  BY UnlockOwner, Zenon
<1>2. ~LeftAlone' /\ ~Undisturbed'
  BY <1>1, Zenon DEF limits, LeftAlone, Undisturbed
<1>3. Base'
  BY <1>2, Zenon DEF Base
<1>4. ASSUME NEW q \in Process PROVE At(q)'
  <2>1. run'[q].pc \in {"idle", "down", "check"} /\ (run[q].pc = "check" => ~run[q].wrote)
    BY <1>1, Zenon DEF Undivided, At
  <2> QED
    BY <2>1, Zenon DEF At, Rebuilding, RollingBack
<1>5. Calm'
  <2>1. faults' <= 1 => faults <= 1
    BY DEF Fault, TypeOK
  <2> QED
    BY <2>1, Zenon DEF Calm, limits
<1>6. Steady'
  BY <1>2, Zenon DEF Steady
<1> QED
  BY <1>3, <1>4, <1>5, <1>6, Zenon DEF Undivided

\* The same when an unlock gives up, with everything as it was.
LEMMA UnlockFails ==
  ASSUME TypeOK, Exclusive, ~raced, cli.pc \in CliPc \ {"idle", "resume"},
         UNCHANGED <<run, limits, saved, journal, tc>>, faults' = faults \/ Fault,
         Undivided, Unlocking'
  PROVE  Undivided'
<1>1. (\A q \in Process : run[q].pc \in {"idle", "down", "check"})
  BY UnlockOwner, Zenon
<1>2. SavedShape' = SavedShape
  BY Zenon DEF SavedShape
<1>3. (crashes = 0 /\ faults <= 1 /\ SavedShape = None) => tc = Original
  BY <1>1, Zenon DEF Undivided, Calm, Quiet
<1> QED
  BY <1>2, <1>3, UnlockStep, Zenon DEF Undivided, Base

\* Each step of `policies unlock`, once it has begun.
LEMMA UnlockKeeps ==
  ASSUME TypeOK, Local, Exclusive, ~SyncFaults, ~raced, Undivided,
         UnlockLoad \/ UnlockJournal \/ UnlockNft \/ UnlockRestore \/ UnlockPersist \/ UnlockClear
  PROVE  Undivided'
<1>1. /\ cli.pc \in CliPc \ {"idle", "resume"} /\ UNCHANGED <<run, limits>>
      /\ faults' = faults \/ Fault
  BY Zenon DEF UnlockLoad, UnlockJournal, UnlockNft, UnlockRestore, UnlockPersist, UnlockClear,
         CliPc, FailsWhen
<1>2. cli' = CliIdle => Unlocking'
  BY IdleCommand, Zenon DEF Unlocking
<1>3. cli'.pc = "idle" => Unlocking'
  BY Zenon DEF Unlocking
<1>4. [CliIdle EXCEPT !.done = TRUE].pc = "idle" /\ cli \in Cli
  BY DEF CliIdle, TypeOK
<1>5. ASSUME NEW pc, cli' = [cli EXCEPT !.pc = pc]
      PROVE  cli'.pc = pc /\ cli'.copy = cli.copy /\ CopyShape' = CopyShape
  BY <1>4, <1>5, Zenon DEF Cli, CopyShape
<1>6. cli.pc \in {"journal", "nft", "restore", "persist"} => CopyShape = SavedShape /\ cli.copy = saved
  BY Zenon DEF Undivided, Unlocking, CopyShape, SavedShape
<1>7. CASE UnlockLoad
  <2>1. UNCHANGED <<saved, journal, tc>>
    BY <1>7, Zenon DEF UnlockLoad, files, kernel
  <2>2. Unlocking'
    <3>1. CASE cli' = [cli EXCEPT !.pc = "journal", !.copy = saved]
      <4>1. cli'.pc = "journal" /\ cli'.copy = saved
        BY <1>4, <3>1, Zenon DEF Cli
      <4> QED
        BY <2>1, <4>1, Zenon DEF Unlocking
    <3> QED
      BY <1>2, <1>7, <3>1 DEF UnlockLoad
  <2> QED
    BY <1>1, <2>1, <2>2, UnlockFails, Zenon
<1>8. CASE UnlockJournal
  <2>1. UNCHANGED <<saved, nft, tc>> /\ cli.pc = "journal" /\ SavedShape' = SavedShape
    BY <1>8, Zenon DEF UnlockJournal, kernel, SavedShape
  <2>2. CASE /\ CopyShape # None /\ journal' = [prev |-> CopyShape, next |-> None]
             /\ cli' = [cli EXCEPT !.pc = "nft"]
    <3>1. Unlocking'
      BY <1>5, <1>6, <2>1, <2>2, ZenonT(30) DEF Unlocking
    <3>2. CopyShape \in Shapes \cup {None}
      BY <1>6, <2>1 DEF TypeOK, SavedShape, Saved
    <3>3. [prev |-> CopyShape, next |-> None] \in Journal
      BY <3>2, Zenon DEF Journal
    <3>4. journal' # None /\ journal'.prev = SavedShape
      BY <1>6, <2>1, <2>2, <3>3, NoneAssumption, Zenon
    <3> QED
      BY <1>1, <1>6, <2>1, <2>2, <3>1, <3>4, UnlockStep
  <2>3. CASE CopyShape = None /\ journal' = journal /\ cli' = [cli EXCEPT !.pc = "nft"]
    <3>1. Unlocking'
      BY <1>5, <1>6, <2>1, <2>3, Zenon DEF Unlocking
    <3> QED
      BY <1>1, <2>1, <2>3, <3>1, UnlockFails, Zenon
  <2>4. CASE Fault /\ cli' = CliIdle /\ journal' \in AfterFault(journal, [prev |-> CopyShape, next |-> None])
    <3>1. journal' = journal
      BY <2>4, Zenon DEF AfterFault
    <3> QED
      BY <1>1, <1>2, <2>1, <2>4, <3>1, UnlockFails
  <2> QED
    BY <1>8, <2>2, <2>3, <2>4, Zenon DEF UnlockJournal
<1>9. CASE UnlockNft
  <2>1. UNCHANGED <<saved, journal, tc>> /\ cli.pc = "nft"
    BY <1>9, Zenon DEF UnlockNft, files
  <2>2. CASE cli' = [cli EXCEPT !.pc = "restore"] /\ nft' = None
    <3>1. Unlocking'
      BY <1>5, <1>6, <2>1, <2>2, Zenon DEF Unlocking, Undivided
    <3> QED
      BY <1>1, <2>1, <3>1, UnlockFails, Zenon
  <2>3. CASE UnlockDone \/ cli' = CliIdle
    <3>1. Unlocking'
      BY <1>2, <1>3, <1>4, <2>3, Zenon DEF UnlockDone
    <3> QED
      BY <1>1, <2>1, <3>1, UnlockFails, Zenon
  <2> QED
    BY <1>9, <2>2, <2>3, Zenon DEF UnlockNft
<1>10. CASE UnlockRestore
  <2>1. UNCHANGED <<saved, journal, nft>> /\ cli.pc = "restore" /\ SavedShape' = SavedShape
    BY <1>10, Zenon DEF UnlockRestore, files, SavedShape
  <2>2. CASE tc' = Original /\ cli' = [cli EXCEPT !.pc = "persist"]
    <3>1. Unlocking'
      BY <1>5, <1>6, <2>1, <2>2, Zenon DEF Unlocking, Undivided
    <3> QED
      BY <1>1, <2>1, <2>2, <3>1, UnlockStep DEF Undivided, Base
  <2>3. CASE cli' = CliIdle /\ UNCHANGED tc
    BY <1>1, <1>2, <2>1, <2>3, UnlockFails
  <2> QED
    BY <1>10, <2>2, <2>3, Zenon DEF UnlockRestore
<1>11. CASE UnlockPersist
  <2>1. /\ UNCHANGED <<journal, nft, tc>> /\ cli.pc = "persist" /\ tc = Original /\ nft = None
        /\ CopyShape # None /\ journal = [prev |-> CopyShape, next |-> None]
    BY <1>11, Zenon DEF UnlockPersist, kernel, Undivided, Unlocking, Local
  <2>2. CASE saved' = [cli.copy EXCEPT !.shape = None] /\ cli' = [cli EXCEPT !.pc = "clear"]
    <3>1. Unlocking'
      BY <1>5, <2>1, <2>2 DEF Unlocking
    <3>2. cli.copy \in Saved
      BY <1>4, <2>1, Zenon DEF Cli, CopyShape
    <3>3. SavedShape' = None
      BY <2>2, <3>2, Zenon DEF SavedShape, Saved
    <3> QED
      BY <1>1, <2>1, <3>1, <3>3, UnlockStep, Zenon
  <2>3. CASE cli' = CliIdle /\ saved' \in AfterFault(saved, [cli.copy EXCEPT !.shape = None])
    <3>1. saved' = saved
      BY <2>3, Zenon DEF AfterFault
    <3> QED
      BY <1>1, <1>2, <2>1, <2>3, <3>1, UnlockFails
  <2> QED
    BY <1>11, <2>2, <2>3, Zenon DEF UnlockPersist
<1>12. CASE UnlockClear
  <2>1. /\ UNCHANGED <<saved, nft, tc>> /\ cli.pc = "clear" /\ tc = Original
    BY <1>12, Zenon DEF UnlockClear, kernel, Undivided, Unlocking
  <2>2. Unlocking' /\ journal' \in {journal, None}
    BY <1>2, <1>3, <1>4, <1>12, Zenon DEF UnlockClear, UnlockDone, AfterFault
  <2>3. SavedShape' = SavedShape
    BY <2>1, Zenon DEF SavedShape
  <2> QED
    BY <1>1, <2>1, <2>2, <2>3, UnlockStep, Zenon DEF Undivided, Base
<1> QED
  BY <1>7, <1>8, <1>9, <1>10, <1>11, <1>12, Zenon

\* A command that begins takes the gateway from the Agent.
LEMMA BeginKeeps ==
  ASSUME TypeOK, Local, Exclusive, Unlock \/ Resume, ~raced', ~raced => Undivided
  PROVE  Undivided' /\ ~LeftAlone'
<1>1. /\ UNCHANGED <<saved, journal, nft, tc, faults, crashes, reboots>> /\ commands' = commands + 1
      /\ CliFree /\ raced' = (raced \/ AgentBusy)
  BY Zenon DEF Unlock, Resume, files, kernel
<1>2. ~raced
  BY <1>1, Zenon
<1>3. Undivided
  BY <1>2, Zenon
<1>4. SavedShape' = SavedShape /\ ~LeftAlone' /\ ~Undisturbed'
  BY <1>1, SnapshotsAssumption DEF SavedShape, LeftAlone, Undisturbed, TypeOK
<1>5. /\ run'["agent"] = run["agent"]
      /\ \/ run'["resume"] = run["resume"]
         \/ run'["resume"].pc = "check" /\ ~run'["resume"].wrote
  <2>1. CASE Unlock
    BY <2>1, Zenon DEF Unlock
  <2>2. CASE Resume
    <3>1. saved.snap \in Snapshots
      BY <2>2 DEF Resume, TypeOK, Saved
    <3>2. run' = run \/ StartRun("resume", saved.snap)
      BY <2>2, Zenon DEF Resume
    <3> QED
      BY <3>1, <3>2, Started, Processes
  <2> QED
    BY <2>1, <2>2, Zenon
<1>6. cli'.pc \in {"load", "idle", "resume"}
  <2>1. ASSUME NEW pc PROVE [CliIdle EXCEPT !.pc = pc].pc = pc
    BY Zenon DEF CliIdle
  <2> QED
    BY <2>1, IdleCommand, Zenon DEF Unlock, Resume
<1>7. Base'
  BY <1>1, <1>3, <1>4, Zenon DEF Undivided, Base
<1>8. ASSUME NEW q, q \in Process, run'[q] = run[q] PROVE At(q)'
  BY <1>1, <1>3, <1>4, <1>8, Zenon DEF Undivided, At, Rebuilding, RollingBack, Journalled, ShapeChanged,
     OldShape, NewShape, NextState
<1>9. At("agent")' /\ At("resume")'
  BY <1>5, <1>8, Processes, RestingAt
<1>10. Calm'
  <2>1. \A q \in Process : run'[q].pc \in Quiet => run[q].pc \in Quiet
    BY <1>1, <1>5, Zenon DEF Quiet, Process, CliFree
  <2> QED
    BY <1>1, <1>3, <1>4, <2>1, Zenon DEF Undivided, Calm
<1>11. Unlocking' /\ Steady'
  BY <1>4, <1>6, Zenon DEF Unlocking, Steady
<1> QED
  BY <1>4, <1>7, <1>9, <1>10, <1>11, Processes, Zenon DEF Undivided

\* An unlock that succeeds has taken away the rules and the tree.
LEMMA CommandClean ==
  ASSUME TypeOK, Local, Exclusive, Command, ~raced => Undivided, UnlockIsClean
  PROVE  UnlockIsClean'
<1> SUFFICES ASSUME cli'.done, marker', ~raced'
             PROVE  /\ nft' = None /\ (tc' = Original \/ journal' # None)
                    /\ (crashes' = 0 /\ faults' <= 1) => tc' = Original
  BY Zenon DEF UnlockIsClean
<1>1. cli \in Cli /\ ~CliIdle.done /\ (cli.done => cli.pc = "idle")
  BY IdleCommand DEF TypeOK, Exclusive
<1>2. \A pc : [cli EXCEPT !.pc = pc].done = cli.done /\ ~[CliIdle EXCEPT !.pc = pc].done
  BY <1>1, Zenon DEF Cli, CliIdle
<1>3. \A pc : [cli EXCEPT !.pc = pc, !.copy = saved].done = cli.done
  BY <1>1, Zenon DEF Cli
<1>4. CASE Unlock
  BY <1>2, <1>4, Zenon DEF Unlock
<1>5. CASE Resume
  BY <1>5, Zenon DEF Resume
<1>6. CASE UnlockLoad
  BY <1>1, <1>3, <1>6, Zenon DEF UnlockLoad
<1>7. CASE UnlockJournal
  BY <1>1, <1>2, <1>7, Zenon DEF UnlockJournal
<1>8. CASE UnlockNft
  <2>1. nft' = None /\ CopyShape = None
    BY <1>1, <1>2, <1>8, Zenon DEF UnlockNft
  <2>2. ~raced /\ cli.pc = "nft" /\ UNCHANGED <<tc, journal, crashes, faults>>
    BY <1>1, <1>8, Zenon DEF UnlockNft, limits, files
  <2>3. SavedShape = None
    BY <2>1, <2>2, Zenon DEF Undivided, Unlocking, CopyShape, SavedShape
  <2>4. \A q \in Process : run[q].pc \in {"idle", "down", "check"}
    BY <2>2, UnlockOwner, Zenon DEF CliPc
  <2>5. Exact(None) = Original
    BY Zenon DEF Exact
  <2>6. tc = Original \/ journal # None
    BY <2>2, <2>3, <2>5, Zenon DEF Undivided, Base
  <2>7. (crashes = 0 /\ faults <= 1) => tc = Original
    BY <2>2, <2>3, <2>4, Zenon DEF Undivided, Calm, Quiet
  <2> QED
    BY <2>1, <2>2, <2>6, <2>7, Zenon
<1>9. CASE UnlockRestore
  BY <1>1, <1>2, <1>9, Zenon DEF UnlockRestore
<1>10. CASE UnlockPersist
  BY <1>1, <1>2, <1>10, Zenon DEF UnlockPersist
<1>11. CASE UnlockClear
  <2>1. ~raced /\ cli.pc = "clear" /\ UNCHANGED <<tc, nft>>
    BY <1>11, Zenon DEF UnlockClear, limits, kernel
  <2> QED
    BY <2>1, Zenon DEF Undivided, Unlocking
<1> QED
  BY <1>4, <1>5, <1>6, <1>7, <1>8, <1>9, <1>10, <1>11 DEF Command

\* The whole invariant, kept by every step of the Agent, its commands and its
\* failures.
LEMMA Inductive ==
  ASSUME ~SyncFaults, IInv, [Next]_vars
  PROVE  IInv'
<1>1. /\ TypeOK /\ Local /\ Exclusive /\ (~raced => Undivided)
      /\ AppliedIsInstalled /\ UnlockIsClean
  BY Zenon DEF IInv, Undivided
<1>3. ASSUME NEW p \in Process, Step(p) PROVE IInv'
  <2>1. TypeOK' /\ Local' /\ Exclusive'
    BY <1>1, <1>3, StepAdvances, AdvanceTypes, StepExclusive, Zenon
  <2>2. ASSUME ~raced' PROVE Undivided'
    <3>1. CASE run[p].pc = "check"
      <4>1. Check(p)
        BY <1>3, <3>1 DEF Step, Load, Recover, Reapply, Settle, Prepare, WriteJournal, ReplaceNft,
           ApplyTc, FinishTc, Persist, ClearJournal, Undo, UndoNft
      <4> QED
        BY <1>1, <2>2, <4>1, CheckKeeps, ZenonT(30)
    <3>2. CASE run[p].pc # "check"
      <4>1. ~raced
        BY <1>1, <1>3, <2>2, <3>2, Owner, Zenon
      <4> QED
        BY <1>1, <1>3, <2>2, <3>2, <4>1, RunKeeps, Zenon
    <3> QED
      BY <3>1, <3>2, Zenon
  <2>3. AppliedIsInstalled' /\ UnlockIsClean'
    BY <1>1, <1>3, StepApplied, StepClean, Zenon
  <2> QED
    BY <2>1, <2>2, <2>3, Zenon DEF IInv, Undivided
<1>4. CASE Receive \/ Reconcile \/ AgentStart
  <2>1. TypeOK' /\ Local' /\ Exclusive'
    BY <1>1, <1>4, AgentTypes, AgentExclusive, Zenon
  <2>2. /\ UNCHANGED <<faults, saved, journal, nft, tc, marker, cli, raced, crashes, reboots, commands>>
        /\ run["agent"].pc \in {"idle", "down"}
        /\ \/ run' = run
           \/ run'["agent"].pc \in {"idle", "check"} /\ acked' = acked
    BY <1>1, <1>4, AgentStarts, Zenon
  <2>3. ~raced' => Undivided'
    BY <1>1, <1>4, <2>2, StartsKeep, Zenon
  <2>4. UnlockIsClean'
    BY <1>1, <2>2, Zenon DEF UnlockIsClean
  <2>5. AppliedIsInstalled'
    <3>1. CASE acked' = acked /\ run'["agent"].pc = "idle" /\ run["agent"].pc = "idle"
      BY <1>1, <2>2, <3>1, Zenon DEF AppliedIsInstalled, VerifyOwned, LeftAlone, Undisturbed
    <3>2. CASE acked' = acked /\ run["agent"].pc = "down"
      BY <1>1, <3>2, Zenon DEF Exclusive, AppliedIsInstalled
    <3>3. CASE run' = run /\ acked' # acked
      <4>1. Reconcile
        BY <1>4, <3>3, Zenon DEF Receive, AgentStart
      <4>2. LeftAlone' => ~raced
        BY <1>1, <2>2, Zenon DEF Exclusive, LeftAlone
      <4>3. LeftAlone' => AppliedIsInstalled'
        BY <1>1, <3>3, <4>1, <4>2, ReconcileApplied, Zenon
      <4> QED
        BY <4>3, Zenon DEF AppliedIsInstalled
    <3>4. CASE run'["agent"].pc = "check"
      BY <3>4, Zenon DEF AppliedIsInstalled
    <3> QED
      BY <2>2, <3>1, <3>2, <3>3, <3>4, Zenon
  <2> QED
    BY <2>1, <2>3, <2>4, <2>5, Zenon DEF IInv, Undivided
<1>5. CASE AgentCrash \/ Reboot
  <2>1. TypeOK' /\ Local' /\ Exclusive'
    BY <1>1, <1>5, AgentTypes, AgentExclusive, Zenon
  <2>2. raced' = raced /\ acked' = None
    BY <1>5, Zenon DEF AgentCrash, Reboot
  <2>3. ~raced' => Undivided'
    BY <1>1, <1>5, <2>2, KillKeeps, Zenon
  <2>4. UnlockIsClean'
    <3>1. CASE AgentCrash
      <4>1. UNCHANGED <<cli, marker, raced, nft, tc, journal>> /\ crashes' # 0
        BY <1>1, <3>1 DEF AgentCrash, TypeOK, files, kernel
      <4> QED
        BY <1>1, <4>1, Zenon DEF UnlockIsClean
    <3>2. CASE Reboot
      BY <3>2, IdleCommand, Zenon DEF Reboot, UnlockIsClean
    <3> QED
      BY <1>5, <3>1, <3>2, Zenon
  <2> QED
    BY <2>1, <2>2, <2>3, <2>4, Zenon DEF IInv, Undivided, AppliedIsInstalled
<1>6. CASE Command
  <2>1. TypeOK' /\ Local' /\ Exclusive'
    BY <1>1, <1>6, CommandTypes, CommandExclusive, Zenon
  <2>2. UnlockIsClean'
    BY <1>1, <1>6, CommandClean, Zenon
  <2>3. CASE Unlock \/ Resume
    <3>1. ~raced' => Undivided'
      BY <1>1, <2>3, BeginKeeps, Zenon
    <3>2. ~LeftAlone'
      BY <1>1, <2>3, SnapshotsAssumption DEF Unlock, Resume, LeftAlone, TypeOK
    <3> QED
      BY <2>1, <2>2, <3>1, <3>2, Zenon DEF IInv, Undivided, AppliedIsInstalled
  <2>4. CASE UnlockLoad \/ UnlockJournal \/ UnlockNft \/ UnlockRestore \/ UnlockPersist \/ UnlockClear
    <3>1. UNCHANGED limits /\ cli.pc \in CliPc \ {"idle", "resume"}
      BY <2>4, Zenon DEF UnlockLoad, UnlockJournal, UnlockNft, UnlockRestore, UnlockPersist, UnlockClear, CliPc
    <3>2. ~LeftAlone' /\ raced' = raced
      BY <1>1, <3>1, IdleCommand, Zenon DEF Exclusive, limits, LeftAlone
    <3>3. ~raced' => Undivided'
      BY <1>1, <2>4, <3>2, UnlockKeeps, Zenon
    <3> QED
      BY <2>1, <2>2, <3>2, <3>3, Zenon DEF IInv, Undivided, AppliedIsInstalled
  <2> QED
    BY <1>6, <2>3, <2>4, Zenon DEF Command
<1>7. CASE UNCHANGED vars
  <2>1. TypeOK' /\ Local' /\ AppliedIsInstalled' /\ UnlockIsClean'
    BY <1>1, <1>7 DEF vars, TypeOK, Local, Rebuilding, CopyShape, AppliedIsInstalled, UnlockIsClean,
       VerifyOwned, LeftAlone, Undisturbed
  <2>2. Exclusive'
    BY <1>1, <1>7, Zenon DEF vars, Exclusive, LeftAlone, AgentBusy
  <2>3. SavedShape' = SavedShape /\ SavedRules' = SavedRules /\ CopyShape' = CopyShape
    BY <1>7, Zenon DEF vars, SavedShape, SavedRules, CopyShape
  <2>4. Base' = Base /\ Unlocking' = Unlocking /\ Calm' = Calm
    BY <1>7, <2>3, Zenon DEF vars, Base, LeftAlone, Unlocking, Calm
  <2>5. ASSUME NEW p \in Process PROVE At(p)' = At(p)
    BY <1>7, AtKept, Zenon DEF vars
  <2>6. Steady' = Steady
    BY <1>7, <2>3, Zenon DEF vars, Steady, Undisturbed, LeftAlone, Rebuilding, RollingBack, NewRules, NewShape
  <2>7. raced' = raced
    BY <1>7, Zenon DEF vars
  <2>8. ~raced' => Undivided'
    BY <1>1, <2>4, <2>5, <2>6, <2>7, Zenon DEF Undivided
  <2> QED
    BY <2>1, <2>2, <2>8, SMTT(20) DEF IInv, Undivided
<1> QED
  BY <1>3, <1>4, <1>5, <1>6, <1>7, Zenon DEF Next

\* The first start of the Agent, with nothing installed.
LEMMA InitIInv ==
  ASSUME Init
  PROVE  Exclusive /\ Undivided /\ AppliedIsInstalled /\ UnlockIsClean
<1>1. /\ \A p \in Process : run[p].pc = "idle"
      /\ saved = None /\ journal = None /\ ~marker /\ nft = None /\ tc = Original /\ ~raced
      /\ cli = CliIdle /\ acked = None
  BY Zenon DEF Init, Resting
<1>2. SavedShape = None /\ SavedRules = None /\ Exact(None) = Original
  BY <1>1, Zenon DEF SavedShape, SavedRules, Exact
<1>3. Exclusive
  BY <1>1, IdleCommand, Processes, Zenon DEF Exclusive, AgentBusy
<1>4. Base /\ Unlocking /\ Calm
  BY <1>1, <1>2, IdleCommand, Zenon DEF Base, Unlocking, Calm
<1>5. \A p \in Process : At(p)
  BY <1>1, Zenon DEF At, Rebuilding, RollingBack
<1>6. Steady
  BY <1>1, <1>2, Processes, Zenon DEF Steady, Rebuilding, RollingBack
<1> QED
  BY <1>1, <1>3, <1>4, <1>5, <1>6, IdleCommand, Zenon DEF Undivided, AppliedIsInstalled, UnlockIsClean

\* When a file operation that fails has had no effect, the inductive invariant
\* holds whatever is killed, fails, reboots or overlaps.
THEOREM IInvariant == ~SyncFaults => (Spec => []IInv)
<1> SUFFICES ASSUME ~SyncFaults PROVE Spec => []IInv
  OBVIOUS
<1>1. Init => IInv
  BY InitTypes, InitIInv, Zenon DEF IInv, Undivided
<1>2. IInv /\ [Next]_vars => IInv'
  BY Inductive, Zenon
<1> QED
  BY <1>1, <1>2, PTL DEF Spec

\* Wherever process_snapshot_with is killed or fails, recover_journal can
\* rebuild the tree policy-state.json describes.
THEOREM TreeRecoverable == ~SyncFaults => (Spec => []TreeIsRecoverable)
<1> SUFFICES ASSUME ~SyncFaults PROVE Spec => []TreeIsRecoverable
  OBVIOUS
<1>1. IInv => TreeIsRecoverable
  BY Zenon DEF IInv, TreeIsRecoverable, Exclusive, Base, VerifyOwned, Restorable, Fits
<1> QED
  BY <1>1, IInvariant, PTL

\* A successful acknowledgement is about what is saved and installed.
THEOREM AppliedInstalled == ~SyncFaults => (Spec => []AppliedIsInstalled)
<1> SUFFICES ASSUME ~SyncFaults PROVE Spec => []AppliedIsInstalled
  OBVIOUS
<1>1. IInv => AppliedIsInstalled
  BY Zenon DEF IInv
<1> QED
  BY <1>1, IInvariant, PTL

\* After a refusal rollback_runtime has left the previous rules and tree.
THEOREM RefusalKeeps == ~SyncFaults => (Spec => []RefusalKeepsPrevious)
<1> SUFFICES ASSUME ~SyncFaults PROVE Spec => []RefusalKeepsPrevious
  OBVIOUS
<1>1. IInv => RefusalKeepsPrevious
  <2> SUFFICES ASSUME IInv, run["agent"].pc = "idle", Undisturbed
               PROVE  nft = SavedRules /\ tc = Exact(SavedShape)
    BY Zenon DEF RefusalKeepsPrevious, SavedRules, VerifyOwned
  <2>1. Steady
    BY Zenon DEF IInv, Exclusive, Undisturbed
  <2> QED
    BY <2>1, Zenon DEF Steady, Quiet, Rebuilding, RollingBack
<1> QED
  BY <1>1, IInvariant, PTL

\* `policies unlock` that no run overlapped leaves none of our rules behind, and
\* no tree without a journal of it.
THEOREM UnlockClean == ~SyncFaults => (Spec => []UnlockIsClean)
<1> SUFFICES ASSUME ~SyncFaults PROVE Spec => []UnlockIsClean
  OBVIOUS
<1>1. IInv => UnlockIsClean
  BY Zenon DEF IInv
<1> QED
  BY <1>1, IInvariant, PTL

=============================================================================
