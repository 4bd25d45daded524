-------------------------- MODULE MCAgentExecutor --------------------------
(* AgentExecutor with snapshots that exercise every change of the tree.    *)
EXTENDS AgentExecutor

Snapshot(rev, block, shape, app) ==
  [rev |-> rev, block |-> block, shape |-> shape, app |-> app]

\* A tree appears, stays, is replaced, is taken away, and another appears where
\* there was none.  The first snapshot has application policies, so that
\* `policies resume` leaves it to the Agent.
ShapingSnapshots ==
  {Snapshot(1, "X", "A", TRUE), Snapshot(2, None, "A", FALSE),
   Snapshot(3, "X", None, FALSE), Snapshot(4, None, "B", FALSE)}

\* One tree replaces another.
ResumeSnapshots ==
  {Snapshot(1, "X", "A", TRUE), Snapshot(4, None, "B", FALSE)}

\* A command that overlapped with a run of the Agent leaves raced set for good,
\* and UnlockIsClean says nothing of what follows.
NoRace == ~raced

\* Kills and failures of the Agent; or commands and a reboot, with one of them.
Corners ==
  \/ commands = 0 /\ reboots = 0
  \/ NoRace /\ crashes + faults <= 1 /\ run["agent"].snap \in ResumeSnapshots \cup {None}
=============================================================================
