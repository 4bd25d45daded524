---------------------------- MODULE MCPolicySync ----------------------------
(***************************************************************************)
(* PolicySync within the limits of a scenario, chosen at the start of a    *)
(* behaviour: what TLC explores adds up instead of multiplying.            *)
(***************************************************************************)
EXTENDS PolicySync

VARIABLE bound    \* the scenario

\* Two sessions of one Collector process carry two revisions.
Sessions2 == [revs |-> 2, epochs |-> 1, lives |-> 1, sessions |-> 2, boots |-> 1,
              refresh |-> FALSE, unlocks |-> 0, faults |-> FALSE]

\* Two sessions, the emergency marker, and snapshots that fail.
Refusing  == [revs |-> 1, epochs |-> 1, lives |-> 1, sessions |-> 2, boots |-> 1,
              refresh |-> FALSE, unlocks |-> 1, faults |-> TRUE]

\* The Collector restarts, with its database or without.
Restarting == [revs |-> 2, epochs |-> 2, lives |-> 2, sessions |-> 1, boots |-> 1,
              refresh |-> FALSE, unlocks |-> 0, faults |-> TRUE]

\* The same revision is compiled again, on either side of a restart.
Refreshed == [revs |-> 2, epochs |-> 2, lives |-> 2, sessions |-> 1, boots |-> 1,
              refresh |-> TRUE, unlocks |-> 0, faults |-> FALSE]

\* The Agent restarts between two sessions.
Rebooted == [Sessions2 EXCEPT !.revs = 1, !.boots = 2]

MCScenarios == {Sessions2, Refusing, Restarting, Refreshed, Rebooted}

\* What the deployment must settle after: failures of every kind; a refresh of
\* the same revision; the emergency unlock.
Failing   == [revs |-> 1, epochs |-> 2, lives |-> 2, sessions |-> 2, boots |-> 2,
              refresh |-> FALSE, unlocks |-> 0, faults |-> TRUE]
Repeating == [Failing EXCEPT !.epochs = 1, !.lives = 1, !.sessions = 1, !.boots = 1,
                             !.refresh = TRUE]
Unlocking == [Failing EXCEPT !.epochs = 1, !.lives = 1, !.sessions = 1, !.boots = 1,
                             !.unlocks = 1]

MCLive == {Failing, Repeating, Unlocking}

Within ==
  /\ desired' <= bound.revs /\ epoch' <= bound.epochs /\ life' <= bound.lives
  /\ nextSession' <= bound.sessions + 1 /\ unlocks' <= bound.unlocks /\ boot' <= bound.boots
  /\ LinkFail \/ AgentRestart => nextSession <= bound.sessions
  /\ bound.refresh \/ ~ScheduleRefresh
  /\ bound.faults \/ signature'.status \in {"none", "applied"} \/ Refused(signature'.id)

Bounded(A) == A /\ Within /\ UNCHANGED bound
MCNext == Bounded(Next)

MCInit == bound \in MCScenarios /\ Init
MCSpec == MCInit /\ [][MCNext]_<<vars, bound>>

\* Fairness of PolicySync, for what the scenario admits.
MCFairness ==
  /\ WF_vars(Bounded(RefreshRead)) /\ WF_vars(Bounded(RefreshPublish))
  /\ WF_vars(Bounded(Upgrade)) /\ WF_vars(Bounded(UpgradePublish)) /\ WF_vars(Bounded(Register))
  /\ WF_vars(Bounded(AgentGreet)) /\ WF_vars(Bounded(AgentSnapshot))
  /\ SF_vars(Bounded(AgentHeartbeat)) /\ SF_vars(Bounded(AgentReconcile))
  /\ WF_vars(Bounded(LinkDead))
  /\ \A s \in Sessions :
       /\ WF_vars(Bounded(SockStart(s))) /\ WF_vars(Bounded(SockGreet(s)))
       /\ WF_vars(Bounded(SockUpdate(s))) /\ WF_vars(Bounded(SockHealth(s)))
       /\ WF_vars(Bounded(SockAck(s))) /\ WF_vars(Bounded(SockBreak(s)))
       /\ WF_vars(Bounded(SockOffline(s)))

MCLiveInit == bound \in MCLive /\ Init
MCFairSpec == MCLiveInit /\ [][MCNext]_<<vars, bound>> /\ MCFairness
=============================================================================
