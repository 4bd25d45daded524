------------------------------ MODULE MCRollups ------------------------------
(***************************************************************************)
(* The scenarios under which TLC explores Rollups.                         *)
(***************************************************************************)
EXTENDS Rollups

App(a, c) == [app |-> a, conf |-> c, proto |-> FALSE]
Proto == [Unknown EXCEPT !.proto = TRUE]

\* Traffic is classified late, across an hour and a day.
Correcting ==
  [now |-> 4, starts |-> {0}, incoming |-> {Unknown, App(1, 1), App(2, 2)}, deltas |-> 2,
   samples |-> 1, sweeps |-> 2, restarts |-> 0]

\* Two lifetimes, a protocol before an application.
Overlapping ==
  [now |-> 2, starts |-> {0, 1}, incoming |-> {Unknown, Proto, App(1, 1)}, deltas |-> 2,
   samples |-> 1, sweeps |-> 1, restarts |-> 0]

\* Restarts and clean-up slices while sessions go on.
Restarting ==
  [now |-> 3, starts |-> {0, 1}, incoming |-> {App(1, 1)}, deltas |-> 3,
   samples |-> 0, sweeps |-> 2, restarts |-> 1]

\* A late classification on either side of a restart.
Relearning ==
  [now |-> 2, starts |-> {0}, incoming |-> {Unknown, App(1, 1)}, deltas |-> 2,
   samples |-> 1, sweeps |-> 1, restarts |-> 1]

MCScenarios == {Correcting, Overlapping, Restarting, Relearning}
=============================================================================
