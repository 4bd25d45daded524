----------------------------- MODULE MCTelemetry -----------------------------
(***************************************************************************)
(* The scenarios under which TLC explores Telemetry.                       *)
(***************************************************************************)
EXTENDS Telemetry

Quiet == [batches |-> 2, sizes |-> {1}, boots |-> 1, fault |-> 0, crash |-> 0, rival |-> 0]

\* Batches of every size, larger than the buffer too, with one fault.
Crowded == [Quiet EXCEPT !.batches = 3, !.sizes = {1, 2, 3}, !.fault = 1]

\* Two faults: a late copy and a lost answer, an unsaved file and a refusal.
Faulty == [Quiet EXCEPT !.fault = 2]

\* The Agent restarts with requests on their way.
Restarting == [Quiet EXCEPT !.boots = 2, !.fault = 1]

\* The Collector restarts in the middle of a request.
Crashing == [Quiet EXCEPT !.batches = 3, !.crash = 1, !.fault = 1]

\* Another device takes the gateway's row over.
Contended == [Quiet EXCEPT !.rival = 1, !.boots = 2]

MCScenarios == {Crowded, Faulty, Restarting, Crashing, Contended}
=============================================================================
