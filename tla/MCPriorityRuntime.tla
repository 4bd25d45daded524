------------------------- MODULE MCPriorityRuntime -------------------------
(* Instances of PriorityRuntime for TLC.                                   *)
EXTENDS PriorityRuntime, TLC

\* A client that leaves while the limit of another changes, and a rate above
\* the capacity of a port.
BudgetSnapshots ==
  {[rev |-> 1, rate |-> (1 :> 1 @@ 2 :> 1)],
   [rev |-> 2, rate |-> (1 :> 0 @@ 2 :> 2)],
   [rev |-> 3, rate |-> (1 :> 3 @@ 2 :> 0)]}
=============================================================================
