---------------------------- MODULE MCAgentFlows ----------------------------
(* The two directions of one client connection as the Agent may see them,  *)
(* and the scenarios: each is a run of its own, chosen in Init.            *)
EXTENDS AgentFlows

Lan == Key("up", 1, "lan")
Wan == Key("wanr", 1, "wan")
MCFlows == {Lan, Wan}

Quiet == [flows |-> {Lan}, macs |-> {"m"}, ops |-> {"block", "revoke"}, nat |-> "snat",
          command |-> 2, revision |-> 1, change |-> 0, stop |-> 0, prune |-> 0, fault |-> 0, tick |-> 0,
          ttl |-> 1, claims |-> 12]
Owners   == [Quiet EXCEPT !.flows = MCFlows, !.ops = {"block", "allow", "revoke"}, !.command = 3]
Shaping  == [Quiet EXCEPT !.flows = MCFlows, !.ops = {"block", "shape", "revoke"}, !.command = 3]
Expiring == [Quiet EXCEPT !.flows = MCFlows, !.ops = {"block"}, !.tick = 1, !.claims = 10]
Failing  == [Quiet EXCEPT !.ops = Ops, !.macs = {"m", "n", None}, !.fault = 1]
Changing == [Quiet EXCEPT !.change = 1, !.fault = 1]
Reviving == [Quiet EXCEPT !.flows = MCFlows, !.ops = {"block"}, !.change = 1]
Stopping == [Quiet EXCEPT !.stop = 1, !.fault = 1]
Pruning  == [Quiet EXCEPT !.prune = 1, !.command = 3, !.tick = 1, !.ttl = 2]
Revising == [Quiet EXCEPT !.ops = {"block", "shape", "revoke"}, !.revision = 2, !.fault = 1]
Proxied  == [Quiet EXCEPT !.ops = Ops, !.nat = "redirect", !.command = 3]
MCScenarios == {Owners, Shaping, Expiring, Failing, Changing, Reviving, Stopping, Pruning,
                Revising, Proxied}

\* One change of the interfaces and nothing that fails.
MCChange == {[Quiet EXCEPT !.change = 1]}
=============================================================================
