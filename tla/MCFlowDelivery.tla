--------------------------- MODULE MCFlowDelivery ---------------------------
(***************************************************************************)
(* The scenarios under which TLC explores FlowDelivery.                    *)
(***************************************************************************)
EXTENDS FlowDelivery

CONSTANT First     \* the flow of the scenarios with one

\* The Agent reboots and connects again; decisions of the old boot are late.
Rebooting == [flows |-> {First}, revs |-> 1, boots |-> 2, sessions |-> 2, decisions |-> 1]
Lagging   == [flows |-> {First}, revs |-> 1, boots |-> 2, sessions |-> 1, decisions |-> 2]

\* Two flows share the queue and the window.
Crowding  == [flows |-> Flows, revs |-> 1, boots |-> 1, sessions |-> 1, decisions |-> 2]

\* Policies change, or newer packets come, while decisions are on their way.
Revising  == [flows |-> {First}, revs |-> 2, boots |-> 1, sessions |-> 1, decisions |-> 2]
Racing    == [flows |-> {First}, revs |-> 1, boots |-> 1, sessions |-> 1, decisions |-> 3]

\* Policies change and the Agent connects again.
Reconnecting == [flows |-> {First}, revs |-> 2, boots |-> 1, sessions |-> 2, decisions |-> 1]

MCScenarios == {Rebooting, Lagging, Crowding, Revising, Racing}
MCLive == {Reconnecting}
=============================================================================
