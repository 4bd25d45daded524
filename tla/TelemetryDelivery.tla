-------------------------- MODULE TelemetryDelivery --------------------------
(***************************************************************************)
(* What the telemetry transport promises, without the buffer, the          *)
(* credentials, the HTTP requests or the database that keep the promise:   *)
(* the batches of one Agent process are stored in the order in which they  *)
(* were submitted, a batch is given up only because a full buffer makes    *)
(* room for a newer one or because its process has ended, and what was     *)
(* given up is never stored afterwards.  Telemetry implements this.        *)
(***************************************************************************)
EXTENDS Naturals

CONSTANT Boots   \* processes of the Agent

VARIABLES
  submitted,   \* the number of the last batch; a number is never used twice
  running,     \* the process that is up, as a set of at most one
  open,        \* per process, the batches neither stored nor given up
  log          \* per process, the stored batches

vars == <<submitted, running, open, log>>

TypeOK ==
  /\ submitted \in Nat
  /\ running \in SUBSET Boots
  /\ open \in [Boots -> SUBSET Nat]
  /\ log \in [Boots -> SUBSET Nat]

Init ==
  /\ submitted = 0
  /\ running = {}
  /\ open = [b \in Boots |-> {}]
  /\ log = [b \in Boots |-> {}]

\* A process starts; nothing of it is open or stored yet.
Start(b) ==
  /\ running = {}
  /\ open[b] = {} /\ log[b] = {}
  /\ running' = {b}
  /\ UNCHANGED <<submitted, open, log>>

\* The batches a full buffer gives up are its oldest ones; the one at the very
\* front may survive them, being in the sender's hands and not in the buffer.
Evictable(s) ==
  {d \in SUBSET s : \A x \in d, k \in s \ d : x < k \/ \A y \in s : k <= y}

\* The running process submits the next batch, or has it refused.
Submit(b) ==
  /\ b \in running
  /\ submitted' = submitted + 1
  /\ \/ UNCHANGED open
     \/ \E d \in Evictable(open[b]) :
          open' = [open EXCEPT ![b] = (@ \ d) \cup {submitted'}]
  /\ UNCHANGED <<running, log>>

\* The oldest open batch is stored, perhaps after its process has ended.
Store(b) ==
  \E x \in open[b] :
    /\ \A y \in open[b] : x <= y
    /\ open' = [open EXCEPT ![b] = @ \ {x}]
    /\ log' = [log EXCEPT ![b] = @ \cup {x}]
    /\ UNCHANGED <<submitted, running>>

\* The process ends; a request it left on its way may still be answered, so
\* that its last batch may stay open.
End(b) ==
  /\ b \in running
  /\ running' = {}
  /\ \E s \in SUBSET open[b] : open' = [open EXCEPT ![b] = s]
  /\ UNCHANGED <<submitted, log>>

\* Requests that ended processes left on their way are lost.
Abandon ==
  /\ open' \in [Boots -> SUBSET Nat]
  /\ \A b \in Boots : /\ open'[b] \subseteq open[b]
                      /\ b \in running => open'[b] = open[b]
  /\ UNCHANGED <<submitted, running, log>>

Next == Abandon \/ \E b \in Boots : Start(b) \/ Submit(b) \/ Store(b) \/ End(b)

Spec == Init /\ [][Next]_vars

-----------------------------------------------------------------------------
\* submit and ingest_batches: a stored batch precedes every open one of its
\* process, every batch belongs to one process, and none is numbered beyond
\* what was submitted.
Ordered ==
  \A b \in Boots :
    /\ \A x \in log[b], y \in open[b] : x < y
    /\ \A x \in log[b] \cup open[b] : x <= submitted
    /\ \A c \in Boots \ {b} : (log[b] \cup open[b]) \cap (log[c] \cup open[c]) = {}

\* sender_loop and the ingest table: what a step stores is newer than everything
\* its process had stored before, so nothing is stored twice or out of order.
StoredInOrder ==
  [][\A b \in Boots : /\ log[b] \subseteq log'[b]
                      /\ \A x \in log'[b] \ log[b], y \in log[b] : y < x]_vars
=============================================================================
