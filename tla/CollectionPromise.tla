------------------------- MODULE CollectionPromise -------------------------
(***************************************************************************)
(* What a collection promises its operator, whatever the server does and   *)
(* however the watchdog, the budget and the timeouts work: every selected  *)
(* collector has one turn and one outcome; the essential ones have theirs  *)
(* first; the run may become essential once, never back and never when a   *)
(* full collection was promised; and from then on nothing of the full tier *)
(* is started.  Collection implements it.                                  *)
(***************************************************************************)
CONSTANT Collector

VARIABLES
  promised,   \* -collect full was given
  tier,       \* per collector: "essential" or "full"
  essential,  \* the run has become essential
  outcome     \* per collector

vars == <<promised, tier, essential, outcome>>

Outcomes == {"pending", "running", "collected", "empty", "failed", "skipped"}

Init ==
  /\ promised \in BOOLEAN
  /\ tier \in [Collector -> {"essential", "full"}]
  /\ essential = FALSE
  /\ outcome = [c \in Collector |-> "pending"]

\* c's turn has come: no collector is running, and every essential collector
\* had its turn before one of the full tier.
HasTurn(c) ==
  /\ outcome[c] = "pending"
  /\ \A b \in Collector : outcome[b] # "running"
  /\ tier[c] = "full" =>
       \A b \in Collector : tier[b] = "essential" => outcome[b] # "pending"

BecomeEssential ==
  /\ ~promised
  /\ essential' = TRUE
  /\ UNCHANGED <<promised, tier, outcome>>

Take(c) ==
  /\ HasTurn(c)
  /\ essential => tier[c] = "essential"
  /\ outcome' = [outcome EXCEPT ![c] = "running"]
  /\ UNCHANGED <<promised, tier, essential>>

\* A turn that sends nothing.
Pass(c) ==
  /\ HasTurn(c)
  /\ \E o \in {"empty", "failed", "skipped"} : outcome' = [outcome EXCEPT ![c] = o]
  /\ UNCHANGED <<promised, tier, essential>>

\* How a query ends may be what makes the run essential.
Settle(c) ==
  /\ outcome[c] = "running"
  /\ \E o \in {"collected", "failed"} : outcome' = [outcome EXCEPT ![c] = o]
  /\ essential' \in {essential, ~promised \/ essential}
  /\ UNCHANGED <<promised, tier>>

Next ==
  \/ BecomeEssential
  \/ \E c \in Collector : Take(c) \/ Pass(c) \/ Settle(c)

Spec == Init /\ [][Next]_vars
=============================================================================
