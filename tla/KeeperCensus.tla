---------------------------- MODULE KeeperCensus ----------------------------
(***************************************************************************)
(* What the probe of the Keeper members is to whoever reads its results:   *)
(* a census.  Every member listed is recorded once and in one step, in the *)
(* execution log and on the dashboard's panel; the two entries agree, bear *)
(* out what the member was, and are never changed by the record of         *)
(* another.  Who asks whom, what, in which order and into which file is    *)
(* left out.  KeeperProbe implements it.                                   *)
(***************************************************************************)

CONSTANTS
  Target,   \* the members there can be
  Machine,  \* the Keeper processes
  At        \* the one that a host leads to

VARIABLES
  members,  \* the members listed
  dry,      \* a dry run
  stage,    \* listing, asking, recorded, or over without a census
  entry,    \* what the log says of a member, nothing until it is recorded
  page,     \* what the panel reads of it, nothing if it has no file
  was       \* what each machine has been doing since the start

vars == <<members, dry, stage, entry, page, was>>

Doing == {"serving", "loading", "down"}
Verdict == {"ok", "not serving", "partial", "refused", "timeout", "failed"}
Reading == {"serving", "not serving", "probe failed", "unknown"}

Init ==
  /\ members \subseteq Target
  /\ dry \in BOOLEAN
  /\ stage \in {"listing", "over"}
  /\ entry = [t \in Target |-> {}]
  /\ page = [t \in Target |-> {}]
  /\ was \in [Machine -> {{d} : d \in Doing}]

Begin ==
  /\ stage = "listing"
  /\ stage' \in IF dry \/ members = {} THEN {"over"} ELSE {"over", "asking"}
  /\ UNCHANGED <<members, dry, entry, page, was>>

\* The log and the panel draw the same conclusion.
Agree(verdict, reading) ==
  /\ verdict = "not serving" <=> reading = "not serving"
  /\ verdict = "ok" => reading = "serving"
  /\ reading = "serving" => verdict \in {"ok", "partial"}
  /\ verdict \in {"refused", "timeout"} => reading = "probe failed"

WasServing(t) == "serving" \in was[At[t.host]]

WasLoading(t) == "loading" \in was[At[t.host]]

\* What the panel may read in the file of a member that the log says that of.
Readings(t, verdict) ==
  {reading \in Reading :
     /\ Agree(verdict, reading)
     /\ reading = "serving" => WasServing(t)
     /\ reading = "not serving" => WasLoading(t)}

Record(t) ==
  /\ stage = "asking" /\ entry[t] = {}
  /\ \E verdict \in Verdict :
       /\ entry' = [entry EXCEPT ![t] = {verdict}]
       /\ \E reading \in Readings(t, verdict) : page' = [page EXCEPT ![t] = {reading}]
  /\ UNCHANGED <<members, dry, stage, was>>

\* A file that cannot be written: the log says so.  What is left of it may read
\* better than it was, but never accuses the member of what it was not.
Lose(t) ==
  /\ stage = "asking" /\ entry[t] = {}
  /\ entry' = [entry EXCEPT ![t] = {"failed"}]
  /\ \/ UNCHANGED page
     \/ \E reading \in Reading :
          /\ reading = "not serving" => WasLoading(t)
          /\ page' = [page EXCEPT ![t] = {reading}]
  /\ UNCHANGED <<members, dry, stage, was>>

Conclude ==
  /\ stage = "asking" /\ \A t \in members : entry[t] # {}
  /\ stage' = "recorded"
  /\ UNCHANGED <<members, dry, entry, page, was>>

\* The members go on with their lives.
Change(m) ==
  /\ stage = "asking"
  /\ \E d \in Doing : was' = [was EXCEPT ![m] = @ \cup {d}]
  /\ UNCHANGED <<members, dry, stage, entry, page>>

Next ==
  \/ Begin \/ Conclude
  \/ \E t \in members : Record(t) \/ Lose(t)
  \/ \E m \in Machine : Change(m)

Spec == Init /\ [][Next]_vars
=============================================================================
