---------------------------- MODULE Publication ----------------------------
(***************************************************************************)
(* What a run of clickhouse-diagnostic promises about its archive,         *)
(* whatever happens on its way: a reader that opens a name finds nothing,  *)
(* or the whole archive of one run.  A run publishes at most once; one     *)
(* that reports failure has published nothing.  A run that reports success *)
(* may have had nothing to publish, and a killed one may have published.   *)
(***************************************************************************)

CONSTANTS
  Run,    \* the runs of the program
  Place,  \* the names of archives
  None    \* no run

VARIABLES
  place,  \* the name of each run's archive
  shown,  \* the run whose archive a reader finds under a name
  life    \* how far each run is: running, or published, or how it ended

pubvars == <<place, shown, life>>

Life == {"running", "published", "success", "failure", "killed"}

Alive(r) == life[r] \in {"running", "published"}

PubInit ==
  /\ place \in [Run -> Place]
  /\ shown = [p \in Place |-> None]
  /\ life = [r \in Run |-> "running"]

\* The archive appears in one step, in the place of what was there.
Publish(r) ==
  /\ life[r] = "running"
  /\ shown' = [shown EXCEPT ![place[r]] = r]
  /\ life' = [life EXCEPT ![r] = "published"]
  /\ UNCHANGED place

\* os.Exit(0), or the end of main.
Succeed(r) ==
  /\ Alive(r)
  /\ life' = [life EXCEPT ![r] = "success"]
  /\ UNCHANGED <<place, shown>>

\* os.Exit(1).
Fail(r) ==
  /\ life[r] = "running"
  /\ life' = [life EXCEPT ![r] = "failure"]
  /\ UNCHANGED <<place, shown>>

Die(r) ==
  /\ Alive(r)
  /\ life' = [life EXCEPT ![r] = "killed"]
  /\ UNCHANGED <<place, shown>>

PubNext == \E r \in Run : Publish(r) \/ Succeed(r) \/ Fail(r) \/ Die(r)

PubSpec == PubInit /\ [][PubNext]_pubvars
=============================================================================
