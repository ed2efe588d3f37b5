---------------------------- MODULE MCPackaging ----------------------------
(***************************************************************************)
(* Packaging for TLC: two runs, which may share a directory or not.        *)
(***************************************************************************)
EXTENDS Packaging

Invocation(gov, skipDashboard, alerts, skipArchive) ==
  [gov |-> gov, skipDashboard |-> skipDashboard, alerts |-> alerts,
   skipArchive |-> skipArchive]

\* A plain run; a gov run; without a dashboard; without an archive.
MCFlags ==
  {Invocation(FALSE, FALSE, TRUE, FALSE), Invocation(TRUE, FALSE, TRUE, FALSE),
   Invocation(FALSE, TRUE, TRUE, FALSE), Invocation(TRUE, FALSE, FALSE, TRUE),
   Invocation(TRUE, FALSE, FALSE, FALSE)}

Shared == place["r1"] = place["r2"]

\* Two runs with the fewest files, results and log, which share a directory that
\* is not removed while one of them is in it; or one run of its own, which may
\* lose its directory at any time, beside one that does not begin.
Scope ==
  /\ place["r1"] = "p1"
  /\ flags["r2"] = Invocation(TRUE, FALSE, FALSE, FALSE)
  /\ IF Shared
     THEN /\ flags["r1"] = flags["r2"]
          /\ "p1" \in gone => \A r \in Run : pc[r] \in {"start"} \cup Ended
     ELSE pc["r2"] = "start" /\ flags["r1"] # flags["r2"]
=============================================================================
