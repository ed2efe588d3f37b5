------------------------------ MODULE MCAlerts ------------------------------
(***************************************************************************)
(* Alerts for TLC: two collectors, the data a check reads and the list of  *)
(* the replicas with the table; two replicas; three directories of rules.  *)
(***************************************************************************)
EXTENDS Alerts

Rule(definition, modes, check, reads, presence, tier, needsKeeper, safe, problem, has) ==
  [definition |-> definition, modes |-> modes, check |-> check, reads |-> reads,
   presence |-> presence, tier |-> tier, needsKeeper |-> needsKeeper, safe |-> safe,
   problem |-> problem, has |-> has]

Query(tier, keeper, problem, has) ==
  Rule("ok", {}, "none", <<>>, NoSource, tier, keeper, TRUE, problem, has)

Check(modes, reads, presence, keeper, problem, has) ==
  Rule("ok", modes, "registered", reads, presence, "full", keeper, TRUE, problem, has)

Checks(problem, has) ==
  <<Check({}, <<"data">>, "presence", TRUE, problem, has),
    Check({"onprem", "gov"}, <<"presence", "data">>, NoSource, FALSE, problem, has)>>

Queries(problem, has) ==
  <<Query("essential", FALSE, problem, has),
    Check({}, <<"data">>, NoSource, TRUE, problem, has),
    Query("full", TRUE, problem, has)>>

Bad(problem, has) ==
  <<Rule("typo", {"gov"}, "none", <<>>, NoSource, "full", TRUE, TRUE, problem, has),
    Rule("unreadable", {}, "registered", <<"data">>, NoSource, "full", FALSE, TRUE, problem, has),
    Rule("ok", {}, "unknown", <<"data">>, NoSource, "essential", FALSE, TRUE, problem, has),
    Rule("ok", {}, "registered", <<"data">>, NoSource, "full", FALSE, FALSE, problem, has)>>

Logged(status, error) == [status |-> status, error |-> error]

\* Every way a collector can end, with the file it leaves.
DataEnds ==
  {<<Logged("ok", "none"), "whole">>, <<Logged("ok", "none"), "garbled">>,
   <<Logged("failed", "other"), "cut">>, <<Logged("failed", "other"), "garbled">>,
   <<Logged("failed", "unknown table"), "none">>,
   <<Logged("failed", "unknown table, cut off"), "none">>,
   <<Logged("skipped", "none"), "none">>, <<Logged("empty", "none"), "none">>}

PresenceEnds ==
  {<<Logged("ok", "none"), "whole">>, <<Logged("failed", "other"), "cut">>,
   <<Logged("none", "none"), "none">>}

Collected == <<Logged("ok", "none"), "whole">>

Grants == {{}, {"database"}, {"database", "table"}}

Presence == {{}, {"r1"}, Replica}

\* A run is full, essential, or without Keeper; its budget has no end, or one
\* in the course of the phase.
Case(mode, bundle, kind, deadline, limit, sees, data, presence, rules) ==
  [mode |-> mode, bundle |-> bundle, essential |-> kind = "essential",
   keeperDown |-> kind = "no keeper", deadline |-> deadline, limit |-> limit, sees |-> sees,
   entry |-> [s \in Source |-> IF s = "data" THEN data[1] ELSE presence[1]],
   file  |-> [s \in Source |-> IF s = "data" THEN data[2] ELSE presence[2]],
   rules |-> rules]

\* Checks over every end of their collectors; rules with queries under every
\* gate and every view of the cluster; broken rules.
MCCases ==
  UNION {
    {Case(mode, TRUE, kind, 2, 2, sees, data, presence, Checks(problem, has)) :
       mode \in Mode, kind \in {"essential", "no keeper"}, sees \in {{}, {"database", "table"}},
       data \in DataEnds, presence \in PresenceEnds, problem \in BOOLEAN,
       has \in {{}, {"r1"}}},
    {Case(mode, bundle, kind, deadline, 2, sees, Collected, Collected, Queries(TRUE, has)) :
       mode \in Mode, bundle \in BOOLEAN, kind \in {"full", "essential", "no keeper"},
       deadline \in {0, 2}, sees \in Grants, has \in Presence},
    {Case(mode, FALSE, "full", 2, limit, {"database", "table"}, Collected, Collected,
          Queries(FALSE, has)) :
       mode \in Mode, limit \in {0, 1}, has \in Presence},
    {Case(mode, bundle, kind, 2, 1, {"database"}, Collected, Collected, Bad(problem, {"r1"})) :
       mode \in Mode, bundle \in BOOLEAN, kind \in {"full", "essential"}, problem \in BOOLEAN}}
=============================================================================
