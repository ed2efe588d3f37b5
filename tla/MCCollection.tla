--------------------------- MODULE MCCollection ---------------------------
(***************************************************************************)
(* Collection for TLC.  One time unit is about 15 s for the watchdog and   *)
(* the timeouts; the probe's thresholds are scaled on their own.           *)
(***************************************************************************)
EXTENDS Collection

MCPauses == {0, 5}

MCGentleSettings == <<"max_threads", "max_memory_usage", "priority">>

\* Header and need of collectors 1, 2, 3 of the query directory.
Catalogue(h1, h2, h3, waiting) ==
  [header |-> <<h1, h2, h3>>, needs |-> [c \in 1..3 |-> c \in waiting]]

Invoke(requested, budget, timeout, explicit, catalogue, refused, after) ==
  [requested |-> requested, budget |-> budget, queryTimeout |-> timeout,
   timeoutExplicit |-> explicit, header |-> catalogue.header,
   needsKeeper |-> catalogue.needs, refused |-> refused, later |-> after]

Mixed  == Catalogue("full", "essential", "full", {1})
Typo   == Catalogue("essential", "typo", "essential", {3})
Broken == Catalogue("full", "empty", "unreadable", {1})

\* The default timeout, an operator's own (1) and none (0); a budget of the
\* operator's (3) and none.
MCConfigs ==
  UNION {
    {Invoke("auto", b, DefaultQueryTimeout, FALSE, k, {}, <<>>) :
       b \in {0, 3}, k \in {Mixed, Broken}},
    {Invoke("essential", b, DefaultQueryTimeout, FALSE, Typo, {"priority"}, <<>>) :
       b \in {0, 3}},
    {Invoke("full", b, 1, TRUE, Mixed, {}, <<>>) : b \in {0, 3}},
    {Invoke("auto", 0, 1, TRUE, Typo, {"priority"},
            <<"text_log", "zookeeper_connection">>)},
    {Invoke("auto", 3, 0, TRUE, Mixed, {}, <<>>)}}

Healthy == [ZeroSignals EXCEPT !.sessions = 1]

Reply(failed, signals, limits, maxConcurrent, memoryLimit, ratio, ram) ==
  [failed |-> failed, signals |-> signals, limits |-> limits,
   maxConcurrent |-> maxConcurrent, memoryLimit |-> memoryLimit,
   ratio |-> ratio, ram |-> ram]

MCProbeReplies ==
  {Reply(FALSE, Healthy, TRUE, 10, 0, 0, 10),
   Reply(FALSE, [Healthy EXCEPT !.readonly = 1, !.sessions = 0], FALSE, 0, 0, 0, 0),
   Reply(TRUE, ZeroSignals, FALSE, 0, 0, 0, 0)}
=============================================================================
