------------------------------ MODULE MCInvocation ------------------------------
(* Invocations in groups, each of which varies what belongs together: how the   *)
(* mode is spelt and what gov refuses; where local files and the server are;    *)
(* the windows and zones of an analysis; dry runs; and folders of query files   *)
(* for several versions.  Hours are counted from 1000.                          *)
EXTENDS Invocation

MCCanonical ==
  [s \in {"cloud", "onprem", "on-prem", "gov"} |-> IF s = "on-prem" THEN "onprem" ELSE s]

MCVersionOf ==
  [d \in {"23.8.0.0", "24.3.0.0", "24.10.0.0", "24.3.2.0"} |->
     CASE d = "23.8.0.0" -> <<23, 8, 0, 0>> [] d = "24.3.0.0" -> <<24, 3, 0, 0>>
       [] d = "24.10.0.0" -> <<24, 10, 0, 0>> [] d = "24.3.2.0" -> <<24, 3, 2, 0>>]

F(dir, name) == [dir |-> dir, name |-> name]

MCBack ==
  [n \in {"parts.sql", "query_log.sql", "text_log.sql", "broken.sql", ".x.sql", "notes"} |->
     CASE n = "query_log.sql" -> 168 [] n = "text_log.sql" -> 24 [] n = "broken.sql" -> 0
       [] OTHER -> Windowless]

MCNeeds ==
  [n \in {"by_id.sql", "by_hash.sql"} |-> IF n = "by_id.sql" THEN {"id"} ELSE {"hash"}]

\* Two collectors and one that is not valid.
Small == <<F(<<"24.3.0.0">>, "query_log.sql"), F(<<>>, "parts.sql")>>

\* In the order of a walk.
Deep == <<F(<<>>, ".x.sql"), F(<<".git", "24.3.0.0">>, "parts.sql"),
          F(<<"23.8.0.0">>, "parts.sql"), F(<<"24.10.0.0">>, "parts.sql"),
          F(<<"24.3.0.0">>, "parts.sql"), F(<<"24.3.0.0">>, "query_log.sql"),
          F(<<"24.3.2.0">>, "query_log.sql"), F(<<"old">>, "notes"), F(<<>>, "parts.sql"),
          F(<<>>, "text_log.sql")>>

Analysis == <<F(<<"24.3.0.0">>, "by_id.sql"), F(<<>>, "by_hash.sql"), F(<<>>, "by_id.sql")>>

All(folder) == [m \in Mode |-> folder]

Ran(id, hash, at, took, here) ==
  [id |-> id, hash |-> hash, at |-> at, took |-> took, here |-> here]

World ==
  [smt |-> FALSE, here |-> TRUE, zone |-> 0, version |-> <<24, 8, 1, 0>>,
   folders |-> All(Small), analysis |-> Analysis,
   executions |-> {Ran("q", "h", 700, 2, TRUE)}]

Plain ==
  [orderly |-> TRUE, explicit |-> TRUE, mode |-> "onprem", tty |-> FALSE, answer |-> "",
   dry |-> FALSE, from |-> None, to |-> None, configDir |-> FALSE, skipConfig |-> FALSE,
   host |-> "auto", logs |-> "auto", keeper |-> "auto", textLog |-> FALSE,
   queryID |-> None, hash |-> None, collect |-> "essential", singleNode |-> FALSE,
   salt |-> "", typed |-> "", skipDashboard |-> FALSE, skipAlerts |-> TRUE]

S(fs, ws) == {[flags |-> f, world |-> w] : f \in fs, w \in ws}

One == [World EXCEPT !.folders = All(<<F(<<>>, "query_log.sql")>>)]

\* Spellings of the mode, and what gov refuses.
Modes ==
  LET spelt == {[Plain EXCEPT !.mode = m] : m \in {"gov", "govv"}}
                 \cup {[Plain EXCEPT !.explicit = FALSE, !.tty = TRUE, !.answer = a] :
                         a \in {"gov", "vog"}}
      salted == UNION {{[f EXCEPT !.salt = "good"], [f EXCEPT !.salt = "bad"],
                        [f EXCEPT !.typed = "good"], [f EXCEPT !.typed = "bad"]} : f \in spelt}
      wished == UNION {{f, [f EXCEPT !.host = "on"], [f EXCEPT !.logs = "on"],
                        [f EXCEPT !.queryID = "q"], [f EXCEPT !.hash = "h"],
                        [f EXCEPT !.textLog = TRUE, !.from = 900, !.to = 990],
                        [f EXCEPT !.configDir = TRUE]} : f \in salted}
  IN  S(wished, {One, [One EXCEPT !.smt = TRUE]})

\* Where the files are, and how many replicas there are.
Places ==
  S({[Plain EXCEPT !.mode = m, !.host = h, !.logs = h, !.skipConfig = c, !.configDir = d,
                   !.keeper = k, !.singleNode = n] :
       m \in {"onprem", "cloud"}, h \in {"auto", "on"}, c, d \in BOOLEAN, k \in {"off"},
       n \in BOOLEAN},
    {[One EXCEPT !.smt = s, !.here = h] : s, h \in BOOLEAN})

\* Windows that were asked for, and an essential collection.
Bounds == {<<None, None>>, <<400, None>>, <<None, 990>>, <<900, 990>>, <<400, 500>>, <<990, 900>>,
           <<900, 900>>}

Asking ==
  S({[Plain EXCEPT !.from = b[1], !.to = b[2], !.collect = c, !.textLog = t,
                   !.skipConfig = TRUE, !.host = "off", !.logs = "off", !.keeper = "off"] :
       b \in Bounds, c \in {"auto", "essential", "full"}, t \in BOOLEAN},
    {[One EXCEPT !.folders = All(<<F(<<>>, "query_log.sql"), F(<<>>, "text_log.sql"),
                                   F(<<>>, "broken.sql")>>)]})

\* Analyses, on servers in several zones, of queries that ran here or elsewhere.
Analyses ==
  S({[Plain EXCEPT !.mode = m, !.queryID = q[1], !.hash = q[2], !.from = b[1], !.to = b[2],
                   !.skipConfig = TRUE, !.host = "off", !.logs = "off", !.keeper = "off"] :
       m \in {"onprem", "cloud"}, q \in {<<"q", None>>, <<None, "h">>, <<"q", "h">>, <<"r", None>>},
       b \in Bounds \ {<<900, 990>>, <<990, 900>>}},
    {[One EXCEPT !.zone = z, !.smt = s,
                 !.executions = {Ran("q", "h", 700, 2, here), Ran("p", "h", 950, 5, TRUE)}] :
       z \in {-12, 2, 14}, s, here \in BOOLEAN})

Dry ==
  S({[Plain EXCEPT !.dry = TRUE, !.mode = m, !.queryID = q, !.collect = c, !.host = h,
                   !.textLog = t, !.from = 900, !.to = 990] :
       m \in Mode, q \in {None, "q"}, c \in {"auto", "essential"}, h \in {"auto", "on"},
       t \in BOOLEAN},
    {[World EXCEPT !.smt = s, !.executions = {Ran("q", "h", 950, 2, TRUE)}] : s \in BOOLEAN})

Versions ==
  S({[Plain EXCEPT !.mode = m] : m \in {"onprem", "cloud"}},
    {[World EXCEPT !.folders = All(f), !.version = v] :
       f \in {Deep, <<F(<<"24.10.0.0">>, "parts.sql")>>},
       v \in {<<22, 8, 1, 1>>, <<23, 8, 0, 0>>, <<24, 3, 1, 0>>, <<24, 3, 2, 0>>, <<24, 9, 9, 9>>,
              <<24, 10, 0, 0>>, <<25, 1, 0, 0>>}})

MCScenarios ==
  Modes \cup Places \cup Asking \cup Analyses \cup Dry \cup Versions
    \cup S({[Plain EXCEPT !.orderly = FALSE], [Plain EXCEPT !.explicit = FALSE],
            [Plain EXCEPT !.explicit = FALSE, !.tty = TRUE], [Plain EXCEPT !.mode = "on-prem"], [Plain EXCEPT !.skipAlerts = FALSE],
            [Plain EXCEPT !.skipDashboard = TRUE, !.skipAlerts = FALSE]}, {One})
=============================================================================
