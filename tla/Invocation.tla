------------------------------- MODULE Invocation -------------------------------
(***************************************************************************)
(* One invocation of clickhouse-diagnostic as main (cmd/main.go) conducts  *)
(* it: the flags and the mode they come to, what the mode withholds, the   *)
(* probes and what they decide, the dry run, the query analysis, the salt, *)
(* the collectors with their files and windows, and what is written.       *)
(*                                                                         *)
(* A query is what it is for, whether it reads one replica or all, whether *)
(* the salt is in it, and its window.  What the server answers is chosen   *)
(* at each query; the collection mode is CollectMode's, the retries and    *)
(* timeouts of the collectors are Collection's, and the packing of the     *)
(* bundle is Packaging's.                                                  *)
(***************************************************************************)
EXTENDS Selection, Windows

CONSTANTS
  Canonical, \* modeAliases: the mode for each spelling that is understood
  Scenarios, \* pairs of an invocation and of where it takes place
  Back,      \* for each query file, its look-back
  Needs,     \* for each analysis file, the placeholders in it
  Now        \* the hour

Mode == {"cloud", "onprem", "gov"}

Setting == {"auto", "on", "off"}

\* What is not modelled of a flag: how it is written.  orderly: the flags that
\* are checked as they are parsed are right.
Flag ==
  [orderly : BOOLEAN, explicit : BOOLEAN, mode : STRING, tty : BOOLEAN, answer : STRING,
   dry : BOOLEAN, from : Int \cup {None}, to : Int \cup {None}, configDir : BOOLEAN, skipConfig : BOOLEAN,
   host : Setting, logs : Setting, keeper : Setting, textLog : BOOLEAN,
   queryID : {None} \cup STRING, hash : {None} \cup STRING,
   collect : {"auto", "essential", "full"}, singleNode : BOOLEAN,
   salt : STRING, typed : STRING, skipDashboard : BOOLEAN, skipAlerts : BOOLEAN]

\* What is there: replicas, the machine that the tool runs on, the server's zone
\* and version, the query files, and the executions in query_log.
Place ==
  [smt : BOOLEAN, here : BOOLEAN, zone : Int, version : Version,
   folders : [Mode -> Seq([dir : Seq(STRING), name : STRING])],
   analysis : Seq([dir : Seq(STRING), name : STRING]),
   executions : SUBSET [id : STRING, hash : STRING, at : Int, took : Int, here : BOOLEAN]]

ASSUME InvocationAssumption ==
  /\ \A s \in DOMAIN Canonical : Canonical[s] \in Mode
  /\ \A s \in Scenarios : s.flags \in Flag /\ s.world \in Place
  /\ \A name \in DOMAIN Back : Back[name] \in Nat \cup {Windowless}
  /\ Now \in Int

VARIABLES
  flags,    \* the invocation
  world,    \* folders, executions of queries, zone and version of the server
  pc,
  outcome,  \* how it ended
  mode,     \* what was asked for
  effective,\* what is collected
  withheld, \* what is skipped: config, host, logs, keeper
  wary,     \* the operator was told that two hosts are mixed
  client,   \* whether SetDryRun was called
  sent,     \* the queries that the server got
  answered, \* the probes that were answered
  load,     \* what the load probe decided
  salt,
  focus,    \* AnalysisOpts: query id, hash, and window
  todo,     \* the collectors that are left
  bundle,   \* what the run directory holds
  outside   \* what else is on this machine

flow == <<pc, outcome, outside>>
setup == <<mode, effective, withheld, wary>>
server == <<sent, answered, load>>
vars == <<flags, world, flow, setup, client, server, salt, focus, todo, bundle>>

NoFocus == [id |-> None, hash |-> None, from |-> None, to |-> None]

NoLoad == [essential |-> FALSE, keeperDown |-> FALSE, large |-> FALSE]

Init ==
  /\ \E s \in Scenarios : flags = s.flags /\ world = s.world
  /\ pc = "flags" /\ outcome = "running"
  /\ mode = "" /\ effective = "" /\ withheld = {} /\ wary = FALSE
  /\ client = "live"
  /\ sent = {} /\ answered = {} /\ load = NoLoad
  /\ salt = "" /\ focus = NoFocus /\ todo = {}
  /\ bundle = {} /\ outside = {}

Go(from, to) == pc = from /\ pc' = to /\ UNCHANGED <<outcome, outside>>

\* main returns, and a temporary directory goes when it does, or exits.
Stop(from, how) ==
  /\ pc = from /\ pc' = "end" /\ outcome' = how
  /\ outside' = outside \ {"temporary"}

Query(what, reads) ==
  [what |-> what, reads |-> reads, salted |-> salt = "good", file |-> None,
   lo |-> None, hi |-> None]

\* SysTable: a table that each replica has its own of.
Reads(m) == IF m = "cloud" THEN "all" ELSE "one"

\* ExecuteQueryReal.
SendReal(q) == sent' = sent \cup {q}

\* ExecuteQuery: a dry run sends EXPLAIN ESTIMATE in place of the query.
Send(q) == SendReal(IF client = "dry" THEN [q EXCEPT !.what = "estimate"] ELSE q)

-----------------------------------------------------------------------------
(* Flags, mode, and what the mode withholds.                               *)

\* -to and -from may be the same.
Inverted == flags.from # None /\ flags.to # None /\ flags.to < flags.from

ParseFlags ==
  /\ IF flags.orderly /\ ~Inverted THEN Go("flags", "mode") ELSE Stop("flags", "refused")
  /\ UNCHANGED <<flags, world, setup, client, server, salt, focus, todo, bundle>>

\* Mutant of Resolved: what is not understood is onprem.
ResolvedByDefault ==
  LET raw == IF flags.explicit THEN flags.mode ELSE flags.answer IN
  IF raw \in DOMAIN Canonical THEN {Canonical[raw]} ELSE {"onprem"}

\* resolveMode: nothing if there is no telling.  Reading the answer may fail.
Resolved ==
  LET raw == IF flags.explicit THEN flags.mode ELSE flags.answer IN
  IF ~flags.explicit /\ (~flags.tty \/ flags.answer = "") THEN {"onprem"}
  ELSE IF raw \in DOMAIN Canonical THEN {Canonical[raw]}
  ELSE {}

ResolveMode ==
  /\ \/ /\ Resolved = {} \/ (~flags.explicit /\ flags.tty /\ flags.answer = "")
        /\ Stop("mode", "refused") /\ UNCHANGED mode
     \/ Go("mode", "gates") /\ \E m \in Resolved : mode' = m
  /\ UNCHANGED <<flags, world, effective, withheld, wary, client, server, salt, focus, todo,
                 bundle>>

\* resolveLocalCollector; in gov, "on" is an error.
SkipsLocal(setting) ==
  \/ setting = "off"
  \/ setting = "auto" /\ mode # "onprem"
  \/ mode = "gov"

Forbidden(setting) == setting = "on" /\ SkipsLocal(setting)

\* A dry run copies no files.
Gates ==
  /\ \/ /\ Forbidden(flags.host) \/ Forbidden(flags.logs)
        /\ Stop("gates", "refused")
     \/ /\ ~Forbidden(flags.host) /\ ~Forbidden(flags.logs)
        /\ Go("gates", "version")
  /\ effective' = mode
  /\ withheld' =
       {w \in {"config"} : \/ flags.skipConfig \/ flags.dry
                           \/ mode = "gov"
                           \/ mode = "cloud" /\ ~flags.configDir}
         \cup {w \in {"host"} : SkipsLocal(flags.host) \/ flags.dry}
         \cup {w \in {"logs"} : SkipsLocal(flags.logs) \/ flags.dry}
         \cup {w \in {"keeper"} : flags.keeper = "off" \/ (flags.keeper = "auto" /\ mode = "cloud")}
  /\ UNCHANGED <<flags, world, mode, wary, client, server, salt, focus, todo, bundle>>

-----------------------------------------------------------------------------
(* The probes.                                                             *)

\* It fails, or what it says is no version.
CheckVersion ==
  /\ Send(Query("version", "one"))
  /\ Go("version", "visible") \/ Stop("version", "failed")
  /\ UNCHANGED <<flags, world, setup, client, answered, load, salt, focus, todo, bundle>>

\* The three verdicts differ in what the operator is told.
CheckVisibility ==
  /\ Go("visible", "identity")
  /\ IF client = "dry" THEN UNCHANGED sent ELSE Send(Query("visibility", "one"))
  /\ UNCHANGED <<flags, world, setup, client, answered, load, salt, focus, todo, bundle>>

\* probeNodeIdentity.
ProbeIdentity ==
  /\ Go("identity", "topology")
  /\ IF flags.dry THEN UNCHANGED <<sent, answered>>
     ELSE /\ Send(Query("identity", "one"))
          /\ answered' \in {answered, answered \cup {"identity"}}
  /\ UNCHANGED <<flags, world, setup, client, load, salt, focus, todo, bundle>>

\* Mutant of Switched: the run is widened whatever the fan-out probe said.
SwitchedUnasked(probed) == TRUE

\* decideSMTCollection.
Switched(probed) == ~flags.singleNode /\ "fanout" \in probed

\* On a SharedMergeTree server an onprem run becomes a cloud run, if the server
\* can be asked for all its replicas.
DecideTopology ==
  /\ Go("topology", "warnings")
  /\ IF mode = "onprem" /\ ~flags.dry
     THEN \E probed \in SUBSET ({"cloud_mode"} \cup {p \in {"fanout"} : world.smt}) :
            /\ "fanout" \in probed => "cloud_mode" \in probed /\ ~flags.singleNode
            /\ answered' = answered \cup probed
            /\ sent' = sent \cup {Query("cloud_mode", "one")}
                         \cup {q \in {Query("fanout", "all")} :
                                 world.smt /\ "cloud_mode" \in probed /\ ~flags.singleNode}
            /\ effective' = IF world.smt /\ "cloud_mode" \in probed /\ Switched(probed)
                            THEN "cloud" ELSE mode
     ELSE UNCHANGED <<sent, answered, effective>>
  /\ UNCHANGED <<flags, world, mode, withheld, wary, client, load, salt, focus, todo, bundle>>

Local == {"config", "host", "logs"}

\* nodeWarnings, by what will be collected.
Mixed == ~(Local \subseteq withheld) /\ ~world.here

Warn ==
  /\ Go("warnings", "load")
  /\ wary' = (~flags.dry /\ "identity" \in answered /\ Mixed)
  /\ UNCHANGED <<flags, world, mode, effective, withheld, client, server, salt, focus, todo,
                 bundle>>

\* setupCollection with CollectMode's decision, and applyEssential.
DecideLoad ==
  /\ Go("load", "scope")
  /\ \E essential, down, large \in BOOLEAN :
       /\ essential <=> \/ flags.collect = "essential"
                        \/ essential /\ flags.collect = "auto" /\ ~flags.dry
       /\ flags.dry => ~down /\ ~large
       /\ load' = [essential |-> essential, keeperDown |-> down, large |-> large]
       /\ sent' = sent \cup {q \in {Query("load", "one")} : ~flags.dry}
                       \cup {q \in {Query("setting", "one")} : essential}
  /\ UNCHANGED <<flags, world, setup, client, answered, salt, focus, todo, bundle>>

\* Which shared tables have broken parts, for the listing of detached ones.
AskSignals ==
  /\ Go("scope", "refusals")
  /\ IF /\ load.large /\ flags.collect # "full" /\ ~flags.dry
        /\ mode = "cloud" \/ (world.smt /\ "cloud_mode" \in answered)
     THEN SendReal(Query("signals", Reads(effective)))
     ELSE UNCHANGED sent
  /\ UNCHANGED <<flags, world, setup, client, answered, load, salt, focus, todo, bundle>>

-----------------------------------------------------------------------------
(* What is refused, the dry run, and the query analysis.                   *)

\* What gov mode cannot hash.
Unhashable == flags.queryID # None \/ flags.hash # None \/ flags.textLog

Refuse ==
  /\ IF \/ mode = "gov" /\ Unhashable
        \/ flags.textLog /\ (flags.from = None \/ flags.to = None)
     THEN Stop("refusals", "refused")
     ELSE Go("refusals", "dry")
  /\ UNCHANGED <<flags, world, setup, client, server, salt, focus, todo, bundle>>

\* Until here ExecuteQuery has sent what it was given.
StartDryRun ==
  /\ IF flags.dry
     THEN /\ client' = "dry"
          /\ \/ (/\ pc = "dry" /\ pc' = "analysis" /\ UNCHANGED outcome
                 /\ outside' = outside \cup {"temporary"})
             \/ Stop("dry", "failed")
     ELSE Go("dry", "analysis") /\ UNCHANGED client
  /\ UNCHANGED <<flags, world, setup, server, salt, focus, todo, bundle>>

Enabled == flags.queryID # None \/ flags.hash # None

NoAnalysis ==
  /\ ~Enabled /\ Go("analysis", "salt")
  /\ UNCHANGED <<flags, world, setup, client, server, salt, focus, todo, bundle>>

\* The executions of queries in the part of query_log that is read.
Logged == {e \in world.executions : e.here \/ effective = "cloud"}

\* Validate; the window has to have a length.
Focus(id, hash, from, to) ==
  LET f == AnalysisFrom(from, to, flags.queryID # None, Now)
      t == AnalysisTo(to, Now)
  IN  {w \in {[id |-> id, hash |-> hash, from |-> f, to |-> t]} : f < t}

Focused(from, found) ==
  IF found = {} THEN Stop("analysis", "refused") /\ UNCHANGED focus
  ELSE Go("analysis", "salt") /\ focus' \in found

FocusOnBoth ==
  /\ flags.queryID # None /\ flags.hash # None
  /\ Focused("analysis", Focus(flags.queryID, flags.hash, flags.from, flags.to))
  /\ UNCHANGED <<flags, world, setup, client, server, salt, todo, bundle>>

\* Mutant of Around: the default window, which ends now.
AroundNow(shown, id, hash) == Focus(id, hash, None, None)

\* The window around an execution, unless one was given.
Around(shown, id, hash) ==
  IF flags.from = None /\ flags.to = None THEN Focus(id, hash, shown - 36, shown + 12)
  ELSE Focus(id, hash, flags.from, flags.to)

\* PreflightForQueryID: the query has to be in the log.
FocusOnID ==
  /\ flags.queryID # None /\ flags.hash = None
  /\ Focused("analysis",
       UNION {Around(Shown(e.at, world.zone), e.id, e.hash) :
                e \in {e \in Logged : e.id = flags.queryID /\ e.at > Now - 30 * Day}})
  /\ SendReal(Query("preflight", Reads(effective)))
  /\ UNCHANGED <<flags, world, setup, client, answered, load, salt, todo, bundle>>

\* PreflightForHash: the slowest execution in the window, which the server
\* reads in its own zone; none is no error.
FocusOnHash ==
  /\ flags.queryID = None /\ flags.hash # None
  /\ LET windows == Focus(None, flags.hash, flags.from, flags.to)
         Within(w) == {e \in Logged : /\ e.hash = flags.hash
                                      /\ e.at >= Read(w.from, world.zone)
                                      /\ e.at <= Read(w.to, world.zone)}
         Slowest(E) == {e \in E : \A d \in E : d.took <= e.took}
     IN  /\ Focused("analysis",
              UNION {IF Within(w) = {} THEN {w}
                     ELSE {[w EXCEPT !.id = e.id] : e \in Slowest(Within(w))} : w \in windows})
         /\ IF windows = {} THEN UNCHANGED sent ELSE SendReal(Query("preflight", Reads(effective)))
  /\ UNCHANGED <<flags, world, setup, client, answered, load, salt, todo, bundle>>

\* A preflight that fails.
PreflightFails ==
  /\ \/ flags.queryID # None /\ flags.hash = None
     \/ flags.queryID = None /\ flags.hash # None
          /\ Focus(None, flags.hash, flags.from, flags.to) # {}
  /\ Stop("analysis", "failed")
  /\ SendReal(Query("preflight", Reads(effective)))
  /\ UNCHANGED <<flags, world, setup, client, answered, load, salt, focus, todo, bundle>>

\* A gov run has a salt of the right form, asked for if it was not given; a dry
\* run has a placeholder.
AskSalt ==
  /\ salt' = CASE flags.salt # "" -> flags.salt
               [] flags.salt = "" /\ mode = "gov" -> IF flags.dry THEN "good" ELSE flags.typed
               [] OTHER -> ""
  /\ IF mode = "gov" /\ ~flags.dry /\ salt' # "good"
     THEN Stop("salt", "refused")
     ELSE Go("salt", "select")
  /\ UNCHANGED <<flags, world, setup, client, server, focus, todo, bundle>>

-----------------------------------------------------------------------------
(* The collectors.                                                         *)

\* Manager.ExecuteQueries; a folder without files for this server is an error.
Select ==
  /\ pc = "select"
  /\ todo' = SelectHighestPriorityQueries(
               FindCompatibleQueries(world.folders[effective], world.version))
  /\ IF todo' = {} THEN Stop("select", "failed") ELSE Go("select", "collect")
  /\ UNCHANGED <<flags, world, setup, client, server, salt, focus, bundle>>

\* Executor.lookback.
Cap == IF load.essential THEN Day ELSE 0

\* Vars, Apply: the query of a file.
Bound(f) ==
  LET q == [Query("collector", Reads(effective)) EXCEPT !.file = f]
      back == Back[f.name]
  IN  IF back = Windowless THEN q
      ELSE [q EXCEPT !.lo = From(back, flags.from, Cap, Now), !.hi = To(flags.to, Now)]

Item(what, hashed) == [what |-> what, hashed |-> hashed]

\* What a step may add to the bundle; nothing in a dry run.
Writes(items) ==
  \E some \in SUBSET items : bundle' = IF flags.dry THEN bundle ELSE bundle \cup some

\* A collector runs, and the watchdog may make the run essential by it.
Collect(f) ==
  /\ Go("collect", "collect") /\ f \in todo
  /\ Back[f.name] = Windowless \/ ~Unbound(Back[f.name], flags.from)
  /\ todo' = todo \ {f}
  /\ \E trips \in {b \in BOOLEAN : b => flags.collect = "auto" /\ ~load.essential} :
       /\ load' = [load EXCEPT !.essential = @ \/ trips]
       /\ sent' = sent \cup {IF client = "dry" THEN [Bound(f) EXCEPT !.what = "estimate"]
                             ELSE Bound(f)}
                       \cup {q \in {Query("setting", "one")} : trips}
  /\ Writes({Item("results", effective = "gov" /\ salt = "good")})
  /\ UNCHANGED <<flags, world, setup, client, answered, salt, focus>>

\* It is refused or skipped.
PassOver(f) ==
  /\ Go("collect", "collect") /\ f \in todo
  /\ todo' = todo \ {f}
  /\ UNCHANGED <<flags, world, setup, client, server, salt, focus, bundle>>

AllCollected ==
  /\ todo = {} /\ Go("collect", "text_log")
  /\ UNCHANGED <<flags, world, setup, client, server, salt, focus, todo, bundle>>

\* TextLogCollector.Collect: a window of no length is refused only here.
CollectTextLog ==
  /\ Go("text_log", "focus")
  /\ IF flags.textLog /\ flags.from < flags.to
     THEN /\ Send([Query("text_log", Reads(effective)) EXCEPT !.lo = flags.from, !.hi = flags.to])
          /\ Writes({Item("text_log", FALSE)})
     ELSE UNCHANGED <<sent, bundle>>
  /\ UNCHANGED <<flags, world, setup, client, answered, load, salt, focus, todo>>

Given == {p \in {"id"} : focus.id # None} \cup {p \in {"hash"} : focus.hash # None}

\* AnalysisCollector.Collect: a file that needs what is not known is skipped.
CollectAnalysis ==
  /\ Go("focus", "members")
  /\ LET files == {f \in FindVersionedFiles(world.analysis, world.version) :
                     Needs[f.name] \subseteq Given}
         what == IF client = "dry" THEN "estimate" ELSE "analysis"
     IN  IF Enabled
         THEN /\ sent' = sent \cup {[Query(what, Reads(effective)) EXCEPT
                                     !.file = f, !.lo = focus.from, !.hi = focus.to] : f \in files}
              /\ Writes({Item("analysis", FALSE)})
         ELSE UNCHANGED <<sent, bundle>>
  /\ UNCHANGED <<flags, world, setup, client, answered, load, salt, focus, todo>>

\* KeeperProbe is what follows the list of members.
ProbeKeeper ==
  /\ Go("members", "local")
  /\ IF "keeper" \in withheld THEN UNCHANGED <<sent, bundle>>
     ELSE /\ IF load.keeperDown THEN UNCHANGED sent ELSE SendReal(Query("members", "one"))
          /\ Writes({Item("keeper", salt # "")})
  /\ UNCHANGED <<flags, world, setup, client, answered, load, salt, focus, todo>>

-----------------------------------------------------------------------------
(* What is left, which a dry run does not do.                              *)

EndDryRun ==
  /\ flags.dry /\ Stop("local", "done")
  /\ UNCHANGED <<flags, world, setup, client, server, salt, focus, todo, bundle>>

\* PrintGovNameMapping, host facts, log files and configuration.
CollectLocal ==
  /\ ~flags.dry /\ pc = "local" /\ pc' = "alerts" /\ UNCHANGED outcome
  /\ IF mode = "gov" THEN Send(Query("mapping", "one")) ELSE UNCHANGED sent
  /\ outside' \in {outside} \cup {outside \cup {m} : m \in {m \in {"mapping"} : mode = "gov"}}
  /\ Writes({Item(w, FALSE) : w \in Local \ withheld})
  /\ UNCHANGED <<flags, world, setup, client, answered, load, salt, focus, todo>>

\* The rules that read no file of the bundle ask the server.
EvaluateAlerts ==
  /\ Go("alerts", "dashboard")
  /\ IF flags.skipAlerts THEN UNCHANGED sent ELSE Send(Query("alerts", Reads(effective)))
  /\ UNCHANGED <<flags, world, setup, client, answered, load, salt, focus, todo, bundle>>

\* dashboardDecision; the panels may ask the server.
GenerateDashboard ==
  /\ Go("dashboard", "report")
  /\ IF flags.skipDashboard \/ effective = "gov" THEN UNCHANGED <<sent, bundle>>
     ELSE /\ Send(Query("dashboard", Reads(effective)))
          /\ Writes({Item("dashboard", FALSE)})
  /\ UNCHANGED <<flags, world, setup, client, answered, load, salt, focus, todo>>

\* The summary of the alerts, and the log, which names no host in gov.
Report ==
  /\ Stop("report", "done")
  /\ Writes({Item("execution_log", mode = "gov")}
              \cup {Item("alerts_summary", TRUE) : x \in {x \in {"alerts"} :
                      ~flags.skipAlerts /\ Item("dashboard", FALSE) \notin bundle}})
  /\ UNCHANGED <<flags, world, setup, client, server, salt, focus, todo>>

Next ==
  \/ ParseFlags \/ ResolveMode \/ Gates
  \/ CheckVersion \/ CheckVisibility \/ ProbeIdentity \/ DecideTopology \/ Warn
  \/ DecideLoad \/ AskSignals \/ Refuse \/ StartDryRun
  \/ NoAnalysis \/ FocusOnBoth \/ FocusOnID \/ FocusOnHash \/ PreflightFails
  \/ AskSalt \/ Select \/ AllCollected
  \/ \E f \in todo : Collect(f) \/ PassOver(f)
  \/ CollectTextLog \/ CollectAnalysis \/ ProbeKeeper
  \/ EndDryRun \/ CollectLocal \/ EvaluateAlerts \/ GenerateDashboard \/ Report

Spec == Init /\ [][Next]_vars

-----------------------------------------------------------------------------
(* Properties.                                                             *)

\* What the operator wrote for the mode.
Asked == IF flags.explicit THEN flags.mode ELSE IF flags.tty THEN flags.answer ELSE ""

PlainlyNotGov ==
  \/ ~flags.explicit /\ Asked = ""
  \/ Asked \in DOMAIN Canonical /\ Canonical[Asked] # "gov"

\* Unless the operator plainly asked for something else, nothing that names a
\* host, a table or a query is in the bundle: not by a misspelt -mode gov, not
\* by a flag that asks for what cannot be hashed, a switch of the query set or
\* a missing salt (resolveMode, resolveLocalCollector, the refusals of main).
GovShipsNothingRaw == ~PlainlyNotGov => \A i \in bundle : i.hashed

Narrow == {"version", "visibility", "identity", "cloud_mode", "load", "setting", "members",
           "mapping"}

\* Once the topology is known everything is read from the same replicas, the
\* preflight of an analysis too; from all of them only if that was asked for or
\* the server has shown that it can be (effectiveMode in main).
OneScope ==
  \A q \in sent :
    IF q.what \in Narrow THEN q.reads = "one"
    ELSE /\ q.what # "fanout" => q.reads = Reads(effective)
         /\ q.reads = "all" /\ q.what # "fanout" => mode = "cloud" \/ "fanout" \in answered

Looking == {"version", "visibility", "setting", "preflight", "estimate", "members"}

\* A dry run runs none of the collectors' queries, writes nothing into the
\* output directory, and leaves no temporary directory, however it ends
\* (dryRunIntercept, and the defer in main).
DryRunOnlyLooks ==
  flags.dry => /\ \A q \in sent : q.what \in Looking
               /\ bundle = {}
               /\ pc = "end" => outside = {}

\* What docs/running.md lists of what still reaches the server in a dry run;
\* main says of the visibility query "Not in dry-run: no query is really sent
\* there".
DryRunContract ==
  flags.dry => \A q \in sent : q.what \in {"version", "preflight", "estimate", "members"}

\* The analysis of a query that was named by its id alone reads a window in
\* which the query ran, whatever zone the server shows its times in: from 12
\* hours behind UTC to 14 ahead of it (resolveAnalysisOpts).
FocusInWindow ==
  /\ pc \in {"salt", "collect", "focus"} /\ world.zone \in -12..14
  /\ flags.queryID # None /\ flags.hash = None /\ flags.from = None /\ flags.to = None
  => \E e \in world.executions :
       /\ e.id = flags.queryID /\ e.hash = focus.hash
       /\ focus.from <= e.at /\ e.at <= focus.to

\* Every collector of a run has the same bounds where the operator gave them,
\* also after the watchdog has made the run essential, and so has the analysis
\* of a dry run; what a file declares may only be shortened by it
\* (expandWindowPlaceholders).
AskedWindowIsCollected ==
  \A q \in {q \in sent : q.what \in {"collector", "estimate"} /\ q.file # None /\ q.lo # None} :
    /\ flags.from # None => q.lo = flags.from
    /\ flags.to # None => q.hi = flags.to
    /\ /\ flags.from = None /\ q.file.name \in DOMAIN Back
       /\ q.what = "estimate" => ~Enabled
       => q.lo >= Now - Back[q.file.name] /\ (q.lo > Now - Back[q.file.name] => load.essential)

\* As numbers, part by part: 24.10 is later than 24.9.
Later(v, w) ==
  \/ v[1] > w[1]
  \/ v[1] = w[1] /\ v[2] > w[2]
  \/ v[1] = w[1] /\ v[2] = w[2] /\ v[3] > w[3]
  \/ v[1] = w[1] /\ v[2] = w[2] /\ v[3] = w[3] /\ v[4] > w[4]

Known ==
  {f \in ToSet(world.folders[effective]) :
     /\ f.name \notin Dotted /\ ToSet(f.dir) \cap Dotted = {}
     /\ f.dir = <<>> \/ /\ Last(f.dir) \in DOMAIN VersionOf
                        /\ ~Later(VersionOf[Last(f.dir)], world.version)}

\* f is for a later version than g, which may be for every version.
Above(f, g) ==
  f.dir # <<>> /\ (g.dir = <<>> \/ Later(VersionOf[Last(f.dir)], VersionOf[Last(g.dir)]))

\* Of each query the server gets exactly one variant: the one for the greatest
\* version it has reached, by number, or the one at the root if it has reached
\* none; and no query that it could have had is left out
\* (FindCompatibleQueries, SelectHighestPriorityQueries).
SelectedIsGreatest ==
  [][pc = "select" =>
       /\ todo' \subseteq Known
       /\ \A f \in Known : \E g \in Known :
            {h \in todo' : h.name = f.name} = {g} /\ ~Above(f, g)]_vars

\* A bundle in which the facts, the logs or the configuration of one machine
\* stand beside the tables of another says so, if the server could be asked who
\* it is (nodeWarnings is called with what will be collected).
MixedHostsAreTold ==
  /\ \E i \in bundle : i.what \in Local
  /\ "identity" \in answered /\ ~world.here
  => wary
=============================================================================
