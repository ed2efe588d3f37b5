--------------------------- MODULE Invocation_proofs ---------------------------
(***************************************************************************)
(* One invocation, for every combination of flags, every server and every  *)
(* folder of query files.                                                  *)
(***************************************************************************)
EXTENDS Invocation, WellFoundedInduction, TLAPS

\* The stages of main after the local collectors are resolved, after what the
\* mode cannot do is refused, and after there is a salt.
Collecting == {"select", "collect", "text_log", "focus", "members", "local", "alerts",
               "dashboard", "report"}

Admitted == {"dry", "analysis", "salt"} \cup Collecting

Gated == {"version", "visible", "identity", "topology", "warnings", "load", "scope",
          "refusals"} \cup Admitted

\* Why a gov run ships nothing raw: it is known to be one before anything is
\* collected, it stays one, what cannot be hashed is withheld or refused, and
\* there is a salt for the rest.
GovInv ==
  /\ pc \in {"gates"} \cup Gated /\ ~PlainlyNotGov => mode = "gov"
  /\ pc \in Gated /\ mode = "gov" => effective = "gov" /\ Local \subseteq withheld
  /\ pc \in Admitted /\ mode = "gov" => ~Unhashable
  /\ pc \in Collecting /\ mode = "gov" /\ ~flags.dry => salt = "good"
  /\ flags.dry => bundle = {}
  /\ ~PlainlyNotGov => \A i \in bundle : i.hashed

LEMMA InitGov == Init => GovInv
  BY DEF Init, GovInv, Gated, Admitted, Collecting

\* A step writes what it may, and nothing in a dry run.
LEMMA WritesHashed ==
  ASSUME NEW items, Writes(items), GovInv,
         ~PlainlyNotGov /\ ~flags.dry => \A i \in items : i.hashed
  PROVE  /\ flags.dry => bundle' = {}
         /\ ~PlainlyNotGov => \A i \in bundle' : i.hashed
  BY DEF Writes, GovInv

LEMMA HashedItem ==
  ASSUME NEW what, NEW b, b
  PROVE  Item(what, b).hashed
<1>1. Item(what, b).hashed = b
  BY DEF Item
<1> QED  BY <1>1, Zenon

\* resolveMode: what is not understood is refused.
LEMMA ModeIsGov ==
  ASSUME ~PlainlyNotGov, ResolveMode, pc' = "gates"
  PROVE  mode' = "gov"
<1>1. mode' \in Resolved
  BY DEF ResolveMode, Stop, Go
<1>2. Resolved \subseteq {"gov"}
  BY DEF Resolved, PlainlyNotGov, Asked
<1> QED  BY <1>1, <1>2

LEMMA NextGov ==
  ASSUME GovInv, [Next]_vars
  PROVE  GovInv'
<1> USE DEF flow, setup, server, Go, Stop
<1>1. flags' = flags
  BY DEF Next, vars, ParseFlags, ResolveMode, Gates, CheckVersion, CheckVisibility, ProbeIdentity, DecideTopology, Warn, DecideLoad, AskSignals, Refuse, StartDryRun, NoAnalysis, FocusOnBoth, FocusOnID, FocusOnHash, PreflightFails, AskSalt, Select, AllCollected, Collect, PassOver, CollectTextLog, CollectAnalysis, ProbeKeeper, EndDryRun, CollectLocal, EvaluateAlerts, GenerateDashboard, Report
<1>2. (PlainlyNotGov' <=> PlainlyNotGov) /\ (Unhashable' <=> Unhashable)
  BY <1>1 DEF PlainlyNotGov, Asked, Unhashable
<1> DEFINE Keeps == UNCHANGED <<mode, effective, withheld, salt, bundle>>
           Moves(S, T) == pc \in S /\ pc' \in T \cup {"end"}
<1>3. CASE ParseFlags
  BY <1>1, <1>2, <1>3 DEF ParseFlags, GovInv, Gated, Admitted, Collecting
<1>4. CASE ResolveMode
  BY <1>1, <1>2, <1>4, ModeIsGov DEF ResolveMode, GovInv, Gated, Admitted, Collecting
<1>5. CASE Gates
  <2>1. mode = "gov" => withheld' = Local \cup (withheld' \ Local)
    BY <1>5 DEF Gates, SkipsLocal, Local
  <2> QED  BY <1>1, <1>2, <1>5, <2>1 DEF Gates, GovInv, Gated, Admitted, Collecting
<1>6. CASE CheckVersion \/ CheckVisibility \/ ProbeIdentity \/ Warn \/ DecideLoad \/ AskSignals
  <2>1. Keeps
    BY <1>6 DEF CheckVersion, CheckVisibility, ProbeIdentity, Warn, DecideLoad, AskSignals
  <2>2. pc \in Gated /\ pc' \in (Gated \ Admitted) \cup {"end"}
    BY <1>6 DEF CheckVersion, CheckVisibility, ProbeIdentity, Warn, DecideLoad, AskSignals, Gated, Admitted, Collecting
  <2> QED  BY <1>1, <1>2, <2>1, <2>2 DEF GovInv, Gated, Admitted, Collecting
<1>7. CASE DecideTopology
  BY <1>1, <1>2, <1>7 DEF DecideTopology, GovInv, Gated, Admitted, Collecting
<1>8. CASE Refuse
  BY <1>1, <1>2, <1>8 DEF Refuse, GovInv, Gated, Admitted, Collecting
<1>9. CASE StartDryRun \/ NoAnalysis \/ FocusOnBoth \/ FocusOnID \/ FocusOnHash \/ PreflightFails
  <2>1. Keeps
    BY <1>9 DEF StartDryRun, NoAnalysis, FocusOnBoth, FocusOnID, FocusOnHash, PreflightFails
  <2>2. pc \in Admitted /\ pc' \in (Admitted \ Collecting) \cup {"end"}
    BY <1>9 DEF StartDryRun, NoAnalysis, FocusOnBoth, FocusOnID, FocusOnHash, PreflightFails, Focused, Admitted, Collecting
  <2> QED  BY <1>1, <1>2, <2>1, <2>2 DEF GovInv, Gated, Admitted, Collecting
<1>10. CASE AskSalt
  BY <1>1, <1>2, <1>10 DEF AskSalt, GovInv, Gated, Admitted, Collecting
<1>11. CASE Select \/ AllCollected \/ EndDryRun \/ EvaluateAlerts \/ \E f \in todo : PassOver(f)
  <2>1. Keeps
    BY <1>11 DEF Select, AllCollected, EndDryRun, EvaluateAlerts, PassOver
  <2>2. pc \in Collecting /\ pc' \in Collecting \cup {"end"}
    BY <1>11 DEF Select, AllCollected, EndDryRun, EvaluateAlerts, PassOver, Collecting
  <2> QED  BY <1>1, <1>2, <2>1, <2>2 DEF GovInv, Gated, Admitted, Collecting
<1>12. ASSUME \/ \E f \in todo : Collect(f)
              \/ CollectTextLog \/ CollectAnalysis \/ ProbeKeeper \/ CollectLocal
              \/ GenerateDashboard \/ Report
       PROVE  GovInv'
  <2>1. UNCHANGED <<mode, effective, withheld, salt>>
    BY <1>12 DEF Collect, CollectTextLog, CollectAnalysis, ProbeKeeper, CollectLocal, GenerateDashboard, Report
  <2>2. pc \in Collecting /\ pc' \in Collecting \cup {"end"}
    BY <1>12 DEF Collect, CollectTextLog, CollectAnalysis, ProbeKeeper, CollectLocal, GenerateDashboard, Report, Collecting
  <2>3. ~PlainlyNotGov /\ ~flags.dry =>
          /\ mode = "gov" /\ effective = "gov" /\ salt = "good" /\ Local \subseteq withheld
          /\ ~Unhashable
    BY <2>2 DEF GovInv, Gated, Admitted
  <2>4. \/ bundle' = bundle
        \/ \E items : Writes(items) /\ (~PlainlyNotGov /\ ~flags.dry => \A i \in items : i.hashed)
    <3>1. CASE \E f \in todo : Collect(f)
      <4> DEFINE items == {Item("results", effective = "gov" /\ salt = "good")}
      <4>1. Writes(items)
        BY <3>1 DEF Collect
      <4>2. ~PlainlyNotGov /\ ~flags.dry => \A i \in items : i.hashed
        <5>1. ~PlainlyNotGov /\ ~flags.dry => Item("results", effective = "gov" /\ salt = "good").hashed
          BY <2>3, HashedItem
        <5> QED  BY <5>1
      <4> QED  BY <4>1, <4>2
    <3>2. CASE CollectTextLog
      BY <2>3, <3>2 DEF CollectTextLog, Unhashable
    <3>3. CASE CollectAnalysis
      BY <2>3, <3>3 DEF CollectAnalysis, Unhashable, Enabled
    <3>4. CASE ProbeKeeper
      <4> DEFINE items == {Item("keeper", salt # "")}
      <4>1. bundle' = bundle \/ Writes(items)
        BY <3>4 DEF ProbeKeeper
      <4>2. ~PlainlyNotGov /\ ~flags.dry => \A i \in items : i.hashed
        <5>1. ~PlainlyNotGov /\ ~flags.dry => Item("keeper", salt # "").hashed
          BY <2>3, HashedItem
        <5> QED  BY <5>1
      <4> HIDE DEF items
      <4> QED  BY <4>1, <4>2
    <3>5. CASE CollectLocal
      <4> DEFINE items == {Item(w, FALSE) : w \in Local \ withheld}
      <4>1. Writes(items)
        BY <3>5 DEF CollectLocal
      <4>2. ~PlainlyNotGov /\ ~flags.dry => \A i \in items : i.hashed
        BY <2>3
      <4> QED  BY <4>1, <4>2
    <3>6. CASE GenerateDashboard
      BY <2>3, <3>6 DEF GenerateDashboard
    <3>7. CASE Report
      <4> DEFINE items == {Item("execution_log", mode = "gov")}
                            \cup {Item("alerts_summary", TRUE) : x \in {x \in {"alerts"} :
                                    ~flags.skipAlerts /\ Item("dashboard", FALSE) \notin bundle}}
      <4>1. Writes(items)
        BY <3>7 DEF Report
      <4>2. ~PlainlyNotGov /\ ~flags.dry => \A i \in items : i.hashed
        <5>1. ~PlainlyNotGov /\ ~flags.dry => Item("execution_log", mode = "gov").hashed
          BY <2>3, HashedItem
        <5>2. Item("alerts_summary", TRUE).hashed
          BY HashedItem
        <5> QED  BY <5>1, <5>2
      <4> QED  BY <4>1, <4>2
    <3> QED  BY <1>12, <3>1, <3>2, <3>3, <3>4, <3>5, <3>6, <3>7
  <2>5. /\ flags.dry => bundle' = {}
        /\ ~PlainlyNotGov => \A i \in bundle' : i.hashed
    BY <2>4, WritesHashed DEF GovInv
  <2> QED  BY <1>1, <1>2, <2>1, <2>2, <2>5 DEF GovInv, Gated, Admitted
<1>13. CASE UNCHANGED vars
  BY <1>1, <1>2, <1>13 DEF vars, GovInv
<1> QED
  BY <1>3, <1>4, <1>5, <1>6, <1>7, <1>8, <1>9, <1>10, <1>11, <1>12, <1>13 DEF Next

\* No spelling of the mode, no flag and no answer makes a run that was not
\* plainly asked to be anything else than gov ship an unhashed name
\* (resolveMode, resolveLocalCollector, the refusals of main).
THEOREM GovShips == Spec => []GovShipsNothingRaw
<1>1. GovInv => GovShipsNothingRaw
  BY DEF GovInv, GovShipsNothingRaw
<1> QED  BY InitGov, NextGov, <1>1, PTL DEF Spec

-----------------------------------------------------------------------------
Early == {"flags", "mode", "gates"}

Probing == {"version", "visible", "identity", "topology"}

Dashed == {"analysis", "salt"} \cup Collecting

\* A query that reads what the run reads.
InScope(q, scope) ==
  IF q.what \in Narrow THEN q.reads = "one" ELSE q.what = "fanout" \/ q.reads = Reads(scope)

\* Nothing is sent before the topology is asked for but what reads one replica,
\* and what is collected does not change after it.
ScopeInv ==
  /\ client = "dry" => pc \in Dashed \cup {"end"} /\ flags.dry
  /\ pc \in Early => sent = {} /\ effective = ""
  /\ pc \in Probing => effective = mode
  /\ pc \in Early \cup Probing => \A q \in sent : q.what \in Narrow
  /\ effective = "cloud" => mode = "cloud" \/ "fanout" \in answered
  /\ \A q \in sent : InScope(q, effective)

LEMMA InitScope == Init => ScopeInv
  BY DEF Init, ScopeInv, Early, Probing

\* What is sent by ExecuteQuery, of which a dry run makes an estimate.
LEMMA SendInScope ==
  ASSUME ScopeInv, NEW q, {"what", "reads"} \subseteq DOMAIN q, Send(q),
         InScope(q, effective), client = "dry" => q.reads = Reads(effective)
  PROVE  \A p \in sent' : InScope(p, effective)
<1>1. CASE client # "dry"
  BY <1>1 DEF Send, SendReal, ScopeInv
<1>2. CASE client = "dry"
  <2>1. sent' = sent \cup {[q EXCEPT !.what = "estimate"]}
    BY <1>2 DEF Send, SendReal
  <2>2. [q EXCEPT !.what = "estimate"].reads = q.reads /\ [q EXCEPT !.what = "estimate"].what = "estimate"
    OBVIOUS
  <2> QED  BY <1>2, <2>1, <2>2 DEF ScopeInv, InScope, Narrow
<1> QED  BY <1>1, <1>2

LEMMA QueryFields ==
  ASSUME NEW what, NEW reads
  PROVE  /\ Query(what, reads).what = what /\ Query(what, reads).reads = reads
         /\ {"what", "reads"} \subseteq DOMAIN Query(what, reads)
  BY DEF Query

LEMMA BoundFields ==
  ASSUME NEW f
  PROVE  /\ Bound(f).what = "collector" /\ Bound(f).reads = Reads(effective)
         /\ [Bound(f) EXCEPT !.what = "estimate"].what = "estimate"
         /\ [Bound(f) EXCEPT !.what = "estimate"].reads = Reads(effective)
  BY DEF Bound, Query

LEMMA NextScope ==
  ASSUME ScopeInv, [Next]_vars
  PROVE  ScopeInv'
<1> USE DEF flow, setup, server, Go, Stop
<1> DEFINE Sound == \A q \in sent' : InScope(q, effective)
           Stays == UNCHANGED <<flags, mode, effective>> /\ answered \subseteq answered'
           Goes == /\ pc \notin Early \cup Probing /\ pc' \notin Early \cup Probing
                   /\ client' = "dry" => pc' \in Dashed \cup {"end"} /\ flags.dry
<1>0. ASSUME Sound, Stays, Goes
      PROVE  ScopeInv'
  BY <1>0 DEF ScopeInv, InScope
<1>1. CASE ParseFlags \/ ResolveMode
  BY <1>1 DEF ParseFlags, ResolveMode, ScopeInv, Early, Probing, Dashed, Collecting
<1>2. CASE Gates
  BY <1>2 DEF Gates, ScopeInv, Early, Probing, Dashed, Collecting
<1>3. CASE CheckVersion \/ CheckVisibility \/ ProbeIdentity
  <2>1. /\ UNCHANGED <<flags, mode, effective, client>> /\ answered \subseteq answered'
        /\ pc \in Probing /\ pc' \in Probing \cup {"end"}
    BY <1>3 DEF CheckVersion, CheckVisibility, ProbeIdentity, Probing
  <2>2. client # "dry"
    BY <2>1 DEF ScopeInv, Probing, Dashed, Collecting
  <2>3. \A q \in sent' : q \in sent \/ (q.what \in Narrow /\ q.reads = "one")
    <3>1. sent' \subseteq sent \cup {Query("version", "one"), Query("visibility", "one"), Query("identity", "one")}
      BY <1>3, <2>2 DEF CheckVersion, CheckVisibility, ProbeIdentity, Send, SendReal
    <3>2. \A q \in {Query("version", "one"), Query("visibility", "one"), Query("identity", "one")} :
            q.what \in Narrow /\ q.reads = "one"
      BY QueryFields DEF Narrow
    <3> QED  BY <3>1, <3>2, Zenon
  <2> QED  BY <2>1, <2>2, <2>3 DEF ScopeInv, InScope, Early, Probing
<1>4. CASE DecideTopology
  <2>1. /\ UNCHANGED <<flags, mode, client>> /\ pc = "topology" /\ pc' = "warnings"
        /\ effective = mode /\ client # "dry"
        /\ \A q \in sent : q.what \in Narrow /\ q.reads = "one"
    BY <1>4 DEF DecideTopology, ScopeInv, InScope, Probing, Early, Dashed, Collecting
  <2>2. /\ answered \subseteq answered'
        /\ effective' = "cloud" => mode = "cloud" \/ "fanout" \in answered'
    BY <1>4, <2>1 DEF DecideTopology, Switched
  <2>3. \A q \in sent' : q \in sent \/ q.what = "fanout" \/ (q.what = "cloud_mode" /\ q.reads = "one")
    BY <1>4, QueryFields DEF DecideTopology
  <2> QED  BY <2>1, <2>2, <2>3 DEF ScopeInv, InScope, Narrow, Early, Probing
<1>5. CASE Warn \/ Refuse \/ NoAnalysis \/ FocusOnBoth \/ AskSalt \/ Select \/ AllCollected
           \/ EndDryRun \/ Report \/ \E f \in todo : PassOver(f)
  <2>1. UNCHANGED <<sent, answered, client, mode, effective, flags>>
    BY <1>5 DEF Warn, Refuse, NoAnalysis, FocusOnBoth, AskSalt, Select, AllCollected, EndDryRun, Report, PassOver
  <2>2. pc \notin Early \cup Probing /\ pc' \notin Early \cup Probing /\ (pc \in Dashed => pc' \in Dashed \cup {"end"})
        /\ pc # "end"
    BY <1>5 DEF Warn, Refuse, NoAnalysis, FocusOnBoth, Focused, AskSalt, Select, AllCollected, EndDryRun, Report, PassOver, Early, Probing, Dashed, Collecting
  <2> QED  BY <1>0, <2>1, <2>2 DEF ScopeInv
<1>6. CASE StartDryRun
  BY <1>6, <1>0 DEF StartDryRun, ScopeInv, Early, Probing, Dashed, Collecting
<1>7. CASE DecideLoad \/ AskSignals
  <2>1. Stays /\ Goes
    BY <1>7 DEF DecideLoad, AskSignals, ScopeInv, Early, Probing, Dashed, Collecting
  <2>2. \A q \in sent' : q \in sent \/ (q.what \in Narrow /\ q.reads = "one")
                        \/ (q.what = "signals" /\ q.reads = Reads(effective))
    BY <1>7, QueryFields DEF DecideLoad, AskSignals, SendReal, Narrow
  <2> QED  BY <1>0, <2>1, <2>2 DEF ScopeInv, InScope, Narrow
<1>8. CASE FocusOnID \/ FocusOnHash \/ PreflightFails
  <2>1. Stays /\ Goes
    BY <1>8 DEF FocusOnID, FocusOnHash, PreflightFails, Focused, ScopeInv, Early, Probing, Dashed, Collecting
  <2>2. \A q \in sent' : q \in sent \/ (q.what = "preflight" /\ q.reads = Reads(effective))
    BY <1>8, QueryFields DEF FocusOnID, FocusOnHash, PreflightFails, SendReal
  <2> QED  BY <1>0, <2>1, <2>2 DEF ScopeInv, InScope, Narrow
<1>9. ASSUME NEW f \in todo, Collect(f)
      PROVE  ScopeInv'
  <2>1. Stays /\ Goes
    BY <1>9 DEF Collect, ScopeInv, Early, Probing, Dashed, Collecting
  <2>2. \A q \in sent' : \/ q \in sent \/ q \in {Bound(f), [Bound(f) EXCEPT !.what = "estimate"]}
                         \/ q = Query("setting", "one")
    BY <1>9 DEF Collect
  <2>3. \A q \in sent' : \/ q \in sent \/ (q.what \in {"collector", "estimate"} /\ q.reads = Reads(effective))
                         \/ (q.what = "setting" /\ q.reads = "one")
    <3>1. \A q \in {Bound(f), [Bound(f) EXCEPT !.what = "estimate"]} :
            q.what \in {"collector", "estimate"} /\ q.reads = Reads(effective)
      BY BoundFields
    <3>2. Query("setting", "one").what = "setting" /\ Query("setting", "one").reads = "one"
      BY QueryFields
    <3> QED  BY <2>2, <3>1, <3>2
  <2> QED  BY <1>0, <2>1, <2>3 DEF ScopeInv, InScope, Narrow
<1>10. CASE CollectTextLog \/ EvaluateAlerts \/ GenerateDashboard
  <2>1. Stays /\ Goes
    BY <1>10 DEF CollectTextLog, EvaluateAlerts, GenerateDashboard, ScopeInv, Early, Probing, Dashed, Collecting
  <2>2. \/ sent' = sent
        \/ \E q : Send(q) /\ {"what", "reads"} \subseteq DOMAIN q /\ q.reads = Reads(effective) /\ q.what \notin Narrow
    <3>1. CASE CollectTextLog
      <4> DEFINE q == [Query("text_log", Reads(effective)) EXCEPT !.lo = flags.from, !.hi = flags.to]
      <4>1. /\ {"what", "reads"} \subseteq DOMAIN q /\ q.reads = Reads(effective)
            /\ q.what \notin Narrow
        BY DEF Query, Narrow
      <4>2. sent' = sent \/ Send(q)
        BY <3>1 DEF CollectTextLog
      <4> HIDE DEF q
      <4> QED  BY <4>1, <4>2
    <3>2. CASE EvaluateAlerts \/ GenerateDashboard
      <4>1. sent' = sent \/ Send(Query("alerts", Reads(effective))) \/ Send(Query("dashboard", Reads(effective)))
        BY <3>2 DEF EvaluateAlerts, GenerateDashboard
      <4>2. \A what \in {"alerts", "dashboard"} :
              LET q == Query(what, Reads(effective)) IN
              /\ {"what", "reads"} \subseteq DOMAIN q /\ q.reads = Reads(effective)
              /\ q.what \notin Narrow
        BY QueryFields DEF Narrow
      <4> QED  BY <4>1, <4>2
    <3> QED  BY <1>10, <3>1, <3>2
  <2>3. Sound
    BY <2>2, SendInScope DEF InScope, ScopeInv
  <2> QED  BY <1>0, <2>1, <2>3
<1>11. CASE CollectAnalysis
  <2>1. Stays /\ Goes
    BY <1>11 DEF CollectAnalysis, ScopeInv, Early, Probing, Dashed, Collecting
  <2>2. \A q \in sent' : q \in sent \/ (q.what \in {"estimate", "analysis"} /\ q.reads = Reads(effective))
    <3>1. ASSUME NEW what \in {"estimate", "analysis"}, NEW f
          PROVE  LET q == [Query(what, Reads(effective)) EXCEPT !.file = f, !.lo = focus.from, !.hi = focus.to]
                 IN  q.what = what /\ q.reads = Reads(effective)
      BY DEF Query
    <3> DEFINE of(what, f) == [Query(what, Reads(effective)) EXCEPT !.file = f, !.lo = focus.from, !.hi = focus.to]
               files == {f \in FindVersionedFiles(world.analysis, world.version) :
                           Needs[f.name] \subseteq Given}
    <3>2. CASE Enabled /\ client = "dry"
      <4>1. sent' = sent \cup {of("estimate", f) : f \in files}
        BY <1>11, <3>2 DEF CollectAnalysis
      <4>2. \A f : of("estimate", f).what = "estimate" /\ of("estimate", f).reads = Reads(effective)
        BY <3>1
      <4> HIDE DEF of, files
      <4> QED  BY <4>1, <4>2
    <3>3. CASE Enabled /\ client # "dry"
      <4>1. sent' = sent \cup {of("analysis", f) : f \in files}
        BY <1>11, <3>3 DEF CollectAnalysis
      <4>2. \A f : of("analysis", f).what = "analysis" /\ of("analysis", f).reads = Reads(effective)
        BY <3>1
      <4> HIDE DEF of, files
      <4> QED  BY <4>1, <4>2
    <3>4. CASE ~Enabled
      BY <1>11, <3>4 DEF CollectAnalysis
    <3> QED  BY <3>2, <3>3, <3>4
  <2> QED  BY <1>0, <2>1, <2>2 DEF ScopeInv, InScope, Narrow
<1>12. CASE ProbeKeeper \/ CollectLocal
  <2>1. Stays /\ Goes
    BY <1>12 DEF ProbeKeeper, CollectLocal, ScopeInv, Early, Probing, Dashed, Collecting
  <2>2. \A q \in sent' : q \in sent \/ (q.what \in Narrow /\ q.reads = "one")
    <3>1. sent' \subseteq sent \cup {Query("members", "one"), Query("mapping", "one")}
      <4>1. CASE ProbeKeeper
        BY <4>1 DEF ProbeKeeper, SendReal
      <4>2. CASE CollectLocal
        BY <4>2 DEF CollectLocal, Send, SendReal, ScopeInv
      <4> QED  BY <1>12, <4>1, <4>2
    <3>2. \A q \in {Query("members", "one"), Query("mapping", "one")} :
            q.what \in Narrow /\ q.reads = "one"
      BY QueryFields DEF Narrow
    <3> QED  BY <3>1, <3>2, Zenon
  <2> QED  BY <1>0, <2>1, <2>2 DEF ScopeInv, InScope
<1>13. CASE UNCHANGED vars
  BY <1>13 DEF vars, ScopeInv
<1> QED
  BY <1>1, <1>2, <1>3, <1>4, <1>5, <1>6, <1>7, <1>8, <1>9, <1>10, <1>11, <1>12, <1>13 DEF Next

\* Once the topology is known, every query that can reads what the run reads,
\* and all replicas only if that was asked for or has been shown to work
\* (effectiveMode in main).
THEOREM ReadsOneScope == Spec => []OneScope
<1>1. ScopeInv => OneScope
  BY DEF ScopeInv, OneScope, InScope, Reads, Narrow
<1> QED  BY InitScope, NextScope, <1>1, PTL DEF Spec

-----------------------------------------------------------------------------
\* Why a dry run only looks: from the analysis on, the client estimates what it
\* would run; it never comes to the steps after the collectors; and whatever
\* ends it takes the temporary directory with it.
LookInv ==
  flags.dry =>
    /\ pc \in Dashed => client = "dry"
    /\ pc \notin {"alerts", "dashboard", "report"}
    /\ \A q \in sent : q.what \in Looking
    /\ bundle = {}
    /\ outside \subseteq {"temporary"}
    /\ pc = "end" => outside = {}

LEMMA InitLook == Init => LookInv
  BY DEF Init, LookInv, Dashed, Collecting

LEMMA SendLooks ==
  ASSUME NEW q, client = "dry", "what" \in DOMAIN q, Send(q)
  PROVE  \A p \in sent' : p \in sent \/ p.what \in Looking
<1>1. sent' = sent \cup {[q EXCEPT !.what = "estimate"]}
  BY DEF Send, SendReal
<1>2. [q EXCEPT !.what = "estimate"].what = "estimate"
  OBVIOUS
<1> QED  BY <1>1, <1>2 DEF Looking

LEMMA NextLook ==
  ASSUME LookInv, [Next]_vars
  PROVE  LookInv'
<1> USE DEF flow, setup, server, Go, Stop
<1>0. flags' = flags
  BY DEF Next, vars, ParseFlags, ResolveMode, Gates, CheckVersion, CheckVisibility, ProbeIdentity,
         DecideTopology, Warn, DecideLoad, AskSignals, Refuse, StartDryRun, NoAnalysis,
         FocusOnBoth, FocusOnID, FocusOnHash, PreflightFails, AskSalt, Select, AllCollected,
         Collect, PassOver, CollectTextLog, CollectAnalysis, ProbeKeeper, EndDryRun,
         CollectLocal, EvaluateAlerts, GenerateDashboard, Report
<1> SUFFICES ASSUME flags.dry
             PROVE  LookInv'
  BY <1>0 DEF LookInv
<1>a. /\ pc \in Dashed => client = "dry"
      /\ pc \notin {"alerts", "dashboard", "report"}
      /\ \A q \in sent : q.what \in Looking
      /\ bundle = {} /\ outside \subseteq {"temporary"}
      /\ pc = "end" => outside = {}
  BY DEF LookInv
<1> DEFINE Looks == \A q \in sent' : q \in sent \/ q.what \in Looking
           Flows(S) == /\ pc \in S /\ pc' \in S \cup {"end"}
                       /\ outside' \subseteq outside /\ (pc' = "end" => outside' \subseteq outside \ {"temporary"})
           Before == ((Gated \ Collecting) \cup {"flags", "mode", "gates"}) \ {"analysis", "salt"}
           Inside == Dashed \ {"alerts", "dashboard", "report"}
<1>1. ASSUME Looks, Flows(Before), bundle' = bundle, client' = client
      PROVE  LookInv'
  BY <1>a, <1>1 DEF LookInv, Dashed, Collecting, Gated, Admitted
<1>2. ASSUME Looks, Flows(Inside), bundle' = bundle, client' = client
      PROVE  LookInv'
  BY <1>a, <1>2 DEF LookInv, Dashed, Collecting
<1>3. CASE ParseFlags \/ ResolveMode \/ Gates \/ Warn \/ Refuse
  <2>1. Flows(Before)
    BY <1>3 DEF ParseFlags, ResolveMode, Gates, Warn, Refuse, Gated, Admitted, Collecting
  <2>2. sent' = sent /\ bundle' = bundle /\ client' = client
    BY <1>3 DEF ParseFlags, ResolveMode, Gates, Warn, Refuse
  <2> QED  BY <1>1, <2>1, <2>2
<1>4. CASE CheckVersion \/ CheckVisibility \/ ProbeIdentity \/ DecideTopology \/ DecideLoad \/ AskSignals
  <2>1. Flows(Before) /\ bundle' = bundle /\ client' = client
    BY <1>4 DEF CheckVersion, CheckVisibility, ProbeIdentity, DecideTopology, DecideLoad, AskSignals,
                Gated, Admitted, Collecting
  <2>2. \A reads : \A what \in {"version", "visibility", "setting", "estimate"} :
          Query(what, reads).what \in Looking /\ [Query(what, reads) EXCEPT !.what = "estimate"].what \in Looking
    BY DEF Query, Looking
  <2>3. CASE CheckVersion \/ CheckVisibility
    <3>1. \E what \in {"version", "visibility"} :
            sent' \subseteq sent \cup {Query(what, "one"), [Query(what, "one") EXCEPT !.what = "estimate"]}
      BY <2>3 DEF CheckVersion, CheckVisibility, Send, SendReal
    <3>2. Looks
      BY <2>2, <3>1
    <3> QED  BY <1>1, <2>1, <3>2
  <2>4. CASE ProbeIdentity \/ DecideTopology \/ AskSignals
    <3>1. sent' = sent
      BY <2>4 DEF ProbeIdentity, DecideTopology, AskSignals
    <3> QED  BY <1>1, <2>1, <3>1
  <2>5. CASE DecideLoad
    <3>1. sent' \subseteq sent \cup {Query("setting", "one")}
      BY <2>5 DEF DecideLoad
    <3>2. Looks
      BY <2>2, <3>1
    <3> QED  BY <1>1, <2>1, <3>2
  <2> QED  BY <1>4, <2>3, <2>4, <2>5
<1>5. CASE StartDryRun
  BY <1>a, <1>5 DEF StartDryRun, LookInv, Dashed, Collecting
<1>6. CASE NoAnalysis \/ FocusOnBoth \/ AskSalt \/ Select \/ AllCollected \/ EndDryRun
           \/ \E f \in todo : PassOver(f)
  <2>1. Flows(Inside)
    BY <1>6 DEF NoAnalysis, FocusOnBoth, Focused, AskSalt, Select, AllCollected, EndDryRun, PassOver, Dashed, Collecting
  <2>2. sent' = sent /\ bundle' = bundle /\ client' = client
    BY <1>6 DEF NoAnalysis, FocusOnBoth, AskSalt, Select, AllCollected, EndDryRun, PassOver
  <2> QED  BY <1>2, <2>1, <2>2
<1>7. CASE FocusOnID \/ FocusOnHash \/ PreflightFails
  <2>1. Flows(Inside) /\ bundle' = bundle /\ client' = client
    BY <1>7 DEF FocusOnID, FocusOnHash, PreflightFails, Focused, Dashed, Collecting
  <2>2. sent' \subseteq sent \cup {Query("preflight", Reads(effective))}
    BY <1>7 DEF FocusOnID, FocusOnHash, PreflightFails, SendReal
  <2>3. Looks
    BY <2>2, QueryFields DEF Looking
  <2> QED  BY <1>2, <2>1, <2>3
<1>8. ASSUME NEW f \in todo, Collect(f)
      PROVE  LookInv'
  <2>1. Flows(Inside) /\ bundle' = bundle /\ client' = client
    BY <1>8 DEF Collect, Writes, Dashed, Collecting
  <2>2. client = "dry"
    BY <1>a, <1>8 DEF Collect, Dashed, Collecting
  <2>3. sent' \subseteq sent \cup {[Bound(f) EXCEPT !.what = "estimate"], Query("setting", "one")}
    BY <1>8, <2>2 DEF Collect
  <2>4. [Bound(f) EXCEPT !.what = "estimate"].what = "estimate" /\ Query("setting", "one").what = "setting"
    BY BoundFields, QueryFields
  <2>5. Looks
    BY <2>3, <2>4 DEF Looking
  <2> QED  BY <1>2, <2>1, <2>5
<1>9. CASE CollectTextLog \/ CollectAnalysis \/ ProbeKeeper
  <2>1. Flows(Inside) /\ bundle' = bundle /\ client' = client
    BY <1>9 DEF CollectTextLog, CollectAnalysis, ProbeKeeper, Writes, Dashed, Collecting
  <2>2. client = "dry"
    BY <1>a, <1>9 DEF CollectTextLog, CollectAnalysis, ProbeKeeper, Dashed, Collecting
  <2>3. Looks
    <3>1. CASE CollectTextLog
      <4> DEFINE q == [Query("text_log", Reads(effective)) EXCEPT !.lo = flags.from, !.hi = flags.to]
      <4>1. "what" \in DOMAIN q
        BY DEF Query
      <4>2. sent' = sent \/ Send(q)
        BY <3>1 DEF CollectTextLog
      <4> HIDE DEF q
      <4> QED  BY <2>2, <4>1, <4>2, SendLooks
    <3>2. CASE CollectAnalysis
      <4> DEFINE of(f) == [Query("estimate", Reads(effective)) EXCEPT !.file = f, !.lo = focus.from, !.hi = focus.to]
             files == {f \in FindVersionedFiles(world.analysis, world.version) :
                         Needs[f.name] \subseteq Given}
      <4>1. sent' \subseteq sent \cup {of(f) : f \in files}
        <5>1. CASE Enabled
          BY <2>2, <3>2, <5>1 DEF CollectAnalysis
        <5>2. CASE ~Enabled
          BY <2>2, <3>2, <5>2 DEF CollectAnalysis
        <5> QED  BY <5>1, <5>2
      <4>2. \A f : of(f).what = "estimate"
        BY DEF Query
      <4> HIDE DEF of, files
      <4> QED  BY <4>1, <4>2 DEF Looking
    <3>3. CASE ProbeKeeper
      <4>1. sent' \subseteq sent \cup {Query("members", "one")}
        BY <3>3 DEF ProbeKeeper, SendReal
      <4> QED  BY <4>1, QueryFields DEF Looking
    <3> QED  BY <1>9, <3>1, <3>2, <3>3
  <2> QED  BY <1>2, <2>1, <2>3
<1>10. CASE CollectLocal \/ EvaluateAlerts \/ GenerateDashboard \/ Report
  BY <1>a, <1>10 DEF CollectLocal, EvaluateAlerts, GenerateDashboard, Report
<1>11. CASE UNCHANGED vars
  BY <1>11 DEF vars, LookInv
<1> QED
  BY <1>3, <1>4, <1>5, <1>6, <1>7, <1>8, <1>9, <1>10, <1>11 DEF Next

\* A dry run, however it ends, has only looked: probes, preflights and
\* estimates, no file in the output directory, no directory left behind
\* (dryRunIntercept, and the defer in main).
THEOREM DryRunLooks == Spec => []DryRunOnlyLooks
<1>1. LookInv => DryRunOnlyLooks
  BY DEF LookInv, DryRunOnlyLooks
<1> QED  BY InitLook, NextLook, <1>1, PTL DEF Spec

-----------------------------------------------------------------------------
(* The window of an analysis.                                              *)

Focusing == {"salt"} \cup Collecting

ByID == flags.queryID # None /\ flags.hash = None /\ flags.from = None /\ flags.to = None

\* Neither the invocation nor the place changes, and once an analysis has a
\* window it keeps to what was asked for.
FocusInv ==
  /\ flags \in Flag /\ world \in Place
  /\ pc \in Focusing /\ Enabled =>
       /\ flags.from # None => focus.from = flags.from
       /\ flags.to # None => focus.to = flags.to
  /\ pc \in Focusing /\ ByID /\ world.zone \in -12..14 =>
       \E e \in world.executions :
         /\ e.id = flags.queryID /\ e.hash = focus.hash
         /\ focus.from <= e.at /\ e.at <= focus.to

LEMMA InitFocus == Init => FocusInv
<1> SUFFICES ASSUME Init
             PROVE  FocusInv
  OBVIOUS
<1>1. flags \in Flag /\ world \in Place
  BY InvocationAssumption DEF Init
<1> QED  BY <1>1 DEF Init, FocusInv, Focusing, Collecting

\* Validate keeps the bounds that it is given.
LEMMA FocusKeepsBounds ==
  ASSUME NEW id, NEW hash, NEW from, NEW to, NEW w \in Focus(id, hash, from, to)
  PROVE  /\ w.id = id /\ w.hash = hash
         /\ from # None => w.from = from
         /\ to # None => w.to = to
         /\ {"id", "hash", "from", "to"} = DOMAIN w
<1> DEFINE f == AnalysisFrom(from, to, flags.queryID # None, Now)
           t == AnalysisTo(to, Now)
<1>1. w = [id |-> id, hash |-> hash, from |-> f, to |-> t]
  BY DEF Focus
<1>2. (from # None => f = from) /\ (to # None => t = to)
  BY DEF AnalysisFrom, AnalysisTo
<1> HIDE DEF f, t
<1> QED  BY <1>1, <1>2

\* The window around an execution, as its time is shown, holds it.
LEMMA AroundHolds ==
  ASSUME NEW e, e.at \in Int, NEW zone \in -12..14, flags.from = None, flags.to = None,
         NEW w \in Around(Shown(e.at, zone), e.id, e.hash)
  PROVE  w.hash = e.hash /\ w.from <= e.at /\ e.at <= w.to
<1>1. Shown(e.at, zone) = e.at + zone /\ e.at + zone \in Int
  BY DEF Shown
<1>2. w \in Focus(e.id, e.hash, (e.at + zone) - 36, (e.at + zone) + 12)
  BY <1>1 DEF Around
<1>3. (e.at + zone) - 36 # None /\ (e.at + zone) + 12 # None
  BY <1>1, WindowsAssumption
<1>4. w.hash = e.hash /\ w.from = (e.at + zone) - 36 /\ w.to = (e.at + zone) + 12
  BY <1>2, <1>3, FocusKeepsBounds
<1>5. zone \in Int /\ -12 <= zone /\ zone <= 14
  OBVIOUS
<1> QED  BY <1>4, <1>5

LEMMA NextFocus ==
  ASSUME FocusInv, [Next]_vars
  PROVE  FocusInv'
<1> USE DEF flow, setup, server, Go, Stop
<1>0. flags' = flags /\ world' = world
  BY DEF Next, vars, ParseFlags, ResolveMode, Gates, CheckVersion, CheckVisibility, ProbeIdentity,
         DecideTopology, Warn, DecideLoad, AskSignals, Refuse, StartDryRun, NoAnalysis,
         FocusOnBoth, FocusOnID, FocusOnHash, PreflightFails, AskSalt, Select, AllCollected,
         Collect, PassOver, CollectTextLog, CollectAnalysis, ProbeKeeper, EndDryRun,
         CollectLocal, EvaluateAlerts, GenerateDashboard, Report
<1>a. (Enabled' <=> Enabled) /\ (ByID' <=> ByID) /\ (ByID => Enabled)
  BY <1>0 DEF Enabled, ByID
<1>1. ASSUME focus' = focus, pc' \in Focusing => pc \in Focusing
      PROVE  FocusInv'
  BY <1>0, <1>a, <1>1 DEF FocusInv
<1>2. ASSUME pc' \in Focusing,
             Enabled => /\ flags.from # None => focus'.from = flags.from
                        /\ flags.to # None => focus'.to = flags.to,
             ByID /\ world.zone \in -12..14 =>
               \E e \in world.executions :
                 /\ e.id = flags.queryID /\ e.hash = focus'.hash
                 /\ focus'.from <= e.at /\ e.at <= focus'.to
      PROVE  FocusInv'
  BY <1>0, <1>a, <1>2 DEF FocusInv
<1>3. CASE ParseFlags \/ ResolveMode \/ Gates \/ CheckVersion \/ CheckVisibility \/ ProbeIdentity
           \/ DecideTopology \/ Warn \/ DecideLoad \/ AskSignals \/ Refuse \/ StartDryRun
           \/ PreflightFails
  <2>1. focus' = focus /\ pc' \notin Focusing
    BY <1>3 DEF ParseFlags, ResolveMode, Gates, CheckVersion, CheckVisibility, ProbeIdentity,
       DecideTopology, Warn, DecideLoad, AskSignals, Refuse, StartDryRun, PreflightFails,
       Focusing, Collecting
  <2> QED  BY <1>1, <2>1
<1>4. CASE NoAnalysis
  <2>1. ~Enabled /\ pc' = "salt"
    BY <1>4 DEF NoAnalysis
  <2> QED  BY <1>2, <1>a, <2>1 DEF Focusing
<1>5. CASE FocusOnBoth
  <2>1. CASE pc' = "end"
    BY <1>1, <1>5, <2>1 DEF FocusOnBoth, Focused, Focusing, Collecting
  <2>2. CASE pc' # "end"
    <3>1. pc' = "salt" /\ focus' \in Focus(flags.queryID, flags.hash, flags.from, flags.to)
      BY <1>5, <2>2 DEF FocusOnBoth, Focused
    <3>2. ~ByID
      BY <1>5 DEF FocusOnBoth, ByID
    <3> QED  BY <1>2, <3>1, <3>2, FocusKeepsBounds DEF Focusing
  <2> QED  BY <2>1, <2>2
<1>6. CASE FocusOnID
  <2> DEFINE known == {e \in Logged : e.id = flags.queryID /\ e.at > Now - 30 * Day}
             found == UNION {Around(Shown(e.at, world.zone), e.id, e.hash) : e \in known}
  <2>1. Focused("analysis", found)
    BY <1>6 DEF FocusOnID
  <2>2. CASE pc' = "end"
    <3>1. focus' = focus
      BY <2>1, <2>2 DEF Focused
    <3> QED  BY <1>1, <2>2, <3>1 DEF Focusing, Collecting
  <2>3. CASE pc' # "end"
    <3>1. pc' = "salt" /\ focus' \in found
      BY <2>1, <2>3 DEF Focused
    <3>2. PICK e \in known : focus' \in Around(Shown(e.at, world.zone), e.id, e.hash)
      BY <3>1
    <3>3. e \in world.executions /\ e.id = flags.queryID
      BY DEF Logged
    <3>4. e.at \in Int
      <4>1. world.executions \subseteq [id : STRING, hash : STRING, at : Int, took : Int, here : BOOLEAN]
        BY DEF FocusInv, Place
      <4> QED  BY <3>3, <4>1
    <3>5. /\ flags.from # None => focus'.from = flags.from
          /\ flags.to # None => focus'.to = flags.to
      <4>1. CASE flags.from = None /\ flags.to = None
        BY <4>1
      <4>2. CASE ~(flags.from = None /\ flags.to = None)
        <5>1. focus' \in Focus(e.id, e.hash, flags.from, flags.to)
          BY <3>2, <4>2 DEF Around
        <5> QED  BY <5>1, FocusKeepsBounds
      <4> QED  BY <4>1, <4>2
    <3>6. ByID /\ world.zone \in -12..14 =>
            focus'.hash = e.hash /\ focus'.from <= e.at /\ e.at <= focus'.to
      BY <3>2, <3>4, AroundHolds DEF ByID
    <3> QED  BY <1>2, <3>1, <3>3, <3>5, <3>6 DEF Focusing
  <2> QED  BY <2>2, <2>3
<1>7. CASE FocusOnHash
  <2> DEFINE windows == Focus(None, flags.hash, flags.from, flags.to)
             Within(w) == {e \in Logged : /\ e.hash = flags.hash
                                          /\ e.at >= Read(w.from, world.zone)
                                          /\ e.at <= Read(w.to, world.zone)}
             Slowest(E) == {e \in E : \A d \in E : d.took <= e.took}
             found == UNION {IF Within(w) = {} THEN {w}
                             ELSE {[w EXCEPT !.id = e.id] : e \in Slowest(Within(w))} : w \in windows}
  <2>1. Focused("analysis", found)
    BY <1>7 DEF FocusOnHash
  <2>a. ~ByID
    BY <1>7 DEF FocusOnHash, ByID
  <2>2. CASE pc' = "end"
    <3>1. focus' = focus
      BY <2>1, <2>2 DEF Focused
    <3> QED  BY <1>1, <2>2, <3>1 DEF Focusing, Collecting
  <2>3. CASE pc' # "end"
    <3>1. pc' = "salt" /\ focus' \in found
      BY <2>1, <2>3 DEF Focused
    <3>2. PICK w \in windows : focus' = w \/ \E e : focus' = [w EXCEPT !.id = e.id]
      BY <3>1
    <3>3. focus'.from = w.from /\ focus'.to = w.to
      <4>1. {"id", "hash", "from", "to"} = DOMAIN w
        BY FocusKeepsBounds
      <4> QED  BY <3>2, <4>1
    <3>4. /\ flags.from # None => w.from = flags.from
          /\ flags.to # None => w.to = flags.to
      BY FocusKeepsBounds
    <3> QED  BY <1>2, <2>a, <3>1, <3>3, <3>4 DEF Focusing
  <2> QED  BY <2>2, <2>3
<1>8. CASE AskSalt \/ Select \/ AllCollected \/ CollectTextLog \/ CollectAnalysis \/ ProbeKeeper
           \/ EndDryRun \/ CollectLocal \/ EvaluateAlerts \/ GenerateDashboard \/ Report
           \/ \E f \in todo : Collect(f) \/ PassOver(f)
  <2>1. focus' = focus /\ pc \in Focusing
    BY <1>8 DEF AskSalt, Select, AllCollected, CollectTextLog, CollectAnalysis, ProbeKeeper,
       EndDryRun, CollectLocal, EvaluateAlerts, GenerateDashboard, Report, Collect, PassOver,
       Focusing, Collecting
  <2> QED  BY <1>1, <2>1
<1>9. CASE UNCHANGED vars
  BY <1>1, <1>9 DEF vars
<1> QED
  BY <1>3, <1>4, <1>5, <1>6, <1>7, <1>8, <1>9 DEF Next

\* The window of an analysis holds the query it is about, whatever zone between
\* 12 hours behind and 14 ahead of UTC the server shows its times in
\* (resolveAnalysisOpts, PreflightForQueryID).
THEOREM AnalysisSeesQuery == Spec => []FocusInWindow
<1>1. FocusInv => FocusInWindow
  BY DEF FocusInv, FocusInWindow, Focusing, Collecting, ByID
<1> QED  BY InitFocus, NextFocus, <1>1, PTL DEF Spec

-----------------------------------------------------------------------------
(* The windows of the collectors.                                          *)

\* What is promised of one query.
Windowed(q) ==
  q.what \in {"collector", "estimate"} /\ q.file # None /\ q.lo # None =>
    /\ flags.from # None => q.lo = flags.from
    /\ flags.to # None => q.hi = flags.to
    /\ /\ flags.from = None /\ q.file.name \in DOMAIN Back
       /\ q.what = "estimate" => ~Enabled
       => q.lo >= Now - Back[q.file.name] /\ (q.lo > Now - Back[q.file.name] => load.essential)

Unloaded == Early \cup Probing \cup {"warnings", "load"}

AskedInv ==
  /\ load \in [essential : BOOLEAN, keeperDown : BOOLEAN, large : BOOLEAN]
  /\ pc \in Unloaded => ~load.essential
  /\ \A q \in sent : Windowed(q)

LEMMA InitAsked == Init => AskedInv
<1> SUFFICES ASSUME Init
             PROVE  AskedInv
  OBVIOUS
<1>1. load = [essential |-> FALSE, keeperDown |-> FALSE, large |-> FALSE] /\ sent = {}
  BY DEF Init, NoLoad
<1>2. load \in [essential : BOOLEAN, keeperDown : BOOLEAN, large : BOOLEAN] /\ ~load.essential
  BY <1>1
<1> QED  BY <1>1, <1>2 DEF AskedInv

LEMMA NoFile ==
  /\ \A what, reads : Query(what, reads).file = None
  /\ \A what, reads : [Query(what, reads) EXCEPT !.what = "estimate"].file = None
  BY DEF Query

\* A file's look-back, and the operator's bound in place of it.
LEMMA BoundWindowed ==
  ASSUME FocusInv, NEW f, NEW q \in {Bound(f), [Bound(f) EXCEPT !.what = "estimate"]}
  PROVE  Windowed(q)
<1> DEFINE back == Back[f.name]
           lo == From(back, flags.from, Cap, Now)
           hi == To(flags.to, Now)
<1> SUFFICES ASSUME q.lo # None
             PROVE  Windowed(q)
  BY DEF Windowed
<1>1. back # Windowless
  <2>1. Query("collector", Reads(effective)).lo = None
    BY DEF Query
  <2>2. [Query("collector", Reads(effective)) EXCEPT !.file = f].lo = None
    BY DEF Query
  <2>3. [[Query("collector", Reads(effective)) EXCEPT !.file = f] EXCEPT !.what = "estimate"].lo = None
    BY DEF Query
  <2>4. back = Windowless => Bound(f) = [Query("collector", Reads(effective)) EXCEPT !.file = f]
    BY DEF Bound
  <2> QED  BY <2>2, <2>3, <2>4
<1>2. q.file = f /\ q.lo = lo /\ q.hi = hi
  BY <1>1 DEF Bound, Query
<1>3. (flags.from # None => lo = flags.from) /\ (flags.to # None => hi = flags.to)
  BY DEF From, To
<1>4. ASSUME flags.from = None, f.name \in DOMAIN Back
      PROVE  lo >= Now - back /\ (lo > Now - back => load.essential)
  <2>1. back \in Nat /\ Now \in Int
    BY <1>1, <1>4, InvocationAssumption
  <2>2. CASE load.essential
    <3>1. lo = IF back > 24 THEN Now - 24 ELSE Now - back
      BY <1>4, <2>1, <2>2 DEF From, Cap, Day
    <3> QED  BY <2>1, <2>2, <3>1
  <2>3. CASE ~load.essential
    <3>1. lo = Now - back
      BY <1>4, <2>3 DEF From, Cap
    <3> QED  BY <2>1, <3>1
  <2> QED  BY <2>2, <2>3
<1> HIDE DEF lo, hi, back
<1>5. back = Back[q.file.name] /\ (q.file.name \in DOMAIN Back => f.name \in DOMAIN Back)
  BY <1>2 DEF back
<1> QED  BY <1>2, <1>3, <1>4, <1>5 DEF Windowed

\* The estimate of an analysis is of the window that the analysis has.
LEMMA AnalysisWindowed ==
  ASSUME FocusInv, pc = "focus", Enabled, NEW what \in {"estimate", "analysis"}, NEW f,
         NEW q, q = [Query(what, Reads(effective)) EXCEPT !.file = f, !.lo = focus.from, !.hi = focus.to]
  PROVE  Windowed(q)
<1>1. q.what = what /\ q.lo = focus.from /\ q.hi = focus.to
  BY DEF Query
<1>2. /\ flags.from # None => focus.from = flags.from
      /\ flags.to # None => focus.to = flags.to
  BY DEF FocusInv, Focusing, Collecting
<1> QED  BY <1>1, <1>2 DEF Windowed

LEMMA NextAsked ==
  ASSUME FocusInv, AskedInv, [Next]_vars
  PROVE  AskedInv'
<1> USE DEF flow, setup, server, Go, Stop
<1>0. flags' = flags
  BY DEF Next, vars, ParseFlags, ResolveMode, Gates, CheckVersion, CheckVisibility, ProbeIdentity,
         DecideTopology, Warn, DecideLoad, AskSignals, Refuse, StartDryRun, NoAnalysis,
         FocusOnBoth, FocusOnID, FocusOnHash, PreflightFails, AskSalt, Select, AllCollected,
         Collect, PassOver, CollectTextLog, CollectAnalysis, ProbeKeeper, EndDryRun,
         CollectLocal, EvaluateAlerts, GenerateDashboard, Report
<1>a. Enabled' <=> Enabled
  BY <1>0 DEF Enabled
<1>b. load \in [essential : BOOLEAN, keeperDown : BOOLEAN, large : BOOLEAN]
  BY DEF AskedInv
<1>1. ASSUME load' \in [essential : BOOLEAN, keeperDown : BOOLEAN, large : BOOLEAN],
             load.essential => load'.essential,
             pc' \in Unloaded => pc \in Unloaded /\ load' = load,
             \A q \in sent' : q \in sent \/ q.file = None \/ Windowed(q)
      PROVE  AskedInv'
  <2>1. ASSUME NEW q, Windowed(q)
        PROVE  Windowed(q)'
    BY <1>0, <1>a, <1>1, <2>1 DEF Windowed
  <2>2. ASSUME NEW q, q.file = None
        PROVE  Windowed(q)'
    BY <2>2 DEF Windowed
  <2> QED  BY <1>1, <2>1, <2>2 DEF AskedInv
<1>2. CASE \/ ParseFlags \/ ResolveMode \/ Gates \/ Warn \/ Refuse \/ StartDryRun \/ NoAnalysis
           \/ FocusOnBoth \/ AskSalt \/ Select \/ AllCollected \/ EndDryRun \/ Report
           \/ (\E f \in todo : PassOver(f)) \/ UNCHANGED vars
  <2>1. UNCHANGED <<sent, load>> /\ (pc' \in Unloaded => pc \in Unloaded)
    BY <1>2 DEF ParseFlags, ResolveMode, Gates, Warn, Refuse, StartDryRun, NoAnalysis, FocusOnBoth,
       Focused, AskSalt, Select, AllCollected, EndDryRun, Report, PassOver, vars, Unloaded, Early, Probing
  <2> QED  BY <1>1, <1>b, <2>1
<1>3. CASE CheckVersion \/ CheckVisibility \/ ProbeIdentity \/ AskSignals \/ FocusOnID \/ FocusOnHash
           \/ PreflightFails \/ ProbeKeeper \/ CollectLocal \/ EvaluateAlerts \/ GenerateDashboard
  <2>1. load' = load /\ (pc' \in Unloaded => pc \in Unloaded)
    BY <1>3 DEF CheckVersion, CheckVisibility, ProbeIdentity, AskSignals, FocusOnID, FocusOnHash,
       PreflightFails, ProbeKeeper, CollectLocal, EvaluateAlerts, GenerateDashboard, Focused,
       Unloaded, Early, Probing
  <2>2. \E what, reads :
          sent' = sent \/ SendReal(Query(what, reads)) \/ Send(Query(what, reads))
    BY <1>3, Zenon DEF CheckVersion, CheckVisibility, ProbeIdentity, AskSignals, FocusOnID, FocusOnHash,
       PreflightFails, ProbeKeeper, CollectLocal, EvaluateAlerts, GenerateDashboard
  <2>3. PICK what, reads : sent' = sent \/ SendReal(Query(what, reads)) \/ Send(Query(what, reads))
    BY <2>2
  <2>4. sent' \subseteq sent \cup {Query(what, reads), [Query(what, reads) EXCEPT !.what = "estimate"]}
    BY <2>3 DEF Send, SendReal
  <2>5. \A q \in sent' : q \in sent \/ q.file = None
    BY <2>4, NoFile
  <2> QED  BY <1>1, <1>b, <2>1, <2>5
<1>4. CASE DecideTopology
  <2>1. load' = load /\ pc \in Unloaded /\ sent' \subseteq sent \cup {Query("cloud_mode", "one"), Query("fanout", "all")}
    BY <1>4 DEF DecideTopology, Unloaded, Probing
  <2> QED  BY <1>1, <1>b, <2>1, NoFile
<1>5. CASE DecideLoad
  <2>1. sent' \subseteq sent \cup {Query("load", "one"), Query("setting", "one")}
    BY <1>5 DEF DecideLoad
  <2>2. \A q \in sent' : q \in sent \/ q.file = None
    BY <2>1, NoFile
  <2>3. pc' \notin Unloaded /\ ~load.essential
    BY <1>5 DEF DecideLoad, Unloaded, Early, Probing, AskedInv
  <2>4. load' \in [essential : BOOLEAN, keeperDown : BOOLEAN, large : BOOLEAN]
    BY <1>5 DEF DecideLoad
  <2> QED  BY <1>1, <2>2, <2>3, <2>4
<1>6. ASSUME NEW f \in todo, Collect(f)
      PROVE  AskedInv'
  <2>1. \E trips \in BOOLEAN : load' = [load EXCEPT !.essential = @ \/ trips]
    BY <1>6 DEF Collect
  <2>2. /\ load' \in [essential : BOOLEAN, keeperDown : BOOLEAN, large : BOOLEAN]
        /\ load.essential => load'.essential
    BY <1>b, <2>1
  <2>3. sent' \subseteq sent \cup {Bound(f), [Bound(f) EXCEPT !.what = "estimate"], Query("setting", "one")}
    BY <1>6 DEF Collect
  <2>4. \A q \in sent' : q \in sent \/ q.file = None \/ Windowed(q)
    BY <2>3, NoFile, BoundWindowed
  <2>5. pc' \notin Unloaded
    BY <1>6 DEF Collect, Unloaded, Early, Probing
  <2> QED  BY <1>1, <2>2, <2>4, <2>5
<1>7. CASE CollectTextLog
  <2> DEFINE q == [Query("text_log", Reads(effective)) EXCEPT !.lo = flags.from, !.hi = flags.to]
  <2>1. load' = load /\ pc' \notin Unloaded /\ (sent' = sent \/ Send(q))
    BY <1>7 DEF CollectTextLog, Unloaded, Early, Probing
  <2>2. q.file = None /\ [q EXCEPT !.what = "estimate"].file = None
    BY DEF Query
  <2>3. sent' \subseteq sent \cup {q, [q EXCEPT !.what = "estimate"]}
    <3> HIDE DEF q
    <3> QED  BY <2>1 DEF Send, SendReal
  <2> HIDE DEF q
  <2>4. \A p \in sent' : p \in sent \/ p.file = None
    BY <2>2, <2>3
  <2> QED  BY <1>1, <1>b, <2>1, <2>4
<1>8. CASE CollectAnalysis
  <2> DEFINE of(what, f) == [Query(what, Reads(effective)) EXCEPT !.file = f, !.lo = focus.from, !.hi = focus.to]
             files == {f \in FindVersionedFiles(world.analysis, world.version) :
                         Needs[f.name] \subseteq Given}
  <2>1. load' = load /\ pc = "focus" /\ pc' \notin Unloaded
    BY <1>8 DEF CollectAnalysis, Unloaded, Early, Probing
  <2>2. CASE Enabled
    <3>1. \E what \in {"estimate", "analysis"} : sent' = sent \cup {of(what, f) : f \in files}
      BY <1>8, <2>2 DEF CollectAnalysis
    <3>2. \A f : \A what \in {"estimate", "analysis"} : Windowed(of(what, f))
      BY <2>1, <2>2, AnalysisWindowed
    <3> HIDE DEF of, files
    <3>3. \A q \in sent' : q \in sent \/ Windowed(q)
      BY <3>1, <3>2
    <3> QED  BY <1>1, <1>b, <2>1, <3>3
  <2>3. CASE ~Enabled
    <3>1. sent' = sent
      BY <1>8, <2>3 DEF CollectAnalysis
    <3> QED  BY <1>1, <1>b, <2>1, <3>1
  <2> QED  BY <2>2, <2>3
<1> QED
  BY <1>2, <1>3, <1>4, <1>5, <1>6, <1>7, <1>8 DEF Next

\* Where the operator gave a bound every collector keeps it, and where none was
\* given a file's own look-back is shortened only in an essential collection,
\* for any look-backs and any bounds, also if the watchdog makes the collection
\* essential between two collectors (expandWindowPlaceholders).
THEOREM WindowIsKept == Spec => []AskedWindowIsCollected
<1>1. AskedInv => AskedWindowIsCollected
  BY DEF AskedInv, AskedWindowIsCollected, Windowed
<1>2. Init => FocusInv /\ AskedInv
  BY InitFocus, InitAsked
<1>3. FocusInv /\ AskedInv /\ [Next]_vars => FocusInv' /\ AskedInv'
  BY NextFocus, NextAsked
<1> QED  BY <1>1, <1>2, <1>3, PTL DEF Spec

-----------------------------------------------------------------------------
\* The operator is told when two hosts will be mixed.
Told == ~flags.dry /\ "identity" \in answered /\ Mixed => wary

Unwarned == Early \cup Probing \cup {"warnings"}

\* What is withheld, who the server is and what was said of it are settled
\* before anything of this machine is collected.
MixedInv ==
  /\ pc \notin Unwarned \cup {"end"} => Told
  /\ \A i \in bundle : i.what \in Local =>
       pc \notin Unwarned /\ Told /\ i.what \notin withheld /\ ~flags.dry

LEMMA InitMixed == Init => MixedInv
  BY DEF Init, MixedInv, Unwarned, Early

LEMMA ItemIs ==
  \A what, hashed : Item(what, hashed).what = what
  BY DEF Item

LEMMA NextMixed ==
  ASSUME MixedInv, [Next]_vars
  PROVE  MixedInv'
<1> USE DEF flow, setup, server, Go, Stop
<1>1. CASE ParseFlags \/ ResolveMode \/ Gates \/ CheckVersion \/ CheckVisibility \/ ProbeIdentity
           \/ DecideTopology
  <2>1. bundle' = bundle /\ pc \in Unwarned /\ pc' \in Unwarned \cup {"end"}
    BY <1>1 DEF ParseFlags, ResolveMode, Gates, CheckVersion, CheckVisibility, ProbeIdentity,
       DecideTopology, Unwarned, Early, Probing
  <2> QED  BY <2>1 DEF MixedInv
<1>2. CASE Warn
  <2>1. bundle' = bundle /\ pc \in Unwarned
    BY <1>2 DEF Warn, Unwarned
  <2>2. Told'
    BY <1>2 DEF Warn, Told, Mixed
  <2> QED  BY <2>1, <2>2 DEF MixedInv
<1>3. ASSUME UNCHANGED <<flags, world, setup, answered>>, pc \notin Unwarned \cup {"end"},
             pc' \notin Unwarned,
             \A i \in bundle' : i \in bundle \/ (i.what \in Local => i.what \notin withheld /\ ~flags.dry)
      PROVE  MixedInv'
  <2>1. Told /\ Told'
    BY <1>3 DEF MixedInv, Told, Mixed
  <2> QED  BY <1>3, <2>1 DEF MixedInv
<1>4. CASE DecideLoad \/ AskSignals \/ Refuse \/ StartDryRun \/ NoAnalysis \/ FocusOnBoth
           \/ FocusOnID \/ FocusOnHash \/ PreflightFails \/ AskSalt \/ Select \/ AllCollected
           \/ EndDryRun \/ EvaluateAlerts \/ \E f \in todo : PassOver(f)
  <2>1. UNCHANGED <<flags, world, setup, answered, bundle>>
    BY <1>4 DEF DecideLoad, AskSignals, Refuse, StartDryRun, NoAnalysis, FocusOnBoth, FocusOnID,
       FocusOnHash, PreflightFails, AskSalt, Select, AllCollected, EndDryRun, EvaluateAlerts, PassOver
  <2>2. pc \notin Unwarned \cup {"end"} /\ pc' \notin Unwarned
    BY <1>4 DEF DecideLoad, AskSignals, Refuse, StartDryRun, NoAnalysis, FocusOnBoth, FocusOnID,
       FocusOnHash, PreflightFails, AskSalt, Select, AllCollected, EndDryRun, EvaluateAlerts, PassOver,
       Focused, Unwarned, Early, Probing
  <2> QED  BY <1>3, <2>1, <2>2
<1>5. CASE \/ CollectTextLog \/ CollectAnalysis \/ ProbeKeeper \/ CollectLocal \/ GenerateDashboard
           \/ Report \/ \E f \in todo : Collect(f)
  <2>1. UNCHANGED <<flags, world, setup, answered>> /\ pc \notin Unwarned \cup {"end"} /\ pc' \notin Unwarned
    BY <1>5 DEF CollectTextLog, CollectAnalysis, ProbeKeeper, CollectLocal, GenerateDashboard, Report,
       Collect, Unwarned, Early, Probing
  <2>2. CASE CollectLocal
    <3>1. Writes({Item(w, FALSE) : w \in Local \ withheld}) /\ ~flags.dry
      BY <2>2 DEF CollectLocal
    <3>2. \A i \in bundle' : i \in bundle \/ \E w \in Local \ withheld : i = Item(w, FALSE)
      BY <3>1 DEF Writes
    <3>3. \A i \in bundle' : i \in bundle \/ i.what \in Local \ withheld
      <4> SUFFICES ASSUME NEW i \in bundle', i \notin bundle
                   PROVE  i.what \in Local \ withheld
        OBVIOUS
      <4>1. PICK w \in Local \ withheld : i = Item(w, FALSE)
        BY <3>2
      <4>2. Item(w, FALSE).what = w
        BY ItemIs, Zenon
      <4> QED  BY <4>1, <4>2
    <3> QED  BY <1>3, <2>1, <3>1, <3>3
  <2>3. CASE ~CollectLocal
    <3>1. \A i \in bundle' : i \in bundle \/ i.what \notin Local
      <4>1. bundle' = bundle \/ \E items : Writes(items) /\ \A i \in items : i.what \notin Local
        <5> DEFINE others == {"results", "text_log", "analysis", "keeper", "dashboard", "execution_log",
                              "alerts_summary"}
        <5>1. \A hashed : \A what \in others : Item(what, hashed).what \notin Local
          BY ItemIs DEF Local
        <5>2. CASE \E f \in todo : Collect(f)
          <6>1. Writes({Item("results", effective = "gov" /\ salt = "good")})
            BY <5>2 DEF Collect
          <6>2. Item("results", effective = "gov" /\ salt = "good").what \notin Local
            BY <5>1
          <6> QED  BY <6>1, <6>2
        <5>3. CASE CollectTextLog \/ CollectAnalysis \/ GenerateDashboard
          <6>1. \E what \in others : bundle' = bundle \/ Writes({Item(what, FALSE)})
            BY <5>3 DEF CollectTextLog, CollectAnalysis, GenerateDashboard
          <6> QED  BY <5>1, <6>1
        <5>4. CASE ProbeKeeper
          <6> DEFINE item == Item("keeper", salt # "")
          <6>1. bundle' = bundle \/ Writes({item})
            BY <5>4 DEF ProbeKeeper
          <6>2. item.what \notin Local
            BY <5>1
          <6> HIDE DEF item
          <6> QED  BY <6>1, <6>2
        <5>5. CASE Report
          <6> DEFINE items == {Item("execution_log", mode = "gov")}
                                \cup {Item("alerts_summary", TRUE) : x \in {x \in {"alerts"} :
                                        ~flags.skipAlerts /\ Item("dashboard", FALSE) \notin bundle}}
          <6>1. Writes(items)
            BY <5>5 DEF Report
          <6>2. Item("execution_log", mode = "gov").what \notin Local
            BY <5>1
          <6>3. Item("alerts_summary", TRUE).what \notin Local
            BY <5>1
          <6>4. \A i \in items : i = Item("execution_log", mode = "gov") \/ i = Item("alerts_summary", TRUE)
            OBVIOUS
          <6> HIDE DEF items
          <6> QED  BY <6>1, <6>2, <6>3, <6>4
        <5> QED  BY <1>5, <2>3, <5>2, <5>3, <5>4, <5>5
      <4> QED  BY <4>1 DEF Writes
    <3> QED  BY <1>3, <2>1, <3>1
  <2> QED  BY <2>2, <2>3
<1>6. CASE UNCHANGED vars
  BY <1>6 DEF vars, MixedInv, Told, Mixed
<1> QED
  BY <1>1, <1>2, <1>4, <1>5, <1>6 DEF Next

\* A bundle in which facts, logs or configuration of one machine stand beside
\* the tables of another says so, if the server could be asked who it is
\* (nodeWarnings is called with what will be collected).
THEOREM MixtureIsTold == Spec => []MixedHostsAreTold
<1>1. MixedInv => MixedHostsAreTold
  BY DEF MixedInv, MixedHostsAreTold, Told, Mixed
<1> QED  BY InitMixed, NextMixed, <1>1, PTL DEF Spec

-----------------------------------------------------------------------------
(* The query files that the server gets.                                    *)

\* A set of numbers has a least one.
LEMMA Least ==
  ASSUME NEW T, T \subseteq Nat, T # {}
  PROVE  \E m \in T : \A k \in T : m <= k
<1>1. PICK m \in T : \A k \in T : ~(<<k, m>> \in OpToRel(<, Nat))
  BY NatLessThanWellFounded, WFMin
<1>2. \A k \in T : ~(k < m)
  BY <1>1 DEF OpToRel
<1> QED  BY <1>2

\* What holds at first and after each step of a loop holds at its end.
LEMMA Induction ==
  ASSUME NEW N \in Nat, NEW T, 0 \in T, \A n \in 1..N : n - 1 \in T => n \in T
  PROVE  0..N \subseteq T
<1> DEFINE Bad == (0..N) \ T
<1>1. ASSUME Bad # {} PROVE FALSE
  <2>0. Bad \subseteq Nat
    OBVIOUS
  <2>1. PICK m \in Bad : \A k \in Bad : m <= k
    <3> HIDE DEF Bad
    <3> QED  BY <1>1, <2>0, Least
  <2>2. m \in 1..N /\ m - 1 \in 0..N
    BY <2>1
  <2>3. m - 1 \in T
    BY <2>1, <2>2
  <2> QED  BY <2>1, <2>2, <2>3
<1> QED  BY <1>1

\* f holds what a loop has after each of its steps.
Iteration(f, N, x, step) == f[0] = x /\ \A n \in 1..N : f[n] = step[n][f[n - 1]]

\* A loop has a result.
LEMMA Iterates ==
  ASSUME NEW N \in Nat, NEW X, NEW x \in X, NEW step,
         \A n \in 1..N, y \in X : step[n][y] \in X
  PROVE  \E f \in [0..N -> X] : Iteration(f, N, x, step)
<1> DEFINE Done == {n \in 0..N : \E f \in [0..n -> X] : Iteration(f, n, x, step)}
<1>1. 0 \in Done
  <2> DEFINE f == [k \in 0..0 |-> x]
  <2>1. f \in [0..0 -> X]
    OBVIOUS
  <2>2. Iteration(f, 0, x, step)
    BY DEF Iteration
  <2> HIDE DEF f
  <2> QED  BY <2>1, <2>2
<1>2. ASSUME NEW n \in 1..N, n - 1 \in Done PROVE n \in Done
  <2>1. PICK f \in [0..(n - 1) -> X] : Iteration(f, n - 1, x, step)
    BY <1>2
  <2> DEFINE g == [k \in 0..n |-> IF k = n THEN step[n][f[n - 1]] ELSE f[k]]
  <2>2. step[n][f[n - 1]] \in X
    <3>1. n - 1 \in 0..(n - 1) /\ f[n - 1] \in X
      OBVIOUS
    <3> QED  BY <3>1
  <2>3. \A k \in 0..n : k = n \/ k \in 0..(n - 1)
    OBVIOUS
  <2>4. g \in [0..n -> X]
    BY <2>2, <2>3
  <2>5. /\ g[n] = step[n][f[n - 1]]
        /\ \A k \in 0..(n - 1) : g[k] = f[k]
    OBVIOUS
  <2>6. Iteration(g, n, x, step)
    <3> HIDE DEF g
    <3>1. g[0] = x
      BY <2>1, <2>5 DEF Iteration
    <3>2. ASSUME NEW k \in 1..n PROVE g[k] = step[k][g[k - 1]]
      <4>1. CASE k = n
        <5>1. n - 1 \in 0..(n - 1)
          OBVIOUS
        <5> QED  BY <2>5, <4>1, <5>1
      <4>2. CASE k # n
        <5>1. k \in 1..(n - 1) /\ k \in 0..(n - 1) /\ k - 1 \in 0..(n - 1)
          BY <4>2
        <5> QED  BY <2>1, <2>5, <5>1 DEF Iteration
      <4> QED  BY <4>1, <4>2
    <3> QED  BY <3>1, <3>2 DEF Iteration
  <2> HIDE DEF g
  <2> QED  BY <2>4, <2>6
<1> HIDE DEF Done
<1>3. N \in Done
  <2>1. 0..N \subseteq Done
    BY <1>1, <1>2, Induction
  <2> QED  BY <2>1
<1> QED  BY <1>3 DEF Done

\* The loop of Only, step by step.
OnlyLoop(kept, s, S) ==
  /\ kept[0] = <<>>
  /\ \A n \in 1..Len(s) :
       kept[n] = (IF s[n] \in S THEN Append(kept[n - 1], s[n]) ELSE kept[n - 1])

LEMMA OnlySteps ==
  ASSUME NEW F, NEW s \in Seq(F), NEW S
  PROVE  \E kept \in [0..Len(s) -> Seq(F)] :
           OnlyLoop(kept, s, S) /\ Only(s, S) = kept[Len(s)]
<1> DEFINE X == Seq(F)
           next(n, x) == IF s[n] \in S THEN Append(x, s[n]) ELSE x
           step == [n \in 1..Len(s) |-> [x \in X |-> next(n, x)]]
           body(g) == [n \in 0..Len(s) |->
                         IF n = 0 THEN <<>>
                         ELSE IF s[n] \in S THEN Append(g[n - 1], s[n]) ELSE g[n - 1]]
           kept == CHOOSE g : g = body(g)
<1>1. Len(s) \in Nat /\ <<>> \in X
  OBVIOUS
<1>2. \A n \in 1..Len(s), x \in X : next(n, x) \in X
  OBVIOUS
<1>3. Only(s, S) = kept[Len(s)]
  BY DEF Only
<1>4. \A g : body(g) = [n \in 0..Len(s) |-> IF n = 0 THEN <<>> ELSE next(n, g[n - 1])]
  OBVIOUS
<1> HIDE DEF X, next, body
<1>5. \A n \in 1..Len(s), x \in X : step[n][x] \in X
  BY <1>2
<1>6. \A n \in 1..Len(s), x \in X : step[n][x] = next(n, x)
  OBVIOUS
<1> HIDE DEF step
<1>7. PICK f \in [0..Len(s) -> X] : Iteration(f, Len(s), <<>>, step)
  BY <1>1, <1>5, Iterates
<1>8. \A n \in 1..Len(s) : f[n] = next(n, f[n - 1])
  <2> TAKE n \in 1..Len(s)
  <2>1. n - 1 \in 0..Len(s)
    BY <1>1
  <2> QED  BY <1>6, <1>7, <2>1 DEF Iteration
<1>9. f = body(f)
  <2>1. \A n \in 0..Len(s) : n = 0 \/ n \in 1..Len(s)
    BY <1>1
  <2>2. \A n \in 0..Len(s) : f[n] = (IF n = 0 THEN <<>> ELSE next(n, f[n - 1]))
    BY <1>7, <1>8, <2>1 DEF Iteration
  <2> QED  BY <1>4, <1>7, <2>2
<1>10. kept = body(kept)
  BY <1>9
<1> HIDE DEF kept
<1>11. kept = [n \in 0..Len(s) |-> IF n = 0 THEN <<>> ELSE next(n, kept[n - 1])]
  BY <1>4, <1>10
<1>12. kept[0] = <<>> /\ \A n \in 1..Len(s) : kept[n] = next(n, kept[n - 1])
  BY <1>1, <1>11
<1> DEFINE T == {n \in 0..Len(s) : kept[n] \in X}
<1>13. 0..Len(s) \subseteq T
  <2>1. 0 \in T
    BY <1>1, <1>12
  <2>2. \A n \in 1..Len(s) : n - 1 \in T => n \in T
    BY <1>1, <1>2, <1>12
  <2> HIDE DEF T
  <2> QED  BY <1>1, <2>1, <2>2, Induction
<1>14. kept \in [0..Len(s) -> X]
  BY <1>11, <1>13
<1> QED  BY <1>3, <1>12, <1>14 DEF X, next, OnlyLoop

\* The files that are left are those of s that are in S.
LEMMA OnlyKeeps ==
  ASSUME NEW F, NEW s \in Seq(F), NEW S
  PROVE  /\ Only(s, S) \in Seq(F)
         /\ ToSet(Only(s, S)) = ToSet(s) \cap S
<1>1. PICK kept \in [0..Len(s) -> Seq(F)] :
        OnlyLoop(kept, s, S) /\ Only(s, S) = kept[Len(s)]
  BY OnlySteps
<1>2. Len(s) \in Nat /\ \A n \in 1..Len(s) : s[n] \in F
  OBVIOUS
<1> DEFINE Seen(n) == {s[i] : i \in 1..n}
           T == {n \in 0..Len(s) : ToSet(kept[n]) = Seen(n) \cap S}
<1>3. 0 \in T
  BY <1>1, <1>2 DEF ToSet, OnlyLoop
<1>4. ASSUME NEW n \in 1..Len(s), n - 1 \in T PROVE n \in T
  <2>1. kept[n - 1] \in Seq(F) /\ s[n] \in F
    BY <1>2
  <2>2. Seen(n) = Seen(n - 1) \cup {s[n]}
    OBVIOUS
  <2>3. ToSet(Append(kept[n - 1], s[n])) = ToSet(kept[n - 1]) \cup {s[n]}
    <3> DEFINE t == kept[n - 1]
    <3>1. /\ Len(Append(t, s[n])) = Len(t) + 1 /\ Len(t) \in Nat
          /\ \A i \in 1..Len(t) : Append(t, s[n])[i] = t[i]
          /\ Append(t, s[n])[Len(t) + 1] = s[n]
          /\ DOMAIN Append(t, s[n]) = 1..(Len(t) + 1) /\ DOMAIN t = 1..Len(t)
      BY <2>1
    <3> HIDE DEF t
    <3>2. \A i \in 1..(Len(t) + 1) : i \in 1..Len(t) \/ i = Len(t) + 1
      BY <3>1
    <3> QED  BY <3>1, <3>2 DEF ToSet, t
  <2>4. ToSet(kept[n]) = ToSet(kept[n - 1]) \cup ({s[n]} \cap S)
    <3>1. kept[n] = (IF s[n] \in S THEN Append(kept[n - 1], s[n]) ELSE kept[n - 1])
      BY <1>1 DEF OnlyLoop
    <3> QED  BY <2>3, <3>1
  <2> HIDE DEF Seen
  <2> QED  BY <1>4, <2>2, <2>4
<1>5. 0..Len(s) \subseteq T
  <2> HIDE DEF T
  <2> QED  BY <1>2, <1>3, <1>4, Induction
<1>6. Seen(Len(s)) = ToSet(s)
  BY DEF ToSet
<1> HIDE DEF Seen
<1> QED  BY <1>1, <1>2, <1>5, <1>6

\* The loop of SelectHighestPriorityQueries, step by step.
BestLoop(best, s) ==
  /\ best[0] = {}
  /\ \A n \in 1..Len(s) : best[n] = Preferred(best[n - 1], s[n])

LEMMA BestSteps ==
  ASSUME NEW F, NEW s \in Seq(F)
  PROVE  \E best \in [0..Len(s) -> SUBSET F] :
           BestLoop(best, s) /\ SelectHighestPriorityQueries(s) = best[Len(s)]
<1> DEFINE X == SUBSET F
           step == [n \in 1..Len(s) |-> [x \in X |-> Preferred(x, s[n])]]
           body(g) == [n \in 0..Len(s) |->
                         IF n = 0 THEN {} ELSE Preferred(g[n - 1], s[n])]
           best == CHOOSE g : g = body(g)
<1>1. Len(s) \in Nat /\ {} \in X
  OBVIOUS
<1>2. \A n \in 1..Len(s), x \in X : Preferred(x, s[n]) \in X
  BY DEF Preferred
<1>3. SelectHighestPriorityQueries(s) = best[Len(s)]
  BY DEF SelectHighestPriorityQueries
<1> HIDE DEF X, body
<1>4. /\ \A n \in 1..Len(s), x \in X : step[n][x] \in X
      /\ \A n \in 1..Len(s), x \in X : step[n][x] = Preferred(x, s[n])
  BY <1>2
<1> HIDE DEF step
<1>5. PICK f \in [0..Len(s) -> X] : Iteration(f, Len(s), {}, step)
  BY <1>1, <1>4, Iterates
<1>6. \A n \in 1..Len(s) : f[n] = Preferred(f[n - 1], s[n])
  <2> TAKE n \in 1..Len(s)
  <2>1. n - 1 \in 0..Len(s)
    BY <1>1
  <2>2. f[n - 1] \in X
    BY <1>5, <2>1
  <2>3. f[n] = step[n][f[n - 1]]
    BY <1>5 DEF Iteration
  <2> QED  BY <1>4, <2>2, <2>3
<1>7. f = body(f)
  <2>1. \A n \in 0..Len(s) : n = 0 \/ n \in 1..Len(s)
    BY <1>1
  <2>2. \A n \in 0..Len(s) : f[n] = (IF n = 0 THEN {} ELSE Preferred(f[n - 1], s[n]))
    BY <1>5, <1>6, <2>1 DEF Iteration
  <2> QED  BY <1>5, <2>2 DEF body
<1>8. best = body(best)
  BY <1>7
<1> HIDE DEF best
<1>9. best[0] = {} /\ \A n \in 1..Len(s) : best[n] = Preferred(best[n - 1], s[n])
  <2>1. /\ 0 \in 0..Len(s)
        /\ \A n \in 1..Len(s) : n \in 0..Len(s) /\ n # 0
    BY <1>1
  <2>2. /\ \A n \in 0..Len(s) : n = 0 => body(best)[n] = {}
        /\ \A n \in 0..Len(s) : n # 0 => body(best)[n] = Preferred(best[n - 1], s[n])
    BY DEF body
  <2> HIDE DEF body
  <2>3. best[0] = {}
    BY <1>8, <2>1, <2>2
  <2>4. \A n \in 1..Len(s) : best[n] = Preferred(best[n - 1], s[n])
    BY <1>8, <2>1, <2>2
  <2> QED  BY <2>3, <2>4
<1> DEFINE T == {n \in 0..Len(s) : best[n] \in X}
<1>10. 0..Len(s) \subseteq T
  <2>1. 0 \in T
    <3> HIDE DEF step
    <3>1. 0 \in 0..Len(s) /\ best[0] \in X
      BY <1>1, <1>9
    <3> QED  BY <3>1
  <2>2. \A n \in 1..Len(s) : n - 1 \in T => n \in T
    BY <1>1, <1>2, <1>9
  <2> HIDE DEF T
  <2> QED  BY <1>1, <2>1, <2>2, Induction
<1>11. best \in [0..Len(s) -> X]
  BY <1>8, <1>10 DEF body
<1> QED  BY <1>3, <1>9, <1>11 DEF X, BestLoop

\* By number a version is later than another or not: never than itself, and
\* than whatever a version is later than that it is later than.
LEMMA GreaterIsOrder ==
  /\ \A v \in Version : ~IsGreater(v, v)
  /\ \A u, v, w \in Version : IsGreater(u, v) /\ IsGreater(v, w) => IsGreater(u, w)
<1>1. ASSUME NEW v \in Version PROVE ~IsGreater(v, v)
  <2>1. \A i \in 1..4 : v[i] \in Nat
    BY DEF Version
  <2> QED  BY <2>1 DEF IsGreater
<1>2. ASSUME NEW u \in Version, NEW v \in Version, NEW w \in Version,
             IsGreater(u, v), IsGreater(v, w)
      PROVE  IsGreater(u, w)
  <2>1. \A i \in 1..4 : u[i] \in Nat /\ v[i] \in Nat /\ w[i] \in Nat
    BY DEF Version
  <2>2. PICK i \in 1..4 : u[i] > v[i] /\ \A j \in 1..(i - 1) : u[j] = v[j]
    BY <1>2 DEF IsGreater
  <2>3. PICK k \in 1..4 : v[k] > w[k] /\ \A j \in 1..(k - 1) : v[j] = w[j]
    BY <1>2 DEF IsGreater
  <2>4. CASE i <= k
    <3>1. u[i] > w[i]
      BY <2>1, <2>2, <2>3, <2>4
    <3>2. \A j \in 1..(i - 1) : u[j] = w[j]
      BY <2>2, <2>3, <2>4
    <3> QED  BY <3>1, <3>2 DEF IsGreater
  <2>5. CASE k < i
    <3>1. u[k] > w[k]
      BY <2>1, <2>2, <2>3, <2>5
    <3>2. \A j \in 1..(k - 1) : u[j] = w[j]
      BY <2>2, <2>3, <2>5
    <3> QED  BY <3>1, <3>2 DEF IsGreater
  <2> QED  BY <2>4, <2>5
<1> QED  BY <1>1, <1>2

\* best holds one file of S for each name in it, and none that another should
\* have replaced.
Greatest(best, S) ==
  /\ best \subseteq S
  /\ \A f \in S : \E g \in S :
       {h \in best : h.name = f.name} = {g} /\ ~HasHigherPriority(f, g)

Placed(f) == f.dir = <<>> \/ VersionOf[DirName(f)] \in Version

LEMMA PreferredIsGreatest ==
  ASSUME NEW S, NEW f, \A e \in S \cup {f} : Placed(e), NEW best, Greatest(best, S)
  PROVE  Greatest(Preferred(best, f), S \cup {f})
<1> DEFINE All == S \cup {f}
           Named(b, name) == {h \in b : h.name = name}
           new == Preferred(best, f)
<1>1. \A e, g, h \in All :
        HasHigherPriority(e, g) /\ HasHigherPriority(g, h) => HasHigherPriority(e, h)
  BY GreaterIsOrder DEF HasHigherPriority, Placed
<1>2. ~HasHigherPriority(f, f)
  BY GreaterIsOrder DEF HasHigherPriority, Placed
<1>3. ASSUME NEW x, new = {g \in best : g.name # f.name} \cup {x}, x \in All, x.name = f.name,
             ~HasHigherPriority(f, x),
             \A e \in S : e.name = f.name => ~HasHigherPriority(e, x)
      PROVE  Greatest(new, All)
  <2>1. new \subseteq All
    BY <1>3 DEF Greatest
  <2>2. ASSUME NEW e \in All PROVE \E g \in All : Named(new, e.name) = {g} /\ ~HasHigherPriority(e, g)
    <3>1. CASE e.name = f.name
      <4>1. Named(new, e.name) = {x}
        BY <1>3, <3>1
      <4> QED  BY <1>3, <3>1, <4>1
    <3>2. CASE e.name # f.name
      <4>1. PICK g \in S : Named(best, e.name) = {g} /\ ~HasHigherPriority(e, g)
        BY <3>2 DEF Greatest
      <4>2. Named(new, e.name) = Named(best, e.name)
        BY <1>3, <3>2
      <4> QED  BY <4>1, <4>2
    <3> QED  BY <3>1, <3>2
  <2> QED  BY <2>1, <2>2 DEF Greatest
<1>4. CASE \E g \in best : g.name = f.name /\ ~HasHigherPriority(f, g)
  <2> DEFINE x == CHOOSE g \in best : g.name = f.name
  <2>1. PICK g \in best : g.name = f.name /\ ~HasHigherPriority(f, g)
    BY <1>4
  <2>2. x \in best /\ x.name = f.name
    BY <2>1
  <2>3. new = {h \in best : h.name # f.name} \cup {x}
    BY <1>4 DEF Preferred
  <2> HIDE DEF x
  <2>4. g \in S /\ x \in S
    BY <2>2 DEF Greatest
  <2>5. \A e \in S : e.name = f.name => ~HasHigherPriority(e, x) /\ x = g
    <3> TAKE e \in S
    <3> HAVE e.name = f.name
    <3>1. PICK y \in S : Named(best, e.name) = {y} /\ ~HasHigherPriority(e, y)
      BY DEF Greatest
    <3>2. x = y /\ g = y
      BY <2>1, <2>2, <3>1
    <3> QED  BY <3>1, <3>2
  <2>6. x = g
    BY <2>1, <2>4, <2>5
  <2> HIDE DEF new
  <2>7. x \in All
    BY <2>4
  <2>8. Greatest(new, All)
    BY <1>3, <2>1, <2>2, <2>3, <2>5, <2>6, <2>7
  <2> QED  BY <2>8 DEF new
<1>5. CASE \A g \in best : g.name = f.name => HasHigherPriority(f, g)
  <2>1. new = {h \in best : h.name # f.name} \cup {f}
    BY <1>5 DEF Preferred
  <2>2. \A e \in S : e.name = f.name => ~HasHigherPriority(e, f)
    <3> TAKE e \in S
    <3> HAVE e.name = f.name
    <3>1. PICK y \in S : Named(best, e.name) = {y} /\ ~HasHigherPriority(e, y)
      BY DEF Greatest
    <3>2. y \in best /\ y.name = f.name
      BY <3>1
    <3>3. HasHigherPriority(f, y)
      BY <1>5, <3>2
    <3> QED  BY <1>1, <3>1, <3>3
  <2> HIDE DEF new
  <2>3. Greatest(new, All)
    BY <1>2, <1>3, <2>1, <2>2
  <2> QED  BY <2>3 DEF new
<1> QED  BY <1>4, <1>5

\* What is selected of some files is the greatest of each name.
LEMMA SelectsGreatest ==
  ASSUME NEW F, \A f \in F : Placed(f), NEW s \in Seq(F)
  PROVE  Greatest(SelectHighestPriorityQueries(s), ToSet(s))
<1>1. PICK best \in [0..Len(s) -> SUBSET F] :
        BestLoop(best, s) /\ SelectHighestPriorityQueries(s) = best[Len(s)]
  BY BestSteps
<1>2. Len(s) \in Nat /\ \A n \in 1..Len(s) : s[n] \in F
  OBVIOUS
<1> DEFINE Seen(n) == {s[i] : i \in 1..n}
           T == {n \in 0..Len(s) : Greatest(best[n], Seen(n))}
<1>3. 0 \in T
  BY <1>1, <1>2 DEF BestLoop, Greatest
<1>4. ASSUME NEW n \in 1..Len(s), n - 1 \in T PROVE n \in T
  <2>1. Seen(n) = Seen(n - 1) \cup {s[n]}
    OBVIOUS
  <2>2. \A e \in Seen(n) : Placed(e)
    BY <1>2
  <2>3. best[n] = Preferred(best[n - 1], s[n])
    BY <1>1 DEF BestLoop
  <2> HIDE DEF Seen
  <2>4. Greatest(best[n - 1], Seen(n - 1))
    BY <1>4
  <2>5. Greatest(Preferred(best[n - 1], s[n]), Seen(n - 1) \cup {s[n]})
    BY <2>1, <2>2, <2>4, PreferredIsGreatest
  <2> QED  BY <2>1, <2>3, <2>5
<1>5. 0..Len(s) \subseteq T
  <2> HIDE DEF T
  <2> QED  BY <1>2, <1>3, <1>4, Induction
<1>6. Seen(Len(s)) = ToSet(s)
  BY DEF ToSet
<1> HIDE DEF Seen
<1> QED  BY <1>1, <1>2, <1>5, <1>6

\* The order in which the property is stated is the code's.
LEMMA LaterIsGreater ==
  ASSUME NEW v \in Version, NEW w \in Version
  PROVE  /\ Later(v, w) <=> IsGreater(v, w)
         /\ ~Later(v, w) <=> IsGreaterOrEqual(w, v)
<1>1. \A i \in 1..4 : v[i] \in Nat /\ w[i] \in Nat
  BY DEF Version
<1>2. Later(v, w) => IsGreater(v, w)
  <2>1. ASSUME NEW i \in 1..4, v[i] > w[i], \A j \in 1..(i - 1) : v[j] = w[j]
        PROVE  IsGreater(v, w)
    BY <2>1 DEF IsGreater
  <2>2. CASE v[1] > w[1]
    BY <2>1, <2>2
  <2>3. CASE v[1] = w[1] /\ v[2] > w[2]
    <3>1. \A j \in 1..(2 - 1) : j = 1
      OBVIOUS
    <3> QED  BY <2>1, <2>3, <3>1
  <2>4. CASE v[1] = w[1] /\ v[2] = w[2] /\ v[3] > w[3]
    <3>1. \A j \in 1..(3 - 1) : j = 1 \/ j = 2
      OBVIOUS
    <3> QED  BY <2>1, <2>4, <3>1
  <2>5. CASE v[1] = w[1] /\ v[2] = w[2] /\ v[3] = w[3] /\ v[4] > w[4]
    <3>1. \A j \in 1..(4 - 1) : j = 1 \/ j = 2 \/ j = 3
      OBVIOUS
    <3> QED  BY <2>1, <2>5, <3>1
  <2> QED  BY <2>2, <2>3, <2>4, <2>5 DEF Later
<1>3. IsGreater(v, w) => Later(v, w)
  <2>1. ASSUME NEW i \in 1..4, v[i] > w[i], \A j \in 1..(i - 1) : v[j] = w[j]
        PROVE  Later(v, w)
    BY <2>1 DEF Later
  <2> QED  BY <2>1 DEF IsGreater
<1>4. IsGreater(v, w) => ~IsGreater(w, v) /\ v # w
  BY GreaterIsOrder
<1>5. v = w \/ IsGreater(v, w) \/ IsGreater(w, v)
  <2>1. CASE \A i \in 1..4 : v[i] = w[i]
    BY <2>1 DEF Version
  <2>2. CASE \E i \in 1..4 : v[i] # w[i]
    <3>1. PICK i \in 1..4 : v[i] # w[i] /\ \A j \in 1..(i - 1) : v[j] = w[j]
      <4> DEFINE D == {i \in 1..4 : v[i] # w[i]}
      <4>1. D \subseteq Nat /\ D # {}
        BY <2>2
      <4>2. PICK i \in D : \A k \in D : i <= k
        <5> HIDE DEF D
        <5> QED  BY <4>1, Least
      <4>3. \A j \in 1..(i - 1) : j \in 1..4 /\ ~(i <= j)
        BY <4>2
      <4> QED  BY <4>2, <4>3
    <3>2. v[i] > w[i] \/ w[i] > v[i]
      BY <1>1, <3>1
    <3> QED  BY <3>1, <3>2 DEF IsGreater
  <2> QED  BY <2>1, <2>2
<1> QED  BY <1>2, <1>3, <1>4, <1>5 DEF IsGreaterOrEqual

File == [dir : Seq(STRING), name : STRING]

\* What the server could have, as the property and as the code has it.
Compatible(folder, version) ==
  {f \in ToSet(folder) :
     /\ f.name \notin Dotted /\ ToSet(f.dir) \cap Dotted = {}
     /\ f.dir = <<>> \/ /\ Last(f.dir) \in DOMAIN VersionOf
                        /\ ~Later(VersionOf[Last(f.dir)], version)}

LEMMA FindsCompatible ==
  ASSUME NEW folder \in Seq(File), NEW version \in Version
  PROVE  /\ FindCompatibleQueries(folder, version) \in Seq(Compatible(folder, version))
         /\ ToSet(FindCompatibleQueries(folder, version)) = Compatible(folder, version)
<1> DEFINE Roots == {f \in Walked(folder) : f.dir = <<>>}
           Versioned == {f \in Walked(folder) :
                           /\ DirName(f) \in DOMAIN VersionOf
                           /\ IsGreaterOrEqual(version, VersionOf[DirName(f)])}
           r == Only(folder, Roots)
           t == Only(folder, Versioned)
<1>1. FindCompatibleQueries(folder, version) = r \o t
  BY DEF FindCompatibleQueries
<1>2. \A f \in ToSet(folder) : f \in Walked(folder)
                               <=> f.name \notin Dotted /\ ToSet(f.dir) \cap Dotted = {}
  <2> TAKE f \in ToSet(folder)
  <2>1. f \in File
    BY DEF ToSet
  <2>2. f.dir \in Seq(STRING)
    BY <2>1 DEF File
  <2>3. ToSet(f.dir) = {f.dir[i] : i \in 1..Len(f.dir)}
    BY <2>2 DEF ToSet
  <2> QED  BY <2>3 DEF Walked
<1>3. \A f \in ToSet(folder) : f \in Roots \/ f \in Versioned <=> f \in Compatible(folder, version)
  <2> TAKE f \in ToSet(folder)
  <2>1. f.dir # <<>> => DirName(f) = Last(f.dir)
    BY DEF DirName
  <2>2. \A d \in DOMAIN VersionOf :
          IsGreaterOrEqual(version, VersionOf[d]) <=> ~Later(VersionOf[d], version)
    BY LaterIsGreater, SelectionAssumption
  <2>3. f.dir = <<>> => (f \in Roots <=> f \in Walked(folder))
    OBVIOUS
  <2> QED  BY <1>2, <2>1, <2>2 DEF Compatible
<1>4. /\ r \in Seq(File) /\ ToSet(r) = ToSet(folder) \cap Roots
      /\ t \in Seq(File) /\ ToSet(t) = ToSet(folder) \cap Versioned
  <2> HIDE DEF Roots, Versioned
  <2> QED  BY OnlyKeeps
<1> HIDE DEF r, t, Roots, Versioned
<1> DEFINE rt == r \o t
<1>5. ToSet(rt) = ToSet(r) \cup ToSet(t)
  <2>1. /\ Len(r) \in Nat /\ Len(t) \in Nat
        /\ \A i \in 1..Len(r) : rt[i] = r[i]
        /\ \A i \in 1..Len(t) : rt[Len(r) + i] = t[i]
        /\ DOMAIN r = 1..Len(r) /\ DOMAIN t = 1..Len(t) /\ DOMAIN rt = 1..(Len(r) + Len(t))
    BY <1>4
  <2> HIDE DEF rt
  <2>2. ASSUME NEW i \in 1..(Len(r) + Len(t))
        PROVE  i \in 1..Len(r) \/ \E k \in 1..Len(t) : i = Len(r) + k
    <3>1. CASE i > Len(r)
      <4>1. i - Len(r) \in 1..Len(t) /\ i = Len(r) + (i - Len(r))
        BY <2>1, <3>1
      <4> QED  BY <4>1
    <3>2. CASE i <= Len(r)
      BY <2>1, <3>2
    <3> QED  BY <2>1, <3>1, <3>2
  <2>3. \A k \in 1..Len(t) : Len(r) + k \in 1..(Len(r) + Len(t))
    BY <2>1
  <2>4. \A k \in 1..Len(r) : k \in 1..(Len(r) + Len(t))
    BY <2>1
  <2>5. ASSUME NEW x \in ToSet(rt)
        PROVE  x \in ToSet(r) \cup ToSet(t)
    <3>1. PICK i \in 1..(Len(r) + Len(t)) : x = rt[i]
      BY <2>1 DEF ToSet
    <3>2. CASE i \in 1..Len(r)
      BY <2>1, <3>1, <3>2 DEF ToSet
    <3>3. CASE \E k \in 1..Len(t) : i = Len(r) + k
      BY <2>1, <3>1, <3>3 DEF ToSet
    <3> QED  BY <2>2, <3>2, <3>3
  <2>6. \A x \in ToSet(r) : x \in ToSet(rt)
    BY <2>1, <2>4 DEF ToSet
  <2>7. \A x \in ToSet(t) : x \in ToSet(rt)
    BY <2>1, <2>3 DEF ToSet
  <2> QED  BY <2>5, <2>6, <2>7
<1>6. rt \in Seq(File)
  BY <1>4
<1> HIDE DEF rt
<1>7. ToSet(rt) = Compatible(folder, version)
  <2>1. Compatible(folder, version) \subseteq ToSet(folder)
    BY DEF Compatible
  <2> QED  BY <1>3, <1>4, <1>5, <2>1
<1>8. rt \in Seq(Compatible(folder, version))
  <2>1. Len(rt) \in Nat /\ rt = [i \in 1..Len(rt) |-> rt[i]]
    BY <1>6
  <2>2. \A i \in 1..Len(rt) : rt[i] \in ToSet(rt)
    BY <1>6 DEF ToSet
  <2> QED  BY <1>7, <2>1, <2>2
<1> QED  BY <1>1, <1>7, <1>8 DEF rt

\* The mode is one of the three once it is resolved, and so is what is collected.
ModeInv ==
  /\ pc \in {"gates"} \cup Gated => mode \in Mode
  /\ pc \in Gated => effective \in Mode

LEMMA InitMode == Init => ModeInv
  BY DEF Init, ModeInv, Gated, Admitted, Collecting

LEMMA NextMode ==
  ASSUME ModeInv, [Next]_vars
  PROVE  ModeInv'
<1> USE DEF flow, setup, server, Go, Stop
<1>1. CASE ParseFlags
  BY <1>1 DEF ParseFlags, ModeInv, Gated, Admitted, Collecting
<1>2. CASE ResolveMode
  <2>1. Resolved \subseteq Mode
    BY InvocationAssumption DEF Resolved, Mode
  <2> QED  BY <1>2, <2>1 DEF ResolveMode, ModeInv, Gated, Admitted, Collecting
<1>3. CASE Gates
  BY <1>3 DEF Gates, ModeInv, Gated, Admitted, Collecting
<1>4. CASE DecideTopology
  <2>1. effective' \in {"cloud", mode, effective} /\ mode' = mode /\ pc \in Gated
    BY <1>4 DEF DecideTopology, Gated
  <2> QED  BY <2>1 DEF ModeInv, Gated, Mode
<1>5. ASSUME UNCHANGED <<mode, effective>>, pc \in Gated \/ pc' = pc
      PROVE  ModeInv'
  BY <1>5 DEF ModeInv
<1>6. CASE CheckVersion \/ CheckVisibility \/ ProbeIdentity \/ Warn \/ DecideLoad \/ AskSignals
           \/ Refuse \/ StartDryRun \/ NoAnalysis \/ FocusOnBoth \/ FocusOnID \/ FocusOnHash
           \/ PreflightFails
  BY <1>5, <1>6 DEF CheckVersion, CheckVisibility, ProbeIdentity, Warn, DecideLoad, AskSignals,
     Refuse, StartDryRun, NoAnalysis, FocusOnBoth, FocusOnID, FocusOnHash, PreflightFails, Focused,
     Gated, Admitted, Collecting
<1>7. CASE AskSalt \/ Select \/ AllCollected \/ EndDryRun \/ EvaluateAlerts
           \/ (\E f \in todo : Collect(f) \/ PassOver(f))
           \/ CollectTextLog \/ CollectAnalysis \/ ProbeKeeper \/ CollectLocal
           \/ GenerateDashboard \/ Report
  BY <1>5, <1>7 DEF AskSalt, Select, AllCollected, EndDryRun, EvaluateAlerts, Collect, PassOver,
     CollectTextLog, CollectAnalysis, ProbeKeeper, CollectLocal, GenerateDashboard, Report,
     Gated, Admitted, Collecting
<1>8. CASE UNCHANGED vars
  BY <1>5, <1>8 DEF vars
<1> QED  BY <1>1, <1>2, <1>3, <1>4, <1>6, <1>7, <1>8 DEF Next

\* Of each query that the server could have it gets exactly one variant, and
\* none is for a later version that it has reached (FindCompatibleQueries,
\* SelectHighestPriorityQueries), whatever folders and versions there are.
THEOREM GreatestIsSelected == Spec => SelectedIsGreatest
<1>1. ASSUME FocusInv, ModeInv, Next, pc = "select"
      PROVE  /\ todo' \subseteq Known
             /\ \A f \in Known : \E g \in Known :
                  {h \in todo' : h.name = f.name} = {g} /\ ~Above(f, g)
  <2> DEFINE folder == world.folders[effective]
             files == FindCompatibleQueries(folder, world.version)
  <2> USE DEF Go, Stop
  <2>a. ~(ParseFlags \/ ResolveMode \/ Gates \/ CheckVersion \/ CheckVisibility \/ ProbeIdentity
            \/ DecideTopology \/ Warn \/ DecideLoad \/ AskSignals \/ Refuse \/ StartDryRun)
    BY <1>1 DEF ParseFlags, ResolveMode, Gates, CheckVersion, CheckVisibility, ProbeIdentity,
       DecideTopology, Warn, DecideLoad, AskSignals, Refuse, StartDryRun
  <2>b. ~(NoAnalysis \/ FocusOnBoth \/ FocusOnID \/ FocusOnHash \/ PreflightFails \/ AskSalt
            \/ AllCollected \/ \E f \in todo : Collect(f) \/ PassOver(f))
    BY <1>1 DEF NoAnalysis, FocusOnBoth, FocusOnID, FocusOnHash, PreflightFails, Focused, AskSalt,
       AllCollected, Collect, PassOver
  <2>c. ~(CollectTextLog \/ CollectAnalysis \/ ProbeKeeper \/ EndDryRun \/ CollectLocal
            \/ EvaluateAlerts \/ GenerateDashboard \/ Report)
    BY <1>1 DEF CollectTextLog, CollectAnalysis, ProbeKeeper, EndDryRun, CollectLocal,
       EvaluateAlerts, GenerateDashboard, Report
  <2>1. Select
    BY <1>1, <2>a, <2>b, <2>c DEF Next
  <2>2. todo' = SelectHighestPriorityQueries(files)
    BY <2>1 DEF Select
  <2>3. folder \in Seq(File) /\ world.version \in Version
    <3>1. effective \in Mode
      BY <1>1 DEF ModeInv, Gated, Admitted, Collecting
    <3>2. world.folders \in [Mode -> Seq(File)] /\ world.version \in Version
      BY <1>1 DEF FocusInv, Place, File
    <3> QED  BY <3>1, <3>2
  <2>4. Known = Compatible(folder, world.version)
    BY DEF Known, Compatible
  <2>5. files \in Seq(Known) /\ ToSet(files) = Known
    <3> HIDE DEF folder
    <3> QED  BY <2>3, <2>4, FindsCompatible
  <2>6. \A f \in Known : Placed(f)
    BY SelectionAssumption DEF Known, Placed, DirName
  <2>7. Greatest(todo', Known)
    <3> HIDE DEF files
    <3> QED  BY <2>2, <2>5, <2>6, SelectsGreatest
  <2>8. ASSUME NEW f \in Known, NEW g \in Known, Above(f, g)
        PROVE  HasHigherPriority(f, g)
    <3>1. \A e \in Known : e.dir # <<>> =>
            DirName(e) = Last(e.dir) /\ VersionOf[Last(e.dir)] \in Version
      BY SelectionAssumption DEF Known, DirName
    <3> QED  BY <2>8, <3>1, LaterIsGreater DEF Above, HasHigherPriority
  <2> QED  BY <2>7, <2>8 DEF Greatest
<1>2. FocusInv /\ ModeInv /\ [Next]_vars =>
        [pc = "select" =>
           /\ todo' \subseteq Known
           /\ \A f \in Known : \E g \in Known :
                {h \in todo' : h.name = f.name} = {g} /\ ~Above(f, g)]_vars
  BY <1>1
<1> QED  BY InitFocus, NextFocus, InitMode, NextMode, <1>2, PTL DEF Spec, SelectedIsGreatest
=============================================================================
