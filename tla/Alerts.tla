------------------------------- MODULE Alerts -------------------------------
(***************************************************************************)
(* internal/alert: RunAll judges the alert rules one after the other, a    *)
(* rule with a Go check over the collected files, any other rule with a    *)
(* query of its own, and Summarize counts the verdicts.                    *)
(*                                                                         *)
(* Left out: what the rules look for and the rows they match.  A rule has  *)
(* a problem or not, and its rows are lost with the rows of its sources.   *)
(***************************************************************************)
EXTENDS Bundle, Naturals, Sequences, FiniteSets

CONSTANTS
  Source,    \* the collectors the checks read
  NoSource,
  Replica,   \* the replicas of a cloud service; one elsewhere
  Cases,     \* the alert phases considered, a subset of CaseType
  MaxWait    \* bound on a request that has no timeout

Mode == {"cloud", "onprem", "gov"}

\* presence is the source the crash check asks in cloud.  problem says
\* whether the server has what the rule looks for, has on which replicas the
\* table it reads exists.
RuleType ==
  [definition : {"ok", "unreadable", "typo"}, modes : SUBSET Mode,
   check : {"none", "registered", "unknown"}, reads : Seq(Source),
   presence : Source \cup {NoSource}, tier : {"essential", "full"},
   needsKeeper : BOOLEAN, safe : BOOLEAN, problem : BOOLEAN, has : SUBSET Replica]

\* bundle: the results are JSON lines, which the checks can read.  sees: what
\* the user's grants let system.tables show.  deadline: the end of the
\* budget, 0 without one.
CaseType ==
  [mode : Mode, bundle : BOOLEAN, essential : BOOLEAN, keeperDown : BOOLEAN,
   deadline : Nat, limit : Nat, sees : SUBSET {"database", "table"},
   entry : [Source -> EntryType], file : [Source -> FileState],
   rules : Seq(RuleType)]

\* What the collectors leave behind (LogMatchesFiles of Collection): a
\* complete file exactly for an ok entry, and of a failed write some part.
Consistent(k) ==
  \A s \in Source :
    /\ k.file[s] = "whole" => k.entry[s].status = "ok"
    /\ k.file[s] = "cut" => k.entry[s].status = "failed" /\ k.entry[s].error = "other"
    /\ k.file[s] = "garbled" => \/ k.entry[s].status = "ok"
                                \/ k.entry[s].status = "failed" /\ k.entry[s].error = "other"

ASSUME AlertsAssumption ==
  /\ NoSource \notin Source
  /\ Replica # {}
  /\ Cases \subseteq CaseType
  /\ \A k \in Cases : Consistent(k)
  /\ MaxWait \in Nat

VARIABLES
  case,     \* this alert phase
  now,      \* the clock
  started,  \* when the phase began
  probing,  \* what notApplicable is counting for the current rule, if anything
  results   \* the verdicts, one per rule judged

vars == <<case, now, started, probing, results>>

Reason == {"none", "mode", "budget", "keeper", "essential", "absent"} \cup NotCollected

Result == [skipped : BOOLEAN, error : BOOLEAN, rows : BOOLEAN, reason : Reason]

Skipped(why)   == [skipped |-> TRUE,  error |-> FALSE, rows |-> FALSE, reason |-> why]
Errored        == [skipped |-> FALSE, error |-> TRUE,  rows |-> FALSE, reason |-> "none"]
Answered(rows) == [skipped |-> FALSE, error |-> FALSE, rows |-> rows,  reason |-> "none"]

Init ==
  /\ case \in Cases
  /\ now \in {1, case.deadline + 1}
  /\ started = now
  /\ probing = "nothing"
  /\ results = <<>>

-----------------------------------------------------------------------------
(* The gates of evalFile, in their order.                                  *)

Judging == probing = "nothing" /\ Len(results) < Len(case.rules)

Current == case.rules[Len(results) + 1]

Judge(verdict) ==
  /\ results' = Append(results, verdict)
  /\ probing' = "nothing"
  /\ UNCHANGED <<case, started>>

\* Mutant of Broken: the names of tiers and modes are not checked.
UnreadableOnly(r) == r.definition = "unreadable"

\* The file or its YAML cannot be read, or it names a tier or a mode that
\* does not exist.
Broken(r) == r.definition # "ok"

OtherMode(r) == r.modes # {} /\ case.mode \notin r.modes

Applies(r) == ~Broken(r) /\ ~OtherMode(r)

\* The rule would send a query of its own.
Live(r) == r.check = "none" \/ ~case.bundle

PastBudget(r) == Live(r) /\ case.deadline > 0 /\ now > case.deadline

WithoutKeeper(r) == Live(r) /\ case.keeperDown /\ r.needsKeeper

TooHeavy(r) == Live(r) /\ case.essential /\ r.tier = "full"

Passes(r) == Applies(r) /\ ~PastBudget(r) /\ ~WithoutKeeper(r) /\ ~TooHeavy(r)

RejectBroken ==
  /\ Judging
  /\ Broken(Current)
  /\ Judge(Errored)
  /\ UNCHANGED now

SkipOtherMode ==
  /\ Judging
  /\ ~Broken(Current) /\ OtherMode(Current)
  /\ Judge(Skipped("mode"))
  /\ UNCHANGED now

SkipPastBudget ==
  /\ Judging
  /\ Applies(Current) /\ PastBudget(Current)
  /\ Judge(Skipped("budget"))
  /\ UNCHANGED now

SkipWithoutKeeper ==
  /\ Judging
  /\ Applies(Current) /\ ~PastBudget(Current) /\ WithoutKeeper(Current)
  /\ Judge(Skipped("keeper"))
  /\ UNCHANGED now

SkipTooHeavy ==
  /\ Judging
  /\ Applies(Current) /\ ~PastBudget(Current) /\ ~WithoutKeeper(Current)
  /\ TooHeavy(Current)
  /\ Judge(Skipped("essential"))
  /\ UNCHANGED now

\* The query or a follow-up is not a read-only SELECT.
Block ==
  /\ Judging
  /\ Passes(Current) /\ ~Current.safe
  /\ Judge(Errored)
  /\ UNCHANGED now

-----------------------------------------------------------------------------
(* A Go check.                                                             *)

Read(s) == Rows(CollectorStatus(case.entry[s], case.mode = "gov"), case.file[s])

\* checkCrashLog in cloud, without the crash_log file: the replicas on which
\* system.crash_log_presence saw the table decide.  What system.tables does
\* not show to this user is not in that file either.
Listed(r) ==
  IF Read(r.presence) = "whole" /\ "table" \in case.sees THEN r.has ELSE {}

CrashVerdict(r, source) ==
  CASE Read(r.presence) \notin {"whole", "cut"} -> Skipped(source)
    [] Read(r.presence) \in {"whole", "cut"} /\ Listed(r) = {} -> Skipped("absent")
    [] OTHER -> Errored

\* A check reads its sources in turn and returns the first error.
Trouble(r) == {i \in 1..Len(r.reads) : Read(r.reads[i]) \notin {"whole", "cut"}}

FirstTrouble(r) == CHOOSE i \in Trouble(r) : \A j \in Trouble(r) : i <= j

SourceVerdict(r, source) ==
  CASE source \notin NotCollected -> Errored
    [] source \in NotCollected /\ case.mode = "cloud" /\ r.presence # NoSource ->
         CrashVerdict(r, source)
    [] OTHER -> Skipped(source)

EvalCheck(r) ==
  IF r.check = "unknown" THEN Errored
  ELSE IF Trouble(r) # {} THEN SourceVerdict(r, Read(r.reads[FirstTrouble(r)]))
  ELSE Answered(r.problem /\ \A i \in 1..Len(r.reads) : Read(r.reads[i]) = "whole")

RunCheck ==
  /\ Judging
  /\ Passes(Current) /\ Current.safe /\ ~Live(Current)
  /\ Judge(EvalCheck(Current))
  /\ UNCHANGED now

-----------------------------------------------------------------------------
(* A live query.                                                           *)

Waits(limit) == IF limit > 0 THEN 0..limit ELSE 0..MaxWait

\* A cloud rule reads the table of every replica, and one replica without it
\* fails the query.
Missing(r) == IF case.mode = "cloud" THEN r.has # Replica ELSE r.has = {}

\* unnamed: the message does not say which table it is, in words we know.
\* An answer that cannot be parsed is an error as well.
Answers(r) ==
  {"error"} \cup IF Missing(r) THEN {"unknown table", "unknown table, unnamed"} ELSE {"rows"}

\* Mutant of Ask: an unknown table is absent, as on a single server.
AskOnce ==
  /\ Judging
  /\ Passes(Current) /\ Current.safe /\ Live(Current)
  /\ \E d \in Waits(case.limit), a \in Answers(Current) :
       /\ now' = now + d
       /\ Judge(CASE a = "rows"  -> Answered(Current.problem)
                  [] a = "error" -> Errored
                  [] OTHER       -> Skipped("absent"))

Ask ==
  /\ Judging
  /\ Passes(Current) /\ Current.safe /\ Live(Current)
  /\ \E d \in Waits(case.limit), a \in Answers(Current) :
       /\ now' = now + d
       /\ \/ a = "rows" /\ Judge(Answered(Current.problem))
          \/ a = "error" /\ Judge(Errored)
          \/ /\ a \in {"unknown table", "unknown table, unnamed"}
             /\ case.mode # "cloud"
             /\ Judge(Skipped("absent"))
          \/ /\ a = "unknown table, unnamed"
             /\ case.mode = "cloud"
             /\ Judge(Errored)
          \/ /\ a = "unknown table"
             /\ case.mode = "cloud"
             /\ probing' = "database"
             /\ UNCHANGED <<case, started, results>>

\* notApplicable: does this user see any table of that database, on any
\* replica?  A zero of the next count would say nothing otherwise.
CountDatabase ==
  /\ probing = "database"
  /\ \E d \in Waits(case.limit), answered \in BOOLEAN :
       /\ now' = now + d
       /\ IF answered /\ "database" \in case.sees
          THEN probing' = "table" /\ UNCHANGED <<case, started, results>>
          ELSE Judge(Errored)

\* On how many replicas does this user see the table?
CountTable ==
  /\ probing = "table"
  /\ \E d \in Waits(case.limit), answered \in BOOLEAN :
       /\ now' = now + d
       /\ Judge(IF answered /\ ("table" \in case.sees => Current.has = {})
                THEN Skipped("absent")
                ELSE Errored)

-----------------------------------------------------------------------------

\* Every rule is judged; RunAll returns.
Returned == Len(results) = Len(case.rules) /\ UNCHANGED vars

Next ==
  \/ RejectBroken
  \/ SkipOtherMode
  \/ SkipPastBudget
  \/ SkipWithoutKeeper
  \/ SkipTooHeavy
  \/ Block
  \/ RunCheck
  \/ Ask
  \/ CountDatabase
  \/ CountTable
  \/ Returned

Spec == Init /\ [][Next]_vars

-----------------------------------------------------------------------------
(* Summarize, for the console, the log and alerts_summary.json.            *)

\* Mutant of Summarize: whatever was not skipped counts as evaluated, and an
\* error as a finding.
EverythingCounts(rs) ==
  LET skipped == Cardinality({i \in 1..Len(rs) : rs[i].skipped}) IN
  [evaluated |-> Len(rs) - skipped,
   fired     |-> Cardinality({i \in 1..Len(rs) : rs[i].error \/ rs[i].rows})]

Summarize(rs) ==
  LET skipped == Cardinality({i \in 1..Len(rs) : rs[i].skipped})
      errored == Cardinality({i \in 1..Len(rs) : ~rs[i].skipped /\ rs[i].error})
  IN  [evaluated |-> Len(rs) - skipped - errored,
       fired     |-> Cardinality({i \in 1..Len(rs) :
                                    ~rs[i].skipped /\ ~rs[i].error /\ rs[i].rows})]

-----------------------------------------------------------------------------
(* Properties.                                                             *)

Judged == 1..Len(results)

\* A rule counts as evaluated: it reads clean without rows, fired with them.
Evaluated(v) == ~v.skipped /\ ~v.error

\* Every variable holds a value of its Go type, and no rule is judged twice.
TypeOK ==
  /\ case \in CaseType /\ Consistent(case)
  /\ now \in Nat
  /\ started \in Nat
  /\ probing \in {"nothing", "database", "table"}
  /\ results \in Seq(Result)
  /\ Len(results) <= Len(case.rules)

\* The one thing the verdicts are for: a rule reads clean only if the server
\* does not have its problem and fires only if it has, whatever was skipped,
\* failed, cut short or could not be parsed on the way.
CleanMeansClean ==
  \A i \in Judged : Evaluated(results[i]) => results[i].rows = case.rules[i].problem

\* When the grants hide the table but not its database, the count of a live
\* rule is blind; the crash check's file is blind whenever the table is hidden.
Blind(r) == IF Live(r) THEN case.sees = {"database"} ELSE "table" \notin case.sees

\* "Table not present" is said of a table no replica has, and never of one
\* that the others lack: a crash on one replica must not be hidden.
AbsentMeansAbsent ==
  \A i \in Judged :
    results[i].reason = "absent" /\ ~Blind(case.rules[i]) => case.rules[i].has = {}

\* A broken rule is reported in every run: no mode, budget or other gate may
\* turn a typo into a silent skip; and one with an unsafe query never runs.
BrokenRuleSurfaces ==
  \A i \in Judged :
    /\ case.rules[i].definition # "ok" => results[i].error
    /\ ~case.rules[i].safe => ~Evaluated(results[i])

\* For a Go check its sources decide and nothing else: with all of them in the
\* bundle a rule for this mode is evaluated, past the budget, without Keeper
\* and in an essential run as well; without one of them it is not.
SourcesDecide ==
  \A i \in Judged :
    LET r == case.rules[i] IN
    r.check # "none" /\ case.bundle =>
      (Evaluated(results[i]) <=>
         /\ r.check = "registered" /\ r.safe /\ r.definition = "ok"
         /\ r.modes = {} \/ case.mode \in r.modes
         /\ \A j \in 1..Len(r.reads) : Read(r.reads[j]) = "whole")

\* The phase outlives the budget by one rule: its query and the two counts of
\* notApplicable, none of which looks at the budget.
AlertOverrunBounded ==
  case.limit > 0 /\ case.deadline > 0 =>
    \/ now <= started + 3 * case.limit
    \/ now <= case.deadline + 3 * case.limit

\* No more rules count as evaluated, or fired, than could be: a rule whose
\* sources were not collected is no verified rule, an error no finding.
SummaryHonest ==
  LET unread == {i \in Judged :
                   /\ ~Live(case.rules[i])
                   /\ \E j \in 1..Len(case.rules[i].reads) :
                        Read(case.rules[i].reads[j]) # "whole"}
      problems == {i \in Judged : case.rules[i].problem}
  IN  /\ Summarize(results).evaluated + Cardinality(unread) <= Len(results)
      /\ Summarize(results).fired <= Cardinality(problems)

-----------------------------------------------------------------------------
(* What a comment says and the code does not do.                           *)

\* collectorStatus: "A table this server does not have ... is not a failure:
\* "not collected", like a collector gated by version".
AbsentTableIsNoFailure ==
  \A i \in Judged : results[i].reason = "failed" =>
    \E j \in 1..Len(case.rules[i].reads) :
      /\ case.entry[case.rules[i].reads[j]].status = "failed"
      /\ case.entry[case.rules[i].reads[j]].error = "other"

\* system.crash_log_presence.sql: the crashes of a replica that has the table
\* are "surfaced, never hidden as "no crash"".
CrashNeverHidden ==
  \A i \in Judged :
    ~Live(case.rules[i]) /\ results[i].reason = "absent" => case.rules[i].has = {}
=============================================================================
