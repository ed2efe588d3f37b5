--------------------------- MODULE Alerts_proofs ---------------------------
(***************************************************************************)
(* Theorems about Alerts, for every directory of rules, every end of the   *)
(* collectors and every budget; and about Checks, for every server and     *)
(* every order in which its replicas answer.                               *)
(***************************************************************************)
EXTENDS Alerts, Checks, FiniteSetTheorems, WellFoundedInduction, TLAPS

\* A verdict that is right about its rule: the four properties of a verdict.
Just(r, v) ==
  /\ v \in Result
  /\ Evaluated(v) => v.rows = r.problem
  /\ v.reason = "absent" /\ ~Blind(r) => r.has = {}
  /\ Broken(r) => v.error
  /\ ~r.safe => ~Evaluated(v)
  /\ ~Live(r) =>
       (Evaluated(v) <=> /\ r.check = "registered" /\ r.safe /\ Applies(r)
                         /\ \A j \in 1..Len(r.reads) : Read(r.reads[j]) = "whole")

\* notApplicable counts only for a live cloud rule that passed every gate, and
\* it counts the table only for a user who sees the database.
ProbeInv ==
  probing # "nothing" =>
    /\ Len(results) < Len(case.rules)
    /\ Applies(Current) /\ Current.safe /\ Live(Current)
    /\ case.mode = "cloud"
    /\ probing = "table" => "database" \in case.sees

\* The requests sent since the budget was last looked at.
Sent == CASE probing = "database" -> 1 [] probing = "table" -> 2 [] OTHER -> 3

TimeInv ==
  case.limit > 0 /\ case.deadline > 0 =>
    \/ now <= started + Sent * case.limit
    \/ now <= case.deadline + Sent * case.limit

VerdictInv == \A i \in Judged : Just(case.rules[i], results[i])

IInv == TypeOK /\ ProbeInv /\ TimeInv /\ VerdictInv

-----------------------------------------------------------------------------
(* What a check reads.                                                     *)

\* The file of a write that ended early is never read: its collector failed,
\* and that is what the bundle knows of it.
LEMMA CutIsNotRead ==
  ASSUME TypeOK, NEW s \in Source
  PROVE  Read(s) # "cut"
<1>1. case.file[s] \in FileState /\ case.entry[s] \in EntryType
  BY DEF TypeOK, CaseType
<1>2. CASE case.file[s] = "cut"
  <2>1. case.entry[s].status = "failed" /\ case.entry[s].error = "other"
    BY <1>2 DEF TypeOK, Consistent
  <2>2. Recorded(case.entry[s].error, case.mode = "gov") # "unknown table"
    BY <2>1 DEF Recorded
  <2>3. CollectorStatus(case.entry[s], case.mode = "gov") = "failed"
    BY <2>1, <2>2 DEF CollectorStatus
  <2> QED BY <2>3 DEF Read, Rows
<1>3. CASE case.file[s] # "cut"
  BY <1>1, <1>3 DEF Read, Rows, CollectorStatus, FileState
<1> QED BY <1>2, <1>3

\* The three kinds of verdict, field by field.
LEMMA Verdicts ==
  /\ \A why : /\ Skipped(why).skipped /\ ~Skipped(why).error /\ ~Skipped(why).rows
              /\ Skipped(why).reason = why
              /\ why \in Reason => Skipped(why) \in Result
  /\ ~Errored.skipped /\ Errored.error /\ Errored.reason = "none" /\ Errored \in Result
  /\ \A b \in BOOLEAN : /\ ~Answered(b).skipped /\ ~Answered(b).error
                        /\ Answered(b).rows = b /\ Answered(b).reason = "none"
                        /\ Answered(b) \in Result
BY DEF Skipped, Errored, Answered, Result, Reason

\* A Go check that every gate let pass has a right verdict.
LEMMA CheckJust ==
  ASSUME TypeOK, NEW r \in RuleType, Passes(r), r.safe, ~Live(r)
  PROVE  Just(r, EvalCheck(r))
<1> DEFINE source == Read(r.reads[FirstTrouble(r)])
<1>0. r.problem \in BOOLEAN /\ r.reads \in Seq(Source) /\ ~Broken(r) /\ Applies(r)
      /\ r.check \in {"none", "registered", "unknown"} /\ r.check # "none"
      /\ r.presence \in Source \cup {NoSource}
  BY DEF RuleType, Passes, Applies, Live
<1>1. CASE r.check = "unknown"
  BY <1>0, <1>1, Verdicts DEF Just, EvalCheck, Evaluated
<1>2. CASE r.check = "registered" /\ Trouble(r) = {}
  <2>1. \A j \in 1..Len(r.reads) : Read(r.reads[j]) = "whole"
    <3>1. \A j \in 1..Len(r.reads) : r.reads[j] \in Source
      BY <1>0
    <3> QED BY <1>2, <3>1, CutIsNotRead DEF Trouble
  <2>2. EvalCheck(r) = Answered(r.problem)
    <3>1. (r.problem /\ \A j \in 1..Len(r.reads) : Read(r.reads[j]) = "whole") = r.problem
      BY <1>0, <2>1
    <3> QED BY <1>2, <3>1 DEF EvalCheck
  <2>3. /\ ~Answered(r.problem).skipped /\ ~Answered(r.problem).error
        /\ Answered(r.problem).rows = r.problem
        /\ Answered(r.problem).reason # "absent"
        /\ Answered(r.problem) \in Result
    BY <1>0, Verdicts
  <2> QED BY <1>0, <1>2, <2>1, <2>2, <2>3 DEF Just, Evaluated
<1>3. CASE r.check = "registered" /\ Trouble(r) # {}
  <2>1. EvalCheck(r) = SourceVerdict(r, source)
    BY <1>3 DEF EvalCheck
  <2>2. ~\A j \in 1..Len(r.reads) : Read(r.reads[j]) = "whole"
    BY <1>3 DEF Trouble
  <2> HIDE DEF source
  <2>3. source \in NotCollected => source \in Reason /\ source # "absent"
    BY DEF NotCollected, Reason
  <2>4. \/ CrashVerdict(r, source) \in {Skipped(source), Errored}
        \/ /\ CrashVerdict(r, source) = Skipped("absent")
           /\ Listed(r) = {}
           /\ Read(r.presence) \in {"whole", "cut"}
    <3>1. CASE Read(r.presence) \notin {"whole", "cut"}
      BY <3>1 DEF CrashVerdict
    <3>2. CASE Read(r.presence) \in {"whole", "cut"} /\ Listed(r) = {}
      BY <3>2 DEF CrashVerdict
    <3>3. CASE Read(r.presence) \in {"whole", "cut"} /\ Listed(r) # {}
      BY <3>3 DEF CrashVerdict
    <3> QED BY <3>1, <3>2, <3>3
  <2>5. \/ EvalCheck(r) = Errored
        \/ EvalCheck(r) = Skipped(source) /\ source \in NotCollected
        \/ /\ EvalCheck(r) = Skipped("absent")
           /\ Listed(r) = {}
           /\ Read(r.presence) \in {"whole", "cut"} /\ r.presence # NoSource
    BY <2>1, <2>4 DEF SourceVerdict
  <2>6. EvalCheck(r) = Skipped("absent") /\ ~Blind(r) => r.has = {}
    <3> SUFFICES ASSUME EvalCheck(r) = Skipped("absent"), ~Blind(r)
                 PROVE  r.has = {}
      OBVIOUS
    <3>1. EvalCheck(r) # Errored /\ ~(EvalCheck(r) = Skipped(source) /\ source \in NotCollected)
      BY <2>3, Verdicts
    <3>2. Listed(r) = {} /\ Read(r.presence) \in {"whole", "cut"} /\ r.presence \in Source
      BY <1>0, <2>5, <3>1
    <3>3. Read(r.presence) = "whole" /\ "table" \in case.sees
      BY <3>2, CutIsNotRead DEF Blind
    <3> QED BY <3>2, <3>3 DEF Listed
  <2>7. "absent" \in Reason
    BY DEF Reason
  <2> QED BY <1>0, <1>3, <2>2, <2>3, <2>5, <2>6, <2>7, Verdicts DEF Just, Evaluated
<1> QED BY <1>0, <1>1, <1>2, <1>3

-----------------------------------------------------------------------------
(* One step.                                                               *)

\* What is to be shown of a step that gives a verdict.
Right == \E v \in Result : results' = Append(results, v) /\ Just(Current, v)
         /\ Len(results) < Len(case.rules) /\ probing' = "nothing"

\* The rule at hand is a rule.
LEMMA CurrentType ==
  ASSUME TypeOK, Len(results) < Len(case.rules)
  PROVE  Current \in RuleType
<1>1. case.rules \in Seq(RuleType) /\ Len(results) + 1 \in 1..Len(case.rules)
  BY DEF TypeOK, CaseType
<1> QED BY <1>1 DEF Current

\* An error, and a skip that does not claim too much, are right of every rule
\* whose check cannot have succeeded.
LEMMA ErroredJust ==
  ASSUME NEW r, Live(r) \/ ~(r.check = "registered" /\ r.safe /\ Applies(r))
  PROVE  Errored \in Result /\ Just(r, Errored)
BY Verdicts DEF Just, Evaluated

LEMMA SkippedJust ==
  ASSUME NEW r, NEW why \in Reason, ~Broken(r),
         why = "absent" /\ ~Blind(r) => r.has = {},
         Live(r) \/ ~(r.check = "registered" /\ r.safe /\ Applies(r))
  PROVE  Skipped(why) \in Result /\ Just(r, Skipped(why))
BY Verdicts DEF Just, Evaluated

\* Every step leaves the case and the verdicts alone, or adds one right verdict.
LEMMA StepRight ==
  ASSUME IInv, Next
  PROVE  /\ case' = case /\ started' = started
         /\ Right \/ results' = results
<1>1. case' = case /\ started' = started
  BY DEF Next, RejectBroken, SkipOtherMode, SkipPastBudget, SkipWithoutKeeper, SkipTooHeavy,
         Block, RunCheck, Ask, CountDatabase, CountTable, Returned, Judge, vars
<1> SUFFICES Right \/ results' = results
  BY <1>1
<1>2. TypeOK /\ ProbeInv
  BY DEF IInv
<1> DEFINE r == Current
<1>3. Len(results) < Len(case.rules) => r \in RuleType
  BY <1>2, CurrentType
<1> HIDE DEF r
<1>4. ASSUME NEW v \in Result, Judge(v), Just(r, v), Len(results) < Len(case.rules)
      PROVE  Right
  BY <1>4 DEF Right, Judge, r
<1>5. \A why \in {"mode", "budget", "keeper", "essential", "absent"} : why \in Reason
  BY DEF Reason
<1>6. CASE RejectBroken
  <2>1. Broken(r) /\ Judge(Errored) /\ Len(results) < Len(case.rules)
    BY <1>6 DEF RejectBroken, Judging, r
  <2>2. Errored \in Result /\ Just(r, Errored)
    BY <2>1, ErroredJust DEF Applies
  <2> QED BY <1>4, <2>1, <2>2
<1>7. CASE SkipOtherMode
  <2>1. ~Broken(r) /\ OtherMode(r) /\ Judge(Skipped("mode")) /\ Len(results) < Len(case.rules)
    BY <1>7 DEF SkipOtherMode, Judging, r
  <2>2. Skipped("mode") \in Result /\ Just(r, Skipped("mode"))
    BY <1>5, <2>1, SkippedJust DEF Applies
  <2> QED BY <1>4, <2>1, <2>2
<1>8. CASE SkipPastBudget \/ SkipWithoutKeeper \/ SkipTooHeavy
  <2>1. /\ Applies(r) /\ Live(r) /\ Len(results) < Len(case.rules)
        /\ \E why \in {"budget", "keeper", "essential"} : Judge(Skipped(why))
    BY <1>8 DEF SkipPastBudget, SkipWithoutKeeper, SkipTooHeavy, Judging, PastBudget,
                WithoutKeeper, TooHeavy, r
  <2>2. \A why \in {"budget", "keeper", "essential"} :
          Skipped(why) \in Result /\ Just(r, Skipped(why))
    BY <1>5, <2>1, SkippedJust DEF Applies
  <2> QED BY <1>4, <2>1, <2>2
<1>9. CASE Block
  <2>1. ~r.safe /\ Judge(Errored) /\ Len(results) < Len(case.rules)
    BY <1>9 DEF Block, Judging, r
  <2>2. Errored \in Result /\ Just(r, Errored)
    BY <2>1, ErroredJust
  <2> QED BY <1>4, <2>1, <2>2
<1>10. CASE RunCheck
  <2>1. /\ Len(results) < Len(case.rules) /\ Passes(r) /\ r.safe /\ ~Live(r)
        /\ Judge(EvalCheck(r))
    BY <1>10 DEF RunCheck, Judging, r
  <2>2. Just(r, EvalCheck(r))
    BY <1>2, <1>3, <2>1, CheckJust
  <2> QED BY <1>4, <2>1, <2>2 DEF Just
<1>11. CASE Ask
  <2>1. /\ Len(results) < Len(case.rules) /\ Passes(r) /\ r.safe /\ Live(r)
    BY <1>11 DEF Ask, Judging, r
  <2>2. ~Broken(r)
    BY <2>1 DEF Passes, Applies
  <2>3. r.problem \in BOOLEAN
    BY <1>3, <2>1 DEF RuleType
  <2>4. PICK a \in Answers(r) :
          \/ a = "rows" /\ Judge(Answered(r.problem))
          \/ Judge(Errored)
          \/ /\ a \in {"unknown table", "unknown table, unnamed"}
             /\ case.mode # "cloud"
             /\ Judge(Skipped("absent"))
          \/ results' = results
    BY <1>11 DEF Ask, r
  <2>5. CASE a = "rows" /\ Judge(Answered(r.problem))
    <3>1. Just(r, Answered(r.problem))
      BY <2>1, <2>2, <2>3, Verdicts DEF Just, Evaluated
    <3> QED BY <1>4, <2>1, <2>3, <2>5, <3>1, Verdicts
  <2>6. CASE Judge(Errored)
    BY <1>4, <2>1, <2>6, ErroredJust
  <2>7. CASE /\ a \in {"unknown table", "unknown table, unnamed"}
             /\ case.mode # "cloud"
             /\ Judge(Skipped("absent"))
    <3>1. r.has = {}
      BY <2>7 DEF Answers, Missing
    <3>2. Skipped("absent") \in Result /\ Just(r, Skipped("absent"))
      BY <1>5, <2>1, <2>2, <3>1, SkippedJust
    <3> QED BY <1>4, <2>1, <2>7, <3>2
  <2> QED BY <2>4, <2>5, <2>6, <2>7
<1>12. CASE CountDatabase \/ CountTable
  <2>1. probing # "nothing"
    BY <1>12 DEF CountDatabase, CountTable
  <2>2. /\ Len(results) < Len(case.rules) /\ Applies(r) /\ r.safe /\ Live(r)
        /\ probing = "table" => "database" \in case.sees
    BY <1>2, <2>1 DEF ProbeInv, r
  <2>3. ~Broken(r)
    BY <2>2 DEF Applies
  <2>4. \/ results' = results
        \/ Judge(Errored)
        \/ /\ probing = "table" /\ Judge(Skipped("absent"))
           /\ "table" \in case.sees => r.has = {}
    BY <1>12 DEF CountDatabase, CountTable, r
  <2>5. CASE Judge(Errored)
    BY <1>4, <2>2, <2>5, ErroredJust
  <2>6. CASE /\ probing = "table" /\ Judge(Skipped("absent"))
             /\ "table" \in case.sees => r.has = {}
    <3>1. ~Blind(r) => "table" \in case.sees
      <4>1. case.sees \subseteq {"database", "table"}
        BY <1>2 DEF TypeOK, CaseType
      <4>2. "database" \in case.sees
        BY <2>2, <2>6
      <4> QED BY <2>2, <4>1, <4>2 DEF Blind
    <3>2. Skipped("absent") \in Result /\ Just(r, Skipped("absent"))
      BY <1>5, <2>2, <2>3, <2>6, <3>1, SkippedJust
    <3> QED BY <1>4, <2>2, <2>6, <3>2
  <2> QED BY <2>4, <2>5, <2>6
<1>13. CASE Returned
  BY <1>13 DEF Returned, vars
<1> QED BY <1>6, <1>7, <1>8, <1>9, <1>10, <1>11, <1>12, <1>13 DEF Next

-----------------------------------------------------------------------------
(* The invariant.                                                          *)

\* Time only passes, and by no more than the client's limit at a time.
LEMMA WaitsType ==
  ASSUME NEW limit \in Nat, NEW d \in Waits(limit)
  PROVE  d \in Nat /\ (limit > 0 => d <= limit)
BY AlertsAssumption DEF Waits

\* Every case considered satisfies what Consistent says of the collectors.
LEMMA InitIInv == Init => IInv
<1> SUFFICES ASSUME Init PROVE IInv
  OBVIOUS
<1>1. case \in CaseType /\ Consistent(case)
  BY AlertsAssumption DEF Init
<1>2. case.deadline \in Nat /\ case.limit \in Nat /\ case.rules \in Seq(RuleType)
  BY <1>1 DEF CaseType
<1>3. TypeOK
  BY <1>1, <1>2 DEF Init, TypeOK
<1>4. ProbeInv
  BY DEF Init, ProbeInv
<1>5. TimeInv
  <2>1. started \in Nat /\ now = started /\ Sent = 3
    BY <1>2 DEF Init, Sent
  <2>2. ASSUME case.limit > 0
        PROVE  now <= started + 3 * case.limit
    BY <1>2, <2>1, <2>2
  <2> QED BY <2>1, <2>2 DEF TimeInv
<1>6. VerdictInv
  BY DEF Init, VerdictInv, Judged
<1> QED BY <1>3, <1>4, <1>5, <1>6 DEF IInv

\* What a request, and what everything else, does to the clock and the probe.
LEMMA ClockStep ==
  ASSUME IInv, Next
  PROVE  \/ now' = now /\ (probing' = "nothing" \/ probing' = probing)
         \/ /\ \E d \in Waits(case.limit) : now' = now + d
            /\ \/ /\ probing = "nothing"
                  /\ ~PastBudget(Current) /\ Live(Current)
                  /\ probing' \in {"nothing", "database"}
               \/ probing = "database" /\ probing' \in {"nothing", "table"}
               \/ probing = "table" /\ probing' = "nothing"
<1>1. CASE Ask
  BY <1>1 DEF Ask, Judging, Judge, Passes
<1>2. CASE CountDatabase
  BY <1>2 DEF CountDatabase, Judge
<1>3. CASE CountTable
  BY <1>3 DEF CountTable, Judge
<1>4. CASE RejectBroken \/ SkipOtherMode \/ SkipPastBudget \/ SkipWithoutKeeper \/ SkipTooHeavy
  BY <1>4 DEF RejectBroken, SkipOtherMode, SkipPastBudget, SkipWithoutKeeper, SkipTooHeavy, Judge
<1>5. CASE Block \/ RunCheck \/ Returned
  BY <1>5 DEF Block, RunCheck, Returned, Judge, vars
<1> QED BY <1>1, <1>2, <1>3, <1>4, <1>5 DEF Next

LEMMA TypeStep == IInv /\ [Next]_vars => TypeOK'
<1> SUFFICES ASSUME IInv, [Next]_vars PROVE TypeOK'
  OBVIOUS
<1>1. TypeOK
  BY DEF IInv
<1>2. CASE UNCHANGED vars
  BY <1>1, <1>2 DEF TypeOK, vars, Consistent
<1>3. CASE Next
  <2>1. case' = case /\ started' = started /\ (Right \/ results' = results)
    BY <1>3, StepRight
  <2>2. case.limit \in Nat
    BY <1>1 DEF TypeOK, CaseType
  <2>3. now' \in Nat
    BY <1>1, <1>3, <2>2, ClockStep, WaitsType DEF TypeOK
  <2>4. probing' \in {"nothing", "database", "table"}
    BY <1>1, <1>3, ClockStep DEF TypeOK
  <2>5. results' \in Seq(Result) /\ Len(results') <= Len(case.rules)
    <3>1. CASE Right
      <4>1. PICK v \in Result : results' = Append(results, v)
        BY <3>1 DEF Right
      <4>2. Len(results) < Len(case.rules) /\ case.rules \in Seq(RuleType)
        BY <1>1, <3>1 DEF Right, TypeOK, CaseType
      <4> QED BY <1>1, <4>1, <4>2 DEF TypeOK
    <3>2. CASE results' = results
      BY <1>1, <3>2 DEF TypeOK
    <3> QED BY <2>1, <3>1, <3>2
  <2>6. Consistent(case')
    BY <1>1, <2>1 DEF TypeOK
  <2> QED BY <1>1, <2>1, <2>3, <2>4, <2>5, <2>6 DEF TypeOK, Consistent
<1> QED BY <1>2, <1>3

LEMMA ProbeStep == IInv /\ [Next]_vars => ProbeInv'
<1> SUFFICES ASSUME IInv, [Next]_vars, probing' # "nothing" PROVE ProbeInv'
  BY DEF ProbeInv
<1>1. ProbeInv
  BY DEF IInv
<1> USE DEF ProbeInv, Current, Applies, Broken, OtherMode, Live
<1>2. CASE UNCHANGED vars
  BY <1>1, <1>2 DEF vars
<1>3. CASE Ask
  BY <1>3 DEF Ask, Judging, Judge, Passes
<1>4. CASE CountDatabase
  BY <1>1, <1>4 DEF CountDatabase, Judge
<1>5. CASE CountTable
  BY <1>5 DEF CountTable, Judge
<1>6. CASE RejectBroken \/ SkipOtherMode \/ SkipPastBudget \/ SkipWithoutKeeper \/ SkipTooHeavy
  BY <1>6 DEF RejectBroken, SkipOtherMode, SkipPastBudget, SkipWithoutKeeper, SkipTooHeavy, Judge
<1>7. CASE Block \/ RunCheck
  BY <1>7 DEF Block, RunCheck, Judge
<1>8. CASE Returned
  BY <1>1, <1>8 DEF Returned, vars
<1> QED BY <1>2, <1>3, <1>4, <1>5, <1>6, <1>7, <1>8 DEF Next

\* The budget is looked at before the first request of a rule; the second and
\* the third are sent within one limit of the one before.
LEMMA TimeStep == IInv /\ [Next]_vars => TimeInv'
<1> SUFFICES ASSUME IInv, [Next]_vars PROVE TimeInv'
  OBVIOUS
<1> DEFINE l == case.limit
           e == case.deadline
<1>1. /\ TypeOK /\ TimeInv
      /\ l \in Nat /\ e \in Nat /\ now \in Nat /\ started \in Nat
      /\ probing \in {"nothing", "database", "table"}
  BY DEF IInv, TypeOK, CaseType
<1>2. CASE UNCHANGED vars
  BY <1>1, <1>2 DEF TimeInv, Sent, vars
<1>3. CASE Next
  <2>1. case' = case /\ started' = started
    BY <1>3, StepRight
  <2>2. SUFFICES ASSUME l > 0, e > 0
                 PROVE  \/ now' <= started + Sent' * l
                        \/ now' <= e + Sent' * l
    BY <2>1 DEF TimeInv
  <2>3. now <= started + Sent * l \/ now <= e + Sent * l
    BY <1>1, <2>2 DEF TimeInv
  <2>4. 1 * l = l /\ 2 * l = l + l /\ 3 * l = l + l + l
    BY <1>1
  <2> HIDE DEF l, e
  <2>5. CASE now' = now /\ (probing' = "nothing" \/ probing' = probing)
    <3>1. Sent' = 3 \/ Sent' = Sent
      BY <2>5 DEF Sent
    <3>2. Sent \in {1, 2, 3}
      BY DEF Sent
    <3> QED BY <1>1, <2>3, <2>4, <2>5, <3>1, <3>2
  <2>6. ASSUME NEW d \in Waits(case.limit), now' = now + d,
               probing = "nothing", ~PastBudget(Current), Live(Current),
               probing' \in {"nothing", "database"}
        PROVE  now' <= e + Sent' * l
    <3>1. now <= e
      BY <1>1, <2>2, <2>6 DEF PastBudget, e
    <3>2. d \in Nat /\ d <= l
      BY <1>1, <2>2, WaitsType DEF l
    <3>3. Sent' * l \in {l, l + l + l}
      BY <2>4, <2>6 DEF Sent
    <3>4. now' <= e + l /\ now' <= e + (l + l + l)
      BY <1>1, <2>6, <3>1, <3>2
    <3> QED BY <3>3, <3>4
  <2>7. ASSUME NEW d \in Waits(case.limit), now' = now + d,
               \/ probing = "database" /\ probing' \in {"nothing", "table"}
               \/ probing = "table" /\ probing' = "nothing"
        PROVE  \/ now' <= started + Sent' * l
               \/ now' <= e + Sent' * l
    <3>1. d \in Nat /\ d <= l
      BY <1>1, <2>2, WaitsType DEF l
    <3>2. \/ Sent * l = l /\ Sent' * l \in {l + l, l + l + l}
          \/ Sent * l = l + l /\ Sent' * l = l + l + l
      BY <2>4, <2>7 DEF Sent
    <3>3. ASSUME NEW b \in Nat, now <= b + Sent * l
          PROVE  now' <= b + Sent' * l
      <4>1. CASE Sent * l = l /\ Sent' * l \in {l + l, l + l + l}
        BY <1>1, <2>7, <3>1, <3>3, <4>1
      <4>2. CASE Sent * l = l + l /\ Sent' * l = l + l + l
        BY <1>1, <2>7, <3>1, <3>3, <4>2
      <4> QED BY <3>2, <4>1, <4>2
    <3> QED BY <1>1, <2>3, <3>3
  <2> QED BY <1>3, <2>5, <2>6, <2>7, ClockStep
<1> QED BY <1>2, <1>3

LEMMA VerdictStep == IInv /\ [Next]_vars => VerdictInv'
<1> SUFFICES ASSUME IInv, [Next]_vars, NEW i \in Judged'
             PROVE  Just(case.rules[i], results[i])'
  BY DEF VerdictInv
<1>1. case' = case
  BY StepRight DEF vars
<1>2. results \in Seq(Result)
  BY DEF IInv, TypeOK
<1>3. ASSUME i \in Judged PROVE Just(case.rules[i], results[i])
  BY <1>3 DEF IInv, VerdictInv
<1>4. Just(case.rules[i], results'[i])
  <2>1. CASE results' = results
    BY <1>3, <2>1 DEF Judged
  <2>2. CASE Right
    <3>1. PICK v \in Result : results' = Append(results, v) /\ Just(Current, v)
      BY <2>2 DEF Right
    <3>2. CASE i = Len(results) + 1
      BY <1>2, <3>1, <3>2 DEF Current
    <3>3. CASE i # Len(results) + 1
      <4>1. i \in Judged /\ results'[i] = results[i]
        BY <1>2, <3>1, <3>3 DEF Judged
      <4> QED BY <1>3, <4>1
    <3> QED BY <3>2, <3>3
  <2> QED BY <2>1, <2>2, StepRight DEF vars
<1> QED
  BY <1>1, <1>4 DEF Just, Blind, Broken, Applies, OtherMode, Live, Read

\* The inductive invariant holds in every reachable state.
THEOREM Invariant == Spec => []IInv
<1>1. IInv /\ [Next]_vars => IInv'
  BY TypeStep, ProbeStep, TimeStep, VerdictStep DEF IInv
<1> QED BY InitIInv, <1>1, PTL DEF Spec

-----------------------------------------------------------------------------
(* The properties.                                                         *)

\* Every reachable state is well typed.
THEOREM TypeCorrect == Spec => []TypeOK
<1>1. IInv => TypeOK
  BY DEF IInv
<1> QED BY Invariant, <1>1, PTL

\* A rule reads clean only if it is, and fires only if it should.
THEOREM NeverFalselyClean == Spec => []CleanMeansClean
<1>1. IInv => CleanMeansClean
  BY DEF IInv, VerdictInv, Just, CleanMeansClean
<1> QED BY Invariant, <1>1, PTL

\* A table said to be absent is absent from every replica.
THEOREM AbsentIsAbsent == Spec => []AbsentMeansAbsent
<1>1. IInv => AbsentMeansAbsent
  BY DEF IInv, VerdictInv, Just, AbsentMeansAbsent
<1> QED BY Invariant, <1>1, PTL

\* No gate hides a broken rule, and no rule with an unsafe query runs.
THEOREM BrokenSurfaces == Spec => []BrokenRuleSurfaces
<1>1. IInv => BrokenRuleSurfaces
  BY DEF IInv, VerdictInv, Just, BrokenRuleSurfaces, Broken
<1> QED BY Invariant, <1>1, PTL

\* The verdict of a Go check is its sources', whatever the state of the run.
THEOREM ChecksFollowSources == Spec => []SourcesDecide
<1>1. IInv => SourcesDecide
  BY DEF IInv, VerdictInv, Just, SourcesDecide, Applies, Broken, OtherMode, Live
<1> QED BY Invariant, <1>1, PTL

\* The alert phase outlives the budget by three requests at most.
THEOREM AlertOverrun == Spec => []AlertOverrunBounded
<1>1. IInv => AlertOverrunBounded
  <2> SUFFICES ASSUME IInv, case.limit > 0, case.deadline > 0
               PROVE  \/ now <= started + 3 * case.limit
                      \/ now <= case.deadline + 3 * case.limit
    BY DEF AlertOverrunBounded
  <2>1. /\ case.limit \in Nat /\ case.deadline \in Nat /\ now \in Nat /\ started \in Nat
        /\ now <= started + Sent * case.limit \/ now <= case.deadline + Sent * case.limit
    BY DEF IInv, TypeOK, CaseType, TimeInv
  <2>2. Sent \in {1, 2, 3}
    BY DEF Sent
  <2>3. Sent * case.limit <= 3 * case.limit /\ Sent * case.limit \in Nat
    BY <2>1, <2>2
  <2> HIDE DEF Sent
  <2> QED BY <2>1, <2>3
<1> QED BY Invariant, <1>1, PTL

\* Nothing that was not verified counts as evaluated, and nothing fires that is
\* not a finding.
THEOREM SummaryIsHonest == Spec => []SummaryHonest
<1>1. IInv => SummaryHonest
  <2> SUFFICES ASSUME IInv PROVE SummaryHonest
    OBVIOUS
  <2> DEFINE skipped == {i \in Judged : results[i].skipped}
             errored == {i \in Judged : ~results[i].skipped /\ results[i].error}
             fired == {i \in Judged :
                         ~results[i].skipped /\ ~results[i].error /\ results[i].rows}
             unread == {i \in Judged :
                          /\ ~Live(case.rules[i])
                          /\ \E j \in 1..Len(case.rules[i].reads) :
                               Read(case.rules[i].reads[j]) # "whole"}
             problems == {i \in Judged : case.rules[i].problem}
  <2>1. /\ Len(results) \in Nat
        /\ \A i \in Judged : Just(case.rules[i], results[i])
    BY DEF IInv, TypeOK, VerdictInv
  <2>2. IsFiniteSet(Judged) /\ Cardinality(Judged) = Len(results)
    <3> DEFINE n == Len(results)
    <3>1. n \in Nat
      BY <2>1
    <3> HIDE DEF n
    <3>2. IsFiniteSet(1..n) /\ Cardinality(1..n) = IF 1 > n THEN 0 ELSE n - 1 + 1
      BY <3>1, FS_Interval, 1 \in Int, n \in Int
    <3>3. Cardinality(1..n) = n
      BY <3>1, <3>2
    <3> QED BY <3>2, <3>3 DEF Judged, n
  <2>3. unread \subseteq skipped \cup errored
    BY <2>1 DEF Just, Evaluated
  <2>4. fired \subseteq problems
    BY <2>1 DEF Just, Evaluated
  <2>5. /\ skipped \cap errored = {}
        /\ skipped \subseteq Judged /\ errored \subseteq Judged /\ problems \subseteq Judged
    OBVIOUS
  <2> HIDE DEF skipped, errored, fired, unread, problems
  <2>6. IsFiniteSet(skipped) /\ IsFiniteSet(errored) /\ IsFiniteSet(problems)
    BY <2>2, <2>5, FS_Subset
  <2>7. Cardinality(fired) <= Cardinality(problems)
    BY <2>4, <2>6, FS_Subset
  <2>8. /\ Cardinality(unread) <= Cardinality(skipped) + Cardinality(errored)
        /\ Cardinality(unread) \in Nat
        /\ Cardinality(skipped) \in Nat /\ Cardinality(errored) \in Nat
    <3>1. Cardinality(skipped) \in Nat /\ Cardinality(errored) \in Nat
      BY <2>6, FS_CardinalityType
    <3>2. /\ IsFiniteSet(skipped \cup errored)
          /\ Cardinality(skipped \cup errored)
               = Cardinality(skipped) + Cardinality(errored) - Cardinality(skipped \cap errored)
      BY <2>6, FS_Union
    <3>3. Cardinality(skipped \cap errored) = 0
      BY <2>5, FS_EmptySet
    <3>4. IsFiniteSet(unread) /\ Cardinality(unread) <= Cardinality(skipped \cup errored)
      BY <2>3, <3>2, FS_Subset
    <3>5. Cardinality(unread) \in Nat
      BY <3>4, FS_CardinalityType
    <3> QED BY <3>1, <3>2, <3>3, <3>4, <3>5
  <2>9. /\ Summarize(results).evaluated
            = Len(results) - Cardinality(skipped) - Cardinality(errored)
        /\ Summarize(results).fired = Cardinality(fired)
    BY DEF Summarize, skipped, errored, fired, Judged
  <2>10. Summarize(results).evaluated + Cardinality(unread) <= Len(results)
    BY <2>1, <2>8, <2>9
  <2>11. Summarize(results).fired <= Cardinality(problems)
    BY <2>7, <2>9
  <2> QED BY <2>10, <2>11 DEF SummaryHonest, unread, problems
<1> QED BY Invariant, <1>1, PTL

-----------------------------------------------------------------------------
(* What the rules find in the files.                                       *)

Lists(rows, S) ==
  /\ rows \in [1..Cardinality(S) -> S]
  /\ \A i, j \in 1..Cardinality(S) : i # j => rows[i] # rows[j]
  /\ \A x \in S : \E i \in 1..Cardinality(S) : rows[i] = x

\* The files that some rules read are what there was at the server, or are
\* missing, and only for a reason.
FilesInv ==
  /\ Listing(world)
  /\ "part_log" \in DOMAIN files => files.part_log = PartLog
  /\ "exceptions" \in DOMAIN files => files.exceptions = Exceptions
  /\ "disks" \in DOMAIN files => Lists(files.disks, world.disks)
  /\ "tables" \in DOMAIN files => files.tables = world.policies
  /\ "storage" \in DOMAIN files => files.storage = world.storage
  /\ "replicas" \in DOMAIN files => Lists(files.replicas, Queried(world.tables))
  /\ "crash_log" \in DOMAIN files =>
       /\ \A r \in Queried(world.replicas) : r.crashes # {}
       /\ files.crash_log = {[crashes |-> r.crashes] : r \in Queried(world.replicas)}
  /\ "crash_presence" \in DOMAIN files =>
       files.crash_presence = {r \in world.replicas : r.crashes # {}}
  /\ files # <<>> /\ lost = {} => "crash_presence" \in DOMAIN files
  /\ "detached" \in DOMAIN files => Lists(files.detached, Queried(world.detached))
  /\ "mutations" \in DOMAIN files => Lists(files.mutations, Queried(world.mutations))
  /\ "lagging" \in DOMAIN files => Lists(files.lagging, Lagging)

\* A sequence without repetitions of as many as there are holds them all.
LEMMA ListsAll ==
  ASSUME NEW S, IsFiniteSet(S), NEW f \in [1..Cardinality(S) -> S],
         \A i, j \in 1..Cardinality(S) : i # j => f[i] # f[j]
  PROVE  Lists(f, S)
<1>1. Cardinality(S) \in Nat
  BY FS_CardinalityType
<1>2. Cardinality(1..Cardinality(S)) = Cardinality(S)
  BY <1>1, FS_Interval
<1>3. f \in Injection(1..Cardinality(S), S)
  BY DEF Injection, IsInjective
<1>4. f \in Surjection(1..Cardinality(S), S)
  BY <1>2, <1>3, FS_Injection
<1> QED  BY <1>4 DEF Surjection, Lists

LEMMA ListsHold ==
  ASSUME NEW S, NEW rows, Lists(rows, S)
  PROVE  ToSet(rows) = S
  BY DEF Lists, ToSet

LEMMA Sequencing ==
  ASSUME NEW S, IsFiniteSet(S)
  PROVE  /\ Lists(SetToSeq(S), S)
         /\ \A rows \in Orders(S) : Lists(rows, S)
<1>1. PICK f \in [1..Cardinality(S) -> S] : IsInjective(f)
  <2>1. PICK f : f \in Bijection(1..Cardinality(S), S)
    BY FS_CardinalityType DEF ExistsBijection
  <2> QED  BY <2>1 DEF Bijection, Injection, IsInjective
<1>2. SetToSeq(S) \in [1..Cardinality(S) -> S] /\ IsInjective(SetToSeq(S))
  BY <1>1 DEF SetToSeq
<1>3. Lists(SetToSeq(S), S)
  BY <1>2, ListsAll DEF IsInjective
<1>4. \A rows \in SetToSeqs(S) : Lists(rows, S)
  BY ListsAll DEF SetToSeqs
<1> QED  BY <1>3, <1>4 DEF Orders

LEMMA InitFiles == ChecksInit => FilesInv
<1> SUFFICES ASSUME ChecksInit PROVE FilesInv
  OBVIOUS
<1>1. files = <<>> /\ DOMAIN files = {}
  BY DEF ChecksInit
<1>2. Listing(world)
  BY ChecksAssumption DEF ChecksInit
<1> QED  BY <1>1, <1>2 DEF FilesInv

LEMMA FiniteLists ==
  ASSUME Listing(world)
  PROVE  /\ IsFiniteSet(world.disks) /\ IsFiniteSet(Queried(world.tables))
         /\ IsFiniteSet(Queried(world.detached)) /\ IsFiniteSet(Queried(world.mutations))
         /\ IsFiniteSet(Lagging)
<1>1. \A S : IsFiniteSet(S) => IsFiniteSet(Queried(S))
  BY FS_Subset DEF Queried
<1>2. IsFiniteSet(Lagging)
  <2> DEFINE newest(p) == Max({b.block : b \in {b \in world.blocks : b.part = p}})
             latest(p) == Max({b.at : b \in {b \in world.blocks : b.part = p}})
             missing(p) == {b.host : b \in world.blocks} \ {b.host : b \in {b \in world.blocks : b.part = p}}
             row(b) == [host |-> b.host, part |-> b.part, behind |-> newest(b.part) - b.block,
                        newest |-> newest(b.part), at |-> latest(b.part), missing |-> missing(b.part)]
             late == {b \in world.blocks : b.block < newest(b.part) \/ missing(b.part) # {}}
  <2>1. IsFiniteSet(late)
    BY FS_Subset DEF Listing
  <2>2. Lagging = {row(b) : b \in late}
    BY DEF Lagging
  <2> HIDE DEF row, late
  <2> DEFINE f == [b \in late |-> row(b)]
  <2>3. f \in Surjection(late, Lagging)
    BY <2>2 DEF Surjection
  <2> HIDE DEF f
  <2> QED  BY <2>1, <2>3, FS_Surjection
<1> QED  BY <1>1, <1>2 DEF Listing

\* The collectors depend on the server and on the replicas that are read.
LEMMA SameFiles ==
  ASSUME world' = world, mode' = mode
  PROVE  Lagging' = Lagging /\ PartLog' = PartLog /\ Exceptions' = Exceptions
<1>1. Lagging' = Lagging
  BY DEF Lagging
<1>2. PartLog' = PartLog /\ Exceptions' = Exceptions
  BY DEF PartLog, Exceptions, Selected, Begins, Ends, Queried
<1> QED  BY <1>1, <1>2

LEMMA CollectFiles ==
  ASSUME FilesInv, Collect
  PROVE  FilesInv'
<1>1. world' = world /\ mode' = mode /\ lost' = lost
  BY DEF Collect
<1>2. PICK answers \in [detached : Orders(Sequenced.detached),
                       mutations : Orders(Sequenced.mutations),
                       lagging : Orders(Sequenced.lagging), disks : {SetToSeq(Sequenced.disks)},
                       replicas : {SetToSeq(Sequenced.replicas)}] :
        files' = Written(answers)
  BY DEF Collect
<1>3. /\ Sequenced.detached = Queried(world.detached) /\ Sequenced.mutations = Queried(world.mutations)
      /\ Sequenced.lagging = Lagging /\ Sequenced.disks = world.disks
      /\ Sequenced.replicas = Queried(world.tables)
  BY DEF Sequenced
<1>4. /\ Lists(answers.disks, world.disks) /\ Lists(answers.replicas, Queried(world.tables))
      /\ Lists(answers.detached, Queried(world.detached))
      /\ Lists(answers.mutations, Queried(world.mutations)) /\ Lists(answers.lagging, Lagging)
  <2>1. /\ answers.disks = SetToSeq(world.disks) /\ answers.replicas = SetToSeq(Queried(world.tables))
        /\ answers.detached \in Orders(Queried(world.detached))
        /\ answers.mutations \in Orders(Queried(world.mutations))
        /\ answers.lagging \in Orders(Lagging)
    BY <1>2, <1>3
  <2> QED  BY <2>1, FiniteLists, Sequencing DEF FilesInv
<1>5. /\ DOMAIN answers = {"detached", "mutations", "lagging", "disks", "replicas"}
      /\ DOMAIN Sets = {"part_log", "exceptions", "metric_log", "settings", "server_settings",
                        "connection", "tables", "storage", "crash_log", "crash_presence", "problems"}
  BY <1>2 DEF Sets
<1>6. /\ DOMAIN files' = (DOMAIN Sets \cup DOMAIN answers) \ (lost \cup Failed)
      /\ \A f \in DOMAIN files' : files'[f] = IF f \in DOMAIN Sets THEN Sets[f] ELSE answers[f]
  BY <1>2 DEF Written
<1>7. /\ Sets.part_log = PartLog /\ Sets.exceptions = Exceptions
      /\ Sets.tables = world.policies /\ Sets.storage = world.storage /\ Sets.crash_log = CrashLog
      /\ Sets.crash_presence = {r \in world.replicas : r.crashes # {}}
  BY DEF Sets
<1>8. "crash_log" \in DOMAIN files' => \A r \in Queried(world.replicas) : r.crashes # {}
  BY <1>6 DEF Failed
<1>9. Queried(world.replicas)' = Queried(world.replicas) /\ Queried(world.tables)' = Queried(world.tables)
      /\ Queried(world.detached)' = Queried(world.detached)
      /\ Queried(world.mutations)' = Queried(world.mutations)
      /\ Lagging' = Lagging /\ PartLog' = PartLog /\ Exceptions' = Exceptions
  BY <1>1, SameFiles DEF Queried
<1>10. /\ "disks" \in DOMAIN files' => Lists(files'.disks, world.disks)
       /\ "part_log" \in DOMAIN files' => files'.part_log = PartLog
       /\ "exceptions" \in DOMAIN files' => files'.exceptions = Exceptions
       /\ "tables" \in DOMAIN files' => files'.tables = world.policies
       /\ "storage" \in DOMAIN files' => files'.storage = world.storage
       /\ "replicas" \in DOMAIN files' => Lists(files'.replicas, Queried(world.tables))
       /\ "crash_log" \in DOMAIN files' =>
             files'.crash_log = {[crashes |-> r.crashes] : r \in Queried(world.replicas)}
       /\ "crash_presence" \in DOMAIN files' =>
             files'.crash_presence = {r \in world.replicas : r.crashes # {}}
       /\ lost = {} => "crash_presence" \in DOMAIN files'
       /\ "detached" \in DOMAIN files' => Lists(files'.detached, Queried(world.detached))
       /\ "mutations" \in DOMAIN files' => Lists(files'.mutations, Queried(world.mutations))
       /\ "lagging" \in DOMAIN files' => Lists(files'.lagging, Lagging)
  BY <1>4, <1>5, <1>6, <1>7, <1>8 DEF CrashLog, Failed
<1>11. Listing(world')
  BY <1>1 DEF FilesInv
<1> QED  BY <1>1, <1>8, <1>9, <1>10, <1>11 DEF FilesInv

LEMMA NextFiles ==
  ASSUME FilesInv, [ChecksNext]_checkVars
  PROVE  FilesInv'
<1>1. ASSUME UNCHANGED <<world, mode, lost, files>> PROVE FilesInv'
  <2>1. \A S : Queried(S)' = Queried(S)
    BY <1>1 DEF Queried
  <2>2. Lagging' = Lagging /\ PartLog' = PartLog /\ Exceptions' = Exceptions
    BY <1>1, SameFiles
  <2> QED  BY <1>1, <2>2 DEF FilesInv, Queried
<1>2. CASE Collect
  BY <1>2, CollectFiles
<1>3. CASE Evaluate
  BY <1>1, <1>3 DEF Evaluate
<1>4. CASE UNCHANGED checkVars
  BY <1>1, <1>4 DEF checkVars
<1> QED  BY <1>2, <1>3, <1>4 DEF ChecksNext

\* Before the rules there is nothing to show, and after them nothing changes:
\* what is shown of the step that runs them is shown.
RulesRun ==
  /\ found' = [rule \in Rules |-> Check(rule)]
  /\ files # <<>>
  /\ UNCHANGED <<world, mode, lost, files>>

LEMMA NothingFound ==
  ASSUME [ChecksNext]_checkVars
  PROVE  \/ RulesRun
         \/ UNCHANGED <<world, mode, lost, found>>
  BY DEF ChecksNext, Collect, Evaluate, RulesRun, checkVars

\* What is found of a rule is what its check finds.
LEMMA WhatIsFound ==
  ASSUME RulesRun
  PROVE  /\ found' # <<>>
         /\ found'["disk_space_low"] = Needs({"disks"}, DiskSpaceLow)
         /\ found'["replica_readonly"] = Needs({"replicas"}, ReadonlyReplicas)
         /\ found'["crash_log_entries"] = CrashLogEntries
         /\ found'["detached_parts_exist"] = Needs({"detached"}, DetachedParts)
         /\ found'["mutation_running_too_long"] =
              Needs({"mutations"}, {files.mutations[i].id : i \in LongMutations})
         /\ found'["parts_propagation_lag"] = Needs({"lagging"}, Propagation)
         /\ found'["merges_stalled"] = Needs({"part_log"}, MergesStalled)
         /\ found'["too_many_simultaneous_queries"] = Needs({"exceptions"}, TooManySimultaneous)
         /\ found'["pool_saturated"] =
              IF "metric_log" \in DOMAIN files /\ ~NeedsSettings THEN Found(PoolSaturated)
              ELSE Needs({"metric_log", SettingsFile}, PoolSaturated)
         /\ found'["keeper_xid_renewal_due"] = Needs({"connection", "metric_log"}, XidRenewalDue)
<1>1. DOMAIN found' = Rules /\ Rules # {}
  BY DEF RulesRun, Rules
<1>2. found' # <<>>
  BY <1>1
<1>3. \A rule \in Rules : found'[rule] = Check(rule)
  BY DEF RulesRun
<1>4. {"disk_space_low", "replica_readonly", "crash_log_entries", "detached_parts_exist",
       "mutation_running_too_long", "parts_propagation_lag", "merges_stalled",
       "too_many_simultaneous_queries", "pool_saturated", "keeper_xid_renewal_due"} \subseteq Rules
  BY DEF Rules
<1>5. /\ Check("disk_space_low") = Needs({"disks"}, DiskSpaceLow)
      /\ Check("replica_readonly") = Needs({"replicas"}, ReadonlyReplicas)
      /\ Check("crash_log_entries") = CrashLogEntries
  BY DEF Check
<1>6. /\ Check("detached_parts_exist") = Needs({"detached"}, DetachedParts)
      /\ Check("mutation_running_too_long") =
              Needs({"mutations"}, {files.mutations[i].id : i \in LongMutations})
      /\ Check("parts_propagation_lag") = Needs({"lagging"}, Propagation)
  BY DEF Check
<1>7. /\ Check("merges_stalled") = Needs({"part_log"}, MergesStalled)
      /\ Check("too_many_simultaneous_queries") = Needs({"exceptions"}, TooManySimultaneous)
  BY DEF Check
<1>8. /\ Check("pool_saturated") =
              IF "metric_log" \in DOMAIN files /\ ~NeedsSettings THEN Found(PoolSaturated)
              ELSE Needs({"metric_log", SettingsFile}, PoolSaturated)
      /\ Check("keeper_xid_renewal_due") = Needs({"connection", "metric_log"}, XidRenewalDue)
  BY DEF Check
<1> QED  BY <1>2, <1>3, <1>4, <1>5, <1>6, <1>7, <1>8

\* A rule whose file is missing is skipped, and any other says what it finds.
LEMMA NeedsFile ==
  ASSUME NEW name, NEW rows
  PROVE  /\ name \notin DOMAIN files => Needs({name}, rows).state = "skipped"
         /\ name \in DOMAIN files => /\ Needs({name}, rows).rows = rows
                                     /\ Needs({name}, rows).state # "skipped"
         /\ name \in DOMAIN files /\ rows # {} => Needs({name}, rows).state = "fired"
  BY DEF Needs, NotApplicable, Found, Outcome

LEMMA RunHidesNothing ==
  ASSUME FilesInv, RulesRun
  PROVE  MissingNeverHides'
<1>1. world' = world /\ mode' = mode /\ lost' = lost
  BY DEF RulesRun
<1>2. Queried(world.tables)' = Queried(world.tables)
      /\ Queried(world.replicas)' = Queried(world.replicas)
  BY <1>1 DEF Queried
<1>3. ASSUME NEW d \in world.disks, 100 * d.free < 15 * d.total,
             NEW s \in world.storage, NEW t \in world.policies,
             s.disk = d.disk, t.policy = s.policy, ~t.system
      PROVE  Says("disk_space_low", d.disk)'
  <2>1. CASE "disks" \notin DOMAIN files
    <3>1. Needs({"disks"}, DiskSpaceLow).state = "skipped"
      BY <2>1, NeedsFile
    <3>2. found'["disk_space_low"].state = "skipped"
      BY <3>1, WhatIsFound
    <3> QED  BY <3>2 DEF Says
  <2>2. CASE "disks" \in DOMAIN files
    <3>1. d \in ToSet(files.disks)
      <4>1. Lists(files.disks, world.disks)
        BY <2>2 DEF FilesInv
      <4> QED  BY <4>1, ListsHold
    <3>2. DataDisks = {} \/ d.disk \in DataDisks
      BY <1>3 DEF DataDisks, FilesInv
    <3>3. d.total > 0
      BY <1>3 DEF FilesInv, Listing
    <3>4. d.disk \in DiskSpaceLow
      BY <1>3, <3>1, <3>2, <3>3 DEF DiskSpaceLow
    <3>5. Needs({"disks"}, DiskSpaceLow).rows = DiskSpaceLow
      BY <2>2, NeedsFile
    <3>6. d.disk \in found'["disk_space_low"].rows
      BY <3>4, <3>5, WhatIsFound
    <3> QED  BY <3>6 DEF Says
  <2> QED  BY <2>1, <2>2
<1>4. ASSUME NEW r \in Queried(world.tables), r.readonly
      PROVE  \E a \in {"known", "?"} :
               Says("replica_readonly", [table |-> r.table, host |-> r.host, active |-> a])'
  <2>1. CASE "replicas" \notin DOMAIN files
    <3>1. Needs({"replicas"}, ReadonlyReplicas).state = "skipped"
      BY <2>1, NeedsFile
    <3>2. found'["replica_readonly"].state = "skipped"
      BY <3>1, WhatIsFound
    <3> QED  BY <3>2 DEF Says
  <2>2. CASE "replicas" \in DOMAIN files
    <3>1. r \in ToSet(files.replicas)
      <4>1. Lists(files.replicas, Queried(world.tables))
        BY <2>2 DEF FilesInv
      <4> QED  BY <4>1, ListsHold
    <3>2. PICK a \in {"known", "?"} :
            [table |-> r.table, host |-> r.host, active |-> a] \in ReadonlyReplicas
      BY <1>4, <3>1 DEF ReadonlyReplicas
    <3>3. Needs({"replicas"}, ReadonlyReplicas).rows = ReadonlyReplicas
      BY <2>2, NeedsFile
    <3>4. found'["replica_readonly"].rows = ReadonlyReplicas
      BY <3>3, WhatIsFound
    <3> QED  BY <3>2, <3>4 DEF Says
  <2> QED  BY <2>1, <2>2
<1>5. ASSUME NEW r \in Queried(world.replicas), r.crashes # {}
      PROVE  CrashLogEntries.state # "clean"
  <2>1. CASE "crash_log" \in DOMAIN files
    <3>1. UNION {x.crashes : x \in files.crash_log} # {}
      <4>1. [crashes |-> r.crashes] \in files.crash_log
        BY <2>1 DEF FilesInv
      <4>2. r.crashes \in {x.crashes : x \in files.crash_log}
        BY <4>1
      <4> QED  BY <1>5, <4>2
    <3> QED  BY <2>1, <3>1 DEF CrashLogEntries, Found, Outcome
  <2>2. CASE "crash_log" \notin DOMAIN files
    BY <2>2 DEF CrashLogEntries, Outcome, NotApplicable
  <2> QED  BY <2>1, <2>2
<1>6. ASSUME CrashLogEntries.state = "skipped", mode = "cloud", lost = {}
      PROVE  \A r \in world.replicas : r.crashes = {}
  <2>1. "crash_presence" \in DOMAIN files
    BY <1>6 DEF FilesInv, RulesRun
  <2>2. "crash_log" \notin DOMAIN files
    BY <1>6 DEF CrashLogEntries, Found, Outcome
  <2>3. files.crash_presence = {}
    BY <1>6, <2>1, <2>2 DEF CrashLogEntries, Outcome
  <2> QED  BY <2>1, <2>3 DEF FilesInv
<1>7. found'["crash_log_entries"] = CrashLogEntries
  BY WhatIsFound
<1> QED  BY <1>1, <1>2, <1>3, <1>4, <1>5, <1>6, <1>7 DEF MissingNeverHides

\* A collector that failed never makes a rule say that all is well, whatever was
\* lost, in any order of the answers (checkDiskSpaceLow, checkReplicaReadonly,
\* checkCrashLog).
THEOREM NothingIsHidden == ChecksSpec => []MissingNeverHides
<1>1. ChecksInit => MissingNeverHides
  BY DEF ChecksInit, MissingNeverHides, Done
<1>2. ASSUME FilesInv, MissingNeverHides, [ChecksNext]_checkVars
      PROVE  MissingNeverHides'
  <2>1. CASE RulesRun
    BY <1>2, <2>1, RunHidesNothing
  <2>2. CASE UNCHANGED <<world, mode, lost, found>>
    BY <1>2, <2>2 DEF MissingNeverHides, Done, Says, Queried
  <2> QED  BY <1>2, <2>1, <2>2, NothingFound
<1> QED  BY InitFiles, NextFiles, <1>1, <1>2, PTL DEF ChecksSpec

-----------------------------------------------------------------------------
(* What several replicas list.                                             *)

LEMMA LeastNumber ==
  ASSUME NEW T, T \subseteq Nat, T # {}
  PROVE  \E m \in T : \A k \in T : m <= k
<1>1. PICK m \in T : \A k \in T : ~(<<k, m>> \in OpToRel(<, Nat))
  BY NatLessThanWellFounded, WFMin
<1>2. \A k \in T : ~(k < m)
  BY <1>1 DEF OpToRel
<1> QED  BY <1>2

\* A finite set of numbers has a greatest.
LEMMA MaxIsGreatest ==
  ASSUME NEW S, IsFiniteSet(S), S \subseteq Int, S # {}
  PROVE  Max(S) \in S /\ \A y \in S : Max(S) >= y
<1> DEFINE Above(x) == {y \in S : y > x}
           T == {Cardinality(Above(x)) : x \in S}
<1>1. \A x \in S : IsFiniteSet(Above(x)) /\ Cardinality(Above(x)) \in Nat
  BY FS_Subset, FS_CardinalityType
<1>2. PICK x \in S : \A z \in S : Cardinality(Above(x)) <= Cardinality(Above(z))
  <2>1. T \subseteq Nat /\ T # {}
    BY <1>1
  <2>2. PICK n \in T : \A k \in T : n <= k
    <3> HIDE DEF T
    <3> QED  BY <2>1, LeastNumber
  <2> QED  BY <2>2
<1>3. ASSUME NEW z \in S, z > x PROVE FALSE
  <2>1. Above(z) \subseteq Above(x) /\ z \in Above(x) /\ z \notin Above(z)
    <3>1. x \in Int /\ z \in Int /\ \A y \in S : y \in Int
      OBVIOUS
    <3>2. ASSUME NEW y \in S, y > z PROVE y > x
      BY <1>3, <3>1, <3>2
    <3>3. ~(z > z)
      BY <3>1
    <3> QED  BY <1>3, <3>2, <3>3
  <2> HIDE DEF Above
  <2>2. Cardinality(Above(z)) <= Cardinality(Above(x)) /\ Above(z) # Above(x)
    BY <1>1, <2>1, FS_Subset
  <2>3. Cardinality(Above(x)) = Cardinality(Above(z))
    BY <1>1, <1>2, <2>2
  <2> QED  BY <1>1, <2>1, <2>2, <2>3, FS_Subset
<1>4. \A y \in S : x >= y
  BY <1>3
<1> QED  BY <1>4 DEF Max

\* The first row that has a property, of those that have it and agree in what.
LEMMA FirstRow ==
  ASSUME NEW n \in Nat, NEW B, B \subseteq 1..n, B # {}
  PROVE  \E i \in B : \A j \in 1..(i - 1) : j \notin B
<1>1. PICK i \in B : \A k \in B : i <= k
  <2>1. B \subseteq Nat
    OBVIOUS
  <2> QED  BY <2>1, LeastNumber
<1>2. \A j \in 1..(i - 1) : ~(i <= j)
  BY <1>1
<1> QED  BY <1>1, <1>2

LEMMA EachMutationOnce ==
  ASSUME FilesInv, "mutations" \in DOMAIN files
  PROVE  {files.mutations[i].id : i \in LongMutations} =
           {m.id : m \in {m \in Queried(world.mutations) : Unfinished(m)}}
<1> DEFINE rows == files.mutations
           S == Queried(world.mutations)
           N == Cardinality(S)
<1>1. Lists(rows, S) /\ IsFiniteSet(S)
  BY FiniteLists DEF FilesInv
<1>2. N \in Nat
  BY <1>1, FS_CardinalityType
<1>3. LongMutations =
        {i \in DOMAIN rows :
           Unfinished(rows[i]) /\ \A j \in 1..(i - 1) : Unfinished(rows[j]) => rows[j].id # rows[i].id}
  BY DEF LongMutations
<1> HIDE DEF rows, S, N
<1>4. DOMAIN rows = 1..N /\ \A i \in 1..N : rows[i] \in S
  BY <1>1 DEF Lists, N
<1>5. ASSUME NEW m \in S, Unfinished(m) PROVE \E i \in LongMutations : rows[i].id = m.id
  <2> DEFINE B == {i \in 1..N : Unfinished(rows[i]) /\ rows[i].id = m.id}
  <2>1. B # {}
    BY <1>1, <1>5 DEF Lists, N
  <2>2. PICK i \in B : \A j \in 1..(i - 1) : j \notin B
    <3>1. B \subseteq 1..N
      OBVIOUS
    <3> HIDE DEF B
    <3> QED  BY <1>2, <2>1, <3>1, FirstRow
  <2>3. \A j \in 1..(i - 1) : j \in 1..N
    BY <1>2
  <2> QED  BY <1>3, <1>4, <2>2, <2>3
<1>6. ASSUME NEW i \in LongMutations PROVE rows[i] \in S /\ Unfinished(rows[i])
  BY <1>3, <1>4
<1>7. {rows[i].id : i \in LongMutations} = {m.id : m \in {m \in S : Unfinished(m)}}
  BY <1>5, <1>6
<1> QED  BY <1>7 DEF rows, S

LEMMA EachPathOnce ==
  ASSUME FilesInv, "detached" \in DOMAIN files, NEW d \in Queried(world.detached)
  PROVE  [table |-> d.table,
          n |-> Cardinality({e.path : e \in {e \in Queried(world.detached) : e.table = d.table}})]
           \in DetachedParts
<1> DEFINE rows == files.detached
           S == Queried(world.detached)
           N == Cardinality(S)
           counted == {i \in DOMAIN rows :
                         ~(mode = "cloud" /\ \E j \in 1..(i - 1) : rows[j].path = rows[i].path)}
           C == {i \in counted : rows[i].table = d.table}
           P == {e.path : e \in {e \in S : e.table = d.table}}
<1>1. Lists(rows, S) /\ IsFiniteSet(S)
  BY FiniteLists DEF FilesInv
<1>2. /\ \A e, f \in S : e.path = f.path => e.table = f.table
      /\ mode # "cloud" => \A e, f \in S : e.path = f.path => e = f
  BY DEF FilesInv, Listing, Queried
<1>3. DetachedParts =
        {[table |-> t, n |-> Cardinality({i \in counted : rows[i].table = t})] :
           t \in {rows[i].table : i \in counted}}
  BY DEF DetachedParts
<1>4. d \in S
  OBVIOUS
<1> HIDE DEF rows, S
<1>5. /\ N \in Nat /\ DOMAIN rows = 1..N /\ \A i \in 1..N : rows[i] \in S
      /\ \A i, j \in 1..N : i # j => rows[i] # rows[j]
      /\ \A e \in S : \E i \in 1..N : rows[i] = e
  BY <1>1, FS_CardinalityType DEF Lists
<1> HIDE DEF N
<1>6. ASSUME NEW e \in S PROVE \E i \in counted : rows[i].path = e.path /\ rows[i].table = e.table
  <2> DEFINE B == {i \in 1..N : rows[i].path = e.path}
  <2>1. B # {} /\ B \subseteq 1..N
    BY <1>5
  <2>2. PICK i \in B : \A j \in 1..(i - 1) : j \notin B
    <3> HIDE DEF B
    <3> QED  BY <1>5, <2>1, FirstRow
  <2>3. \A j \in 1..(i - 1) : j \in 1..N
    BY <1>5
  <2>4. i \in counted
    BY <1>5, <2>2, <2>3
  <2> QED  BY <1>2, <1>5, <2>2, <2>4
<1>7. ASSUME NEW i \in counted, NEW j \in counted, i # j PROVE rows[i].path # rows[j].path
  <2>1. i \in 1..N /\ j \in 1..N
    BY <1>5
  <2>2. CASE mode # "cloud"
    BY <1>2, <1>5, <1>7, <2>1, <2>2
  <2>3. CASE mode = "cloud"
    <3>1. i \in 1..(j - 1) \/ j \in 1..(i - 1)
      <4> HIDE DEF counted
      <4>1. i < j \/ j < i
        BY <1>5, <1>7, <2>1
      <4> QED  BY <1>5, <2>1, <4>1
    <3> QED  BY <2>3, <3>1
  <2> QED  BY <2>2, <2>3
<1>8. counted \subseteq 1..N
  BY <1>5
<1> HIDE DEF counted
<1>9. Cardinality(P) = Cardinality(C)
  <2> DEFINE g == [i \in C |-> rows[i].path]
  <2>1. IsFiniteSet(C)
    <3>1. C \in SUBSET (1..N)
      BY <1>8
    <3>2. IsFiniteSet(1..N)
      BY <1>5, FS_Interval
    <3> HIDE DEF C
    <3>3. IsFiniteSet(C)
      BY <3>1, <3>2, FS_Subset
    <3> QED  BY <3>3 DEF C
  <2>2. \A i \in C : rows[i].path \in P
    BY <1>5, <1>8
  <2>3. \A p \in P : \E i \in C : rows[i].path = p
    BY <1>6
  <2>4. \A i, j \in C : rows[i].path = rows[j].path => i = j
    BY <1>7
  <2> HIDE DEF C, P
  <2>5. g \in Bijection(C, P)
    BY <2>2, <2>3, <2>4 DEF Bijection, Injection, Surjection, IsInjective
  <2> QED  BY <2>1, <2>5, FS_Bijection DEF ExistsBijection
<1>10. d.table \in {rows[i].table : i \in counted}
  BY <1>4, <1>6
<1>11. [table |-> d.table, n |-> Cardinality(C)] \in DetachedParts
  BY <1>3, <1>10
<1>12. [table |-> d.table, n |-> Cardinality(P)] \in DetachedParts
  <2> HIDE DEF C, P
  <2> QED  BY <1>9, <1>11
<1> QED  BY <1>12 DEF P, S

Newest(p) == Max({b.block : b \in {b \in world.blocks : b.part = p}})

Latest(p) == Max({b.at : b \in {b \in world.blocks : b.part = p}})

Without(p) == {b.host : b \in world.blocks} \ {b.host : b \in {b \in world.blocks : b.part = p}}

Row(b) == [host |-> b.host, part |-> b.part, behind |-> Newest(b.part) - b.block,
           newest |-> Newest(b.part), at |-> Latest(b.part), missing |-> Without(b.part)]

Lags(b) == b.block < Newest(b.part) \/ Without(b.part) # {}

LEMMA LaggingRows == Lagging = {Row(b) : b \in {b \in world.blocks : Lags(b)}}
  BY DEF Lagging, Row, Lags, Newest, Latest, Without

\* The newest block of a partition and the time of the latest are those of a block.
LEMMA NewestIsOne ==
  ASSUME Listing(world), NEW b \in world.blocks
  PROVE  /\ Newest(b.part) \in Int /\ Newest(b.part) >= b.block
         /\ \E c \in world.blocks : c.part = b.part /\ c.block = Newest(b.part)
         /\ Latest(b.part) \in Int /\ Latest(b.part) >= b.at
         /\ \E c \in world.blocks : c.part = b.part /\ c.at = Latest(b.part)
<1> DEFINE of == {c \in world.blocks : c.part = b.part}
           blocks == {c.block : c \in of}
           times == {c.at : c \in of}
<1>1. IsFiniteSet(of) /\ b \in of /\ \A c \in of : c.block \in Int /\ c.at \in Int
  <2>1. of \subseteq world.blocks /\ b \in of
    OBVIOUS
  <2>2. IsFiniteSet(of)
    <3> HIDE DEF of
    <3> QED  BY <2>1, FS_Subset DEF Listing
  <2> QED  BY <2>1, <2>2 DEF Listing
<1>2. Newest(b.part) = Max(blocks) /\ Latest(b.part) = Max(times)
  BY DEF Newest, Latest
<1>3. \A c \in of : c \in world.blocks /\ c.part = b.part
  OBVIOUS
<1> HIDE DEF of
<1>4. IsFiniteSet(blocks) /\ IsFiniteSet(times)
  <2> DEFINE f == [c \in of |-> c.block]
             g == [c \in of |-> c.at]
  <2>1. f \in Surjection(of, blocks) /\ g \in Surjection(of, times)
    BY DEF Surjection
  <2> HIDE DEF f, g
  <2> QED  BY <1>1, <2>1, FS_Surjection
<1>5. blocks \subseteq Int /\ times \subseteq Int /\ b.block \in blocks /\ b.at \in times
  BY <1>1
<1>6. /\ \A n \in blocks : \E c \in of : c.block = n
      /\ \A n \in times : \E c \in of : c.at = n
  OBVIOUS
<1> HIDE DEF blocks, times
<1>7. /\ Max(blocks) \in blocks /\ Max(blocks) >= b.block
      /\ Max(times) \in times /\ Max(times) >= b.at
  BY <1>4, <1>5, MaxIsGreatest
<1>8. Max(blocks) \in Int /\ Max(times) \in Int
  BY <1>5, <1>7
<1>9. PICK c \in of : c.block = Max(blocks)
  BY <1>6, <1>7
<1>10. PICK d \in of : d.at = Max(times)
  BY <1>6, <1>7
<1> QED  BY <1>2, <1>3, <1>7, <1>8, <1>9, <1>10

\* What the rows say of a replica: the partitions of which it is late, and those
\* of which it has none and which were written to of late.
LateOf(rows, h) == {r.part : r \in {r \in ToSet(rows) : r.host = h /\ r.behind >= Behind}}

Firsts(rows) ==
  {i \in DOMAIN rows : /\ \A j \in 1..(i - 1) : rows[j].part # rows[i].part
                       /\ rows[i].at > world.collected - Day}

Lacking(rows, h) == {rows[i].part : i \in {i \in Firsts(rows) : h \in rows[i].missing}}

LEMMA LateAsListed ==
  ASSUME Listing(world), NEW rows, Lists(rows, Lagging), NEW h
  PROVE  LateOf(rows, h) = LateIn(h)
<1>1. ToSet(rows) = Lagging
  BY ListsHold
<1>2. ASSUME NEW r \in Lagging, r.host = h, r.behind >= Behind
      PROVE  r.part \in LateIn(h)
  <2>1. PICK b \in world.blocks : r = Row(b)
    BY LaggingRows
  <2>2. PICK c \in world.blocks : c.part = b.part /\ c.block = Newest(b.part)
    BY NewestIsOne
  <2>3. r.host = b.host /\ r.part = b.part /\ r.behind = c.block - b.block
    BY <2>1, <2>2 DEF Row
  <2>4. b.host = h /\ c.block - b.block >= Behind
    BY <1>2, <2>3
  <2> QED  BY <2>2, <2>3, <2>4 DEF LateIn
<1>3. ASSUME NEW p \in LateIn(h)
      PROVE  \E r \in Lagging : r.host = h /\ r.behind >= Behind /\ r.part = p
  <2>1. PICK b \in world.blocks, c \in world.blocks :
          b.part = p /\ c.part = p /\ b.host = h /\ c.block - b.block >= Behind
    BY <1>3 DEF LateIn
  <2>2. Newest(b.part) \in Int /\ Newest(b.part) >= c.block /\ b.block \in Int /\ c.block \in Int
    <3>1. Newest(c.part) \in Int /\ Newest(c.part) >= c.block
      BY NewestIsOne
    <3> QED  BY <2>1, <3>1 DEF Listing
  <2>3. Behind \in Nat \ {0}
    BY ChecksAssumption
  <2>4. Newest(b.part) - b.block >= Behind /\ b.block < Newest(b.part)
    BY <2>1, <2>2, <2>3
  <2>5. Row(b) \in Lagging
    BY <2>4, LaggingRows DEF Lags
  <2> QED  BY <2>1, <2>4, <2>5 DEF Row
<1> QED  BY <1>1, <1>2, <1>3 DEF LateOf

LEMMA LackingAsListed ==
  ASSUME Listing(world), NEW rows, Lists(rows, Lagging), NEW h \in {b.host : b \in world.blocks}
  PROVE  Lacking(rows, h) = NoneOf(h)
<1> DEFINE N == Cardinality(Lagging)
<1>1. /\ N \in Nat /\ DOMAIN rows = 1..N /\ \A i \in 1..N : rows[i] \in Lagging
      /\ \A r \in Lagging : \E i \in 1..N : rows[i] = r
  BY FiniteLists, FS_CardinalityType DEF Lists
<1> HIDE DEF N
<1>2. world.collected - Day \in Int
  BY ChecksAssumption DEF Listing
<1>3. ASSUME NEW i \in Firsts(rows), h \in rows[i].missing
      PROVE  rows[i].part \in NoneOf(h)
  <2>1. i \in 1..N /\ rows[i].at > world.collected - Day
    BY <1>1 DEF Firsts
  <2>2. PICK b \in world.blocks : rows[i] = Row(b)
    BY <1>1, <2>1, LaggingRows
  <2>3. PICK c \in world.blocks : c.part = b.part /\ c.at = Latest(b.part)
    BY NewestIsOne
  <2>4. rows[i].part = b.part /\ rows[i].at = c.at /\ rows[i].missing = Without(b.part)
    BY <2>2, <2>3 DEF Row
  <2>5. \A d \in {d \in world.blocks : d.part = b.part} : d.host # h
    BY <1>3, <2>4 DEF Without
  <2> QED  BY <2>1, <2>3, <2>4, <2>5 DEF NoneOf
<1>4. ASSUME NEW p \in NoneOf(h)
      PROVE  \E i \in Firsts(rows) : h \in rows[i].missing /\ rows[i].part = p
  <2>1. PICK b \in world.blocks : b.part = p /\ b.at > world.collected - Day
    BY <1>4 DEF NoneOf
  <2>2. h \in Without(p)
    BY <1>4 DEF NoneOf, Without
  <2>3. Latest(p) > world.collected - Day
    <3>1. Latest(p) \in Int /\ Latest(p) >= b.at /\ b.at \in Int
      BY <2>1, NewestIsOne DEF Listing
    <3> QED  BY <1>2, <2>1, <3>1
  <2>4. Row(b) \in Lagging
    BY <2>1, <2>2, LaggingRows DEF Lags
  <2> DEFINE F == {i \in 1..N : rows[i].part = p}
  <2>5. F \subseteq 1..N /\ F # {}
    <3>1. Row(b).part = p
      BY <2>1 DEF Row
    <3> QED  BY <1>1, <2>4, <3>1
  <2>6. PICK i \in F : \A j \in 1..(i - 1) : j \notin F
    <3> HIDE DEF F
    <3> QED  BY <1>1, <2>5, FirstRow
  <2>7. i \in 1..N /\ rows[i].part = p
    OBVIOUS
  <2>8. \A j \in 1..(i - 1) : j \in 1..N
    BY <1>1, <2>7
  <2>9. rows[i].at = Latest(p) /\ rows[i].missing = Without(p)
    <3>1. PICK d \in world.blocks : rows[i] = Row(d)
      BY <1>1, <2>7, LaggingRows
    <3>2. d.part = p
      BY <2>7, <3>1 DEF Row
    <3> QED  BY <3>1, <3>2 DEF Row
  <2>10. i \in Firsts(rows)
    BY <1>1, <2>3, <2>6, <2>7, <2>8, <2>9 DEF Firsts
  <2> QED  BY <2>2, <2>7, <2>9, <2>10
<1> QED  BY <1>3, <1>4 DEF Lacking

\* The rule says of each replica how many partitions it lacks, once for each.
LEMMA EachPartitionOnce ==
  ASSUME Listing(world), NEW rows, Lists(rows, Lagging), rows = files.lagging,
         NEW h \in {b.host : b \in world.blocks}
  PROVE  IF LateIn(h) \cup NoneOf(h) = {}
         THEN \A r \in Propagation : r.host # h
         ELSE \E r \in Propagation :
                /\ r.host = h /\ r.affected = Cardinality(LateIn(h) \cup NoneOf(h))
                /\ r.notFetched = Cardinality(NoneOf(h))
<1> DEFINE told == {r.host : r \in ToSet(rows)} \cup UNION {r.missing : r \in ToSet(rows)}
           behind(x) == {r.behind : r \in {r \in ToSet(rows) : r.host = x /\ r.behind >= Behind}}
                          \cup {rows[i].newest : i \in {i \in Firsts(rows) : x \in rows[i].missing}}
           said(x) == [host |-> x, affected |-> Cardinality(LateOf(rows, x) \cup Lacking(rows, x)),
                       notFetched |-> Cardinality(Lacking(rows, x)), most |-> Max(behind(x))]
<1>1. Propagation = {said(x) : x \in {x \in told : LateOf(rows, x) \cup Lacking(rows, x) # {}}}
  BY DEF Propagation, LateOf, Lacking, Firsts
<1>2. LateOf(rows, h) \cup Lacking(rows, h) # {} => h \in told
  <2>1. LateOf(rows, h) # {} => \E r \in ToSet(rows) : r.host = h
    BY DEF LateOf
  <2>2. Lacking(rows, h) # {} => \E r \in ToSet(rows) : h \in r.missing
    <3>1. Lacking(rows, h) # {} => \E i \in DOMAIN rows : h \in rows[i].missing
      BY DEF Lacking, Firsts
    <3>2. \A i \in DOMAIN rows : rows[i] \in ToSet(rows)
      BY DEF ToSet
    <3> QED  BY <3>1, <3>2
  <2> QED  BY <2>1, <2>2
<1>3. \A x : said(x).host = x
  OBVIOUS
<1>4. /\ said(h).affected = Cardinality(LateOf(rows, h) \cup Lacking(rows, h))
      /\ said(h).notFetched = Cardinality(Lacking(rows, h))
  OBVIOUS
<1> HIDE DEF told, said
<1>5. CASE LateOf(rows, h) \cup Lacking(rows, h) = {}
  <2>1. \A r \in Propagation : r.host # h
    BY <1>1, <1>3, <1>5
  <2> QED  BY <1>5, <2>1, LateAsListed, LackingAsListed
<1>6. CASE LateOf(rows, h) \cup Lacking(rows, h) # {}
  <2>1. said(h) \in Propagation
    BY <1>1, <1>2, <1>6
  <2> QED  BY <1>3, <1>4, <1>6, <2>1, LateAsListed, LackingAsListed
<1> QED  BY <1>5, <1>6

LEMMA RunCountsOnce ==
  ASSUME FilesInv, RulesRun
  PROVE  CountedOnce'
<1>1. world' = world /\ mode' = mode
  BY DEF RulesRun
<1>2. /\ Queried(world.detached)' = Queried(world.detached)
      /\ Queried(world.mutations)' = Queried(world.mutations)
  BY <1>1 DEF Queried
<1>3. /\ \A m : Unfinished(m)' <=> Unfinished(m)
      /\ \A h : LateIn(h)' = LateIn(h) /\ NoneOf(h)' = NoneOf(h)
  BY <1>1 DEF Unfinished, LateIn, NoneOf
<1>4. ASSUME NEW d \in Queried(world.detached)
      PROVE  Says("detached_parts_exist",
                  [table |-> d.table,
                   n |-> Cardinality({e.path : e \in {e \in Queried(world.detached) : e.table = d.table}})])'
  <2> DEFINE listed == [table |-> d.table,
                        n |-> Cardinality({e.path : e \in {e \in Queried(world.detached) : e.table = d.table}})]
  <2>1. CASE "detached" \notin DOMAIN files
    <3>1. Needs({"detached"}, DetachedParts).state = "skipped"
      BY <2>1, NeedsFile
    <3>2. found'["detached_parts_exist"].state = "skipped"
      BY <3>1, WhatIsFound
    <3> QED  BY <3>2 DEF Says
  <2>2. CASE "detached" \in DOMAIN files
    <3>1. listed \in DetachedParts
      BY <2>2, EachPathOnce
    <3>2. Needs({"detached"}, DetachedParts).rows = DetachedParts
      BY <2>2, NeedsFile
    <3>3. listed' = listed
      BY <1>2
    <3> HIDE DEF listed
    <3>4. listed \in found'["detached_parts_exist"].rows
      BY <3>1, <3>2, WhatIsFound
    <3>5. Says("detached_parts_exist", listed)'
      BY <3>3, <3>4 DEF Says
    <3> QED  BY <3>5 DEF listed
  <2> QED  BY <2>1, <2>2
<1>5. ASSUME found'["mutation_running_too_long"].state # "skipped"
      PROVE  found'["mutation_running_too_long"].rows =
               {m.id : m \in {m \in Queried(world.mutations) : Unfinished(m)}}
  <2> DEFINE ids == {files.mutations[i].id : i \in LongMutations}
  <2>1. found'["mutation_running_too_long"] = Needs({"mutations"}, ids)
    BY WhatIsFound
  <2>2. "mutations" \in DOMAIN files
    BY <1>5, <2>1, NeedsFile
  <2>3. found'["mutation_running_too_long"].rows = ids
    BY <2>1, <2>2, NeedsFile
  <2> QED  BY <2>2, <2>3, EachMutationOnce
<1>6. ASSUME found'["parts_propagation_lag"].state # "skipped", NEW h \in {b.host : b \in world.blocks}
      PROVE  IF LateIn(h) \cup NoneOf(h) = {}
             THEN \A r \in found'["parts_propagation_lag"].rows : r.host # h
             ELSE \E r \in found'["parts_propagation_lag"].rows :
                    /\ r.host = h /\ r.affected = Cardinality(LateIn(h) \cup NoneOf(h))
                    /\ r.notFetched = Cardinality(NoneOf(h))
  <2>1. "lagging" \in DOMAIN files
    <3>1. Needs({"lagging"}, Propagation).state # "skipped"
      BY <1>6, WhatIsFound
    <3> QED  BY <3>1, NeedsFile
  <2>2. Listing(world) /\ Lists(files.lagging, Lagging)
    BY <2>1 DEF FilesInv
  <2>3. found'["parts_propagation_lag"].rows = Propagation
    <3>1. Needs({"lagging"}, Propagation).rows = Propagation
      BY <2>1, NeedsFile
    <3> QED  BY <3>1, WhatIsFound
  <2> QED  BY <2>2, <2>3, EachPartitionOnce
<1>7. PathsOnce'
  BY <1>1, <1>2, <1>4 DEF PathsOnce
<1>8. MutationsOnce'
  BY <1>2, <1>3, <1>5 DEF MutationsOnce
<1>9. PartitionsOnce'
  BY <1>1, <1>3, <1>6 DEF PartitionsOnce
<1> QED  BY <1>7, <1>8, <1>9 DEF CountedOnce

\* What several replicas list is found once, in whatever order they answer
\* (checkDetachedParts, checkMutationsTooLong, checkPartsPropagationLag).
THEOREM ListedOnce == ChecksSpec => []CountedOnce
<1>1. ChecksInit => CountedOnce
  BY DEF ChecksInit, CountedOnce, Done
<1>2. ASSUME FilesInv, CountedOnce, [ChecksNext]_checkVars
      PROVE  CountedOnce'
  <2>1. CASE RulesRun
    BY <1>2, <2>1, RunCountsOnce
  <2>2. CASE UNCHANGED <<world, mode, lost, found>>
    <3>1. /\ \A m : Unfinished(m)' <=> Unfinished(m)
          /\ \A h : LateIn(h)' = LateIn(h) /\ NoneOf(h)' = NoneOf(h)
      BY <2>2 DEF Unfinished, LateIn, NoneOf
    <3>2. PathsOnce' <=> PathsOnce
      BY <2>2 DEF PathsOnce, Says, Queried
    <3>3. MutationsOnce' <=> MutationsOnce
      BY <2>2, <3>1 DEF MutationsOnce, Queried
    <3>4. PartitionsOnce' <=> PartitionsOnce
      BY <2>2, <3>1 DEF PartitionsOnce
    <3> QED  BY <1>2, <2>2, <3>2, <3>3, <3>4 DEF CountedOnce, Done
  <2> QED  BY <1>2, <2>1, <2>2, NothingFound
<1> QED  BY InitFiles, NextFiles, <1>1, <1>2, PTL DEF ChecksSpec

-----------------------------------------------------------------------------
(* Sums, and what the files of the logs count by the hour.                 *)

LEMMA FiniteInduction ==
  ASSUME NEW S, IsFiniteSet(S), NEW P, {} \in P,
         \A T \in SUBSET S : T # {} /\ (\A x \in T : T \ {x} \in P) => T \in P
  PROVE  SUBSET S \subseteq P
<1> DEFINE Bad == (SUBSET S) \ P
           Sizes == {Cardinality(T) : T \in Bad}
<1>1. \A T \in SUBSET S : IsFiniteSet(T) /\ Cardinality(T) \in Nat
  BY FS_Subset, FS_CardinalityType
<1>2. ASSUME Bad # {} PROVE FALSE
  <2>1. Sizes \subseteq Nat /\ Sizes # {}
    BY <1>1, <1>2
  <2>2. PICK n \in Sizes : \A k \in Sizes : n <= k
    <3> HIDE DEF Sizes
    <3> QED  BY <2>1, LeastNumber
  <2>3. PICK T \in Bad : n = Cardinality(T)
    OBVIOUS
  <2>4. \A U \in Bad : Cardinality(T) <= Cardinality(U)
    BY <2>2, <2>3
  <2>5. T # {} /\ T \in SUBSET S /\ T \notin P
    OBVIOUS
  <2>6. PICK x \in T : T \ {x} \in Bad
    BY <2>5
  <2>7. Cardinality(T \ {x}) = Cardinality(T) - 1
    BY <1>1, <2>5, FS_RemoveElement
  <2> HIDE DEF Bad
  <2>8. Cardinality(T) <= Cardinality(T \ {x}) /\ Cardinality(T) \in Nat
    BY <1>1, <2>4, <2>5, <2>6
  <2> QED  BY <2>7, <2>8
<1> QED  BY <1>2

\* sum has the sum of c over each subset of S.
Adds(sum, c, S) ==
  /\ sum \in [SUBSET S -> Int]
  /\ sum[{}] = 0
  /\ \A T \in SUBSET S : \A x \in T : sum[T] = c[x] + sum[T \ {x}]

HasSum(c, S) == \E sum : Adds(sum, c, S)

LEMMA SumExists ==
  ASSUME NEW S, IsFiniteSet(S), NEW c, \A x \in S : c[x] \in Int
  PROVE  HasSum(c, S)
<1> DEFINE P == {T \in SUBSET S : HasSum(c, T)}
<1>1. {} \in P
  <2>1. Adds([T \in {{}} |-> 0], c, {})
    BY DEF Adds
  <2> QED  BY <2>1 DEF HasSum
<1>2. ASSUME NEW T \in SUBSET S, NEW x \in T, T \ {x} \in P PROVE T \in P
  <2> DEFINE R == T \ {x}
  <2>1. PICK g : Adds(g, c, R)
    BY <1>2 DEF HasSum
  <2> DEFINE h == [U \in SUBSET T |-> IF x \in U THEN c[x] + g[U \ {x}] ELSE g[U]]
  <2>2. \A U \in SUBSET T : U \ {x} \in SUBSET R /\ (x \notin U => U \in SUBSET R)
    OBVIOUS
  <2>3. c[x] \in Int
    OBVIOUS
  <2>4. h \in [SUBSET T -> Int]
    BY <2>1, <2>2, <2>3 DEF Adds
  <2>5. h[{}] = 0
    BY <2>1 DEF Adds
  <2>6. ASSUME NEW U \in SUBSET T, NEW y \in U PROVE h[U] = c[y] + h[U \ {y}]
    <3>0. U \ {y} \in SUBSET T /\ y \in S
      OBVIOUS
    <3>1. CASE x \notin U
      <4>1. U \in SUBSET R /\ x \notin U \ {y}
        BY <3>1
      <4>2. g[U] = c[y] + g[U \ {y}]
        BY <2>1, <4>1 DEF Adds
      <4> QED  BY <3>0, <3>1, <4>1, <4>2
    <3>2. CASE x \in U /\ x = y
      BY <3>0, <3>2
    <3>3. CASE x \in U /\ x # y
      <4>1. U \ {x} \in SUBSET R /\ y \in U \ {x} /\ x \in U \ {y}
        BY <3>3
      <4>2. g[U \ {x}] = c[y] + g[(U \ {x}) \ {y}]
        BY <2>1, <4>1 DEF Adds
      <4>3. (U \ {x}) \ {y} = (U \ {y}) \ {x} /\ (U \ {x}) \ {y} \in SUBSET R
        BY <4>1
      <4>4. h[U] = c[x] + g[U \ {x}] /\ h[U \ {y}] = c[x] + g[(U \ {y}) \ {x}]
        BY <3>0, <3>3, <4>1
      <4>5. c[y] \in Int /\ g[(U \ {x}) \ {y}] \in Int
        BY <2>1, <3>0, <4>3 DEF Adds
      <4> DEFINE rest == g[(U \ {y}) \ {x}]
      <4>6. rest \in Int /\ c[y] \in Int /\ g[U \ {x}] = c[y] + rest
        BY <4>2, <4>3, <4>5
      <4>7. h[U] = c[x] + (c[y] + rest) /\ h[U \ {y}] = c[x] + rest
        BY <4>4, <4>6
      <4> HIDE DEF h, rest
      <4> QED  BY <2>3, <4>6, <4>7
    <3> QED  BY <3>1, <3>2, <3>3
  <2>7. Adds(h, c, T)
    <3> HIDE DEF h
    <3> QED  BY <2>4, <2>5, <2>6 DEF Adds
  <2> QED  BY <2>7 DEF HasSum
<1>3. \A T \in SUBSET S : T # {} /\ (\A x \in T : T \ {x} \in P) => T \in P
  BY <1>2
<1>4. SUBSET S \subseteq P
  <2> HIDE DEF P
  <2> QED  BY <1>1, <1>3, FiniteInduction
<1> QED  BY <1>4

\* One step of MapThenSumSet for each subset.
Mapped(g, c, S) ==
  [s \in SUBSET S |->
     IF s = {} THEN 0 ELSE c[CHOOSE x \in s : TRUE] + g[s \ {CHOOSE x \in s : TRUE}]]

\* What MapThenSumSet comes to.
LEMMA FoldIsSum ==
  ASSUME NEW S, IsFiniteSet(S), NEW c, NEW sum, Adds(sum, c, S),
         NEW iter, iter = Mapped(iter, c, S)
  PROVE  iter = sum
<1> DEFINE P == {T \in SUBSET S : iter[T] = sum[T]}
           pick(s) == CHOOSE x \in s : TRUE
<1>1. \A s \in SUBSET S : s # {} => pick(s) \in s
  OBVIOUS
<1>2. {} \in P
  BY DEF Adds, Mapped
<1>3. ASSUME NEW T \in SUBSET S, T # {}, \A x \in T : T \ {x} \in P PROVE T \in P
  <2>1. iter[T] = c[pick(T)] + iter[T \ {pick(T)}]
    BY <1>3 DEF Mapped
  <2>2. pick(T) \in T
    BY <1>1, <1>3
  <2> HIDE DEF pick
  <2> QED  BY <1>3, <2>1, <2>2 DEF Adds
<1>4. SUBSET S \subseteq P
  <2> HIDE DEF P
  <2> QED  BY <1>2, <1>3, FiniteInduction
<1>5. iter = [T \in SUBSET S |-> iter[T]] /\ sum = [T \in SUBSET S |-> sum[T]]
  BY DEF Mapped, Adds
<1> QED  BY <1>4, <1>5

LEMMA SumOfIsSum ==
  ASSUME NEW field, NEW S, IsFiniteSet(S), NEW sum, Adds(sum, [r \in S |-> r[field]], S)
  PROVE  SumOf(field, S) = sum[S]
<1> DEFINE body(g) == [s \in SUBSET S |->
                         IF s = {} THEN 0
                         ELSE (CHOOSE x \in s : TRUE)[field] + g[s \ {CHOOSE x \in s : TRUE}]]
           iter == CHOOSE g : g = body(g)
           c == [r \in S |-> r[field]]
<1>1. SumOf(field, S) = iter[S]
  BY DEF SumOf, MapThenSumSet, MapThenFoldSet
<1>2. \A g : body(g) = Mapped(g, c, S)
  <2>1. \A s \in SUBSET S : s # {} => (CHOOSE x \in s : TRUE) \in S
    OBVIOUS
  <2>2. \A s \in SUBSET S : s # {} => (CHOOSE x \in s : TRUE)[field] = c[CHOOSE x \in s : TRUE]
    BY <2>1
  <2> HIDE DEF c
  <2> QED  BY <2>2 DEF Mapped
<1>8. Adds(sum, c, S)
  OBVIOUS
<1> HIDE DEF c
<1>3. sum = Mapped(sum, c, S)
  <2>1. \A s \in SUBSET S : s # {} => (CHOOSE x \in s : TRUE) \in s
    OBVIOUS
  <2>2. \A s \in SUBSET S : sum[s] = Mapped(sum, c, S)[s]
    BY <1>8, <2>1 DEF Adds, Mapped
  <2>3. DOMAIN sum = SUBSET S /\ sum = [s \in SUBSET S |-> sum[s]]
    BY <1>8 DEF Adds
  <2> QED  BY <2>2, <2>3 DEF Mapped
<1>4. sum = body(sum)
  <2> HIDE DEF body
  <2> QED  BY <1>2, <1>3
<1>5. iter = body(iter)
  <2> HIDE DEF body
  <2> QED  BY <1>4
<1> HIDE DEF iter
<1>6. iter = Mapped(iter, c, S)
  <2> HIDE DEF body
  <2> QED  BY <1>2, <1>5
<1>7. iter = sum
  BY <1>6, <1>8, FoldIsSum
<1> QED  BY <1>1, <1>7

LEMMA TotalIsSum ==
  ASSUME NEW S, IsFiniteSet(S), NEW sum, Adds(sum, [r \in S |-> r.count], S)
  PROVE  Total(S) = sum[S]
BY SumOfIsSum DEF Total

Countable(S) == IsFiniteSet(S) /\ \A r \in S : r.count \in Nat

LEMMA TotalAdds ==
  ASSUME NEW S, Countable(S)
  PROVE  \E sum : /\ Adds(sum, [r \in S |-> r.count], S)
                  /\ \A T \in SUBSET S : Total(T) = sum[T]
<1> DEFINE c(T) == [r \in T |-> r.count]
<1>1. PICK sum : Adds(sum, c(S), S)
  <2>1. \A r \in S : c(S)[r] \in Int
    BY DEF Countable
  <2>2. HasSum(c(S), S)
    <3> HIDE DEF c
    <3> QED  BY <2>1, SumExists DEF Countable
  <2> QED  BY <2>2 DEF HasSum
<1>2. ASSUME NEW T \in SUBSET S PROVE Total(T) = sum[T]
  <2> DEFINE part == [U \in SUBSET T |-> sum[U]]
  <2>1. IsFiniteSet(T)
    BY FS_Subset DEF Countable
  <2>2. \A x \in T : c(T)[x] = c(S)[x]
    OBVIOUS
  <2>3. Adds(part, c(T), T)
    <3> HIDE DEF c
    <3> QED  BY <1>1, <2>2 DEF Adds
  <2>4. Total(T) = part[T]
    BY <2>1, <2>3, TotalIsSum
  <2> QED  BY <2>4
<1> QED  BY <1>1, <1>2

LEMMA TotalOf ==
  ASSUME NEW S, Countable(S)
  PROVE  /\ Total({}) = 0 /\ Total(S) \in Nat
         /\ \A x \in S : Total(S) = x.count + Total(S \ {x})
<1>1. PICK sum : /\ Adds(sum, [r \in S |-> r.count], S)
                 /\ \A T \in SUBSET S : Total(T) = sum[T]
  BY TotalAdds
<1>2. Total({}) = 0 /\ \A T \in SUBSET S, x \in S : x \in T => Total(T) = x.count + Total(T \ {x})
  BY <1>1 DEF Adds
<1> DEFINE P == {T \in SUBSET S : Total(T) \in Nat}
<1>3. SUBSET S \subseteq P
  <2>1. {} \in P
    BY <1>2
  <2>2. ASSUME NEW T \in SUBSET S, T # {}, \A x \in T : T \ {x} \in P
        PROVE  T \in P
    <3>1. PICK x \in T : TRUE
      BY <2>2
    <3>2. x.count \in Nat /\ Total(T \ {x}) \in Nat
      BY <2>2, <3>1 DEF Countable
    <3>3. Total(T) = x.count + Total(T \ {x})
      BY <1>2, <3>1
    <3> QED  BY <3>2, <3>3
  <2>3. \A T \in SUBSET S : T # {} /\ (\A x \in T : T \ {x} \in P) => T \in P
    BY <2>2
  <2> HIDE DEF P
  <2> QED  BY <2>1, <2>3, FiniteInduction DEF Countable
<1> QED  BY <1>2, <1>3

LEMMA CountableSubset ==
  ASSUME NEW S, Countable(S), NEW T \in SUBSET S
  PROVE  Countable(T)
BY FS_Subset DEF Countable

LEMMA TotalUnion ==
  ASSUME NEW S, Countable(S), NEW A \in SUBSET S, NEW B \in SUBSET S, A \cap B = {}
  PROVE  Total(A \cup B) = Total(A) + Total(B)
<1> DEFINE P == {T \in SUBSET A : Total(T \cup B) = Total(T) + Total(B)}
<1>1. Total(B) \in Nat
  BY CountableSubset, TotalOf
<1>2. {} \in P
  <2>1. {} \cup B = B /\ Total({}) = 0
    BY TotalOf
  <2> QED  BY <1>1, <2>1
<1>3. ASSUME NEW T \in SUBSET A, T # {}, \A x \in T : T \ {x} \in P PROVE T \in P
  <2>1. PICK x \in T : TRUE
    BY <1>3
  <2>2. Total((T \ {x}) \cup B) = Total(T \ {x}) + Total(B)
    BY <1>3, <2>1
  <2>3. Countable(T) /\ Countable(T \cup B) /\ Countable(T \ {x})
    BY CountableSubset
  <2>4. (T \cup B) \ {x} = (T \ {x}) \cup B
    BY <2>1
  <2>5. /\ Total(T) = x.count + Total(T \ {x})
        /\ Total(T \cup B) = x.count + Total((T \ {x}) \cup B)
    BY <2>1, <2>3, <2>4, TotalOf
  <2>6. x.count \in Nat /\ Total(T \ {x}) \in Nat
    BY <2>1, <2>3, TotalOf DEF Countable
  <2>7. Total(T \cup B) = Total(T) + Total(B)
    BY <1>1, <2>2, <2>5, <2>6
  <2> QED  BY <2>7
<1>4. IsFiniteSet(A)
  BY FS_Subset DEF Countable
<1>5. \A T \in SUBSET A : T # {} /\ (\A x \in T : T \ {x} \in P) => T \in P
  BY <1>3
<1>6. SUBSET A \subseteq P
  <2> HIDE DEF P
  <2> QED  BY <1>2, <1>4, <1>5, FiniteInduction
<1> QED  BY <1>6

LEMMA TotalGrows ==
  ASSUME NEW S, Countable(S), NEW A \in SUBSET S
  PROVE  Total(A) <= Total(S)
<1>1. S \ A \in SUBSET S /\ A \cap (S \ A) = {} /\ A \cup (S \ A) = S
  OBVIOUS
<1>2. Total(S) = Total(A) + Total(S \ A)
  BY <1>1, TotalUnion
<1>3. Total(A) \in Nat /\ Total(S \ A) \in Nat
  BY <1>1, CountableSubset, TotalOf
<1> QED  BY <1>2, <1>3

LEMMA TotalPositive ==
  ASSUME NEW S, Countable(S), Total(S) # 0
  PROVE  S # {}
BY TotalOf

\* Rows that count events, each its own, count together what they count apart.
LEMMA TotalOfGroups ==
  ASSUME NEW E, Countable(E), NEW G, Countable(G), NEW own \in [G -> SUBSET E],
         \A g \in G : g.count = Total(own[g]),
         \A g, h \in G : g # h => own[g] \cap own[h] = {}
  PROVE  Total(G) = Total(UNION {own[g] : g \in G})
<1> DEFINE of(T) == UNION {own[g] : g \in T}
           P == {T \in SUBSET G : Total(T) = Total(of(T))}
<1>1. {} \in P
  <2>1. of({}) = {}
    OBVIOUS
  <2> QED  BY <2>1
<1>2. ASSUME NEW T \in SUBSET G, T # {}, \A g \in T : T \ {g} \in P PROVE T \in P
  <2>1. PICK g \in T : TRUE
    BY <1>2
  <2>2. Total(T \ {g}) = Total(of(T \ {g}))
    BY <1>2, <2>1
  <2>3. of(T) = own[g] \cup of(T \ {g}) /\ own[g] \cap of(T \ {g}) = {}
    BY <2>1
  <2>4. own[g] \in SUBSET E /\ of(T \ {g}) \in SUBSET E
    OBVIOUS
  <2> HIDE DEF of
  <2>5. Total(own[g] \cup of(T \ {g})) = Total(own[g]) + Total(of(T \ {g}))
    <3> DEFINE A == own[g]
               B == of(T \ {g})
    <3>1. A \in SUBSET E /\ B \in SUBSET E /\ A \cap B = {}
      BY <2>3, <2>4
    <3> HIDE DEF A, B
    <3>2. Total(A \cup B) = Total(A) + Total(B)
      BY <3>1, TotalUnion
    <3> QED  BY <3>2 DEF A, B
  <2>6. Total(T) = g.count + Total(T \ {g})
    BY <2>1, CountableSubset, TotalOf
  <2>7. Total(T) = Total(of(T))
    BY <2>1, <2>2, <2>3, <2>5, <2>6
  <2> QED  BY <2>7
<1>3. \A T \in SUBSET G : T # {} /\ (\A x \in T : T \ {x} \in P) => T \in P
  BY <1>2
<1>4. SUBSET G \subseteq P
  <2> HIDE DEF P
  <2> QED  BY <1>1, <1>3, FiniteInduction DEF Countable
<1> QED  BY <1>4

LEMMA BucketOf ==
  ASSUME NEW t \in Int
  PROVE  Bucket(t) \in Int /\ Bucket(t) % Hour = 0 /\ Bucket(t) <= t /\ t < Bucket(t) + Hour
BY DEF Bucket, Hour

LEMMA SameBucket ==
  ASSUME NEW t \in Int, NEW h \in Int, h % Hour = 0
  PROVE  Bucket(t) = h <=> t >= h /\ t < h + Hour
BY DEF Bucket, Hour

LEMMA ClockIs ==
  ASSUME Listing(world)
  PROVE  ServerClock = Clock /\ Clock \in Int
<1>1. world.collected \in Int /\ world.to \in Int \cup {None}
  BY DEF Listing
<1>2. CASE world.to = None
  BY <1>1, <1>2 DEF ServerClock, Clock
<1>3. CASE world.to # None
  <2>1. world.to \in Int
    BY <1>1, <1>3
  <2> DEFINE S == {world.to, world.collected}
             least == IF world.to < world.collected THEN world.to ELSE world.collected
  <2>2. least \in S /\ least \in Int /\ \A y \in S : least <= y
    BY <1>1, <2>1
  <2>3. \A x \in S : (\A y \in S : x <= y) => x = least
    BY <1>1, <2>1
  <2>4. Min(S) = least
    <3> HIDE DEF S, least
    <3> QED  BY <2>2, <2>3 DEF Min
  <2>5. Clock = least
    BY <1>3, <2>4 DEF Clock
  <2>6. ServerClock = least
    BY <1>3 DEF ServerClock
  <2> QED  BY <2>2, <2>5, <2>6
<1> QED  BY <1>2, <1>3

LEMMA SumIsTotal ==
  ASSUME NEW S
  PROVE  Sum(S) = Total(S)
BY DEF Sum, Total, SumOf

LEMMA SelectedCounts ==
  ASSUME Listing(world)
  PROVE  /\ Countable(Selected(world.parts, 3 * Day)) /\ \A e \in Selected(world.parts, 3 * Day) : e.at \in Int
         /\ Countable(Selected(world.refused, Day)) /\ \A e \in Selected(world.refused, Day) : e.at \in Int
BY FS_Subset DEF Listing, Countable, Selected, Queried

LEMMA KnownCounts ==
  ASSUME Listing(world)
  PROVE  /\ Countable(Known(world.parts)) /\ \A e \in Known(world.parts) : e.at \in Int
         /\ Countable(Known(world.refused)) /\ \A e \in Known(world.refused) : e.at \in Int
BY FS_Subset DEF Listing, Countable, Known, Queried

\* Of what went on, what is read is what comes after the collector's window begins.
LEMMA SelectedOfKnown ==
  ASSUME NEW events, NEW window
  PROVE  Selected(events, window) = {e \in Known(events) : Begins(window) < e.at}
BY DEF Selected, Known

LEMMA BeginsAt ==
  ASSUME Listing(world), NEW window \in Int
  PROVE  Begins(window) \in Int /\ Ends \in Int
BY ChecksAssumption DEF Listing, Begins, Ends

\* The events that a row of the part log counts.
OwnParts(r) ==
  {e \in Selected(world.parts, 3 * Day) :
     /\ e.host = r.host /\ Bucket(e.at) = r.time /\ e.type = r.type
     /\ e.error = r.error /\ e.table = r.table}

PartRow(e) ==
  [host |-> e.host, time |-> Bucket(e.at), type |-> e.type, error |-> e.error, table |-> e.table,
   count |-> Total({d \in Selected(world.parts, 3 * Day) :
                      /\ d.host = e.host /\ Bucket(d.at) = Bucket(e.at) /\ d.type = e.type
                      /\ d.error = e.error /\ d.table = e.table})]

LEMMA PartLogRows == PartLog = {PartRow(e) : e \in Selected(world.parts, 3 * Day)}
<1> DEFINE E == Selected(world.parts, 3 * Day)
           key == [e \in E |-> <<e.host, Bucket(e.at), e.type, e.error, e.table>>]
           row(g) == [host |-> g.key[1], time |-> g.key[2], type |-> g.key[3], error |-> g.key[4],
                      table |-> g.key[5], count |-> g.count]
           group(k) == [key |-> k, count |-> Total({e \in DOMAIN key : key[e] = k})]
<1>1. PartLog = {row(g) : g \in Grouped(key)}
  BY DEF PartLog
<1>2. Grouped(key) = {group(k) : k \in {key[e] : e \in DOMAIN key}}
  BY DEF Grouped
<1>3. DOMAIN key = E
  OBVIOUS
<1>4. ASSUME NEW e \in E PROVE row(group(key[e])) = PartRow(e)
  <2>1. key[e] = <<e.host, Bucket(e.at), e.type, e.error, e.table>>
    OBVIOUS
  <2>2. {d \in DOMAIN key : key[d] = key[e]} =
          {d \in E : /\ d.host = e.host /\ Bucket(d.at) = Bucket(e.at) /\ d.type = e.type
                     /\ d.error = e.error /\ d.table = e.table}
    OBVIOUS
  <2> DEFINE same == {d \in E : /\ d.host = e.host /\ Bucket(d.at) = Bucket(e.at) /\ d.type = e.type
                               /\ d.error = e.error /\ d.table = e.table}
             made == [host |-> e.host, time |-> Bucket(e.at), type |-> e.type, error |-> e.error,
                      table |-> e.table, count |-> Total(same)]
  <2>3. PartRow(e) = made
    BY DEF PartRow
  <2>4. group(key[e]).count = Total(same)
    <3> HIDE DEF key, E
    <3> QED  BY <2>2
  <2>5. group(key[e]).key = <<e.host, Bucket(e.at), e.type, e.error, e.table>>
    BY <2>1
  <2>6. row(group(key[e])) = made
    <3> HIDE DEF key, group, same
    <3> QED  BY <2>4, <2>5
  <2> QED  BY <2>3, <2>6
<1> HIDE DEF row, group, key
<1>5. PartLog = {row(group(key[e])) : e \in E}
  BY <1>1, <1>2, <1>3
<1> QED  BY <1>4, <1>5

\* Every event counts in one row, and rows count together what they count apart.
LEMMA PartRows ==
  ASSUME Listing(world)
  PROVE  /\ Countable(PartLog)
         /\ \A r \in PartLog : \E e \in Selected(world.parts, 3 * Day) : r.host = e.host /\ r.time = Bucket(e.at)
         /\ \A e \in Selected(world.parts, 3 * Day) : \E r \in PartLog : e \in OwnParts(r)
         /\ \A R \in SUBSET PartLog :
              Total(R) = Total({e \in Selected(world.parts, 3 * Day) : \E r \in R : e \in OwnParts(r)})
<1> DEFINE E == Selected(world.parts, 3 * Day)
<1>1. Countable(E)
  BY SelectedCounts
<1>2. \A e \in E : /\ PartRow(e).host = e.host /\ PartRow(e).time = Bucket(e.at)
                   /\ PartRow(e).type = e.type /\ PartRow(e).error = e.error
                   /\ PartRow(e).table = e.table /\ PartRow(e).count = Total(OwnParts(PartRow(e)))
                   /\ e \in OwnParts(PartRow(e))
  <2> TAKE e \in E
  <2>1. /\ PartRow(e).host = e.host /\ PartRow(e).time = Bucket(e.at)
        /\ PartRow(e).type = e.type /\ PartRow(e).error = e.error /\ PartRow(e).table = e.table
    BY DEF PartRow
  <2>2. OwnParts(PartRow(e)) =
          {d \in E : /\ d.host = e.host /\ Bucket(d.at) = Bucket(e.at) /\ d.type = e.type
                     /\ d.error = e.error /\ d.table = e.table}
    BY <2>1 DEF OwnParts
  <2>3. PartRow(e).count = Total(OwnParts(PartRow(e)))
    BY <2>2 DEF PartRow
  <2> QED  BY <2>1, <2>2, <2>3
<1>3. PartLog = {PartRow(e) : e \in E}
  BY PartLogRows
<1>4. \A r \in PartLog : /\ r.count = Total(OwnParts(r)) /\ OwnParts(r) \in SUBSET E
                         /\ \A e \in OwnParts(r) : r = PartRow(e)
  <2>1. ASSUME NEW d \in E, NEW e \in OwnParts(PartRow(d)) PROVE PartRow(d) = PartRow(e)
    <3>1. /\ d.host = e.host /\ Bucket(d.at) = Bucket(e.at) /\ d.type = e.type
          /\ d.error = e.error /\ d.table = e.table
      BY <1>2 DEF OwnParts
    <3> QED  BY <3>1 DEF PartRow
  <2>2. \A r : OwnParts(r) \in SUBSET E
    BY DEF OwnParts
  <2> HIDE DEF E
  <2> QED  BY <1>2, <1>3, <2>1, <2>2
<1>5. Countable(PartLog)
  <2> DEFINE f == [e \in E |-> PartRow(e)]
  <2>1. f \in Surjection(E, PartLog)
    BY <1>3 DEF Surjection
  <2>2. IsFiniteSet(PartLog)
    <3> HIDE DEF f, E
    <3> QED  BY <1>1, <2>1, FS_Surjection DEF Countable
  <2>3. \A r \in PartLog : r.count \in Nat
    <3> TAKE r \in PartLog
    <3>1. Countable(OwnParts(r))
      BY <1>1, <1>4, CountableSubset
    <3> QED  BY <1>4, <3>1, TotalOf
  <2> QED  BY <2>2, <2>3 DEF Countable
<1>6. ASSUME NEW R \in SUBSET PartLog
      PROVE  Total(R) = Total({e \in E : \E r \in R : e \in OwnParts(r)})
  <2> DEFINE own == [r \in R |-> OwnParts(r)]
             covered == {e \in E : \E r \in R : e \in OwnParts(r)}
  <2>1. own \in [R -> SUBSET E]
    BY <1>4
  <2>2. \A g \in R : g.count = Total(own[g])
    BY <1>4
  <2>3. \A g, h \in R : g # h => own[g] \cap own[h] = {}
    BY <1>4
  <2>4. UNION {own[g] : g \in R} = covered
    BY <1>4
  <2>5. Countable(R)
    BY <1>5, CountableSubset
  <2> HIDE DEF own, E, covered
  <2>6. Total(R) = Total(UNION {own[g] : g \in R})
    BY <1>1, <2>1, <2>2, <2>3, <2>5, TotalOfGroups
  <2> QED  BY <2>4, <2>6 DEF covered
<1>7. \A e \in E : PartRow(e) \in PartLog
  BY <1>3
<1>8. \A r \in PartLog : \E e \in E : r.host = e.host /\ r.time = Bucket(e.at)
  BY <1>2, <1>3
<1> QED  BY <1>2, <1>5, <1>6, <1>7, <1>8

\* The events of an hour that are read.
Then(host, hour) ==
  {e \in Selected(world.parts, 3 * Day) : e.host = host /\ e.at >= hour /\ e.at < hour + Hour}

\* The rows of an hour in the window count its events.
LEMMA HourTotals ==
  ASSUME Listing(world), NEW host, NEW hour \in Int, hour % Hour = 0, InWindow(hour, Day)
  PROVE  LET rows == {r \in {r \in PartLog : InWindow(r.time, Day)} : r.host = host /\ r.time = hour}
         IN  /\ Total({r \in rows : r.type = "NewPart"}) =
                  Total({e \in Then(host, hour) : e.type = "NewPart"})
             /\ Total({r \in rows : r.type = "MergeParts" /\ r.error = 0}) =
                  Total({e \in Then(host, hour) : e.type = "MergeParts" /\ e.error = 0})
<1> DEFINE E == Selected(world.parts, 3 * Day)
           rows == {r \in {r \in PartLog : InWindow(r.time, Day)} : r.host = host /\ r.time = hour}
           new == {r \in rows : r.type = "NewPart"}
           merged == {r \in rows : r.type = "MergeParts" /\ r.error = 0}
<1>1. \A e \in E : Bucket(e.at) = hour <=> e.at >= hour /\ e.at < hour + Hour
  BY SelectedCounts, SameBucket
<1>2. \A e \in E : \E r \in PartLog : e \in OwnParts(r)
  BY PartRows
<1>3. \A r, e : e \in OwnParts(r) => /\ e \in E /\ e.host = r.host /\ Bucket(e.at) = r.time
                                     /\ e.type = r.type /\ e.error = r.error
  BY DEF OwnParts
<1> HIDE DEF E
<1>4. {e \in E : \E r \in new : e \in OwnParts(r)} = {e \in Then(host, hour) : e.type = "NewPart"}
  BY <1>1, <1>2, <1>3 DEF Then, E
<1>5. {e \in E : \E r \in merged : e \in OwnParts(r)} =
        {e \in Then(host, hour) : e.type = "MergeParts" /\ e.error = 0}
  BY <1>1, <1>2, <1>3 DEF Then, E
<1>6. new \in SUBSET PartLog /\ merged \in SUBSET PartLog
  OBVIOUS
<1> HIDE DEF new, merged
<1>7. /\ Total(new) = Total({e \in E : \E r \in new : e \in OwnParts(r)})
      /\ Total(merged) = Total({e \in E : \E r \in merged : e \in OwnParts(r)})
  BY <1>6, PartRows DEF E
<1>8. /\ Total(new) = Total({e \in Then(host, hour) : e.type = "NewPart"})
      /\ Total(merged) = Total({e \in Then(host, hour) : e.type = "MergeParts" /\ e.error = 0})
  BY <1>4, <1>5, <1>7
<1> QED  BY <1>8 DEF new, merged

LEMMA InDay ==
  ASSUME Listing(world), NEW time, NEW d
  PROVE  InWindow(time, d) <=> time + Hour > Clock - d /\ time <= Clock
BY ClockIs DEF InWindow

\* As far as it is read, the hour is stalled.
ReadStalled(host, hour) ==
  /\ Total({e \in Then(host, hour) : e.type = "NewPart"}) > Busy
  /\ Total({e \in Then(host, hour) : e.type = "MergeParts" /\ e.error = 0}) = 0

\* An hour that is read in full is stalled if what is read of it is, and of any
\* other there were at least as many new parts as are read.
LEMMA ReadHours ==
  ASSUME Listing(world), NEW host, NEW hour \in Int
  PROVE  /\ Whole(hour, 3 * Day) => (ReadStalled(host, hour) <=> Stalled(host, hour))
         /\ ReadStalled(host, hour) => New(host, hour) > Busy
<1> DEFINE K == Known(world.parts)
           new == {e \in Then(host, hour) : e.type = "NewPart"}
           merged == {e \in Then(host, hour) : e.type = "MergeParts" /\ e.error = 0}
           allNew == {e \in K : e.host = host /\ e.at >= hour /\ e.at < hour + Hour /\ e.type = "NewPart"}
           allMerged == {e \in K : /\ e.host = host /\ e.at >= hour /\ e.at < hour + Hour
                                   /\ e.type = "MergeParts" /\ e.error = 0}
<1>1. New(host, hour) = Total(allNew) /\ Merged(host, hour) = Total(allMerged)
  BY SumIsTotal DEF New, Merged
<1>2. Then(host, hour) =
        {e \in K : Begins(3 * Day) < e.at /\ e.host = host /\ e.at >= hour /\ e.at < hour + Hour}
  BY SelectedOfKnown DEF Then
<1>3. Begins(3 * Day) \in Int /\ Busy \in Nat
  BY BeginsAt, ChecksAssumption
<1>4. \A e \in K : e.at \in Int
  BY KnownCounts
<1>5. Countable(K)
  BY KnownCounts
<1> HIDE DEF K
<1>6. new \in SUBSET allNew /\ allNew \in SUBSET K
  BY <1>2
<1>7. ASSUME Whole(hour, 3 * Day) PROVE new = allNew /\ merged = allMerged
  <2>1. \A e \in K : e.at >= hour => Begins(3 * Day) < e.at
    BY <1>3, <1>4, <1>7 DEF Whole
  <2> QED  BY <1>2, <2>1
<1> HIDE DEF new, merged, allNew, allMerged
<1>8. Total(new) <= Total(allNew) /\ Total(new) \in Nat /\ Total(allNew) \in Nat
  <2>1. Countable(allNew)
    BY <1>5, <1>6, CountableSubset
  <2>2. Countable(new)
    BY <1>6, <2>1, CountableSubset
  <2> QED  BY <1>6, <2>1, <2>2, TotalGrows, TotalOf
<1>9. ReadStalled(host, hour) <=> Total(new) > Busy /\ Total(merged) = 0
  BY DEF ReadStalled, new, merged
<1>10. Stalled(host, hour) <=> Total(allNew) > Busy /\ Total(allMerged) = 0
  BY <1>1 DEF Stalled
<1>11. ReadStalled(host, hour) => New(host, hour) > Busy
  BY <1>1, <1>3, <1>8, <1>9
<1>12. Whole(hour, 3 * Day) => (ReadStalled(host, hour) <=> Stalled(host, hour))
  BY <1>7, <1>9, <1>10
<1> QED  BY <1>11, <1>12

\* The rule finds the hours in its window that are stalled as far as they are read.
LEMMA StalledHours ==
  ASSUME Listing(world), "part_log" \in DOMAIN files, files.part_log = PartLog
  PROVE  /\ \A e \in Queried(world.parts) :
              LET hour == Bucket(e.at) IN
              ReadStalled(e.host, hour) /\ hour + Hour > Clock - Day /\ hour <= Clock
              => [host |-> e.host, time |-> hour] \in MergesStalled
         /\ \A k \in MergesStalled :
              k.time \in Int /\ ReadStalled(k.host, k.time) /\ k.time + Hour > Clock - Day
<1> DEFINE recent == {r \in PartLog : InWindow(r.time, Day)}
           Of(k) == {r \in recent : r.host = k.host /\ r.time = k.time}
           keys == {[host |-> r.host, time |-> r.time] : r \in recent}
           stalled(k) == /\ Total({r \in Of(k) : r.type = "NewPart"}) > Busy
                         /\ Total({r \in Of(k) : r.type = "MergeParts" /\ r.error = 0}) = 0
<1>1. MergesStalled = {k \in keys : stalled(k)}
  BY DEF MergesStalled
<1>2. \A host, hour : ReadStalled(host, hour) <=>
        /\ Total({e \in Then(host, hour) : e.type = "NewPart"}) > Busy
        /\ Total({e \in Then(host, hour) : e.type = "MergeParts" /\ e.error = 0}) = 0
  BY DEF ReadStalled
<1>3. ASSUME NEW k, k.time \in Int, k.time % Hour = 0, InWindow(k.time, Day)
      PROVE  stalled(k) <=> ReadStalled(k.host, k.time)
  BY <1>2, <1>3, HourTotals
<1>4. ASSUME NEW k \in keys
      PROVE  k.time \in Int /\ k.time % Hour = 0 /\ InWindow(k.time, Day)
  <2>1. PICK r \in PartLog : InWindow(r.time, Day) /\ k.time = r.time
    BY <1>4
  <2>2. PICK e \in Selected(world.parts, 3 * Day) : r.time = Bucket(e.at)
    BY PartRows
  <2> QED  BY <2>1, <2>2, BucketOf, SelectedCounts
<1> HIDE DEF stalled
<1>5. ASSUME NEW k \in MergesStalled
      PROVE  k.time \in Int /\ ReadStalled(k.host, k.time) /\ k.time + Hour > Clock - Day
  <2>1. k \in keys /\ stalled(k)
    BY <1>1, <1>5
  <2> HIDE DEF keys
  <2> QED  BY <1>3, <1>4, <2>1, InDay
<1>6. ASSUME NEW e \in Queried(world.parts), NEW hour, hour = Bucket(e.at),
             ReadStalled(e.host, hour), hour + Hour > Clock - Day, hour <= Clock
      PROVE  [host |-> e.host, time |-> hour] \in MergesStalled
  <2> DEFINE k == [host |-> e.host, time |-> hour]
  <2>1. e.at \in Int /\ hour \in Int /\ hour % Hour = 0 /\ InWindow(hour, Day)
    <3>1. e.at \in Int
      BY DEF Queried, Listing
    <3> QED  BY <1>6, <3>1, BucketOf, InDay
  <2>2. {d \in Then(e.host, hour) : d.type = "NewPart"} # {}
    <3> DEFINE new == {d \in Then(e.host, hour) : d.type = "NewPart"}
    <3>1. Countable(new)
      <4>1. new \in SUBSET Selected(world.parts, 3 * Day)
        BY DEF Then
      <4> QED  BY <4>1, SelectedCounts, CountableSubset
    <3>2. Total(new) > Busy /\ Busy \in Nat
      BY <1>2, <1>6, ChecksAssumption
    <3> HIDE DEF new
    <3>3. Total(new) # 0
      BY <3>1, <3>2, TotalOf
    <3>4. new # {}
      BY <3>1, <3>3, TotalPositive
    <3> QED  BY <3>4 DEF new
  <2>3. PICK d \in Selected(world.parts, 3 * Day) : d.host = e.host /\ d.at >= hour /\ d.at < hour + Hour
    BY <2>2 DEF Then
  <2>4. Bucket(d.at) = hour
    BY <2>1, <2>3, SameBucket, SelectedCounts
  <2>5. PICK r \in PartLog : r.host = e.host /\ r.time = hour
    <3>1. PICK r \in PartLog : d \in OwnParts(r)
      BY PartRows
    <3> QED  BY <2>3, <2>4, <3>1 DEF OwnParts
  <2>6. k \in keys
    BY <2>1, <2>5
  <2>7. stalled(k)
    BY <1>3, <1>6, <2>1
  <2> HIDE DEF keys, k
  <2>8. k \in MergesStalled
    BY <1>1, <2>6, <2>7
  <2> QED  BY <2>8 DEF k
<1> QED  BY <1>5, <1>6

OwnRefused(r) == {e \in Selected(world.refused, Day) : Bucket(e.at) = r.time /\ e.code = r.code}

RefusedRow(e) ==
  [time |-> Bucket(e.at), code |-> e.code,
   count |-> Total({d \in Selected(world.refused, Day) : Bucket(d.at) = Bucket(e.at) /\ d.code = e.code})]

LEMMA ExceptionsRows == Exceptions = {RefusedRow(e) : e \in Selected(world.refused, Day)}
<1> DEFINE E == Selected(world.refused, Day)
           key == [e \in E |-> <<Bucket(e.at), e.code>>]
           row(g) == [time |-> g.key[1], code |-> g.key[2], count |-> g.count]
           group(k) == [key |-> k, count |-> Total({e \in DOMAIN key : key[e] = k})]
<1>1. Exceptions = {row(g) : g \in Grouped(key)}
  BY DEF Exceptions
<1>2. Grouped(key) = {group(k) : k \in {key[e] : e \in DOMAIN key}}
  BY DEF Grouped
<1>3. DOMAIN key = E
  OBVIOUS
<1>4. ASSUME NEW e \in E PROVE row(group(key[e])) = RefusedRow(e)
  <2>1. key[e] = <<Bucket(e.at), e.code>>
    OBVIOUS
  <2> DEFINE same == {d \in E : Bucket(d.at) = Bucket(e.at) /\ d.code = e.code}
             made == [time |-> Bucket(e.at), code |-> e.code, count |-> Total(same)]
  <2>2. {d \in DOMAIN key : key[d] = key[e]} = same
    OBVIOUS
  <2>3. RefusedRow(e) = made
    BY DEF RefusedRow
  <2>4. group(key[e]).count = Total(same)
    <3> HIDE DEF key, E
    <3> QED  BY <2>2
  <2>5. group(key[e]).key = <<Bucket(e.at), e.code>>
    BY <2>1
  <2>6. row(group(key[e])) = made
    <3> HIDE DEF key, group, same
    <3> QED  BY <2>4, <2>5
  <2> QED  BY <2>3, <2>6
<1> HIDE DEF row, group, key
<1>5. Exceptions = {row(group(key[e])) : e \in E}
  BY <1>1, <1>2, <1>3
<1> QED  BY <1>4, <1>5

LEMMA RefusedRows ==
  ASSUME Listing(world), NEW R \in SUBSET Exceptions
  PROVE  Total(R) = Total({e \in Selected(world.refused, Day) : \E r \in R : e \in OwnRefused(r)})
<1> DEFINE E == Selected(world.refused, Day)
<1>1. Countable(E)
  BY SelectedCounts
<1>2. \A e \in E : /\ RefusedRow(e).count = Total(OwnRefused(RefusedRow(e)))
                   /\ RefusedRow(e).time = Bucket(e.at) /\ RefusedRow(e).code = e.code
  <2> TAKE e \in E
  <2>1. RefusedRow(e).time = Bucket(e.at) /\ RefusedRow(e).code = e.code
    BY DEF RefusedRow
  <2>2. OwnRefused(RefusedRow(e)) = {d \in E : Bucket(d.at) = Bucket(e.at) /\ d.code = e.code}
    BY <2>1 DEF OwnRefused
  <2> QED  BY <2>1, <2>2 DEF RefusedRow
<1>3. Exceptions = {RefusedRow(e) : e \in E}
  BY ExceptionsRows
<1>4. \A r \in Exceptions : /\ r.count = Total(OwnRefused(r)) /\ OwnRefused(r) \in SUBSET E
                            /\ \A e \in OwnRefused(r) : r = RefusedRow(e)
  <2>1. ASSUME NEW d \in E, NEW e \in OwnRefused(RefusedRow(d)) PROVE RefusedRow(d) = RefusedRow(e)
    <3>1. Bucket(d.at) = Bucket(e.at) /\ d.code = e.code
      BY <1>2 DEF OwnRefused
    <3> QED  BY <3>1 DEF RefusedRow
  <2>2. \A r : OwnRefused(r) \in SUBSET E
    BY DEF OwnRefused
  <2> HIDE DEF E
  <2> QED  BY <1>2, <1>3, <2>1, <2>2
<1>5. Countable(Exceptions)
  <2> DEFINE f == [e \in E |-> RefusedRow(e)]
  <2>1. f \in Surjection(E, Exceptions)
    BY <1>3 DEF Surjection
  <2>2. IsFiniteSet(Exceptions)
    <3> HIDE DEF f, E
    <3> QED  BY <1>1, <2>1, FS_Surjection DEF Countable
  <2>3. \A r \in Exceptions : r.count \in Nat
    <3> TAKE r \in Exceptions
    <3>1. Countable(OwnRefused(r))
      BY <1>1, <1>4, CountableSubset
    <3> QED  BY <1>4, <3>1, TotalOf
  <2> QED  BY <2>2, <2>3 DEF Countable
<1> DEFINE own == [r \in R |-> OwnRefused(r)]
           covered == {e \in E : \E r \in R : e \in OwnRefused(r)}
<1>6. own \in [R -> SUBSET E]
  BY <1>4
<1>7. \A g \in R : g.count = Total(own[g])
  BY <1>4
<1>8. \A g, h \in R : g # h => own[g] \cap own[h] = {}
  BY <1>4
<1>9. UNION {own[g] : g \in R} = covered
  BY <1>4
<1>10. Countable(R)
  BY <1>5, CountableSubset
<1>11. Total(R) = Total(covered)
  <2> HIDE DEF own, E, covered
  <2>1. Total(R) = Total(UNION {own[g] : g \in R})
    BY <1>1, <1>6, <1>7, <1>8, <1>10, TotalOfGroups
  <2> QED  BY <1>9, <2>1
<1> QED  BY <1>11

\* What the rule counts lies between the refusals of the last hour, if they are
\* read, and those since the hour in which it began.
LEMMA RefusalsCounted ==
  ASSUME Listing(world), "exceptions" \in DOMAIN files, files.exceptions = Exceptions
  PROVE  /\ Total(ExceptionsByHour(Hour, {202})) \in Nat
         /\ Refusals(Clock - Hour, Clock) \in Nat
         /\ Refusals(Clock - 2 * Hour, Ends) \in Nat
         /\ Begins(Day) <= Clock - Hour
              => Refusals(Clock - Hour, Clock) <= Total(ExceptionsByHour(Hour, {202}))
         /\ Total(ExceptionsByHour(Hour, {202})) <= Refusals(Clock - 2 * Hour, Ends)
<1> DEFINE K == Known(world.refused)
           E == Selected(world.refused, Day)
           R == ExceptionsByHour(Hour, {202})
           counted == {e \in E : \E r \in R : e \in OwnRefused(r)}
           last == {e \in K : e.code = 202 /\ e.at > Clock - Hour /\ e.at <= Clock}
           since == {e \in K : e.code = 202 /\ e.at > Clock - 2 * Hour /\ e.at <= Ends}
<1>1. R = {r \in Exceptions : r.code = 202 /\ r.time + Hour > Clock - Hour /\ r.time <= Clock}
  BY InDay DEF ExceptionsByHour
<1>2. Total(R) = Total(counted)
  BY <1>1, RefusedRows
<1>3. /\ Refusals(Clock - Hour, Clock) = Total(last)
      /\ Refusals(Clock - 2 * Hour, Ends) = Total(since)
  BY SumIsTotal DEF Refusals
<1>4. \A e \in E : /\ e.at \in Int /\ e.at <= Ends /\ Bucket(e.at) \in Int
                   /\ Bucket(e.at) <= e.at /\ e.at < Bucket(e.at) + Hour
  BY SelectedCounts, BucketOf DEF Selected
<1>5. Clock \in Int /\ Hour = 4 /\ Countable(K) /\ Begins(Day) \in Int
  BY ClockIs, KnownCounts, BeginsAt, ChecksAssumption DEF Hour
<1>6. \A e \in E : \E r \in Exceptions : e \in OwnRefused(r) /\ r.time = Bucket(e.at) /\ r.code = e.code
  <2> TAKE e \in E
  <2>1. RefusedRow(e) \in Exceptions
    BY ExceptionsRows
  <2>2. RefusedRow(e).time = Bucket(e.at) /\ RefusedRow(e).code = e.code
    BY DEF RefusedRow
  <2> QED  BY <2>1, <2>2 DEF OwnRefused
<1>7. \A r, e : e \in OwnRefused(r) => e \in E /\ Bucket(e.at) = r.time /\ e.code = r.code
  BY DEF OwnRefused
<1>8. E = {e \in K : Begins(Day) < e.at}
  BY SelectedOfKnown
<1>9. \A e \in K : e.at \in Int
  BY KnownCounts
<1> HIDE DEF E, K
<1>10. ASSUME Begins(Day) <= Clock - Hour PROVE last \in SUBSET counted
  <2> SUFFICES ASSUME NEW e \in last PROVE e \in counted
    OBVIOUS
  <2>1. e \in E
    BY <1>5, <1>10, <1>8, <1>9
  <2>2. PICK r \in Exceptions : e \in OwnRefused(r) /\ r.time = Bucket(e.at) /\ r.code = 202
    BY <1>6, <2>1
  <2>3. r.time + Hour > Clock - Hour /\ r.time <= Clock
    BY <1>4, <1>5, <2>1, <2>2
  <2> QED  BY <1>1, <2>1, <2>2, <2>3
<1>11. counted \in SUBSET since
  <2> SUFFICES ASSUME NEW e \in counted PROVE e \in since
    OBVIOUS
  <2>1. PICK r \in R : e \in OwnRefused(r)
    OBVIOUS
  <2>2. r.code = 202 /\ r.time + Hour > Clock - Hour
    BY <1>1, <2>1
  <2>3. e \in E /\ Bucket(e.at) = r.time /\ e.code = 202
    BY <1>7, <2>1, <2>2
  <2>4. e.at > Clock - 2 * Hour /\ e.at <= Ends
    BY <1>4, <1>5, <2>2, <2>3
  <2> QED  BY <1>8, <2>3, <2>4
<1>12. since \in SUBSET K /\ counted \in SUBSET K /\ last \in SUBSET K
  BY <1>8
<1> HIDE DEF counted, last, since, R
<1>13. Countable(since) /\ Countable(counted) /\ Countable(last)
  BY <1>5, <1>12, CountableSubset
<1>14. /\ Begins(Day) <= Clock - Hour => Total(last) <= Total(counted)
       /\ Total(counted) <= Total(since)
  BY <1>10, <1>11, <1>13, TotalGrows
<1>15. Total(last) \in Nat /\ Total(counted) \in Nat /\ Total(since) \in Nat
  BY <1>13, TotalOf
<1> QED  BY <1>2, <1>3, <1>14, <1>15 DEF R

LEMMA SameHours ==
  ASSUME world' = world, mode' = mode
  PROVE  /\ Clock' = Clock /\ Ends' = Ends
         /\ Queried(world.parts)' = Queried(world.parts)
         /\ \A window : Begins(window)' = Begins(window)
         /\ \A hour, window : Whole(hour, window)' <=> Whole(hour, window)
         /\ \A host, hour : New(host, hour)' = New(host, hour)
         /\ \A host, hour : Stalled(host, hour)' <=> Stalled(host, hour)
         /\ \A since, until : Refusals(since, until)' = Refusals(since, until)
<1>1. /\ Clock' = Clock /\ Ends' = Ends
      /\ Queried(world.parts)' = Queried(world.parts)
      /\ Known(world.parts)' = Known(world.parts) /\ Known(world.refused)' = Known(world.refused)
  BY DEF Clock, Queried, Known, Ends
<1>2. \A window : Begins(window)' = Begins(window)
  BY DEF Begins
<1>3. \A hour, window : Whole(hour, window)' <=> Whole(hour, window)
  BY <1>2 DEF Whole
<1>4. \A since, until : Refusals(since, until)' = Refusals(since, until)
  BY <1>1 DEF Refusals
<1>5. \A host, hour : New(host, hour)' = New(host, hour) /\ Merged(host, hour)' = Merged(host, hour)
  BY <1>1 DEF New, Merged
<1>6. \A host, hour : Stalled(host, hour)' <=> Stalled(host, hour)
  BY <1>5 DEF Stalled
<1> QED  BY <1>1, <1>2, <1>3, <1>4, <1>5, <1>6

LEMMA RunSurfacesHours ==
  ASSUME FilesInv, RulesRun
  PROVE  HoursSurface'
<1>1. world' = world /\ mode' = mode
  BY DEF RulesRun
<1>2. /\ Clock' = Clock /\ Ends' = Ends
      /\ Queried(world.parts)' = Queried(world.parts)
      /\ \A window : Begins(window)' = Begins(window)
      /\ \A hour, window : Whole(hour, window)' <=> Whole(hour, window)
      /\ \A host, hour : New(host, hour)' = New(host, hour)
      /\ \A host, hour : Stalled(host, hour)' <=> Stalled(host, hour)
      /\ \A since, until : Refusals(since, until)' = Refusals(since, until)
  BY <1>1, SameHours
<1>3. ASSUME NEW e \in Queried(world.parts), NEW hour, hour = Bucket(e.at),
             Stalled(e.host, hour), Whole(hour, 3 * Day), hour + Hour > Clock - Day, hour <= Clock
      PROVE  Says("merges_stalled", [host |-> e.host, time |-> hour])'
  <2>1. CASE "part_log" \notin DOMAIN files
    <3>1. Needs({"part_log"}, MergesStalled).state = "skipped"
      BY <2>1, NeedsFile
    <3>2. found'["merges_stalled"].state = "skipped"
      BY <3>1, WhatIsFound
    <3> QED  BY <3>2 DEF Says
  <2>2. CASE "part_log" \in DOMAIN files
    <3>1. e.at \in Int
      BY DEF FilesInv, Queried, Listing
    <3>2. hour \in Int
      BY <1>3, <3>1, BucketOf
    <3>3. ReadStalled(e.host, hour)
      BY <1>3, <3>2, ReadHours DEF FilesInv
    <3>4. [host |-> e.host, time |-> hour] \in MergesStalled
      BY <1>3, <2>2, <3>3, StalledHours DEF FilesInv
    <3>5. Needs({"part_log"}, MergesStalled).rows = MergesStalled
      BY <2>2, NeedsFile
    <3>6. found'["merges_stalled"].rows = MergesStalled
      BY <3>5, WhatIsFound
    <3> QED  BY <3>4, <3>6 DEF Says
  <2> QED  BY <2>1, <2>2
<1>4. ASSUME NEW k \in found'["merges_stalled"].rows
      PROVE  /\ New(k.host, k.time) > Busy /\ k.time + Hour > Clock - Day
             /\ Whole(k.time, 3 * Day) => Stalled(k.host, k.time)
  <2>1. found'["merges_stalled"] = Needs({"part_log"}, MergesStalled)
    BY WhatIsFound
  <2>2. "part_log" \in DOMAIN files /\ k \in MergesStalled
    BY <1>4, <2>1 DEF Needs, NotApplicable, Found, Outcome
  <2>3. k.time \in Int /\ ReadStalled(k.host, k.time) /\ k.time + Hour > Clock - Day
    BY <2>2, StalledHours DEF FilesInv
  <2> QED  BY <2>3, ReadHours DEF FilesInv
<1>5. /\ Refusals(Clock - Hour, Clock) > Refused /\ Begins(Day) <= Clock - Hour
         => found'["too_many_simultaneous_queries"].state # "clean"
      /\ found'["too_many_simultaneous_queries"].state = "fired"
         => Refusals(Clock - 2 * Hour, Ends) > Refused
  <2> DEFINE n == Total(ExceptionsByHour(Hour, {202}))
             rows == TooManySimultaneous
  <2>1. found'["too_many_simultaneous_queries"] = Needs({"exceptions"}, rows)
    BY WhatIsFound
  <2>2. CASE "exceptions" \notin DOMAIN files
    <3>1. Needs({"exceptions"}, rows).state = "skipped"
      BY <2>2, NeedsFile
    <3> QED  BY <2>1, <3>1
  <2>3. CASE "exceptions" \in DOMAIN files
    <3>1. rows # {} <=> n > Refused
      BY DEF TooManySimultaneous
    <3>2. Needs({"exceptions"}, rows).state = IF rows = {} THEN "clean" ELSE "fired"
      BY <2>3 DEF Needs, Found, Outcome
    <3>3. /\ n \in Nat /\ Refusals(Clock - Hour, Clock) \in Nat
          /\ Refusals(Clock - 2 * Hour, Ends) \in Nat
          /\ Begins(Day) <= Clock - Hour => Refusals(Clock - Hour, Clock) <= n
          /\ n <= Refusals(Clock - 2 * Hour, Ends)
      BY <2>3, RefusalsCounted DEF FilesInv
    <3>4. Refused \in Nat
      BY ChecksAssumption
    <3> HIDE DEF n, rows
    <3>5. /\ Refusals(Clock - Hour, Clock) > Refused /\ Begins(Day) <= Clock - Hour => rows # {}
          /\ rows # {} => Refusals(Clock - 2 * Hour, Ends) > Refused
      BY <3>1, <3>3, <3>4
    <3> QED  BY <2>1, <3>2, <3>5
  <2> QED  BY <2>2, <2>3
<1>6. StalledHoursSurface'
  <2>1. \A e \in Queried(world.parts) : LET hour == Bucket(e.at) IN
          /\ Stalled(e.host, hour) /\ Whole(hour, 3 * Day)
          /\ hour + Hour > Clock - Day /\ hour <= Clock
          => Says("merges_stalled", [host |-> e.host, time |-> hour])'
    BY <1>3
  <2> QED  BY <1>1, <1>2, <1>4, <2>1 DEF StalledHoursSurface
<1>7. RefusalsSurface'
  BY <1>1, <1>2, <1>5 DEF RefusalsSurface
<1> QED  BY <1>6, <1>7 DEF HoursSurface

\* Whatever happened and when, and whatever -from, -to and the mode make of the
\* collectors' windows: no stalled hour that is read in full and no burst of
\* refusals that is read is missed at the edge of a rule's window, none is made
\* up, and what is older does not count (checkMergesStalled,
\* checkTooManySimultaneous, inWindow).
THEOREM NothingIsCutOff == ChecksSpec => []HoursSurface
<1>1. ChecksInit => HoursSurface
  BY DEF ChecksInit, HoursSurface, Done
<1>2. ASSUME FilesInv, HoursSurface, [ChecksNext]_checkVars
      PROVE  HoursSurface'
  <2>1. CASE RulesRun
    BY <1>2, <2>1, RunSurfacesHours
  <2>2. CASE UNCHANGED <<world, mode, lost, found>>
    <3>1. /\ Clock' = Clock /\ Ends' = Ends
          /\ Queried(world.parts)' = Queried(world.parts)
          /\ \A window : Begins(window)' = Begins(window)
          /\ \A hour, window : Whole(hour, window)' <=> Whole(hour, window)
          /\ \A host, hour : New(host, hour)' = New(host, hour)
          /\ \A host, hour : Stalled(host, hour)' <=> Stalled(host, hour)
          /\ \A since, until : Refusals(since, until)' = Refusals(since, until)
      BY <2>2, SameHours
    <3>2. StalledHoursSurface' <=> StalledHoursSurface
      BY <2>2, <3>1 DEF StalledHoursSurface, Says
    <3>3. RefusalsSurface' <=> RefusalsSurface
      BY <2>2, <3>1 DEF RefusalsSurface
    <3> QED  BY <1>2, <2>2, <3>2, <3>3 DEF HoursSurface, Done
  <2> QED  BY <1>2, <2>1, <2>2, NothingFound
<1> QED  BY InitFiles, NextFiles, <1>1, <1>2, PTL DEF ChecksSpec

-----------------------------------------------------------------------------
(* The sizes of the pools, and the ids of the sessions.                    *)

\* What the rules read of the metrics is what was there.
MetricsInv ==
  /\ Measured(world, mode)
  /\ "metric_log" \in DOMAIN files => files.metric_log = Queried(world.hours)
  /\ "connection" \in DOMAIN files => files.connection = Queried(world.sessions)
  /\ "settings" \in DOMAIN files => files.settings = {[setting |-> world.settings]}
  /\ "server_settings" \in DOMAIN files => files.server_settings = {[setting |-> world.serverSettings]}

LEMMA InitMetrics == ChecksInit => MetricsInv
<1> SUFFICES ASSUME ChecksInit PROVE MetricsInv
  OBVIOUS
<1>1. files = <<>> /\ DOMAIN files = {}
  BY DEF ChecksInit
<1>2. Measured(world, mode)
  BY ChecksAssumption DEF ChecksInit
<1> QED  BY <1>1, <1>2 DEF MetricsInv

LEMMA NextMetrics ==
  ASSUME MetricsInv, [ChecksNext]_checkVars
  PROVE  MetricsInv'
<1>1. ASSUME UNCHANGED <<world, mode, files>> PROVE MetricsInv'
  BY <1>1 DEF MetricsInv, Queried
<1>2. CASE Collect
  <2>1. world' = world /\ mode' = mode
    BY <1>2 DEF Collect
  <2>2. PICK answers : files' = Written(answers)
    BY <1>2 DEF Collect
  <2>3. \A f \in DOMAIN files' : f \in DOMAIN Sets => files'[f] = Sets[f]
    BY <2>2 DEF Written
  <2>4. /\ {"metric_log", "connection", "settings", "server_settings"} \subseteq DOMAIN Sets
        /\ Sets["metric_log"] = Queried(world.hours) /\ Sets["connection"] = Queried(world.sessions)
        /\ Sets["settings"] = {[setting |-> world.settings]}
        /\ Sets["server_settings"] = {[setting |-> world.serverSettings]}
    BY DEF Sets
  <2>6. Queried(world.hours)' = Queried(world.hours) /\ Queried(world.sessions)' = Queried(world.sessions)
    BY <2>1 DEF Queried
  <2>7. /\ "metric_log" \in DOMAIN files' => files'["metric_log"] = Queried(world.hours)
        /\ "connection" \in DOMAIN files' => files'["connection"] = Queried(world.sessions)
        /\ "settings" \in DOMAIN files' => files'["settings"] = {[setting |-> world.settings]}
        /\ "server_settings" \in DOMAIN files'
             => files'["server_settings"] = {[setting |-> world.serverSettings]}
    BY <2>3, <2>4
  <2>8. Measured(world', mode')
    BY <2>1 DEF MetricsInv
  <2> QED  BY <2>1, <2>6, <2>7, <2>8 DEF MetricsInv
<1>3. CASE Evaluate
  BY <1>1, <1>3 DEF Evaluate
<1>4. CASE UNCHANGED checkVars
  BY <1>1, <1>4 DEF checkVars
<1> QED  BY <1>2, <1>3, <1>4 DEF ChecksNext

\* The hours that a rule reads of a host are those of its last day.
LEMMA HoursOfDay ==
  ASSUME MetricsInv, Listing(world), "metric_log" \in DOMAIN files,
         NEW host, mode = "cloud" \/ host = "a"
  PROVE  {h \in MetricHours(Day) : h.host = host} = LastDay(host)
<1>1. files.metric_log = Queried(world.hours)
  BY DEF MetricsInv
<1>2. \A h \in world.hours : InWindow(h.time, Day) <=> h.time + Hour > Clock - Day /\ h.time <= Clock
  BY InDay
<1> QED  BY <1>1, <1>2 DEF MetricHours, Queried, LastDay

\* A pool is as large as it is, in whatever file its size is.
LEMMA SizeIsFound ==
  ASSUME MetricsInv, Listing(world), "metric_log" \in DOMAIN files,
         NeedsSettings => SettingsFile \in DOMAIN files, NEW g \in MetricHours(Day)
  PROVE  PoolSize(g.host) = world.pool[g.host]
<1> DEFINE pool == world.pool[g.host]
           own == {h \in MetricHours(Day) : h.host = g.host}
           sizes == {0} \cup {h.size : h \in own}
<1>1. MetricHours(Day) \subseteq world.hours
  BY DEF MetricHours, MetricsInv, Queried
<1>2. /\ pool \in Nat \ {0}
      /\ \A h \in own : h.size \in {0, pool}
      /\ \/ mode = "cloud" /\ g.size = pool
         \/ pool = IF mode = "cloud" \/ world.recent THEN world.serverSettings ELSE world.settings
  BY <1>1 DEF MetricsInv, Measured
<1>3. IsFiniteSet(sizes)
  <2>1. IsFiniteSet(own)
    BY <1>1, FS_Subset DEF MetricsInv, Measured
  <2>2. IsFiniteSet({h.size : h \in own})
    <3> HIDE DEF own
    <3> DEFINE f == [h \in own |-> h.size]
    <3>1. f \in Surjection(own, {h.size : h \in own})
      BY DEF Surjection
    <3> HIDE DEF f
    <3> QED  BY <2>1, <3>1, FS_Surjection
  <2>3. IsFiniteSet({0})
    BY FS_Singleton
  <2> HIDE DEF own
  <2> QED  BY <2>2, <2>3, FS_Union
<1>4. g \in own /\ g.size \in sizes /\ 0 \in sizes /\ sizes \subseteq {0, pool}
  BY <1>2
<1> HIDE DEF sizes
<1>5. Max(sizes) \in {0, pool} /\ Max(sizes) >= g.size /\ Max(sizes) \in Nat
  <2>1. sizes \subseteq Int /\ sizes # {}
    BY <1>2, <1>4
  <2>2. Max(sizes) \in sizes /\ Max(sizes) >= g.size
    BY <1>3, <1>4, <2>1, MaxIsGreatest
  <2>3. Max(sizes) \in {0, pool} /\ pool \in Nat
    BY <1>2, <1>4, <2>2
  <2> HIDE DEF pool
  <2> QED  BY <2>2, <2>3
<1>6. LiveSize(g.host) = IF mode # "cloud" THEN 0 ELSE Max(sizes)
  BY DEF LiveSize, sizes
<1>7. CASE LiveSize(g.host) # 0
  BY <1>5, <1>6, <1>7 DEF PoolSize
<1>8. CASE LiveSize(g.host) = 0
  <2>1. NeedsSettings
    BY <1>8 DEF NeedsSettings
  <2>2. pool = IF mode = "cloud" \/ world.recent THEN world.serverSettings ELSE world.settings
    <3>1. ~(mode = "cloud" /\ g.size = pool)
      <4> HIDE DEF pool
      <4> QED  BY <1>2, <1>5, <1>6, <1>8
    <3> QED  BY <1>2, <3>1
  <2>3. files[SettingsFile] = {[setting |-> pool]}
    <3>1. CASE mode = "cloud" \/ world.recent
      BY <2>1, <2>2, <3>1 DEF SettingsFile, MetricsInv
    <3>2. CASE ~(mode = "cloud" \/ world.recent)
      BY <2>1, <2>2, <3>2 DEF SettingsFile, MetricsInv
    <3> QED  BY <3>1, <3>2
  <2> HIDE DEF pool
  <2>4. {0} \cup {r.setting : r \in files[SettingsFile]} = {0, pool}
    BY <2>3
  <2>5. Max({0, pool}) = pool
    <3>1. pool \in {0, pool} /\ \A y \in {0, pool} : pool >= y
      BY <1>2
    <3>2. \A x \in {0, pool} : (\A y \in {0, pool} : x >= y) => x = pool
      BY <1>2
    <3> QED  BY <3>1, <3>2 DEF Max
  <2>6. PoolSize(g.host) = Max({0} \cup {r.setting : r \in files[SettingsFile]})
    BY <1>8, <2>1 DEF PoolSize
  <2>7. PoolSize(g.host) = pool
    BY <2>4, <2>5, <2>6
  <2> QED  BY <2>7 DEF pool
<1> QED  BY <1>7, <1>8

\* A pool that was full for three hours is found, and no other.
LEMMA FullPools ==
  ASSUME MetricsInv, Listing(world), "metric_log" \in DOMAIN files,
         NeedsSettings => SettingsFile \in DOMAIN files,
         NEW g \in Queried(world.hours), LastDay(g.host) # {}
  PROVE  Cardinality({h \in LastDay(g.host) : 10 * h.tasks >= 9 * world.pool[g.host]}) >= 3
           <=> g.host \in PoolSaturated
<1> DEFINE host == g.host
           full == {h \in MetricHours(Day) : /\ h.host = host
                                             /\ PoolSize(host) > 0 /\ 10 * h.tasks >= 9 * PoolSize(host)}
<1>1. mode = "cloud" \/ host = "a"
  BY DEF Queried
<1>2. {h \in MetricHours(Day) : h.host = host} = LastDay(host)
  BY <1>1, HoursOfDay
<1>3. PICK last \in MetricHours(Day) : last.host = host
  BY <1>2
<1>4. PoolSize(host) = world.pool[host]
  BY <1>3, SizeIsFound
<1>5. world.pool[host] \in Nat \ {0}
  BY DEF MetricsInv, Measured, Queried
<1>6. full = {h \in LastDay(host) : 10 * h.tasks >= 9 * world.pool[host]}
  <2>1. full = {h \in MetricHours(Day) : h.host = host /\ 10 * h.tasks >= 9 * world.pool[host]}
    BY <1>4, <1>5
  <2> QED  BY <1>2, <2>1
<1>7. host \in PoolSaturated <=> Cardinality(full) >= 3
  BY <1>3 DEF PoolSaturated
<1> QED  BY <1>6, <1>7

LEMMA SteadySum ==
  ASSUME NEW S, IsFiniteSet(S), NEW rate \in Nat, \A h \in S : h.tx = rate
  PROVE  SumOf("tx", S) = rate * Cardinality(S)
<1> DEFINE sum == [T \in SUBSET S |-> rate * Cardinality(T)]
           tx == [r \in S |-> r["tx"]]
<1>1. \A T \in SUBSET S : IsFiniteSet(T) /\ Cardinality(T) \in Nat
  BY FS_Subset, FS_CardinalityType
<1>2. \A n \in Nat : rate * n \in Int /\ rate * 0 = 0 /\ rate * n = rate + rate * (n - 1)
  OBVIOUS
<1>3. sum[{}] = 0
  BY <1>2, FS_EmptySet
<1>4. sum \in [SUBSET S -> Int]
  BY <1>1, <1>2
<1>5. ASSUME NEW T \in SUBSET S, NEW x \in T PROVE sum[T] = tx[x] + sum[T \ {x}]
  <2>1. Cardinality(T \ {x}) = Cardinality(T) - 1
    BY <1>1, FS_RemoveElement
  <2>2. tx[x] = rate
    OBVIOUS
  <2>3. rate * Cardinality(T) = rate + rate * (Cardinality(T) - 1)
    BY <1>1, <1>2
  <2> QED  BY <2>1, <2>2, <2>3
<1>6. Adds(sum, tx, S)
  <2> HIDE DEF sum, tx
  <2> QED  BY <1>3, <1>4, <1>5 DEF Adds
<1>7. SumOf("tx", S) = sum[S]
  <2> HIDE DEF sum
  <2> QED  BY <1>6, SumOfIsSum
<1> QED  BY <1>7

LEMMA Scaled ==
  ASSUME NEW a \in Int, NEW b \in Int, NEW n \in Nat, n > 0
  PROVE  a * n < b * n <=> a < b
<1>1. \A x \in Int : x > 0 <=> x * n > 0
  OBVIOUS
<1>2. (b - a) * n = b * n - a * n
  OBVIOUS
<1> QED  BY <1>1, <1>2

\* Ids run out within a day at the rate of a whole number of hours if and only
\* if they do so at the rate of one.
LEMMA RunsOut ==
  ASSUME NEW left \in Int, NEW rate \in Nat, NEW n \in Nat, n > 0
  PROVE  left * (Hour * n) < Day * (rate * n) <=> left < rate * (Day \div Hour)
<1>1. Day \in Nat /\ Day % Hour = 0 /\ Hour = 4
  BY ChecksAssumption DEF Hour
<1>2. PICK k \in Int : k = Day \div Hour /\ Day = 4 * k
  BY <1>1
<1>3. left * (Hour * n) = (4 * left) * n /\ Day * (rate * n) = (4 * (rate * k)) * n
  BY <1>1, <1>2
<1>4. (4 * left) * n < (4 * (rate * k)) * n <=> 4 * left < 4 * (rate * k)
  BY <1>2, Scaled
<1> QED  BY <1>1, <1>2, <1>3, <1>4

LEMMA SameLimits ==
  ASSUME world' = world, mode' = mode
  PROVE  /\ \A host : LastDay(host)' = LastDay(host)
         /\ \A s, rate : Steady(s, rate)' <=> Steady(s, rate)
         /\ Queried(world.hours)' = Queried(world.hours)
         /\ Queried(world.sessions)' = Queried(world.sessions)
<1>1. \A host : LastDay(host)' = LastDay(host)
  BY SameHours DEF LastDay
<1>2. \A s, rate : Steady(s, rate)' <=> Steady(s, rate)
  BY <1>1 DEF Steady
<1>3. /\ Queried(world.hours)' = Queried(world.hours)
      /\ Queried(world.sessions)' = Queried(world.sessions)
  BY DEF Queried
<1> QED  BY <1>1, <1>2, <1>3

\* The renewal of a session is announced if its ids run out within a day.
LEMMA SteadyRenewal ==
  ASSUME MetricsInv, Listing(world), {"connection", "metric_log"} \subseteq DOMAIN files,
         NEW s \in Queried(world.sessions), NEW rate \in {h.tx : h \in LastDay(s.host)},
         Steady(s, rate)
  PROVE  s.host \in XidRenewalDue <=> s.xid + rate * (Day \div Hour) > XidMax
<1> DEFINE host == s.host
           live == {c \in files.connection : c.host = host /\ ~c.expired}
           hours == {h \in MetricHours(Day) : h.host = host}
           tx == SumOf("tx", hours)
           covered == Max({h.last : h \in hours}) - Min({h.first : h \in hours})
           n == Cardinality(hours)
<1>1. s \in world.sessions /\ (mode = "cloud" \/ host = "a") /\ s \in files.connection
  BY DEF Queried, MetricsInv
<1>2. live = {s}
  BY <1>1 DEF Steady, MetricsInv, Queried
<1>3. Cardinality(live) = 1
  BY <1>2, FS_Singleton
<1>4. hours = LastDay(host)
  BY <1>1, HoursOfDay
<1>5. IsFiniteSet(hours) /\ n \in Nat
  BY <1>4, FS_Subset, FS_CardinalityType DEF LastDay, MetricsInv, Measured
<1>6. rate \in Nat /\ rate > 0 /\ n >= 2 /\ covered = Hour * n /\ \A h \in hours : h.tx = rate
  <2>1. rate \in Nat
    BY DEF LastDay, MetricsInv, Measured
  <2> QED  BY <1>4, <2>1 DEF Steady
<1>7. tx = rate * n
  BY <1>5, <1>6, SteadySum
<1>8. hours # {}
  BY <1>5, <1>6, FS_EmptySet
<1>9. s.xid \in Int /\ s.xid > 0 /\ s.xid < XidMax /\ XidMax \in Nat
  BY <1>1, ChecksAssumption DEF Steady, MetricsInv, Measured
<1>10. host \in XidRenewalDue <=>
         /\ Cardinality(live) = 1 /\ hours # {} /\ covered >= 2 * Hour /\ tx > 0
         /\ \E c \in live : /\ c.xid > 0 /\ c.xid < XidMax
                            /\ (XidMax - c.xid) * covered < Day * tx
  BY <1>1 DEF XidRenewalDue
<1>11. covered >= 2 * Hour /\ tx > 0
  <2>1. Hour * n >= 2 * Hour
    BY <1>5, <1>6 DEF Hour
  <2>2. rate * n > 0
    BY <1>5, <1>6
  <2> QED  BY <1>6, <1>7, <2>1, <2>2
<1>12. host \in XidRenewalDue <=> (XidMax - s.xid) * (Hour * n) < Day * (rate * n)
  <2> HIDE DEF live, hours, tx, covered, n
  <2> QED  BY <1>2, <1>3, <1>6, <1>7, <1>8, <1>9, <1>10, <1>11
<1> HIDE DEF n
<1>13. (XidMax - s.xid) * (Hour * n) < Day * (rate * n) <=> XidMax - s.xid < rate * (Day \div Hour)
  <2> DEFINE left == XidMax - s.xid
  <2>1. left \in Int /\ rate \in Nat /\ n \in Nat /\ n > 0
    BY <1>5, <1>6, <1>9
  <2> HIDE DEF left
  <2>2. left * (Hour * n) < Day * (rate * n) <=> left < rate * (Day \div Hour)
    BY <2>1, RunsOut
  <2> QED  BY <2>2 DEF left
<1>14. Day \div Hour \in Int
  BY ChecksAssumption DEF Hour
<1>15. rate * (Day \div Hour) \in Int
  BY <1>6, <1>14
<1> QED  BY <1>9, <1>12, <1>13, <1>15

LEMMA RunSurfacesLimits ==
  ASSUME MetricsInv, FilesInv, RulesRun
  PROVE  LimitsSurface'
<1>1. world' = world /\ mode' = mode
  BY DEF RulesRun
<1>2. /\ \A host : LastDay(host)' = LastDay(host)
      /\ \A s, rate : Steady(s, rate)' <=> Steady(s, rate)
      /\ Queried(world.hours)' = Queried(world.hours)
      /\ Queried(world.sessions)' = Queried(world.sessions)
  BY <1>1, SameLimits
<1>3. Listing(world)
  BY DEF FilesInv
<1>4. ASSUME found'["pool_saturated"].state # "skipped",
             NEW g \in Queried(world.hours), LastDay(g.host) # {}
      PROVE  Cardinality({h \in LastDay(g.host) : 10 * h.tasks >= 9 * world.pool[g.host]}) >= 3
               <=> g.host \in found'["pool_saturated"].rows
  <2>1. found'["pool_saturated"] =
          IF "metric_log" \in DOMAIN files /\ ~NeedsSettings THEN Found(PoolSaturated)
          ELSE Needs({"metric_log", SettingsFile}, PoolSaturated)
    BY WhatIsFound
  <2>2. /\ "metric_log" \in DOMAIN files
        /\ NeedsSettings => SettingsFile \in DOMAIN files
        /\ found'["pool_saturated"].rows = PoolSaturated
    BY <1>4, <2>1 DEF Needs, NotApplicable, Found, Outcome
  <2> QED  BY <1>3, <1>4, <2>2, FullPools
<1>5. ASSUME found'["keeper_xid_renewal_due"].state # "skipped",
             NEW s \in Queried(world.sessions), NEW rate \in {h.tx : h \in LastDay(s.host)},
             Steady(s, rate)
      PROVE  s.host \in found'["keeper_xid_renewal_due"].rows
               <=> s.xid + rate * (Day \div Hour) > XidMax
  <2>1. found'["keeper_xid_renewal_due"] = Needs({"connection", "metric_log"}, XidRenewalDue)
    BY WhatIsFound
  <2>2. /\ {"connection", "metric_log"} \subseteq DOMAIN files
        /\ found'["keeper_xid_renewal_due"].rows = XidRenewalDue
    BY <1>5, <2>1 DEF Needs, NotApplicable, Found, Outcome
  <2> QED  BY <1>3, <1>5, <2>2, SteadyRenewal
<1>6. PoolsSurface'
  BY <1>1, <1>2, <1>4 DEF PoolsSurface
<1>7. RenewalsSurface'
  BY <1>1, <1>2, <1>5 DEF RenewalsSurface
<1> QED  BY <1>6, <1>7 DEF LimitsSurface

\* Whatever the metrics are and wherever the size of a pool is, a pool is found
\* if and only if it was nearly full for three hours, and so is a session at a
\* steady rate if and only if its ids run out within a day (poolSizes,
\* checkPoolSaturated, checkKeeperXid).
THEOREM LimitsAreSeen == ChecksSpec => []LimitsSurface
<1>1. ChecksInit => LimitsSurface
  BY DEF ChecksInit, LimitsSurface, Done
<1>2. ASSUME FilesInv, MetricsInv, LimitsSurface, [ChecksNext]_checkVars
      PROVE  LimitsSurface'
  <2>1. CASE RulesRun
    BY <1>2, <2>1, RunSurfacesLimits
  <2>2. CASE UNCHANGED <<world, mode, lost, found>>
    <3>1. /\ \A host : LastDay(host)' = LastDay(host)
          /\ \A s, rate : Steady(s, rate)' <=> Steady(s, rate)
          /\ Queried(world.hours)' = Queried(world.hours)
          /\ Queried(world.sessions)' = Queried(world.sessions)
      BY <2>2, SameLimits
    <3>2. PoolsSurface' <=> PoolsSurface
      BY <2>2, <3>1 DEF PoolsSurface
    <3>3. RenewalsSurface' <=> RenewalsSurface
      BY <2>2, <3>1 DEF RenewalsSurface
    <3> QED  BY <1>2, <2>2, <3>2, <3>3 DEF LimitsSurface, Done
  <2> QED  BY <1>2, <2>1, <2>2, NothingFound
<1> QED  BY InitFiles, NextFiles, InitMetrics, NextMetrics, <1>1, <1>2, PTL DEF ChecksSpec
=============================================================================
