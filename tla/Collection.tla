----------------------------- MODULE Collection -----------------------------
(***************************************************************************)
(* One collection: the load probe and the switch to gentle settings        *)
(* (cmd/collect_mode.go), the collectors one after the other               *)
(* (internal/query/executor.go) under the watchdog of CollectMode and with *)
(* the client of ClickHouseClient, and the requests main sends after them. *)
(*                                                                         *)
(* The program is sequential; what it races with is the server's clock.    *)
(* A request is two steps, the sending and the answer, and any amount of   *)
(* time up to the client's timeout passes between them.                    *)
(*                                                                         *)
(* Left out: the text of the queries and of the results (a result is its   *)
(* outcome), the console output, and dry-run.                              *)
(***************************************************************************)
EXTENDS CollectMode, ClickHouseClient, Sequences

CONSTANTS
  Collector,             \* the selected query files, as their positions by name
  GentleSettings,        \* the settings of an essential run, in their order
  EssentialQueryTimeout, \* 30 s
  EssentialMargin,       \* 5 s
  Configs,               \* the invocations considered, a subset of ConfigType
  ProbeReplies,          \* the replies of the load probe considered
  Pauses,                \* the times the probe, and what follows it until Start, may take
  MaxWait                \* bound on a request that has no timeout

\* What the tier header of a query file says; a file without one is full.
Header == {"essential", "full", "typo", "unreadable", "empty"}

\* What the flags and the files on disk say.  later lists the requests main
\* sends after the collectors.
Later == {"text_log", "analysis", "zookeeper_connection", "gov_mapping"}

GentleSetting == {GentleSettings[i] : i \in 1..Len(GentleSettings)}

\* refused: the gentle settings the user's settings profile constrains.
ConfigType ==
  [requested : Mode, budget : Nat, queryTimeout : Nat, timeoutExplicit : BOOLEAN,
   header : [Collector -> Header], needsKeeper : [Collector -> BOOLEAN],
   refused : SUBSET GentleSetting, later : Seq(Later)]

\* limits: LimitsQuery answered; the four numbers are what it and the probe
\* read of the server's limits and memory.
ProbeReplyType ==
  [failed : BOOLEAN, signals : Signals, limits : BOOLEAN,
   maxConcurrent : Nat, memoryLimit : Nat, ratio : Nat, ram : Nat]

ASSUME CollectionAssumption ==
  /\ Collector \subseteq Nat \ {0}
  /\ GentleSettings \in Seq(STRING)
  /\ EssentialQueryTimeout \in Nat \ {0}
  /\ EssentialMargin \in Nat \ {0}
  /\ EssentialQueryTimeout <= DefaultQueryTimeout
  /\ EssentialMargin <= ClientTimeoutMargin
  /\ Configs \subseteq ConfigType
  /\ \A k \in Configs : ~k.timeoutExplicit => k.queryTimeout = DefaultQueryTimeout
  /\ ProbeReplies \subseteq ProbeReplyType
  /\ Pauses \subseteq Nat
  /\ MaxWait \in Nat

VARIABLES
  cfg,       \* this invocation
  stage,     \* where main is
  now,       \* the clock
  decision,  \* what Decide returned
  watch,     \* the watchdog
  client,    \* the client's timeouts and settings
  gentle,    \* how many gentle settings applyEssential has tried
  status,    \* per collector: its entry in the execution log
  file,      \* per collector: its result file
  inflight,  \* the collector's request on the wire, if any
  ran,       \* how the executed collectors went, in order: the log's times
  later      \* the requests main has still to send after the collectors

vars == <<cfg, stage, now, decision, watch, client, gentle, status, file,
          inflight, ran, later>>

Stage == {"probe", "applying", "armed", "collect", "after", "done"}

\* The last three are the reasons of a skipped entry.
Status == {"pending", "running", "ok", "empty", "failed",
           "over budget", "no keeper", "essential run"}

File == {"absent", "partial", "complete"}

\* No request on the wire.
Idle == [on |-> NoName, limit |-> 0, server |-> 0, capped |-> FALSE]

\* limit and server are the two timeouts it was sent with, capped says that
\* its windows were cut to EssentialLookback.
Request == [on : Collector \cup {NoName}, limit : Nat, server : Nat,
            capped : BOOLEAN]

Outcome == {"ok", "error", "timeout", "unsaved"}

Run == [slow : BOOLEAN, timedOut : BOOLEAN]

Init ==
  /\ cfg \in Configs
  /\ stage = "probe"
  /\ now = 1
  /\ decision = Decide(cfg.requested, ZeroSignals, FALSE)
  /\ watch = NewWatchdog(cfg.budget)
  /\ client = SetQueryTimeout(NewClickHouseClient, cfg.queryTimeout)
  /\ gentle = 0
  /\ status = [c \in Collector |-> "pending"]
  /\ file = [c \in Collector |-> "absent"]
  /\ inflight = Idle
  /\ ran = <<>>
  /\ later = cfg.later

-----------------------------------------------------------------------------
(* The files of the queries directory.                                     *)

\* ParseTier: an unknown tier is an error.
ParseTier(header) ==
  CASE header = "typo"  -> "error"
    [] header = "empty" -> "full"
    [] OTHER            -> header

\* orderByTier swallows that error, and a file it cannot read: both are full.
Tier(c) == IF ParseTier(cfg.header[c]) = "essential" THEN "essential" ELSE "full"

NeedsKeeper(c) == cfg.needsKeeper[c] /\ cfg.header[c] \notin {"unreadable", "empty"}

\* Mutant of Before: the collectors are sorted by name alone.
ByName(a, b) == a < b

Before(a, b) ==
  \/ Tier(a) = "essential" /\ Tier(b) # "essential"
  \/ Tier(a) = Tier(b) /\ a < b

\* The collector the loop of ExecuteQueries has reached.
IsNext(c) ==
  /\ stage = "collect"
  /\ inflight = Idle
  /\ status[c] = "pending"
  /\ \A b \in Collector \ {c} : status[b] = "pending" => Before(c, b)

-----------------------------------------------------------------------------
(* Requests.                                                               *)

\* How long a request may take.  With no timeout it may take any time.
Waits(limit) == IF limit > 0 THEN 0..limit ELSE 0..MaxWait

\* Mutant of Hasten: SetClientMargin is not called.
HastenServerOnly(c) ==
  IF cfg.timeoutExplicit THEN c ELSE SetQueryTimeout(c, EssentialQueryTimeout)

\* applyEssential, before its loop: the client first waits less.
Hasten(c) ==
  LET m == SetClientMargin(c, EssentialMargin) IN
  IF cfg.timeoutExplicit THEN m ELSE SetQueryTimeout(m, EssentialQueryTimeout)

\* setupCollection: the watchdog for what was requested.
SetupWatchdog(requested) ==
  IF requested = "full"
  THEN Locked(NewWatchdog(cfg.budget))
  ELSE WithTripBudget(NewWatchdog(cfg.budget), EssentialBudget)

\* The load probe, and the decision made from it.
Probe ==
  /\ stage = "probe"
  /\ \E r \in ProbeReplies, d \in Pauses :
       /\ now' = now + d
       /\ decision' = Decide(cfg.requested,
                             WithLimits(r.signals, r.limits, r.maxConcurrent,
                                        r.memoryLimit, r.ratio, r.ram),
                             r.failed)
  /\ watch' = SetupWatchdog(cfg.requested)
  /\ IF decision'.mode = "essential"
     THEN stage' = "applying" /\ client' = Hasten(client)
     ELSE stage' = "armed" /\ UNCHANGED client
  /\ UNCHANGED <<cfg, gentle, status, file, inflight, ran, later>>

\* One turn of applyEssential's loop: set the setting, send SELECT 1 with it,
\* and take it back when that fails.  It fails when the profile refuses the
\* setting, and may fail for any other reason.
TrySetting ==
  /\ stage = "applying"
  /\ gentle < Len(GentleSettings)
  /\ LET s == GentleSettings[gentle + 1]
         set == SetSetting(client, s)
     IN  \E d \in Waits(client.httpTimeout), answered \in BOOLEAN :
           /\ answered => s \notin cfg.refused
           /\ now' = now + d
           /\ client' = IF answered THEN set ELSE RemoveSetting(set, s)
  /\ gentle' = gentle + 1
  /\ UNCHANGED <<cfg, stage, decision, watch, status, file, inflight, ran, later>>

\* applyEssential returns: to main, which then trips the watchdog (no
\* callback is registered yet), or to the watchdog's callback.
EssentialApplied ==
  /\ stage = "applying"
  /\ gentle = Len(GentleSettings)
  /\ watch' = Trip(watch, now)
  /\ stage' = IF watch.tripped THEN "collect" ELSE "armed"
  /\ UNCHANGED <<cfg, now, decision, client, gentle, status, file, inflight, ran, later>>

\* watch.Start, after the flags are checked, the pre-flight lookups made and
\* the operator asked for the salt.
StartClock ==
  /\ stage = "armed"
  /\ \E d \in Pauses :
       /\ now' = now + d
       /\ watch' = Start(watch, now')
  /\ stage' = "collect"
  /\ UNCHANGED <<cfg, decision, client, gentle, status, file, inflight, ran, later>>

-----------------------------------------------------------------------------
(* One turn of the loop of ExecuteQueries.                                 *)

Record(c, s) == status' = [status EXCEPT ![c] = s]

\* Observe, with the callback it runs when the run becomes essential.
ObserveRun(c, d, timedOut, t) ==
  /\ watch' = Observe(watch, c, d, timedOut, t)
  /\ ran' = Append(ran, [slow |-> d >= SlowQuery, timedOut |-> timedOut])
  /\ IF watch'.tripped /\ ~watch.tripped
     THEN stage' = "applying" /\ gentle' = 0 /\ client' = Hasten(client)
     ELSE UNCHANGED <<stage, gentle, client>>

SkipOverBudget(c) ==
  /\ IsNext(c)
  /\ OverBudget(watch, now)
  /\ Record(c, "over budget")
  /\ UNCHANGED <<cfg, stage, now, decision, watch, client, gentle, file, inflight, ran, later>>

SkipNoKeeper(c) ==
  /\ IsNext(c)
  /\ ~OverBudget(watch, now)
  /\ decision.keeperDown /\ NeedsKeeper(c)
  /\ Record(c, "no keeper")
  /\ UNCHANGED <<cfg, stage, now, decision, watch, client, gentle, file, inflight, ran, later>>

SkipFullTier(c) ==
  /\ IsNext(c)
  /\ ~OverBudget(watch, now)
  /\ ~(decision.keeperDown /\ NeedsKeeper(c))
  /\ watch.tripped /\ Tier(c) # "essential"
  /\ Record(c, "essential run")
  /\ UNCHANGED <<cfg, stage, now, decision, watch, client, gentle, file, inflight, ran, later>>

\* Mutants of MayExecute: the budget is checked only before the loop; a
\* collector that waits for Keeper is executed like any other.
MayExecuteLate(c) ==
  /\ IsNext(c)
  /\ ~(decision.keeperDown /\ NeedsKeeper(c))
  /\ ~(watch.tripped /\ Tier(c) # "essential")

MayExecuteWithoutKeeper(c) ==
  /\ IsNext(c)
  /\ ~OverBudget(watch, now)
  /\ ~(watch.tripped /\ Tier(c) # "essential")

\* The three checks the loop makes before it executes a collector.
MayExecute(c) ==
  /\ IsNext(c)
  /\ ~OverBudget(watch, now)
  /\ ~(decision.keeperDown /\ NeedsKeeper(c))
  /\ ~(watch.tripped /\ Tier(c) # "essential")

\* The file cannot be read, a placeholder is left unbound, or the validator
\* refuses the text: nothing is sent, the collector is observed all the same.
FailLocally(c) ==
  /\ MayExecute(c)
  /\ cfg.header[c] # "empty"
  /\ Record(c, "failed")
  /\ ObserveRun(c, 0, FALSE, now)
  /\ UNCHANGED <<cfg, now, decision, file, inflight, later>>

EmptyFile(c) ==
  /\ MayExecute(c)
  /\ cfg.header[c] = "empty"
  /\ Record(c, "empty")
  /\ ObserveRun(c, 0, FALSE, now)
  /\ UNCHANGED <<cfg, now, decision, file, inflight, later>>

\* The query is bound (its window capped once the run is essential) and sent.
Send(c) ==
  /\ MayExecute(c)
  /\ cfg.header[c] \notin {"unreadable", "empty"}
  /\ Record(c, "running")
  /\ inflight' = [on |-> c, limit |-> client.httpTimeout,
                  server |-> client.queryTimeout, capped |-> watch.tripped]
  /\ UNCHANGED <<cfg, stage, now, decision, watch, client, gentle, file, ran, later>>

\* Mutant of Entry: the error of saving the file is dropped.
EntryUnsaved(outcome) == IF outcome \in {"ok", "unsaved"} THEN "ok" ELSE "failed"

\* How executeQuery records the end of a request.
Entry(outcome) == IF outcome = "ok" THEN "ok" ELSE "failed"

\* The answer, d after the sending; a request that reaches the client's
\* limit is a timeout.  A result that cannot be saved may leave part of its
\* file behind.
Answer(c) ==
  /\ inflight.on = c
  /\ \E d \in Waits(inflight.limit), outcome \in Outcome :
       /\ inflight.limit > 0 /\ d = inflight.limit => outcome = "timeout"
       /\ now' = now + d
       /\ Record(c, Entry(outcome))
       /\ file' \in CASE outcome = "ok"      -> {[file EXCEPT ![c] = "complete"]}
                      [] outcome = "unsaved" -> {file, [file EXCEPT ![c] = "partial"]}
                      [] OTHER               -> {file}
       /\ ObserveRun(c, d, outcome = "timeout", now + d)
  /\ inflight' = Idle
  /\ UNCHANGED <<cfg, decision, later>>

\* Mutant of CollectorsDone: the loop breaks where it should continue.
LoopBroken ==
  /\ stage = "collect"
  /\ inflight = Idle
  /\ OverBudget(watch, now) \/ \A c \in Collector : status[c] # "pending"
  /\ stage' = "after"
  /\ UNCHANGED <<cfg, now, decision, watch, client, gentle, status, file, inflight, ran, later>>

CollectorsDone ==
  /\ stage = "collect"
  /\ inflight = Idle
  /\ \A c \in Collector : status[c] # "pending"
  /\ stage' = "after"
  /\ UNCHANGED <<cfg, now, decision, watch, client, gentle, status, file, inflight, ran, later>>

-----------------------------------------------------------------------------
(* What main sends after the collectors: the text_log slice, the query     *)
(* analysis, the members of Keeper.  None of them looks at the budget.     *)

SendLater ==
  /\ stage = "after"
  /\ later # <<>>
  /\ ~(Head(later) = "zookeeper_connection" /\ decision.keeperDown)
  /\ \E d \in Waits(client.httpTimeout) : now' = now + d
  /\ later' = Tail(later)
  /\ UNCHANGED <<cfg, stage, decision, watch, client, gentle, status, file, inflight, ran>>

\* Without a Keeper session the member list is not read.
SkipLater ==
  /\ stage = "after"
  /\ later # <<>>
  /\ Head(later) = "zookeeper_connection" /\ decision.keeperDown
  /\ later' = Tail(later)
  /\ UNCHANGED <<cfg, stage, now, decision, watch, client, gentle, status, file, inflight, ran>>

Finish ==
  /\ stage = "after"
  /\ later = <<>>
  /\ stage' = "done"
  /\ UNCHANGED <<cfg, now, decision, watch, client, gentle, status, file, inflight, ran, later>>

\* The process has exited.
Exited == stage = "done" /\ UNCHANGED vars

-----------------------------------------------------------------------------

Execute(c) ==
  \/ SkipOverBudget(c)
  \/ SkipNoKeeper(c)
  \/ SkipFullTier(c)
  \/ FailLocally(c)
  \/ EmptyFile(c)
  \/ Send(c)

Main ==
  \/ Probe
  \/ TrySetting
  \/ EssentialApplied
  \/ StartClock
  \/ CollectorsDone
  \/ SendLater
  \/ SkipLater
  \/ Finish

Next ==
  \/ Main
  \/ \E c \in Collector : Execute(c) \/ Answer(c)
  \/ Exited

Spec == Init /\ [][Next]_vars

\* Every step of the program is taken, and an answer comes (or the timeout
\* does) as long as the client's requests are bounded.  A request without a
\* timeout may stay unanswered for ever, so nothing is assumed of it.
Bounded == client.httpTimeout > 0

Fairness ==
  /\ WF_vars(Bounded /\ Main)
  /\ WF_vars(\E c \in Collector : Execute(c))
  /\ WF_vars(Bounded /\ \E c \in Collector : Answer(c))

FairSpec == Spec /\ Fairness

-----------------------------------------------------------------------------
(* Properties.                                                             *)

Settled(c) == status[c] \notin {"pending", "running"}

DecisionType ==
  [mode : Mode, reasons : SUBSET Reason, large : BOOLEAN, keeperDown : BOOLEAN]

\* Every variable holds a value of its Go type, and a request on the wire is
\* a running collector's.
TypeOK ==
  /\ cfg \in Configs
  /\ stage \in Stage
  /\ now \in Nat \ {0}
  /\ decision \in DecisionType
  /\ watch \in WatchdogOver(Collector)
  /\ client \in ClientOver(GentleSetting)
  /\ gentle \in 0..Len(GentleSettings)
  /\ status \in [Collector -> Status]
  /\ file \in [Collector -> File]
  /\ inflight \in Request
  /\ ran \in Seq(Run)
  /\ later \in Seq(Later)
  /\ \A c \in Collector : status[c] = "running" <=> inflight.on = c

\* The client's limits, on a full and on an essential run.
FullLimit == cfg.queryTimeout + ClientTimeoutMargin
EssentialLimit ==
  (IF cfg.timeoutExplicit THEN cfg.queryTimeout ELSE EssentialQueryTimeout) + EssentialMargin

\* The budget is checked only between requests, so it is overrun, but by no
\* more than the one collector on the wire when it ran out and the SELECT 1
\* of each gentle setting when that collector made the run essential.
BudgetOverrunBounded ==
  /\ cfg.queryTimeout > 0
  /\ stage \in {"applying", "collect"}
  /\ watch.budget > 0 /\ watch.started > 0
  => now <= watch.started + watch.budget
              + FullLimit + Len(GentleSettings) * EssentialLimit

\* Nothing that happens before Start (the probe, gentle settings, prompts)
\* costs the collectors any of their budget, even when the run was made
\* essential up front and its budget was opened by that trip.
BudgetStartsWithCollectors ==
  /\ stage = "collect"
  /\ \A c \in Collector : status[c] = "pending"
  => ~OverBudget(watch, now)

\* Once the run is essential no collector's request leaves with the timeouts
\* or the windows of a full run, and before that none leaves with essential
\* ones: applyEssential is complete before the next Send, in both its uses.
GentleIffEssential ==
  inflight # Idle =>
    /\ inflight.capped = watch.tripped
    /\ watch.tripped => inflight.limit <= inflight.server + EssentialMargin
    /\ watch.tripped /\ ~cfg.timeoutExplicit => inflight.server = EssentialQueryTimeout
    /\ ~watch.tripped => /\ inflight.server = cfg.queryTimeout
                         /\ client.settings = {}

\* The server's limit always ends first, so a slow query fails with an error
\* of the server's and is not abandoned there; a run without a server limit
\* has none of its own either.
ClientOutlivesServer ==
  \/ client.queryTimeout = 0 /\ client.httpTimeout = 0
  \/ client.queryTimeout > 0 /\ client.httpTimeout > client.queryTimeout

\* A setting the user's profile refuses would make every later query fail:
\* none is on a collector's request.
RefusedSettingNeverSent ==
  inflight # Idle => client.settings \cap cfg.refused = {}

\* The execution log and the run directory agree: a whole file exactly for an
\* ok entry, a partial one only under a failed entry, none otherwise.
LogMatchesFiles ==
  \A c \in Collector :
    /\ status[c] = "ok" <=> file[c] = "complete"
    /\ file[c] = "partial" => status[c] = "failed"

\* -collect full is a promise: the run never becomes essential, whatever the
\* probe and the collectors say, and only its budget skips a collector that
\* does not wait for Keeper.
FullIsAPromise ==
  cfg.requested = "full" =>
    /\ ~watch.tripped
    /\ client.settings = {}
    /\ \A c \in Collector : status[c] # "essential run"

\* A full run of auto becomes essential exactly when a collector timed out
\* or two in a row were slow; a collector that was skipped between the two
\* does not break the row, one that failed at once does.
TripsExactlyOnTrouble ==
  decision.mode = "full" /\ cfg.requested # "full" /\ stage # "probe" =>
    watch.tripped <=>
      \/ \E i \in 1..Len(ran) : ran[i].timedOut
      \/ \E i \in 1..Len(ran) - 1 : ran[i].slow /\ ran[i + 1].slow

\* A server without a Keeper session is never asked anything that waits for
\* one, neither by a collector nor for the member list.
NoWaitForKeeper ==
  [][decision.keeperDown =>
       /\ \A c \in Collector : NeedsKeeper(c) => status'[c] # "running"
       /\ later' # later /\ Head(later) = "zookeeper_connection" => now' = now]_vars

\* The run ends, with every collector accounted for, unless the operator
\* asked for requests without a timeout.
Termination ==
  cfg.queryTimeout > 0 => <>(stage = "done" /\ \A c \in Collector : Settled(c))

-----------------------------------------------------------------------------
(* The refinement.                                                         *)

AbstractOutcome(s) ==
  CASE s = "ok"                                               -> "collected"
    [] s \in {"over budget", "no keeper", "essential run"}    -> "skipped"
    [] OTHER                                                  -> s

Promise == INSTANCE CollectionPromise WITH
  promised  <- cfg.requested = "full",
  tier      <- [c \in Collector |-> Tier(c)],
  essential <- watch.tripped,
  outcome   <- [c \in Collector |-> AbstractOutcome(status[c])]

\* The collection keeps its promise: one turn and one outcome per collector,
\* essential ones first, at most one switch to essential, and nothing of the
\* full tier started after it.
KeepsPromise == Promise!Spec

-----------------------------------------------------------------------------
(* What the documentation says and the code does not do.                   *)

\* tier.go: "an unknown value is an error, so a typo cannot make an essential
\* collector silently full".
TypoNeverSilentlyFull ==
  \A c \in Collector : cfg.header[c] = "typo" => status[c] # "essential run"

\* running.md: "a 3 min budget for the whole run ... what has not run by then
\* is skipped and listed".
BudgetCoversTheRun ==
  [][later' # later /\ now' > now => ~OverBudget(watch, now)]_vars
=============================================================================
