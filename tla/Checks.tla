--------------------------------- MODULE Checks ---------------------------------
(***************************************************************************)
(* The alert rules that read the collected files                           *)
(* (internal/alert/checks_*.go): what went on at the server, the files     *)
(* that the collectors make of it, and what each rule finds in them.       *)
(*                                                                         *)
(* A file is what its collector selects; one whose collector failed or was *)
(* skipped is missing.  The files of the logs count by the hour and are    *)
(* sets; the others are sequences, in the order in which the replicas      *)
(* answered.  Times are in quarters of an hour.  What a finding says of    *)
(* sizes and messages is left out, and so is that only the first 20, 24,   *)
(* 50 or 100 findings of a rule are kept.                                  *)
(***************************************************************************)
EXTENDS Integers, Sequences, FiniteSets, FiniteSetsExt, SequencesExt

CONSTANTS
  None,
  Servers,      \* servers, each with a mode and the collectors that fail
  Day, Week,  \* how far the rules look back: 24 hours, 7 days
  Busy,       \* new parts in an hour that should see a merge: 100
  Failing,    \* failures of one kind in an hour: 50
  Spiking,    \* queries that failed at Keeper in an hour: 20
  Refused,    \* queries that were refused in the last hour: 10
  Troubled,   \* hardware exceptions of Keeper in an hour: 1000
  Behind,     \* blocks a replica is behind: 32
  XidMax      \* 2^31 - 1

Hour == 4

\* Of what the server has: a replica lists a detached part once, and its path
\* is within the directory of its table.
Listing(w) ==
  /\ \A log \in {w.parts, w.refused} :
       IsFiniteSet(log) /\ \A e \in log : e.count \in Nat /\ e.at \in Int
  /\ IsFiniteSet(w.disks) /\ \A d \in w.disks : d.total \in Nat /\ d.free \in Nat
  /\ IsFiniteSet(w.tables) /\ IsFiniteSet(w.mutations) /\ IsFiniteSet(w.detached)
  /\ \A d, e \in w.detached : d.path = e.path => d.table = e.table /\ (d.host = e.host => d = e)
  /\ IsFiniteSet(w.blocks) /\ \A b \in w.blocks : b.block \in Nat /\ b.at \in Int
  /\ {w.collected, w.asked} \subseteq Int /\ {w.from, w.to} \subseteq Int \cup {None}

\* Of the metrics of a server: a host whose pool has a size of its own says it in
\* every hour, and the others have what that version and mode configures.
Measured(w, m) ==
  /\ IsFiniteSet(w.hours) /\ \A s \in w.sessions : s.xid \in Int
  /\ {w.settings, w.serverSettings} \subseteq Nat
  /\ \A h \in w.hours :
       /\ {h.time, h.first, h.last} \subseteq Int /\ {h.tx, h.tasks} \subseteq Nat
       /\ w.pool[h.host] \in Nat \ {0} /\ h.size \in {0, w.pool[h.host]}
       /\ \/ m = "cloud" /\ \A g \in w.hours : g.host = h.host => g.size = w.pool[h.host]
          \/ w.pool[h.host] = IF m = "cloud" \/ w.recent THEN w.serverSettings ELSE w.settings

ASSUME ChecksAssumption ==
  /\ {Day, Week, Behind} \subseteq Nat \ {0} /\ Day % Hour = 0 /\ Week % Hour = 0
  /\ {Busy, Refused, XidMax} \subseteq Nat
  /\ \A s \in Servers : Listing(s.world) /\ Measured(s.world, s.mode)

VARIABLES
  world, \* what there is at the server
  mode,
  lost,  \* the collectors that fail or are skipped
  files, \* for each collector that has written one, its file
  found  \* for each rule, what came of it

checkVars == <<world, mode, lost, files, found>>

-----------------------------------------------------------------------------
(* The collectors.                                                         *)

Bucket(t) == t - (t % Hour)

SumOf(field, rows) == MapThenSumSet(LAMBDA r : r[field], rows)

Total(rows) == SumOf("count", rows)

\* GROUP BY the fields that key gives of each event, with a count.
Grouped(key) ==
  {[key |-> k, count |-> Total({e \in DOMAIN key : key[e] = k})] : k \in {key[e] : e \in DOMAIN key}}

\* The replicas that are read.
Queried(rows) == {r \in rows : mode = "cloud" \/ r.host = "a"}

\* {to:now}: now(), when a log is read, or -to.
Ends == IF world.to # None /\ world.to < world.asked THEN world.to ELSE world.asked

\* {from:<window>}: -from, or the window back from now(), wherever -to is; of an
\* essential run at most a day.
Begins(window) ==
  IF world.from # None THEN world.from
  ELSE world.asked - (IF world.essential /\ window > Day THEN Day ELSE window)

\* event_time > {from:<window>} AND event_time <= {to:now}.
Selected(events, window) ==
  {e \in Queried(events) : Begins(window) < e.at /\ e.at <= Ends}

PartLog ==
  {[host |-> g.key[1], time |-> g.key[2], type |-> g.key[3], error |-> g.key[4], table |-> g.key[5],
    count |-> g.count] :
     g \in Grouped([e \in Selected(world.parts, 3 * Day) |->
                      <<e.host, Bucket(e.at), e.type, e.error, e.table>>])}

Exceptions ==
  {[time |-> g.key[1], code |-> g.key[2], count |-> g.count] :
     g \in Grouped([e \in Selected(world.refused, Day) |-> <<Bucket(e.at), e.code>>])}

\* A row for each replica that lacks blocks of a partition, or for one that some
\* other replica has none of.
Lagging ==
  LET newest(p) == Max({b.block : b \in {b \in world.blocks : b.part = p}})
      latest(p) == Max({b.at : b \in {b \in world.blocks : b.part = p}})
      missing(p) == {b.host : b \in world.blocks} \ {b.host : b \in {b \in world.blocks : b.part = p}}
  IN  {[host |-> b.host, part |-> b.part, behind |-> newest(b.part) - b.block, newest |-> newest(b.part),
        at |-> latest(b.part), missing |-> missing(b.part)] :
         b \in {b \in world.blocks : b.block < newest(b.part) \/ missing(b.part) # {}}}

\* system.crash_log is there once a server has crashed, and reading it fails if
\* a replica has none.
CrashLog ==
  IF \A r \in Queried(world.replicas) : r.crashes # {}
  THEN {[crashes |-> r.crashes] : r \in Queried(world.replicas)} ELSE {}

\* The files whose rows may come in any order.
Sequenced ==
  [detached |-> Queried(world.detached), mutations |-> Queried(world.mutations), lagging |-> Lagging,
   disks |-> world.disks, replicas |-> Queried(world.tables)]

Sets ==
  [part_log |-> PartLog, exceptions |-> Exceptions, metric_log |-> Queried(world.hours),
   settings |-> {[setting |-> world.settings]}, server_settings |-> {[setting |-> world.serverSettings]},
   connection |-> Queried(world.sessions), tables |-> world.policies, storage |-> world.storage,
   crash_log |-> CrashLog, crash_presence |-> {r \in world.replicas : r.crashes # {}},
   problems |-> Queried(world.tables)]

\* Every order, for a file of few rows.
Orders(rows) == IF Cardinality(rows) <= 3 THEN SetToSeqs(rows) ELSE {SetToSeq(rows)}

Failed == {f \in {"crash_log"} : \E r \in Queried(world.replicas) : r.crashes = {}}

-----------------------------------------------------------------------------
(* What the rules share.                                                   *)

Outcome(state, rows) == [state |-> state, rows |-> rows]

Found(rows) == Outcome(IF rows = {} THEN "clean" ELSE "fired", rows)

NotApplicable == Outcome("skipped", {})

\* evalCheck: a rule whose file is missing is not applicable.
Needs(names, rows) == IF names \subseteq DOMAIN files THEN Found(rows) ELSE NotApplicable

\* serverClock: the logs end at -to, if that is earlier.
ServerClock ==
  IF world.to # None /\ world.to < world.collected THEN world.to ELSE world.collected

\* Mutant of InWindow: the hour has to begin in the window.
InWindowFromItsStart(time, d) == time >= ServerClock - d /\ time <= ServerClock

\* The hours that end in the window.
InWindow(time, d) == time + Hour > ServerClock - d /\ time <= ServerClock

\* dateDiffHours, in whole hours of UTC.
HoursBetween(a, b) == (Bucket(b) - Bucket(a)) \div Hour

-----------------------------------------------------------------------------
(* checks_logs.go.                                                         *)

MergesStalled ==
  LET recent == {r \in files.part_log : InWindow(r.time, Day)}
      Of(k) == {r \in recent : r.host = k.host /\ r.time = k.time}
  IN  {k \in {[host |-> r.host, time |-> r.time] : r \in recent} :
         /\ Total({r \in Of(k) : r.type = "NewPart"}) > Busy
         /\ Total({r \in Of(k) : r.type = "MergeParts" /\ r.error = 0}) = 0}

BackgroundFailures ==
  LET recent == {r \in files.part_log : r.error # 0 /\ InWindow(r.time, Day)} IN
  {k \in {[time |-> r.time, type |-> r.type, error |-> r.error] : r \in recent} :
     Total({r \in recent : r.time = k.time /\ r.type = k.type /\ r.error = k.error}) > Failing}

\* exceptionsByHour; the files of the types are not told apart.
ExceptionsByHour(d, codes) == {r \in files.exceptions : r.code \in codes /\ InWindow(r.time, d)}

HighExceptionRate ==
  {r \in ExceptionsByHour(Day, {r.code : r \in files.exceptions}) : r.count > Failing}

KeeperExceptionSpike == {r \in ExceptionsByHour(Day, {999}) : r.count > Spiking}

\* Of the last hour, and of the one that it began in.
TooManySimultaneous == {n \in {Total(ExceptionsByHour(Hour, {202}))} : n > Refused}

-----------------------------------------------------------------------------
(* checks_keeper.go.                                                       *)

MetricHours(d) == {h \in files.metric_log : InWindow(h.time, d)}

\* medianHigh.
Usual(host) ==
  LET hours == {h \in MetricHours(Week) : h.host = host} IN
  CHOOSE u \in {h.tx : h \in hours} :
    /\ Cardinality({h \in hours : h.tx < u}) <= Cardinality(hours) \div 2
    /\ Cardinality({h \in hours : h.tx <= u}) > Cardinality(hours) \div 2

Degraded(h, degraded) == (2 * h.tx < Usual(h.host)) = degraded

\* keeper_health and keeper_connection_blips, the first 168 hours of each host.
KeeperHours(degraded) ==
  LET bad == {h \in MetricHours(Week) :
                Usual(h.host) > 0 /\ h.hw > Troubled /\ Degraded(h, degraded)}
  IN  {h \in bad : Cardinality({g \in bad : g.host = h.host /\ g.time < h.time}) < Week \div Hour}

\* The live size of a host's pool in the window, 0 if no hour has it.
LiveSize(host) ==
  IF mode # "cloud" THEN 0 ELSE Max({0} \cup {h.size : h \in {h \in MetricHours(Day) : h.host = host}})

NeedsSettings == \E h \in MetricHours(Day) : LiveSize(h.host) = 0

\* Mutant of SettingsFile: what the older servers have is always there.
SettingsFileAsEver == "settings"

\* From 23.3 the sizes are server settings, and what system.settings still
\* lists is not the size.
SettingsFile == IF mode # "cloud" /\ ~world.recent THEN "settings" ELSE "server_settings"

PoolSize(host) ==
  IF LiveSize(host) # 0 \/ ~NeedsSettings THEN LiveSize(host) ELSE Max({0} \cup {r.setting : r \in files[SettingsFile]})

PoolSaturated ==
  LET Full(host) == {h \in MetricHours(Day) :
                       /\ h.host = host
                       /\ PoolSize(host) > 0 /\ 10 * h.tasks >= 9 * PoolSize(host)}
  IN  {host \in {h.host : h \in MetricHours(Day)} : Cardinality(Full(host)) >= 3}

\* One live session, at least two hours of samples, and the rate at which the
\* day ends past the last id.
XidRenewalDue ==
  LET live(host) == {s \in files.connection : s.host = host /\ ~s.expired}
      hours(host) == {h \in MetricHours(Day) : h.host = host}
      tx(host) == SumOf("tx", hours(host))
      covered(host) == Max({h.last : h \in hours(host)}) - Min({h.first : h \in hours(host)})
  IN  {host \in {s.host : s \in files.connection} :
         /\ Cardinality(live(host)) = 1 /\ hours(host) # {}
         /\ covered(host) >= 2 * Hour /\ tx(host) > 0
         /\ \E s \in live(host) : /\ s.xid > 0 /\ s.xid < XidMax
                                  /\ (XidMax - s.xid) * covered(host) < Day * tx(host)}

\* parts_propagation_lag: what the first row of a partition says of the hosts
\* that have none of it, if it was written to in the last day.
Propagation ==
  LET rows == files.lagging
      late(h) == {r.part : r \in {r \in ToSet(rows) : r.host = h /\ r.behind >= Behind}}
      firsts == {i \in DOMAIN rows : /\ \A j \in 1..(i - 1) : rows[j].part # rows[i].part
                                     /\ rows[i].at > world.collected - Day}
      lacking(h) == {rows[i].part : i \in {i \in firsts : h \in rows[i].missing}}
      behind(h) == {r.behind : r \in {r \in ToSet(rows) : r.host = h /\ r.behind >= Behind}}
                     \cup {rows[i].newest : i \in {i \in firsts : h \in rows[i].missing}}
  IN  {[host |-> h, affected |-> Cardinality(late(h) \cup lacking(h)),
        notFetched |-> Cardinality(lacking(h)), most |-> Max(behind(h))] :
         h \in {h \in {r.host : r \in ToSet(rows)} \cup UNION {r.missing : r \in ToSet(rows)} :
                  late(h) \cup lacking(h) # {}}}

-----------------------------------------------------------------------------
(* checks_storage.go.                                                      *)

\* Mutant of DataDisks: the tables alone decide.
DataDisksOfTables ==
  IF "tables" \notin DOMAIN files THEN {}
  ELSE {s.disk : s \in {s \in IF "storage" \in DOMAIN files THEN files.storage
                             ELSE {[policy |-> t.policy, disk |-> "unknown"] : t \in files.tables} :
                          \E t \in files.tables : ~t.system /\ t.policy = s.policy}}

\* The disks of the policies of user tables; none if that is not known.
DataDisks ==
  IF {"tables", "storage"} \subseteq DOMAIN files
  THEN {s.disk : s \in {s \in files.storage : \E t \in files.tables : ~t.system /\ t.policy = s.policy}}
  ELSE {}

DiskSpaceLow ==
  {d.disk : d \in {d \in ToSet(files.disks) :
                     /\ d.total > 0 /\ 100 * d.free < 15 * d.total
                     /\ DataDisks = {} \/ d.disk \in DataDisks}}

\* Of shared storage each replica lists every part, under the same path.
DetachedParts ==
  LET rows == files.detached
      counted == {i \in DOMAIN rows :
                    ~(mode = "cloud" /\ \E j \in 1..(i - 1) : rows[j].path = rows[i].path)}
  IN  {[table |-> t, n |-> Cardinality({i \in counted : rows[i].table = t})] :
         t \in {rows[i].table : i \in counted}}

\* Of the crashes, whether there is one; what a missing file means is known
\* from the replicas that have the table.
CrashLogEntries ==
  IF "crash_log" \in DOMAIN files THEN Found(UNION {r.crashes : r \in files.crash_log})
  ELSE IF mode = "cloud" /\ "crash_presence" \in DOMAIN files /\ files.crash_presence # {}
       THEN Outcome("failed", {})
  ELSE NotApplicable

Unfinished(r) ==
  r.left > 0 /\ ~r.killed /\ HoursBetween(r.created, world.collected) > 3

\* Mutant of LongMutations: the first row of a mutation decides.
LongMutationsByTheFirst ==
  LET rows == files.mutations IN
  {i \in DOMAIN rows : Unfinished(rows[i]) /\ \A j \in 1..(i - 1) : rows[j].id # rows[i].id}

\* The first row of each that is unfinished.
LongMutations ==
  LET rows == files.mutations IN
  {i \in DOMAIN rows :
     Unfinished(rows[i]) /\ \A j \in 1..(i - 1) : Unfinished(rows[j]) => rows[j].id # rows[i].id}

\* With how many replicas are active, if that could be asked of Keeper.
ReadonlyReplicas ==
  {[table |-> r.table, host |-> r.host,
    active |-> IF "problems" \in DOMAIN files /\ r \in files.problems THEN "known" ELSE "?"] :
     r \in {r \in ToSet(files.replicas) : r.readonly}}

-----------------------------------------------------------------------------
Rules ==
  {"merges_stalled", "background_operation_failures", "high_exception_rate", "keeper_exception_spike",
   "too_many_simultaneous_queries", "keeper_health", "keeper_connection_blips", "pool_saturated",
   "keeper_xid_renewal_due", "parts_propagation_lag", "disk_space_low", "detached_parts_exist",
   "crash_log_entries", "mutation_running_too_long", "replica_readonly"}

Check(rule) ==
  CASE rule = "merges_stalled" -> Needs({"part_log"}, MergesStalled)
    [] rule = "background_operation_failures" -> Needs({"part_log"}, BackgroundFailures)
    [] rule = "high_exception_rate" -> Needs({"exceptions"}, HighExceptionRate)
    [] rule = "keeper_exception_spike" -> Needs({"exceptions"}, KeeperExceptionSpike)
    [] rule = "too_many_simultaneous_queries" -> Needs({"exceptions"}, TooManySimultaneous)
    [] rule = "keeper_health" -> Needs({"metric_log"}, KeeperHours(TRUE))
    [] rule = "keeper_connection_blips" -> Needs({"metric_log"}, KeeperHours(FALSE))
    [] rule = "pool_saturated" ->
         IF "metric_log" \in DOMAIN files /\ ~NeedsSettings THEN Found(PoolSaturated)
         ELSE Needs({"metric_log", SettingsFile}, PoolSaturated)
    [] rule = "keeper_xid_renewal_due" -> Needs({"connection", "metric_log"}, XidRenewalDue)
    [] rule = "parts_propagation_lag" -> Needs({"lagging"}, Propagation)
    [] rule = "disk_space_low" -> Needs({"disks"}, DiskSpaceLow)
    [] rule = "detached_parts_exist" -> Needs({"detached"}, DetachedParts)
    [] rule = "crash_log_entries" -> CrashLogEntries
    [] rule = "mutation_running_too_long" ->
         Needs({"mutations"}, {files.mutations[i].id : i \in LongMutations})
    [] rule = "replica_readonly" -> Needs({"replicas"}, ReadonlyReplicas)

-----------------------------------------------------------------------------
ChecksInit ==
  /\ \E c \in Servers : world = c.world /\ mode = c.mode /\ lost = c.lost
  /\ files = <<>> /\ found = <<>>

\* What the collectors write if the replicas answer in these orders.
Written(answers) ==
  [f \in (DOMAIN Sets \cup DOMAIN answers) \ (lost \cup Failed) |->
     IF f \in DOMAIN Sets THEN Sets[f] ELSE answers[f]]

\* The collectors write what they are able to.
Collect ==
  /\ files = <<>>
  /\ \E answers \in [detached : Orders(Sequenced.detached), mutations : Orders(Sequenced.mutations),
                     lagging : Orders(Sequenced.lagging), disks : {SetToSeq(Sequenced.disks)},
                     replicas : {SetToSeq(Sequenced.replicas)}] :
       files' = Written(answers)
  /\ UNCHANGED <<world, mode, lost, found>>

\* RunAll, over the bundle.
Evaluate ==
  /\ files # <<>> /\ found = <<>>
  /\ found' = [rule \in Rules |-> Check(rule)]
  /\ UNCHANGED <<world, mode, lost, files>>

ChecksNext == Collect \/ Evaluate

ChecksSpec == ChecksInit /\ [][ChecksNext]_checkVars

-----------------------------------------------------------------------------
(* Properties.                                                             *)

Done == found # <<>>

\* What a rule says of something, if it could be asked.
Says(rule, x) == found[rule].state = "skipped" \/ x \in found[rule].rows

Sum(events) == MapThenSumSet(LAMBDA e : e.count, events)

\* The instant that the logs are judged from.
Clock == IF world.to = None THEN world.collected ELSE Min({world.to, world.collected})

\* What went on at the replicas until the logs end, read or not.
Known(events) == {e \in Queried(events) : e.at <= Ends}

New(host, hour) ==
  Sum({e \in Known(world.parts) : e.host = host /\ e.at >= hour /\ e.at < hour + Hour /\ e.type = "NewPart"})

Merged(host, hour) ==
  Sum({e \in Known(world.parts) : /\ e.host = host /\ e.at >= hour /\ e.at < hour + Hour
                                  /\ e.type = "MergeParts" /\ e.error = 0})

Stalled(host, hour) == New(host, hour) > Busy /\ Merged(host, hour) = 0

\* A log of that window is read from before the hour, all of which is then in it.
Whole(hour, window) == Begins(window) < hour

Refusals(since, until) ==
  Sum({e \in Known(world.refused) : e.code = 202 /\ e.at > since /\ e.at <= until})

\* No stalled hour of a host is missed because the rule's window begins or ends
\* in it, and none is made up.  Of an hour in which the collector's window begins
\* that is only said of the new parts: its merges may be older than the window.
StalledHoursSurface ==
  /\ \A e \in Queried(world.parts) : LET hour == Bucket(e.at) IN
       /\ Stalled(e.host, hour) /\ Whole(hour, 3 * Day)
       /\ hour + Hour > Clock - Day /\ hour <= Clock
       => Says("merges_stalled", [host |-> e.host, time |-> hour])
  /\ \A k \in found["merges_stalled"].rows :
       /\ New(k.host, k.time) > Busy /\ k.time + Hour > Clock - Day
       /\ Whole(k.time, 3 * Day) => Stalled(k.host, k.time)

\* No burst of refusals is missed because it lies across two hours, if the
\* collector's window, which goes back from now() and not from -to, has that hour.
RefusalsSurface ==
  LET rule == found["too_many_simultaneous_queries"] IN
  /\ Refusals(Clock - Hour, Clock) > Refused /\ Begins(Day) <= Clock - Hour => rule.state # "clean"
  /\ rule.state = "fired" => Refusals(Clock - 2 * Hour, Ends) > Refused

\* The files count by the hour and the rules speak of the hours until now or
\* -to: nothing that the collectors read in full is missed at the edges of a
\* rule's window, nothing is found that did not happen, and what is older than
\* the hour in which the window begins does not count (inWindow).
HoursSurface == Done => StalledHoursSurface /\ RefusalsSurface

\* "one day covers their 24-hour look-back" (system.query_log_exceptions_1_day.sql):
\* a burst of refusals in the last hour is found.  It is not with -to alone, as
\* the day is that before now(): no run checks it.
DayCoversLookBack ==
  Done /\ Refusals(Clock - Hour, Clock) > Refused
    => found["too_many_simultaneous_queries"].state # "clean"

\* An hour that is found as stalled was stalled.  It need not be if an essential
\* run or -from reads it from its middle: no run checks it.
EdgeHourIsWhole ==
  Done => \A k \in found["merges_stalled"].rows : Stalled(k.host, k.time)

LastDay(host) ==
  {h \in world.hours : h.host = host /\ h.time + Hour > Clock - Day /\ h.time <= Clock}

\* A pool that was nearly full for three hours of the day is found, and no other.
PoolsSurface ==
  found["pool_saturated"].state # "skipped" =>
    \A host \in {h.host : h \in Queried(world.hours)} : LastDay(host) # {} =>
      (Cardinality({h \in LastDay(host) : 10 * h.tasks >= 9 * world.pool[host]}) >= 3
         <=> host \in found["pool_saturated"].rows)

\* The only live session of its host, at one rate for hours without a gap.
Steady(s, rate) ==
  LET hours == LastDay(s.host) IN
  /\ \A t \in world.sessions : (t.host = s.host /\ ~t.expired) <=> t = s
  /\ s.xid > 0 /\ s.xid < XidMax /\ rate > 0
  /\ Cardinality(hours) >= 2 /\ \A h \in hours : h.tx = rate
  /\ Max({h.last : h \in hours}) - Min({h.first : h \in hours}) = Hour * Cardinality(hours)

\* The renewal of such a session is announced if its ids run out within a day.
RenewalsSurface ==
  found["keeper_xid_renewal_due"].state # "skipped" =>
    \A s \in Queried(world.sessions) : \A rate \in {h.tx : h \in LastDay(s.host)} :
      Steady(s, rate) =>
        (s.host \in found["keeper_xid_renewal_due"].rows <=> s.xid + rate * (Day \div Hour) > XidMax)

\* A pool is found to be full wherever the server of that version and mode has
\* its size: in the settings, the server settings, or only in some hours of the
\* metrics.  And at a steady rate the renewal of a session is announced if and
\* only if its ids run out within a day (poolSizes, checkKeeperXid).
LimitsSurface == Done => PoolsSurface /\ RenewalsSurface

\* A detached part on shared storage counts once.
PathsOnce ==
  \A d \in Queried(world.detached) :
    Says("detached_parts_exist",
         [table |-> d.table,
          n |-> Cardinality({e.path : e \in {e \in Queried(world.detached) : e.table = d.table}})])

\* A mutation that any replica has not finished is found although another has.
MutationsOnce ==
  found["mutation_running_too_long"].state # "skipped" =>
    found["mutation_running_too_long"].rows =
      {m.id : m \in {m \in Queried(world.mutations) : Unfinished(m)}}

\* The partitions of which a replica is behind, and those of which it has none
\* though they were written to in the last day.
LateIn(h) ==
  {c.part : c \in {c \in world.blocks :
     \E b \in world.blocks : b.host = h /\ b.part = c.part /\ c.block - b.block >= Behind}}

NoneOf(h) ==
  {c.part : c \in {c \in world.blocks :
     c.at > world.collected - Day /\ ~\E b \in world.blocks : b.host = h /\ b.part = c.part}}

\* A partition counts once for each replica that lacks it.
PartitionsOnce ==
  found["parts_propagation_lag"].state # "skipped" =>
    \A h \in {b.host : b \in world.blocks} :
      IF LateIn(h) \cup NoneOf(h) = {}
      THEN \A r \in found["parts_propagation_lag"].rows : r.host # h
      ELSE \E r \in found["parts_propagation_lag"].rows :
             /\ r.host = h /\ r.affected = Cardinality(LateIn(h) \cup NoneOf(h))
             /\ r.notFetched = Cardinality(NoneOf(h))

\* What several replicas list is found once, in whatever order they answer: a
\* detached part, a mutation and a partition that a replica lacks
\* (checkDetachedParts, checkMutationsTooLong, checkPartsPropagationLag).
CountedOnce == Done => PathsOnce /\ MutationsOnce /\ PartitionsOnce

\* A collector that failed never makes a rule say that all is well: a disk that
\* is low and holds tables of users is found without the tables or the storage
\* policies, a read-only replica without what Keeper says of it, and a crash on
\* any replica is found or its rule does not end as clean (checkDiskSpaceLow,
\* checkReplicaReadonly, checkCrashLog).
MissingNeverHides ==
  Done =>
    /\ \A d \in world.disks :
         /\ 100 * d.free < 15 * d.total
         /\ \E s \in world.storage, t \in world.policies :
              s.disk = d.disk /\ t.policy = s.policy /\ ~t.system
         => Says("disk_space_low", d.disk)
    /\ \A r \in Queried(world.tables) :
         r.readonly => \E a \in {"known", "?"} :
                         Says("replica_readonly", [table |-> r.table, host |-> r.host, active |-> a])
    /\ (\E r \in Queried(world.replicas) : r.crashes # {}) => found["crash_log_entries"].state # "clean"
    /\ found["crash_log_entries"].state = "skipped" /\ mode = "cloud" /\ lost = {}
         => \A r \in world.replicas : r.crashes = {}
=============================================================================
