# ClickHouse diagnostics: a TLA+ verification project

`clickhouse-diagnostics` is a Go command-line program. It connects to one
ClickHouse server (or, as `cluster`, starts itself once per node), runs a
directory of SQL collectors on it, reads Keeper, logs, configuration and host
facts, evaluates alert rules, and packs the results into an archive. This
directory models the parts of it whose correctness depends on order, time,
failure or concurrency, model-checks them with TLC and proves the most
important properties with TLAPS. Paths are relative to `src/`.

## 1. Inventory

The program is sequential with three exceptions: `keeper.Collect` starts a
goroutine per Keeper member; `cluster` starts a child process per node, one
after the other; and every request races with the server's clock, the
operator's time limits and whatever else the server is doing.

| Component | State it keeps | Operations | Talks to | What is hard about it |
|---|---|---|---|---|
| collection mode and watchdog (`internal/collectmode`, `cmd/collect_mode.go`) | decision; watchdog (`budget`, `tripBudget`, `started`, `tripped`, `lastSlow`, `locked`) | `Probe`, `Decide`, `Start`, `Observe`, `Trip`, `OverBudget`, `applyEssential` | client, executor (callback `OnTrip`) | the switch happens inside the loop, in a callback; two clocks can open the budget |
| query executor (`internal/query/executor.go`, `tier.go`) | the loop's position, the run directory's files | `orderByTier`, `ExecuteQueries`, `executeQuery` | client, watchdog, run log | three reasons to skip, each ending of a request, errors dropped |
| ClickHouse client (`pkg/clickhouse.go`) | `queryTimeout`, `httpTimeout`, margin, settings | `SetQueryTimeout`, `SetClientMargin`, `SetSetting`, `RemoveSetting`, `executeWith` | the server | the order of the setters; 0 means unbounded |
| main (`cmd/main.go`) | stage, flags | the phases of a run | everything | the order of its phases; what is sent before and after the budget |
| run log (`internal/runlog`) | entries, one per operation | `Record`, `Write`, redaction in gov mode | executor, bundle, archive | entries that disagree with the files |
| alert engine (`internal/alert`) | rules, results | `RunAll`, `evalFile`, Go checks, `Summarize` | client, bundle | a rule that was not evaluated must not read as clean |
| bundle reader (`internal/bundle`) | collector statuses, cache of parsed files | `Open`, `Rows`, `NotCollected` | run log, alert engine | a missing source is not an empty one |
| archive (`internal/archive.go`) | archive, temporary file | `CreateArchive` | main, `cluster` | crash and failure half way; an older archive |
| cluster collection (`internal/clustercollect`) | nodes, per node a directory and a result | `Discover`, `Label`, `Main`, `runOne`, `newArchive` | child processes, archive | whose archive is it; timeouts; addresses seen twice |
| Keeper probe (`internal/keeper`) | the members to ask, a report and a file per member | `Resolve`, `MergeTargets`, `Collect`, `collectOne`, `Leaderless` | Keeper members, dashboard | goroutines that choose file names; a member that changes between two of its commands; a verdict about all of them |
| log files (`internal/logfiles`) | names given out, files copied, notes | `DiscoverDirs`, `Collect`, `uniqueName`, `copyTail` | file system, the server that writes the logs | name clashes; a log that grows, is emptied or replaced while it is copied |
| query selection and windows (`internal/query/{finder,selector,versioned,template}.go`, `internal/version`) | selected files, windows | `FindCompatibleQueries`, `SelectHighestPriorityQueries`, `FindVersionedFiles`, `expandWindowPlaceholders` | executor, analysis | which version wins; which bound wins |
| query analysis, `text_log` (`internal/query/{analysis,textlog}.go`) | the query in focus and its window | `PreflightForQueryID`, `PreflightForHash`, `Validate`, `Collect` | client, main | time zones; what is not known yet |
| config collection and redaction (`internal/config`, `internal/collection`) | the rewrites of a file (a global of the package) | `RedactSQLText`, `SanitizeXMLContent`, `SanitizeYAMLContent` | executor, file system | nesting, quoting, half a file; state that outlives a call |
| checks (`internal/alert/checks_*.go`) | none | a verdict from the collected files | bundle reader | hours and windows, replicas that list the same, files that are missing |
| SQL validation (`internal/query/validator.go`) | none | text to verdict | executor, alerts | text |
| gov name mapping, host facts, dashboard, bundle inspector | none of interest | read, format, write | | pure I/O and text; when they may run belongs to main |

### What makes each component correct

- **Watchdog and mode.** A full run becomes essential exactly after a timeout
  or two slow collectors in a row; `-collect full` never does; the budget
  belongs to the collectors and is overrun by what was in flight and no more.
- **Executor.** Each collector has one turn and one outcome, essential ones
  first; nothing of the full tier starts after the switch; the log and the
  files agree; the run ends.
- **Client.** The server's limit always ends first; no request carries a
  setting the user may not use.
- **Alert engine and bundle.** A rule whose source was not collected is
  reported as not evaluated, never as clean; the count of evaluated rules is
  the number of rules that really ran.
- **Archive and cluster.** A reader finds a whole archive or none; the archive
  reported for a node was made by that node's run.
- **Keeper probe.** Every member is asked once and has its own file; the log and
  the dashboard draw one conclusion from it; an ensemble is called leaderless
  only on the word of its members.
- **Log files.** Every log is copied or noted, never both; a copy is a snapshot
  that begins at a line and whose header says how much follows.
- **Redaction.** What is replaced is what the structure of the text makes
  sensitive; nothing sensitive is written, and what is written for a file is
  that file.
- **Main.** The mode that was meant decides what may be shipped, however it was
  spelt; everything is read from the same replicas and in the window that was
  asked for, by the newest query the server understands; a dry run only looks.
- **Checks.** A rule finds what went on at the server, once, whichever replica
  answered first, and a collector that failed never reads as "all is well".

## 2. Modules

| Module | Models | State |
|---|---|---|
| `CollectMode` | `collectmode.go`, `probe.go`: signals, `Decide`, the watchdog as a record with one operator per Go method | none of its own |
| `ClickHouseClient` | `pkg/clickhouse.go`: the timeouts, the margin, the settings | none of its own |
| `Collection` | `setupCollection`, `applyEssential`, `ExecuteQueries`, `executeQuery`, and main from the probe to the last request | the twelve variables below |
| `CollectionPromise` | what a collection promises, without time, budget or client | `promised`, `tier`, `essential`, `outcome` |
| `MCCollection` | the instance for TLC | |
| `Collection_proofs` | theorems and proofs about `Collection` | |
| `Bundle` | `runlog.Record`'s treatment of an error's text, `collectorStatus`, `bundle.Rows`: what a check gets for a collector | none of its own |
| `Alerts` | `RunAll`, `evalFile`, `notApplicable`, `evalCheck`, `checkCrashLog`'s use of the presence list, `Summarize` | `case`, `now`, `started`, `probing`, `results` |
| `MCAlerts` | the instance for TLC | |
| `Alerts_proofs` | theorems and proofs about `Alerts` and `Checks` | |
| `Packaging` | main from the collectors' files to its exit code, and `CreateArchive` | the nine variables below |
| `Publication` | what a reader of archives may rely on: they appear whole, at once, and never from a run that exits with 1 | `place`, `shown`, `life` |
| `MCPackaging` | the instances for TLC | |
| `Packaging_proofs` | theorems and proofs about `Packaging` | |
| `ClusterCollect` | `clustercollect.Main` from the confirmation on, and `runOne` with the child it starts, each child an instance of `Publication` | the thirteen variables below |
| `MCClusterCollect` | the names of archives for TLC | |
| `ClusterCollect_proofs` | theorems and proofs about `ClusterCollect` and `Discovery` | |
| `Discovery` | `clustercollect.Discover` | `rows`, `only`, `next`, `nodes`, `pc` |
| `MCDiscovery` | the answers for TLC | |
| `KeeperProbe` | `internal/keeper`: the list of members, one goroutine per member, the files, and `Leaderless` with the panel's reading of a file | the variables below |
| `KeeperCensus` | what the probe is to whoever reads its results: one entry and one page per member, made in one step | `members`, `dry`, `stage`, `entry`, `page`, `was` |
| `MCKeeperProbe` | the members and connections for TLC | |
| `KeeperProbe_proofs` | theorems and proofs about `KeeperProbe` | |
| `LogFiles` | `internal/logfiles`: `Collect`, `uniqueName`, `copyTail` call by call, beside the server that writes | the variables below |
| `LogSnapshots` | what the copying is to whoever reads the bundle: of every log a copy or a note, taken in one step | `found`, `stage`, `noted`, `taken`, `hand`, `held`, `cut`, `ends` |
| `MCLogFiles` | the directories for TLC | |
| `LogFiles_proofs` | theorems and proofs about `LogFiles` | |
| `Selection` | `finder.go`, `selector.go`, `versioned.go`, `internal/version`: the files chosen for a server | none of its own |
| `Windows` | the windows of `template.go` and `analysis.go`, and a time as it is shown and read in a zone | none of its own |
| `Invocation` | one run of main, from the flags to the exit code | the variables below |
| `MCInvocation` | the invocations and servers for TLC | |
| `Invocation_proofs` | theorems and proofs about `Invocation` | |
| `SqlText` | `sqlredact.go`: the secrets in DDL text | none of its own |
| `YamlText` | `SanitizeYAMLContent`: the walk over a document | `document`, `sanitized` |
| `Redaction` | the redaction of a result, beside `YamlText` and `ConfigFiles` | `tree`, `text`, `passes` |
| `MCRedaction` | the texts, documents and files for TLC | |
| `Credentials` | which keys and elements hold credentials | none of its own |
| `ConfigFiles` | `config.Collector` with `SanitizeXMLContent`, file by file and token by token | `files`, the parser's state, `shipped` |
| `ConfigFiles_proofs` | theorems and proofs about `ConfigFiles` and `YamlText` | |
| `Checks` | `checks_*.go`: what went on at a server, the files the collectors make of it, and what fifteen rules find in them | `world`, `files`, `found` |
| `MCChecks` | the servers for TLC | |

`Collection` extends `CollectMode` and `ClickHouseClient` and owns the records
their operators act on. State and code correspond as follows.

| Variable | In the code |
|---|---|
| `cfg` | the flags (`-collect`, `-collect-budget`, `-query-timeout`) and what the query directory and the user's settings profile hold |
| `stage` | where main is: `setupCollection`, `applyEssential`, before `watch.Start`, the loop, after it |
| `now` | the wall clock |
| `decision`, `watch`, `client` | the values of the same Go types |
| `gentle` | the index of `applyEssential`'s loop |
| `status` | each collector's entry in the run log (`pending` before it has one, `running` while its request is out) |
| `file` | the result file in the run directory |
| `inflight` | the request on the wire, with the limits it was sent with |
| `ran` | the times in the log, one per executed collector |
| `later` | what main still sends after the loop |

`Probe`, `TrySetting`, `EssentialApplied` and `StartClock` are the steps before
the loop; `SkipOverBudget`, `SkipNoKeeper`, `SkipFullTier`, `FailLocally`,
`EmptyFile` and `Send` are the six ways one turn of the loop can begin, `Answer`
the end of a request with everything `ExecuteQueries` does before the next turn
(log entry, file, `watch.Observe` with its callback); `CollectorsDone`,
`SendLater`, `SkipLater` and `Finish` are the rest of main up to the last
request. A request is two steps, so any time up to the client's limit passes
between sending and answer. `TrySetting` is entered both from main and from the
watchdog's callback, as in the code.

`Alerts` extends `Bundle`. It begins where `Collection` ends: `case` holds what
a run hands to `NewEvaluator` and its `With` methods (mode, essential or not,
Keeper down or not, the budget as `deadline`), the entries of the log and the
files, and the directory of rules. `Consistent` restricts entries and files to
what `LogMatchesFiles` of `Collection` allows. `results` are the verdicts in the
order of `RunAll`; `probing` says which of `notApplicable`'s two counts is next
for the rule at hand. Each early return of `evalFile` is an action
(`RejectBroken`, `SkipOtherMode`, `SkipPastBudget`, `SkipWithoutKeeper`,
`SkipTooHeavy`, `Block`), guarded by the negation of those before it; `RunCheck`
is `evalCheck`, `Ask` the rule's own query, `CountDatabase` and `CountTable` the
requests of `notApplicable`. A rule carries what is true on the server
(`problem`, and `has`, the replicas with its table), so that a property can
compare the verdict with the truth; `sees` is what the user's grants let
`system.tables` show. The collectors that a Go check can do without are not
among its `reads`.

`Packaging` models several runs of the program, because they can meet: the run
directory and the archive are named by the second, so two runs of one second
with one `-output-dir` have the same `place`. `pc` is where main is: `start`
(everything before `ExecuteQueries`), one value per file that main writes, one
per call of `CreateArchive`, and how the run ended. `files` is the run
directory, each file with the run that opened it last and how much of it is
there; `temp` is the hidden `.partial` file and `archive` what is found under the
final name, both as streams: what `filepath.Walk` listed, how far it came, the
copies, whether the tar and gzip footers are there, and whether some write never
reached the disk. The files of the collectors count as one file (`results`).
Each write is two steps (`OpenFile` truncates, `FinishFile` completes), and
`FailFile` ends it half-way or before; `Add` copies a file as it is at that
moment; `Stumble` is the error of any call up to the rename and `Undo` the
deferred function. `Kill` ends a run anywhere and `Clean` removes a run
directory. `AfterDashboard` is the condition in main that decides whether
`alerts_summary.json` is needed.

`ClusterCollect` composes the command with the runs it starts. It knows a run
only by what `Publication` promises, which `PackagingKeepsPromise` proves of the
code: `place`, `shown` and `life` are the variables of `Publication`, and `Runs`
and `Kill` its actions. A place is a folder and a second. `folder` is the label
of each node; nothing says that labels differ. `Stray` are runs that an earlier
command started in the same folders and that may have published before this
command begins, or do so at any time. `step` is where the command is in `Main`
or, for the node `turn`, in `runOne`: `ready` (before `MkdirAll`), `listed`
(`archivesIn` has read the folder into `before`, the context runs), `running`
(inside `cmd.Run`), `exited` (it returned), `chosen` (`cancel` and
`newArchive`). `expired` is `ctx.Err() = DeadlineExceeded`: `Expire` may happen
at any moment up to `cancel`, also after the child's end. A modification time
stands for the content: an archive that is there and is not the one that was
listed has another time. `Judge` is the switch of `runOne` with `verifyArchive`
and one turn of the loop in `Main`. `earlier` is a history variable: the runs
that could not publish any more when the folder was listed. `Spoil` is someone
who removes or cuts off an archive, `Abort` the end of the command by a signal
that its child does not get.

`Discovery` is the loop of `Discover`, one action per kind of row (`Skip`,
`Add`, `Merge`). A node copies its host, address, shard and replica from one
row, so that row's number stands for them.

`KeeperProbe` begins with the two lists of members that main gets, from the
server's connections and from its configuration; `MergeNext` is one turn of
`MergeTargets`. From `Begin` on there is one goroutine per member, and they
interleave: `Ask` is one four-letter command with its reply, `Write` the file
and the outcome, `WriteFails` what a write that ends early leaves. `said` is the
text of a member's file so far, one section per command; of a reply only its
kind is kept. `Turn` is a member that starts or stops serving, at any moment;
`was` remembers everything it has been. `State` and `Leaderless` are what the
dashboard makes of the files, not of the outcomes. The mapping to `KeeperCensus`
is at the module's end: `entry` is the outcome of a member, `page` what `State`
makes of its file. The census has no commands, replies, file names or
goroutines; the step that writes a file is its `Record`, or its `Lose` if the
write fails, and all before it are stutters.

`LogFiles` names a unit of a log by its number, so that a copy shows which part
of the log it is. `Open` is the `open` with `O_NOFOLLOW` and the `fstat`,
`Create` the copy's file and the seek, `Align` one step of `lengthToNewline`,
`Header` the line before the copy of a log over the cap, `CopyUnit` one step of
`io.Copy` through the `LimitReader`, `Fail` an error anywhere in between with
the deferred removal. Between any two of them `Write` lets the log grow, `Empty`
is a rotation that truncates it, and `Swap` puts something else in its place
before it is opened. `measured` remembers what the log held at the `fstat`, and
`cut` whether it was emptied since. In `LogSnapshots` a log is measured and then
taken, in one step, and copies have no names: `taken` is what the listed copies
hold of each log. `Done` is its `Take` (or `TakeSpoiled`, for a log that was
emptied in between), whatever gives up a log its `Miss`, and everything that
begins and fills a copy a stutter.

`Invocation` goes through main in its order, one action per phase: `ParseFlags`,
`ResolveMode` and `Gates` (the mode, its spellings, the prompt, and what the
mode withholds), the probes (`CheckVersion` to `AskSignals`), `Refuse` (what gov
cannot hash), `StartDryRun`, the analysis (`NoAnalysis`, `FocusOnBoth`,
`FocusOnID`, `FocusOnHash`, `PreflightFails`), `AskSalt`, `Select` with the
query files of `Selection`, `Collect` and `PassOver` for each of them in the
windows of `Windows`, and then every further thing that is collected or written.
`sent` holds each query that reaches the server: what it is for, which replicas
it reads, its file and its window. `bundle` holds what the run directory has,
and for each item whether all names in it are hashed. `effective` is
`effectiveMode`, which `DecideTopology` may change; `client` is whether
`SetDryRun` has been called, which is later than the first queries. What
`Collection`, `KeeperProbe`, `LogFiles`, `Alerts` and `Packaging` model in detail
is one step here.

`SqlText` works on a sequence of tokens, in the code's own steps: `Code` finds
what is outside quoted names and comments, `NextCall`, `MatchingParen` and
`SplitArgs` the call and its arguments, and one operator per rule says which
argument is a secret. `Redaction` starts with a DDL value of a result, with a
YAML document, or with the files of a configuration, which have no state in
common. `YamlText` numbers the nodes of a document in the order of the walk; the
recursion of `walkYAMLNode` with its `parentIsSensitive` is a function of the
number. The code passes a new flag for each key of a nested map, so the nearest
key decides which scalar is replaced. An alias is a node of its own, which the
walk leaves alone and which names the node that its anchor is at. The walk is
followed by the patterns for free text, which read the document as text: for
them the value of a map, a list or an alias is what comes first after its key.

`ConfigFiles` has a sequence of configuration files. An XML file is parsed token
by token with the stack of open elements; `scratch` is the package variable
`attrRewrites`, which outlives a file. A start tag is rewritten by a pattern over
its characters (`redactAttrs`), so it matters how a sensitive attribute is
written: `name="v"` is replaced ("secret"), a value without quotes or with
blanks at the equals sign is not ("apart"), and of a value that holds a quote of
the other kind what follows that quote stays ("mixed", of which "rest" is left).
A tag that the pattern leaves unchanged is not registered (`bytes.Equal`). What
counts as a credential is in `Credentials`, for both.

`Checks` has two steps. `Collect` makes the files out of what there is at the
server: the files of the logs are counted by the hour, those of `system` tables
are in the order in which the replicas happened to answer. A log is read for the
collector's own window (`Selected`), which ends at now or `-to` (`Ends`) and
begins at `-from` or so many days before now, one at most in an essential run
(`Begins`); the hour in which it begins is there in part. `Evaluate` is what
`RunAll` gets from each rule over those files. The properties compare `found`
with `world`, never with the files.

## 3. Runs

| Run | Module, cfg | What it asks |
|---|---|---|
| `collection` | `MCCollection`, `collection.cfg` | do the watchdog, the budget, the client's timeouts and settings, the log and the files stay right in every order of answers, timeouts and failures, does the collection implement `CollectionPromise`, and does the run end with every collector accounted for? |
| `alerts` | `MCAlerts`, `alerts.cfg` | is every verdict true of the server, or else an error or a skip with its true reason, and is the summary the count of them? |
| `packaging` | `MCPackaging`, `packaging.cfg` | one run and someone who removes directories: is every bundle complete about the alerts? Two runs that share a directory and a name: does `Packaging` implement `Publication`, so that an archive appears whole, at once, and never from a run that exits with 1? |
| `cluster` | `MCClusterCollect`, `cluster.cfg` | is "ok" for a whole archive of this turn, is none missed, is the exit code true, and does the deadline end the command? |
| `discovery` | `MCDiscovery`, `discovery.cfg` | is each machine one node, with the right label and errors, for every order of the rows? |
| `keeper` | `MCKeeperProbe`, `keeper.cfg` | is each member asked once, is a file its own member's, is a missing leader never guessed, and does the probe implement `KeeperCensus`, so that log and dashboard agree and are true of each member, however the goroutines interleave and the members change? |
| `logfiles` | `MCLogFiles`, `logfiles.cfg` | is every log copied or noted, is a copy a snapshot from a line on with an exact header, while the log grows, is emptied or replaced, and does the copying implement `LogSnapshots`, so that no copy is lost to another? |
| `redaction` | `MCRedaction`, `redaction.cfg` | do the scanners find the calls and arguments that the author of a DDL wrote; is every scalar of YAML replaced whose nearest key is sensitive; is every sensitive text and well-written attribute of XML replaced, and what can a file that did not parse leave in what is written for another? |
| `invocation` | `MCInvocation`, `invocation.cfg` | does the mode that was meant decide what is shipped, is everything read from one scope, in the window that was asked for, and by the newest query the server understands? |
| `checks` | `MCChecks`, `checks.cfg` | do fifteen rules find what went on at the server, at the edges of every rule's and collector's window and of every threshold, once, and never hide what could not be read? |
| `v_dry_run` | `MCInvocation`, `v_DryRunContract.cfg` | what a dry run still sends to the server, against the list in the documentation (section 6) |
| `v_nested_scalars` | `MCRedaction`, `v_NestedScalars.cfg` | what stays of the scalars below a sensitive key of YAML, against the comment of `walkYAMLNode` (section 6) |

Some type invariants and safety properties are proved for every value of the
constants and not repeated by a run, because they say less about the code than
the properties beside them; section 4 names them. All were checked with TLC on
the same instances before they were proved.

**Bounds of `MCCollection`.** Ten invocations: each `-collect` mode, with and
without an operator's budget, with the default timeout, an explicit short one
and none, over catalogues in which the essential collector is not the first by
name, one has a typo, one is empty, one is unreadable and one needs Keeper.
Three replies of the load probe: healthy, without a Keeper session, and no
answer. Three gentle settings, of which the profile may refuse the last. Three
collectors are the fewest with two slow ones in a row and one left over to see
the effect; or one that trips the run, one essential after it and one full. One
unit is about 15 s: `SlowQuery` = 2, `EssentialBudget` = 4, timeouts 3+2 (full)
and 2+1 (essential), so that a slow query can be under or at its limit and the
budget can run out before, in or after any collector. `Pauses` are the times
that the probe and the prompts take: none, or more than the whole essential
budget. `MaxWait` bounds the wait for a request without a timeout. The
run has 1.5 million distinct states.

**Bounds of `MCAlerts`.** Two collectors: the data of a check, with each of the
eight ways a collector can end and the file it leaves, and the presence list,
with three. Two replicas, the fewest for a table that some lack; grants that
show nothing, the database, or the table as well. Three directories of two to
four rules: Go checks (one with a presence list, one that reads two sources and
is not for cloud), queries of both tiers around a check, and broken rules (a
typo, an unreadable file, an unknown check, an unsafe query). The budget has no
end or ends in the course of the phase, which begins before or after it. The
rules do not influence each other except through the clock, so more rules add
nothing but time. The run has 21,800 distinct states.

**Bounds of `MCPackaging`.** The first run is alone or is joined by a second;
`Scope` cuts the behaviours that are neither. Alone: four invocations that differ in which files
are written and whether an archive is made; every subset of the writes may fail.
Shared: the two properties are about the archive and
not about which files it has, so the runs write two files each, which is enough
for either to overwrite, truncate or mix with what the other has packed or is
packing. With two runs each can be first at every step; a third adds no order
between two that is not there already. 1.5 million distinct states.

**Bounds of `MCClusterCollect`.** Two nodes, the fewest for a run of an earlier
turn and one that is still to come, in one folder or in two; one stray. Folder
"a" has two names, so that archives share a name or one has the greater, and
nobody touches it but the runs. In folder "b" (`Meddling`) archives are removed
and cut off, also in the turn of the other node. 444,000 distinct states.

**Bounds of `MCDiscovery`.** Three rows are the fewest in which a node is made,
replaced and kept again. Two clusters, one of them `default`; two shards; a
loopback address and another; errors 0 and 1. All answers, 571,000 distinct
states.

**Bounds of `MCKeeperProbe`.** Two members, the fewest of which a leader can be
missing, and an auxiliary connection to the host and port of one, so that one
file name could serve two and a machine is asked twice. A member answers all
words or lacks some. Four commands: one that is answered when a member is not
serving, the two that decide, and one more. One mishap, a member that changes or
a file that fails, which may come between any two commands of either goroutine.
Every reply may also be a timeout or another error. 1,262,808 distinct states.

**Bounds of `MCLogFiles`.** Two directories, each with a log of one name, found
by the flag, by the configuration or at the packaged place, in every order;
at most two paths in the configuration (`MaxPaths`), of which one may be named
twice; two numbers for names. A cap of three units, of which up to two may be skipped
to reach a line, and logs of up to five units with the ends of lines anywhere,
so that a log is under, at and over the cap, and a line ends within the bound,
at it and beyond it. One thing besides writing happens to the logs. 2,031,000
distinct states.

**Bounds of `MCRedaction`.** Calls of every rule with one to four arguments,
each a literal, a word, nothing, or a quoted name that looks like a call; calls
in calls; the texts of such calls cut off at every token, and any four tokens.
YAML documents of four nodes, in maps and lists in every way, with aliases of
any of the nodes before. Pairs of configuration files, the fewest for one to leave
something to the next: the first has up to three tokens in any order, with
attributes of each form, and may not parse or, with one token, not be XML; the second has
elements within elements, sensitive or not. 276,000 distinct states.

**Bounds of `MCInvocation`.** Groups of invocations, each of which varies what
belongs together: spellings of the mode with a salt that is good, bad or asked
for and everything that gov refuses; where the files and the server are and how
many replicas there are; windows with either bound, both, equal and inverted;
analyses of queries that ran here or elsewhere, on servers 12 hours behind UTC
to 14 ahead; dry runs; and folders with files at the root, for several versions
(24.10 among them), and under names with a dot. What the server answers and
whether a write succeeds is free at every step. 963,000 distinct states.

**Bounds of `MCChecks`.** A day is three hours and a week four, so that a file
has hours before, at and in every window; quarters of an hour, so that events
fall at the edges of an hour; thresholds of five, met by one event or by several.
Two replicas for what all list, three for the blocks of a partition; answers in
every order; each collector that a rule reads may be missing. The logs are read
in full runs and in essential ones whose day begins in the middle of an hour,
with `-from` inside the rule's window and before it, and with `-to` in the window
and before it. The rules do not influence each other, so each group of servers
is about a few of them. 60,000 distinct states.

**Fairness** (`FairSpec` of `Collection`). The program is sequential and never waits for anything but
an answer, so its steps are weakly fair. An answer is weakly fair as long as the
client has a timeout, because `http.Client` then ends the request itself; a
request without a timeout (`-query-timeout 0`) gets no fairness, and
`Termination` does not claim that such a run ends. `FairSpec` of
`ClusterCollect` asks that the command is scheduled and that time passes
(`Expire`, always a finite `-timeout`); of the runs it asks nothing. `Kill` is a
step of the command because `exec.CommandContext` sends SIGKILL, which a process
cannot ignore. `KeeperProbe` and `LogFiles` state weak fairness of the tool's own
steps, since a dial and a reply have deadlines and a local copy is bounded by
the cap; their `Termination` is stated for the reader and is not one of the
runs' properties. `Invocation`, `Redaction` and `Checks` are about what may
happen and have no fairness. Their runs, as those of `KeeperProbe`, `LogFiles`,
`ClusterCollect` and `Discovery`, end in states without a step, which is where
the code ends; for them TLC does not check deadlock.

## 4. Proofs

`Collection_proofs` proves for every catalogue, every invocation and every value
of the thresholds, timeouts and budgets that satisfies the three named
assumptions (`CollectModeAssumption`, `ClientAssumption`, `CollectionAssumption`).
These say that the durations are positive, that the essential timeout and margin
are no longer than the full ones, and that a run without an explicit timeout
uses the default one; all are facts of the constants in the code and of
`flag.Visit` in main.

`TypeCorrect` is inductive as it stands. The other invariants are not, and
`IInv` adds what they rest on, one conjunct per argument:

- `ClientInv`: in each phase the client has the timeouts of a full run or, from
  the first step of `applyEssential`, those of an essential one; so
  `ServerEndsFirst`, `Gentle` and `NoRefusedSetting` follow once `WireInv` says
  that the request on the wire was sent with them.
- `LockInv`: what a locked watchdog and a decision of "full" have in common;
  `FullIsFull` follows.
- `PhaseInv`: what has not happened yet in each phase, among others that the
  clock was set after the last step before the loop; `BudgetStart` follows.
- `BudgetInv`: how far the clock can have passed the budget given how many
  gentle settings have been tried; `BudgetBound` follows, and needs it because
  the bound is reached by several steps in a row, none of which checks it.
- `KeeperInv` and `TripInv`: that no collector that waits for Keeper runs, and
  that `lastSlow` is the last entry of `ran` whenever that was slow, which is
  what makes `TripsExactlyOnTrouble` inductive.

`Invariant` is proved by one lemma per conjunct, each with one step per action.
`Refinement` shows that each step of `Collection` is a step of
`CollectionPromise` or a stutter under the mapping at the end of `Collection`.
`IInv` was also checked with TLC on the instance above.

`Alerts_proofs` proves every invariant of the run `alerts`, for every directory
of rules, every end of the collectors that is `Consistent`, and every budget.
Its inductive invariant has three parts beside the types. `VerdictInv` says that
each verdict is `Just`, the conjunction of what the four properties of verdicts
say of one rule; it is inductive because a verdict, once given, is never
touched. What has to be carried from one step to the next is only the probe:
`ProbeInv` says that the counts are under way only for a live rule in cloud that
passed every gate, and that the table is counted only for a user who sees the
database, which is why a count of zero means what it says. `TimeInv` counts the
requests sent since the budget was last looked at (`Sent`), which gives
`AlertOverrun` its three requests. `CutIsNotRead` is the key lemma for the
checks: the file of a write that ended early belongs to a failed entry whose
error cannot be UNKNOWN_TABLE, so `Rows` never returns it. `SummaryIsHonest`
lifts the statement about single verdicts to the numbers of the summary with the
library's facts on cardinality.

The same module proves the four properties of the run `checks`, for any servers,
any number of replicas and any values of the thresholds. `FilesInv` says that a file
that is there holds what its collector selects, each row once, in some order
(`Lists`), and that a file is missing only for a reason. `Evaluate` is one step,
so what is left is to compare a rule with the server. `ListedOnce` compares
cardinalities: the rows that `DetachedParts` counts are one for each path
(`EachPathOnce`), and the first unfinished row of a mutation is the only one
(`EachMutationOnce`). For the blocks it needs the greatest number of a finite set
(`MaxIsGreatest`), because a row says how far it is behind the newest block. The
assumption on the constants (`Listing`) says that what a server lists is finite,
that a replica lists a detached part once, that its path is within the
directory of its table, and that events are counted in natural numbers.

`NothingIsCutOff` and `LimitsAreSeen` are about sums, which the collectors make
of events by the hour and the rules of hours by the host. A sum over a finite
set is the one function on its subsets that adds what each member counts
(`Adds`). `FiniteInduction`, an induction over the subsets of a finite set
that takes a set of subsets where the library's theorem takes an operator, shows
that there is such a function (`SumExists`) and that the fold of the community
modules is it (`SumOfIsSum`). After that `TotalOfGroups` is the key lemma: rows
that count disjoint sets of events count together what the events count. With it
the rows of an hour and the events of that hour have one total (`HourTotals`),
and the rows of a window lie between the events of the last hour and those of the
last two (`RefusalsCounted`). Between the two stands the collector's own window:
of what went on (`Known`) the files have what comes after its beginning
(`SelectedOfKnown`), which is all of an hour if the window begins before it, and
of the hour it begins in a part (`ReadHours`). So `NothingIsCutOff` speaks of hours
that were read in full; of the hour at the edge it says only that there were at
least as many new parts as the rule counted. For the limits `MetricsInv` says that the files of
the metrics hold what was measured. `SizeIsFound` goes through the places that
the size of a pool may be in; the assumption (`Measured`) is that a host either
says it in every hour or has the one that its version and mode configures.
`RunsOut` divides both sides of the rule by the hours that were measured. A rate
that changes from hour to hour is outside `LimitsSurface`: the code takes the
mean, and so does the rule.

`Packaging_proofs` proves every property of the run `packaging`, for any
number of runs in any number of directories. `ArchivesAreWhole` and
`PackagingKeepsPromise` rest on `StreamInv`: from `Sync` on a stream has its
footers, and from `Close` on nothing of it is lost; it mentions only the run's
own temporary file, which no other run can touch, and so needs no assumption
about who shares a directory. `GovKeepsNames` and `AlertsOnRecord` do, and hold
for a run that is `Alone`. `GovInv` says that a gov run is never at the
dashboard and that its directory has none. `RecordInv` follows the record of the
alerts from the file (`InDirectory`) through the list of names into the stream
(`InStream`), where it is either copied whole or still to be copied from a file
that is whole or gone; a file that is gone stops the walk. It needs `Opened`:
the file that a run has open is its own. The proofs use `Frame`: a step of one
run changes nothing of a run that is alone.

`ClusterCollect_proofs` proves the safety properties of the cluster runs for any
number of nodes and strays and any labels. `Progress` and `Tallied` say where
the command is and who has a result. `Published` says that an archive that is
shown is from a run that was started and is past publishing. The core is
`Remembered`: what a run of an earlier turn shows in the node's folder is what
`before` has, because such a run publishes no more, so an archive that differs
from `before` is of this turn. `Chosen` carries that over the gap between
`newArchive` and `verifyArchive`, in which another archive may take the name.
`FreshOk` then only has to exclude the other nodes' runs, which are in `earlier`
or not yet started (`OneAtATime`). The choice of the greatest name is a
disjunct of `Choose` for which nothing is to be proved.

For `Discovery` the module proves by a loop invariant that after each row every node is
what the rows so far say (`NodeFrom`). `BetterIsRank` shows that the nested
comparison in the code is the order of one number, which makes it total and
transitive; `CountsOnce` that each row counts for one machine or none.

`KeeperProbe_proofs` proves every property of the run `keeper`, for any lists of
members, commands, core set and allow-lists, and any number of mishaps, from
`KeeperAssumption`: names of hosts stay apart in file names, the commands
contain `srvr` and `mntr`, and only `ruok` of the core ones is answered by a
member that does not serve. `ProbeInv` is the conjunction of the types (`Typed`),
what the merge has come to (`Merged`), whom a file belongs to and what it can
hold (`Kept`, `Filed`), what each reply says of the machine it came from
(`Voices`), that after a failure everything is skipped (`Once`), and that a dry
run has nothing (`Dry`). `Filed` needs that two members never have one file
name, which `FileName`, the ensemble and the assumption on hosts give together.
`SpecLogAndPanelAgree` compares two functions of the same sections and rests on
`Once`: a member that failed once and answered nothing before cannot read as
serving. `SpecLeaderlessIsNoGuess` needs `Voices` for the files as well as for
the log: what stands in a file was said by the member the file is named for, and
a "not serving" in it means that this member was loading while it was asked. That
holds of writes that failed too: what is left of one is a beginning of the
sections, perhaps with the last one cut off, so it can read as an answer but
never as "not serving".

`SpecTakesCensus` is the refinement of `KeeperCensus`, and the strongest of
them: it implies that the log and the panel agree. It has four arguments. A
member has its entry and its page from one step, because only the goroutine that
asks it writes them and two members have different files. The two entries agree,
which is `SpecLogAndPanelAgree` at the step that makes them. What the panel
reads in a whole file is true of the machine (`SpecPanelNeverGuesses`), which
rests on what a file's text attests (`Attests`: an answer in it comes from a
machine that has been serving; `Voices` has the same for "not serving"); of a
file that a failed write has left only "not serving" is. And the entry that is
made is the first of its member, because the list has each once. `CensusInv` is
`ProbeInv` with `Attests`.

`LogFiles_proofs` proves every property of the run `logfiles`, and besides
them `CopiedIsThere`, `WithinCap` and `OnlyRegular`, for any directories, cap and bound. `LogInv`
says what the log still holds of what was measured (`Measured`), where the copy
may begin (`Placed`), that what has been copied so far is that part of it
(`Copied`), and what all copies have in common (`Kept`). `Measured` and `Copied`
are for a log that is not `cut`; the step that matters is `Write`, which changes
the log and must leave the measured part alone. Why the copy is complete when
the loop ends is `Finished`: the log cannot have become shorter than what was
measured, so the loop ended at the limit. `BooksInv` is about all logs: the place
in the two loops over directories and entries (`Walk`), and that the logs before
that place are copied or noted and no others (`Accounted`), each copy under the
log's name with a number that no other has (`Numbered`). The numbers of a name
are given out in the order of the directories, so that the next is free as long
as there are no more directories than numbers; `NoCopyLost` and `LogsAccounted`
have that as their hypothesis (`Enough`), which in the code is 99 directories.

`SpecTakesSnapshots` is the refinement of `LogSnapshots`, under the same
hypothesis for the whole behaviour (`[]Enough`): with more directories than
numbers the name after the last is the first one again, a copy that is listed is
opened anew, and what is taken of one log turns into something else. The
abstract specification has no names, so the theorem says in one formula that no
copy goes over another (`NoCopyLost`), that each log is accounted for, and that
a copy is a snapshot with a true header. A step that writes to a copy is a
stutter because the copy is not listed yet (`Stutters`); `HandWaits` shows from
`Books` that the log at hand has neither copy nor note, and `Lists` that a copy
that is done changes what is taken of this log and no other. Two facts are added
to the invariants: `cut` is false until the log is measured (`Uncut`), and a
copy has a header exactly if it is not the whole log (`Headers`; `HeaderIsExact`
only says what a header says if there is one).

`ConfigFiles_proofs` proves what the run `redaction` checks of the files of a
configuration and `ShipsOnlyParsed`, for every sequence of files. Its invariant
says of the file at work that the stack is what its tokens so far have opened and
not closed, that what is sensitive among them is in the spans (`Parsed`), and
where every entry of `scratch` is from (`Scratch`): it is the rewritten tag of a
start tag of the file at work, or one that an earlier file which did not parse has
left (`IsLeft`). `OnlyTheUnparsedLeaveTags` needs the last; `NothingSensitive` only that a
tag in `scratch` has nothing of an attribute left but what stands after the other
quote, whatever file it is from. A sensitive attribute that the pattern does not
match ("apart") is outside `NothingSensitiveShipped`, since it ships (section 6).

The same module proves `NearestKeyDecides`, for YAML documents of any depth, with
aliases. The walk is a recursive function on the numbers of the nodes, of which
`FlagsExist` shows that there is one, and `WalkFlags` what it satisfies: a node is
within an earlier one, so `NodeInduction` (from the first node for which something
fails) serves for both. `NearestDecides` follows the lists from a value to its
nearest key, and `SensitiveByKey` builds that path. The nearest key is one of the
keys above (`NearestIsAbove`), hence what is below no sensitive key stays. Of a
scalar below a sensitive key with another key in between the theorem says nothing.

`Invocation_proofs` proves every property of the run `invocation`, and besides
them `DryRunOnlyLooks` and `MixedHostsAreTold`, for every set of invocations, servers and query folders.
`GovInv` carries "not plainly something else" from the flags through the mode to
each item: past the gates nothing local is left, past the refusals nothing that
cannot be hashed, past the prompt there is a salt. `ScopeInv` says that
`effective` does not change after the topology and that it is cloud only for a
reason. `LookInv` says of a dry run that its client is the dry one from the
analysis on, that the steps after the collectors are never reached, that all
that was sent is a look, that nothing is in the bundle, and that the temporary
directory is gone at the end. `FocusInv` follows the query in focus: the window
is that of an execution on the server or the operator's own bounds, for zones of
12 hours behind UTC to 14 ahead, which is where the margin of the analysis
comes from. `AskedInv` says of each query that was sent that its window is the
one that was asked for, and `MixedInv` that the warning about mixed hosts has been
given before anything of one machine is collected.

`SelectedIsGreatest` is about two loops, `Only` and `Preferred`, which `Selection`
writes as recursive functions. `Iterates` shows that such a loop has a result:
the first n rounds have one, for every n. It is an induction over a set of
numbers (`Induction`), from the least number that is not in it, and so needs
none of the library's theorems that take an operator. `OnlySteps` and `BestSteps`
turn the two recursive functions into such loops; after that `BestLoop` has an
invariant like any other: what is preferred so far is the greatest of the files
seen so far. `IsGreater` is an order on versions (`GreaterIsOrder`), and a file
at the root counts as older than any version.

Proved and not repeated by a run: the types of `Collection`, `Packaging`,
`ClusterCollect`, `Discovery`, `KeeperProbe` (`TypeOK`) and `Alerts` (`TypeOK`,
theorem `TypeCorrect`), `BudgetStartsWithCollectors`, `RefusedSettingNeverSent`
and `FullIsAPromise` of `Collection`, `SourcesDecide` and `AlertOverrunBounded`
of `Alerts`, `NoRawNamesInGov` and `PublishedIsWhole` of `Packaging`,
`OneAtATime` of `ClusterCollect`, `OneFailurePerMember`, `DryRunAsksNobody` and
`LogAndPanelAgree` of `KeeperProbe` (the last follows from `TakesCensus`), `CopiedIsThere`,
`WithinCap` and `OnlyRegular` of `LogFiles`,
`FailsClosed` of `ConfigFiles`, and `DryRunOnlyLooks` and `MixedHostsAreTold` of
`Invocation`.

Only model-checked: both `Termination`s (liveness is out of the prover's reach);
`SqlAsParsed`, since calls in calls are a recursive definition over texts of any
depth (`RECURSIVE`); and the violation runs.

## 5. What is not modelled

- **Rules** `too_many_parts`, `large_parts` and `replication_queue_errors`: each
  compares one number of one row with one threshold. The conversion of the values
  of a result (`bundle.go`) is taken as exact.
- **Keeper**: parsing the member lists of the server and of the configuration,
  parsing a reply into the numbers of the panel, and the filter that gov mode
  lays over a reply. `KeeperProbe` has what a reply is, not its text.
- **Redaction**: the patterns that look for tokens in free text, in comments and
  in attribute values are regular expressions over characters; `Redaction` has
  classes of text, sensitive or not. Which files of the configuration there
  are, and how large, is an input.
- **Queries**: the text and the validator (`validator.go`); a query is accepted
  or refused. Of the placeholders only those of the window are modelled; the
  scope of detached parts (`detached_scope.go`) rewrites a file's text from one
  flag.
- **Results**: the output formats, the dashboard's panels, the schema graph, and
  the gov mapping's query are formatting or one request each. To `Packaging` the
  collectors' files are one; the schema graph next to the dashboard does not
  influence it.
- **Cluster command**: the command lines it builds, `isThisMachine`, `Label`, the
  order of the nodes, `-collect-from each-node`, and what it prints. A change of
  an archive's modification time alone is not modelled.
- **Host facts**: their collection is one item of `Invocation`; what they say is
  read from `/proc`, `/sys` and commands, each on its own.
- **Bundle inspector**: a script that prints a finished bundle.
- **Prompts** for a host or a password, and all console output.
- The **run log** is written twice, before and after the dashboard, and the second
  write truncates the first (`runlog.go`, `WriteFile`). A failure half-way leaves
  less than there was. It is not modelled, because the code promises nothing
  there.
- `max_execution_time` is sent in whole seconds, rounded up; the model sends the
  duration. The constants of the code are whole seconds.
- `Collection` takes `text_log`, the analysis, the Keeper member list and the gov
  mapping as one request each with the same client; which requests they are is
  in `Invocation`, `Windows` and `KeeperProbe`.

## 6. Where the code and its documentation disagree

Two disagreements have a run:

- `v_dry_run`, property `DryRunContract`: a comment in main says of the dry run
  that its "contract allows only the version / preflight / EXPLAIN metadata
  queries to reach the server" (`main.go:404`), and `docs/running.md` has the
  table. The visibility query is guarded by `client.IsDryRun()` (`main.go:347`),
  which is false until `SetDryRun`, far below (`main.go:610`), and is sent; so
  is the `SELECT 1` with the settings of the essential mode.
- `v_nested_scalars`, property `EveryNestedScalarRedacted`: the comment of
  `walkYAMLNode` says of a value "whose mapping key was sensitive — under such
  nodes every nested scalar is redacted" (`sanitizer.go:302-304`). The case of a
  map passes the flag of its own keys down and not the one it was given
  (325-336), so below `password:` the value of `file:` is written as it is. In a
  list, and in lists of lists, it is as the comment says. `YamlByNearestKey` is
  what holds.

The modules state other sentences of the documentation too, in definitions that
are no property of a run. TLC finds each violated on the instance of its module
(the two marked * are action properties):

- `TypoNeverSilentlyFull` (`Collection`): `internal/query/tier.go` says that an
  unknown tier is an error, so that a typo cannot make an essential collector
  silently full. `orderByTier` drops the error: the collector is full, and
  skipped in an essential run.
- `BudgetCoversTheRun`* (`Collection`): `docs/running.md` gives the whole run a
  budget; the requests after the collectors are sent without a look at it.
- `AbsentTableIsNoFailure` (`Alerts`): the comment in `collectorStatus` says that
  a table the server does not have is no failure. The function looks for
  UNKNOWN_TABLE in the error of the log, which gov mode has reduced to a code and
  every mode cuts at 300 bytes; the rule then says "failed" instead of "not
  collected".
- `CrashNeverHidden` (`Alerts`): `system.crash_log_presence.sql` says that crashes
  that could not be read are surfaced, never hidden. `checkCrashLog` takes an
  empty presence list for "none has crashed", although `system.tables` shows
  nothing to a user without grants on the table; `notApplicable` guards against
  exactly that.
- `NoSuccessWithoutBundle` (`Packaging`): a comment in main says that the exit code
  is non-zero so that nobody takes a run without a bundle for a successful one.
  Before there is a run directory main returns with 0, for one when the server
  does not answer, and `CreateArchive` returns nil if the directory is gone.
- `OnlyThisRunCounts`* (`ClusterCollect`): a comment in `runOne` says that only an
  archive this run created or replaced counts. Any archive that appeared in the
  folder counts; that of a run which an earlier, killed command left at work
  makes the node "ok" even if its own run exited with 0 and left none.
- `LeaderlessNeedsTwoMembers` (`KeeperProbe`): the comment of `Leaderless` asks for
  two members that answer "not serving". One member that is known by two names,
  as the server's host name and as the configuration's, is two targets; with
  `MCSameAt` for `At` TLC finds an ensemble without a leader that has one member.
- `HeaderIsExact` (`LogFiles`): a comment in `copyTail` says that the header has
  the exact number of payload bytes. It is written from the size that was
  measured, and a log that is emptied in place during the copy gives fewer.
  `HeaderIsExactUnlessCut` is what holds.
- `OutputIsItsOwn` (`ConfigFiles`): `attrRewrites` is called a per-call scratch map
  (`sanitizer.go:223`). It is one map of the package, and what a file that does
  not parse has left in it is used for the next. `OnlyUnparsedLeaveTags` is
  what holds: a file that did not parse, however long ago, is the only one that
  can leave anything, and that is a start tag with its values replaced.
- `EveryAttributeRedacted` (`ConfigFiles`): the comment of `redactXML` says that
  "attribute values whose attribute name is sensitive are redacted in place"
  (`sanitizer.go:117`). The parser is not strict and accepts a value without
  quotes, and blanks at the equals sign; the pattern of `redactAttrs` does not
  know either, the tag is left unchanged, and the value ships unless the patterns
  for free text know it. A value that holds a quote of the other kind ships from
  there on. `NothingSensitiveShipped` is what holds.
- `AliasedScalarRedacted` (`YamlText`): `walkYAMLNode` has no case for aliases. A
  sensitive key whose value is an alias keeps it, and what the alias stands for
  is replaced only if its own key is sensitive. The patterns for free text do
  replace what stands after `password:`, which can be the alias, a dash or the first
  key of a nested map; the file may then no longer be YAML.
- `DayCoversLookBack` (`Checks`): a comment says of the collector of exceptions
  that "one day covers their 24-hour look-back"
  (`system.query_log_exceptions_1_day.sql:8`). The look-back of the rules ends at
  `-to`, the day of the collector begins at one before now; with `-to` alone, a
  day old or older, the file is empty and the rule reads clean.
- `EdgeHourIsWhole` (`Checks`): the rules judge an hour by its row. In an essential
  run, or with `-from`, the collector's window may begin in the middle of that
  hour, and the row is of its second part: an hour whose merges came first looks
  stalled, and one whose new parts came first does not. `HoursSurface` is
  what holds.

Met while modelling, and stated here without a definition:

- `PreflightForHash` compares `event_time` with bare literals, which the server
  reads in its own zone; the comment of `utcLiteral` (`template.go`) explains why
  the collectors must not.
- `-to` alone, older than a query's look-back, gives that query a window whose
  beginning is after its end; it returns nothing and nobody is told.
- `-collect-text-log` with `-from` equal to `-to` passes the check of the flags
  and is refused by the collector, after everything else has been collected.
- `docs/running.md` says that a dry run lists the alert rules without a `check:`;
  main returns before it reads the rules.
- `uniqueName` returns the first name again when all of its 99 are taken; the
  copy then replaces one. `LogFiles` has fewer logs of one name than that.
- `dateDiffHours` cuts at the hours of UTC; the function of the server that it
  stands for cuts at those of the server's zone, which differ in zones of half an
  hour.
- `docs/running.md` says that a gentle setting is left out if the settings profile
  refuses it; `applyEssential` leaves it out when its `SELECT 1` fails for any
  reason.
- `docs/bundle.md` says that a bundle holds only its own run's configs;
  `Packaging` shows how two runs of one second pack each other's files.
- The comment of `Discover` promises one node per machine; another server at the
  address of the node that was asked becomes a second node, as the key `Self` of
  `Discovery` shows.

## 7. Plan

Done: the core (`Collection` with its promise, `Alerts`, `Packaging` with its
promise, `ClusterCollect`, `Discovery`), then `KeeperProbe`, `LogFiles`,
`Selection`, `Windows` and `Invocation` (the gates of main, the windows, and the
files chosen for a server), `SqlText`, `YamlText`, `Redaction`
and `ConfigFiles`, and `Checks`; then the proofs, and last the abstract specifications
`KeeperCensus` and `LogSnapshots` with their refinements.

What is left, in the order of what matters most to the user of a bundle:

1. **`Run`**: `Collection`, `Alerts` and `Packaging` in one behaviour, with the
   run log as the state they share, to state what a bundle says of its own
   completeness, the second write of the log included.
2. **`Label` and the command lines of the cluster command**: whether two nodes
   can have one label, and which node may read this machine's files.
3. **The three rules left out**, and the values of a result as numbers of a width.
