------------------------------ MODULE KeeperProbe ------------------------------
(***************************************************************************)
(* The Keeper facts (internal/keeper): the members to ask come from the    *)
(* connections of the server and from its configuration; one goroutine per *)
(* member asks it the four-letter commands in their order and writes the   *)
(* member's file; the dashboard reads the files back and says which        *)
(* ensembles have no leader.  A member may start or stop serving between   *)
(* two commands.  Of a reply only its kind is kept.                        *)
(***************************************************************************)
EXTENDS Naturals, Sequences, FiniteSets

CONSTANTS
  Target,     \* [host, port, ensemble]
  Default,    \* the ensemble of the <zookeeper> block
  Safe,       \* a host as it stands in a file name
  Machine,    \* the Keeper processes
  At,         \* the one that a host leads to
  Connected,  \* lists of the members that the server's connections can be on
  Configured, \* lists of the members that its configuration can name
  Allows,     \* allow-lists of four-letter words that a member can have
  Commands,   \* in the order they are sent
  Core,       \* those that decide the status
  Quiet,      \* those a member answers when it is not serving too
  MaxMishaps  \* bound: changes of the members and failures of the disk

Failure == {"timeout", "refused", "other"}

Section == {"answer", "empty", "not serving", "skipped"} \cup Failure

Name == {<<Safe[t.host], t.port>> : t \in Target}
          \cup {<<t.ensemble, Safe[t.host], t.port>> : t \in Target}

ASSUME KeeperAssumption ==
  /\ Connected \subseteq Seq(Target) /\ Configured \subseteq Seq(Target)
  /\ \A t \in Target : At[t.host] \in Machine
  /\ \A t, u \in Target : t.host = u.host /\ t.port = u.port /\ t.ensemble = u.ensemble => t = u
  /\ \A t, u \in Target : Safe[t.host] = Safe[u.host] => t.host = u.host
  /\ Commands \in Seq(STRING) /\ Len(Commands) > 0
  /\ \A n, k \in 1..Len(Commands) : Commands[n] = Commands[k] => n = k
  /\ {"srvr", "mntr"} \subseteq Core /\ Core \subseteq {Commands[n] : n \in 1..Len(Commands)}
  /\ Core \cap Quiet \subseteq {"ruok"}
  /\ Allows \subseteq SUBSET STRING
  /\ MaxMishaps \in Nat

VARIABLES
  pc,       \* where main is
  dry,      \* -dry-run
  given,    \* the members listed: connected, then configured
  next,     \* the entry of given that MergeTargets is at
  targets,  \* the members to ask
  said,     \* for each target, the sections of its file so far
  status,   \* for each target, Outcome.Status, "" until there is one
  written,  \* the targets whose outcome has a file
  files,    \* what each file of keeper/ holds, nothing if there is none
  up,       \* what each machine is doing
  was,      \* history: what each machine has been doing since the start
  allowed,  \* the words each machine answers
  mishaps   \* those there have been

machines == <<up, was, allowed>>
vars == <<pc, dry, given, next, targets, said, status, written, files, machines, mishaps>>

-----------------------------------------------------------------------------
(* The list of members.                                                    *)

Skips(setting, mode) ==
  \/ setting = "off"
  \/ setting = "auto" /\ mode = "cloud"

\* The connections cannot be read without a Keeper session, nor by servers that
\* do not have the table.
Connections == Connected \cup {<<>>}

\* The nodes of the configuration are all of the default ensemble, and there are
\* none when the tool runs elsewhere.
Nodes ==
  {l \in Configured \cup {<<>>} : \A n \in 1..Len(l) : l[n].ensemble = Default}

Init ==
  /\ \E setting \in {"off", "on", "auto"}, mode \in {"cloud", "onprem", "gov"} :
       pc = IF Skips(setting, mode) THEN "skipped" ELSE "merge"
  /\ dry \in BOOLEAN
  /\ \E connected \in Connections, configured \in Nodes : given = connected \o configured
  /\ next = 1
  /\ targets = <<>>
  /\ said = <<>>
  /\ status = <<>>
  /\ written = {}
  /\ files = [f \in Name |-> {}]
  /\ up \in [Machine -> {"serving", "loading", "down"}]
  /\ was = [m \in Machine |-> {up[m]}]
  /\ allowed \in [Machine -> Allows]
  /\ mishaps = 0

\* Mutant of Seen: only the entry before is looked at.
SeenLast(t) == targets # <<>> /\ targets[Len(targets)] = t

Seen(t) == \E n \in 1..Len(targets) : targets[n] = t

MergeNext ==
  /\ pc = "merge" /\ next <= Len(given)
  /\ next' = next + 1
  /\ targets' = IF Seen(given[next]) THEN targets ELSE Append(targets, given[next])
  /\ UNCHANGED <<pc, dry, given, said, status, written, files, machines, mishaps>>

\* Nobody to ask; or a dry run, which lists whom it would; or the directory
\* cannot be made and nobody is asked; or one goroutine per member starts.
Begin ==
  /\ pc = "merge" /\ next > Len(given)
  /\ \/ targets = <<>> /\ pc' = "none"
     \/ targets # <<>> /\ dry /\ pc' = "listed"
     \/ targets # <<>> /\ ~dry /\ pc' \in {"failed", "ask"}
  /\ said' = [i \in 1..Len(targets) |-> <<>>]
  /\ status' = [i \in 1..Len(targets) |-> ""]
  /\ UNCHANGED <<dry, given, next, targets, written, files, machines, mishaps>>

-----------------------------------------------------------------------------
(* One goroutine.                                                          *)

Alive(m, cmd) ==
  CASE up[m] = "down" -> "refused"
    [] up[m] # "down" /\ cmd \notin allowed[m] -> "empty"
    [] up[m] # "down" /\ cmd \in allowed[m] ->
         IF up[m] = "serving" \/ cmd \in Quiet THEN "answer" ELSE "not serving"

Replies(m, cmd) == {Alive(m, cmd), "timeout", "other"}

\* One network failure means the member is down, unreachable or hung.
Stopped(s) == \E n \in 1..Len(s) : s[n] \in Failure

Ask(i) ==
  /\ pc = "ask" /\ status[i] = "" /\ Len(said[i]) < Len(Commands)
  /\ \E reply \in IF Stopped(said[i]) THEN {"skipped"}
                  ELSE Replies(At[targets[i].host], Commands[Len(said[i]) + 1]) :
       said' = [said EXCEPT ![i] = Append(@, reply)]
  /\ UNCHANGED <<pc, dry, given, next, targets, status, written, files, machines, mishaps>>

Answers(s, cmd) == \E n \in 1..Len(s) : Commands[n] = cmd /\ s[n] = "answer"

Has(s, kind) == \E n \in 1..Len(s) : s[n] = kind

\* Mutant of Status: the core commands decide before anything else.
StatusCoreFirst(s) ==
  IF \A cmd \in Core : Answers(s, cmd) THEN "ok"
  ELSE IF Has(s, "not serving") THEN "not serving"
  ELSE IF Has(s, "answer") THEN "partial"
  ELSE IF Has(s, "refused") THEN "refused"
  ELSE IF Has(s, "timeout") THEN "timeout"
  ELSE "failed"

Status(s) ==
  IF Has(s, "not serving") THEN "not serving"
  ELSE IF \A cmd \in Core : Answers(s, cmd) THEN "ok"
  ELSE IF Has(s, "answer") THEN "partial"
  ELSE IF Has(s, "refused") THEN "refused"
  ELSE IF Has(s, "timeout") THEN "timeout"
  ELSE "failed"

\* Mutant of FileName: the ensemble is left out.
FileNamePlain(t) == <<Safe[t.host], t.port>>

FileName(t) ==
  IF t.ensemble = Default THEN <<Safe[t.host], t.port>>
  ELSE <<t.ensemble, Safe[t.host], t.port>>

Write(i) ==
  /\ pc = "ask" /\ status[i] = "" /\ Len(said[i]) = Len(Commands)
  /\ status' = [status EXCEPT ![i] = Status(said[i])]
  /\ written' = written \cup {i}
  /\ files' = [files EXCEPT ![FileName(targets[i])] = {[of |-> targets[i], text |-> said[i]]}]
  /\ UNCHANGED <<pc, dry, given, next, targets, said, machines, mishaps>>

\* What a write that fails can leave: some of the sections, the last of them
\* perhaps cut off, and a cut-off section reads like an answer.
Remains(s) ==
  {SubSeq(s, 1, n) : n \in 0..(Len(s) - 1)}
    \cup {Append(SubSeq(s, 1, n), "answer") : n \in 0..(Len(s) - 1)}

WriteFails(i) ==
  /\ pc = "ask" /\ status[i] = "" /\ Len(said[i]) = Len(Commands)
  /\ mishaps < MaxMishaps /\ mishaps' = mishaps + 1
  /\ status' = [status EXCEPT ![i] = "failed"]
  /\ \/ UNCHANGED files
     \/ \E left \in Remains(said[i]) :
          files' = [files EXCEPT ![FileName(targets[i])] = {[of |-> targets[i], text |-> left]}]
  /\ UNCHANGED <<pc, dry, given, next, targets, said, written, machines>>

\* wg.Wait; main then records the outcomes in the order of the targets.
Wait ==
  /\ pc = "ask" /\ \A i \in 1..Len(targets) : status[i] # ""
  /\ pc' = "recorded"
  /\ UNCHANGED <<dry, given, next, targets, said, status, written, files, machines, mishaps>>

Turn(m) ==
  /\ pc = "ask" /\ mishaps < MaxMishaps /\ mishaps' = mishaps + 1
  /\ \E state \in {"serving", "loading", "down"} \ {up[m]} :
       /\ up' = [up EXCEPT ![m] = state]
       /\ was' = [was EXCEPT ![m] = @ \cup {state}]
  /\ UNCHANGED <<pc, dry, given, next, targets, said, status, written, files, allowed>>

Probe(i) == Ask(i) \/ Write(i) \/ WriteFails(i)

Next ==
  \/ MergeNext \/ Begin \/ Wait
  \/ \E i \in 1..Len(targets) : Probe(i)
  \/ \E m \in Machine : Turn(m)

\* Every step of the tool is bounded: a dial and a reply have deadlines.
Fairness ==
  /\ WF_vars(MergeNext \/ Begin \/ Wait)
  /\ WF_vars(\E i \in 1..Len(targets) : Probe(i))

Spec == Init /\ [][Next]_vars /\ Fairness

-----------------------------------------------------------------------------
(* What the dashboard reads back.                                          *)

State(s) ==
  IF Has(s, "not serving") THEN "not serving"
  ELSE IF Answers(s, "srvr") \/ Answers(s, "mntr") THEN "serving"
  ELSE IF Stopped(s) THEN "probe failed"
  ELSE "unknown"

FilesOf(ensemble, state) ==
  {f \in Name : \E file \in files[f] :
                   file.of.ensemble = ensemble /\ State(file.text) = state}

\* Mutant of Leaderless: members that could not be asked count as down.
LeaderlessOrLost ==
  {e \in {t.ensemble : t \in Target} :
     /\ Cardinality(FilesOf(e, "not serving") \cup FilesOf(e, "probe failed")) >= 2
     /\ FilesOf(e, "serving") = {}}

Leaderless ==
  {e \in {t.ensemble : t \in Target} :
     /\ Cardinality(FilesOf(e, "not serving")) >= 2
     /\ FilesOf(e, "serving") = {}}

-----------------------------------------------------------------------------
(* Properties.                                                             *)

TypeOK ==
  /\ pc \in {"skipped", "merge", "none", "listed", "failed", "ask", "recorded"}
  /\ dry \in BOOLEAN
  /\ given \in Seq(Target) /\ next \in 1..(Len(given) + 1)
  /\ targets \in Seq(Target)
  /\ said \in Seq(Seq(Section)) /\ \A i \in DOMAIN said : Len(said[i]) <= Len(Commands)
  /\ status \in Seq({"", "ok", "not serving", "partial", "refused", "timeout", "failed"})
  /\ pc = "ask" => DOMAIN said = DOMAIN targets /\ DOMAIN status = DOMAIN targets
  /\ written \subseteq 1..Len(targets)
  /\ DOMAIN files = Name
  /\ \A f \in Name : \A file \in files[f] : file.of \in Target /\ file.text \in Seq(Section)
  /\ up \in [Machine -> {"serving", "loading", "down"}]
  /\ was \in [Machine -> SUBSET {"serving", "loading", "down"}]
  /\ allowed \in [Machine -> Allows]
  /\ mishaps \in 0..MaxMishaps

\* The members asked are those listed, connected or configured, each one once
\* (MergeTargets: a union without duplicates).
EveryMemberOnce ==
  pc \in {"none", "listed", "failed", "ask", "recorded"} =>
    /\ {targets[n] : n \in 1..Len(targets)} = {given[n] : n \in 1..Len(given)}
    /\ \A n, k \in 1..Len(targets) : targets[n] = targets[k] => n = k

\* No goroutine writes into the file of another: the file an outcome names
\* holds what its own member said, all of it (collectOne's file names).
FileIsItsMembers ==
  \A i \in written :
    files[FileName(targets[i])] = {[of |-> targets[i], text |-> said[i]]}

\* A member that hangs costs one timeout and not one for each command
\* (collectOne's stoppedBy).
OneFailurePerMember ==
  \A i \in DOMAIN said : \A n, k \in 1..Len(said[i]) :
    said[i][n] \in Failure /\ n < k => said[i][k] = "skipped"

\* The execution log and the dashboard's panel draw the same conclusion from
\* one probe, though one counts replies and the other reads the file.
LogAndPanelAgree ==
  \A i \in written :
    \A file \in files[FileName(targets[i])] :
    LET log == status[i]  panel == State(file.text) IN
    /\ panel = "not serving" <=> log = "not serving"
    /\ log = "ok" => panel = "serving"
    /\ panel = "serving" => log \in {"ok", "partial"}
    /\ log \in {"refused", "timeout"} => panel = "probe failed"

\* What the panel says of a member whose file is whole was so at some time
\* while the members were asked, whatever failed between them and the tool.
PanelNeverGuesses ==
  \A i \in written :
    \A file \in files[FileName(targets[i])] :
    LET seen == was[At[file.of.host]] IN
    /\ State(file.text) = "not serving" => "loading" \in seen
    /\ State(file.text) = "serving" => "serving" \in seen

\* An ensemble is called leaderless on the word of two of its members that
\* were not serving, never for members that could not be asked: "Collector-side
\* failures never count" (Leaderless).
LeaderlessIsNoGuess ==
  \A e \in Leaderless :
    \E i, k \in 1..Len(targets) :
      /\ i # k /\ targets[i].ensemble = e /\ targets[k].ensemble = e
      /\ "loading" \in was[At[targets[i].host]] /\ "loading" \in was[At[targets[k].host]]

\* A dry run contacts no member and writes no file (main's dry-run branch).
DryRunAsksNobody ==
  dry => /\ \A i \in DOMAIN said : said[i] = <<>>
         /\ \A f \in Name : files[f] = {}

\* The members in question are two, not one known by two names: "two or more
\* members answer `not serving' themselves" (the comment of Leaderless).
LeaderlessNeedsTwoMembers ==
  \A e \in Leaderless : \E m, o \in Machine :
    m # o /\ "loading" \in was[m] /\ "loading" \in was[o]

\* Whatever the members do, the outcomes are recorded in the end, or there is
\* nobody to ask (wg.Wait returns).
Termination == <>(pc \in {"skipped", "none", "listed", "failed", "recorded"})

-----------------------------------------------------------------------------
(* The refinement.                                                         *)

StageOf(p) ==
  CASE p = "merge" -> "listing"
    [] p = "ask" -> "asking"
    [] p = "recorded" -> "recorded"
    [] OTHER -> "over"

Members == {given[n] : n \in 1..Len(given)}

\* What the log says of a member, and what the panel reads in its file.
EntryOf(t) == {status[i] : i \in {k \in DOMAIN status : targets[k] = t}} \ {""}

PageOf(t) == {State(file.text) : file \in files[FileName(t)]}

Entries == [t \in Target |-> EntryOf(t)]

Pages == [t \in Target |-> PageOf(t)]

Census == INSTANCE KeeperCensus
            WITH members <- Members, stage <- StageOf(pc), entry <- Entries, page <- Pages

\* However the goroutines interleave and whatever fails, the probe is a census:
\* every member listed is recorded in one step, once, by entries that agree, are
\* true and are never touched by the record of another (Collect, collectOne).
TakesCensus == Census!Spec
=============================================================================
