------------------------------ MODULE Packaging ------------------------------
(***************************************************************************)
(* The end of a run of clickhouse-diagnostic: what main writes into the    *)
(* run directory after the collectors, and internal.CreateArchive, which   *)
(* packs the directory next to itself.  Runs of one second that share      *)
(* -output-dir share the directory and the name of the archive.            *)
(*                                                                         *)
(* A run may be killed between any two steps.  A write that the system     *)
(* accepts may still be lost: Sync, and only Sync, is sure to tell.        *)
(* The files of the collectors are one file, and so are those of the       *)
(* dashboard.                                                              *)
(***************************************************************************)
EXTENDS Naturals, Sequences, FiniteSets

CONSTANTS
  Run,      \* the runs
  Place,    \* run directories, each named by -output-dir and the second
  None,     \* no run
  Flags,    \* the invocations considered, a subset of FlagsType
  Cleaning  \* whether someone may remove a run directory meanwhile

FlagsType ==
  [gov : BOOLEAN, skipDashboard : BOOLEAN, alerts : BOOLEAN, skipArchive : BOOLEAN]

ASSUME PackagingAssumption ==
  /\ None \notin Run
  /\ Flags \subseteq FlagsType
  /\ Cleaning \in BOOLEAN

\* filepath.Walk visits a directory in the order of its names:
\* alerts_summary.json, dashboard.html, execution_log.txt, system.*.
WalkOrder == <<"summary", "dashboard", "log", "results">>

File == {"summary", "dashboard", "log", "results"}

\* A file: who opened it last, and how much of it is there.
Copy == [by : Run \cup {None}, state : {"none", "part", "whole"}]

NoFile == [by |-> None, state |-> "none"]

NoFiles == [f \in File |-> NoFile]

\* A tar.gz: which names it is to hold, how many of WalkOrder were visited, the
\* copies so far, whether it has its end, and whether the system has lost some.
Stream == [by : Run, listed : SUBSET File, next : 1..5, holds : [File -> Copy],
           ended : BOOLEAN, lost : BOOLEAN]

NoStream == [by |-> None]

VARIABLES
  place,    \* each run's directory, and the name of its archive
  flags,    \* each run's flags
  pc,       \* where each run is
  writing,  \* the run is inside os.WriteFile, and the file is open
  failed,   \* the files a run could not write
  files,    \* the contents of the run directories
  gone,     \* the run directories that do not exist
  temp,     \* each run's temporary file
  archive   \* what is found under the name of each archive

vars == <<place, flags, pc, writing, failed, files, gone, temp, archive>>

Writing == {"results", "early log", "dashboard", "summary", "log"}

Packing == {"adding", "ending", "syncing", "closing", "renaming"}

Ended == {"success", "failure", "killed"}

PC == {"start", "archive", "undo", "published"} \cup Writing \cup Packing \cup Ended

Init ==
  /\ place \in [Run -> Place]
  /\ flags \in [Run -> Flags]
  /\ pc = [r \in Run |-> "start"]
  /\ writing = [r \in Run |-> FALSE]
  /\ failed = [r \in Run |-> {}]
  /\ files = [p \in Place |-> NoFiles]
  /\ gone = Place
  /\ temp = [r \in Run |-> NoStream]
  /\ archive = [p \in Place |-> NoStream]

Go(r, from, to) == pc[r] = from /\ pc' = [pc EXCEPT ![r] = to]

-----------------------------------------------------------------------------
(* The run directory.                                                      *)

\* main returns, or exits, before the run has a directory: the server does not
\* answer, a flag is refused.
GiveUp(r) ==
  /\ Go(r, "start", "success") \/ Go(r, "start", "failure")
  /\ UNCHANGED <<place, flags, writing, failed, files, gone, temp, archive>>

\* ExecuteQueries; a directory that exists is used as it is.
Mkdir(r) ==
  /\ Go(r, "start", "results")
  /\ gone' = gone \ {place[r]}
  /\ UNCHANGED <<place, flags, writing, failed, files, temp, archive>>

FileOf(step) == IF step = "early log" THEN "log" ELSE step

\* dashboardDecision.
WantsDashboard(r) == ~flags[r].skipDashboard /\ ~flags[r].gov

\* Mutant of AfterDashboard: the decision counts, not the outcome.
AfterDecision(r, written) ==
  IF flags[r].alerts /\ ~WantsDashboard(r) THEN "summary" ELSE "log"

\* alerts_summary.json is written when no dashboard records the alerts.
AfterDashboard(r, written) ==
  IF flags[r].alerts /\ ~written THEN "summary" ELSE "log"

\* What follows a file; a failed write is a warning and no more.
After(r, written) ==
  CASE pc[r] = "results"   -> IF WantsDashboard(r) THEN "early log"
                              ELSE AfterDashboard(r, FALSE)
    [] pc[r] = "early log" -> "dashboard"
    [] pc[r] = "dashboard" -> AfterDashboard(r, written)
    [] pc[r] = "summary"   -> "log"
    [] OTHER               -> IF flags[r].skipArchive THEN "success" ELSE "archive"

\* Another run is writing the same file.
Contested(r) ==
  \E q \in Run \ {r} : place[q] = place[r] /\ writing[q] /\ FileOf(pc[q]) = FileOf(pc[r])

\* os.WriteFile truncates what is there.  Two runs that write one file at a time
\* leave a mixture, which is nobody's.  Collectors with a directory of their own
\* (MkdirAll) make the run directory anew if it is gone.
OpenFile(r) ==
  /\ pc[r] \in Writing /\ ~writing[r]
  /\ place[r] \notin gone \/ pc[r] = "results"
  /\ gone' = gone \ {place[r]}
  /\ writing' = [writing EXCEPT ![r] = TRUE]
  /\ files' = [files EXCEPT ![place[r]][FileOf(pc[r])] =
                 [by |-> IF Contested(r) THEN None ELSE r, state |-> "part"]]
  /\ UNCHANGED <<place, flags, pc, failed, temp, archive>>

FinishFile(r) ==
  /\ pc[r] \in Writing /\ writing[r]
  /\ writing' = [writing EXCEPT ![r] = FALSE]
  /\ files' = IF files[place[r]][FileOf(pc[r])].by = r
              THEN [files EXCEPT ![place[r]][FileOf(pc[r])].state = "whole"]
              ELSE files
  /\ pc' = [pc EXCEPT ![r] = After(r, TRUE)]
  /\ UNCHANGED <<place, flags, failed, gone, temp, archive>>

\* The file cannot be opened, or only part of it can be written.
FailFile(r) ==
  /\ pc[r] \in Writing
  /\ writing' = [writing EXCEPT ![r] = FALSE]
  /\ failed' = [failed EXCEPT ![r] = @ \cup {FileOf(pc[r])}]
  /\ pc' = [pc EXCEPT ![r] = After(r, FALSE)]
  /\ UNCHANGED <<place, flags, files, gone, temp, archive>>

-----------------------------------------------------------------------------
(* CreateArchive.                                                          *)

NothingToPack(r) ==
  /\ place[r] \in gone
  /\ Go(r, "archive", "success")
  /\ UNCHANGED <<place, flags, writing, failed, files, gone, temp, archive>>

\* Nothing yet, of what the run directory holds by now.
NewStream(r) ==
  [by |-> r, listed |-> {f \in File : files[place[r]][f].state # "none"},
   next |-> 1, holds |-> NoFiles, ended |-> FALSE, lost |-> FALSE]

\* CreateTemp with a name of its own, Chmod, and the walk's list of names.
CreateTemp(r) ==
  /\ place[r] \notin gone
  /\ Go(r, "archive", "adding")
  /\ temp' = [temp EXCEPT ![r] = NewStream(r)]
  /\ UNCHANGED <<place, flags, writing, failed, files, gone, archive>>

NoTemp(r) ==
  /\ place[r] \notin gone
  /\ Go(r, "archive", "failure")
  /\ UNCHANGED <<place, flags, writing, failed, files, gone, temp, archive>>

\* The stream after one more name of WalkOrder, and after its end.
WithCopy(s, f, copy, lost) ==
  [s EXCEPT !.next = s.next + 1, !.holds = [s.holds EXCEPT ![f] = copy], !.lost = lost]

WithEnd(s, lost) == [s EXCEPT !.ended = TRUE, !.lost = lost]

\* The next file of the walk, as it is by now.
Add(r) ==
  /\ pc[r] = "adding" /\ temp[r].next <= Len(WalkOrder)
  /\ LET f == WalkOrder[temp[r].next]
         copy == IF f \in temp[r].listed THEN files[place[r]][f] ELSE NoFile
     IN /\ f \in temp[r].listed => files[place[r]][f].state # "none"
        /\ \E lost \in {temp[r].lost, TRUE} :
             temp' = [temp EXCEPT ![r] = WithCopy(temp[r], f, copy, lost)]
  /\ UNCHANGED <<place, flags, pc, writing, failed, files, gone, archive>>

WalkDone(r) ==
  /\ Go(r, "adding", "ending")
  /\ temp[r].next > Len(WalkOrder)
  /\ UNCHANGED <<place, flags, writing, failed, files, gone, temp, archive>>

\* The ends of tar and gzip.
EndStream(r) ==
  /\ Go(r, "ending", "syncing")
  /\ \E lost \in {temp[r].lost, TRUE} : temp' = [temp EXCEPT ![r] = WithEnd(temp[r], lost)]
  /\ UNCHANGED <<place, flags, writing, failed, files, gone, archive>>

Sync(r) ==
  /\ Go(r, "syncing", "closing")
  /\ ~temp[r].lost
  /\ UNCHANGED <<place, flags, writing, failed, files, gone, temp, archive>>

Close(r) ==
  /\ Go(r, "closing", "renaming")
  /\ UNCHANGED <<place, flags, writing, failed, files, gone, temp, archive>>

Rename(r) ==
  /\ Go(r, "renaming", "published")
  /\ archive' = [archive EXCEPT ![place[r]] = temp[r]]
  /\ temp' = [temp EXCEPT ![r] = NoStream]
  /\ UNCHANGED <<place, flags, writing, failed, files, gone>>

\* Any of these calls may return an error.
Stumble(r) ==
  /\ pc[r] \in Packing
  /\ pc' = [pc EXCEPT ![r] = "undo"]
  /\ UNCHANGED <<place, flags, writing, failed, files, gone, temp, archive>>

\* Mutant of Undo: it clears the name that was asked for.
UndoName(r) ==
  /\ Go(r, "undo", "failure")
  /\ archive' = [archive EXCEPT ![place[r]] = NoStream]
  /\ temp' = [temp EXCEPT ![r] = NoStream]
  /\ UNCHANGED <<place, flags, writing, failed, files, gone>>

\* The deferred function; the error of os.Remove is dropped.  main exits with 1.
Undo(r) ==
  /\ Go(r, "undo", "failure")
  /\ temp' \in {temp, [temp EXCEPT ![r] = NoStream]}
  /\ UNCHANGED <<place, flags, writing, failed, files, gone, archive>>

Exit(r) ==
  /\ Go(r, "published", "success")
  /\ UNCHANGED <<place, flags, writing, failed, files, gone, temp, archive>>

-----------------------------------------------------------------------------
(* What may happen to a run.                                               *)

Kill(r) ==
  /\ pc[r] \notin Ended
  /\ pc' = [pc EXCEPT ![r] = "killed"]
  /\ writing' = [writing EXCEPT ![r] = FALSE]
  /\ UNCHANGED <<place, flags, failed, files, gone, temp, archive>>

\* Someone removes a run directory.
Clean(p) ==
  /\ Cleaning /\ p \notin gone
  /\ gone' = gone \cup {p}
  /\ files' = [files EXCEPT ![p] = NoFiles]
  /\ UNCHANGED <<place, flags, pc, writing, failed, temp, archive>>

AllEnded == (\A r \in Run : pc[r] \in Ended) /\ UNCHANGED vars

Step(r) ==
  \/ GiveUp(r) \/ Mkdir(r)
  \/ OpenFile(r) \/ FinishFile(r) \/ FailFile(r)
  \/ NothingToPack(r) \/ CreateTemp(r) \/ NoTemp(r)
  \/ Add(r) \/ WalkDone(r) \/ EndStream(r)
  \/ Sync(r) \/ Close(r) \/ Rename(r)
  \/ Stumble(r) \/ Undo(r) \/ Exit(r)
  \/ Kill(r)

Next ==
  \/ \E r \in Run : Step(r)
  \/ \E p \in Place : Clean(p)
  \/ AllEnded

Spec == Init /\ [][Next]_vars

-----------------------------------------------------------------------------
(* Properties.                                                             *)

Alone(r) == \A q \in Run \ {r} : place[q] # place[r]

\* Every variable holds a value of its type; a run has a temporary file of its
\* own while it packs, and a file is open only while it is being written.
TypeOK ==
  /\ place \in [Run -> Place]
  /\ flags \in [Run -> FlagsType]
  /\ pc \in [Run -> PC]
  /\ writing \in [Run -> BOOLEAN]
  /\ failed \in [Run -> SUBSET File]
  /\ files \in [Place -> [File -> Copy]]
  /\ gone \subseteq Place
  /\ temp \in [Run -> Stream \cup {NoStream}]
  /\ archive \in [Place -> Stream \cup {NoStream}]
  /\ \A r \in Run : /\ pc[r] \in Packing => temp[r] \in Stream /\ temp[r].by = r
                    /\ writing[r] => pc[r] \in Writing

\* What is found under the name of an archive can be read to its end, whatever
\* failed, was lost or was killed, and whoever else packs the same directory.
PublishedIsWhole ==
  \A p \in Place : archive[p] # NoStream => archive[p].ended /\ ~archive[p].lost

\* The alerts that ran are on record in the bundle: in a whole dashboard, or
\* else in the summary, whatever was skipped, withheld or failed before.  Only
\* a summary that cannot be written is missing.
AlertsAreRecorded ==
  \A p \in Place : archive[p] # NoStream =>
    LET r == archive[p].by IN
    Alone(r) /\ flags[r].alerts =>
      \/ archive[p].holds["dashboard"].state = "whole"
      \/ archive[p].holds["summary"].state = "whole"
      \/ "summary" \in failed[r]

\* The raw names of the dashboard's panels never reach the bundle of a gov run,
\* not even in part.
NoRawNamesInGov ==
  \A p \in Place : archive[p] # NoStream =>
    LET r == archive[p].by IN
    Alone(r) /\ flags[r].gov => archive[p].holds["dashboard"] = NoFile

\* What a reader finds: a stream that breaks off is no run's archive.
Shown(s) ==
  CASE s = NoStream -> None
    [] s # NoStream /\ s.ended /\ ~s.lost -> s.by
    [] OTHER -> <<"broken", s.by>>

LifeOf(step) ==
  CASE step \in Ended       -> step
    [] step = "published"   -> "published"
    [] OTHER                -> "running"

Promise == INSTANCE Publication
             WITH shown <- [p \in Place |-> Shown(archive[p])],
                  life <- [r \in Run |-> LifeOf(pc[r])]

\* CreateArchive is one atomic step to whoever looks: an archive appears whole
\* or not at all, the earlier one stays until then, and a run that exits with
\* 1 has changed nothing.
KeepsPromise == Promise!PubSpec

-----------------------------------------------------------------------------
(* What a comment says and the code does not do.                           *)

\* main: "Non-zero, so a script or the cluster command does not take a run
\* without a bundle for a successful one".
NoSuccessWithoutBundle ==
  \A r \in Run :
    pc[r] = "success" /\ ~flags[r].skipArchive => archive[place[r]] # NoStream
=============================================================================
