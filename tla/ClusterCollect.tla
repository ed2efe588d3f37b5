---------------------------- MODULE ClusterCollect ----------------------------
(***************************************************************************)
(* `clickhouse-diagnostic cluster': one run of the program for each node   *)
(* in turn, as a process of its own with a deadline (internal/             *)
(* clustercollect, Main and runOne).  What such a run does is the module   *)
(* Publication: its archive appears in one step under a name made of the   *)
(* node's folder and a second, or not at all.                              *)
(*                                                                         *)
(* A run that an earlier command left behind may still publish in the      *)
(* folders of this one, and someone may remove or cut off an archive.      *)
(***************************************************************************)
EXTENDS Naturals

CONSTANTS
  N,        \* the number of nodes, Discover's answer
  Stray,    \* the runs that earlier commands started in the same folders
  Folder,   \* the folders under -output-dir
  Place,    \* the names of archives: a folder and the second a run begins
  None,     \* no archive
  Broken,   \* an archive that does not read to its end
  Meddling  \* the folders in which someone removes or cuts off archives

Node == 1..N

Run == Node \cup Stray

ASSUME ClusterAssumption ==
  /\ N \in Nat \ {0}
  /\ Place \subseteq Folder \X Nat
  /\ Node \cap Stray = {}
  /\ None \notin Run /\ None \notin Place /\ None # Broken
  /\ Broken \notin Run
  /\ Meddling \subseteq Folder

VARIABLES
  folder,    \* the folder of each node, its Label
  place,     \* where each run publishes
  shown,     \* what is found under each name
  life,      \* how far each run is
  launched,  \* the nodes whose run was started
  turn,      \* the node in hand
  step,      \* where the command is
  before,    \* what the node's folder held before its run
  earlier,   \* history: the runs that could not publish any more by then
  expired,   \* the deadline passed before the context was cancelled
  chosen,    \* newArchive's answer
  results,   \* the status of each node, and its archive
  exit       \* the exit code

vars == <<folder, place, shown, life, launched, turn, step, before, earlier,
          expired, chosen, results, exit>>

P == INSTANCE Publication

Status == {"none", "ok", "timed out", "failed", "no archive", "bad archive"}

Result == [status : Status, archive : Place \cup {None}]

NoResult == [status |-> "none", archive |-> None]

\* From "ready" to "chosen" the command is inside runOne.
Step == {"asking", "ready", "listed", "running", "exited", "chosen",
         "finished", "over", "aborted"}

In(i) == {p \in Place : p[1] = folder[i]}

Init ==
  /\ folder \in [Node -> Folder]
  /\ P!PubInit
  /\ \A i \in Node : place[i] \in In(i)
  /\ launched = {}
  /\ turn = 0 /\ step = "asking"
  /\ before = [p \in Place |-> None] /\ earlier = {}
  /\ expired = FALSE /\ chosen = None
  /\ results = [i \in Node |-> NoResult]
  /\ exit = "none"

-----------------------------------------------------------------------------
(* Main, up to the confirmation.                                           *)

\* A usage or discovery error, or no host.
Refuse ==
  /\ step = "asking"
  /\ step' = "over" /\ exit' = "2"
  /\ UNCHANGED <<folder, place, shown, life, launched, turn, before, earlier,
                 expired, chosen, results>>

\* -help, -collect-from each-node, or an answer that is not yes.
Decline ==
  /\ step = "asking"
  /\ step' = "over" /\ exit' = "0"
  /\ UNCHANGED <<folder, place, shown, life, launched, turn, before, earlier,
                 expired, chosen, results>>

Confirm ==
  /\ step = "asking"
  /\ step' = "ready" /\ turn' = 1
  /\ UNCHANGED <<folder, place, shown, life, launched, before, earlier,
                 expired, chosen, results, exit>>

-----------------------------------------------------------------------------
(* runOne, for the node in hand.                                           *)

\* The loop of Main appends the result and goes on with the next node.
Record(result) ==
  /\ results' = [results EXCEPT ![turn] = result]
  /\ IF turn < N THEN turn' = turn + 1 /\ step' = "ready"
                 ELSE turn' = turn /\ step' = "finished"

\* The variables of runOne end with it.
Leave ==
  /\ before' = [p \in Place |-> None] /\ earlier' = {}
  /\ expired' = FALSE /\ chosen' = None

\* The folder cannot be made, or run.log not opened.
NoFolder ==
  /\ step = "ready"
  /\ Record([status |-> "failed", archive |-> None])
  /\ UNCHANGED <<folder, place, shown, life, launched, before, earlier,
                 expired, chosen, exit>>

\* archivesIn, and the context whose deadline begins to run.
List ==
  /\ step = "ready"
  /\ before' = [p \in Place |-> IF p \in In(turn) THEN shown[p] ELSE None]
  /\ earlier' = {r \in Run : life[r] # "running"}
  /\ expired' = FALSE
  /\ step' = "listed"
  /\ UNCHANGED <<folder, place, shown, life, launched, turn, chosen, results, exit>>

\* The deadline passes; after cancel it cannot.
Expire ==
  /\ step \in {"listed", "running", "exited"} /\ ~expired
  /\ expired' = TRUE
  /\ UNCHANGED <<folder, place, shown, life, launched, turn, step, before,
                 earlier, chosen, results, exit>>

Start ==
  /\ step = "listed" /\ ~expired
  /\ launched' = launched \cup {turn}
  /\ step' = "running"
  /\ UNCHANGED <<folder, place, shown, life, turn, before, earlier, expired,
                 chosen, results, exit>>

\* The process cannot be started, or its context is done already.
NoStart ==
  /\ step = "listed"
  /\ step' = "exited"
  /\ UNCHANGED <<folder, place, shown, life, launched, turn, before, earlier,
                 expired, chosen, results, exit>>

\* Mutant of Kill: the run ignores the signal.
KillNothing ==
  /\ step = "running" /\ expired /\ P!Alive(turn)
  /\ UNCHANGED vars

\* exec.CommandContext kills the run when its context is done.
Kill ==
  /\ step = "running" /\ expired /\ P!Die(turn)
  /\ UNCHANGED <<folder, launched, turn, step, before, earlier, expired,
                 chosen, results, exit>>

\* Run returns when the process has ended.
Wait ==
  /\ step = "running" /\ ~P!Alive(turn)
  /\ step' = "exited"
  /\ UNCHANGED <<folder, place, shown, life, launched, turn, before, earlier,
                 expired, chosen, results, exit>>

\* Mutants of NewArchives: what was there before is not remembered; only names
\* that were not there before count.
AnyArchives == {p \in In(turn) : shown[p] # None}

NewNames == {p \in In(turn) : shown[p] # None /\ before[p] = None}

\* Not there before, or replaced since.
NewArchives == {p \in In(turn) : shown[p] # None /\ shown[p] # before[p]}

\* cancel, and newArchive: the greatest name.
Choose ==
  /\ step = "exited"
  /\ \/ NewArchives = {} /\ chosen' = None
     \/ \E p \in NewArchives : (\A q \in NewArchives : q[2] <= p[2]) /\ chosen' = p
  /\ step' = "chosen"
  /\ UNCHANGED <<folder, place, shown, life, launched, turn, before, earlier,
                 expired, results, exit>>

\* Mutant of Verified: the archive need only be there.
VerifiedByStat(p) == shown[p] # None

\* verifyArchive reads the archive to its end.
Verified(p) == shown[p] \in Run

ExitedZero == turn \in launched /\ life[turn] = "success"

StatusOf ==
  CASE expired                                        -> "timed out"
    [] ~expired /\ ~ExitedZero                        -> "failed"
    [] ~expired /\ ExitedZero /\ chosen = None        -> "no archive"
    [] OTHER -> IF Verified(chosen) THEN "ok" ELSE "bad archive"

\* What is not ok has no archive to send.
Judge ==
  /\ step = "chosen"
  /\ Record([status |-> StatusOf, archive |-> IF StatusOf = "ok" THEN chosen ELSE None])
  /\ Leave
  /\ UNCHANGED <<folder, place, shown, life, launched, exit>>

-----------------------------------------------------------------------------
(* The end of Main, and the others.                                        *)

\* Mutant of Failures: only the runs that failed are counted.
FailuresOnly == {i \in Node : results[i].status = "failed"}

Failures == {i \in Node : results[i].status # "ok"}

Finish ==
  /\ step = "finished"
  /\ step' = "over"
  /\ exit' = IF Failures = {} THEN "0" ELSE "1"
  /\ UNCHANGED <<folder, place, shown, life, launched, turn, before, earlier,
                 expired, chosen, results>>

\* The command is killed; the run it waits for is not.
Abort ==
  /\ step \notin {"over", "aborted"}
  /\ step' = "aborted"
  /\ Leave
  /\ UNCHANGED <<folder, place, shown, life, launched, turn, results, exit>>

Runs(r) ==
  /\ r \in launched \cup Stray
  /\ P!Publish(r) \/ P!Succeed(r) \/ P!Fail(r) \/ P!Die(r)
  /\ UNCHANGED <<folder, launched, turn, step, before, earlier, expired,
                 chosen, results, exit>>

\* Someone removes an archive or cuts it off.
Spoil(p) ==
  /\ p[1] \in Meddling /\ shown[p] # None
  /\ \E left \in {None, Broken} : shown' = [shown EXCEPT ![p] = left]
  /\ UNCHANGED <<folder, place, life, launched, turn, step, before, earlier,
                 expired, chosen, results, exit>>

Command ==
  NoFolder \/ List \/ Start \/ NoStart \/ Kill \/ Wait \/ Choose \/ Judge \/ Finish

Next ==
  \/ Refuse \/ Decline \/ Confirm
  \/ Command \/ Expire \/ Abort
  \/ \E r \in Run : Runs(r)
  \/ \E p \in Place : Spoil(p)

Spec == Init /\ [][Next]_vars

\* The command is scheduled, and time passes; nothing is asked of a run.
Fairness == WF_vars(Command) /\ WF_vars(Expire)

FairSpec == Spec /\ Fairness

-----------------------------------------------------------------------------
(* Properties.                                                             *)

\* Types; and results are there for the nodes that had their turn.
TypeOK ==
  /\ folder \in [Node -> Folder]
  /\ place \in [Run -> Place]
  /\ shown \in [Place -> Run \cup {None, Broken}]
  /\ life \in [Run -> P!Life]
  /\ launched \subseteq Node
  /\ turn \in 0..N /\ step \in Step
  /\ before \in [Place -> Run \cup {None, Broken}]
  /\ earlier \subseteq Run
  /\ expired \in BOOLEAN
  /\ chosen \in Place \cup {None}
  /\ results \in [Node -> Result]
  /\ exit \in {"none", "0", "1", "2"}

\* Whatever happens to a run, the command never has two at work at once, and
\* leaves none behind unless it is killed (runOne: cmd.Run kills at the deadline
\* and waits).
OneAtATime ==
  \A i \in launched : P!Alive(i) => (i = turn /\ step = "running") \/ step = "aborted"

Judged(i) == results[i].status = "none" /\ results'[i].status # "none"

\* "ok" is for a whole archive in the node's folder that appeared in the node's
\* turn, from the node's own run unless from a stray, and only after the node's
\* run had exited with 0 in time (runOne: "ok needs all three").
OkIsFresh ==
  [][\A i \in Node : Judged(i) /\ results'[i].status = "ok" =>
       /\ results'[i].archive \in In(i)
       /\ shown[results'[i].archive] \in ({i} \cup Stray) \ earlier
       /\ i \in launched /\ life[i] = "success" /\ ~expired]_vars

\* A node whose run exited with 0 in time and whose archive is there is ok: an
\* archive that replaces one of the same name counts (newArchive).
CompleteIsOk ==
  [][\A i \in Node :
       /\ folder[i] \notin Meddling /\ Judged(i) /\ results'[i].status # "ok"
       /\ i \in launched /\ life[i] = "success" /\ ~expired
       => shown[place[i]] # i]_vars

\* Exit code 0 after the confirmation: every node has a whole archive in its
\* folder, still.  Code 1: every node has a result, and some are not "ok" (Main).
ExitIsHonest ==
  /\ exit = "0" /\ turn > 0 =>
       \A i \in Node : /\ results[i].status = "ok"
                       /\ results[i].archive \in In(i)
                       /\ folder[i] \notin Meddling => shown[results[i].archive] \in Run
  /\ exit = "1" => /\ \E i \in Node : results[i].status # "ok"
                   /\ \A i \in Node : results[i].status # "none"

\* Once confirmed, the command ends, however its runs behave (the deadline).
Termination == turn > 0 ~> step \in {"over", "aborted"}

\* "only one this run created or replaced counts" (runOne).
OnlyThisRunCounts ==
  [][\A i \in Node : Judged(i) /\ results'[i].status = "ok" =>
       shown[results'[i].archive] = i]_vars
=============================================================================
