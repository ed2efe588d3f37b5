------------------------- MODULE ClusterCollect_proofs -------------------------
(***************************************************************************)
(* Proofs about ClusterCollect, for any number of nodes and of runs that   *)
(* earlier commands left behind, and any labels.  The invariant IInv says, *)
(* for each waypoint of runOne, what it knows of the runs and of the names.*)
(***************************************************************************)
EXTENDS ClusterCollect, Discovery, FiniteSetTheorems, TLAPS

InTurn == {"listed", "running", "exited", "chosen"}

\* Where the command is, and the nodes that had their turn.
Progress ==
  /\ step = "asking" => turn = 0 /\ launched = {}
  /\ step \in InTurn \cup {"ready", "finished"} => turn \in Node
  /\ step = "finished" => turn = N
  /\ step = "running" => turn \in launched
  /\ step \notin {"over", "aborted"} => exit = "none"
  /\ exit # "none" => step = "over"
  /\ step = "over" /\ turn > 0 => turn = N
  /\ \A i \in launched : i < turn \/ (i = turn /\ step \notin {"ready", "listed"})

\* A node has a result once its turn is over.
Tallied ==
  /\ \A i \in Node : i < turn => results[i].status # "none"
  /\ \A i \in Node : i > turn => results[i].status = "none"
  /\ step \in InTurn \cup {"ready"} => results[turn].status = "none"
  /\ step \in {"finished", "over"} /\ turn > 0 => results[turn].status # "none"

\* What is shown was published, by a run that was started; a name that shows an
\* archive goes on showing one.
Published ==
  /\ \A i \in Node : place[i] \in In(i)
  /\ \A i \in Node \ launched : life[i] = "running"
  /\ \A p \in Place : shown[p] \in Run =>
       place[shown[p]] = p /\ life[shown[p]] # "running"
  /\ \A p \in Place : p[1] \notin Meddling => shown[p] # Broken
  /\ \A i \in Node : results[i].status = "ok" =>
       /\ results[i].archive \in In(i)
       /\ folder[i] \notin Meddling => shown[results[i].archive] \in Run

\* What a run of an earlier turn shows in the folder was there at the beginning.
Remembered ==
  step \in InTurn =>
    /\ turn \notin earlier
    /\ \A r \in earlier : life[r] # "running"
    /\ \A i \in launched : i # turn => i \in earlier
    /\ \A p \in In(turn) : shown[p] \in earlier => shown[p] = before[p]
    /\ \A p \in In(turn) : before[p] # turn

\* What newArchive answered, as the names are by now.
Chosen ==
  step = "chosen" =>
    /\ chosen # None =>
         /\ chosen \in In(turn)
         /\ shown[chosen] \notin earlier
         /\ folder[turn] \notin Meddling => shown[chosen] \in Run
    /\ shown[place[turn]] = turn => chosen # None

IInv ==
  TypeOK /\ Progress /\ Tallied /\ Published /\ Remembered /\ Chosen
         /\ OneAtATime /\ ExitIsHonest
-----------------------------------------------------------------------------
(* Types.                                                                  *)

LEMMA TypeInit == Init => TypeOK
<1> SUFFICES ASSUME Init PROVE TypeOK
  OBVIOUS
<1>1. place \in [Run -> Place] /\ shown \in [Place -> Run \cup {None, Broken}]
  BY DEF Init, P!PubInit
<1>2. life \in [Run -> P!Life]
  BY DEF Init, P!PubInit, P!Life
<1>3. NoResult \in Result
  BY DEF NoResult, Result, Status
<1>4. results \in [Node -> Result]
  BY <1>3 DEF Init
<1>5. 0 \in 0..N
  BY ClusterAssumption
<1> QED  BY <1>1, <1>2, <1>4, <1>5 DEF Init, TypeOK, Step

LEMMA RecordType ==
  ASSUME TypeOK, turn \in Node, NEW result \in Result, Record(result)
  PROVE  /\ results' \in [Node -> Result]
         /\ turn' \in 0..N /\ step' \in Step
  BY ClusterAssumption DEF Record, TypeOK, Step, Node

LEMMA TypeStep ==
  ASSUME TypeOK, Progress, [Next]_vars
  PROVE  TypeOK'
<1> USE ClusterAssumption DEF TypeOK
<1>1. CASE Refuse \/ Decline \/ NoStart \/ Wait \/ Expire \/ Abort
  BY <1>1 DEF Refuse, Decline, NoStart, Wait, Expire, Abort, Leave, Step
<1>2. CASE Confirm
  BY <1>2 DEF Confirm, Step
<1>3. CASE NoFolder
  <2>1. [status |-> "failed", archive |-> None] \in Result
    BY DEF Result, Status
  <2> QED  BY <1>3, <2>1, RecordType DEF NoFolder, Progress
<1>4. CASE List
  BY <1>4 DEF List, Step
<1>5. CASE Start
  BY <1>5 DEF Start, Step, Progress, InTurn
<1>6. CASE Kill
  BY <1>6 DEF Kill, P!Die, P!Life
<1>7. CASE Choose
  <2>1. chosen' \in Place \cup {None}
    BY <1>7 DEF Choose, NewArchives, In
  <2> QED  BY <1>7, <2>1 DEF Choose, Step
<1>8. CASE Judge
  <2>1. [status |-> StatusOf, archive |-> IF StatusOf = "ok" THEN chosen ELSE None] \in Result
    BY DEF Result, Status, StatusOf
  <2> QED  BY <1>8, <2>1, RecordType DEF Judge, Leave, Progress, InTurn
<1>9. CASE Finish
  BY <1>9 DEF Finish, Step
<1>10. ASSUME NEW r \in Run, Runs(r) PROVE TypeOK'
  <2>1. CASE P!Publish(r)
    BY <1>10, <2>1 DEF Runs, P!Publish, P!Life
  <2>2. CASE P!Succeed(r) \/ P!Fail(r) \/ P!Die(r)
    BY <1>10, <2>2 DEF Runs, P!Succeed, P!Fail, P!Die, P!Life
  <2> QED  BY <1>10, <2>1, <2>2 DEF Runs
<1>11. ASSUME NEW p \in Place, Spoil(p) PROVE TypeOK'
  BY <1>11 DEF Spoil
<1>12. CASE UNCHANGED vars
  BY <1>12 DEF vars
<1> QED
  BY <1>1, <1>2, <1>3, <1>4, <1>5, <1>6, <1>7, <1>8, <1>9, <1>10, <1>11, <1>12
  DEF Next, Command

-----------------------------------------------------------------------------
(* Where the command is.                                                   *)

LEMMA ProgressStep ==
  ASSUME TypeOK, Progress, [Next]_vars
  PROVE  Progress'
<1> USE ClusterAssumption DEF TypeOK, Progress, InTurn
<1>1. CASE Refuse \/ Decline
  BY <1>1 DEF Refuse, Decline
<1>2. CASE Abort
  BY <1>2 DEF Abort, Leave
<1>3. CASE NoStart \/ Wait \/ Choose \/ Expire
  BY <1>3 DEF NoStart, Wait, Choose, Expire, Node
<1>4. CASE Confirm
  BY <1>4 DEF Confirm, Node
<1>5. CASE NoFolder
  BY <1>5 DEF NoFolder, Record, Node
<1>6. CASE List
  BY <1>6 DEF List
<1>7. CASE Start
  BY <1>7 DEF Start, Node
<1>8. CASE Kill
  BY <1>8 DEF Kill
<1>9. CASE Judge
  BY <1>9 DEF Judge, Leave, Record, Node
<1>10. CASE Finish
  BY <1>10 DEF Finish, Node
<1>11. ASSUME NEW r \in Run, Runs(r) PROVE Progress'
  BY <1>11 DEF Runs
<1>12. ASSUME NEW p \in Place, Spoil(p) PROVE Progress'
  BY <1>12 DEF Spoil
<1>13. CASE UNCHANGED vars
  BY <1>13 DEF vars
<1> QED
  BY <1>1, <1>2, <1>3, <1>4, <1>5, <1>6, <1>7, <1>8, <1>9, <1>10, <1>11, <1>12, <1>13
  DEF Next, Command

LEMMA TalliedStep ==
  ASSUME TypeOK, Progress, Tallied, [Next]_vars
  PROVE  Tallied'
<1> USE ClusterAssumption DEF TypeOK, Progress, Tallied, InTurn
<1>1. CASE Refuse \/ Decline \/ NoStart \/ Wait \/ Choose \/ Expire \/ Abort
  BY <1>1 DEF Refuse, Decline, NoStart, Wait, Choose, Expire, Abort, Leave
<1>2. CASE Confirm
  BY <1>2 DEF Confirm, Node
<1>3. ASSUME NEW result \in Result, Record(result), result.status # "none", turn \in Node,
             step \in {"ready", "chosen"}
      PROVE  Tallied'
  BY <1>3 DEF Record, Node
<1>4. CASE NoFolder
  <2>1. [status |-> "failed", archive |-> None] \in Result
    BY DEF Result, Status
  <2> QED  BY <1>3, <1>4, <2>1 DEF NoFolder
<1>5. CASE Judge
  <2> DEFINE result == [status |-> StatusOf,
                        archive |-> IF StatusOf = "ok" THEN chosen ELSE None]
  <2>1. result \in Result /\ result.status # "none"
    BY DEF Result, Status, StatusOf
  <2> QED  BY <1>3, <1>5, <2>1 DEF Judge
<1>6. CASE List \/ Start \/ Kill \/ Finish
  BY <1>6 DEF List, Start, Kill, Finish
<1>7. ASSUME NEW r \in Run, Runs(r) PROVE Tallied'
  BY <1>7 DEF Runs
<1>8. ASSUME NEW p \in Place, Spoil(p) PROVE Tallied'
  BY <1>8 DEF Spoil
<1>9. CASE UNCHANGED vars
  BY <1>9 DEF vars
<1> QED
  BY <1>1, <1>2, <1>4, <1>5, <1>6, <1>7, <1>8, <1>9 DEF Next, Command

-----------------------------------------------------------------------------
(* The runs.                                                               *)

\* A step of a run: it was alive, it is not about to publish any more, and what
\* it shows it shows under its own name.
RunMoves(r) ==
  /\ P!Alive(r) /\ life'[r] # "running"
  /\ \A q \in Run \ {r} : life'[q] = life[q]
  /\ \A p \in Place : shown'[p] # shown[p] =>
       life[r] = "running" /\ place[r] = p /\ shown'[p] = r

Rest == <<folder, place, launched, turn, step, before, earlier, expired, chosen, results, exit>>

LEMMA RunStep ==
  ASSUME TypeOK, NEW r \in Run, Runs(r)
  PROVE  RunMoves(r) /\ r \in launched \cup Stray /\ UNCHANGED Rest
<1>1. CASE P!Publish(r)
  BY <1>1 DEF Runs, P!Publish, RunMoves, P!Alive, TypeOK, Rest
<1>2. CASE P!Succeed(r) \/ P!Fail(r) \/ P!Die(r)
  BY <1>2 DEF Runs, P!Succeed, P!Fail, P!Die, RunMoves, P!Alive, TypeOK, Rest
<1> QED  BY <1>1, <1>2 DEF Runs

LEMMA KillStep ==
  ASSUME TypeOK, Progress, Kill
  PROVE  turn \in Run /\ RunMoves(turn) /\ turn \in launched \cup Stray /\ UNCHANGED Rest
<1>1. turn \in Run /\ turn \in launched
  BY DEF Progress, Kill, Run, InTurn
<1>2. place' = place
  BY DEF Kill, P!Die
<1> QED  BY <1>1, <1>2 DEF Kill, P!Die, RunMoves, P!Alive, TypeOK, Rest

LEMMA OneAtATimeStep ==
  ASSUME TypeOK, Progress, OneAtATime, [Next]_vars
  PROVE  OneAtATime'
<1> USE DEF OneAtATime, P!Alive
<1>1. CASE Refuse \/ Decline \/ Confirm \/ NoFolder \/ List \/ NoStart \/ Expire \/ Abort
  BY <1>1 DEF Refuse, Decline, Confirm, NoFolder, Record, List, NoStart, Expire, Abort, Leave,
     Progress
<1>2. CASE Start
  BY <1>2 DEF Start
<1>3. CASE Wait
  BY <1>3 DEF Wait, Progress
<1>4. CASE Choose \/ Judge \/ Finish
  BY <1>4 DEF Choose, Judge, Leave, Record, Finish
<1>5. ASSUME NEW r \in Run, RunMoves(r), UNCHANGED Rest PROVE OneAtATime'
  BY <1>5 DEF RunMoves, Rest, TypeOK, Run
<1>6. CASE Kill
  BY <1>5, <1>6, KillStep
<1>7. ASSUME NEW r \in Run, Runs(r) PROVE OneAtATime'
  BY <1>5, <1>7, RunStep
<1>8. ASSUME NEW p \in Place, Spoil(p) PROVE OneAtATime'
  BY <1>8 DEF Spoil
<1>9. CASE UNCHANGED vars
  BY <1>9 DEF vars
<1> QED
  BY <1>1, <1>2, <1>3, <1>4, <1>6, <1>7, <1>8, <1>9 DEF Next, Command

-----------------------------------------------------------------------------
(* What is shown.                                                          *)

LEMMA PublishedStep ==
  ASSUME TypeOK, Progress, Published, Chosen, [Next]_vars
  PROVE  Published'
<1> USE ClusterAssumption DEF Published, In
<1>1. CASE Refuse \/ Decline \/ Confirm \/ List \/ NoStart \/ Wait \/ Choose \/ Finish
           \/ Expire \/ Abort
  BY <1>1 DEF Refuse, Decline, Confirm, List, NoStart, Wait, Choose, Finish, Expire, Abort, Leave
<1>2. CASE NoFolder
  BY <1>2 DEF NoFolder, Record, TypeOK, Progress
<1>3. CASE Start
  BY <1>3 DEF Start
<1>4. CASE Judge
  <2>1. StatusOf = "ok" => chosen # None
    BY DEF StatusOf, Verified, Run
  <2>2. results' = [results EXCEPT ![turn] =
          [status |-> StatusOf, archive |-> IF StatusOf = "ok" THEN chosen ELSE None]]
    BY <1>4 DEF Judge, Leave, Record
  <2>3. UNCHANGED <<folder, place, shown, life, launched>> /\ step = "chosen"
    BY <1>4 DEF Judge
  <2> QED  BY <2>1, <2>2, <2>3 DEF TypeOK, Progress, Chosen
<1>5. ASSUME NEW r \in Run, RunMoves(r), r \in launched \cup Stray, UNCHANGED Rest
      PROVE  Published'
  <2>1. \A i \in Node \ launched : i # r
    BY <1>5
  <2>2. \A p \in Place : shown'[p] # shown[p] => shown'[p] = r /\ place[r] = p
    BY <1>5 DEF RunMoves
  <2>3. \A q \in Run : life[q] # "running" => life'[q] # "running"
    BY <1>5 DEF RunMoves
  <2>4. \A i \in Node \ launched : life'[i] = "running"
    BY <1>5, <2>1 DEF RunMoves, Run
  <2>5. \A p \in Place : shown'[p] \in Run =>
          place[shown'[p]] = p /\ life'[shown'[p]] # "running"
    BY <1>5, <2>2, <2>3 DEF RunMoves
  <2>6. Broken # r
    OBVIOUS
  <2> QED  BY <1>5, <2>2, <2>4, <2>5, <2>6 DEF Rest, TypeOK
<1>6. CASE Kill
  BY <1>5, <1>6, KillStep
<1>7. ASSUME NEW r \in Run, Runs(r) PROVE Published'
  BY <1>5, <1>7, RunStep
<1>8. ASSUME NEW p \in Place, Spoil(p) PROVE Published'
  BY <1>8 DEF Spoil, TypeOK, Run
<1>9. CASE UNCHANGED vars
  BY <1>9 DEF vars
<1> QED
  BY <1>1, <1>2, <1>3, <1>4, <1>6, <1>7, <1>8, <1>9 DEF Next, Command

LEMMA RememberedStep ==
  ASSUME TypeOK, Progress, Published, OneAtATime, Remembered, [Next]_vars
  PROVE  Remembered'
<1> USE ClusterAssumption DEF Remembered, In, InTurn
<1>1. CASE Refuse \/ Decline \/ Confirm \/ NoFolder \/ Judge \/ Finish \/ Abort
  BY <1>1 DEF Refuse, Decline, Confirm, NoFolder, Judge, Leave, Record, Finish, Abort
<1>2. CASE List
  <2>1. turn \in Node /\ turn \notin launched /\ turn' = turn /\ launched' = launched
        /\ life' = life /\ shown' = shown /\ folder' = folder
    BY <1>2 DEF List, Progress, TypeOK, Node
  <2>2. earlier' = {r \in Run : life[r] # "running"}
        /\ before' = [p \in Place |-> IF p \in In(turn) THEN shown[p] ELSE None]
    BY <1>2 DEF List
  <2>3. turn \notin earlier'
    BY <2>1, <2>2 DEF Published
  <2>4. \A i \in launched : i \in earlier'
    BY <1>2, <2>2 DEF List, OneAtATime, P!Alive, TypeOK, Run
  <2>5. \A p \in Place : shown[p] # turn
    BY <2>1 DEF Published, Run
  <2>6. None # turn
    BY <2>1 DEF Run
  <2>7. \A p \in In(turn) : before'[p] = shown[p]
    BY <2>2
  <2> QED  BY <2>1, <2>2, <2>3, <2>4, <2>5, <2>7
<1>3. CASE Start
  BY <1>3 DEF Start
<1>4. CASE NoStart \/ Wait \/ Choose \/ Expire
  BY <1>4 DEF NoStart, Wait, Choose, Expire
<1>5. ASSUME NEW r \in Run, RunMoves(r), UNCHANGED Rest
      PROVE  Remembered'
  <2>1. step \in InTurn => r \notin earlier \/ life[r] # "running"
    BY <1>5
  <2>2. step \in InTurn => \A p \in In(turn) : shown'[p] \in earlier => shown'[p] = before[p]
    BY <1>5 DEF RunMoves
  <2>3. step \in InTurn => \A q \in earlier : life'[q] # "running"
    BY <1>5 DEF RunMoves, TypeOK
  <2> QED  BY <1>5, <2>2, <2>3 DEF Rest
<1>6. CASE Kill
  BY <1>5, <1>6, KillStep
<1>7. ASSUME NEW r \in Run, Runs(r) PROVE Remembered'
  BY <1>5, <1>7, RunStep
<1>8. ASSUME NEW p \in Place, Spoil(p) PROVE Remembered'
  BY <1>8 DEF Spoil, TypeOK, Run
<1>9. CASE UNCHANGED vars
  BY <1>9 DEF vars
<1> QED
  BY <1>1, <1>2, <1>3, <1>4, <1>6, <1>7, <1>8, <1>9 DEF Next, Command

LEMMA ChosenStep ==
  ASSUME TypeOK, Progress, Published, OneAtATime, Remembered, Chosen, [Next]_vars
  PROVE  Chosen'
<1> USE ClusterAssumption DEF Chosen, In
<1>1. CASE Refuse \/ Decline \/ Confirm \/ NoFolder \/ List \/ Start \/ NoStart \/ Kill \/ Wait
           \/ Judge \/ Finish \/ Expire \/ Abort
  BY <1>1 DEF Refuse, Decline, Confirm, NoFolder, List, Start, NoStart, Kill, Wait, Judge,
     Record, Finish, Expire, Abort, Leave
<1>2. CASE Choose
  <2>1. step \in InTurn /\ UNCHANGED <<folder, place, shown, turn, earlier>>
    BY <1>2 DEF Choose, InTurn
  <2>2. chosen' # None => chosen' \in NewArchives
    BY <1>2 DEF Choose
  <2>3. shown[place[turn]] = turn => place[turn] \in NewArchives
    BY <2>1 DEF NewArchives, Remembered, Published, Progress, TypeOK, Run
  <2>4. shown[place[turn]] = turn => chosen' # None
    BY <1>2, <2>3 DEF Choose, NewArchives
  <2>5. ASSUME NEW p \in NewArchives
        PROVE  /\ p \in In(turn) /\ shown[p] \notin earlier
               /\ folder[turn] \notin Meddling => shown[p] \in Run
    BY <2>1, <2>5 DEF NewArchives, Remembered, Published, TypeOK
  <2> QED  BY <2>1, <2>2, <2>4, <2>5
<1>3. ASSUME NEW r \in Run, Runs(r) PROVE Chosen'
  <2>1. RunMoves(r) /\ r \in launched \cup Stray /\ UNCHANGED Rest
    BY <1>3, RunStep
  <2>2. step = "chosen" => r # turn
    BY <2>1 DEF RunMoves, OneAtATime, Progress, InTurn, TypeOK
  <2>3. step = "chosen" => r \notin earlier \/ life[r] # "running"
    BY DEF Remembered, InTurn
  <2>4. step = "chosen" /\ chosen # None =>
          shown'[chosen] \notin earlier /\ (folder[turn] \notin Meddling => shown'[chosen] \in Run)
    BY <2>1, <2>3 DEF RunMoves
  <2>5. step = "chosen" /\ shown'[place[turn]] = turn => shown[place[turn]] = turn
    BY <2>1, <2>2 DEF RunMoves, TypeOK, Progress, InTurn, Run
  <2> QED  BY <2>1, <2>4, <2>5 DEF Rest
<1>4. ASSUME NEW p \in Place, Spoil(p) PROVE Chosen'
  <2>1. step = "chosen" => turn \in Run /\ place[turn] \in Place
    BY DEF Progress, InTurn, TypeOK, Run
  <2> QED  BY <1>4, <2>1 DEF Spoil, TypeOK, Remembered, InTurn, Run
<1>5. CASE UNCHANGED vars
  BY <1>5 DEF vars
<1> QED
  BY <1>1, <1>2, <1>3, <1>4, <1>5 DEF Next, Command

-----------------------------------------------------------------------------
(* The exit code.                                                          *)

LEMMA HonestStep ==
  ASSUME TypeOK, Progress, Tallied, Published, Published', ExitIsHonest, [Next]_vars
  PROVE  ExitIsHonest'
<1> USE ClusterAssumption DEF ExitIsHonest
<1>1. exit' = exit => results' = results \/ exit = "none"
  BY DEF Next, Command, vars, Refuse, Decline, Confirm, NoFolder, List, Start, NoStart, Kill,
     Wait, Choose, Judge, Leave, Record, Finish, Expire, Abort, Runs, Spoil, Progress
<1>2. CASE Refuse \/ Decline
  BY <1>2 DEF Refuse, Decline, Progress
<1>3. CASE Finish
  <2>1. turn = N /\ results' = results /\ turn' = turn /\ exit' \in {"0", "1"}
        /\ (exit' = "0" <=> Failures = {})
    BY <1>3 DEF Finish, Progress
  <2>2. \A i \in Node : results[i].status # "none"
    BY <1>3, <2>1 DEF Finish, Tallied, Node
  <2> QED  BY <2>1, <2>2 DEF Failures, Published
<1>4. CASE exit' = exit /\ turn' = turn
  BY <1>1, <1>4 DEF Published
<1>5. CASE Confirm \/ NoFolder \/ Judge
  BY <1>5 DEF Confirm, NoFolder, Judge, Progress
<1>6. (exit' = exit /\ turn' = turn) \/ Confirm \/ NoFolder \/ Judge \/ Refuse \/ Decline \/ Finish
  BY DEF Next, Command, vars, List, Start, NoStart, Kill, Wait, Choose, Expire, Abort, Leave, Runs,
     Spoil
<1> QED  BY <1>2, <1>3, <1>4, <1>5, <1>6

-----------------------------------------------------------------------------
(* The invariant, and what follows.                                        *)

LEMMA InitInv == Init => IInv
<1> SUFFICES ASSUME Init PROVE IInv
  OBVIOUS
<1> USE ClusterAssumption
<1>1. TypeOK
  BY TypeInit
<1>2. Published
  BY DEF Init, Published, P!PubInit, NoResult, Run
<1>3. Progress /\ Tallied /\ Remembered /\ Chosen
  BY DEF Init, Progress, Tallied, Remembered, Chosen, InTurn, NoResult, Node
<1>4. OneAtATime /\ ExitIsHonest
  BY DEF Init, OneAtATime, ExitIsHonest
<1> QED  BY <1>1, <1>2, <1>3, <1>4 DEF IInv

LEMMA StepInv == IInv /\ [Next]_vars => IInv'
  BY TypeStep, ProgressStep, TalliedStep, PublishedStep, RememberedStep, ChosenStep,
     OneAtATimeStep, HonestStep
  DEF IInv

THEOREM ClusterInvariant == Spec => []IInv
  BY InitInv, StepInv, PTL DEF Spec

\* The state variables keep their types (Main and runOne).
THEOREM ClusterTypeCorrect == Spec => []TypeOK
  BY ClusterInvariant, PTL DEF IInv

\* Whatever the runs do, and however late, the command has at most one of its
\* own at work, and none when it has ended (runOne: Run waits for what it killed).
THEOREM NeverTwoRuns == Spec => []OneAtATime
  BY ClusterInvariant, PTL DEF IInv

\* The exit code tells whether every node has its bundle (the end of Main).
THEOREM HonestExit == Spec => []ExitIsHonest
  BY ClusterInvariant, PTL DEF IInv

\* Only the node in hand gets a result, from NoFolder or from Judge.
LEMMA OnlyJudged ==
  ASSUME IInv, [Next]_vars, NEW i \in Node, Judged(i)
  PROVE  /\ i = turn
         /\ NoFolder \/ Judge
<1>1. NoFolder \/ Judge
  BY DEF Judged, Next, Command, vars, Refuse, Decline, Confirm, List, Start, NoStart, Kill,
     Wait, Choose, Finish, Expire, Abort, Leave, Runs, Spoil
<1>2. \A j \in Node : results'[j] # results[j] => j = turn
  BY <1>1 DEF NoFolder, Judge, Leave, Record, IInv, TypeOK
<1> QED  BY <1>1, <1>2 DEF Judged

LEMMA NotLaunched ==
  ASSUME IInv, NoFolder
  PROVE  turn \notin launched /\ results'[turn].status = "failed"
  BY DEF NoFolder, Record, IInv, TypeOK, Progress, Node

LEMMA JudgedBy ==
  ASSUME IInv, Judge
  PROVE  /\ turn \in Node /\ step = "chosen"
         /\ results'[turn] = [status  |-> StatusOf,
                              archive |-> IF StatusOf = "ok" THEN chosen ELSE None]
  BY DEF Judge, Leave, Record, IInv, TypeOK, Progress, InTurn

\* "ok" is for a whole archive of this turn, whatever earlier commands left
\* behind and whenever the deadline passed (runOne).
THEOREM FreshOk == Spec => OkIsFresh
<1>1. ASSUME IInv, [Next]_vars, NEW i \in Node, Judged(i), results'[i].status = "ok"
      PROVE  /\ results'[i].archive \in In(i)
             /\ shown[results'[i].archive] \in ({i} \cup Stray) \ earlier
             /\ i \in launched /\ life[i] = "success" /\ ~expired
  <2>1. i = turn /\ Judge
    BY <1>1, OnlyJudged, NotLaunched
  <2>2. /\ turn \in Node /\ step = "chosen"
        /\ StatusOf = "ok" /\ results'[turn].archive = chosen
    BY <1>1, <2>1, JudgedBy
  <2>3. ~expired /\ ExitedZero /\ chosen # None /\ Verified(chosen)
    BY <2>2 DEF StatusOf
  <2>4. chosen \in In(turn) /\ shown[chosen] \in Run /\ shown[chosen] \notin earlier
    BY <1>1, <2>2, <2>3 DEF IInv, Chosen, Verified
  <2>5. ASSUME shown[chosen] \in Node, shown[chosen] # turn PROVE FALSE
    <3>1. life[shown[chosen]] # "running"
      BY <1>1, <2>4 DEF IInv, Published, In
    <3>2. shown[chosen] \in launched
      BY <1>1, <2>5, <3>1 DEF IInv, Published
    <3> QED  BY <1>1, <2>2, <2>4, <2>5, <3>2 DEF IInv, Remembered, InTurn
  <2> QED  BY <2>1, <2>2, <2>3, <2>4, <2>5 DEF ExitedZero, Run
<1>2. IInv /\ [Next]_vars =>
        [\A i \in Node : Judged(i) /\ results'[i].status = "ok" =>
           /\ results'[i].archive \in In(i)
           /\ shown[results'[i].archive] \in ({i} \cup Stray) \ earlier
           /\ i \in launched /\ life[i] = "success" /\ ~expired]_vars
  BY <1>1
<1> QED  BY ClusterInvariant, <1>2, PTL DEF Spec, OkIsFresh

\* A bundle that is there is not missed, unless somebody else touches it
\* (newArchive: a name that was there before counts if it was replaced).
THEOREM NoBundleMissed == Spec => CompleteIsOk
<1>1. ASSUME IInv, [Next]_vars, NEW i \in Node, folder[i] \notin Meddling, Judged(i),
             results'[i].status # "ok", i \in launched, life[i] = "success", ~expired,
             shown[place[i]] = i
      PROVE  FALSE
  <2>1. i = turn /\ Judge
    BY <1>1, OnlyJudged, NotLaunched
  <2>2. step = "chosen" /\ StatusOf # "ok"
    BY <1>1, <2>1, JudgedBy
  <2>3. chosen # None /\ shown[chosen] \in Run
    BY <1>1, <2>1, <2>2 DEF IInv, Chosen
  <2> QED  BY <1>1, <2>1, <2>2, <2>3 DEF StatusOf, ExitedZero, Verified
<1>2. IInv /\ [Next]_vars =>
        [\A i \in Node :
           /\ folder[i] \notin Meddling /\ Judged(i) /\ results'[i].status # "ok"
           /\ i \in launched /\ life[i] = "success" /\ ~expired
           => shown[place[i]] # i]_vars
  BY <1>1
<1> QED  BY ClusterInvariant, <1>2, PTL DEF Spec, CompleteIsOk

-----------------------------------------------------------------------------
(* Discover, which says what nodes the command has: for every answer of the *)
(* server, of any length, in any order, with any clusters and addresses.    *)

LEMMA ShardsType ==
  ASSUME rows \in Seq(Row), NEW c
  PROVE  Shards(c) \in Nat
<1> DEFINE Rows == {m \in Number : rows[m].cluster = c}
<1>1. IsFiniteSet(Number)
  BY FS_Interval DEF Number
<1>2. IsFiniteSet(Rows)
  BY <1>1, FS_Subset
<1> DEFINE shards == {rows[n].shard : n \in Rows}
           shard == [n \in Rows |-> rows[n].shard]
<1>3. shard \in Surjection(Rows, shards)
  BY DEF Surjection
<1>4. IsFiniteSet(shards)
  BY <1>2, <1>3, FS_Surjection
<1> QED  BY <1>4, FS_CardinalityType DEF Shards

LEMMA RankType ==
  ASSUME rows \in Seq(Row), NEW n
  PROVE  Rank(n) \in Nat
<1>1. Shards(rows[n].cluster) \in Nat
  BY ShardsType
<1> QED  BY <1>1 DEF Rank

\* Better compares the ranks.
LEMMA BetterIsRank ==
  ASSUME rows \in Seq(Row), NEW a, NEW b
  PROVE  Better(a, b) <=> Rank(a) > Rank(b)
<1>1. Shards(rows[a].cluster) \in Nat /\ Shards(rows[b].cluster) \in Nat
  BY ShardsType
<1> QED  BY <1>1 DEF Better, Rank

LEMMA RowErrors ==
  ASSUME rows \in Seq(Row), NEW n \in Number
  PROVE  rows[n] \in Row /\ rows[n].errors \in Nat
<1>1. rows[n] \in Row
  BY DEF Number
<1> QED  BY <1>1 DEF Row

\* The key of a row that is kept and not dropped is its machine's, and only such
\* a row counts.
LEMMA CountsOnce ==
  ASSUME rows \in Seq(Row), NEW n \in Number
  PROVE  /\ KeyOf(n) \in Key
         /\ \A k \in Key : Counts(n, k) <=> Kept(n) /\ ~Dropped(n) /\ k = KeyOf(n)
<1>1. rows[n] \in Row
  BY RowErrors
<1> QED  BY <1>1, DiscoveryAssumption DEF Row, KeyOf, Key, Counts, Kept, Dropped

\* The loop has done the rows before next.
Loop ==
  /\ pc = "filter" => next = 1
  /\ pc = "done" => next = Len(rows) + 1
  /\ \A k \in Key : NodeFrom(nodes[k], RowsOf(k, next))

DiscoverInv == DiscoverTypeOK /\ Loop

LEMMA DiscoverInitInv == DiscoverInit => DiscoverInv
<1> SUFFICES ASSUME DiscoverInit PROVE DiscoverInv
  OBVIOUS
<1>1. rows \in Seq(Row)
  BY DiscoveryAssumption DEF DiscoverInit
<1>2. DiscoverTypeOK
  BY <1>1 DEF DiscoverInit, DiscoverTypeOK, NoNode
<1>3. ASSUME NEW k \in Key PROVE NodeFrom(nodes[k], RowsOf(k, next))
  BY DEF DiscoverInit, NodeFrom, RowsOf, Number
<1> QED  BY <1>2, <1>3 DEF DiscoverInit, DiscoverInv, Loop

\* One more row: it counts for one machine or none.
LEMMA MoreRows ==
  ASSUME DiscoverInv, Advance, NEW k \in Key
  PROVE  /\ next \in Number
         /\ RowsOf(k, next') = IF Counts(next, k) THEN RowsOf(k, next) \cup {next}
                               ELSE RowsOf(k, next)
         /\ \A n \in RowsOf(k, next) : n \in Number /\ n < next
  BY DEF Advance, DiscoverInv, DiscoverTypeOK, RowsOf, Number

\* What the rows say of a node stays what it is.
LEMMA SameRows ==
  ASSUME rows' = rows, only' = only, NEW k \in Key,
         NodeFrom(nodes'[k], RowsOf(k, next'))
  PROVE  NodeFrom(nodes[k], RowsOf(k, next))'
<1>1. Number' = Number
  BY DEF Number
<1>2. \A c : Shards(c)' = Shards(c)
  BY <1>1 DEF Shards
<1>3. \A n : Rank(n)' = Rank(n)
  BY <1>2 DEF Rank
<1>4. RowsOf(k, next)' = RowsOf(k, next')
  BY <1>1 DEF RowsOf, Counts
<1>5. NoNode' = NoNode
  BY DEF NoNode
<1> QED  BY <1>3, <1>4, <1>5 DEF NodeFrom

\* The first candidate, and one more after all the others.
LEMMA FirstRow ==
  ASSUME rows \in Seq(Row), NEW n \in Number
  PROVE  NodeFrom([from |-> n, errors |-> rows[n].errors], {n})
<1>1. rows[n].errors \in Nat
  BY RowErrors
<1> QED  BY <1>1, RankType DEF NodeFrom, Number

LEMMA OneMoreRow ==
  ASSUME DiscoverTypeOK, NEW node \in [from : Nat, errors : Nat], NEW candidates \in SUBSET Number,
         NEW n \in Number, \A m \in candidates : m < n,
         NodeFrom(node, candidates), node # NoNode
  PROVE  NodeFrom(Merged(node, n), candidates \cup {n})
<1>1. rows \in Seq(Row) /\ \A m \in Number : rows[m].errors \in Nat
  BY RowErrors DEF DiscoverTypeOK
<1>2. \A m \in Number : Rank(m) \in Nat
  BY <1>1, RankType
<1>3. node.from \in candidates /\ node.from < n
  BY DEF NodeFrom
<1>4. Merged(node, n) = [from   |-> IF Rank(n) > Rank(node.from) THEN n ELSE node.from,
                         errors |-> Larger(node.errors, rows[n].errors)]
  BY <1>1, BetterIsRank DEF Merged
<1>5. CASE Rank(n) > Rank(node.from)
  <2>1. Merged(node, n).from = n
    BY <1>4, <1>5
  <2>2. \A m \in candidates : Rank(m) < Rank(n)
    BY <1>2, <1>3, <1>5 DEF NodeFrom
  <2>3. Merged(node, n).errors = Larger(node.errors, rows[n].errors)
    BY <1>4
  <2>4. /\ rows[n].errors <= Merged(node, n).errors /\ node.errors <= Merged(node, n).errors
        /\ Merged(node, n).errors \in {node.errors, rows[n].errors}
    BY <1>1, <2>3 DEF Larger
  <2>5. \A m \in candidates : rows[m].errors <= node.errors
    BY DEF NodeFrom
  <2>6. \A m \in candidates \cup {n} : rows[m].errors <= Merged(node, n).errors
    BY <1>1, <2>4, <2>5
  <2>7. \E m \in candidates \cup {n} : rows[m].errors = Merged(node, n).errors
    BY <2>4 DEF NodeFrom
  <2> QED  BY <1>2, <2>1, <2>2, <2>6, <2>7 DEF NodeFrom, Number
<1>6. CASE ~(Rank(n) > Rank(node.from))
  <2>1. Merged(node, n).from = node.from
    BY <1>4, <1>6
  <2>3. Merged(node, n).errors = Larger(node.errors, rows[n].errors)
    BY <1>4
  <2>4. /\ rows[n].errors <= Merged(node, n).errors /\ node.errors <= Merged(node, n).errors
        /\ Merged(node, n).errors \in {node.errors, rows[n].errors}
    BY <1>1, <2>3 DEF Larger
  <2>5. \A m \in candidates : rows[m].errors <= node.errors
    BY DEF NodeFrom
  <2>6. \A m \in candidates \cup {n} : rows[m].errors <= Merged(node, n).errors
    BY <1>1, <2>4, <2>5
  <2>7. \E m \in candidates \cup {n} : rows[m].errors = Merged(node, n).errors
    BY <2>4 DEF NodeFrom
  <2> QED  BY <1>2, <1>3, <1>6, <2>1, <2>6, <2>7 DEF NodeFrom, Number
<1> QED  BY <1>5, <1>6

LEMMA DiscoverStepInv == DiscoverInv /\ [DiscoverNext]_discovery => DiscoverInv'
<1> SUFFICES ASSUME DiscoverInv, [DiscoverNext]_discovery PROVE DiscoverInv'
  OBVIOUS
<1> USE DEF DiscoverInv
<1>1. rows \in Seq(Row) /\ rows' = rows /\ only' = only
  BY DEF DiscoverTypeOK, DiscoverNext, Unknown, Filter, Skip, Add, Merge, Advance, Return, discovery
<1>2. CASE Unknown \/ Filter \/ Return \/ UNCHANGED discovery
  <2>1. nodes' = nodes /\ next' = next /\ DiscoverTypeOK'
    BY <1>2 DEF DiscoverTypeOK, Unknown, Filter, Return, discovery
  <2>2. \A k \in Key : NodeFrom(nodes[k], RowsOf(k, next))'
    BY <1>1, <2>1, SameRows DEF Loop
  <2>3. (pc = "filter" => next = 1)' /\ (pc = "done" => next = Len(rows) + 1)'
    BY <1>1, <1>2 DEF Loop, DiscoverTypeOK, Unknown, Filter, Return, discovery
  <2> QED  BY <2>1, <2>2, <2>3 DEF Loop
<1>3. ASSUME Advance,
             nodes' \in [Key -> [from : 0..Len(rows), errors : Nat]],
             \A k \in Key : NodeFrom(nodes'[k], RowsOf(k, next'))
      PROVE  DiscoverInv'
  <2>1. DiscoverTypeOK'
    BY <1>3 DEF Advance, DiscoverTypeOK
  <2>2. \A k \in Key : NodeFrom(nodes[k], RowsOf(k, next))'
    BY <1>1, <1>3, SameRows
  <2> QED  BY <1>3, <2>1, <2>2 DEF Advance, Loop
<1>4. CASE Skip
  <2>1. next \in Number /\ \A k \in Key : ~Counts(next, k)
    BY <1>1, <1>4, MoreRows, CountsOnce DEF Skip, Advance, DiscoverTypeOK, Number
  <2>2. \A k \in Key : RowsOf(k, next') = RowsOf(k, next)
    BY <1>4, <2>1, MoreRows DEF Skip
  <2> QED  BY <1>3, <1>4, <2>2 DEF Skip, Loop, DiscoverTypeOK
<1>5. CASE Add \/ Merge
  <2> DEFINE key == KeyOf(next)
             node == IF nodes[key] = NoNode
                     THEN [from |-> next, errors |-> rows[next].errors]
                     ELSE Merged(nodes[key], next)
  <2>1. Advance /\ nodes' = [nodes EXCEPT ![key] = node]
        /\ Kept(next) /\ ~Dropped(next)
    BY <1>5 DEF Add, Merge
  <2>2. next \in Number /\ rows[next].errors \in Nat
    <3>1. next \in Number
      BY <1>1, <2>1 DEF Advance, DiscoverTypeOK, Number
    <3> QED  BY <1>1, <3>1, RowErrors
  <2>3. key \in Key /\ \A k \in Key : Counts(next, k) <=> k = key
    BY <1>1, <2>1, <2>2, CountsOnce
  <2>4. node \in [from : 0..Len(rows), errors : Nat]
    BY <1>1, <2>2, <2>3 DEF Merged, Larger, DiscoverTypeOK, Number, NoNode
  <2>5. ASSUME NEW k \in Key PROVE NodeFrom(nodes'[k], RowsOf(k, next'))
    <3>1. CASE k # key
      BY <2>1, <2>3, <2>5, <3>1, MoreRows DEF Loop, DiscoverTypeOK
    <3>2. CASE k = key
      <4>1. nodes'[k] = node /\ RowsOf(k, next') = RowsOf(k, next) \cup {next}
        BY <2>1, <2>3, <3>2, MoreRows DEF DiscoverTypeOK
      <4>2. NodeFrom(nodes[k], RowsOf(k, next))
        BY DEF Loop
      <4>3. RowsOf(k, next) \subseteq Number /\ \A m \in RowsOf(k, next) : m < next
        BY <2>1, MoreRows
      <4>4. CASE nodes[k] = NoNode
        <5>1. RowsOf(k, next) = {}
          BY <4>2, <4>3, <4>4 DEF NodeFrom, NoNode, Number
        <5> QED  BY <1>1, <2>2, <3>2, <4>1, <4>4, <5>1, FirstRow
      <4>5. CASE nodes[k] # NoNode
        <5>1. nodes[k] \in [from : Nat, errors : Nat]
          BY <1>1 DEF DiscoverTypeOK
        <5> QED  BY <2>2, <3>2, <4>1, <4>2, <4>3, <4>5, <5>1, OneMoreRow
      <4> QED  BY <4>4, <4>5
    <3> QED  BY <3>1, <3>2
  <2> QED  BY <1>3, <2>1, <2>3, <2>4, <2>5 DEF DiscoverTypeOK
<1> QED  BY <1>2, <1>4, <1>5 DEF DiscoverNext

THEOREM DiscoveryInvariant == DiscoverSpec => []DiscoverInv
  BY DiscoverInitInv, DiscoverStepInv, PTL DEF DiscoverSpec

\* The rows, the loop and the nodes keep their types (Discover).
THEOREM DiscoveryTypeCorrect == DiscoverSpec => []DiscoverTypeOK
  BY DiscoveryInvariant, PTL DEF DiscoverInv

\* For every answer: a node for each machine that has a row that counts and for
\* no other, labelled by the first of its rows in the highest rank (Discover).
THEOREM DiscoversEveryMachine == DiscoverSpec => []EveryMachineOnce
<1>1. DiscoverInv => EveryMachineOnce
  BY DEF DiscoverInv, Loop, EveryMachineOnce
<1> QED  BY <1>1, DiscoveryInvariant, PTL
=============================================================================
