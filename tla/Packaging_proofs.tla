-------------------------- MODULE Packaging_proofs --------------------------
(***************************************************************************)
(* Theorems about Packaging, for every number of runs in every number of   *)
(* directories.                                                            *)
(***************************************************************************)
EXTENDS Packaging, TLAPS

\* An archive carries the name of the directory of its run; a stream that is
\* synced has its end, and all of it reached the disk.
StreamInv ==
  /\ \A p \in Place : archive[p] # NoStream =>
       archive[p] \in Stream /\ place[archive[p].by] = p
  /\ \A r \in Run :
       /\ pc[r] \in {"syncing", "closing", "renaming"} => temp[r].ended
       /\ pc[r] \in {"closing", "renaming"} => ~temp[r].lost

\* What a run in gov mode has not touched, in a directory of its own.
GovOf(r) ==
  Alone(r) /\ flags[r].gov =>
    /\ pc[r] \notin {"early log", "dashboard"}
    /\ files[place[r]]["dashboard"] = NoFile
    /\ pc[r] \in Packing => temp[r].holds["dashboard"] = NoFile

GovInv == \A r \in Run : GovOf(r)

\* The two files that record the alerts, by their place in WalkOrder.
Record == {"summary", "dashboard"}

Visited(s, f) == (IF f = "summary" THEN 1 ELSE 2) < s.next

\* Where the record of the alerts is, from the step after the dashboard on: in
\* the directory, as long as that exists, and from its list of names into the
\* stream; only Clean can take it away, and then the walk does not end.
InDirectory(r) ==
  \/ place[r] \in gone
  \/ \E f \in Record : files[place[r]][f].state = "whole"

InStream(r) ==
  \E f \in Record :
    /\ f \in temp[r].listed
    /\ Visited(temp[r], f) => temp[r].holds[f].state = "whole"
    /\ ~Visited(temp[r], f) => files[place[r]][f].state \in {"whole", "none"}

Recorded(r) ==
  /\ pc[r] \in {"log", "archive"} => InDirectory(r)
  /\ pc[r] \in Packing => InStream(r)
  /\ pc[r] \in Packing \ {"adding"} => temp[r].next = 5

\* The open file of a run that is alone is its own, if the directory is there.
Opened(r) == writing[r] => place[r] \in gone \/ files[place[r]][FileOf(pc[r])].by = r

RecordOf(r) ==
  Alone(r) =>
    /\ Opened(r)
    /\ flags[r].alerts /\ "summary" \notin failed[r] => Recorded(r)

RecordInv == \A r \in Run : RecordOf(r)

-----------------------------------------------------------------------------
(* Types.                                                                  *)

USE PackagingAssumption

\* The file that follows another is one of the five writes, or their end.
LEMMA AfterType ==
  ASSUME NEW r \in Run, NEW written \in BOOLEAN, pc[r] \in Writing
  PROVE  After(r, written) \in Writing \cup {"archive", "success"}
  BY DEF After, AfterDashboard, WantsDashboard, Writing

LEMMA FileOfType == \A step \in Writing : FileOf(step) \in File
  BY DEF FileOf, Writing, File

LEMMA NoFilesType == NoFiles \in [File -> Copy]
  BY DEF NoFiles, NoFile, Copy

\* A stream starts with nothing, and grows by one copy, until it gets its end.
LEMMA NewStreamType ==
  ASSUME NEW r \in Run
  PROVE  /\ NewStream(r) \in Stream /\ NewStream(r).by = r
         /\ NewStream(r).next = 1 /\ ~NewStream(r).lost
         /\ NewStream(r).listed = {f \in File : files[place[r]][f].state # "none"}
         /\ NewStream(r).holds = NoFiles
  BY NoFilesType DEF NewStream, Stream

LEMMA WithCopyType ==
  ASSUME NEW s \in Stream, NEW f \in File, NEW copy \in Copy, NEW lost \in BOOLEAN,
         s.next # 5
  PROVE  LET w == WithCopy(s, f, copy, lost) IN
         /\ w \in Stream
         /\ w.by = s.by /\ w.listed = s.listed /\ w.ended = s.ended
         /\ w.next = s.next + 1
         /\ w.holds[f] = copy
         /\ \A g \in File : g # f => w.holds[g] = s.holds[g]
         /\ w.lost = lost
<1> DEFINE h == [s.holds EXCEPT ![f] = copy]
           n == s.next + 1
<1>1. h \in [File -> Copy] /\ h[f] = copy /\ \A g \in File : g # f => h[g] = s.holds[g]
  BY DEF Stream
<1>2. n \in 1..5 BY DEF Stream
<1>3. WithCopy(s, f, copy, lost) = [s EXCEPT !.next = n, !.holds = h, !.lost = lost]
  BY DEF WithCopy
<1> HIDE DEF h, n
<1>4. WithCopy(s, f, copy, lost) \in Stream BY <1>1, <1>2, <1>3 DEF Stream
<1>5. LET w == WithCopy(s, f, copy, lost) IN
        /\ w.by = s.by /\ w.listed = s.listed /\ w.ended = s.ended
        /\ w.next = n /\ w.holds = h /\ w.lost = lost
  BY <1>3 DEF Stream
<1>6. n = s.next + 1 BY DEF n
<1> QED BY <1>1, <1>4, <1>5, <1>6

LEMMA WithEndType ==
  ASSUME NEW s \in Stream, NEW lost \in BOOLEAN
  PROVE  LET w == WithEnd(s, lost) IN
         /\ w \in Stream
         /\ w.by = s.by /\ w.listed = s.listed /\ w.next = s.next /\ w.holds = s.holds
         /\ w.ended /\ w.lost = lost
  BY DEF WithEnd, Stream

\* Add copies the next file of WalkOrder, if it is on the list.
LEMMA AddsOne ==
  ASSUME TypeOK, NEW r \in Run, Add(r)
  PROVE  \E f \in File, copy \in Copy, lost \in BOOLEAN :
           /\ temp' = [temp EXCEPT ![r] = WithCopy(temp[r], f, copy, lost)]
           /\ f = WalkOrder[temp[r].next]
           /\ copy = IF f \in temp[r].listed THEN files[place[r]][f] ELSE NoFile
           /\ f \in temp[r].listed => files[place[r]][f].state # "none"
  <1>1. temp[r] \in Stream /\ temp[r].next \in 1..4
    BY DEF TypeOK, Add, Packing, WalkOrder, Stream
  <1> DEFINE f == WalkOrder[temp[r].next]
             copy == IF f \in temp[r].listed THEN files[place[r]][f] ELSE NoFile
  <1>2. f \in File BY <1>1 DEF WalkOrder, File
  <1>3. copy \in Copy BY <1>2 DEF TypeOK, NoFile, Copy
  <1>4. temp[r].lost \in BOOLEAN BY <1>1 DEF Stream
  <1>5. \E lost \in {temp[r].lost, TRUE} :
          temp' = [temp EXCEPT ![r] = WithCopy(temp[r], f, copy, lost)]
    BY DEF Add
  <1>6. f \in temp[r].listed => files[place[r]][f].state # "none" BY DEF Add
  <1> QED BY <1>2, <1>3, <1>4, <1>5, <1>6

\* The initial state has the types.
LEMMA InitType == Init => TypeOK
<1> SUFFICES ASSUME Init PROVE TypeOK OBVIOUS
<1>1. place \in [Run -> Place] /\ gone \subseteq Place BY DEF Init
<1>2. flags \in [Run -> FlagsType] BY DEF Init
<1>3. pc \in [Run -> PC] BY DEF Init, PC
<1>4. writing \in [Run -> BOOLEAN] /\ failed \in [Run -> SUBSET File] BY DEF Init
<1>5. files \in [Place -> [File -> Copy]] BY NoFilesType DEF Init
<1>6. temp \in [Run -> Stream \cup {NoStream}] /\ archive \in [Place -> Stream \cup {NoStream}]
  BY DEF Init
<1>7. \A r \in Run : pc[r] = "start" /\ ~writing[r] BY DEF Init
<1> QED BY <1>1, <1>2, <1>3, <1>4, <1>5, <1>6, <1>7 DEF TypeOK, Packing

\* A run that moves on, and changes nothing else, keeps the types.
LEMMA MoveType ==
  ASSUME TypeOK, NEW r \in Run, NEW from, NEW to \in PC, Go(r, from, to),
         from \notin Writing, to \in Packing => from \in Packing,
         UNCHANGED <<place, flags, writing, failed, files, gone, temp, archive>>
  PROVE  TypeOK'
<1>1. pc' \in [Run -> PC] BY DEF TypeOK, Go
<1>2. \A q \in Run : /\ pc'[q] \in Packing => pc[q] \in Packing
                     /\ writing[q] => pc'[q] = pc[q]
  BY DEF TypeOK, Go
<1> QED BY <1>1, <1>2 DEF TypeOK

\* So does the state after every step.
LEMMA StepType == TypeOK /\ [Next]_vars => TypeOK'
<1> SUFFICES ASSUME TypeOK, [Next]_vars PROVE TypeOK' OBVIOUS
<1> USE DEF Go
<1>1. ASSUME NEW r \in Run, GiveUp(r) PROVE TypeOK'
  <2>1. PICK to \in {"success", "failure"} :
          /\ Go(r, "start", to)
          /\ UNCHANGED <<place, flags, writing, failed, files, gone, temp, archive>>
    BY <1>1 DEF GiveUp
  <2> QED BY <2>1, MoveType DEF Packing, Ended, PC, Writing
<1>2. ASSUME NEW r \in Run, Mkdir(r) PROVE TypeOK'
  BY <1>2 DEF TypeOK, Mkdir, PC, Packing, Writing
<1>3. ASSUME NEW r \in Run, OpenFile(r) PROVE TypeOK'
  <2>1. FileOf(pc[r]) \in File /\ place[r] \in Place BY <1>3, FileOfType DEF OpenFile, TypeOK
  <2> DEFINE c == [by |-> IF Contested(r) THEN None ELSE r, state |-> "part"]
  <2>2. c \in Copy BY DEF Copy
  <2>3. files' = [files EXCEPT ![place[r]][FileOf(pc[r])] = c] BY <1>3 DEF OpenFile
  <2> HIDE DEF c
  <2>4. files' \in [Place -> [File -> Copy]] BY <2>1, <2>2, <2>3 DEF TypeOK
  <2> QED BY <1>3, <2>4 DEF TypeOK, OpenFile
<1>4. ASSUME NEW r \in Run, FinishFile(r) PROVE TypeOK'
  <2>1. FileOf(pc[r]) \in File /\ place[r] \in Place BY <1>4, FileOfType DEF FinishFile, TypeOK
  <2> DEFINE c == [files[place[r]][FileOf(pc[r])] EXCEPT !.state = "whole"]
  <2>5. c \in Copy
    <3>1. files[place[r]][FileOf(pc[r])] \in Copy BY <2>1 DEF TypeOK
    <3> QED BY <3>1 DEF Copy
  <2>6. files' = files \/ files' = [files EXCEPT ![place[r]][FileOf(pc[r])] = c]
    BY <1>4, <2>1 DEF FinishFile, TypeOK
  <2> HIDE DEF c
  <2>2. files' \in [Place -> [File -> Copy]] 
    <3>1. CASE files' = files BY <3>1 DEF TypeOK
    <3>2. CASE files' = [files EXCEPT ![place[r]][FileOf(pc[r])] = c]
      BY <2>1, <2>5, <3>2 DEF TypeOK
    <3> QED BY <2>6, <3>1, <3>2
  <2>3. After(r, TRUE) \in Writing \cup {"archive", "success"} BY <1>4, AfterType DEF FinishFile
  <2>4. pc' = [pc EXCEPT ![r] = After(r, TRUE)] /\ writing' = [writing EXCEPT ![r] = FALSE]
        /\ UNCHANGED <<place, flags, failed, gone, temp, archive>>
    BY <1>4 DEF FinishFile
  <2> QED BY <2>2, <2>3, <2>4, ZenonT(40) DEF TypeOK, PC, Writing, Packing, Ended
<1>5. ASSUME NEW r \in Run, FailFile(r) PROVE TypeOK'
  <2>1. FileOf(pc[r]) \in File BY <1>5, FileOfType DEF FailFile
  <2>2. After(r, FALSE) \in Writing \cup {"archive", "success"} BY <1>5, AfterType DEF FailFile
  <2>3. pc' = [pc EXCEPT ![r] = After(r, FALSE)] /\ writing' = [writing EXCEPT ![r] = FALSE]
        /\ failed' = [failed EXCEPT ![r] = @ \cup {FileOf(pc[r])}]
        /\ UNCHANGED <<place, flags, files, gone, temp, archive>>
    BY <1>5 DEF FailFile
  <2> QED BY <2>1, <2>2, <2>3, ZenonT(40) DEF TypeOK, PC, Writing, Packing, Ended
<1>6. ASSUME NEW r \in Run, NothingToPack(r) \/ NoTemp(r) \/ Exit(r) PROVE TypeOK'
  <2>1. PICK from \in {"archive", "published"}, to \in {"success", "failure"} :
          /\ Go(r, from, to)
          /\ UNCHANGED <<place, flags, writing, failed, files, gone, temp, archive>>
    BY <1>6 DEF NothingToPack, NoTemp, Exit
  <2> QED BY <2>1, MoveType DEF Packing, Ended, PC, Writing
<1>7. ASSUME NEW r \in Run, CreateTemp(r) PROVE TypeOK'
  <2>1. NewStream(r) \in Stream /\ NewStream(r).by = r BY NewStreamType
  <2>2. temp' = [temp EXCEPT ![r] = NewStream(r)] BY <1>7 DEF CreateTemp
  <2>3. pc' = [pc EXCEPT ![r] = "adding"] /\ pc[r] = "archive"
        /\ UNCHANGED <<place, flags, writing, failed, files, gone, archive>>
    BY <1>7 DEF CreateTemp
  <2> QED BY <2>1, <2>2, <2>3 DEF TypeOK, PC, Packing, Writing
<1>8. ASSUME NEW r \in Run, Add(r) PROVE TypeOK'
  <2>1. temp[r] \in Stream /\ temp[r].by = r /\ temp[r].next \in 1..4
    BY <1>8 DEF TypeOK, Add, Packing, WalkOrder, Stream
  <2>2. PICK f \in File, copy \in Copy, lost \in BOOLEAN :
          temp' = [temp EXCEPT ![r] = WithCopy(temp[r], f, copy, lost)]
    BY <1>8, AddsOne
  <2>3. WithCopy(temp[r], f, copy, lost) \in Stream /\ WithCopy(temp[r], f, copy, lost).by = r
    BY <2>1, WithCopyType
  <2>4. UNCHANGED <<place, flags, pc, writing, failed, files, gone, archive>> BY <1>8 DEF Add
  <2> QED BY <2>2, <2>3, <2>4 DEF TypeOK
<1>9. ASSUME NEW r \in Run, EndStream(r) PROVE TypeOK'
  <2>1. temp[r] \in Stream /\ temp[r].by = r BY <1>9 DEF TypeOK, EndStream, Packing
  <2>2. PICK lost \in BOOLEAN : temp' = [temp EXCEPT ![r] = WithEnd(temp[r], lost)]
    BY <1>9, <2>1 DEF EndStream, Stream
  <2>3. WithEnd(temp[r], lost) \in Stream /\ WithEnd(temp[r], lost).by = r
    BY <2>1, WithEndType
  <2>4. pc[r] = "ending" /\ pc' = [pc EXCEPT ![r] = "syncing"]
        /\ UNCHANGED <<place, flags, writing, failed, files, gone, archive>>
    BY <1>9 DEF EndStream
  <2> QED BY <2>2, <2>3, <2>4 DEF TypeOK, PC, Packing, Writing
<1>10. ASSUME NEW r \in Run, WalkDone(r) \/ Sync(r) \/ Close(r) \/ Stumble(r) PROVE TypeOK'
  BY <1>10, ZenonT(40) DEF TypeOK, WalkDone, Sync, Close, Stumble, PC, Packing, Writing
<1>11. ASSUME NEW r \in Run, Rename(r) PROVE TypeOK'
  <2>1. temp[r] \in Stream BY <1>11 DEF TypeOK, Rename, Packing
  <2> QED BY <1>11, <2>1 DEF TypeOK, Rename, PC, Packing, Writing
<1>12. ASSUME NEW r \in Run, Undo(r) PROVE TypeOK'
  <2>1. pc' = [pc EXCEPT ![r] = "failure"] /\ temp' \in {temp, [temp EXCEPT ![r] = NoStream]}
        /\ UNCHANGED <<place, flags, writing, failed, files, gone, archive>> /\ pc[r] = "undo"
    BY <1>12 DEF Undo, Go
  <2>2. \A q \in Run : q # r => pc'[q] = pc[q] /\ temp'[q] = temp[q]
    BY <2>1 DEF TypeOK
  <2>3. pc'[r] = "failure" /\ "failure" \notin Packing /\ ~writing[r]
    BY <2>1 DEF TypeOK, Packing, Writing
  <2>4. pc' \in [Run -> PC] /\ temp' \in [Run -> Stream \cup {NoStream}]
    BY <2>1 DEF TypeOK, PC, Ended
  <2> QED BY <2>1, <2>2, <2>3, <2>4 DEF TypeOK
<1>13. ASSUME NEW r \in Run, Kill(r) PROVE TypeOK'
  <2>1. pc' = [pc EXCEPT ![r] = "killed"] /\ writing' = [writing EXCEPT ![r] = FALSE]
        /\ UNCHANGED <<place, flags, failed, files, gone, temp, archive>>
    BY <1>13 DEF Kill
  <2>2. \A q \in Run : q # r => pc'[q] = pc[q] /\ writing'[q] = writing[q]
    BY <2>1 DEF TypeOK
  <2>3. pc'[r] = "killed" /\ "killed" \notin Packing /\ ~writing'[r]
    BY <2>1 DEF TypeOK, Packing, Writing
  <2>4. pc' \in [Run -> PC] /\ writing' \in [Run -> BOOLEAN]
    BY <2>1 DEF TypeOK, PC, Ended
  <2> QED BY <2>1, <2>2, <2>3, <2>4 DEF TypeOK
<1>14. ASSUME NEW p \in Place, Clean(p) PROVE TypeOK'
  <2>1. files' \in [Place -> [File -> Copy]] BY <1>14, NoFilesType DEF TypeOK, Clean
  <2> QED BY <1>14, <2>1 DEF TypeOK, Clean
<1>15. CASE UNCHANGED vars BY <1>15 DEF TypeOK, vars
<1> QED BY <1>1, <1>2, <1>3, <1>4, <1>5, <1>6, <1>7, <1>8, <1>9, <1>10, <1>11, <1>12,
           <1>13, <1>14, <1>15 DEF Next, Step, AllEnded

\* Packaging keeps its types, and a run that packs has a temporary file of its own.
THEOREM PackagingTypeCorrect == Spec => []TypeOK
  BY InitType, StepType, PTL DEF Spec

-----------------------------------------------------------------------------
(* Archives are whole.                                                     *)

Synced == {"syncing", "closing", "renaming"}

\* A step that touches no stream, and brings no run past the end of one.
LEMMA QuietStream ==
  ASSUME TypeOK, StreamInv, PublishedIsWhole, UNCHANGED <<place, temp, archive>>,
         \A q \in Run : \/ pc'[q] = pc[q]
                        \/ pc'[q] \notin Synced
                        \/ pc[q] = "syncing" /\ pc'[q] = "closing" /\ ~temp[q].lost
                        \/ pc[q] = "closing" /\ pc'[q] = "renaming"
  PROVE  StreamInv' /\ PublishedIsWhole'
<1>1. PublishedIsWhole' BY DEF PublishedIsWhole
<1>2. \A p \in Place : archive'[p] # NoStream =>
         archive'[p] \in Stream /\ place'[archive'[p].by] = p
  BY DEF StreamInv
<1>3. \A q \in Run : pc'[q] \in Synced => temp'[q].ended BY DEF StreamInv, Synced
<1>4. \A q \in Run : pc'[q] \in {"closing", "renaming"} => ~temp'[q].lost
  BY DEF StreamInv, Synced
<1> QED BY <1>1, <1>2, <1>3, <1>4 DEF StreamInv, Synced

LEMMA InitStream == Init => StreamInv /\ PublishedIsWhole
  BY DEF Init, StreamInv, PublishedIsWhole

LEMMA StepStream ==
  TypeOK /\ StreamInv /\ PublishedIsWhole /\ [Next]_vars => StreamInv' /\ PublishedIsWhole'
<1> SUFFICES ASSUME TypeOK, StreamInv, PublishedIsWhole, [Next]_vars
             PROVE  StreamInv' /\ PublishedIsWhole'
  OBVIOUS
<1> USE DEF Go
<1>1. ASSUME NEW r \in Run, \/ GiveUp(r) \/ Mkdir(r) \/ NothingToPack(r) \/ NoTemp(r)
                            \/ WalkDone(r) \/ Stumble(r) \/ Exit(r) \/ Kill(r)
      PROVE  StreamInv' /\ PublishedIsWhole'
  <2>1. PICK to \in PC \ Synced : pc' = [pc EXCEPT ![r] = to]
    BY <1>1 DEF GiveUp, Mkdir, NothingToPack, NoTemp, WalkDone, Stumble, Exit, Kill, Synced,
                PC, Ended, Writing, Packing
  <2>2. UNCHANGED <<place, temp, archive>>
    BY <1>1 DEF GiveUp, Mkdir, NothingToPack, NoTemp, WalkDone, Stumble, Exit, Kill
  <2>3. \A q \in Run : pc'[q] = pc[q] \/ pc'[q] \notin Synced BY <2>1 DEF TypeOK
  <2> QED BY <2>2, <2>3, QuietStream
<1>2. ASSUME NEW r \in Run, FinishFile(r) \/ FailFile(r)
      PROVE  StreamInv' /\ PublishedIsWhole'
  <2>1. PICK written \in BOOLEAN : pc' = [pc EXCEPT ![r] = After(r, written)]
    BY <1>2 DEF FinishFile, FailFile
  <2>2. After(r, written) \in Writing \cup {"archive", "success"}
    BY <1>2, AfterType DEF FinishFile, FailFile
  <2>3. UNCHANGED <<place, temp, archive>> BY <1>2 DEF FinishFile, FailFile
  <2>4. \A q \in Run : pc'[q] = pc[q] \/ pc'[q] \notin Synced
    BY <2>1, <2>2 DEF TypeOK, Synced, Writing
  <2> QED BY <2>3, <2>4, QuietStream
<1>3. ASSUME NEW r \in Run, Sync(r) \/ Close(r) PROVE StreamInv' /\ PublishedIsWhole'
  BY <1>3, QuietStream DEF Sync, Close, Synced, TypeOK
<1>4. ASSUME NEW r \in Run, CreateTemp(r) \/ Add(r) \/ EndStream(r) \/ Undo(r)
      PROVE  StreamInv' /\ PublishedIsWhole'
  <2>1. UNCHANGED <<place, archive>> BY <1>4 DEF CreateTemp, Add, EndStream, Undo
  <2>2. \A q \in Run : q # r => pc'[q] = pc[q] /\ temp'[q] = temp[q]
    BY <1>4 DEF CreateTemp, Add, EndStream, Undo, TypeOK
  <2>3. pc'[r] \notin Synced \/ (pc'[r] = "syncing" /\ temp'[r].ended)
    <3>1. CASE EndStream(r)
      <4>1. temp[r] \in Stream BY <3>1 DEF EndStream, TypeOK, Packing
      <4>2. PICK lost \in BOOLEAN : temp' = [temp EXCEPT ![r] = WithEnd(temp[r], lost)]
        BY <3>1, <4>1 DEF EndStream, Stream
      <4>3. WithEnd(temp[r], lost).ended BY <4>1, WithEndType
      <4> QED BY <3>1, <4>2, <4>3 DEF EndStream, TypeOK
    <3>2. CASE CreateTemp(r) BY <3>2 DEF CreateTemp, TypeOK, Synced
    <3>3. CASE Add(r) BY <3>3 DEF Add, Synced
    <3>4. CASE Undo(r) BY <3>4 DEF Undo, TypeOK, Synced
    <3> QED BY <1>4, <3>1, <3>2, <3>3, <3>4
  <2> QED BY <2>1, <2>2, <2>3 DEF StreamInv, PublishedIsWhole, Synced
<1>5. ASSUME NEW r \in Run, Rename(r) PROVE StreamInv' /\ PublishedIsWhole'
  <2>1. temp[r] \in Stream /\ temp[r].by = r /\ temp[r].ended /\ ~temp[r].lost
    BY <1>5 DEF Rename, TypeOK, StreamInv, Packing
  <2>2. \A p \in Place : archive'[p] = archive[p] \/ (archive'[p] = temp[r] /\ p = place[r])
    <3>1. archive' = [archive EXCEPT ![place[r]] = temp[r]] BY <1>5 DEF Rename
    <3>2. DOMAIN archive = Place BY DEF TypeOK
    <3> QED BY <3>1, <3>2
  <2>3. place' = place BY <1>5 DEF Rename
  <2>4. PublishedIsWhole' BY <2>1, <2>2 DEF PublishedIsWhole
  <2>5. \A p \in Place : archive'[p] # NoStream =>
           archive'[p] \in Stream /\ place'[archive'[p].by] = p
    BY <2>1, <2>2, <2>3 DEF StreamInv
  <2>6. \A q \in Run : pc'[q] \in Synced => q # r /\ pc'[q] = pc[q] /\ temp'[q] = temp[q]
    BY <1>5 DEF Rename, TypeOK, Synced
  <2> QED BY <2>4, <2>5, <2>6 DEF StreamInv, Synced
<1>6. CASE \/ \E r \in Run : OpenFile(r)
           \/ \E p \in Place : Clean(p)
           \/ UNCHANGED vars
  BY <1>6, QuietStream DEF OpenFile, Clean, vars
<1> QED BY <1>1, <1>2, <1>3, <1>4, <1>5, <1>6 DEF Next, Step, AllEnded

\* What is found under the name of an archive can be read to its end, for any
\* number of runs that share directories, fail, lose writes and are killed.
THEOREM ArchivesAreWhole == Spec => []PublishedIsWhole
<1>1. Init => TypeOK /\ StreamInv /\ PublishedIsWhole BY InitType, InitStream
<1>2. TypeOK /\ StreamInv /\ PublishedIsWhole /\ [Next]_vars
        => (TypeOK /\ StreamInv /\ PublishedIsWhole)'
  BY StepType, StepStream
<1> QED BY <1>1, <1>2, PTL DEF Spec

-----------------------------------------------------------------------------
(* What the steps of others leave alone.                                   *)

LEMMA Fixed == [Next]_vars => UNCHANGED <<place, flags>>
  BY DEF Next, Step, AllEnded, vars, GiveUp, Mkdir, OpenFile, FinishFile, FailFile,
         NothingToPack, CreateTemp, NoTemp, Add, WalkDone, EndStream, Sync, Close, Rename,
         Stumble, Undo, Exit, Kill, Clean

\* A step of one run leaves another alone, and its directory too, if it has one
\* of its own.
LEMMA Frame ==
  ASSUME TypeOK, NEW r \in Run, Step(r), NEW q \in Run, q # r
  PROVE  /\ pc'[q] = pc[q] /\ writing'[q] = writing[q]
         /\ temp'[q] = temp[q] /\ failed'[q] = failed[q]
         /\ Alone(q) => /\ files'[place[q]] = files[place[q]]
                        /\ place[q] \in gone' <=> place[q] \in gone
<1> USE DEF Go
<1>1. Alone(q) => place[r] # place[q] BY DEF Alone
<1>2. CASE \/ GiveUp(r) \/ NothingToPack(r) \/ CreateTemp(r) \/ NoTemp(r) \/ Add(r)
           \/ WalkDone(r) \/ EndStream(r) \/ Sync(r) \/ Close(r) \/ Rename(r) \/ Stumble(r)
           \/ Undo(r) \/ Exit(r)
  <2>1. pc'[q] = pc[q] /\ temp'[q] = temp[q]
    BY <1>2 DEF TypeOK, GiveUp, NothingToPack, CreateTemp, NoTemp, Add, WalkDone, EndStream,
                Sync, Close, Rename, Stumble, Undo, Exit
  <2>2. UNCHANGED <<writing, failed, files, gone>>
    BY <1>2 DEF GiveUp, NothingToPack, CreateTemp, NoTemp, Add, WalkDone, EndStream,
                Sync, Close, Rename, Stumble, Undo, Exit
  <2> QED BY <2>1, <2>2
<1>3. CASE Mkdir(r) \/ OpenFile(r) \/ FailFile(r) \/ Kill(r)
  <2>1. pc'[q] = pc[q] /\ writing'[q] = writing[q] /\ failed'[q] = failed[q]
    BY <1>3 DEF TypeOK, Mkdir, OpenFile, FailFile, Kill
  <2>2. temp' = temp BY <1>3 DEF Mkdir, OpenFile, FailFile, Kill
  <2>3. Alone(q) => /\ files'[place[q]] = files[place[q]]
                    /\ place[q] \in gone' <=> place[q] \in gone
    <3>1. CASE OpenFile(r)
      <4>1. gone' = gone \ {place[r]} BY <3>1 DEF OpenFile
      <4>2. Alone(q) => files'[place[q]] = files[place[q]] BY <1>1, <3>1 DEF TypeOK, OpenFile
      <4> QED BY <1>1, <4>1, <4>2
    <3>2. CASE Mkdir(r) \/ FailFile(r) \/ Kill(r)
      BY <1>1, <3>2 DEF TypeOK, Mkdir, FailFile, Kill
    <3> QED BY <1>3, <3>1, <3>2
  <2> QED BY <2>1, <2>2, <2>3
<1>4. CASE FinishFile(r)
  <2>1. pc'[q] = pc[q] /\ writing'[q] = writing[q] BY <1>4 DEF TypeOK, FinishFile
  <2>2. UNCHANGED <<temp, failed, gone>> BY <1>4 DEF FinishFile
  <2>3. Alone(q) => files'[place[q]] = files[place[q]] BY <1>1, <1>4 DEF TypeOK, FinishFile
  <2> QED BY <2>1, <2>2, <2>3
<1> QED BY <1>2, <1>3, <1>4 DEF Step

\* A run writes one file of its directory at a time.
LEMMA WriteFrame ==
  ASSUME TypeOK, NEW r \in Run, OpenFile(r) \/ FinishFile(r) \/ FailFile(r),
         NEW g \in File, g # FileOf(pc[r])
  PROVE  files'[place[r]][g] = files[place[r]][g]
<1>1. place[r] \in Place /\ FileOf(pc[r]) \in File
  BY FileOfType DEF TypeOK, OpenFile, FinishFile, FailFile
<1>2. PICK c : files' = files \/ files' = [files EXCEPT ![place[r]][FileOf(pc[r])] = c]
  BY DEF OpenFile, FinishFile, FailFile
<1>3. files \in [Place -> [File -> Copy]] BY DEF TypeOK
<1>4. CASE files' = files BY <1>4
<1>5. CASE files' = [files EXCEPT ![place[r]][FileOf(pc[r])] = c]
  <2>1. files'[place[r]] = [files[place[r]] EXCEPT ![FileOf(pc[r])] = c] BY <1>1, <1>3, <1>5
  <2>2. files[place[r]] \in [File -> Copy] BY <1>1, <1>3
  <2> QED BY <2>1, <2>2
<1> QED BY <1>2, <1>4, <1>5

\* The directories and streams of a run that is not on the move.
LEMMA CleanFrame ==
  ASSUME TypeOK, NEW p \in Place, Clean(p), NEW q \in Run
  PROVE  /\ UNCHANGED <<pc, writing, temp, failed, archive>>
         /\ \/ files'[place[q]] = files[place[q]] /\ (place[q] \in gone' <=> place[q] \in gone)
            \/ files'[place[q]] = NoFiles /\ place[q] \in gone'
<1>1. place[q] \in Place BY DEF TypeOK
<1> QED BY <1>1 DEF Clean, TypeOK

\* Archives change by Rename only.
LEMMA ArchiveFrame ==
  ASSUME TypeOK, [Next]_vars, NEW p \in Place, archive'[p] # archive[p]
  PROVE  \E r \in Run : Rename(r) /\ p = place[r] /\ archive'[p] = temp[r]
<1>1. CASE \E r \in Run : Rename(r)
  <2>1. PICK r \in Run : Rename(r) BY <1>1
  <2>2. archive' = [archive EXCEPT ![place[r]] = temp[r]] BY <2>1 DEF Rename
  <2>3. DOMAIN archive = Place BY DEF TypeOK
  <2> QED BY <2>1, <2>2, <2>3
<1>2. CASE ~\E r \in Run : Rename(r)
  <2>1. archive' = archive
    BY <1>2 DEF Next, Step, AllEnded, vars, GiveUp, Mkdir, OpenFile, FinishFile, FailFile,
         NothingToPack, CreateTemp, NoTemp, Add, WalkDone, EndStream, Sync, Close,
         Stumble, Undo, Exit, Kill, Clean
  <2> QED BY <2>1
<1> QED BY <1>1, <1>2

LEMMA AloneFixed == ASSUME NEW q \in Run, UNCHANGED place PROVE Alone(q)' <=> Alone(q)
  BY DEF Alone

-----------------------------------------------------------------------------
(* Gov runs.                                                               *)

LEMMA InitGov == Init => GovInv /\ NoRawNamesInGov
<1> SUFFICES ASSUME Init PROVE GovInv /\ NoRawNamesInGov OBVIOUS
<1>1. NoRawNamesInGov BY DEF Init, NoRawNamesInGov
<1>2. \A r \in Run : pc[r] = "start" /\ files[place[r]] = NoFiles BY DEF Init
<1>3. NoFiles["dashboard"] = NoFile BY DEF NoFiles, File
<1> QED BY <1>1, <1>2, <1>3 DEF GovInv, GovOf, Packing

\* A gov run that is alone goes past the dashboard.
LEMMA GovSkips ==
  ASSUME NEW r \in Run, flags[r].gov, NEW written \in BOOLEAN,
         pc[r] \in Writing \ {"early log", "dashboard"}
  PROVE  After(r, written) \in {"summary", "log", "archive", "success"}
  BY DEF After, AfterDashboard, WantsDashboard, Writing

LEMMA OwnGov ==
  ASSUME TypeOK, NEW r \in Run, Step(r), GovOf(r), UNCHANGED <<place, flags>>
  PROVE  GovOf(r)'
<1> SUFFICES ASSUME Alone(r), flags[r].gov
             PROVE  /\ pc'[r] \notin {"early log", "dashboard"}
                    /\ files'[place[r]]["dashboard"] = NoFile
                    /\ pc'[r] \in Packing => temp'[r].holds["dashboard"] = NoFile
  BY AloneFixed DEF GovOf
<1>1. /\ pc[r] \notin {"early log", "dashboard"}
      /\ files[place[r]]["dashboard"] = NoFile
      /\ pc[r] \in Packing => temp[r].holds["dashboard"] = NoFile
      /\ place[r] \in Place
  BY DEF GovOf, TypeOK
<1> USE DEF Go
<1>2. CASE GiveUp(r) \/ Mkdir(r) \/ NothingToPack(r) \/ NoTemp(r) \/ Rename(r) \/ Stumble(r)
           \/ Undo(r) \/ Exit(r) \/ Kill(r)
  BY <1>1, <1>2, ZenonT(40) DEF TypeOK, GiveUp, Mkdir, NothingToPack, NoTemp, Rename, Stumble, Undo, Exit,
                    Kill, Packing
<1>3. CASE OpenFile(r)
  <2>1. FileOf(pc[r]) # "dashboard" BY <1>1, <1>3 DEF OpenFile, FileOf, Writing
  <2>2. files'[place[r]]["dashboard"] = NoFile BY <1>1, <1>3, <2>1, WriteFrame DEF File
  <2> QED BY <1>1, <1>3, <2>2 DEF OpenFile, Writing, Packing
<1>4. CASE FinishFile(r) \/ FailFile(r)
  <2>1. FileOf(pc[r]) # "dashboard" BY <1>1, <1>4 DEF FinishFile, FailFile, FileOf, Writing
  <2>2. PICK written \in BOOLEAN : pc' = [pc EXCEPT ![r] = After(r, written)]
    BY <1>4 DEF FinishFile, FailFile
  <2>3. After(r, written) \in {"summary", "log", "archive", "success"}
    BY <1>1, <1>4, GovSkips DEF FinishFile, FailFile
  <2>4. files'[place[r]]["dashboard"] = files[place[r]]["dashboard"]
    BY <1>4, <2>1, WriteFrame DEF File
  <2> QED BY <1>1, <2>2, <2>3, <2>4 DEF TypeOK, Packing
<1>5. CASE CreateTemp(r)
  <2>1. temp'[r] = NewStream(r) /\ pc'[r] = "adding" /\ files' = files
    BY <1>5 DEF CreateTemp, TypeOK
  <2>2. NoFiles["dashboard"] = NoFile BY DEF NoFiles, File
  <2> QED BY <1>1, <2>1, <2>2, NewStreamType
<1>6. CASE Add(r)
  <2>1. temp[r] \in Stream /\ temp[r].next # 5 BY <1>6 DEF Add, TypeOK, Packing, WalkOrder
  <2>2. PICK f \in File, copy \in Copy, lost \in BOOLEAN :
          /\ temp' = [temp EXCEPT ![r] = WithCopy(temp[r], f, copy, lost)]
          /\ copy = IF f \in temp[r].listed THEN files[place[r]][f] ELSE NoFile
    BY <1>6, AddsOne
  <2>3. temp'[r] = WithCopy(temp[r], f, copy, lost) BY <2>2 DEF TypeOK
  <2>4. f = "dashboard" => copy = NoFile BY <1>1, <2>2
  <2>5. temp'[r].holds["dashboard"] = NoFile
    BY <1>1, <1>6, <2>1, <2>3, <2>4, WithCopyType DEF Add, Packing, File
  <2> QED BY <1>1, <1>6, <2>5 DEF Add
<1>7. CASE EndStream(r)
  <2>1. temp[r] \in Stream BY <1>7 DEF EndStream, TypeOK, Packing
  <2>2. PICK lost \in BOOLEAN : temp' = [temp EXCEPT ![r] = WithEnd(temp[r], lost)]
    BY <1>7, <2>1 DEF EndStream, Stream
  <2>3. temp'[r].holds = temp[r].holds BY <2>1, <2>2, WithEndType DEF TypeOK
  <2> QED BY <1>1, <1>7, <2>3 DEF EndStream, TypeOK, Packing
<1>8. CASE WalkDone(r) \/ Sync(r) \/ Close(r)
  BY <1>1, <1>8 DEF WalkDone, Sync, Close, TypeOK, Packing
<1> QED BY <1>2, <1>3, <1>4, <1>5, <1>6, <1>7, <1>8 DEF Step

LEMMA StepGov ==
  TypeOK /\ GovInv /\ NoRawNamesInGov /\ [Next]_vars => GovInv' /\ NoRawNamesInGov'
<1> SUFFICES ASSUME TypeOK, GovInv, NoRawNamesInGov, [Next]_vars
             PROVE  GovInv' /\ NoRawNamesInGov'
  OBVIOUS
<1>1. UNCHANGED <<place, flags>> BY Fixed
<1>2. ASSUME NEW q \in Run PROVE GovOf(q)'
  <2>1. GovOf(q) BY DEF GovInv
  <2>2. ASSUME NEW r \in Run, Step(r), r # q PROVE GovOf(q)'
    BY <1>1, <2>1, <2>2, Frame, AloneFixed DEF GovOf
  <2>3. ASSUME NEW p \in Place, Clean(p) PROVE GovOf(q)'
    BY <1>1, <2>1, <2>3, CleanFrame, AloneFixed DEF GovOf, NoFiles, File
  <2>4. CASE UNCHANGED vars BY <1>1, <2>1, <2>4, AloneFixed DEF GovOf, vars
  <2> QED BY <1>1, <2>1, <2>2, <2>3, <2>4, OwnGov DEF Next, AllEnded
<1>3. ASSUME NEW p \in Place, archive'[p] # NoStream, NEW q, q = archive'[p].by,
             Alone(q)', flags[q].gov
      PROVE  archive'[p].holds["dashboard"] = NoFile
  <2>1. CASE archive'[p] = archive[p]
    BY <1>1, <1>3, <2>1 DEF NoRawNamesInGov, Alone
  <2>2. CASE archive'[p] # archive[p]
    <3>1. PICK r \in Run : Rename(r) /\ p = place[r] /\ archive'[p] = temp[r]
      BY <2>2, ArchiveFrame
    <3>2. pc[r] \in Packing /\ temp[r].by = r BY <3>1 DEF Rename, Go, Packing, TypeOK
    <3>3. q = r BY <1>3, <3>1, <3>2
    <3>4. Alone(r) BY <1>1, <1>3, <3>3 DEF Alone
    <3>5. GovOf(r) BY DEF GovInv
    <3> QED BY <1>3, <3>1, <3>2, <3>3, <3>4, <3>5 DEF GovOf
  <2> QED BY <2>1, <2>2
<1>4. GovInv' BY <1>2 DEF GovInv
<1>5. NoRawNamesInGov' BY <1>1, <1>3 DEF NoRawNamesInGov, Alone
<1> QED BY <1>4, <1>5

\* The bundle of a gov run that has its directory to itself holds no dashboard.
THEOREM GovKeepsNames == Spec => []NoRawNamesInGov
<1>1. Init => TypeOK /\ GovInv /\ NoRawNamesInGov BY InitType, InitGov
<1>2. TypeOK /\ GovInv /\ NoRawNamesInGov /\ [Next]_vars
        => (TypeOK /\ GovInv /\ NoRawNamesInGov)'
  BY StepType, StepGov
<1> QED BY <1>1, <1>2, PTL DEF Spec

-----------------------------------------------------------------------------
(* The record of the alerts.                                               *)

LEMMA InitRecord == Init => RecordInv /\ AlertsAreRecorded
<1> SUFFICES ASSUME Init PROVE RecordInv /\ AlertsAreRecorded OBVIOUS
<1>1. \A r \in Run : pc[r] = "start" /\ ~writing[r] BY DEF Init
<1>2. AlertsAreRecorded BY DEF Init, AlertsAreRecorded
<1> QED BY <1>1, <1>2 DEF RecordInv, RecordOf, Opened, Recorded, Packing

LEMMA OwnOpened ==
  ASSUME TypeOK, NEW r \in Run, Step(r), Alone(r), Opened(r), UNCHANGED place
  PROVE  Opened(r)'
<1> USE DEF Go
<1>1. CASE OpenFile(r)
  <2>1. ~Contested(r) BY DEF Contested, Alone
  <2>2. place[r] \in Place /\ FileOf(pc[r]) \in File BY <1>1, FileOfType DEF TypeOK, OpenFile
  <2>3. files' = [files EXCEPT ![place[r]][FileOf(pc[r])] = [by |-> r, state |-> "part"]]
    BY <1>1, <2>1 DEF OpenFile
  <2>4. files \in [Place -> [File -> Copy]] BY DEF TypeOK
  <2>5. files'[place[r]] = [files[place[r]] EXCEPT ![FileOf(pc[r])] = [by |-> r, state |-> "part"]]
    BY <2>2, <2>3, <2>4
  <2>6. files'[place[r]][FileOf(pc[r])].by = r
    <3>1. files[place[r]] \in [File -> Copy] BY <2>2, <2>4
    <3> QED BY <2>2, <2>5, <3>1
  <2>7. UNCHANGED pc BY <1>1 DEF OpenFile
  <2> QED BY <2>6, <2>7 DEF Opened, FileOf
<1>2. CASE FinishFile(r) \/ FailFile(r) \/ Kill(r)
  <2>1. ~writing'[r] BY <1>2 DEF FinishFile, FailFile, Kill, TypeOK
  <2> QED BY <2>1 DEF Opened
<1>3. CASE GiveUp(r) \/ Mkdir(r) \/ NothingToPack(r) \/ CreateTemp(r) \/ NoTemp(r)
           \/ WalkDone(r) \/ EndStream(r) \/ Sync(r) \/ Close(r) \/ Rename(r) \/ Stumble(r)
           \/ Undo(r) \/ Exit(r)
  <2>1. pc[r] \notin Writing
    BY <1>3 DEF GiveUp, Mkdir, NothingToPack, CreateTemp, NoTemp, WalkDone, EndStream,
                Sync, Close, Rename, Stumble, Undo, Exit, Writing, Packing
  <2>2. ~writing[r] BY <2>1 DEF TypeOK
  <2>3. writing' = writing
    BY <1>3 DEF GiveUp, Mkdir, NothingToPack, CreateTemp, NoTemp, WalkDone, EndStream,
                Sync, Close, Rename, Stumble, Undo, Exit
  <2> QED BY <2>2, <2>3 DEF Opened
<1>4. CASE Add(r) BY <1>4 DEF Add, Opened, FileOf
<1> QED BY <1>1, <1>2, <1>3, <1>4 DEF Step

\* What FinishFile leaves, in a directory that is there and is not shared.
LEMMA FinishWhole ==
  ASSUME TypeOK, NEW r \in Run, FinishFile(r), Opened(r), place[r] \notin gone
  PROVE  files'[place[r]][FileOf(pc[r])].state = "whole"
<1>1. place[r] \in Place /\ FileOf(pc[r]) \in File BY FileOfType DEF TypeOK, FinishFile
<1>2. files[place[r]][FileOf(pc[r])].by = r BY DEF Opened, FinishFile
<1>3. files' = [files EXCEPT ![place[r]][FileOf(pc[r])].state = "whole"]
  BY <1>2 DEF FinishFile
<1>4. files \in [Place -> [File -> Copy]] BY DEF TypeOK
<1> DEFINE c == [files[place[r]][FileOf(pc[r])] EXCEPT !.state = "whole"]
<1>5. c.state = "whole"
  <2>1. files[place[r]][FileOf(pc[r])] \in Copy BY <1>1, <1>4
  <2> QED BY <2>1 DEF Copy
<1>6. files' = [files EXCEPT ![place[r]][FileOf(pc[r])] = c] BY <1>3
<1> HIDE DEF c
<1>7. files'[place[r]] = [files[place[r]] EXCEPT ![FileOf(pc[r])] = c] BY <1>1, <1>4, <1>6
<1>8. files[place[r]] \in [File -> Copy] BY <1>1, <1>4
<1> QED BY <1>1, <1>5, <1>7, <1>8

\* The step that writes: the log follows a whole dashboard or the summary.
LEMMA OwnWrite ==
  ASSUME TypeOK, NEW r \in Run, FinishFile(r) \/ FailFile(r), flags[r].alerts,
         "summary" \notin failed'[r], Opened(r), Recorded(r), UNCHANGED <<place, flags>>
  PROVE  Recorded(r)'
<1>1. PICK written \in BOOLEAN : pc' = [pc EXCEPT ![r] = After(r, written)]
                                 /\ (written <=> FinishFile(r))
  BY DEF FinishFile, FailFile
<1>2. pc'[r] = After(r, written) /\ pc[r] \in Writing /\ gone' = gone
  BY <1>1 DEF FinishFile, FailFile, TypeOK
<1>3. pc'[r] \notin Packing BY <1>1, <1>2, AfterType DEF Writing, Packing
<1>4. ASSUME pc'[r] \in {"log", "archive"}, place[r] \notin gone
      PROVE  \E f \in Record : files'[place[r]][f].state = "whole"
  <2>1. CASE pc[r] \in {"results", "early log"}
    BY <1>2, <1>4, <2>1 DEF After, AfterDashboard
  <2>2. CASE pc[r] = "dashboard"
    <3>1. written BY <1>2, <1>4, <2>2 DEF After, AfterDashboard
    <3>2. FileOf(pc[r]) = "dashboard" BY <2>2 DEF FileOf
    <3> QED BY <1>1, <1>4, <3>1, <3>2, FinishWhole DEF Record
  <2>3. CASE pc[r] = "summary"
    <3>1. FileOf(pc[r]) = "summary" BY <2>3 DEF FileOf
    <3>2. FinishFile(r)
      <4>1. CASE FailFile(r)
        <5>1. failed'[r] = failed[r] \cup {"summary"} BY <3>1, <4>1 DEF FailFile, TypeOK
        <5> QED BY <5>1
      <4> QED BY <4>1
    <3> QED BY <1>4, <3>1, <3>2, FinishWhole DEF Record
  <2>4. CASE pc[r] = "log"
    <3>1. FileOf(pc[r]) = "log" BY <2>4 DEF FileOf
    <3>2. PICK f \in Record : files[place[r]][f].state = "whole"
      BY <1>4, <2>4 DEF Recorded, InDirectory
    <3>3. f \in File /\ f # "log" BY DEF Record, File
    <3> QED BY <3>1, <3>2, <3>3, WriteFrame
  <2> QED BY <1>2, <2>1, <2>2, <2>3, <2>4 DEF Writing
<1> QED BY <1>2, <1>3, <1>4 DEF Recorded, InDirectory

\* The step that adds: the record is copied, or still to be.
LEMMA OwnAdd ==
  ASSUME TypeOK, NEW r \in Run, Add(r), Recorded(r), UNCHANGED <<place, flags>>
  PROVE  Recorded(r)'
<1>1. temp[r] \in Stream /\ temp[r].next \in 1..4 BY DEF Add, TypeOK, Packing, WalkOrder, Stream
<1>2. PICK g \in File, copy \in Copy, lost \in BOOLEAN :
        /\ temp' = [temp EXCEPT ![r] = WithCopy(temp[r], g, copy, lost)]
        /\ g = WalkOrder[temp[r].next]
        /\ copy = IF g \in temp[r].listed THEN files[place[r]][g] ELSE NoFile
        /\ g \in temp[r].listed => files[place[r]][g].state # "none"
  BY AddsOne
<1>3. temp'[r] = WithCopy(temp[r], g, copy, lost) BY <1>2 DEF TypeOK
<1>4. /\ temp'[r].listed = temp[r].listed /\ temp'[r].next = temp[r].next + 1
      /\ temp'[r].holds[g] = copy
      /\ \A h \in File : h # g => temp'[r].holds[h] = temp[r].holds[h]
  BY <1>1, <1>3, WithCopyType
<1>5. UNCHANGED <<pc, files>> /\ pc[r] = "adding" BY DEF Add
<1>6. PICK f \in Record :
        /\ f \in temp[r].listed
        /\ Visited(temp[r], f) => temp[r].holds[f].state = "whole"
        /\ ~Visited(temp[r], f) => files[place[r]][f].state \in {"whole", "none"}
  BY <1>5 DEF Recorded, InStream, Packing
<1>7. f \in File BY DEF Record, File
<1>8. CASE f = g
  <2>1. temp'[r].holds[f].state = "whole"
    <3>1. ~Visited(temp[r], f) BY <1>1, <1>2, <1>8 DEF Visited, WalkOrder, Record
    <3> QED BY <1>2, <1>4, <1>6, <1>8, <3>1
  <2>2. Visited(temp'[r], f)
    <3>1. temp[r].next = IF f = "summary" THEN 1 ELSE 2
      BY <1>1, <1>2, <1>8 DEF WalkOrder, Record
    <3> QED BY <1>4, <3>1 DEF Visited
  <2> QED BY <1>4, <1>5, <1>6, <2>1, <2>2 DEF Recorded, InStream
<1>9. CASE f # g
  <2>1. temp'[r].holds[f] = temp[r].holds[f] BY <1>4, <1>7, <1>9
  <2>2. Visited(temp'[r], f) <=> Visited(temp[r], f)
    <3>1. (IF f = "summary" THEN 1 ELSE 2) # temp[r].next
      BY <1>1, <1>2, <1>9 DEF WalkOrder, Record
    <3> QED BY <1>1, <1>4, <3>1 DEF Visited
  <2> QED BY <1>4, <1>5, <1>6, <2>1, <2>2 DEF Recorded, InStream
<1> QED BY <1>8, <1>9

\* What a run could not write stays on its list.
LEMMA FailedGrows ==
  ASSUME TypeOK, [Next]_vars, NEW q \in Run
  PROVE  failed[q] \subseteq failed'[q]
<1>1. CASE \E r \in Run : FailFile(r) BY <1>1 DEF FailFile, TypeOK
<1>2. CASE ~\E r \in Run : FailFile(r)
  <2>1. failed' = failed
    BY <1>2 DEF Next, Step, AllEnded, vars, GiveUp, Mkdir, OpenFile, FinishFile,
         NothingToPack, CreateTemp, NoTemp, Add, WalkDone, EndStream, Sync, Close, Rename,
         Stumble, Undo, Exit, Kill, Clean
  <2> QED BY <2>1
<1> QED BY <1>1, <1>2

LEMMA OwnRecord ==
  ASSUME TypeOK, NEW r \in Run, Step(r), RecordOf(r), UNCHANGED <<place, flags>>
  PROVE  RecordOf(r)'
<1> SUFFICES ASSUME Alone(r)
             PROVE  /\ Opened(r)'
                    /\ flags[r].alerts /\ "summary" \notin failed'[r] => Recorded(r)'
  BY AloneFixed DEF RecordOf
<1>1. Opened(r)' BY OwnOpened DEF RecordOf
<1> SUFFICES ASSUME flags[r].alerts, "summary" \notin failed'[r] PROVE Recorded(r)'
  BY <1>1
<1>2. "summary" \notin failed[r] BY FailedGrows DEF Next
<1>3. Opened(r) /\ Recorded(r) BY <1>2 DEF RecordOf
<1> USE DEF Go
<1>4. CASE FinishFile(r) \/ FailFile(r) BY <1>3, <1>4, OwnWrite
<1>5. CASE Add(r) BY <1>3, <1>5, OwnAdd
<1>6. CASE GiveUp(r) \/ Mkdir(r) \/ NothingToPack(r) \/ NoTemp(r) \/ Rename(r) \/ Stumble(r)
           \/ Undo(r) \/ Exit(r) \/ Kill(r)
  <2>1. PICK to \in PC \ (Packing \cup {"log", "archive"}) : pc' = [pc EXCEPT ![r] = to]
    BY <1>6 DEF GiveUp, Mkdir, NothingToPack, NoTemp, Rename, Stumble, Undo, Exit, Kill,
                PC, Packing, Ended, Writing
  <2> QED BY <2>1 DEF TypeOK, Recorded
<1>7. CASE OpenFile(r)
  <2>1. UNCHANGED pc /\ pc[r] \in Writing BY <1>7 DEF OpenFile
  <2>2. pc[r] = "log" => InDirectory(r)'
    <3>1. SUFFICES ASSUME pc[r] = "log", place[r] \notin gone
                   PROVE  \E f \in Record : files'[place[r]][f].state = "whole"
      BY <1>7 DEF OpenFile, InDirectory
    <3>2. PICK f \in Record : files[place[r]][f].state = "whole"
      BY <1>3, <3>1 DEF Recorded, InDirectory
    <3>3. f \in File /\ f # FileOf(pc[r]) BY <3>1 DEF Record, File, FileOf
    <3> QED BY <1>7, <3>2, <3>3, WriteFrame
  <2> QED BY <2>1, <2>2 DEF Recorded, Writing, Packing
<1>8. CASE CreateTemp(r)
  <2>1. temp'[r] = NewStream(r) /\ pc'[r] = "adding" /\ files' = files /\ place[r] \notin gone
        /\ pc[r] = "archive"
    BY <1>8 DEF CreateTemp, TypeOK
  <2>2. PICK f \in Record : files[place[r]][f].state = "whole"
    BY <1>3, <2>1 DEF Recorded, InDirectory
  <2>3. f \in temp'[r].listed /\ ~Visited(temp'[r], f)
    BY <2>1, <2>2, NewStreamType DEF Record, File, Visited
  <2>4. InStream(r)' BY <2>1, <2>2, <2>3 DEF InStream
  <2> QED BY <2>1, <2>4 DEF Recorded
<1>9. CASE EndStream(r)
  <2>1. temp[r] \in Stream BY <1>9 DEF EndStream, TypeOK, Packing
  <2>2. PICK lost \in BOOLEAN : temp' = [temp EXCEPT ![r] = WithEnd(temp[r], lost)]
    BY <1>9, <2>1 DEF EndStream, Stream
  <2>3. /\ temp'[r].listed = temp[r].listed /\ temp'[r].next = temp[r].next
        /\ temp'[r].holds = temp[r].holds
    BY <2>1, <2>2, WithEndType DEF TypeOK
  <2>4. pc[r] = "ending" /\ pc'[r] = "syncing" /\ files' = files
    BY <1>9 DEF EndStream, TypeOK
  <2>5. InStream(r) /\ temp[r].next = 5 BY <1>3, <2>4 DEF Recorded, Packing
  <2>6. InStream(r)' BY <2>3, <2>4, <2>5 DEF InStream, Visited
  <2> QED BY <2>3, <2>4, <2>5, <2>6 DEF Recorded
<1>10. CASE WalkDone(r) \/ Sync(r) \/ Close(r)
  <2>1. UNCHANGED <<files, temp>> BY <1>10 DEF WalkDone, Sync, Close
  <2>2. pc[r] \in Packing /\ pc'[r] \in Packing
    BY <1>10 DEF WalkDone, Sync, Close, TypeOK, Packing
  <2>3. temp[r].next = 5
    <3>1. CASE WalkDone(r)
      <4>1. temp[r].next \in 1..5 BY <2>2 DEF TypeOK, Stream
      <4> QED BY <3>1, <4>1 DEF WalkDone, WalkOrder
    <3>2. CASE Sync(r) \/ Close(r) BY <1>3, <3>2 DEF Sync, Close, Recorded, Packing
    <3> QED BY <1>10, <3>1, <3>2
  <2>4. InStream(r)' BY <1>3, <2>1, <2>2 DEF Recorded, InStream
  <2> QED BY <2>1, <2>2, <2>3, <2>4 DEF Recorded, Packing
<1> QED BY <1>4, <1>5, <1>6, <1>7, <1>8, <1>9, <1>10 DEF Step

LEMMA StepRecord ==
  TypeOK /\ RecordInv /\ AlertsAreRecorded /\ [Next]_vars => RecordInv' /\ AlertsAreRecorded'
<1> SUFFICES ASSUME TypeOK, RecordInv, AlertsAreRecorded, [Next]_vars
             PROVE  RecordInv' /\ AlertsAreRecorded'
  OBVIOUS
<1>1. UNCHANGED <<place, flags>> BY Fixed
<1>2. ASSUME NEW q \in Run PROVE RecordOf(q)'
  <2>1. RecordOf(q) BY DEF RecordInv
  <2>2. ASSUME NEW r \in Run, Step(r), r # q PROVE RecordOf(q)'
    <3>4. Alone(q)' <=> Alone(q) BY <1>1, AloneFixed
    <3> SUFFICES ASSUME Alone(q) PROVE RecordOf(q)' BY <3>4 DEF RecordOf
    <3>1. /\ pc'[q] = pc[q] /\ writing'[q] = writing[q]
          /\ temp'[q] = temp[q] /\ failed'[q] = failed[q]
          /\ files'[place[q]] = files[place[q]]
          /\ place[q] \in gone' <=> place[q] \in gone
      BY <2>2, Frame
    <3>2. Opened(q)' <=> Opened(q) BY <1>1, <3>1 DEF Opened, FileOf
    <3>3. Recorded(q)' <=> Recorded(q)
      BY <1>1, <3>1 DEF Recorded, InDirectory, InStream, Visited
    <3> QED BY <1>1, <2>1, <3>1, <3>2, <3>3 DEF RecordOf
  <2>3. ASSUME NEW p \in Place, Clean(p) PROVE RecordOf(q)'
    <3>1. UNCHANGED <<pc, writing, temp, failed>> BY <2>3, CleanFrame
    <3>2. CASE files'[place[q]] = files[place[q]] /\ (place[q] \in gone' <=> place[q] \in gone)
      <4>1. Opened(q)' <=> Opened(q) BY <1>1, <3>1, <3>2 DEF Opened, FileOf
      <4>2. Recorded(q)' <=> Recorded(q)
        BY <1>1, <3>1, <3>2 DEF Recorded, InDirectory, InStream, Visited
      <4>3. Alone(q)' <=> Alone(q) BY <1>1, AloneFixed
      <4> QED BY <1>1, <2>1, <3>1, <4>1, <4>2, <4>3 DEF RecordOf
    <3>3. CASE files'[place[q]] = NoFiles /\ place[q] \in gone'
      <4>1. Opened(q)' BY <1>1, <3>3 DEF Opened
      <4>2. \A f \in Record : NoFiles[f].state = "none" BY DEF NoFiles, NoFile, Record, File
      <4>3. Recorded(q) => Recorded(q)'
        <5>1. InDirectory(q)' BY <1>1, <3>3 DEF InDirectory
        <5>2. InStream(q) => InStream(q)'
          BY <1>1, <3>1, <3>3, <4>2 DEF InStream, Visited
        <5> QED BY <3>1, <5>1, <5>2 DEF Recorded
      <4>4. Alone(q)' <=> Alone(q) BY <1>1, AloneFixed
      <4> QED BY <1>1, <2>1, <3>1, <4>1, <4>3, <4>4 DEF RecordOf
    <3> QED BY <2>3, <3>2, <3>3, CleanFrame
  <2>4. CASE UNCHANGED vars
    <3>1. Alone(q)' <=> Alone(q) BY <1>1, AloneFixed
    <3>2. Opened(q)' <=> Opened(q) BY <2>4 DEF Opened, FileOf, vars
    <3>3. Recorded(q)' <=> Recorded(q)
      BY <2>4 DEF Recorded, InDirectory, InStream, Visited, vars
    <3> QED BY <2>1, <2>4, <3>1, <3>2, <3>3 DEF RecordOf, vars
  <2> QED BY <1>1, <2>1, <2>2, <2>3, <2>4, OwnRecord DEF Next, AllEnded
<1>3. ASSUME NEW p \in Place, archive'[p] # NoStream, NEW q, q = archive'[p].by,
             Alone(q)', flags[q].alerts
      PROVE  \/ archive'[p].holds["dashboard"].state = "whole"
             \/ archive'[p].holds["summary"].state = "whole"
             \/ "summary" \in failed'[q]
  <2>1. CASE archive'[p] = archive[p]
    <3>1. archive[p] \in Stream /\ q \in Run BY <1>3, <2>1 DEF TypeOK, Stream
    <3>2. Alone(q) BY <1>1, <1>3 DEF Alone
    <3> QED BY <1>3, <2>1, <3>1, <3>2, FailedGrows DEF AlertsAreRecorded
  <2>2. CASE archive'[p] # archive[p]
    <3>1. PICK r \in Run : Rename(r) /\ p = place[r] /\ archive'[p] = temp[r]
      BY <2>2, ArchiveFrame
    <3>2. pc[r] = "renaming" /\ temp[r].by = r /\ failed' = failed
      BY <3>1 DEF Rename, Go, Packing, TypeOK
    <3>3. q = r BY <1>3, <3>1, <3>2
    <3>4. Alone(r) BY <1>1, <1>3, <3>3 DEF Alone
    <3>5. CASE "summary" \notin failed[r]
      <4>1. Recorded(r) BY <1>3, <3>3, <3>4, <3>5 DEF RecordInv, RecordOf
      <4>2. InStream(r) /\ temp[r].next = 5 BY <3>2, <4>1 DEF Recorded, Packing
      <4>3. \E f \in Record : temp[r].holds[f].state = "whole"
        BY <4>2 DEF InStream, Visited, Record
      <4> QED BY <3>1, <4>3 DEF Record
    <3> QED BY <3>2, <3>3, <3>5
  <2> QED BY <2>1, <2>2
<1>4. RecordInv' BY <1>2 DEF RecordInv
<1>5. AlertsAreRecorded' BY <1>1, <1>3 DEF AlertsAreRecorded, Alone
<1> QED BY <1>4, <1>5

\* The bundle of a run that has its directory to itself tells of the alerts, if
\* the summary could be written.
THEOREM AlertsOnRecord == Spec => []AlertsAreRecorded
<1>1. Init => TypeOK /\ RecordInv /\ AlertsAreRecorded BY InitType, InitRecord
<1>2. TypeOK /\ RecordInv /\ AlertsAreRecorded /\ [Next]_vars
        => (TypeOK /\ RecordInv /\ AlertsAreRecorded)'
  BY StepType, StepRecord
<1> QED BY <1>1, <1>2, PTL DEF Spec

-----------------------------------------------------------------------------
(* The promise about the archive.                                          *)

shownOf == [p \in Place |-> Shown(archive[p])]

lifeOf == [r \in Run |-> LifeOf(pc[r])]

LEMMA InitPromise == Init => Promise!PubInit
<1> SUFFICES ASSUME Init PROVE Promise!PubInit OBVIOUS
<1>1. place \in [Run -> Place] BY DEF Init
<1>2. shownOf = [p \in Place |-> None] BY DEF Init, shownOf, Shown
<1>3. lifeOf = [r \in Run |-> "running"] BY DEF Init, lifeOf, LifeOf, Ended
<1> QED BY <1>1, <1>2, <1>3 DEF Promise!PubInit, shownOf, lifeOf

\* What a step of one run does to its life.
LEMMA LifeStep ==
  ASSUME TypeOK, NEW r \in Run, NEW to, pc' = [pc EXCEPT ![r] = to]
  PROVE  lifeOf' = [lifeOf EXCEPT ![r] = LifeOf(to)]
  BY DEF TypeOK, lifeOf

LEMMA StepPromise ==
  TypeOK /\ StreamInv /\ [Next]_vars => [Promise!PubNext]_(Promise!pubvars)
<1> SUFFICES ASSUME TypeOK, StreamInv, [Next]_vars
             PROVE  Promise!PubNext \/ UNCHANGED <<place, shownOf, lifeOf>>
  BY DEF Promise!pubvars, shownOf, lifeOf
<1>1. place' = place BY Fixed
<1> DEFINE Move(r, to) == pc' = [pc EXCEPT ![r] = to] /\ archive' = archive
<1>2. ASSUME NEW r \in Run, NEW to, Move(r, to), LifeOf(pc[r]) = LifeOf(to)
      PROVE  UNCHANGED <<place, shownOf, lifeOf>>
  <2>1. lifeOf' = [lifeOf EXCEPT ![r] = LifeOf(to)] BY <1>2, LifeStep
  <2>2. lifeOf[r] = LifeOf(to) BY <1>2 DEF lifeOf
  <2>3. lifeOf' = lifeOf BY <2>1, <2>2 DEF lifeOf
  <2> QED BY <1>1, <1>2, <2>3 DEF shownOf
<1>3. ASSUME NEW r \in Run, Move(r, "success"), LifeOf(pc[r]) \in {"running", "published"}
      PROVE  Promise!PubNext
  <2>1. lifeOf' = [lifeOf EXCEPT ![r] = "success"] BY <1>3, LifeStep DEF LifeOf, Ended
  <2>2. lifeOf[r] \in {"running", "published"} BY <1>3 DEF lifeOf
  <2>3. Promise!Succeed(r)
    BY <1>1, <1>3, <2>1, <2>2 DEF Promise!Succeed, Promise!Alive, lifeOf
  <2> QED BY <2>3 DEF Promise!PubNext
<1>4. ASSUME NEW r \in Run, Move(r, "failure"), LifeOf(pc[r]) = "running"
      PROVE  Promise!PubNext
  <2>1. lifeOf' = [lifeOf EXCEPT ![r] = "failure"] BY <1>4, LifeStep DEF LifeOf, Ended
  <2>2. lifeOf[r] = "running" BY <1>4 DEF lifeOf
  <2>3. Promise!Fail(r) BY <1>1, <1>4, <2>1, <2>2 DEF Promise!Fail, lifeOf
  <2> QED BY <2>3 DEF Promise!PubNext
<1>5. ASSUME NEW r \in Run, Move(r, "killed"), LifeOf(pc[r]) \in {"running", "published"}
      PROVE  Promise!PubNext
  <2>1. lifeOf' = [lifeOf EXCEPT ![r] = "killed"] BY <1>5, LifeStep DEF LifeOf, Ended
  <2>2. lifeOf[r] \in {"running", "published"} BY <1>5 DEF lifeOf
  <2>3. Promise!Die(r) BY <1>1, <1>5, <2>1, <2>2 DEF Promise!Die, Promise!Alive, lifeOf
  <2> QED BY <2>3 DEF Promise!PubNext
<1>6. ASSUME NEW r \in Run, Rename(r) PROVE Promise!PubNext
  <2>1. /\ temp[r] \in Stream /\ temp[r].by = r /\ temp[r].ended /\ ~temp[r].lost
        /\ place[r] \in Place
    BY <1>6 DEF Rename, Go, TypeOK, StreamInv, Packing
  <2>2. Shown(temp[r]) = r
    <3>1. temp[r] # NoStream BY <2>1 DEF NoStream
    <3> QED BY <2>1, <3>1 DEF Shown
  <2>3. archive' = [archive EXCEPT ![place[r]] = temp[r]] /\ pc[r] = "renaming"
        /\ pc' = [pc EXCEPT ![r] = "published"]
    BY <1>6 DEF Rename, Go
  <2>4. shownOf' = [shownOf EXCEPT ![place[r]] = r]
    <3>1. \A p \in Place : archive'[p] = IF p = place[r] THEN temp[r] ELSE archive[p]
      BY <2>3 DEF TypeOK
    <3> QED BY <2>2, <3>1 DEF shownOf
  <2>5. lifeOf' = [lifeOf EXCEPT ![r] = "published"] BY <2>3, LifeStep DEF LifeOf, Ended
  <2>6. lifeOf[r] = "running" BY <2>3 DEF lifeOf, LifeOf, Ended
  <2>7. Promise!Publish(r)
    BY <1>1, <2>4, <2>5, <2>6 DEF Promise!Publish, shownOf, lifeOf
  <2> QED BY <2>7 DEF Promise!PubNext
<1> USE DEF Go
<1>7. ASSUME NEW r \in Run, GiveUp(r) PROVE Promise!PubNext
  <2>1. LifeOf(pc[r]) = "running" BY <1>7 DEF GiveUp, LifeOf, Ended
  <2>2. Move(r, "success") \/ Move(r, "failure") BY <1>7 DEF GiveUp
  <2> QED BY <1>3, <1>4, <2>1, <2>2
<1>8. ASSUME NEW r \in Run, NothingToPack(r) \/ Exit(r) PROVE Promise!PubNext
  <2>1. LifeOf(pc[r]) \in {"running", "published"} BY <1>8 DEF NothingToPack, Exit, LifeOf, Ended
  <2>2. Move(r, "success") BY <1>8 DEF NothingToPack, Exit
  <2> QED BY <1>3, <2>1, <2>2
<1>9. ASSUME NEW r \in Run, NoTemp(r) \/ Undo(r) PROVE Promise!PubNext
  <2>1. LifeOf(pc[r]) = "running" BY <1>9 DEF NoTemp, Undo, LifeOf, Ended
  <2>2. Move(r, "failure") BY <1>9 DEF NoTemp, Undo
  <2> QED BY <1>4, <2>1, <2>2
<1>10. ASSUME NEW r \in Run, Kill(r) PROVE Promise!PubNext
  <2>1. LifeOf(pc[r]) \in {"running", "published"} BY <1>10 DEF Kill, LifeOf
  <2>2. Move(r, "killed") BY <1>10 DEF Kill
  <2> QED BY <1>5, <2>1, <2>2
<1>11. ASSUME NEW r \in Run, FinishFile(r) \/ FailFile(r)
       PROVE  Promise!PubNext \/ UNCHANGED <<place, shownOf, lifeOf>>
  <2>1. PICK written \in BOOLEAN : Move(r, After(r, written))
    BY <1>11 DEF FinishFile, FailFile
  <2>2. LifeOf(pc[r]) = "running" BY <1>11 DEF FinishFile, FailFile, Writing, LifeOf, Ended
  <2>3. After(r, written) \in Writing \cup {"archive", "success"}
    BY <1>11, AfterType DEF FinishFile, FailFile
  <2>4. CASE After(r, written) = "success" BY <1>3, <2>1, <2>2, <2>4
  <2>5. CASE After(r, written) # "success"
    <3>1. LifeOf(After(r, written)) = "running" BY <2>3, <2>5 DEF LifeOf, Writing, Ended
    <3> QED BY <1>2, <2>1, <2>2, <3>1
  <2> QED BY <2>4, <2>5
<1>12. ASSUME NEW r \in Run, \/ Mkdir(r) \/ CreateTemp(r) \/ WalkDone(r) \/ EndStream(r)
                             \/ Sync(r) \/ Close(r) \/ Stumble(r)
       PROVE  UNCHANGED <<place, shownOf, lifeOf>>
  <2>1. PICK to \in {"results", "adding", "ending", "syncing", "closing", "renaming", "undo"} :
          Move(r, to)
    BY <1>12 DEF Mkdir, CreateTemp, WalkDone, EndStream, Sync, Close, Stumble
  <2>2. LifeOf(to) = "running" BY <2>1 DEF LifeOf, Ended
  <2>3. LifeOf(pc[r]) = "running"
    BY <1>12 DEF Mkdir, CreateTemp, WalkDone, EndStream, Sync, Close, Stumble, Packing, LifeOf, Ended
  <2> QED BY <1>2, <2>1, <2>2, <2>3
<1>13. CASE \/ \E r \in Run : OpenFile(r) \/ Add(r)
            \/ \E p \in Place : Clean(p)
            \/ UNCHANGED vars
  BY <1>13 DEF OpenFile, Add, Clean, vars, shownOf, lifeOf
<1> QED BY <1>6, <1>7, <1>8, <1>9, <1>10, <1>11, <1>12, <1>13 DEF Next, Step, AllEnded

\* CreateArchive is one atomic step to whoever looks at the name of an archive,
\* for any number of runs that share it.
THEOREM PackagingKeepsPromise == Spec => KeepsPromise
<1>1. Init => TypeOK /\ StreamInv /\ PublishedIsWhole BY InitType, InitStream
<1>2. TypeOK /\ StreamInv /\ PublishedIsWhole /\ [Next]_vars
        => (TypeOK /\ StreamInv /\ PublishedIsWhole)'
  BY StepType, StepStream
<1> QED BY <1>1, <1>2, InitPromise, StepPromise, PTL DEF Spec, KeepsPromise, Promise!PubSpec
=============================================================================
