--------------------------- MODULE KeeperProbe_proofs ---------------------------
(***************************************************************************)
(* The Keeper facts, for any number of members, ensembles, commands and    *)
(* allow-lists, and any changes of the members and failures of the disk.   *)
(***************************************************************************)
EXTENDS KeeperProbe, FiniteSetTheorems, SequenceTheorems, TLAPS

Asked == 1..Len(targets)

Started == {"ask", "recorded"}

\* What the members and the bookkeeping are.
Typed ==
  /\ pc \in {"skipped", "merge", "none", "listed", "failed", "ask", "recorded"}
  /\ dry \in BOOLEAN
  /\ given \in Seq(Target)
  /\ next \in 1..(Len(given) + 1)
  /\ targets \in Seq(Target)
  /\ written \subseteq Asked
  /\ up \in [Machine -> {"serving", "loading", "down"}]
  /\ was \in [Machine -> SUBSET {"serving", "loading", "down"}]
  /\ allowed \in [Machine -> Allows]
  /\ mishaps \in 0..MaxMishaps

\* What was said, and what is made of it.
Kept ==
  /\ said \in Seq(Seq(Section)) /\ status \in Seq({"", "ok", "not serving", "partial", "refused", "timeout", "failed"})
  /\ pc \in {"merge", "skipped"} => said = <<>> /\ status = <<>>
  /\ pc \notin {"merge", "skipped"} => Len(said) = Len(targets) /\ Len(status) = Len(targets)
  /\ \A i \in DOMAIN said : Len(said[i]) <= Len(Commands)
  /\ files \in [Name -> SUBSET [of : Target, text : Seq(Section)]]

\* MergeTargets: the targets are the entries so far, each once.
Merged ==
  /\ \A n \in Asked : \E k \in 1..(next - 1) : targets[n] = given[k]
  /\ \A k \in 1..(next - 1) : \E n \in Asked : targets[n] = given[k]
  /\ \A n, k \in Asked : targets[n] = targets[k] => n = k
  /\ pc \notin {"merge", "skipped"} => next = Len(given) + 1

LEMMA StatusType ==
  ASSUME NEW s
  PROVE  Status(s) \in {"ok", "not serving", "partial", "refused", "timeout", "failed"}
  BY DEF Status

LEMMA SectionOfReply ==
  ASSUME NEW m, NEW cmd
  PROVE  Replies(m, cmd) \subseteq Section
<1>1. Alive(m, cmd) \in Section
  BY DEF Alive, Section, Failure
<1> QED  BY <1>1 DEF Replies, Section, Failure

LEMMA GivenType == Init => given \in Seq(Target)
<1> SUFFICES ASSUME Init PROVE given \in Seq(Target)
  OBVIOUS
<1>1. PICK c \in Connections, d \in Nodes : given = c \o d
  BY DEF Init
<1>2. c \in Seq(Target) /\ d \in Seq(Target)
  <2>1. <<>> \in Seq(Target)
    OBVIOUS
  <2>2. Connected \subseteq Seq(Target) /\ Configured \subseteq Seq(Target)
    BY KeeperAssumption
  <2>3. Nodes \subseteq Configured \cup {<<>>}
    BY DEF Nodes
  <2> QED  BY <2>1, <2>2, <2>3, Zenon DEF Connections
<1> QED  BY <1>1, <1>2

LEMMA InitTyped == Init => Typed
<1> SUFFICES ASSUME Init PROVE Typed
  OBVIOUS
<1>1. given \in Seq(Target)
  BY GivenType
<1>2. pc \in {"skipped", "merge"} /\ dry \in BOOLEAN
  BY DEF Init
<1>3. /\ up \in [Machine -> {"serving", "loading", "down"}]
      /\ was = [m \in Machine |-> {up[m]}]
      /\ allowed \in [Machine -> Allows]
  BY DEF Init
<1>4. was \in [Machine -> SUBSET {"serving", "loading", "down"}]
  BY <1>3
<1>5. next = 1 /\ targets = <<>> /\ written = {} /\ mishaps = 0
  BY DEF Init
<1> QED  BY <1>1, <1>2, <1>3, <1>4, <1>5, KeeperAssumption DEF Typed, Asked

LEMMA NextTyped ==
  ASSUME Typed, [Next]_vars
  PROVE  Typed'
<1>1. CASE MergeNext
  <2>1. given[next] \in Target
    BY <1>1 DEF MergeNext, Typed
  <2> QED  BY <1>1, <2>1 DEF MergeNext, machines, Typed, Asked
<1>2. CASE Begin \/ Wait
  BY <1>2 DEF Begin, Wait, machines, Typed, Asked
<1>3. ASSUME NEW i \in 1..Len(targets), Probe(i)
      PROVE  Typed'
  <2>1. CASE Ask(i)
    BY <1>3, <2>1 DEF Ask, machines, Typed, Asked
  <2>2. CASE Write(i)
    BY <1>3, <2>2 DEF Write, machines, Typed, Asked
  <2>3. CASE WriteFails(i)
    <3>1. mishaps' \in 0..MaxMishaps
      <4>1. mishaps \in 0..MaxMishaps /\ MaxMishaps \in Nat
        BY KeeperAssumption DEF Typed
      <4>2. mishaps < MaxMishaps /\ mishaps' = mishaps + 1
        BY <2>3 DEF WriteFails
      <4> QED  BY <4>1, <4>2
    <3>2. /\ UNCHANGED <<pc, dry, given, next, targets, written, up, was, allowed>>
      BY <2>3 DEF WriteFails, machines
    <3> QED  BY <3>1, <3>2 DEF Typed, Asked
  <2> QED  BY <1>3, <2>1, <2>2, <2>3 DEF Probe
<1>4. ASSUME NEW m \in Machine, Turn(m)
      PROVE  Typed'
  BY <1>4, KeeperAssumption DEF Turn, Typed, Asked
<1>5. CASE UNCHANGED vars
  BY <1>5 DEF vars, machines, Typed, Asked
<1> QED  BY <1>1, <1>2, <1>3, <1>4, <1>5 DEF Next

-----------------------------------------------------------------------------
LEMMA InitMerged == Init => Merged
<1> SUFFICES ASSUME Init PROVE Merged
  OBVIOUS
<1>1. next = 1 /\ targets = <<>> /\ pc \in {"skipped", "merge"}
  BY DEF Init
<1> QED  BY <1>1 DEF Merged, Asked

LEMMA NextMerged ==
  ASSUME Typed, Merged, [Next]_vars
  PROVE  Merged'
<1>0. /\ next \in Nat /\ Len(given) \in Nat /\ Len(targets) \in Nat
      /\ targets \in Seq(Target) /\ given \in Seq(Target)
  BY DEF Typed
<1>1. CASE MergeNext
  <2>0. /\ pc = "merge" /\ pc' = pc /\ given' = given /\ next' = next + 1
        /\ next \in 1..Len(given) /\ given[next] \in Target
    BY <1>0, <1>1 DEF MergeNext, Typed
  <2>2. CASE Seen(given[next])
    <3>1. targets' = targets
      BY <1>1, <2>2 DEF MergeNext
    <3>2. \E n \in 1..Len(targets) : targets[n] = given[next]
      BY <2>2 DEF Seen
    <3> QED  BY <1>0, <2>0, <3>1, <3>2 DEF Merged, Asked
  <2>3. CASE ~Seen(given[next])
    <3>0. targets' = Append(targets, given[next])
      BY <1>1, <2>3 DEF MergeNext
    <3>1. /\ Len(targets') = Len(targets) + 1
          /\ \A n \in 1..Len(targets) : targets'[n] = targets[n]
          /\ targets'[Len(targets) + 1] = given[next]
      BY <1>0, <2>0, <3>0
    <3>2. \A n \in 1..Len(targets) : targets[n] # given[next]
      BY <2>3 DEF Seen
    <3>3. \A n, k \in 1..Len(targets') : targets'[n] = targets'[k] => n = k
      <4> TAKE n, k \in 1..Len(targets')
      <4> HAVE targets'[n] = targets'[k]
      <4>1. n \in 1..Len(targets) \/ n = Len(targets) + 1
        BY <1>0, <3>1
      <4>2. k \in 1..Len(targets) \/ k = Len(targets) + 1
        BY <1>0, <3>1
      <4> QED  BY <4>1, <4>2, <3>1, <3>2, SMTT(30) DEF Merged, Asked
    <3>4. \A n \in 1..Len(targets') : \E k \in 1..(next' - 1) : targets'[n] = given[k]
      <4> TAKE n \in 1..Len(targets')
      <4>1. CASE n = Len(targets) + 1
        <5>1. next \in 1..(next' - 1) /\ targets'[n] = given[next]
          BY <1>0, <2>0, <3>1, <4>1
        <5> QED  BY <5>1
      <4>2. CASE n \in 1..Len(targets)
        <5>1. PICK k \in 1..(next - 1) : targets[n] = given[k]
          BY <4>2 DEF Merged, Asked
        <5>2. k \in 1..(next' - 1) /\ targets'[n] = given[k]
          BY <1>0, <2>0, <3>1, <4>2, <5>1
        <5> QED  BY <5>2
      <4> QED  BY <1>0, <3>1, <4>1, <4>2
    <3>5. \A k \in 1..(next' - 1) : \E n \in 1..Len(targets') : targets'[n] = given[k]
      <4> TAKE k \in 1..(next' - 1)
      <4>1. CASE k = next
        <5>1. Len(targets) + 1 \in 1..Len(targets') /\ targets'[Len(targets) + 1] = given[k]
          BY <1>0, <3>1, <4>1
        <5> QED  BY <5>1
      <4>2. CASE k # next
        <5>0. k \in 1..(next - 1)
          BY <1>0, <2>0, <4>2
        <5>1. PICK n \in 1..Len(targets) : targets[n] = given[k]
          BY <5>0 DEF Merged, Asked
        <5>2. n \in 1..Len(targets') /\ targets'[n] = given[k]
          BY <1>0, <3>1, <5>1
        <5> QED  BY <5>2
      <4> QED  BY <4>1, <4>2
    <3> QED  BY <2>0, <3>3, <3>4, <3>5 DEF Merged, Asked
  <2> QED  BY <2>2, <2>3
<1>2. CASE Begin \/ Wait
  <2>1. given' = given /\ next' = next /\ targets' = targets
    BY <1>2 DEF Begin, Wait
  <2>2. next = Len(given) + 1
    <3>1. CASE Begin
      <4>1. next > Len(given)
        BY <3>1 DEF Begin
      <4>2. next \in 1..(Len(given) + 1)
        BY DEF Typed
      <4> QED  BY <1>0, <4>1, <4>2
    <3>2. CASE Wait
      BY <3>2 DEF Wait, Merged
    <3> QED  BY <1>2, <3>1, <3>2
  <2> QED  BY <2>1, <2>2 DEF Merged, Asked
<1>3. ASSUME NEW i \in 1..Len(targets), Probe(i)
      PROVE  Merged'
  <2>1. given' = given /\ next' = next /\ targets' = targets /\ pc' = pc
    BY <1>3 DEF Probe, Ask, Write, WriteFails
  <2> QED  BY <2>1 DEF Merged, Asked
<1>4. ASSUME NEW m \in Machine, Turn(m)
      PROVE  Merged'
  BY <1>4 DEF Turn, Merged, Asked
<1>5. CASE UNCHANGED vars
  BY <1>5 DEF vars, Merged, Asked
<1> QED  BY <1>1, <1>2, <1>3, <1>4, <1>5 DEF Next

-----------------------------------------------------------------------------
Statuses == {"", "ok", "not serving", "partial", "refused", "timeout", "failed"}

LEMMA NameOfTarget ==
  ASSUME NEW t \in Target
  PROVE  FileName(t) \in Name
  BY DEF FileName, Name

\* Two members never share a file name (Label: the ensemble and the host and
\* port; the default ensemble is left out).
LEMMA FileNameInjective ==
  ASSUME NEW t \in Target, NEW u \in Target, FileName(t) = FileName(u)
  PROVE  t = u
<1>1. Safe[t.host] = Safe[u.host] /\ t.port = u.port /\ t.ensemble = u.ensemble
  BY DEF FileName
<1> QED  BY <1>1, KeeperAssumption

LEMMA RemainsType ==
  ASSUME NEW s \in Seq(Section), NEW left \in Remains(s)
  PROVE  /\ left \in Seq(Section)
         /\ \A kind : Has(left, kind) => kind = "answer" \/ Has(s, kind)
<1>a. "answer" \in Section
  BY DEF Section
<1>b. Len(s) \in Nat
  OBVIOUS
<1>0. "answer" \in Section /\ Len(s) \in Nat
  BY <1>a, <1>b
<1>1. ASSUME NEW n \in 0..(Len(s) - 1)
      PROVE  /\ SubSeq(s, 1, n) \in Seq(Section)
             /\ Len(SubSeq(s, 1, n)) = n
             /\ \A k \in 1..n : SubSeq(s, 1, n)[k] = s[k] /\ k \in 1..Len(s)
  BY <1>0
<1>2. ASSUME NEW n \in 0..(Len(s) - 1), left = SubSeq(s, 1, n)
      PROVE  /\ left \in Seq(Section)
             /\ \A kind : Has(left, kind) => kind = "answer" \/ Has(s, kind)
  <2> DEFINE part == SubSeq(s, 1, n)
  <2>1. /\ part \in Seq(Section) /\ Len(part) = n
        /\ \A k \in 1..n : part[k] = s[k] /\ k \in 1..Len(s)
    BY <1>1
  <2>2. left = part
    BY <1>2
  <2> HIDE DEF part
  <2> QED  BY <2>1, <2>2 DEF Has
<1>3. ASSUME NEW n \in 0..(Len(s) - 1), left = Append(SubSeq(s, 1, n), "answer")
      PROVE  /\ left \in Seq(Section)
             /\ \A kind : Has(left, kind) => kind = "answer" \/ Has(s, kind)
  <2> DEFINE part == SubSeq(s, 1, n)
  <2>1. /\ part \in Seq(Section) /\ Len(part) = n
        /\ \A k \in 1..n : part[k] = s[k] /\ k \in 1..Len(s)
    BY <1>1
  <2> HIDE DEF part
  <2>2. /\ left \in Seq(Section) /\ Len(left) = n + 1 /\ left[n + 1] = "answer"
        /\ \A k \in 1..n : left[k] = part[k]
    BY <1>0, <1>3, <2>1 DEF part
  <2>3. ASSUME NEW kind, NEW k \in 1..Len(left), left[k] = kind
        PROVE  kind = "answer" \/ Has(s, kind)
    <3>1. k = n + 1 \/ k \in 1..n
      BY <2>2
    <3> QED  BY <2>1, <2>2, <2>3, <3>1 DEF Has
  <2> QED  BY <2>2, <2>3 DEF Has
<1> QED  BY <1>2, <1>3 DEF Remains

LEMMA InitKept == Init => Kept
<1> SUFFICES ASSUME Init PROVE Kept
  OBVIOUS
<1>1. said = <<>> /\ status = <<>> /\ pc \in {"merge", "skipped"} /\ files = [f \in Name |-> {}]
  BY DEF Init
<1> QED  BY <1>1 DEF Kept

\* What Ask leaves of what was said.
LEMMA AskSays ==
  ASSUME Typed, Kept, NEW i \in Asked, Ask(i)
  PROVE  \E reply \in Section :
           /\ said' \in Seq(Seq(Section)) /\ Len(said') = Len(said)
           /\ said[i] \in Seq(Section) /\ Len(said[i]) < Len(Commands)
           /\ said'[i] = Append(said[i], reply)
           /\ \A j \in Asked : j # i => said'[j] = said[j]
           /\ reply \in IF Stopped(said[i]) THEN {"skipped"}
                        ELSE Replies(At[targets[i].host], Commands[Len(said[i]) + 1])
<1>0. pc = "ask" /\ Len(said) = Len(targets) /\ said \in Seq(Seq(Section))
  BY DEF Ask, Kept
<1>1. PICK reply \in IF Stopped(said[i]) THEN {"skipped"}
                     ELSE Replies(At[targets[i].host], Commands[Len(said[i]) + 1]) :
        said' = [said EXCEPT ![i] = Append(@, reply)]
  BY DEF Ask
<1>2. reply \in Section
  BY SectionOfReply DEF Section
<1>3. said[i] \in Seq(Section) /\ i \in 1..Len(said)
  BY <1>0 DEF Asked
<1>4. Append(said[i], reply) \in Seq(Section)
  BY <1>2, <1>3
<1>5. said' = [said EXCEPT ![i] = Append(said[i], reply)]
  BY <1>1
<1>6. /\ said' \in Seq(Seq(Section)) /\ Len(said') = Len(said)
      /\ said'[i] = Append(said[i], reply)
      /\ \A j \in 1..Len(said) : j # i => said'[j] = said[j]
  BY <1>0, <1>3, <1>4, <1>5, ExceptSeq
<1> QED  BY <1>0, <1>1, <1>2, <1>3, <1>6 DEF Ask, Asked

LEMMA NextKept ==
  ASSUME Typed, Kept, [Next]_vars
  PROVE  Kept'
<1>0. Len(targets) \in Nat /\ targets \in Seq(Target)
  BY DEF Typed
<1>1. CASE MergeNext \/ Wait \/ (\E m \in Machine : Turn(m)) \/ UNCHANGED vars
  <2>1. CASE MergeNext
    BY <2>1 DEF MergeNext, Kept
  <2>2. CASE Wait
    BY <2>2 DEF Wait, Kept
  <2>3. CASE (\E m \in Machine : Turn(m)) \/ UNCHANGED vars
    BY <2>3 DEF Turn, vars, Kept
  <2> QED  BY <1>1, <2>1, <2>2, <2>3
<1>2. CASE Begin
  <2>1. /\ said' = [i \in 1..Len(targets) |-> <<>>] /\ status' = [i \in 1..Len(targets) |-> ""]
        /\ files' = files /\ targets' = targets /\ pc' \notin {"merge", "skipped"}
    BY <1>2 DEF Begin
  <2>2. said' \in Seq(Seq(Section)) /\ Len(said') = Len(targets)
    <3>1. Len(targets) \in Nat /\ <<>> \in Seq(Section)
      BY <1>0
    <3>2. said' \in [1..Len(targets) -> Seq(Section)]
      BY <2>1, <3>1
    <3> QED  BY <3>1, <3>2
  <2>3. status' \in Seq(Statuses) /\ Len(status') = Len(targets)
    <3>1. status' \in [1..Len(targets) -> Statuses]
      BY <2>1 DEF Statuses
    <3> QED  BY <1>0, <3>1
  <2>4. \A i \in DOMAIN said' : Len(said'[i]) <= Len(Commands)
    <3>1. Len(Commands) \in Nat
      BY KeeperAssumption
    <3>2. \A i \in DOMAIN said' : said'[i] = <<>>
      BY <2>1
    <3>3. Len(<<>>) = 0
      OBVIOUS
    <3> QED  BY <3>1, <3>2, <3>3
  <2> QED  BY <2>1, <2>2, <2>3, <2>4 DEF Kept, Statuses
<1>3. ASSUME NEW i \in 1..Len(targets), Ask(i)
      PROVE  Kept'
  <2>1. PICK reply \in Section :
           /\ said' \in Seq(Seq(Section)) /\ Len(said') = Len(said)
           /\ said[i] \in Seq(Section) /\ Len(said[i]) < Len(Commands)
           /\ said'[i] = Append(said[i], reply)
           /\ \A j \in Asked : j # i => said'[j] = said[j]
    BY <1>3, AskSays DEF Asked
  <2>2. pc' = pc /\ targets' = targets /\ status' = status /\ files' = files /\ pc = "ask"
    BY <1>3 DEF Ask
  <2>3. \A j \in DOMAIN said' : Len(said'[j]) <= Len(Commands)
    <3> TAKE j \in DOMAIN said'
    <3>0. j \in Asked /\ j \in DOMAIN said /\ Len(Commands) \in Nat
      <4>1. said \in Seq(Seq(Section)) /\ Len(said) = Len(targets)
        BY <2>2 DEF Kept
      <4>2. Len(Commands) \in Nat
        BY KeeperAssumption
      <4>3. said' \in Seq(Seq(Section)) /\ Len(said') = Len(said)
        BY <2>1
      <4>4. j \in 1..Len(said') /\ DOMAIN said = 1..Len(said)
        BY <4>1, <4>3
      <4> QED  BY <4>1, <4>2, <4>3, <4>4 DEF Asked
    <3>1. CASE j = i
      BY <2>1, <3>0, <3>1
    <3>2. CASE j # i
      <4>1. said'[j] = said[j]
        BY <2>1, <3>0, <3>2
      <4>2. Len(said[j]) <= Len(Commands)
        BY <3>0 DEF Kept
      <4> QED  BY <4>1, <4>2
    <3> QED  BY <3>1, <3>2
  <2> QED  BY <2>1, <2>2, <2>3 DEF Kept
<1>4. ASSUME NEW i \in 1..Len(targets), Write(i) \/ WriteFails(i)
      PROVE  Kept'
  <2>0. pc' = pc /\ targets' = targets /\ said' = said /\ pc = "ask"
    BY <1>4 DEF Write, WriteFails
  <2>1. PICK st \in Statuses : status' = [status EXCEPT ![i] = st]
    BY <1>4, StatusType DEF Write, WriteFails, Statuses
  <2>2. status \in Seq(Statuses) /\ i \in 1..Len(status) /\ Len(status) = Len(targets)
    BY <2>0 DEF Kept, Statuses
  <2>3. status' \in Seq(Statuses) /\ Len(status') = Len(status)
    BY <2>1, <2>2, ExceptSeq
  <2>4. targets[i] \in Target /\ said[i] \in Seq(Section)
    <3>1. said \in Seq(Seq(Section)) /\ i \in 1..Len(said)
      BY <2>0 DEF Kept
    <3> QED  BY <1>0, <3>1
  <2>5. \/ files' = files
        \/ \E text \in Seq(Section) :
             files' = [files EXCEPT ![FileName(targets[i])] = {[of |-> targets[i], text |-> text]}]
    <3>1. CASE Write(i)
      BY <2>4, <3>1 DEF Write
    <3>2. CASE WriteFails(i)
      <4>1. CASE UNCHANGED files
        BY <4>1
      <4>2. ASSUME NEW left \in Remains(said[i]),
                   files' = [files EXCEPT ![FileName(targets[i])] = {[of |-> targets[i], text |-> left]}]
            PROVE  \E text \in Seq(Section) :
                     files' = [files EXCEPT ![FileName(targets[i])] = {[of |-> targets[i], text |-> text]}]
        <5>1. left \in Seq(Section)
          BY <2>4, RemainsType
        <5> QED  BY <4>2, <5>1
      <4> QED  BY <3>2, <4>1, <4>2 DEF WriteFails
    <3> QED  BY <1>4, <3>1, <3>2
  <2>6. files' \in [Name -> SUBSET [of : Target, text : Seq(Section)]]
    <3>0. files \in [Name -> SUBSET [of : Target, text : Seq(Section)]]
      BY DEF Kept
    <3>1. ASSUME NEW text \in Seq(Section),
                 files' = [files EXCEPT ![FileName(targets[i])] = {[of |-> targets[i], text |-> text]}]
          PROVE  files' \in [Name -> SUBSET [of : Target, text : Seq(Section)]]
      <4>1. [of |-> targets[i], text |-> text] \in [of : Target, text : Seq(Section)]
        BY <2>4
      <4> QED  BY <3>0, <3>1, <4>1
    <3> QED  BY <2>5, <3>0, <3>1
  <2> QED  BY <2>0, <2>2, <2>3, <2>6 DEF Kept, Statuses
<1> QED  BY <1>1, <1>2, <1>3, <1>4 DEF Next, Probe

-----------------------------------------------------------------------------
\* A file that was written whole holds what its member said and no other's.
Filed ==
  /\ pc \in {"merge", "skipped"} => written = {}
  /\ \A i \in written :
       /\ status[i] = Status(said[i])
       /\ files[FileName(targets[i])] = {[of |-> targets[i], text |-> said[i]]}

\* Whatever stands in a file was said by the member it is named for.
Voices ==
  /\ \A m \in Machine : up[m] \in was[m]
  /\ pc \in {"merge", "skipped"} => \A f \in Name : files[f] = {}
  /\ \A i \in DOMAIN said :
       Has(said[i], "not serving") => "loading" \in was[At[targets[i].host]]
  /\ \A f \in Name : \A file \in files[f] :
       /\ f = FileName(file.of)
       /\ \E i \in Asked : targets[i] = file.of
       /\ Has(file.text, "not serving") => "loading" \in was[At[file.of.host]]

\* A network failure is followed by skipped commands only.
Once ==
  \A i \in DOMAIN said : \A n, k \in 1..Len(said[i]) :
    said[i][n] \in Failure /\ n < k => said[i][k] = "skipped"

\* A dry run asks and writes nothing.
Dry ==
  dry => /\ pc \notin Started
         /\ \A i \in DOMAIN said : said[i] = <<>>
         /\ \A f \in Name : files[f] = {}

LEMMA StatusNotEmpty ==
  ASSUME NEW s
  PROVE  Status(s) # ""
  BY DEF Status

LEMMA NextFiled ==
  ASSUME Typed, Merged, Kept, Filed, [Next]_vars
  PROVE  Filed'
<1>0. /\ targets \in Seq(Target) /\ written \subseteq Asked
      /\ \A n, k \in Asked : targets[n] = targets[k] => n = k
  BY DEF Typed, Merged
<1>1. CASE MergeNext \/ Begin
  <2>1. written = {} /\ written' = {}
    BY <1>1 DEF MergeNext, Begin, Filed
  <2> QED  BY <2>1 DEF Filed
<1>2. CASE Wait \/ (\E m \in Machine : Turn(m)) \/ UNCHANGED vars
  <2>2. UNCHANGED <<targets, said, status, written, files>>
    BY <1>2 DEF Wait, Turn, vars
  <2>3. pc' = pc \/ pc' = "recorded"
    BY <1>2 DEF Wait, Turn, vars
  <2> QED  BY <2>2, <2>3 DEF Filed
<1>3. ASSUME NEW i \in Asked, Ask(i)
      PROVE  Filed'
  <2>0. UNCHANGED <<targets, status, written, files>> /\ pc' = pc /\ pc = "ask" /\ status[i] = ""
    BY <1>3 DEF Ask
  <2>1. i \notin written
    BY <2>0, StatusNotEmpty DEF Filed
  <2>2. \A j \in written : said'[j] = said[j]
    BY <1>0, <1>3, <2>1, AskSays
  <2> QED  BY <2>0, <2>2 DEF Filed
<1>4. ASSUME NEW i \in Asked, Write(i) \/ WriteFails(i)
      PROVE  Filed'
  <2>0. /\ UNCHANGED <<targets, said>> /\ pc' = pc /\ pc = "ask" /\ status[i] = ""
        /\ written' \subseteq written \cup {i} /\ written \subseteq written'
    BY <1>4 DEF Write, WriteFails
  <2>1. i \notin written
    BY <2>0, StatusNotEmpty DEF Filed
  <2>2. \A j \in written : FileName(targets[j]) # FileName(targets[i])
    BY <1>0, <2>1, FileNameInjective DEF Asked
  <2>3. \A j \in written : status'[j] = status[j]
    <3>1. PICK st : status' = [status EXCEPT ![i] = st]
      BY <1>4 DEF Write, WriteFails
    <3> QED  BY <2>1, <3>1
  <2>4. \A j \in written : files'[FileName(targets[j])] = files[FileName(targets[j])]
    <3> TAKE j \in written
    <3>1. FileName(targets[j]) # FileName(targets[i])
      BY <2>2
    <3> HIDE DEF FileName
    <3>2. CASE UNCHANGED files
      BY <3>2
    <3>3. CASE ~UNCHANGED files
      <4>1. PICK content : files' = [files EXCEPT ![FileName(targets[i])] = content]
        BY <1>4, <3>3 DEF Write, WriteFails
      <4> QED  BY <3>1, <4>1
    <3> QED  BY <3>2, <3>3
  <2>5. i \in written' => /\ status'[i] = Status(said[i])
                          /\ files'[FileName(targets[i])] = {[of |-> targets[i], text |-> said[i]]}
    <3> HAVE i \in written'
    <3>1. Write(i)
      BY <1>4, <2>1 DEF WriteFails
    <3>2. i \in DOMAIN status
      <4>1. status \in Seq(Statuses) /\ Len(status) = Len(targets)
        BY <2>0 DEF Kept, Statuses
      <4> QED  BY <4>1 DEF Asked
    <3>3. FileName(targets[i]) \in DOMAIN files
      <4>1. targets[i] \in Target
        BY <1>0 DEF Asked
      <4>2. DOMAIN files = Name
        BY DEF Kept
      <4> QED  BY <4>1, <4>2, NameOfTarget
    <3> QED  BY <3>1, <3>2, <3>3 DEF Write
  <2> QED  BY <2>0, <2>3, <2>4, <2>5 DEF Filed
<1> QED  BY <1>1, <1>2, <1>3, <1>4 DEF Next, Probe, Asked

LEMMA NotServingIsLoading ==
  ASSUME Typed, NEW m \in Machine, NEW cmd, "not serving" \in Replies(m, cmd)
  PROVE  up[m] = "loading"
<1>1. Alive(m, cmd) = "not serving"
  BY DEF Replies
<1>2. up[m] \in {"serving", "loading", "down"}
  BY DEF Typed
<1> QED  BY <1>1, <1>2 DEF Alive

LEMMA NextVoices ==
  ASSUME Typed, Kept, Voices, [Next]_vars
  PROVE  Voices'
<1>0. /\ targets \in Seq(Target) /\ Len(targets) \in Nat
      /\ \A m \in Machine : up[m] \in {"serving", "loading", "down"}
      /\ DOMAIN was = Machine /\ DOMAIN up = Machine
  BY DEF Typed
<1>1. CASE MergeNext
  <2>1. /\ UNCHANGED <<pc, said, files, up, was>> /\ pc = "merge"
    BY <1>1 DEF MergeNext, machines
  <2>2. DOMAIN said = {} /\ \A f \in Name : files[f] = {}
    <3>1. said = <<>>
      BY <2>1 DEF Kept
    <3>2. DOMAIN <<>> = 1..0
      OBVIOUS
    <3>3. DOMAIN said = {}
      BY <3>1, <3>2
    <3>4. \A f \in Name : files[f] = {}
      BY <2>1 DEF Voices
    <3> QED  BY <3>3, <3>4
  <2> QED  BY <2>1, <2>2 DEF Voices
<1>2. CASE Begin
  <2>1. /\ UNCHANGED <<targets, files, up, was>> /\ pc = "merge"
        /\ said' = [i \in 1..Len(targets) |-> <<>>]
    BY <1>2 DEF Begin, machines
  <2>2. \A f \in Name : files[f] = {}
    BY <2>1 DEF Voices
  <2>3. \A i \in DOMAIN said' : ~Has(said'[i], "not serving")
    BY <2>1 DEF Has
  <2>4. \A m \in Machine : up'[m] \in was'[m]
    BY <2>1 DEF Voices
  <2>5. \A f \in Name : files'[f] = {}
    BY <2>1, <2>2
  <2>6. \A i \in DOMAIN said' :
          Has(said'[i], "not serving") => "loading" \in was'[At[targets'[i].host]]
    BY <2>3
  <2>7. \A f \in Name : \A file \in files'[f] : FALSE
    BY <2>5
  <2> QED  BY <2>4, <2>5, <2>6, <2>7 DEF Voices
<1>3. CASE Wait \/ UNCHANGED vars
  <2>1. UNCHANGED <<targets, said, files, up, was>> /\ (pc' = pc \/ pc' = "recorded")
    BY <1>3 DEF Wait, vars, machines
  <2> HIDE DEF FileName
  <2> QED  BY <2>1 DEF Voices, Asked
<1>4. ASSUME NEW m \in Machine, Turn(m)
      PROVE  Voices'
  <2>1. UNCHANGED <<targets, said, files, pc>>
    BY <1>4 DEF Turn
  <2>2. PICK state : /\ up' = [up EXCEPT ![m] = state]
                     /\ was' = [was EXCEPT ![m] = @ \cup {state}]
    BY <1>4 DEF Turn
  <2>3. \A o \in Machine : up'[o] \in was'[o] /\ was[o] \subseteq was'[o]
    BY <1>0, <2>2 DEF Voices
  <2>4. ASSUME NEW i \in DOMAIN said, Has(said[i], "not serving")
        PROVE  "loading" \in was'[At[targets[i].host]]
    <3>1. said \in Seq(Seq(Section)) /\ Len(said) = Len(targets)
      BY <1>4 DEF Kept, Turn
    <3>2. targets[i] \in Target
      <4>1. DOMAIN said = 1..Len(targets)
        BY <3>1
      <4> QED  BY <1>0, <4>1
    <3>3. At[targets[i].host] \in Machine
      BY <3>2, KeeperAssumption
    <3> QED  BY <2>3, <2>4, <3>3 DEF Voices
  <2>5. ASSUME NEW f \in Name, NEW file \in files[f], Has(file.text, "not serving")
        PROVE  "loading" \in was'[At[file.of.host]]
    <3>0. files \in [Name -> SUBSET [of : Target, text : Seq(Section)]]
      BY DEF Kept
    <3>1. file.of \in Target
      BY <3>0
    <3>2. At[file.of.host] \in Machine
      BY <3>1, KeeperAssumption
    <3> QED  BY <2>3, <2>5, <3>2 DEF Voices
  <2>6. \A f \in Name : \A file \in files[f] : f = FileName(file.of) /\ \E i \in Asked : targets[i] = file.of
    BY DEF Voices
  <2>7. pc \in {"merge", "skipped"} => \A f \in Name : files[f] = {}
    BY DEF Voices
  <2> HIDE DEF FileName
  <2> QED  BY <2>1, <2>3, <2>4, <2>5, <2>6, <2>7 DEF Voices, Asked
<1>5. ASSUME NEW i \in Asked, Ask(i)
      PROVE  Voices'
  <2>0. UNCHANGED <<targets, files, up, was, pc>> /\ pc = "ask"
    BY <1>5 DEF Ask, machines
  <2>1. PICK reply \in Section :
           /\ said' \in Seq(Seq(Section)) /\ Len(said') = Len(said)
           /\ said[i] \in Seq(Section) /\ Len(said[i]) < Len(Commands)
           /\ said'[i] = Append(said[i], reply)
           /\ \A j \in Asked : j # i => said'[j] = said[j]
           /\ reply \in IF Stopped(said[i]) THEN {"skipped"}
                        ELSE Replies(At[targets[i].host], Commands[Len(said[i]) + 1])
    BY <1>5, AskSays
  <2>2. said \in Seq(Seq(Section)) /\ Len(said) = Len(targets)
    BY <2>0 DEF Kept
  <2>3. DOMAIN said' = Asked /\ DOMAIN said = Asked
    BY <2>1, <2>2 DEF Asked
  <2>4. ASSUME NEW j \in Asked, Has(said'[j], "not serving")
        PROVE  "loading" \in was[At[targets[j].host]]
    <3>1. CASE j # i
      BY <2>1, <2>3, <2>4, <3>1 DEF Voices
    <3>2. CASE j = i
      <4>1. Len(said'[i]) = Len(said[i]) + 1 /\ Len(said[i]) \in Nat
            /\ said'[i][Len(said[i]) + 1] = reply
            /\ \A n \in 1..Len(said[i]) : said'[i][n] = said[i][n]
        BY <2>1, AppendProperties
      <4>2. Has(said[i], "not serving") \/ reply = "not serving"
        <5>1. PICK n \in 1..Len(said'[i]) : said'[i][n] = "not serving"
          BY <2>4, <3>2 DEF Has
        <5>2. n \in 1..Len(said[i]) \/ n = Len(said[i]) + 1
          BY <4>1
        <5> QED  BY <4>1, <5>1, <5>2 DEF Has
      <4>3. CASE Has(said[i], "not serving")
        BY <2>3, <3>2, <4>3 DEF Voices
      <4>4. CASE reply = "not serving"
        <5>1. At[targets[i].host] \in Machine
          BY <1>0, KeeperAssumption DEF Asked
        <5>2. "not serving" \in Replies(At[targets[i].host], Commands[Len(said[i]) + 1])
          BY <2>1, <4>4
        <5>3. up[At[targets[i].host]] = "loading"
          BY <5>1, <5>2, NotServingIsLoading
        <5> QED  BY <3>2, <5>1, <5>3 DEF Voices
      <4> QED  BY <4>2, <4>3, <4>4
    <3> QED  BY <3>1, <3>2
  <2> QED  BY <2>0, <2>3, <2>4 DEF Voices, Asked
<1>6. ASSUME NEW i \in Asked, Write(i) \/ WriteFails(i)
      PROVE  Voices'
  <2>0. UNCHANGED <<targets, said, up, was, pc>> /\ pc = "ask"
    BY <1>6 DEF Write, WriteFails, machines
  <2>1. /\ said \in Seq(Seq(Section)) /\ Len(said) = Len(targets)
        /\ files \in [Name -> SUBSET [of : Target, text : Seq(Section)]]
    BY <2>0 DEF Kept
  <2>2. targets[i] \in Target /\ said[i] \in Seq(Section) /\ i \in DOMAIN said
    BY <1>0, <2>1 DEF Asked
  <2>3. Has(said[i], "not serving") => "loading" \in was[At[targets[i].host]]
    BY <2>2 DEF Voices
  <2>4. ASSUME NEW f \in Name, NEW file \in files'[f]
        PROVE  \/ file \in files[f]
               \/ /\ f = FileName(targets[i]) /\ file.of = targets[i]
                  /\ Has(file.text, "not serving") => Has(said[i], "not serving")
    <3>1. CASE UNCHANGED files
      BY <2>4, <3>1
    <3>2. CASE ~UNCHANGED files
      <4>1. PICK text : /\ files' = [files EXCEPT ![FileName(targets[i])] = {[of |-> targets[i], text |-> text]}]
                        /\ text = said[i] \/ text \in Remains(said[i])
        BY <1>6, <3>2 DEF Write, WriteFails
      <4>2. Has(text, "not serving") => Has(said[i], "not serving")
        BY <2>2, <4>1, RemainsType
      <4>3. CASE f = FileName(targets[i])
        <5>1. files'[f] = {[of |-> targets[i], text |-> text]}
          BY <2>1, <4>1, <4>3
        <5>2. file = [of |-> targets[i], text |-> text]
          BY <2>4, <5>1
        <5> QED  BY <4>2, <4>3, <5>2
      <4>4. CASE f # FileName(targets[i])
        <5>1. files'[f] = files[f]
          BY <2>1, <4>1, <4>4
        <5> QED  BY <2>4, <5>1
      <4> QED  BY <4>3, <4>4
    <3> QED  BY <3>1, <3>2
  <2>5. ASSUME NEW f \in Name, NEW file \in files'[f]
        PROVE  /\ f = FileName(file.of)
               /\ \E j \in Asked : targets[j] = file.of
               /\ Has(file.text, "not serving") => "loading" \in was[At[file.of.host]]
    <3>1. CASE file \in files[f]
      BY <3>1 DEF Voices
    <3>2. CASE file \notin files[f]
      BY <2>3, <2>4, <2>5, <3>2
    <3> QED  BY <3>1, <3>2
  <2> QED  BY <2>0, <2>5 DEF Voices, Asked
<1> QED  BY <1>1, <1>2, <1>3, <1>4, <1>5, <1>6 DEF Next, Probe, Asked

LEMMA NextOnce ==
  ASSUME Typed, Kept, Once, [Next]_vars
  PROVE  Once'
<1>1. CASE UNCHANGED said
  BY <1>1 DEF Once
<1>2. CASE Begin
  <2>1. said' = [i \in 1..Len(targets) |-> <<>>]
    BY <1>2 DEF Begin
  <2>2. \A i \in DOMAIN said' : said'[i] = <<>>
    BY <2>1
  <2>3. Len(<<>>) = 0
    OBVIOUS
  <2> QED  BY <2>2, <2>3 DEF Once
<1>3. ASSUME NEW i \in Asked, Ask(i)
      PROVE  Once'
  <2>1. PICK reply \in Section :
           /\ said' \in Seq(Seq(Section)) /\ Len(said') = Len(said)
           /\ said[i] \in Seq(Section) /\ Len(said[i]) < Len(Commands)
           /\ said'[i] = Append(said[i], reply)
           /\ \A j \in Asked : j # i => said'[j] = said[j]
           /\ reply \in IF Stopped(said[i]) THEN {"skipped"}
                        ELSE Replies(At[targets[i].host], Commands[Len(said[i]) + 1])
    BY <1>3, AskSays
  <2>2. said \in Seq(Seq(Section)) /\ Len(said) = Len(targets)
    BY <1>3 DEF Kept, Ask
  <2>3. DOMAIN said' = Asked /\ DOMAIN said = Asked
    BY <2>1, <2>2 DEF Asked
  <2>4. Len(said'[i]) = Len(said[i]) + 1 /\ Len(said[i]) \in Nat
        /\ said'[i][Len(said[i]) + 1] = reply
        /\ \A n \in 1..Len(said[i]) : said'[i][n] = said[i][n]
    BY <2>1, AppendProperties
  <2>5. ASSUME NEW j \in Asked, NEW n \in 1..Len(said'[j]), NEW k \in 1..Len(said'[j]),
               said'[j][n] \in Failure, n < k
        PROVE  said'[j][k] = "skipped"
    <3>1. CASE j # i
      BY <2>1, <2>3, <2>5, <3>1 DEF Once
    <3>2. CASE j = i
      <4>1. n \in 1..Len(said[i])
        BY <2>4, <2>5, <3>2
      <4>2. said[i][n] \in Failure
        BY <2>4, <2>5, <3>2, <4>1
      <4>3. CASE k = Len(said[i]) + 1
        BY <2>1, <2>4, <3>2, <4>1, <4>2, <4>3 DEF Stopped
      <4>4. CASE k \in 1..Len(said[i])
        BY <2>3, <2>4, <2>5, <3>2, <4>1, <4>2, <4>4 DEF Once
      <4> QED  BY <2>4, <2>5, <3>2, <4>3, <4>4
    <3> QED  BY <3>1, <3>2
  <2> QED  BY <2>3, <2>5 DEF Once
<1>4. ~UNCHANGED said => Begin \/ \E i \in Asked : Ask(i)
  BY DEF Next, MergeNext, Wait, Turn, Probe, Write, WriteFails, vars, Asked
<1> QED  BY <1>1, <1>2, <1>3, <1>4

LEMMA NextDry ==
  ASSUME Kept, Dry, [Next]_vars
  PROVE  Dry'
<1> SUFFICES ASSUME dry'
             PROVE  Dry'
  BY DEF Dry
<1>0. dry
  BY DEF Next, MergeNext, Begin, Wait, Turn, Probe, Ask, Write, WriteFails, vars
<1>1. /\ pc \notin Started
      /\ \A i \in DOMAIN said : said[i] = <<>>
      /\ \A f \in Name : files[f] = {}
  BY <1>0 DEF Dry
<1>2. CASE MergeNext \/ UNCHANGED vars
  BY <1>1, <1>2 DEF MergeNext, vars, Dry
<1>3. CASE Begin
  <2>1. /\ pc' \in {"none", "listed"} /\ files' = files
        /\ said' = [i \in 1..Len(targets) |-> <<>>]
    BY <1>0, <1>3 DEF Begin
  <2>2. \A i \in DOMAIN said' : said'[i] = <<>>
    BY <2>1
  <2> QED  BY <1>1, <2>1, <2>2 DEF Dry, Started
<1>4. CASE pc = "ask"
  BY <1>1, <1>4 DEF Started
<1>5. MergeNext \/ Begin \/ UNCHANGED vars \/ pc = "ask"
  BY DEF Next, Wait, Turn, Probe, Ask, Write, WriteFails
<1> QED  BY <1>2, <1>3, <1>4, <1>5

-----------------------------------------------------------------------------
\* Together they are inductive.
ProbeInv == Typed /\ Merged /\ Kept /\ Filed /\ Voices /\ Once /\ Dry

LEMMA InitProbeInv == Init => ProbeInv
<1> SUFFICES ASSUME Init PROVE ProbeInv
  OBVIOUS
<1>1. /\ said = <<>> /\ written = {} /\ pc \in {"merge", "skipped"}
      /\ files = [f \in Name |-> {}]
      /\ was = [m \in Machine |-> {up[m]}]
  BY DEF Init
<1>2. DOMAIN <<>> = 1..0
  OBVIOUS
<1>3. DOMAIN said = {} /\ (\A f \in Name : files[f] = {}) /\ \A m \in Machine : up[m] \in was[m]
  BY <1>1, <1>2
<1>4. Filed
  BY <1>1 DEF Filed
<1>5. Voices
  BY <1>1, <1>3 DEF Voices
<1>6. Once
  BY <1>3 DEF Once
<1>7. Dry
  BY <1>1, <1>3 DEF Dry, Started
<1> QED  BY InitTyped, InitMerged, InitKept, <1>4, <1>5, <1>6, <1>7 DEF ProbeInv

\* Init, and every step, keep it.
THEOREM ProbeInvariant == Spec => []ProbeInv
<1>1. ProbeInv /\ [Next]_vars => ProbeInv'
  BY NextTyped, NextMerged, NextKept, NextFiled, NextVoices, NextOnce, NextDry DEF ProbeInv
<1> QED  BY InitProbeInv, <1>1, PTL DEF Spec

-----------------------------------------------------------------------------
\* The variables have their types: never more sections than commands, and a
\* file only for a member.
THEOREM SpecTypeOK == Spec => []TypeOK
<1>1. ASSUME ProbeInv
      PROVE  TypeOK
  <2>0. Typed /\ Kept
    BY <1>1 DEF ProbeInv
  <2>1. /\ said \in Seq(Seq(Section))
        /\ status \in Seq({"", "ok", "not serving", "partial", "refused", "timeout", "failed"})
        /\ \A i \in DOMAIN said : Len(said[i]) <= Len(Commands)
        /\ files \in [Name -> SUBSET [of : Target, text : Seq(Section)]]
    BY <2>0 DEF Kept
  <2>2. pc = "ask" => Len(said) = Len(targets) /\ Len(status) = Len(targets)
    BY <2>0 DEF Kept
  <2>3. targets \in Seq(Target)
    BY <2>0 DEF Typed
  <2>4. pc = "ask" => DOMAIN said = DOMAIN targets /\ DOMAIN status = DOMAIN targets
    <3>1. DOMAIN targets = 1..Len(targets)
      BY <2>3
    <3>2. DOMAIN said = 1..Len(said) /\ DOMAIN status = 1..Len(status)
      <4>1. said \in Seq(Seq(Section))
        BY <2>1
      <4>2. status \in Seq(Statuses)
        BY <2>1 DEF Statuses
      <4>3. DOMAIN said = 1..Len(said)
        BY <4>1
      <4>4. DOMAIN status = 1..Len(status)
        BY <4>2
      <4> QED  BY <4>3, <4>4
    <3> QED  BY <2>2, <3>1, <3>2, Zenon
  <2>5. DOMAIN files = Name /\ \A f \in Name : \A file \in files[f] : file.of \in Target /\ file.text \in Seq(Section)
    <3> DEFINE Whole == [of : Target, text : Seq(Section)]
    <3>1. files \in [Name -> SUBSET Whole]
      BY <2>1
    <3>2. \A file \in Whole : file.of \in Target /\ file.text \in Seq(Section)
      OBVIOUS
    <3> HIDE DEF Whole
    <3>3. DOMAIN files = Name /\ \A f \in Name : files[f] \subseteq Whole
      BY <3>1
    <3> QED  BY <3>2, <3>3, Zenon
  <2> QED  BY <2>0, <2>1, <2>4, <2>5 DEF Typed, TypeOK, Asked
<1> QED  BY <1>1, ProbeInvariant, PTL

\* Whatever the connections and the configuration list, the members asked are
\* those, each one once (MergeTargets).
THEOREM SpecEveryMemberOnce == Spec => []EveryMemberOnce
<1>1. ASSUME ProbeInv
      PROVE  EveryMemberOnce
  <2> SUFFICES ASSUME pc \in {"none", "listed", "failed", "ask", "recorded"}
               PROVE  /\ {targets[n] : n \in 1..Len(targets)} = {given[n] : n \in 1..Len(given)}
                      /\ \A n, k \in 1..Len(targets) : targets[n] = targets[k] => n = k
    BY DEF EveryMemberOnce
  <2>0. Typed /\ Merged
    BY <1>1 DEF ProbeInv
  <2>1. next - 1 = Len(given) /\ Len(given) \in Nat
    BY <2>0 DEF Typed, Merged
  <2>2. \A n \in 1..Len(targets) : \E k \in 1..Len(given) : targets[n] = given[k]
    BY <2>0, <2>1 DEF Merged, Asked
  <2>3. \A k \in 1..Len(given) : \E n \in 1..Len(targets) : targets[n] = given[k]
    BY <2>0, <2>1 DEF Merged, Asked
  <2>4. \A n, k \in 1..Len(targets) : targets[n] = targets[k] => n = k
    BY <2>0 DEF Merged, Asked
  <2> QED  BY <2>2, <2>3, <2>4
<1> QED  BY <1>1, ProbeInvariant, PTL

\* However the goroutines interleave and whatever fails, a file that counts as
\* written holds all that its own member said (collectOne's file names).
THEOREM SpecFileIsItsMembers == Spec => []FileIsItsMembers
<1>1. ProbeInv => FileIsItsMembers
  BY DEF ProbeInv, Filed, FileIsItsMembers
<1> QED  BY <1>1, ProbeInvariant, PTL

\* One network failure stops the questions to a member (stoppedBy).
THEOREM SpecOneFailurePerMember == Spec => []OneFailurePerMember
<1>1. ProbeInv => OneFailurePerMember
  BY DEF ProbeInv, Once, OneFailurePerMember
<1> QED  BY <1>1, ProbeInvariant, PTL

\* A dry run contacts no member and writes no file.
THEOREM SpecDryRunAsksNobody == Spec => []DryRunAsksNobody
<1>1. ProbeInv => DryRunAsksNobody
  BY DEF ProbeInv, Dry, DryRunAsksNobody
<1> QED  BY <1>1, ProbeInvariant, PTL

\* What the log counts and what the panel reads from the same sections agree.
LEMMA StatusAndState ==
  ASSUME NEW s
  PROVE  /\ State(s) = "not serving" <=> Status(s) = "not serving"
         /\ Status(s) = "ok" => State(s) = "serving"
         /\ State(s) = "serving" => Status(s) \in {"ok", "partial"}
         /\ Status(s) \in {"refused", "timeout"} => State(s) = "probe failed"
<1>1. "srvr" \in Core
  BY KeeperAssumption
<1>2. \A cmd : Answers(s, cmd) => Has(s, "answer")
  BY DEF Answers, Has
<1>3. Has(s, "refused") \/ Has(s, "timeout") => Stopped(s)
  BY DEF Has, Stopped, Failure
<1> HIDE DEF Has, Answers, Stopped
<1> QED  BY <1>1, <1>2, <1>3 DEF State, Status

\* The log counts replies and the panel reads the file, yet for every list of
\* commands, core set and reply they never contradict each other.
THEOREM SpecLogAndPanelAgree == Spec => []LogAndPanelAgree
<1>1. ASSUME ProbeInv
      PROVE  LogAndPanelAgree
  <2>1. \A i \in written : \A file \in files[FileName(targets[i])] :
          file.text = said[i] /\ status[i] = Status(said[i])
    BY <1>1 DEF ProbeInv, Filed
  <2> QED  BY <2>1, StatusAndState DEF LogAndPanelAgree
<1> QED  BY <1>1, ProbeInvariant, PTL

LEMMA TwoOf == \A S : Cardinality(S) >= 2 => \E a, b \in S : a # b
<1> TAKE S
<1> HAVE Cardinality(S) >= 2
<1> SUFFICES ASSUME \A a, b \in S : a = b
             PROVE  FALSE
  OBVIOUS
<1>1. CASE S = {}
  <2>1. Cardinality(S) = 0
    BY <1>1, FS_EmptySet
  <2> QED  BY <2>1
<1>2. CASE S # {}
  <2>1. PICK a \in S : S = {a}
    BY <1>2
  <2>2. Cardinality(S) = 1
    BY <2>1, FS_Singleton
  <2> QED  BY <2>2
<1> QED  BY <1>1, <1>2

\* Two files of members that were not serving are files of two members asked,
\* each of which was so while it was asked: no timeout, refusal, skipped command
\* or half-written file makes an ensemble leaderless (Leaderless).
THEOREM SpecLeaderlessIsNoGuess == Spec => []LeaderlessIsNoGuess
<1>1. ASSUME ProbeInv, NEW e \in Leaderless
      PROVE  \E i, k \in 1..Len(targets) :
               /\ i # k /\ targets[i].ensemble = e /\ targets[k].ensemble = e
               /\ "loading" \in was[At[targets[i].host]] /\ "loading" \in was[At[targets[k].host]]
  <2>0. Voices
    BY <1>1 DEF ProbeInv
  <2>1. Cardinality(FilesOf(e, "not serving")) >= 2
    BY DEF Leaderless
  <2>2. PICK f, g \in FilesOf(e, "not serving") : f # g
    <3> DEFINE S == FilesOf(e, "not serving")
    <3>1. Cardinality(S) >= 2
      BY <2>1
    <3> HIDE DEF S
    <3>2. \E f, g \in S : f # g
      BY <3>1, TwoOf
    <3> QED  BY <3>2 DEF S
  <2>3. ASSUME NEW h \in FilesOf(e, "not serving")
        PROVE  \E i \in Asked : /\ h = FileName(targets[i]) /\ targets[i].ensemble = e
                                /\ "loading" \in was[At[targets[i].host]]
    <3>1. PICK file \in files[h] : file.of.ensemble = e /\ State(file.text) = "not serving"
      BY <2>3 DEF FilesOf
    <3>2. Has(file.text, "not serving")
      BY <3>1 DEF State
    <3>3. h \in Name
      BY <2>3 DEF FilesOf
    <3>4. h = FileName(file.of) /\ "loading" \in was[At[file.of.host]]
      BY <2>0, <3>2, <3>3 DEF Voices
    <3>5. PICK i \in Asked : targets[i] = file.of
      BY <2>0, <3>3 DEF Voices
    <3> QED  BY <3>1, <3>4, <3>5, Zenon
  <2>4. PICK i \in Asked : /\ f = FileName(targets[i]) /\ targets[i].ensemble = e
                           /\ "loading" \in was[At[targets[i].host]]
    BY <2>3
  <2>5. PICK k \in Asked : /\ g = FileName(targets[k]) /\ targets[k].ensemble = e
                           /\ "loading" \in was[At[targets[k].host]]
    BY <2>3
  <2>6. i # k
    BY <2>2, <2>4, <2>5
  <2> QED  BY <2>4, <2>5, <2>6 DEF Asked
<1>2. ProbeInv => LeaderlessIsNoGuess
  BY <1>1 DEF LeaderlessIsNoGuess
<1> QED  BY <1>2, ProbeInvariant, PTL

-----------------------------------------------------------------------------
(* The refinement of KeeperCensus.                                         *)

\* A member that answered a command which only a serving member answers was
\* serving at the time.
Attests ==
  \A i \in DOMAIN said : \A n \in 1..Len(said[i]) :
    said[i][n] = "answer" /\ Commands[n] \notin Quiet => "serving" \in was[At[targets[i].host]]

LEMMA AnswerIsServing ==
  ASSUME Typed, NEW m \in Machine, NEW cmd, cmd \notin Quiet, "answer" \in Replies(m, cmd)
  PROVE  up[m] = "serving"
<1>1. Alive(m, cmd) = "answer"
  BY DEF Replies
<1>2. up[m] \in {"serving", "loading", "down"}
  BY DEF Typed
<1> QED  BY <1>1, <1>2 DEF Alive

LEMMA InitAttests == Init => Attests
<1> SUFFICES ASSUME Init PROVE Attests
  OBVIOUS
<1>1. said = <<>>
  BY DEF Init
<1>2. DOMAIN <<>> = 1..0
  OBVIOUS
<1> QED  BY <1>1, <1>2 DEF Attests

LEMMA NextAttests ==
  ASSUME Typed, Kept, Voices, Attests, [Next]_vars
  PROVE  Attests'
<1>0. /\ targets \in Seq(Target) /\ Len(targets) \in Nat
      /\ DOMAIN was = Machine
  BY DEF Typed
<1>1. CASE MergeNext
  <2>1. said = <<>> /\ said' = said
    BY <1>1 DEF MergeNext, Kept
  <2>2. DOMAIN <<>> = 1..0
    OBVIOUS
  <2> QED  BY <2>1, <2>2 DEF Attests
<1>2. CASE Begin
  <2>1. said' = [i \in 1..Len(targets) |-> <<>>]
    BY <1>2 DEF Begin
  <2>2. \A i \in DOMAIN said' : said'[i] = <<>>
    BY <2>1
  <2>3. Len(<<>>) = 0
    OBVIOUS
  <2>4. \A i \in DOMAIN said' : 1..Len(said'[i]) = {}
    BY <2>2, <2>3
  <2> QED  BY <2>4 DEF Attests
<1>3. CASE UNCHANGED <<targets, said, was>>
  BY <1>3 DEF Attests
<1>4. ASSUME NEW m \in Machine, Turn(m)
      PROVE  Attests'
  <2>1. UNCHANGED <<targets, said>> /\ pc = "ask"
    BY <1>4 DEF Turn
  <2>2. \A o \in Machine : was[o] \subseteq was'[o]
    BY <1>0, <1>4 DEF Turn
  <2>3. \A i \in DOMAIN said : At[targets[i].host] \in Machine
    <3>1. said \in Seq(Seq(Section)) /\ Len(said) = Len(targets)
      BY <2>1 DEF Kept
    <3>2. DOMAIN said = 1..Len(targets)
      BY <3>1
    <3> QED  BY <1>0, <3>2, KeeperAssumption
  <2> QED  BY <2>1, <2>2, <2>3 DEF Attests
<1>5. ASSUME NEW i \in Asked, Ask(i)
      PROVE  Attests'
  <2>0. UNCHANGED <<targets, up, was, pc>> /\ pc = "ask"
    BY <1>5 DEF Ask, machines
  <2>1. PICK reply \in Section :
           /\ said' \in Seq(Seq(Section)) /\ Len(said') = Len(said)
           /\ said[i] \in Seq(Section) /\ Len(said[i]) < Len(Commands)
           /\ said'[i] = Append(said[i], reply)
           /\ \A j \in Asked : j # i => said'[j] = said[j]
           /\ reply \in IF Stopped(said[i]) THEN {"skipped"}
                        ELSE Replies(At[targets[i].host], Commands[Len(said[i]) + 1])
    BY <1>5, AskSays
  <2>2. said \in Seq(Seq(Section)) /\ Len(said) = Len(targets)
    BY <2>0 DEF Kept
  <2>3. DOMAIN said' = Asked /\ DOMAIN said = Asked
    BY <2>1, <2>2 DEF Asked
  <2>4. Len(said'[i]) = Len(said[i]) + 1 /\ Len(said[i]) \in Nat
        /\ said'[i][Len(said[i]) + 1] = reply
        /\ \A n \in 1..Len(said[i]) : said'[i][n] = said[i][n]
    BY <2>1, AppendProperties
  <2>5. At[targets[i].host] \in Machine
    BY <1>0, KeeperAssumption DEF Asked
  <2>6. reply = "answer" /\ Commands[Len(said[i]) + 1] \notin Quiet
          => "serving" \in was[At[targets[i].host]]
    <3> SUFFICES ASSUME reply = "answer", Commands[Len(said[i]) + 1] \notin Quiet
                 PROVE  "serving" \in was[At[targets[i].host]]
      OBVIOUS
    <3>1. "answer" \in Replies(At[targets[i].host], Commands[Len(said[i]) + 1])
      BY <2>1
    <3>2. up[At[targets[i].host]] = "serving"
      BY <2>5, <3>1, AnswerIsServing
    <3> QED  BY <2>5, <3>2 DEF Voices
  <2>7. ASSUME NEW j \in Asked, NEW n \in 1..Len(said'[j]), said'[j][n] = "answer",
               Commands[n] \notin Quiet
        PROVE  "serving" \in was[At[targets[j].host]]
    <3>1. CASE j # i
      BY <2>1, <2>3, <2>7, <3>1 DEF Attests
    <3>2. CASE j = i
      <4>1. n \in 1..Len(said[i]) \/ n = Len(said[i]) + 1
        BY <2>4, <2>7, <3>2
      <4>2. CASE n \in 1..Len(said[i])
        BY <2>3, <2>4, <2>7, <3>2, <4>2 DEF Attests
      <4>3. CASE n = Len(said[i]) + 1
        BY <2>4, <2>6, <2>7, <3>2, <4>3
      <4> QED  BY <4>1, <4>2, <4>3
    <3> QED  BY <3>1, <3>2
  <2> QED  BY <2>0, <2>3, <2>7 DEF Attests
<1>6. \/ MergeNext \/ Begin \/ UNCHANGED <<targets, said, was>>
      \/ \E m \in Machine : Turn(m)
      \/ \E i \in Asked : Ask(i)
  BY DEF Next, Wait, Probe, Write, WriteFails, vars, machines, Asked
<1> QED  BY <1>1, <1>2, <1>3, <1>4, <1>5, <1>6

\* With what the answers attest.
CensusInv == ProbeInv /\ Attests

LEMMA CensusInvariant == Spec => []CensusInv
<1>1. Init => CensusInv
  BY InitProbeInv, InitAttests DEF CensusInv
<1>2. CensusInv /\ [Next]_vars => CensusInv'
  BY NextTyped, NextMerged, NextKept, NextFiled, NextVoices, NextOnce, NextDry, NextAttests
  DEF CensusInv, ProbeInv
<1> QED  BY <1>1, <1>2, PTL DEF Spec

\* A file that reads as serving is of a member that was.
LEMMA ServingIsAttested ==
  ASSUME Attests, Kept, NEW i \in DOMAIN said, State(said[i]) = "serving"
  PROVE  "serving" \in was[At[targets[i].host]]
<1>1. PICK cmd \in {"srvr", "mntr"} : Answers(said[i], cmd)
  BY DEF State
<1>2. PICK n \in 1..Len(said[i]) : Commands[n] = cmd /\ said[i][n] = "answer"
  BY <1>1 DEF Answers
<1>3. cmd \notin Quiet
  BY KeeperAssumption
<1> QED  BY <1>2, <1>3 DEF Attests

\* What the panel says of a member whose file is whole was so at some time
\* while the members were asked.
THEOREM SpecPanelNeverGuesses == Spec => []PanelNeverGuesses
<1>1. ASSUME CensusInv, NEW i \in written, NEW file \in files[FileName(targets[i])]
      PROVE  /\ State(file.text) = "not serving" => "loading" \in was[At[file.of.host]]
             /\ State(file.text) = "serving" => "serving" \in was[At[file.of.host]]
  <2>0. Typed /\ Kept /\ Filed /\ Voices /\ Attests
    BY <1>1 DEF CensusInv, ProbeInv
  <2>1. file.of = targets[i] /\ file.text = said[i]
    BY <1>1, <2>0 DEF Filed
  <2>2. i \in DOMAIN said
    <3>1. pc \notin {"merge", "skipped"} /\ i \in Asked
      BY <1>1, <2>0 DEF Filed, Typed
    <3>2. said \in Seq(Seq(Section)) /\ Len(said) = Len(targets)
      BY <2>0, <3>1 DEF Kept
    <3> QED  BY <3>1, <3>2 DEF Asked
  <2>3. State(said[i]) = "not serving" => Has(said[i], "not serving")
    BY DEF State
  <2>4. State(said[i]) = "not serving" => "loading" \in was[At[targets[i].host]]
    BY <2>0, <2>2, <2>3 DEF Voices
  <2>5. State(said[i]) = "serving" => "serving" \in was[At[targets[i].host]]
    BY <2>0, <2>2, ServingIsAttested
  <2> QED  BY <2>1, <2>4, <2>5
<1>2. CensusInv => PanelNeverGuesses
  BY <1>1 DEF PanelNeverGuesses
<1> QED  BY <1>2, CensusInvariant, PTL

Verdicts == {"ok", "not serving", "partial", "refused", "timeout", "failed"}

Readings == {"serving", "not serving", "probe failed", "unknown"}

LEMMA StateType ==
  ASSUME NEW s
  PROVE  State(s) \in Readings
  BY DEF State, Readings

LEMMA SameEntries ==
  ASSUME UNCHANGED <<targets, status>>
  PROVE  Entries' = Entries
  BY DEF Entries, EntryOf

LEMMA SamePages ==
  ASSUME UNCHANGED files
  PROVE  Pages' = Pages
  BY DEF Pages, PageOf

\* Nothing is recorded before the members are asked.
LEMMA NothingRecorded ==
  ASSUME \A i \in DOMAIN status : status[i] = ""
  PROVE  Entries = [t \in Target |-> {}]
<1>1. \A t \in Target : EntryOf(t) = {}
  BY DEF EntryOf
<1> QED  BY <1>1 DEF Entries

LEMMA AskedAreTargets ==
  ASSUME Typed
  PROVE  targets \in Seq(Target) /\ \A i \in Asked : targets[i] \in Target
  BY DEF Typed, Asked

LEMMA GivenCounts ==
  ASSUME Typed
  PROVE  Len(given) \in Nat /\ next \in 1..(Len(given) + 1)
<1>1. given \in Seq(Target) /\ next \in 1..(Len(given) + 1)
  BY DEF Typed
<1> QED  BY <1>1

LEMMA StatusOfAsked ==
  ASSUME Kept, pc = "ask"
  PROVE  status \in Seq(Statuses) /\ DOMAIN status = Asked
<1>1. status \in Seq(Statuses) /\ Len(status) = Len(targets)
  BY DEF Kept, Statuses
<1>2. DOMAIN status = 1..Len(status)
  BY <1>1
<1> QED  BY <1>1, <1>2 DEF Asked

\* The outcome of one member is the entry of that member and of no other, as no
\* member is asked twice.
LEMMA EntryRecorded ==
  ASSUME Typed, Merged, Kept, NEW i \in Asked, NEW outcome \in Verdicts,
         pc = "ask", status[i] = "",
         targets' = targets, status' = [status EXCEPT ![i] = outcome]
  PROVE  /\ Entries[targets[i]] = {}
         /\ Entries' = [Entries EXCEPT ![targets[i]] = {outcome}]
<1>1. /\ targets[i] \in Target
      /\ \A n, k \in Asked : targets[n] = targets[k] => n = k
  BY AskedAreTargets, Zenon DEF Merged
<1>2. DOMAIN status = Asked
  BY StatusOfAsked, Zenon
<1>3. DOMAIN status' = Asked /\ status'[i] = outcome /\ \A k \in Asked : k # i => status'[k] = status[k]
  BY <1>2
<1>4. outcome # ""
  BY DEF Verdicts
<1>5. {k \in Asked : targets[k] = targets[i]} = {i}
  BY <1>1
<1>6. EntryOf(targets[i]) = {}
  BY <1>2, <1>5 DEF EntryOf
<1>7. EntryOf(targets[i])' = {outcome}
  <2>1. EntryOf(targets[i])' = {status'[n] : n \in {k \in Asked : targets[k] = targets[i]}} \ {""}
    BY <1>3 DEF EntryOf
  <2> QED  BY <1>3, <1>4, <1>5, <2>1
<1>8. ASSUME NEW t \in Target, t # targets[i]
      PROVE  EntryOf(t)' = EntryOf(t)
  <2>1. \A k \in Asked : targets[k] = t => status'[k] = status[k]
    BY <1>3, <1>8
  <2> QED  BY <1>2, <1>3, <2>1 DEF EntryOf
<1>9. Entries' = [t \in Target |-> IF t = targets[i] THEN {outcome} ELSE EntryOf(t)]
  BY <1>7, <1>8 DEF Entries
<1> QED  BY <1>1, <1>6, <1>9 DEF Entries

\* The file of one member is the page of that member and of no other, as no two
\* members share a file name.
LEMMA PageRecorded ==
  ASSUME Typed, Kept, NEW i \in Asked, NEW text,
         files' = [files EXCEPT ![FileName(targets[i])] = {[of |-> targets[i], text |-> text]}]
  PROVE  Pages' = [Pages EXCEPT ![targets[i]] = {State(text)}]
<1>1. targets[i] \in Target
  BY DEF Typed, Asked
<1>2. DOMAIN files = Name /\ FileName(targets[i]) \in Name
  BY <1>1, NameOfTarget DEF Kept
<1>3. ASSUME NEW t \in Target
      PROVE  PageOf(t)' = IF t = targets[i] THEN {State(text)} ELSE PageOf(t)
  <2>0. FileName(t) \in Name
    BY NameOfTarget
  <2>1. PageOf(t)' = {State(file.text) : file \in files'[FileName(t)]}
    BY DEF PageOf
  <2>2. CASE t = targets[i]
    <3>1. files'[FileName(t)] = {[of |-> targets[i], text |-> text]}
      BY <1>2, <2>2
    <3>2. PageOf(t)' = {State(file.text) : file \in {[of |-> targets[i], text |-> text]}}
      BY <2>1, <3>1
    <3>3. {State(file.text) : file \in {[of |-> targets[i], text |-> text]}} = {State(text)}
      OBVIOUS
    <3> QED  BY <2>2, <3>2, <3>3
  <2>3. CASE t # targets[i]
    <3>1. FileName(t) # FileName(targets[i])
      BY <1>1, <2>3, FileNameInjective
    <3>2. files'[FileName(t)] = files[FileName(t)]
      BY <1>2, <2>0, <3>1
    <3> QED  BY <2>1, <2>3, <3>2 DEF PageOf
  <2> QED  BY <2>2, <2>3
<1>4. Pages' = [t \in Target |-> IF t = targets[i] THEN {State(text)} ELSE PageOf(t)]
  BY <1>3 DEF Pages
<1> QED  BY <1>1, <1>4 DEF Pages

\* A file that is written records its member.
LEMMA WriteIsRecord ==
  ASSUME CensusInv, NEW i \in Asked, Write(i)
  PROVE  Census!Record(targets[i])
<1>0. Typed /\ Merged /\ Kept /\ Voices /\ Attests
  BY DEF CensusInv, ProbeInv
<1>1. /\ pc = "ask" /\ status[i] = "" /\ UNCHANGED <<pc, dry, given, targets, was>>
      /\ status' = [status EXCEPT ![i] = Status(said[i])]
      /\ files' = [files EXCEPT ![FileName(targets[i])] = {[of |-> targets[i], text |-> said[i]]}]
  BY DEF Write, machines
<1>2. Status(said[i]) \in Verdicts /\ State(said[i]) \in Readings
  BY StatusType, StateType DEF Verdicts
<1>3. Entries[targets[i]] = {} /\ Entries' = [Entries EXCEPT ![targets[i]] = {Status(said[i])}]
  BY <1>0, <1>1, <1>2, EntryRecorded
<1>4. Pages' = [Pages EXCEPT ![targets[i]] = {State(said[i])}]
  BY <1>0, <1>1, PageRecorded
<1>5. i \in DOMAIN said
  <2>1. said \in Seq(Seq(Section)) /\ Len(said) = Len(targets)
    BY <1>0, <1>1 DEF Kept
  <2> QED  BY <2>1 DEF Asked
<1>6. State(said[i]) = "serving" => Census!WasServing(targets[i])
  BY <1>0, <1>5, ServingIsAttested DEF Census!WasServing
<1>7. State(said[i]) = "not serving" => Census!WasLoading(targets[i])
  <2>1. State(said[i]) = "not serving" => Has(said[i], "not serving")
    BY DEF State
  <2> QED  BY <1>0, <1>5, <2>1 DEF Voices, Census!WasLoading
<1>8. Census!Agree(Status(said[i]), State(said[i]))
  BY StatusAndState DEF Census!Agree
<1>9. State(said[i]) \in Census!Readings(targets[i], Status(said[i]))
  BY <1>2, <1>6, <1>7, <1>8 DEF Census!Readings, Census!Reading, Readings
<1>10. Status(said[i]) \in Census!Verdict
  BY <1>2 DEF Census!Verdict, Verdicts
<1>11. StageOf(pc) = "asking" /\ StageOf(pc)' = StageOf(pc) /\ Members' = Members /\ UNCHANGED <<dry, was>>
  BY <1>1 DEF StageOf, Members
<1> QED  BY <1>3, <1>4, <1>9, <1>10, <1>11 DEF Census!Record

\* One that is not loses it.
LEMMA FailureIsLoss ==
  ASSUME CensusInv, NEW i \in Asked, WriteFails(i)
  PROVE  Census!Lose(targets[i])
<1>0. Typed /\ Merged /\ Kept /\ Voices
  BY DEF CensusInv, ProbeInv
<1>1. /\ pc = "ask" /\ status[i] = "" /\ UNCHANGED <<pc, dry, given, targets, was>>
      /\ status' = [status EXCEPT ![i] = "failed"]
  BY DEF WriteFails, machines
<1>2. "failed" \in Verdicts
  BY DEF Verdicts
<1>3. Entries[targets[i]] = {} /\ Entries' = [Entries EXCEPT ![targets[i]] = {"failed"}]
  BY <1>0, <1>1, <1>2, EntryRecorded
<1>4. StageOf(pc) = "asking" /\ StageOf(pc)' = StageOf(pc) /\ Members' = Members /\ UNCHANGED <<dry, was>>
  BY <1>1 DEF StageOf, Members
<1>5. CASE UNCHANGED files
  <2>1. Pages' = Pages
    BY <1>5, SamePages
  <2> QED  BY <1>3, <1>4, <2>1 DEF Census!Lose
<1>6. CASE ~UNCHANGED files
  <2>1. PICK left \in Remains(said[i]) :
          files' = [files EXCEPT ![FileName(targets[i])] = {[of |-> targets[i], text |-> left]}]
    BY <1>6 DEF WriteFails
  <2>2. Pages' = [Pages EXCEPT ![targets[i]] = {State(left)}]
    BY <1>0, <2>1, PageRecorded
  <2>3. said[i] \in Seq(Section) /\ i \in DOMAIN said
    <3>1. said \in Seq(Seq(Section)) /\ Len(said) = Len(targets)
      BY <1>0, <1>1 DEF Kept
    <3> QED  BY <3>1 DEF Asked
  <2>4. State(left) = "not serving" => Census!WasLoading(targets[i])
    <3>1. State(left) = "not serving" => Has(left, "not serving")
      BY DEF State
    <3>2. Has(left, "not serving") => Has(said[i], "not serving")
      BY <2>3, RemainsType
    <3> QED  BY <1>0, <2>3, <3>1, <3>2 DEF Voices, Census!WasLoading
  <2>5. State(left) \in Census!Reading
    BY StateType DEF Census!Reading, Readings
  <2> QED  BY <1>3, <1>4, <2>2, <2>4, <2>5 DEF Census!Lose
<1> QED  BY <1>5, <1>6

LEMMA BeginIsBegin ==
  ASSUME CensusInv, Begin
  PROVE  Census!Begin
<1>0. Typed /\ Merged /\ Kept
  BY DEF CensusInv, ProbeInv
<1>1. /\ pc = "merge" /\ next > Len(given) /\ UNCHANGED <<dry, given, targets, files, was>>
      /\ status' = [i \in 1..Len(targets) |-> ""]
      /\ pc' \in {"none", "listed", "failed", "ask"}
      /\ pc' = "ask" => targets # <<>> /\ ~dry
  BY DEF Begin, machines
<1>2. Entries = [t \in Target |-> {}]
  <2>1. status = <<>>
    BY <1>0, <1>1 DEF Kept
  <2>2. DOMAIN <<>> = 1..0
    OBVIOUS
  <2>3. \A i \in DOMAIN status : status[i] = ""
    <3>1. DOMAIN status = {}
      BY <2>1, <2>2
    <3> QED  BY <3>1
  <2> QED  BY <2>3, NothingRecorded
<1>3. Entries' = [t \in Target |-> {}]
  <2>1. \A t \in Target : EntryOf(t)' = {}
    BY <1>1 DEF EntryOf
  <2> QED  BY <2>1 DEF Entries
<1>4. Pages' = Pages
  BY <1>1, SamePages
<1>5. pc' = "ask" => Members # {}
  <2> SUFFICES ASSUME pc' = "ask" PROVE Members # {}
    OBVIOUS
  <2>0. targets \in Seq(Target) /\ targets # <<>>
    BY <1>0, <1>1, AskedAreTargets
  <2>1. next = Len(given) + 1 /\ Len(given) \in Nat
    <3>1. Len(given) \in Nat /\ next \in 1..(Len(given) + 1) /\ next > Len(given)
      BY <1>0, <1>1, GivenCounts
    <3> QED  BY <3>1
  <2>2. 1 \in Asked
    BY <2>0 DEF Asked
  <2>3. PICK k \in 1..(next - 1) : targets[1] = given[k]
    BY <1>0, <2>2 DEF Merged
  <2>4. k \in 1..Len(given)
    BY <2>1, <2>3
  <2> QED  BY <2>4 DEF Members
<1>6. StageOf(pc) = "listing"
  BY <1>1 DEF StageOf
<1>7. StageOf(pc)' \in {"over", "asking"} /\ (StageOf(pc)' = "asking" => pc' = "ask")
  BY <1>1 DEF StageOf
<1>8. StageOf(pc)' \in IF dry \/ Members = {} THEN {"over"} ELSE {"over", "asking"}
  BY <1>1, <1>5, <1>7
<1>9. UNCHANGED <<Members, dry, Entries, Pages, was>>
  BY <1>1, <1>2, <1>3, <1>4 DEF Members
<1> QED  BY <1>6, <1>8, <1>9 DEF Census!Begin

LEMMA WaitConcludes ==
  ASSUME CensusInv, Wait
  PROVE  Census!Conclude
<1>0. Typed /\ Merged /\ Kept
  BY DEF CensusInv, ProbeInv
<1>1. /\ pc = "ask" /\ pc' = "recorded" /\ UNCHANGED <<dry, given, targets, status, files, was>>
      /\ \A i \in Asked : status[i] # ""
  BY DEF Wait, machines, Asked
<1>2. ASSUME NEW t \in Members
      PROVE  Entries[t] # {}
  <2>1. PICK k \in 1..Len(given) : t = given[k]
    BY DEF Members
  <2>2. next - 1 = Len(given)
    <3>1. next = Len(given) + 1
      BY <1>0, <1>1 DEF Merged
    <3> QED  BY <1>0, <3>1, GivenCounts
  <2>3. PICK i \in Asked : targets[i] = t
    BY <1>0, <2>1, <2>2 DEF Merged
  <2>4. DOMAIN status = Asked
    BY <1>0, <1>1, StatusOfAsked
  <2>5. status[i] \in EntryOf(t)
    BY <1>1, <2>3, <2>4 DEF EntryOf
  <2>6. t \in Target
    BY <1>0, <2>3, AskedAreTargets
  <2> QED  BY <2>5, <2>6 DEF Entries
<1>3. StageOf(pc) = "asking" /\ StageOf(pc)' = "recorded"
  BY <1>1 DEF StageOf
<1>4. UNCHANGED <<Members, dry, Entries, Pages, was>>
  BY <1>1, SameEntries, SamePages DEF Members
<1> QED  BY <1>2, <1>3, <1>4 DEF Census!Conclude

LEMMA CensusStep == CensusInv /\ [Next]_vars => [Census!Next]_(Census!vars)
<1> SUFFICES ASSUME CensusInv, [Next]_vars
             PROVE  Census!Next \/ UNCHANGED <<Members, dry, StageOf(pc), Entries, Pages, was>>
  BY DEF Census!vars
<1>0. Typed /\ Merged /\ Kept
  BY DEF CensusInv, ProbeInv
<1>1. CASE MergeNext
  <2>1. /\ pc = "merge" /\ UNCHANGED <<pc, dry, given, status, files, was>>
    BY <1>1 DEF MergeNext, machines
  <2>2. status = <<>> /\ DOMAIN <<>> = {}
    <3>1. status = <<>>
      BY <1>0, <2>1 DEF Kept
    <3>2. DOMAIN <<>> = 1..0
      OBVIOUS
    <3> QED  BY <3>1, <3>2
  <2>3. Entries = [t \in Target |-> {}]
    BY <2>2, NothingRecorded
  <2>4. Entries' = [t \in Target |-> {}]
    <3>1. \A t \in Target : EntryOf(t)' = {}
      BY <2>1, <2>2 DEF EntryOf
    <3> QED  BY <3>1 DEF Entries
  <2> QED  BY <2>1, <2>3, <2>4, SamePages DEF Members, StageOf
<1>2. CASE Begin
  BY <1>2, BeginIsBegin DEF Census!Next
<1>3. CASE Wait
  BY <1>3, WaitConcludes DEF Census!Next
<1>4. ASSUME NEW i \in Asked, Probe(i)
      PROVE  Census!Next \/ UNCHANGED <<Members, dry, StageOf(pc), Entries, Pages, was>>
  <2>1. CASE Ask(i)
    <3>1. UNCHANGED <<pc, dry, given, targets, status, files, was>>
      BY <2>1 DEF Ask, machines
    <3> QED  BY <3>1, SameEntries, SamePages DEF Members, StageOf
  <2>2. targets[i] \in Members
    <3>1. PICK k \in 1..(next - 1) : targets[i] = given[k]
      BY <1>0 DEF Merged
    <3>2. k \in 1..Len(given)
      BY <1>0, <3>1 DEF Typed
    <3> QED  BY <3>1, <3>2 DEF Members
  <2>3. CASE Write(i)
    BY <2>2, <2>3, WriteIsRecord DEF Census!Next
  <2>4. CASE WriteFails(i)
    BY <2>2, <2>4, FailureIsLoss DEF Census!Next
  <2> QED  BY <1>4, <2>1, <2>3, <2>4 DEF Probe
<1>5. ASSUME NEW m \in Machine, Turn(m)
      PROVE  Census!Next
  <2>1. UNCHANGED <<pc, dry, given, targets, status, files>> /\ pc = "ask"
    BY <1>5 DEF Turn
  <2>2. PICK d \in {"serving", "loading", "down"} : was' = [was EXCEPT ![m] = @ \cup {d}]
    BY <1>5 DEF Turn
  <2>3. StageOf(pc) = "asking"
    BY <2>1 DEF StageOf
  <2>4. UNCHANGED <<Members, dry, StageOf(pc), Entries, Pages>>
    BY <2>1, SameEntries, SamePages DEF Members, StageOf
  <2>5. Census!Change(m)
    BY <2>2, <2>3, <2>4 DEF Census!Change, Census!Doing
  <2> QED  BY <2>5 DEF Census!Next
<1>6. CASE UNCHANGED vars
  <2>1. UNCHANGED <<pc, dry, given, targets, status, files, was>>
    BY <1>6 DEF vars, machines
  <2> QED  BY <2>1, SameEntries, SamePages DEF Members, StageOf
<1> QED  BY <1>1, <1>2, <1>3, <1>4, <1>5, <1>6 DEF Next, Asked

LEMMA CensusInit == Init => Census!Init
<1> SUFFICES ASSUME Init PROVE Census!Init
  OBVIOUS
<1>1. /\ pc \in {"skipped", "merge"} /\ dry \in BOOLEAN /\ status = <<>>
      /\ files = [f \in Name |-> {}]
      /\ up \in [Machine -> {"serving", "loading", "down"}] /\ was = [m \in Machine |-> {up[m]}]
  BY DEF Init
<1>2. Members \subseteq Target
  <2>1. given \in Seq(Target)
    BY GivenType
  <2> QED  BY <2>1 DEF Members
<1>3. StageOf(pc) \in {"listing", "over"}
  BY <1>1 DEF StageOf
<1>4. Entries = [t \in Target |-> {}]
  <2>1. DOMAIN <<>> = 1..0
    OBVIOUS
  <2> QED  BY <1>1, <2>1, NothingRecorded
<1>5. Pages = [t \in Target |-> {}]
  <2>1. \A t \in Target : PageOf(t) = {}
    BY <1>1, NameOfTarget DEF PageOf
  <2> QED  BY <2>1 DEF Pages
<1>6. was \in [Machine -> {{d} : d \in Census!Doing}]
  BY <1>1 DEF Census!Doing
<1> QED  BY <1>1, <1>2, <1>3, <1>4, <1>5, <1>6 DEF Census!Init

\* The probe is a census, for any number of members, machines and ensembles and
\* in every order of the goroutines (Collect, collectOne).
THEOREM SpecTakesCensus == Spec => TakesCensus
<1> QED  BY CensusInvariant, CensusInit, CensusStep, PTL DEF Spec, TakesCensus, Census!Spec
=============================================================================
