------------------------- MODULE Collection_proofs -------------------------
(***************************************************************************)
(* Theorems about Collection, for every catalogue of collectors, every     *)
(* invocation and every value of the timeouts and budgets.                 *)
(***************************************************************************)
EXTENDS Collection, TLAPS

-----------------------------------------------------------------------------
(* The watchdog's and the client's operators.                              *)

\* Every operator of the watchdog returns a watchdog.
LEMMA WatchdogType ==
  ASSUME NEW Name, NEW w \in WatchdogOver(Name), NEW n \in Name, NEW t \in Nat,
         NEW d \in Nat, NEW o \in BOOLEAN
  PROVE  /\ TripNow(w, t) \in WatchdogOver(Name)
         /\ Trip(w, t) \in WatchdogOver(Name)
         /\ Observe(w, n, d, o, t) \in WatchdogOver(Name)
         /\ Start(w, t) \in WatchdogOver(Name)
<1>1. TripNow(w, t) \in WatchdogOver(Name)
  BY DEF TripNow, WatchdogOver
<1>2. Trip(w, t) \in WatchdogOver(Name)
  BY <1>1 DEF Trip
<1>3. [w EXCEPT !.lastSlow = IF d >= SlowQuery THEN n ELSE NoName] \in WatchdogOver(Name)
  BY DEF WatchdogOver
<1>4. Observe(w, n, d, o, t) \in WatchdogOver(Name)
  BY <1>1, <1>3 DEF Observe
<1>5. Start(w, t) \in WatchdogOver(Name)
  BY DEF Start, WatchdogOver
<1> QED BY <1>1, <1>2, <1>4, <1>5

\* Every operator of the client returns a client.
LEMMA SetQueryTimeoutType ==
  ASSUME NEW Setting, NEW c \in ClientOver(Setting), NEW d \in Nat
  PROVE  SetQueryTimeout(c, d) \in ClientOver(Setting)
<1> DEFINE http == IF d = 0 THEN 0 ELSE d + c.margin
<1>1. http \in Nat
  BY DEF ClientOver
<1>2. [c EXCEPT !.queryTimeout = d, !.httpTimeout = http] \in ClientOver(Setting)
  <2> HIDE DEF http
  <2> QED BY <1>1 DEF ClientOver
<1> QED BY <1>2 DEF SetQueryTimeout

\* SetSetting and RemoveSetting, with a setting of the gentle list, return one too.
LEMMA SettingsType ==
  ASSUME NEW Setting, NEW c \in ClientOver(Setting), NEW s \in Setting
  PROVE  /\ SetSetting(c, s) \in ClientOver(Setting)
         /\ RemoveSetting(c, s) \in ClientOver(Setting)
BY DEF SetSetting, RemoveSetting, ClientOver

\* What SetQueryTimeout changes, field by field.
LEMMA SetQueryTimeoutFields ==
  ASSUME NEW Setting, NEW c \in ClientOver(Setting), NEW d \in Nat
  PROVE  /\ SetQueryTimeout(c, d).queryTimeout = d
         /\ SetQueryTimeout(c, d).margin = c.margin
         /\ SetQueryTimeout(c, d).httpTimeout = IF d = 0 THEN 0 ELSE d + c.margin
         /\ SetQueryTimeout(c, d).settings = c.settings
BY DEF SetQueryTimeout, ClientOver

\* What Hasten does to the client: it waits EssentialMargin longer than the
\* server, whose limit is the essential one unless the operator chose it.
LEMMA HastenFacts ==
  ASSUME NEW c \in ClientOver(GentleSetting), cfg \in ConfigType
  PROVE  /\ Hasten(c) \in ClientOver(GentleSetting)
         /\ Hasten(c).queryTimeout =
              IF cfg.timeoutExplicit THEN c.queryTimeout ELSE EssentialQueryTimeout
         /\ Hasten(c).httpTimeout =
              IF Hasten(c).queryTimeout = 0 THEN 0
              ELSE Hasten(c).queryTimeout + EssentialMargin
         /\ Hasten(c).settings = c.settings
<1> USE CollectionAssumption
<1> DEFINE k == [c EXCEPT !.margin = EssentialMargin]
           m == SetQueryTimeout(k, c.queryTimeout)
           h == SetQueryTimeout(m, EssentialQueryTimeout)
<1>1. k \in ClientOver(GentleSetting) /\ k.margin = EssentialMargin
      /\ k.settings = c.settings /\ c.queryTimeout \in Nat
  BY DEF ClientOver
<1>2. /\ m \in ClientOver(GentleSetting)
      /\ m.queryTimeout = c.queryTimeout
      /\ m.margin = EssentialMargin
      /\ m.httpTimeout = IF c.queryTimeout = 0 THEN 0 ELSE c.queryTimeout + EssentialMargin
      /\ m.settings = c.settings
  <2> HIDE DEF k
  <2> QED BY <1>1, SetQueryTimeoutType, SetQueryTimeoutFields, ZenonT(40)
<1>3. /\ h \in ClientOver(GentleSetting)
      /\ h.queryTimeout = EssentialQueryTimeout
      /\ h.httpTimeout = EssentialQueryTimeout + EssentialMargin
      /\ h.settings = c.settings
  <2> HIDE DEF m
  <2> QED BY <1>2, SetQueryTimeoutType, SetQueryTimeoutFields
<1>4. Hasten(c) = IF cfg.timeoutExplicit THEN m ELSE h
  BY DEF Hasten, SetClientMargin
<1> HIDE DEF k, m, h
<1> QED BY <1>2, <1>3, <1>4

-----------------------------------------------------------------------------
(* Type correctness.                                                       *)

\* A decision is a decision, whatever was requested and whatever was probed.
LEMMA DecideType ==
  ASSUME NEW r \in Mode, NEW s \in Signals, NEW f \in BOOLEAN
  PROVE  /\ Decide(r, s, f) \in DecisionType
         /\ Decide(r, s, f).mode # "auto"
         /\ r = "full" => Decide(r, s, f).mode = "full"
<1>1. DecidedMode(r, Reasons(s, f)) \in {"essential", "full"}
  BY DEF DecidedMode, Mode
<1>2. r = "full" => DecidedMode(r, Reasons(s, f)) = "full"
  BY DEF DecidedMode
<1>3. Reasons(s, f) \in SUBSET Reason
  BY DEF Reasons, Reason
<1> QED BY <1>1, <1>2, <1>3 DEF Decide, DecisionType, Mode

\* WithLimits keeps the signals signals.
LEMMA WithLimitsType ==
  ASSUME NEW s \in Signals, NEW a \in BOOLEAN, NEW q \in Nat, NEW l \in Nat,
         NEW ratio \in Nat, NEW ram \in Nat
  PROVE  WithLimits(s, a, q, l, ratio, ram) \in Signals
<1> DEFINE tenths == IF ratio = 0 THEN 9 ELSE ratio
           m == IF l = 0 THEN (tenths * ram) \div 10 ELSE l
<1>1. m \in Nat
  <2>1. tenths * ram \in Nat
    OBVIOUS
  <2> HIDE DEF tenths
  <2> QED BY <2>1
<1>2. [s EXCEPT !.maxConcurrent = q, !.memoryLimit = m] \in Signals
  <2> HIDE DEF m
  <2> QED BY <1>1 DEF Signals
<1> QED BY <1>2 DEF WithLimits

\* Waits is a set of durations.
LEMMA WaitsType ==
  ASSUME NEW l \in Nat
  PROVE  /\ Waits(l) \subseteq Nat
         /\ \A d \in Waits(l) : l > 0 => d <= l
BY CollectionAssumption DEF Waits

\* What Observe and the callback do to everything they touch.
LEMMA ObserveRunType ==
  ASSUME TypeOK, NEW c \in Collector, NEW d \in Nat, NEW o \in BOOLEAN, NEW t \in Nat,
         ObserveRun(c, d, o, t)
  PROVE  /\ watch' \in WatchdogOver(Collector)
         /\ ran' \in Seq(Run)
         /\ stage' \in Stage
         /\ gentle' \in 0..Len(GentleSettings)
         /\ client' \in ClientOver(GentleSetting)
<1> USE CollectionAssumption, CollectModeAssumption DEF ObserveRun
<1>1. watch' \in WatchdogOver(Collector)
  BY WatchdogType DEF TypeOK
<1>2. ran' \in Seq(Run)
  <2>1. [slow |-> d >= SlowQuery, timedOut |-> o] \in Run
    BY DEF Run
  <2> QED BY <2>1 DEF TypeOK
<1>3. stage' \in Stage
  BY DEF TypeOK, Stage
<1>4. gentle' \in 0..Len(GentleSettings)
  BY DEF TypeOK
<1>5. client' \in ClientOver(GentleSetting)
  BY HastenFacts DEF TypeOK
<1> QED BY <1>1, <1>2, <1>3, <1>4, <1>5

\* The initial client, with the timeout of the flags.
LEMMA InitialClient ==
  ASSUME cfg \in ConfigType
  PROVE  LET c == SetQueryTimeout(NewClickHouseClient, cfg.queryTimeout) IN
         /\ c \in ClientOver(GentleSetting)
         /\ c.queryTimeout = cfg.queryTimeout
         /\ c.httpTimeout = IF cfg.queryTimeout = 0 THEN 0 ELSE FullLimit
         /\ c.settings = {}
<1>1. /\ NewClickHouseClient \in ClientOver(GentleSetting)
      /\ NewClickHouseClient.margin = ClientTimeoutMargin
      /\ NewClickHouseClient.settings = {}
  BY ClientAssumption DEF NewClickHouseClient, ClientOver
<1>2. cfg.queryTimeout \in Nat
  BY DEF ConfigType
<1> QED BY <1>1, <1>2, SetQueryTimeoutType, SetQueryTimeoutFields DEF FullLimit

\* The initial state is well typed.
LEMMA InitType == Init => TypeOK
<1> USE CollectionAssumption DEF Init
<1> SUFFICES ASSUME Init PROVE TypeOK
  OBVIOUS
<1>1. cfg \in ConfigType
  OBVIOUS
<1>2. decision \in DecisionType
  <2>1. ZeroSignals \in Signals
    BY DEF ZeroSignals, Signals
  <2> QED BY <1>1, <2>1, DecideType DEF ConfigType
<1>3. watch \in WatchdogOver(Collector)
  BY <1>1 DEF ConfigType, NewWatchdog, WatchdogOver, NoName
<1>4. client \in ClientOver(GentleSetting)
  BY <1>1, InitialClient
<1>5. gentle \in 0..Len(GentleSettings)
  OBVIOUS
<1>6. inflight \in Request
  BY DEF Idle, Request
<1>7. later \in Seq(Later)
  BY <1>1 DEF ConfigType
<1>8. \A c \in Collector : status[c] = "running" <=> inflight.on = c
  BY DEF Idle, NoName
<1>9. /\ stage \in Stage /\ now \in Nat \ {0}
      /\ status \in [Collector -> Status] /\ file \in [Collector -> File]
      /\ ran \in Seq(Run)
  BY DEF Stage, Status, File
<1> QED BY <1>1, <1>2, <1>3, <1>4, <1>5, <1>6, <1>7, <1>8, <1>9 DEF TypeOK

\* Recording an entry other than "running" for a collector that is not on
\* the wire keeps the log typed and the wire unchanged.
LEMMA RecordType ==
  ASSUME TypeOK, NEW c \in Collector, NEW s \in Status, s # "running",
         inflight = Idle, inflight' = Idle, Record(c, s)
  PROVE  /\ status' \in [Collector -> Status]
         /\ inflight' \in Request
         /\ \A b \in Collector : status'[b] = "running" <=> inflight'.on = b
<1> USE CollectionAssumption
<1>1. status' \in [Collector -> Status]
  BY DEF TypeOK, Record
<1>2. \A b \in Collector : status[b] # "running"
  BY DEF TypeOK, Idle, NoName
<1>3. \A b \in Collector : status'[b] # "running"
  BY <1>2 DEF TypeOK, Record
<1> QED BY <1>1, <1>3 DEF TypeOK, Idle, NoName

\* Every step keeps the state well typed.
LEMMA StepType == TypeOK /\ [Next]_vars => TypeOK'
<1> SUFFICES ASSUME TypeOK, [Next]_vars PROVE TypeOK'
  OBVIOUS
<1> USE CollectionAssumption
<1>0. cfg \in ConfigType
  BY DEF TypeOK
<1>1. CASE Probe
  <2>1. PICK r \in ProbeReplies, d \in Pauses :
          /\ now' = now + d
          /\ decision' = Decide(cfg.requested,
                                WithLimits(r.signals, r.limits, r.maxConcurrent,
                                           r.memoryLimit, r.ratio, r.ram), r.failed)
    BY <1>1 DEF Probe
  <2>2. decision' \in DecisionType
    BY <1>0, <2>1, WithLimitsType, DecideType DEF ConfigType, ProbeReplyType
  <2>3. now' \in Nat \ {0}
    BY <2>1 DEF TypeOK
  <2>4. watch' \in WatchdogOver(Collector)
    BY <1>0, <1>1, CollectModeAssumption
    DEF Probe, SetupWatchdog, Locked, WithTripBudget, NewWatchdog, WatchdogOver, ConfigType
  <2>5. client' \in ClientOver(GentleSetting)
    BY <1>0, <1>1, HastenFacts DEF Probe, TypeOK
  <2>6. stage' \in Stage
    BY <1>1 DEF Probe, Stage
  <2> QED BY <1>1, <2>2, <2>3, <2>4, <2>5, <2>6 DEF Probe, TypeOK
<1>2. CASE TrySetting
  <2> DEFINE s == GentleSettings[gentle + 1]
  <2>1. s \in GentleSetting /\ gentle' \in 0..Len(GentleSettings)
    <3>1. Len(GentleSettings) \in Nat
      OBVIOUS
    <3>2. gentle + 1 \in 1..Len(GentleSettings) /\ gentle' = gentle + 1
      BY <1>2, <3>1 DEF TrySetting, TypeOK
    <3> QED BY <3>1, <3>2 DEF GentleSetting
  <2>2. now' \in Nat \ {0}
    BY <1>2, WaitsType DEF TrySetting, TypeOK, ClientOver
  <2>3. client' \in ClientOver(GentleSetting)
    BY <1>2, <2>1, SettingsType DEF TrySetting, TypeOK
  <2> QED BY <1>2, <2>1, <2>2, <2>3 DEF TrySetting, TypeOK
<1>3. CASE EssentialApplied
  <2>1. watch' \in WatchdogOver(Collector)
    <3>1. Trip(watch, now) \in WatchdogOver(Collector)
      BY DEF TypeOK, Trip, TripNow, WatchdogOver
    <3> QED BY <1>3, <3>1 DEF EssentialApplied
  <2>2. stage' \in Stage
    BY <1>3 DEF EssentialApplied, Stage
  <2> QED BY <1>3, <2>1, <2>2 DEF EssentialApplied, TypeOK
<1>4. CASE StartClock
  <2>1. now' \in Nat \ {0} /\ watch' = Start(watch, now')
    BY <1>4 DEF StartClock, TypeOK
  <2>2. watch' \in WatchdogOver(Collector)
    BY <2>1 DEF TypeOK, Start, WatchdogOver
  <2>3. stage' \in Stage
    BY <1>4 DEF StartClock, Stage
  <2> QED BY <1>4, <2>1, <2>2, <2>3 DEF StartClock, TypeOK
<1>5. ASSUME NEW c \in Collector, SkipOverBudget(c) \/ SkipNoKeeper(c) \/ SkipFullTier(c)
      PROVE  TypeOK'
  <2>1. PICK s \in Status : s # "running" /\ Record(c, s)
    BY <1>5 DEF SkipOverBudget, SkipNoKeeper, SkipFullTier, Status
  <2>2. inflight = Idle /\ inflight' = Idle
    BY <1>5 DEF SkipOverBudget, SkipNoKeeper, SkipFullTier, IsNext
  <2>3. UNCHANGED <<cfg, stage, now, decision, watch, client, gentle, file, ran, later>>
    BY <1>5 DEF SkipOverBudget, SkipNoKeeper, SkipFullTier
  <2> QED BY <2>1, <2>2, <2>3, RecordType DEF TypeOK
<1>6. ASSUME NEW c \in Collector, FailLocally(c) \/ EmptyFile(c)
      PROVE  TypeOK'
  <2>1. PICK s \in Status : s # "running" /\ Record(c, s)
    BY <1>6 DEF FailLocally, EmptyFile, Status
  <2>2. inflight = Idle /\ inflight' = Idle
    BY <1>6 DEF FailLocally, EmptyFile, MayExecute, IsNext
  <2>3. UNCHANGED <<cfg, now, decision, file, later>> /\ ObserveRun(c, 0, FALSE, now)
    BY <1>6 DEF FailLocally, EmptyFile
  <2>4. now \in Nat
    BY DEF TypeOK
  <2> QED BY <2>1, <2>2, <2>3, <2>4, RecordType, ObserveRunType DEF TypeOK
<1>7. ASSUME NEW c \in Collector, Send(c)
      PROVE  TypeOK'
  <2>1. /\ status' = [status EXCEPT ![c] = "running"]
        /\ inflight' = [on |-> c, limit |-> client.httpTimeout,
                        server |-> client.queryTimeout, capped |-> watch.tripped]
        /\ inflight = Idle
    BY <1>7 DEF Send, MayExecute, IsNext, Record
  <2>2. inflight' \in Request /\ inflight'.on = c
    BY <2>1 DEF TypeOK, Request, ClientOver, WatchdogOver
  <2>3. status' \in [Collector -> Status]
    BY <2>1 DEF TypeOK, Status
  <2>4. \A b \in Collector : status[b] # "running"
    BY <2>1 DEF TypeOK, Idle, NoName
  <2>5. \A b \in Collector : status'[b] = "running" <=> inflight'.on = b
    BY <2>1, <2>2, <2>4 DEF TypeOK
  <2> QED BY <1>7, <2>2, <2>3, <2>5 DEF Send, TypeOK
<1>8. ASSUME NEW c \in Collector, Answer(c)
      PROVE  TypeOK'
  <2>1. PICK d \in Waits(inflight.limit), o \in Outcome :
          /\ now' = now + d
          /\ Record(c, Entry(o))
          /\ file' \in CASE o = "ok"      -> {[file EXCEPT ![c] = "complete"]}
                         [] o = "unsaved" -> {file, [file EXCEPT ![c] = "partial"]}
                         [] OTHER         -> {file}
          /\ ObserveRun(c, d, o = "timeout", now + d)
    BY <1>8 DEF Answer
  <2>2. d \in Nat /\ now + d \in Nat /\ now' \in Nat \ {0}
    BY <2>1, WaitsType DEF TypeOK, Request
  <2>3. file' \in [Collector -> File]
    <3>1. file' \in {file, [file EXCEPT ![c] = "complete"], [file EXCEPT ![c] = "partial"]}
      BY <2>1
    <3> QED BY <3>1 DEF TypeOK, File
  <2>4. inflight' = Idle /\ inflight.on = c
    BY <1>8 DEF Answer
  <2>5. status' \in [Collector -> Status]
    BY <2>1 DEF TypeOK, Record, Entry, Status
  <2>6. \A b \in Collector : status'[b] # "running"
    BY <2>1, <2>4 DEF TypeOK, Record, Entry
  <2>7. inflight' \in Request /\ \A b \in Collector : inflight'.on # b
    BY <2>4 DEF Idle, Request, NoName
  <2>8. UNCHANGED <<cfg, decision, later>>
    BY <1>8 DEF Answer
  <2>9. /\ watch' \in WatchdogOver(Collector) /\ ran' \in Seq(Run) /\ stage' \in Stage
        /\ gentle' \in 0..Len(GentleSettings) /\ client' \in ClientOver(GentleSetting)
    BY <2>1, <2>2, ObserveRunType
  <2> QED BY <2>2, <2>3, <2>5, <2>6, <2>7, <2>8, <2>9 DEF TypeOK
<1>9. CASE CollectorsDone \/ Finish
  BY <1>9 DEF CollectorsDone, Finish, TypeOK, Stage
<1>10. CASE SendLater
  <2>1. now' \in Nat \ {0}
    BY <1>10, WaitsType DEF SendLater, TypeOK, ClientOver
  <2> QED BY <1>10, <2>1 DEF SendLater, TypeOK
<1>11. CASE SkipLater
  BY <1>11 DEF SkipLater, TypeOK
<1>12. CASE UNCHANGED vars
  BY <1>12 DEF vars, TypeOK
<1> QED BY <1>1, <1>2, <1>3, <1>4, <1>5, <1>6, <1>7, <1>8, <1>9, <1>10, <1>11, <1>12
        DEF Next, Main, Execute, Exited

\* Every reachable state of a collection is well typed; with it, a request
\* on the wire belongs to exactly the collector that is running.
THEOREM TypeCorrect == Spec => []TypeOK
BY InitType, StepType, PTL DEF Spec
-----------------------------------------------------------------------------
(* The inductive invariant.  None of the safety properties is inductive:   *)
(* each needs to know which phase of the run the client, the watchdog and  *)
(* the wire belong to, and the parts below say so.                         *)

\* The client waits as an essential run does from the call of applyEssential
\* on, which ends by tripping the watchdog or was started by its trip.
Hastened == stage = "applying" \/ watch.tripped

AllPending == \A c \in Collector : status[c] = "pending"

\* Which timeouts the client has, and where its settings come from.
ClientInv ==
  LET q == IF Hastened /\ ~cfg.timeoutExplicit THEN EssentialQueryTimeout
                                               ELSE cfg.queryTimeout
      m == IF Hastened THEN EssentialMargin ELSE ClientTimeoutMargin
  IN  /\ client.queryTimeout = q
      /\ client.httpTimeout = IF q = 0 THEN 0 ELSE q + m
      /\ ~Hastened => client.settings = {}
      /\ client.settings \cap cfg.refused = {}

\* The watchdog of a full collection is locked, and a locked one never
\* starts applyEssential.
LockInv ==
  /\ stage # "probe" => (watch.locked <=> cfg.requested = "full")
  /\ watch.locked => ~Hastened
  /\ cfg.requested = "full" =>
       /\ decision.mode = "full" \/ stage = "probe"
       /\ ~Hastened
       /\ \A c \in Collector : status[c] # "essential run"

\* Before the clock starts no collector has run and nothing has tripped the
\* watchdog but the decision.
PhaseInv ==
  /\ stage = "probe" => ~watch.tripped
  /\ stage \in {"probe", "armed"} \/ (stage = "applying" /\ ~watch.tripped) => AllPending
  /\ stage = "probe" \/ (stage = "applying" /\ ~watch.tripped) => watch.started = 0
  /\ stage = "applying" /\ watch.tripped => ~AllPending
  /\ stage = "collect" /\ AllPending => watch.started = now

\* What is on the wire was sent with what the client and the watchdog still
\* are, by a run that was within its budget and still is.
WireInv ==
  inflight # Idle =>
    /\ stage = "collect"
    /\ inflight.limit = client.httpTimeout
    /\ inflight.server = client.queryTimeout
    /\ inflight.capped = watch.tripped
    /\ ~OverBudget(watch, now)

\* By how much the budget is overrun: one request, and a SELECT 1 for every
\* setting applyEssential has tried since.
Tried == IF stage = "applying" THEN gentle ELSE Len(GentleSettings)

Overrun == FullLimit + Tried * EssentialLimit

BudgetInv ==
  /\ cfg.queryTimeout > 0
  /\ stage \in {"applying", "collect"}
  /\ watch.budget > 0 /\ watch.started > 0
  => now <= watch.started + watch.budget + Overrun

\* No running collector waits for a Keeper that is not there.
KeeperInv ==
  decision.keeperDown => \A c \in Collector : NeedsKeeper(c) => status[c] # "running"

\* The watchdog remembers whether the last observed collector was slow.
Trouble ==
  \/ \E i \in 1..Len(ran) : ran[i].timedOut
  \/ \E i \in 1..Len(ran) - 1 : ran[i].slow /\ ran[i + 1].slow

TripInv ==
  /\ AllPending => ran = <<>> /\ watch.lastSlow = NoName
  /\ decision.mode = "full" /\ cfg.requested # "full" /\ stage # "probe" =>
       /\ watch.tripped <=> Trouble
       /\ stage = "applying" => watch.tripped
       /\ ~watch.tripped =>
            (watch.lastSlow # NoName <=> ran # <<>> /\ ran[Len(ran)].slow)

IInv ==
  /\ TypeOK
  /\ ClientInv
  /\ LockInv
  /\ PhaseInv
  /\ WireInv
  /\ BudgetInv
  /\ LogMatchesFiles
  /\ KeeperInv
  /\ TripInv

-----------------------------------------------------------------------------
(* What the operators do to the fields the invariant speaks of.            *)

\* Start moves the clock and nothing else; Trip trips every watchdog that is
\* not locked, once; Observe trips on a timeout and on a second slow
\* collector, and remembers a first one.
LEMMA WatchdogFields ==
  ASSUME NEW w \in WatchdogOver(Collector), NEW n \in Collector, NEW t \in Nat,
         NEW d \in Nat, NEW o \in BOOLEAN
  PROVE  /\ Start(w, t).started = t
         /\ Start(w, t).tripped = w.tripped
         /\ Start(w, t).locked = w.locked
         /\ Start(w, t).lastSlow = w.lastSlow
         /\ Trip(w, t).locked = w.locked
         /\ Trip(w, t).lastSlow = w.lastSlow
         /\ Trip(w, t).tripped = (w.tripped \/ ~w.locked)
         /\ w.tripped => Trip(w, t) = w
         /\ w.tripped => Observe(w, n, d, o, t) = w
         /\ ~w.tripped =>
              LET bad == o \/ (d >= SlowQuery /\ w.lastSlow # NoName)
                  v   == Observe(w, n, d, o, t)
              IN  /\ v.tripped = (bad /\ ~w.locked)
                  /\ v.locked = w.locked
                  /\ ~bad => v.lastSlow = IF d >= SlowQuery THEN n ELSE NoName
                  /\ (v.budget = w.budget /\ v.started = w.started) \/ v.started = t
<1>1. /\ Start(w, t).started = t
      /\ Start(w, t).tripped = w.tripped
      /\ Start(w, t).locked = w.locked
      /\ Start(w, t).lastSlow = w.lastSlow
  BY DEF Start, WatchdogOver
<1>2. LET v == TripNow(w, t) IN
      /\ v.locked = w.locked
      /\ v.lastSlow = w.lastSlow
      /\ v.tripped = (w.tripped \/ ~w.locked)
      /\ (v.budget = w.budget /\ v.started = w.started) \/ v.started = t
  BY DEF TripNow, WatchdogOver
<1>3. /\ Trip(w, t).locked = w.locked
      /\ Trip(w, t).lastSlow = w.lastSlow
      /\ Trip(w, t).tripped = (w.tripped \/ ~w.locked)
      /\ w.tripped => Trip(w, t) = w
  BY <1>2 DEF Trip
<1>4. w.tripped => Observe(w, n, d, o, t) = w
  BY DEF Observe
<1>5. ASSUME ~w.tripped
      PROVE  LET bad == o \/ (d >= SlowQuery /\ w.lastSlow # NoName)
                 v   == Observe(w, n, d, o, t)
             IN  /\ v.tripped = (bad /\ ~w.locked)
                 /\ v.locked = w.locked
                 /\ ~bad => v.lastSlow = IF d >= SlowQuery THEN n ELSE NoName
                 /\ (v.budget = w.budget /\ v.started = w.started) \/ v.started = t
  <2> DEFINE bad == o \/ (d >= SlowQuery /\ w.lastSlow # NoName)
             ls == IF d >= SlowQuery THEN n ELSE NoName
             k == [w EXCEPT !.lastSlow = ls]
  <2>1. /\ k.tripped = FALSE /\ k.locked = w.locked /\ k.lastSlow = ls
        /\ k.budget = w.budget /\ k.started = w.started
    <3> HIDE DEF ls
    <3> QED BY <1>5 DEF WatchdogOver
  <2>2. Observe(w, n, d, o, t) = IF bad THEN TripNow(w, t) ELSE k
    BY <1>5 DEF Observe
  <2> HIDE DEF bad, k
  <2>3. /\ Observe(w, n, d, o, t).tripped = (bad /\ ~w.locked)
        /\ Observe(w, n, d, o, t).locked = w.locked
        /\ ~bad => Observe(w, n, d, o, t).lastSlow = ls
        /\ \/ /\ Observe(w, n, d, o, t).budget = w.budget
              /\ Observe(w, n, d, o, t).started = w.started
           \/ Observe(w, n, d, o, t).started = t
    BY <1>2, <1>5, <2>1, <2>2
  <2> QED BY <2>3 DEF bad
<1> QED BY <1>1, <1>3, <1>4, <1>5

\* A setting that was tried is on the client's requests or, taken back, is not.
LEMMA SettingFields ==
  ASSUME NEW Setting, NEW c \in ClientOver(Setting), NEW s \in Setting,
         NEW k, k = SetSetting(c, s) \/ k = RemoveSetting(SetSetting(c, s), s)
  PROVE  /\ k.queryTimeout = c.queryTimeout
         /\ k.httpTimeout = c.httpTimeout
         /\ k.settings \subseteq c.settings \cup {s}
         /\ k = RemoveSetting(SetSetting(c, s), s) => s \notin k.settings
<1>1. /\ SetSetting(c, s) \in ClientOver(Setting)
      /\ SetSetting(c, s).queryTimeout = c.queryTimeout
      /\ SetSetting(c, s).httpTimeout = c.httpTimeout
      /\ SetSetting(c, s).settings = c.settings \cup {s}
  BY DEF SetSetting, ClientOver
<1> DEFINE e == SetSetting(c, s)
<1>2. e \in ClientOver(Setting) => /\ RemoveSetting(e, s).queryTimeout = e.queryTimeout
                                  /\ RemoveSetting(e, s).httpTimeout = e.httpTimeout
                                  /\ RemoveSetting(e, s).settings = e.settings \ {s}
  <2> HIDE DEF e
  <2> QED BY DEF RemoveSetting, ClientOver
<1> QED BY <1>1, <1>2

\* While a request may be bounded it is, by the limit of the run's phase.
LEMMA HttpLimit ==
  ASSUME IInv, cfg.queryTimeout > 0
  PROVE  /\ client.httpTimeout \in Nat \ {0}
         /\ client.httpTimeout <= FullLimit
         /\ Hastened => client.httpTimeout = EssentialLimit
         /\ FullLimit \in Nat /\ EssentialLimit \in Nat
<1> USE CollectionAssumption, ClientAssumption
<1>1. cfg \in ConfigType /\ (~cfg.timeoutExplicit => cfg.queryTimeout = DefaultQueryTimeout)
  BY DEF IInv, TypeOK
<1>2. cfg.queryTimeout \in Nat
  BY <1>1 DEF ConfigType
<1> DEFINE q == IF Hastened /\ ~cfg.timeoutExplicit THEN EssentialQueryTimeout
                                                     ELSE cfg.queryTimeout
           m == IF Hastened THEN EssentialMargin ELSE ClientTimeoutMargin
<1>3. client.httpTimeout = IF q = 0 THEN 0 ELSE q + m
  BY DEF IInv, ClientInv
<1>4. /\ q \in Nat \ {0} /\ m \in Nat \ {0}
      /\ q <= cfg.queryTimeout /\ m <= ClientTimeoutMargin
  BY <1>1, <1>2
<1>5. /\ FullLimit = cfg.queryTimeout + ClientTimeoutMargin /\ FullLimit \in Nat
      /\ EssentialLimit \in Nat
  BY <1>2 DEF FullLimit, EssentialLimit
<1>6. Hastened => EssentialLimit = q + m
  BY DEF EssentialLimit
<1> HIDE DEF q, m
<1> QED BY <1>2, <1>3, <1>4, <1>5, <1>6

-----------------------------------------------------------------------------
(* Two kinds of step are taken by several actions: a collector is observed *)
(* (FailLocally, EmptyFile, Answer), or it is skipped.                     *)

Observed(c) == FailLocally(c) \/ EmptyFile(c) \/ Answer(c)

Skipped(c) == SkipOverBudget(c) \/ SkipNoKeeper(c) \/ SkipFullTier(c)

\* An observed collector was next or on the wire, took no longer than the
\* client's limit, and began within the budget.
LEMMA ObservedStep ==
  ASSUME IInv, NEW c \in Collector, Observed(c)
  PROVE  \E d \in Nat, o \in BOOLEAN :
           /\ ObserveRun(c, d, o, now') /\ now' = now + d
           /\ cfg.queryTimeout > 0 => d <= FullLimit
           /\ stage = "collect" /\ ~OverBudget(watch, now)
           /\ status[c] \in {"pending", "running"}
           /\ \E s \in {"ok", "empty", "failed"} : Record(c, s)
           /\ inflight' = Idle
           /\ UNCHANGED <<cfg, decision, later>>
<1> USE CollectionAssumption
<1>1. CASE FailLocally(c) \/ EmptyFile(c)
  <2>1. /\ ObserveRun(c, 0, FALSE, now) /\ now' = now
        /\ stage = "collect" /\ ~OverBudget(watch, now) /\ status[c] = "pending"
        /\ Record(c, "failed") \/ Record(c, "empty")
        /\ inflight' = Idle
        /\ UNCHANGED <<cfg, decision, later>>
    BY <1>1 DEF FailLocally, EmptyFile, MayExecute, IsNext
  <2>2. cfg.queryTimeout > 0 => 0 <= FullLimit
    BY HttpLimit
  <2>3. now' = now + 0
    BY <2>1 DEF IInv, TypeOK
  <2>5. ObserveRun(c, 0, FALSE, now')
    BY <2>1 DEF ObserveRun
  <2>4. \E s \in {"ok", "empty", "failed"} : Record(c, s)
    BY <2>1
  <2> QED BY <2>1, <2>2, <2>3, <2>4, <2>5
<1>2. CASE Answer(c)
  <2>1. PICK d \in Waits(inflight.limit), x \in Outcome :
          /\ now' = now + d
          /\ Record(c, Entry(x))
          /\ ObserveRun(c, d, x = "timeout", now + d)
    BY <1>2 DEF Answer
  <2>2. inflight.on = c /\ inflight # Idle /\ status[c] = "running"
    BY <1>2 DEF Answer, Idle, NoName, IInv, TypeOK
  <2>3. stage = "collect" /\ ~OverBudget(watch, now) /\ inflight.limit = client.httpTimeout
    BY <2>2 DEF IInv, WireInv
  <2>4. d \in Nat /\ (inflight.limit > 0 => d <= inflight.limit)
    BY <2>1, WaitsType DEF IInv, TypeOK, Request
  <2>5. cfg.queryTimeout > 0 => d <= FullLimit
    BY <2>3, <2>4, HttpLimit
  <2>6. (x = "timeout") \in BOOLEAN /\ ObserveRun(c, d, x = "timeout", now')
    BY <2>1
  <2>7. inflight' = Idle /\ UNCHANGED <<cfg, decision, later>>
    BY <1>2 DEF Answer
  <2>8. \E s \in {"ok", "empty", "failed"} : Record(c, s)
    BY <2>1 DEF Entry
  <2> QED BY <2>1, <2>2, <2>3, <2>4, <2>5, <2>6, <2>7, <2>8
<1> QED BY <1>1, <1>2 DEF Observed

\* A skipped collector only gets its entry.
LEMMA SkippedStep ==
  ASSUME IInv, NEW c \in Collector, Skipped(c)
  PROVE  /\ \E s \in Status \ {"ok", "failed", "running", "pending"} :
              /\ Record(c, s)
              /\ s = "essential run" => watch.tripped
         /\ status[c] = "pending" /\ stage = "collect" /\ inflight = Idle
         /\ OverBudget(watch, now) \/ decision.keeperDown \/ watch.tripped
         /\ UNCHANGED <<cfg, stage, now, decision, watch, client, gentle, file,
                        inflight, ran, later>>
<1> USE DEF Skipped, SkipOverBudget, SkipNoKeeper, SkipFullTier, IsNext
<1>1. \/ Record(c, "over budget")
      \/ Record(c, "no keeper")
      \/ Record(c, "essential run") /\ watch.tripped
  OBVIOUS
<1>2. \E s \in Status \ {"ok", "failed", "running", "pending"} :
        /\ Record(c, s)
        /\ s = "essential run" => watch.tripped
  <2>1. {"over budget", "no keeper", "essential run"}
          \subseteq Status \ {"ok", "failed", "running", "pending"}
    BY DEF Status
  <2> HIDE DEF Skipped
  <2> QED BY <1>1, <2>1
<1>3. /\ status[c] = "pending" /\ stage = "collect" /\ inflight = Idle
      /\ OverBudget(watch, now) \/ decision.keeperDown \/ watch.tripped
  OBVIOUS
<1>4. UNCHANGED <<cfg, stage, now, decision, watch, client, gentle, file,
                  inflight, ran, later>>
  OBVIOUS
<1> QED BY <1>2, <1>3, <1>4

\* What Observe and the callback leave behind: the run goes on, or has just
\* become essential and its client is hastened.
LEMMA ObserveRunFields ==
  ASSUME IInv, NEW c \in Collector, NEW d \in Nat, NEW o \in BOOLEAN, now' \in Nat,
         ObserveRun(c, d, o, now')
  PROVE  /\ watch'.locked = watch.locked
         /\ watch.tripped => watch'.tripped
         /\ watch.locked => watch'.tripped = watch.tripped
         /\ watch'.tripped = watch.tripped =>
              /\ UNCHANGED <<stage, gentle, client>>
              /\ watch.tripped => watch' = watch
         /\ watch'.tripped # watch.tripped =>
              stage' = "applying" /\ gentle' = 0 /\ client' = Hasten(client)
         /\ \/ watch'.budget = watch.budget /\ watch'.started = watch.started
            \/ watch'.started = now'
<1>1. watch \in WatchdogOver(Collector) /\ watch' = Observe(watch, c, d, o, now')
  BY DEF IInv, TypeOK, ObserveRun
<1>2. watch.tripped \in BOOLEAN /\ watch.locked \in BOOLEAN
  BY <1>1 DEF WatchdogOver
<1>3. /\ watch.tripped => watch' = watch
      /\ watch'.locked = watch.locked
      /\ watch.locked => watch'.tripped = watch.tripped
      /\ watch'.tripped \in BOOLEAN
      /\ \/ watch'.budget = watch.budget /\ watch'.started = watch.started
         \/ watch'.started = now'
  <2>1. CASE watch.tripped
    <3>1. watch' = watch
      BY <1>1, <2>1, WatchdogFields
    <3> QED BY <1>2, <3>1
  <2>2. CASE ~watch.tripped
    <3> DEFINE bad == o \/ (d >= SlowQuery /\ watch.lastSlow # NoName)
    <3>1. /\ watch'.tripped = (bad /\ ~watch.locked)
          /\ watch'.locked = watch.locked
          /\ \/ watch'.budget = watch.budget /\ watch'.started = watch.started
             \/ watch'.started = now'
      BY <1>1, <2>2, WatchdogFields
    <3> HIDE DEF bad
    <3> QED BY <1>2, <2>2, <3>1
  <2> QED BY <2>1, <2>2
<1>4. /\ watch'.tripped /\ ~watch.tripped =>
           stage' = "applying" /\ gentle' = 0 /\ client' = Hasten(client)
      /\ ~(watch'.tripped /\ ~watch.tripped) => UNCHANGED <<stage, gentle, client>>
  BY DEF ObserveRun
<1> QED BY <1>2, <1>3, <1>4

-----------------------------------------------------------------------------
(* The invariant holds at first, and every step preserves each part of it. *)

\* It holds initially: nothing has run, and the client is a full run's.
LEMMA InitIInv == Init => IInv
<1> SUFFICES ASSUME Init PROVE IInv
  OBVIOUS
<1> USE CollectionAssumption, ClientAssumption
<1>1. TypeOK /\ cfg \in ConfigType
  BY InitType DEF TypeOK
<1>2. /\ watch.tripped = FALSE /\ watch.locked = FALSE /\ watch.started = 0
      /\ watch.lastSlow = NoName
  BY DEF Init, NewWatchdog
<1>3. ClientInv
  <2>1. cfg.queryTimeout \in Nat
    BY <1>1 DEF ConfigType
  <2> QED BY <1>1, <1>2, <2>1, InitialClient DEF Init, ClientInv, Hastened, FullLimit
<1>4. LockInv /\ PhaseInv
  BY <1>2 DEF Init, LockInv, PhaseInv, Hastened, AllPending
<1>5. WireInv /\ BudgetInv /\ LogMatchesFiles /\ KeeperInv
  BY DEF Init, WireInv, BudgetInv, LogMatchesFiles, KeeperInv
<1>6. TripInv
  BY <1>2 DEF Init, TripInv
<1> QED BY <1>1, <1>3, <1>4, <1>5, <1>6 DEF IInv

\* The invocation never changes.
LEMMA CfgConstant == [Next]_vars => cfg' = cfg
BY DEF Next, Main, Execute, Exited, vars, Probe, TrySetting, EssentialApplied, StartClock,
       CollectorsDone, SendLater, SkipLater, Finish, SkipOverBudget, SkipNoKeeper,
       SkipFullTier, FailLocally, EmptyFile, Send, Answer

\* The client's timeouts and settings belong to the phase of the run.
LEMMA ClientStep == IInv /\ [Next]_vars => ClientInv'
<1> SUFFICES ASSUME IInv, [Next]_vars PROVE ClientInv'
  OBVIOUS
<1> USE CollectionAssumption, ClientAssumption
<1>0. /\ cfg \in ConfigType /\ cfg' = cfg
      /\ client \in ClientOver(GentleSetting) /\ watch \in WatchdogOver(Collector)
      /\ EssentialMargin \in Nat \ {0} /\ EssentialQueryTimeout \in Nat \ {0}
  BY CfgConstant DEF IInv, TypeOK
<1>1. ASSUME ~Hastened, Hastened', client' = Hasten(client)
      PROVE  ClientInv'
  <2>1. /\ client.queryTimeout = cfg.queryTimeout /\ client.settings = {}
    BY <1>1 DEF IInv, ClientInv
  <2>2. /\ client'.queryTimeout =
             IF cfg.timeoutExplicit THEN cfg.queryTimeout ELSE EssentialQueryTimeout
        /\ client'.httpTimeout = IF client'.queryTimeout = 0 THEN 0
                                 ELSE client'.queryTimeout + EssentialMargin
        /\ client'.settings = {}
    BY <1>0, <1>1, <2>1, HastenFacts
  <2> QED BY <1>0, <1>1, <2>2 DEF ClientInv
<1>2. ASSUME Hastened' = Hastened, client' = client
      PROVE  ClientInv'
  BY <1>0, <1>2 DEF IInv, ClientInv
<1>3. CASE Probe
  <2>1. watch'.tripped = FALSE /\ stage = "probe" /\ ~watch.tripped
    BY <1>3 DEF Probe, SetupWatchdog, Locked, WithTripBudget, NewWatchdog, IInv, PhaseInv
  <2>2. CASE stage' = "applying" /\ client' = Hasten(client)
    BY <1>1, <2>1, <2>2 DEF Hastened
  <2>3. CASE stage' = "armed" /\ client' = client
    BY <1>2, <2>1, <2>3 DEF Hastened
  <2> QED BY <1>3, <2>2, <2>3 DEF Probe
<1>4. CASE TrySetting
  <2> DEFINE s == GentleSettings[gentle + 1]
  <2>1. s \in GentleSetting
    <3>1. gentle + 1 \in 1..Len(GentleSettings)
      BY <1>4 DEF TrySetting, IInv, TypeOK
    <3> QED BY <3>1 DEF GentleSetting
  <2>2. \/ client' = SetSetting(client, s) /\ s \notin cfg.refused
        \/ client' = RemoveSetting(SetSetting(client, s), s)
    BY <1>4 DEF TrySetting
  <2>3. Hastened /\ Hastened'
    BY <1>4 DEF TrySetting, Hastened
  <2> HIDE DEF s
  <2>4. /\ client'.queryTimeout = client.queryTimeout
        /\ client'.httpTimeout = client.httpTimeout
        /\ client'.settings \subseteq client.settings \cup {s}
        /\ s \in cfg.refused => s \notin client'.settings
    BY <1>0, <2>1, <2>2, SettingFields
  <2>5. client'.settings \cap cfg.refused = {}
    BY <2>4 DEF IInv, ClientInv
  <2> QED BY <1>0, <2>3, <2>4, <2>5 DEF IInv, ClientInv
<1>5. CASE EssentialApplied
  <2>1. ~watch.locked /\ Hastened
    BY <1>5 DEF EssentialApplied, IInv, LockInv, Hastened
  <2>2. watch'.tripped
    BY <1>0, <1>5, <2>1, WatchdogFields DEF EssentialApplied, IInv, TypeOK, Trip, TripNow, WatchdogOver
  <2> QED BY <1>2, <1>5, <2>1, <2>2 DEF EssentialApplied, Hastened
<1>6. CASE StartClock
  <2>1. watch'.tripped = watch.tripped
    BY <1>0, <1>6 DEF StartClock, Start, WatchdogOver
  <2> QED BY <1>2, <1>6, <2>1 DEF StartClock, Hastened
<1>7. ASSUME NEW c \in Collector, Observed(c)
      PROVE  ClientInv'
  <2>1. PICK d \in Nat, o \in BOOLEAN : ObserveRun(c, d, o, now') /\ now' = now + d /\ stage = "collect"
    BY <1>7, ObservedStep
  <2>2. now' \in Nat
    BY <2>1 DEF IInv, TypeOK
  <2>3. /\ watch'.tripped = watch.tripped => UNCHANGED <<stage, client>>
        /\ watch'.tripped # watch.tripped =>
             watch'.tripped # watch.tripped /\ stage' = "applying" /\ client' = Hasten(client)
        /\ watch.tripped => watch'.tripped
    BY <2>1, <2>2, ObserveRunFields
  <2>4. CASE watch'.tripped = watch.tripped
    BY <1>2, <2>3, <2>4 DEF Hastened
  <2>5. CASE watch'.tripped # watch.tripped
    <3>1. ~watch.tripped
      <4>1. watch.tripped \in BOOLEAN /\ watch'.tripped \in BOOLEAN
        BY <1>0, <2>1, <2>2, ObserveRunType DEF WatchdogOver, IInv, TypeOK
      <4> QED BY <2>3, <2>5, <4>1
    <3> QED BY <1>1, <2>1, <2>3, <2>5, <3>1 DEF Hastened
  <2> QED BY <2>4, <2>5
<1>8. ASSUME NEW c \in Collector, Skipped(c) \/ Send(c)
      PROVE  ClientInv'
  BY <1>2, <1>8, SkippedStep DEF Send, Hastened
<1>9. CASE CollectorsDone \/ SendLater \/ SkipLater \/ Finish \/ UNCHANGED vars
  BY <1>2, <1>9 DEF CollectorsDone, SendLater, SkipLater, Finish, vars, Hastened
<1> QED BY <1>3, <1>4, <1>5, <1>6, <1>7, <1>8, <1>9
        DEF Next, Main, Execute, Exited, Observed, Skipped

\* A locked watchdog stays locked and is never tripped.
LEMMA LockStep == IInv /\ [Next]_vars => LockInv'
<1> SUFFICES ASSUME IInv, [Next]_vars PROVE LockInv'
  OBVIOUS
<1> USE CollectionAssumption
<1>0. /\ cfg \in ConfigType /\ cfg' = cfg /\ watch \in WatchdogOver(Collector)
      /\ status \in [Collector -> Status]
      /\ watch.tripped \in BOOLEAN /\ watch.locked \in BOOLEAN
  BY CfgConstant DEF IInv, TypeOK, WatchdogOver
\* Nothing the part speaks of changes but entries of other reasons.
<1>1. ASSUME watch'.locked = watch.locked, decision' = decision, stage # "probe",
             Hastened' => Hastened \/ ~watch.locked,
             \A c \in Collector : status'[c] = "essential run" =>
               status[c] = "essential run" \/ watch.tripped
      PROVE  LockInv'
  BY <1>0, <1>1 DEF IInv, LockInv, Hastened
<1>2. CASE Probe
  <2>1. /\ watch'.locked <=> cfg.requested = "full"
        /\ watch'.tripped = FALSE /\ stage = "probe"
    BY <1>2 DEF Probe, SetupWatchdog, Locked, WithTripBudget, NewWatchdog
  <2>2. cfg.requested = "full" => decision'.mode = "full"
    <3>1. PICK r \in ProbeReplies :
            decision' = Decide(cfg.requested,
                               WithLimits(r.signals, r.limits, r.maxConcurrent,
                                          r.memoryLimit, r.ratio, r.ram), r.failed)
      BY <1>2 DEF Probe
    <3> DEFINE g == WithLimits(r.signals, r.limits, r.maxConcurrent, r.memoryLimit, r.ratio, r.ram)
    <3>2. g \in Signals /\ r.failed \in BOOLEAN /\ cfg.requested \in Mode
      BY <1>0, WithLimitsType DEF ConfigType, ProbeReplyType
    <3> HIDE DEF g
    <3>3. cfg.requested = "full" => Decide(cfg.requested, g, r.failed).mode = "full"
      BY <3>2, DecideType
    <3> QED BY <3>1, <3>3 DEF g
  <2>3. stage' = IF decision'.mode = "essential" THEN "applying" ELSE "armed"
    BY <1>2 DEF Probe
  <2>4. UNCHANGED status /\ \A c \in Collector : status[c] # "essential run"
    BY <1>2, <2>1 DEF Probe, IInv, PhaseInv, AllPending
  <2> QED BY <1>0, <2>1, <2>2, <2>3, <2>4 DEF LockInv, Hastened
<1>3. CASE EssentialApplied
  <2>1. watch'.locked = watch.locked
    BY <1>0, <1>3 DEF EssentialApplied, Trip, TripNow, WatchdogOver
  <2>2. Hastened
    BY <1>3 DEF EssentialApplied, Hastened
  <2> QED BY <1>1, <1>3, <2>1, <2>2 DEF EssentialApplied
<1>4. CASE StartClock
  <2>1. watch'.locked = watch.locked /\ watch'.tripped = watch.tripped
    BY <1>0, <1>4 DEF StartClock, Start, WatchdogOver
  <2> QED BY <1>1, <1>4, <2>1 DEF StartClock, Hastened
<1>5. ASSUME NEW c \in Collector, Observed(c)
      PROVE  LockInv'
  <2>1. PICK d \in Nat, o \in BOOLEAN :
          /\ ObserveRun(c, d, o, now') /\ now' = now + d /\ stage = "collect"
          /\ \E s \in {"ok", "empty", "failed"} : Record(c, s)
          /\ decision' = decision
    BY <1>5, ObservedStep
  <2>2. now' \in Nat
    BY <2>1 DEF IInv, TypeOK
  <2>3. /\ watch'.locked = watch.locked
        /\ watch.locked => watch'.tripped = watch.tripped
        /\ watch'.tripped = watch.tripped => stage' = stage
    BY <2>1, <2>2, ObserveRunFields
  <2>4. \A b \in Collector : status'[b] = "essential run" => status[b] = "essential run"
    BY <1>0, <2>1 DEF Record
  <2> QED BY <1>0, <1>1, <2>1, <2>3, <2>4 DEF Hastened
<1>6. ASSUME NEW c \in Collector, Skipped(c)
      PROVE  LockInv'
  <2>1. /\ \E s \in Status : Record(c, s) /\ (s = "essential run" => watch.tripped)
        /\ stage = "collect" /\ UNCHANGED <<stage, decision, watch>>
    BY <1>6, SkippedStep
  <2>2. \A b \in Collector : status'[b] = "essential run" =>
                              status[b] = "essential run" \/ watch.tripped
    BY <1>0, <2>1 DEF Record
  <2> QED BY <1>1, <2>1, <2>2 DEF Hastened
<1>7. ASSUME NEW c \in Collector, Send(c)
      PROVE  LockInv'
  <2>1. stage = "collect" /\ Record(c, "running") /\ UNCHANGED <<stage, decision, watch>>
    BY <1>7 DEF Send, MayExecute, IsNext
  <2>2. \A b \in Collector : status'[b] = "essential run" => status[b] = "essential run"
    BY <1>0, <2>1 DEF Record
  <2> QED BY <1>1, <2>1, <2>2 DEF Hastened
<1>8. CASE TrySetting \/ CollectorsDone \/ SendLater \/ SkipLater \/ Finish
  BY <1>1, <1>8 DEF TrySetting, CollectorsDone, SendLater, SkipLater, Finish, Hastened
<1>9. CASE UNCHANGED vars
  BY <1>9 DEF vars, IInv, LockInv, Hastened
<1> QED BY <1>2, <1>3, <1>4, <1>5, <1>6, <1>7, <1>8, <1>9
        DEF Next, Main, Execute, Exited, Observed, Skipped

\* The clock of the watchdog starts with the collectors.
LEMMA PhaseStep == IInv /\ [Next]_vars => PhaseInv'
<1> SUFFICES ASSUME IInv, [Next]_vars PROVE PhaseInv'
  OBVIOUS
<1> USE CollectionAssumption
<1>0. /\ watch \in WatchdogOver(Collector) /\ status \in [Collector -> Status]
      /\ watch.tripped \in BOOLEAN /\ watch.locked \in BOOLEAN
      /\ now \in Nat \ {0}
  BY DEF IInv, TypeOK, WatchdogOver
<1>1. CASE Probe
  <2>1. watch'.tripped = FALSE /\ watch'.started = 0
    BY <1>1 DEF Probe, SetupWatchdog, Locked, WithTripBudget, NewWatchdog
  <2> QED BY <1>1, <2>1 DEF Probe, IInv, PhaseInv, AllPending
<1>2. CASE TrySetting
  BY <1>2 DEF TrySetting, IInv, PhaseInv, AllPending
<1>3. CASE EssentialApplied
  <2>1. ~watch.locked
    BY <1>3 DEF EssentialApplied, IInv, LockInv, Hastened
  <2>2. watch'.tripped /\ (watch.tripped => watch' = watch)
    BY <1>0, <1>3, <2>1 DEF EssentialApplied, Trip, TripNow, WatchdogOver
  <2> QED BY <1>0, <1>3, <2>2 DEF EssentialApplied, IInv, PhaseInv, AllPending
<1>4. CASE StartClock
  <2>1. watch'.started = now'
    BY <1>0, <1>4 DEF StartClock, Start, WatchdogOver
  <2> QED BY <1>4, <2>1 DEF StartClock, IInv, PhaseInv, AllPending
<1>5. ASSUME NEW c \in Collector, Observed(c)
      PROVE  PhaseInv'
  <2>1. PICK d \in Nat, o \in BOOLEAN :
          /\ ObserveRun(c, d, o, now') /\ now' = now + d /\ stage = "collect"
          /\ \E s \in {"ok", "empty", "failed"} : Record(c, s)
    BY <1>5, ObservedStep
  <2>2. now' \in Nat
    BY <1>0, <2>1
  <2>3. stage' = "collect" \/ (stage' = "applying" /\ watch'.tripped)
    <3>1. /\ watch'.tripped = watch.tripped => stage' = stage
          /\ watch'.tripped # watch.tripped => stage' = "applying"
          /\ watch.tripped => watch'.tripped
      BY <2>1, <2>2, ObserveRunFields
    <3>2. watch'.tripped \in BOOLEAN
      BY <1>0, <2>1, <2>2, ObserveRunType DEF IInv, TypeOK, WatchdogOver
    <3> QED BY <1>0, <2>1, <3>1, <3>2
  <2>4. ~AllPending'
    <3>1. status'[c] \in {"ok", "empty", "failed"}
      BY <1>0, <2>1 DEF Record
    <3> QED BY <3>1 DEF AllPending
  <2> QED BY <2>3, <2>4 DEF PhaseInv
<1>6. ASSUME NEW c \in Collector, Skipped(c) \/ Send(c)
      PROVE  PhaseInv'
  <2>1. /\ stage = "collect" /\ stage' = stage
        /\ \E s \in Status \ {"pending"} : Record(c, s)
    BY <1>6, SkippedStep DEF Send, MayExecute, IsNext, Status
  <2>2. status'[c] # "pending"
    BY <1>0, <2>1 DEF Record
  <2> QED BY <2>1, <2>2 DEF PhaseInv, AllPending
<1>7. CASE CollectorsDone \/ SendLater \/ SkipLater \/ Finish
  BY <1>7 DEF CollectorsDone, SendLater, SkipLater, Finish, PhaseInv
<1>8. CASE UNCHANGED vars
  BY <1>8 DEF vars, IInv, PhaseInv, AllPending
<1> QED BY <1>1, <1>2, <1>3, <1>4, <1>5, <1>6, <1>7, <1>8
        DEF Next, Main, Execute, Exited, Observed, Skipped

\* A request is on the wire only while nothing else moves.
LEMMA WireStep == IInv /\ [Next]_vars => WireInv'
<1> SUFFICES ASSUME IInv, [Next]_vars PROVE WireInv'
  OBVIOUS
<1>1. CASE Probe \/ TrySetting \/ EssentialApplied \/ StartClock \/ SendLater \/ SkipLater \/ Finish
  <2>1. stage # "collect" /\ inflight' = inflight
    BY <1>1 DEF Probe, TrySetting, EssentialApplied, StartClock, SendLater, SkipLater, Finish
  <2>2. inflight = Idle
    BY <2>1 DEF IInv, WireInv
  <2> QED BY <2>1, <2>2 DEF WireInv, Idle
<1>2. CASE CollectorsDone
  BY <1>2 DEF CollectorsDone, WireInv, Idle
<1>3. ASSUME NEW c \in Collector, Observed(c)
      PROVE  WireInv'
  BY <1>3, ObservedStep DEF WireInv, Idle
<1>4. ASSUME NEW c \in Collector, Skipped(c)
      PROVE  WireInv'
  BY <1>4, SkippedStep DEF WireInv, Idle
<1>5. ASSUME NEW c \in Collector, Send(c)
      PROVE  WireInv'
  BY <1>5 DEF Send, MayExecute, IsNext, WireInv, OverBudget
<1>6. CASE UNCHANGED vars
  BY <1>6 DEF vars, IInv, WireInv, Idle, OverBudget
<1> QED BY <1>1, <1>2, <1>3, <1>4, <1>5, <1>6
        DEF Next, Main, Execute, Exited, Observed, Skipped

\* A number of requests takes a time, and one more takes one more.
LEMMA Requests ==
  ASSUME NEW f \in Nat, NEW n \in Nat
  PROVE  n * f \in Nat /\ (n + 1) * f = n * f + f
OBVIOUS

\* Fewer requests take no longer.
LEMMA Fewer ==
  ASSUME NEW f \in Nat, NEW m \in Nat, NEW n \in 0..m
  PROVE  n * f <= m * f
<1>1. PICK k \in Nat : m = n + k
  <2>1. m - n \in Nat /\ m = n + (m - n)
    OBVIOUS
  <2> QED BY <2>1
<1>2. n * f \in Nat /\ k * f \in Nat
  BY Requests
<1>3. (n + k) * f = n * f + k * f
  OBVIOUS
<1> QED BY <1>1, <1>2, <1>3

\* The budget is overrun by whole requests only, and by a known number.
LEMMA BudgetStep == IInv /\ [Next]_vars => BudgetInv'
<1> SUFFICES ASSUME IInv, [Next]_vars, cfg.queryTimeout > 0, stage' \in {"applying", "collect"},
                    watch'.budget > 0, watch'.started > 0
             PROVE  now' <= watch'.started + watch'.budget + Overrun'
  BY CfgConstant DEF BudgetInv
<1> USE CollectionAssumption
<1>0. /\ cfg' = cfg /\ FullLimit' = FullLimit /\ FullLimit \in Nat
      /\ EssentialLimit' = EssentialLimit /\ EssentialLimit \in Nat
      /\ watch \in WatchdogOver(Collector) /\ now \in Nat /\ gentle \in 0..Len(GentleSettings)
      /\ Len(GentleSettings) \in Nat
      /\ now' \in Nat /\ watch' \in WatchdogOver(Collector) /\ gentle' \in 0..Len(GentleSettings)
  BY CfgConstant, HttpLimit, StepType, SMTT(30) DEF IInv, TypeOK, FullLimit, EssentialLimit
<1>1. /\ watch.budget \in Nat /\ watch.started \in Nat
      /\ watch'.budget \in Nat /\ watch'.started \in Nat
      /\ watch.tripped \in BOOLEAN /\ watch'.tripped \in BOOLEAN
  BY <1>0 DEF WatchdogOver
<1>2. /\ Overrun \in Nat /\ Overrun' \in Nat /\ FullLimit <= Overrun'
      /\ Tried' = Tried => Overrun' = Overrun
      /\ Tried' = Tried + 1 => Overrun' = Overrun + EssentialLimit
  <2> DEFINE p == Tried * EssentialLimit
             q == Tried' * EssentialLimit
  <2>1. Tried \in Nat /\ Tried' \in Nat
    BY <1>0 DEF Tried
  <2>2. p \in Nat /\ q \in Nat
    BY <1>0, <2>1, Requests
  <2>3. Overrun = FullLimit + p /\ Overrun' = FullLimit + q
    BY <1>0 DEF Overrun
  <2>4. Tried' = Tried => q = p
    OBVIOUS
  <2>5. Tried' = Tried + 1 => q = p + EssentialLimit
    BY <1>0, <2>1, Requests
  <2> HIDE DEF p, q
  <2> QED BY <1>0, <2>2, <2>3, <2>4, <2>5
\* The clock of the watchdog was just set.
<1>3. ASSUME watch'.started = now'
      PROVE  now' <= watch'.started + watch'.budget + Overrun'
  BY <1>0, <1>1, <1>2, <1>3
<1>4. CASE Probe
  <2>1. watch'.started = 0
    BY <1>4 DEF Probe, SetupWatchdog, Locked, WithTripBudget, NewWatchdog
  <2> QED BY <2>1
<1>5. CASE TrySetting
  <2>1. /\ stage = "applying" /\ stage' = "applying" /\ gentle' = gentle + 1 /\ watch' = watch
        /\ \E d \in Waits(client.httpTimeout) : now' = now + d
    BY <1>5 DEF TrySetting
  <2>2. PICK d \in Nat : now' = now + d /\ d <= EssentialLimit
    BY <2>1, HttpLimit, WaitsType DEF Hastened
  <2>3. now <= watch.started + watch.budget + Overrun
    BY <2>1 DEF IInv, BudgetInv
  <2>4. Tried' = Tried + 1
    BY <2>1 DEF Tried
  <2> QED BY <1>0, <1>1, <1>2, <2>1, <2>2, <2>3, <2>4
<1>6. CASE EssentialApplied
  <2>1. watch.tripped /\ watch' = watch /\ stage' = "collect" /\ now' = now /\ stage = "applying"
    BY <1>6 DEF EssentialApplied, Trip
  <2>2. now <= watch.started + watch.budget + Overrun
    BY <2>1 DEF IInv, BudgetInv
  <2>3. Overrun <= Overrun'
    <3>1. Tried' = Tried
      BY <1>6 DEF Tried, EssentialApplied
    <3> QED BY <1>2, <3>1
  <2> QED BY <1>0, <1>1, <1>2, <2>1, <2>2, <2>3
<1>7. CASE StartClock
  <2>1. watch'.started = now'
    BY <1>0, <1>7 DEF StartClock, Start, WatchdogOver
  <2> QED BY <1>3, <2>1
<1>8. ASSUME NEW c \in Collector, Observed(c)
      PROVE  now' <= watch'.started + watch'.budget + Overrun'
  <2>1. PICK d \in Nat, o \in BOOLEAN :
          /\ ObserveRun(c, d, o, now') /\ now' = now + d /\ d <= FullLimit
          /\ ~OverBudget(watch, now)
    BY <1>8, ObservedStep
  <2>2. \/ watch'.budget = watch.budget /\ watch'.started = watch.started
        \/ watch'.started = now'
    BY <1>0, <2>1, ObserveRunFields
  <2>3. CASE watch'.budget = watch.budget /\ watch'.started = watch.started
    <3>1. now <= watch.started + watch.budget
      BY <1>0, <1>1, <2>1, <2>3 DEF OverBudget
    <3> QED BY <1>0, <1>1, <1>2, <2>1, <2>3, <3>1
  <2> QED BY <1>3, <2>2, <2>3
<1>9. ASSUME NEW c \in Collector, Skipped(c) \/ Send(c)
      PROVE  now' <= watch'.started + watch'.budget + Overrun'
  <2>1. stage = "collect" /\ UNCHANGED <<now, watch, stage>>
    BY <1>9, SkippedStep DEF Send, MayExecute, IsNext
  <2>2. now <= watch.started + watch.budget + Overrun /\ Tried' = Tried
    BY <2>1 DEF IInv, BudgetInv, Tried
  <2> QED BY <1>2, <2>1, <2>2
<1>10. CASE CollectorsDone \/ SendLater \/ SkipLater \/ Finish
  BY <1>10 DEF CollectorsDone, SendLater, SkipLater, Finish
<1>11. CASE UNCHANGED vars
  <2>1. UNCHANGED <<now, watch, stage, gentle>>
    BY <1>11 DEF vars
  <2>2. now <= watch.started + watch.budget + Overrun /\ Tried' = Tried
    BY <2>1 DEF IInv, BudgetInv, Tried
  <2> QED BY <1>2, <2>1, <2>2
<1> QED BY <1>4, <1>5, <1>6, <1>7, <1>8, <1>9, <1>10, <1>11
        DEF Next, Main, Execute, Exited, Observed, Skipped

\* The log and the directory change together.
LEMMA LogStep == IInv /\ [Next]_vars => LogMatchesFiles'
<1> SUFFICES ASSUME IInv, [Next]_vars PROVE LogMatchesFiles'
  OBVIOUS
<1> USE CollectionAssumption
<1>0. status \in [Collector -> Status] /\ file \in [Collector -> File] /\ LogMatchesFiles
  BY DEF IInv, TypeOK
\* Most steps write no result, and give an entry that claims none.
<1>1. ASSUME NEW c \in Collector, NEW s, s # "ok", Record(c, s),
             status[c] # "ok", status[c] # "failed", file' = file
      PROVE  LogMatchesFiles'
  BY <1>0, <1>1 DEF LogMatchesFiles, Record
<1>2. ASSUME NEW c \in Collector, Skipped(c)
      PROVE  LogMatchesFiles'
  BY <1>1, <1>2, SkippedStep
<1>3. ASSUME NEW c \in Collector, FailLocally(c) \/ EmptyFile(c)
      PROVE  LogMatchesFiles'
  <2>1. /\ Record(c, "failed") \/ Record(c, "empty")
        /\ status[c] = "pending" /\ file' = file
    BY <1>3 DEF FailLocally, EmptyFile, MayExecute, IsNext
  <2> QED BY <1>1, <2>1
<1>4. ASSUME NEW c \in Collector, Send(c)
      PROVE  LogMatchesFiles'
  <2>1. Record(c, "running") /\ status[c] = "pending" /\ file' = file
    BY <1>4 DEF Send, MayExecute, IsNext
  <2> QED BY <1>1, <2>1
<1>5. ASSUME NEW c \in Collector, Answer(c)
      PROVE  LogMatchesFiles'
  <2>1. PICK x \in Outcome :
          /\ Record(c, Entry(x))
          /\ file' \in CASE x = "ok"      -> {[file EXCEPT ![c] = "complete"]}
                         [] x = "unsaved" -> {file, [file EXCEPT ![c] = "partial"]}
                         [] OTHER         -> {file}
    BY <1>5 DEF Answer
  <2>2. status[c] = "running"
    BY <1>5 DEF Answer, IInv, TypeOK
  <2>3. file[c] # "complete" /\ file[c] # "partial"
    BY <1>0, <2>2 DEF LogMatchesFiles
  <2>4. CASE x = "ok"
    <3>1. Record(c, "ok") /\ file' = [file EXCEPT ![c] = "complete"]
      BY <2>1, <2>4 DEF Entry
    <3> QED BY <1>0, <3>1 DEF LogMatchesFiles, Record
  <2>5. CASE x # "ok"
    <3>1. Record(c, "failed") /\ (file' = file \/ file' = [file EXCEPT ![c] = "partial"])
      BY <2>1, <2>5 DEF Entry
    <3> QED BY <1>0, <2>3, <3>1 DEF LogMatchesFiles, Record
  <2> QED BY <2>4, <2>5
<1>6. CASE UNCHANGED <<status, file>>
  BY <1>0, <1>6 DEF LogMatchesFiles
<1>7. Main \/ UNCHANGED vars => UNCHANGED <<status, file>>
  BY DEF Main, Probe, TrySetting, EssentialApplied, StartClock, CollectorsDone, SendLater,
         SkipLater, Finish, vars
<1> QED BY <1>2, <1>3, <1>4, <1>5, <1>6, <1>7
        DEF Next, Execute, Exited, Skipped

\* What waits for Keeper is never sent without one.
LEMMA KeeperStep == IInv /\ [Next]_vars => KeeperInv'
<1> SUFFICES ASSUME IInv, [Next]_vars PROVE KeeperInv'
  OBVIOUS
<1> USE CollectionAssumption
<1>0. status \in [Collector -> Status] /\ cfg' = cfg /\ \A c \in Collector : NeedsKeeper(c)' = NeedsKeeper(c)
  BY CfgConstant DEF IInv, TypeOK, NeedsKeeper
<1>1. CASE Probe
  <2>1. \A c \in Collector : status'[c] = "pending"
    BY <1>1 DEF Probe, IInv, PhaseInv, AllPending
  <2> QED BY <2>1 DEF KeeperInv
<1>2. ASSUME NEW c \in Collector, Send(c)
      PROVE  KeeperInv'
  BY <1>0, <1>2 DEF Send, MayExecute, Record, IInv, KeeperInv
<1>3. ASSUME NEW c \in Collector, Observed(c) \/ Skipped(c)
      PROVE  KeeperInv'
  <2>1. \E s \in Status \ {"running"} : Record(c, s)
    BY <1>3, ObservedStep, SkippedStep DEF Status
  <2>2. decision' = decision
    BY <1>3, ObservedStep, SkippedStep
  <2> QED BY <1>0, <2>1, <2>2 DEF Record, IInv, KeeperInv
<1>4. CASE UNCHANGED <<decision, status>>
  BY <1>0, <1>4 DEF IInv, KeeperInv
<1> QED BY <1>1, <1>2, <1>3, <1>4
        DEF Next, Main, Execute, Exited, Observed, Skipped, vars, TrySetting, EssentialApplied,
            StartClock, CollectorsDone, SendLater, SkipLater, Finish

\* One more observed collector is trouble if it timed out, or was slow after
\* a slow one.
LEMMA TroubleAppend ==
  ASSUME ran \in Seq(Run), NEW r \in Run, ran' = Append(ran, r)
  PROVE  /\ Trouble' <=> (\/ Trouble
                          \/ r.timedOut
                          \/ ran # <<>> /\ ran[Len(ran)].slow /\ r.slow)
         /\ ran' # <<>> /\ ran'[Len(ran')] = r
<1> DEFINE n == Len(ran)
<1>1. /\ n \in Nat /\ Len(ran') = n + 1 /\ ran'[n + 1] = r
      /\ \A i \in 1..n : ran'[i] = ran[i]
      /\ ran # <<>> <=> n >= 1
      /\ ran' # <<>>
  OBVIOUS
<1> HIDE DEF n
<1>2. 1..(n + 1) = 1..n \cup {n + 1}
  BY <1>1
<1>3. (\E i \in 1..(n + 1) : ran'[i].timedOut) <=> (\E i \in 1..n : ran[i].timedOut) \/ r.timedOut
  BY <1>1, <1>2
<1>4. (\E i \in 1..n : ran'[i].slow /\ ran'[i + 1].slow) <=>
        \/ \E i \in 1..(n - 1) : ran[i].slow /\ ran[i + 1].slow
        \/ n >= 1 /\ ran[n].slow /\ r.slow
  <2>1. \A i \in 1..(n - 1) : ran'[i] = ran[i] /\ ran'[i + 1] = ran[i + 1]
    BY <1>1
  <2>2. \A i \in 1..n : i \in 1..(n - 1) \/ i = n
    BY <1>1
  <2>3. n >= 1 => n \in 1..n /\ ran'[n] = ran[n] /\ ran'[n + 1] = r
    BY <1>1
  <2>4. 1..(n - 1) \subseteq 1..n /\ \A i \in 1..n : n >= 1
    BY <1>1
  <2>5. ASSUME NEW i \in 1..n, ran'[i].slow /\ ran'[i + 1].slow
        PROVE  \/ \E j \in 1..(n - 1) : ran[j].slow /\ ran[j + 1].slow
               \/ n >= 1 /\ ran[n].slow /\ r.slow
    BY <2>1, <2>2, <2>3, <2>4, <2>5, ZenonT(40)
  <2>6. ASSUME NEW i \in 1..(n - 1), ran[i].slow /\ ran[i + 1].slow
        PROVE  \E j \in 1..n : ran'[j].slow /\ ran'[j + 1].slow
    BY <2>1, <2>4, <2>6
  <2>7. n >= 1 /\ ran[n].slow /\ r.slow => \E j \in 1..n : ran'[j].slow /\ ran'[j + 1].slow
    BY <2>3
  <2> QED BY <2>5, <2>6, <2>7
<1>5. Trouble <=> \/ \E i \in 1..n : ran[i].timedOut
                  \/ \E i \in 1..(n - 1) : ran[i].slow /\ ran[i + 1].slow
  BY DEF Trouble, n
<1>6. Trouble' <=> \/ \E i \in 1..(n + 1) : ran'[i].timedOut
                   \/ \E i \in 1..n : ran'[i].slow /\ ran'[i + 1].slow
  <2>1. (n + 1) - 1 = n
    BY <1>1
  <2> QED BY <1>1, <2>1 DEF Trouble
<1> QED BY <1>1, <1>3, <1>4, <1>5, <1>6 DEF n

\* The watchdog of auto trips on trouble and only on trouble.
LEMMA TripStep == IInv /\ [Next]_vars => TripInv'
<1> SUFFICES ASSUME IInv, [Next]_vars PROVE TripInv'
  OBVIOUS
<1> USE CollectionAssumption
<1>0. /\ cfg' = cfg /\ watch \in WatchdogOver(Collector) /\ watch.tripped \in BOOLEAN
      /\ status \in [Collector -> Status] /\ ran \in Seq(Run) /\ now \in Nat
  BY CfgConstant DEF IInv, TypeOK, WatchdogOver
\* Most steps observe nothing.
<1>1. ASSUME UNCHANGED <<decision, ran>>, stage # "probe",
             watch'.tripped = watch.tripped, watch'.lastSlow = watch.lastSlow,
             stage' = "applying" => stage = "applying",
             AllPending' => AllPending
      PROVE  TripInv'
  BY <1>0, <1>1 DEF IInv, TripInv, Trouble
<1>2. CASE Probe
  <2>1. watch'.tripped = FALSE /\ watch'.lastSlow = NoName
    BY <1>2 DEF Probe, SetupWatchdog, Locked, WithTripBudget, NewWatchdog
  <2>2. ran = <<>> /\ ran' = ran
    BY <1>2 DEF Probe, IInv, PhaseInv, TripInv
  <2>3. ~Trouble'
    BY <2>2 DEF Trouble
  <2>4. decision'.mode = "full" => stage' # "applying"
    BY <1>2 DEF Probe
  <2> QED BY <2>1, <2>2, <2>3, <2>4 DEF TripInv
<1>3. CASE EssentialApplied
  <2>1. watch' = Trip(watch, now) /\ stage = "applying" /\ stage' # "applying"
        /\ UNCHANGED <<decision, ran, status>>
    BY <1>3 DEF EssentialApplied
  <2>2. watch'.lastSlow = watch.lastSlow /\ (watch.tripped => watch' = watch)
    BY <1>0, <2>1 DEF Trip, TripNow, WatchdogOver
  <2>3. decision.mode = "full" /\ cfg.requested # "full" => watch.tripped
    BY <2>1 DEF IInv, TripInv
  <2> QED BY <1>0, <2>1, <2>2, <2>3 DEF IInv, TripInv, Trouble, AllPending
<1>4. CASE StartClock
  <2>1. watch'.tripped = watch.tripped /\ watch'.lastSlow = watch.lastSlow
    BY <1>0, <1>4 DEF StartClock, Start, WatchdogOver
  <2> QED BY <1>1, <1>4, <2>1 DEF StartClock, AllPending
<1>5. ASSUME NEW c \in Collector, Observed(c)
      PROVE  TripInv'
  <2>1. PICK d \in Nat, o \in BOOLEAN :
          /\ ObserveRun(c, d, o, now') /\ now' = now + d /\ stage = "collect"
          /\ \E s \in {"ok", "empty", "failed"} : Record(c, s)
          /\ decision' = decision
    BY <1>5, ObservedStep
  <2>2. ~AllPending'
    <3>1. status'[c] \in {"ok", "empty", "failed"}
      BY <1>0, <2>1 DEF Record
    <3> QED BY <3>1 DEF AllPending
  <2> DEFINE r == [slow |-> d >= SlowQuery, timedOut |-> o]
             after == ran # <<>> /\ ran[Len(ran)].slow
             bad == o \/ (d >= SlowQuery /\ watch.lastSlow # NoName)
  <2>3. /\ ran' = Append(ran, r) /\ watch' = Observe(watch, c, d, o, now')
        /\ r \in Run /\ r.slow = (d >= SlowQuery) /\ r.timedOut = o
    BY <2>1 DEF ObserveRun, Run
  <2>4. /\ Trouble' <=> (Trouble \/ o \/ (after /\ d >= SlowQuery))
        /\ ran' # <<>> /\ ran'[Len(ran')].slow = (d >= SlowQuery)
    <3> HIDE DEF r
    <3> QED BY <1>0, <2>3, TroubleAppend
  <2>5. SUFFICES ASSUME decision.mode = "full", cfg.requested # "full"
                 PROVE  /\ watch'.tripped <=> Trouble'
                        /\ stage' = "applying" => watch'.tripped
                        /\ ~watch'.tripped =>
                             (watch'.lastSlow # NoName <=> ran' # <<>> /\ ran'[Len(ran')].slow)
    BY <1>0, <2>1, <2>2 DEF TripInv
  <2>6. /\ watch.tripped <=> Trouble
        /\ ~watch.tripped => (watch.lastSlow # NoName <=> after)
        /\ ~watch.locked
    BY <2>1, <2>5 DEF IInv, TripInv, LockInv
  <2>7. now' \in Nat
    BY <1>0, <2>1
  <2>8. CASE watch.tripped
    <3>1. watch' = watch /\ stage' = stage
      BY <1>0, <2>1, <2>3, <2>8, <2>7, WatchdogFields DEF ObserveRun
    <3> QED BY <2>1, <2>4, <2>6, <2>8, <3>1
  <2>9. CASE ~watch.tripped
    <3>1. /\ watch'.tripped = (bad /\ ~watch.locked)
          /\ ~bad => watch'.lastSlow = IF d >= SlowQuery THEN c ELSE NoName
      <4> HIDE DEF r, after
      <4>1. LET v == Observe(watch, c, d, o, now') IN
            /\ v.tripped = (bad /\ ~watch.locked)
            /\ ~bad => v.lastSlow = IF d >= SlowQuery THEN c ELSE NoName
        BY <1>0, <2>7, <2>9, WatchdogFields
      <4> QED BY <2>3, <4>1
    <3>2. watch'.tripped <=> bad
      BY <2>6, <3>1
    <3>3. bad <=> (o \/ (d >= SlowQuery /\ after))
      BY <2>6, <2>9
    <3>4. stage' = "applying" => watch'.tripped
      BY <2>1 DEF ObserveRun
    <3>5. c # NoName
      BY DEF NoName
    <3>6. watch'.tripped <=> Trouble'
      BY <2>4, <2>6, <2>9, <3>2, <3>3
    <3>7. ~watch'.tripped => (watch'.lastSlow # NoName <=> d >= SlowQuery)
      <4> HIDE DEF bad
      <4> QED BY <3>1, <3>2, <3>5
    <3>8. ~watch'.tripped => (watch'.lastSlow # NoName <=> ran' # <<>> /\ ran'[Len(ran')].slow)
      BY <2>4, <3>7
    <3> QED BY <3>4, <3>6, <3>8
  <2> QED BY <2>8, <2>9
<1>6. ASSUME NEW c \in Collector, Skipped(c) \/ Send(c)
      PROVE  TripInv'
  <2>1. /\ \E s \in Status \ {"pending"} : Record(c, s)
        /\ stage = "collect" /\ UNCHANGED <<decision, ran, watch, stage>>
    BY <1>6, SkippedStep DEF Send, MayExecute, IsNext, Status
  <2>2. ~AllPending'
    BY <1>0, <2>1 DEF Record, AllPending
  <2> QED BY <1>1, <2>1, <2>2
<1>7. CASE TrySetting \/ CollectorsDone \/ SendLater \/ SkipLater \/ Finish
  BY <1>1, <1>7 DEF TrySetting, CollectorsDone, SendLater, SkipLater, Finish, AllPending
<1>8. CASE UNCHANGED vars
  BY <1>0, <1>8 DEF vars, IInv, TripInv, Trouble, AllPending
<1> QED BY <1>2, <1>3, <1>4, <1>5, <1>6, <1>7, <1>8
        DEF Next, Main, Execute, Exited, Observed, Skipped

\* The invariant holds in every reachable state.
THEOREM Invariant == Spec => []IInv
<1>1. IInv /\ [Next]_vars => IInv'
  <2> SUFFICES ASSUME IInv, [Next]_vars PROVE IInv'
    OBVIOUS
  <2>1. TypeOK'
    BY StepType DEF IInv
  <2> QED BY <2>1, ClientStep, LockStep, PhaseStep, WireStep, BudgetStep, LogStep,
             KeeperStep, TripStep DEF IInv
<1> QED BY InitIInv, <1>1, PTL DEF Spec

-----------------------------------------------------------------------------
(* The properties.                                                         *)

\* The budget check between requests bounds the overrun: by one request, and
\* by the SELECT 1 of each gentle setting when that request tripped the run.
THEOREM BudgetBound == Spec => []BudgetOverrunBounded
<1>1. IInv => BudgetOverrunBounded
  <2> SUFFICES ASSUME IInv, cfg.queryTimeout > 0, stage \in {"applying", "collect"},
                      watch.budget > 0, watch.started > 0
               PROVE  now <= watch.started + watch.budget
                               + FullLimit + Len(GentleSettings) * EssentialLimit
    BY DEF BudgetOverrunBounded
  <2> USE CollectionAssumption
  <2>1. now <= watch.started + watch.budget + (FullLimit + Tried * EssentialLimit)
    BY DEF IInv, BudgetInv, Overrun
  <2>2. /\ FullLimit \in Nat /\ EssentialLimit \in Nat /\ Len(GentleSettings) \in Nat
        /\ Tried \in 0..Len(GentleSettings)
        /\ now \in Nat /\ watch.started \in Nat /\ watch.budget \in Nat
    BY HttpLimit DEF IInv, TypeOK, WatchdogOver, Tried
  <2>3. Tried * EssentialLimit <= Len(GentleSettings) * EssentialLimit
    BY <2>2, Fewer
  <2>4. Tried * EssentialLimit \in Nat /\ Len(GentleSettings) * EssentialLimit \in Nat
    BY <2>2, Requests
  <2> DEFINE p == Tried * EssentialLimit
             q == Len(GentleSettings) * EssentialLimit
  <2>5. /\ p \in Nat /\ q \in Nat /\ p <= q
        /\ now <= watch.started + watch.budget + (FullLimit + p)
    BY <2>1, <2>3, <2>4
  <2> HIDE DEF p, q
  <2>6. now <= watch.started + watch.budget + FullLimit + q
    BY <2>2, <2>5
  <2> QED BY <2>6 DEF q
<1> QED BY Invariant, <1>1, PTL

\* watch.Start gives the collectors the whole budget, whatever came before it.
THEOREM BudgetStart == Spec => []BudgetStartsWithCollectors
<1>1. IInv => BudgetStartsWithCollectors
  BY DEF IInv, TypeOK, WatchdogOver, PhaseInv, AllPending, BudgetStartsWithCollectors, OverBudget
<1> QED BY Invariant, <1>1, PTL

\* applyEssential is complete before the next collector is sent, whichever
\* way the run became essential, and touches no request before.
THEOREM Gentle == Spec => []GentleIffEssential
<1>1. IInv => GentleIffEssential
  <2> SUFFICES ASSUME IInv, inflight # Idle PROVE GentleIffEssential
    BY DEF GentleIffEssential
  <2>1. /\ stage = "collect" /\ inflight.limit = client.httpTimeout
        /\ inflight.server = client.queryTimeout /\ inflight.capped = watch.tripped
    BY DEF IInv, WireInv
  <2>2. Hastened <=> watch.tripped
    BY <2>1 DEF Hastened
  <2>3. cfg.queryTimeout \in Nat /\ EssentialQueryTimeout \in Nat /\ EssentialMargin \in Nat
    BY CollectionAssumption DEF IInv, TypeOK, ConfigType
  <2> QED BY <2>1, <2>2, <2>3 DEF IInv, ClientInv, GentleIffEssential
<1> QED BY Invariant, <1>1, PTL

\* SetClientMargin and SetQueryTimeout keep the client waiting longer than the
\* server works, in every order the program calls them.
THEOREM ServerEndsFirst == Spec => []ClientOutlivesServer
<1>1. IInv => ClientOutlivesServer
  <2> SUFFICES ASSUME IInv PROVE ClientOutlivesServer
    OBVIOUS
  <2>1. /\ cfg.queryTimeout \in Nat /\ EssentialQueryTimeout \in Nat \ {0}
        /\ EssentialMargin \in Nat \ {0} /\ ClientTimeoutMargin \in Nat \ {0}
    BY CollectionAssumption, ClientAssumption DEF IInv, TypeOK, ConfigType
  <2> QED BY <2>1 DEF IInv, ClientInv, ClientOutlivesServer
<1> QED BY Invariant, <1>1, PTL

\* applyEssential leaves no setting behind that the user's profile refuses.
THEOREM NoRefusedSetting == Spec => []RefusedSettingNeverSent
<1>1. IInv => RefusedSettingNeverSent
  BY DEF IInv, ClientInv, RefusedSettingNeverSent
<1> QED BY Invariant, <1>1, PTL

\* The execution log tells the truth about the result files.
THEOREM LogIsTrue == Spec => []LogMatchesFiles
<1>1. IInv => LogMatchesFiles
  BY DEF IInv
<1> QED BY Invariant, <1>1, PTL

\* Nothing the server does makes a full collection anything less.
THEOREM FullIsFull == Spec => []FullIsAPromise
<1>1. IInv => FullIsAPromise
  BY DEF IInv, LockInv, ClientInv, Hastened, FullIsAPromise
<1> QED BY Invariant, <1>1, PTL

\* The watchdog's one remembered collector is enough to see every two slow
\* ones in a row, and no others.
THEOREM TripsOnTrouble == Spec => []TripsExactlyOnTrouble
<1>1. IInv => TripsExactlyOnTrouble
  BY DEF IInv, TripInv, Trouble, TripsExactlyOnTrouble
<1> QED BY Invariant, <1>1, PTL

\* No step of a run asks a server without Keeper to wait for it.
THEOREM KeeperNotWaitedFor == Spec => NoWaitForKeeper
<1> DEFINE Waited == decision.keeperDown =>
       /\ \A c \in Collector : NeedsKeeper(c) => status'[c] # "running"
       /\ later' # later /\ Head(later) = "zookeeper_connection" => now' = now
<1>1. IInv /\ [Next]_vars => Waited \/ UNCHANGED vars
  <2> SUFFICES ASSUME IInv, [Next]_vars, decision.keeperDown
               PROVE  Waited \/ UNCHANGED vars
    OBVIOUS
  <2> USE CollectionAssumption
  <2>0. status \in [Collector -> Status] /\ \A c \in Collector : NeedsKeeper(c) => status[c] # "running"
    BY DEF IInv, TypeOK, KeeperInv
  <2>1. CASE Main
    <3>1. status' = status
      BY <2>1 DEF Main, Probe, TrySetting, EssentialApplied, StartClock, CollectorsDone,
                  SendLater, SkipLater, Finish
    <3>2. later' # later /\ Head(later) = "zookeeper_connection" => now' = now
      BY <2>1 DEF Main, Probe, TrySetting, EssentialApplied, StartClock, CollectorsDone,
                  SendLater, SkipLater, Finish
    <3> QED BY <2>0, <3>1, <3>2
  <2>2. ASSUME NEW c \in Collector, Observed(c) \/ Skipped(c)
        PROVE  Waited
    <3>1. \E s \in Status \ {"running"} : Record(c, s)
      BY <2>2, ObservedStep, SkippedStep DEF Status
    <3>2. later' = later
      BY <2>2, ObservedStep, SkippedStep
    <3> QED BY <2>0, <3>1, <3>2 DEF Record
  <2>3. ASSUME NEW c \in Collector, Send(c)
        PROVE  Waited
    BY <2>0, <2>3 DEF Send, MayExecute, Record
  <2> QED BY <2>1, <2>2, <2>3 DEF Next, Execute, Exited, Observed, Skipped
<1>2. Spec => [][Waited]_vars
  BY Invariant, <1>1, PTL DEF Spec
<1> QED BY <1>2 DEF NoWaitForKeeper

-----------------------------------------------------------------------------
(* The refinement.                                                         *)

Outcomes == [c \in Collector |-> AbstractOutcome(status[c])]

Tiers == [c \in Collector |-> Tier(c)]

\* What an entry of the log is to the operator.
LEMMA OutcomeOf ==
  ASSUME NEW s \in Status
  PROVE  /\ AbstractOutcome(s) \in {"pending", "running", "collected", "empty", "failed", "skipped"}
         /\ AbstractOutcome(s) = "pending" <=> s = "pending"
         /\ AbstractOutcome(s) = "running" <=> s = "running"
         /\ s = "ok" => AbstractOutcome(s) = "collected"
         /\ s \in {"empty", "failed"} => AbstractOutcome(s) = s
         /\ s \in Status \ {"ok", "empty", "failed", "running", "pending"} =>
              AbstractOutcome(s) = "skipped"
BY DEF AbstractOutcome, Status

\* An entry recorded is an outcome given.
LEMMA RecordOutcome ==
  ASSUME TypeOK, NEW c \in Collector, NEW s \in Status, Record(c, s)
  PROVE  Outcomes' = [Outcomes EXCEPT ![c] = AbstractOutcome(s)]
<1>1. status' = [status EXCEPT ![c] = s] /\ status \in [Collector -> Status]
  BY DEF Record, TypeOK
<1> QED BY <1>1 DEF Outcomes

\* The collector the loop has reached has its turn in the promise too:
\* orderByTier put every essential one before it.
LEMMA TurnOf ==
  ASSUME TypeOK, NEW c \in Collector, IsNext(c)
  PROVE  Promise!HasTurn(c)
<1>1. status \in [Collector -> Status] /\ \A b \in Collector : status[b] # "running"
  BY CollectionAssumption DEF TypeOK, IsNext, Idle, NoName
<1>2. Outcomes[c] = "pending" /\ \A b \in Collector : Outcomes[b] # "running"
  BY <1>1, OutcomeOf DEF Outcomes, IsNext
<1>3. ASSUME Tier(c) = "full", NEW b \in Collector, Tier(b) = "essential"
      PROVE  Outcomes[b] # "pending"
  <2>1. b # c /\ ~Before(c, b)
    BY <1>3 DEF Before
  <2>2. status[b] # "pending"
    BY <2>1 DEF IsNext
  <2> QED BY <1>1, <2>2, OutcomeOf DEF Outcomes
<1> QED BY <1>2, <1>3 DEF Promise!HasTurn, Outcomes, Tiers

\* The tiers are the files' and the files do not change.
LEMMA TierFacts ==
  /\ \A c \in Collector : Tier(c) \in {"essential", "full"}
  /\ cfg' = cfg => Tiers' = Tiers
BY DEF Tier, ParseTier, Tiers

\* Every step of the collection is a step of the promise, or none.
LEMMA PromiseStep == IInv /\ IInv' /\ [Next]_vars => [Promise!Next]_(Promise!vars)
<1> SUFFICES ASSUME IInv, IInv', [Next]_vars PROVE [Promise!Next]_(Promise!vars)
  OBVIOUS
<1> DEFINE promised == cfg.requested = "full"
           essential == watch.tripped
<1>0. /\ promised' = promised /\ Tiers' = Tiers /\ TypeOK
      /\ status \in [Collector -> Status]
      /\ essential \in BOOLEAN /\ essential' \in BOOLEAN
      /\ promised => ~essential /\ ~essential'
  <2>1. cfg' = cfg
    BY CfgConstant
  <2>2. promised => ~essential
    BY DEF IInv, LockInv, Hastened
  <2>3. promised' => ~essential'
    BY DEF IInv, LockInv, Hastened
  <2> QED BY <2>1, <2>2, <2>3, TierFacts DEF IInv, TypeOK, WatchdogOver
\* A step that changes no entry is a stutter, or the run becoming essential.
<1>1. ASSUME UNCHANGED status, essential => essential'
      PROVE  [Promise!Next]_(Promise!vars)
  <2>1. Outcomes' = Outcomes
    BY <1>1 DEF Outcomes
  <2>2. CASE essential' = essential
    BY <1>0, <2>1, <2>2 DEF Promise!vars, Outcomes, Tiers
  <2>3. CASE essential' # essential
    <3>1. ~promised /\ essential' = TRUE
      BY <1>0, <1>1, <2>3
    <3>2. Promise!BecomeEssential
      BY <1>0, <2>1, <3>1 DEF Promise!BecomeEssential, Outcomes, Tiers
    <3> QED BY <3>2 DEF Promise!Next
  <2> QED BY <2>2, <2>3
<1>2. CASE Probe
  <2>1. ~watch.tripped
    BY <1>2 DEF Probe, IInv, PhaseInv
  <2> QED BY <1>1, <1>2, <2>1 DEF Probe
<1>3. CASE EssentialApplied
  <2>1. essential => essential'
    BY <1>3 DEF EssentialApplied, Trip
  <2> QED BY <1>1, <1>3, <2>1 DEF EssentialApplied
<1>4. CASE StartClock
  <2>1. essential => essential'
    BY <1>4 DEF StartClock, Start, IInv, TypeOK, WatchdogOver
  <2> QED BY <1>1, <1>4, <2>1 DEF StartClock
<1>5. CASE TrySetting \/ CollectorsDone \/ SendLater \/ SkipLater \/ Finish
  BY <1>1, <1>5 DEF TrySetting, CollectorsDone, SendLater, SkipLater, Finish
<1>6. ASSUME NEW c \in Collector, Skipped(c)
      PROVE  Promise!Next
  <2>1. PICK s \in Status \ {"ok", "failed", "running", "pending"} : Record(c, s)
    BY <1>6, SkippedStep
  <2>2. Outcomes' = [Outcomes EXCEPT ![c] = AbstractOutcome(s)]
        /\ AbstractOutcome(s) \in {"empty", "failed", "skipped"}
    BY <1>0, <2>1, RecordOutcome, OutcomeOf
  <2>3. Promise!HasTurn(c) /\ essential' = essential
    BY <1>0, <1>6, SkippedStep, TurnOf DEF Skipped, SkipOverBudget, SkipNoKeeper, SkipFullTier
  <2>4. Promise!Pass(c)
    BY <1>0, <2>2, <2>3 DEF Promise!Pass, Outcomes, Tiers
  <2> QED BY <2>4 DEF Promise!Next
<1>7. ASSUME NEW c \in Collector, Send(c)
      PROVE  Promise!Next
  <2>1. Record(c, "running") /\ IsNext(c) /\ UNCHANGED watch
        /\ (watch.tripped => Tier(c) = "essential")
    BY <1>7 DEF Send, MayExecute
  <2>2. Outcomes' = [Outcomes EXCEPT ![c] = "running"]
    <3>1. "running" \in Status /\ AbstractOutcome("running") = "running"
      BY DEF Status, AbstractOutcome
    <3> QED BY <1>0, <2>1, <3>1, RecordOutcome
  <2>3. Promise!HasTurn(c)
    BY <1>0, <2>1, TurnOf
  <2>4. Promise!Take(c)
    BY <1>0, <2>1, <2>2, <2>3 DEF Promise!Take, Outcomes, Tiers
  <2> QED BY <2>4 DEF Promise!Next
\* A collector that sends nothing is neither slow nor timed out.
<1>8. ASSUME NEW c \in Collector, FailLocally(c) \/ EmptyFile(c)
      PROVE  Promise!Next
  <2>1. /\ Record(c, "failed") \/ Record(c, "empty")
        /\ IsNext(c) /\ watch' = Observe(watch, c, 0, FALSE, now)
    BY <1>8 DEF FailLocally, EmptyFile, MayExecute, ObserveRun
  <2>2. PICK s \in {"failed", "empty"} : Record(c, s)
    BY <2>1
  <2>3. Outcomes' = [Outcomes EXCEPT ![c] = AbstractOutcome(s)]
        /\ AbstractOutcome(s) \in {"empty", "failed", "skipped"}
    <3>1. s \in Status /\ s \in {"empty", "failed"}
      BY DEF Status
    <3> QED BY <1>0, <2>2, <3>1, RecordOutcome, OutcomeOf
  <2>4. essential' = essential
    <3>1. /\ 0 \in Nat /\ FALSE \in BOOLEAN /\ now \in Nat /\ watch \in WatchdogOver(Collector)
          /\ ~(0 >= SlowQuery)
      BY <1>0, CollectModeAssumption DEF TypeOK
    <3>2. CASE watch.tripped
      BY <2>1, <3>2 DEF Observe
    <3>3. CASE ~watch.tripped
      <4>1. watch' = [watch EXCEPT !.lastSlow = NoName]
        BY <2>1, <3>1, <3>3 DEF Observe
      <4> QED BY <3>1, <4>1 DEF WatchdogOver
    <3> QED BY <3>2, <3>3
  <2>5. Promise!HasTurn(c)
    BY <1>0, <2>1, TurnOf
  <2>6. Promise!Pass(c)
    BY <1>0, <2>3, <2>4, <2>5 DEF Promise!Pass, Outcomes, Tiers
  <2> QED BY <2>6 DEF Promise!Next
<1>9. ASSUME NEW c \in Collector, Answer(c)
      PROVE  Promise!Next
  <2>1. status[c] = "running" /\ (Record(c, "ok") \/ Record(c, "failed"))
    <3>1. PICK x \in Outcome : Record(c, Entry(x))
      BY <1>9 DEF Answer
    <3> QED BY <1>9, <3>1 DEF Entry, Answer, IInv, TypeOK
  <2>2. PICK s \in {"ok", "failed"} : Record(c, s)
    BY <2>1
  <2>3. Outcomes' = [Outcomes EXCEPT ![c] = AbstractOutcome(s)]
        /\ AbstractOutcome(s) \in {"collected", "failed"}
    <3>1. s \in Status /\ s \in {"ok", "failed"}
      BY DEF Status
    <3> QED BY <1>0, <2>2, <3>1, RecordOutcome, OutcomeOf
  <2>4. Outcomes[c] = "running"
    BY <1>0, <2>1, OutcomeOf DEF Outcomes
  <2>5. essential' \in {essential, ~promised \/ essential}
    <3>1. essential => essential'
      <4>1. PICK d \in Nat, o \in BOOLEAN : ObserveRun(c, d, o, now') /\ now' = now + d
        BY <1>9, ObservedStep DEF Observed
      <4>2. now' \in Nat
        BY <1>0, <4>1 DEF TypeOK
      <4> QED BY <4>1, <4>2, ObserveRunFields
    <3> QED BY <1>0, <3>1
  <2>6. Promise!Settle(c)
    BY <1>0, <2>3, <2>4, <2>5 DEF Promise!Settle, Outcomes, Tiers
  <2> QED BY <2>6 DEF Promise!Next
<1>10. CASE UNCHANGED vars
  BY <1>1, <1>10 DEF vars
<1> QED BY <1>2, <1>3, <1>4, <1>5, <1>6, <1>7, <1>8, <1>9, <1>10
        DEF Next, Main, Execute, Exited, Skipped

\* The collection implements CollectionPromise: one turn and one outcome for
\* each collector, essential ones first, one switch, nothing full after it.
THEOREM Refinement == Spec => KeepsPromise
<1>1. Init => Promise!Init
  <2> SUFFICES ASSUME Init PROVE Promise!Init
    OBVIOUS
  <2>1. \A c \in Collector : AbstractOutcome(status[c]) = "pending"
    BY DEF Init, AbstractOutcome
  <2>2. watch.tripped = FALSE
    BY DEF Init, NewWatchdog
  <2> QED BY <2>1, <2>2, TierFacts DEF Promise!Init, Tiers
<1> QED BY Invariant, <1>1, PromiseStep, PTL DEF Spec, KeepsPromise, Promise!Spec
=============================================================================
