---------------------------- MODULE CollectMode ----------------------------
(***************************************************************************)
(* internal/collectmode: how much the diagnostic collects.                 *)
(*                                                                         *)
(* Decide turns the load probe's signals into a starting mode; the         *)
(* Watchdog, a record here, switches a full run to essential when queries  *)
(* time out or crawl, and keeps the time budget.  Each Go method is an     *)
(* operator from the receiver's old value to its new one, so the module    *)
(* has no state of its own: Collection owns the watchdog.                  *)
(*                                                                         *)
(* Time is counted in an arbitrary unit.  The zero time.Time and the zero  *)
(* Duration are both 0; a running clock never reads 0.                     *)
(***************************************************************************)
EXTENDS Naturals

CONSTANTS
  SlowPing,        \* SELECT 1 this slow is a reason to be essential (1 s)
  SlowMetrics,     \* system.metrics this slow is one too (2 s)
  LargeTables,     \* tables from which per-table reads are expensive
  SlowQuery,       \* a collector this slow counts towards the streak (30 s)
  EssentialBudget  \* the budget that starts when a run trips (3 min)

ASSUME CollectModeAssumption ==
  /\ SlowPing \in Nat \ {0}
  /\ SlowMetrics \in Nat \ {0}
  /\ LargeTables \in Nat \ {0}
  /\ SlowQuery \in Nat \ {0}
  /\ EssentialBudget \in Nat \ {0}

Mode == {"auto", "essential", "full"}

Reason == {"ping", "metrics", "concurrency", "memory", "load", "readonly", "probe"}

Signals ==
  [ping : Nat, metricsRead : Nat, queries : Nat, maxConcurrent : Nat,
   memory : Nat, memoryLimit : Nat, load1 : Nat, cpus : Nat,
   readonly : Nat, sessions : Nat, lossSince : Nat, tables : Nat]

\* The signals of a probe that is not run (dry run), and the zero value.
ZeroSignals ==
  [ping |-> 0, metricsRead |-> 0, queries |-> 0, maxConcurrent |-> 0,
   memory |-> 0, memoryLimit |-> 0, load1 |-> 0, cpus |-> 0,
   readonly |-> 0, sessions |-> 0, lossSince |-> 0, tables |-> 0]

\* The limits a server has when LimitsQuery answers; without an answer (its
\* table arrived in 23.3) both stay 0, which means unknown.  A memory limit
\* that is not set is a ratio (in tenths, 9 unless set) of the machine's memory.
WithLimits(s, answered, maxConcurrent, memoryLimit, ratio, ram) ==
  LET tenths == IF ratio = 0 THEN 9 ELSE ratio IN
  IF answered
  THEN [s EXCEPT !.maxConcurrent = maxConcurrent,
                 !.memoryLimit = IF memoryLimit = 0 THEN (tenths * ram) \div 10
                                                    ELSE memoryLimit]
  ELSE s

\* A ratio is compared in whole numbers: queries >= 0.8 max is 5q >= 4max.
Signalled(r, s) ==
  \/ r = "ping"        /\ s.ping >= SlowPing
  \/ r = "metrics"     /\ s.metricsRead >= SlowMetrics
  \/ r = "concurrency" /\ s.maxConcurrent > 0 /\ 5 * s.queries >= 4 * s.maxConcurrent
  \/ r = "memory"      /\ s.memoryLimit > 0 /\ 10 * s.memory >= 9 * s.memoryLimit
  \/ r = "load"        /\ s.cpus > 0 /\ s.load1 >= 2 * s.cpus
  \/ r = "readonly"    /\ s.readonly > 0

Reasons(s, probeFailed) ==
  IF probeFailed THEN {"probe"} ELSE {r \in Reason : Signalled(r, s)}

DecidedMode(requested, reasons) ==
  CASE requested = "full"      -> "full"
    [] requested = "essential" -> "essential"
    [] OTHER                   -> IF reasons # {} THEN "essential" ELSE "full"

Decide(requested, s, probeFailed) ==
  [mode       |-> DecidedMode(requested, Reasons(s, probeFailed)),
   reasons    |-> Reasons(s, probeFailed),
   large      |-> s.tables >= LargeTables,
   keeperDown |-> /\ ~probeFailed
                  /\ s.readonly > 0
                  /\ s.sessions = 0 \/ s.lossSince > 0]

-----------------------------------------------------------------------------
(* The watchdog.  lastSlow names the previous collector when it was slow;  *)
(* NoName is the empty string.                                             *)

NoName == 0

WatchdogOver(Name) ==
  [budget : Nat, tripBudget : Nat, started : Nat, tripped : BOOLEAN,
   lastSlow : Name \cup {NoName}, locked : BOOLEAN]

NewWatchdog(budget) ==
  [budget |-> budget, tripBudget |-> 0, started |-> 0, tripped |-> FALSE,
   lastSlow |-> NoName, locked |-> FALSE]

Locked(w) == [w EXCEPT !.locked = TRUE]

WithTripBudget(w, d) == [w EXCEPT !.tripBudget = d]

Start(w, now) == [w EXCEPT !.started = now]

\* trip: the budget of a run that had none starts here.
TripNow(w, now) ==
  LET opens == w.budget = 0 /\ w.tripBudget > 0 IN
  IF w.locked THEN w
  ELSE [w EXCEPT !.tripped = TRUE,
                 !.budget  = IF opens THEN w.tripBudget ELSE w.budget,
                 !.started = IF opens THEN now ELSE w.started]

\* Trip: for a reason of the caller's, once.
Trip(w, now) == IF w.tripped THEN w ELSE TripNow(w, now)

\* Mutant of Observe: a quick collector does not break the streak.
ObserveWithoutReset(w, name, d, timedOut, now) ==
  IF w.tripped THEN w
  ELSE IF timedOut \/ (d >= SlowQuery /\ w.lastSlow # NoName)
       THEN TripNow(w, now)
       ELSE [w EXCEPT !.lastSlow = IF d >= SlowQuery THEN name ELSE @]

\* Observe: one collector took d and ended with a timeout error or not.  A
\* locked watchdog keeps its lastSlow when it declines to trip.
Observe(w, name, d, timedOut, now) ==
  IF w.tripped THEN w
  ELSE IF timedOut \/ (d >= SlowQuery /\ w.lastSlow # NoName)
       THEN TripNow(w, now)
       ELSE [w EXCEPT !.lastSlow = IF d >= SlowQuery THEN name ELSE NoName]

OverBudget(w, now) ==
  /\ w.budget > 0
  /\ w.started > 0
  /\ now > w.started + w.budget
=============================================================================
