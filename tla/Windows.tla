-------------------------------- MODULE Windows --------------------------------
(***************************************************************************)
(* The time windows of the queries (internal/query/template.go,            *)
(* analysis.go), in hours.  A bound that the operator gave is an instant;  *)
(* None is the zero time.  A file declares how far it looks back:          *)
(* Windowless, or a number of hours, 0 if what it says is malformed.       *)
(***************************************************************************)
EXTENDS Integers

CONSTANTS None, Windowless

ASSUME WindowsAssumption == None \notin Int /\ Windowless \notin Int

Day == 24

\* Mutant of From: the operator's bound is capped as well.
FromCapped(back, from, cap, now) ==
  LET start == IF from # None THEN from ELSE now - back IN
  IF cap > 0 /\ start < now - cap THEN now - cap ELSE start

\* expandWindowPlaceholders, {from:<back>}: an explicit bound always wins, and
\* an essential collection caps what the file declares.
From(back, from, cap, now) ==
  IF from # None THEN from
  ELSE IF cap > 0 /\ back > cap THEN now - cap ELSE now - back

\* {to:now}.
To(to, now) == IF to # None THEN to ELSE now

\* UnboundPlaceholders: a malformed look-back is left where it is, and found.
Unbound(back, from) == back = 0 /\ from = None

\* AnalysisOpts.Validate, for what is left open.
AnalysisFrom(from, to, focusIsID, now) ==
  CASE from # None -> from
    [] from = None /\ to # None -> to - 7 * Day
    [] OTHER -> now - (IF focusIsID THEN 3 * Day ELSE 7 * Day)

AnalysisTo(to, now) == IF to # None THEN to ELSE now

\* An instant as toString shows it on a server whose clock is zone hours ahead
\* of UTC, and the instant that such a text without a zone stands for there.
Shown(instant, zone) == instant + zone

Read(text, zone) == text - zone
=============================================================================
