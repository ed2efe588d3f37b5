-------------------------- MODULE ClickHouseClient --------------------------
(***************************************************************************)
(* pkg/clickhouse.go: the part of the HTTP client the collection changes   *)
(* while it runs.  queryTimeout is sent to the server as                   *)
(* max_execution_time, httpTimeout bounds the whole request on our side,   *)
(* and margin is how much longer we wait than the server is asked to work. *)
(* A timeout of 0 means unbounded, on both sides.                          *)
(***************************************************************************)
EXTENDS Naturals

CONSTANTS
  DefaultQueryTimeout,  \* 240 s
  ClientTimeoutMargin   \* 60 s

ASSUME ClientAssumption ==
  /\ DefaultQueryTimeout \in Nat \ {0}
  /\ ClientTimeoutMargin \in Nat \ {0}

ClientOver(Setting) ==
  [queryTimeout : Nat, margin : Nat, httpTimeout : Nat, settings : SUBSET Setting]

NewClickHouseClient ==
  [queryTimeout |-> DefaultQueryTimeout,
   margin       |-> ClientTimeoutMargin,
   httpTimeout  |-> DefaultQueryTimeout + ClientTimeoutMargin,
   settings     |-> {}]

\* Mutant of SetQueryTimeout: the margin is forgotten.
SetBothTimeouts(c, d) == [c EXCEPT !.queryTimeout = d, !.httpTimeout = d]

SetQueryTimeout(c, d) ==
  [c EXCEPT !.queryTimeout = d,
            !.httpTimeout  = IF d = 0 THEN 0 ELSE d + c.margin]

SetClientMargin(c, m) == SetQueryTimeout([c EXCEPT !.margin = m], c.queryTimeout)

SetSetting(c, name) == [c EXCEPT !.settings = @ \cup {name}]

RemoveSetting(c, name) == [c EXCEPT !.settings = @ \ {name}]
=============================================================================
