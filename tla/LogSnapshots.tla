---------------------------- MODULE LogSnapshots ----------------------------
(***************************************************************************)
(* What the copying of the logs is to whoever reads the bundle: of every   *)
(* log of every directory found there is a copy or a note, taken in one    *)
(* step, once, and never touched by what is taken later.  A copy is the    *)
(* end of what the log held at one moment; only a log emptied in place     *)
(* while it was being copied is less, and its header may promise too much. *)
(* How a copy is named, begun, and filled unit by unit is left out.        *)
(* LogFiles implements it.                                                 *)
(***************************************************************************)
EXTENDS Naturals, Sequences

CONSTANTS
  Dir,    \* directories
  Holds,  \* the logs in each
  Unit,   \* what a log is made of
  Max,    \* the cap of a copy
  Bound   \* the most that is skipped to find an end of line

VARIABLES
  found,  \* the directories found
  stage,  \* finding, taking, returned, or failed without taking any
  noted,  \* the logs and directories (as number 0) with a note
  taken,  \* the copy of each log, nothing if there is none
  hand,   \* the log at hand, if there is one
  held,   \* what it held when it was measured
  cut,    \* it was emptied in place since
  ends    \* the units that end a line

vars == <<found, stage, noted, taken, hand, held, cut, ends>>

Log == UNION {{<<d, n>> : n \in 1..Len(Holds[d])} : d \in Dir}

Init ==
  /\ found = {} /\ stage = "finding"
  /\ noted = {} /\ taken = [l \in Log |-> {}]
  /\ hand = {} /\ held = <<>> /\ cut = FALSE
  /\ ends \subseteq Unit

Find(d) ==
  /\ stage = "finding" /\ d \notin found
  /\ found' = found \cup {d}
  /\ UNCHANGED <<stage, noted, taken, hand, held, cut, ends>>

Start ==
  /\ stage = "finding"
  /\ stage' \in IF found = {} THEN {"returned"} ELSE {"taking", "failed"}
  /\ UNCHANGED <<found, noted, taken, hand, held, cut, ends>>

\* A directory that cannot be read has a note of its own, and none of its logs has.
Refuse(d) ==
  /\ stage = "taking" /\ hand = {} /\ d \in found
  /\ \A l \in Log : l[1] = d => taken[l] = {} /\ l \notin noted
  /\ noted' = noted \cup {<<d, 0>>}
  /\ UNCHANGED <<found, stage, taken, hand, held, cut, ends>>

Waits(l) ==
  /\ l[1] \in found /\ <<l[1], 0>> \notin noted
  /\ l \notin noted /\ taken[l] = {}

Measure(l) ==
  /\ stage = "taking" /\ hand = {} /\ Waits(l)
  /\ hand' = {l} /\ held' \in Seq(Unit) /\ cut' = FALSE
  /\ UNCHANGED <<found, stage, noted, taken, ends>>

\* A rotation empties the log at hand.
Spoil ==
  /\ hand # {} /\ cut' = TRUE
  /\ UNCHANGED <<found, stage, noted, taken, hand, held, ends>>

PutDown == hand' = {} /\ held' = <<>> /\ cut' = FALSE

\* Where a copy may begin: with the log, or with a line of it.
Begins(start) ==
  /\ Len(held) <= Max => start = 0
  /\ Len(held) > Max => start > 0 /\ (held[start] \in ends \/ start = Len(held) - Max + Bound)

\* Only a copy that is not the whole log has a header.
Headed(length) == IF Len(held) > Max THEN {length} ELSE {}

Rest(start) == SubSeq(held, start + 1, Len(held))

Take(l) ==
  /\ hand = {l} /\ Waits(l) /\ ~cut
  /\ \E start \in 0..Len(held) :
       /\ Begins(start)
       /\ taken' = [taken EXCEPT ![l] =
            {[header |-> Headed(Len(held) - start), units |-> Rest(start)]}]
  /\ PutDown
  /\ UNCHANGED <<found, stage, noted, ends>>

TakeSpoiled(l) ==
  /\ hand = {l} /\ Waits(l) /\ cut
  /\ \E limit \in 0..Max : \E length \in 0..limit : \E units \in [1..length -> Unit] :
       taken' = [taken EXCEPT ![l] = {[header |-> Headed(limit), units |-> units]}]
  /\ PutDown
  /\ UNCHANGED <<found, stage, noted, ends>>

Miss(l) ==
  /\ stage = "taking" /\ hand \subseteq {l} /\ Waits(l)
  /\ noted' = noted \cup {l}
  /\ PutDown
  /\ UNCHANGED <<found, stage, taken, ends>>

Return ==
  /\ stage = "taking" /\ hand = {} /\ \A l \in Log : ~Waits(l)
  /\ stage' = "returned"
  /\ UNCHANGED <<found, noted, taken, hand, held, cut, ends>>

Next ==
  \/ Start \/ Spoil \/ Return
  \/ \E d \in Dir : Find(d) \/ Refuse(d)
  \/ \E l \in Log : Measure(l) \/ Take(l) \/ TakeSpoiled(l) \/ Miss(l)

Spec == Init /\ [][Next]_vars
=============================================================================
