------------------------------- MODULE Selection -------------------------------
(***************************************************************************)
(* The query files that a server gets (internal/query/finder.go,           *)
(* selector.go, versioned.go, internal/version): a folder is the sequence  *)
(* of files in the order in which filepath.Walk visits them, each with the *)
(* folders on its way.                                                     *)
(***************************************************************************)
EXTENDS Integers, Sequences, FiniteSets, SequencesExt

CONSTANTS
  VersionOf, \* the versions that folder names stand for; other names are none
  Dotted,    \* names that begin with a dot
  Sql        \* file names that end in .sql

Version == Nat \X Nat \X Nat \X Nat

ASSUME SelectionAssumption ==
  /\ \A d \in DOMAIN VersionOf : VersionOf[d] \in Version
  /\ DOMAIN VersionOf \cap Dotted = {}

\* Mutant of IsGreater: the parts are compared on their own.
IsGreaterInSome(a, b) == \E i \in 1..4 : a[i] > b[i]

IsGreater(a, b) ==
  \E i \in 1..4 : a[i] > b[i] /\ \A j \in 1..(i - 1) : a[j] = b[j]

IsGreaterOrEqual(a, b) == IsGreater(a, b) \/ a = b

DirName(file) == IF file.dir = <<>> THEN "" ELSE Last(file.dir)

\* The files of s that are in S, in their order.
Only(s, S) ==
  LET kept[n \in 0..Len(s)] ==
        IF n = 0 THEN <<>>
        ELSE IF s[n] \in S THEN Append(kept[n - 1], s[n]) ELSE kept[n - 1]
  IN  kept[Len(s)]

\* Dotfiles, and whatever is below a folder whose name begins with a dot, are
\* never query files.
Walked(folder) ==
  {f \in ToSet(folder) : f.name \notin Dotted /\ \A i \in 1..Len(f.dir) : f.dir[i] \notin Dotted}

\* The files at the root, then those of the versions that server has reached.
FindCompatibleQueries(folder, server) ==
  Only(folder, {f \in Walked(folder) : f.dir = <<>>})
    \o Only(folder, {f \in Walked(folder) :
                     /\ DirName(f) \in DOMAIN VersionOf
                     /\ IsGreaterOrEqual(server, VersionOf[DirName(f)])})

HasHigherPriority(file, than) ==
  /\ file.dir # <<>>
  /\ than.dir = <<>> \/ IsGreater(VersionOf[DirName(file)], VersionOf[DirName(than)])

\* A file takes the place of the one of its name that it has priority over.
Preferred(best, f) ==
  {g \in best : g.name # f.name}
    \cup {IF \E g \in best : g.name = f.name /\ ~HasHigherPriority(f, g)
          THEN CHOOSE g \in best : g.name = f.name
          ELSE f}

SelectHighestPriorityQueries(files) ==
  LET best[n \in 0..Len(files)] ==
        IF n = 0 THEN {} ELSE Preferred(best[n - 1], files[n])
  IN  best[Len(files)]

\* With an extension, for the query analysis.
FindVersionedFiles(folder, server) ==
  SelectHighestPriorityQueries(
    Only(FindCompatibleQueries(folder, server), {f \in ToSet(folder) : f.name \in Sql}))
=============================================================================
