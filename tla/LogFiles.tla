------------------------------- MODULE LogFiles -------------------------------
(***************************************************************************)
(* The copies of the server's logs (internal/logfiles): directories are    *)
(* found, and each log in them is copied, its end only when it is over the *)
(* cap, while the server goes on writing it and rotating it and others may *)
(* put something else in its place.  A log is a sequence of units; a unit  *)
(* is named by its number, and some numbers are ends of lines.             *)
(***************************************************************************)
EXTENDS Naturals, Sequences, FiniteSets

CONSTANTS
  Dir,         \* directories
  DefaultDir,  \* the packaged location
  NoDir,       \* no -logs-dir
  Holds,       \* the logs in each directory, in the order ReadDir gives them
  Last,        \* the last number uniqueName tries
  Max,         \* the cap of a file
  Bound,       \* the most that is skipped to find an end of line
  MaxPaths,    \* bound: paths in the configuration
  MaxUnits,    \* bound: units written to a log
  MaxEvents    \* bound: what happens to the logs besides being written

LogName == UNION {{Holds[d][n] : n \in 1..Len(Holds[d])} : d \in Dir}

\* A copy is named after its log, and numbered from 2 on when the name is taken.
Copy == LogName \X (1..Last)

NoCopy == <<"none", 0>>

Unit == 1..MaxUnits

ASSUME LogAssumption ==
  /\ DefaultDir \in Dir /\ NoDir \notin Dir
  /\ Holds \in [Dir -> Seq(STRING)]
  \* the names in a directory are distinct
  /\ \A d \in Dir : \A m, n \in 1..Len(Holds[d]) : Holds[d][m] = Holds[d][n] => m = n
  /\ Last \in Nat \ {0} /\ Max \in Nat \ {0}
  /\ Bound \in 1..Max  \* 64 KiB, and a cap of whole MiB
  /\ MaxPaths \in Nat /\ MaxUnits \in Nat /\ MaxEvents \in Nat

VARIABLES
  pc,
  paths,    \* directories still to be looked at
  dirs,     \* the directories found
  at,       \* the one being read
  entry,    \* the entry of it
  out,      \* what each copy holds, nothing if there is none
  copied,   \* Result.Copied
  noted,    \* the directories and logs that Result.Notes names
  log,      \* the log being copied: what it is and what it holds
  ends,     \* the units that end a line
  count,    \* units written so far
  dst,      \* the copy being made
  size,     \* fstat's size
  from,     \* units before the copy's first
  read,     \* units copied
  measured, \* history: what the log held when it was measured
  cut,      \* history: the log was emptied in place since
  events

file == <<log, ends, count, cut, events>>
copying == <<dst, size, from, read, measured>>
place == <<paths, dirs, at, entry>>
vars == <<pc, place, out, copied, noted, file, copying>>

-----------------------------------------------------------------------------
(* Directories.                                                            *)

\* -logs-dir alone; or the directories of the configured logs, in the order of
\* their paths, and the packaged one.
Paths(flag, configured) == IF flag # NoDir THEN <<flag>> ELSE Append(configured, DefaultDir)

Init ==
  /\ pc = "discover"
  /\ \E flag \in Dir \cup {NoDir}, n \in 0..MaxPaths : \E configured \in [1..n -> Dir] :
       paths = Paths(flag, configured)
  /\ dirs = <<>> /\ at = 1 /\ entry = 1
  /\ out = [c \in Copy |-> {}]
  /\ copied = {} /\ noted = {}
  /\ log = [kind |-> "regular", held |-> <<>>]
  /\ ends \in SUBSET Unit
  /\ count = 0
  /\ dst = NoCopy /\ size = 0 /\ from = 0 /\ read = 0 /\ measured = <<>>
  /\ cut = FALSE /\ events = 0

Found == {dirs[n] : n \in 1..Len(dirs)}

\* add: a directory is taken once, and only if it is there.
Add ==
  /\ pc = "discover" /\ paths # <<>>
  /\ paths' = Tail(paths)
  /\ \/ dirs' = dirs
     \/ Head(paths) \notin Found /\ dirs' = Append(dirs, Head(paths))
  /\ UNCHANGED <<pc, at, entry, out, copied, noted, file, copying>>

\* Collect returns an error when it cannot make a directory for the copies.
Discovered ==
  /\ pc = "discover" /\ paths = <<>>
  /\ pc' \in IF dirs = <<>> THEN {"returned"} ELSE {"dirs", "failed"}
  /\ UNCHANGED <<place, out, copied, noted, file, copying>>

ReadDir ==
  /\ pc = "dirs" /\ at <= Len(dirs)
  /\ entry' = 1
  /\ \/ pc' = "entries" /\ UNCHANGED <<at, noted>>
     \/ pc' = "dirs" /\ at' = at + 1 /\ noted' = noted \cup {<<dirs[at], 0>>}
  /\ UNCHANGED <<paths, dirs, out, copied, file, copying>>

NextDir ==
  /\ pc = "entries" /\ entry > Len(Holds[dirs[at]])
  /\ at' = at + 1 /\ pc' = "dirs"
  /\ UNCHANGED <<paths, dirs, entry, out, copied, noted, file, copying>>

\* Mutant of Free: the second name is not looked up.
FreeOne(name) == {<<name, 2>>}

Free(name) == {c \in Copy : c[1] = name /\ out[c] = {}}

\* uniqueName gives up after the last number, and the first name is used again.
UniqueName(name) ==
  {c \in Copy : /\ c[1] = name
                /\ Free(name) = {} => c[2] = 1
                /\ Free(name) # {} => c \in Free(name)
                /\ \A o \in Free(name) : c[2] <= o[2]}

\* The next entry: its log may be anything that stands there by now.
Entry ==
  /\ pc = "entries" /\ entry <= Len(Holds[dirs[at]])
  /\ \E kind \in {"regular", "symlink", "other"}, held \in 0..MaxUnits :
       /\ log' = [kind |-> kind, held |-> [n \in 1..held |-> n]]
       /\ count' = held
       /\ pc' = IF kind = "regular" THEN "open" ELSE "note"
  /\ cut' = FALSE
  /\ dst' \in UniqueName(Holds[dirs[at]][entry])
  /\ size' = 0 /\ from' = 0 /\ read' = 0 /\ measured' = <<>>
  /\ UNCHANGED <<place, out, copied, noted, ends, events>>

-----------------------------------------------------------------------------
(* copyTail.                                                               *)

\* open with O_NOFOLLOW, then fstat.
Open ==
  /\ pc = "open"
  /\ IF log.kind = "regular" THEN pc' \in {"create", "note"} ELSE pc' = "note"
  /\ size' = Len(log.held) /\ measured' = log.held
  /\ UNCHANGED <<place, out, copied, noted, file, dst, from, read>>

Create ==
  /\ pc = "create"
  /\ \/ /\ pc' = IF size > Max THEN "align" ELSE "copy"
        /\ from' = IF size > Max THEN size - Max ELSE 0
        /\ out' = [out EXCEPT ![dst] = {[of |-> <<dirs[at], entry>>, kind |-> log.kind,
                                      header |-> {}, units |-> <<>>]}]
     \/ pc' = "note" /\ UNCHANGED <<from, out>>
  /\ UNCHANGED <<place, copied, noted, file, dst, size, read, measured>>

\* Mutant of Align: the copy begins in the middle of a line.
AlignNot ==
  /\ pc = "align"
  /\ pc' = "header"
  /\ UNCHANGED <<place, out, copied, noted, file, copying>>

\* One unit of lengthToNewline: the end of a line, the end of the file and the
\* bound end it.
Align ==
  /\ pc = "align"
  /\ IF from - (size - Max) < Bound /\ from < Len(log.held)
     THEN /\ from' = from + 1
          /\ pc' = IF log.held[from + 1] \in ends THEN "header" ELSE "align"
     ELSE from' = from /\ pc' = "header"
  /\ UNCHANGED <<place, out, copied, noted, file, dst, size, read, measured>>

\* Mutant of Limit: the header says the cap.
LimitNominal == IF size > Max THEN Max ELSE size

Limit == size - from

Current == CHOOSE c \in out[dst] : TRUE

\* Disk full: the copy is removed.
Fail ==
  /\ pc \in {"align", "header", "copy"}
  /\ out' = [out EXCEPT ![dst] = {}]
  /\ pc' = "note"
  /\ UNCHANGED <<place, copied, noted, file, copying>>

Header ==
  /\ pc = "header"
  /\ out' = [out EXCEPT ![dst] = {[Current EXCEPT !.header = {Limit}]}]
  /\ pc' = "copy"
  /\ UNCHANGED <<place, copied, noted, file, copying>>

More == read < Limit /\ from + read < Len(log.held)

CopyUnit ==
  /\ pc = "copy" /\ More
  /\ out' = [out EXCEPT ![dst] =
       {[Current EXCEPT !.units = Append(@, log.held[from + read + 1])]}]
  /\ read' = read + 1
  /\ UNCHANGED <<pc, place, copied, noted, file, dst, size, from, measured>>

\* Mutant of Done: a copy that is cut off is not listed.
DoneUnlisted ==
  /\ pc = "copy" /\ ~More
  /\ copied' = IF size > Max THEN copied ELSE copied \cup {dst}
  /\ entry' = entry + 1 /\ pc' = "entries"
  /\ UNCHANGED <<paths, dirs, at, out, noted, file, copying>>

Done ==
  /\ pc = "copy" /\ ~More
  /\ copied' = copied \cup {dst}
  /\ entry' = entry + 1 /\ pc' = "entries"
  /\ UNCHANGED <<paths, dirs, at, out, noted, file, copying>>

Note ==
  /\ pc = "note"
  /\ noted' = noted \cup {<<dirs[at], entry>>}
  /\ entry' = entry + 1 /\ pc' = "entries"
  /\ UNCHANGED <<paths, dirs, at, out, copied, file, copying>>

Return ==
  /\ pc = "dirs" /\ at > Len(dirs)
  /\ pc' = "returned"
  /\ UNCHANGED <<place, out, copied, noted, file, copying>>

-----------------------------------------------------------------------------
(* The server and others, while a log is copied.                           *)

Busy == pc \in {"open", "create", "align", "header", "copy"}

Write ==
  /\ Busy /\ log.kind = "regular" /\ count < MaxUnits
  /\ count' = count + 1
  /\ log' = [log EXCEPT !.held = Append(@, count + 1)]
  /\ UNCHANGED <<pc, place, out, copied, noted, ends, cut, events, copying>>

\* A rotation that empties the log in place.
Empty ==
  /\ Busy /\ log.kind = "regular" /\ events < MaxEvents
  /\ log' = [log EXCEPT !.held = <<>>]
  /\ cut' = (pc # "open")
  /\ events' = events + 1
  /\ UNCHANGED <<pc, place, out, copied, noted, ends, count, copying>>

\* Something else takes the log's place before it is opened: a symbolic link,
\* a FIFO, or the next log of a rotation by renaming.
Swap ==
  /\ pc = "open" /\ events < MaxEvents
  /\ \E kind \in {"regular", "symlink", "other"} :
       log' = [kind |-> kind, held |-> <<>>]
  /\ events' = events + 1
  /\ UNCHANGED <<pc, place, out, copied, noted, ends, count, cut, copying>>

Tool ==
  \/ Add \/ Discovered \/ ReadDir \/ NextDir \/ Entry \/ Open \/ Create \/ Align \/ Header
  \/ Fail \/ CopyUnit \/ Done \/ Note \/ Return

Others == Write \/ Empty \/ Swap

Next == Tool \/ Others

Spec == Init /\ [][Next]_vars /\ WF_vars(Tool)

-----------------------------------------------------------------------------
(* Properties.                                                             *)

TypeOK ==
  /\ pc \in {"discover", "dirs", "entries", "open", "create", "align", "header", "copy", "note",
            "returned", "failed"}
  /\ paths \in Seq(Dir)
  /\ dirs \in Seq(Dir) /\ at \in 1..(Len(dirs) + 1) /\ entry \in Nat
  /\ DOMAIN out = Copy
  /\ \A c \in Copy : Cardinality(out[c]) <= 1
  /\ copied \subseteq Copy
  /\ dst \in Copy \cup {NoCopy}
  /\ log.kind \in {"regular", "symlink", "other"} /\ log.held \in Seq(Unit)
  /\ ends \subseteq Unit /\ count \in 0..MaxUnits
  /\ from \in 0..size /\ read \in 0..MaxUnits
  /\ measured \in Seq(Unit) /\ cut \in BOOLEAN /\ events \in 0..MaxEvents

\* What Result.Copied lists is there and nothing else is, except the copy that
\* is being made: no copy goes over another and none that failed stays, as long
\* as there are numbers left for copies of one name.
CopiedIsThere ==
  /\ \A c \in copied : out[c] # {}
  /\ \A c \in Copy : out[c] # {} => (c \in copied \/ c = dst)
  /\ pc \in {"align", "header", "copy"} => dst \notin copied

\* Every log of every directory has a copy that is listed or a note, never both
\* and never neither: a failure is "visible as absence plus a note" (copyTail).
EveryLogAccounted ==
  pc = "returned" =>
    \A n \in 1..Len(dirs) :
      \/ <<dirs[n], 0>> \in noted
      \/ \A k \in 1..Len(Holds[dirs[n]]) :
           <<dirs[n], k>> \in noted <=>
             ~\E c \in copied : \E held \in out[c] : held.of = <<dirs[n], k>>

\* The copy of a log that nobody empties in place is a snapshot: from one unit
\* on, everything up to the last one that the log held when it was measured.
Snapshot ==
  pc = "copy" /\ ~More /\ ~cut =>
    \E start \in 0..size :
      /\ Current.units = SubSeq(measured, start + 1, size)
      /\ size <= Max => start = 0
      /\ size > Max => start > 0 /\ (measured[start] \in ends \/ start = size - Max + Bound)

\* A copy with a header is of a log over the cap, and the header tells how many
\* bytes follow: "the header states the exact number of payload bytes kept".
HeaderIsExact ==
  pc = "copy" /\ ~More =>
    \A c \in out[dst] : c.header \subseteq {Len(c.units)}

\* The same as long as nobody empties the log in place.
HeaderIsExactUnlessCut == cut \/ HeaderIsExact

\* No copy is larger than the cap, however fast the log grows meanwhile.
WithinCap == \A c \in Copy : \A held \in out[c] : Len(held.units) <= Max

\* Whatever takes a log's place after the directory was read, what is copied is
\* a regular file's (openNoFollow and the fstat after it).
OnlyRegular == \A c \in Copy : \A held \in out[c] : held.kind = "regular"

\* The copying ends although the logs grow meanwhile.
Termination == <>(pc \in {"returned", "failed"})

-----------------------------------------------------------------------------
(* The refinement.                                                         *)

StageOf(p) ==
  CASE p = "discover" -> "finding"
    [] p \in {"returned", "failed"} -> p
    [] OTHER -> "taking"

InHand == pc \in {"create", "align", "header", "copy"}

ThisLog == <<dirs[at], entry>>

\* A log that is given up is as good as noted.
NotedOf == IF pc = "note" THEN noted \cup {ThisLog} ELSE noted

\* What the copies that are listed hold of a log.
TakenOf(l) ==
  {[header |-> c.header, units |-> c.units] :
     c \in {held \in UNION {out[listed] : listed \in copied} : held.of = l}}

LogIds == UNION {{<<d, n>> : n \in 1..Len(Holds[d])} : d \in Dir}

Taken == [l \in LogIds |-> TakenOf(l)]

Hand == IF InHand THEN {ThisLog} ELSE {}

Held == IF InHand THEN measured ELSE <<>>

Cut == InHand /\ cut

Snapshots == INSTANCE LogSnapshots WITH
  found <- Found, stage <- StageOf(pc), noted <- NotedOf, taken <- Taken,
  hand <- Hand, held <- Held, cut <- Cut

\* Whoever reads the bundle finds a copy or a note of every log, each as if it
\* had been taken at once and none touched afterwards, as long as there are
\* numbers left for copies of one name (Collect, copyTail).
TakesSnapshots == Snapshots!Spec
=============================================================================
