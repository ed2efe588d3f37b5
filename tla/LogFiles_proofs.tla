---------------------------- MODULE LogFiles_proofs ----------------------------
(***************************************************************************)
(* The copy of a log, for any cap, any bound on the search for an end of   *)
(* line, logs of any length, and any writing, rotating and replacing of    *)
(* them meanwhile.                                                         *)
(***************************************************************************)
EXTENDS LogFiles, SequenceTheorems, TLAPS

Kinds == {"regular", "symlink", "other"}

Making == {"align", "header", "copy"}

Typed ==
  /\ DOMAIN out = Copy
  /\ log \in [kind : Kinds, held : Seq(Unit)]
  /\ count \in 0..MaxUnits
  /\ size \in Nat /\ from \in Nat /\ read \in Nat
  /\ measured \in Seq(Unit)
  /\ pc \in Making \cup {"open", "create"} => dst \in Copy
  /\ pc \in {"open", "create"} => read = 0

\* What was measured is still there, unless the log was emptied in place.
Measured ==
  pc \in Making \cup {"create"} =>
    /\ size = Len(measured) /\ log.kind = "regular"
    /\ ~cut => size <= Len(log.held) /\ \A n \in 1..size : log.held[n] = measured[n]

\* Where the copy begins: the cap before the end, and then on to a line.
Placed ==
  pc \in Making =>
    /\ from <= size /\ size - from <= Max
    /\ pc \in {"align", "header"} => size > Max /\ read = 0
    /\ size > Max => from \in (size - Max)..(size - Max + Bound)
    /\ size <= Max => from = 0
    /\ pc # "align" /\ size > Max /\ ~cut =>
         measured[from] \in ends \/ from = size - Max + Bound

\* The copy so far, whose header is none or the true one.
Made(of, header, units) == [of |-> of, kind |-> "regular", header |-> header, units |-> units]

Copied ==
  pc \in Making =>
    \E of, header : \E units \in Seq(Unit) :
      /\ out[dst] = {Made(of, header, units)}
      /\ header \subseteq {Limit} /\ (pc # "copy" => header = {})
      /\ Len(units) = read /\ read <= Limit
      /\ ~cut => \A n \in 1..read : units[n] = measured[from + n]

\* Copies of whatever log, made before or being made.
Kept ==
  \A c \in Copy : \A held \in out[c] : Len(held.units) <= Max /\ held.kind = "regular"

LEMMA CurrentIs ==
  ASSUME NEW c, out[dst] = {c}
  PROVE  Current = c
  BY DEF Current

LEMMA Extended ==
  \A of, header, units, other :
    [Made(of, header, units) EXCEPT !.units = other] = Made(of, header, other)
  BY DEF Made

LEMMA Room ==
  ASSUME NEW s \in Nat, NEW f \in Nat, f <= s
  PROVE  0 <= s - f
  OBVIOUS

\* A copy that begins where it may holds no more than the cap.
LEMMA CapHeld ==
  ASSUME NEW s \in Nat, NEW f \in (s - Max)..(s - Max + Bound), s > Max
  PROVE  f <= s /\ s - f <= Max /\ f \in Nat
  BY LogAssumption

LEMMA CopiedThen ==
  ASSUME NEW of, NEW header, NEW units \in Seq(Unit),
         out'[dst'] = {Made(of, header, units)},
         header \subseteq {Limit'}, pc' # "copy" => header = {},
         Len(units) = read', read' <= Limit',
         ~cut' => \A n \in 1..read' : units[n] = measured'[from' + n]
  PROVE  Copied'
  BY Zenon DEF Copied

LEMMA InitLog == Init => Typed /\ Measured /\ Placed /\ Copied /\ Kept
<1> SUFFICES ASSUME Init
             PROVE  Typed /\ Measured /\ Placed /\ Copied /\ Kept
  OBVIOUS
<1>1. pc = "discover"
  BY DEF Init
<1>2. Typed
  <2>1. /\ DOMAIN out = Copy /\ log = [kind |-> "regular", held |-> <<>>]
        /\ count = 0 /\ size = 0 /\ from = 0 /\ read = 0 /\ measured = <<>>
    BY DEF Init
  <2>2. log \in [kind : Kinds, held : Seq(Unit)]
    BY <2>1 DEF Kinds
  <2> QED  BY <1>1, <2>1, <2>2, LogAssumption DEF Typed, Making
<1>3. Kept
  BY DEF Init, Kept
<1> QED  BY <1>1, <1>2, <1>3 DEF Measured, Placed, Copied, Making

\* Steps of the tool that make no copy.
Elsewhere == Add \/ Discovered \/ ReadDir \/ NextDir \/ Entry \/ Fail \/ Done \/ Note \/ Return

LEMMA ElsewhereKeeps ==
  ASSUME Typed, Kept, Elsewhere
  PROVE  Typed' /\ Measured' /\ Placed' /\ Copied' /\ Kept'
<1>1. pc' \notin Making \cup {"create"}
  BY DEF Elsewhere, Add, Discovered, ReadDir, NextDir, Entry, Fail, Done, Note, Return, Making
<1>2. \A c \in Copy : out'[c] \subseteq out[c]
  BY DEF Elsewhere, Add, Discovered, ReadDir, NextDir, Entry, Fail, Done, Note, Return, Typed
<1>3. Kept'
  BY <1>2 DEF Kept
<1>4. Typed'
  <2>1. CASE Entry
    <3>1. PICK kind \in Kinds, held \in 0..MaxUnits :
            log' = [kind |-> kind, held |-> [n \in 1..held |-> n]] /\ count' = held
      BY <2>1 DEF Entry, Kinds
    <3>2. [n \in 1..held |-> n] \in Seq(Unit)
      BY LogAssumption DEF Unit
    <3>3. log' \in [kind : Kinds, held : Seq(Unit)]
      BY <3>1, <3>2
    <3>4. /\ dst' \in Copy /\ out' = out /\ size' = 0 /\ from' = 0 /\ read' = 0 /\ measured' = <<>>
      BY <2>1 DEF Entry, UniqueName
    <3>5. count' \in 0..MaxUnits
      BY <3>1
    <3> QED  BY <3>3, <3>4, <3>5 DEF Typed
  <2>2. CASE ~Entry
    <3>1. UNCHANGED <<log, count, size, from, read, measured>>
      BY <2>2 DEF Elsewhere, Add, Discovered, ReadDir, NextDir, Fail, Done, Note, Return, file, copying
    <3>2. DOMAIN out' = DOMAIN out
      BY <2>2 DEF Elsewhere, Add, Discovered, ReadDir, NextDir, Fail, Done, Note, Return
    <3>3. pc' \notin Making \cup {"open", "create"}
      BY <2>2 DEF Elsewhere, Add, Discovered, ReadDir, NextDir, Fail, Done, Note, Return, Making
    <3> QED  BY <3>1, <3>2, <3>3 DEF Typed
  <2> QED  BY <2>1, <2>2
<1> QED  BY <1>1, <1>3, <1>4 DEF Measured, Placed, Copied

LogInv == Typed /\ Measured /\ Placed /\ Copied /\ Kept

LEMMA OpenKeeps ==
  ASSUME LogInv, Open
  PROVE  LogInv'
<1>1. /\ pc' \in {"create", "note"} /\ (pc' = "create" => log.kind = "regular")
      /\ size' = Len(log.held) /\ measured' = log.held
      /\ UNCHANGED <<out, log, count, cut, ends, dst, from>> /\ pc = "open" /\ read' = read
  BY DEF Open, file
<1>2. log.held \in Seq(Unit) /\ Len(log.held) \in Nat
  BY DEF LogInv, Typed
<1>a. read = 0
  BY <1>1 DEF LogInv, Typed
<1>3. Typed'
  BY <1>1, <1>2, <1>a DEF LogInv, Typed, Making
<1>4. Measured'
  BY <1>1, <1>2 DEF Measured, Making
<1>5. Kept'
  BY <1>1 DEF LogInv, Kept
<1> QED  BY <1>1, <1>3, <1>4, <1>5 DEF LogInv, Placed, Copied, Making

LEMMA CreateKeeps ==
  ASSUME LogInv, Create
  PROVE  LogInv'
<1>0. /\ pc = "create" /\ dst \in Copy /\ read = 0 /\ size \in Nat /\ DOMAIN out = Copy
      /\ UNCHANGED <<log, count, cut, ends, dst, size, read, measured>>
      /\ log.kind = "regular" /\ Max \in Nat /\ Bound \in Nat
  BY LogAssumption DEF Create, file, LogInv, Typed, Measured
<1>1. CASE pc' = "note" /\ UNCHANGED <<from, out>>
  BY <1>0, <1>1 DEF LogInv, Typed, Measured, Placed, Copied, Kept, Making
<1>2. CASE /\ pc' = IF size > Max THEN "align" ELSE "copy"
           /\ from' = IF size > Max THEN size - Max ELSE 0
           /\ out' = [out EXCEPT ![dst] = {[of |-> <<dirs[at], entry>>, kind |-> log.kind,
                                         header |-> {}, units |-> <<>>]}]
  <2>1. out'[dst] = {Made(<<dirs[at], entry>>, {}, <<>>)}
    BY <1>0, <1>2 DEF Made
  <2>2. from' \in Nat /\ from' <= size /\ size - from' <= Max
    BY <1>0, <1>2
  <2>3. Typed'
    BY <1>0, <1>2, <2>2 DEF LogInv, Typed, Making
  <2>4. Measured'
    BY <1>0, <1>2 DEF LogInv, Measured, Making
  <2>5. Placed'
    BY <1>0, <1>2, <2>2 DEF Placed, Making
  <2>6. Copied'
    <3>1. <<>> \in Seq(Unit) /\ Len(<<>>) = 0
      OBVIOUS
    <3>2. Limit' = size - from' /\ dst' = dst /\ read' = 0
      BY <1>0 DEF Limit
    <3>3. read' <= Limit' /\ \A n \in 1..read' : FALSE
      <4>1. 0 <= size - from'
        BY <1>0, <2>2, Room
      <4> QED  BY <3>2, <4>1
    <3>4. pc' # "copy" => {} = {}
      OBVIOUS
    <3> QED  BY <2>1, <3>1, <3>2, <3>3, CopiedThen
  <2>7. Kept'
    <3>1. Len(<<>>) <= Max
      BY <1>0
    <3>2. \A c \in Copy : c # dst => out'[c] = out[c]
      BY <1>0, <1>2
    <3> QED  BY <2>1, <3>1, <3>2 DEF LogInv, Kept, Made
  <2> QED  BY <2>3, <2>4, <2>5, <2>6, <2>7 DEF LogInv
<1> QED  BY <1>1, <1>2 DEF Create

LEMMA AlignKeeps ==
  ASSUME LogInv, Align
  PROVE  LogInv'
<1>0. /\ pc = "align" /\ dst \in Copy /\ read = 0 /\ size \in Nat /\ from \in Nat /\ size > Max
      /\ UNCHANGED <<out, log, count, cut, ends, dst, size, read, measured>>
      /\ Max \in Nat /\ Bound \in 1..Max /\ log.held \in Seq(Unit) /\ Len(log.held) \in Nat
      /\ from \in (size - Max)..(size - Max + Bound)
  BY LogAssumption DEF Align, file, LogInv, Typed, Measured, Placed, Making
<1>1. pc' \in {"align", "header"} /\ from' \in (size - Max)..(size - Max + Bound) /\ from <= from'
  BY <1>0 DEF Align
<1>2. Typed'
  BY <1>0, <1>1 DEF LogInv, Typed, Making
<1>3. Measured'
  BY <1>0, <1>1 DEF LogInv, Measured, Making
<1>4. ASSUME pc' = "header", ~cut
      PROVE  measured[from'] \in ends \/ from' = size - Max + Bound
  <2>0. size <= Len(log.held) /\ \A n \in 1..size : log.held[n] = measured[n]
    BY <1>0, <1>4 DEF LogInv, Measured, Making
  <2>1. CASE from - (size - Max) < Bound /\ from < Len(log.held)
    <3>1. from' = from + 1 /\ log.held[from + 1] \in ends
      BY <1>4, <2>1 DEF Align
    <3>2. from + 1 \in 1..size
      BY <1>0, <2>1
    <3> QED  BY <2>0, <3>1, <3>2
  <2>2. CASE ~(from - (size - Max) < Bound /\ from < Len(log.held))
    <3>1. from' = from
      BY <2>2 DEF Align
    <3> QED  BY <1>0, <2>0, <2>2, <3>1
  <2> QED  BY <2>1, <2>2
<1>5. Placed'
  <2>1. from' <= size /\ size - from' <= Max
    BY <1>0, <1>1, CapHeld
  <2>2. size' = size /\ read' = 0 /\ cut' = cut /\ measured' = measured /\ ends' = ends
    BY <1>0
  <2>3. pc' # "align" /\ ~cut => measured[from'] \in ends \/ from' = size - Max + Bound
    BY <1>1, <1>4
  <2>4. size' > Max /\ ~(size' <= Max) /\ from' \in (size' - Max)..(size' - Max + Bound)
    BY <1>0, <1>1, <2>2
  <2> QED  BY <2>1, <2>2, <2>3, <2>4 DEF Placed
<1>6. Copied'
  <2>1. PICK of, header : \E units \in Seq(Unit) :
          out[dst] = {Made(of, header, units)} /\ header = {} /\ Len(units) = read
    BY <1>0 DEF LogInv, Copied, Making
  <2>2. PICK units \in Seq(Unit) : out[dst] = {Made(of, header, units)} /\ header = {} /\ Len(units) = read
    BY <2>1
  <2>3. Limit' = size - from' /\ dst' = dst /\ out' = out /\ read' = 0
    BY <1>0 DEF Limit
  <2>4. read' <= Limit' /\ \A n \in 1..read' : FALSE
    <3>1. 0 <= size - from'
      BY <1>0, <1>1, CapHeld, Room
    <3> QED  BY <2>3, <3>1
  <2> QED  BY <1>0, <2>2, <2>3, <2>4, CopiedThen
<1>7. Kept'
  BY <1>0 DEF LogInv, Kept
<1> QED  BY <1>2, <1>3, <1>5, <1>6, <1>7 DEF LogInv

LEMMA HeaderKeeps ==
  ASSUME LogInv, Header
  PROVE  LogInv'
<1>0. /\ pc = "header" /\ pc' = "copy" /\ dst \in Copy /\ read = 0 /\ DOMAIN out = Copy
      /\ UNCHANGED <<log, count, cut, ends, dst, size, from, read, measured>>
      /\ out' = [out EXCEPT ![dst] = {[Current EXCEPT !.header = {Limit}]}]
  BY DEF Header, file, copying, LogInv, Typed, Placed, Making
<1>1. PICK of, header : \E units \in Seq(Unit) :
        /\ out[dst] = {Made(of, header, units)}
        /\ Len(units) = read /\ read <= Limit
  BY <1>0 DEF LogInv, Copied, Making
<1>2. PICK units \in Seq(Unit) :
        /\ out[dst] = {Made(of, header, units)}
        /\ Len(units) = read /\ read <= Limit
  BY <1>1
<1>3. Current = Made(of, header, units)
  BY <1>2, CurrentIs
<1>4. [Current EXCEPT !.header = {Limit}] = Made(of, {Limit}, units)
  <2>1. PICK other : other = {Limit}
    OBVIOUS
  <2>2. [Made(of, header, units) EXCEPT !.header = other] = Made(of, other, units)
    BY DEF Made
  <2> QED  BY <1>3, <2>1, <2>2, Zenon
<1>5. out'[dst] = {Made(of, {Limit}, units)}
  BY <1>0, <1>4
<1>6. \A c \in Copy : c # dst => out'[c] = out[c]
  BY <1>0
<1>7. Copied'
  <2>1. Limit' = Limit /\ dst' = dst /\ read' = read
    BY <1>0 DEF Limit
  <2>2. \A n \in 1..read' : FALSE
    BY <1>0, <2>1
  <2> QED  BY <1>0, <1>2, <1>5, <2>1, <2>2, CopiedThen
<1>8. Kept'
  <2>1. Made(of, header, units).units = units
    BY DEF Made
  <2>2. Made(of, header, units) \in out[dst]
    BY <1>2
  <2>3. Len(units) <= Max
    BY <1>0, <2>1, <2>2 DEF LogInv, Kept
  <2> QED  BY <1>5, <1>6, <2>3 DEF LogInv, Kept, Made
<1>9. Typed' /\ Measured' /\ Placed'
  BY <1>0 DEF LogInv, Typed, Measured, Placed, Making
<1> QED  BY <1>7, <1>8, <1>9 DEF LogInv

LEMMA CopyUnitKeeps ==
  ASSUME LogInv, CopyUnit
  PROVE  LogInv'
<1>0. /\ pc = "copy" /\ pc' = "copy" /\ dst \in Copy /\ read \in Nat /\ DOMAIN out = Copy
      /\ UNCHANGED <<log, count, cut, ends, dst, size, from, measured>> /\ read' = read + 1
      /\ out' = [out EXCEPT ![dst] = {[Current EXCEPT !.units = Append(@, log.held[from + read + 1])]}]
      /\ read < Limit /\ from + read < Len(log.held) /\ log.held \in Seq(Unit) /\ Len(log.held) \in Nat
  BY DEF CopyUnit, More, file, LogInv, Typed, Making
<1>a. /\ from <= size /\ size - from <= Max /\ size \in Nat /\ from \in Nat /\ Max \in Nat
  BY <1>0, LogAssumption DEF LogInv, Typed, Placed, Making
<1>b. Limit = size - from
  BY DEF Limit
<1>1. PICK of, header : \E units \in Seq(Unit) :
        /\ out[dst] = {Made(of, header, units)}
        /\ header \subseteq {Limit}
        /\ Len(units) = read
        /\ ~cut => \A n \in 1..read : units[n] = measured[from + n]
  BY <1>0 DEF LogInv, Copied, Making
<1>2. PICK units \in Seq(Unit) :
        /\ out[dst] = {Made(of, header, units)}
        /\ header \subseteq {Limit}
        /\ Len(units) = read
        /\ ~cut => \A n \in 1..read : units[n] = measured[from + n]
  BY <1>1
<1> DEFINE unit == log.held[from + read + 1]
           more == Append(units, unit)
<1>3. unit \in Unit
  BY <1>0, <1>a
<1>4. /\ more \in Seq(Unit) /\ Len(more) = read + 1 /\ more[read + 1] = unit
      /\ \A n \in 1..read : more[n] = units[n]
  BY <1>2, <1>3, AppendProperties
<1>5. ~cut => unit = measured[from + read + 1]
  <2>1. from + read + 1 \in 1..size
    BY <1>0, <1>a, <1>b
  <2> QED  BY <1>0, <2>1 DEF LogInv, Measured, Making
<1>6. [Current EXCEPT !.units = Append(@, unit)] = Made(of, header, more)
  <2>1. Current = Made(of, header, units)
    BY <1>2, CurrentIs
  <2>2. Current.units = units
    BY <2>1 DEF Made
  <2>3. [Current EXCEPT !.units = more] = Made(of, header, more)
    <3> HIDE DEF more
    <3> QED  BY <2>1, Extended
  <2>4. [Current EXCEPT !.units = Append(@, unit)] = [Current EXCEPT !.units = Append(Current.units, unit)]
    OBVIOUS
  <2> QED  BY <2>2, <2>3, <2>4
<1>7. out'[dst] = {Made(of, header, more)} /\ \A c \in Copy : c # dst => out'[c] = out[c]
  BY <1>0, <1>6
<1> HIDE DEF more, unit
<1>8. Copied'
  <2>1. Limit' = Limit /\ read' = read + 1 /\ dst' = dst /\ pc' = "copy" /\ cut' = cut
        /\ measured' = measured /\ from' = from
    BY <1>0 DEF Limit
  <2>2. ASSUME ~cut, NEW n \in 1..(read + 1)
        PROVE  more[n] = measured[from + n]
    <3>1. n \in 1..read \/ n = read + 1
      BY <1>0
    <3>2. from + (read + 1) = from + read + 1
      BY <1>0, <1>a
    <3> QED  BY <1>2, <1>4, <1>5, <2>2, <3>1, <3>2
  <2>3. read + 1 <= Limit
    BY <1>0, <1>a, <1>b
  <2>4. out'[dst'] = {Made(of, header, more)}
    BY <1>7, <2>1
  <2>5. ~cut' => \A n \in 1..read' : more[n] = measured'[from' + n]
    BY <2>1, <2>2
  <2> QED  BY <1>2, <1>4, <2>1, <2>3, <2>4, <2>5, CopiedThen
<1>9. Kept'
  <2>1. Len(more) <= Max
    BY <1>0, <1>a, <1>b, <1>4
  <2> QED  BY <1>7, <2>1 DEF LogInv, Kept, Made
<1>10. Typed' /\ Measured' /\ Placed'
  BY <1>0 DEF LogInv, Typed, Measured, Placed, Making
<1> QED  BY <1>8, <1>9, <1>10 DEF LogInv

LEMMA OthersKeep ==
  ASSUME LogInv, Others
  PROVE  LogInv'
<1>0. log \in [kind : Kinds, held : Seq(Unit)] /\ log.held \in Seq(Unit) /\ log.kind \in Kinds
  BY DEF LogInv, Typed
<1>1. UNCHANGED <<pc, out, dst, size, from, read, measured, ends>>
  BY DEF Others, Write, Empty, Swap, copying
<1>2. cut => cut' \/ pc = "open"
  BY DEF Others, Write, Empty, Swap
<1>3. /\ count' \in 0..MaxUnits
      /\ log' \in [kind : Kinds, held : Seq(Unit)]
  <2>1. CASE Write
    <3>1. count' = count + 1 /\ count < MaxUnits /\ log' = [log EXCEPT !.held = Append(log.held, count + 1)]
      BY <2>1 DEF Write
    <3>2. count + 1 \in Unit /\ count' \in 0..MaxUnits
      BY <3>1, LogAssumption DEF LogInv, Typed, Unit
    <3>3. Append(log.held, count + 1) \in Seq(Unit)
      BY <1>0, <3>2
    <3> QED  BY <1>0, <3>1, <3>2, <3>3
  <2>2. /\ <<>> \in Seq(Unit)
        /\ count \in 0..MaxUnits
    BY DEF LogInv, Typed
  <2>3. CASE Empty
    <3>1. count' = count /\ log' = [log EXCEPT !.held = <<>>]
      BY <2>3 DEF Empty
    <3> QED  BY <1>0, <2>2, <3>1
  <2>4. CASE Swap
    <3>1. PICK kind \in {"regular", "symlink", "other"} : log' = [kind |-> kind, held |-> <<>>]
      BY <2>4 DEF Swap
    <3>2. count' = count
      BY <2>4 DEF Swap
    <3>3. kind \in Kinds
      BY DEF Kinds
    <3> QED  BY <2>2, <3>1, <3>2, <3>3
  <2> QED  BY <2>1, <2>3, <2>4 DEF Others
<1>4. Typed'
  BY <1>1, <1>3 DEF LogInv, Typed
<1>5. Measured'
  <2> SUFFICES ASSUME pc \in Making \cup {"create"}
               PROVE  /\ size = Len(measured) /\ log'.kind = "regular"
                      /\ ~cut' => size <= Len(log'.held) /\ \A n \in 1..size : log'.held[n] = measured[n]
    BY <1>1 DEF Measured
  <2>0. size = Len(measured) /\ log.kind = "regular" /\ size \in Nat
    BY DEF LogInv, Measured, Typed
  <2>1. CASE Write
    <3>1. log' = [log EXCEPT !.held = Append(log.held, count + 1)] /\ cut' = cut
      BY <2>1 DEF Write
    <3>2. log'.held = Append(log.held, count + 1) /\ log'.kind = log.kind
      BY <1>0, <3>1
    <3>3. count + 1 \in Unit
      BY <2>1, LogAssumption, SMTT(20) DEF Write, LogInv, Typed, Unit
    <3>4. /\ Len(log'.held) = Len(log.held) + 1 /\ Len(log.held) \in Nat
          /\ \A n \in 1..Len(log.held) : log'.held[n] = log.held[n]
      BY <1>0, <3>2, <3>3, AppendProperties
    <3>5. ~cut => size <= Len(log.held) /\ \A n \in 1..size : log.held[n] = measured[n]
      BY DEF LogInv, Measured
    <3> QED  BY <2>0, <3>1, <3>2, <3>4, <3>5
  <2>2. CASE Empty
    BY <1>0, <2>0, <2>2 DEF Empty, Making
  <2>3. CASE Swap
    BY <2>3 DEF Swap, Making
  <2> QED  BY <2>1, <2>2, <2>3 DEF Others
<1>6. Placed'
  BY <1>1, <1>2 DEF LogInv, Placed, Making
<1>7. Copied'
  <2> SUFFICES ASSUME pc \in Making
               PROVE  Copied'
    BY <1>1 DEF Copied
  <2>1. PICK of, header : \E units \in Seq(Unit) :
          /\ out[dst] = {Made(of, header, units)}
          /\ header \subseteq {Limit} /\ (pc # "copy" => header = {})
          /\ Len(units) = read /\ read <= Limit
          /\ ~cut => \A n \in 1..read : units[n] = measured[from + n]
    BY DEF LogInv, Copied
  <2>2. PICK units \in Seq(Unit) :
          /\ out[dst] = {Made(of, header, units)}
          /\ header \subseteq {Limit} /\ (pc # "copy" => header = {})
          /\ Len(units) = read /\ read <= Limit
          /\ ~cut => \A n \in 1..read : units[n] = measured[from + n]
    BY <2>1
  <2>3. Limit' = Limit /\ (cut => cut')
    BY <1>1, <1>2 DEF Limit, Making
  <2> QED  BY <1>1, <2>2, <2>3, CopiedThen
<1>8. Kept'
  BY <1>1 DEF LogInv, Kept
<1> QED  BY <1>4, <1>5, <1>6, <1>7, <1>8 DEF LogInv

\* While a log is copied the copy is the end of what was measured, as far as it
\* has been read, unless the log was emptied in place; it begins where it may,
\* and no copy made before is touched.
THEOREM LogInvariant == Spec => []LogInv
<1>1. Init => LogInv
  BY InitLog DEF LogInv
<1>2. ASSUME LogInv, [Next]_vars
      PROVE  LogInv'
  <2>1. CASE UNCHANGED vars
    <3>1. UNCHANGED <<pc, out, log, count, size, from, read, measured, dst, cut, ends>>
      BY <2>1 DEF vars, file, copying
    <3>2. Limit' = Limit
      BY <3>1 DEF Limit
    <3>3. Copied'
      BY <3>1, <3>2, <1>2 DEF LogInv, Copied
    <3> QED  BY <3>1, <3>3, <1>2 DEF LogInv, Typed, Measured, Placed, Kept
  <2>2. CASE Elsewhere
    BY <1>2, <2>2, ElsewhereKeeps DEF LogInv
  <2> QED
    BY <1>2, <2>1, <2>2, OpenKeeps, CreateKeeps, AlignKeeps, HeaderKeeps, CopyUnitKeeps, OthersKeep
       DEF Next, Tool, Elsewhere
<1> QED  BY <1>1, <1>2, PTL DEF Spec

-----------------------------------------------------------------------------
\* The copy that is finished, as the invariant has it.
LEMMA Finished ==
  ASSUME LogInv, pc = "copy", ~More, ~cut
  PROVE  \E of, header : \E units \in Seq(Unit) :
           /\ out[dst] = {Made(of, header, units)} /\ header \subseteq {Limit}
           /\ Len(units) = Limit
           /\ \A n \in 1..Limit : units[n] = measured[from + n]
<1>1. /\ from <= size /\ size \in Nat /\ from \in Nat /\ read \in Nat /\ size <= Len(log.held)
      /\ Len(log.held) \in Nat
  <2>1. log.held \in Seq(Unit)
    BY DEF LogInv, Typed
  <2> QED  BY <2>1 DEF LogInv, Typed, Placed, Measured, Making
<1>2. read <= Limit
  BY DEF LogInv, Copied, Making
<1>3. read = Limit
  BY <1>1, <1>2 DEF More, Limit
<1> QED  BY <1>3 DEF LogInv, Copied, Making

\* The header of a copy tells exactly how many bytes follow it, for any cap and
\* however the log grows, unless the log is emptied in place while it is copied.
THEOREM HeaderTells == Spec => []HeaderIsExactUnlessCut
<1>1. ASSUME LogInv, ~cut, pc = "copy", ~More, NEW c \in out[dst]
      PROVE  c.header \subseteq {Len(c.units)}
  <2>1. PICK of, header : \E units \in Seq(Unit) :
           out[dst] = {Made(of, header, units)} /\ header \subseteq {Limit} /\ Len(units) = Limit
    BY <1>1, Finished
  <2>2. PICK units \in Seq(Unit) :
           out[dst] = {Made(of, header, units)} /\ header \subseteq {Limit} /\ Len(units) = Limit
    BY <2>1
  <2>3. c.header = header /\ c.units = units
    BY <1>1, <2>2 DEF Made
  <2> QED  BY <2>2, <2>3
<1>2. LogInv => HeaderIsExactUnlessCut
  BY <1>1 DEF HeaderIsExactUnlessCut, HeaderIsExact
<1> QED  BY <1>2, LogInvariant, PTL

\* What is copied is the end of the log as it was measured, from the beginning
\* or from a line on, for any cap and any bound on the search for the line.
THEOREM CopyIsSnapshot == Spec => []Snapshot
<1>1. ASSUME LogInv, pc = "copy", ~More, ~cut
      PROVE  \E start \in 0..size :
               /\ Current.units = SubSeq(measured, start + 1, size)
               /\ size <= Max => start = 0
               /\ size > Max => start > 0 /\ (measured[start] \in ends \/ start = size - Max + Bound)
  <2>1. PICK of, header : \E units \in Seq(Unit) :
           /\ out[dst] = {Made(of, header, units)} /\ Len(units) = Limit
           /\ \A n \in 1..Limit : units[n] = measured[from + n]
    BY <1>1, Finished
  <2>2. PICK units \in Seq(Unit) :
           /\ out[dst] = {Made(of, header, units)} /\ Len(units) = Limit
           /\ \A n \in 1..Limit : units[n] = measured[from + n]
    BY <2>1
  <2>3. Current.units = units
    <3>1. Current = Made(of, header, units)
      BY <2>2, CurrentIs
    <3> QED  BY <3>1 DEF Made
  <2>4. /\ from \in 0..size /\ size \in Nat /\ size = Len(measured) /\ measured \in Seq(Unit)
        /\ Max \in Nat /\ Bound \in Nat
    BY <1>1, LogAssumption DEF LogInv, Typed, Placed, Measured, Making
  <2>5. /\ SubSeq(measured, from + 1, size) \in Seq(Unit)
        /\ Len(SubSeq(measured, from + 1, size)) = size - from
        /\ \A n \in 1..(size - from) : SubSeq(measured, from + 1, size)[n] = measured[from + n]
    BY <2>4
  <2>6. units = SubSeq(measured, from + 1, size)
    BY <2>2, <2>5, SeqEqual DEF Limit
  <2>7. /\ size <= Max => from = 0
        /\ size > Max => from > 0 /\ (measured[from] \in ends \/ from = size - Max + Bound)
    BY <1>1, <2>4 DEF LogInv, Placed, Making
  <2> QED  BY <2>3, <2>4, <2>6, <2>7
<1>2. LogInv => Snapshot
  BY <1>1 DEF Snapshot
<1> QED  BY <1>2, LogInvariant, PTL

\* No copy is over the cap, however fast the log grows (io.LimitReader).
THEOREM CopyIsCapped == Spec => []WithinCap
<1>1. LogInv => WithinCap
  BY DEF LogInv, Kept, WithinCap
<1> QED  BY <1>1, LogInvariant, PTL

\* Nothing but a regular file is copied, whatever is put in a log's place
\* (openNoFollow and the fstat after it).
THEOREM RegularOnly == Spec => []OnlyRegular
<1>1. LogInv => OnlyRegular
  BY DEF LogInv, Kept, OnlyRegular
<1> QED  BY <1>1, LogInvariant, PTL

-----------------------------------------------------------------------------
(* The books: which log of which directory has a copy or a note.           *)

Working == Making \cup {"open", "create", "note"}

Inside == Working \cup {"entries"}

\* Each directory is listed once, and the loops are where they may be.
Walk ==
  /\ pc \in Inside \cup {"discover", "dirs", "returned", "failed"}
  /\ paths \in Seq(Dir) /\ dirs \in Seq(Dir)
  /\ \A m, n \in 1..Len(dirs) : dirs[m] = dirs[n] => m = n
  /\ at \in Nat \ {0} /\ entry \in Nat \ {0}
  /\ pc = "discover" => at = 1
  /\ pc \in Inside => at <= Len(dirs)
  /\ pc \in Working => entry <= Len(Holds[dirs[at]])
  /\ pc = "returned" => at > Len(dirs)

\* The logs of the directories.
Logs == {l \in (1..Len(dirs)) \X (Nat \ {0}) : l[2] <= Len(Holds[dirs[l[1]]])}

\* Logs that the loops are done with.
Past == {l \in Logs : l[1] < at \/ (l[1] = at /\ pc \in Inside /\ l[2] < entry)}

Log(l) == <<dirs[l[1]], l[2]>>

NameOf(l) == Holds[dirs[l[1]]][l[2]]

HasCopy(l) == \E c \in copied : \E held \in out[c] : held.of = Log(l)

\* A copy that is there is listed or is being made.
Listed ==
  /\ copied \subseteq Copy
  /\ \A c \in copied : out[c] # {}
  /\ \A c \in Copy : out[c] # {} => c \in copied \/ (c = dst /\ pc \in Making)

\* The copy being made is a new one, of the log at hand.
New ==
  pc \in Working =>
    /\ dst \in Copy /\ dst[1] = NameOf(<<at, entry>>) /\ dst[2] <= at /\ dst \notin copied
    /\ IF pc \in Making THEN out[dst] # {} ELSE out[dst] = {}
    /\ \A held \in out[dst] : held.of = Log(<<at, entry>>)

\* A listed copy is of a log that the loops are done with, and its number is no
\* higher than there were directories until then: so the next one is free.
Numbered ==
  \A c \in copied : \A held \in out[c] :
    \E l \in Past : held.of = Log(l) /\ c[1] = NameOf(l) /\ c[2] <= l[1]

\* A note names a log that the loops are done with, or a directory.
Noted ==
  \A note \in noted :
    \/ \E n \in 1..Len(dirs) : n < at /\ note = <<dirs[n], 0>>
    \/ \E l \in Past : note = Log(l)

Accounted ==
  \A l \in Past : <<dirs[l[1]], 0>> \notin noted => (Log(l) \in noted <=> ~HasCopy(l))

Books == Listed /\ New /\ Numbered /\ Noted /\ Accounted

\* As long as there are as many numbers as directories.
Enough == Len(dirs) <= Last

BooksInv == Walk /\ (Enough => Books)

LEMMA InitWalk == Init => Walk
<1> SUFFICES ASSUME Init
             PROVE  Walk
  OBVIOUS
<1>1. PICK flag \in Dir \cup {NoDir}, n \in 0..MaxPaths : \E configured \in [1..n -> Dir] :
        paths = Paths(flag, configured)
  BY DEF Init
<1>2. PICK configured \in [1..n -> Dir] : paths = Paths(flag, configured)
  BY <1>1
<1>3. configured \in Seq(Dir)
  BY LogAssumption
<1>4. paths \in Seq(Dir)
  BY <1>2, <1>3, LogAssumption DEF Paths
<1>5. pc = "discover" /\ dirs = <<>> /\ at = 1 /\ entry = 1
  BY DEF Init
<1> QED  BY <1>4, <1>5 DEF Walk, Inside, Working, Making

LEMMA AddWalks ==
  ASSUME Walk, Add
  PROVE  Walk'
<1>1. /\ pc = "discover" /\ paths # <<>> /\ paths' = Tail(paths) /\ UNCHANGED <<pc, at, entry>>
      /\ paths \in Seq(Dir) /\ dirs \in Seq(Dir)
  BY DEF Add, Walk
<1>2. paths' \in Seq(Dir) /\ Head(paths) \in Dir
  BY <1>1
<1>3. CASE dirs' = dirs
  BY <1>1, <1>2, <1>3 DEF Walk, Inside, Working, Making
<1>4. CASE Head(paths) \notin Found /\ dirs' = Append(dirs, Head(paths))
  <2>1. /\ dirs' \in Seq(Dir) /\ Len(dirs') = Len(dirs) + 1 /\ dirs'[Len(dirs) + 1] = Head(paths)
        /\ \A n \in 1..Len(dirs) : dirs'[n] = dirs[n] /\ dirs[n] # Head(paths)
        /\ Len(dirs) \in Nat
    BY <1>1, <1>2, <1>4, AppendProperties DEF Found
  <2>2. \A m, n \in 1..Len(dirs') : dirs'[m] = dirs'[n] => m = n
    <3> SUFFICES ASSUME NEW m \in 1..Len(dirs'), NEW n \in 1..Len(dirs'), dirs'[m] = dirs'[n]
                 PROVE  m = n
      OBVIOUS
    <3>1. (m \in 1..Len(dirs) \/ m = Len(dirs) + 1) /\ (n \in 1..Len(dirs) \/ n = Len(dirs) + 1)
      BY <2>1
    <3> QED  BY <2>1, <3>1 DEF Walk
  <2> QED  BY <1>1, <1>2, <2>1, <2>2 DEF Walk, Inside, Working, Making
<1> QED  BY <1>3, <1>4 DEF Add

LEMMA WalkOn ==
  ASSUME Walk, Next
  PROVE  Walk'
<1>1. CASE Add
  BY <1>1, AddWalks
<1>2. CASE ~Add
  <2>1. paths' = paths /\ dirs' = dirs
    BY <1>2 DEF Next, Tool, Others, Discovered, ReadDir, NextDir, Entry, Open, Create, Align,
       Header, Fail, CopyUnit, Done, Note, Return, Write, Empty, Swap, place
  <2>2. Len(dirs) \in Nat /\ at \in Nat /\ entry \in Nat /\ at > 0 /\ entry > 0
    BY DEF Walk
  <2>3. CASE Discovered \/ ReadDir \/ NextDir \/ Return
    <3>1. CASE Discovered
      <4>1. dirs = <<>> => Len(dirs) = 0
        OBVIOUS
      <4> QED  BY <2>1, <2>2, <3>1, <4>1 DEF Discovered, Walk, Inside, Working, Making, place
    <3>2. CASE ReadDir \/ NextDir \/ Return
      BY <2>1, <2>2, <3>2 DEF ReadDir, NextDir, Return, Walk, Inside, Working, Making, place
    <3> QED  BY <2>3, <3>1, <3>2
  <2>4. CASE Entry
    <3>1. Len(Holds[dirs[at]]) \in Nat
      BY <2>4, LogAssumption DEF Entry, Walk, Inside
    <3>2. pc' \in Working /\ pc \in Inside /\ at' = at /\ entry' = entry /\ entry <= Len(Holds[dirs[at]])
      BY <2>4 DEF Entry, Working, Inside, place
    <3> QED  BY <2>1, <2>2, <3>2 DEF Walk, Inside, Working, Making
  <2>5. CASE Open \/ Create \/ Align \/ Header \/ Fail \/ CopyUnit
    <3>1. pc \in Working /\ pc' \in Working /\ at' = at /\ entry' = entry
      BY <2>5 DEF Open, Create, Align, Header, Fail, CopyUnit, Working, Making, place
    <3> QED  BY <2>1, <2>2, <3>1 DEF Walk, Inside, Working, Making
  <2>6. CASE Done \/ Note
    BY <2>1, <2>2, <2>6 DEF Done, Note, Walk, Inside, Working, Making
  <2>7. CASE Others
    BY <2>1, <2>7 DEF Others, Write, Empty, Swap, Walk, place
  <2> QED  BY <1>2, <2>3, <2>4, <2>5, <2>6, <2>7 DEF Next, Tool
<1> QED  BY <1>1, <1>2

\* What a log is does not change once the directories are found.
LEMMA SameLogs ==
  ASSUME dirs' = dirs
  PROVE  Logs' = Logs /\ \A l : Log(l)' = Log(l) /\ NameOf(l)' = NameOf(l)
  BY DEF Logs, Log, NameOf

LEMMA LogIs ==
  ASSUME Walk, NEW l \in Logs
  PROVE  /\ l[1] \in 1..Len(dirs) /\ l[2] \in Nat \ {0} /\ l = <<l[1], l[2]>>
         /\ l[2] \in 1..Len(Holds[dirs[l[1]]]) /\ dirs[l[1]] \in Dir
         /\ Len(Holds[dirs[l[1]]]) \in Nat
<1>1. /\ l[1] \in 1..Len(dirs) /\ l[2] \in Nat \ {0} /\ l = <<l[1], l[2]>>
      /\ l[2] <= Len(Holds[dirs[l[1]]])
  BY DEF Logs
<1>2. dirs[l[1]] \in Dir
  BY <1>1 DEF Walk
<1>3. Len(Holds[dirs[l[1]]]) \in Nat
  BY <1>2, LogAssumption
<1> QED  BY <1>1, <1>2, <1>3

\* A log is named once: each directory is listed once.
LEMMA LogOnce ==
  ASSUME Walk, NEW l \in Logs, NEW m \in Logs, Log(l) = Log(m)
  PROVE  l = m
<1>1. dirs[l[1]] = dirs[m[1]] /\ l[2] = m[2]
  BY DEF Log
<1>2. l[1] = m[1]
  BY <1>1, LogIs DEF Walk
<1> QED  BY <1>1, <1>2, LogIs

\* The log at hand is none of those the loops are done with.
LEMMA AtHand ==
  ASSUME Walk, pc \in Working
  PROVE  <<at, entry>> \in Logs /\ <<at, entry>> \notin Past
<1>1. at \in 1..Len(dirs) /\ entry \in Nat \ {0} /\ entry <= Len(Holds[dirs[at]])
  BY DEF Walk, Inside
<1>2. <<at, entry>> \in Logs
  BY <1>1 DEF Logs
<1> QED  BY <1>1, <1>2 DEF Past

LEMMA StillPast ==
  ASSUME Walk, UNCHANGED <<dirs, at, entry>>, pc \in Inside, pc' \in Inside
  PROVE  Past' = Past
<1>1. Logs' = Logs
  BY SameLogs
<1> QED  BY <1>1 DEF Past

\* A step of the copying leaves the books as they are.
LEMMA WorkingKeeps ==
  ASSUME Walk, Books, UNCHANGED <<dirs, at, entry, dst, copied, noted>>,
         pc \in Working, pc' \in Working,
         \A c \in Copy : c # dst => out'[c] = out[c],
         IF pc' \in Making THEN out'[dst] # {} ELSE out'[dst] = {},
         \A held \in out'[dst] : held.of = Log(<<at, entry>>)
  PROVE  Books'
<1>1. Past' = Past
  BY StillPast DEF Inside
<1>2. \A l : Log(l)' = Log(l) /\ NameOf(l)' = NameOf(l)
  BY SameLogs
<1>3. dst \notin copied /\ copied \subseteq Copy /\ dst \in Copy
  BY DEF Books, New, Listed
<1>4. \A c \in copied : out'[c] = out[c]
  BY <1>3
<1>5. Listed'
  BY <1>3, <1>4 DEF Books, Listed, New
<1>6. New'
  BY <1>2, <1>3 DEF Books, New
<1>7. Numbered'
  BY <1>1, <1>2, <1>4 DEF Books, Numbered
<1>8. Noted'
  BY <1>1, <1>2 DEF Books, Noted
<1>9. \A l : HasCopy(l)' <=> HasCopy(l)
  BY <1>2, <1>4 DEF HasCopy
<1>10. Accounted'
  BY <1>1, <1>2, <1>9 DEF Books, Accounted
<1> QED  BY <1>5, <1>6, <1>7, <1>8, <1>10 DEF Books

\* A step of the loops over directories and entries that takes no entry and
\* leaves none.
LEMMA LoopKeeps ==
  ASSUME Walk, Books, UNCHANGED <<dirs, dst, out, copied, noted>>, at <= at', at' \in Nat,
         Past' = Past, pc \notin Working, pc' \notin Working
  PROVE  Books'
<1>2. \A l : Log(l)' = Log(l) /\ NameOf(l)' = NameOf(l)
  BY SameLogs
<1>3. Listed' /\ New'
  BY DEF Books, Listed, New, Working
<1>4. Numbered'
  BY <1>2 DEF Books, Numbered
<1>5. \A n \in 1..Len(dirs) : n < at => n < at'
  BY DEF Walk
<1>6. Noted'
  BY <1>2, <1>5 DEF Books, Noted
<1>7. Accounted'
  BY <1>2 DEF Books, Accounted, HasCopy
<1> QED  BY <1>3, <1>4, <1>6, <1>7 DEF Books

LEMMA FindsKeep ==
  ASSUME Walk, pc = "discover", Enough => Books, Add
  PROVE  Enough' => Books'
<1>1. /\ at = 1 /\ at' = 1 /\ pc' = "discover" /\ UNCHANGED <<out, copied, noted, dst>>
      /\ Len(dirs) \in Nat /\ Last \in Nat
  BY LogAssumption DEF Walk, Add, copying
<1>2. Len(dirs) <= Len(dirs')
  <2>1. Head(paths) \in Dir /\ dirs \in Seq(Dir)
    BY DEF Walk, Add
  <2> QED  BY <2>1 DEF Add
<1>3. Len(dirs') \in Nat
  BY AddWalks DEF Walk
<1> SUFFICES ASSUME Enough'
             PROVE  Books'
  OBVIOUS
<1>4. Books
  BY <1>1, <1>2, <1>3 DEF Enough
<1>5. Past = {}
  BY <1>1 DEF Past, Logs, Inside, Working, Making
<1>6. copied = {}
  <2> SUFFICES ASSUME NEW c \in copied
               PROVE  FALSE
    OBVIOUS
  <2>1. PICK held \in out[c] : TRUE
    BY <1>4 DEF Books, Listed
  <2> QED  BY <1>4, <1>5, <2>1 DEF Books, Numbered
<1>7. \A c \in Copy : out[c] = {}
  BY <1>1, <1>4, <1>6 DEF Books, Listed, Making
<1>8. noted = {}
  <2>1. \A n \in 1..Len(dirs) : ~(n < at)
    BY <1>1
  <2> QED  BY <1>4, <1>5, <2>1 DEF Books, Noted
<1>9. Past' = {}
  BY <1>1 DEF Past, Logs, Inside, Working, Making
<1> QED
  BY <1>1, <1>6, <1>7, <1>8, <1>9
     DEF Books, Listed, New, Numbered, Noted, Accounted, Making, Working

\* A directory that cannot be read: none of its logs has a copy or a note.
LEMMA ReadDirKeeps ==
  ASSUME Walk, Books, ReadDir
  PROVE  Books'
<1>1. /\ pc = "dirs" /\ at <= Len(dirs) /\ UNCHANGED <<dirs, dst, out, copied>>
      /\ entry' = 1 /\ at \in Nat /\ at > 0 /\ at \in 1..Len(dirs)
  BY DEF ReadDir, copying, Walk
<1>2. Logs' = Logs /\ \A l : Log(l)' = Log(l) /\ NameOf(l)' = NameOf(l)
  BY <1>1, SameLogs
<1>3. Past = {l \in Logs : l[1] < at}
  BY <1>1 DEF Past, Inside, Working, Making
<1>4. CASE pc' = "entries" /\ UNCHANGED <<at, noted>>
  <2>1. Past' = Past
    <3>1. \A l \in Logs : ~(l[2] < 1)
      BY LogIs
    <3> QED  BY <1>1, <1>2, <1>3, <1>4, <3>1 DEF Past
  <2> QED  BY <1>1, <1>4, <2>1, LoopKeeps DEF Working, Making
<1>5. CASE pc' = "dirs" /\ at' = at + 1 /\ noted' = noted \cup {<<dirs[at], 0>>}
  <2>1. Past' = {l \in Logs : l[1] <= at}
    <3>1. \A l \in Logs : l[1] < at + 1 <=> l[1] <= at
      BY <1>1, LogIs
    <3> QED  BY <1>1, <1>2, <1>5, <3>1 DEF Past, Inside, Working, Making
  <2>2. Past \subseteq Past'
    BY <1>1, <1>3, <2>1, LogIs
  <2>3. Listed' /\ New'
    BY <1>1, <1>5 DEF Books, Listed, New, Working, Making
  <2>4. Numbered'
    BY <1>1, <1>2, <2>2 DEF Books, Numbered
  <2>5. Noted'
    BY <1>1, <1>2, <1>5, <2>2 DEF Books, Noted
  <2>6. Accounted'
    <3> SUFFICES ASSUME NEW l \in Past', <<dirs[l[1]], 0>> \notin noted'
                 PROVE  Log(l) \in noted' <=> ~HasCopy(l)
      BY <1>1, <1>2 DEF Accounted, HasCopy
    <3>1. l[1] # at
      BY <1>5
    <3>2. l \in Past
      BY <1>1, <1>3, <2>1, <3>1, LogIs
    <3>3. Log(l) # <<dirs[at], 0>>
      BY <2>1, LogIs DEF Log
    <3> QED  BY <1>5, <3>2, <3>3 DEF Books, Accounted
  <2> QED  BY <2>3, <2>4, <2>5, <2>6 DEF Books
<1> QED  BY <1>4, <1>5 DEF ReadDir

\* The name that is given out is free: the copies of a log's name are of logs in
\* directories before this one, and no two of them have one number.
LEMMA EntryKeeps ==
  ASSUME Typed, Walk, Enough, Books, Entry
  PROVE  Books'
<1>1. /\ pc = "entries" /\ entry <= Len(Holds[dirs[at]]) /\ pc' \in {"open", "note"}
      /\ UNCHANGED <<dirs, at, entry, out, copied, noted>>
      /\ dst' \in UniqueName(Holds[dirs[at]][entry])
      /\ at \in 1..Len(dirs) /\ at \in Nat /\ entry \in Nat \ {0} /\ Last \in Nat /\ Len(dirs) \in Nat
  BY LogAssumption DEF Entry, place, Walk, Inside
<1>2. Past' = Past
  BY <1>1, StillPast DEF Inside, Working
<1>3. \A l : Log(l)' = Log(l) /\ NameOf(l)' = NameOf(l)
  BY <1>1, SameLogs
<1>4. <<at, entry>> \in Logs
  BY <1>1 DEF Logs
<1> DEFINE name == Holds[dirs[at]][entry]
           next == <<name, at>>
<1>5. name \in LogName /\ dirs[at] \in Dir
  <2>1. dirs[at] \in Dir
    BY <1>1 DEF Walk
  <2>2. entry \in 1..Len(Holds[dirs[at]])
    BY <1>4, LogIs
  <2>3. name \in {Holds[dirs[at]][n] : n \in 1..Len(Holds[dirs[at]])}
    BY <2>2
  <2> QED  BY <2>1, <2>3, Zenon DEF LogName
<1>6. next \in Copy
  BY <1>1, <1>5 DEF Copy, Enough
<1>7. next \in Free(name)
  <2> SUFFICES ASSUME out[next] # {}
               PROVE  FALSE
    BY <1>6 DEF Free
  <2>1. next \in copied
    BY <1>1, <1>6 DEF Books, Listed, Making
  <2>2. PICK held \in out[next] : TRUE
    OBVIOUS
  <2>3. PICK l \in Past : next[1] = NameOf(l) /\ next[2] <= l[1]
    BY <2>1, <2>2 DEF Books, Numbered
  <2>4. l \in Logs /\ l[1] = at /\ l[2] < entry
    BY <1>1, <2>3, LogIs DEF Past
  <2>5. Holds[dirs[at]][l[2]] = Holds[dirs[at]][entry]
    BY <2>3, <2>4 DEF NameOf
  <2>6. l[2] \in 1..Len(Holds[dirs[at]]) /\ entry \in 1..Len(Holds[dirs[at]])
    BY <1>4, <2>4, LogIs
  <2> QED  BY <1>1, <1>5, <2>4, <2>5, <2>6, LogAssumption
<1>8. dst' \in Copy /\ dst'[1] = name /\ dst'[2] <= at /\ out[dst'] = {}
  BY <1>1, <1>7 DEF UniqueName, Free
<1>9. Listed'
  BY <1>1 DEF Books, Listed, Making
<1>10. New'
  <2>1. dst' \notin copied
    BY <1>8 DEF Books, Listed
  <2>2. pc' \notin Making /\ NameOf(<<at, entry>>) = name
    BY <1>1 DEF Making, NameOf
  <2> QED  BY <1>1, <1>3, <1>8, <2>1, <2>2 DEF New
<1>11. Numbered' /\ Noted' /\ Accounted'
  BY <1>1, <1>2, <1>3 DEF Books, Numbered, Noted, Accounted, HasCopy
<1> QED  BY <1>9, <1>10, <1>11 DEF Books

\* With a copy or a note a log is one of those the loops are done with.
LEMMA OneMore ==
  ASSUME Walk, pc \in Working, UNCHANGED <<dirs, at>>, entry' = entry + 1, pc' = "entries"
  PROVE  Past' = Past \cup {<<at, entry>>}
<1>1. Logs' = Logs /\ entry \in Nat /\ <<at, entry>> \in Logs
  BY SameLogs, AtHand DEF Walk
<1>2. \A l \in Logs : l[2] < entry + 1 <=> l[2] < entry \/ l[2] = entry
  BY <1>1, LogIs
<1>3. \A l \in Logs : l[1] = at /\ l[2] = entry <=> l = <<at, entry>>
  BY LogIs
<1> QED  BY <1>1, <1>2, <1>3 DEF Past, Inside

LEMMA DoneKeeps ==
  ASSUME Walk, Books, Done
  PROVE  Books'
<1> DEFINE this == <<at, entry>>
<1>1. /\ pc = "copy" /\ pc' = "entries" /\ UNCHANGED <<dirs, at, out, noted, dst>>
      /\ copied' = copied \cup {dst} /\ entry' = entry + 1
  BY DEF Done, copying
<1>2. Past' = Past \cup {this} /\ this \in Logs /\ this \notin Past
  BY <1>1, OneMore, AtHand DEF Working, Making
<1>3. \A l : Log(l)' = Log(l) /\ NameOf(l)' = NameOf(l)
  BY <1>1, SameLogs
<1>4. /\ dst \in Copy /\ dst[1] = NameOf(this) /\ dst[2] <= at /\ dst \notin copied
      /\ out[dst] # {} /\ \A held \in out[dst] : held.of = Log(this)
  BY <1>1 DEF Books, New, Working, Making
<1>5. Listed' /\ New'
  BY <1>1, <1>4 DEF Books, Listed, New, Working, Making
<1>6. Numbered'
  <2> SUFFICES ASSUME NEW c \in copied', NEW held \in out[c]
               PROVE  \E l \in Past' : held.of = Log(l) /\ c[1] = NameOf(l) /\ c[2] <= l[1]
    BY <1>1, <1>3 DEF Numbered
  <2>1. CASE c = dst
    BY <1>2, <1>4, <2>1
  <2>2. CASE c # dst
    BY <1>1, <1>2, <2>2 DEF Books, Numbered
  <2> QED  BY <2>1, <2>2
<1>7. Noted'
  BY <1>1, <1>2, <1>3 DEF Books, Noted
<1>8. Accounted'
  <2>1. ASSUME NEW l \in Past
        PROVE  HasCopy(l)' <=> HasCopy(l)
    <3>1. \A held \in out[dst] : held.of # Log(l)
      <4>1. l # this /\ l \in Logs
        BY <1>2 DEF Past
      <4>2. Log(l) # Log(this)
        BY <1>2, <4>1, LogOnce
      <4> QED  BY <1>4, <4>2
    <3> QED  BY <1>1, <1>3, <3>1 DEF HasCopy
  <2>2. ASSUME NEW l, l = this
        PROVE  HasCopy(l)'
    <3>1. PICK held \in out[dst] : held.of = Log(l)
      BY <1>4, <2>2
    <3> QED  BY <1>1, <1>3, <3>1 DEF HasCopy
  <2>3. Log(this) \notin noted
    <3>1. \A l \in Past : Log(l) # Log(this)
      BY <1>2, LogOnce DEF Past
    <3>2. \A n : Log(this) # <<dirs[n], 0>>
      BY <1>2, LogIs DEF Log
    <3> QED  BY <3>1, <3>2 DEF Books, Noted
  <2> SUFFICES ASSUME NEW l \in Past', <<dirs[l[1]], 0>> \notin noted
               PROVE  Log(l) \in noted <=> ~HasCopy(l)'
    BY <1>1, <1>3 DEF Accounted, HasCopy
  <2>4. CASE l = this
    BY <2>2, <2>3, <2>4
  <2>5. CASE l \in Past
    BY <2>1, <2>5 DEF Books, Accounted
  <2> QED  BY <1>2, <2>4, <2>5
<1> QED  BY <1>5, <1>6, <1>7, <1>8 DEF Books

LEMMA NoteKeeps ==
  ASSUME Walk, Books, Note
  PROVE  Books'
<1> DEFINE this == <<at, entry>>
<1>1. /\ pc = "note" /\ pc' = "entries" /\ UNCHANGED <<dirs, at, out, copied, dst>>
      /\ noted' = noted \cup {Log(this)} /\ entry' = entry + 1
  BY DEF Note, copying, Log
<1>2. Past' = Past \cup {this} /\ this \in Logs /\ this \notin Past
  BY <1>1, OneMore, AtHand DEF Working, Making
<1>3. \A l : Log(l)' = Log(l) /\ NameOf(l)' = NameOf(l)
  BY <1>1, SameLogs
<1>4. \A l \in Past : Log(l) # Log(this)
  BY <1>2, LogOnce DEF Past
<1>5. \A c \in copied : \A held \in out[c] : held.of # Log(this)
  BY <1>4 DEF Books, Numbered
<1>6. Listed' /\ New' /\ Numbered' /\ Noted'
  <2>1. Listed' /\ New'
    BY <1>1 DEF Books, Listed, New, Working, Making
  <2>2. Numbered'
    BY <1>1, <1>2, <1>3 DEF Books, Numbered
  <2>3. Noted'
    BY <1>1, <1>2, <1>3 DEF Books, Noted
  <2> QED  BY <2>1, <2>2, <2>3
<1>7. Accounted'
  <2> SUFFICES ASSUME NEW l \in Past', <<dirs[l[1]], 0>> \notin noted'
               PROVE  Log(l) \in noted' <=> ~HasCopy(l)
    BY <1>1, <1>3 DEF Accounted, HasCopy
  <2>1. CASE l = this
    BY <1>1, <1>5, <2>1 DEF HasCopy
  <2>2. CASE l \in Past
    BY <1>1, <1>4, <2>2 DEF Books, Accounted
  <2> QED  BY <1>2, <2>1, <2>2
<1> QED  BY <1>6, <1>7 DEF Books

\* What the copying writes stays a copy of the log at hand.
LEMMA CopyingKeeps ==
  ASSUME LogInv, Walk, Books, Create \/ Header \/ CopyUnit \/ Fail
  PROVE  Books'
<1>1. /\ UNCHANGED <<dirs, at, entry, dst, copied, noted>>
      /\ pc \in Working /\ pc' \in Working /\ dst \in Copy /\ DOMAIN out = Copy
      /\ pc = "create" => out[dst] = {}
      /\ \A held \in out[dst] : held.of = Log(<<at, entry>>)
  <2>1. /\ UNCHANGED <<dirs, at, entry, dst, copied, noted>> /\ pc \in Working /\ pc' \in Working
    BY DEF Create, Header, CopyUnit, Fail, place, copying, Working, Making
  <2> QED  BY <2>1 DEF Books, New, LogInv, Typed, Making
<1>2. \A c \in Copy : c # dst => out'[c] = out[c]
  BY <1>1 DEF Create, Header, CopyUnit, Fail
<1>3. CASE Create
  <2>1. CASE pc' = "note" /\ UNCHANGED <<from, out>>
    BY <1>1, <1>2, <1>3, <2>1, WorkingKeeps DEF Create, Making
  <2>2. CASE pc' # "note"
    <3>1. /\ out'[dst] = {[of |-> <<dirs[at], entry>>, kind |-> log.kind, header |-> {}, units |-> <<>>]}
          /\ pc' \in Making
      BY <1>1, <1>3, <2>2 DEF Create, Making
    <3>2. out'[dst] # {} /\ \A held \in out'[dst] : held.of = Log(<<at, entry>>)
      BY <3>1 DEF Log
    <3> QED  BY <1>1, <1>2, <3>1, <3>2, WorkingKeeps
  <2> QED  BY <1>3, <2>1, <2>2 DEF Create
<1>4. CASE Header \/ CopyUnit
  <2>1. pc \in Making /\ pc' \in Making
    BY <1>4 DEF Header, CopyUnit, Making
  <2>2. PICK of, header : \E units \in Seq(Unit) : out[dst] = {Made(of, header, units)}
    BY <2>1 DEF LogInv, Copied
  <2>3. PICK units \in Seq(Unit) : out[dst] = {Made(of, header, units)}
    BY <2>2
  <2>4. Current = Made(of, header, units)
    BY <2>3, CurrentIs
  <2>5. of = Log(<<at, entry>>)
    BY <1>1, <2>3 DEF Made
  <2>6. CASE Header
    <3>1. out'[dst] = {[Current EXCEPT !.header = {Limit}]}
      BY <1>1, <2>6 DEF Header
    <3>2. [Current EXCEPT !.header = {Limit}].of = of
      BY <2>4 DEF Made
    <3> QED  BY <1>1, <1>2, <2>1, <2>5, <3>1, <3>2, WorkingKeeps
  <2>7. CASE CopyUnit
    <3>1. out'[dst] = {[Current EXCEPT !.units = Append(@, log.held[from + read + 1])]}
      BY <1>1, <2>7 DEF CopyUnit
    <3>2. [Current EXCEPT !.units = Append(@, log.held[from + read + 1])].of = of
      BY <2>4 DEF Made
    <3> QED  BY <1>1, <1>2, <2>1, <2>5, <3>1, <3>2, WorkingKeeps
  <2> QED  BY <1>4, <2>6, <2>7
<1>5. CASE Fail
  <2>1. out'[dst] = {} /\ pc' = "note"
    BY <1>1, <1>5 DEF Fail
  <2> QED  BY <1>1, <1>2, <2>1, WorkingKeeps DEF Making
<1> QED  BY <1>3, <1>4, <1>5

LEMMA RestKeeps ==
  ASSUME Walk, Books, Open \/ Align \/ Others
  PROVE  Books'
<1>1. /\ UNCHANGED <<dirs, at, entry, dst, copied, noted, out>>
      /\ pc \in Working /\ pc' \in Working /\ (pc \in Making <=> pc' \in Making)
  BY DEF Open, Align, Others, Write, Empty, Swap, Busy, place, copying, Working, Making
<1> QED  BY <1>1, WorkingKeeps DEF Books, New

LEMMA LoopsKeep ==
  ASSUME Walk, Books, Discovered \/ NextDir \/ Return
  PROVE  Books'
<1>1. /\ UNCHANGED <<dirs, dst, out, copied, noted>>
      /\ pc \notin Working /\ pc' \notin Working /\ at \in Nat
  BY DEF Discovered, NextDir, Return, place, copying, Working, Making, Walk
<1>2. Logs' = Logs
  BY <1>1, SameLogs
<1>3. CASE Discovered \/ Return
  <2>1. at' = at /\ pc \notin Inside /\ pc' \notin Inside
    BY <1>3 DEF Discovered, Return, place, Inside, Working, Making
  <2>2. Past' = Past
    BY <1>2, <2>1 DEF Past
  <2> QED  BY <1>1, <2>1, <2>2, LoopKeeps
<1>4. CASE NextDir
  <2>1. at' = at + 1 /\ pc \in Inside /\ pc' \notin Inside /\ entry > Len(Holds[dirs[at]]) /\ entry \in Nat
    BY <1>4 DEF NextDir, Inside, Working, Making, Walk
  <2>2. \A l \in Logs : l[1] = at => l[2] < entry
    BY <2>1, LogIs
  <2>3. \A l \in Logs : l[1] < at + 1 <=> l[1] < at \/ l[1] = at
    BY <1>1, LogIs
  <2>4. Past' = Past
    BY <1>2, <2>1, <2>2, <2>3 DEF Past
  <2> QED  BY <1>1, <2>1, <2>4, LoopKeeps
<1> QED  BY <1>3, <1>4

\* As long as there are numbers for them, each log that the loops are done with
\* is in the books once, as a copy that is there or as a note.
THEOREM BooksInvariant == Spec => []BooksInv
<1>1. Init => BooksInv
  <2> SUFFICES ASSUME Init
               PROVE  BooksInv
    OBVIOUS
  <2>1. /\ pc = "discover" /\ at = 1 /\ dirs = <<>> /\ copied = {} /\ noted = {}
        /\ out = [c \in Copy |-> {}]
    BY DEF Init
  <2>2. Past = {}
    BY <2>1 DEF Past, Logs, Inside, Working, Making
  <2>3. Books
    BY <2>1, <2>2 DEF Books, Listed, New, Numbered, Noted, Accounted, Working, Making
  <2> QED  BY <2>3, InitWalk DEF BooksInv
<1>2. ASSUME LogInv, BooksInv, Next
      PROVE  BooksInv'
  <2>1. Walk /\ Walk'
    BY <1>2, WalkOn DEF BooksInv
  <2>2. CASE Add
    BY <1>2, <2>1, <2>2, FindsKeep DEF BooksInv, Add
  <2>3. CASE ~Add
    <3>1. dirs' = dirs
      BY <1>2, <2>3 DEF Next, Tool, Others, Discovered, ReadDir, NextDir, Entry, Open, Create, Align,
         Header, Fail, CopyUnit, Done, Note, Return, Write, Empty, Swap, place
    <3>2. Enough' <=> Enough
      BY <3>1 DEF Enough
    <3>3. ASSUME Enough
          PROVE  Books'
      <4>1. Books
        BY <1>2, <3>3 DEF BooksInv
      <4>2. Typed
        BY <1>2 DEF LogInv
      <4> QED
        BY <1>2, <2>1, <2>3, <3>3, <4>1, <4>2, LoopsKeep, ReadDirKeeps, EntryKeeps, CopyingKeeps,
           RestKeeps, DoneKeeps, NoteKeeps DEF Next, Tool
    <3> QED  BY <2>1, <3>2, <3>3 DEF BooksInv
  <2> QED  BY <2>2, <2>3
<1>3. ASSUME BooksInv, UNCHANGED vars
      PROVE  BooksInv'
  <2>1. UNCHANGED <<pc, paths, dirs, at, entry, out, copied, noted, dst>>
    BY <1>3 DEF vars, place, copying
  <2>2. Past' = Past /\ \A l : Log(l)' = Log(l) /\ NameOf(l)' = NameOf(l) /\ (HasCopy(l)' <=> HasCopy(l))
    BY <2>1, SameLogs DEF Past, HasCopy, Log
  <2>3. Walk'
    BY <1>3, <2>1 DEF BooksInv, Walk
  <2>4. Enough' <=> Enough
    BY <2>1 DEF Enough
  <2>5. Books => Books'
    BY <2>1, <2>2 DEF Books, Listed, New, Numbered, Noted, Accounted
  <2> QED  BY <1>3, <2>3, <2>4, <2>5 DEF BooksInv
<1> QED  BY <1>1, <1>2, <1>3, LogInvariant, PTL DEF Spec

\* No copy goes over another and none that failed stays, for any directories and
\* any logs in them, as long as there are as many numbers as directories (99 in
\* uniqueName): the name after the last is the first one again.
THEOREM NoCopyLost == Spec => [](Enough => CopiedIsThere)
<1>1. BooksInv => (Enough => CopiedIsThere)
  BY DEF BooksInv, Books, Listed, New, CopiedIsThere, Working, Making
<1> QED  BY <1>1, BooksInvariant, PTL

\* Every log of every directory that could be read has a copy that is listed or a
\* note, and not both, for any directories and any logs in them, whatever fails.
THEOREM LogsAccounted == Spec => [](Enough => EveryLogAccounted)
<1>1. ASSUME BooksInv, Enough, pc = "returned", NEW n \in 1..Len(dirs),
             <<dirs[n], 0>> \notin noted, NEW k \in 1..Len(Holds[dirs[n]])
      PROVE  <<dirs[n], k>> \in noted <=>
               ~\E c \in copied : \E held \in out[c] : held.of = <<dirs[n], k>>
  <2> DEFINE l == <<n, k>>
  <2>1. Walk /\ Accounted /\ at > Len(dirs) /\ at \in Nat
    BY <1>1 DEF BooksInv, Walk, Books
  <2>2. Len(dirs) \in Nat /\ Len(Holds[dirs[n]]) \in Nat
    BY <2>1, LogAssumption DEF Walk
  <2>3. l \in Logs /\ n < at
    BY <2>1, <2>2 DEF Logs
  <2>4. l \in Past
    BY <2>3 DEF Past
  <2>5. Log(l) = <<dirs[n], k>>
    BY DEF Log
  <2>6. <<dirs[l[1]], 0>> \notin noted
    BY <1>1
  <2> HIDE DEF l
  <2> QED  BY <2>1, <2>4, <2>5, <2>6 DEF Accounted, HasCopy
<1>2. BooksInv => (Enough => EveryLogAccounted)
  BY <1>1 DEF EveryLogAccounted
<1> QED  BY <1>2, BooksInvariant, PTL

-----------------------------------------------------------------------------
(* The refinement of LogSnapshots.                                         *)

\* The log at hand was not emptied before it was measured.
Uncut == pc = "open" => ~cut

\* Only a copy that is not the whole log has a header, and that is the true one.
Headers ==
  pc \in Making =>
    \A c \in out[dst] : c.header = IF pc = "copy" /\ size > Max THEN {Limit} ELSE {}

LEMMA NextUncut ==
  ASSUME Uncut, [Next]_vars
  PROVE  Uncut'
<1>1. CASE Entry \/ Empty
  BY <1>1 DEF Entry, Empty, Uncut
<1>2. CASE ~(Entry \/ Empty)
  <2>1. pc' = "open" => pc = "open" /\ cut' = cut
    BY <1>2 DEF Next, Tool, Others, Add, Discovered, ReadDir, NextDir, Open, Create, Align,
       Header, Fail, CopyUnit, Done, Note, Return, Write, Swap, vars, file
  <2> QED  BY <2>1 DEF Uncut
<1> QED  BY <1>1, <1>2

LEMMA NextHeaders ==
  ASSUME LogInv, Headers, [Next]_vars
  PROVE  Headers'
<1>0. DOMAIN out = Copy /\ (pc \in Making \cup {"create"} => dst \in Copy)
  BY DEF LogInv, Typed
<1>1. CASE Elsewhere \/ Open
  <2>1. pc' \notin Making
    BY <1>1 DEF Elsewhere, Add, Discovered, ReadDir, NextDir, Entry, Fail, Done, Note, Return, Open, Making
  <2> QED  BY <2>1 DEF Headers
<1>2. CASE Create
  <2> SUFFICES ASSUME pc' \in Making, NEW c \in out'[dst']
               PROVE  c.header = {} /\ ~(pc' = "copy" /\ size' > Max)
    BY DEF Headers
  <2>1. /\ dst' = dst /\ size' = size /\ pc' = IF size > Max THEN "align" ELSE "copy"
        /\ out' = [out EXCEPT ![dst] = {[of |-> <<dirs[at], entry>>, kind |-> log.kind,
                                      header |-> {}, units |-> <<>>]}]
    BY <1>2 DEF Create, Making
  <2>2. pc = "create"
    BY <1>2 DEF Create
  <2>3. c = [of |-> <<dirs[at], entry>>, kind |-> log.kind, header |-> {}, units |-> <<>>]
    BY <1>0, <2>1, <2>2
  <2> QED  BY <2>1, <2>3
<1>3. CASE Align
  <2>1. UNCHANGED <<out, dst>> /\ pc = "align" /\ pc' \in {"align", "header"}
    BY <1>3 DEF Align
  <2> QED  BY <2>1 DEF Headers, Making
<1>4. CASE Header \/ CopyUnit
  <2>1. /\ pc \in Making /\ pc' = "copy" /\ UNCHANGED <<dst, size, from>> /\ dst \in Copy
    BY <1>0, <1>4 DEF Header, CopyUnit, Making, copying
  <2>2. PICK of, header : \E units \in Seq(Unit) : out[dst] = {Made(of, header, units)}
    BY <2>1 DEF LogInv, Copied
  <2>3. PICK units \in Seq(Unit) : out[dst] = {Made(of, header, units)}
    BY <2>2
  <2>4. Current = Made(of, header, units)
    BY <2>3, CurrentIs
  <2>5. Limit' = Limit
    BY <2>1 DEF Limit
  <2>6. CASE Header
    <3>1. out'[dst] = {[Current EXCEPT !.header = {Limit}]}
      BY <1>0, <2>1, <2>6 DEF Header
    <3>2. [Current EXCEPT !.header = {Limit}].header = {Limit}
      BY <2>4 DEF Made
    <3>3. size > Max
      BY <2>6 DEF LogInv, Placed, Header, Making
    <3> QED  BY <2>1, <2>5, <3>1, <3>2, <3>3 DEF Headers
  <2>7. CASE CopyUnit
    <3>1. out'[dst] = {[Current EXCEPT !.units = Append(@, log.held[from + read + 1])]} /\ pc = "copy"
      BY <1>0, <2>1, <2>7 DEF CopyUnit
    <3>2. [Current EXCEPT !.units = Append(@, log.held[from + read + 1])].header = header
      BY <2>4 DEF Made
    <3>3. Made(of, header, units).header = header
      BY DEF Made
    <3>4. header = IF size > Max THEN {Limit} ELSE {}
      BY <2>3, <3>1, <3>3 DEF Headers, Making
    <3> QED  BY <2>1, <2>5, <3>1, <3>2, <3>4 DEF Headers
  <2> QED  BY <1>4, <2>6, <2>7
<1>5. CASE Others \/ UNCHANGED vars
  <2>1. UNCHANGED <<pc, out, dst, size, from>>
    BY <1>5 DEF Others, Write, Empty, Swap, vars, copying
  <2>2. Limit' = Limit
    BY <2>1 DEF Limit
  <2> QED  BY <2>1, <2>2 DEF Headers
<1> QED  BY <1>1, <1>2, <1>3, <1>4, <1>5 DEF Next, Tool, Elsewhere

SnapInv == LogInv /\ BooksInv /\ Uncut /\ Headers

LEMMA SnapInvariant == Spec => []SnapInv
<1>1. Init => Uncut /\ Headers
  BY DEF Init, Uncut, Headers, Making
<1>2. LogInv /\ Uncut /\ Headers /\ [Next]_vars => (Uncut /\ Headers)'
  BY NextUncut, NextHeaders
<1>3. LogInv /\ BooksInv /\ Uncut /\ Headers <=> SnapInv
  BY DEF SnapInv
<1> QED  BY <1>1, <1>2, <1>3, LogInvariant, BooksInvariant, PTL DEF Spec

\* What is taken of the logs is what the listed copies hold.
LEMMA TakenSame ==
  ASSUME copied' = copied, \A c \in copied : out'[c] = out[c]
  PROVE  Taken' = Taken
<1>1. UNION {out'[listed] : listed \in copied} = UNION {out[listed] : listed \in copied}
  OBVIOUS
<1>2. \A l : TakenOf(l)' = TakenOf(l)
  BY <1>1 DEF TakenOf
<1> QED  BY <1>2 DEF Taken

\* What a reader of the bundle sees stays as it is.
Rests == UNCHANGED <<Found, StageOf(pc), NotedOf, Taken, Hand, Held, Cut, ends>>

LEMMA Stutters ==
  ASSUME UNCHANGED <<dirs, copied, ends>>, \A c \in copied : out'[c] = out[c],
         StageOf(pc)' = StageOf(pc), NotedOf' = NotedOf, InHand' <=> InHand,
         InHand => UNCHANGED <<at, entry, measured, cut>>
  PROVE  Rests
<1>1. Found' = Found
  BY DEF Found
<1>2. CASE InHand
  <2>1. Hand' = Hand
    BY <1>2 DEF Hand, ThisLog
  <2>2. Held' = Held
    BY <1>2 DEF Held
  <2>3. Cut' = Cut
    BY <1>2 DEF Cut
  <2> QED  BY <1>1, <2>1, <2>2, <2>3, TakenSame DEF Rests
<1>3. CASE ~InHand
  <2>1. Hand' = Hand
    BY <1>3 DEF Hand
  <2>2. Held' = Held
    BY <1>3 DEF Held
  <2>3. Cut' = Cut
    BY <1>3 DEF Cut
  <2> QED  BY <1>1, <2>1, <2>2, <2>3, TakenSame DEF Rests
<1> QED  BY <1>2, <1>3

LEMMA LogIdIs ==
  ASSUME NEW l \in LogIds
  PROVE  /\ l = <<l[1], l[2]>> /\ l[1] \in Dir /\ l[2] \in 1..Len(Holds[l[1]])
         /\ Len(Holds[l[1]]) \in Nat
<1>1. PICK d \in Dir : l \in {<<d, n>> : n \in 1..Len(Holds[d])}
  BY DEF LogIds
<1>2. PICK n \in 1..Len(Holds[d]) : l = <<d, n>>
  BY <1>1
<1>3. Len(Holds[d]) \in Nat
  BY LogAssumption
<1> QED  BY <1>2, <1>3

\* The log at hand has neither a copy nor a note yet.
LEMMA HandWaits ==
  ASSUME Walk, Books, <<at, entry>> \in Logs, <<at, entry>> \notin Past, pc # "note"
  PROVE  ThisLog \in LogIds /\ Snapshots!Waits(ThisLog) /\ TakenOf(ThisLog) = {}
<1> DEFINE this == <<at, entry>>
<1>1. /\ at \in 1..Len(dirs) /\ entry \in Nat \ {0} /\ entry \in 1..Len(Holds[dirs[at]])
      /\ dirs[at] \in Dir
  BY LogIs
<1>2. ThisLog = Log(this) /\ ThisLog[1] = dirs[at] /\ ThisLog[2] = entry
  BY DEF ThisLog, Log
<1>3. ThisLog \in LogIds
  BY <1>1 DEF ThisLog, LogIds
<1>4. \A l \in Past : Log(l) # ThisLog
  BY <1>2, LogOnce DEF Past
<1>5. ThisLog \notin noted
  <2>1. \A n : ThisLog # <<dirs[n], 0>>
    BY <1>1, <1>2
  <2> QED  BY <1>4, <2>1 DEF Books, Noted
<1>6. <<dirs[at], 0>> \notin noted
  <2>1. \A l \in Past : Log(l) # <<dirs[at], 0>>
    BY LogIs DEF Log, Past
  <2>2. \A n \in 1..Len(dirs) : n < at => dirs[n] # dirs[at]
    BY <1>1 DEF Walk
  <2> QED  BY <2>1, <2>2 DEF Books, Noted
<1>7. \A c \in copied : \A held \in out[c] : held.of # ThisLog
  BY <1>4 DEF Books, Numbered
<1>8. TakenOf(ThisLog) = {}
  BY <1>7 DEF TakenOf
<1>9. dirs[at] \in Found
  BY <1>1 DEF Found
<1>10. NotedOf = noted
  BY DEF NotedOf
<1> QED  BY <1>2, <1>3, <1>5, <1>6, <1>8, <1>9, <1>10 DEF Snapshots!Waits, Taken

\* A log that is given up, at whatever step, has its note.
LEMMA Misses ==
  ASSUME Walk, Books, <<at, entry>> \in Logs, <<at, entry>> \notin Past,
         pc \notin {"note", "discover", "returned", "failed"}, pc' = "note",
         UNCHANGED <<dirs, at, entry, copied, noted, ends>>,
         \A c \in copied : out'[c] = out[c]
  PROVE  Snapshots!Next
<1>1. ThisLog \in LogIds /\ Snapshots!Waits(ThisLog)
  BY HandWaits
<1>2. StageOf(pc) = "taking" /\ StageOf(pc)' = StageOf(pc)
  BY DEF StageOf
<1>3. NotedOf = noted /\ NotedOf' = noted \cup {ThisLog}
  BY DEF NotedOf, ThisLog
<1>4. Hand' = {} /\ Held' = <<>> /\ Cut' = FALSE
  BY DEF Hand, Held, Cut, InHand
<1>5. Hand \subseteq {ThisLog}
  BY DEF Hand
<1>6. Found' = Found /\ Taken' = Taken
  BY TakenSame DEF Found
<1>7. Snapshots!Miss(ThisLog)
  BY <1>1, <1>2, <1>3, <1>4, <1>5, <1>6 DEF Snapshots!Miss, Snapshots!PutDown
<1> QED  BY <1>1, <1>7 DEF Snapshots!Next, Snapshots!Log, LogIds

\* The log is measured.
LEMMA OpenMeasures ==
  ASSUME SnapInv, Books, Open
  PROVE  Snapshots!Next
<1>0. LogInv /\ Walk /\ Uncut
  BY DEF SnapInv, BooksInv
<1>1. /\ pc = "open" /\ pc' \in {"create", "note"} /\ measured' = log.held
      /\ UNCHANGED <<dirs, at, entry, out, copied, noted, cut, ends>>
  BY DEF Open, place, file
<1>2. <<at, entry>> \in Logs /\ <<at, entry>> \notin Past
  BY <1>0, <1>1, AtHand DEF Working
<1>3. CASE pc' = "note"
  BY <1>0, <1>1, <1>2, <1>3, Misses
<1>4. CASE pc' = "create"
  <2>1. ThisLog \in LogIds /\ Snapshots!Waits(ThisLog)
    BY <1>0, <1>1, <1>2, HandWaits
  <2>2. StageOf(pc) = "taking" /\ StageOf(pc)' = StageOf(pc)
    BY <1>1, <1>4 DEF StageOf
  <2>3. NotedOf' = NotedOf /\ Found' = Found /\ Taken' = Taken
    BY <1>1, <1>4, TakenSame DEF NotedOf, Found
  <2>4. Hand = {} /\ Hand' = {ThisLog}
    BY <1>1, <1>4 DEF Hand, InHand, ThisLog
  <2>5. Held' \in Seq(Unit)
    <3>1. log.held \in Seq(Unit)
      BY <1>0 DEF LogInv, Typed
    <3> QED  BY <1>1, <1>4, <3>1 DEF Held, InHand
  <2>6. Cut' = FALSE
    BY <1>0, <1>1 DEF Cut, Uncut
  <2>7. Snapshots!Measure(ThisLog)
    BY <1>1, <2>1, <2>2, <2>3, <2>4, <2>5, <2>6 DEF Snapshots!Measure
  <2> QED  BY <2>1, <2>7 DEF Snapshots!Next, Snapshots!Log, LogIds
<1> QED  BY <1>1, <1>3, <1>4

\* A directory that cannot be read has no log in the books.
LEMMA ReadDirRefuses ==
  ASSUME SnapInv, Books, ReadDir
  PROVE  Snapshots!Next \/ Rests
<1>0. Walk
  BY DEF SnapInv, BooksInv
<1>1. /\ pc = "dirs" /\ at \in 1..Len(dirs) /\ pc' \in {"entries", "dirs"}
      /\ UNCHANGED <<dirs, out, copied, ends>>
      /\ pc' = "entries" => UNCHANGED noted
      /\ pc' = "dirs" => noted' = noted \cup {<<dirs[at], 0>>}
  BY <1>0 DEF ReadDir, file, Walk
<1>2. StageOf(pc) = "taking" /\ StageOf(pc)' = StageOf(pc)
  BY <1>1 DEF StageOf
<1>3. Hand = {} /\ Held = <<>> /\ Cut = FALSE /\ Hand' = {} /\ Held' = <<>> /\ Cut' = FALSE
  BY <1>1 DEF Hand, Held, Cut, InHand
<1>4. NotedOf = noted /\ NotedOf' = noted'
  BY <1>1 DEF NotedOf
<1>5. Found' = Found /\ Taken' = Taken /\ dirs[at] \in Found /\ dirs[at] \in Dir
  BY <1>0, <1>1, TakenSame DEF Found, Walk
<1>6. CASE pc' = "entries"
  BY <1>1, <1>2, <1>3, <1>4, <1>5, <1>6 DEF Rests
<1>7. CASE pc' = "dirs"
  <2>1. \A l \in Past : Log(l)[1] # dirs[at]
    <3>1. \A l \in Past : l[1] < at /\ l[1] \in 1..Len(dirs)
      BY <1>0, <1>1, LogIs DEF Past, Inside, Working, Making
    <3> QED  BY <1>0, <1>1, <3>1 DEF Log, Walk
  <2>2. ASSUME NEW l \in LogIds, l[1] = dirs[at]
        PROVE  Taken[l] = {} /\ l \notin noted
    <3>1. \A c \in copied : \A held \in out[c] : held.of # l
      BY <2>1, <2>2 DEF Books, Numbered
    <3>2. TakenOf(l) = {}
      BY <3>1 DEF TakenOf
    <3>3. l[2] # 0
      BY <2>2, LogIdIs
    <3>4. l \notin noted
      BY <2>1, <2>2, <3>3 DEF Books, Noted
    <3> QED  BY <3>2, <3>4 DEF Taken
  <2>3. Snapshots!Refuse(dirs[at])
    BY <1>1, <1>2, <1>3, <1>4, <1>5, <1>7, <2>2 DEF Snapshots!Refuse, Snapshots!Log, LogIds
  <2> QED  BY <1>5, <2>3 DEF Snapshots!Next
<1> QED  BY <1>1, <1>6, <1>7

\* What is returned has every log in the books.
LEMMA ReturnReturns ==
  ASSUME SnapInv, Books, Return
  PROVE  Snapshots!Next
<1>0. Walk
  BY DEF SnapInv, BooksInv
<1>1. /\ pc = "dirs" /\ at > Len(dirs) /\ at \in Nat /\ Len(dirs) \in Nat /\ pc' = "returned"
      /\ UNCHANGED <<dirs, out, copied, noted, ends>>
  BY <1>0 DEF Return, place, file, Walk
<1>2. StageOf(pc) = "taking" /\ StageOf(pc)' = "returned"
  BY <1>1 DEF StageOf
<1>3. Hand = {} /\ Held = <<>> /\ Cut = FALSE /\ Hand' = {} /\ Held' = <<>> /\ Cut' = FALSE
  BY <1>1 DEF Hand, Held, Cut, InHand
<1>4. NotedOf = noted /\ NotedOf' = noted
  BY <1>1 DEF NotedOf
<1>5. Found' = Found /\ Taken' = Taken
  BY <1>1, TakenSame DEF Found
<1>6. ASSUME NEW l \in LogIds, l[1] \in Found, <<l[1], 0>> \notin noted, l \notin noted
      PROVE  Taken[l] # {}
  <2> DEFINE k == l[2]
  <2>1. l = <<l[1], k>> /\ k \in 1..Len(Holds[l[1]]) /\ Len(Holds[l[1]]) \in Nat
    BY <1>6, LogIdIs
  <2>2. PICK n \in 1..Len(dirs) : dirs[n] = l[1]
    BY <1>6 DEF Found
  <2> HIDE DEF k
  <2>4. <<n, k>> \in Logs /\ n < at
    BY <1>1, <2>1, <2>2 DEF Logs
  <2>5. <<n, k>> \in Past /\ Log(<<n, k>>) = l
    BY <2>1, <2>2, <2>4 DEF Past, Log
  <2>6. HasCopy(<<n, k>>)
    BY <1>6, <2>2, <2>5 DEF Books, Accounted
  <2>7. PICK c \in copied : \E held \in out[c] : held.of = l
    BY <2>5, <2>6 DEF HasCopy
  <2>8. PICK held \in out[c] : held.of = l
    BY <2>7
  <2>9. [header |-> held.header, units |-> held.units] \in TakenOf(l)
    BY <2>8 DEF TakenOf
  <2> QED  BY <2>9 DEF Taken
<1>7. \A l \in LogIds : ~Snapshots!Waits(l)
  BY <1>4, <1>6 DEF Snapshots!Waits
<1>8. Snapshots!Return
  BY <1>1, <1>2, <1>3, <1>4, <1>5, <1>7 DEF Snapshots!Return, Snapshots!Log, LogIds
<1> QED  BY <1>8 DEF Snapshots!Next

\* A directory is found, or what is looked for is not there.
LEMMA AddFinds ==
  ASSUME SnapInv, Add
  PROVE  Snapshots!Next \/ Rests
<1>1. /\ pc = "discover" /\ pc' = "discover" /\ paths # <<>> /\ paths \in Seq(Dir) /\ dirs \in Seq(Dir)
      /\ UNCHANGED <<out, copied, noted, ends>>
  BY DEF SnapInv, BooksInv, Walk, Add, file
<1>2. StageOf(pc) = "finding" /\ StageOf(pc)' = StageOf(pc)
  BY <1>1 DEF StageOf
<1>3. Hand = {} /\ Held = <<>> /\ Cut = FALSE /\ Hand' = {} /\ Held' = <<>> /\ Cut' = FALSE
  BY <1>1 DEF Hand, Held, Cut, InHand
<1>4. NotedOf = noted /\ NotedOf' = noted
  BY <1>1 DEF NotedOf
<1>5. Taken' = Taken
  BY <1>1, TakenSame
<1>6. CASE dirs' = dirs
  BY <1>1, <1>2, <1>3, <1>4, <1>5, <1>6 DEF Rests, Found
<1>7. CASE Head(paths) \notin Found /\ dirs' = Append(dirs, Head(paths))
  <2>1. Head(paths) \in Dir
    BY <1>1
  <2>2. /\ Len(dirs') = Len(dirs) + 1 /\ dirs'[Len(dirs) + 1] = Head(paths) /\ Len(dirs) \in Nat
        /\ \A n \in 1..Len(dirs) : dirs'[n] = dirs[n]
    BY <1>1, <1>7, <2>1, AppendProperties
  <2>3. Found' = Found \cup {Head(paths)}
    <3>1. \A n \in 1..Len(dirs') : n \in 1..Len(dirs) \/ n = Len(dirs) + 1
      BY <2>2
    <3>2. 1..Len(dirs) \subseteq 1..Len(dirs') /\ Len(dirs) + 1 \in 1..Len(dirs')
      BY <2>2
    <3> QED  BY <2>2, <3>1, <3>2 DEF Found
  <2>4. Snapshots!Find(Head(paths))
    BY <1>1, <1>2, <1>3, <1>4, <1>5, <1>7, <2>3 DEF Snapshots!Find
  <2> QED  BY <2>1, <2>4 DEF Snapshots!Next
<1> QED  BY <1>6, <1>7 DEF Add

LEMMA DiscoveredStarts ==
  ASSUME SnapInv, Discovered
  PROVE  Snapshots!Next
<1>1. /\ pc = "discover" /\ pc' \in IF dirs = <<>> THEN {"returned"} ELSE {"dirs", "failed"}
      /\ dirs \in Seq(Dir) /\ UNCHANGED <<dirs, out, copied, noted, ends>>
  BY DEF SnapInv, BooksInv, Walk, Discovered, file, place
<1>2. Found = {} <=> dirs = <<>>
  <2>1. dirs = <<>> => 1..Len(dirs) = {}
    OBVIOUS
  <2>2. dirs # <<>> => 1 \in 1..Len(dirs)
    BY <1>1
  <2> QED  BY <2>1, <2>2 DEF Found
<1>3. StageOf(pc) = "finding" /\ StageOf(pc)' \in IF Found = {} THEN {"returned"} ELSE {"taking", "failed"}
  BY <1>1, <1>2 DEF StageOf
<1>4. Hand = {} /\ Held = <<>> /\ Cut = FALSE /\ Hand' = {} /\ Held' = <<>> /\ Cut' = FALSE
  BY <1>1 DEF Hand, Held, Cut, InHand
<1>5. NotedOf = noted /\ NotedOf' = noted
  BY <1>1 DEF NotedOf
<1>6. Taken' = Taken /\ Found' = Found
  BY <1>1, TakenSame DEF Found
<1>7. Snapshots!Start
  BY <1>1, <1>3, <1>4, <1>5, <1>6 DEF Snapshots!Start
<1> QED  BY <1>7 DEF Snapshots!Next

\* Steps of the loops, of the others and of no one.
LEMMA LoopsRest ==
  ASSUME SnapInv, NextDir \/ Note \/ Write \/ Swap \/ UNCHANGED vars
  PROVE  Rests
<1>1. UNCHANGED <<dirs, copied, ends, out>>
  BY DEF NextDir, Note, Write, Swap, vars, place, file
<1>2. CASE NextDir \/ Note
  <2>1. /\ StageOf(pc) = "taking" /\ StageOf(pc)' = StageOf(pc) /\ ~InHand /\ ~InHand'
    BY <1>2 DEF NextDir, Note, StageOf, InHand
  <2>2. NotedOf' = NotedOf
    BY <1>2 DEF NextDir, Note, NotedOf, ThisLog
  <2> QED  BY <1>1, <2>1, <2>2, Stutters
<1>3. CASE Write \/ Swap \/ UNCHANGED vars
  <2>1. UNCHANGED <<pc, at, entry, noted, measured>> /\ (InHand => cut' = cut)
    BY <1>3 DEF Write, Swap, vars, place, file, copying, InHand
  <2>2. NotedOf' = NotedOf /\ StageOf(pc)' = StageOf(pc) /\ (InHand' <=> InHand)
    BY <1>1, <2>1 DEF NotedOf, ThisLog, StageOf, InHand
  <2> QED  BY <1>1, <2>1, <2>2, Stutters
<1> QED  BY <1>2, <1>3

\* A log that is rotated while it is at hand is less than it was.
LEMMA EmptySpoils ==
  ASSUME SnapInv, Empty
  PROVE  Snapshots!Next \/ Rests
<1>1. /\ UNCHANGED <<pc, dirs, at, entry, out, copied, noted, ends, measured>>
      /\ cut' = (pc # "open") /\ pc \in Making \cup {"open", "create"}
  BY DEF Empty, Busy, Making, place, copying
<1>2. NotedOf' = NotedOf /\ StageOf(pc)' = StageOf(pc) /\ (InHand' <=> InHand)
  BY <1>1 DEF NotedOf, ThisLog, StageOf, InHand
<1>3. CASE InHand
  <2>1. Hand # {} /\ Hand' = Hand /\ Held' = Held /\ Cut' = TRUE
    BY <1>1, <1>3 DEF Hand, Held, Cut, InHand, ThisLog
  <2>2. Found' = Found /\ Taken' = Taken
    BY <1>1, TakenSame DEF Found
  <2>3. Snapshots!Spoil
    BY <1>1, <1>2, <2>1, <2>2 DEF Snapshots!Spoil
  <2> QED  BY <2>3 DEF Snapshots!Next
<1>4. CASE ~InHand
  BY <1>1, <1>2, <1>4, Stutters
<1> QED  BY <1>3, <1>4

\* What is not a regular file has its note at once.
LEMMA EntryMisses ==
  ASSUME SnapInv, Books, Entry
  PROVE  Snapshots!Next \/ Rests
<1>0. Walk
  BY DEF SnapInv, BooksInv
<1>1. /\ pc = "entries" /\ entry <= Len(Holds[dirs[at]]) /\ pc' \in {"open", "note"}
      /\ UNCHANGED <<dirs, at, entry, out, copied, noted, ends>>
      /\ at \in 1..Len(dirs) /\ entry \in Nat \ {0}
  BY <1>0 DEF Entry, place, Walk, Inside
<1>2. <<at, entry>> \in Logs /\ <<at, entry>> \notin Past
  BY <1>1 DEF Logs, Past
<1>3. CASE pc' = "note"
  BY <1>0, <1>1, <1>2, <1>3, Misses
<1>4. CASE pc' = "open"
  <2>1. /\ StageOf(pc) = "taking" /\ StageOf(pc)' = StageOf(pc) /\ ~InHand /\ ~InHand'
        /\ NotedOf' = NotedOf
    BY <1>1, <1>4 DEF StageOf, InHand, NotedOf
  <2> QED  BY <1>1, <2>1, Stutters
<1> QED  BY <1>1, <1>3, <1>4

\* A copy that is begun or filled is not listed yet, and one that fails has its note.
LEMMA CopyingRests ==
  ASSUME SnapInv, Books, Create \/ Align \/ Header \/ CopyUnit \/ Fail
  PROVE  Snapshots!Next \/ Rests
<1>0. LogInv /\ Walk
  BY DEF SnapInv, BooksInv
<1>1. /\ pc \in Making \cup {"create"} /\ pc' \in Making \cup {"note"}
      /\ UNCHANGED <<dirs, at, entry, copied, noted, ends, dst, measured, cut>>
  BY DEF Create, Align, Header, CopyUnit, Fail, Making, place, file, copying
<1>2. \A c \in copied : out'[c] = out[c]
  <2>1. dst \notin copied /\ copied \subseteq Copy /\ DOMAIN out = Copy
    BY <1>0, <1>1 DEF Books, New, Listed, Working, LogInv, Typed
  <2>2. \A c \in Copy : c # dst => out'[c] = out[c]
    BY <2>1 DEF Create, Align, Header, CopyUnit, Fail
  <2> QED  BY <2>1, <2>2
<1>3. CASE pc' = "note"
  <2>1. <<at, entry>> \in Logs /\ <<at, entry>> \notin Past
    BY <1>0, <1>1, AtHand DEF Working
  <2> QED  BY <1>0, <1>1, <1>2, <1>3, <2>1, Misses DEF Making
<1>4. CASE pc' \in Making
  <2>1. /\ StageOf(pc) = "taking" /\ StageOf(pc)' = StageOf(pc) /\ InHand /\ InHand'
        /\ NotedOf' = NotedOf
    BY <1>1, <1>4 DEF StageOf, InHand, NotedOf, Making
  <2> QED  BY <1>1, <1>2, <2>1, Stutters
<1> QED  BY <1>1, <1>3, <1>4

\* What is taken of a log is what the copy that is listed next holds of it.
LEMMA Lists ==
  ASSUME LogInv, Walk, Books, Done, NEW c, out[dst] = {c}
  PROVE  Taken' = [Taken EXCEPT ![ThisLog] = {[header |-> c.header, units |-> c.units]}]
<1>1. pc = "copy" /\ copied' = copied \cup {dst} /\ UNCHANGED <<dirs, at, out>>
  BY DEF Done
<1>2. ThisLog \in LogIds /\ TakenOf(ThisLog) = {}
  BY <1>1, AtHand, HandWaits DEF Working, Making
<1>3. c.of = ThisLog
  BY <1>1 DEF Books, New, Working, Making, Log, ThisLog
<1> DEFINE Of(of, all) == {[header |-> d.header, units |-> d.units] : d \in {held \in all : held.of = of}}
           before == UNION {out[listed] : listed \in copied}
           after == UNION {out'[listed] : listed \in copied'}
<1>4. after = before \cup {c}
  BY <1>1
<1>5. \A of : TakenOf(of) = Of(of, before) /\ TakenOf(of)' = Of(of, after)
  BY DEF TakenOf
<1> HIDE DEF before, after
<1>6. \A of : of # ThisLog => TakenOf(of)' = TakenOf(of)
  BY <1>3, <1>4, <1>5
<1>7. ASSUME NEW of, of = ThisLog
      PROVE  TakenOf(of)' = {[header |-> c.header, units |-> c.units]}
  <2>1. \A held \in before : held.of # of
    BY <1>2, <1>5, <1>7
  <2>2. {held \in after : held.of = of} = {c}
    BY <1>3, <1>4, <1>7, <2>1
  <2>3. Of(of, after) = {[header |-> d.header, units |-> d.units] : d \in {c}}
    BY <2>2
  <2> QED  BY <1>5, <2>3
<1>8. Taken' = [l \in LogIds |-> TakenOf(l)']
  BY DEF Taken, LogIds
<1> QED  BY <1>2, <1>6, <1>7, <1>8 DEF Taken

\* A copy that is done is the end of the log as it was measured, or less than
\* that if the log was emptied meanwhile.
LEMMA DoneTakes ==
  ASSUME SnapInv, Books, Done
  PROVE  Snapshots!Next
<1>0. LogInv /\ Walk /\ Headers
  BY DEF SnapInv, BooksInv
<1>1. /\ pc = "copy" /\ pc' = "entries" /\ ~More
      /\ UNCHANGED <<dirs, at, out, noted, dst, measured, ends>>
  BY DEF Done, file, copying
<1>2. /\ size \in Nat /\ from \in 0..size /\ size - from <= Max /\ read \in Nat
      /\ measured \in Seq(Unit) /\ size = Len(measured) /\ Max \in Nat /\ Bound \in Nat
  BY <1>0, <1>1, LogAssumption DEF LogInv, Typed, Placed, Measured, Making
<1>3. PICK of, header : \E units \in Seq(Unit) :
        /\ out[dst] = {Made(of, header, units)} /\ Len(units) = read /\ read <= Limit
        /\ ~cut => Len(units) = Limit /\ \A n \in 1..Limit : units[n] = measured[from + n]
  <2>1. CASE cut
    BY <1>0, <1>1, <2>1 DEF LogInv, Copied, Making
  <2>2. CASE ~cut
    <3>1. read = Limit
      <4>1. size <= Len(log.held) /\ Len(log.held) \in Nat
        <5>1. log.held \in Seq(Unit)
          BY <1>0 DEF LogInv, Typed
        <5> QED  BY <1>0, <1>1, <2>2, <5>1 DEF LogInv, Measured, Making
      <4>2. read <= Limit
        BY <1>0, <1>1 DEF LogInv, Copied, Making
      <4> QED  BY <1>1, <1>2, <4>1, <4>2 DEF More, Limit
    <3> QED  BY <1>0, <1>1, <2>2, <3>1 DEF LogInv, Copied, Making
  <2> QED  BY <2>1, <2>2
<1>4. PICK units \in Seq(Unit) :
        /\ out[dst] = {Made(of, header, units)} /\ Len(units) = read /\ read <= Limit
        /\ ~cut => Len(units) = Limit /\ \A n \in 1..Limit : units[n] = measured[from + n]
  BY <1>3
<1> DEFINE headed == IF size > Max THEN {Limit} ELSE {}
<1>5. header = headed
  <2>1. Made(of, header, units).header = header
    BY DEF Made
  <2> QED  BY <1>0, <1>1, <1>4, <2>1 DEF Headers, Making
<1>6. Taken' = [Taken EXCEPT ![ThisLog] = {[header |-> headed, units |-> units]}]
  <2>1. Made(of, header, units).header = header /\ Made(of, header, units).units = units
    BY DEF Made
  <2> QED  BY <1>0, <1>4, <1>5, <2>1, Lists
<1> HIDE DEF headed
<1>7. /\ ThisLog \in LogIds /\ Snapshots!Waits(ThisLog)
      /\ Hand = {ThisLog} /\ Held = measured /\ (Cut <=> cut)
  <2>1. ThisLog \in LogIds /\ Snapshots!Waits(ThisLog)
    BY <1>0, <1>1, AtHand, HandWaits DEF Working, Making
  <2> QED  BY <1>1, <2>1 DEF Hand, Held, Cut, InHand
<1>8. /\ Hand' = {} /\ Held' = <<>> /\ Cut' = FALSE /\ Found' = Found
      /\ StageOf(pc)' = StageOf(pc) /\ NotedOf' = NotedOf
  BY <1>1 DEF Hand, Held, Cut, InHand, Found, StageOf, NotedOf
<1>9. CASE ~cut
  <2>1. Snapshots!Begins(from)
    BY <1>0, <1>1, <1>2, <1>7, <1>9 DEF Snapshots!Begins, LogInv, Placed, Making
  <2>2. units = Snapshots!Rest(from)
    <3>1. /\ SubSeq(measured, from + 1, size) \in Seq(Unit)
          /\ Len(SubSeq(measured, from + 1, size)) = size - from
          /\ \A n \in 1..(size - from) : SubSeq(measured, from + 1, size)[n] = measured[from + n]
      BY <1>2
    <3>2. units = SubSeq(measured, from + 1, size)
      BY <1>4, <1>9, <3>1, SeqEqual DEF Limit
    <3> QED  BY <1>2, <1>7, <3>2 DEF Snapshots!Rest
  <2>3. headed = Snapshots!Headed(Len(Held) - from)
    BY <1>2, <1>7 DEF headed, Snapshots!Headed, Limit
  <2>4. from \in 0..Len(Held)
    BY <1>2, <1>7
  <2>5. Snapshots!Take(ThisLog)
    BY <1>1, <1>6, <1>7, <1>8, <1>9, <2>1, <2>2, <2>3, <2>4
       DEF Snapshots!Take, Snapshots!PutDown
  <2> QED  BY <1>7, <2>5 DEF Snapshots!Next, Snapshots!Log, LogIds
<1>10. CASE cut
  <2>1. Limit \in 0..Max /\ read \in 0..Limit /\ units \in [1..read -> Unit]
    BY <1>2, <1>4 DEF Limit
  <2>2. headed = Snapshots!Headed(Limit)
    BY <1>2, <1>7 DEF headed, Snapshots!Headed
  <2>3. Snapshots!TakeSpoiled(ThisLog)
    BY <1>1, <1>6, <1>7, <1>8, <1>10, <2>1, <2>2 DEF Snapshots!TakeSpoiled, Snapshots!PutDown
  <2> QED  BY <1>7, <2>3 DEF Snapshots!Next, Snapshots!Log, LogIds
<1> QED  BY <1>9, <1>10

LEMMA SnapStep ==
  ASSUME SnapInv, Enough, [Next]_vars
  PROVE  [Snapshots!Next]_(Snapshots!vars)
<1>1. Books
  BY DEF SnapInv, BooksInv
<1>2. Rests => UNCHANGED Snapshots!vars
  BY DEF Rests, Snapshots!vars
<1>3. Snapshots!Next \/ Rests
  <2>1. CASE NextDir \/ Note \/ Write \/ Swap \/ UNCHANGED vars
    BY <2>1, LoopsRest
  <2>2. CASE Add \/ Discovered \/ Done \/ Return \/ Empty
    BY <1>1, <2>2, AddFinds, DiscoveredStarts, DoneTakes, ReturnReturns, EmptySpoils
  <2>3. CASE ReadDir \/ Entry \/ Open
    BY <1>1, <2>3, ReadDirRefuses, EntryMisses, OpenMeasures
  <2>4. CASE Create \/ Align \/ Header \/ CopyUnit \/ Fail
    BY <1>1, <2>4, CopyingRests
  <2> QED  BY <2>1, <2>2, <2>3, <2>4 DEF Next, Tool, Others
<1> QED  BY <1>2, <1>3

LEMMA SnapInit == Init => Snapshots!Init
<1> SUFFICES ASSUME Init
             PROVE  Snapshots!Init
  OBVIOUS
<1>1. /\ pc = "discover" /\ dirs = <<>> /\ copied = {} /\ noted = {} /\ ends \subseteq Unit
  BY DEF Init
<1>2. Found = {} /\ StageOf(pc) = "finding" /\ NotedOf = {}
  <2>1. 1..Len(dirs) = {}
    BY <1>1
  <2> QED  BY <1>1, <2>1 DEF Found, StageOf, NotedOf
<1>3. Hand = {} /\ Held = <<>> /\ Cut = FALSE
  BY <1>1 DEF Hand, Held, Cut, InHand
<1>4. Taken = [l \in LogIds |-> {}]
  <2>1. \A l : TakenOf(l) = {}
    BY <1>1 DEF TakenOf
  <2> QED  BY <2>1 DEF Taken
<1> QED  BY <1>1, <1>2, <1>3, <1>4 DEF Snapshots!Init, Snapshots!Log, LogIds

\* For any directories, any logs, any cap and any bound on the search for a line,
\* as long as there are as many numbers for copies of one name as directories
\* (uniqueName): whoever reads the bundle finds of every log a copy or a note,
\* never touched afterwards, and each copy as if copyTail had taken the end of the
\* log in one step, unless the log was emptied in place meanwhile.
THEOREM SpecTakesSnapshots == Spec /\ []Enough => TakesSnapshots
<1>1. SnapInv /\ Enough /\ [Next]_vars => [Snapshots!Next]_(Snapshots!vars)
  BY SnapStep
<1> QED  BY <1>1, SnapInit, SnapInvariant, PTL DEF Spec, TakesSnapshots, Snapshots!Spec
=============================================================================
