-------------------------- MODULE ConfigFiles_proofs --------------------------
(***************************************************************************)
(* Proofs about ConfigFiles, for any files with any tokens in any order,   *)
(* and at the end about YamlText.                                          *)
(* The invariant IInv says what the parser's stack is: the elements that   *)
(* are open at the token it has come to, outermost first.                  *)
(***************************************************************************)
EXTENDS ConfigFiles, YamlText, FiniteSetTheorems, SequenceTheorems, WellFoundedInduction, TLAPS

Depth(tokens, k, n) == Occurs(tokens, "start", k, n) - Occurs(tokens, "end", k, n)

\* names gives, for each of the elements open before token n, outermost first,
\* its start tag; sensitive is what the parser keeps of them.
Nested(tokens, sensitive, n, names) ==
  /\ \A i \in 1..Len(sensitive) :
       /\ names[i] \in 1..(n - 1)
       /\ tokens[names[i]].sensitive = sensitive[i]
       /\ Depth(tokens, names[i], n - 1) = Len(sensitive) - i + 1
  /\ \A i, j \in 1..Len(sensitive) : i < j => names[i] < names[j]
  /\ Opens(tokens, n) = {names[i] : i \in 1..Len(sensitive)}

\* No element was closed that was not open.
Counted(tokens, depth, n) ==
  /\ Depth(tokens, 1, n - 1) = depth
  /\ \A k \in 1..(n - 1) : 0 <= Depth(tokens, 1, k)

\* A token whose value has to go.
Sensitive(tokens, n) ==
  \/ tokens[n].kind = "start" /\ Attributes(tokens[n]) # tokens[n]
  \/ /\ tokens[n].kind = "text" /\ tokens[n].value # ""
     /\ Innermost(tokens, n) # 0 /\ tokens[Innermost(tokens, n)].sensitive

\* What the parser knows of the tokens before next.
Parsed ==
  /\ pc = "file" => next = 1 /\ stack = <<>> /\ spans = {}
  /\ pc = "parse" =>
       /\ files[at].xml
       /\ \E names \in [1..Len(stack) -> 1..(next - 1)] : Nested(Tokens, stack, next, names)
       /\ Counted(Tokens, Len(stack), next)
       /\ \A n \in 1..(next - 1) : Sensitive(Tokens, n) => n \in spans

\* What the global holds is a tag of the file at work that is to be rewritten, or
\* one that a file before it has left because it did not parse.
Scratch ==
  \A e \in scratch :
    \/ \E i \in {at} : IsLeft(e.tag, i, e.span)
    \/ /\ pc = "parse" /\ e.span \in spans
       /\ Tokens[e.span].kind = "start" /\ IsOf(e.tag, Tokens[e.span])
       /\ e.tag.value \in {"rest", Removed}

IInv ==
  /\ TypeOK /\ Parsed /\ Scratch
  /\ NothingSensitiveShipped /\ FailsClosed /\ OnlyUnparsedLeaveTags

-----------------------------------------------------------------------------
(* Counting tokens.                                                        *)

LEMMA OccursOne ==
  ASSUME NEW tokens, NEW kind, NEW k \in Nat, NEW n \in Nat, k <= n + 1
  PROVE  /\ Occurs(tokens, kind, k, n) \in Nat
         /\ Occurs(tokens, kind, k, n + 1)
              = Occurs(tokens, kind, k, n) + (IF tokens[n + 1].kind = kind THEN 1 ELSE 0)
         /\ Occurs(tokens, kind, n + 1, n) = 0
<1> DEFINE S(m) == {j \in k..m : tokens[j].kind = kind}
<1>1. IsFiniteSet(S(n))
  <2>1. IsFiniteSet(k..n)
    BY FS_Interval
  <2> QED  BY <2>1, FS_Subset
<1>2. Cardinality(S(n)) \in Nat
  BY <1>1, FS_CardinalityType
<1>3. S(n + 1) = IF tokens[n + 1].kind = kind THEN S(n) \cup {n + 1} ELSE S(n)
  OBVIOUS
<1>4. n + 1 \notin S(n)
  OBVIOUS
<1>5. Cardinality(S(n) \cup {n + 1}) = Cardinality(S(n)) + 1
  BY <1>1, <1>4, FS_AddElement
<1>6. {j \in (n + 1)..n : tokens[j].kind = kind} = {}
  OBVIOUS
<1>7. Occurs(tokens, kind, n + 1, n) = 0
  BY <1>6, FS_EmptySet DEF Occurs
<1>8. Occurs(tokens, kind, k, n) = Cardinality(S(n))
      /\ Occurs(tokens, kind, k, n + 1) = Cardinality(S(n + 1))
  BY DEF Occurs
<1> HIDE DEF S
<1> QED  BY <1>2, <1>3, <1>5, <1>7, <1>8

\* What one more token does to the depth.
Change(token) ==
  IF token.kind = "start" THEN 1 ELSE IF token.kind = "end" THEN -1 ELSE 0

LEMMA DepthOne ==
  ASSUME NEW tokens, NEW n \in Nat \ {0}, NEW k \in 1..n
  PROVE  /\ Depth(tokens, k, n - 1) \in Int
         /\ Depth(tokens, k, n) = Depth(tokens, k, n - 1) + Change(tokens[n])
         /\ Depth(tokens, n, n - 1) = 0
<1> DEFINE m == n - 1
<1>1. m \in Nat /\ m + 1 = n /\ k \in Nat /\ k <= m + 1
  OBVIOUS
<1> HIDE DEF m
<1>2. ASSUME NEW kind
      PROVE  /\ Occurs(tokens, kind, k, m) \in Nat
             /\ Occurs(tokens, kind, k, n)
                  = Occurs(tokens, kind, k, m) + (IF tokens[n].kind = kind THEN 1 ELSE 0)
             /\ Occurs(tokens, kind, n, m) = 0
  BY <1>1, OccursOne
<1>3. Occurs(tokens, "start", n, m) - Occurs(tokens, "end", n, m) = 0
  BY <1>2
<1>4. Depth(tokens, k, n) = Depth(tokens, k, m) + Change(tokens[n])
  BY <1>2 DEF Depth, Change
<1>5. Depth(tokens, k, m) \in Int
  BY <1>2 DEF Depth
<1> QED  BY <1>3, <1>4, <1>5 DEF m, Depth

\* Opens in terms of the depth.
LEMMA OpensDepth ==
  ASSUME NEW tokens, NEW n \in Nat
  PROVE  Opens(tokens, n) =
           {k \in 1..(n - 1) : tokens[k].kind = "start" /\
              \A j \in k..(n - 1) : 0 < Depth(tokens, k, j)}
<1>1. ASSUME NEW k \in 1..(n - 1), NEW j \in k..(n - 1)
      PROVE  Occurs(tokens, "end", k, j) < Occurs(tokens, "start", k, j)
               <=> 0 < Depth(tokens, k, j)
  <2>1. Occurs(tokens, "end", k, j) \in Nat /\ Occurs(tokens, "start", k, j) \in Nat
    BY OccursOne
  <2> QED  BY <2>1 DEF Depth
<1> QED  BY <1>1 DEF Opens

\* An element that is open before a token stays open unless it is closed.
LEMMA OpensOne ==
  ASSUME NEW tokens, NEW n \in Nat \ {0}
  PROVE  Opens(tokens, n + 1) =
           {k \in Opens(tokens, n) : 0 < Depth(tokens, k, n)}
             \cup (IF tokens[n].kind = "start" THEN {n} ELSE {})
<1>1. ASSUME tokens[n].kind = "start" PROVE Depth(tokens, n, n) = 1
  BY <1>1, DepthOne DEF Change
<1>2. Opens(tokens, n + 1) =
        {k \in 1..n : tokens[k].kind = "start" /\ \A j \in k..n : 0 < Depth(tokens, k, j)}
  BY OpensDepth
<1>3. ASSUME NEW k \in 1..(n - 1)
      PROVE  (\A j \in k..n : 0 < Depth(tokens, k, j))
               <=> (\A j \in k..(n - 1) : 0 < Depth(tokens, k, j)) /\ 0 < Depth(tokens, k, n)
  OBVIOUS
<1>4. \A j \in n..n : j = n
  OBVIOUS
<1>5. n \in Opens(tokens, n + 1) <=> tokens[n].kind = "start"
  BY <1>1, <1>2, <1>4
<1>6. n \notin Opens(tokens, n)
  BY DEF Opens
<1>7. ASSUME NEW k \in 1..(n - 1)
      PROVE  k \in Opens(tokens, n + 1) <=> k \in Opens(tokens, n) /\ 0 < Depth(tokens, k, n)
  BY <1>2, <1>3, OpensDepth
<1>8. Opens(tokens, n + 1) \subseteq 1..n /\ Opens(tokens, n) \subseteq 1..(n - 1)
  BY <1>2 DEF Opens
<1> QED  BY <1>5, <1>6, <1>7, <1>8

-----------------------------------------------------------------------------
(* The stack.                                                              *)

\* The innermost element is the top of the stack.
LEMMA Top ==
  ASSUME NEW tokens, NEW n \in Nat \ {0}, NEW sensitive \in Seq(BOOLEAN), NEW names,
         Nested(tokens, sensitive, n, names)
  PROVE  IF sensitive = <<>> THEN Innermost(tokens, n) = 0
         ELSE /\ Innermost(tokens, n) = names[Len(sensitive)]
              /\ Innermost(tokens, n) # 0
              /\ tokens[Innermost(tokens, n)].sensitive = sensitive[Len(sensitive)]
<1> DEFINE last == Len(sensitive)
<1>1. CASE sensitive = <<>>
  <2>1. Opens(tokens, n) = {}
    BY <1>1 DEF Nested
  <2> QED  BY <1>1, <2>1 DEF Innermost
<1>2. CASE sensitive # <<>>
  <2>1. last \in 1..Len(sensitive)
    BY <1>2
  <2>2. /\ names[last] \in Opens(tokens, n) /\ names[last] \in 1..(n - 1)
        /\ tokens[names[last]].sensitive = sensitive[last]
    BY <2>1 DEF Nested
  <2>3. \A k \in Opens(tokens, n) : k \in 1..(n - 1) /\ k <= names[last]
    <3> TAKE k \in Opens(tokens, n)
    <3>1. PICK i \in 1..Len(sensitive) : k = names[i]
      BY DEF Nested
    <3>2. k \in 1..(n - 1)
      BY <3>1 DEF Nested
    <3>3. i = last \/ names[i] < names[last]
      BY <2>1 DEF Nested
    <3> QED  BY <2>2, <3>1, <3>2, <3>3
  <2>4. \A k \in Opens(tokens, n) : (\A j \in Opens(tokens, n) : j <= k) => k = names[last]
    BY <2>2, <2>3
  <2>5. Innermost(tokens, n) = names[last]
    BY <2>2, <2>3, <2>4 DEF Innermost
  <2> QED  BY <1>2, <2>2, <2>5
<1> QED  BY <1>1, <1>2

\* A start tag opens an element.
LEMMA NestedStart ==
  ASSUME NEW tokens, NEW n \in Nat \ {0}, tokens[n].kind = "start",
         NEW sensitive \in Seq(BOOLEAN), tokens[n].sensitive \in BOOLEAN,
         NEW names, Nested(tokens, sensitive, n, names)
  PROVE  \E more \in [1..(Len(sensitive) + 1) -> 1..n] :
           Nested(tokens, Append(sensitive, tokens[n].sensitive), n + 1, more)
<1> DEFINE depth == Len(sensitive)
           more == [i \in 1..(depth + 1) |-> IF i = depth + 1 THEN n ELSE names[i]]
           stacked == Append(sensitive, tokens[n].sensitive)
<1>1. depth \in Nat /\ Len(stacked) = depth + 1
      /\ \A i \in 1..depth : stacked[i] = sensitive[i]
      /\ stacked[depth + 1] = tokens[n].sensitive
  OBVIOUS
<1>2. ASSUME NEW i \in 1..depth
      PROVE  /\ more[i] = names[i] /\ names[i] \in 1..(n - 1)
             /\ tokens[names[i]].sensitive = sensitive[i]
             /\ Depth(tokens, names[i], n) = depth - i + 2
  <2>1. /\ names[i] \in 1..(n - 1) /\ tokens[names[i]].sensitive = sensitive[i]
        /\ Depth(tokens, names[i], n - 1) = depth - i + 1
    BY DEF Nested
  <2>2. Change(tokens[n]) = 1 /\ names[i] \in 1..n
    BY <2>1 DEF Change
  <2>3. /\ Depth(tokens, names[i], n - 1) \in Int
        /\ Depth(tokens, names[i], n) = Depth(tokens, names[i], n - 1) + Change(tokens[n])
    BY <2>2, DepthOne
  <2> QED  BY <1>1, <2>1, <2>2, <2>3
<1>3. more[depth + 1] = n /\ Depth(tokens, n, n) = 1
  BY <1>1, DepthOne DEF Change
<1>4. Opens(tokens, n) = {names[i] : i \in 1..depth}
  BY DEF Nested
<1>5. \A k \in Opens(tokens, n) : 0 < Depth(tokens, k, n)
  <2> TAKE k \in Opens(tokens, n)
  <2>1. PICK i \in 1..depth : k = names[i]
    BY <1>4
  <2>2. Depth(tokens, k, n) = depth - i + 2
    BY <1>2, <2>1
  <2> QED  BY <1>1, <2>2
<1>6. Opens(tokens, n + 1) = Opens(tokens, n) \cup {n}
  BY <1>5, OpensOne
<1>7. Opens(tokens, n + 1) = {more[i] : i \in 1..(depth + 1)}
  <2> HIDE DEF more, depth
  <2>1. \A i : i \in 1..(depth + 1) <=> i \in 1..depth \/ i = depth + 1
    BY <1>1
  <2>2. \A i \in 1..depth : more[i] = names[i]
    BY <1>2
  <2> QED  BY <1>3, <1>4, <1>6, <2>1, <2>2
<1>8. ASSUME NEW i \in 1..(depth + 1)
      PROVE  /\ more[i] \in 1..n /\ tokens[more[i]].sensitive = stacked[i]
             /\ Depth(tokens, more[i], n) = depth + 1 - i + 1
  <2>1. CASE i = depth + 1
    <3> HIDE DEF more
    <3> QED  BY <1>1, <1>3, <2>1
  <2>2. CASE i \in 1..depth
    <3>1. depth - i + 2 = depth + 1 - i + 1
      BY <1>1, <2>2
    <3> HIDE DEF more
    <3> QED  BY <1>1, <1>2, <2>2, <3>1
  <2> QED  BY <1>1, <2>1, <2>2
<1>9. \A i, j \in 1..(depth + 1) : i < j => more[i] < more[j]
  <2> TAKE i, j \in 1..(depth + 1)
  <2> HAVE i < j
  <2>1. i \in 1..depth
    BY <1>1
  <2>2. CASE j = depth + 1
    <3> HIDE DEF more
    <3>1. more[i] = names[i] /\ names[i] < n
      BY <1>2, <2>1
    <3>2. more[j] = n
      BY <1>3, <2>2
    <3> QED  BY <3>1, <3>2
  <2>3. CASE j \in 1..depth
    <3>1. names[i] < names[j]
      BY <2>1, <2>3 DEF Nested
    <3> HIDE DEF more
    <3> QED  BY <1>2, <2>1, <2>3, <3>1
  <2> QED  BY <1>1, <2>2, <2>3
<1>10. more \in [1..(depth + 1) -> 1..n]
  BY <1>8
<1> HIDE DEF more
<1>11. Nested(tokens, stacked, n + 1, more)
  BY <1>1, <1>7, <1>8, <1>9 DEF Nested
<1> QED  BY <1>10, <1>11

\* An end tag closes the innermost one.
LEMMA NestedEnd ==
  ASSUME NEW tokens, NEW n \in Nat \ {0}, tokens[n].kind = "end",
         NEW sensitive \in Seq(BOOLEAN), sensitive # <<>>,
         NEW names, Nested(tokens, sensitive, n, names)
  PROVE  \E fewer \in [1..(Len(sensitive) - 1) -> 1..n] :
           Nested(tokens, SubSeq(sensitive, 1, Len(sensitive) - 1), n + 1, fewer)
<1> DEFINE depth == Len(sensitive)
           fewer == [i \in 1..(depth - 1) |-> names[i]]
           stacked == SubSeq(sensitive, 1, depth - 1)
<1>1. depth \in Nat \ {0} /\ Len(stacked) = depth - 1
      /\ \A i \in 1..(depth - 1) : stacked[i] = sensitive[i]
  <2>1. depth \in Nat \ {0}
    OBVIOUS
  <2>2. \A i \in 1..(depth - 1) : sensitive[i] \in BOOLEAN
    OBVIOUS
  <2> HIDE DEF depth
  <2>3. /\ Len(stacked) = IF 1 <= depth - 1 THEN depth - 1 - 1 + 1 ELSE 0
        /\ \A i \in 1..(depth - 1 - 1 + 1) : stacked[i] = sensitive[1 + i - 1]
    BY <2>1, <2>2, SubSeqProperties
  <2> QED  BY <2>1, <2>3
<1>2. ASSUME NEW i \in 1..depth
      PROVE  /\ names[i] \in 1..(n - 1)
             /\ tokens[names[i]].sensitive = sensitive[i]
             /\ Depth(tokens, names[i], n) = depth - i
  <2>1. /\ names[i] \in 1..(n - 1) /\ tokens[names[i]].sensitive = sensitive[i]
        /\ Depth(tokens, names[i], n - 1) = depth - i + 1
    BY DEF Nested
  <2>2. Change(tokens[n]) = -1 /\ names[i] \in 1..n
    BY <2>1 DEF Change
  <2>3. /\ Depth(tokens, names[i], n - 1) \in Int
        /\ Depth(tokens, names[i], n) = Depth(tokens, names[i], n - 1) + Change(tokens[n])
    BY <2>2, DepthOne
  <2> QED  BY <1>1, <2>1, <2>2, <2>3
<1>3. Opens(tokens, n) = {names[i] : i \in 1..depth}
  BY DEF Nested
<1>4. Opens(tokens, n + 1) = {k \in Opens(tokens, n) : 0 < Depth(tokens, k, n)}
  BY OpensOne
<1>5. \A i \in 1..depth : 0 < Depth(tokens, names[i], n) <=> i \in 1..(depth - 1)
  BY <1>1, <1>2
<1>6. Opens(tokens, n + 1) = {names[i] : i \in 1..(depth - 1)}
  <2> HIDE DEF depth
  <2>1. \A i \in 1..(depth - 1) : i \in 1..depth
    BY <1>1
  <2> QED  BY <1>3, <1>4, <1>5, <2>1
<1>7. \A i \in 1..(depth - 1) : i \in 1..depth /\ fewer[i] = names[i]
  BY <1>1
<1>8. \A i \in 1..(depth - 1) : depth - i = depth - 1 - i + 1
  BY <1>1
<1>9. \A i, j \in 1..depth : i < j => names[i] < names[j]
  BY DEF Nested
<1>10. fewer \in [1..(depth - 1) -> 1..n]
  BY <1>2, <1>7
<1>11. {fewer[i] : i \in 1..(depth - 1)} = {names[i] : i \in 1..(depth - 1)}
  BY <1>7
<1> HIDE DEF fewer
<1>12. \A i \in 1..(depth - 1) :
         /\ fewer[i] \in 1..n /\ tokens[fewer[i]].sensitive = stacked[i]
         /\ Depth(tokens, fewer[i], n) = depth - 1 - i + 1
  BY <1>1, <1>2, <1>7, <1>8
<1>13. n + 1 - 1 = n
  OBVIOUS
<1> HIDE DEF depth, stacked
<1>14. Nested(tokens, stacked, n + 1, fewer)
  <2>1. \A i, j \in 1..(depth - 1) : i < j => fewer[i] < fewer[j]
    BY <1>7, <1>9
  <2>2. Opens(tokens, n + 1) = {fewer[i] : i \in 1..(depth - 1)}
    BY <1>6, <1>11
  <2> QED  BY <1>1, <1>12, <1>13, <2>1, <2>2 DEF Nested
<1> QED  BY <1>10, <1>14 DEF depth, stacked

\* A text or a comment neither opens nor closes one.
LEMMA NestedOther ==
  ASSUME NEW tokens, NEW n \in Nat \ {0}, tokens[n].kind \notin {"start", "end"},
         NEW sensitive \in Seq(BOOLEAN),
         NEW names \in [1..Len(sensitive) -> 1..(n - 1)], Nested(tokens, sensitive, n, names)
  PROVE  names \in [1..Len(sensitive) -> 1..n] /\ Nested(tokens, sensitive, n + 1, names)
<1>1. ASSUME NEW i \in 1..Len(sensitive)
      PROVE  /\ names[i] \in 1..n
             /\ tokens[names[i]].sensitive = sensitive[i]
             /\ Depth(tokens, names[i], n) = Len(sensitive) - i + 1
  <2>1. /\ names[i] \in 1..(n - 1) /\ tokens[names[i]].sensitive = sensitive[i]
        /\ Depth(tokens, names[i], n - 1) = Len(sensitive) - i + 1
    BY DEF Nested
  <2>2. Change(tokens[n]) = 0 /\ names[i] \in 1..n
    BY <2>1 DEF Change
  <2>3. /\ Depth(tokens, names[i], n - 1) \in Int
        /\ Depth(tokens, names[i], n) = Depth(tokens, names[i], n - 1) + Change(tokens[n])
    BY <2>2, DepthOne
  <2> QED  BY <2>1, <2>2, <2>3
<1>2. Opens(tokens, n) = {names[i] : i \in 1..Len(sensitive)}
  BY DEF Nested
<1>3. \A k \in Opens(tokens, n) : 0 < Depth(tokens, k, n)
  BY <1>1, <1>2
<1>4. Opens(tokens, n + 1) = Opens(tokens, n)
  BY <1>3, OpensOne
<1> QED  BY <1>1, <1>4 DEF Nested

-----------------------------------------------------------------------------
(* The files.                                                              *)

LEMMA FileType ==
  ASSUME files \in Files
  PROVE  /\ files \in Seq([xml : BOOLEAN, tokens : Seq(XmlToken)])
         /\ Len(files) \in Nat
         /\ \A i \in 1..Len(files) : files[i].tokens \in Seq(XmlToken)
<1> DEFINE File == [xml : BOOLEAN, tokens : Seq(XmlToken)]
<1>1. files \in Seq(File)
  BY FilesAssumption
<1>2. \A f \in File : f.tokens \in Seq(XmlToken)
  OBVIOUS
<1> HIDE DEF File
<1>3. Len(files) \in Nat /\ \A i \in 1..Len(files) : files[i] \in File
  BY <1>1
<1> QED  BY <1>1, <1>2, <1>3 DEF File

LEMMA TokensType ==
  ASSUME TypeOK, pc # "done"
  PROVE  /\ Tokens \in Seq(XmlToken) /\ Len(Tokens) \in Nat
         /\ \A n \in 1..Len(Tokens) : Tokens[n] \in XmlToken
<1>1. Tokens \in Seq(XmlToken)
  BY FileType DEF TypeOK, Tokens
<1> QED  BY <1>1

LEMMA AtToken ==
  ASSUME TypeOK, Advance
  PROVE  /\ pc = "parse" /\ next \in Nat \ {0} /\ next \in 1..Len(Tokens)
         /\ Tokens[next] \in XmlToken /\ Tokens[next].sensitive \in BOOLEAN
         /\ Tokens' = Tokens /\ files' = files /\ at' = at /\ pc' = pc
         /\ next' = next + 1 /\ shipped' = shipped
<1>1. /\ pc = "parse" /\ next <= Len(Tokens) /\ next' = next + 1
      /\ pc' = pc /\ files' = files /\ at' = at /\ shipped' = shipped
  BY DEF Advance
<1>2. Len(Tokens) \in Nat /\ \A n \in 1..Len(Tokens) : Tokens[n] \in XmlToken
  BY <1>1, TokensType
<1>3. next \in 1..(Len(Tokens) + 1)
  BY <1>1 DEF TypeOK
<1>4. next \in 1..Len(Tokens) /\ next \in Nat \ {0}
  BY <1>1, <1>2, <1>3
<1>5. Tokens[next] \in XmlToken
  BY <1>2, <1>4
<1>6. Tokens' = Tokens
  BY <1>1 DEF Tokens
<1> QED  BY <1>1, <1>4, <1>5, <1>6 DEF XmlToken

\* What redactAttrs makes of a tag: nothing, or another value.
LEMMA AttributesValue ==
  ASSUME NEW t \in XmlToken
  PROVE  /\ Attributes(t) \in XmlToken
         /\ Attributes(t) # t => Attributes(t).value \in {"rest", Removed}
         /\ IsOf(Attributes(t), t)
         /\ Attributes(t) = t => t.value \in {"", "apart", Removed}
<1> DEFINE v == IF t.value \in {"", "apart"} THEN t.value
                ELSE IF t.value = "mixed" THEN "rest" ELSE Removed
<1>1. Attributes(t) = [t EXCEPT !.value = v]
  BY DEF XmlToken, Attributes
<1>2. t.value \in Value \cup {"apart", "mixed", "rest"}
  BY DEF XmlToken
<1>3. v \in {t.value, "rest", Removed} /\ v \in Value \cup {"apart", "mixed", "rest"}
      /\ (v = t.value => t.value \in {"", "apart", Removed})
      /\ (v # t.value => v \in {"rest", Removed})
  BY <1>2 DEF Value, Removed
<1> HIDE DEF v
<1>4. Attributes(t) \in XmlToken /\ Attributes(t).value = v
  BY <1>1, <1>3 DEF XmlToken
<1>5. Attributes(t) = t <=> v = t.value
  <2>1. [t EXCEPT !.value = t.value] = t
    BY DEF XmlToken
  <2> QED  BY <1>1, <1>4, <2>1
<1>6. IsOf(Attributes(t), t)
  BY <1>1, <1>3 DEF IsOf
<1> QED  BY <1>3, <1>4, <1>5, <1>6

LEMMA InitInv == Init => IInv
<1> SUFFICES ASSUME Init PROVE IInv
  OBVIOUS
<1>1. files \in Files /\ Len(files) \in Nat /\ (files # <<>> => 1 \in 1..Len(files))
  <2>1. files \in Seq([xml : BOOLEAN, tokens : Seq(XmlToken)])
    BY FileType DEF Init
  <2> QED  BY <2>1 DEF Init
<1>2. files # <<>> => files[1].tokens \in Seq(XmlToken)
  BY <1>1, FileType
<1>3. pc # "done" => at \in 1..Len(files) /\ next \in 1..(Len(Tokens) + 1)
  BY <1>1, <1>2 DEF Init, Tokens
<1>4. /\ stack = <<>> /\ stack \in Seq(BOOLEAN) /\ next = 1 /\ spans = {} /\ scratch = {}
      /\ pc \in {"file", "done"}
  BY DEF Init
<1>5. /\ shipped \in [1..Len(files) -> SUBSET Seq(XmlToken)]
      /\ \A i \in 1..Len(shipped) : shipped[i] = {}
  BY <1>1 DEF Init
<1>6. TypeOK
  BY <1>1, <1>3, <1>4, <1>5 DEF TypeOK
<1> QED
  BY <1>4, <1>5, <1>6 DEF IInv, Parsed, Scratch, NothingSensitiveShipped, FailsClosed,
     OnlyUnparsedLeaveTags

\* Where the walk is after a file.
LEMMA NextFileType ==
  ASSUME TypeOK, pc # "done", NextFile, files' = files
  PROVE  /\ pc' \in {"file", "done"}
         /\ pc' # "done" => at' \in 1..Len(files) /\ next' \in 1..(Len(Tokens') + 1)
         /\ stack' \in Seq(BOOLEAN) /\ spans' = {}
<1>1. at \in 1..Len(files) /\ Len(files) \in Nat
  BY FileType DEF TypeOK
<1>2. at # Len(files) => at + 1 \in 1..Len(files)
  BY <1>1
<1>3. at # Len(files) => files[at + 1].tokens \in Seq(XmlToken)
  BY <1>2, FileType DEF TypeOK
<1> QED  BY <1>1, <1>2, <1>3 DEF NextFile, Tokens

LEMMA OutputType ==
  ASSUME TypeOK, pc # "done"
  PROVE  /\ Len(Spliced) = Len(Tokens) /\ Len(Output(Spliced)) = Len(Tokens)
         /\ Output(Spliced) \in Seq(XmlToken)
         /\ \A n \in 1..Len(Tokens) :
              /\ Spliced[n] \in XmlToken
              /\ Output(Spliced)[n] = [Spliced[n] EXCEPT !.value = Scrubbed(@)]
              /\ n \notin spans => Spliced[n] = Tokens[n]
              /\ n \in spans => \/ Spliced[n] = Rewritten(Tokens[n])
                                \/ \E e \in scratch : e.span = n /\ Spliced[n] = e.tag
<1>1. Tokens \in Seq(XmlToken) /\ Len(Tokens) \in Nat
      /\ \A n \in 1..Len(Tokens) : Tokens[n] \in XmlToken
  BY TokensType
<1>2. ASSUME NEW n \in 1..Len(Tokens)
      PROVE  /\ n \notin spans => Spliced[n] = Tokens[n]
             /\ n \in spans => \/ Spliced[n] = Rewritten(Tokens[n])
                               \/ \E e \in scratch : e.span = n /\ Spliced[n] = e.tag
  <2> DEFINE tag == CHOOSE e \in scratch : e.span = n
  <2>1. (\E e \in scratch : e.span = n) => tag \in scratch /\ tag.span = n
    OBVIOUS
  <2>2. Spliced[n] = IF n \notin spans THEN Tokens[n]
                     ELSE IF \E e \in scratch : e.span = n THEN tag.tag
                          ELSE Rewritten(Tokens[n])
    BY DEF Spliced
  <2> HIDE DEF tag
  <2> QED  BY <2>1, <2>2
<1>3. \A n \in 1..Len(Tokens) : Rewritten(Tokens[n]) \in XmlToken
  BY <1>1 DEF Rewritten, XmlToken, Value
<1>4. \A e \in scratch : e.tag \in XmlToken
  BY DEF TypeOK
<1>5. \A n \in 1..Len(Tokens) : Spliced[n] \in XmlToken
  BY <1>1, <1>2, <1>3, <1>4
<1>6. Spliced \in [1..Len(Tokens) -> XmlToken]
  BY <1>5 DEF Spliced
<1>7. Len(Spliced) = Len(Tokens)
  BY <1>1, <1>6
<1>8. ASSUME NEW n \in 1..Len(Tokens)
      PROVE  [Spliced[n] EXCEPT !.value = Scrubbed(@)] \in XmlToken
  BY <1>5 DEF XmlToken, Value, Scrubbed, Removed
<1>9. /\ Output(Spliced) \in [1..Len(Tokens) -> XmlToken]
      /\ \A n \in 1..Len(Tokens) :
           Output(Spliced)[n] = [Spliced[n] EXCEPT !.value = Scrubbed(@)]
  BY <1>7, <1>8 DEF Output
<1>10. Len(Output(Spliced)) = Len(Tokens) /\ Output(Spliced) \in Seq(XmlToken)
  BY <1>1, <1>9
<1> QED  BY <1>2, <1>5, <1>7, <1>9, <1>10

LEMMA StepType == TypeOK /\ [Next]_vars => TypeOK'
<1> SUFFICES ASSUME TypeOK, [Next]_vars PROVE TypeOK'
  OBVIOUS
<1>1. CASE UNCHANGED vars
  BY <1>1 DEF TypeOK, vars, parser, Tokens
<1>2. ASSUME pc # "done", files' = files, NextFile, scratch' \subseteq scratch,
             shipped' \in [1..Len(files) -> SUBSET Seq(XmlToken)]
      PROVE  TypeOK'
  <2>1. /\ pc' \in {"file", "done"}
        /\ pc' # "done" => at' \in 1..Len(files) /\ next' \in 1..(Len(Tokens') + 1)
        /\ stack' \in Seq(BOOLEAN) /\ spans' = {}
    BY <1>2, NextFileType
  <2> QED  BY <1>2, <2>1 DEF TypeOK
<1>3. CASE ReadFile
  <2>1. pc # "done" /\ files' = files /\ scratch' = scratch
    BY <1>3 DEF ReadFile
  <2>2. CASE NextFile /\ UNCHANGED shipped
    BY <1>2, <2>1, <2>2 DEF TypeOK
  <2>3. CASE NextFile /\ shipped' = [shipped EXCEPT ![at] = {Tokens}]
    <3>1. {Tokens} \subseteq Seq(XmlToken)
      BY <2>1, TokensType
    <3> QED  BY <1>2, <2>1, <2>3, <3>1 DEF TypeOK
  <2>4. CASE pc' = "parse" /\ UNCHANGED <<at, next, stack, spans, shipped>>
    BY <2>1, <2>4 DEF TypeOK, Tokens
  <2> QED  BY <1>3, <2>2, <2>3, <2>4 DEF ReadFile
<1>4. ASSUME Advance, stack' \in Seq(BOOLEAN), spans' \subseteq spans \cup {next},
             scratch' \subseteq [span : Nat, tag : XmlToken]
      PROVE  TypeOK'
  <2>1. /\ pc = "parse" /\ pc' = pc /\ next \in 1..Len(Tokens) /\ next' = next + 1
        /\ Tokens' = Tokens /\ files' = files /\ at' = at /\ shipped' = shipped
    BY <1>4, AtToken
  <2>2. Len(Tokens) \in Nat
    BY <2>1, TokensType
  <2> QED  BY <1>4, <2>1, <2>2 DEF TypeOK
<1>5. CASE StartElement
  <2>1. Advance /\ stack' = Append(stack, Tokens[next].sensitive)
    BY <1>5 DEF StartElement
  <2>2. Tokens[next] \in XmlToken /\ Tokens[next].sensitive \in BOOLEAN /\ next \in Nat
    BY <2>1, AtToken
  <2>5. stack' \in Seq(BOOLEAN)
    BY <2>1, <2>2 DEF TypeOK
  <2>3. [span |-> next, tag |-> Attributes(Tokens[next])] \in [span : Nat, tag : XmlToken]
    BY <2>2, AttributesValue
  <2>4. spans' \subseteq spans \cup {next} /\ scratch' \subseteq [span : Nat, tag : XmlToken]
    BY <1>5, <2>3 DEF StartElement, TypeOK
  <2> QED  BY <1>4, <2>1, <2>4, <2>5
<1>6. CASE EndElement
  <2>1. stack' \in Seq(BOOLEAN)
    BY <1>6 DEF EndElement, TypeOK
  <2> QED  BY <1>4, <1>6, <2>1 DEF EndElement, TypeOK
<1>7. CASE CharData \/ Comment
  BY <1>4, <1>7 DEF CharData, Comment, TypeOK
<1>8. CASE Skip
  BY <1>2, <1>8 DEF Skip, TypeOK
<1>9. CASE Emit
  <2>1. pc # "done" /\ files' = files /\ NextFile /\ scratch' \subseteq scratch
    BY <1>9 DEF Emit
  <2>2. {Output(Spliced)} \subseteq Seq(XmlToken)
    BY <2>1, OutputType
  <2>3. shipped' \in [1..Len(files) -> SUBSET Seq(XmlToken)]
    BY <1>9, <2>2 DEF Emit, TypeOK
  <2> QED  BY <1>2, <2>1, <2>3
<1> QED  BY <1>1, <1>3, <1>5, <1>6, <1>7, <1>8, <1>9 DEF Next

-----------------------------------------------------------------------------
(* The parser.                                                             *)

LEMMA CountedOne ==
  ASSUME NEW tokens, NEW n \in Nat \ {0}, NEW depth \in Nat,
         Counted(tokens, depth, n), depth + Change(tokens[n]) >= 0
  PROVE  Counted(tokens, depth + Change(tokens[n]), n + 1)
<1>1. Depth(tokens, 1, n) = depth + Change(tokens[n])
  BY DepthOne DEF Counted
<1>2. \A k \in 1..(n - 1) : 0 <= Depth(tokens, 1, k)
  BY DEF Counted
<1>3. \A k \in 1..n : k \in 1..(n - 1) \/ k = n
  OBVIOUS
<1>4. n + 1 - 1 = n
  OBVIOUS
<1>5. Change(tokens[n]) \in Int
  BY DEF Change
<1> QED  BY <1>1, <1>2, <1>3, <1>4, <1>5 DEF Counted

\* A token is read: what has to hold of the stack and of spans afterwards.
LEMMA ParsedOne ==
  ASSUME TypeOK, Parsed, Advance,
         \E names \in [1..Len(stack') -> 1..next] : Nested(Tokens, stack', next + 1, names),
         Len(stack') = Len(stack) + Change(Tokens[next]), Len(stack') \in Nat,
         spans \subseteq spans', Sensitive(Tokens, next) => next \in spans'
  PROVE  Parsed'
<1>1. /\ pc = "parse" /\ next \in Nat \ {0} /\ next' = next + 1
      /\ Tokens' = Tokens /\ files' = files /\ at' = at
  BY AtToken
<1>2. Len(stack) \in Nat
  BY DEF TypeOK
<1>3. Counted(Tokens, Len(stack'), next + 1)
  <2>1. Counted(Tokens, Len(stack), next)
    BY <1>1 DEF Parsed
  <2> QED  BY <1>1, <1>2, <2>1, CountedOne
<1>4. next + 1 - 1 = next /\ \A n \in 1..next : n \in 1..(next - 1) \/ n = next
  BY <1>1
<1>5. \A n \in 1..next : Sensitive(Tokens, n) => n \in spans'
  BY <1>1, <1>4 DEF Parsed
<1>6. files'[at'].xml
  BY <1>1 DEF Parsed
<1>7. \E names \in [1..Len(stack') -> 1..(next + 1 - 1)] :
        Nested(Tokens, stack', next + 1, names)
  BY <1>4
<1>8. \A n \in 1..(next' - 1) : Sensitive(Tokens', n) => n \in spans'
  BY <1>1, <1>4, <1>5
<1>9. Counted(Tokens', Len(stack'), next')
  BY <1>1, <1>3
<1>10. \E names \in [1..Len(stack') -> 1..(next' - 1)] : Nested(Tokens', stack', next', names)
  BY <1>1, <1>7
<1>11. (\A n \in 1..(next - 1) : Sensitive(Tokens, n) => n \in spans)'
  BY <1>8 DEF Sensitive, Innermost, Opens, Occurs
<1>12. Counted(Tokens, Len(stack), next)'
  BY <1>9 DEF Counted, Depth, Occurs
<1>13. (\E names \in [1..Len(stack) -> 1..(next - 1)] : Nested(Tokens, stack, next, names))'
  BY <1>10 DEF Nested, Depth, Opens, Occurs
<1> QED  BY <1>1, <1>6, <1>11, <1>12, <1>13 DEF Parsed, Advance

LEMMA StepParsed == IInv /\ [Next]_vars => Parsed'
<1> SUFFICES ASSUME IInv, [Next]_vars PROVE Parsed'
  OBVIOUS
<1>1. TypeOK /\ Parsed /\ stack \in Seq(BOOLEAN) /\ Len(stack) \in Nat
  BY DEF IInv, TypeOK
<1>2. CASE UNCHANGED vars
  <2>1. /\ pc' = pc /\ files' = files /\ at' = at /\ next' = next /\ stack' = stack
        /\ spans' = spans /\ Tokens' = Tokens
    BY <1>2 DEF vars, parser, Tokens
  <2>2. CASE pc = "parse"
    <3>1. /\ \E names \in [1..Len(stack') -> 1..(next' - 1)] :
               Nested(Tokens', stack', next', names)
          /\ Counted(Tokens', Len(stack'), next')
          /\ \A n \in 1..(next' - 1) : Sensitive(Tokens', n) => n \in spans'
      BY <1>1, <2>1, <2>2 DEF Parsed
    <3>2. (\E names \in [1..Len(stack) -> 1..(next - 1)] : Nested(Tokens, stack, next, names))'
      BY <3>1 DEF Nested, Depth, Opens, Occurs
    <3>3. Counted(Tokens, Len(stack), next)'
      BY <3>1 DEF Counted, Depth, Occurs
    <3>4. (\A n \in 1..(next - 1) : Sensitive(Tokens, n) => n \in spans)'
      BY <3>1 DEF Sensitive, Innermost, Opens, Occurs
    <3> QED  BY <1>1, <2>1, <2>2, <3>2, <3>3, <3>4 DEF Parsed
  <2> QED  BY <1>1, <2>1, <2>2 DEF Parsed
<1>3. ASSUME NextFile PROVE Parsed'
  BY <1>3 DEF NextFile, Parsed
<1>4. CASE ReadFile
  <2>1. CASE pc' = "parse" /\ files[at].xml /\ UNCHANGED <<at, next, stack, spans, shipped>>
    <3>1. /\ pc = "file" /\ files' = files /\ at' = at
          /\ next' = 1 /\ stack' = <<>> /\ spans' = {}
      BY <1>1, <1>4, <2>1 DEF ReadFile, Parsed
    <3>2. ASSUME NEW tokens
          PROVE  Counted(tokens, 0, 1) /\ \A f : Nested(tokens, <<>>, 1, f)
      <4>1. Opens(tokens, 1) = {}
        BY DEF Opens
      <4>2. Depth(tokens, 1, 0) = 0
        <5>1. Depth(tokens, 1, 1 - 1) = 0
          BY DepthOne
        <5> QED  BY <5>1
      <4>3. 1 - 1 = 0 /\ Len(<<>>) = 0 /\ 1..0 = {}
        OBVIOUS
      <4>4. Counted(tokens, 0, 1)
        BY <4>2, <4>3 DEF Counted
      <4>5. ASSUME NEW f PROVE Nested(tokens, <<>>, 1, f)
        <5>1. {f[i] : i \in {}} = {}
          OBVIOUS
        <5>2. 1..Len(<<>>) = {}
          BY <4>3
        <5> QED  BY <4>1, <5>1, <5>2 DEF Nested
      <4> QED  BY <4>4, <4>5
    <3>3. [1..0 -> 1..0] # {}
      <4>1. [i \in 1..0 |-> 0] \in [1..0 -> 1..0]
        OBVIOUS
      <4> QED  BY <4>1
    <3>4. Counted(Tokens, Len(stack), next)'
      <4>1. Counted(Tokens', 0, 1)
        BY <3>2
      <4>2. Counted(Tokens', Len(stack'), next')
        BY <3>1, <4>1
      <4> QED  BY <4>2 DEF Counted, Depth, Occurs
    <3>5. (\E names \in [1..Len(stack) -> 1..(next - 1)] : Nested(Tokens, stack, next, names))'
      <4>1. \E names \in [1..0 -> 1..0] : Nested(Tokens', <<>>, 1, names)
        BY <3>2, <3>3
      <4>2. \E names \in [1..Len(stack') -> 1..(next' - 1)] :
              Nested(Tokens', stack', next', names)
        <5>1. Len(stack') = 0 /\ next' - 1 = 0
          BY <3>1
        <5> QED  BY <3>1, <4>1, <5>1
      <4> QED  BY <4>2 DEF Nested, Depth, Opens, Occurs
    <3>6. 1..(next' - 1) = {} /\ files'[at'].xml
      BY <2>1, <3>1
    <3> QED  BY <2>1, <3>4, <3>5, <3>6 DEF Parsed
  <2> QED  BY <1>3, <1>4, <2>1 DEF ReadFile
<1>5. ASSUME Advance
      PROVE  /\ pc = "parse" /\ next \in Nat \ {0} /\ Tokens[next].sensitive \in BOOLEAN
             /\ \E names \in [1..Len(stack) -> 1..(next - 1)] :
                  Nested(Tokens, stack, next, names)
  <2>1. pc = "parse" /\ next \in Nat \ {0} /\ Tokens[next].sensitive \in BOOLEAN
    BY <1>1, <1>5, AtToken
  <2> QED  BY <1>1, <2>1 DEF Parsed
<1>6. CASE StartElement
  <2>1. Advance /\ Tokens[next].kind = "start"
        /\ stack' = Append(stack, Tokens[next].sensitive)
    BY <1>6 DEF StartElement
  <2>2. Change(Tokens[next]) = 1 /\ Len(stack') = Len(stack) + 1
    BY <1>1, <1>5, <2>1 DEF Change
  <2>3. \E names \in [1..(Len(stack) + 1) -> 1..next] : Nested(Tokens, stack', next + 1, names)
    BY <1>1, <1>5, <2>1, NestedStart
  <2>4. spans \subseteq spans' /\ (Sensitive(Tokens, next) => next \in spans')
    BY <1>6, <2>1 DEF StartElement, Sensitive
  <2> QED  BY <1>1, <2>1, <2>2, <2>3, <2>4, ParsedOne
<1>7. CASE EndElement
  <2>1. Advance /\ Tokens[next].kind = "end" /\ stack # <<>>
        /\ stack' = SubSeq(stack, 1, Len(stack) - 1) /\ spans' = spans
    BY <1>7 DEF EndElement
  <2>2. Len(stack) - 1 \in Nat /\ Len(stack') = Len(stack) - 1
    <3>1. Len(stack) - 1 \in Nat
      BY <1>1, <2>1
    <3>2. Len(SubSeq(stack, 1, Len(stack) - 1)) = Len(stack) - 1
      <4> DEFINE depth == Len(stack) - 1
      <4>1. depth \in Int /\ \A i \in 1..depth : stack[i] \in BOOLEAN
        BY <1>1, <3>1
      <4>2. Len(SubSeq(stack, 1, depth)) = IF 1 <= depth THEN depth - 1 + 1 ELSE 0
        <5> HIDE DEF depth
        <5> QED  BY <4>1, SubSeqProperties
      <4> QED  BY <3>1, <4>2
    <3> QED  BY <2>1, <3>1, <3>2
  <2>3. Change(Tokens[next]) = -1 /\ ~Sensitive(Tokens, next)
    BY <2>1 DEF Change, Sensitive
  <2>4. \E names \in [1..(Len(stack) - 1) -> 1..next] : Nested(Tokens, stack', next + 1, names)
    BY <1>1, <1>5, <2>1, NestedEnd
  <2>5. Len(stack') = Len(stack) + Change(Tokens[next])
    BY <1>1, <2>2, <2>3
  <2> QED  BY <1>1, <2>1, <2>2, <2>3, <2>4, <2>5, ParsedOne
<1>8. CASE CharData \/ Comment
  <2>1. Advance /\ Tokens[next].kind \in {"text", "comment"} /\ stack' = stack
        /\ spans \subseteq spans'
    BY <1>8 DEF CharData, Comment
  <2>2. Change(Tokens[next]) = 0 /\ Len(stack') = Len(stack) + Change(Tokens[next])
    BY <1>1, <2>1 DEF Change
  <2>3. PICK names \in [1..Len(stack) -> 1..(next - 1)] : Nested(Tokens, stack, next, names)
    BY <1>5, <2>1
  <2>4. names \in [1..Len(stack) -> 1..next] /\ Nested(Tokens, stack, next + 1, names)
    BY <1>1, <1>5, <2>1, <2>3, NestedOther
  <2>5. ASSUME Sensitive(Tokens, next) PROVE next \in spans'
    <3>1. /\ Tokens[next].kind = "text" /\ Tokens[next].value # ""
          /\ Innermost(Tokens, next) # 0 /\ Tokens[Innermost(Tokens, next)].sensitive
      BY <2>1, <2>5 DEF Sensitive
    <3>2. InSensitive
      BY <1>1, <1>5, <2>1, <2>3, <3>1, Top DEF InSensitive
    <3> QED  BY <1>8, <3>1, <3>2 DEF CharData, Comment
  <2> QED  BY <1>1, <2>1, <2>2, <2>4, <2>5, ParsedOne
<1> QED  BY <1>2, <1>3, <1>4, <1>6, <1>7, <1>8 DEF Next, Skip, Emit

-----------------------------------------------------------------------------
(* What parses.                                                            *)

LEMMA BalancedDepth ==
  ASSUME NEW tokens \in Seq(XmlToken)
  PROVE  Balanced(tokens) <=> /\ Depth(tokens, 1, Len(tokens)) = 0
                              /\ \A n \in 1..Len(tokens) : 0 <= Depth(tokens, 1, n)
<1>1. ASSUME NEW n \in Nat
      PROVE  /\ Depth(tokens, 1, n) = 0 <=>
                  Occurs(tokens, "start", 1, n) = Occurs(tokens, "end", 1, n)
             /\ 0 <= Depth(tokens, 1, n) <=>
                  Occurs(tokens, "end", 1, n) <= Occurs(tokens, "start", 1, n)
  <2>1. 1 \in Nat /\ 1 <= n + 1
    OBVIOUS
  <2>2. \A kind : Occurs(tokens, kind, 1, n) \in Nat
    BY <2>1, OccursOne
  <2>3. Occurs(tokens, "start", 1, n) \in Nat /\ Occurs(tokens, "end", 1, n) \in Nat
    BY <2>2
  <2> QED  BY <2>3 DEF Depth
<1>2. Len(tokens) \in Nat
  OBVIOUS
<1> QED  BY <1>1, <1>2 DEF Balanced

\* Just the files that parse are balanced.
LEMMA Parses ==
  ASSUME TypeOK, Parsed, pc = "parse"
  PROVE  /\ ParseError => ~Balanced(Tokens)
         /\ next > Len(Tokens) /\ stack = <<>> => Balanced(Tokens)
<1>1. /\ Tokens \in Seq(XmlToken) /\ Len(Tokens) \in Nat /\ stack \in Seq(BOOLEAN)
      /\ next \in 1..(Len(Tokens) + 1)
  BY TokensType DEF TypeOK
<1>2. /\ Depth(Tokens, 1, next - 1) = Len(stack)
      /\ \A n \in 1..(next - 1) : 0 <= Depth(Tokens, 1, n)
  BY DEF Parsed, Counted
<1>3. ASSUME next > Len(Tokens)
      PROVE  Balanced(Tokens) <=> stack = <<>>
  <2>1. next - 1 = Len(Tokens)
    BY <1>1, <1>3
  <2>2. Len(stack) = 0 <=> stack = <<>>
    BY <1>1
  <2> QED  BY <1>1, <1>2, <2>1, <2>2, BalancedDepth
<1>4. ASSUME next <= Len(Tokens), Tokens[next].kind = "end", stack = <<>>
      PROVE  ~Balanced(Tokens)
  <2>1. next \in Nat \ {0} /\ next \in 1..Len(Tokens) /\ 1 \in 1..next
    BY <1>1, <1>4
  <2>2. Depth(Tokens, 1, next) = Depth(Tokens, 1, next - 1) + Change(Tokens[next])
    BY <2>1, DepthOne
  <2>3. Depth(Tokens, 1, next) = -1
    BY <1>2, <1>4, <2>2 DEF Change
  <2> QED  BY <1>1, <2>1, <2>3, BalancedDepth
<1> QED  BY <1>3, <1>4 DEF ParseError

\* What a file has left stays left.
LEMMA LeftLater ==
  ASSUME TypeOK, pc # "done", NEW token, NEW n, IsLeft(token, at, n)
  PROVE  IsLeft(token, at + 1, n)
<1>1. at \in Nat /\ 1..(at - 1) \subseteq 1..(at + 1 - 1)
  BY FileType DEF TypeOK
<1> QED  BY <1>1 DEF IsLeft

LEMMA StepScratch == IInv /\ [Next]_vars => Scratch'
<1> SUFFICES ASSUME IInv, [Next]_vars PROVE Scratch'
  OBVIOUS
<1>1. TypeOK /\ Parsed /\ Scratch
  BY DEF IInv
<1>2. files' = files
  BY DEF Next, ReadFile, StartElement, EndElement, CharData, Comment, Advance, Skip, Emit, vars
<1>3. \A token, i, n : IsLeft(token, i, n) <=> IsLeft(token, i, n)'
  BY <1>2 DEF IsLeft, Balanced, Occurs, IsOf
<1>4. CASE UNCHANGED vars
  <2>1. pc' = pc /\ at' = at /\ spans' = spans /\ scratch' = scratch /\ Tokens' = Tokens
    BY <1>4 DEF vars, parser, Tokens
  <2> QED  BY <1>1, <1>3, <2>1 DEF Scratch, IsOf
<1>5. ASSUME pc # "done", NextFile, scratch' \subseteq scratch,
             \A e \in scratch' : IsLeft(e.tag, at + 1, e.span)
      PROVE  Scratch'
  <2>1. at' = at + 1
    BY <1>5 DEF NextFile
  <2> QED  BY <1>3, <1>5, <2>1 DEF Scratch, IsOf
<1>6. CASE ReadFile
  <2>1. pc = "file" /\ scratch' = scratch /\ \A e \in scratch : IsLeft(e.tag, at, e.span)
    BY <1>1, <1>6 DEF ReadFile, Scratch
  <2>2. \A e \in scratch : IsLeft(e.tag, at + 1, e.span)
    BY <1>1, <2>1, LeftLater
  <2>3. CASE NextFile
    BY <1>5, <2>1, <2>2, <2>3
  <2>4. CASE UNCHANGED at
    BY <1>3, <2>1, <2>2, <2>4 DEF Scratch, IsOf
  <2> QED  BY <1>6, <2>3, <2>4 DEF ReadFile
<1>7. ASSUME Advance, spans \subseteq spans',
             \A e \in scratch' :
               \/ e \in scratch
               \/ /\ e.span \in spans' /\ Tokens[e.span].kind = "start"
                  /\ IsOf(e.tag, Tokens[e.span]) /\ e.tag.value \in {"rest", Removed}
      PROVE  Scratch'
  <2>1. pc = "parse" /\ pc' = pc /\ Tokens' = Tokens /\ at' = at
    BY <1>1, <1>7, AtToken
  <2>2. \A e \in scratch' :
          \/ IsLeft(e.tag, at, e.span)
          \/ /\ e.span \in spans' /\ Tokens[e.span].kind = "start"
             /\ IsOf(e.tag, Tokens[e.span]) /\ e.tag.value \in {"rest", Removed}
    BY <1>1, <1>7 DEF Scratch
  <2> QED  BY <1>3, <2>1, <2>2 DEF Scratch, IsOf
<1>8. CASE StartElement
  <2> DEFINE t == Tokens[next]
             new == [span |-> next, tag |-> Attributes(t)]
  <2>1. Advance /\ t.kind = "start"
    BY <1>8 DEF StartElement
  <2>2. CASE Attributes(t) = t
    BY <1>7, <1>8, <2>1, <2>2 DEF StartElement
  <2>3. CASE Attributes(t) # t
    <3>1. /\ spans' = spans \cup {next}
          /\ scratch' = {e \in scratch : e.span # next} \cup {new}
      BY <1>8, <2>3 DEF StartElement
    <3>2. t \in XmlToken
      BY <1>1, <2>1, AtToken
    <3>3. new.span = next /\ new.tag = Attributes(t)
      OBVIOUS
    <3>4. IsOf(Attributes(t), t) /\ Attributes(t).value \in {"rest", Removed}
      BY <2>3, <3>2, AttributesValue
    <3> HIDE DEF new
    <3> QED  BY <1>7, <2>1, <3>1, <3>3, <3>4
  <2> QED  BY <2>2, <2>3
<1>9. CASE EndElement \/ CharData \/ Comment
  BY <1>7, <1>9 DEF EndElement, CharData, Comment
<1>10. CASE Skip
  <2>1. pc = "parse" /\ ParseError /\ scratch' = scratch /\ NextFile
    BY <1>10 DEF Skip
  <2>2. /\ ~Balanced(Tokens) /\ files[at].xml /\ at \in 1..((at + 1) - 1)
        /\ spans \subseteq 1..Len(Tokens)
    <3>1. at \in Nat \ {0}
      BY <1>1, <2>1, FileType DEF TypeOK
    <3> QED  BY <1>1, <2>1, <3>1, Parses DEF Parsed, TypeOK
  <2>3. ASSUME NEW e \in scratch PROVE IsLeft(e.tag, at + 1, e.span)
    <3>1. CASE IsLeft(e.tag, at, e.span)
      BY <1>1, <2>1, <3>1, LeftLater
    <3>2. CASE /\ e.span \in spans /\ Tokens[e.span].kind = "start"
               /\ IsOf(e.tag, Tokens[e.span]) /\ e.tag.value \in {"rest", Removed}
      BY <2>2, <3>2 DEF IsLeft, Tokens
    <3> QED  BY <1>1, <3>1, <3>2 DEF Scratch
  <2> QED  BY <1>5, <2>1, <2>3
<1>11. CASE Emit
  <2>1. pc = "parse" /\ scratch' = (IF spans = {} THEN scratch ELSE {}) /\ NextFile
    BY <1>11 DEF Emit
  <2>2. ASSUME NEW e \in scratch' PROVE IsLeft(e.tag, at + 1, e.span)
    <3>1. e \in scratch /\ spans = {}
      BY <2>1, <2>2
    <3>2. IsLeft(e.tag, at, e.span)
      BY <1>1, <3>1 DEF Scratch
    <3> QED  BY <1>1, <2>1, <3>2, LeftLater
  <2> QED  BY <1>5, <2>1, <2>2
<1> QED  BY <1>4, <1>6, <1>8, <1>9, <1>10, <1>11 DEF Next

-----------------------------------------------------------------------------
(* What is written.                                                        *)

\* The value of a token, before and after.
LEMMA NewValue ==
  ASSUME NEW t \in XmlToken
  PROVE  /\ t.value \in Value \cup {"apart", "mixed", "rest"}
         /\ Rewritten(t) = [t EXCEPT !.value = Removed]
         /\ Rewritten(t) \in XmlToken /\ Rewritten(t).value = Removed
         /\ [t EXCEPT !.value = Scrubbed(@)].value = Scrubbed(t.value)
         /\ [t EXCEPT !.value = Scrubbed(@)] \in {t, Rewritten(t)}
         /\ t.value \in {"rest", Removed} => [t EXCEPT !.value = Scrubbed(@)] = t
         /\ IsOf(t, t) /\ IsOf(Rewritten(t), t)
<1>1. t.value \in Value \cup {"apart", "mixed", "rest"} /\ Rewritten(t) = [t EXCEPT !.value = Removed]
  BY DEF XmlToken, Rewritten
<1>2. Rewritten(t) \in XmlToken /\ Rewritten(t).value = Removed
  BY DEF XmlToken, Value, Rewritten
<1>3. [t EXCEPT !.value = Scrubbed(@)].value = Scrubbed(t.value)
  BY DEF XmlToken
<1>4. Scrubbed(t.value) \in {t.value, Removed} /\ (t.value \in {"rest", Removed} => Scrubbed(t.value) = t.value)
  BY DEF Scrubbed, Removed
<1>5. [t EXCEPT !.value = t.value] = t
  BY DEF XmlToken
<1>6. IsOf(t, t) /\ IsOf(Rewritten(t), t)
  BY <1>1, <1>5 DEF IsOf
<1> QED  BY <1>1, <1>2, <1>3, <1>4, <1>5, <1>6

\* What NothingSensitiveShipped and OnlyUnparsedLeaveTags say of one output.
Clean(tokens, out) ==
  \A n \in 1..Len(out) :
    LET t == tokens[n]  k == Innermost(tokens, n) IN
    /\ out[n].value # "shaped"
    /\ t.kind = "start" /\ t.value # "apart" => out[n].value \in {"", "rest", Removed}
    /\ t.kind = "text" /\ k # 0 /\ tokens[k].sensitive => out[n].value \in {"", "rest", Removed}

Own(i, out) ==
  /\ Len(out) = Len(files[i].tokens)
  /\ \A n \in 1..Len(out) : IsOf(out[n], files[i].tokens[n]) \/ IsLeft(out[n], i, n)

LEMMA EmittedClean ==
  ASSUME IInv, pc = "parse", next > Len(Tokens)
  PROVE  Clean(Tokens, Output(Spliced))
<1>1. TypeOK /\ Parsed /\ Scratch
  BY DEF IInv
<1>2. /\ Len(Output(Spliced)) = Len(Tokens)
      /\ \A n \in 1..Len(Tokens) :
           /\ Tokens[n] \in XmlToken /\ Spliced[n] \in XmlToken
           /\ Output(Spliced)[n] = [Spliced[n] EXCEPT !.value = Scrubbed(@)]
           /\ n \notin spans => Spliced[n] = Tokens[n]
           /\ n \in spans => \/ Spliced[n] = Rewritten(Tokens[n])
                             \/ \E e \in scratch : e.span = n /\ Spliced[n] = e.tag
  BY <1>1, OutputType, TokensType
<1>3. Len(Tokens) \in Nat /\ next - 1 = Len(Tokens)
  BY <1>1, TokensType DEF TypeOK
<1>4. \A n \in 1..Len(Tokens) : Sensitive(Tokens, n) => n \in spans
  BY <1>1, <1>3 DEF Parsed
<1>5. ASSUME NEW n \in 1..Len(Tokens)
      PROVE  /\ Output(Spliced)[n].value = Scrubbed(Spliced[n].value)
             /\ n \notin spans => Spliced[n].value = Tokens[n].value
             /\ n \in spans => Spliced[n].value \in {"rest", Removed}
  <2>1. Tokens[n] \in XmlToken /\ Spliced[n] \in XmlToken
    BY <1>2
  <2>2. Output(Spliced)[n].value = Scrubbed(Spliced[n].value)
    BY <1>2, <2>1, NewValue
  <2>3. Rewritten(Tokens[n]).value = Removed
    BY <2>1, NewValue
  <2>4. \A e \in scratch : e.tag.value \in {"rest", Removed}
    BY <1>1 DEF Scratch, IsLeft
  <2>7. /\ n \notin spans => Spliced[n] = Tokens[n]
        /\ n \in spans => \/ Spliced[n] = Rewritten(Tokens[n])
                          \/ \E e \in scratch : e.span = n /\ Spliced[n] = e.tag
    BY <1>2
  <2>5. n \in spans => Spliced[n].value \in {"rest", Removed}
    BY <2>7, <2>3, <2>4
  <2> QED  BY <2>7, <2>2, <2>5
<1>6. ASSUME NEW n \in 1..Len(Tokens)
      PROVE  /\ Output(Spliced)[n].value # "shaped"
             /\ n \in spans \/ Tokens[n].value \in {"", Removed}
                  => Output(Spliced)[n].value \in {"", "rest", Removed}
  BY <1>5 DEF Scrubbed, Removed
<1>7. ASSUME NEW n \in 1..Len(Tokens), Tokens[n].kind = "start", Tokens[n].value # "apart"
      PROVE  n \in spans \/ Tokens[n].value \in {"", Removed}
  <2>1. Attributes(Tokens[n]) = Tokens[n] => Tokens[n].value \in {"", "apart", Removed}
    BY <1>2, AttributesValue
  <2> QED  BY <1>4, <1>7, <2>1 DEF Sensitive
<1>8. ASSUME NEW n \in 1..Len(Tokens), Tokens[n].kind = "text", Innermost(Tokens, n) # 0,
             Tokens[Innermost(Tokens, n)].sensitive
      PROVE  n \in spans \/ Tokens[n].value \in {"", Removed}
  BY <1>4, <1>8 DEF Sensitive
<1> QED  BY <1>2, <1>6, <1>7, <1>8 DEF Clean

LEMMA EmittedOwn ==
  ASSUME IInv, pc = "parse"
  PROVE  Own(at, Output(Spliced))
<1>1. TypeOK /\ Scratch
  BY DEF IInv
<1>2. /\ Len(Output(Spliced)) = Len(Tokens)
      /\ \A n \in 1..Len(Tokens) :
           /\ Tokens[n] \in XmlToken /\ Spliced[n] \in XmlToken
           /\ Output(Spliced)[n] = [Spliced[n] EXCEPT !.value = Scrubbed(@)]
           /\ n \notin spans => Spliced[n] = Tokens[n]
           /\ n \in spans => \/ Spliced[n] = Rewritten(Tokens[n])
                             \/ \E e \in scratch : e.span = n /\ Spliced[n] = e.tag
  BY <1>1, OutputType, TokensType
<1>3. ASSUME NEW n \in 1..Len(Tokens)
      PROVE  IsOf(Output(Spliced)[n], Tokens[n]) \/ IsLeft(Output(Spliced)[n], at, n)
  <2>1. Tokens[n] \in XmlToken /\ Spliced[n] \in XmlToken
    BY <1>2
  <2>2. Output(Spliced)[n] = [Spliced[n] EXCEPT !.value = Scrubbed(@)]
    BY <1>2
  <2>3. CASE Spliced[n] = Tokens[n]
    <3>1. Output(Spliced)[n] \in {Tokens[n], Rewritten(Tokens[n])}
      BY <2>1, <2>2, <2>3, NewValue
    <3> QED  BY <2>1, <3>1, NewValue
  <2>4. ASSUME Spliced[n].value \in {"rest", Removed} PROVE Output(Spliced)[n] = Spliced[n]
    BY <2>1, <2>2, <2>4, NewValue
  <2>5. CASE Spliced[n] = Rewritten(Tokens[n])
    BY <2>1, <2>4, <2>5, NewValue
  <2>6. CASE \E e \in scratch : e.span = n /\ Spliced[n] = e.tag
    <3>1. PICK e \in scratch : e.span = n /\ Spliced[n] = e.tag
      BY <2>6
    <3>2. /\ IsOf(e.tag, Tokens[n]) \/ IsLeft(e.tag, at, n)
          /\ e.tag.value \in {"rest", Removed}
      BY <1>1, <3>1 DEF Scratch, IsLeft
    <3> QED  BY <2>4, <3>1, <3>2
  <2> QED  BY <1>2, <2>3, <2>5, <2>6
<1> QED  BY <1>2, <1>3 DEF Own, Tokens

Shipped == NothingSensitiveShipped /\ FailsClosed /\ OnlyUnparsedLeaveTags

LEMMA ShippedParts ==
  Shipped <=>
    \A i \in 1..Len(shipped) : \A out \in shipped[i] :
      /\ files[i].xml => Clean(files[i].tokens, out) /\ Balanced(files[i].tokens)
      /\ Own(i, out)
BY DEF Shipped, NothingSensitiveShipped, FailsClosed, OnlyUnparsedLeaveTags,
   Clean, Own

LEMMA ShippedOne ==
  ASSUME TypeOK, Shipped, files' = files, pc # "done", NEW out,
         shipped' = [shipped EXCEPT ![at] = {out}],
         files[at].xml => Clean(Tokens, out) /\ Balanced(Tokens),
         Own(at, out)
  PROVE  Shipped'
<1>1. at \in 1..Len(files) /\ shipped \in [1..Len(files) -> SUBSET Seq(XmlToken)]
      /\ Len(files) \in Nat
  BY FileType DEF TypeOK
<1>2. Len(shipped) = Len(files) /\ Len(shipped') = Len(files)
  BY <1>1
<1>3. \A i \in 1..Len(files) : shipped'[i] = IF i = at THEN {out} ELSE shipped[i]
  BY <1>1
<1>4. \A i \in 1..Len(files) : \A o \in shipped'[i] :
        /\ files[i].xml => Clean(files[i].tokens, o) /\ Balanced(files[i].tokens)
        /\ Own(i, o)
  BY <1>1, <1>2, <1>3, ShippedParts DEF Tokens
<1>5. /\ NothingSensitiveShipped'
      /\ FailsClosed'
      /\ OnlyUnparsedLeaveTags'
  <2>1. NothingSensitiveShipped'
    <3>1. ASSUME NEW i \in 1..Len(shipped'), NEW o \in shipped'[i], files[i].xml
          PROVE  Clean(files[i].tokens, o)
      BY <1>2, <1>4, <3>1
    <3> SUFFICES \A i \in 1..Len(shipped') : \A o \in shipped'[i] :
                   files[i].xml =>
                     \A n \in 1..Len(o) :
                       LET t == files[i].tokens[n]  k == Innermost(files[i].tokens, n) IN
                       /\ o[n].value # "shaped"
                       /\ t.kind = "start" /\ t.value # "apart" => o[n].value \in {"", "rest", Removed}
                       /\ t.kind = "text" /\ k # 0 /\ files[i].tokens[k].sensitive
                            => o[n].value \in {"", "rest", Removed}
      BY ZenonT(60) DEF NothingSensitiveShipped
    <3> QED  BY <3>1 DEF Clean
  <2>2. FailsClosed'
    BY <1>2, <1>4 DEF FailsClosed
  <2>3. OnlyUnparsedLeaveTags'
    <3>1. \A token, i, n : IsLeft(token, i, n) <=> IsLeft(token, i, n)'
      BY DEF IsLeft, Balanced, Occurs, IsOf
    <3> QED  BY <1>2, <1>4, <3>1 DEF OnlyUnparsedLeaveTags, Own, IsOf
  <2> QED  BY <2>1, <2>2, <2>3
<1> QED  BY <1>5 DEF Shipped

LEMMA StepShipped == IInv /\ [Next]_vars => Shipped'
<1> SUFFICES ASSUME IInv, [Next]_vars PROVE Shipped'
  OBVIOUS
<1>1. TypeOK /\ Parsed /\ Shipped
  BY DEF IInv, Shipped
<1>2. files' = files
  BY DEF Next, ReadFile, StartElement, EndElement, CharData, Comment, Advance, Skip, Emit, vars
<1>3. CASE shipped' = shipped
  <2>1. \A token, i, n : IsLeft(token, i, n) <=> IsLeft(token, i, n)'
    BY <1>2 DEF IsLeft, Balanced, Occurs, IsOf
  <2>2. OnlyUnparsedLeaveTags'
    BY <1>1, <1>2, <1>3, <2>1 DEF Shipped, OnlyUnparsedLeaveTags, IsOf
  <2> QED
    BY <1>1, <1>2, <1>3, <2>2 DEF Shipped, NothingSensitiveShipped, FailsClosed
<1>4. CASE ~files[at].xml /\ pc = "file" /\ shipped' = [shipped EXCEPT ![at] = {Tokens}]
  <2>1. Own(at, Tokens)
    <3>1. \A n \in 1..Len(Tokens) : Tokens[n] \in XmlToken
      BY <1>1, <1>4, TokensType
    <3> QED  BY <3>1, NewValue DEF Own, Tokens
  <2> QED  BY <1>1, <1>2, <1>4, <2>1, ShippedOne
<1>5. CASE Emit /\ shipped' = [shipped EXCEPT ![at] = {Output(Spliced)}]
  <2>1. pc = "parse" /\ next > Len(Tokens) /\ stack = <<>>
    BY <1>5 DEF Emit
  <2>2. Clean(Tokens, Output(Spliced)) /\ Balanced(Tokens)
    BY <1>1, <2>1, EmittedClean, Parses
  <2>3. Own(at, Output(Spliced))
    BY <2>1, EmittedOwn
  <2> QED  BY <1>1, <1>2, <1>5, <2>1, <2>2, <2>3, ShippedOne
<1>6. \/ shipped' = shipped
      \/ ~files[at].xml /\ pc = "file" /\ shipped' = [shipped EXCEPT ![at] = {Tokens}]
      \/ Emit /\ shipped' = [shipped EXCEPT ![at] = {Output(Spliced)}]
  BY DEF Next, ReadFile, StartElement, EndElement, CharData, Comment, Advance, Skip, Emit, vars
<1> QED  BY <1>3, <1>4, <1>5, <1>6

THEOREM FilesInvariant == Spec => []IInv
<1>1. IInv /\ [Next]_vars => IInv'
  BY StepType, StepParsed, StepScratch, StepShipped DEF IInv, Shipped
<1> QED  BY InitInv, <1>1, PTL DEF Spec

\* The parser and the global keep their types (redactXML, Collector.Collect).
THEOREM FilesTypeCorrect == Spec => []TypeOK
  BY FilesInvariant, PTL DEF IInv

\* Whatever is nested in what, of any files: no text directly in an element with
\* a sensitive name, no sensitive attribute written name="v" or name='v' and
\* nothing that looks like a credential is in an XML file that is written; of a
\* value with the other quote in it no more is than what comes after that quote
\* (redactXML, redactAttrs, SanitizeXMLContent).
THEOREM NothingSensitive == Spec => []NothingSensitiveShipped
  BY FilesInvariant, PTL DEF IInv

\* A file is written only if every end tag has its start tag and the other way
\* round (Collector.Collect skips what the sanitizer cannot parse).
THEOREM ShipsOnlyParsed == Spec => []FailsClosed
  BY FilesInvariant, PTL DEF IInv

\* What is written for a file is that file with values replaced, save where one
\* before it that did not parse had a tag with a sensitive attribute: of those,
\* and of no other, attrRewrites keeps the rewritten tags (redactXML).
THEOREM OnlyTheUnparsedLeaveTags == Spec => []OnlyUnparsedLeaveTags
  BY FilesInvariant, PTL DEF IInv

-----------------------------------------------------------------------------
(* The walk over a YAML document.                                          *)

LEMMA FirstOf ==
  ASSUME NEW T, T \subseteq Nat, T # {}
  PROVE  \E m \in T : \A k \in T : m <= k
<1>1. PICK m \in T : \A k \in T : ~(<<k, m>> \in OpToRel(<, Nat))
  BY NatLessThanWellFounded, WFMin
<1>2. \A k \in T : ~(k < m)
  BY <1>1 DEF OpToRel
<1> QED  BY <1>2

\* An induction over the numbers of the nodes.
LEMMA NodeInduction ==
  ASSUME NEW N \in Nat, NEW T, \A n \in 1..N : (1..(n - 1)) \subseteq T => n \in T
  PROVE  1..N \subseteq T
<1> DEFINE Bad == (1..N) \ T
<1>1. ASSUME Bad # {} PROVE FALSE
  <2>1. PICK n \in Bad : \A k \in Bad : n <= k
    <3>1. Bad \subseteq Nat
      OBVIOUS
    <3> HIDE DEF Bad
    <3> QED  BY <1>1, <3>1, FirstOf
  <2>3. 1..(n - 1) \subseteq T
    BY <2>1
  <2> QED  BY <2>3
<1> QED  BY <1>1

\* With what the walk has come to the first nodes, up to N.
Flags(doc, N, flag) ==
  flag = [n \in 1..N |->
            IF doc[n].within = 0 THEN FALSE
            ELSE IF HasKey(doc, n) THEN doc[n].sensitive
            ELSE flag[doc[n].within]]

HasFlags(doc, N) == \E flag \in [1..N -> BOOLEAN] : Flags(doc, N, flag)

LEMMA DocumentNodes ==
  ASSUME NEW doc, IsDocument(doc)
  PROVE  /\ Len(doc) \in Nat
         /\ \A n \in 1..Len(doc) :
              /\ doc[n] \in Node /\ doc[n].sensitive \in BOOLEAN
              /\ doc[n].within # 0 => /\ doc[n].within \in 1..(n - 1) /\ doc[n].within \in 1..Len(doc)
                                      /\ HasKey(doc, n) \/ doc[doc[n].within].kind = "list"
<1>1. Len(doc) \in Nat /\ \A n \in 1..Len(doc) : doc[n] \in Node
  BY DEF IsDocument
<1>2. \A n \in 1..Len(doc) : doc[n].within \in Nat /\ doc[n].sensitive \in BOOLEAN
  BY <1>1 DEF Node
<1>3. \A n \in 1..Len(doc) :
        doc[n].within # 0 => doc[n].within < n /\ doc[doc[n].within].kind \in {"map", "list"}
  BY DEF IsDocument
<1> QED  BY <1>1, <1>2, <1>3 DEF HasKey

LEMMA FlagsExist ==
  ASSUME NEW doc, IsDocument(doc)
  PROVE  HasFlags(doc, Len(doc))
<1> DEFINE T == {n \in 0..Len(doc) : HasFlags(doc, n)}
<1>1. 0 \in T
  <2> DEFINE none == [n \in 1..0 |-> FALSE]
  <2>1. none \in [1..0 -> BOOLEAN] /\ Flags(doc, 0, none)
    BY DEF Flags
  <2> HIDE DEF none
  <2>2. HasFlags(doc, 0)
    BY <2>1 DEF HasFlags
  <2>3. Len(doc) \in Nat
    BY DocumentNodes
  <2> QED  BY <2>2, <2>3
<1>2. ASSUME NEW n \in 1..Len(doc), n - 1 \in T PROVE n \in T
  <2>1. PICK flag \in [1..(n - 1) -> BOOLEAN] : Flags(doc, n - 1, flag)
    BY <1>2 DEF HasFlags
  <2> DEFINE last == IF doc[n].within = 0 THEN FALSE
                     ELSE IF HasKey(doc, n) THEN doc[n].sensitive ELSE flag[doc[n].within]
             longer == [m \in 1..n |-> IF m = n THEN last ELSE flag[m]]
  <2>2. n \in Nat /\ n <= Len(doc) /\ \A m \in 1..n : m \in 1..Len(doc) /\ (m # n => m \in 1..(n - 1))
    BY DocumentNodes
  <2>3. last \in BOOLEAN
    BY <2>1, DocumentNodes
  <2>4. longer \in [1..n -> BOOLEAN]
    <3> HIDE DEF last
    <3> QED  BY <2>1, <2>2, <2>3
  <2>5. \A m \in 1..n : doc[m].within # 0 => doc[m].within \in 1..n /\ doc[m].within # n
                                              /\ doc[m].within \in 1..(n - 1)
    BY <2>2, DocumentNodes
  <2>6. ASSUME NEW m \in 1..n
        PROVE  longer[m] = IF doc[m].within = 0 THEN FALSE
                           ELSE IF HasKey(doc, m) THEN doc[m].sensitive ELSE longer[doc[m].within]
    <3>1. doc[m].within # 0 => longer[doc[m].within] = flag[doc[m].within]
      BY <2>5
    <3>2. CASE m = n
      BY <3>1, <3>2
    <3>3. CASE m # n
      <4>1. m \in 1..(n - 1) /\ longer[m] = flag[m]
        BY <2>2, <3>3
      <4>2. flag[m] = IF doc[m].within = 0 THEN FALSE
                      ELSE IF HasKey(doc, m) THEN doc[m].sensitive ELSE flag[doc[m].within]
        BY <2>1, <4>1 DEF Flags
      <4> HIDE DEF longer
      <4> QED  BY <3>1, <4>1, <4>2
    <3> QED  BY <3>2, <3>3
  <2>7. Flags(doc, n, longer)
    <3>1. longer = [m \in 1..n |-> longer[m]]
      OBVIOUS
    <3> HIDE DEF longer
    <3> QED  BY <2>6, <3>1 DEF Flags
  <2> HIDE DEF longer
  <2> QED  BY <2>2, <2>4, <2>7 DEF HasFlags
<1>3. \A n \in 1..Len(doc) : n - 1 \in T => n \in T
  BY <1>2
<1>4. 1..Len(doc) \subseteq T
  <2> HIDE DEF T
  <2>1. \A n \in 1..Len(doc) : (1..(n - 1)) \subseteq T => n \in T
    <3> TAKE n \in 1..Len(doc)
    <3>1. CASE n = 1
      BY <1>1, <1>3, <3>1
    <3>2. CASE n # 1
      BY <1>3, <3>2, DocumentNodes
    <3> QED  BY <3>1, <3>2
  <2> QED  BY <2>1, NodeInduction, DocumentNodes
<1> QED  BY <1>1, <1>4, DocumentNodes

\* What the walk comes to a node with: nothing at the top, the key if it has
\* one, and else what it came to the list with.
LEMMA WalkFlags ==
  ASSUME NEW doc, IsDocument(doc), NEW n \in 1..Len(doc)
  PROVE  ParentIsSensitive(doc)[n] =
           IF doc[n].within = 0 THEN FALSE
           ELSE IF HasKey(doc, n) THEN doc[n].sensitive
           ELSE ParentIsSensitive(doc)[doc[n].within]
<1> DEFINE flag == ParentIsSensitive(doc)
<1>1. PICK some : Flags(doc, Len(doc), some)
  BY FlagsExist DEF HasFlags
<1>2. flag = CHOOSE f : Flags(doc, Len(doc), f)
  BY DEF ParentIsSensitive, Flags
<1>3. Flags(doc, Len(doc), flag)
  <2> HIDE DEF flag
  <2> QED  BY <1>1, <1>2
<1> QED  BY <1>3 DEF Flags

\* What the walk comes to a node with is what its nearest key says.
LEMMA NearestDecides ==
  ASSUME NEW doc, IsDocument(doc), NEW n \in 1..Len(doc), NEW k \in 1..Len(doc),
         NearestKey(doc, n, k)
  PROVE  ParentIsSensitive(doc)[n] = doc[k].sensitive
<1> DEFINE flag == ParentIsSensitive(doc)
<1>1. PICK path \in SUBSET (1..Len(doc)) :
        /\ {n, k} \subseteq path
        /\ \A m \in path \ {k} : doc[m].within \in path /\ doc[doc[m].within].kind = "list"
  BY DEF NearestKey, Within
<1> DEFINE T == {m \in 1..Len(doc) : m \in path => flag[m] = doc[k].sensitive}
<1>2. ASSUME NEW m \in 1..Len(doc), (1..(m - 1)) \subseteq T PROVE m \in T
  <2>1. CASE m = k
    BY <2>1, WalkFlags DEF NearestKey, HasKey
  <2>2. CASE m \in path /\ m # k
    <3>1. doc[m].within \in path /\ doc[doc[m].within].kind = "list"
      BY <1>1, <2>2
    <3>2. doc[m].within # 0 /\ ~HasKey(doc, m)
      BY <3>1, DocumentNodes DEF HasKey
    <3>3. doc[m].within \in 1..(m - 1)
      BY <3>2, DocumentNodes
    <3>4. flag[doc[m].within] = doc[k].sensitive
      BY <1>2, <3>1, <3>3
    <3> QED  BY <3>2, <3>4, WalkFlags
  <2> QED  BY <2>1, <2>2
<1>3. 1..Len(doc) \subseteq T
  <2> HIDE DEF T
  <2> QED  BY <1>2, NodeInduction, DocumentNodes
<1> QED  BY <1>1, <1>3

\* And if it is that the parent is sensitive, there is such a key.
LEMMA SensitiveByKey ==
  ASSUME NEW doc, IsDocument(doc), NEW n \in 1..Len(doc), ParentIsSensitive(doc)[n]
  PROVE  \E k \in 1..Len(doc) : NearestKey(doc, n, k) /\ doc[k].sensitive
<1> DEFINE flag == ParentIsSensitive(doc)
           Explained(m) == \E k \in 1..Len(doc) : NearestKey(doc, m, k) /\ doc[k].sensitive
           T == {m \in 1..Len(doc) : flag[m] => Explained(m)}
<1>1. ASSUME NEW m \in 1..Len(doc), (1..(m - 1)) \subseteq T, flag[m] PROVE Explained(m)
  <2>1. doc[m].within # 0
    BY <1>1, WalkFlags
  <2>2. CASE HasKey(doc, m)
    <3>1. doc[m].sensitive
      BY <1>1, <2>1, <2>2, WalkFlags
    <3>2. NearestKey(doc, m, m)
      <4>1. {m} \in SUBSET (1..Len(doc)) /\ {m, m} \subseteq {m}
        OBVIOUS
      <4> QED  BY <2>2, <4>1 DEF NearestKey, Within
    <3> QED  BY <3>1, <3>2
  <2>3. CASE ~HasKey(doc, m)
    <3>1. flag[doc[m].within]
      BY <1>1, <2>1, <2>3, WalkFlags
    <3>2. doc[m].within \in 1..(m - 1) /\ doc[doc[m].within].kind = "list"
      BY <2>1, <2>3, DocumentNodes
    <3>3. Explained(doc[m].within)
      BY <1>1, <3>1, <3>2
    <3>4. PICK k \in 1..Len(doc) : NearestKey(doc, doc[m].within, k) /\ doc[k].sensitive
      BY <3>3
    <3>5. PICK path \in SUBSET (1..Len(doc)) :
            /\ {doc[m].within, k} \subseteq path
            /\ \A i \in path \ {k} : doc[i].within \in path /\ doc[doc[i].within].kind = "list"
      BY <3>4 DEF NearestKey, Within
    <3> DEFINE longer == path \cup {m}
    <3>6. longer \in SUBSET (1..Len(doc)) /\ {m, k} \subseteq longer
      BY <3>5
    <3>7. \A i \in longer \ {k} : doc[i].within \in longer /\ doc[doc[i].within].kind = "list"
      BY <3>2, <3>5
    <3> HIDE DEF longer
    <3>8. NearestKey(doc, m, k)
      BY <3>4, <3>6, <3>7 DEF NearestKey, Within
    <3> QED  BY <3>4, <3>8
  <2> QED  BY <2>2, <2>3
<1>2. 1..Len(doc) \subseteq T
  <2>1. \A m \in 1..Len(doc) : (1..(m - 1)) \subseteq T => m \in T
    BY <1>1
  <2> HIDE DEF T
  <2> QED  BY <2>1, NodeInduction, DocumentNodes
<1> QED  BY <1>2

\* The nearest key is one of those above.
LEMMA NearestIsAbove ==
  ASSUME NEW doc, NEW n, NEW k, NearestKey(doc, n, k)
  PROVE  KeyAbove(doc, n, k)
BY DEF NearestKey, KeyAbove, Within

\* In any YAML document, nested to any depth and with any aliases: only values
\* change; a scalar whose nearest key is sensitive is replaced, and so is what
\* looks like a credential; what has no sensitive key above it and does not look
\* like one stays (walkYAMLNode).
THEOREM NearestKeyDecides == YamlSpec => []YamlByNearestKey
<1> DEFINE Known == IsDocument(document) /\ YamlByNearestKey
<1>1. YamlInit => Known
  BY YamlAssumption DEF YamlInit, YamlByNearestKey
<1>2. ASSUME Known, SanitizeYAML PROVE Known'
  <2>1. sanitized' = {Walked(document)} /\ document' = document
    BY <1>2 DEF SanitizeYAML
  <2> DEFINE out == Walked(document)
             flag == ParentIsSensitive(document)
  <2>2. out = [n \in 1..Len(document) |->
                 [document[n] EXCEPT !.value =
                    IF document[n].kind = "scalar" /\ flag[n] THEN Removed
                    ELSE Scrubbed(document[n].value)]]
    BY DEF Walked
  <2>3. Len(document) \in Nat
    BY <1>2, DocumentNodes
  <2> HIDE DEF out, flag
  <2>4. Len(out) = Len(document)
    BY <2>2, <2>3
  <2>5. ASSUME NEW n \in 1..Len(document)
        PROVE  LET t == document[n] IN
               /\ out[n] \in {t, [t EXCEPT !.value = Removed]}
               /\ out[n].value # "shaped"
               /\ t.kind = "scalar"
                    /\ (\E k \in 1..Len(out) : NearestKey(document, n, k) /\ document[k].sensitive)
                    => out[n].value = Removed
               /\ t.value # "shaped"
                    /\ (\A k \in 1..Len(out) : KeyAbove(document, n, k) => ~document[k].sensitive)
                    => out[n] = t
    <3> DEFINE t == document[n]
               v == IF t.kind = "scalar" /\ flag[n] THEN Removed ELSE Scrubbed(t.value)
    <3>1. t \in Node
      BY <1>2, DocumentNodes
    <3>2. out[n] = [t EXCEPT !.value = v]
      BY <2>2
    <3>3. [t EXCEPT !.value = t.value] = t /\ [t EXCEPT !.value = v].value = v
      BY <3>1 DEF Node
    <3>4. v \in {t.value, Removed} /\ v # "shaped"
      BY DEF Scrubbed, Removed
    <3>5. ASSUME NEW k \in 1..Len(document), NearestKey(document, n, k), document[k].sensitive
          PROVE  flag[n]
      BY <1>2, <3>5, NearestDecides DEF flag
    <3>6. ASSUME flag[n]
          PROVE  \E k \in 1..Len(document) : KeyAbove(document, n, k) /\ document[k].sensitive
      BY <1>2, <3>6, SensitiveByKey, NearestIsAbove DEF flag
    <3>7. ~flag[n] /\ t.value # "shaped" => v = t.value
      BY DEF Scrubbed
    <3>8. t.kind = "scalar" /\ flag[n] => v = Removed
      OBVIOUS
    <3> HIDE DEF v
    <3> QED  BY <2>4, <3>2, <3>3, <3>4, <3>5, <3>6, <3>7, <3>8
  <2>7. sanitized' = {out} /\ document' = document
    BY <2>1 DEF out
  <2>8. YamlByNearestKey'
    <3> SUFFICES ASSUME NEW o \in sanitized', NEW n \in 1..Len(o)
                 PROVE  /\ Len(o) = Len(document)
                        /\ LET t == document[n] IN
                           /\ o[n] \in {t, [t EXCEPT !.value = Removed]}
                           /\ o[n].value # "shaped"
                           /\ t.kind = "scalar"
                                /\ (\E k \in 1..Len(o) : NearestKey(document, n, k) /\ document[k].sensitive)
                                => o[n].value = Removed
                           /\ t.value # "shaped"
                                /\ (\A k \in 1..Len(o) : KeyAbove(document, n, k) => ~document[k].sensitive)
                                => o[n] = t
      BY <2>4, <2>7 DEF YamlByNearestKey, NearestKey, KeyAbove, HasKey, Within
    <3>1. o = out
      BY <2>7
    <3> QED  BY <2>4, <2>5, <3>1
  <2> QED  BY <1>2, <2>7, <2>8
<1>3. ASSUME Known, UNCHANGED yaml PROVE Known'
  BY <1>3 DEF yaml, YamlByNearestKey
<1>4. Known /\ [SanitizeYAML]_yaml => Known'
  BY <1>2, <1>3
<1> QED  BY <1>1, <1>4, PTL DEF YamlSpec
=============================================================================
