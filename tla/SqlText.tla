-------------------------------- MODULE SqlText --------------------------------
(***************************************************************************)
(* RedactSQLText (internal/collection/sqlredact.go): the secrets in DDL    *)
(* text are replaced, the rest of it is kept.  A text is a sequence of     *)
(* tokens: names, literals, brackets and commas.  A backtick, a double     *)
(* quote and the two ends of a comment are the token "q": what is between  *)
(* two of them is not code.                                                *)
(***************************************************************************)
EXTENDS Naturals, Sequences, FiniteSets, SequencesExt

Hidden == "'[HIDDEN]'"

Bare == "[HIDDEN]"

CONSTANTS
  Literal,     \* string literals
  Word,        \* words
  Rule,        \* for some of them, the rule of positionalSecrets
  Format,      \* what looksLikeFormat accepts
  Compression, \* what looksLikeCompression accepts
  Azure,       \* literals with an account key in them
  Shape        \* for each literal or word that looks like a credential, what is left of it

Keyword == "password"

Token == Literal \cup Word \cup {"(", ")", "[", "]", ",", "=", "q", Hidden, Bare}

ASSUME SqlTextAssumption ==
  /\ {"NOSIGN", Keyword} \subseteq Word
  /\ {Hidden, Bare} \cap (Literal \cup Word) = {}
  /\ DOMAIN Rule \subseteq Word /\ DOMAIN Shape \subseteq Literal \cup Word
  /\ \A name \in DOMAIN Rule :
       Rule[name] \in { "s3", "s3cluster", "host", "external", "redis", "azure"}

-----------------------------------------------------------------------------
(* The scanners.                                                           *)

\* Mutant of Code: a quoted name and a comment are code.
CodeEverywhere(s) == {i \in 1..Len(s) : s[i] # "q"}

\* skipNonCode: the positions outside quoted names and comments.
Code(s) ==
  {i \in 1..Len(s) : s[i] # "q" /\ Cardinality({k \in 1..i : s[k] = "q"}) % 2 = 0}

First(S) == IF S = {} THEN 0 ELSE CHOOSE i \in S : \A k \in S : i <= k

\* nextCall: the first name that a bracket follows, 0 if there is none.
NextCall(s) ==
  First({i \in 1..(Len(s) - 1) : i \in Code(s) /\ s[i] \in Word /\ s[i + 1] = "("})

Count(s, S, tokens) == Cardinality({i \in S : s[i] \in tokens})

\* matchingParen: where the bracket at open is closed, 0 if nowhere.
MatchingParen(s, open) ==
  First({j \in (open + 1)..Len(s) :
           LET inside == Code(s) \cap (open..j) IN
           j \in Code(s) /\ s[j] = ")" /\ Count(s, inside, {"("}) = Count(s, inside, {")"})})

\* The commas that separate arguments.
Separators(s) ==
  {j \in Code(s) : s[j] = "," /\
     LET before == Code(s) \cap (1..j) IN
     Count(s, before, {"(", "["}) = Count(s, before, {")", "]"})}

SplitArgs(s) ==
  LET ends == SetToSortSeq(Separators(s) \cup {Len(s) + 1}, <)
  IN  IF s = <<>> THEN <<>>
      ELSE [k \in 1..Len(ends) |->
              SubSeq(s, IF k = 1 THEN 1 ELSE ends[k - 1] + 1, ends[k] - 1)]

JoinArgs(args) ==
  FoldLeftDomain(LAMBDA joined, k :
                   joined \o (IF k = 1 THEN <<>> ELSE <<",">>) \o args[k], <<>>, args)

-----------------------------------------------------------------------------
(* The rules.                                                              *)

Is(arg, S) == Len(arg) = 1 /\ arg[1] \in S

S3Rule(args) ==
  IF Len(args) < 3 \/ Is(args[2], {"NOSIGN"} \cup Format) THEN {}
  ELSE {2, 3} \cup {k \in {4} : Len(args) >= k /\ ~Is(args[k], Format \cup Compression)}

HostDbUserPw(args) ==
  IF Len(args) >= 5 THEN {5} ELSE IF Len(args) = 4 THEN {4} ELSE {}

AzureRule(args) ==
  {k \in {1} : Len(args) >= k /\ \E i \in 1..Len(args[k]) : args[k][i] \in Azure}
    \cup {k \in {5} : Len(args) >= k}

Secrets(name, args) ==
  IF name \notin DOMAIN Rule THEN {} ELSE
  CASE Rule[name] = "s3"        -> S3Rule(args)
    [] Rule[name] = "s3cluster" -> IF Len(args) < 2 THEN {}
                                   ELSE {k + 1 : k \in S3Rule(Tail(args))}
    [] Rule[name] = "host"      -> HostDbUserPw(args)
    [] Rule[name] = "external"  -> {k \in {6} : Len(args) >= k}
    [] Rule[name] = "redis"     -> {k \in {3} : Len(args) >= k}
    [] Rule[name] = "azure"     -> AzureRule(args)

\* maskLiteral: an argument that is no literal is no secret.
IsLiteral(arg) ==
  /\ arg # <<>> /\ arg[1] \in Literal /\ arg[Len(arg)] \in Literal

Masked(name, args) ==
  [k \in 1..Len(args) |->
     IF k \in Secrets(name, args) /\ IsLiteral(args[k]) THEN <<Hidden>> ELSE args[k]]

RECURSIVE RedactCalls(_)
RedactCalls(s) ==
  LET at == NextCall(s)  close == IF at = 0 THEN 0 ELSE MatchingParen(s, at + 1) IN
  IF close = 0 THEN s
  ELSE LET split == SplitArgs(SubSeq(s, at + 2, close - 1))
           args == [k \in 1..Len(split) |-> RedactCalls(split[k])]
       IN  SubSeq(s, 1, at + 1) \o JoinArgs(Masked(s[at], args)) \o <<")">>
             \o RedactCalls(SubSeq(s, close + 1, Len(s)))

-----------------------------------------------------------------------------
(* The heuristics, for the whole text.                                     *)

\* The value of keyword = value.
IsValue(s, i) == i > 2 /\ s[i - 1] = "=" /\ s[i - 2] = Keyword

KeywordValue(token) ==
  IF token \in {Hidden, Bare} THEN token
  ELSE IF token \in Literal THEN Hidden
  ELSE Bare

RedactHeuristics(s) ==
  LET shaped == [i \in 1..Len(s) |-> IF s[i] \in DOMAIN Shape THEN Shape[s[i]] ELSE s[i]]
  IN  [i \in 1..Len(s) |->
         IF IsValue(s, i) THEN KeywordValue(shaped[i]) ELSE shaped[i]]

RedactSQLText(s) == RedactHeuristics(RedactCalls(s))

-----------------------------------------------------------------------------
(* The same for texts that are given as trees: a tree is a sequence of     *)
(* pieces, a piece a sequence of tokens without calls or a call.           *)

RECURSIVE Flat(_), Tree(_)

Flat(tree) ==
  FoldLeft(LAMBDA text, piece :
             text \o (IF piece.call = "" THEN piece.tokens
                      ELSE <<piece.call, "(">>
                             \o JoinArgs([k \in 1..Len(piece.args) |-> Flat(piece.args[k])])
                             \o <<")">>),
           <<>>, tree)

\* What the rules say of a tree, no text being read.
Tree(tree) ==
  FoldLeft(LAMBDA text, piece :
             text \o (IF piece.call = "" THEN piece.tokens
                      ELSE <<piece.call, "(">>
                             \o JoinArgs(Masked(piece.call,
                                  [k \in 1..Len(piece.args) |-> Tree(piece.args[k])]))
                             \o <<")">>),
           <<>>, tree)
=============================================================================
