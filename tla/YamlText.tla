-------------------------------- MODULE YamlText --------------------------------
(***************************************************************************)
(* A YAML file of the configuration (SanitizeYAMLContent,                  *)
(* internal/collection/sanitizer.go).  A document is the sequence of its   *)
(* nodes in the order of the walk; the keys of a map are not nodes.        *)
(***************************************************************************)
EXTENDS Credentials, Naturals, Sequences

CONSTANT Yamls  \* documents

\* Of a node that is the value of a key, whether the key's name is sensitive.
\* An alias has the node that its anchor is at.  The value of a map, a list or
\* an alias is what comes first where it is written: a key, a dash or *name.
Node ==
  [kind : {"map", "list", "scalar", "alias"}, within : Nat, sensitive : BOOLEAN,
   anchor : Nat, value : Value]

\* A node is within a map or list before it, or, the first ones, within none; an
\* anchor is before its aliases.
IsDocument(doc) ==
  /\ doc \in Seq(Node)
  /\ \A n \in 1..Len(doc) :
       /\ doc[n].within # 0 => doc[n].within < n /\ doc[doc[n].within].kind \in {"map", "list"}
       /\ doc[n].kind = "alias" => doc[n].anchor \in 1..(n - 1) /\ doc[doc[n].anchor].kind # "alias"

ASSUME YamlAssumption == \A doc \in Yamls : IsDocument(doc)

VARIABLES
  document,  \* a YAML file
  sanitized  \* what is left of it, nothing at first

yaml == <<document, sanitized>>

HasKey(doc, n) == doc[n].within # 0 /\ doc[doc[n].within].kind = "map"

\* With what the walk comes to a node.
ParentIsSensitive(doc) ==
  LET flag[n \in 1..Len(doc)] ==
        IF doc[n].within = 0 THEN FALSE
        ELSE IF HasKey(doc, n) THEN doc[n].sensitive
        ELSE flag[doc[n].within]
  IN  flag

\* Mutant of Walked: what is in a list has no key.
WalkedByOwnKey(doc) ==
  [n \in 1..Len(doc) |->
     [doc[n] EXCEPT !.value =
        IF doc[n].kind = "scalar" /\ HasKey(doc, n) /\ doc[n].sensitive THEN Removed
        ELSE Scrubbed(@)]]

\* walkYAMLNode, which leaves an alias as it is, and the patterns on what it
\* leaves, which know "password: x" whatever x is the beginning of.
Walked(doc) ==
  [n \in 1..Len(doc) |->
     [doc[n] EXCEPT !.value =
        IF doc[n].kind = "scalar" /\ ParentIsSensitive(doc)[n] THEN Removed ELSE Scrubbed(@)]]

YamlInit == document \in Yamls /\ sanitized = {}

SanitizeYAML ==
  /\ sanitized = {}
  /\ sanitized' = {Walked(document)}
  /\ UNCHANGED document

YamlSpec == YamlInit /\ [][SanitizeYAML]_yaml

-----------------------------------------------------------------------------
(* Properties.                                                             *)

\* From node n to k every node is directly in the next one, of one of kinds.
Within(doc, n, k, kinds) ==
  \E path \in SUBSET (1..Len(doc)) :
    /\ {n, k} \subseteq path
    /\ \A m \in path \ {k} : doc[m].within \in path /\ doc[doc[m].within].kind \in kinds

\* Key k is the nearest one of node n: between them there are only lists.
NearestKey(doc, n, k) == HasKey(doc, k) /\ Within(doc, n, k, {"list"})

\* Key k is one of those that node n is below.
KeyAbove(doc, n, k) == HasKey(doc, k) /\ Within(doc, n, k, {"list", "map"})

\* Of a YAML document only values change.  A scalar whose nearest key is
\* sensitive is replaced, however deep in lists it is, and so is what looks like
\* a credential; what has no sensitive key at all above it and does not look
\* like one stays (walkYAMLNode).
YamlByNearestKey ==
  \A out \in sanitized :
    /\ Len(out) = Len(document)
    /\ \A n \in 1..Len(out) :
         LET t == document[n] IN
         /\ out[n] \in {t, [t EXCEPT !.value = Removed]}
         /\ out[n].value # "shaped"
         /\ t.kind = "scalar"
              /\ (\E k \in 1..Len(out) : NearestKey(document, n, k) /\ document[k].sensitive)
              => out[n].value = Removed
         /\ t.value # "shaped"
              /\ (\A k \in 1..Len(out) : KeyAbove(document, n, k) => ~document[k].sensitive)
              => out[n] = t

\* The comment of walkYAMLNode: below a sensitive key "every nested scalar is
\* redacted".
EveryNestedScalarRedacted ==
  \A out \in sanitized : \A n, k \in 1..Len(out) :
    /\ document[n].kind = "scalar" /\ document[n].value # ""
    /\ KeyAbove(document, n, k) /\ document[k].sensitive
    => out[n].value = Removed

\* The value of a sensitive key is replaced where it is, if the key has an alias
\* for it (walkYAMLNode has no case for aliases).
AliasedScalarRedacted ==
  \A out \in sanitized : \A n \in 1..Len(out) :
    LET a == document[n].anchor IN
    /\ document[n].kind = "alias" /\ HasKey(document, n) /\ document[n].sensitive
    /\ document[a].kind = "scalar"
    => Removed \in {out[n].value, out[a].value}
=============================================================================
