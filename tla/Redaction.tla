------------------------------- MODULE Redaction -------------------------------
(***************************************************************************)
(* What is replaced in the DDL columns of a collector's result             *)
(* (internal/query/executor.go, internal/collection/sqlredact.go), and the *)
(* YAML and XML files of the configuration beside it, which have no state  *)
(* in common with it or with each other.                                   *)
(***************************************************************************)
EXTENDS SqlText, YamlText, ConfigFiles

CONSTANTS
  Trees,  \* DDL texts that a server can send
  Texts   \* texts that are no whole DDL, cut off or not SQL

VARIABLES
  tree,   \* the DDL that text is of
  text,   \* one value of a DDL column
  passes  \* how often it has been redacted

sql == <<tree, text, passes>>
all == <<sql, yaml, vars>>

NoSql == tree = <<>> /\ text = <<>> /\ passes = 2

NoDocument == document = <<>> /\ sanitized = {<<>>}

NoFiles == files = <<>> /\ Init

\* A result, a YAML file, or the files of a configuration.
RedactionInit ==
  \/ /\ NoFiles /\ NoDocument /\ passes = 0
     /\ \/ tree \in Trees /\ text = Flat(tree)
        \/ tree = <<>> /\ text \in Texts
  \/ NoFiles /\ YamlInit /\ NoSql
  \/ Init /\ NoDocument /\ NoSql

-----------------------------------------------------------------------------
(* A result.                                                               *)

\* Once by the tool; a second time is what a server that masks by itself, or
\* a text that was redacted before, comes to.
RedactResult ==
  /\ passes < 2
  /\ text' = RedactSQLText(text)
  /\ passes' = passes + 1
  /\ UNCHANGED tree

RedactionNext ==
  \/ RedactResult /\ UNCHANGED <<yaml, vars>>
  \/ SanitizeYAML /\ UNCHANGED <<sql, vars>>
  \/ Next /\ UNCHANGED <<sql, yaml>>

RedactionSpec == RedactionInit /\ [][RedactionNext]_all

-----------------------------------------------------------------------------
(* Properties.                                                             *)

SqlTypeOK == text \in Seq(Token) /\ passes \in 0..2

\* What reads the text finds in it the calls and arguments that its author
\* wrote, whatever is nested, quoted or commented in it (skipNonCode: a comment
\* that mentions a call is never one).
SqlAsParsed ==
  passes = 1 /\ tree # <<>> => text = RedactHeuristics(Tree(tree))

\* In any text, cut off in the middle or no SQL at all, only values change:
\* no bracket, comma or name is lost or moved.
SqlKeepsItsShape ==
  tree = <<>> =>
    \/ passes > 0
    \/ LET redacted == RedactSQLText(text) IN
       /\ Len(redacted) = Len(text)
       /\ \A i \in 1..Len(text) :
            redacted[i] # text[i] =>
              text[i] \in Literal \cup DOMAIN Shape \/ IsValue(text, i)

\* Redacting what was redacted changes nothing: a bundle of an old server and
\* one of a server that masks by itself read the same (hiddenToken's comment).
SqlSettles == passes = 1 => RedactSQLText(text) = text
=============================================================================
