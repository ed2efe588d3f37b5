------------------------------ MODULE ConfigFiles ------------------------------
(***************************************************************************)
(* The XML files of a server's configuration, in the order in which        *)
(* config.Collector walks them (internal/config/collector.go), each read   *)
(* token by token by redactXML (internal/collection/sanitizer.go).         *)
(***************************************************************************)
EXTENDS Credentials, Naturals, Sequences, FiniteSets

CONSTANT Files  \* sequences of files that a configuration can have

\* A start tag has the value of its sensitive attribute, "" if it has none;
\* "secret" is written name="v" or name='v', "apart" without quotes or with blanks
\* at the equals sign, "mixed" with one of the other quotes in it.  "rest" is what
\* comes after that quote.
XmlToken ==
  [kind : {"start", "end", "text", "comment"}, sensitive : BOOLEAN,
   value : Value \cup {"apart", "mixed", "rest"}]

ASSUME FilesAssumption == Files \subseteq Seq([xml : BOOLEAN, tokens : Seq(XmlToken)])

VARIABLES
  pc,
  files,    \* the configuration files
  at,       \* the one at work
  next,     \* the token the parser is at
  stack,    \* for each open element, whether its name is sensitive
  spans,    \* the tokens to be rewritten
  scratch,  \* attrRewrites: a global
  shipped   \* for each file, what is written for it, nothing if it is not

parser == <<next, stack, spans, scratch>>
vars == <<pc, files, at, parser, shipped>>

Init ==
  /\ files \in Files
  /\ at = 1 /\ next = 1 /\ stack = <<>> /\ spans = {} /\ scratch = {}
  /\ shipped = [i \in 1..Len(files) |-> {}]
  /\ pc = IF files = <<>> THEN "done" ELSE "file"

Tokens == files[at].tokens

NextFile ==
  /\ at' = at + 1 /\ next' = 1 /\ stack' = <<>> /\ spans' = {}
  /\ pc' = IF at = Len(files) THEN "done" ELSE "file"

\* A file that cannot be read is passed over; one that is neither XML nor YAML
\* is written as it is.
ReadFile ==
  /\ pc = "file"
  /\ \/ NextFile /\ UNCHANGED shipped
     \/ /\ ~files[at].xml /\ NextFile
        /\ shipped' = [shipped EXCEPT ![at] = {Tokens}]
     \/ /\ files[at].xml /\ pc' = "parse"
        /\ UNCHANGED <<at, next, stack, spans, shipped>>
  /\ UNCHANGED <<files, scratch>>

\* Mutant of InSensitive: the outermost element counts.
InSensitiveRoot == stack # <<>> /\ stack[1]

InSensitive == stack # <<>> /\ stack[Len(stack)]

Rewritten(token) == [token EXCEPT !.value = Removed]

\* redactAttrs: a pattern, for which a value ends with the first quote of any
\* kind.
Attributes(token) ==
  [token EXCEPT !.value =
     IF @ \in {"", "apart"} THEN @ ELSE IF @ = "mixed" THEN "rest" ELSE Removed]

Advance ==
  /\ pc = "parse" /\ next <= Len(Tokens)
  /\ next' = next + 1
  /\ UNCHANGED <<pc, files, at, shipped>>

StartElement ==
  LET t == Tokens[next] IN
  /\ Advance /\ t.kind = "start"
  /\ stack' = Append(stack, t.sensitive)
  /\ IF Attributes(t) = t THEN UNCHANGED <<spans, scratch>>
     ELSE /\ spans' = spans \cup {next}
          /\ scratch' = {e \in scratch : e.span # next}
                          \cup {[span |-> next, tag |-> Attributes(t)]}

EndElement ==
  /\ Advance /\ Tokens[next].kind = "end" /\ stack # <<>>
  /\ stack' = SubSeq(stack, 1, Len(stack) - 1)
  /\ UNCHANGED <<spans, scratch>>

CharData ==
  /\ Advance /\ Tokens[next].kind = "text"
  /\ spans' = IF InSensitive /\ Tokens[next].value # "" THEN spans \cup {next} ELSE spans
  /\ UNCHANGED <<stack, scratch>>

Comment ==
  /\ Advance /\ Tokens[next].kind = "comment"
  /\ UNCHANGED <<stack, spans, scratch>>

ParseError ==
  \/ next <= Len(Tokens) /\ Tokens[next].kind = "end" /\ stack = <<>>
  \/ next > Len(Tokens) /\ stack # <<>>

\* A file that does not parse is not shipped.
Skip ==
  /\ pc = "parse" /\ ParseError
  /\ NextFile
  /\ UNCHANGED <<files, scratch, shipped>>

\* The text of a span is replaced, unless scratch has a tag for it.
Spliced ==
  [n \in 1..Len(Tokens) |->
     IF n \notin spans THEN Tokens[n]
     ELSE IF \E e \in scratch : e.span = n
          THEN (CHOOSE e \in scratch : e.span = n).tag
          ELSE Rewritten(Tokens[n])]

Output(tokens) == [n \in 1..Len(tokens) |-> [tokens[n] EXCEPT !.value = Scrubbed(@)]]

\* Mutant of Emit: scratch is not cleared.
EmitKeeping ==
  /\ pc = "parse" /\ next > Len(Tokens) /\ stack = <<>>
  /\ NextFile
  /\ \/ shipped' = [shipped EXCEPT ![at] = {Output(Spliced)}]
     \/ UNCHANGED shipped
  /\ UNCHANGED <<files, scratch>>

\* The output, written or not.  Without spans there is nothing to clear.
Emit ==
  /\ pc = "parse" /\ next > Len(Tokens) /\ stack = <<>>
  /\ NextFile
  /\ scratch' = IF spans = {} THEN scratch ELSE {}
  /\ \/ shipped' = [shipped EXCEPT ![at] = {Output(Spliced)}]
     \/ UNCHANGED shipped
  /\ UNCHANGED files

Next ==
  \/ ReadFile \/ StartElement \/ EndElement \/ CharData \/ Comment \/ Skip \/ Emit

Spec == Init /\ [][Next]_vars

-----------------------------------------------------------------------------
(* Properties.                                                             *)

TypeOK ==
  /\ pc \in {"file", "parse", "done"}
  /\ files \in Files
  /\ pc # "done" =>
       /\ at \in 1..Len(files)
       /\ next \in 1..(Len(Tokens) + 1)
       /\ spans \subseteq 1..Len(Tokens)
  /\ stack \in Seq(BOOLEAN)
  /\ scratch \subseteq [span : Nat, tag : XmlToken]
  /\ shipped \in [1..Len(files) -> SUBSET Seq(XmlToken)]

\* How many tokens of a kind are among those from k to n.
Occurs(tokens, kind, k, n) == Cardinality({j \in k..n : tokens[j].kind = kind})

\* The start tags before n from which on, at every token, fewer elements were
\* closed than opened.
Opens(tokens, n) ==
  {k \in 1..(n - 1) : tokens[k].kind = "start" /\
     \A j \in k..(n - 1) : Occurs(tokens, "end", k, j) < Occurs(tokens, "start", k, j)}

\* The element a token is directly in, 0 if there is none.
Innermost(tokens, n) ==
  LET S == Opens(tokens, n) IN
  IF S = {} THEN 0 ELSE CHOOSE k \in S : \A j \in S : j <= k

\* No text directly in an element with a sensitive name, no sensitive attribute
\* written name="v" or name='v', and nothing that looks like a credential is in
\* any XML file that is shipped; of a value with the other quote in it only what
\* comes after that quote is.
NothingSensitiveShipped ==
  \A i \in 1..Len(shipped) : \A out \in shipped[i] :
    files[i].xml =>
      \A n \in 1..Len(out) :
        LET t == files[i].tokens[n]  k == Innermost(files[i].tokens, n) IN
        /\ out[n].value # "shaped"
        /\ t.kind = "start" /\ t.value # "apart" => out[n].value \in {"", "rest", Removed}
        /\ t.kind = "text" /\ k # 0 /\ files[i].tokens[k].sensitive
             => out[n].value \in {"", "rest", Removed}

\* "Attribute values whose attribute name is sensitive are redacted in place":
\* redactXML's comment, without regard to how they are written.
EveryAttributeRedacted ==
  \A i \in 1..Len(shipped) : \A out \in shipped[i] :
    files[i].xml =>
      \A n \in 1..Len(out) :
        files[i].tokens[n].kind = "start" => out[n].value \in {"", Removed}

Balanced(tokens) ==
  LET Ends(n) == Occurs(tokens, "end", 1, n)
      Starts(n) == Occurs(tokens, "start", 1, n)
  IN  Starts(Len(tokens)) = Ends(Len(tokens)) /\ \A n \in 1..Len(tokens) : Ends(n) <= Starts(n)

\* An XML file that does not parse is never shipped ("fails closed").
FailsClosed ==
  \A i \in 1..Len(shipped) :
    shipped[i] # {} /\ files[i].xml => Balanced(files[i].tokens)

\* The token is t, with another value or not.
IsOf(token, t) == \E v \in {t.value, "rest", Removed} : token = [t EXCEPT !.value = v]

\* What is written for a file is that file, with values replaced and nothing
\* else: "a per-call scratch map" is not seen by another call.
OutputIsItsOwn ==
  \A i \in 1..Len(shipped) : \A out \in shipped[i] :
    Len(out) = Len(files[i].tokens) /\ \A n \in 1..Len(out) : IsOf(out[n], files[i].tokens[n])

\* Tag n of an XML file before file i that did not parse.
IsLeft(token, i, n) ==
  \E j \in 1..(i - 1) :
    /\ files[j].xml /\ ~Balanced(files[j].tokens)
    /\ n \in 1..Len(files[j].tokens) /\ files[j].tokens[n].kind = "start"
    /\ IsOf(token, files[j].tokens[n]) /\ token.value \in {"rest", Removed}

\* What is written for a file is that file, with values replaced; only a file
\* that did not parse, however long ago, can have left anything else in its
\* place: a start tag, redacted, at the same place (attrRewrites).
OnlyUnparsedLeaveTags ==
  \A i \in 1..Len(shipped) : \A out \in shipped[i] :
    /\ Len(out) = Len(files[i].tokens)
    /\ \A n \in 1..Len(out) : IsOf(out[n], files[i].tokens[n]) \/ IsLeft(out[n], i, n)
=============================================================================
