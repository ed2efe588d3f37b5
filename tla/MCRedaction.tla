------------------------------ MODULE MCRedaction ------------------------------
(* DDL with calls, nested calls, quoted names and comments; YAML documents   *)
(* of four nodes; pairs of XML files.                                        *)
EXTENDS Redaction

MCLiteral ==
  {"'a'", "'CSV'", "'AccountKey=k'", "'https://u:p@h'",
   "'https://u:[HIDDEN]@h'"}

MCWord == {"s3", "s3Cluster", "remote", "azure", "lower", "NOSIGN", "AKIA", "password"}

MCRule ==
  [name \in {"s3", "s3Cluster", "remote", "azure"} |->
     CASE name = "s3" -> "s3" [] name = "s3Cluster" -> "s3cluster"
       [] name = "remote" -> "host" [] name = "azure" -> "azure"]

MCShape ==
  [t \in {"AKIA", "'https://u:p@h'", "'https://u:[HIDDEN]@h'"} |->
     IF t = "AKIA" THEN "[HIDDEN]" ELSE "'https://u:[HIDDEN]@h'"]

P(tokens) == [call |-> "", tokens |-> tokens, args |-> <<>>]

C(name, args) == [call |-> name, tokens |-> <<>>, args |-> args]

\* Arguments: literals, words, a quoted name that looks like a call, a comment
\* with a bracket, and a call.
Arg ==
  {<<P(<<"'a'">>)>>, <<P(<<"'CSV'">>)>>, <<P(<<"NOSIGN">>)>>, <<P(<<>>)>>,
   <<P(<<"q", "s3", "(", ",", "q">>)>>}

Nested == {<<C("remote", <<<<P(<<"'a'">>)>>, <<P(<<"'a'">>)>>, <<P(<<"'a'">>)>>, <<P(<<"'a'">>)>>>>)>>,
           <<C("lower", <<<<P(<<"'AccountKey=k'">>)>>>>)>>}

Calls ==
  {C(name, args) : name \in {"s3", "s3Cluster", "remote", "azure", "lower"},
                   args \in UNION {[1..n -> Arg] : n \in 1..4}}
  \cup {C(name, <<<<P(<<"'https://u:p@h'">>)>>>> \o args) :
          name \in {"s3", "azure"}, args \in [1..3 -> Arg \cup Nested]}

Before == {<<>>, <<P(<<"q", "s3", "(", "q">>)>>, <<P(<<"password", "=", "'a'">>)>>}

MCTrees == {b \o <<c>> : b \in Before, c \in Calls}

\* Beginnings of a text, and any few tokens.
Whole == <<"s3", "(", "'a'", ",", "remote", "(", "'a'", ",", "'a'", ",", "'a'", ",", "'a'",
           ")", ",", "'a'", ",", ")", "password", "=", "AKIA">>

MCTexts ==
  {SubSeq(Whole, 1, n) : n \in 0..Len(Whole)}
  \cup UNION {[1..n -> {"remote", "(", ")", ",", "q", "'a'", "[", "=", "password"}] : n \in 1..4}

N(kind, within, sensitive, value) ==
  [kind |-> kind, within |-> within, sensitive |-> sensitive, anchor |-> 0, value |-> value]

\* The documents with one node more, at the top or within any map or list.
Longer(docs) ==
  UNION {LET Open == {m \in 1..Len(doc) : doc[m].kind \in {"map", "list"}}
             Places == (Open \X {FALSE}) \cup ({m \in Open : doc[m].kind = "map"} \X {TRUE})
             Anchors == {m \in 1..Len(doc) : doc[m].kind # "alias" /\ doc[m].within # 0}
             New(kinds, values, place) ==
               {N(kind, place[1], place[2], value) : kind \in kinds, value \in values}
         IN  {Append(doc, n) : n \in New({"map", "list"}, {""}, <<0, FALSE>>)}
             \cup UNION {{Append(doc, n) :
                           n \in New({"map", "list"}, {"", "shaped"}, p)
                                 \cup New({"scalar"}, {"secret", "shaped"}, p)
                                 \cup {[n EXCEPT !.anchor = a] :
                                         n \in New({"alias"}, {"secret", "shaped"}, p), a \in Anchors}} :
                         p \in Places}
         : doc \in docs}

MCYamls == {doc \in Longer(Longer(Longer(Longer({<<>>})))) : doc[4].within # 0}

T(kind, sensitive, value) == [kind |-> kind, sensitive |-> sensitive, value |-> value]

Some ==
  {T("start", TRUE, ""), T("start", FALSE, "")}
  \cup {T("start", FALSE, value) : value \in {"secret", "apart", "mixed"}}
  \cup {T("end", FALSE, ""), T("text", FALSE, "secret"), T("comment", FALSE, "shaped")}

\* Pairs of files, of which the first may not parse or not be XML.
MCFiles ==
  {<<>>} \cup
  {<<a, [xml |-> TRUE, tokens |-> b]>> :
     a \in [xml : {TRUE}, tokens : UNION {[1..n -> Some] : n \in 1..3}]
           \cup [xml : {FALSE}, tokens : [1..1 -> Some]],
     b \in {<<t>> \o m \o <<T("end", FALSE, "")>> :
              t \in {T("start", TRUE, ""), T("start", FALSE, "secret")},
              m \in [1..1 -> Some] \cup
                    {<<s, T("text", FALSE, "secret"), T("end", FALSE, "")>> :
                       s \in {T("start", TRUE, ""), T("start", FALSE, "")}}}}
=============================================================================
