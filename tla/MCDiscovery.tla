------------------------------ MODULE MCDiscovery ------------------------------
(* Discovery over every answer of at most three rows.                      *)
EXTENDS Discovery

MCRow ==
  [cluster : Cluster, shard : 1..2, address : Address, local : BOOLEAN, errors : 0..1]

MCAnswers == UNION {[1..n -> MCRow] : n \in 0..3}
=============================================================================
