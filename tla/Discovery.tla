------------------------------- MODULE Discovery -------------------------------
(***************************************************************************)
(* Discover (internal/clustercollect): the rows of system.clusters, in the *)
(* order the server sends them, become one node per machine.  A row is     *)
(* named by its number; what a node is shown and labelled by (host,        *)
(* address, shard, replica) it copies from one row, and so it is that      *)
(* row's number here.                                                      *)
(***************************************************************************)
EXTENDS Naturals, Sequences, FiniteSets

CONSTANTS
  Cluster,   \* the names of clusters
  Default,   \* the name `default', if it is one of them
  Address,   \* host_address
  Loopback,  \* the addresses isLoopback accepts
  Self,      \* the key of the node that was asked, no address
  All,       \* no -cluster flag
  Answers    \* the answers considered, sequences of rows

Row == [cluster : Cluster, shard : Nat, address : Address, local : BOOLEAN, errors : Nat]

ASSUME DiscoveryAssumption ==
  /\ Self \notin Address /\ All \notin Cluster
  /\ Answers \subseteq Seq(Row)

VARIABLES
  rows,   \* the answer
  only,   \* -cluster
  next,   \* the row the loop is at
  nodes,  \* for each key, the row a node was made from, and its errors
  pc

discovery == <<rows, only, next, nodes, pc>>

Key == Address \cup {Self}

Number == 1..Len(rows)

NoNode == [from |-> 0, errors |-> 0]

DiscoverInit ==
  /\ rows \in Answers
  /\ only \in Cluster \cup {All}
  /\ next = 1
  /\ nodes = [k \in Key |-> NoNode]
  /\ pc = "filter"

Kept(n) == only \in {All, rows[n].cluster}

\* -cluster names no cluster of the answer.
Unknown ==
  /\ pc = "filter" /\ only # All /\ \A n \in Number : ~Kept(n)
  /\ pc' = "error"
  /\ UNCHANGED <<rows, only, next, nodes>>

Filter ==
  /\ pc = "filter" /\ (only = All \/ \E n \in Number : Kept(n))
  /\ pc' = "loop"
  /\ UNCHANGED <<rows, only, next, nodes>>

Shards(c) == Cardinality({rows[n].shard : n \in {m \in Number : rows[m].cluster = c}})

Better(a, b) ==
  LET x == rows[a].cluster  y == rows[b].cluster IN
  \/ Shards(x) > Shards(y)
  \/ Shards(x) = Shards(y) /\ x # Default /\ y = Default

\* A test cluster that points back at the node that was asked.
Dropped(n) == ~rows[n].local /\ rows[n].address \in Loopback

KeyOf(n) == IF rows[n].local THEN Self ELSE rows[n].address

Larger(a, b) == IF a > b THEN a ELSE b

\* Mutant of Merged: the errors go with the row.
MergedWhole(node, n) ==
  IF Better(n, node.from) THEN [from |-> n, errors |-> rows[n].errors] ELSE node

Merged(node, n) ==
  [from   |-> IF Better(n, node.from) THEN n ELSE node.from,
   errors |-> Larger(node.errors, rows[n].errors)]

Advance ==
  /\ pc = "loop" /\ next <= Len(rows)
  /\ next' = next + 1
  /\ UNCHANGED <<rows, only, pc>>

Skip ==
  /\ Advance
  /\ ~Kept(next) \/ Dropped(next)
  /\ UNCHANGED nodes

Add ==
  /\ Advance
  /\ Kept(next) /\ ~Dropped(next) /\ nodes[KeyOf(next)] = NoNode
  /\ nodes' = [nodes EXCEPT ![KeyOf(next)] =
                 [from |-> next, errors |-> rows[next].errors]]

Merge ==
  /\ Advance
  /\ Kept(next) /\ ~Dropped(next) /\ nodes[KeyOf(next)] # NoNode
  /\ nodes' = [nodes EXCEPT ![KeyOf(next)] = Merged(nodes[KeyOf(next)], next)]

Return ==
  /\ pc = "loop" /\ next > Len(rows)
  /\ pc' = "done"
  /\ UNCHANGED <<rows, only, next, nodes>>

DiscoverNext == Unknown \/ Filter \/ Skip \/ Add \/ Merge \/ Return

DiscoverSpec == DiscoverInit /\ [][DiscoverNext]_discovery

-----------------------------------------------------------------------------
(* Properties.                                                             *)

DiscoverTypeOK ==
  /\ rows \in Seq(Row)
  /\ only \in Cluster \cup {All}
  /\ next \in 1..(Len(rows) + 1)
  /\ nodes \in [Key -> [from : 0..Len(rows), errors : Nat]]
  /\ pc \in {"filter", "loop", "done", "error"}

\* A row counts for the node that was asked, or for the machine of its address.
Counts(n, k) ==
  /\ only \in {All, rows[n].cluster}
  /\ IF k = Self THEN rows[n].local
     ELSE ~rows[n].local /\ rows[n].address = k /\ k \notin Loopback

\* The rows of a machine among the first ones.
RowsOf(k, end) == {n \in Number : n < end /\ Counts(n, k)}

\* Clusters are ranked by their shards, and `default' is the last of its like.
Rank(n) == 2 * Shards(rows[n].cluster) + (IF rows[n].cluster = Default THEN 0 ELSE 1)

\* A machine has a node exactly if it has a row that counts; the node takes its
\* label from the first of its rows in the highest rank, and its errors are the
\* most that any row reports.
NodeFrom(node, candidates) ==
  \/ candidates = {} /\ node = NoNode
  \/ /\ node.from \in candidates
     /\ \A n \in candidates : Rank(n) <= Rank(node.from)
     /\ \A n \in candidates : n < node.from => Rank(n) < Rank(node.from)
     /\ \A n \in candidates : rows[n].errors <= node.errors
     /\ \E n \in candidates : rows[n].errors = node.errors

\* What Discover returns is what the rows of each machine say, whatever their
\* order and in however many clusters it is (the comment of Discover).
EveryMachineOnce ==
  pc = "done" => \A k \in Key : NodeFrom(nodes[k], RowsOf(k, Len(rows) + 1))
=============================================================================
