------------------------------ MODULE MCCluster -----------------------------
(***************************************************************************)
(* Small clusters: two brokers with one or two connection tasks each.      *)
(***************************************************************************)
EXTENDS Cluster, TLC

CONSTANTS b1, b2, h1, h2

BrokersAndTasks == Permutations(Node) \cup Permutations(Task)
=============================================================================
