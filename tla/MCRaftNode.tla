----------------------------- MODULE MCRaftNode -----------------------------
(***************************************************************************)
(* Instances of RaftNode for TLC.  Client operations are interchangeable;  *)
(* nodes are not, since the peer loops visit them in config order.         *)
(***************************************************************************)
EXTENDS RaftNode, TLC

Symmetry == Permutations(Proposals) \cup Permutations(Reads)
=============================================================================
