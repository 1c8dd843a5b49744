--------------------------- MODULE MCRaftStorage ---------------------------
(* RaftStorage for TLC: every constant is a number or a set of names. *)
EXTENDS RaftStorage
=============================================================================
