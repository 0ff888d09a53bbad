---------------------------- MODULE MCReplicaList ----------------------------
(***************************************************************************)
(* An instance of ReplicaList for TLC: two replica sites.                  *)
(***************************************************************************)
EXTENDS ReplicaList

CONSTANTS b, c

MCNames == {b, c}
=============================================================================
