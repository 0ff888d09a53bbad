---------------------------- MODULE MCReconciler ----------------------------
(***************************************************************************)
(* Instances of Reconciler for TLC: a declared primary and two replicas,   *)
(* the smallest HACluster with a choice of targets and a bystander site.   *)
(***************************************************************************)
EXTENDS Reconciler

CONSTANTS a, b, c

MCSites == {a, b, c}
MCReplicas == <<b, c>>
=============================================================================
