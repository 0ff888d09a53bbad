---------------------------- MODULE MCTargetScan ----------------------------
(***************************************************************************)
(* Instances of TargetScan for TLC.  Three replicas, so that a candidate   *)
(* can win against one and lose against, or tie with, another.             *)
(***************************************************************************)
EXTENDS TargetScan

CONSTANTS a, b, c, d

MCSites == {a, b, c, d}
MCReplicas == <<b, c, d>>
=============================================================================
