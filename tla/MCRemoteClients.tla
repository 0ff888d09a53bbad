--------------------------- MODULE MCRemoteClients ---------------------------
(***************************************************************************)
(* An instance of RemoteClients for TLC: one Secret with the kubeconfigs   *)
(* of two sites, a Secret of the same name in another namespace, and two   *)
(* reconciles that use all three.                                          *)
(***************************************************************************)
EXTENDS RemoteClients

CONSTANTS t1, t2

MCRefs == <<[namespace |-> "ops", name |-> "kubeconfigs", key |-> "lyon"],
            [namespace |-> "ops", name |-> "kubeconfigs", key |-> "oslo"],
            [namespace |-> "dev", name |-> "kubeconfigs", key |-> "lyon"]>>

MCCallers == {t1, t2}
=============================================================================
