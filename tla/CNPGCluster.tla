---------------------------- MODULE CNPGCluster ----------------------------
(***************************************************************************)
(* The API objects of one site as the operator reads and writes them: the  *)
(* CNPG Cluster resource and its -rw Service, and the writes of package    *)
(* internal/promotion on them.                                             *)
(*                                                                         *)
(* Here and in the other modules a definition marked Variant is not part   *)
(* of the model: it is the definition after it with a plausible mistake,   *)
(* kept to show that a property notices the mistake.                       *)
(*                                                                         *)
(* Every write of that package is a Get followed by an Update of the       *)
(* object that was read.  The Update carries the resourceVersion of the    *)
(* Get, so the pair either applies to the state of one instant or fails;   *)
(* each write is therefore one operator on the site's record.              *)
(***************************************************************************)
EXTENDS Naturals

CONSTANTS
  Sites,   \* the names of the sites of the HACluster
  NoSite   \* "", the empty site name

ASSUME NoSiteAssumption == NoSite \notin Sites

(***************************************************************************)
(* reach    the site's Kubernetes API answers the operator, and a client   *)
(*          for it can be built                                            *)
(* exists   the Cluster, and the -rw Service CNPG manages for it, exist    *)
(* primary  spec.replica.enabled is absent or false                        *)
(* fenced   annotation cnpg.io/fencedInstances is ["*"]                    *)
(* ready    status.readyInstances > 0                                      *)
(* source   whose endpoint the external cluster of spec.replica names      *)
(* affinity annotation service.cilium.io/affinity of the -rw Service       *)
(***************************************************************************)
Cluster == [reach : BOOLEAN, exists : BOOLEAN, primary : BOOLEAN,
            fenced : BOOLEAN, ready : BOOLEAN, source : Sites \cup {NoSite},
            affinity : {"none", "local", "remote"}]

(***************************************************************************)
(* What a probe reports of a site.  The fields read by the optional SQL    *)
(* probe only rank promotion candidates: see module TargetScan.            *)
(***************************************************************************)
SiteHealth == [Reachable : BOOLEAN, Primary : BOOLEAN, Ready : BOOLEAN]

Unreachable == [Reachable |-> FALSE, Primary |-> FALSE, Ready |-> FALSE]

\* Any Get error, NotFound included, yields Reachable = FALSE.
Probe(c) ==
  IF c.reach /\ c.exists
  THEN [Reachable |-> TRUE, Primary |-> c.primary, Ready |-> c.ready]
  ELSE Unreachable

Fence(c) == [c EXCEPT !.fenced = TRUE]

Promote(c) == [c EXCEPT !.primary = TRUE]

\* Variant: a Cluster that is a replica already is taken for configured.
ReconfigurePrimariesOnly(c, source) ==
  IF c.primary THEN [c EXCEPT !.primary = FALSE, !.source = source] ELSE c

\* Variant: replica mode is switched on, the external cluster is not repointed.
ReconfigureKeepingSource(c, source) == [c EXCEPT !.primary = FALSE]

\* Variant: replica mode is switched off instead of on.
ReconfigureAsPrimary(c, source) == [c EXCEPT !.primary = TRUE, !.source = source]

\* Reconfigure leaves the fencing annotation alone.
Reconfigure(c, source) == [c EXCEPT !.primary = FALSE, !.source = source]

\* Variant: a Service with an affinity is taken for flipped, whatever the value.
FlipUnsetOnly(c, role) ==
  IF c.affinity = "none" THEN [c EXCEPT !.affinity = role] ELSE c

FlipCiliumService(c, role) == [c EXCEPT !.affinity = role]

(***************************************************************************)
(* The ways a write of the package can end, as its caller sees it.  "lost" *)
(* is an error after the API server stored the update (a timeout or a      *)
(* broken connection while waiting for the reply); faults says whether a   *)
(* call may fail on a site that answers.                                   *)
(***************************************************************************)
Outcome == {"ok", "notFound", "error", "lost"}

Outcomes(c, faults) ==
  IF ~c.reach THEN {"error"}
  ELSE IF c.exists THEN {"ok"} \cup (IF faults THEN {"error", "lost"} ELSE {})
  ELSE {"notFound"} \cup (IF faults THEN {"error"} ELSE {})

\* The outcomes after which the update is in the store.
Stored == {"ok", "lost"}
=============================================================================
