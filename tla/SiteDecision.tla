---------------------------- MODULE SiteDecision ----------------------------
(***************************************************************************)
(* The decisions the reconciler takes from the observations of one         *)
(* reconcile, all of them pure functions of internal/controller.           *)
(* An observation buffer maps every site to its SiteHealth.                *)
(***************************************************************************)
EXTENDS CNPGCluster, Sequences

CONSTANTS
  Declared,  \* spec.primary.name, the bootstrap site
  Replicas   \* spec.replicas, in spec order

(***************************************************************************)
(* replicas is a list-map keyed by name, so no two entries share a name.   *)
(* That no replica carries the name of the declared primary is not         *)
(* validated by the CRD; every lookup by name in the controller relies on  *)
(* it.                                                                     *)
(***************************************************************************)
ASSUME SpecAssumption ==
  /\ Declared \in Sites
  /\ Replicas \in Seq(Sites \ {Declared})
  /\ \A s \in Sites \ {Declared} : \E i \in 1 .. Len(Replicas) : Replicas[i] = s
  /\ \A i, j \in 1 .. Len(Replicas) : Replicas[i] = Replicas[j] => i = j

Policies == {"Ordered", "MostAdvancedLSN"}

Buffer == [Sites -> SiteHealth]

\* A site whose Cluster is observed as a primary that serves.
ReadyPrimary(o) == o.Reachable /\ o.Primary /\ o.Ready

\* A site that may be promoted.
HealthyReplica(o) == o.Reachable /\ o.Ready /\ ~o.Primary

primaryReadyCandidates(obs) == {s \in Sites : ReadyPrimary(obs[s])}

detectSplitBrain(obs) ==
  \E s, t \in primaryReadyCandidates(obs) : s # t

decideCurrentPrimary(obs) ==
  IF primaryReadyCandidates(obs) = {} \/ detectSplitBrain(obs)
  THEN NoSite
  ELSE CHOOSE s \in primaryReadyCandidates(obs) : TRUE

\* The site a manual promotion demotes; no promotion runs in a split-brain.
currentPrimaryForPromotion(status, obs) ==
  IF status # NoSite THEN status
  ELSE IF decideCurrentPrimary(obs) # NoSite THEN decideCurrentPrimary(obs)
  ELSE Declared

Eligible(i, obs, failedPrimary) ==
  Replicas[i] # failedPrimary /\ HealthyReplica(obs[Replicas[i]])

(***************************************************************************)
(* The sites chooseTarget can return: the first eligible replica under     *)
(* Ordered, any eligible one under MostAdvancedLSN, where the choice       *)
(* depends on the WAL positions that this buffer leaves out.  The empty    *)
(* set is the result ok = false.                                           *)
(***************************************************************************)
chooseTarget(policy, obs, failedPrimary) ==
  {Replicas[i] : i \in {k \in 1 .. Len(Replicas) :
     /\ Eligible(k, obs, failedPrimary)
     /\ policy = "Ordered" =>
          \A j \in 1 .. (k - 1) : ~Eligible(j, obs, failedPrimary)}}

\* The buffers after a promotion this reconcile performed itself.
applyPromotionEffect(obs, demoted, promoted) ==
  [obs EXCEPT ![demoted].Primary = FALSE, ![demoted].Ready = FALSE,
              ![promoted].Primary = TRUE]
=============================================================================
