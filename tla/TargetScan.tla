----------------------------- MODULE TargetScan -----------------------------
(***************************************************************************)
(* chooseTarget as the loop the controller runs over spec.replicas, one    *)
(* step per iteration, with the WAL positions that rank the candidates.    *)
(* SiteDecision gives the same function without them, as the set of sites  *)
(* it can return; ScanMeetsChoice relates the two.                         *)
(***************************************************************************)
EXTENDS SiteDecision

CONSTANTS MaxLSN, MaxTimeline   \* bounds of the observed positions

ASSUME ScanAssumption == MaxLSN \in Nat /\ MaxTimeline \in Nat

VARIABLES
  policy,  \* spec.failover.promotionPolicy
  obs,     \* replicaObs, by replica name
  failed,  \* failedPrimary
  i,       \* loop index
  best,    \* index of the best candidate so far, 0 for the code's -1
  done     \* the loop has ended

vars == <<policy, obs, failed, i, best, done>>

(***************************************************************************)
(* siteObservation: the health, the timeline CNPG reports, and the WAL     *)
(* position when probePostgres could read it, which it attempts only on a  *)
(* reachable site that is ready.                                           *)
(***************************************************************************)
Observation ==
  {o \in [Reachable : BOOLEAN, Primary : BOOLEAN, Ready : BOOLEAN,
          timelineID : 0 .. MaxTimeline, lsnKnown : BOOLEAN,
          lsnValue : 0 .. MaxLSN] :
     /\ ~o.Reachable => ~o.Primary /\ ~o.Ready /\ o.timelineID = 0
     /\ ~(o.Reachable /\ o.Ready) => ~o.lsnKnown
     /\ ~o.lsnKnown => o.lsnValue = 0}

\* Variant: the last of several equal candidates wins.
notLessAdvanced(candidate, current) ==
  IF candidate.lsnKnown # current.lsnKnown THEN candidate.lsnKnown
  ELSE IF candidate.lsnKnown THEN candidate.lsnValue >= current.lsnValue
  ELSE candidate.timelineID >= current.timelineID

moreAdvanced(candidate, current) ==
  IF candidate.lsnKnown # current.lsnKnown THEN candidate.lsnKnown
  ELSE IF candidate.lsnKnown THEN candidate.lsnValue > current.lsnValue
  ELSE candidate.timelineID > current.timelineID

\* Variant: the loop always runs to its end.
neverBreak == FALSE

\* Ordered and every unknown policy: the first eligible replica wins.
breakAtFirst == policy # "MostAdvancedLSN"

Init ==
  /\ policy \in Policies
  /\ obs \in [Sites \ {Declared} -> Observation]
  /\ failed \in Sites
  /\ i = 1
  /\ best = 0
  /\ done = FALSE

\* One iteration.
Iterate ==
  /\ ~done /\ i <= Len(Replicas)
  /\ i' = i + 1
  /\ \/ /\ ~Eligible(i, obs, failed)
        /\ UNCHANGED <<best, done>>
     \/ /\ Eligible(i, obs, failed) /\ best = 0
        /\ best' = i
        /\ done' = breakAtFirst
     \/ /\ Eligible(i, obs, failed) /\ best # 0
        /\ best' = IF moreAdvanced(obs[Replicas[i]], obs[Replicas[best]])
                   THEN i ELSE best
        /\ UNCHANGED done
  /\ UNCHANGED <<policy, obs, failed>>

Finish ==
  /\ ~done /\ i > Len(Replicas)
  /\ done' = TRUE
  /\ UNCHANGED <<policy, obs, failed, i, best>>

Next == Iterate \/ Finish

Spec == Init /\ [][Next]_vars

-----------------------------------------------------------------------------
\* Observation x is behind y: what MostAdvancedLSN is documented to mean.
Behind(x, y) ==
  \/ ~x.lsnKnown /\ y.lsnKnown
  \/ x.lsnKnown /\ y.lsnKnown /\ x.lsnValue < y.lsnValue
  \/ ~x.lsnKnown /\ ~y.lsnKnown /\ x.timelineID < y.timelineID

\* Replica k loses against replica m: it is behind, or level with it and
\* later in spec order.
Loses(k, m) ==
  LET ok == obs[Replicas[k]]
      om == obs[Replicas[m]]
  IN  Behind(ok, om) \/ (~Behind(om, ok) /\ m < k)

(***************************************************************************)
(* chooseTarget under MostAdvancedLSN: every other eligible replica is     *)
(* behind the target, or level with it and later in spec order; a WAL      *)
(* position always beats a missing one.                                    *)
(***************************************************************************)
TargetIsBest ==
  done /\ best # 0 /\ policy = "MostAdvancedLSN" =>
    \A k \in 1 .. Len(Replicas) :
      Eligible(k, obs, failed) /\ k # best => Loses(k, best)

(***************************************************************************)
(* The loop returns one of the sites chooseTarget of SiteDecision allows,  *)
(* and finds none only when there is none: what Reconciler assumes of it.  *)
(***************************************************************************)
ScanMeetsChoice ==
  done =>
    IF best = 0 THEN chooseTarget(policy, obs, failed) = {}
    ELSE Replicas[best] \in chooseTarget(policy, obs, failed)
=============================================================================
