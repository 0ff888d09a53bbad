-------------------------- MODULE TargetScan_proofs --------------------------
(***************************************************************************)
(* chooseTarget returns the best eligible replica, for every number of     *)
(* replicas and every observation of them.                                 *)
(***************************************************************************)
EXTENDS TargetScan, TLAPS

Index == 1 .. Len(Replicas)

LEMMA ReplicaObserved ==
  ASSUME obs \in [Sites \ {Declared} -> Observation], NEW k \in Index
  PROVE  obs[Replicas[k]] \in Observation
  BY SpecAssumption DEF Index

(***************************************************************************)
(* moreAdvanced orders the observations by WAL position, with positions    *)
(* above none, and by timeline where there is none: a strict weak order.   *)
(***************************************************************************)
LEMMA BehindMeaning ==
  ASSUME NEW x \in Observation, NEW y \in Observation
  PROVE  Behind(x, y) <=> moreAdvanced(y, x)
  BY ScanAssumption DEF Behind, moreAdvanced, Observation

LEMMA MoreAdvancedAsymmetric ==
  ASSUME NEW x \in Observation, NEW y \in Observation, moreAdvanced(x, y)
  PROVE  ~moreAdvanced(y, x)
  BY ScanAssumption DEF moreAdvanced, Observation

LEMMA MoreAdvancedTransitive ==
  ASSUME NEW x \in Observation, NEW y \in Observation, NEW z \in Observation,
         moreAdvanced(x, y), ~moreAdvanced(z, y)
  PROVE  moreAdvanced(x, z)
  BY ScanAssumption DEF moreAdvanced, Observation

(***************************************************************************)
(* The invariant of the loop: best is the best of the replicas seen so     *)
(* far, and under Ordered the loop ends with the first eligible one.       *)
(***************************************************************************)
ScanInv ==
  /\ obs \in [Sites \ {Declared} -> Observation]
  /\ i \in 1 .. Len(Replicas) + 1
  /\ best \in 0 .. i - 1
  /\ done \in BOOLEAN
  /\ best # 0 => Eligible(best, obs, failed)
  /\ best = 0 => \A k \in 1 .. i - 1 : ~Eligible(k, obs, failed)
  /\ best # 0 /\ policy = "MostAdvancedLSN" =>
       \A k \in 1 .. i - 1 : Eligible(k, obs, failed) /\ k # best => Loses(k, best)
  /\ best # 0 /\ policy # "MostAdvancedLSN" =>
       done /\ \A k \in 1 .. best - 1 : ~Eligible(k, obs, failed)
  /\ done => i = Len(Replicas) + 1 \/ (policy # "MostAdvancedLSN" /\ best # 0)

LEMMA LenReplicas == Len(Replicas) \in Nat
  BY SpecAssumption

\* A candidate that beats the best so far beats all that lost against it.
LEMMA NewBest ==
  ASSUME obs \in [Sites \ {Declared} -> Observation],
         NEW k \in Index, NEW m \in Index, NEW n \in Index,
         moreAdvanced(obs[Replicas[n]], obs[Replicas[m]]),
         k = m \/ Loses(k, m)
  PROVE  Loses(k, n)
<1>1. /\ obs[Replicas[k]] \in Observation /\ obs[Replicas[m]] \in Observation
      /\ obs[Replicas[n]] \in Observation
  BY ReplicaObserved
<1>2. CASE k = m
  BY <1>1, <1>2, BehindMeaning DEF Loses
<1>3. CASE Loses(k, m)
  <2>1. ~moreAdvanced(obs[Replicas[k]], obs[Replicas[m]])
    BY <1>1, <1>3, MoreAdvancedAsymmetric, BehindMeaning DEF Loses
  <2>2. moreAdvanced(obs[Replicas[n]], obs[Replicas[k]])
    BY <1>1, <2>1, MoreAdvancedTransitive
  <2> QED BY <1>1, <2>2, BehindMeaning DEF Loses
<1> QED BY <1>2, <1>3

LEMMA IterateKeepsInv ==
  ASSUME ScanInv, Iterate PROVE ScanInv'
<1>1. /\ i \in Index /\ i' = i + 1 /\ obs' = obs /\ failed' = failed
      /\ policy' = policy
      /\ done = FALSE /\ best \in 0 .. i - 1
      /\ Len(Replicas) \in Nat
  BY LenReplicas DEF ScanInv, Iterate, Index
<1>2. CASE ~Eligible(i, obs, failed)
  <2>1. best' = best /\ done' = done
    BY <1>2 DEF Iterate
  <2>2. best = 0 \/ policy = "MostAdvancedLSN"
    BY <1>1 DEF ScanInv
  <2>3. \A k \in 1 .. i : Eligible(k, obs, failed) => k \in 1 .. i - 1
    BY <1>1, <1>2 DEF Index
  <2>4. i' \in 1 .. Len(Replicas) + 1 /\ i' - 1 = i /\ best' \in 0 .. i' - 1
    BY <1>1, <2>1 DEF Index
  <2> QED BY <1>1, <2>1, <2>2, <2>3, <2>4 DEF ScanInv, Loses
<1>3. CASE Eligible(i, obs, failed) /\ best = 0
  <2>1. best' = i /\ done' = (policy # "MostAdvancedLSN")
    BY <1>3 DEF Iterate, breakAtFirst
  <2>2. \A k \in 1 .. i - 1 : ~Eligible(k, obs, failed)
    BY <1>3 DEF ScanInv
  <2>3. \A k \in 1 .. i : Eligible(k, obs, failed) => k = i
    BY <1>1, <2>2 DEF Index
  <2>4. i' \in 1 .. Len(Replicas) + 1 /\ i' - 1 = i /\ i \in 0 .. i' - 1 /\ i # 0
    BY <1>1 DEF Index
  <2> QED BY <1>1, <1>3, <2>1, <2>2, <2>3, <2>4 DEF ScanInv
<1>4. CASE Eligible(i, obs, failed) /\ best # 0
  <2>1. done' = FALSE /\ policy = "MostAdvancedLSN"
    BY <1>1, <1>4 DEF Iterate, ScanInv
  <2>2. best \in Index /\ best < i
    BY <1>1, <1>4 DEF Index
  <2>3. i' \in 1 .. Len(Replicas) + 1 /\ i' - 1 = i
    BY <1>1 DEF Index
  <2>4. ASSUME NEW k \in 1 .. i, Eligible(k, obs, failed), k # best'
        PROVE  Loses(k, best')
    <3>1. k \in Index
      BY <1>1 DEF Index
    <3>2. CASE best' = i
      <4>1. moreAdvanced(obs[Replicas[i]], obs[Replicas[best]])
        <5>1. best # i
          BY <1>1, <2>2 DEF Index
        <5> QED BY <1>4, <3>2, <5>1 DEF Iterate
      <4>2. k \in 1 .. i - 1
        BY <1>1, <2>4, <3>2 DEF Index
      <4>3. k = best \/ Loses(k, best)
        BY <1>4, <2>1, <2>4, <4>2 DEF ScanInv
      <4> QED BY <1>1, <2>2, <3>1, <3>2, <4>1, <4>3, NewBest DEF ScanInv
    <3>3. CASE best' # i
      <4>1. best' = best /\ ~moreAdvanced(obs[Replicas[i]], obs[Replicas[best]])
        BY <1>4, <3>3 DEF Iterate
      <4>2. CASE k = i
        <5>1. /\ obs[Replicas[i]] \in Observation
              /\ obs[Replicas[best]] \in Observation
          BY <1>1, <2>2, ReplicaObserved DEF ScanInv
        <5> QED BY <2>2, <4>1, <4>2, <5>1, BehindMeaning DEF Loses
      <4>3. CASE k # i
        <5>1. k \in 1 .. i - 1
          BY <1>1, <4>3 DEF Index
        <5> QED BY <1>4, <2>1, <2>4, <4>1, <5>1 DEF ScanInv
      <4> QED BY <4>2, <4>3
    <3> QED BY <3>2, <3>3
  <2>5. best' \in 0 .. i' - 1 /\ best' # 0 /\ Eligible(best', obs, failed)
    BY <1>1, <1>4, <2>2, <2>3 DEF Iterate, ScanInv, Index
  <2> QED BY <1>1, <2>1, <2>3, <2>4, <2>5 DEF ScanInv, Loses
<1> QED BY <1>2, <1>3, <1>4

LEMMA ScanAlways == Spec => []ScanInv
<1>1. Init => ScanInv
  <2> SUFFICES ASSUME Init PROVE ScanInv
    OBVIOUS
  <2>1. /\ i \in 1 .. Len(Replicas) + 1 /\ best \in 0 .. i - 1
        /\ \A k \in 1 .. i - 1 : FALSE
    BY LenReplicas DEF Init
  <2> QED BY <2>1 DEF Init, ScanInv
<1>2. ScanInv /\ [Next]_vars => ScanInv'
  <2> SUFFICES ASSUME ScanInv, [Next]_vars PROVE ScanInv'
    OBVIOUS
  <2>1. CASE Iterate
    BY <2>1, IterateKeepsInv
  <2>2. CASE Finish
    <3>1. i = Len(Replicas) + 1
      BY <2>2, LenReplicas DEF Finish, ScanInv
    <3> QED BY <2>2, <3>1 DEF Finish, ScanInv, Loses
  <2>3. CASE UNCHANGED vars
    BY <2>3 DEF vars, ScanInv, Loses
  <2> QED BY <2>1, <2>2, <2>3 DEF Next
<1> QED BY <1>1, <1>2, PTL DEF Spec

(***************************************************************************)
(* chooseTarget under MostAdvancedLSN returns the most advanced eligible   *)
(* replica, the first of them in spec order, however many there are.       *)
(***************************************************************************)
THEOREM TargetIsBestAlways == Spec => []TargetIsBest
<1>1. ScanInv => TargetIsBest
  BY LenReplicas DEF ScanInv, TargetIsBest
<1> QED BY <1>1, ScanAlways, PTL

(***************************************************************************)
(* The loop of chooseTarget returns a member of the set Reconciler chooses *)
(* from, and reports no target only when that set is empty.                *)
(***************************************************************************)
THEOREM ScanMeetsChoiceAlways == Spec => []ScanMeetsChoice
<1>1. ScanInv => ScanMeetsChoice
  <2> SUFFICES ASSUME ScanInv, done PROVE ScanMeetsChoice
    BY DEF ScanMeetsChoice
  <2>1. CASE best = 0
    <3>1. \A k \in 1 .. Len(Replicas) : ~Eligible(k, obs, failed)
      BY <2>1, LenReplicas DEF ScanInv
    <3> QED BY <2>1, <3>1 DEF ScanMeetsChoice, chooseTarget
  <2>2. CASE best # 0
    <3>1. best \in 1 .. Len(Replicas) /\ Eligible(best, obs, failed)
      BY <2>2, LenReplicas DEF ScanInv
    <3>2. policy = "Ordered" => \A j \in 1 .. best - 1 : ~Eligible(j, obs, failed)
      BY <2>2 DEF ScanInv
    <3> QED BY <2>2, <3>1, <3>2 DEF ScanMeetsChoice, chooseTarget
  <2> QED BY <2>1, <2>2
<1> QED BY <1>1, ScanAlways, PTL
=============================================================================
