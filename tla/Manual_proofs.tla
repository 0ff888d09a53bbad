---------------------------- MODULE Manual_proofs ----------------------------
(***************************************************************************)
(* rejoinPolicy Manual needs no fresh cache.  Where no Cluster is          *)
(* converted by hand, a site that once was a primary stays one, so         *)
(* whatever the operator remembers of a primary stays true, however old    *)
(* the memory is: a stale HACluster, observations, a promotion under way.  *)
(***************************************************************************)
EXTENDS Reconciler_proofs

Primaries == {s \in Sites : site[s].primary}

\* Every name the operator or the HACluster holds for a primary.
Names == {store.primary, cache.primary, ha.primary, prior, job.old, eff}

\* The second probe of a site still holds when the write follows.
ProbeHolds == pc = "converge" => stray = site[SiteAt(pos)].primary

Upheld ==
  /\ Names \subseteq Primaries \cup {NoSite}
  /\ {s \in Sites : obs[s].Primary} \cup {Declared} \subseteq Primaries
  /\ TargetPromoted
  /\ ProbeHolds

ByHand == Rejoin = "Manual" /\ "convert" \notin Chores

-----------------------------------------------------------------------------
(***************************************************************************)
(* Where the names come from.                                              *)
(***************************************************************************)
\* The updates of an HACluster that are not about its primary.
LEMMA SamePrimaryName ==
  ASSUME NEW h \in HACluster, NEW x
  PROVE  /\ setFailoverInProgress(h, x).primary = h.primary
         /\ [h EXCEPT !.annot = NoSite].primary = h.primary
         /\ [h EXCEPT !.cool = FALSE].primary = h.primary
         /\ Completed(h).primary = job.target
  BY DEF HACluster, setFailoverInProgress, Completed

\* A Reconcile that begins, observes or calls a site learns no new name.
LEMMA NamesInCalls ==
  ASSUME Typed,
         StartReconcile \/ ObserveSite \/ FenceOld \/ FlipOld \/ PromoteTarget
  PROVE  Names' \subseteq Names
<1>1. CASE StartReconcile
  BY <1>1 DEF StartReconcile, Names
<1>2. CASE ObserveSite
  BY <1>2 DEF ObserveSite, Names
<1>3. CASE FenceOld \/ FlipOld \/ PromoteTarget
  <2>1. ha' = ha \/ ha' = setFailoverInProgress(ha, FALSE)
    BY <1>3 DEF FenceOld, FlipOld, PromoteTarget, FailPromotion
  <2>2. ha'.primary = ha.primary
    <3>1. setFailoverInProgress(ha, FALSE).primary = ha.primary
      BY SamePrimaryName DEF Typed, TypeOK
    <3> QED BY <2>1, <3>1
  <2>3. UNCHANGED <<store, cache, prior, job, eff>>
    BY <1>3 DEF FenceOld, FlipOld, PromoteTarget
  <2> QED BY <2>2, <2>3 DEF Names
<1> QED BY <1>1, <1>2, <1>3

\* A promotion begins: its old primary is the accepted, the observed or the
\* declared one.
LEMMA NamesInDecisions ==
  ASSUME Typed, ConsiderAnnotation \/ AutomaticFailover
  PROVE  Names' \subseteq Names \cup {Declared, decideCurrentPrimary(obs)}
<1>1. UNCHANGED <<store, cache, prior, eff>>
  BY DEF ConsiderAnnotation, AutomaticFailover
<1>2. \/ ha' = ha /\ job' = job
      \/ \E kind, target :
           BeginPromotion(kind, currentPrimaryForPromotion(ha.primary, obs), target)
      \/ \E kind, target : BeginPromotion(kind, curName, target)
  BY DEF ConsiderAnnotation, AutomaticFailover
<1>3. ASSUME NEW kind, NEW old, NEW target, BeginPromotion(kind, old, target)
      PROVE  job'.old = old /\ ha'.primary = ha.primary
  BY <1>3, SamePrimaryName DEF BeginPromotion, Typed, TypeOK
<1>4. /\ ha'.primary = ha.primary
      /\ job'.old \in {job.old, ha.primary, decideCurrentPrimary(obs), Declared}
  BY <1>2, <1>3 DEF currentPrimaryForPromotion, curName
<1> QED BY <1>1, <1>4 DEF Names

\* The annotation is cleared: the reply is the stored HACluster.
LEMMA NamesInPatches ==
  ASSUME Typed, RejectAnnotation \/ ClearAnnotation
  PROVE  \/ Names' \subseteq Names
         \/ pc = "clear" /\ Names' \subseteq Names \cup {job.target}
<1>1. PICK a \in PatchOutcomes :
        /\ PatchAnnotation(a)
        /\ \/ ha' = ha
           \/ ha' = store'
           \/ pc = "clear" /\ ha' = Completed(store')
  BY DEF RejectAnnotation, ClearAnnotation
<1>2. \/ store' = store /\ cache' = cache
      \/ store' = [store EXCEPT !.annot = NoSite] /\ cache' \in {cache, store'}
  BY <1>1 DEF PatchAnnotation, Write
<1>3. store' \in HACluster /\ store'.primary = store.primary
  BY <1>2, SamePrimaryName, AnnotType DEF Typed, TypeOK, Name
<1>4. cache'.primary \in {cache.primary, store.primary}
  BY <1>2, <1>3
<1>5. Completed(store').primary = job.target
  BY <1>3, SamePrimaryName
<1>6. UNCHANGED <<prior, eff>> /\ job'.old = job.old
  BY DEF RejectAnnotation, ClearAnnotation, Typed, TypeOK, Job
<1> QED BY <1>1, <1>3, <1>4, <1>5, <1>6 DEF Names

\* An automatic failover is over: its target is the primary.
LEMMA NamesInFlip ==
  ASSUME Typed, FlipNew
  PROVE  Names' \subseteq Names \cup {job.target}
<1>1. /\ UNCHANGED <<store, cache, prior, eff>>
      /\ job' = job \/ job' = [job EXCEPT !.done = TRUE]
      /\ \/ ha' = Completed(ha)
         \/ ha' = ha
         \/ ha' = setFailoverInProgress(ha, FALSE)
  BY DEF FlipNew, FailPromotion
<1>2. job'.old = job.old
  BY <1>1 DEF Typed, TypeOK, Job
<1>3. /\ Completed(ha).primary = job.target
      /\ setFailoverInProgress(ha, FALSE).primary = ha.primary
  BY SamePrimaryName DEF Typed, TypeOK
<1> QED BY <1>1, <1>2, <1>3 DEF Names

\* The status update stores the decision, and the topology loop follows it.
LEMMA NamesInUpdate ==
  ASSUME Typed, UpdateStatus
  PROVE  Names' \subseteq Names \cup {NoSite, DecidedPrimary}
<1>1. /\ DropLocals /\ eff' \in {DecidedPrimary, NoSite}
      /\ \/ store' = store /\ cache' = cache
         \/ /\ store' = [store EXCEPT !.primary = DecidedPrimary,
                                      !.cool = ha.cool, !.fip = ha.fip]
            /\ cache' \in {cache, store'}
  BY DEF UpdateStatus, Write, Return
<1>2. store'.primary \in {store.primary, DecidedPrimary}
  BY <1>1 DEF Typed, TypeOK, HACluster
<1>3. cache'.primary \in {cache.primary, store.primary, DecidedPrimary}
  BY <1>1, <1>2
<1>4. ha'.primary = NoSite /\ prior' = NoSite /\ job'.old = NoSite
  BY <1>1 DEF DropLocals, NoHACluster, NewHACluster, NoJob
<1> QED BY <1>1, <1>2, <1>3, <1>4 DEF Names

\* The loop, a crash and everything around the operator add no name.
LEMMA NamesElsewhere ==
  ASSUME Typed,
         \/ ProbeAgain \/ Converge \/ Crash \/ AroundOperator \/ EditShape
         \/ CooldownExpires \/ Sync \/ UNCHANGED vars
  PROVE  Names' \subseteq Names \cup {NoSite}
<1>1. ASSUME Return PROVE /\ ha'.primary = NoSite /\ prior' = NoSite
                          /\ job'.old = NoSite /\ eff' = NoSite
  BY <1>1 DEF Return, DropLocals, NoHACluster, NewHACluster, NoJob
<1>2. CASE ProbeAgain \/ Converge
  <2>1. UNCHANGED <<store, cache>> /\ (Return \/ UNCHANGED <<ha, prior, job, eff>>)
    BY <1>2 DEF ProbeAgain, Converge, NextSite
  <2> QED BY <1>1, <2>1 DEF Names
<1>3. CASE Crash
  <2>1. store' = store /\ cache' = store /\ Return
    BY <1>3 DEF Crash
  <2> QED BY <1>1, <2>1 DEF Names
<1>4. CASE AroundOperator \/ Sync \/ UNCHANGED vars
  BY <1>4 DEF AroundOperator, Sync, vars, local, Names
<1>5. CASE EditShape
  BY <1>5 DEF EditShape, Names
<1>6. CASE CooldownExpires
  <2>1. /\ store'.primary = store.primary /\ cache'.primary = cache.primary
        /\ ha'.primary = ha.primary /\ UNCHANGED <<prior, job, eff>>
    BY <1>6, SamePrimaryName DEF CooldownExpires, Typed, TypeOK
  <2> QED BY <2>1 DEF Names
<1> QED BY <1>2, <1>3, <1>4, <1>5, <1>6

-----------------------------------------------------------------------------
(***************************************************************************)
(* The invariant step by step.                                             *)
(***************************************************************************)
\* Converge fences a primary and rebuilds only a replica.
LEMMA PrimariesStay ==
  ASSUME Typed, ProbeHolds, ByHand, [Next]_vars PROVE Kept
<1>1. CASE Converge
  <2>1. stray = site[SiteAt(pos)].primary
    BY <1>1 DEF Converge, ProbeHolds
  <2>2. site[SiteAt(pos)].primary => SamePrimaries
    BY <1>1, <2>1, PrimaryByConverge DEF FenceStray, ByHand
  <2> QED BY <1>1, <2>2, PrimaryByConverge DEF Kept, SamePrimaries
<1>2. CASE ~Converge
  BY <1>2, KeptByOther DEF ByHand
<1> QED BY <1>1, <1>2

LEMMA NamesNext ==
  ASSUME Typed, Upheld, Kept, [Next]_vars
  PROVE  Names' \subseteq (Primaries \cup {NoSite})'
<1>1. Primaries \subseteq Primaries'
  BY DEF Primaries, Kept
<1>2. decideCurrentPrimary(obs) \in Primaries \cup {NoSite}
  BY DecideType DEF Name, Upheld, Primaries
<1>3. pc \in {"flipNew", "clear"} => job.target \in Primaries
  BY DEF Upheld, TargetPromoted, Primaries
<1>4. CASE UpdateStatus
  <2>1. DecidedPrimary \in Name
    BY DecidedType DEF Typed
  <2>2. /\ prior # NoSite => site[prior].primary
        /\ \A s \in Sites : obs[s].Primary => site[s].primary
        /\ TargetPromoted
    BY DEF Upheld, Names, Primaries
  <2>3. DecidedPrimary \in Primaries \cup {NoSite}
    BY <2>1, <2>2, DecidedIsPrimary DEF Name, Primaries
  <2> QED BY <1>1, <1>4, <2>3, NamesInUpdate DEF Upheld
<1>5. CASE StartReconcile \/ ObserveSite \/ FenceOld \/ FlipOld \/ PromoteTarget
  BY <1>1, <1>5, NamesInCalls DEF Upheld
<1>6. CASE ConsiderAnnotation \/ AutomaticFailover
  BY <1>1, <1>2, <1>6, NamesInDecisions DEF Upheld
<1>7. CASE RejectAnnotation \/ ClearAnnotation
  BY <1>1, <1>3, <1>7, NamesInPatches DEF Upheld
<1>8. CASE FlipNew
  <2>1. pc = "flipNew"
    BY <1>8 DEF FlipNew
  <2> QED BY <1>1, <1>3, <1>8, <2>1, NamesInFlip DEF Upheld
<1>9. CASE \/ ProbeAgain \/ Converge \/ Crash \/ SiteStep \/ HumanStep
           \/ CooldownExpires \/ Sync \/ UNCHANGED vars
  <2>1. Names' \subseteq Names \cup {NoSite}
    BY <1>9, NamesElsewhere, SiteStepShape, HumanShape
  <2> QED BY <1>1, <2>1 DEF Upheld
<1> QED BY <1>4, <1>5, <1>6, <1>7, <1>8, <1>9 DEF Next, Operator

\* Only ObserveSite adds an observation, and it is one of a primary.
LEMMA ObservedNext ==
  ASSUME Typed, Upheld, Kept, [Next]_vars
  PROVE  ({s \in Sites : obs[s].Primary} \cup {Declared} \subseteq Primaries)'
<1>1. Declared \in Primaries'
  BY SpecAssumption DEF Upheld, Kept, Primaries
<1>2. \A s \in Sites : obs[s].Primary => site'[s].primary
  BY DEF Upheld, Kept, Primaries
<1>3. CASE ObserveSite
  <2>1. SiteAt(pos) \in Sites /\ site[SiteAt(pos)] \in Cluster
    BY SiteAtType DEF Typed, TypeOK
  <2>2. Probe(site[SiteAt(pos)]).Primary => site'[SiteAt(pos)].primary
    BY <2>1, ProbeType DEF Kept
  <2>3. \A s \in Sites : obs'[s].Primary => site'[s].primary
    BY <1>2, <1>3, <2>1, <2>2 DEF ObserveSite, Typed, TypeOK, Buffer
  <2> QED BY <1>1, <2>3 DEF Primaries
<1>4. CASE ~ObserveSite
  <2>1. obs' \in {obs, Blank}
    <3>1. CASE Operator
      BY <1>4, <3>1 DEF Operator, StartReconcile, ConsiderAnnotation, RejectAnnotation,
         AutomaticFailover, FenceOld, FlipOld, PromoteTarget, FlipNew, ClearAnnotation,
         UpdateStatus, ProbeAgain, Converge, NextSite, Return, DropLocals
    <3>2. CASE SiteStep \/ HumanStep
      BY <3>2, SiteStepShape, HumanShape DEF AroundOperator, EditShape, local
    <3>3. CASE Crash \/ CooldownExpires \/ Sync \/ UNCHANGED vars
      BY <3>3 DEF Crash, Return, DropLocals, CooldownExpires, Sync, vars, local
    <3> QED BY <3>1, <3>2, <3>3 DEF Next
  <2>2. \A s \in Sites : obs'[s].Primary => site'[s].primary
    BY <1>2, <2>1 DEF Blank, Unreachable
  <2> QED BY <1>1, <2>2 DEF Primaries
<1> QED BY <1>3, <1>4

\* A promotion past its Promote has a primary for a target.
LEMMA TargetNext ==
  ASSUME Typed, TargetPromoted, Kept, [Next]_vars PROVE TargetPromoted'
<1>1. ASSUME job' = job, pc' \in {"flipNew", "clear"} => pc \in {"flipNew", "clear"}
      PROVE  TargetPromoted'
  BY <1>1 DEF TargetPromoted, Kept
<1>2. ASSUME job'.done = FALSE, pc' \notin {"flipNew", "clear"} PROVE TargetPromoted'
  BY <1>2 DEF TargetPromoted
<1>3. CASE PromoteTarget
  <2>1. job' = job /\ pc' \notin {"clear"}
    BY <1>3 DEF PromoteTarget, FailPromotion
  <2> QED BY <1>3, <2>1, PrimaryByPromote DEF TargetPromoted, Kept
<1>4. CASE FlipNew \/ ClearAnnotation
  <2>1. job.target \in Sites /\ site[job.target].primary
    BY <1>4 DEF FlipNew, ClearAnnotation, TargetPromoted
  <2>2. \/ job' = job
        \/ \E x \in BOOLEAN : job' = [job EXCEPT !.done = x]
    BY <1>4 DEF FlipNew, ClearAnnotation
  <2>3. job'.target = job.target
    BY <2>2 DEF Typed, TypeOK, Job
  <2> QED BY <2>1, <2>3 DEF TargetPromoted, Kept
<1>5. CASE ConsiderAnnotation \/ AutomaticFailover
  <2>1. pc' \notin {"flipNew", "clear"}
    BY <1>5 DEF ConsiderAnnotation, AutomaticFailover, BeginPromotion
  <2>2. job' = job \/ \E kind, old, target : BeginPromotion(kind, old, target)
    BY <1>5 DEF ConsiderAnnotation, AutomaticFailover
  <2>3. job' = job \/ job'.done = FALSE
    BY <2>2 DEF BeginPromotion
  <2> QED BY <1>1, <1>2, <2>1, <2>3
<1>6. CASE StartReconcile \/ ObserveSite \/ RejectAnnotation \/ FenceOld \/ FlipOld
  BY <1>1, <1>6 DEF StartReconcile, ObserveSite, RejectAnnotation, FenceOld, FlipOld,
     FailPromotion
<1>7. CASE UpdateStatus \/ ProbeAgain \/ Converge \/ Crash
  <2>1. pc' \in {"idle", "topology", "converge"} /\ job' \in {job, NoJob}
    BY <1>7 DEF UpdateStatus, ProbeAgain, Converge, Crash, NextSite, Return, DropLocals
  <2>2. NoJob.done = FALSE
    BY DEF NoJob
  <2> QED BY <1>1, <1>2, <2>1, <2>2
<1>8. CASE SiteStep \/ HumanStep \/ CooldownExpires \/ Sync \/ UNCHANGED vars
  <2>1. pc' = pc /\ job' = job
    BY <1>8, SiteStepShape, HumanShape
    DEF AroundOperator, EditShape, CooldownExpires, Sync, vars, local
  <2> QED BY <1>1, <2>1
<1> QED BY <1>3, <1>4, <1>5, <1>6, <1>7, <1>8 DEF Next, Operator

LEMMA ProbeHoldsNext ==
  ASSUME Typed, ProbeHolds, ByHand, [Next]_vars PROVE ProbeHolds'
<1> SUFFICES ASSUME pc' = "converge" PROVE stray' = site'[SiteAt(pos')].primary
  BY DEF ProbeHolds, SiteAt
<1>1. SiteAt(pos) \in Sites /\ site[SiteAt(pos)] \in Cluster
  BY SiteAtType DEF Typed, TypeOK
<1>2. CASE ProbeAgain
  <2>1. /\ site' = site /\ pos' = pos
        /\ Probe(site[SiteAt(pos)]).Reachable
        /\ stray' = Probe(site[SiteAt(pos)]).Primary
    BY <1>2 DEF ProbeAgain, Skip, NextSite, Return
  <2>2. Probe(site[SiteAt(pos)]).Primary = site[SiteAt(pos)].primary
    BY <2>1 DEF Probe, Unreachable
  <2> QED BY <2>1, <2>2
<1>3. CASE ~ProbeAgain
  <2>1. ~Operator
    BY <1>3 DEF Operator, StartReconcile, ObserveSite, ConsiderAnnotation,
       BeginPromotion, RejectAnnotation, AutomaticFailover, FenceOld, FlipOld,
       PromoteTarget, FlipNew, FailPromotion, ClearAnnotation, UpdateStatus,
       NextSite, Converge, Return
  <2>2. SiteStep \/ HumanStep \/ CooldownExpires \/ Sync \/ UNCHANGED vars
    BY <2>1 DEF Next, Crash, Return
  <2>3. pc' = pc /\ pos' = pos /\ stray' = stray
    BY <2>2, SiteStepShape, HumanShape
    DEF AroundOperator, EditShape, local, CooldownExpires, Sync, vars
  <2>4. SamePrimaries
    BY <2>1, PrimaryByOperator DEF Operator, ByHand
  <2> QED BY <1>1, <2>3, <2>4 DEF ProbeHolds, SamePrimaries
<1> QED BY <1>2, <1>3

LEMMA UpheldInit == Init => Upheld
<1> SUFFICES ASSUME Init PROVE Upheld
  OBVIOUS
<1>1. store.primary = NoSite
  <2>1. PICK m \in InitModes : store = NewHACluster(TRUE, m)
    BY DEF Init
  <2> QED BY <2>1 DEF NewHACluster
<1>2. Names = {NoSite}
  BY <1>1 DEF Init, Names, NoHACluster, NewHACluster, NoJob
<1>3. Declared \in Primaries /\ \A s \in Sites : ~obs[s].Primary
  BY SpecAssumption DEF Init, Primaries, Blank, Unreachable
<1>4. TargetPromoted /\ ProbeHolds
  BY DEF Init, TargetPromoted, ProbeHolds, NoJob
<1> QED BY <1>2, <1>3, <1>4 DEF Upheld

LEMMA UpheldAlways == ASSUME ByHand PROVE Spec => []Upheld
<1>1. Typed /\ Upheld /\ [Next]_vars => Upheld'
  <2> SUFFICES ASSUME Typed, Upheld, [Next]_vars PROVE Upheld'
    OBVIOUS
  <2>1. Kept
    BY PrimariesStay DEF Upheld
  <2> QED BY <2>1, NamesNext, ObservedNext, TargetNext, ProbeHoldsNext DEF Upheld
<1> QED BY <1>1, UpheldInit, TypedAlways, PTL DEF Spec

-----------------------------------------------------------------------------
(***************************************************************************)
(* Sources and fences.  A replica follows a primary directly, and a fence  *)
(* lies on nobody but a primary.                                           *)
(***************************************************************************)
FencesPrimariesOnly == \A s \in Sites : site[s].fenced => site[s].primary

FollowsPrimary ==
  /\ pc \in {"topology", "converge"} => eff \in Sites
  /\ \A s \in Sites \ Primaries : site[s].source \in Primaries

\* A fence is set by FenceOld or by Converge.
LEMMA FencesByOther ==
  ASSUME Typed, [Next]_vars, ~FenceOld, ~Converge
  PROVE  \A s \in Sites : site'[s].fenced => site[s].fenced
<1>1. site \in [Sites -> Cluster]
  BY DEF Typed, TypeOK
<1>2. CASE FlipOld \/ PromoteTarget \/ FlipNew
  <2>1. job.old \in Sites /\ job.target \in Sites
    BY <1>2 DEF Typed, JobOK, Promoting, FlipOld, PromoteTarget, FlipNew
  <2>2. \/ site' = site
        \/ site' = [site EXCEPT ![job.old] =
                                 FlipCiliumService(site[job.old], "remote")]
        \/ site' = [site EXCEPT ![job.target] = Promote(site[job.target])]
        \/ site' = [site EXCEPT ![job.target] =
                                 FlipCiliumService(site[job.target], "local")]
    BY <1>2 DEF FlipOld, PromoteTarget, FlipNew
  <2> QED BY <1>1, <2>1, <2>2 DEF Promote, FlipCiliumService, Cluster
<1>3. CASE \/ StartReconcile \/ ObserveSite \/ ConsiderAnnotation
           \/ RejectAnnotation \/ AutomaticFailover \/ ClearAnnotation
           \/ UpdateStatus \/ ProbeAgain \/ Crash \/ CooldownExpires \/ Sync
           \/ UNCHANGED vars
  <2>1. site' = site
    BY <1>3 DEF StartReconcile, ObserveSite, ConsiderAnnotation, RejectAnnotation,
       AutomaticFailover, ClearAnnotation, UpdateStatus, ProbeAgain, Skip, Crash,
       CooldownExpires, Sync, vars
  <2> QED BY <2>1
<1>4. ASSUME NEW s \in Sites,
             \/ LoseReady(s) \/ LoseReach(s) \/ LoseCluster(s)
             \/ RegainReach(s) \/ RegainReady(s) \/ FenceTakesEffect(s)
             \/ Unfence(s) \/ RestoreCluster(s) \/ ConvertCluster(s)
      PROVE  \A t \in Sites : site'[t].fenced => site[t].fenced
  <2>1. site[s] \in Cluster
    BY <1>1
  <2>2. CASE LoseReady(s) \/ LoseReach(s) \/ RegainReach(s)
    BY <1>1, <2>1, <2>2 DEF LoseReady, LoseReach, RegainReach, SiteChange, Cluster
  <2>3. CASE RegainReady(s) \/ FenceTakesEffect(s)
    BY <1>1, <2>1, <2>3 DEF RegainReady, FenceTakesEffect, SiteChange, Cluster
  <2>4. CASE Unfence(s) \/ RestoreCluster(s)
    BY <1>1, <2>1, <2>4 DEF Unfence, RestoreCluster, SiteChange, Cluster
  <2>5. CASE LoseCluster(s)
    BY <1>1, <2>1, <2>5 DEF LoseCluster, SiteChange, Cluster
  <2>6. CASE ConvertCluster(s)
    BY <1>1, <2>1, <2>6 DEF ConvertCluster, SiteChange, Cluster
  <2> QED BY <1>4, <2>2, <2>3, <2>4, <2>5, <2>6
<1>5. CASE SiteStep
  BY <1>4, <1>5 DEF SiteStep
<1>6. CASE HumanStep
  <2>1. CASE \E s \in Sites : Unfence(s) \/ RestoreCluster(s) \/ ConvertCluster(s)
    BY <1>4, <2>1
  <2>2. CASE \/ \E s \in Sites : Annotate(s)
             \/ SwitchMode \/ DeleteHACluster \/ CreateHACluster
    BY <2>2, EditsShape DEF EditShape
  <2> QED BY <1>6, <2>1, <2>2 DEF HumanStep
<1> QED BY <1>2, <1>3, <1>5, <1>6 DEF Next, Operator

\* Reconcile fences a site it remembers as a primary, or one it just probed.
LEMMA FencesNext ==
  ASSUME Typed, Upheld, FencesPrimariesOnly, ByHand, [Next]_vars
  PROVE  FencesPrimariesOnly'
<1>1. Kept /\ site \in [Sites -> Cluster]
  BY PrimariesStay DEF Upheld, Typed, TypeOK
<1>2. CASE FenceOld
  <2>1. job.old \in Sites /\ site[job.old].primary
    <3>1. job.old \in Sites
      BY <1>2 DEF FenceOld, Typed, JobOK, Promoting
    <3> QED BY <3>1, NoSiteAssumption DEF Upheld, Names, Primaries
  <2>2. site' = site \/ site' = [site EXCEPT ![job.old] = Fence(site[job.old])]
    BY <1>2 DEF FenceOld
  <2> QED BY <1>1, <2>1, <2>2 DEF FencesPrimariesOnly, Kept
<1>3. CASE Converge
  <2> DEFINE r == SiteAt(pos)
  <2>1. r \in Sites /\ stray = site[r].primary
    BY <1>3, SiteAtType DEF Converge, Upheld, ProbeHolds, Typed, TypeOK
  <2>2. \/ site' = site
        \/ stray /\ site' = [site EXCEPT ![r] = Fence(site[r])]
        \/ ~stray /\ site' = [site EXCEPT ![r] = Reconfigure(site[r], eff)]
    BY <1>3 DEF Converge, FenceStray, ByHand
  <2>3. \A s \in Sites \ {r} : site'[s] = site[s]
    BY <1>1, <2>2
  <2>4. site'[r].fenced => site'[r].primary
    <3>1. CASE stray
      BY <1>1, <2>1, <3>1 DEF Kept
    <3>2. CASE ~stray
      <4>1. ~site[r].fenced
        BY <2>1, <3>2 DEF FencesPrimariesOnly
      <4>2. site'[r] = site[r] \/ site'[r] = Reconfigure(site[r], eff)
        BY <1>1, <2>1, <2>2, <3>2
      <4> QED BY <1>1, <2>1, <4>1, <4>2 DEF Reconfigure, Cluster
    <3> QED BY <3>1, <3>2
  <2> QED BY <2>3, <2>4 DEF FencesPrimariesOnly
<1>4. CASE ~FenceOld /\ ~Converge
  BY <1>1, <1>4, FencesByOther DEF FencesPrimariesOnly, Kept
<1> QED BY <1>2, <1>3, <1>4

\* The loop knows a primary for all the sites it repoints.
LEMMA EffIsSite ==
  ASSUME Typed, FollowsPrimary, [Next]_vars, pc' \in {"topology", "converge"}
  PROVE  eff' \in Sites
<1>1. CASE UpdateStatus
  <2>1. eff' = DecidedPrimary /\ replicationEndpointFor(DecidedPrimary)
    BY <1>1 DEF UpdateStatus, Return
  <2> QED BY <2>1, ReconcilerAssumption DEF replicationEndpointFor
<1>2. CASE ProbeAgain \/ Converge
  BY <1>2 DEF ProbeAgain, Converge, NextSite, Return, FollowsPrimary
<1>3. CASE SiteStep \/ HumanStep \/ CooldownExpires \/ Sync \/ UNCHANGED vars
  BY <1>3, SiteStepShape, HumanShape
  DEF AroundOperator, EditShape, CooldownExpires, Sync, vars, local, FollowsPrimary
<1>4. CASE Crash \/ StartReconcile \/ ObserveSite \/ ConsiderAnnotation
           \/ RejectAnnotation \/ AutomaticFailover
  BY <1>4 DEF Crash, Return, StartReconcile, ObserveSite, ConsiderAnnotation,
     RejectAnnotation, AutomaticFailover, BeginPromotion
<1>5. CASE FenceOld \/ FlipOld \/ PromoteTarget \/ FlipNew \/ ClearAnnotation
  BY <1>5 DEF FenceOld, FlipOld, PromoteTarget, FlipNew, ClearAnnotation,
     FailPromotion
<1> QED BY <1>1, <1>2, <1>3, <1>4, <1>5 DEF Next, Operator

LEMMA FollowsNext ==
  ASSUME Typed, Upheld, FollowsPrimary, ByHand, [Next]_vars
  PROVE  FollowsPrimary'
<1>1. Kept /\ Primaries \subseteq Primaries' /\ site \in [Sites -> Cluster]
  BY PrimariesStay DEF Upheld, Typed, TypeOK, Kept, Primaries
<1>2. CASE Converge
  <2> DEFINE r == SiteAt(pos)
  <2>1. r \in Sites /\ eff \in Primaries
    BY <1>2, SiteAtType, NoSiteAssumption
    DEF Converge, FollowsPrimary, Upheld, Names, Typed, TypeOK
  <2>2. \/ site' = site
        \/ site' = [site EXCEPT ![r] = Fence(site[r])]
        \/ site' = [site EXCEPT ![r] = Reconfigure(site[r], eff)]
    BY <1>2 DEF Converge
  <2>3. \A s \in Sites : site'[s].source \in {site[s].source, eff}
    <3>1. site[r] \in Cluster
      BY <1>1, <2>1
    <3>2. \A s \in Sites \ {r} : site'[s] = site[s]
      BY <1>1, <2>2
    <3>3. site'[r] \in {site[r], Fence(site[r]), Reconfigure(site[r], eff)}
      BY <1>1, <2>1, <2>2
    <3>4. site'[r].source \in {site[r].source, eff}
      BY <3>1, <3>3 DEF Fence, Reconfigure, Cluster
    <3> QED BY <3>2, <3>4
  <2>4. \A s \in Sites \ Primaries' : site'[s].source \in Primaries'
    BY <1>1, <2>1, <2>3 DEF FollowsPrimary
  <2> QED BY <2>4, EffIsSite DEF FollowsPrimary
<1>3. CASE ~Converge
  <2>1. \A s \in Sites \ Primaries' : site'[s].source \in Primaries'
    BY <1>1, <1>3, SourcesByOther DEF SameSources, FollowsPrimary
  <2> QED BY <2>1, EffIsSite DEF FollowsPrimary
<1> QED BY <1>2, <1>3

(***************************************************************************)
(* Under rejoinPolicy Manual Reconcile fences primaries only, whatever it  *)
(* reads stale, loses or restarts: no replica is ever fenced, so none is   *)
(* left that cannot serve.  Under AutoReplica that happens (FenceStays),   *)
(* because Reconfigure makes a fenced primary a replica.                   *)
(***************************************************************************)
THEOREM ManualFencesPrimaries ==
  ASSUME ByHand PROVE Spec => []FencesPrimariesOnly
<1>1. Init => FencesPrimariesOnly
  BY DEF Init, FencesPrimariesOnly
<1>2. Typed /\ Upheld /\ FencesPrimariesOnly /\ [Next]_vars => FencesPrimariesOnly'
  BY FencesNext
<1> QED BY <1>1, <1>2, TypedAlways, UpheldAlways, PTL DEF Spec

(***************************************************************************)
(* Under rejoinPolicy Manual the status names a primary also when          *)
(* Reconcile reads the HACluster from a cache that lags: StaleStatus needs *)
(* AutoReplica.                                                            *)
(***************************************************************************)
THEOREM ManualAcceptsPrimary ==
  ASSUME ByHand PROVE Spec => []AcceptedIsPrimary
<1>1. Upheld => AcceptedIsPrimary
  BY DEF Upheld, Names, Primaries, AcceptedIsPrimary
<1> QED BY <1>1, UpheldAlways, PTL

(***************************************************************************)
(* Under rejoinPolicy Manual replication never runs in a circle either,    *)
(* with a cache of any age: the source reconcileReplicaTopology writes is  *)
(* a primary and remains one.                                              *)
(***************************************************************************)
THEOREM ManualSourcesReachPrimary ==
  ASSUME ByHand PROVE Spec => []SourcesReachPrimary
<1>1. ASSUME Init PROVE FollowsPrimary
  <2>1. /\ pc = "idle" /\ Declared \in Sites
        /\ \A s \in Sites : site[s].primary = (s = Declared)
        /\ \A s \in Sites \ {Declared} : site[s].source = Declared
    BY <1>1, SpecAssumption DEF Init
  <2> QED BY <2>1 DEF FollowsPrimary, Primaries
<1>2. Typed /\ Upheld /\ FollowsPrimary /\ [Next]_vars => FollowsPrimary'
  BY FollowsNext
<1>3. FollowsPrimary => SourcesReachPrimary
  <2> SUFFICES ASSUME FollowsPrimary,
                      NEW S \in SUBSET {s \in Sites : ~site[s].primary}, S # {}
               PROVE  \E s \in S : site[s].source \in Sites \ S
    BY DEF SourcesReachPrimary
  <2>1. PICK s \in S : TRUE
    OBVIOUS
  <2>2. site[s].source \in Primaries
    BY DEF FollowsPrimary, Primaries
  <2> QED BY <2>2 DEF Primaries
<1> QED BY <1>1, <1>2, <1>3, TypedAlways, UpheldAlways, PTL DEF Spec
=============================================================================
