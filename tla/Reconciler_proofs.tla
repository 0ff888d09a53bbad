-------------------------- MODULE Reconciler_proofs --------------------------
(***************************************************************************)
(* Proofs about Reconciler, for every number of sites, every threshold and *)
(* every bound on the faults.                                              *)
(***************************************************************************)
EXTENDS Reconciler, TLAPS

Name == Sites \cup {NoSite}

-----------------------------------------------------------------------------
(***************************************************************************)
(* What the operators of the model return.                                 *)
(***************************************************************************)

\* Probe reports a SiteHealth; a primary is reported only where there is one.
LEMMA ProbeType ==
  ASSUME NEW c \in Cluster
  PROVE  /\ Probe(c) \in SiteHealth
         /\ Probe(c).Primary => c.primary
         /\ Probe(c).Reachable => (Probe(c).Primary <=> c.primary)
  BY DEF Probe, Cluster, SiteHealth, Unreachable

\* The writes of internal/promotion keep the shape of a Cluster, and each
\* changes nothing but its own field.
LEMMA WriteTypes ==
  ASSUME NEW c \in Cluster, NEW n \in Name, NEW r \in {"local", "remote"}
  PROVE  /\ Fence(c) \in Cluster
         /\ Promote(c) \in Cluster
         /\ Reconfigure(c, n) \in Cluster
         /\ FlipCiliumService(c, r) \in Cluster
  BY DEF Fence, Promote, Reconfigure, FlipCiliumService, Cluster, Name

\* Every position of the loops over the sites names a site.
LEMMA SiteAtType ==
  ASSUME NEW i \in 1 .. NumSites
  PROVE  SiteAt(i) \in Sites
<1>1. CASE i = 1
  BY <1>1, SpecAssumption DEF SiteAt
<1>2. CASE i # 1
  <2>1. i - 1 \in 1 .. Len(Replicas)
    BY <1>2, SpecAssumption DEF NumSites
  <2>2. Replicas[i - 1] \in Sites
    BY <2>1, SpecAssumption
  <2> QED BY <1>2, <2>2 DEF SiteAt
<1> QED BY <1>1, <1>2

\* decideCurrentPrimary names a site observed as a primary, or none.
LEMMA DecideType ==
  ASSUME NEW o
  PROVE  /\ decideCurrentPrimary(o) \in Name
         /\ decideCurrentPrimary(o) # NoSite =>
              o[decideCurrentPrimary(o)].Primary
<1> DEFINE cands == primaryReadyCandidates(o)
<1>1. cands \subseteq Sites
  BY DEF primaryReadyCandidates
<1>2. CASE cands = {} \/ detectSplitBrain(o)
  BY <1>2 DEF decideCurrentPrimary, Name
<1>3. CASE ~(cands = {} \/ detectSplitBrain(o))
  <2>1. decideCurrentPrimary(o) = CHOOSE s \in cands : TRUE
    BY <1>3 DEF decideCurrentPrimary
  <2>2. decideCurrentPrimary(o) \in cands
    BY <1>3, <2>1
  <2> QED BY <1>1, <2>2 DEF Name, primaryReadyCandidates, ReadyPrimary
<1> QED BY <1>2, <1>3

\* currentPrimaryForPromotion names a site.
LEMMA OldPrimaryType ==
  ASSUME NEW p \in Name, NEW o
  PROVE  currentPrimaryForPromotion(p, o) \in Sites
  BY DecideType, SpecAssumption DEF currentPrimaryForPromotion, Name

\* chooseTarget returns healthy replicas other than the failed primary.
LEMMA TargetType ==
  ASSUME NEW l, NEW o, NEW p, NEW t \in chooseTarget(l, o, p)
  PROVE  t \in Sites /\ t # p /\ HealthyReplica(o[t])
<1>1. PICK i \in 1 .. Len(Replicas) : t = Replicas[i] /\ Eligible(i, o, p)
  BY DEF chooseTarget
<1>2. Replicas[i] \in Sites
  BY SpecAssumption
<1> QED BY <1>1, <1>2 DEF Eligible

\* The updates of an HACluster keep its shape.
LEMMA NewHAClusterType ==
  ASSUME NEW x \in BOOLEAN, NEW m \in {"Manual", "Automatic"}
  PROVE  NewHACluster(x, m) \in HACluster
  BY DEF HACluster, NewHACluster

LEMMA FipType ==
  ASSUME NEW h \in HACluster, NEW x \in BOOLEAN
  PROVE  setFailoverInProgress(h, x) \in HACluster
  BY DEF HACluster, setFailoverInProgress

LEMMA CoolType ==
  ASSUME NEW h \in HACluster
  PROVE  [h EXCEPT !.cool = FALSE] \in HACluster
  BY DEF HACluster

LEMMA AnnotType ==
  ASSUME NEW h \in HACluster, NEW n \in Name
  PROVE  [h EXCEPT !.annot = n] \in HACluster
  BY DEF HACluster, Name

LEMMA ModeType ==
  ASSUME NEW h \in HACluster, NEW m \in {"Manual", "Automatic"}
  PROVE  [h EXCEPT !.mode = m] \in HACluster
  BY DEF HACluster

LEMMA StatusType ==
  ASSUME NEW h \in HACluster, NEW n \in Name, NEW x \in BOOLEAN, NEW y \in BOOLEAN
  PROVE  /\ [h EXCEPT !.primary = n, !.cool = x, !.fip = y] \in HACluster
         /\ [h EXCEPT !.primary = n, !.cool = x, !.fip = y].primary = n
  BY DEF HACluster, Name

\* Locals that have gone out of scope have their types.
LEMMA DropLocalsType ==
  ASSUME DropLocals
  PROVE  /\ ha' \in HACluster /\ held' \in BOOLEAN /\ prior' \in Name
         /\ obs' \in Buffer /\ job' \in Job /\ promoteErr' \in BOOLEAN
  BY ReconcilerAssumption
  DEF DropLocals, HACluster, NoHACluster, NewHACluster, Buffer, Blank, Unreachable, SiteHealth,
      Job, NoJob, Name

LEMMA ReturnType ==
  ASSUME Return
  PROVE  /\ ha' \in HACluster /\ held' \in BOOLEAN /\ prior' \in Name
         /\ obs' \in Buffer /\ job' \in Job /\ promoteErr' \in BOOLEAN
         /\ pc' \in Steps /\ pos' \in 1 .. NumSites /\ eff' \in Name
         /\ stray' \in BOOLEAN /\ touched' \subseteq Sites
<1>1. 1 \in 1 .. NumSites
  BY SpecAssumption DEF NumSites
<1> QED BY <1>1, DropLocalsType DEF Return, Steps, Name

\* Charge and Bump stay within the types of the counters.
LEMMA ChargeType ==
  ASSUME used \in Usage, NEW x, NEW a, Charge(x, a)
  PROVE  used' \in Usage
  BY DEF Charge, Usage

LEMMA BumpType ==
  ASSUME NEW n \in 0 .. Threshold
  PROVE  Bump(n) \in 0 .. Threshold
  BY ReconcilerAssumption DEF Bump

-----------------------------------------------------------------------------
(***************************************************************************)
(* Type correctness.  JobOK says that a promotion under way knows two      *)
(* different sites; without it site[job.old] and site[job.target] have no  *)
(* meaning.                                                                *)
(***************************************************************************)
Promoting == {"fence", "flipOld", "promote", "flipNew", "clear"}

\* The steps of Reconcile up to the status update, during which it holds ha.
Handling == {"observe", "annotation", "reject", "auto", "fence", "flipOld",
             "promote", "flipNew", "clear", "status"}

JobOK ==
  pc \in Promoting =>
    job.old \in Sites /\ job.target \in Sites /\ job.old # job.target

Typed == TypeOK /\ JobOK

LEMMA TypedInit == Init => Typed
<1> SUFFICES ASSUME Init PROVE Typed
  OBVIOUS
<1>1. site \in [Sites -> Cluster]
  BY SpecAssumption DEF Init, Cluster
<1>2. /\ store \in HACluster /\ cache \in HACluster /\ ha \in HACluster
      /\ job \in Job /\ obs \in Buffer /\ used \in Usage
  <2>1. PICK m \in {"Manual", "Automatic"} : store = NewHACluster(TRUE, m)
    BY ReconcilerAssumption DEF Init
  <2>2. /\ store \in HACluster /\ cache \in HACluster /\ ha \in HACluster
    BY <2>1, NewHAClusterType DEF Init, NoHACluster
  <2> QED BY <2>2
    DEF Init, Job, NoJob, Buffer, Blank, Unreachable, SiteHealth, Usage
<1>3. /\ failCount \in 0 .. Threshold /\ streak \in 0 .. Threshold
      /\ pos \in 1 .. NumSites
  BY ReconcilerAssumption, SpecAssumption DEF Init, NumSites
<1>4. JobOK
  BY DEF Init, JobOK, Promoting
<1> QED BY <1>1, <1>2, <1>3, <1>4 DEF Init, Typed, TypeOK, Steps

\* The steps that read and decide.
LEMMA TypedStart ==
  ASSUME Typed, StartReconcile PROVE Typed'
<1>1. held' \in BOOLEAN /\ prior' \in Sites \cup {NoSite}
  BY DEF Typed, TypeOK, StartReconcile, HACluster
<1> QED BY <1>1 DEF Typed, TypeOK, JobOK, Promoting, StartReconcile, Steps, history

LEMMA TypedObserve ==
  ASSUME Typed, ObserveSite PROVE Typed'
<1>1. SiteAt(pos) \in Sites
  BY SiteAtType DEF Typed, TypeOK
<1>2. obs' \in Buffer
  BY <1>1, ProbeType DEF Typed, TypeOK, ObserveSite, Buffer
<1>3. pos' \in 1 .. NumSites /\ pc' \in {"observe", "annotation"}
  BY SpecAssumption DEF Typed, TypeOK, ObserveSite, NumSites
<1> QED BY <1>2, <1>3
  DEF Typed, TypeOK, JobOK, Promoting, ObserveSite, Steps, history

LEMMA BeginPromotionType ==
  ASSUME Typed, NEW k \in {"manual", "auto"}, NEW o \in Sites, NEW t \in Sites,
         BeginPromotion(k, o, t)
  PROVE  /\ job' \in Job /\ pc' \in Steps /\ promoteErr' \in BOOLEAN
         /\ ha' \in HACluster /\ JobOK'
<1>1. ha' \in HACluster
  BY FipType DEF Typed, TypeOK, BeginPromotion
<1>2. job' \in Job /\ pc' \in Steps /\ promoteErr' \in BOOLEAN
  BY DEF BeginPromotion, Job, Steps
<1>3. JobOK'
  BY DEF BeginPromotion, JobOK, Promoting
<1> QED BY <1>1, <1>2, <1>3

\* The site whose health decides about an automatic failover is a site.
LEMMA CurNameType ==
  ASSUME Typed PROVE curName \in Sites
  BY SpecAssumption DEF Typed, TypeOK, curName, HACluster

LEMMA TypedConsider ==
  ASSUME Typed, ConsiderAnnotation PROVE Typed'
<1>1. streak' \in 0 .. Threshold
  BY BumpType, ReconcilerAssumption
  DEF Typed, TypeOK, ConsiderAnnotation, CountStreak
<1>2. /\ job' \in Job /\ pc' \in Steps /\ promoteErr' \in BOOLEAN
      /\ ha' \in HACluster /\ JobOK'
  <2>1. CASE UNCHANGED <<ha, job, promoteErr>> /\ pc' \in {"auto", "reject"}
    BY <2>1 DEF Typed, TypeOK, JobOK, Promoting, Steps
  <2>2. CASE /\ ha.annot # NoSite
             /\ BeginPromotion("manual",
                  currentPrimaryForPromotion(ha.primary, obs), ha.annot)
    <3>1. ha.annot \in Sites /\ ha.primary \in Name
      BY <2>2 DEF Typed, TypeOK, HACluster, Name
    <3>2. currentPrimaryForPromotion(ha.primary, obs) \in Sites
      BY <3>1, OldPrimaryType
    <3> QED BY <2>2, <3>1, <3>2, BeginPromotionType
  <2> QED BY <2>1, <2>2 DEF ConsiderAnnotation
<1> QED BY <1>1, <1>2 DEF Typed, TypeOK, ConsiderAnnotation

LEMMA TypedAuto ==
  ASSUME Typed, AutomaticFailover PROVE Typed'
<1>1. failCount' \in 0 .. Threshold
  BY BumpType, ReconcilerAssumption DEF Typed, TypeOK, AutomaticFailover
<1>2. /\ job' \in Job /\ pc' \in Steps /\ promoteErr' \in BOOLEAN
      /\ ha' \in HACluster /\ JobOK'
  <2>1. CASE UNCHANGED <<ha, job, promoteErr>> /\ pc' = "status"
    BY <2>1 DEF Typed, TypeOK, JobOK, Promoting, Steps
  <2>2. CASE \E t \in chooseTarget(Policy, obs, curName) :
               BeginPromotion("auto", curName, t)
    <3>1. PICK t \in chooseTarget(Policy, obs, curName) :
            BeginPromotion("auto", curName, t)
      BY <2>2
    <3>2. t \in Sites
      BY TargetType
    <3> QED BY <3>1, <3>2, CurNameType, BeginPromotionType
  <2> QED BY <2>1, <2>2 DEF AutomaticFailover
<1> QED BY <1>1, <1>2 DEF Typed, TypeOK, AutomaticFailover, history

\* The calls of runPromotion.
LEMMA FailPromotionType ==
  ASSUME Typed, FailPromotion
  PROVE  pc' = "status" /\ promoteErr' = TRUE /\ ha' \in HACluster
  BY FipType DEF FailPromotion, Typed, TypeOK

LEMMA TypedFenceOld ==
  ASSUME Typed, FenceOld PROVE Typed'
<1>1. job.old \in Sites /\ job.target \in Sites /\ job.old # job.target
  BY DEF Typed, JobOK, Promoting, FenceOld
<1>2. \/ site' = site
      \/ site' = [site EXCEPT ![job.old] = Fence(site[job.old])]
  BY DEF FenceOld
<1>3. site' \in [Sites -> Cluster]
  BY <1>1, <1>2, WriteTypes DEF Typed, TypeOK, Name
<1>4. used' \in Usage
  BY ChargeType DEF Typed, TypeOK, FenceOld
<1>5. pc' \in {"flipOld", "status"} /\ promoteErr' \in BOOLEAN /\ ha' \in HACluster
  BY FailPromotionType DEF Typed, TypeOK, FenceOld
<1> QED BY <1>1, <1>3, <1>4, <1>5
  DEF Typed, TypeOK, JobOK, Promoting, Steps, FenceOld

LEMMA TypedFlipOld ==
  ASSUME Typed, FlipOld PROVE Typed'
<1>1. job.old \in Sites /\ job.target \in Sites /\ job.old # job.target
  BY DEF Typed, JobOK, Promoting, FlipOld
<1>2. \/ site' = site
      \/ site' = [site EXCEPT ![job.old] = FlipCiliumService(site[job.old], "remote")]
  BY DEF FlipOld
<1>3. site' \in [Sites -> Cluster]
  BY <1>1, <1>2, WriteTypes DEF Typed, TypeOK, Name
<1>4. used' \in Usage
  BY ChargeType DEF Typed, TypeOK, FlipOld
<1>5. pc' \in {"promote", "status"} /\ promoteErr' \in BOOLEAN /\ ha' \in HACluster
  BY FailPromotionType DEF Typed, TypeOK, FlipOld
<1> QED BY <1>1, <1>3, <1>4, <1>5
  DEF Typed, TypeOK, JobOK, Promoting, Steps, FlipOld, history

LEMMA TypedPromoteTarget ==
  ASSUME Typed, PromoteTarget PROVE Typed'
<1>1. job.old \in Sites /\ job.target \in Sites /\ job.old # job.target
  BY DEF Typed, JobOK, Promoting, PromoteTarget
<1>2. \/ site' = site
      \/ site' = [site EXCEPT ![job.target] = Promote(site[job.target])]
  BY DEF PromoteTarget
<1>3. site' \in [Sites -> Cluster]
  BY <1>1, <1>2, WriteTypes DEF Typed, TypeOK, Name
<1>4. used' \in Usage
  BY ChargeType DEF Typed, TypeOK, PromoteTarget
<1>5. pc' \in {"flipNew", "status"} /\ promoteErr' \in BOOLEAN /\ ha' \in HACluster
  BY FailPromotionType DEF Typed, TypeOK, PromoteTarget
<1> QED BY <1>1, <1>3, <1>4, <1>5
  DEF Typed, TypeOK, JobOK, Promoting, Steps, PromoteTarget, history

LEMMA TypedFlipNew ==
  ASSUME Typed, FlipNew PROVE Typed'
<1>1. job.old \in Sites /\ job.target \in Sites /\ job.old # job.target
  BY DEF Typed, JobOK, Promoting, FlipNew
<1>2. \/ site' = site
      \/ site' = [site EXCEPT ![job.target] =
                               FlipCiliumService(site[job.target], "local")]
  BY DEF FlipNew
<1>3. site' \in [Sites -> Cluster]
  BY <1>1, <1>2, WriteTypes DEF Typed, TypeOK, Name
<1>4. used' \in Usage
  BY ChargeType DEF Typed, TypeOK, FlipNew
<1>5. Completed(ha) \in HACluster
  BY <1>1, StatusType DEF Completed, Typed, TypeOK, Name
<1>6. /\ pc' \in {"clear", "status"} /\ promoteErr' \in BOOLEAN /\ ha' \in HACluster
  BY <1>5, FailPromotionType DEF Typed, TypeOK, FlipNew
<1>7. recent' \in BOOLEAN /\ failCount' \in 0 .. Threshold
  BY ReconcilerAssumption DEF Typed, TypeOK, FlipNew
<1>8. job' \in Job /\ job'.old = job.old /\ job'.target = job.target
  <2>1. job' = job \/ job' = [job EXCEPT !.done = TRUE]
    BY DEF FlipNew
  <2> QED BY <2>1 DEF Typed, TypeOK, Job
<1> QED BY <1>1, <1>3, <1>4, <1>6, <1>7, <1>8
  DEF Typed, TypeOK, JobOK, Promoting, Steps, FlipNew

\* The writes of the HACluster.
LEMMA PatchType ==
  ASSUME Typed, NEW a \in PatchOutcomes, PatchAnnotation(a)
  PROVE  /\ used' \in Usage /\ store' \in HACluster /\ cache' \in HACluster
         /\ held' \in BOOLEAN
<1>1. used' \in Usage
  BY ChargeType DEF Typed, TypeOK, PatchAnnotation
<1>2. [store EXCEPT !.annot = NoSite] \in HACluster
  BY AnnotType DEF Typed, TypeOK, Name
<1> QED BY <1>1, <1>2 DEF Typed, TypeOK, PatchAnnotation, Write

LEMMA TypedReject ==
  ASSUME Typed, RejectAnnotation PROVE Typed'
<1>1. PICK a \in PatchOutcomes :
        /\ PatchAnnotation(a)
        /\ ha' = IF a = "ok" THEN store' ELSE ha
        /\ pc' = IF a = "ok" THEN "auto" ELSE "status"
        /\ promoteErr' = (a # "ok")
  BY DEF RejectAnnotation
<1>2. /\ used' \in Usage /\ store' \in HACluster /\ cache' \in HACluster
      /\ held' \in BOOLEAN
  BY <1>1, PatchType
<1>3. ha' \in HACluster /\ pc' \in {"auto", "status"} /\ promoteErr' \in BOOLEAN
  BY <1>1, <1>2 DEF Typed, TypeOK
<1> QED BY <1>2, <1>3
  DEF Typed, TypeOK, JobOK, Promoting, Steps, RejectAnnotation, history

LEMMA TypedClear ==
  ASSUME Typed, ClearAnnotation PROVE Typed'
<1>1. PICK a \in PatchOutcomes :
        /\ PatchAnnotation(a)
        /\ ha' = IF a = "ok" THEN Completed(store') ELSE ha
        /\ pc' = IF a = "ok" THEN "auto" ELSE "status"
        /\ job' = [job EXCEPT !.done = (a = "ok")]
        /\ promoteErr' = (a # "ok")
  BY DEF ClearAnnotation
<1>2. /\ used' \in Usage /\ store' \in HACluster /\ cache' \in HACluster
      /\ held' \in BOOLEAN
  BY <1>1, PatchType
<1>3. Completed(store') \in HACluster
  BY <1>2, StatusType DEF Completed, Typed, TypeOK, JobOK, Promoting, Name,
     ClearAnnotation
<1>4. ha' \in HACluster /\ pc' \in {"auto", "status"} /\ promoteErr' \in BOOLEAN
  BY <1>1, <1>3 DEF Typed, TypeOK
<1>5. job' \in Job
  BY <1>1 DEF Typed, TypeOK, Job
<1> QED BY <1>2, <1>4, <1>5
  DEF Typed, TypeOK, JobOK, Promoting, Steps, ClearAnnotation, history

\* The status names an observed primary or keeps the prior one.
LEMMA DecidedType ==
  ASSUME Typed PROVE DecidedPrimary \in Name
  BY DecideType DEF DecidedPrimary, Typed, TypeOK, Name

LEMMA TypedUpdate ==
  ASSUME Typed, UpdateStatus PROVE Typed'
<1>1. used' \in Usage
  BY ChargeType DEF Typed, TypeOK, UpdateStatus
<1>2. [store EXCEPT !.primary = DecidedPrimary, !.cool = ha.cool, !.fip = ha.fip]
        \in HACluster
  <2>1. ha.cool \in BOOLEAN /\ ha.fip \in BOOLEAN
    BY DEF Typed, TypeOK, HACluster
  <2> QED BY <2>1, DecidedType, StatusType DEF Typed, TypeOK
<1>3. store' \in HACluster /\ cache' \in HACluster
  BY <1>2 DEF Typed, TypeOK, UpdateStatus, Write
<1>4. \/ Return
      \/ /\ pc' = "topology" /\ eff' = DecidedPrimary /\ DropLocals
         /\ UNCHANGED <<pos, stray, touched>>
  BY DEF UpdateStatus
<1>5. CASE Return
  BY <1>1, <1>3, <1>5, ReturnType
  DEF Return, Typed, TypeOK, JobOK, Promoting, UpdateStatus, Name
<1>6. CASE /\ pc' = "topology" /\ eff' = DecidedPrimary /\ DropLocals
           /\ UNCHANGED <<pos, stray, touched>>
  BY <1>1, <1>3, <1>6, DropLocalsType, DecidedType
  DEF Typed, TypeOK, JobOK, Promoting, Steps, UpdateStatus, Name
<1> QED BY <1>4, <1>5, <1>6

\* The topology loop.
LEMMA NextSiteType ==
  ASSUME Typed, NextSite
  PROVE  /\ ha' \in HACluster /\ held' \in BOOLEAN /\ prior' \in Name
         /\ obs' \in Buffer /\ job' \in Job /\ promoteErr' \in BOOLEAN
         /\ pc' \in {"idle", "topology"} /\ pos' \in 1 .. NumSites /\ eff' \in Name
         /\ stray' \in BOOLEAN /\ touched' \subseteq Sites
<1>1. CASE pos = NumSites
  BY <1>1, ReturnType DEF NextSite, Return
<1>2. CASE pos # NumSites
  <2>1. pos' \in 1 .. NumSites
    BY <1>2, SpecAssumption DEF NextSite, Typed, TypeOK, NumSites
  <2> QED BY <1>2, <2>1 DEF NextSite, Typed, TypeOK, Name
<1> QED BY <1>1, <1>2

LEMMA TypedProbeAgain ==
  ASSUME Typed, ProbeAgain PROVE Typed'
<1>1. CASE NextSite
  BY <1>1, NextSiteType
  DEF ProbeAgain, Skip, Typed, TypeOK, JobOK, Promoting, Steps, Name
<1>2. CASE ~NextSite
  <2>1. SiteAt(pos) \in Sites
    BY SiteAtType DEF Typed, TypeOK
  <2>2. Probe(site[SiteAt(pos)]).Primary \in BOOLEAN
    BY <2>1, ProbeType DEF Typed, TypeOK, SiteHealth
  <2> QED BY <1>2, <2>2 DEF ProbeAgain, Skip, Typed, TypeOK, JobOK, Promoting, Steps
<1> QED BY <1>1, <1>2

LEMMA TypedConverge ==
  ASSUME Typed, Converge PROVE Typed'
<1> DEFINE s == SiteAt(pos)
<1>1. s \in Sites
  BY SiteAtType DEF Typed, TypeOK
<1>2. \/ site' = site
      \/ site' = [site EXCEPT ![s] = Fence(site[s])]
      \/ site' = [site EXCEPT ![s] = Reconfigure(site[s], eff)]
  BY DEF Converge
<1>3. site' \in [Sites -> Cluster]
  BY <1>1, <1>2, WriteTypes DEF Typed, TypeOK, Name
<1>4. used' \in Usage
  BY ChargeType DEF Typed, TypeOK, Converge
<1>5. Return \/ NextSite
  BY DEF Converge
<1>6. CASE Return
  BY <1>3, <1>4, <1>6, ReturnType
  DEF Return, Converge, Typed, TypeOK, JobOK, Promoting, Name
<1>7. CASE NextSite
  BY <1>3, <1>4, <1>7, NextSiteType
  DEF Converge, Typed, TypeOK, JobOK, Promoting, Steps, Name
<1> QED BY <1>5, <1>6, <1>7

LEMMA TypedOperator ==
  ASSUME Typed, Operator PROVE Typed'
  BY TypedStart, TypedObserve, TypedConsider, TypedReject, TypedAuto, TypedFenceOld,
     TypedFlipOld, TypedPromoteTarget, TypedFlipNew, TypedClear, TypedUpdate,
     TypedProbeAgain, TypedConverge
  DEF Operator

\* The steps around the operator.
LEMMA TypedCrash ==
  ASSUME Typed, Crash PROVE Typed'
<1>1. used' \in Usage /\ failCount' \in 0 .. Threshold
  BY ReconcilerAssumption DEF Typed, TypeOK, Crash, Usage
<1> QED BY <1>1, ReturnType
  DEF Return, Crash, Typed, TypeOK, JobOK, Promoting, Name

\* A step of a site, or of a human at a site, leaves the operator and the
\* HACluster alone.  Roles change only where a human converts a Cluster, and a
\* site that is fenced or gone stays so unless a human touches it.
SafeSites ==
  /\ site' \in [Sites -> Cluster]
  /\ \A s \in Sites :
       \/ site'[s].primary = site[s].primary
       \/ "convert" \in Chores /\ (pc = "idle" \/ s \in touched')
  /\ \A s \in Sites : site'[s].source = site[s].source
  /\ pc # "idle" =>
       \A s \in Sites : site[s].fenced \/ ~site[s].exists \/ s \in touched =>
                        site'[s].fenced \/ ~site'[s].exists \/ s \in touched'

AroundOperator ==
  /\ SafeSites
  /\ used' \in Usage /\ touched' \subseteq Sites /\ touched \subseteq touched'
  /\ UNCHANGED <<store, cache, failCount, pc, local, recent, streak>>

LEMMA SiteStepShape ==
  ASSUME Typed, SiteStep PROVE AroundOperator
<1>1. PICK s \in Sites :
        \/ LoseReady(s) \/ LoseReach(s) \/ LoseCluster(s)
        \/ RegainReach(s) \/ RegainReady(s) \/ FenceTakesEffect(s)
  BY DEF SiteStep
<1>2. site \in [Sites -> Cluster] /\ site[s] \in Cluster /\ used \in Usage
  BY DEF Typed, TypeOK
<1>3. used' \in Usage /\ touched' = touched
  BY <1>1, <1>2 DEF LoseReady, LoseReach, LoseCluster, RegainReach, RegainReady,
     FenceTakesEffect, Outage, Usage
<1>4. SafeSites
  <2>1. CASE LoseReady(s)
    BY <1>2, <1>3, <2>1 DEF LoseReady, SiteChange, Cluster, SafeSites
  <2>2. CASE LoseReach(s)
    BY <1>2, <1>3, <2>2 DEF LoseReach, SiteChange, Cluster, SafeSites
  <2>3. CASE LoseCluster(s)
    BY <1>2, <1>3, <2>3 DEF LoseCluster, SiteChange, Cluster, SafeSites
  <2>4. CASE RegainReach(s)
    BY <1>2, <1>3, <2>4 DEF RegainReach, SiteChange, Cluster, SafeSites
  <2>5. CASE RegainReady(s)
    BY <1>2, <1>3, <2>5 DEF RegainReady, SiteChange, Cluster, SafeSites
  <2>6. CASE FenceTakesEffect(s)
    BY <1>2, <1>3, <2>6 DEF FenceTakesEffect, SiteChange, Cluster, SafeSites
  <2> QED BY <1>1, <2>1, <2>2, <2>3, <2>4, <2>5, <2>6
<1>5. UNCHANGED <<store, cache, failCount, pc, local, recent, streak>>
  BY <1>1 DEF LoseReady, LoseReach, LoseCluster, RegainReach, RegainReady,
     FenceTakesEffect, SiteChange
<1> QED BY <1>3, <1>4, <1>5 DEF AroundOperator, Typed, TypeOK

LEMMA RepairShape ==
  ASSUME Typed, NEW s \in Sites, Unfence(s) \/ RestoreCluster(s) \/ ConvertCluster(s)
  PROVE  AroundOperator
<1>1. site \in [Sites -> Cluster] /\ site[s] \in Cluster /\ used \in Usage
  BY DEF Typed, TypeOK
<1>2. used' \in Usage
  BY <1>1 DEF Unfence, RestoreCluster, ConvertCluster, Chore, Usage
<1>3. touched' = IF pc = "idle" THEN touched ELSE touched \cup {s}
  BY DEF Unfence, RestoreCluster, ConvertCluster, Touch
<1>4. SafeSites
  <2>1. CASE Unfence(s)
    BY <1>1, <1>3, <2>1 DEF Unfence, SiteChange, Cluster, SafeSites
  <2>2. CASE RestoreCluster(s)
    BY <1>1, <1>3, <2>2 DEF RestoreCluster, SiteChange, Cluster, SafeSites
  <2>3. CASE ConvertCluster(s)
    <3>1. /\ "convert" \in Chores
          /\ site' = [site EXCEPT ![s] = [site[s] EXCEPT !.primary = ~site[s].primary]]
      BY <2>3 DEF ConvertCluster, Chore, SiteChange
    <3>2. /\ site' \in [Sites -> Cluster]
          /\ site'[s].fenced = site[s].fenced /\ site'[s].exists = site[s].exists
          /\ site'[s].source = site[s].source
          /\ \A t \in Sites \ {s} : site'[t] = site[t]
      BY <1>1, <3>1 DEF Cluster
    <3> QED BY <1>3, <3>1, <3>2 DEF SafeSites
  <2> QED BY <2>1, <2>2, <2>3
<1>5. UNCHANGED <<store, cache, failCount, pc, local, recent, streak>>
  BY DEF Unfence, RestoreCluster, ConvertCluster, SiteChange
<1> QED BY <1>2, <1>3, <1>4, <1>5 DEF AroundOperator, Typed, TypeOK

LEMMA TypedAround ==
  ASSUME Typed, AroundOperator PROVE Typed'
  BY DEF Typed, TypeOK, JobOK, AroundOperator, SafeSites, local

\* A human edits the HACluster; no edit sets the status.
EditShape ==
  /\ store' \in HACluster
  /\ store'.primary \in {store.primary, NoSite}
  /\ cache' = IF StaleReads THEN cache ELSE store'
  /\ held' = FALSE
  /\ used' \in Usage
  /\ UNCHANGED <<site, failCount, pc, ha, prior, obs, pos, job, promoteErr, eff,
                 stray, history>>

LEMMA EditType ==
  ASSUME Typed, used' \in Usage, NEW h \in HACluster,
         h.primary \in {store.primary, NoSite}, EditHACluster(h)
  PROVE  EditShape
  BY Zenon DEF EditHACluster, EditShape, Write

LEMMA EditsShape ==
  ASSUME Typed,
         (\E s \in Sites : Annotate(s)) \/ SwitchMode \/ DeleteHACluster
           \/ CreateHACluster
  PROVE  EditShape
<1>1. store \in HACluster /\ used \in Usage
  BY DEF Typed, TypeOK
<1>2. used' \in Usage
  <2>1. used' = used \/ used' = [used EXCEPT !.chore = @ + 1]
    BY DEF Annotate, SwitchMode, DeleteHACluster, CreateHACluster, Chore
  <2> QED BY <1>1, <2>1 DEF Usage
<1>3. ASSUME NEW s \in Sites, Annotate(s) PROVE EditShape
  <2>1. /\ [store EXCEPT !.annot = s] \in HACluster
        /\ [store EXCEPT !.annot = s].primary = store.primary
    BY <1>1 DEF HACluster
  <2> QED BY <1>2, <1>3, <2>1, EditType DEF Annotate
<1>4. CASE SwitchMode
  <2> DEFINE m == IF store.mode = "Manual" THEN "Automatic" ELSE "Manual"
  <2>1. /\ [store EXCEPT !.mode = m] \in HACluster
        /\ [store EXCEPT !.mode = m].primary = store.primary
    BY <1>1 DEF HACluster
  <2>2. EditHACluster([store EXCEPT !.mode = m])
    BY <1>4 DEF SwitchMode
  <2> HIDE DEF m
  <2> QED BY <1>2, <2>1, <2>2, EditType
<1>5. CASE DeleteHACluster \/ CreateHACluster
  <2>1. PICK x \in BOOLEAN : EditHACluster(NewHACluster(x, store.mode))
    BY <1>5 DEF DeleteHACluster, CreateHACluster
  <2>2. store.mode \in {"Manual", "Automatic"}
    BY <1>1 DEF HACluster
  <2>3. NewHACluster(x, store.mode).primary = NoSite
    BY DEF NewHACluster
  <2> QED BY <1>2, <2>1, <2>2, <2>3, NewHAClusterType, EditType
<1> QED BY <1>3, <1>4, <1>5

LEMMA TypedEdit ==
  ASSUME Typed, EditShape PROVE Typed'
  BY DEF Typed, TypeOK, JobOK, EditShape, history

LEMMA HumanShape ==
  ASSUME Typed, HumanStep PROVE AroundOperator \/ EditShape
  BY RepairShape, EditsShape DEF HumanStep

LEMMA TypedCooldown ==
  ASSUME Typed, CooldownExpires PROVE Typed'
<1>1. store' \in HACluster /\ cache' \in HACluster /\ ha' \in HACluster
  BY CoolType DEF Typed, TypeOK, CooldownExpires
<1> QED BY <1>1 DEF Typed, TypeOK, JobOK, CooldownExpires

LEMMA TypedSync ==
  ASSUME Typed, Sync PROVE Typed'
  BY DEF Typed, TypeOK, JobOK, Sync, local, history

LEMMA TypedNext ==
  ASSUME Typed, [Next]_vars PROVE Typed'
<1>1. CASE Operator
  BY <1>1, TypedOperator
<1>2. CASE Crash
  BY <1>2, TypedCrash
<1>3. CASE SiteStep
  BY <1>3, SiteStepShape, TypedAround
<1>4. CASE HumanStep
  BY <1>4, HumanShape, TypedAround, TypedEdit
<1>5. CASE CooldownExpires
  BY <1>5, TypedCooldown
<1>6. CASE Sync
  BY <1>6, TypedSync
<1>7. CASE UNCHANGED vars
  BY <1>7 DEF Typed, TypeOK, JobOK, vars, local, history
<1> QED BY <1>1, <1>2, <1>3, <1>4, <1>5, <1>6, <1>7 DEF Next

LEMMA TypedAlways == Spec => []Typed
  BY TypedInit, TypedNext, PTL DEF Spec

(***************************************************************************)
(* Every variable of the reconciler keeps its type in every behaviour:     *)
(* the fail counter stays within the threshold and every site name the     *)
(* steps of Reconcile dereference is one.                                  *)
(***************************************************************************)
THEOREM TypeCorrect == Spec => []TypeOK
  BY TypedAlways, PTL DEF Typed

-----------------------------------------------------------------------------
(***************************************************************************)
(* Fencing before promotion.  The property is inductive together with the  *)
(* types: FenceOld establishes it, the calls that follow do not touch the  *)
(* old primary's fence, because the target is another site, and around the *)
(* operator only a human, who is recorded in touched, undoes a fence.      *)
(***************************************************************************)
LEMMA FencedByFenceOld ==
  ASSUME Typed, FenceOld PROVE FencedBeforePromote'
<1>1. job.old \in Sites /\ site[job.old] \in Cluster
  BY DEF Typed, TypeOK, JobOK, Promoting, FenceOld
<1>2. PICK a \in Outcomes(site[job.old], ApiFaults) :
        /\ site' = IF a \in Stored
                   THEN [site EXCEPT ![job.old] = Fence(site[job.old])] ELSE site
        /\ IF a \in Tolerated
           THEN pc' = "flipOld" /\ UNCHANGED <<promoteErr, ha>>
           ELSE FailPromotion
  BY DEF FenceOld
<1>3. CASE a = "ok"
  <2>1. site'[job.old].fenced
    BY <1>1, <1>2, <1>3 DEF Stored, Fence, Cluster, Typed, TypeOK
  <2> QED BY <2>1 DEF FencedBeforePromote, FenceOld
<1>4. CASE a = "notFound"
  <2>1. ~site[job.old].exists
    BY <1>2, <1>4 DEF Outcomes
  <2>2. site' = site
    BY <1>2, <1>4 DEF Stored
  <2> QED BY <2>1, <2>2 DEF FencedBeforePromote, FenceOld
<1>5. CASE a \notin {"ok", "notFound"}
  BY <1>2, <1>5 DEF FencedBeforePromote, FailPromotion, Tolerated
<1> QED BY <1>3, <1>4, <1>5

LEMMA FencedByCalls ==
  ASSUME Typed, FencedBeforePromote, FlipOld \/ PromoteTarget \/ FlipNew
  PROVE  FencedBeforePromote'
<1>1. /\ job.old \in Sites /\ job.target \in Sites /\ job.old # job.target
      /\ site \in [Sites -> Cluster]
      /\ pc \in {"flipOld", "promote", "flipNew"}
  BY DEF Typed, TypeOK, JobOK, Promoting, FlipOld, PromoteTarget, FlipNew
<1>2. \/ site' = site
      \/ site' = [site EXCEPT ![job.old] = FlipCiliumService(site[job.old], "remote")]
      \/ site' = [site EXCEPT ![job.target] = Promote(site[job.target])]
      \/ site' = [site EXCEPT ![job.target] =
                               FlipCiliumService(site[job.target], "local")]
  BY DEF FlipOld, PromoteTarget, FlipNew
<1>3. /\ site'[job.old].fenced = site[job.old].fenced
      /\ site'[job.old].exists = site[job.old].exists
  BY <1>1, <1>2 DEF FlipCiliumService, Cluster
<1>4. touched' = touched
  BY DEF FlipOld, PromoteTarget, FlipNew, history
<1>5. job'.old = job.old
  <2>1. job' = job \/ job' = [job EXCEPT !.done = TRUE]
    BY DEF FlipOld, PromoteTarget, FlipNew
  <2> QED BY <2>1 DEF Typed, TypeOK, Job
<1> QED BY <1>1, <1>3, <1>4, <1>5 DEF FencedBeforePromote

\* The other steps of the operator do not lead into a promotion.
LEMMA FencedElsewhere ==
  ASSUME Typed,
         \/ StartReconcile \/ ObserveSite \/ ConsiderAnnotation
         \/ RejectAnnotation \/ AutomaticFailover \/ ClearAnnotation
         \/ UpdateStatus \/ ProbeAgain \/ Converge \/ Crash
  PROVE  FencedBeforePromote'
<1>1. pc' \notin {"flipOld", "promote", "flipNew", "clear"}
  BY DEF StartReconcile, ObserveSite, ConsiderAnnotation, BeginPromotion,
     RejectAnnotation, AutomaticFailover, ClearAnnotation, UpdateStatus, ProbeAgain,
     NextSite, Converge, Return, Crash
<1> QED BY <1>1 DEF FencedBeforePromote

LEMMA FencedNext ==
  ASSUME Typed, FencedBeforePromote, [Next]_vars PROVE FencedBeforePromote'
<1>1. CASE Operator
  BY <1>1, FencedByFenceOld, FencedByCalls, FencedElsewhere DEF Operator
<1>2. CASE Crash
  BY <1>2, FencedElsewhere
<1>3. ASSUME AroundOperator PROVE FencedBeforePromote'
  <2> SUFFICES ASSUME pc' \in {"flipOld", "promote", "flipNew", "clear"}
               PROVE  \/ site'[job'.old].fenced \/ ~site'[job'.old].exists
                      \/ job'.old \in touched'
    BY DEF FencedBeforePromote
  <2>1. pc' = pc /\ job' = job
    BY <1>3 DEF AroundOperator, local
  <2>2. job.old \in Sites
    BY <2>1 DEF Typed, JobOK, Promoting
  <2> QED BY <1>3, <2>1, <2>2 DEF AroundOperator, SafeSites, FencedBeforePromote
<1>4. CASE SiteStep
  BY <1>3, <1>4, SiteStepShape
<1>5. ASSUME EditShape PROVE FencedBeforePromote'
  BY <1>5 DEF EditShape, history, FencedBeforePromote
<1>6. CASE HumanStep
  BY <1>3, <1>5, <1>6, HumanShape
<1>7. CASE CooldownExpires
  BY <1>7 DEF CooldownExpires, FencedBeforePromote
<1>8. CASE Sync
  BY <1>8 DEF Sync, local, history, FencedBeforePromote
<1>9. CASE UNCHANGED vars
  BY <1>9 DEF vars, local, history, FencedBeforePromote
<1> QED BY <1>1, <1>2, <1>4, <1>6, <1>7, <1>8, <1>9 DEF Next

(***************************************************************************)
(* No promotion without a fence: whatever calls fail, whichever sites go   *)
(* down and wherever the operator is restarted, runPromotion promotes its  *)
(* target, and switches the Service to it, only while the old primary is   *)
(* fenced or gone, unless a human removed that fence or recreated that     *)
(* Cluster since the fence call.  It also holds with a stale cache.        *)
(***************************************************************************)
THEOREM FencingPrecedesPromotion == Spec => []FencedBeforePromote
<1>1. Init => FencedBeforePromote
  BY DEF Init, FencedBeforePromote
<1>2. Typed /\ FencedBeforePromote /\ [Next]_vars => FencedBeforePromote'
  BY FencedNext
<1> QED BY <1>1, <1>2, TypedAlways, PTL DEF Spec

-----------------------------------------------------------------------------
(***************************************************************************)
(* Which steps change who is a primary: PromoteTarget makes its target     *)
(* one, Converge may make the site it is at a replica, a human may convert *)
(* a Cluster, and nothing else.                                            *)
(***************************************************************************)
SamePrimaries == \A s \in Sites : site'[s].primary = site[s].primary

\* A change during a Reconcile is recorded.
ConvertsRecorded ==
  \A s \in Sites :
    \/ site'[s].primary = site[s].primary
    \/ "convert" \in Chores /\ HumanStep /\ (pc = "idle" \/ s \in touched')

LEMMA PrimaryByPromote ==
  ASSUME Typed, PromoteTarget
  PROVE  /\ job.target \in Sites
         /\ \A s \in Sites : site[s].primary => site'[s].primary
         /\ pc' = "flipNew" => site'[job.target].primary
<1>1. job.target \in Sites /\ site \in [Sites -> Cluster]
  BY DEF Typed, TypeOK, JobOK, Promoting, PromoteTarget
<1>2. PICK a \in Outcomes(site[job.target], ApiFaults) :
        /\ site' = IF a \in Stored
                   THEN [site EXCEPT ![job.target] = Promote(site[job.target])]
                   ELSE site
        /\ pc' = "flipNew" => a = "ok"
  BY DEF PromoteTarget, FailPromotion
<1> QED BY <1>1, <1>2 DEF Promote, Cluster, Stored

LEMMA PrimaryByConverge ==
  ASSUME Typed, Converge
  PROVE  /\ SiteAt(pos) \in Sites
         /\ \A s \in Sites \ {SiteAt(pos)} : site'[s].primary = site[s].primary
         /\ FenceStray => SamePrimaries
<1>1. SiteAt(pos) \in Sites /\ site \in [Sites -> Cluster]
  BY SiteAtType DEF Typed, TypeOK
<1>2. \/ site' = site
      \/ site' = [site EXCEPT ![SiteAt(pos)] = Fence(site[SiteAt(pos)])]
      \/ /\ ~FenceStray
         /\ site' = [site EXCEPT ![SiteAt(pos)] = Reconfigure(site[SiteAt(pos)], eff)]
  BY DEF Converge
<1> QED BY <1>1, <1>2 DEF Fence, Cluster, SamePrimaries

LEMMA SiteStepPrimaries ==
  ASSUME Typed, SiteStep PROVE SamePrimaries
<1>1. PICK s \in Sites :
        \/ LoseReady(s) \/ LoseReach(s) \/ LoseCluster(s)
        \/ RegainReach(s) \/ RegainReady(s) \/ FenceTakesEffect(s)
  BY DEF SiteStep
<1>2. site \in [Sites -> Cluster] /\ site[s] \in Cluster
  BY DEF Typed, TypeOK
<1>3. CASE LoseReady(s) \/ FenceTakesEffect(s)
  BY <1>2, <1>3 DEF LoseReady, FenceTakesEffect, SiteChange, Cluster, SamePrimaries
<1>4. CASE LoseReach(s) \/ RegainReach(s)
  BY <1>2, <1>4 DEF LoseReach, RegainReach, SiteChange, Cluster, SamePrimaries
<1>5. CASE LoseCluster(s)
  BY <1>2, <1>5 DEF LoseCluster, SiteChange, Cluster, SamePrimaries
<1>6. CASE RegainReady(s)
  BY <1>2, <1>6 DEF RegainReady, SiteChange, Cluster, SamePrimaries
<1> QED BY <1>1, <1>3, <1>4, <1>5, <1>6

LEMMA PrimaryByOther ==
  ASSUME Typed, [Next]_vars, ~PromoteTarget, ~Converge
  PROVE  ConvertsRecorded
<1>1. site \in [Sites -> Cluster]
  BY DEF Typed, TypeOK
<1>2. CASE FenceOld \/ FlipOld \/ FlipNew
  <2>1. job.old \in Sites /\ job.target \in Sites
    BY <1>2 DEF Typed, JobOK, Promoting, FenceOld, FlipOld, FlipNew
  <2>2. \/ site' = site
        \/ site' = [site EXCEPT ![job.old] = Fence(site[job.old])]
        \/ site' = [site EXCEPT ![job.old] =
                                 FlipCiliumService(site[job.old], "remote")]
        \/ site' = [site EXCEPT ![job.target] =
                                 FlipCiliumService(site[job.target], "local")]
    BY <1>2 DEF FenceOld, FlipOld, FlipNew
  <2> QED BY <1>1, <2>1, <2>2 DEF Fence, FlipCiliumService, Cluster, ConvertsRecorded
<1>3. CASE \/ StartReconcile \/ ObserveSite \/ ConsiderAnnotation
           \/ RejectAnnotation \/ AutomaticFailover \/ ClearAnnotation
           \/ UpdateStatus \/ ProbeAgain \/ Crash \/ CooldownExpires \/ Sync
  <2>1. site' = site
    BY <1>3 DEF StartReconcile, ObserveSite, ConsiderAnnotation, RejectAnnotation,
       AutomaticFailover, ClearAnnotation, UpdateStatus, ProbeAgain, Skip, Crash,
       CooldownExpires, Sync
  <2> QED BY <2>1 DEF ConvertsRecorded
<1>4. CASE HumanStep
  BY <1>4, HumanShape DEF AroundOperator, SafeSites, EditShape, ConvertsRecorded
<1>5. CASE SiteStep
  BY <1>5, SiteStepPrimaries DEF ConvertsRecorded, SamePrimaries
<1>6. CASE UNCHANGED vars
  BY <1>6 DEF vars, ConvertsRecorded
<1> QED BY <1>2, <1>3, <1>4, <1>5, <1>6 DEF Next, Operator

LEMMA PrimaryByOperator ==
  ASSUME Typed, [Next]_vars, ~PromoteTarget, ~Converge, "convert" \notin Chores
  PROVE  SamePrimaries
  BY PrimaryByOther DEF ConvertsRecorded, SamePrimaries

(***************************************************************************)
(* Manual rejoin.  The invariant it rests on: between the second probe of  *)
(* a site and the write, the site has the role that was probed, unless a   *)
(* human touched it in between.                                            *)
(***************************************************************************)
StrayKnown ==
  pc = "converge" => \/ stray = site[SiteAt(pos)].primary
                     \/ SiteAt(pos) \in touched

LEMMA StrayKnownNext ==
  ASSUME Typed, StrayKnown, [Next]_vars PROVE StrayKnown'
<1> SUFFICES ASSUME pc' = "converge"
             PROVE  \/ stray' = site'[SiteAt(pos')].primary
                    \/ SiteAt(pos') \in touched'
  BY DEF StrayKnown, SiteAt
<1>1. SiteAt(pos) \in Sites
  BY SiteAtType DEF Typed, TypeOK
<1>2. CASE ProbeAgain
  <2>1. pc = "topology" /\ site' = site /\ pos' = pos
        /\ Probe(site[SiteAt(pos)]).Reachable
        /\ stray' = Probe(site[SiteAt(pos)]).Primary
    BY <1>2 DEF ProbeAgain, Skip, NextSite, Return
  <2>2. Probe(site[SiteAt(pos)]).Primary = site[SiteAt(pos)].primary
    BY <1>1, <2>1 DEF Probe, Unreachable
  <2> QED BY <2>1, <2>2
<1>3. CASE ~ProbeAgain
  <2>1. pc = "converge" /\ pos' = pos /\ stray' = stray /\ ~Converge
        /\ ~PromoteTarget /\ touched \subseteq touched'
    <3>1. ~Operator
      BY <1>3 DEF Operator, StartReconcile, ObserveSite, ConsiderAnnotation,
         BeginPromotion, RejectAnnotation, AutomaticFailover, FenceOld, FlipOld,
         PromoteTarget, FlipNew, FailPromotion, ClearAnnotation, UpdateStatus,
         NextSite, Converge, Return
    <3>2. ~Crash
      BY DEF Crash, Return
    <3>3. SiteStep \/ HumanStep \/ CooldownExpires \/ Sync \/ UNCHANGED vars
      BY <3>1, <3>2 DEF Next
    <3>4. pc' = pc /\ pos' = pos /\ stray' = stray /\ touched \subseteq touched'
      BY <3>3, SiteStepShape, HumanShape DEF AroundOperator, EditShape, local,
         CooldownExpires, Sync, vars, history
    <3> QED BY <3>1, <3>4 DEF Operator
  <2> QED BY <1>1, <2>1, PrimaryByOther DEF ConvertsRecorded, StrayKnown
<1> QED BY <1>2, <1>3

(***************************************************************************)
(* Under rejoinPolicy Manual no step of the operator, or around it, ever   *)
(* turns a primary into a replica: a returning old primary is fenced and   *)
(* its data kept.  The one way around it is a human who promotes a Cluster *)
(* by hand just between the second probe of it and the write.              *)
(***************************************************************************)
THEOREM ManualRejoinIsSafe == Spec => ManualRejoinKeepsData
<1>1. Init => StrayKnown
  BY DEF Init, StrayKnown
<1>2. Typed /\ StrayKnown /\ [Next]_vars => StrayKnown'
  BY StrayKnownNext
<1>3. Typed /\ StrayKnown /\ [Next]_vars =>
        (\A s \in Sites :
           Rejoin = "Manual" /\ site[s].primary /\ ~site'[s].primary =>
             HumanStep \/ s \in touched)
  <2> SUFFICES ASSUME Typed, StrayKnown, [Next]_vars, Rejoin = "Manual",
                      NEW s \in Sites, site[s].primary, ~HumanStep, s \notin touched
               PROVE  site'[s].primary
    OBVIOUS
  <2>1. CASE PromoteTarget
    BY <2>1, PrimaryByPromote
  <2>2. CASE Converge
    <3>1. CASE s = SiteAt(pos)
      BY <2>2, <3>1, PrimaryByConverge
      DEF StrayKnown, Converge, FenceStray, SamePrimaries
    <3>2. CASE s # SiteAt(pos)
      BY <2>2, <3>2, PrimaryByConverge
    <3> QED BY <3>1, <3>2
  <2>3. CASE ~PromoteTarget /\ ~Converge
    BY <2>3, PrimaryByOther DEF ConvertsRecorded
  <2> QED BY <2>1, <2>2, <2>3
<1> QED BY <1>1, <1>2, <1>3, TypedAlways, PTL DEF Spec, ManualRejoinKeepsData

-----------------------------------------------------------------------------
(***************************************************************************)
(* The accepted primary, when the cache is up to date.  AcceptedIsPrimary  *)
(* is not inductive: the status is written from what Reconcile remembers   *)
(* (the prior status, the observations, its own promotion), and the        *)
(* topology loop demotes sites after that write.  Witnessed says that each *)
(* of these memories names a primary, that none is left when the loop      *)
(* runs, and that the loop never stands at the site just accepted.         *)
(***************************************************************************)
TargetPromoted ==
  pc \in {"flipNew", "clear"} \/ job.done =>
    job.target \in Sites /\ site[job.target].primary

LoopSparesPrimary ==
  /\ pc \in {"topology", "converge"} =>
       /\ store.primary \in {eff, NoSite}
       /\ prior = NoSite /\ obs = Blank /\ job = NoJob
  /\ pc = "converge" => SiteAt(pos) # eff

Witnessed ==
  /\ cache = store
  /\ AcceptedIsPrimary
  /\ prior # NoSite => site[prior].primary
  /\ \A s \in Sites : obs[s].Primary => site[s].primary
  /\ TargetPromoted
  /\ LoopSparesPrimary

Kept == \A s \in Sites : site[s].primary => site'[s].primary

\* A step outside the loop that demotes nobody and records nothing new about
\* the sites.
LEMMA WitnessedCarry ==
  ASSUME Typed, Witnessed, Kept, TargetPromoted', cache' = store',
         store'.primary \in {store.primary, NoSite},
         prior' \in {prior, store.primary, NoSite},
         obs' \in {obs, Blank},
         pc' \notin {"topology", "converge"}
  PROVE  Witnessed'
<1>1. AcceptedIsPrimary'
  BY DEF Witnessed, AcceptedIsPrimary, Kept, Typed, TypeOK, HACluster
<1>2. (prior # NoSite => site[prior].primary)'
  BY DEF Witnessed, AcceptedIsPrimary, Kept, Typed, TypeOK, HACluster
<1>3. (\A s \in Sites : obs[s].Primary => site[s].primary)'
  BY DEF Witnessed, Kept, Blank, Unreachable
<1>4. LoopSparesPrimary'
  BY DEF LoopSparesPrimary
<1> QED BY <1>1, <1>2, <1>3, <1>4 DEF Witnessed

LEMMA KeptByOther ==
  ASSUME Typed, [Next]_vars, ~Converge, "convert" \notin Chores PROVE Kept
  BY PrimaryByOperator, PrimaryByPromote DEF Kept, SamePrimaries

LEMMA WitnessedObserve ==
  ASSUME Typed, Witnessed, ObserveSite PROVE Witnessed'
<1>1. SiteAt(pos) \in Sites /\ site[SiteAt(pos)] \in Cluster
  BY SiteAtType DEF Typed, TypeOK
<1>2. Probe(site[SiteAt(pos)]).Primary => site[SiteAt(pos)].primary
  BY <1>1, ProbeType
<1>3. \A s \in Sites : obs'[s].Primary => site'[s].primary
  BY <1>1, <1>2 DEF ObserveSite, Witnessed, Typed, TypeOK, Buffer
<1>4. site' = site /\ store' = store /\ cache' = cache /\ prior' = prior /\ job' = job
      /\ pc' \in {"observe", "annotation"}
  BY DEF ObserveSite
<1> QED BY <1>3, <1>4
  DEF Witnessed, AcceptedIsPrimary, TargetPromoted, LoopSparesPrimary

LEMMA WitnessedDecide ==
  ASSUME Typed, Witnessed, StaleReads = FALSE, "convert" \notin Chores,
         StartReconcile \/ ConsiderAnnotation \/ AutomaticFailover
           \/ FenceOld \/ FlipOld \/ RejectAnnotation
  PROVE  Witnessed'
<1>1. Kept
  <2>1. ~Converge
    BY DEF StartReconcile, ConsiderAnnotation, AutomaticFailover, FenceOld, FlipOld,
       RejectAnnotation, Converge
  <2> QED BY <2>1, KeptByOther DEF Next, Operator
<1>2. pc' \notin {"flipNew", "clear", "topology", "converge"}
  BY DEF StartReconcile, ConsiderAnnotation, AutomaticFailover, FenceOld, FlipOld,
     RejectAnnotation, BeginPromotion, FailPromotion
<1>3. TargetPromoted'
  <2>1. job' = job \/ job'.done = FALSE
    <3>1. CASE AutomaticFailover
      <4>1. \/ job' = job
            \/ \E t \in chooseTarget(Policy, obs, curName) :
                 BeginPromotion("auto", curName, t)
        BY <3>1 DEF AutomaticFailover
      <4> QED BY <4>1 DEF BeginPromotion
    <3>2. CASE ConsiderAnnotation
      BY <3>2 DEF ConsiderAnnotation, BeginPromotion
    <3>3. CASE StartReconcile \/ FenceOld \/ FlipOld \/ RejectAnnotation
      BY <3>3 DEF StartReconcile, FenceOld, FlipOld, RejectAnnotation
    <3> QED BY <3>1, <3>2, <3>3
  <2> QED BY <1>1, <1>2, <2>1 DEF TargetPromoted, Witnessed, Kept
<1>4. /\ cache' = store' /\ store'.primary = store.primary
  <2>1. CASE RejectAnnotation
    <3>1. \/ store' = store /\ cache' = cache
          \/ store' = [store EXCEPT !.annot = NoSite] /\ cache' = store'
      BY <2>1 DEF RejectAnnotation, PatchAnnotation, Write
    <3> QED BY <3>1 DEF Witnessed, Typed, TypeOK, HACluster
  <2>2. CASE ~RejectAnnotation
    BY <2>2 DEF StartReconcile, ConsiderAnnotation, AutomaticFailover, FenceOld,
       FlipOld, Witnessed
  <2> QED BY <2>1, <2>2
<1>5. prior' \in {prior, store.primary} /\ obs' = obs
  BY DEF StartReconcile, ConsiderAnnotation, AutomaticFailover, FenceOld, FlipOld,
     RejectAnnotation, Witnessed
<1> QED BY <1>1, <1>2, <1>3, <1>4, <1>5, WitnessedCarry

\* The end of a promotion: its target was promoted by PromoteTarget.
LEMMA WitnessedFinish ==
  ASSUME Typed, Witnessed, StaleReads = FALSE, "convert" \notin Chores,
         PromoteTarget \/ FlipNew \/ ClearAnnotation
  PROVE  Witnessed'
<1>1. Kept
  <2>1. ~Converge
    BY DEF PromoteTarget, FlipNew, ClearAnnotation, Converge
  <2> QED BY <2>1, KeptByOther DEF Next, Operator
<1>2. /\ pc' \in {"flipNew", "clear", "status", "auto"} /\ prior' = prior /\ obs' = obs
      /\ pc' = "flipNew" => PromoteTarget
      /\ pc' = "clear" => FlipNew
  BY DEF PromoteTarget, FlipNew, ClearAnnotation, FailPromotion
<1>3. job.target \in Sites
  BY DEF Typed, JobOK, Promoting, PromoteTarget, FlipNew, ClearAnnotation
<1>4. job'.target = job.target
  <2>1. \/ job' = job
        \/ \E x \in BOOLEAN : job' = [job EXCEPT !.done = x]
    BY DEF PromoteTarget, FlipNew, ClearAnnotation
  <2> QED BY <2>1 DEF Typed, TypeOK, Job
<1>5. TargetPromoted'
  <2>1. CASE PromoteTarget
    <3>1. job' = job
      BY <2>1 DEF PromoteTarget
    <3> QED BY <1>1, <1>2, <1>3, <2>1, <3>1, PrimaryByPromote
      DEF TargetPromoted, Witnessed, Kept, FlipNew, PromoteTarget
  <2>2. CASE FlipNew \/ ClearAnnotation
    <3>1. site[job.target].primary
      BY <2>2 DEF FlipNew, ClearAnnotation, Witnessed, TargetPromoted
    <3> QED BY <1>1, <1>3, <1>4, <3>1 DEF TargetPromoted, Kept
  <2> QED BY <2>1, <2>2
<1>6. cache' = store' /\ store'.primary = store.primary
  <2>1. \/ store' = store /\ cache' = cache
        \/ store' = [store EXCEPT !.annot = NoSite] /\ cache' = store'
    BY DEF PromoteTarget, FlipNew, ClearAnnotation, PatchAnnotation, Write
  <2> QED BY <2>1 DEF Witnessed, Typed, TypeOK, HACluster
<1> QED BY <1>1, <1>2, <1>5, <1>6, WitnessedCarry

\* What the status update writes names a primary.
LEMMA DecidedIsPrimary ==
  ASSUME Typed, prior # NoSite => site[prior].primary,
         \A s \in Sites : obs[s].Primary => site[s].primary,
         TargetPromoted, DecidedPrimary # NoSite
  PROVE  site[DecidedPrimary].primary
<1> DEFINE seen == IF job.done THEN applyPromotionEffect(obs, job.old, job.target)
                               ELSE obs
           current == decideCurrentPrimary(seen)
<1>1. \A s \in Sites : seen[s].Primary => site[s].primary
  <2>1. CASE ~job.done
    BY <2>1
  <2>2. CASE job.done
    <3>1. site[job.target].primary
      BY <2>2 DEF TargetPromoted
    <3>2. \A s \in Sites : seen[s].Primary => obs[s].Primary \/ s = job.target
      BY <2>2 DEF applyPromotionEffect, Typed, TypeOK, Buffer, SiteHealth
    <3> QED BY <3>1, <3>2
  <2> QED BY <2>1, <2>2
<1>2. DecidedPrimary = IF current # NoSite THEN current ELSE prior
  BY DEF DecidedPrimary
<1>3. CASE current # NoSite
  <2>1. current \in Sites /\ seen[current].Primary
    BY <1>3, DecideType DEF Name
  <2> QED BY <1>1, <1>2, <1>3, <2>1
<1>4. CASE current = NoSite
  BY <1>2, <1>4
<1> QED BY <1>3, <1>4

LEMMA WitnessedUpdate ==
  ASSUME Typed, Witnessed, StaleReads = FALSE, UpdateStatus PROVE Witnessed'
<1>1. site' = site
  BY DEF UpdateStatus
<1>2. cache' = store'
      /\ (store'.primary = store.primary \/ store'.primary = DecidedPrimary)
  <2>1. \/ store' = store /\ cache' = cache
        \/ /\ store' = [store EXCEPT !.primary = DecidedPrimary,
                                     !.cool = ha.cool, !.fip = ha.fip]
           /\ cache' = store'
    BY DEF UpdateStatus, Write
  <2> QED BY <2>1 DEF Witnessed, Typed, TypeOK, HACluster
<1>3. AcceptedIsPrimary'
  BY <1>1, <1>2, DecidedIsPrimary DEF AcceptedIsPrimary, Witnessed
<1>4. /\ DropLocals /\ pc' \in {"idle", "topology"}
      /\ pc' = "topology" => eff' = DecidedPrimary /\ store'.primary = DecidedPrimary
  <2>1. PICK a \in StatusOutcomes :
          /\ IF a \in Stored
             THEN Write([store EXCEPT !.primary = DecidedPrimary,
                                      !.cool = ha.cool, !.fip = ha.fip])
             ELSE UNCHANGED <<store, cache>>
          /\ IF a = "ok" /\ ~promoteErr /\ replicationEndpointFor(DecidedPrimary)
             THEN /\ pc' = "topology" /\ eff' = DecidedPrimary /\ DropLocals
                  /\ UNCHANGED <<pos, stray, touched>>
             ELSE Return
    BY DEF UpdateStatus
  <2> QED BY <2>1 DEF Return, Stored, Write, Typed, TypeOK, HACluster
<1>5. /\ prior' = NoSite /\ obs' = Blank /\ job' = NoJob
  BY <1>4 DEF DropLocals
<1>6. (\A s \in Sites : obs[s].Primary => site[s].primary)'
  BY <1>5 DEF Blank, Unreachable
<1>7. TargetPromoted'
  BY <1>4, <1>5 DEF TargetPromoted, NoJob
<1>8. LoopSparesPrimary'
  BY <1>4, <1>5 DEF LoopSparesPrimary
<1> QED BY <1>2, <1>3, <1>5, <1>6, <1>7, <1>8 DEF Witnessed

\* The loop: it demotes only the site it stands at, which nobody remembers.
LEMMA LoopStep ==
  ASSUME Witnessed, Return \/ NextSite, pc \in {"topology", "converge"}
  PROVE  /\ pc' \in {"idle", "topology"}
         /\ prior' = NoSite /\ obs' = Blank /\ job' = NoJob
         /\ pc' = "topology" => eff' = eff
  BY DEF Return, NextSite, DropLocals, Witnessed, LoopSparesPrimary

LEMMA WitnessedLoop ==
  ASSUME Typed, Witnessed, ProbeAgain \/ Converge PROVE Witnessed'
<1>1. /\ store' = store /\ cache' = cache /\ pc \in {"topology", "converge"}
      /\ store.primary \in {eff, NoSite}
  BY DEF ProbeAgain, Skip, Converge, Witnessed, LoopSparesPrimary
<1>2. /\ pc' \in {"idle", "topology", "converge"}
      /\ prior' = NoSite /\ obs' = Blank /\ job' = NoJob
      /\ pc' # "idle" => eff' = eff
      /\ pc' = "converge" => SiteAt(pos') # eff
  <2>1. CASE Return \/ NextSite
    BY <1>1, <2>1, LoopStep
  <2>2. CASE ~Return /\ ~NextSite
    BY <1>1, <2>2 DEF ProbeAgain, Skip, Converge, Witnessed, LoopSparesPrimary
  <2> QED BY <2>1, <2>2
<1>3. AcceptedIsPrimary'
  <2>1. CASE ProbeAgain
    BY <1>1, <2>1 DEF ProbeAgain, Skip, AcceptedIsPrimary, Witnessed
  <2>2. CASE Converge
    <3>1. store.primary # NoSite =>
            store.primary \in Sites /\ store.primary # SiteAt(pos)
      BY <1>1, <2>2 DEF Converge, Witnessed, LoopSparesPrimary, Typed, TypeOK,
         HACluster
    <3> QED BY <1>1, <2>2, <3>1, PrimaryByConverge DEF AcceptedIsPrimary, Witnessed
  <2> QED BY <2>1, <2>2
<1>4. (\A s \in Sites : obs[s].Primary => site[s].primary)'
  BY <1>2 DEF Blank, Unreachable
<1>5. TargetPromoted'
  BY <1>2 DEF TargetPromoted, NoJob
<1>6. LoopSparesPrimary'
  BY <1>1, <1>2 DEF LoopSparesPrimary
<1> QED BY <1>1, <1>2, <1>3, <1>4, <1>5, <1>6 DEF Witnessed

\* A step around the operator, or an edit, leaves the loop where it is.
LEMMA WitnessedAround ==
  ASSUME Typed, Witnessed, StaleReads = FALSE, "convert" \notin Chores,
         AroundOperator \/ EditShape \/ CooldownExpires \/ UNCHANGED vars
  PROVE  Witnessed'
<1>1. /\ \A s \in Sites : site[s].primary => site'[s].primary
      /\ UNCHANGED <<pc, prior, obs, pos, job, eff>>
  BY DEF AroundOperator, SafeSites, EditShape, CooldownExpires, vars, local
<1>2. cache' = store' /\ store'.primary \in {store.primary, NoSite}
  <2>1. CASE CooldownExpires
    BY <2>1 DEF CooldownExpires, Witnessed, Typed, TypeOK, HACluster
  <2>2. CASE ~CooldownExpires
    BY <2>2 DEF AroundOperator, EditShape, vars, Witnessed
  <2> QED BY <2>1, <2>2
<1>3. AcceptedIsPrimary'
  BY <1>1, <1>2 DEF AcceptedIsPrimary, Witnessed, Typed, TypeOK, HACluster
<1>4. (prior # NoSite => site[prior].primary)'
  BY <1>1 DEF Witnessed, Typed, TypeOK
<1>5. TargetPromoted'
  BY <1>1 DEF Witnessed, TargetPromoted
<1>6. LoopSparesPrimary'
  BY <1>1, <1>2 DEF Witnessed, LoopSparesPrimary, SiteAt
<1> QED BY <1>1, <1>2, <1>3, <1>4, <1>5, <1>6 DEF Witnessed

LEMMA WitnessedCrash ==
  ASSUME Typed, Witnessed, Crash PROVE Witnessed'
  BY DEF Crash, Return, DropLocals, NoJob, Blank, Unreachable, Witnessed,
     AcceptedIsPrimary, TargetPromoted, LoopSparesPrimary

LEMMA WitnessedInit == Init => Witnessed
<1> SUFFICES ASSUME Init PROVE Witnessed
  OBVIOUS
<1>1. store.primary = NoSite /\ cache = store /\ prior = NoSite /\ pc = "idle"
  <2>1. PICK m \in InitModes : store = NewHACluster(TRUE, m)
    BY DEF Init
  <2> QED BY <2>1 DEF Init, NewHACluster
<1>2. \A s \in Sites : ~obs[s].Primary
  BY DEF Init, Blank, Unreachable
<1>3. job.done = FALSE
  BY DEF Init, NoJob
<1> QED BY <1>1, <1>2, <1>3
  DEF Witnessed, AcceptedIsPrimary, TargetPromoted, LoopSparesPrimary

LEMMA WitnessedNext ==
  ASSUME Typed, Witnessed, [Next]_vars, StaleReads = FALSE, "convert" \notin Chores
  PROVE  Witnessed'
<1>1. CASE Operator
  BY <1>1, WitnessedObserve, WitnessedDecide, WitnessedFinish, WitnessedUpdate,
     WitnessedLoop
  DEF Operator
<1>2. CASE Crash
  BY <1>2, WitnessedCrash
<1>3. CASE SiteStep \/ HumanStep \/ CooldownExpires \/ UNCHANGED vars
  BY <1>3, SiteStepShape, HumanShape, WitnessedAround
<1>4. CASE Sync
  BY <1>4 DEF Sync, Witnessed
<1> QED BY <1>1, <1>2, <1>3, <1>4 DEF Next

LEMMA WitnessedAlways ==
  ASSUME StaleReads = FALSE, "convert" \notin Chores PROVE Spec => []Witnessed
<1>1. Typed /\ Witnessed /\ [Next]_vars => Witnessed'
  BY WitnessedNext
<1> QED BY <1>1, WitnessedInit, TypedAlways, PTL DEF Spec

(***************************************************************************)
(* With an up-to-date cache, status.currentPrimarySite always names a site *)
(* whose Cluster is a CNPG primary, whatever calls fail or lose their      *)
(* reply, wherever the operator crashes and however the HACluster is       *)
(* edited meanwhile; under both rejoin policies.  Humans must leave        *)
(* spec.replica of the Clusters alone.                                     *)
(***************************************************************************)
THEOREM AcceptedStaysPrimary ==
  ASSUME StaleReads = FALSE, "convert" \notin Chores
  PROVE  Spec => []AcceptedIsPrimary
<1>1. Witnessed => AcceptedIsPrimary
  BY DEF Witnessed
<1> QED BY <1>1, WitnessedAlways, PTL

-----------------------------------------------------------------------------
(***************************************************************************)
(* The sources of the replicas.  Converge adds the only edges: from the    *)
(* site it stands at to effectivePrimary.  That one is a primary, so the   *)
(* new edge closes no circle, and a site that is promoted only loses its   *)
(* edge.                                                                   *)
(***************************************************************************)
Rooted ==
  /\ pc \in {"topology", "converge"} => eff \in Sites /\ site[eff].primary
  /\ SourcesReachPrimary

SameSources == \A s \in Sites : site'[s].source = site[s].source

\* Nobody is demoted and nobody repointed.
LEMMA SourcesKept ==
  ASSUME SourcesReachPrimary, Kept, SameSources PROVE SourcesReachPrimary'
<1> SUFFICES ASSUME NEW S \in SUBSET {s \in Sites : ~site'[s].primary}, S # {}
             PROVE  \E s \in S : site'[s].source \in Sites \ S
  BY DEF SourcesReachPrimary
<1>1. S \in SUBSET {s \in Sites : ~site[s].primary}
  BY DEF Kept
<1>2. PICK s \in S : site[s].source \in Sites \ S
  BY <1>1 DEF SourcesReachPrimary
<1> QED BY <1>1, <1>2 DEF SameSources

\* A site is made to follow a primary.
LEMMA SourcesRepointed ==
  ASSUME SourcesReachPrimary, NEW r \in Sites, NEW p \in Sites \ {r}, site[p].primary,
         \A s \in Sites \ {r} : site'[s] = site[s],
         ~site'[r].primary, site'[r].source = p
  PROVE  SourcesReachPrimary'
<1> SUFFICES ASSUME NEW S \in SUBSET {s \in Sites : ~site'[s].primary}, S # {}
             PROVE  \E s \in S : site'[s].source \in Sites \ S
  BY DEF SourcesReachPrimary
<1>1. CASE r \in S
  <2>1. p \notin S
    OBVIOUS
  <2> QED BY <1>1, <2>1
<1>2. CASE r \notin S
  <2>1. S \in SUBSET {s \in Sites : ~site[s].primary}
    BY <1>2
  <2>2. PICK s \in S : site[s].source \in Sites \ S
    BY <2>1 DEF SourcesReachPrimary
  <2> QED BY <1>2, <2>1, <2>2
<1> QED BY <1>1, <1>2

LEMMA SourcesByOther ==
  ASSUME Typed, [Next]_vars, ~Converge PROVE SameSources
<1>1. site \in [Sites -> Cluster]
  BY DEF Typed, TypeOK
<1>2. CASE FenceOld \/ FlipOld \/ PromoteTarget \/ FlipNew
  <2>1. job.old \in Sites /\ job.target \in Sites
    BY <1>2 DEF Typed, JobOK, Promoting, FenceOld, FlipOld, PromoteTarget, FlipNew
  <2>2. \/ site' = site
        \/ site' = [site EXCEPT ![job.old] = Fence(site[job.old])]
        \/ site' = [site EXCEPT ![job.old] =
                                 FlipCiliumService(site[job.old], "remote")]
        \/ site' = [site EXCEPT ![job.target] = Promote(site[job.target])]
        \/ site' = [site EXCEPT ![job.target] =
                                 FlipCiliumService(site[job.target], "local")]
    BY <1>2 DEF FenceOld, FlipOld, PromoteTarget, FlipNew
  <2> QED BY <1>1, <2>1, <2>2
    DEF Fence, Promote, FlipCiliumService, Cluster, SameSources
<1>3. CASE \/ StartReconcile \/ ObserveSite \/ ConsiderAnnotation
           \/ RejectAnnotation \/ AutomaticFailover \/ ClearAnnotation
           \/ UpdateStatus \/ ProbeAgain \/ Crash \/ CooldownExpires \/ Sync
  <2>1. site' = site
    BY <1>3 DEF StartReconcile, ObserveSite, ConsiderAnnotation, RejectAnnotation,
       AutomaticFailover, ClearAnnotation, UpdateStatus, ProbeAgain, Skip, Crash,
       CooldownExpires, Sync
  <2> QED BY <2>1 DEF SameSources
<1>4. CASE SiteStep \/ HumanStep
  BY <1>4, SiteStepShape, HumanShape
  DEF AroundOperator, SafeSites, EditShape, SameSources
<1>5. CASE UNCHANGED vars
  BY <1>5 DEF vars, SameSources
<1> QED BY <1>2, <1>3, <1>4, <1>5 DEF Next, Operator

LEMMA RootedInit == Init => Rooted
<1> SUFFICES ASSUME Init PROVE Rooted
  OBVIOUS
<1>1. /\ pc = "idle" /\ Declared \in Sites
      /\ \A s \in Sites : site[s].primary = (s = Declared)
      /\ \A s \in Sites \ {Declared} : site[s].source = Declared
  BY SpecAssumption DEF Init
<1>2. ASSUME NEW S \in SUBSET {s \in Sites : ~site[s].primary}, S # {}
      PROVE  \E s \in S : site[s].source \in Sites \ S
  <2>1. PICK s \in S : TRUE
    BY <1>2
  <2>2. Declared \notin S /\ s \in Sites \ {Declared}
    BY <1>1
  <2> QED BY <1>1, <2>2
<1> QED BY <1>1, <1>2 DEF Rooted, SourcesReachPrimary

\* The status update names effectivePrimary; the loop leaves it alone.
LEMMA RootedEff ==
  ASSUME Typed, Witnessed, Rooted, [Next]_vars, "convert" \notin Chores,
         pc' \in {"topology", "converge"}
  PROVE  eff' \in Sites /\ site'[eff'].primary
<1>1. CASE UpdateStatus
  <2>1. /\ site' = site /\ eff' = DecidedPrimary
        /\ replicationEndpointFor(DecidedPrimary)
    BY <1>1 DEF UpdateStatus, Return
  <2>2. DecidedPrimary \in Sites
    BY <2>1, ReconcilerAssumption DEF replicationEndpointFor
  <2> QED BY <2>1, <2>2, DecidedIsPrimary, NoSiteAssumption DEF Witnessed
<1>2. CASE ~UpdateStatus
  <2>1. pc \in {"topology", "converge"} /\ eff' = eff
    <3>1. CASE ProbeAgain \/ Converge
      BY <3>1 DEF ProbeAgain, Converge, NextSite, Return
    <3>2. CASE SiteStep \/ HumanStep \/ CooldownExpires \/ Sync \/ UNCHANGED vars
      BY <3>2, SiteStepShape, HumanShape
      DEF AroundOperator, EditShape, CooldownExpires, Sync, vars, local
    <3>3. CASE Crash \/ StartReconcile \/ ObserveSite \/ ConsiderAnnotation
               \/ RejectAnnotation \/ AutomaticFailover
      BY <3>3 DEF Crash, Return, StartReconcile, ObserveSite, ConsiderAnnotation,
         RejectAnnotation, AutomaticFailover, BeginPromotion
    <3>4. CASE FenceOld \/ FlipOld \/ PromoteTarget \/ FlipNew \/ ClearAnnotation
      BY <3>4 DEF FenceOld, FlipOld, PromoteTarget, FlipNew, ClearAnnotation,
         FailPromotion
    <3> QED BY <1>2, <3>1, <3>2, <3>3, <3>4 DEF Next, Operator
  <2>2. eff \in Sites /\ site[eff].primary
    BY <2>1 DEF Rooted
  <2>3. CASE Converge
    BY <2>1, <2>2, <2>3, PrimaryByConverge DEF Converge, Witnessed, LoopSparesPrimary
  <2>4. CASE ~Converge
    BY <2>1, <2>2, <2>4, KeptByOther DEF Kept
  <2> QED BY <2>1, <2>2, <2>3, <2>4
<1> QED BY <1>1, <1>2

LEMMA SourcesByConverge ==
  ASSUME Typed, Witnessed, Rooted, Converge PROVE SourcesReachPrimary'
<1> DEFINE r == SiteAt(pos)
<1>1. /\ r \in Sites /\ site \in [Sites -> Cluster]
      /\ eff \in Sites \ {r} /\ site[eff].primary
  BY SiteAtType DEF Typed, TypeOK, Rooted, Witnessed, LoopSparesPrimary, Converge
<1>2. \/ site' = site
      \/ site' = [site EXCEPT ![r] = Fence(site[r])]
      \/ site' = [site EXCEPT ![r] = Reconfigure(site[r], eff)]
  BY DEF Converge
<1>3. CASE site' = site \/ site' = [site EXCEPT ![r] = Fence(site[r])]
  <2>1. Kept /\ SameSources
    BY <1>1, <1>3 DEF Fence, Cluster, Kept, SameSources
  <2> QED BY <2>1, SourcesKept DEF Rooted
<1>4. CASE site' = [site EXCEPT ![r] = Reconfigure(site[r], eff)]
  <2>1. /\ \A s \in Sites \ {r} : site'[s] = site[s]
        /\ ~site'[r].primary /\ site'[r].source = eff
    BY <1>1, <1>4 DEF Reconfigure, Cluster
  <2> QED BY <1>1, <2>1, SourcesRepointed DEF Rooted
<1> QED BY <1>2, <1>3, <1>4

LEMMA RootedNext ==
  ASSUME Typed, Witnessed, Rooted, [Next]_vars, "convert" \notin Chores
  PROVE  Rooted'
<1>1. CASE Converge
  BY <1>1, RootedEff, SourcesByConverge DEF Rooted
<1>2. CASE ~Converge
  BY <1>2, RootedEff, KeptByOther, SourcesByOther, SourcesKept DEF Rooted
<1> QED BY <1>1, <1>2

(***************************************************************************)
(* With an up-to-date cache the replication sources always lead from every *)
(* replica to a primary: no replication loop, and never a system without a *)
(* primary, whatever calls fail, wherever the operator crashes and however *)
(* the HACluster is edited, for any number of sites.                       *)
(***************************************************************************)
THEOREM SourcesAlwaysReachPrimary ==
  ASSUME StaleReads = FALSE, "convert" \notin Chores
  PROVE  Spec => []SourcesReachPrimary
<1>1. Typed /\ Witnessed /\ Rooted /\ [Next]_vars => Rooted'
  BY RootedNext
<1>2. Rooted => SourcesReachPrimary
  BY DEF Rooted
<1> QED BY <1>1, <1>2, RootedInit, TypedAlways, WitnessedAlways, PTL DEF Spec

-----------------------------------------------------------------------------
(***************************************************************************)
(* The right to write under faults.  OneWriter fails when calls fail, the  *)
(* cache is stale or the operator crashes; what is left of it in every     *)
(* behaviour is the hand-over.                                             *)
(***************************************************************************)
HandedOver ==
  \A s \in Sites :
    ~Writer(s) /\ Writer(s)' =>
      \/ HumanStep
      \/ /\ PromoteTarget /\ s = job.target
         /\ ~Writer(job.old) \/ job.old \in touched

\* No step of a site, and no call of the operator but Promote, makes a writer.
LEMMA SitesMakeNoWriter ==
  ASSUME Typed, SiteStep, NEW u \in Sites, Writer(u)' PROVE Writer(u)
<1>1. PICK s \in Sites :
        \/ LoseReady(s) \/ LoseReach(s) \/ LoseCluster(s)
        \/ RegainReach(s) \/ RegainReady(s) \/ FenceTakesEffect(s)
  BY DEF SiteStep
<1>2. site \in [Sites -> Cluster] /\ site[s] \in Cluster
  BY DEF Typed, TypeOK
<1>3. CASE LoseReady(s) \/ FenceTakesEffect(s)
  BY <1>2, <1>3 DEF LoseReady, FenceTakesEffect, SiteChange, Cluster, Writer
<1>4. CASE LoseReach(s) \/ RegainReach(s)
  BY <1>2, <1>4 DEF LoseReach, RegainReach, SiteChange, Cluster, Writer
<1>5. CASE LoseCluster(s)
  BY <1>2, <1>5 DEF LoseCluster, SiteChange, Cluster, Writer
<1>6. CASE RegainReady(s)
  BY <1>2, <1>6 DEF RegainReady, SiteChange, Cluster, Writer
<1> QED BY <1>1, <1>3, <1>4, <1>5, <1>6

LEMMA CallsMakeNoWriter ==
  ASSUME Typed, FenceOld \/ FlipOld \/ FlipNew \/ Converge,
         NEW u \in Sites, Writer(u)'
  PROVE  Writer(u)
<1>1. site \in [Sites -> Cluster] /\ SiteAt(pos) \in Sites
  BY SiteAtType DEF Typed, TypeOK
<1>2. CASE FenceOld \/ FlipOld \/ FlipNew
  <2>1. job.old \in Sites /\ job.target \in Sites
    BY <1>2 DEF Typed, JobOK, Promoting, FenceOld, FlipOld, FlipNew
  <2>2. \/ site' = site
        \/ site' = [site EXCEPT ![job.old] = Fence(site[job.old])]
        \/ site' = [site EXCEPT ![job.old] =
                                 FlipCiliumService(site[job.old], "remote")]
        \/ site' = [site EXCEPT ![job.target] =
                                 FlipCiliumService(site[job.target], "local")]
    BY <1>2 DEF FenceOld, FlipOld, FlipNew
  <2> QED BY <1>1, <2>1, <2>2 DEF Fence, FlipCiliumService, Cluster, Writer
<1>3. CASE Converge
  <2>1. \/ site' = site
        \/ site' = [site EXCEPT ![SiteAt(pos)] = Fence(site[SiteAt(pos)])]
        \/ site' = [site EXCEPT ![SiteAt(pos)] = Reconfigure(site[SiteAt(pos)], eff)]
    BY <1>3 DEF Converge
  <2> QED BY <1>1, <2>1 DEF Fence, Reconfigure, Cluster, Writer
<1> QED BY <1>2, <1>3

LEMMA HandOverNext ==
  ASSUME Typed, FencedBeforePromote, [Next]_vars PROVE HandedOver
<1> SUFFICES ASSUME NEW u \in Sites, ~Writer(u), Writer(u)', ~HumanStep
             PROVE  /\ PromoteTarget /\ u = job.target
                    /\ ~Writer(job.old) \/ job.old \in touched
  BY DEF HandedOver
<1>1. site' # site
  BY DEF Writer
<1>2. PromoteTarget
  BY <1>1, SitesMakeNoWriter, CallsMakeNoWriter
  DEF Next, Operator, StartReconcile, ObserveSite, ConsiderAnnotation,
      RejectAnnotation, AutomaticFailover, ClearAnnotation, UpdateStatus, ProbeAgain,
      Crash, CooldownExpires, Sync, vars
<1>3. site' = [site EXCEPT ![job.target] = Promote(site[job.target])]
  BY <1>1, <1>2 DEF PromoteTarget
<1>4. u = job.target
  BY <1>3 DEF Typed, TypeOK, Writer
<1>5. ~Writer(job.old) \/ job.old \in touched
  BY <1>2 DEF PromoteTarget, FencedBeforePromote, Writer
<1> QED BY <1>2, <1>4, <1>5

(***************************************************************************)
(* Whatever fails, is lost, is read stale or restarts in between: the      *)
(* operator makes a site a writer only by the Promote of runPromotion, and *)
(* at that moment the site that this promotion demotes is no writer,       *)
(* unless a human undid the fence since.                                   *)
(***************************************************************************)
THEOREM HandOverAlways == Spec => HandOver
<1>1. Typed /\ FencedBeforePromote /\ [Next]_vars => [HandedOver]_vars
  BY HandOverNext
<1>2. Spec => [][HandedOver]_vars
  BY <1>1, TypedAlways, FencingPrecedesPromotion, PTL DEF Spec
<1> QED BY <1>2 DEF HandOver, HandedOver
=============================================================================
