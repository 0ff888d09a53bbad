----------------------------- MODULE Reconciler -----------------------------
(***************************************************************************)
(* The HACluster controller: one worker that runs Reconcile over and over, *)
(* one action per API call, interleaved with everything that happens       *)
(* around it: sites that fail and come back, calls that fail or whose      *)
(* reply is lost, a crash and restart of the operator, a human who edits   *)
(* the HACluster or repairs a site, the clock.                             *)
(***************************************************************************)
EXTENDS SiteDecision

CONSTANTS
  Policy,       \* spec.failover.promotionPolicy
  Threshold,    \* effectiveFailureThreshold(spec.failover)
  Rejoin,       \* spec.failover.rejoinPolicy, defaulted
  Endpoints,    \* the sites with a replicationEndpoint
  Repointable,  \* the sites whose Cluster has an external cluster to repoint
  InitModes,    \* the values of spec.failover.mode to start with
  StaleReads,   \* TRUE: the informer cache may lag behind the API server
  SlowFences,   \* TRUE: a fenced site may be observed before CNPG stops it
  Recoveries,   \* TRUE: a site that lost its ready instances may regain them
  MidwayEdits,  \* TRUE: the human also edits the HACluster during a Reconcile
  Outages,      \* which of {"unready", "unreach", "delete"} sites suffer
  Faults,       \* which of {"call", "crash"} the operator suffers
  Chores,       \* what the human does: see HumanStep
  MaxOutages, MaxFaults, MaxChores   \* bounds for TLC

ASSUME ReconcilerAssumption ==
  /\ Policy \in Policies
  /\ Threshold \in Nat \ {0}
  /\ Rejoin \in {"Manual", "AutoReplica"}
  /\ Endpoints \subseteq Sites
  /\ Repointable \subseteq Sites
  /\ InitModes \subseteq {"Manual", "Automatic"}
  /\ StaleReads \in BOOLEAN /\ SlowFences \in BOOLEAN
  /\ Recoveries \in BOOLEAN /\ MidwayEdits \in BOOLEAN
  /\ MaxOutages \in Nat /\ MaxFaults \in Nat /\ MaxChores \in Nat

VARIABLES
  site,       \* site[s]: the API objects of site s
  store,      \* the HACluster in the API server
  cache,      \* the HACluster in the operator's informer cache
  failCount,  \* the operator's failure counter, kept in memory
  pc,         \* the next step of the running Reconcile
  ha,         \* its copy of the HACluster
  held,       \* ha has the resourceVersion of the store
  prior,      \* priorPrimary
  obs,        \* primaryObs and replicaObs
  pos,        \* position in the loops over all sites
  job,        \* the promotion this Reconcile runs
  promoteErr, \* promoteErr # nil
  eff,        \* effectivePrimary
  stray,      \* fresh.primary of the topology loop
  used,       \* how much of each bound has been used
  touched,    \* history: sites a human changed behind this Reconcile
  recent,     \* history: a promotion finished less than a cooldown ago
  streak      \* history: consecutive reconciles with an unhealthy primary

local == <<ha, held, prior, obs, pos, job, promoteErr, eff, stray>>
history == <<touched, recent, streak>>
vars == <<site, store, cache, failCount, pc, local, used, history>>

-----------------------------------------------------------------------------
(***************************************************************************)
(* The HACluster resource.  cool abstracts status.lastFailoverTime to      *)
(* whether it is less than stabilizationCooldown ago; fip is the condition *)
(* FailoverInProgress.                                                     *)
(***************************************************************************)
HACluster == [present : BOOLEAN, mode : {"Manual", "Automatic"},
              annot : Sites \cup {NoSite}, primary : Sites \cup {NoSite},
              cool : BOOLEAN, fip : BOOLEAN]

NewHACluster(present, mode) ==
  [present |-> present, mode |-> mode, annot |-> NoSite, primary |-> NoSite,
   cool |-> FALSE, fip |-> FALSE]

Job == [kind : {"none", "manual", "auto"}, old : Sites \cup {NoSite},
        target : Sites \cup {NoSite}, done : BOOLEAN]

NoHACluster == NewHACluster(FALSE, "Manual")

NoJob == [kind |-> "none", old |-> NoSite, target |-> NoSite, done |-> FALSE]

\* The declared primary first, then the replicas in spec order.
NumSites == Len(Replicas) + 1
SiteAt(i) == IF i = 1 THEN Declared ELSE Replicas[i - 1]

Steps == {"idle", "observe", "annotation", "reject", "auto", "fence", "flipOld",
          "promote", "flipNew", "clear", "status", "topology", "converge"}

Usage == [outage : Nat, fault : Nat, chore : Nat]

Blank == [s \in Sites |-> Unreachable]

Init ==
  /\ site = [s \in Sites |->
       [reach |-> TRUE, exists |-> TRUE, primary |-> s = Declared,
        fenced |-> FALSE, ready |-> TRUE,
        source |-> IF s = Declared THEN NoSite ELSE Declared,
        affinity |-> "none"]]
  /\ store \in {NewHACluster(TRUE, mode) : mode \in InitModes}
  /\ cache = store
  /\ failCount = 0
  /\ pc = "idle"
  /\ ha = NoHACluster
  /\ held = FALSE
  /\ prior = NoSite
  /\ obs = Blank
  /\ pos = 1
  /\ job = NoJob
  /\ promoteErr = FALSE
  /\ eff = NoSite
  /\ stray = FALSE
  /\ used = [outage |-> 0, fault |-> 0, chore |-> 0]
  /\ touched = {}
  /\ recent = FALSE
  /\ streak = 0

-----------------------------------------------------------------------------
(***************************************************************************)
(* Pieces shared by the operator's steps.                                  *)
(***************************************************************************)

\* The locals of Reconcile go out of scope.
DropLocals ==
  /\ ha' = NoHACluster
  /\ held' = FALSE
  /\ prior' = NoSite
  /\ obs' = Blank
  /\ job' = NoJob
  /\ promoteErr' = FALSE

Return ==
  /\ pc' = "idle"
  /\ DropLocals
  /\ pos' = 1
  /\ eff' = NoSite
  /\ stray' = FALSE
  /\ touched' = {}

\* A write of the HACluster reaches the API server.
Write(new) ==
  /\ store' = new
  /\ cache' = IF StaleReads THEN cache ELSE new

ApiFaults == "call" \in Faults /\ used.fault < MaxFaults

\* A call fails although the server it talks to answers.
Charge(answers, a) ==
  used' = IF answers /\ a \in {"error", "lost"}
          THEN [used EXCEPT !.fault = @ + 1] ELSE used

\* Saturates where the comparison with the threshold no longer changes.
Bump(n) == IF n < Threshold THEN n + 1 ELSE n

\* Variant: the declared primary, whoever was promoted since.
curNameDeclared == Declared

curName == IF ha.primary = NoSite THEN Declared ELSE ha.primary

-----------------------------------------------------------------------------
(***************************************************************************)
(* Reconcile: read the HACluster from the cache, observe the sites.  A     *)
(* lagging cache may hold an old version that differs from the stored one  *)
(* only in fields left out here.                                           *)
(***************************************************************************)
StartReconcile ==
  /\ pc = "idle"
  /\ cache.present
  /\ pc' = "observe"
  /\ ha' = cache
  /\ held' \in {cache = store} \cup (IF StaleReads THEN {FALSE} ELSE {})
  /\ prior' = cache.primary
  /\ UNCHANGED <<site, store, cache, failCount, obs, pos, job, promoteErr, eff,
                 stray, used, history>>

ObserveSite ==
  /\ pc = "observe"
  /\ ~SlowFences => ~(site[SiteAt(pos)].fenced /\ site[SiteAt(pos)].ready)
  /\ obs' = [obs EXCEPT ![SiteAt(pos)] = Probe(site[SiteAt(pos)])]
  /\ IF pos = NumSites
     THEN pc' = "annotation" /\ pos' = 1
     ELSE pc' = pc /\ pos' = pos + 1
  /\ UNCHANGED <<site, store, cache, failCount, ha, held, prior, job, promoteErr,
                 eff, stray, used, history>>

-----------------------------------------------------------------------------
(***************************************************************************)
(* runPromotion.  A failed promotion leaves the annotation, the status and *)
(* the failure counter alone; its error is returned after the status       *)
(* update.  Resolving a client of a site that answers can fail as well:    *)
(* that is the "error" outcome of the first call, Fence.                   *)
(***************************************************************************)
setFailoverInProgress(h, inProgress) == [h EXCEPT !.fip = inProgress]

BeginPromotion(kind, old, target) ==
  /\ job' = [kind |-> kind, old |-> old, target |-> target, done |-> FALSE]
  /\ pc' = IF old = target THEN "status" ELSE "fence"
  /\ promoteErr' = (old = target)
  /\ ha' = setFailoverInProgress(ha, old # target)

FailPromotion ==
  /\ pc' = "status"
  /\ promoteErr' = TRUE
  /\ ha' = setFailoverInProgress(ha, FALSE)

\* Variants: a fence that failed counts as well; a Cluster that is gone does not.
TolerateErrors == {"ok", "notFound", "error"}
TolerateNothing == {"ok"}

\* Outcomes of Fence and of the flip of the old primary that runPromotion
\* accepts: a Cluster that is gone accepts no writes.
Tolerated == {"ok", "notFound"}

FenceOld ==
  /\ pc = "fence"
  /\ \E a \in Outcomes(site[job.old], ApiFaults) :
       /\ site' = IF a \in Stored
                  THEN [site EXCEPT ![job.old] = Fence(@)] ELSE site
       /\ Charge(site[job.old].reach, a)
       /\ IF a \in Tolerated
          THEN pc' = "flipOld" /\ UNCHANGED <<promoteErr, ha>>
          ELSE FailPromotion
  /\ touched' = touched \ {job.old}
  /\ UNCHANGED <<store, cache, failCount, held, prior, obs, pos, job, eff, stray,
                 recent, streak>>

FlipOld ==
  /\ pc = "flipOld"
  /\ \E a \in Outcomes(site[job.old], ApiFaults) :
       /\ site' = IF a \in Stored
                  THEN [site EXCEPT ![job.old] = FlipCiliumService(@, "remote")]
                  ELSE site
       /\ Charge(site[job.old].reach, a)
       /\ IF a \in Tolerated
          THEN pc' = "promote" /\ UNCHANGED <<promoteErr, ha>>
          ELSE FailPromotion
  /\ UNCHANGED <<store, cache, failCount, held, prior, obs, pos, job, eff, stray,
                 history>>

PromoteTarget ==
  /\ pc = "promote"
  /\ \E a \in Outcomes(site[job.target], ApiFaults) :
       /\ site' = IF a \in Stored
                  THEN [site EXCEPT ![job.target] = Promote(@)] ELSE site
       /\ Charge(site[job.target].reach, a)
       /\ IF a = "ok"
          THEN pc' = "flipNew" /\ UNCHANGED <<promoteErr, ha>>
          ELSE FailPromotion
  /\ UNCHANGED <<store, cache, failCount, held, prior, obs, pos, job, eff, stray,
                 history>>

(***************************************************************************)
(* The last call of runPromotion.  An automatic failover is then over; a   *)
(* manual one still has to clear the annotation.                           *)
(***************************************************************************)
Completed(h) == [h EXCEPT !.primary = job.target, !.cool = TRUE, !.fip = FALSE]

FlipNew ==
  /\ pc = "flipNew"
  /\ \E a \in Outcomes(site[job.target], ApiFaults) :
       /\ site' = IF a \in Stored
                  THEN [site EXCEPT ![job.target] = FlipCiliumService(@, "local")]
                  ELSE site
       /\ Charge(site[job.target].reach, a)
       /\ recent' = (recent \/ a = "ok")
       /\ \/ /\ a = "ok" /\ job.kind = "auto"
             /\ pc' = "status"
             /\ ha' = Completed(ha)
             /\ job' = [job EXCEPT !.done = TRUE]
             /\ failCount' = 0
             /\ UNCHANGED promoteErr
          \/ /\ a = "ok" /\ job.kind = "manual"
             /\ pc' = "clear"
             /\ UNCHANGED <<ha, job, failCount, promoteErr>>
          \/ /\ a # "ok"
             /\ FailPromotion
             /\ UNCHANGED <<job, failCount>>
  /\ UNCHANGED <<store, cache, held, prior, obs, pos, eff, stray, touched, streak>>

-----------------------------------------------------------------------------
(***************************************************************************)
(* handlePromoteAnnotation.                                                *)
(***************************************************************************)
CountStreak ==
  streak' = IF ReadyPrimary(obs[curName]) THEN 0 ELSE Bump(streak)

findReplica(name) == \E i \in 1 .. Len(Replicas) : Replicas[i] = name

\* Variant: the target may be a primary already.
AcceptPrimaries ==
  /\ ha.mode = "Manual"
  /\ findReplica(ha.annot)
  /\ obs[ha.annot].Reachable /\ obs[ha.annot].Ready
  /\ ~detectSplitBrain(obs)

Acceptable ==
  /\ ha.mode = "Manual"
  /\ findReplica(ha.annot)
  /\ HealthyReplica(obs[ha.annot])
  /\ ~detectSplitBrain(obs)

ConsiderAnnotation ==
  /\ pc = "annotation"
  /\ CountStreak
  /\ \/ /\ ha.annot = NoSite
        /\ pc' = "auto"
        /\ UNCHANGED <<ha, job, promoteErr>>
     \/ /\ ha.annot # NoSite /\ ~Acceptable
        /\ pc' = "reject"
        /\ UNCHANGED <<ha, job, promoteErr>>
     \/ /\ ha.annot # NoSite /\ Acceptable
        /\ BeginPromotion("manual", currentPrimaryForPromotion(ha.primary, obs),
                          ha.annot)
  /\ UNCHANGED <<site, store, cache, failCount, held, prior, obs, pos, eff, stray,
                 used, touched, recent>>

(***************************************************************************)
(* clearPromoteAnnotation: a merge patch without a resourceVersion.  The   *)
(* reply replaces ha, status and resourceVersion included; priorPrimary    *)
(* keeps the value read at the start.                                      *)
(***************************************************************************)
PatchOutcomes ==
  IF store.present THEN {"ok"} \cup (IF ApiFaults THEN {"error", "lost"} ELSE {})
  ELSE {"notFound"}

PatchAnnotation(a) ==
  /\ Charge(TRUE, a)
  /\ IF a \in Stored
     THEN Write([store EXCEPT !.annot = NoSite])
     ELSE UNCHANGED <<store, cache>>
  /\ held' = IF a = "ok" THEN TRUE ELSE held /\ a # "lost"

RejectAnnotation ==
  /\ pc = "reject"
  /\ \E a \in PatchOutcomes :
       /\ PatchAnnotation(a)
       /\ ha' = IF a = "ok" THEN store' ELSE ha
       /\ pc' = IF a = "ok" THEN "auto" ELSE "status"
       /\ promoteErr' = (a # "ok")
  /\ UNCHANGED <<site, failCount, prior, obs, pos, job, eff, stray, history>>

(***************************************************************************)
(* After a manual promotion.  On an error the condition FailoverInProgress *)
(* stays set in ha.                                                        *)
(***************************************************************************)
ClearAnnotation ==
  /\ pc = "clear"
  /\ \E a \in PatchOutcomes :
       /\ PatchAnnotation(a)
       /\ ha' = IF a = "ok" THEN Completed(store') ELSE ha
       /\ pc' = IF a = "ok" THEN "auto" ELSE "status"
       /\ job' = [job EXCEPT !.done = (a = "ok")]
       /\ promoteErr' = (a # "ok")
  /\ UNCHANGED <<site, failCount, prior, obs, pos, eff, stray, history>>

-----------------------------------------------------------------------------
(***************************************************************************)
(* handleAutomaticFailover.                                                *)
(***************************************************************************)
\* Variants: once a failure is counted a healthy primary does not reset the
\* counter; the cooldown is not consulted.
SuspendedUntilFailure ==
  \/ detectSplitBrain(obs) \/ ha.cool
  \/ ReadyPrimary(obs[curName]) /\ failCount = 0
SuspendedIgnoringCooldown == detectSplitBrain(obs) \/ ReadyPrimary(obs[curName])

AutoSuspended == detectSplitBrain(obs) \/ ha.cool \/ ReadyPrimary(obs[curName])

AutomaticFailover ==
  /\ pc = "auto"
  /\ \/ /\ ha.mode # "Automatic"
        /\ pc' = "status"
        /\ UNCHANGED <<failCount, ha, job, promoteErr>>
     \/ /\ ha.mode = "Automatic" /\ AutoSuspended
        /\ failCount' = 0
        /\ pc' = "status"
        /\ UNCHANGED <<ha, job, promoteErr>>
     \/ /\ ha.mode = "Automatic" /\ ~AutoSuspended
        /\ failCount' = Bump(failCount)
        /\ \/ /\ failCount' < Threshold \/ chooseTarget(Policy, obs, curName) = {}
              /\ pc' = "status"
              /\ UNCHANGED <<ha, job, promoteErr>>
           \/ /\ failCount' >= Threshold
              /\ \E t \in chooseTarget(Policy, obs, curName) :
                   BeginPromotion("auto", curName, t)
  /\ UNCHANGED <<site, store, cache, held, prior, obs, pos, eff, stray, used,
                 history>>

-----------------------------------------------------------------------------
(***************************************************************************)
(* The status update, with the resourceVersion of ha.  It fails with a     *)
(* conflict when the HACluster changed since.                              *)
(***************************************************************************)
\* Variant: without an observed primary the status returns to the declared one.
DecidedOrDeclared ==
  LET seen == IF job.done THEN applyPromotionEffect(obs, job.old, job.target)
                          ELSE obs
      current == decideCurrentPrimary(seen)
  IN  IF current # NoSite THEN current ELSE Declared

DecidedPrimary ==
  LET seen == IF job.done THEN applyPromotionEffect(obs, job.old, job.target)
                          ELSE obs
      current == decideCurrentPrimary(seen)
  IN  IF current # NoSite THEN current ELSE prior

StatusOutcomes ==
  IF held THEN {"ok"} \cup (IF ApiFaults THEN {"error", "lost"} ELSE {})
  ELSE {"conflict"}

\* The site is known and has an endpoint; without one the topology is left alone.
replicationEndpointFor(siteName) == siteName \in Endpoints

UpdateStatus ==
  /\ pc = "status"
  /\ \E a \in StatusOutcomes :
       /\ Charge(TRUE, a)
       /\ IF a \in Stored
          THEN Write([store EXCEPT !.primary = DecidedPrimary,
                                   !.cool = ha.cool, !.fip = ha.fip])
          ELSE UNCHANGED <<store, cache>>
       /\ IF a = "ok" /\ ~promoteErr /\ replicationEndpointFor(DecidedPrimary)
          THEN /\ pc' = "topology"
               /\ eff' = DecidedPrimary
               /\ DropLocals
               /\ UNCHANGED <<pos, stray, touched>>
          ELSE Return
  /\ UNCHANGED <<site, failCount, recent, streak>>

-----------------------------------------------------------------------------
(***************************************************************************)
(* reconcileReplicaTopology: probe every other site again and make it      *)
(* follow effectivePrimary.  The first error ends the loop.                *)
(***************************************************************************)
\* Variant: the loop runs one site too far.
NextSiteTooFar ==
  IF pos > NumSites THEN Return
  ELSE /\ pc' = "topology"
       /\ pos' = pos + 1
       /\ stray' = FALSE
       /\ UNCHANGED <<ha, held, prior, obs, job, promoteErr, eff, touched>>

NextSite ==
  IF pos = NumSites THEN Return
  ELSE /\ pc' = "topology"
       /\ pos' = pos + 1
       /\ stray' = FALSE
       /\ UNCHANGED <<ha, held, prior, obs, job, promoteErr, eff, touched>>

\* Variant: the loop does not spare the primary.
SkipUnreachable(s) == ~Probe(site[s]).Reachable

Skip(s) == s = eff \/ ~Probe(site[s]).Reachable

ProbeAgain ==
  /\ pc = "topology"
  /\ LET s == SiteAt(pos) IN
       \/ /\ Skip(s)
          /\ NextSite
       \/ /\ ~Skip(s)
          /\ pc' = "converge"
          /\ stray' = Probe(site[s]).Primary
          /\ touched' = touched \ {s}
          /\ UNCHANGED <<ha, held, prior, obs, pos, job, promoteErr, eff>>
  /\ UNCHANGED <<site, store, cache, failCount, used, recent, streak>>

\* Variant: the policies are swapped.
FenceStrayUnderAuto == stray /\ Rejoin = "AutoReplica"

\* Fence a stray primary under Manual; otherwise make the site a replica.
FenceStray == stray /\ Rejoin # "AutoReplica"

Converge ==
  /\ pc = "converge"
  /\ LET s == SiteAt(pos) IN
     \E a \in IF FenceStray \/ s \in Repointable
              THEN Outcomes(site[s], ApiFaults) ELSE {"refused"} :
       /\ site' = IF a \notin Stored THEN site
                  ELSE IF FenceStray THEN [site EXCEPT ![s] = Fence(@)]
                  ELSE [site EXCEPT ![s] = Reconfigure(@, eff)]
       /\ Charge(site[s].reach, a)
       /\ IF a = "ok" THEN NextSite ELSE Return
  /\ UNCHANGED <<store, cache, failCount, recent, streak>>

Operator ==
  \/ StartReconcile \/ ObserveSite \/ ConsiderAnnotation \/ RejectAnnotation
  \/ AutomaticFailover \/ FenceOld \/ FlipOld \/ PromoteTarget \/ FlipNew
  \/ ClearAnnotation \/ UpdateStatus \/ ProbeAgain \/ Converge

\* The operator's process dies and is started again, at any point.
Crash ==
  /\ "crash" \in Faults /\ used.fault < MaxFaults
  /\ pc # "idle" \/ failCount # 0
  /\ used' = [used EXCEPT !.fault = @ + 1]
  /\ failCount' = 0
  /\ cache' = store
  /\ Return
  /\ UNCHANGED <<site, store, recent, streak>>

-----------------------------------------------------------------------------
(***************************************************************************)
(* The sites: CNPG, the nodes below it and the network in between.         *)
(***************************************************************************)
SiteChange(s, c) ==
  /\ site' = [site EXCEPT ![s] = c]
  /\ UNCHANGED <<store, cache, failCount, pc, local, recent, streak>>

Outage(kind) ==
  /\ kind \in Outages
  /\ used.outage < MaxOutages
  /\ used' = [used EXCEPT !.outage = @ + 1]
  /\ UNCHANGED touched

LoseReady(s) ==
  /\ Outage("unready")
  /\ site[s].ready
  /\ SiteChange(s, [site[s] EXCEPT !.ready = FALSE])

\* The declared site is the operator's own cluster, with the HACluster in it.
LoseReach(s) ==
  /\ Outage("unreach")
  /\ s # Declared
  /\ site[s].reach
  /\ SiteChange(s, [site[s] EXCEPT !.reach = FALSE])

LoseCluster(s) ==
  /\ Outage("delete")
  /\ site[s].exists
  /\ SiteChange(s, [site[s] EXCEPT !.exists = FALSE, !.fenced = FALSE,
                                   !.ready = FALSE, !.affinity = "none"])

RegainReach(s) ==
  /\ ~site[s].reach
  /\ SiteChange(s, [site[s] EXCEPT !.reach = TRUE])
  /\ UNCHANGED <<used, touched>>

\* CNPG starts the instances of a Cluster that is not fenced.
RegainReady(s) ==
  /\ Recoveries
  /\ site[s].exists /\ ~site[s].fenced /\ ~site[s].ready
  /\ SiteChange(s, [site[s] EXCEPT !.ready = TRUE])
  /\ UNCHANGED <<used, touched>>

\* CNPG stops the instances of a fenced Cluster.
FenceTakesEffect(s) ==
  /\ site[s].fenced /\ site[s].ready
  /\ SiteChange(s, [site[s] EXCEPT !.ready = FALSE])
  /\ UNCHANGED <<used, touched>>

SiteStep ==
  \E s \in Sites :
    \/ LoseReady(s) \/ LoseReach(s) \/ LoseCluster(s)
    \/ RegainReach(s) \/ RegainReady(s) \/ FenceTakesEffect(s)

-----------------------------------------------------------------------------
(***************************************************************************)
(* The human: repairs sites, requests promotions, edits the HACluster.     *)
(***************************************************************************)
Chore(kind) ==
  /\ kind \in Chores
  /\ used.chore < MaxChores
  /\ used' = [used EXCEPT !.chore = @ + 1]

Touch(s) == touched' = IF pc = "idle" THEN touched ELSE touched \cup {s}

\* "rejoin" is the unfencing of a site that has been rebuilt as a replica.
Unfence(s) ==
  /\ Chore("unfence") \/ (Chore("rejoin") /\ ~site[s].primary)
  /\ site[s].fenced
  /\ SiteChange(s, [site[s] EXCEPT !.fenced = FALSE])
  /\ Touch(s)

\* A lost Cluster is created again, in the role it had.
RestoreCluster(s) ==
  /\ Chore("restore")
  /\ ~site[s].exists
  /\ SiteChange(s, [site[s] EXCEPT !.exists = TRUE])
  /\ Touch(s)

\* spec.replica.enabled of a Cluster is set by hand: a replica is promoted, or a
\* primary becomes a replica of the source it had.
ConvertCluster(s) ==
  /\ Chore("convert")
  /\ site[s].exists
  /\ SiteChange(s, [site[s] EXCEPT !.primary = ~@])
  /\ Touch(s)

EditHACluster(new) ==
  /\ pc = "idle" \/ MidwayEdits
  /\ Write(new)
  /\ held' = FALSE
  /\ UNCHANGED <<site, failCount, pc, ha, prior, obs, pos, job, promoteErr, eff,
                 stray, history>>

Annotate(t) ==
  /\ Chore("annotate")
  /\ store.present /\ store.annot = NoSite
  /\ EditHACluster([store EXCEPT !.annot = t])

SwitchMode ==
  /\ Chore("mode")
  /\ store.present
  /\ EditHACluster([store EXCEPT !.mode =
       IF @ = "Manual" THEN "Automatic" ELSE "Manual"])

DeleteHACluster ==
  /\ Chore("recreate")
  /\ store.present
  /\ EditHACluster(NewHACluster(FALSE, store.mode))

\* The second half of the chore "recreate".
CreateHACluster ==
  /\ ~store.present
  /\ EditHACluster(NewHACluster(TRUE, store.mode))
  /\ UNCHANGED used

HumanStep ==
  \/ \E s \in Sites :
       Unfence(s) \/ RestoreCluster(s) \/ ConvertCluster(s) \/ Annotate(s)
  \/ SwitchMode \/ DeleteHACluster \/ CreateHACluster

(***************************************************************************)
(* stabilizationCooldown passes since lastFailoverTime.  The handlers of   *)
(* one Reconcile follow each other without a call in between, so it does   *)
(* not pass between a manual promotion and handleAutomaticFailover.        *)
(***************************************************************************)
CooldownExpires ==
  /\ recent \/ store.cool \/ cache.cool \/ ha.cool
  /\ ~(pc = "auto" /\ job.done)
  /\ store' = [store EXCEPT !.cool = FALSE]
  /\ cache' = [cache EXCEPT !.cool = FALSE]
  /\ ha' = [ha EXCEPT !.cool = FALSE]
  /\ recent' = FALSE
  /\ UNCHANGED <<site, failCount, pc, held, prior, obs, pos, job, promoteErr, eff,
                 stray, used, touched, streak>>

\* The informer catches up with the API server.
Sync ==
  /\ cache # store
  /\ cache' = store
  /\ UNCHANGED <<site, store, failCount, pc, local, used, history>>

Next ==
  Operator \/ Crash \/ SiteStep \/ HumanStep \/ CooldownExpires \/ Sync

Spec == Init /\ [][Next]_vars

(***************************************************************************)
(* controller-runtime requeues after every Reconcile, with or without an   *)
(* error; informers catch up; time passes; CNPG acts on a fence.           *)
(***************************************************************************)
Fairness ==
  /\ WF_vars(Operator)
  /\ WF_vars(Sync)
  /\ WF_vars(CooldownExpires)
  /\ \A s \in Sites : WF_vars(FenceTakesEffect(s))

FairSpec == Spec /\ Fairness

-----------------------------------------------------------------------------
(***************************************************************************)
(* Properties.                                                             *)
(***************************************************************************)

\* Every variable keeps its type; the operator's locals are sites where the
\* step at hand dereferences them.
TypeOK ==
  /\ site \in [Sites -> Cluster]
  /\ store \in HACluster
  /\ cache \in HACluster
  /\ failCount \in 0 .. Threshold
  /\ pc \in Steps
  /\ ha \in HACluster
  /\ held \in BOOLEAN
  /\ prior \in Sites \cup {NoSite}
  /\ obs \in Buffer
  /\ pos \in 1 .. NumSites
  /\ job \in Job
  /\ promoteErr \in BOOLEAN
  /\ eff \in Sites \cup {NoSite}
  /\ stray \in BOOLEAN
  /\ used \in Usage
  /\ touched \subseteq Sites
  /\ recent \in BOOLEAN
  /\ streak \in 0 .. Threshold

(***************************************************************************)
(* Fencing comes before promotion (runPromotion, promotion.Fence): from    *)
(* the fence on, until the promotion is over or given up, the old primary  *)
(* is fenced or gone, unless a human undid that meanwhile.                 *)
(***************************************************************************)
FencedBeforePromote ==
  pc \in {"flipOld", "promote", "flipNew", "clear"} =>
    \/ site[job.old].fenced
    \/ ~site[job.old].exists
    \/ job.old \in touched

(***************************************************************************)
(* The site named by status.currentPrimarySite is a CNPG primary, through  *)
(* failovers, adoptions of an observed primary, failed status updates and  *)
(* rebuilds of other sites: Reconcile updates the status after the action  *)
(* and reconcileReplicaTopology spares the site it just accepted.          *)
(***************************************************************************)
AcceptedIsPrimary ==
  store.primary # NoSite => site[store.primary].primary

(***************************************************************************)
(* Under rejoinPolicy Manual the operator never turns a primary into a     *)
(* replica, which would discard its data: the guard of                     *)
(* reconcileReplicaTopology that probes again instead of trusting the      *)
(* observations the promotion rewrote.  Only a human does, or somebody     *)
(* behind the back of that probe: the site is converted between it and the *)
(* write that follows from it.                                             *)
(***************************************************************************)
ManualRejoinKeepsData ==
  [][\A s \in Sites :
       Rejoin = "Manual" /\ site[s].primary /\ ~site'[s].primary =>
         HumanStep \/ s \in touched]_vars

(***************************************************************************)
(* Replication never runs in a circle, and the operator never demotes the  *)
(* last primary: every set of replicas has one that streams from a site    *)
(* outside the set, so from every replica the sources lead to a primary.   *)
(* Reconfigure names as the source the site that the status update just    *)
(* accepted, over all failovers, adoptions, rebuilds and retries.          *)
(***************************************************************************)
SourcesReachPrimary ==
  \A S \in SUBSET {s \in Sites : ~site[s].primary} :
    S # {} => \E s \in S : site[s].source \in Sites \ S

(***************************************************************************)
(* At most one site accepts writes: an existing primary that is not        *)
(* fenced.  What the fence in runPromotion and the fencing or rebuilding   *)
(* of strays are for.                                                      *)
(***************************************************************************)
Writer(s) == site[s].exists /\ site[s].primary /\ ~site[s].fenced

OneWriter == \A s, t \in Sites : Writer(s) /\ Writer(t) => s = t

(***************************************************************************)
(* What is left of OneWriter when calls fail, replies are lost, reads are  *)
(* stale or the operator crashes: it makes a site a writer only by the     *)
(* Promote of runPromotion, and at that moment the site which this         *)
(* promotion demotes is no writer, unless a human undid the fence since.   *)
(***************************************************************************)
HandOver ==
  [][\A s \in Sites :
       ~Writer(s) /\ Writer(s)' =>
         \/ HumanStep
         \/ /\ PromoteTarget /\ s = job.target
            /\ ~Writer(job.old) \/ job.old \in touched]_vars

(***************************************************************************)
(* The reconciler implements WriteToken: the right to write passes from    *)
(* site to site through a state in which nobody holds it (Fence before     *)
(* Promote in runPromotion), is never given back to a site that lost it    *)
(* before reconcileReplicaTopology rebuilt it, and no site that holds it   *)
(* is rebuilt.                                                             *)
(***************************************************************************)
Token == INSTANCE WriteToken WITH
  First <- Declared,
  writers <- {s \in Sites : Writer(s)},
  retired <- {s \in Sites : site[s].primary /\ ~Writer(s)}

TokenPasses == Token!Spec

(***************************************************************************)
(* The write traffic of the mesh follows the right to write: at most one   *)
(* -rw Service attracts it, and the Service of the writer never sends it   *)
(* away, except for the moment between Promote and the second call of      *)
(* FlipCiliumService in runPromotion.                                      *)
(***************************************************************************)
TrafficFollows ==
  \A s \in Sites :
    /\ Writer(s) /\ site[s].affinity = "remote" => pc = "flipNew" /\ s = job.target
    /\ site[s].affinity = "local" =>
         \A t \in Sites \ {s} : site[t].affinity # "local" /\ ~Writer(t)

(***************************************************************************)
(* handleAutomaticFailover promotes only after the current primary was     *)
(* observed unhealthy in Threshold consecutive reconciles.                 *)
(***************************************************************************)
AutoStarting == pc = "fence" /\ job.kind = "auto"

ThresholdRespected == AutoStarting => streak >= Threshold

(***************************************************************************)
(* handleAutomaticFailover starts no promotion less than a                 *)
(* stabilizationCooldown after the previous one finished, also across a    *)
(* restart of the operator.                                                *)
(***************************************************************************)
CooldownHolds == AutoStarting => ~recent

(***************************************************************************)
(* Automatic failover happens: it is impossible that for ever the mode is  *)
(* Automatic, the accepted primary is down behind an API that answers, and *)
(* a replica is healthy.                                                   *)
(***************************************************************************)
PrimaryDown ==
  LET p == IF store.primary = NoSite THEN Declared ELSE store.primary IN
    /\ site[p].reach
    /\ ~ReadyPrimary(Probe(site[p]))
    /\ \E s \in Sites \ {p, Declared} : HealthyReplica(Probe(site[s]))

FailoverHappens ==
  ~<>[](store.present /\ store.mode = "Automatic" /\ PrimaryDown)

(***************************************************************************)
(* Every promotion request is settled while all sites answer:              *)
(* handlePromoteAnnotation carries it out or rejects it, and retries after *)
(* errors.                                                                 *)
(***************************************************************************)
RequestSettled ==
  ~<>[](store.annot # NoSite /\ \A s \in Sites : site[s].reach)

(***************************************************************************)
(* reconcileReplicaTopology makes every reachable replica stream from the  *)
(* accepted primary while that one is healthy.                             *)
(***************************************************************************)
Astray(s) ==
  /\ store.primary \in Endpoints \ {s}
  /\ ReadyPrimary(Probe(site[store.primary]))
  /\ Probe(site[s]).Reachable /\ ~site[s].primary
  /\ site[s].source # store.primary

ReplicasFollow == \A s \in Sites : ~<>[]Astray(s)

-----------------------------------------------------------------------------
(***************************************************************************)
(* What the documentation says and the code does not do: each of these is  *)
(* refuted by a run.                                                       *)
(***************************************************************************)

\* A primary rebuilt under rejoinPolicy AutoReplica becomes a replica that
\* serves without anybody's help (hacluster_types.go, RejoinPolicyAutoReplica).
RejoinedReplicaServes ==
  \A s \in Sites : ~<>[](site[s].exists /\ ~site[s].primary /\ site[s].fenced)
=============================================================================
