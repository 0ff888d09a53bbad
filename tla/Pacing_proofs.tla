---------------------------- MODULE Pacing_proofs ----------------------------
(***************************************************************************)
(* The pace of automatic failovers, for every threshold and every number   *)
(* of sites: the cooldown between two failovers and the count of unhealthy *)
(* reconciles before one.  Sites may fail in every way and humans may      *)
(* repair or convert Clusters at any moment; each theorem names what of    *)
(* the rest it excludes, and no more.                                      *)
(***************************************************************************)
EXTENDS Reconciler_proofs

(***************************************************************************)
(* What the writes of the HACluster keep.                                  *)
(***************************************************************************)
Edit == (\E s \in Sites : Annotate(s)) \/ SwitchMode \/ DeleteHACluster
          \/ CreateHACluster

LEMMA EditKeeps ==
  ASSUME Typed, Edit
  PROVE  /\ EditShape
         /\ pc = "idle" \/ MidwayEdits = TRUE
         /\ "mode" \notin Chores => store'.mode = store.mode
         /\ "annotate" \notin Chores => store'.annot \in {store.annot, NoSite}
         /\ "recreate" \notin Chores /\ store.present =>
              store'.present /\ store'.primary = store.primary
                /\ store'.cool = store.cool
<1>1. EditShape
  BY EditsShape DEF Edit
<1>2. store \in HACluster /\ MidwayEdits \in BOOLEAN
  BY ReconcilerAssumption DEF Typed, TypeOK
<1>3. pc = "idle" \/ MidwayEdits = TRUE
  BY <1>2 DEF Edit, Annotate, SwitchMode, DeleteHACluster, CreateHACluster,
     EditHACluster
<1>4. ASSUME NEW s \in Sites, Annotate(s)
      PROVE  /\ "annotate" \in Chores
             /\ store'.mode = store.mode /\ store'.present = store.present
             /\ store'.primary = store.primary /\ store'.cool = store.cool
  <2>1. "annotate" \in Chores /\ store' = [store EXCEPT !.annot = s]
    BY <1>4 DEF Annotate, Chore, EditHACluster, Write
  <2> QED BY <1>2, <2>1 DEF HACluster
<1>5. CASE SwitchMode
  <2>1. /\ "mode" \in Chores
        /\ \E m : store' = [store EXCEPT !.mode = m]
    BY <1>5 DEF SwitchMode, Chore, EditHACluster, Write
  <2>2. /\ store'.annot = store.annot /\ store'.present = store.present
        /\ store'.primary = store.primary /\ store'.cool = store.cool
    BY <1>2, <2>1 DEF HACluster
  <2> QED BY <1>1, <1>3, <2>1, <2>2
<1>6. CASE DeleteHACluster \/ CreateHACluster
  <2>1. /\ "recreate" \in Chores \/ ~store.present
        /\ \E x \in BOOLEAN : store' = NewHACluster(x, store.mode)
    BY <1>6 DEF DeleteHACluster, CreateHACluster, Chore, EditHACluster, Write
  <2>2. store'.mode = store.mode /\ store'.annot = NoSite
    BY <2>1 DEF NewHACluster
  <2> QED BY <1>1, <1>3, <2>1, <2>2
<1> QED BY <1>1, <1>3, <1>4, <1>5, <1>6 DEF Edit

LEMMA PatchKeeps ==
  ASSUME Typed, NEW a, PatchAnnotation(a)
  PROVE  /\ store'.mode = store.mode /\ store'.present = store.present
         /\ store'.primary = store.primary /\ store'.cool = store.cool
         /\ store'.annot \in {store.annot, NoSite}
         /\ cache' \in {cache, store'}
         /\ StaleReads = FALSE /\ cache = store => cache' = store'
<1>1. \/ store' = store /\ cache' = cache
      \/ /\ store' = [store EXCEPT !.annot = NoSite]
         /\ cache' = IF StaleReads THEN cache ELSE store'
  BY DEF PatchAnnotation, Write
<1>2. store \in HACluster
  BY DEF Typed, TypeOK
<1> QED BY <1>1, <1>2 DEF HACluster

LEMMA StatusKeeps ==
  ASSUME Typed, UpdateStatus
  PROVE  /\ store'.mode = store.mode /\ store'.present = store.present
         /\ store'.annot = store.annot
         /\ cache' \in {cache, store'}
         /\ StaleReads = FALSE /\ cache = store => cache' = store'
         /\ pc' \in {"topology", "idle"} /\ job' = NoJob /\ ha' = NoHACluster
         /\ UNCHANGED <<failCount, recent, streak>>
<1>1. \/ store' = store /\ cache' = cache
      \/ /\ store' = [store EXCEPT !.primary = DecidedPrimary,
                                   !.cool = ha.cool, !.fip = ha.fip]
         /\ cache' = IF StaleReads THEN cache ELSE store'
  BY DEF UpdateStatus, Write
<1>2. store \in HACluster
  BY DEF Typed, TypeOK
<1>3. /\ store'.mode = store.mode /\ store'.present = store.present
      /\ store'.annot = store.annot
  BY <1>1, <1>2 DEF HACluster
<1>4. /\ pc' \in {"topology", "idle"} /\ job' = NoJob /\ ha' = NoHACluster
      /\ UNCHANGED <<failCount, recent, streak>>
  BY DEF UpdateStatus, Return, DropLocals
<1> QED BY <1>1, <1>3, <1>4

\* The loop over the sites, a crash and a return leave no promotion behind.
LEMMA LoopKeeps ==
  ASSUME ProbeAgain \/ Converge
  PROVE  /\ pc \in {"topology", "converge"}
         /\ pc' \in {"topology", "converge", "idle"}
         /\ job' \in {job, NoJob} /\ ha' \in {ha, NoHACluster}
         /\ UNCHANGED <<store, cache, failCount, recent, streak>>
  BY DEF ProbeAgain, Converge, NextSite, Return, DropLocals

LEMMA BeginKeeps ==
  ASSUME Typed, NEW k, NEW o, NEW t, BeginPromotion(k, o, t)
  PROVE  /\ pc' \in {"status", "fence"} /\ job'.kind = k /\ job'.done = FALSE
         /\ ha'.mode = ha.mode /\ ha'.primary = ha.primary
         /\ ha'.cool = ha.cool /\ ha'.annot = ha.annot
<1>1. /\ pc' \in {"status", "fence"} /\ job'.kind = k /\ job'.done = FALSE
      /\ ha' = [ha EXCEPT !.fip = (o # t)]
  BY DEF BeginPromotion, setFailoverInProgress
<1> QED BY <1>1 DEF Typed, TypeOK, HACluster

\* The writes of runPromotion at the sites.
LEMMA CallKeeps ==
  ASSUME Typed, FenceOld \/ FlipOld \/ PromoteTarget
  PROVE  /\ pc \in {"fence", "flipOld", "promote"}
         /\ pc' \in {"flipOld", "promote", "flipNew", "status"}
         /\ UNCHANGED <<store, cache, failCount, held, obs, job, recent, streak>>
         /\ ha'.mode = ha.mode /\ ha'.primary = ha.primary
         /\ ha'.cool = ha.cool /\ ha'.annot = ha.annot
<1>1. /\ pc \in {"fence", "flipOld", "promote"}
      /\ pc' \in {"flipOld", "promote", "flipNew", "status"}
      /\ UNCHANGED <<store, cache, failCount, held, obs, job, recent, streak>>
  BY DEF FenceOld, FlipOld, PromoteTarget, FailPromotion, history
<1>2. ha' = ha \/ ha' = [ha EXCEPT !.fip = FALSE]
  BY DEF FenceOld, FlipOld, PromoteTarget, FailPromotion, setFailoverInProgress
<1> QED BY <1>1, <1>2 DEF Typed, TypeOK, HACluster

LEMMA FlipNewKeeps ==
  ASSUME Typed, FlipNew
  PROVE  /\ pc = "flipNew" /\ pc' \in {"clear", "status"}
         /\ UNCHANGED <<store, cache, held, obs, streak>>
         /\ failCount' \in {0, failCount}
         /\ ha'.mode = ha.mode /\ ha'.annot = ha.annot
         /\ \/ pc' = "status" /\ job'.done /\ ha'.cool
            \/ pc' = "clear" /\ job' = job /\ ha' = ha
            \/ /\ pc' = "status" /\ job' = job /\ recent' = recent
               /\ ha'.primary = ha.primary /\ ha'.cool = ha.cool
<1>1. /\ pc = "flipNew" /\ pc' \in {"clear", "status"}
      /\ UNCHANGED <<store, cache, held, obs, streak>>
      /\ failCount' \in {0, failCount}
  BY DEF FlipNew, FailPromotion
<1>2. \/ pc' = "status" /\ ha' = Completed(ha) /\ job' = [job EXCEPT !.done = TRUE]
      \/ pc' = "clear" /\ ha' = ha /\ job' = job
      \/ /\ pc' = "status" /\ ha' = [ha EXCEPT !.fip = FALSE]
         /\ job' = job /\ recent' = recent
  BY DEF FlipNew, FailPromotion, setFailoverInProgress, Typed, TypeOK
<1>3. ha \in HACluster /\ job \in Job
  BY DEF Typed, TypeOK
<1> QED BY <1>1, <1>2, <1>3 DEF Completed, HACluster, Job

\* A step around the operator: no locals and no copies of the HACluster change.
Aside == UNCHANGED <<store, cache, failCount, pc, local, recent, streak>>

LEMMA StepKinds ==
  ASSUME Typed, [Next]_vars
  PROVE  Operator \/ Crash \/ Aside \/ Edit \/ CooldownExpires \/ Sync
<1>1. SiteStep => Aside
  BY SiteStepShape DEF AroundOperator, Aside
<1>2. HumanStep => Aside \/ Edit
  BY RepairShape DEF HumanStep, Edit, AroundOperator, Aside
<1>3. UNCHANGED vars => Aside
  BY DEF vars, history, Aside
<1> QED BY <1>1, <1>2, <1>3 DEF Next

LEMMA ExpiresKeeps ==
  ASSUME Typed, CooldownExpires
  PROVE  /\ store'.mode = store.mode /\ cache'.mode = cache.mode /\ ha'.mode = ha.mode
         /\ store'.primary = store.primary /\ ha'.primary = ha.primary
         /\ store'.annot = store.annot /\ cache'.annot = cache.annot
         /\ ha'.annot = ha.annot /\ store'.present = store.present
         /\ ha'.cool = FALSE /\ recent' = FALSE
         /\ cache = store => cache' = store'
         /\ ~(pc = "auto" /\ job.done)
         /\ UNCHANGED <<failCount, pc, held, obs, job, streak>>
<1>1. store \in HACluster /\ cache \in HACluster /\ ha \in HACluster
  BY DEF Typed, TypeOK
<1> QED BY <1>1 DEF CooldownExpires, HACluster

-----------------------------------------------------------------------------
(***************************************************************************)
(* A completed promotion of this Reconcile: handleAutomaticFailover, which *)
(* follows it in the same Reconcile, sees its lastFailoverTime.            *)
(***************************************************************************)
Finished ==
  /\ job.done => pc \in {"auto", "status"}
  /\ pc = "auto" /\ job.done => ha.cool

LEMMA FinishedInit == Init => Finished
  BY DEF Init, NoJob, Finished

LEMMA FinishedOperator ==
  ASSUME Typed, Finished, Operator PROVE Finished'
<1>1. CASE StartReconcile \/ ObserveSite
  BY <1>1 DEF StartReconcile, ObserveSite, Finished
<1>2. CASE ConsiderAnnotation
  BY <1>2, BeginKeeps DEF ConsiderAnnotation, Finished
<1>3. CASE RejectAnnotation
  BY <1>3 DEF RejectAnnotation, Finished
<1>4. CASE AutomaticFailover
  <2>1. CASE pc' = "status"
    BY <2>1 DEF Finished
  <2>2. CASE \E t \in chooseTarget(Policy, obs, curName) :
               BeginPromotion("auto", curName, t)
    BY <2>2, BeginKeeps DEF Finished
  <2> QED BY <1>4, <2>1, <2>2 DEF AutomaticFailover
<1>5. CASE FenceOld \/ FlipOld \/ PromoteTarget
  BY <1>5, CallKeeps DEF Finished
<1>6. CASE FlipNew
  BY <1>6, FlipNewKeeps DEF Finished
<1>7. CASE ClearAnnotation
  <2>1. PICK a \in PatchOutcomes :
          /\ PatchAnnotation(a)
          /\ ha' = IF a = "ok" THEN Completed(store') ELSE ha
          /\ pc' = IF a = "ok" THEN "auto" ELSE "status"
          /\ job' = [job EXCEPT !.done = (a = "ok")]
    BY <1>7 DEF ClearAnnotation
  <2>2. store' \in HACluster
    BY TypedNext, <1>7 DEF Next, Operator, Typed, TypeOK
  <2>3. pc' = "auto" => ha'.cool
    BY <2>1, <2>2 DEF Completed, HACluster
  <2> QED BY <2>1, <2>3 DEF Finished
<1>8. CASE UpdateStatus
  BY <1>8, StatusKeeps DEF Finished, NoJob
<1>9. CASE ProbeAgain \/ Converge
  BY <1>9, LoopKeeps DEF Finished, NoJob
<1> QED BY <1>1, <1>2, <1>3, <1>4, <1>5, <1>6, <1>7, <1>8, <1>9 DEF Operator

LEMMA FinishedNext ==
  ASSUME Typed, Finished, [Next]_vars PROVE Finished'
<1>1. CASE Operator
  BY <1>1, FinishedOperator
<1>2. CASE Crash
  BY <1>2 DEF Crash, Return, DropLocals, NoJob, Finished
<1>3. CASE Aside \/ Sync
  BY <1>3 DEF Aside, Sync, local, Finished
<1>4. CASE Edit
  BY <1>4, EditKeeps DEF EditShape, Finished
<1>5. CASE CooldownExpires
  BY <1>5, ExpiresKeeps DEF Finished
<1> QED BY <1>1, <1>2, <1>3, <1>4, <1>5, StepKinds

-----------------------------------------------------------------------------
(***************************************************************************)
(* What Reconcile read is still true: the cache is up to date, and nobody  *)
(* deletes the HACluster under a running Reconcile.                        *)
(***************************************************************************)
Orderly ==
  /\ StaleReads = FALSE
  /\ MidwayEdits = FALSE \/ "recreate" \notin Chores

Fresh ==
  /\ cache = store
  /\ "recreate" \notin Chores \/ pc \in Handling => store.present
  /\ pc \in Handling /\ MidwayEdits = FALSE /\ "call" \notin Faults => held
  /\ pc \in Handling /\ ~job.done => ha.primary = store.primary

LEMMA FreshInit == Init => Fresh
<1> SUFFICES ASSUME Init PROVE Fresh
  OBVIOUS
<1>1. store.present /\ cache = store /\ pc = "idle"
  BY DEF Init, NewHACluster
<1> QED BY <1>1 DEF Fresh, Handling

LEMMA FreshHandlers ==
  ASSUME Typed, Orderly, Finished, Fresh,
         StartReconcile \/ ObserveSite \/ ConsiderAnnotation \/ AutomaticFailover
           \/ FenceOld \/ FlipOld \/ PromoteTarget \/ FlipNew
  PROVE  Fresh'
<1>1. CASE StartReconcile
  BY <1>1 DEF StartReconcile, Fresh, Orderly
<1>2. CASE ObserveSite
  BY <1>2 DEF ObserveSite, Fresh, Handling
<1>3. CASE ConsiderAnnotation
  <2>1. pc = "annotation" /\ UNCHANGED <<store, cache, held>> /\ ~job.done
    BY <1>3 DEF ConsiderAnnotation, Finished
  <2>2. UNCHANGED <<ha, job>> \/ ha'.primary = ha.primary
    BY <1>3, BeginKeeps DEF ConsiderAnnotation
  <2> QED BY <2>1, <2>2 DEF Fresh, Handling
<1>4. CASE AutomaticFailover
  <2>1. pc = "auto" /\ UNCHANGED <<store, cache, held>>
    BY <1>4 DEF AutomaticFailover
  <2>2. \/ UNCHANGED <<ha, job>>
        \/ ~job.done /\ ha'.primary = ha.primary
    <3>1. CASE /\ ~AutoSuspended
               /\ \E t \in chooseTarget(Policy, obs, curName) :
                    BeginPromotion("auto", curName, t)
      BY <2>1, <3>1, BeginKeeps DEF AutoSuspended, Finished
    <3> QED BY <1>4, <3>1 DEF AutomaticFailover
  <2> QED BY <2>1, <2>2 DEF Fresh, Handling
<1>5. CASE FenceOld \/ FlipOld \/ PromoteTarget
  BY <1>5, CallKeeps DEF Fresh, Handling
<1>6. CASE FlipNew
  BY <1>6, FlipNewKeeps DEF Fresh, Handling
<1> QED BY <1>1, <1>2, <1>3, <1>4, <1>5, <1>6

LEMMA FreshPatch ==
  ASSUME Typed, Orderly, Finished, Fresh, RejectAnnotation \/ ClearAnnotation
  PROVE  Fresh'
<1>1. PICK a \in PatchOutcomes :
        /\ PatchAnnotation(a)
        /\ \/ /\ RejectAnnotation
              /\ ha' = IF a = "ok" THEN store' ELSE ha
              /\ job' = job
           \/ /\ ClearAnnotation
              /\ ha' = IF a = "ok" THEN Completed(store') ELSE ha
              /\ job' = [job EXCEPT !.done = (a = "ok")]
  BY DEF RejectAnnotation, ClearAnnotation
<1>2. /\ pc \in {"reject", "clear"} /\ ~job.done
      /\ cache' = store' /\ store'.primary = store.primary
      /\ store'.present = store.present
  BY <1>1, PatchKeeps DEF RejectAnnotation, ClearAnnotation, Finished, Fresh, Orderly
<1>3. "call" \notin Faults /\ MidwayEdits = FALSE => held'
  BY <1>1, <1>2
  DEF PatchAnnotation, PatchOutcomes, ApiFaults, Fresh, Handling
<1>4. ~job'.done => ha'.primary = store'.primary
  <2>1. CASE RejectAnnotation
    BY <1>1, <1>2, <2>1 DEF RejectAnnotation, ClearAnnotation, Fresh, Handling
  <2>2. CASE ClearAnnotation /\ a # "ok"
    BY <1>1, <1>2, <2>2 DEF RejectAnnotation, ClearAnnotation, Fresh, Handling
  <2>3. CASE ClearAnnotation /\ a = "ok"
    BY <1>1, <2>3 DEF RejectAnnotation, ClearAnnotation, Typed, TypeOK, Job
  <2> QED BY <1>1, <2>1, <2>2, <2>3
<1> QED BY <1>2, <1>3, <1>4 DEF Fresh, Handling

LEMMA FreshNext ==
  ASSUME Typed, Orderly, Finished, Fresh, [Next]_vars PROVE Fresh'
<1>1. CASE Operator
  <2>1. CASE UpdateStatus
    BY <2>1, StatusKeeps DEF Fresh, Handling, Orderly
  <2>2. CASE ProbeAgain \/ Converge
    BY <2>2, LoopKeeps DEF Fresh, Handling
  <2> QED BY <1>1, <2>1, <2>2, FreshHandlers, FreshPatch DEF Operator
<1>2. CASE Crash
  BY <1>2 DEF Crash, Return, Fresh, Handling
<1>3. CASE Aside
  BY <1>3 DEF Aside, local, Fresh
<1>4. CASE Edit
  <2>1. cache' = store'
    BY <1>4, EditKeeps DEF EditShape, Orderly
  <2>2. CASE pc = "idle" /\ "recreate" \in Chores
    BY <1>4, <2>1, <2>2, EditKeeps DEF EditShape, Fresh, Handling
  <2>3. CASE "recreate" \notin Chores
    BY <1>4, <2>1, <2>3, EditKeeps DEF EditShape, Fresh, Handling
  <2> QED BY <1>4, <2>2, <2>3, EditKeeps DEF Orderly
<1>5. CASE CooldownExpires
  BY <1>5, ExpiresKeeps DEF Fresh
<1>6. CASE Sync
  BY <1>6 DEF Sync, Fresh
<1> QED BY <1>1, <1>2, <1>3, <1>4, <1>5, <1>6, StepKinds

(***************************************************************************)
(* Without requests there is no annotation to reject, in any copy.         *)
(***************************************************************************)
Unasked ==
  /\ store.annot = NoSite /\ cache.annot = NoSite
  /\ ha.annot = NoSite
  /\ pc # "reject"

LEMMA UnaskedInit == Init => Unasked
  BY DEF Init, NewHACluster, NoHACluster, Unasked

LEMMA UnaskedOperator ==
  ASSUME Typed, Unasked, Operator PROVE Unasked'
<1>1. CASE StartReconcile \/ ObserveSite
  BY <1>1 DEF StartReconcile, ObserveSite, Unasked
<1>2. CASE ConsiderAnnotation
  BY <1>2 DEF ConsiderAnnotation, Unasked
<1>3. CASE AutomaticFailover
  <2>1. UNCHANGED <<store, cache>> /\ pc' # "reject"
    BY <1>3 DEF AutomaticFailover, BeginPromotion
  <2>2. CASE ha' = ha
    BY <2>1, <2>2 DEF Unasked
  <2>3. CASE \E t \in chooseTarget(Policy, obs, curName) :
               BeginPromotion("auto", curName, t)
    BY <2>1, <2>3, BeginKeeps DEF Unasked
  <2> QED BY <1>3, <2>2, <2>3 DEF AutomaticFailover
<1>4. CASE FenceOld \/ FlipOld \/ PromoteTarget
  BY <1>4, CallKeeps DEF Unasked
<1>5. CASE FlipNew
  BY <1>5, FlipNewKeeps DEF Unasked
<1>6. CASE ClearAnnotation
  <2>1. PICK a \in PatchOutcomes :
          /\ PatchAnnotation(a)
          /\ ha' = IF a = "ok" THEN Completed(store') ELSE ha
          /\ pc' = IF a = "ok" THEN "auto" ELSE "status"
    BY <1>6 DEF ClearAnnotation
  <2>2. store' \in HACluster
    BY TypedNext, <1>6 DEF Next, Operator, Typed, TypeOK
  <2>3. store'.annot = NoSite /\ cache'.annot = NoSite
    BY <2>1, PatchKeeps DEF Unasked
  <2>4. ha'.annot = NoSite
    BY <2>1, <2>2, <2>3 DEF Completed, HACluster, Unasked
  <2> QED BY <2>1, <2>3, <2>4 DEF Unasked
<1>7. CASE UpdateStatus
  BY <1>7, StatusKeeps DEF Unasked, NoHACluster, NewHACluster
<1>8. CASE ProbeAgain \/ Converge
  BY <1>8, LoopKeeps DEF Unasked, NoHACluster, NewHACluster
<1>9. ~RejectAnnotation
  BY DEF RejectAnnotation, Unasked
<1> QED BY <1>1, <1>2, <1>3, <1>4, <1>5, <1>6, <1>7, <1>8, <1>9 DEF Operator

LEMMA UnaskedNext ==
  ASSUME Typed, "annotate" \notin Chores, Unasked, [Next]_vars PROVE Unasked'
<1>1. CASE Operator
  BY <1>1, UnaskedOperator
<1>2. CASE Crash
  BY <1>2 DEF Crash, Return, DropLocals, NoHACluster, NewHACluster, Unasked
<1>3. CASE Aside \/ Sync
  BY <1>3 DEF Aside, Sync, local, Unasked
<1>4. CASE Edit
  BY <1>4, EditKeeps DEF EditShape, Unasked
<1>5. CASE CooldownExpires
  BY <1>5, ExpiresKeeps DEF Unasked
<1> QED BY <1>1, <1>2, <1>3, <1>4, <1>5, StepKinds

-----------------------------------------------------------------------------
(***************************************************************************)
(* The cooldown.  While the last promotion is recent the stored HACluster  *)
(* says so, or the copy that is about to be stored.  It is not stored when *)
(* the status update fails or the operator dies before it, and a new       *)
(* HACluster does not have it: the theorem excludes that.                  *)
(***************************************************************************)
Lasting ==
  /\ StaleReads = FALSE /\ MidwayEdits = FALSE
  /\ Faults = {}
  /\ "recreate" \notin Chores

Cooling ==
  /\ recent /\ pc \notin Promoting \cup {"auto", "status"} => store.cool
  /\ recent /\ pc \in Handling \ {"clear"} => ha.cool
  /\ AutoStarting => ~ha.cool

LEMMA CoolingDecide ==
  ASSUME Typed, Cooling, ConsiderAnnotation \/ AutomaticFailover
  PROVE  Cooling'
<1>1. CASE ConsiderAnnotation
  <2>1. pc = "annotation" /\ UNCHANGED <<store, recent>>
    BY <1>1 DEF ConsiderAnnotation
  <2>2. CASE UNCHANGED <<ha, job, promoteErr>> /\ pc' \in {"auto", "reject"}
    BY <2>1, <2>2 DEF Cooling, AutoStarting, Promoting, Handling
  <2>3. CASE BeginPromotion("manual", currentPrimaryForPromotion(ha.primary, obs),
                            ha.annot)
    <3>1. pc' \in {"status", "fence"} /\ job'.kind = "manual" /\ ha'.cool = ha.cool
      BY <2>3, BeginKeeps
    <3> QED BY <2>1, <3>1 DEF Cooling, AutoStarting, Promoting, Handling
  <2> QED BY <1>1, <2>2, <2>3 DEF ConsiderAnnotation
<1>2. CASE AutomaticFailover
  <2>1. pc = "auto" /\ UNCHANGED <<store, recent>>
    BY <1>2 DEF AutomaticFailover, history
  <2>2. CASE UNCHANGED <<ha, job, promoteErr>> /\ pc' = "status"
    BY <2>1, <2>2 DEF Cooling, AutoStarting, Promoting, Handling
  <2>3. CASE /\ ~AutoSuspended
             /\ \E t \in chooseTarget(Policy, obs, curName) :
                  BeginPromotion("auto", curName, t)
    <3>1. pc' \in {"status", "fence"} /\ ha'.cool = ha.cool /\ ~ha.cool
      BY <2>3, BeginKeeps DEF AutoSuspended
    <3> QED BY <2>1, <3>1 DEF Cooling, AutoStarting, Promoting, Handling
  <2> QED BY <1>2, <2>2, <2>3 DEF AutomaticFailover
<1> QED BY <1>1, <1>2

LEMMA CoolingStore ==
  ASSUME Typed, Lasting, Fresh, Finished, Cooling,
         RejectAnnotation \/ ClearAnnotation \/ UpdateStatus
  PROVE  Cooling'
<1>1. CASE RejectAnnotation \/ ClearAnnotation
  <2>1. PICK a \in PatchOutcomes :
          /\ PatchAnnotation(a)
          /\ pc' = IF a = "ok" THEN "auto" ELSE "status"
          /\ \/ RejectAnnotation /\ ha' = IF a = "ok" THEN store' ELSE ha
             \/ ClearAnnotation /\ ha' = IF a = "ok" THEN Completed(store') ELSE ha
    BY <1>1 DEF RejectAnnotation, ClearAnnotation
  <2>2. a = "ok"
    BY <1>1 DEF PatchOutcomes, ApiFaults, Lasting, Fresh
  <2>3. store' \in HACluster
    BY TypedNext, <1>1 DEF Next, Operator, Typed, TypeOK
  <2>4. store'.cool = store.cool /\ recent' = recent
    BY <1>1, <2>1, PatchKeeps DEF RejectAnnotation, ClearAnnotation, history
  <2>5. CASE RejectAnnotation /\ ha' = store'
    BY <2>1, <2>2, <2>4, <2>5
    DEF RejectAnnotation, Cooling, AutoStarting, Promoting, Handling
  <2>6. CASE ha' = Completed(store')
    <3>1. ha'.cool
      BY <2>3, <2>6 DEF Completed, HACluster
    <3> QED BY <2>1, <2>2, <3>1 DEF Cooling, AutoStarting, Promoting, Handling
  <2> QED BY <2>1, <2>2, <2>5, <2>6
<1>2. CASE UpdateStatus
  <2>1. pc = "status" /\ held
    BY <1>2 DEF UpdateStatus, Fresh, Handling, Lasting
  <2>2. store' = [store EXCEPT !.primary = DecidedPrimary,
                               !.cool = ha.cool, !.fip = ha.fip]
    <3>1. PICK a \in StatusOutcomes :
            IF a \in Stored
            THEN Write([store EXCEPT !.primary = DecidedPrimary,
                                     !.cool = ha.cool, !.fip = ha.fip])
            ELSE UNCHANGED <<store, cache>>
      BY <1>2 DEF UpdateStatus
    <3>2. a = "ok"
      BY <2>1 DEF StatusOutcomes, ApiFaults, Lasting
    <3> QED BY <3>1, <3>2 DEF Stored, Write
  <2>3. store'.cool = ha.cool
    BY <2>2 DEF Typed, TypeOK, HACluster
  <2> QED BY <1>2, <2>1, <2>3, StatusKeeps DEF Cooling, AutoStarting, Promoting, Handling
<1> QED BY <1>1, <1>2

LEMMA CoolingNext ==
  ASSUME Typed, Lasting, Finished, Fresh, Cooling, [Next]_vars PROVE Cooling'
<1>1. CASE StartReconcile
  BY <1>1 DEF StartReconcile, Fresh, Cooling, AutoStarting, Promoting, Handling, history
<1>2. CASE ObserveSite
  BY <1>2 DEF ObserveSite, Cooling, AutoStarting, Promoting, Handling, history
<1>3. CASE FenceOld \/ FlipOld \/ PromoteTarget
  BY <1>3, CallKeeps DEF Cooling, AutoStarting, Promoting, Handling
<1>4. CASE FlipNew
  BY <1>4, FlipNewKeeps DEF Cooling, AutoStarting, Promoting, Handling
<1>5. CASE ProbeAgain \/ Converge
  BY <1>5, LoopKeeps DEF Cooling, AutoStarting, Promoting, Handling
<1>6. Operator => Cooling'
  BY <1>1, <1>2, <1>3, <1>4, <1>5, CoolingDecide, CoolingStore DEF Operator
<1>7. ~Crash
  BY DEF Lasting, Crash
<1>8. CASE Aside \/ Sync
  BY <1>8 DEF Aside, Sync, local, history, Cooling, AutoStarting
<1>9. CASE Edit
  <2>1. store.present
    BY DEF Lasting, Fresh
  <2> QED BY <1>9, <2>1, EditKeeps
    DEF EditShape, Lasting, Cooling, AutoStarting, Promoting, Handling, history
<1>10. CASE CooldownExpires
  BY <1>10, ExpiresKeeps DEF Cooling
<1> QED BY <1>6, <1>7, <1>8, <1>9, <1>10, StepKinds

(***************************************************************************)
(* No automatic failover starts before the cooldown of the previous        *)
(* promotion is over, whether that one was automatic or requested: the     *)
(* status update carries lastFailoverTime from the promotion to the next   *)
(* Reconcile that calls handleAutomaticFailover.  Sites may become         *)
(* unreachable, be slow to stop or be repaired at any moment.              *)
(***************************************************************************)
THEOREM CooldownAlwaysHolds ==
  ASSUME Lasting PROVE Spec => []CooldownHolds
<1>1. Orderly
  BY DEF Lasting, Orderly
<1>2. Init => Cooling
  BY DEF Init, Cooling, AutoStarting
<1>3. Typed /\ Finished /\ [Next]_vars => Finished'
  BY FinishedNext
<1>4. Typed /\ Finished /\ Fresh /\ [Next]_vars => Fresh'
  BY <1>1, FreshNext
<1>5. Typed /\ Finished /\ Fresh /\ Cooling /\ [Next]_vars => Cooling'
  BY CoolingNext
<1>6. Cooling => CooldownHolds
  BY DEF Cooling, CooldownHolds, AutoStarting, Handling
<1> QED BY <1>2, <1>3, <1>4, <1>5, <1>6, TypedAlways, FinishedInit, FreshInit, PTL
  DEF Spec

-----------------------------------------------------------------------------
(***************************************************************************)
(* The threshold.  failureCounts never exceeds the number of consecutive   *)
(* unhealthy reconciles, while humans leave failover.mode alone: the       *)
(* counter is neither kept up nor reset in mode Manual.  Between           *)
(* handlePromoteAnnotation and handleAutomaticFailover the Reconcile at    *)
(* hand is not counted yet.                                                *)
(***************************************************************************)
Modes ==
  /\ cache.mode = store.mode
  /\ pc \in Handling => ha.mode = store.mode

Counting ==
  /\ Modes
  /\ store.mode # "Automatic" => failCount = 0
  /\ pc \notin {"reject", "auto"} => failCount <= streak
  /\ pc \in {"reject", "auto"} /\ ~ReadyPrimary(obs[curName]) /\ ~job.done =>
       Bump(failCount) <= streak
  /\ AutoStarting => failCount >= Threshold

\* No Reconcile ends between the two handlers, and the primary they look at is
\* the same: there is nothing to reject, or the rejection succeeds and its reply
\* names the accepted primary that was read.
Counted == "annotate" \notin Chores \/ (Orderly /\ "call" \notin Faults)

LEMMA CountsTyped ==
  ASSUME Typed PROVE failCount \in 0 .. Threshold /\ streak \in 0 .. Threshold
                     /\ Threshold \in Nat
  BY ReconcilerAssumption DEF Typed, TypeOK

LEMMA CountingConsider ==
  ASSUME Typed, Counting, ConsiderAnnotation PROVE Counting'
<1>1. /\ pc = "annotation" /\ UNCHANGED <<store, cache, failCount, obs>>
      /\ streak' = IF ReadyPrimary(obs[curName]) THEN 0 ELSE Bump(streak)
  BY DEF ConsiderAnnotation, CountStreak
<1>2. CASE UNCHANGED <<ha, job>> /\ pc' \in {"auto", "reject"}
  <2>1. curName' = curName
    BY <1>2 DEF curName
  <2>2. ~ReadyPrimary(obs[curName]) => Bump(failCount) <= Bump(streak)
    BY <1>1, CountsTyped DEF Counting, Bump
  <2>3. Bump(failCount)' = Bump(failCount)
    BY <1>1 DEF Bump
  <2> QED BY <1>1, <1>2, <2>1, <2>2, <2>3 DEF Counting, Modes, AutoStarting, Handling
<1>3. CASE /\ ha.mode = "Manual"
           /\ BeginPromotion("manual", currentPrimaryForPromotion(ha.primary, obs),
                             ha.annot)
  <2>1. pc' \in {"status", "fence"} /\ job'.kind = "manual" /\ ha'.mode = ha.mode
    BY <1>3, BeginKeeps
  <2>2. failCount = 0 /\ ha.mode = store.mode
    BY <1>1, <1>3 DEF Counting, Modes, Handling
  <2>3. 0 <= streak'
    BY <1>1, CountsTyped DEF Bump
  <2> QED BY <1>1, <2>1, <2>2, <2>3 DEF Counting, Modes, AutoStarting, Handling
<1> QED BY <1>2, <1>3 DEF ConsiderAnnotation, Acceptable

LEMMA CountingReject ==
  ASSUME Typed, Fresh, Finished, "call" \notin Faults, Counting, RejectAnnotation
  PROVE  Counting'
<1>1. PICK a \in PatchOutcomes :
        /\ PatchAnnotation(a)
        /\ ha' = IF a = "ok" THEN store' ELSE ha
        /\ pc' = IF a = "ok" THEN "auto" ELSE "status"
  BY DEF RejectAnnotation
<1>2. pc = "reject" /\ UNCHANGED <<failCount, obs, job, streak>>
  BY DEF RejectAnnotation, history
<1>3. a = "ok"
  BY <1>2 DEF PatchOutcomes, ApiFaults, Fresh, Handling
<1>4. /\ store'.mode = store.mode /\ cache'.mode = store'.mode
      /\ ha' = store' /\ ha'.primary = ha.primary
  BY <1>1, <1>2, <1>3, PatchKeeps
  DEF Fresh, Finished, Handling, Counting, Modes
<1>5. curName' = curName /\ Bump(failCount)' = Bump(failCount)
  BY <1>2, <1>4 DEF curName, Bump
<1> QED BY <1>1, <1>2, <1>3, <1>4, <1>5 DEF Counting, Modes, AutoStarting, Handling

LEMMA CountingAuto ==
  ASSUME Typed, Finished, Counting, AutomaticFailover PROVE Counting'
<1>1. pc = "auto" /\ UNCHANGED <<store, cache, obs, streak>>
  BY DEF AutomaticFailover, history
<1>2. ha.mode = store.mode /\ 0 <= streak
  BY <1>1, CountsTyped DEF Counting, Modes, Handling
<1>3. CASE /\ ha.mode # "Automatic" /\ pc' = "status"
           /\ UNCHANGED <<failCount, ha>>
  BY <1>1, <1>2, <1>3 DEF Counting, Modes, AutoStarting, Handling
<1>4. CASE failCount' = 0 /\ pc' = "status" /\ UNCHANGED ha
  BY <1>1, <1>2, <1>4 DEF Counting, Modes, AutoStarting, Handling
<1>5. CASE /\ ha.mode = "Automatic" /\ ~AutoSuspended
           /\ failCount' = Bump(failCount)
           /\ \/ pc' = "status" /\ UNCHANGED <<ha, job>>
              \/ /\ failCount' >= Threshold
                 /\ \E t : BeginPromotion("auto", curName, t)
  <2>1. ~job.done /\ ~ReadyPrimary(obs[curName])
    BY <1>1, <1>5 DEF AutoSuspended, Finished
  <2>2. failCount' <= streak'
    BY <1>1, <1>5, <2>1 DEF Counting
  <2>3. /\ pc' \in {"status", "fence"} /\ ha'.mode = ha.mode
        /\ pc' = "fence" => failCount' >= Threshold
    BY <1>5, BeginKeeps
  <2> QED BY <1>1, <1>2, <1>5, <2>2, <2>3 DEF Counting, Modes, AutoStarting, Handling
<1> QED BY <1>3, <1>4, <1>5 DEF AutomaticFailover

LEMMA CountingCalls ==
  ASSUME Typed, Counting,
         FenceOld \/ FlipOld \/ PromoteTarget \/ FlipNew \/ ClearAnnotation
  PROVE  Counting'
<1>1. CASE FenceOld \/ FlipOld \/ PromoteTarget
  BY <1>1, CallKeeps DEF Counting, Modes, AutoStarting, Handling
<1>2. CASE FlipNew
  <2>1. failCount' <= streak' /\ failCount' \in {0, failCount}
    BY <1>2, CountsTyped, FlipNewKeeps DEF Counting
  <2> QED BY <1>2, <2>1, FlipNewKeeps DEF Counting, Modes, AutoStarting, Handling
<1>3. CASE ClearAnnotation
  <2>1. PICK a \in PatchOutcomes :
          /\ PatchAnnotation(a)
          /\ ha' = IF a = "ok" THEN Completed(store') ELSE ha
          /\ pc' = IF a = "ok" THEN "auto" ELSE "status"
          /\ job' = [job EXCEPT !.done = (a = "ok")]
    BY <1>3 DEF ClearAnnotation
  <2>2. pc = "clear" /\ UNCHANGED <<failCount, streak>>
    BY <1>3 DEF ClearAnnotation, history
  <2>3. store' \in HACluster /\ job \in Job
    BY TypedNext, <1>3 DEF Next, Operator, Typed, TypeOK
  <2>4. store'.mode = store.mode /\ cache'.mode = store'.mode
    BY <2>1, PatchKeeps DEF Counting, Modes
  <2>5. ha'.mode = store'.mode
    BY <2>1, <2>2, <2>3, <2>4 DEF Completed, HACluster, Counting, Modes, Handling
  <2>6. pc' = "auto" => job'.done
    BY <2>1, <2>3 DEF Job
  <2> QED BY <2>1, <2>2, <2>4, <2>5, <2>6 DEF Counting, Modes, AutoStarting, Handling
<1> QED BY <1>1, <1>2, <1>3

LEMMA CountingNext ==
  ASSUME Typed, "mode" \notin Chores, Counted, Finished, Orderly => Fresh,
         "annotate" \notin Chores => Unasked, Counting, [Next]_vars
  PROVE  Counting'
<1>1. CASE StartReconcile
  BY <1>1 DEF StartReconcile, Counting, Modes, AutoStarting, Handling, history
<1>2. CASE ObserveSite
  BY <1>2 DEF ObserveSite, Counting, Modes, AutoStarting, Handling, history
<1>3. CASE RejectAnnotation
  BY <1>3, CountingReject DEF Counted, Unasked, RejectAnnotation
<1>4. CASE UpdateStatus
  BY <1>4, StatusKeeps DEF UpdateStatus, Counting, Modes, AutoStarting, Handling
<1>5. CASE ProbeAgain \/ Converge
  BY <1>5, LoopKeeps DEF Counting, Modes, AutoStarting, Handling
<1>6. Operator => Counting'
  BY <1>1, <1>2, <1>3, <1>4, <1>5, CountingConsider, CountingAuto, CountingCalls
  DEF Operator
<1>7. CASE Crash
  BY <1>7, CountsTyped
  DEF Crash, Return, Counting, Modes, AutoStarting, Handling
<1>8. CASE Aside \/ Sync
  BY <1>8
  DEF Aside, Sync, local, history, Counting, Modes, AutoStarting, curName, Bump
<1>9. CASE Edit
  <2>1. store'.mode = store.mode /\ cache'.mode = store'.mode
    BY <1>9, EditKeeps DEF EditShape, Counting, Modes
  <2> QED BY <1>9, <2>1, EditKeeps
    DEF EditShape, history, Counting, Modes, AutoStarting, curName, Bump
<1>10. CASE CooldownExpires
  BY <1>10, ExpiresKeeps DEF Counting, Modes, AutoStarting, curName, Bump
<1> QED BY <1>6, <1>7, <1>8, <1>9, <1>10, StepKinds

(***************************************************************************)
(* An automatic failover starts only after Threshold consecutive           *)
(* reconciles that observed the accepted primary unhealthy:                *)
(* handleAutomaticFailover resets its counter whenever one did not.  This  *)
(* holds across crashes, outages, lost replies, stale reads and new        *)
(* HAClusters while nobody edits failover.mode or requests a promotion;    *)
(* with requests, while Reconcile also reads the current HACluster and     *)
(* its calls succeed.                                                      *)
(***************************************************************************)
THEOREM ThresholdAlwaysRespected ==
  ASSUME "mode" \notin Chores, Counted PROVE Spec => []ThresholdRespected
<1> DEFINE Base == /\ Typed /\ Finished /\ (Orderly => Fresh)
                   /\ ("annotate" \notin Chores => Unasked)
<1>1. ASSUME Init PROVE Base /\ Counting
  <2>1. pc = "idle" /\ failCount = 0 /\ streak = 0 /\ cache = store
    BY <1>1 DEF Init
  <2>2. Counting
    BY <2>1 DEF Counting, Modes, AutoStarting, Handling
  <2> QED BY <1>1, <2>2, TypedInit, FinishedInit, FreshInit, UnaskedInit
<1>2. Base /\ Counting /\ [Next]_vars => (Base /\ Counting)'
  BY TypedNext, FinishedNext, FreshNext, UnaskedNext, CountingNext DEF Orderly
<1>3. Base /\ Counting => ThresholdRespected
  BY CountsTyped DEF Counting, ThresholdRespected, AutoStarting
<1> QED BY <1>1, <1>2, <1>3, PTL DEF Spec
=============================================================================
