---------------------------- MODULE Chains_proofs ----------------------------
(***************************************************************************)
(* Chains of failovers, for every number of sites and of failovers, while  *)
(* the operator's own calls do not fail: the right to write and the write  *)
(* traffic pass from site to site, and never two sites hold them.          *)
(***************************************************************************)
EXTENDS Reconciler_proofs

\* No call fails and the operator does not crash, the cache is fresh, CNPG
\* stops a fenced site before it is observed, every site can be reached, and
\* humans unfence only replicas and edit the HACluster between reconciles.
Calm ==
  /\ StaleReads = FALSE /\ SlowFences = FALSE /\ MidwayEdits = FALSE
  /\ Faults = {}
  /\ "unreach" \notin Outages
  /\ Chores \subseteq {"annotate", "mode", "rejoin"}

-----------------------------------------------------------------------------
(***************************************************************************)
(* The inductive invariant.  Book is about what the operator knows: its    *)
(* copies of the HACluster agree with the stored one until it completes a  *)
(* promotion, a promotion demotes the accepted primary in favour of a site *)
(* observed as a healthy replica, and only the accepted primary has been   *)
(* observed as a ready primary.  Sole is about the sites: who may write    *)
(* and attract traffic at which step.                                      *)
(***************************************************************************)
accepted == IF store.primary = NoSite THEN Declared ELSE store.primary

Copies ==
  /\ cache = store /\ store.present
  /\ pc \in Handling => held /\ prior = store.primary
  /\ pc \in Handling /\ ~job.done => ha.primary = store.primary
  /\ pc \in {"topology", "converge"} => eff = store.primary /\ eff # NoSite
  /\ pc = "converge" => SiteAt(pos) # eff
  /\ job.done => pc \in {"auto", "status"}
  /\ pc = "auto" /\ job.done => ha.cool

Chosen ==
  pc \in Promoting \/ job.done =>
    /\ job.old = accepted /\ job.target \in Sites \ {accepted}
    /\ HealthyReplica(obs[job.target])

Seen == pc \in Handling => \A s \in Sites : ReadyPrimary(obs[s]) => s = accepted

\* Between the status update and the next observation there is none.
Idle ==
  pc \in {"idle", "topology", "converge"} => \A s \in Sites : ~ReadyPrimary(obs[s])

Book == Copies /\ Chosen /\ Seen /\ Idle

Holders ==
  IF pc \in {"flipOld", "promote"} THEN {}
  ELSE IF pc \in {"flipNew", "clear"} \/ job.done THEN {job.target}
  ELSE {accepted}

Attractors ==
  IF pc \in {"promote", "flipNew"} THEN {}
  ELSE IF pc = "clear" \/ job.done THEN {job.target}
  ELSE {accepted}

Sole ==
  \A s \in Sites :
    /\ site[s].reach
    /\ ~site[s].exists => site[s].affinity = "none"
    /\ Writer(s) => s \in Holders
    /\ Writer(s) /\ site[s].affinity = "remote" => pc = "flipNew"
    /\ site[s].affinity = "local" => s \in Attractors

Settled == Typed /\ Book /\ Sole

-----------------------------------------------------------------------------
(***************************************************************************)
(* How calls end in calm conditions.                                       *)
(***************************************************************************)
LEMMA CalmOutcome ==
  ASSUME Calm, Sole, NEW s \in Sites, NEW a \in Outcomes(site[s], ApiFaults)
  PROVE  IF site[s].exists THEN a = "ok" ELSE a = "notFound"
  BY DEF Calm, Sole, Outcomes, ApiFaults

LEMMA CalmPatch ==
  ASSUME Calm, Book, NEW a \in PatchOutcomes PROVE a = "ok"
  BY DEF Calm, Book, Copies, PatchOutcomes, ApiFaults

LEMMA CalmUpdate ==
  ASSUME Calm, Book, pc = "status", NEW a \in StatusOutcomes PROVE a = "ok"
  BY DEF Calm, Book, Copies, Handling, StatusOutcomes, ApiFaults

\* A call of runPromotion reaches a Cluster that exists.
LEMMA CalmFence ==
  ASSUME Calm, Settled, FenceOld
  PROVE  /\ pc = "fence" /\ pc' = "flipOld"
         /\ UNCHANGED <<ha, store, cache, held, prior, obs, job, eff>>
         /\ site' = IF site[job.old].exists
                    THEN [site EXCEPT ![job.old] = Fence(site[job.old])] ELSE site
<1>1. job.old \in Sites
  BY DEF Settled, Typed, JobOK, Promoting, FenceOld
<1>2. PICK a \in Outcomes(site[job.old], ApiFaults) :
        /\ site' = IF a \in Stored
                   THEN [site EXCEPT ![job.old] = Fence(site[job.old])] ELSE site
        /\ IF a \in Tolerated
           THEN pc' = "flipOld" /\ UNCHANGED <<promoteErr, ha>>
           ELSE FailPromotion
  BY DEF FenceOld
<1>3. IF site[job.old].exists THEN a = "ok" ELSE a = "notFound"
  BY <1>1, CalmOutcome DEF Settled
<1> QED BY <1>2, <1>3 DEF FenceOld, Stored, Tolerated

LEMMA CalmFlipOld ==
  ASSUME Calm, Settled, FlipOld
  PROVE  /\ pc = "flipOld" /\ pc' = "promote"
         /\ UNCHANGED <<ha, store, cache, held, prior, obs, job, eff>>
         /\ site' = IF site[job.old].exists
                    THEN [site EXCEPT ![job.old] =
                            FlipCiliumService(site[job.old], "remote")]
                    ELSE site
<1>1. job.old \in Sites
  BY DEF Settled, Typed, JobOK, Promoting, FlipOld
<1>2. PICK a \in Outcomes(site[job.old], ApiFaults) :
        /\ site' = IF a \in Stored
                   THEN [site EXCEPT ![job.old] =
                           FlipCiliumService(site[job.old], "remote")]
                   ELSE site
        /\ IF a \in Tolerated
           THEN pc' = "promote" /\ UNCHANGED <<promoteErr, ha>>
           ELSE FailPromotion
  BY DEF FlipOld
<1>3. IF site[job.old].exists THEN a = "ok" ELSE a = "notFound"
  BY <1>1, CalmOutcome DEF Settled
<1> QED BY <1>2, <1>3 DEF FlipOld, Stored, Tolerated

LEMMA CalmPromote ==
  ASSUME Calm, Settled, PromoteTarget
  PROVE  /\ pc = "promote"
         /\ UNCHANGED <<store, cache, held, prior, obs, job, eff>>
         /\ ha'.primary = ha.primary
         /\ \/ /\ site[job.target].exists
               /\ pc' = "flipNew"
               /\ site' = [site EXCEPT ![job.target] = Promote(site[job.target])]
            \/ ~site[job.target].exists /\ pc' = "status" /\ site' = site
<1>1. job.target \in Sites /\ ha \in HACluster
  BY DEF Settled, Typed, TypeOK, JobOK, Promoting, PromoteTarget
<1>2. PICK a \in Outcomes(site[job.target], ApiFaults) :
        /\ site' = IF a \in Stored
                   THEN [site EXCEPT ![job.target] = Promote(site[job.target])]
                   ELSE site
        /\ IF a = "ok"
           THEN pc' = "flipNew" /\ UNCHANGED <<promoteErr, ha>>
           ELSE FailPromotion
  BY DEF PromoteTarget
<1>3. IF site[job.target].exists THEN a = "ok" ELSE a = "notFound"
  BY <1>1, CalmOutcome DEF Settled
<1>4. CASE site[job.target].exists
  BY <1>2, <1>3, <1>4 DEF PromoteTarget, Stored
<1>5. CASE ~site[job.target].exists
  BY <1>1, <1>2, <1>3, <1>5
  DEF PromoteTarget, Stored, FailPromotion, setFailoverInProgress, HACluster
<1> QED BY <1>4, <1>5

LEMMA CalmFlipNew ==
  ASSUME Calm, Settled, FlipNew
  PROVE  /\ pc = "flipNew"
         /\ UNCHANGED <<store, cache, held, prior, obs, eff>>
         /\ job'.old = job.old /\ job'.target = job.target
         /\ \/ /\ site[job.target].exists
               /\ site' = [site EXCEPT ![job.target] =
                             FlipCiliumService(site[job.target], "local")]
               /\ \/ pc' = "status" /\ job'.done
                  \/ pc' = "clear" /\ job' = job /\ ha' = ha
            \/ /\ ~site[job.target].exists /\ pc' = "status" /\ site' = site
               /\ job' = job /\ ha'.primary = ha.primary
<1>1. job.target \in Sites /\ ha \in HACluster /\ job \in Job
  BY DEF Settled, Typed, TypeOK, JobOK, Promoting, FlipNew
<1>2. PICK a \in Outcomes(site[job.target], ApiFaults) :
        /\ site' = IF a \in Stored
                   THEN [site EXCEPT ![job.target] =
                           FlipCiliumService(site[job.target], "local")]
                   ELSE site
        /\ \/ /\ a = "ok" /\ pc' = "status" /\ job' = [job EXCEPT !.done = TRUE]
           \/ /\ a = "ok" /\ pc' = "clear" /\ UNCHANGED <<ha, job>>
           \/ /\ a # "ok" /\ FailPromotion /\ UNCHANGED job
  BY DEF FlipNew
<1>3. IF site[job.target].exists THEN a = "ok" ELSE a = "notFound"
  BY <1>1, CalmOutcome DEF Settled
<1>4. CASE site[job.target].exists
  BY <1>1, <1>2, <1>3, <1>4 DEF FlipNew, Stored, Job
<1>5. CASE ~site[job.target].exists
  BY <1>1, <1>2, <1>3, <1>5
  DEF FlipNew, Stored, FailPromotion, setFailoverInProgress, HACluster
<1> QED BY <1>4, <1>5

-----------------------------------------------------------------------------
(***************************************************************************)
(* The calls of runPromotion: the fence empties the set of holders before  *)
(* the target joins it, and the flip of the old Service empties the set of *)
(* attractors before the target's is flipped.                              *)
(***************************************************************************)
LEMMA SettledFence ==
  ASSUME Calm, Settled, FenceOld PROVE Book' /\ Sole'
<1>1. /\ job.old \in Sites /\ job.old = accepted /\ ~job.done
      /\ site \in [Sites -> Cluster]
  BY CalmFence DEF Settled, Typed, TypeOK, JobOK, Promoting, Book, Chosen, Copies
<1>2. Book'
  BY CalmFence DEF Settled, Book, Copies, Chosen, Seen, Idle, Promoting, Handling, accepted
<1>3. Holders = {accepted} /\ Holders' = {} /\ Attractors = {accepted}
      /\ Attractors' = {accepted}
  BY <1>1, CalmFence DEF Holders, Attractors, accepted
<1>4. ASSUME NEW s \in Sites
      PROVE  /\ site'[s].reach = site[s].reach /\ site'[s].exists = site[s].exists
             /\ site'[s].affinity = site[s].affinity
             /\ ~Writer(s)'
  <2>1. CASE site[job.old].exists
    <3>1. site' = [site EXCEPT ![job.old] = Fence(site[job.old])]
      BY <2>1, CalmFence
    <3>2. CASE s = job.old
      BY <1>1, <3>1, <3>2 DEF Fence, Cluster, Writer
    <3>3. CASE s # job.old
      BY <1>1, <1>3, <3>1, <3>3 DEF Settled, Sole, Writer
    <3> QED BY <3>2, <3>3
  <2>2. CASE ~site[job.old].exists
    BY <1>1, <1>3, <2>2, CalmFence DEF Settled, Sole, Writer
  <2> QED BY <2>1, <2>2
<1>5. Sole'
  BY <1>3, <1>4 DEF Settled, Sole
<1> QED BY <1>2, <1>5

LEMMA SettledFlipOld ==
  ASSUME Calm, Settled, FlipOld PROVE Book' /\ Sole'
<1>1. /\ job.old \in Sites /\ job.old = accepted /\ ~job.done
      /\ site \in [Sites -> Cluster]
  BY CalmFlipOld DEF Settled, Typed, TypeOK, JobOK, Promoting, Book, Chosen, Copies
<1>2. Book'
  BY CalmFlipOld DEF Settled, Book, Copies, Chosen, Seen, Idle, Promoting, Handling, accepted
<1>3. Holders = {} /\ Holders' = {} /\ Attractors = {accepted} /\ Attractors' = {}
  BY <1>1, CalmFlipOld DEF Holders, Attractors, accepted
<1>4. ASSUME NEW s \in Sites
      PROVE  /\ site'[s].reach = site[s].reach /\ site'[s].exists = site[s].exists
             /\ ~Writer(s)' /\ site'[s].affinity # "local"
             /\ ~site'[s].exists => site'[s].affinity = "none"
  <2>1. CASE site[job.old].exists
    <3>1. site' = [site EXCEPT ![job.old] = FlipCiliumService(site[job.old], "remote")]
      BY <2>1, CalmFlipOld
    <3>2. CASE s = job.old
      <4>1. ~Writer(s)
        BY <1>3 DEF Settled, Sole
      <4> QED BY <1>1, <2>1, <3>1, <3>2, <4>1 DEF FlipCiliumService, Cluster, Writer
    <3>3. CASE s # job.old
      BY <1>1, <1>3, <3>1, <3>3 DEF Settled, Sole, Writer
    <3> QED BY <3>2, <3>3
  <2>2. CASE ~site[job.old].exists
    BY <1>1, <1>3, <2>2, CalmFlipOld DEF Settled, Sole, Writer
  <2> QED BY <2>1, <2>2
<1>5. Sole'
  BY <1>3, <1>4 DEF Settled, Sole
<1> QED BY <1>2, <1>5

LEMMA SettledPromote ==
  ASSUME Calm, Settled, PromoteTarget PROVE Book' /\ Sole'
<1>1. /\ job.target \in Sites /\ ~job.done /\ site \in [Sites -> Cluster]
  BY CalmPromote DEF Settled, Typed, TypeOK, JobOK, Promoting, Book, Copies
<1>2. Book'
  BY <1>1, CalmPromote
  DEF Settled, Book, Copies, Chosen, Seen, Idle, Promoting, Handling, accepted
<1>3. Holders = {} /\ Attractors = {}
  BY CalmPromote DEF Holders, Attractors
<1>4. CASE ~site[job.target].exists
  <2>1. \A s \in Sites : ~Writer(s) /\ site[s].affinity # "local"
    BY <1>3 DEF Settled, Sole
  <2>2. site' = site
    BY <1>4, CalmPromote
  <2> QED BY <1>2, <2>1, <2>2 DEF Settled, Sole, Writer
<1>5. CASE site[job.target].exists
  <2>1. /\ site' = [site EXCEPT ![job.target] = Promote(site[job.target])]
        /\ pc' = "flipNew" /\ job' = job
    BY <1>5, CalmPromote
  <2>2. Holders' = {job.target}
    BY <2>1 DEF Holders
  <2>3. ASSUME NEW s \in Sites
        PROVE  /\ site'[s].reach = site[s].reach /\ site'[s].exists = site[s].exists
               /\ site'[s].affinity = site[s].affinity
               /\ Writer(s)' => s = job.target
    <3>1. CASE s = job.target
      BY <1>1, <2>1, <3>1 DEF Promote, Cluster
    <3>2. CASE s # job.target
      BY <1>1, <1>3, <2>1, <3>2 DEF Settled, Sole, Writer
    <3> QED BY <3>1, <3>2
  <2> QED BY <1>2, <1>3, <2>1, <2>2, <2>3 DEF Settled, Sole
<1> QED BY <1>2, <1>4, <1>5

LEMMA SettledFlipNew ==
  ASSUME Calm, Settled, FlipNew PROVE Book' /\ Sole'
<1>1. /\ job.target \in Sites /\ ~job.done /\ site \in [Sites -> Cluster]
  BY CalmFlipNew DEF Settled, Typed, TypeOK, JobOK, Promoting, Book, Copies
<1>2. Book'
  BY <1>1, CalmFlipNew
  DEF Settled, Book, Copies, Chosen, Seen, Idle, Promoting, Handling, accepted
<1>3. Holders = {job.target} /\ Attractors = {}
  BY CalmFlipNew DEF Holders, Attractors
<1>4. CASE ~site[job.target].exists
  <2>1. \A s \in Sites : ~Writer(s) /\ site[s].affinity # "local"
    BY <1>3, <1>4 DEF Settled, Sole, Writer
  <2>2. site' = site
    BY <1>4, CalmFlipNew
  <2> QED BY <1>2, <2>1, <2>2 DEF Settled, Sole, Writer
<1>5. CASE site[job.target].exists
  <2>1. /\ site' = [site EXCEPT ![job.target] =
                      FlipCiliumService(site[job.target], "local")]
        /\ pc' = "clear" \/ (pc' = "status" /\ job'.done)
        /\ job'.target = job.target
    BY <1>5, CalmFlipNew
  <2>2. Holders' = {job.target} /\ Attractors' = {job.target}
    BY <2>1 DEF Holders, Attractors
  <2>3. ASSUME NEW s \in Sites
        PROVE  /\ site'[s].reach = site[s].reach /\ site'[s].exists = site[s].exists
               /\ Writer(s)' <=> Writer(s)
               /\ s = job.target => site'[s].affinity = "local"
               /\ s # job.target => site'[s].affinity = site[s].affinity
    <3>1. CASE s = job.target
      BY <1>1, <2>1, <3>1 DEF FlipCiliumService, Cluster, Writer
    <3>2. CASE s # job.target
      BY <1>1, <2>1, <3>2 DEF Writer
    <3> QED BY <3>1, <3>2
  <2> QED BY <1>2, <1>3, <1>5, <2>2, <2>3 DEF Settled, Sole
<1> QED BY <1>2, <1>4, <1>5

-----------------------------------------------------------------------------
(***************************************************************************)
(* The steps that leave the sites alone.                                   *)
(***************************************************************************)
LEMMA SoleCarry ==
  ASSUME Sole, site' = site, pc # "flipNew",
         Holders \subseteq Holders', Attractors \subseteq Attractors'
  PROVE  Sole'
  BY DEF Sole, Writer

LEMMA SettledStart ==
  ASSUME Calm, Settled, StartReconcile PROVE Book' /\ Sole'
<1>1. /\ pc = "idle" /\ pc' = "observe" /\ ha' = cache /\ prior' = cache.primary
      /\ held' = TRUE
      /\ UNCHANGED <<site, store, cache, obs, job, eff>>
  BY DEF StartReconcile, Calm, Settled, Book, Copies
<1>2. ~job.done
  BY <1>1 DEF Settled, Book, Copies
<1>3. \A s \in Sites : ~ReadyPrimary(obs[s])
  BY <1>1 DEF Settled, Book, Idle
<1>4. Book'
  BY <1>1, <1>2, <1>3
  DEF Settled, Book, Copies, Chosen, Seen, Idle, Promoting, Handling
<1>5. Sole'
  BY <1>1, <1>2, SoleCarry DEF Settled, Holders, Attractors, accepted
<1> QED BY <1>4, <1>5

LEMMA SettledObserve ==
  ASSUME Calm, Settled, ObserveSite PROVE Book' /\ Sole'
<1> DEFINE p == SiteAt(pos)
<1>1. /\ pc = "observe" /\ pc' \in {"observe", "annotation"}
      /\ obs' = [obs EXCEPT ![p] = Probe(site[p])]
      /\ UNCHANGED <<site, store, cache, ha, held, prior, job, eff>>
      /\ ~(site[p].fenced /\ site[p].ready)
  BY DEF ObserveSite, Calm
<1>2. p \in Sites /\ obs \in Buffer /\ site[p] \in Cluster
  BY SiteAtType DEF Settled, Typed, TypeOK
<1>3. ~job.done
  BY <1>1 DEF Settled, Book, Copies
<1>4. ReadyPrimary(Probe(site[p])) => p = accepted
  <2>1. ReadyPrimary(Probe(site[p])) => Writer(p)
    BY <1>1, <1>2 DEF ReadyPrimary, Probe, Unreachable, Writer, Cluster
  <2>2. Holders = {accepted}
    BY <1>1, <1>3 DEF Holders
  <2> QED BY <1>2, <2>1, <2>2 DEF Settled, Sole
<1>5. Seen'
  <2> SUFFICES ASSUME NEW s \in Sites, ReadyPrimary(obs'[s]) PROVE s = accepted'
    BY DEF Seen
  <2>1. accepted' = accepted
    BY <1>1 DEF accepted
  <2>2. CASE s = p
    BY <1>1, <1>2, <1>4, <2>1, <2>2 DEF Buffer
  <2>3. CASE s # p
    BY <1>1, <1>2, <2>1, <2>3 DEF Buffer, Settled, Book, Seen, Handling
  <2> QED BY <2>2, <2>3
<1>6. Book'
  BY <1>1, <1>3, <1>5
  DEF Settled, Book, Copies, Chosen, Idle, Promoting, Handling
<1>7. Sole'
  BY <1>1, <1>3, SoleCarry DEF Settled, Holders, Attractors, accepted
<1> QED BY <1>6, <1>7

\* The decision names the only site that was seen as a ready primary.
LEMMA DecideSeen ==
  ASSUME NEW o, NEW p \in Sites, \A s \in Sites : ReadyPrimary(o[s]) => s = p
  PROVE  decideCurrentPrimary(o) = IF ReadyPrimary(o[p]) THEN p ELSE NoSite
<1> DEFINE cands == primaryReadyCandidates(o)
<1>1. cands = IF ReadyPrimary(o[p]) THEN {p} ELSE {}
  BY DEF primaryReadyCandidates
<1>2. ~detectSplitBrain(o)
  BY <1>1 DEF detectSplitBrain
<1> HIDE DEF cands
<1>3. decideCurrentPrimary(o) = IF cands = {} THEN NoSite ELSE CHOOSE s \in cands : TRUE
  BY <1>2 DEF decideCurrentPrimary, cands
<1> QED BY <1>1, <1>3

LEMMA AcceptedType ==
  ASSUME Typed PROVE accepted \in Sites
  BY SpecAssumption DEF Typed, TypeOK, HACluster, accepted

\* What BeginPromotion does to the bookkeeping.
LEMMA BeginSettled ==
  ASSUME Settled, pc \in {"annotation", "auto"}, ~job.done,
         NEW k \in {"manual", "auto"}, NEW t \in Sites, HealthyReplica(obs[t]),
         BeginPromotion(k, accepted, t),
         UNCHANGED <<site, store, cache, held, prior, obs, eff>>
  PROVE  Book' /\ Sole'
<1>1. /\ job' = [kind |-> k, old |-> accepted, target |-> t, done |-> FALSE]
      /\ pc' = IF accepted = t THEN "status" ELSE "fence"
      /\ ha' = [ha EXCEPT !.fip = (accepted # t)]
  BY DEF BeginPromotion, setFailoverInProgress
<1>2. ha'.primary = ha.primary /\ accepted' = accepted
  BY <1>1 DEF Settled, Typed, TypeOK, HACluster, accepted
<1>3. Copies'
  BY <1>1, <1>2 DEF Settled, Book, Copies, Handling
<1>4. Chosen'
  BY <1>1, <1>2 DEF Chosen, Promoting
<1>5. Seen'
  BY <1>2 DEF Settled, Book, Seen, Handling
<1>6. Sole'
  BY <1>1, <1>2, SoleCarry DEF Settled, Holders, Attractors
<1>7. Idle'
  BY <1>1 DEF Idle
<1> QED BY <1>3, <1>4, <1>5, <1>6, <1>7 DEF Book

LEMMA SettledConsider ==
  ASSUME Calm, Settled, ConsiderAnnotation PROVE Book' /\ Sole'
<1>1. pc = "annotation" /\ UNCHANGED <<site, store, cache, held, prior, obs, eff>>
  BY DEF ConsiderAnnotation
<1>2. ~job.done /\ ha.primary = store.primary
  BY <1>1 DEF Settled, Book, Copies, Handling
<1>3. CASE UNCHANGED <<ha, job, promoteErr>> /\ pc' \in {"auto", "reject"}
  <2>1. Book'
    BY <1>1, <1>2, <1>3
    DEF Settled, Book, Copies, Chosen, Seen, Idle, Promoting, Handling, accepted
  <2>2. Sole'
    BY <1>1, <1>2, <1>3, SoleCarry DEF Settled, Holders, Attractors, accepted
  <2> QED BY <2>1, <2>2
<1>4. CASE /\ ha.annot # NoSite /\ Acceptable
           /\ BeginPromotion("manual",
                currentPrimaryForPromotion(ha.primary, obs), ha.annot)
  <2>1. ha.annot \in Sites /\ HealthyReplica(obs[ha.annot])
    BY <1>4 DEF Acceptable, Settled, Typed, TypeOK, HACluster
  <2>2. currentPrimaryForPromotion(ha.primary, obs) = accepted
    <3>1. decideCurrentPrimary(obs) \in {NoSite, accepted}
      BY <1>1, DecideSeen, AcceptedType DEF Settled, Book, Seen, Handling
    <3> QED BY <1>2, <3>1 DEF currentPrimaryForPromotion, accepted
  <2> QED BY <1>1, <1>2, <1>4, <2>1, <2>2, BeginSettled
<1> QED BY <1>3, <1>4 DEF ConsiderAnnotation

LEMMA SettledReject ==
  ASSUME Calm, Settled, RejectAnnotation PROVE Book' /\ Sole'
<1>1. PICK a \in PatchOutcomes :
        /\ PatchAnnotation(a)
        /\ ha' = IF a = "ok" THEN store' ELSE ha
        /\ pc' = IF a = "ok" THEN "auto" ELSE "status"
  BY DEF RejectAnnotation
<1>2. a = "ok"
  BY CalmPatch DEF Settled
<1>3. /\ pc = "reject" /\ pc' = "auto" /\ ha' = store' /\ cache' = store'
      /\ store' = [store EXCEPT !.annot = NoSite] /\ held'
      /\ UNCHANGED <<site, prior, obs, job, eff>>
  BY <1>1, <1>2 DEF RejectAnnotation, PatchAnnotation, Stored, Write, Calm
<1>4. store'.primary = store.primary /\ store'.present = store.present
  BY <1>3 DEF Settled, Typed, TypeOK, HACluster
<1>5. ~job.done
  BY <1>3 DEF Settled, Book, Copies
<1>6. Book'
  BY <1>3, <1>4, <1>5
  DEF Settled, Book, Copies, Chosen, Seen, Idle, Promoting, Handling, accepted
<1>7. Sole'
  BY <1>3, <1>4, <1>5, SoleCarry DEF Settled, Holders, Attractors, accepted
<1> QED BY <1>6, <1>7

LEMMA SettledClear ==
  ASSUME Calm, Settled, ClearAnnotation PROVE Book' /\ Sole'
<1>1. PICK a \in PatchOutcomes :
        /\ PatchAnnotation(a)
        /\ ha' = IF a = "ok" THEN Completed(store') ELSE ha
        /\ pc' = IF a = "ok" THEN "auto" ELSE "status"
        /\ job' = [job EXCEPT !.done = (a = "ok")]
  BY DEF ClearAnnotation
<1>2. a = "ok"
  BY CalmPatch DEF Settled
<1>3. /\ pc = "clear" /\ pc' = "auto" /\ ha' = Completed(store') /\ cache' = store'
      /\ store' = [store EXCEPT !.annot = NoSite] /\ held'
      /\ job' = [job EXCEPT !.done = TRUE]
      /\ UNCHANGED <<site, prior, obs, eff>>
  BY <1>1, <1>2 DEF ClearAnnotation, PatchAnnotation, Stored, Write, Calm
<1>4. /\ store'.primary = store.primary /\ store'.present = store.present
      /\ store' \in HACluster
  BY <1>3, AnnotType DEF Settled, Typed, TypeOK, HACluster, Name
<1>5. ha'.cool
  BY <1>3, <1>4 DEF Completed, HACluster
<1>6. job'.done /\ job'.target = job.target /\ job'.old = job.old
  BY <1>3 DEF Settled, Typed, TypeOK, Job
<1>7. Book'
  BY <1>3, <1>4, <1>5, <1>6
  DEF Settled, Book, Copies, Chosen, Seen, Idle, Promoting, Handling, accepted
<1>8. Sole'
  BY <1>3, <1>6, SoleCarry DEF Settled, Holders, Attractors
<1> QED BY <1>7, <1>8

LEMMA SettledAuto ==
  ASSUME Calm, Settled, AutomaticFailover PROVE Book' /\ Sole'
<1>1. pc = "auto" /\ UNCHANGED <<site, store, cache, held, prior, obs, eff>>
  BY DEF AutomaticFailover
<1>2. CASE UNCHANGED <<ha, job, promoteErr>> /\ pc' = "status"
  <2>1. Book'
    BY <1>1, <1>2
    DEF Settled, Book, Copies, Chosen, Seen, Idle, Promoting, Handling, accepted
  <2>2. Sole'
    BY <1>1, <1>2, SoleCarry DEF Settled, Holders, Attractors, accepted
  <2> QED BY <2>1, <2>2
<1>3. CASE /\ ~AutoSuspended
           /\ \E t \in chooseTarget(Policy, obs, curName) :
                BeginPromotion("auto", curName, t)
  <2>1. ~job.done
    BY <1>1, <1>3 DEF AutoSuspended, Settled, Book, Copies
  <2>2. curName = accepted
    BY <1>1, <2>1 DEF Settled, Book, Copies, Handling, curName, accepted
  <2>3. PICK t \in chooseTarget(Policy, obs, curName) :
          BeginPromotion("auto", curName, t)
    BY <1>3
  <2>4. t \in Sites /\ HealthyReplica(obs[t])
    BY TargetType
  <2> QED BY <1>1, <2>1, <2>2, <2>3, <2>4, BeginSettled
<1> QED BY <1>2, <1>3 DEF AutomaticFailover

\* The status update records a promotion, and otherwise the primary stays.
LEMMA DecidedRecords ==
  ASSUME Settled, pc = "status"
  PROVE  /\ job.done => DecidedPrimary = job.target
         /\ ~job.done => DecidedPrimary \in {accepted, store.primary}
<1>1. accepted \in Sites /\ obs \in Buffer
  BY AcceptedType DEF Settled, Typed, TypeOK
<1>2. CASE job.done
  <2>1. /\ job.old = accepted /\ job.target \in Sites \ {accepted}
        /\ HealthyReplica(obs[job.target])
    BY <1>2 DEF Settled, Book, Chosen
  <2> DEFINE o == applyPromotionEffect(obs, job.old, job.target)
  <2>2. ReadyPrimary(o[job.target])
    BY <1>1, <2>1
    DEF applyPromotionEffect, ReadyPrimary, HealthyReplica, Buffer, SiteHealth
  <2>3. ASSUME NEW s \in Sites, ReadyPrimary(o[s]) PROVE s = job.target
    <3>1. CASE s = job.old
      BY <1>1, <2>1, <2>3, <3>1
      DEF applyPromotionEffect, ReadyPrimary, Buffer, SiteHealth
    <3>2. CASE s # job.old /\ s # job.target
      <4>1. o[s] = obs[s]
        BY <1>1, <2>1, <3>2 DEF applyPromotionEffect, Buffer
      <4> QED BY <2>1, <2>3, <3>2, <4>1 DEF Settled, Book, Seen, Handling
    <3> QED BY <3>1, <3>2
  <2> HIDE DEF o
  <2>4. decideCurrentPrimary(o) = job.target
    BY <2>1, <2>2, <2>3, DecideSeen
  <2> QED BY <1>2, <2>1, <2>4, NoSiteAssumption DEF DecidedPrimary, o
<1>3. CASE ~job.done
  <2>1. decideCurrentPrimary(obs) \in {NoSite, accepted}
    BY <1>1, DecideSeen DEF Settled, Book, Seen, Handling
  <2>2. prior = store.primary
    BY DEF Settled, Book, Copies, Handling
  <2> QED BY <1>3, <2>1, <2>2 DEF DecidedPrimary
<1> QED BY <1>2, <1>3

LEMMA SettledUpdate ==
  ASSUME Calm, Settled, UpdateStatus PROVE Book' /\ Sole'
<1>1. pc = "status" /\ site' = site
  BY DEF UpdateStatus
<1>2. PICK a \in StatusOutcomes :
        /\ IF a \in Stored
           THEN Write([store EXCEPT !.primary = DecidedPrimary,
                                    !.cool = ha.cool, !.fip = ha.fip])
           ELSE UNCHANGED <<store, cache>>
        /\ IF a = "ok" /\ ~promoteErr /\ replicationEndpointFor(DecidedPrimary)
           THEN /\ pc' = "topology"
                /\ eff' = DecidedPrimary
                /\ DropLocals
                /\ UNCHANGED <<pos, stray, touched>>
           ELSE Return
  BY <1>1 DEF UpdateStatus
<1>3. a = "ok"
  BY <1>1, CalmUpdate DEF Settled
<1>4. /\ store' = [store EXCEPT !.primary = DecidedPrimary,
                                !.cool = ha.cool, !.fip = ha.fip]
      /\ cache' = store'
  BY <1>2, <1>3 DEF Stored, Write, Calm
<1>5. store'.primary = DecidedPrimary /\ store'.present = store.present
  BY <1>4 DEF Settled, Typed, TypeOK, HACluster
<1>6. /\ obs' = Blank /\ job' = NoJob
      /\ \/ pc' = "idle"
         \/ pc' = "topology" /\ eff' = store'.primary /\ eff' # NoSite
  BY <1>2, <1>3, <1>5, ReconcilerAssumption, NoSiteAssumption
  DEF Return, DropLocals, replicationEndpointFor
<1>7. \A s \in Sites : ~ReadyPrimary(obs'[s])
  BY <1>6 DEF Blank, Unreachable, ReadyPrimary
<1>8. ~job'.done
  BY <1>6 DEF NoJob
<1>9. Book'
  BY <1>4, <1>5, <1>6, <1>7, <1>8
  DEF Settled, Book, Copies, Chosen, Seen, Idle, Promoting, Handling
<1>10. Holders' = {accepted'} /\ Attractors' = {accepted'}
  BY <1>6, <1>8 DEF Holders, Attractors
<1>11. CASE job.done
  <2>1. accepted' = job.target
    BY <1>1, <1>5, <1>11, DecidedRecords, NoSiteAssumption
    DEF accepted, Settled, Book, Chosen
  <2>2. Holders = {job.target} /\ Attractors = {job.target}
    BY <1>1, <1>11 DEF Holders, Attractors
  <2> QED BY <1>1, <1>9, <1>10, <2>1, <2>2, SoleCarry DEF Settled
<1>12. CASE ~job.done
  <2>1. accepted' = accepted
    BY <1>1, <1>5, <1>12, DecidedRecords DEF accepted
  <2>2. Holders = {accepted} /\ Attractors = {accepted}
    BY <1>1, <1>12 DEF Holders, Attractors
  <2> QED BY <1>1, <1>9, <1>10, <2>1, <2>2, SoleCarry DEF Settled
<1> QED BY <1>11, <1>12

-----------------------------------------------------------------------------
(***************************************************************************)
(* The topology loop makes no writer and attracts no traffic.              *)
(***************************************************************************)
LEMMA LoopBook ==
  ASSUME Settled, pc \in {"topology", "converge"}, UNCHANGED <<store, cache>>,
         \/ Return
         \/ /\ UNCHANGED <<obs, job, eff>>
            /\ \/ pc' = "topology"
               \/ pc' = "converge" /\ pos' = pos /\ SiteAt(pos) # eff
  PROVE  /\ Book' /\ pc' # "flipNew"
         /\ Holders = {accepted} /\ Attractors = {accepted}
         /\ Holders' = {accepted} /\ Attractors' = {accepted}
<1>1. ~job.done /\ Holders = {accepted} /\ Attractors = {accepted}
  BY DEF Settled, Book, Copies, Holders, Attractors
<1>2. ~job'.done /\ \A s \in Sites : ~ReadyPrimary(obs'[s])
  <2>1. CASE Return
    BY <2>1
    DEF Return, DropLocals, NoJob, Blank, Unreachable, ReadyPrimary
  <2>2. CASE UNCHANGED <<obs, job, eff>>
    BY <1>1, <2>2 DEF Settled, Book, Idle
  <2> QED BY <2>1, <2>2
<1>3. pc' \in {"idle", "topology", "converge"}
  BY DEF Return
<1>4. /\ pc' # "idle" => eff' = eff
      /\ pc' = "converge" => pos' = pos /\ SiteAt(pos) # eff
  BY DEF Return
<1>5. SiteAt(pos)' = IF pos' = 1 THEN Declared ELSE Replicas[pos' - 1]
  BY DEF SiteAt
<1>6. pc' = "converge" => SiteAt(pos)' = SiteAt(pos)
  BY <1>4, <1>5 DEF SiteAt
<1>7. Book'
  BY <1>2, <1>3, <1>4, <1>6
  DEF Settled, Book, Copies, Chosen, Seen, Idle, Promoting, Handling
<1>8. Holders' = {accepted} /\ Attractors' = {accepted}
  BY <1>2, <1>3 DEF Holders, Attractors, accepted
<1> QED BY <1>1, <1>3, <1>7, <1>8

LEMMA SettledProbeAgain ==
  ASSUME Calm, Settled, ProbeAgain PROVE Book' /\ Sole'
<1>1. /\ pc = "topology" /\ UNCHANGED <<site, store, cache>>
      /\ \/ Return
         \/ /\ UNCHANGED <<obs, job, eff>>
            /\ \/ pc' = "topology"
               \/ pc' = "converge" /\ pos' = pos /\ SiteAt(pos) # eff
  BY DEF ProbeAgain, Skip, NextSite
<1> QED BY <1>1, LoopBook, SoleCarry DEF Settled

\* Converge fences or rebuilds a site, never the accepted primary.
LEMMA CalmConverge ==
  ASSUME Settled, Converge
  PROVE  \E s \in Sites \ {accepted} :
           site' \in {site, [site EXCEPT ![s] = Fence(site[s])],
                      [site EXCEPT ![s] = Reconfigure(site[s], eff)]}
<1> DEFINE s == SiteAt(pos)
<1>1. s \in Sites
  BY SiteAtType DEF Settled, Typed, TypeOK
<1>2. s # accepted
  BY DEF Settled, Book, Copies, Converge, accepted
<1>3. site' \in {site, [site EXCEPT ![s] = Fence(site[s])],
                 [site EXCEPT ![s] = Reconfigure(site[s], eff)]}
  BY DEF Converge
<1> QED BY <1>1, <1>2, <1>3

LEMMA SettledConverge ==
  ASSUME Calm, Settled, Converge PROVE Book' /\ Sole'
<1>1. /\ pc = "converge" /\ UNCHANGED <<store, cache>>
      /\ \/ Return
         \/ /\ UNCHANGED <<obs, job, eff>>
            /\ \/ pc' = "topology"
               \/ pc' = "converge" /\ pos' = pos /\ SiteAt(pos) # eff
  BY DEF Converge, NextSite
<1>2. /\ Book' /\ Holders = {accepted} /\ Attractors = {accepted}
      /\ Holders' = {accepted} /\ Attractors' = {accepted}
  BY <1>1, LoopBook
<1>3. PICK s \in Sites \ {accepted} :
        site' \in {site, [site EXCEPT ![s] = Fence(site[s])],
                   [site EXCEPT ![s] = Reconfigure(site[s], eff)]}
  BY CalmConverge
<1>4. ASSUME NEW t \in Sites
      PROVE  /\ site'[t].reach = site[t].reach /\ site'[t].exists = site[t].exists
             /\ site'[t].affinity = site[t].affinity
             /\ Writer(t)' => Writer(t)
  <2>1. site \in [Sites -> Cluster]
    BY DEF Settled, Typed, TypeOK
  <2>2. CASE site' = site
    BY <2>2 DEF Writer
  <2>3. CASE site' = [site EXCEPT ![s] = Fence(site[s])]
    BY <2>1, <2>3 DEF Writer, Fence, Cluster
  <2>4. CASE site' = [site EXCEPT ![s] = Reconfigure(site[s], eff)]
    BY <2>1, <2>4 DEF Writer, Reconfigure, Cluster
  <2> QED BY <1>3, <2>2, <2>3, <2>4
<1>5. Sole'
  BY <1>1, <1>2, <1>4 DEF Settled, Sole
<1> QED BY <1>2, <1>5

-----------------------------------------------------------------------------
(***************************************************************************)
(* The steps around the operator.                                          *)
(***************************************************************************)
\* A site step makes no writer, and keeps or removes the affinity.
Harmless ==
  \A s \in Sites :
    /\ site'[s].reach
    /\ ~site'[s].exists => site'[s].affinity = "none"
    /\ site'[s].affinity \in {site[s].affinity, "none"}
    /\ Writer(s)' => Writer(s)

LEMMA SiteStepHarmless ==
  ASSUME Calm, Settled, SiteStep PROVE Harmless
<1>1. PICK s \in Sites :
        \/ LoseReady(s) \/ LoseReach(s) \/ LoseCluster(s)
        \/ RegainReach(s) \/ RegainReady(s) \/ FenceTakesEffect(s)
  BY DEF SiteStep
<1>2. site \in [Sites -> Cluster] /\ site[s] \in Cluster
  BY DEF Settled, Typed, TypeOK
<1>3. ~LoseReach(s)
  BY DEF Calm, LoseReach, Outage
<1>4. ASSUME NEW t \in Sites, t # s PROVE site'[t] = site[t]
  BY <1>1, <1>2, <1>4 DEF LoseReady, LoseReach, LoseCluster, RegainReach,
     RegainReady, FenceTakesEffect, SiteChange
<1>5. /\ site'[s].reach
      /\ ~site'[s].exists => site'[s].affinity = "none"
      /\ site'[s].affinity \in {site[s].affinity, "none"}
      /\ Writer(s)' => Writer(s)
  <2>1. site[s].reach /\ (~site[s].exists => site[s].affinity = "none")
    BY DEF Settled, Sole
  <2>2. CASE LoseReady(s)
    BY <1>2, <2>1, <2>2 DEF LoseReady, SiteChange, Cluster, Writer
  <2>3. CASE LoseCluster(s)
    BY <1>2, <2>1, <2>3 DEF LoseCluster, SiteChange, Cluster, Writer
  <2>4. CASE RegainReach(s)
    BY <2>1, <2>4 DEF RegainReach
  <2>5. CASE RegainReady(s)
    BY <1>2, <2>1, <2>5 DEF RegainReady, SiteChange, Cluster, Writer
  <2>6. CASE FenceTakesEffect(s)
    BY <1>2, <2>1, <2>6 DEF FenceTakesEffect, SiteChange, Cluster, Writer
  <2> QED BY <1>1, <1>3, <2>2, <2>3, <2>4, <2>5, <2>6
<1>6. ASSUME NEW t \in Sites, t # s
      PROVE  /\ site'[t].reach
             /\ ~site'[t].exists => site'[t].affinity = "none"
             /\ site'[t].affinity \in {site[t].affinity, "none"}
             /\ Writer(t)' => Writer(t)
  BY <1>4, <1>6 DEF Settled, Sole, Writer
<1> QED BY <1>5, <1>6 DEF Harmless

\* In calm conditions humans unfence replicas only.
LEMMA UnfenceHarmless ==
  ASSUME Calm, Settled, NEW s \in Sites, Unfence(s) \/ RestoreCluster(s)
  PROVE  Harmless
<1>1. site \in [Sites -> Cluster] /\ site[s] \in Cluster
  BY DEF Settled, Typed, TypeOK
<1>2. ~site[s].primary /\ site' = [site EXCEPT ![s] = [site[s] EXCEPT !.fenced = FALSE]]
  BY DEF Calm, Unfence, RestoreCluster, Chore, SiteChange
<1> SUFFICES ASSUME NEW t \in Sites
             PROVE  /\ site'[t].reach
                    /\ ~site'[t].exists => site'[t].affinity = "none"
                    /\ site'[t].affinity \in {site[t].affinity, "none"}
                    /\ Writer(t)' => Writer(t)
  BY DEF Harmless
<1>3. CASE t = s
  BY <1>1, <1>2, <1>3 DEF Writer, Cluster, Settled, Sole
<1>4. CASE t # s
  BY <1>1, <1>2, <1>4 DEF Writer, Settled, Sole
<1> QED BY <1>3, <1>4

LEMMA SettledAround ==
  ASSUME Settled, AroundOperator, Harmless PROVE Book' /\ Sole'
<1>1. UNCHANGED <<store, cache, pc, ha, held, prior, obs, pos, job, eff>>
  BY DEF AroundOperator, local
<1>2. Book'
  BY <1>1 DEF Settled, Book, Copies, Chosen, Seen, Idle, accepted, SiteAt
<1>3. Holders' = Holders /\ Attractors' = Attractors
  BY <1>1 DEF Holders, Attractors, accepted
<1> QED BY <1>1, <1>2, <1>3 DEF Settled, Sole, Harmless

LEMMA SettledEdit ==
  ASSUME Calm, Settled,
         (\E s \in Sites : Annotate(s)) \/ SwitchMode \/ DeleteHACluster
           \/ CreateHACluster
  PROVE  Book' /\ Sole'
<1>1. store.present
  BY DEF Settled, Book, Copies
<1>2. (\E s \in Sites : Annotate(s)) \/ SwitchMode
  BY <1>1 DEF Calm, DeleteHACluster, CreateHACluster, Chore
<1>3. pc = "idle"
  BY <1>2 DEF Calm, Annotate, SwitchMode, EditHACluster
<1>4. store'.primary = store.primary /\ store'.present
  BY <1>1, <1>2
  DEF Annotate, SwitchMode, EditHACluster, Write, Settled, Typed, TypeOK, HACluster
<1>5. cache' = store' /\ UNCHANGED <<site, pc, ha, prior, obs, pos, job, eff>>
  BY EditsShape DEF EditShape, Calm, Settled
<1>6. Book'
  BY <1>3, <1>4, <1>5
  DEF Settled, Book, Copies, Chosen, Seen, Idle, Promoting, Handling
<1>7. Sole'
  BY <1>3, <1>4, <1>5, SoleCarry DEF Settled, Holders, Attractors, accepted
<1> QED BY <1>6, <1>7

LEMMA SettledCooldown ==
  ASSUME Calm, Settled, CooldownExpires PROVE Book' /\ Sole'
<1>1. /\ ~(pc = "auto" /\ job.done)
      /\ store' = [store EXCEPT !.cool = FALSE]
      /\ cache' = [cache EXCEPT !.cool = FALSE]
      /\ ha' = [ha EXCEPT !.cool = FALSE]
      /\ UNCHANGED <<site, pc, held, prior, obs, pos, job, eff>>
  BY DEF CooldownExpires
<1>2. /\ store'.primary = store.primary /\ store'.present = store.present
      /\ ha'.primary = ha.primary /\ (cache = store => cache' = store')
  BY <1>1 DEF Settled, Typed, TypeOK, HACluster
<1>3. Book'
  BY <1>1, <1>2 DEF Settled, Book, Copies, Chosen, Seen, Idle, accepted, SiteAt
<1>4. Holders' = Holders /\ Attractors' = Attractors
  BY <1>1, <1>2 DEF Holders, Attractors, accepted
<1>5. Sole'
  BY <1>1, <1>4 DEF Settled, Sole, Writer
<1> QED BY <1>3, <1>5

LEMMA SettledInit == Init => Book /\ Sole
<1> SUFFICES ASSUME Init PROVE Book /\ Sole
  OBVIOUS
<1>1. PICK m \in InitModes : store = NewHACluster(TRUE, m)
  BY DEF Init
<1>2. store.present /\ store.primary = NoSite /\ cache = store /\ pc = "idle"
  BY <1>1 DEF Init, NewHACluster
<1>3. job.done = FALSE /\ \A s \in Sites : ~ReadyPrimary(obs[s])
  BY DEF Init, NoJob, Blank, Unreachable, ReadyPrimary
<1>4. Book
  BY <1>2, <1>3 DEF Book, Copies, Chosen, Seen, Idle, Promoting, Handling
<1>5. Holders = {Declared} /\ Attractors = {Declared}
  BY <1>2, <1>3 DEF Holders, Attractors, accepted
<1>6. Sole
  BY <1>5 DEF Sole, Init, Writer
<1> QED BY <1>4, <1>6

LEMMA SettledNext ==
  ASSUME Calm, Settled, [Next]_vars PROVE Settled'
<1>1. Typed'
  BY TypedNext DEF Settled
<1>2. CASE Operator
  BY <1>1, <1>2, SettledStart, SettledObserve, SettledConsider, SettledReject,
     SettledAuto, SettledFence, SettledFlipOld, SettledPromote, SettledFlipNew,
     SettledClear, SettledUpdate, SettledProbeAgain, SettledConverge
  DEF Operator, Settled
<1>3. CASE SiteStep
  BY <1>1, <1>3, SiteStepShape, SiteStepHarmless, SettledAround DEF Settled
<1>4. CASE HumanStep
  <2>1. CASE \E s \in Sites : Unfence(s) \/ RestoreCluster(s)
    BY <1>1, <2>1, RepairShape, UnfenceHarmless, SettledAround DEF Settled
  <2>2. CASE (\E s \in Sites : Annotate(s)) \/ SwitchMode \/ DeleteHACluster
               \/ CreateHACluster
    BY <1>1, <2>2, SettledEdit DEF Settled
  <2>3. ~\E s \in Sites : ConvertCluster(s)
    BY DEF ConvertCluster, Chore, Calm
  <2> QED BY <1>4, <2>1, <2>2, <2>3 DEF HumanStep
<1>5. CASE CooldownExpires
  BY <1>1, <1>5, SettledCooldown DEF Settled
<1>6. ~Crash /\ ~Sync
  BY DEF Calm, Crash, Sync, Settled, Book, Copies
<1>7. CASE UNCHANGED vars
  <2>1. UNCHANGED <<site, store, cache, pc, ha, held, prior, obs, pos, job, eff>>
    BY <1>7 DEF vars, local
  <2>2. Book'
    BY <2>1 DEF Settled, Book, Copies, Chosen, Seen, Idle, accepted, SiteAt
  <2>3. Holders' = Holders /\ Attractors' = Attractors
    BY <2>1 DEF Holders, Attractors, accepted
  <2>4. Sole'
    BY <2>1, <2>3 DEF Settled, Sole, Writer
  <2> QED BY <1>1, <2>2, <2>4 DEF Settled
<1> QED BY <1>2, <1>3, <1>4, <1>5, <1>6, <1>7 DEF Next

LEMMA SettledAlways ==
  ASSUME Calm PROVE Spec => []Settled
<1>1. Init => Settled
  BY TypedInit, SettledInit DEF Settled
<1>2. Settled /\ [Next]_vars => Settled'
  BY SettledNext
<1> QED BY <1>1, <1>2, PTL DEF Spec

(***************************************************************************)
(* In calm conditions at most one site accepts writes, however long the    *)
(* chain of automatic and requested failovers, under both rejoin policies. *)
(***************************************************************************)
THEOREM OneWriterAlways ==
  ASSUME Calm PROVE Spec => []OneWriter
<1>1. Settled => OneWriter
  BY DEF Settled, Sole, OneWriter, Holders
<1> QED BY <1>1, SettledAlways, PTL

(***************************************************************************)
(* In calm conditions the write traffic goes to the site that may write.   *)
(***************************************************************************)
THEOREM TrafficAlwaysFollows ==
  ASSUME Calm PROVE Spec => []TrafficFollows
<1>1. ASSUME Settled PROVE TrafficFollows
  <2>1. ASSUME NEW s \in Sites, Writer(s), site[s].affinity = "remote"
        PROVE  pc = "flipNew" /\ s = job.target
    BY <1>1, <2>1 DEF Settled, Sole, Holders
  <2>2. ASSUME NEW s \in Sites, NEW t \in Sites \ {s}, site[s].affinity = "local"
        PROVE  site[t].affinity # "local" /\ ~Writer(t)
    <3>1. s \in Attractors /\ (Writer(t) => t \in Holders)
          /\ (site[t].affinity = "local" => t \in Attractors)
      BY <1>1, <2>2 DEF Settled, Sole
    <3> QED BY <2>2, <3>1 DEF Holders, Attractors
  <2> QED BY <2>1, <2>2 DEF TrafficFollows
<1> QED BY <1>1, SettledAlways, PTL

-----------------------------------------------------------------------------
(***************************************************************************)
(* The refinement of WriteToken.                                           *)
(***************************************************************************)
writing == {s \in Sites : Writer(s)}
parted == {s \in Sites : site[s].primary /\ ~Writer(s)}

Stutter == writing' = writing /\ parted' = parted

\* A step at one site that changes its right to write is a step of the token.
LEMMA TokenAtOne ==
  ASSUME NEW s \in Sites,
         \A t \in Sites \ {s} : site'[t] = site[t],
         \/ (Writer(s)' <=> Writer(s)) /\ (site'[s].primary <=> site[s].primary)
         \/ writing \subseteq {s} /\ site'[s].primary /\ ~Writer(s)'
         \/ writing = {} /\ ~site[s].primary /\ Writer(s)'
         \/ site[s].primary /\ ~Writer(s) /\ ~site'[s].primary
  PROVE  Stutter \/ Token!Retire(s) \/ Token!Acquire(s) \/ Token!Rebuild(s)
<1>1. \A t \in Sites \ {s} : (Writer(t)' <=> Writer(t))
                             /\ (site'[t].primary <=> site[t].primary)
  BY DEF Writer
<1>2. CASE (Writer(s)' <=> Writer(s)) /\ (site'[s].primary <=> site[s].primary)
  BY <1>1, <1>2 DEF Stutter, writing, parted
<1>3. CASE writing \subseteq {s} /\ site'[s].primary /\ ~Writer(s)'
  <2>1. writing' = {}
    BY <1>1, <1>3 DEF writing
  <2>2. parted' = parted \cup {s}
    BY <1>1, <1>3 DEF parted
  <2> QED BY <1>3, <2>1, <2>2 DEF Token!Retire, writing, parted
<1>4. CASE writing = {} /\ ~site[s].primary /\ Writer(s)'
  <2>1. writing' = {s} /\ s \notin parted
    BY <1>1, <1>4 DEF writing, parted
  <2>2. parted' = parted
    BY <1>1, <1>4 DEF parted
  <2> QED BY <1>4, <2>1, <2>2 DEF Token!Acquire, writing, parted
<1>5. CASE site[s].primary /\ ~Writer(s) /\ ~site'[s].primary
  <2>1. writing' = writing
    BY <1>1, <1>5 DEF writing, Writer
  <2>2. s \in parted /\ parted' = parted \ {s}
    BY <1>1, <1>5 DEF parted
  <2> QED BY <2>1, <2>2 DEF Token!Rebuild, writing, parted
<1> QED BY <1>2, <1>3, <1>4, <1>5

TokenStep ==
  Stutter \/ \E s \in Sites : Token!Retire(s) \/ Token!Acquire(s) \/ Token!Rebuild(s)

LEMMA TokenSame ==
  ASSUME site' = site PROVE TokenStep
  BY DEF TokenStep, Stutter, writing, parted, Writer

LEMMA TokenFence ==
  ASSUME Calm, Settled, FenceOld PROVE TokenStep
<1>1. /\ job.old \in Sites /\ job.old = accepted /\ ~job.done
      /\ site \in [Sites -> Cluster]
  BY CalmFence DEF Settled, Typed, TypeOK, JobOK, Promoting, Book, Chosen, Copies
<1>2. PICK s \in Sites : s = job.old
  BY <1>1
<1>3. writing \subseteq {s}
  BY <1>1, <1>2, CalmFence DEF Settled, Sole, Holders, writing
<1>4. CASE site[s].exists
  <2>1. site' = [site EXCEPT ![s] = Fence(site[s])]
    BY <1>2, <1>4, CalmFence
  <2>2. \A t \in Sites \ {s} : site'[t] = site[t]
    BY <1>1, <2>1
  <2>3. ~Writer(s)' /\ site'[s].primary = site[s].primary
    BY <1>1, <2>1 DEF Writer, Fence, Cluster
  <2>4. ~site[s].primary => ~Writer(s)
    BY DEF Writer
  <2>5. site[s].primary \in BOOLEAN
    BY <1>1 DEF Cluster
  <2> QED BY <1>3, <2>2, <2>3, <2>4, <2>5, TokenAtOne DEF TokenStep
<1>5. CASE ~site[s].exists
  BY <1>2, <1>5, CalmFence, TokenSame
<1> QED BY <1>4, <1>5

LEMMA TokenFlips ==
  ASSUME Calm, Settled, FlipOld \/ FlipNew PROVE TokenStep
<1>1. site \in [Sites -> Cluster]
  BY DEF Settled, Typed, TypeOK
<1>2. \/ site' = site
      \/ \E s \in Sites, r \in {"local", "remote"} :
           site' = [site EXCEPT ![s] = FlipCiliumService(site[s], r)]
  BY CalmFlipOld, CalmFlipNew DEF Settled, Typed, JobOK, Promoting
<1>3. ASSUME NEW s \in Sites, NEW r \in {"local", "remote"},
             site' = [site EXCEPT ![s] = FlipCiliumService(site[s], r)]
      PROVE  TokenStep
  <2>1. \A t \in Sites \ {s} : site'[t] = site[t]
    BY <1>1, <1>3
  <2>2. (Writer(s)' <=> Writer(s)) /\ (site'[s].primary <=> site[s].primary)
    BY <1>1, <1>3 DEF Writer, FlipCiliumService, Cluster
  <2> QED BY <2>1, <2>2, TokenAtOne DEF TokenStep
<1> QED BY <1>2, <1>3, TokenSame

LEMMA TokenPromote ==
  ASSUME Calm, Settled, PromoteTarget PROVE TokenStep
<1>1. job.target \in Sites /\ site \in [Sites -> Cluster]
  BY CalmPromote DEF Settled, Typed, TypeOK, JobOK, Promoting
<1>2. PICK s \in Sites : s = job.target
  BY <1>1
<1>3. writing = {}
  BY CalmPromote DEF Settled, Sole, Holders, writing
<1>4. CASE site[s].exists
  <2>1. site' = [site EXCEPT ![s] = Promote(site[s])]
    BY <1>2, <1>4, CalmPromote
  <2>2. \A t \in Sites \ {s} : site'[t] = site[t]
    BY <1>1, <2>1
  <2>3. /\ site'[s].primary
        /\ site'[s].exists = site[s].exists
        /\ site'[s].fenced = site[s].fenced
    BY <1>1, <2>1 DEF Promote, Cluster
  <2>4. ~Writer(s)
    BY <1>3 DEF writing
  <2>5. CASE site[s].fenced
    <3>1. ~Writer(s)'
      BY <2>3, <2>5 DEF Writer
    <3> QED BY <1>3, <2>2, <2>3, <3>1, TokenAtOne DEF TokenStep
  <2>6. CASE ~site[s].fenced
    <3>1. ~site[s].primary /\ Writer(s)'
      BY <1>4, <2>3, <2>4, <2>6 DEF Writer
    <3> QED BY <1>3, <2>2, <3>1, TokenAtOne DEF TokenStep
  <2> QED BY <2>5, <2>6
<1>5. CASE ~site[s].exists
  BY <1>2, <1>5, CalmPromote, TokenSame
<1> QED BY <1>4, <1>5

\* The topology loop spares the accepted primary, the only one to write.
LEMMA TokenConverge ==
  ASSUME Calm, Settled, Converge PROVE TokenStep
<1>1. site \in [Sites -> Cluster]
  BY DEF Settled, Typed, TypeOK
<1>2. PICK s \in Sites \ {accepted} :
        site' \in {site, [site EXCEPT ![s] = Fence(site[s])],
                   [site EXCEPT ![s] = Reconfigure(site[s], eff)]}
  BY CalmConverge
<1>3. ~Writer(s)
  BY DEF Converge, Settled, Book, Copies, Sole, Holders
<1>4. CASE site' = site
  BY <1>4, TokenSame
<1>5. CASE site' # site
  <2>1. \A t \in Sites \ {s} : site'[t] = site[t]
    BY <1>1, <1>2
  <2>2. ~Writer(s)'
    BY <1>1, <1>2, <1>3, <1>5 DEF Writer, Fence, Reconfigure, Cluster
  <2>3. site'[s].primary => site[s].primary
    BY <1>1, <1>2, <1>5 DEF Fence, Reconfigure, Cluster
  <2> QED BY <1>3, <2>1, <2>2, <2>3, TokenAtOne DEF TokenStep
<1> QED BY <1>4, <1>5

\* A site that is lost as a primary gives up the token.
LEMMA TokenAround ==
  ASSUME Calm, Settled,
         \/ SiteStep
         \/ \E s \in Sites : Unfence(s) \/ RestoreCluster(s)
  PROVE  TokenStep
<1>1. site \in [Sites -> Cluster]
  BY DEF Settled, Typed, TypeOK
<1>2. Harmless /\ \A t \in Sites : site'[t].primary = site[t].primary
  BY SiteStepHarmless, UnfenceHarmless, SiteStepShape, RepairShape
  DEF AroundOperator, SafeSites, Settled, Calm
<1>3. PICK s \in Sites : \E c : site' = [site EXCEPT ![s] = c]
  <2>1. CASE SiteStep
    BY <2>1 DEF SiteStep, LoseReady, LoseReach, LoseCluster, RegainReach,
       RegainReady, FenceTakesEffect, SiteChange
  <2>2. CASE \E s \in Sites : Unfence(s) \/ RestoreCluster(s)
    BY <2>2 DEF Unfence, RestoreCluster, SiteChange
  <2> QED BY <2>1, <2>2
<1>4. \A t \in Sites \ {s} : site'[t] = site[t]
  BY <1>1, <1>3
<1>5. Writer(s)' => Writer(s)
  BY <1>2 DEF Harmless
<1>6. CASE Writer(s) /\ ~Writer(s)'
  <2>1. site'[s].primary
    BY <1>2, <1>6 DEF Writer
  <2>2. writing \subseteq {s}
    BY <1>6 DEF Settled, Sole, Holders, writing
  <2> QED BY <1>4, <1>6, <2>1, <2>2, TokenAtOne DEF TokenStep
<1>7. CASE ~(Writer(s) /\ ~Writer(s)')
  BY <1>2, <1>4, <1>5, <1>7, TokenAtOne DEF TokenStep
<1> QED BY <1>6, <1>7

LEMMA TokenNext ==
  ASSUME Calm, Settled, [Next]_vars PROVE TokenStep
<1>1. ~Crash /\ ~Sync
  BY DEF Calm, Crash, Sync, Settled, Book, Copies
<1>2. CASE \/ StartReconcile \/ ObserveSite \/ ConsiderAnnotation \/ RejectAnnotation
           \/ AutomaticFailover \/ ClearAnnotation \/ UpdateStatus \/ ProbeAgain
  BY <1>2, TokenSame
  DEF StartReconcile, ObserveSite, ConsiderAnnotation, RejectAnnotation,
      AutomaticFailover, ClearAnnotation, UpdateStatus, ProbeAgain
<1>3. CASE FenceOld \/ FlipOld \/ PromoteTarget \/ FlipNew \/ Converge
  BY <1>3, TokenFence, TokenFlips, TokenPromote, TokenConverge
<1>4. CASE SiteStep \/ \E s \in Sites : Unfence(s) \/ RestoreCluster(s)
  BY <1>4, TokenAround
<1>5. CASE (\E s \in Sites : Annotate(s)) \/ SwitchMode \/ DeleteHACluster
             \/ CreateHACluster
  BY <1>5, EditsShape, TokenSame DEF EditShape, Settled
<1>6. CASE CooldownExpires \/ UNCHANGED vars
  BY <1>6, TokenSame DEF CooldownExpires, vars
<1>7. ~\E s \in Sites : ConvertCluster(s)
  BY DEF ConvertCluster, Chore, Calm
<1> QED BY <1>1, <1>2, <1>3, <1>4, <1>5, <1>6, <1>7 DEF Next, Operator, HumanStep

(***************************************************************************)
(* In calm conditions the reconciler implements WriteToken: the right to   *)
(* write passes on only through a state in which nobody holds it, never    *)
(* back to a primary that lost it before it was rebuilt, and the site that *)
(* holds it is not rebuilt.                                                *)
(***************************************************************************)
THEOREM TokenAlwaysPasses ==
  ASSUME Calm PROVE Spec => TokenPasses
<1>1. Init => Token!Init
  <2> SUFFICES ASSUME Init PROVE Token!Init
    OBVIOUS
  <2>1. /\ \A s \in Sites : Writer(s) <=> s = Declared
        /\ \A s \in Sites : site[s].primary <=> s = Declared
    BY DEF Init, Writer
  <2> QED BY <2>1, SpecAssumption DEF Token!Init
<1>2. Settled /\ [Next]_vars =>
        [Token!Next]_<<{s \in Sites : Writer(s)},
                       {s \in Sites : site[s].primary /\ ~Writer(s)}>>
  BY TokenNext DEF TokenStep, Stutter, writing, parted, Token!Next
<1> QED BY <1>1, <1>2, SettledAlways, PTL DEF Spec, TokenPasses, Token!Spec
=============================================================================
