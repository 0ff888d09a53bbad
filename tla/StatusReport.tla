---------------------------- MODULE StatusReport ----------------------------
(***************************************************************************)
(* What the operator tells the outside of an HACluster: the Prometheus     *)
(* series of publishMetrics and the status with its conditions, over many  *)
(* reconciles and while sites are added to and removed from the spec.      *)
(* The observations of a reconcile and its promotion are inputs here; how  *)
(* they come about is the subject of Reconciler.                           *)
(***************************************************************************)
EXTENDS SiteDecision, WalPosition

CONSTANT MaxFaults   \* bound for TLC: edits of the spec and failed status updates

VARIABLES
  spec,      \* the sites the stored spec lists, {} once deleted
  ha,        \* the sites the copy of this Reconcile lists
  fresh,     \* the stored HACluster was not edited since that copy was read
  obs,       \* primaryObs and replicaObs
  pc,        \* the next step of Reconcile
  gauge,     \* the series of each site name
  lsnInfo,   \* the series of SiteLSNInfo: pairs of a site and a text
  split,     \* the series SplitBrain of the HACluster
  status,    \* the stored status
  truth,     \* history: the ready primaries of the last reconcile
  faults     \* edits of the spec and failed status updates so far

vars == <<spec, ha, fresh, obs, pc, gauge, lsnInfo, split, status, truth, faults>>

(***************************************************************************)
(* siteObservation: the health and what probePostgres found.               *)
(***************************************************************************)
Healths == {h \in SiteHealth : h.Reachable \/ h = Unreachable}

Observe(h, probe) ==
  [Reachable |-> h.Reachable, Primary |-> h.Primary, Ready |-> h.Ready,
   lsn |-> probe.LSN, lsnValue |-> probe.LSNValue]

Observation ==
  {Observe(h, probePostgres(h, p, answer)) :
     h \in Healths, p \in PostgresProbe \cup {Unknown}, answer \in Answers}

Unlisted == Observe(Unreachable, Failed)

\* The series of one site; Unknown is a series that does not exist.
Series == [primary : BOOLEAN \cup {Unknown}, reachable : BOOLEAN \cup {Unknown},
           ready : BOOLEAN \cup {Unknown},
           lagBytes : Nat \cup {Unknown}, lsnBytes : Nat \cup {Unknown}]

NoSeries == [primary |-> Unknown, reachable |-> Unknown, ready |-> Unknown,
             lagBytes |-> Unknown, lsnBytes |-> Unknown]

\* toSiteStatus
SiteStatus == [role : {"Unknown", "Primary", "Replica"},
               reachable : BOOLEAN, ready : BOOLEAN]

toSiteStatus(o) ==
  [role |-> IF ~o.Reachable THEN "Unknown" ELSE IF o.Primary THEN "Primary" ELSE "Replica",
   reachable |-> o.Reachable, ready |-> o.Ready]

\* A new HACluster has no status; the conditions are absent, like FALSE.
NewStatus == [primary |-> NoSite, sites |-> [s \in {} |-> 0], available |-> FALSE,
              splitBrain |-> FALSE, degraded |-> FALSE]

Init ==
  /\ spec \in {S \in SUBSET Sites : Declared \in S}
  /\ ha = {}
  /\ fresh = FALSE
  /\ obs = [s \in Sites |-> Unlisted]
  /\ pc = "idle"
  /\ gauge = [s \in Sites |-> NoSeries]
  /\ lsnInfo = {}
  /\ split = FALSE
  /\ status = NewStatus
  /\ truth = {}
  /\ faults = 0

-----------------------------------------------------------------------------
(***************************************************************************)
(* publishMetrics.  The iterations of its loop touch different series, and *)
(* it works on the buffers of this Reconcile only, so that it is one step  *)
(* with the observation.                                                   *)
(***************************************************************************)
\* The position of the current primary, if there is one and it was read.
primaryLSN(currentPrimary, buffer) ==
  IF currentPrimary = NoSite THEN Unknown ELSE buffer[currentPrimary].lsnValue

\* primaryLSN - lsnValue in 64 bits.
Minus(x, y) == (x + Word * Word - y) % (Word * Word)

\* Variant: the difference is taken without looking which one is larger.
lagBytesUnguarded(isPrimary, first, lsnValue) ==
  IF first = Unknown \/ lsnValue = Unknown THEN Unknown ELSE Minus(first, lsnValue)

lagBytes(isPrimary, first, lsnValue) ==
  IF first = Unknown \/ lsnValue = Unknown THEN Unknown
  ELSE IF isPrimary \/ lsnValue >= first THEN 0
  ELSE Minus(first, lsnValue)

\* Variant: the site in the status is published, which outlives its health.
publishedFromStatus(currentPrimary) ==
  IF currentPrimary # NoSite THEN currentPrimary ELSE status.primary

publishedPrimary(currentPrimary) == currentPrimary

\* Variant: the series with the previous text stays.
SetLSNInfoOnly(buffer) ==
  lsnInfo \cup {<<s, buffer[s].lsn>> : s \in {u \in spec : buffer[u].lsnValue # Unknown}}

\* SetSiteLSNInfo and ClearSiteLSNInfo: every series of the site goes first.
SiteLSNInfo(buffer) ==
  {e \in lsnInfo : e[1] \notin spec} \cup
  {<<s, buffer[s].lsn>> : s \in {u \in spec : buffer[u].lsnValue # Unknown}}

publishMetrics(currentPrimary, buffer) ==
  /\ gauge' = [s \in Sites |->
       IF s \notin spec THEN gauge[s]
       ELSE [primary |-> s = publishedPrimary(currentPrimary),
             reachable |-> buffer[s].Reachable, ready |-> buffer[s].Ready,
             lagBytes |-> lagBytes(s = currentPrimary, primaryLSN(currentPrimary, buffer),
                                   buffer[s].lsnValue),
             lsnBytes |-> buffer[s].lsnValue]]
  /\ lsnInfo' = SiteLSNInfo(buffer)
  /\ split' = detectSplitBrain(buffer)

(***************************************************************************)
(* Reconcile up to publishMetrics: the listed sites are observed, and one  *)
(* that is a healthy replica may be promoted.                              *)
(***************************************************************************)
Report(buffer) ==
  /\ ha' = spec
  /\ fresh' = TRUE
  /\ obs' = buffer
  /\ truth' = primaryReadyCandidates(buffer)
  /\ pc' = "update"
  /\ publishMetrics(decideCurrentPrimary(buffer), buffer)
  /\ UNCHANGED <<spec, status, faults>>

ReportPromotion(buffer) ==
  /\ ~detectSplitBrain(buffer)
  /\ \E demoted, promoted \in spec :
       /\ demoted # promoted /\ HealthyReplica(buffer[promoted])
       /\ Report(applyPromotionEffect(buffer, demoted, promoted))

ObserveSites ==
  /\ pc = "idle" /\ spec # {}
  /\ \E listed \in [spec -> Observation] :
       LET buffer == [s \in Sites |-> IF s \in spec THEN listed[s] ELSE Unlisted]
       IN  Report(buffer) \/ ReportPromotion(buffer)

\* A Reconcile that finds no HACluster does nothing, not even to its series.
FindNothing == pc = "idle" /\ spec = {} /\ UNCHANGED vars

(***************************************************************************)
(* The status this Reconcile computed: CurrentPrimarySite falls back to    *)
(* the one read at the start, buildSiteStatuses, setConditions.            *)
(***************************************************************************)
currentPrimary == decideCurrentPrimary(obs)

\* Variant: a site that lacks only readiness is not reported.
ComputedUnreachableOnly ==
  [primary |-> IF currentPrimary # NoSite THEN currentPrimary ELSE status.primary,
   sites |-> [s \in ha |-> toSiteStatus(obs[s])],
   available |-> currentPrimary # NoSite,
   splitBrain |-> detectSplitBrain(obs),
   degraded |-> \E s \in ha : ~obs[s].Reachable]

Computed ==
  [primary |-> IF currentPrimary # NoSite THEN currentPrimary ELSE status.primary,
   sites |-> [s \in ha |-> toSiteStatus(obs[s])],
   available |-> currentPrimary # NoSite,
   splitBrain |-> detectSplitBrain(obs),
   degraded |-> \E s \in ha : ~obs[s].Reachable \/ ~obs[s].Ready]

Return ==
  /\ pc' = "idle"
  /\ ha' = {}
  /\ obs' = [s \in Sites |-> Unlisted]
  /\ UNCHANGED <<spec, fresh, gauge, lsnInfo, split, truth>>

UpdateStatus ==
  /\ pc = "update" /\ fresh
  /\ status' = Computed
  /\ UNCHANGED faults
  /\ Return

\* A conflict with an edit, which includes the deletion.
UpdateConflicts ==
  /\ pc = "update" /\ ~fresh
  /\ UNCHANGED <<status, faults>>
  /\ Return

UpdateFails ==
  /\ pc = "update" /\ faults < MaxFaults
  /\ faults' = faults + 1
  /\ UNCHANGED status
  /\ Return

-----------------------------------------------------------------------------
\* A human lists other replicas, deletes the HACluster or creates it anew.
EditSpec(S) ==
  /\ S # spec /\ faults < MaxFaults
  /\ faults' = faults + 1
  /\ S # {} => Declared \in S
  /\ spec' = S
  /\ fresh' = FALSE
  /\ status' = IF S = {} THEN NewStatus ELSE status
  /\ UNCHANGED <<ha, obs, pc, gauge, lsnInfo, split, truth>>

Next ==
  \/ ObserveSites \/ FindNothing
  \/ UpdateStatus \/ UpdateConflicts \/ UpdateFails
  \/ \E S \in SUBSET Sites : EditSpec(S)

Spec == Init /\ [][Next]_vars

-----------------------------------------------------------------------------
(***************************************************************************)
(* Properties.                                                             *)
(***************************************************************************)
\* The place in the WAL that a text of PostgreSQL names.
Place(t) == t.hi * Word + t.lo

(***************************************************************************)
(* Once publishMetrics is through, cnpg_ha_replica_lag_bytes of every      *)
(* listed site is how far the text read there lies behind the text read at *)
(* the current primary, 0 when it lies ahead, and does not exist when      *)
(* either is missing, whatever was published before.                       *)
(***************************************************************************)
LagIsDistance ==
  pc = "update" =>
    \A s \in ha :
      LET known == currentPrimary # NoSite
                   /\ obs[currentPrimary].lsn # Unknown /\ obs[s].lsn # Unknown
          mine == Place(obs[s].lsn)
          theirs == Place(obs[currentPrimary].lsn)
      IN  gauge[s].lagBytes =
            IF ~known THEN Unknown ELSE IF mine < theirs THEN theirs - mine ELSE 0

(***************************************************************************)
(* SiteLSNInfo has one series per site at most, across all reconciles, and *)
(* its label is the position that cnpg_ha_site_current_lsn_bytes shows.    *)
(***************************************************************************)
OneSeriesPerSite ==
  \A s \in Sites :
    LET texts == {e[2] : e \in {x \in lsnInfo : x[1] = s}}
    IN  IF gauge[s].lsnBytes = Unknown THEN texts = {}
        ELSE \E t \in Rendered : texts = {t} /\ gauge[s].lsnBytes = Place(t)

(***************************************************************************)
(* Between reconciles, as long as the spec was not edited, the series the  *)
(* alert CNPGHANoCurrentPrimary adds up name, of the listed sites, exactly *)
(* the one ready primary the last reconcile saw, and no site when it saw   *)
(* none or several: also after a failed status update, and although        *)
(* status.currentPrimarySite keeps the last primary.                       *)
(***************************************************************************)
AlertCountsPrimaries ==
  pc = "idle" /\ fresh =>
    {s \in spec : gauge[s].primary = TRUE} =
      IF \E p \in Sites : truth = {p} THEN truth ELSE {}

(***************************************************************************)
(* The stored status is consistent in itself, although the update that     *)
(* writes it may fail any number of times: Available names a site that the *)
(* site list shows as the only ready Primary, SplitBrain says that there   *)
(* are several, and without Degraded every listed site is fine.            *)
(***************************************************************************)
StatusTellsSites ==
  LET sites == status.sites
      serving == {s \in DOMAIN sites : sites[s].role = "Primary" /\ sites[s].ready}
  IN  /\ status.available => serving = {status.primary}
      /\ status.splitBrain <=> \E s, t \in serving : s # t
      /\ ~status.degraded => \A s \in DOMAIN sites : sites[s].reachable /\ sites[s].ready

(***************************************************************************)
(* As AlertCountsPrimaries for all series that exist: a site that is no    *)
(* longer listed does not count.                                           *)
(***************************************************************************)
AlertIgnoresRemovedSites ==
  pc = "idle" /\ fresh =>
    \A p \in Sites : truth = {p} => {s \in Sites : gauge[s].primary = TRUE} = {p}
=============================================================================
