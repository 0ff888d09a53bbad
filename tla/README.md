# A TLA+ model of cnpg-ha

cnpg-ha is a Kubernetes operator that fails a PostgreSQL service over between
CloudNativePG (CNPG) clusters in several Kubernetes clusters. This directory
holds TLA+ modules for its controller, configurations that check them with TLC,
and proofs checked by TLAPS. Line numbers below refer to
`internal/controller/hacluster_controller.go` unless a file is named.

## 1. The system

| Part | Code | State | Operations |
|---|---|---|---|
| HACluster resource | `api/v1alpha1/hacluster_types.go` | mode, promote annotation, `status.currentPrimarySite`, `lastFailoverTime`, conditions | edited by humans, patched and status-updated by the controller |
| A site's objects | CNPG `Cluster`, its `-rw` Service | replica mode, fencing annotation, readiness, replication source, Cilium affinity | written by `internal/promotion`, acted on by CNPG |
| Health probe | `internal/health` | none | `Probe` |
| Promotion steps | `internal/promotion` | none | `Fence`, `Promote`, `Reconfigure`, `FlipCiliumService` |
| Decisions | 362-400, 622-693, 1103-1139 | none | who is primary, split-brain, whom to demote, whom to promote |
| Reconcile loop | 159-249 and handlers | failure counter in memory, locals of one Reconcile | observe, manual promotion, automatic failover, status, topology |
| Remote client cache | `internal/remoteclient` | one client per Secret and key, with the version it was built from | `GetOrCreate`, `Invalidate` |
| PostgreSQL probe | `internal/postgres` | none | `Probe`, `ParseLSN` |
| Metrics | `internal/metrics`, 832-879 | series by site name | `publishMetrics` |
| Status and conditions | 205-216, 1141-1251 | the stored status | `buildSiteStatuses`, `setConditions` |
| Entry point, manifests | `cmd/main.go`, `config/`, `charts/` | none | wiring |

One worker runs Reconcile. It reads the HACluster from an informer cache, probes
every site, then makes up to six writes against up to two other API servers, and
records the outcome in the status last. Between any two of these calls a site can
fail, recover or be deleted, a call can fail before or after taking effect, the
operator can be restarted, and a human can edit the HACluster or a site. That
window is where the difficult behaviour lies, and what the model is about.

What must be right: no promotion beside an unfenced primary; at most one site
that accepts writes; no data discarded under `rejoinPolicy: Manual`; a status
that names a real primary; failovers that wait for the threshold and the
cooldown, and that do happen; requests that are settled; replicas that follow.
Around that: clients that talk to the site they were asked for, and series and
conditions that say what was observed.

## 2. Modules

| Module | Models |
|---|---|
| `CNPGCluster` | a site's API objects, `Probe`, the four writes of `internal/promotion`, and how a call can end |
| `SiteDecision` | the pure decision functions, over observation buffers |
| `Reconciler` | Reconcile, one action per API call, and its environment; the properties |
| `WriteToken` | the abstract specification of a failover: a token that passes from site to site |
| `TargetScan` | `chooseTarget` as the loop it is, with WAL positions and timelines |
| `ReplicaList` | edits of `spec.replicas` during a Reconcile, and the positions `chooseTarget` relies on |
| `RemoteClients` | the cache of remote clients: `GetOrCreate` in its steps, `Invalidate`, and the Secrets |
| `WalPosition` | `ParseLSN`, the SQL probe and its configuration, as operators |
| `StatusReport` | `publishMetrics`, the status and its conditions over many reconciles and edits |
| `MC...` | instances for TLC |
| `Reconciler_proofs`, `Manual_proofs`, `Chains_proofs`, `Pacing_proofs`, `TargetScan_proofs`, `ReplicaList_proofs`, `RemoteClients_proofs`, `StatusReport_proofs` | theorems |

`Reconciler` extends `SiteDecision`, which extends `CNPGCluster`: the handlers are
the decisions applied to what `Probe` returned, followed by writes to the sites.
`StatusReport` uses the same decisions on the observations with the WAL positions
of `WalPosition` added. `Reconciler` instantiates `WriteToken` with the unfenced
primaries as `writers` and the other primaries as `retired`.

A definition commented *Variant* is not part of the model. It is the definition
after it with a plausible mistake, and shows that some property would notice.

### State and actions of `Reconciler`

`store` is the HACluster in the API server, `cache` the informer's copy, `ha` the
copy Reconcile works on; `held` says whether `ha` still has the stored
resourceVersion, so that a status update with `held = FALSE` is a conflict.
`prior`, `obs`, `job`, `promoteErr`, `eff`, `stray` are the locals `priorPrimary`,
`primaryObs`/`replicaObs`, the promotion being run, `promoteErr`,
`effectivePrimary` and `fresh.primary`. `failCount` is the in-memory counter.
`touched`, `recent` and `streak` are history variables that only properties read.

| Action | Code |
|---|---|
| `StartReconcile`, `ObserveSite` | 159-181, 945-998 |
| `ConsiderAnnotation`, `RejectAnnotation`, `ClearAnnotation` | `handlePromoteAnnotation`, `clearPromoteAnnotation` |
| `AutomaticFailover` | `handleAutomaticFailover` up to `runPromotion` |
| `FenceOld`, `FlipOld`, `PromoteTarget`, `FlipNew` | the four calls of `runPromotion`; the end of `FlipNew` includes what the handler does after a success or a failure |
| `UpdateStatus` | 199-239 |
| `ProbeAgain`, `Converge` | `reconcileReplicaTopology`, per site |
| `Crash`, `SiteStep`, `HumanStep`, `Sync`, `CooldownExpires` | environment |

### The other machines

- **`RemoteClients`.** `secret` is what the hub stores, `seen` the informer's copy,
  `clients` the map, `call` the `GetOrCreate` each caller is in. A call is up to
  four steps, `Load` (or `LoadFails`), `Fallback` or `Lookup`, `Build`, `Put`: the
  lock is released in between. The cache promises thread safety, so there are
  several callers although the controller has one worker by default. A client is
  represented by the reference and version of the kubeconfig it was built from.
- **`StatusReport`.** One step observes the listed sites, applies a promotion if
  there was one and publishes the series (`Report`, `ReportPromotion`); the status
  update is a second step, which may fail or conflict. Which observations and
  promotions are possible is left open here; `Reconciler` says how they arise.
  A WAL position is two words of `Word` values, so `ParseLSN` and the unsigned
  difference are computed modulo `Word * Word`.
- **`ReplicaList`.** The list read at the start, the list of observations, and the
  list that replaces the first when `clearPromoteAnnotation` gets its reply.

### Abstractions

- A Get followed by an Update with its resourceVersion is one step: it applies to
  one state of the object or fails. Outcomes are ok, NotFound, an error without
  effect, and an error after the update was stored.
- The Service of a site exists exactly when its Cluster does.
- Time is abstracted to whether `lastFailoverTime` lies within the cooldown.
- The failure counter stops at the threshold, beyond which it is not compared.
- Whether a Cluster has an external cluster that `Reconfigure` can repoint, and
  whether a site has a `replicationEndpoint`, are constants.
- In `Reconciler` the `MostAdvancedLSN` policy may pick any eligible replica;
  `TargetScan` shows which one the loop picks and that this is one of them.
- The declared site lives in the operator's own cluster, so its API is reachable
  whenever the operator runs.
- In `Reconciler` clients of remote sites are always available or the site is
  unreachable; a failure to build one is the error outcome of the first call.
- Events, log lines, phases, reasons and times are left out.
- There is one HACluster. The controller keeps nothing across HAClusters except
  the client cache and the series, both keyed by names, and the counter is kept
  per HACluster.

## 3. Runs

| Run | Properties | What it shows |
|---|---|---|
| `AutoFaults` | `TypeOK`, `FencedBeforePromote`, `ManualRejoinKeepsData`, `HandOver` | with a lagging cache and one outage, one failed call and one human action of every kind, the conversion of a Cluster by hand included |
| `Chains` | `OneWriter`, `TrafficFollows`, `ThresholdRespected`, `CooldownHolds`, `TokenPasses` | chains of requested and automatic failovers over three outages, with old primaries rebuilt and put back into service; `TokenPasses` is the refinement of `WriteToken` |
| `Live` | `AcceptedIsPrimary`, `SourcesReachPrimary`, `FailoverHappens`, `ReplicasFollow`, `RequestSettled` | both modes with an outage, a failed call or a crash, requests and mode switches, under fairness |
| `Scan` | `TargetIsBest`, `ScanMeetsChoice` | the loop of `chooseTarget`, all observations of three replicas, both policies |
| `Clients` | `TypeOK`, `OwnKubeconfig`, `ReadIsUsed`, `RotationPickedUp` | concurrent calls of `GetOrCreate` while Secrets are rotated, broken and deleted |
| `Report` | `LagIsDistance`, `OneSeriesPerSite`, `AlertCountsPrimaries`, `StatusTellsSites` | series and status over all observations of two sites, failed and conflicting updates, edits of the site list |
| `OneWriterFaults`, `StaleStatus`, `FenceStays`, `FencedAdopted`, `SpecEdit`, `GaugeStale` | one each | violated: section 4 |

**Bounds.** Three sites are a declared primary and two replicas: the smallest
HACluster with a choice of target, a bystander, and a chain of two failovers. The
declared site is never promoted, so longer chains need more replicas, or a site
that is rebuilt and promoted again, which `Chains` has. Outages, faults and human
actions are budgets (`MaxOutages`, `MaxFaults`, `MaxChores`) rather than limits on
the length of a behaviour: between them the operator runs for ever. A threshold of
2 is the smallest at which one unhealthy reconcile is not enough. `Scan` has three
replicas because a candidate that wins against one can lose against another, and
positions up to 2, enough for every order of three. `Clients` has two keys in one
Secret and the same name in another namespace, so that every part of a cache key
matters, and two versions, so that one caller can hold the old one while another
stores the new one. `Report` has words of one bit: the four positions give every
order, a carry between the words and a difference that would wrap around.
`SpecEdit` has lists of up to two replicas (`MaxReplicas`), enough for two to change
places. Deadlock is checked everywhere except in `Scan`, whose loop ends.

**Where the safe runs stop.** `Chains` runs in calm conditions: the operator's own
calls succeed and it is not restarted (`Faults = {}`), the cache is fresh, CNPG
stops a fenced site before the operator observes it again (`SlowFences = FALSE`),
humans edit the HACluster between reconciles (`MidwayEdits = FALSE`) and unfence a
site only after it was rebuilt (the chore `rejoin`). These are the limits of the
code: section 4 shows what happens beyond each. `AutoFaults` and `Live` have none
of these limits except the ones visible in their configurations.

**Fairness.** Weak fairness of the operator's steps: controller-runtime requeues
after every Reconcile, with `RequeueAfter` on success and with backoff on errors
(221, 227, 238, 248). Weak fairness of the informer, of the clock
(`CooldownExpires`), and of CNPG acting on a fence. No fairness is assumed of
sites recovering or of humans. The liveness properties exclude what the code
cannot promise: `FailoverHappens` asks for a failover only while the API of the
dead primary answers, `RequestSettled` only while all do. In `RemoteClients`,
callers go on calling, as reconciles do, and informers catch up; nothing makes
anybody repair a Secret or call `Invalidate`, which the controller never does.

## 4. What the code does otherwise than documented

Six runs are expected to end in a counterexample:

- **`OneWriterFaults`.** A call after `Promote` fails. The status still names the
  old primary; the promoted site no longer qualifies as a target because it is a
  primary; the retry promotes a second replica. Two primaries without a fence,
  although `promotion.go:12` calls a retry safe.
- **`StaleStatus`.** A Reconcile from a lagging cache clears an annotation, gets
  the fresh resourceVersion with the reply, and writes the old `priorPrimary`.
- **`FenceStays`.** Under `AutoReplica` a rebuilt primary keeps the fence that the
  promotion set, and does not start.
- **`FencedAdopted`.** A promotion fenced c and made b the primary; the topology
  loop ended at another site, so c is not rebuilt, and CNPG has not stopped it yet.
  When b loses readiness now, c is the only ready primary: the status adopts it
  (211), and b, the only site that accepts writes, is rebuilt as its replica.
- **`SpecEdit`.** `chooseTarget` matches the list of replicas with the observations
  by position (371). A rejected request in the same Reconcile replaces the list by
  the stored one (561, 776); if that was edited since the observations, the health
  of one replica stands for another, or the index is out of range.
- **`GaugeStale`.** `publishMetrics` sets the series of listed sites and nothing
  deletes those of a site that left the spec, so the alert on the number of
  primaries counts a removed one.

More of the kind can be seen by changing constants of a configuration:

- `MidwayEdits = TRUE` in `Chains`: a promotion is recorded only by the last status
  update, and an edit of the HACluster in between makes it conflict (220); the next
  promotion fences the site before the last, and `OneWriter` is violated.
- `Faults = {"crash"}`, `MaxFaults = 1` in `Chains`: a crash before the status
  update loses `lastFailoverTime`, and `CooldownHolds` is violated (285).
- `Chores = {"mode"}` in `Chains`: in mode Manual the counter is neither advanced
  nor reset (272), so failures before and after a healthy period in mode Manual
  count as consecutive, and `ThresholdRespected` is violated.
- `Chores = {"restore"}` in `Chains`: a primary whose Cluster was gone when it was
  failed over cannot be fenced; re-created, it is an unfenced primary until the
  topology loop comes to it, and `TrafficFollows` and `OneWriter` are violated.
- `StaleReads = TRUE` in `Live`: the status falls back to a former primary
  as in `StaleStatus`, which is a replica by now; the topology loop then rebuilds
  the real primary as its replica, nobody is a primary any more, and
  `SourcesReachPrimary` is violated.
- `Repointable = {b, c}` in `Live`: a site that `Reconfigure` refuses ends the
  topology loop, and the sites after it never follow (470, 485).

Others follow from reading the same actions. If clearing the annotation fails
after a promotion (602), `FailoverInProgress=True` is stored and never reset.
Otherwise that condition is stored only after the promotion is over, so a crash
half-way leaves no trace of it (591, 220). A manual promotion interrupted after the
fence is rejected at the retry when the target is not ready or already promoted
(573), which leaves the old primary fenced. A kubeconfig Secret that is deleted or
emptied is treated like one that cannot be read for a moment, so the old client is
used for ever (`remoteclient.go:88`), as `Fallback` shows; `RotationPickedUp`
therefore speaks of valid kubeconfigs only.

## 5. Proofs

All theorems hold for every set of sites, every spec order, threshold and policy,
any number of outages, faults and human actions (of the kinds a theorem's own
conditions admit), from the named assumptions `NoSiteAssumption`, `SpecAssumption`,
`ReconcilerAssumption`, `ScanAssumption`, `RefsAssumption` and `WordAssumption`
(distinct site names, a threshold of at least 1, constants of their types). The
condition of a theorem is an assumption on the constants; TLC checked
the theorem's inductive invariant on an instance that meets it, and the text below
says what happens without it.

| Theorem | Statement | Argument |
|---|---|---|
| `TypeCorrect` | `Spec => []TypeOK` | inductive with `JobOK`: while a promotion runs, its two sites exist and differ |
| `FencingPrecedesPromotion` | `Spec => []FencedBeforePromote` | inductive with the types: `FenceOld` establishes it, later calls write to another site, only a human undoes a fence |
| `ManualRejoinIsSafe` | `Spec => ManualRejoinKeepsData` | from `StrayKnown`: when `Converge` acts, `stray` still is the role of the site unless a human touched it. Only `PromoteTarget`, `Converge` and a human change roles |
| `HandOverAlways` | `Spec => HandOver` | no step but `PromoteTarget` makes a writer, and `FencedBeforePromote` tells of the old primary at that moment |
| `AcceptedStaysPrimary` | a fresh cache gives `Spec => []AcceptedIsPrimary` | from `Witnessed`, below |
| `SourcesAlwaysReachPrimary` | a fresh cache gives `Spec => []SourcesReachPrimary` | from `Witnessed` and `Rooted`, below |
| `ManualAcceptsPrimary`, `ManualSourcesReachPrimary`, `ManualFencesPrimaries` | `rejoinPolicy: Manual` gives the same two, and that no replica is fenced, for a cache of any age | from `Upheld`, below |
| `OneWriterAlways`, `TrafficAlwaysFollows` | `Calm` gives `Spec => []OneWriter`, `Spec => []TrafficFollows` | from `Settled`, below |
| `TokenAlwaysPasses` | `Calm` gives `Spec => TokenPasses` | step simulation with `Settled`, below |
| `CooldownAlwaysHolds` | `Lasting` gives `Spec => []CooldownHolds` | `Cooling`: a recent promotion is marked in the stored HACluster or in the copy about to be stored |
| `ThresholdAlwaysRespected` | a fixed mode and `Counted` give `Spec => []ThresholdRespected` | `Counting`: the counter never exceeds the number of consecutive unhealthy reconciles |
| `TargetIsBestAlways`, `ScanMeetsChoiceAlways` | `Spec => []TargetIsBest`, `Spec => []ScanMeetsChoice` | loop invariant `ScanInv`; `moreAdvanced` is a strict weak order |
| `OnlyTheReplyMisleads` | `TargetWasHealthy`, if the reply of the patch carries the list that was read | list and observations are about the same sites, position by position |
| `TypeCorrect`, `ClientsAreOwn`, `ReadsAreUsed` | `Spec => []TypeOK`, `Spec => []OwnKubeconfig`, `Spec => []ReadIsUsed` | every entry of the map is a client of its own reference, of the version noted beside it; a call in its fallback has read nothing |
| `OneCallerMovesForward` | with one caller, no cached client is replaced by one of an older version | from `Ordered`, below |
| `LagIsAlwaysDistance`, `AlwaysOneSeries`, `AlertAlwaysCounts`, `StatusAlwaysTellsSites` | the properties of `Report` | inductive with the shape of the buffers and `PrimaryShown` |
| `OnlyShownPrimaryMisleads` | `AlertIgnoresRemovedSites`, if the site shown as the primary is not removed | the series of sites outside the spec never show a primary |
| `ParseOrdersTexts` | `ParseLSN` orders the texts PostgreSQL renders as PostgreSQL orders positions | arithmetic on two words, for every word size |

**`Witnessed`.** `AcceptedIsPrimary` is not inductive: the status is written from
what Reconcile remembers, and the topology loop demotes sites after that.
`Witnessed` adds that the prior status, every observation and the target of a
finished promotion name primaries, that the loop starts with none of these
memories left, and that it never stands at the accepted site. The assumption on
the cache is needed: without it `StaleStatus` is a counterexample. So is the second
one, that no human converts a Cluster (`"convert" \notin Chores`): the status of a
site converted by hand is corrected at the next Reconcile only.

**`Rooted`.** `SourcesReachPrimary` says that every set of replicas has one with a
source outside the set, which excludes circles without counting paths, and needs
no induction over them: `Converge` adds one edge, to a site outside every such set.
What has to be added is that this site, `eff`, is a primary while the loop runs,
and that is what `Witnessed` gives.

**`Upheld`.** Under `rejoinPolicy: Manual` the operator turns no primary into a
replica, so the set of primaries only grows. Then every name the operator holds for
a primary, in the store, a cache of any age, its copies, its observations and its
job, stays right for ever, and staleness does no harm. `StaleStatus` and
`FenceStays`, and the loss of the last primary with `StaleReads = TRUE`, need
`AutoReplica`. Here too no human may convert a Cluster (`ByHand`).

**What is left of `OneWriter` under faults.** `OneWriterFaults` refutes it, and a
bound such as one writer more per fault does not hold either: every retry may
promote another replica. `HandOver` holds in every behaviour: writers are made by
`Promote` alone (or a human), and the site the promotion takes for the old primary
does not accept writes then. What goes wrong in `OneWriterFaults` is which site
that is.

**`Calm` and `Settled`.** `Calm` states the conditions of the run `Chains` as an
assumption on the constants: no faults, fresh cache, prompt fences, reachable
sites, edits between reconciles, humans who request promotions, switch the mode and
unfence replicas, but do nothing else to a site. Each part is
needed for one of the theorems: besides the counterexamples of section 4, TLC finds
`Chains` to violate `CooldownHolds` with `StaleReads = TRUE`, and `TokenPasses` with
`SlowFences = TRUE`, with the outage `unreach`, or with the chore `unfence`. With
`SlowFences = TRUE`, `OneWriter` survives with three sites and fails with four, an
example of what a bound can hide.
`OneWriter` says nothing about what the operator knows, so `Settled` has two parts.
`Book`: the operator's copies agree with the stored HACluster until it completes a promotion, a promotion
demotes the accepted primary in favour of a healthy replica, and only the accepted
primary was observed as a ready primary. `Sole`: who may accept writes and attract
traffic at each step of a promotion, namely the accepted primary before the fence,
nobody between the fence and `Promote`, the target from then on, with the Services
one step behind. `Book` makes the next step of the operator the right one for
`Sole`, and `Sole` makes the next observation right for `Book`.

**Refinement.** `WriteToken` is mapped to by `writers`, the existing unfenced
primaries, and `retired`, the other primaries. `FenceOld` is `Retire`,
`PromoteTarget` is `Acquire` (or `Retire`, if the target was fenced), `Converge`
under `AutoReplica` is `Rebuild`, the loss of a primary's Cluster is `Retire`, and
every other step changes neither. That `Acquire` finds no writer and a site that is
not retired, and that `Rebuild` does not hit the writer, is what `Settled` is for.

**Pacing.** Cooldown and threshold need less than `Calm`. `Lasting` is a fresh
cache, no faults, no edits during a Reconcile and no re-created HACluster; outages,
slow fences, mode switches and humans at the sites are all admitted. TLC violates
`CooldownHolds` with a crash, a failed call, a stale read, a request during a
Reconcile or a re-creation, so every part is needed. The threshold holds with
crashes, failed calls and stale reads as long as the mode is fixed and nobody
requests promotions; with requests (`annotate` in `Chores`) it needs a fresh cache,
no failed calls, and no re-creation during a Reconcile. TLC violates it when any
one of these is dropped.

**`Ordered`.** Two callers can store an older client over a newer one, when the one
that read first stores last: TLC finds that in the instance `Clients`. The manager
runs one worker. Then a version in hand is at least that of the entry it may
replace, since the informer never goes back, an edit gets a version above all
others, and after a deletion there is nothing to read until a newer one exists.

**Complements of counterexamples.** `OnlyTheReplyMisleads` and
`OnlyShownPrimaryMisleads` are stated with an action as a condition, `[][A]_vars`,
and show that the step named in section 4 is the only cause of `SpecEdit` and
`GaugeStale`: a repair has to deal with that step and nothing else.

`ManualRejoinKeepsData` has one exemption, `touched`: a Cluster that a human
promotes between the second probe (459) and the write that follows (484) is rebuilt as a
replica. `Reconfigure` reads the Cluster again but does not look at its role.

Model-checked only: the liveness properties `FailoverHappens`, `ReplicasFollow`,
`RequestSettled` and `RotationPickedUp`, since temporal reasoning with fairness is
out of the prover's reach.

## 6. Not modelled

- **Two operators at once.** The manifests and the chart enable leader election;
  the default of the flag is off (`cmd/main.go:69`).
- **Edits of `spec.replicas` in `Reconciler`.** Its list of sites is constant;
  `ReplicaList` and `StatusReport` have the edits with the part of Reconcile they
  affect.
- **The client cache inside `Reconciler`.** A kubeconfig that is repointed between
  the observation and the promotion of a site makes the two speak of different
  clusters. `RemoteClients` says which client a call returns, and `Reconciler` takes
  it to be the site's.
- **What a WAL position means.** Positions are compared as numbers, as the code
  does, also across timelines, and `0/0` counts as known.
- **Replay lag in seconds**, its gauge and its status field: a float that is copied
  from the probe, with the same set-or-clear logic as the position. The failover
  counter and the duration histogram are only ever added to.
- **A scrape between two `Set` calls** of one `publishMetrics`, which may see no or
  two primaries. The alerts on them have a `for` duration.
- **The connection string of the probe**, texts of events, conditions and reasons,
  CRD validation, generated deep copies, flag parsing, RBAC and charts: no state
  and no decisions that the properties tell apart.
