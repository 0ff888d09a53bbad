----------------------------- MODULE ReplicaList -----------------------------
(***************************************************************************)
(* The list spec.replicas while it is edited during a Reconcile.  The      *)
(* observations are a list too, made from the spec read at the start and   *)
(* matched with it by position.  The reply of the patch that clears a      *)
(* promotion request replaces the spec in memory, and chooseTarget runs    *)
(* after it.                                                               *)
(***************************************************************************)
EXTENDS Naturals, Sequences

CONSTANTS
  Names,        \* names of replica sites
  None,         \* no target
  MaxReplicas,  \* bound for TLC: length of the list
  MaxEdits      \* bound for TLC: edits of the list

VARIABLES
  stored,   \* spec.replicas in the API server
  request,  \* the stored HACluster carries the promote annotation
  ha,       \* ha.Spec.Replicas
  asked,    \* ha carries the annotation
  obs,      \* replicaObs: the name and whether the site is a healthy replica
  pc,       \* the next step of Reconcile
  target,   \* the site the automatic failover promotes
  edits     \* edits so far

vars == <<stored, request, ha, asked, obs, pc, target, edits>>

\* The list is a map keyed by name.
Lists == {l \in UNION {[1 .. n -> Names] : n \in 0 .. MaxReplicas} :
            \A i, j \in DOMAIN l : l[i] = l[j] => i = j}

Init ==
  /\ stored \in Lists
  /\ request \in BOOLEAN
  /\ ha = <<>>
  /\ asked = FALSE
  /\ obs = <<>>
  /\ pc = "idle"
  /\ target = None
  /\ edits = 0

\* The Get and the observation of every replica in the list.
ObserveReplicas ==
  /\ pc = "idle"
  /\ ha' = stored
  /\ asked' = request
  /\ \E healthy \in SUBSET Names :
       obs' = [i \in DOMAIN stored |-> [name |-> stored[i], healthy |-> stored[i] \in healthy]]
  /\ pc' = "annotation"
  /\ target' = None
  /\ UNCHANGED <<stored, request, edits>>

\* mode is Automatic: a request is rejected and cleared, and the reply of the
\* patch is the HACluster as it is stored by now.
RejectRequest ==
  /\ pc = "annotation" /\ asked
  /\ request' = FALSE
  /\ ha' = stored
  /\ asked' = FALSE
  /\ pc' = "failover"
  /\ UNCHANGED <<stored, obs, target, edits>>

NoRequest ==
  /\ pc = "annotation" /\ ~asked
  /\ pc' = "failover"
  /\ UNCHANGED <<stored, request, ha, asked, obs, target, edits>>

(***************************************************************************)
(* The threshold is reached and chooseTarget takes the first eligible      *)
(* replica other than the failed primary, with obs[i] for ha[i].  When it  *)
(* runs past the end of obs it panics, and there is no target.             *)
(***************************************************************************)
Choose(failed) ==
  LET eligible == {i \in DOMAIN ha \cap DOMAIN obs : ha[i] # failed /\ obs[i].healthy}
  IN  /\ pc = "failover"
      /\ \/ eligible = {} /\ target' = None
         \/ \E i \in eligible : (\A j \in eligible : i <= j) /\ target' = ha[i]
      /\ pc' = "done"
      /\ UNCHANGED <<stored, request, ha, asked, obs, edits>>

NotDue ==
  /\ pc = "failover"
  /\ pc' = "done"
  /\ UNCHANGED <<stored, request, ha, asked, obs, target, edits>>

Return ==
  /\ pc = "done"
  /\ pc' = "idle"
  /\ UNCHANGED <<stored, request, ha, asked, obs, target, edits>>

EditReplicas ==
  /\ edits < MaxEdits
  /\ edits' = edits + 1
  /\ stored' \in Lists \ {stored}
  /\ UNCHANGED <<request, ha, asked, obs, pc, target>>

Annotate ==
  /\ edits < MaxEdits
  /\ edits' = edits + 1
  /\ request' = TRUE
  /\ UNCHANGED <<stored, ha, asked, obs, pc, target>>

Next ==
  \/ ObserveReplicas \/ RejectRequest \/ NoRequest \/ NotDue \/ Return
  \/ \E failed \in Names \cup {None} : Choose(failed)
  \/ EditReplicas \/ Annotate

Spec == Init /\ [][Next]_vars

-----------------------------------------------------------------------------
(***************************************************************************)
(* The replica chooseTarget picks was observed, in the same Reconcile, as  *)
(* reachable, ready and still a replica.                                   *)
(***************************************************************************)
TargetWasHealthy ==
  target # None => \E i \in DOMAIN obs : obs[i].name = target /\ obs[i].healthy
=============================================================================
