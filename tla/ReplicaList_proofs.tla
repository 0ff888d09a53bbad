------------------------- MODULE ReplicaList_proofs -------------------------
(***************************************************************************)
(* What an edit of spec.replicas during a Reconcile can and cannot do.     *)
(* TargetWasHealthy is refuted by a run; here the one step that breaks it  *)
(* is named: the reply of the patch that clears a rejected request, when   *)
(* it brings another list than the one that was observed.                  *)
(***************************************************************************)
EXTENDS ReplicaList, TLAPS

\* The patch brings back the list that was observed.
SameListBack == RejectRequest => stored = ha

\* chooseTarget reads obs[i] for ha[i]: it stays within obs, and the two are
\* about the same site.
Aligned == DOMAIN ha = DOMAIN obs /\ \A i \in DOMAIN ha : obs[i].name = ha[i]

AlignedWhenUsed == pc \in {"annotation", "failover"} => Aligned

Inv == AlignedWhenUsed /\ TargetWasHealthy

LEMMA InvInit == Init => Inv
  BY DEF Init, Inv, AlignedWhenUsed, TargetWasHealthy

LEMMA InvChoose ==
  ASSUME Inv, NEW failed, Choose(failed) PROVE Inv'
<1>1. pc = "failover" /\ pc' = "done" /\ obs' = obs
  BY DEF Choose
<1>2. target' = None \/ \E i \in DOMAIN obs : ha[i] = target' /\ obs[i].healthy
  BY DEF Choose
<1>3. \A i \in DOMAIN obs : obs[i].name = ha[i]
  BY <1>1 DEF Inv, AlignedWhenUsed, Aligned
<1> QED BY <1>1, <1>2, <1>3 DEF Inv, AlignedWhenUsed, TargetWasHealthy

LEMMA InvObserve ==
  ASSUME ObserveReplicas PROVE Inv'
<1>1. PICK healthy \in SUBSET Names :
        obs' = [i \in DOMAIN stored |->
                  [name |-> stored[i], healthy |-> stored[i] \in healthy]]
  BY DEF ObserveReplicas
<1>2. Aligned' /\ target' = None
  BY <1>1 DEF ObserveReplicas, Aligned
<1> QED BY <1>2 DEF Inv, AlignedWhenUsed, TargetWasHealthy

LEMMA InvNext ==
  ASSUME Inv, [Next]_vars, SameListBack PROVE Inv'
<1>1. CASE RejectRequest
  BY <1>1 DEF RejectRequest, SameListBack, Inv, AlignedWhenUsed, Aligned,
     TargetWasHealthy
<1>2. CASE NoRequest \/ NotDue \/ Return
  BY <1>2 DEF NoRequest, NotDue, Return, Inv, AlignedWhenUsed, Aligned,
     TargetWasHealthy
<1>3. CASE EditReplicas \/ Annotate \/ UNCHANGED vars
  BY <1>3 DEF EditReplicas, Annotate, vars, Inv, AlignedWhenUsed, Aligned,
     TargetWasHealthy
<1> QED BY <1>1, <1>2, <1>3, InvChoose, InvObserve DEF Next

(***************************************************************************)
(* Edits of spec.replicas do no harm by themselves, however many and       *)
(* whenever: if the replies of the patch bring back the list that was      *)
(* observed, chooseTarget stays within the observations (no panic) and     *)
(* picks only a replica that was observed healthy in the same Reconcile.   *)
(***************************************************************************)
THEOREM OnlyTheReplyMisleads ==
  Spec /\ [][SameListBack]_vars => [](AlignedWhenUsed /\ TargetWasHealthy)
<1>1. Inv /\ [Next]_vars /\ [SameListBack]_vars => Inv'
  <2>1. UNCHANGED vars /\ Inv => Inv'
    BY DEF vars, Inv, AlignedWhenUsed, Aligned, TargetWasHealthy
  <2> QED BY <2>1, InvNext
<1>2. Inv => AlignedWhenUsed /\ TargetWasHealthy
  BY DEF Inv
<1> QED BY <1>1, <1>2, InvInit, PTL DEF Spec
=============================================================================
