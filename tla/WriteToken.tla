----------------------------- MODULE WriteToken -----------------------------
(***************************************************************************)
(* What failover promises, without the operator: the right to write is a   *)
(* token.  At most one site holds it, it is taken from its holder before   *)
(* another site gets it, and a site that lost it is retired: its data has  *)
(* parted from the others' and it gets the token again only after it was   *)
(* rebuilt.  A site that holds the token is never rebuilt.                 *)
(***************************************************************************)
CONSTANTS
  Sites,
  First     \* the site that holds the token at the start

VARIABLES
  writers,  \* the sites that accept writes
  retired   \* the primaries that do not

Init == writers = {First} /\ retired = {}

\* The holder loses the token; or, while nobody holds it, a site is made a
\* primary that cannot write.
Retire(s) ==
  /\ writers \subseteq {s}
  /\ writers' = {}
  /\ retired' = retired \cup {s}

Acquire(s) ==
  /\ writers = {}
  /\ s \notin retired
  /\ writers' = {s}
  /\ UNCHANGED retired

Rebuild(s) ==
  /\ s \in retired
  /\ retired' = retired \ {s}
  /\ UNCHANGED writers

Next == \E s \in Sites : Retire(s) \/ Acquire(s) \/ Rebuild(s)

Spec == Init /\ [][Next]_<<writers, retired>>
=============================================================================
