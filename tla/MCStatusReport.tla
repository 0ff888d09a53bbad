--------------------------- MODULE MCStatusReport ---------------------------
(***************************************************************************)
(* An instance of StatusReport for TLC: the declared site and one replica  *)
(* that comes and goes.                                                    *)
(***************************************************************************)
EXTENDS StatusReport

CONSTANTS a, b

MCSites == {a, b}
MCReplicas == <<b>>
=============================================================================
