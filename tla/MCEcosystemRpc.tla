--------------------------- MODULE MCEcosystemRpc ---------------------------
(* Bounded instances of EcosystemRpc for TLC.  No symmetry: the run checks *)
(* liveness.                                                               *)
EXTENDS EcosystemRpc
=============================================================================
