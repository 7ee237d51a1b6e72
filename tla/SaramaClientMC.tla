--------------------------- MODULE SaramaClientMC ---------------------------
(***************************************************************************)
(* Model-checking instance of SaramaClient: topics and callers are model   *)
(* values, interchangeable for the safety runs.                            *)
(***************************************************************************)
EXTENDS SaramaClient, TLC

Symmetry == Permutations(Topics) \cup Permutations(Callers)
=============================================================================
