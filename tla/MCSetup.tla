------------------------------- MODULE MCSetup -------------------------------
(***************************************************************************)
(* Three requests or forms, two clients, two generated keys and a manual.  *)
(***************************************************************************)
EXTENDS Setup, TLC

CONSTANTS a, b, c, here, there, gen1, gen2, own

Symmetry == Permutations({a, b, c}) \cup Permutations({here, there}) \cup Permutations({gen1, gen2})
=============================================================================
