------------------------------ MODULE MCConfig ------------------------------
(* Config for TLC: two sections, and symmetric concurrent requests. *)
EXTENDS Config, TLC

Symmetry == Permutations(Reloaders) \cup Permutations(Probes)
=============================================================================
