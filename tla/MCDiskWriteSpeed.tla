-------------------------- MODULE MCDiskWriteSpeed --------------------------
(* DiskWriteSpeed for TLC: requests, goroutines and servers are model values, *)
(* interchangeable in the safety runs.                                         *)
EXTENDS DiskWriteSpeed, TLC

Symmetry == Permutations(Scrapers) \cup Permutations(Tasks) \cup Permutations(Targets)
=============================================================================
