---------------------------- MODULE MCConfigStore ----------------------------
(* Small instances of ConfigStore; worker threads are interchangeable. *)
EXTENDS ConfigStore, TLC

Symmetry == Permutations(Threads)
=============================================================================
