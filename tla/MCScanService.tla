---------------------------- MODULE MCScanService ----------------------------
(***************************************************************************)
(* Small instances of ScanService.  Worker threads, cards and readers are   *)
(* interchangeable, so the safety runs use their permutations.              *)
(***************************************************************************)
EXTENDS ScanService, TLC

Symmetry == Permutations(Threads) \cup Permutations(Cards) \cup Permutations(Readers)
=============================================================================
