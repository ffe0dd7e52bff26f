--------------------------- MODULE MCWatchProgress ---------------------------
(* Instances of WatchProgress for TLC. *)
EXTENDS WatchProgress, TLC

Interchangeable == Permutations(Beats)
=============================================================================
