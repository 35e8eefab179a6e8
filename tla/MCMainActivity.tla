---------------------------- MODULE MCMainActivity ----------------------------
(* MainActivity with model values for threads and streams.                 *)
EXTENDS MainActivity, TLC

Symmetry == Permutations(Threads) \cup Permutations(Streams)

=============================================================================
