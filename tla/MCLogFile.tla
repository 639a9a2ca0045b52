----------------------------- MODULE MCLogFile -----------------------------
(* Bounds for LogFile. *)
EXTENDS LogFile, TLC

MCSymmetry == Permutations(Processes \ {First}) \cup Permutations(Files)
=============================================================================
