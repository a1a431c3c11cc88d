------------------------ MODULE MCFingerprintStream -------------------------
(* Values for the constants of FingerprintStream.                          *)
EXTENDS FingerprintStream, TLC

Alike == Permutations(Procs) \cup Permutations(Messages)
=============================================================================
