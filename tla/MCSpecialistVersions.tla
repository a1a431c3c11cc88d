------------------------ MODULE MCSpecialistVersions ------------------------
(* Values for the constants of SpecialistVersions.                         *)
EXTENDS SpecialistVersions, TLC

CONSTANTS k1, k2, a, b

Alike == Permutations({k1, k2}) \cup Permutations({a, b})
=============================================================================
