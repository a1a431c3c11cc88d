----------------------------- MODULE MCSessions -----------------------------
(* Values for the constants of Sessions.                                   *)
EXTENDS Sessions

CONSTANTS c1, c2, c3

ThreeConns == {c1, c2, c3}
OnlyFirst  == {c1}
=============================================================================
