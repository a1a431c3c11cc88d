---------------------------- MODULE MCTenantSeats ---------------------------
(* Values for the constants of TenantSeats.                                *)
EXTENDS TenantSeats, TLC

CONSTANTS ann, bob, cid, i1, i2, r1, r2

(* Seat numbers small enough for the invitations below to fill a plan.     *)
(* With ThreeSeats a webhook may shrink it below its members.              *)
OneSeat == [FREE |-> 1, PRO |-> 2, ENTERPRISE |-> 3]
ThreeSeats == [FREE |-> 1, PRO |-> 1, ENTERPRISE |-> 3]
TightPlans == [FREE |-> 1, PRO |-> 2, ENTERPRISE |-> 2]

BothToBob == (i1 :> bob) @@ (i2 :> bob)
OneEach   == (i1 :> bob) @@ (i2 :> cid)

SeatOps == {"accept", "invite", "plan", "revoke"}
RaceOps == {"edit", "accept", "invite", "revoke", "plan"}
SerialOps == {"accept", "invite", "platformInvite", "revoke", "platformRevoke",
              "plan", "platformBilling"}

Symmetric == Permutations({r1, r2})
=============================================================================
