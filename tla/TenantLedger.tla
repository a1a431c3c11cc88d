---------------------------- MODULE TenantLedger ----------------------------
(***************************************************************************)
(* What the seat-keeping services promise of one tenant: members join only *)
(* while a seat is free, the last OWNER neither leaves nor is demoted, and *)
(* the number of seats is never set below the number of members.  Every    *)
(* change is one atomic step.                                              *)
(***************************************************************************)
EXTENDS Naturals, FiniteSets

CONSTANTS Users, Founder, Roles, NoRole, PlanMaxUsers

VARIABLES role, maxUsers

Members == {u \in Users : role[u] # NoRole}
Owners  == {u \in Users : role[u] = "OWNER"}

Init == /\ role = [u \in Users |-> IF u = Founder THEN "OWNER" ELSE NoRole]
        /\ maxUsers = PlanMaxUsers["FREE"]

Join(u) == /\ role[u] = NoRole
           /\ Cardinality(Members) < maxUsers
           /\ \E ro \in Roles : role' = [role EXCEPT ![u] = ro]
           /\ UNCHANGED maxUsers

(* A new role, or NoRole for leaving; the last owner stays one.            *)
Edit(u) == /\ u \in Members
           /\ Owners # {u}
           /\ \E ro \in Roles \cup {NoRole} : role' = [role EXCEPT ![u] = ro]
           /\ UNCHANGED maxUsers

Resize == /\ maxUsers' \in Nat
          /\ Cardinality(Members) <= maxUsers'
          /\ UNCHANGED role

Next == (\E u \in Users : Join(u) \/ Edit(u)) \/ Resize

Spec == Init /\ [][Next]_<<role, maxUsers>>
=============================================================================
