----------------------- MODULE MCStripeProvisioning -----------------------
(* Values for the constants of StripeProvisioning.                         *)
EXTENDS StripeProvisioning

CONSTANTS c1, e1, e2

OneCustomer == [c \in Checkouts |-> e1]
Callers == {[route |-> "register", email |-> e1], [route |-> "register", email |-> e2],
            [route |-> "createTenant", email |-> e1]}
=============================================================================
