SPECIFICATION Spec
CONSTANTS
  c1 = c1
  e1 = e1
  e2 = e2
  Checkouts = {c1}
  Signups = {s1}
  Asked <- Callers
  Overlap = 2
  Emails = {e1, e2}
  Email <- OneCustomer
  Prices = {"pro", "ent"}
  MaxChanges = 1
  MaxCrashes = 1
INVARIANTS OneTenantPerCheckout FollowsStripe AccountsComplete
PROPERTIES PaidGetsTenant
CHECK_DEADLOCK FALSE
