SPECIFICATION Spec
CONSTANTS
  ann = ann
  bob = bob
  cid = cid
  i1 = i1
  i2 = i2
  r1 = r1
  r2 = r2
  Users = {ann, bob}
  Founder = ann
  Elsewhere = {bob}
  Invites = {i1, i2}
  EmailOf <- BothToBob
  Requests = {r1, r2}
  Ops <- RaceOps
  Roles = {"OWNER", "MEMBER"}
  PlanMaxUsers <- TightPlans
  EnforceEntitlement = FALSE
  StripeManaged = FALSE
  SeatCounts = {3}
  MaxRows = 1
INVARIANTS OwnerRemains SeatLimit AcceptedHasJoined
PROPERTIES FinalStatus LedgerKept
SYMMETRY Symmetric
