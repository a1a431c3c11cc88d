SPECIFICATION Spec
CONSTANTS
  ann = ann
  bob = bob
  cid = cid
  i1 = i1
  i2 = i2
  r1 = r1
  r2 = r2
  Users = {ann, bob}
  Founder = ann
  Elsewhere = {}
  Invites = {i1, i2}
  EmailOf <- BothToBob
  Requests = {r1}
  Ops <- SeatOps
  Roles = {"OWNER", "MEMBER"}
  PlanMaxUsers <- OneSeat
  EnforceEntitlement = FALSE
  StripeManaged = FALSE
  SeatCounts = {2}
  MaxRows = 2
INVARIANTS InviteeCanLogIn
