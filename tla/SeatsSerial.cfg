SPECIFICATION Spec
CONSTANTS
  ann = ann
  bob = bob
  cid = cid
  i1 = i1
  i2 = i2
  r1 = r1
  r2 = r2
  Users = {ann, bob, cid}
  Founder = ann
  Elsewhere = {bob}
  Invites = {i1, i2}
  EmailOf <- OneEach
  Requests = {r1}
  Ops <- SerialOps
  Roles = {"OWNER", "MEMBER"}
  PlanMaxUsers <- ThreeSeats
  EnforceEntitlement = TRUE
  StripeManaged = TRUE
  SeatCounts = {2}
  MaxRows = 1
INVARIANTS TypeOK
PROPERTIES SeatGrowth JoinEntitled InvitesFit FinalStatus
