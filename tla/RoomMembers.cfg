SPECIFICATION Spec
CONSTANTS
  ann = ann bob = bob cyd = cyd i1 = i1 i2 = i2 a1 = a1 a2 = a2
  Creator = ann
  Users = {ann, bob, cyd}
  Invs = {i1, i2}
  InviteeOf <- ToBobAndCyd
  Sockets = {}
  OwnerOf <- NoOwner
  Requests = {r1, r2}
  Ops = {"invite", "accept", "join", "leave", "end"}
  RedisFails = FALSE
  MaxMembers = 2
SYMMETRY Symmetric
PROPERTIES ClosedForGood JoinedNotDemoted MemberLimit
