SPECIFICATION Spec
CONSTANTS
  ann = ann bob = bob cyd = cyd i1 = i1 i2 = i2 a1 = a1 a2 = a2
  Creator = ann
  Users = {ann}
  Invs = {}
  InviteeOf <- ToNobody
  Sockets = {a1, a2}
  OwnerOf <- AnnTwice
  Requests = {r1, r2}
  Ops = {"join", "socket"}
  RedisFails = TRUE
  MaxMembers = 2
PROPERTIES SweepSpares AbandonedRoomEnds
