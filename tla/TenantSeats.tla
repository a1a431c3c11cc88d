---------------------------- MODULE TenantSeats ----------------------------
(***************************************************************************)
(* The seats of one tenant: its memberships, invitations and subscription, *)
(* and the requests that change them (InvitationsService, MembersService,  *)
(* BillingService.changePlan and the tenant operations of                  *)
(* PlatformAdminService).                                                  *)
(*                                                                         *)
(* A request is an async handler.  Every awaited Prisma call is one        *)
(* autocommitted statement, so a handler is a sequence of atomic steps and *)
(* other requests run between any two of them: pc[r] is the statement that *)
(* request r executes next, loc[r] what it has read so far.                *)
(***************************************************************************)
EXTENDS Naturals, FiniteSets

CONSTANTS
  Users,                (* the people (one e-mail, at most one account each) *)
  Founder,              (* the user who registered the tenant                *)
  Elsewhere,            (* the users that are members of another tenant too  *)
  Invites,              (* the invitation rows that may come to exist        *)
  EmailOf,              (* the user each invitation is addressed to          *)
  Requests,             (* the handlers that can be in flight at once        *)
  Ops,                  (* the operations that clients call                  *)
  Roles,                (* the membership roles in use                       *)
  PlanMaxUsers,         (* PLAN_MAX_USERS                                    *)
  SeatCounts,           (* the values of dto.maxUsers a platform admin sends *)
  EnforceEntitlement,   (* BILLING_ENFORCE_ENTITLEMENT                       *)
  StripeManaged,        (* webhooks rewrite the subscription                 *)
  MaxRows               (* bound: membership rows a user has over time       *)

Plans    == {"FREE", "PRO", "ENTERPRISE"}
Statuses == {"ACTIVE", "PAST_DUE", "CANCELED"}
NoRole   == "NONE"
Admins   == {"OWNER", "ADMIN"}
InviteStatus == {"UNSENT", "PENDING", "ACCEPTED", "REVOKED", "EXPIRED"}

ASSUME UsersAssumption == IsFiniteSet(Users) /\ Founder \in Users /\ Elsewhere \subseteq Users
ASSUME InvitesAssumption == IsFiniteSet(Invites) /\ EmailOf \in [Invites -> Users]
ASSUME RolesAssumption == "OWNER" \in Roles /\ NoRole \notin Roles
ASSUME PlansAssumption == PlanMaxUsers \in [Plans -> Nat \ {0}] /\ SeatCounts \subseteq Nat \ {0}
ASSUME FlagsAssumption == EnforceEntitlement \in BOOLEAN /\ StripeManaged \in BOOLEAN
ASSUME MaxRowsAssumption == MaxRows \in Nat \ {0}

VARIABLES
  account,    (* users that have a row in "User"                            *)
  role,       (* role[u]: the role of u's membership, NoRole without one    *)
  row,        (* row[u]: how many membership rows u has had; the last is    *)
              (* the one that exists (a new row has a new id)               *)
  invite,     (* invite[i]: status and role of invitation i                 *)
  late,       (* invitations whose expiresAt has passed                     *)
  sub,        (* the subscription row                                       *)
  pc, loc,    (* the requests in flight                                     *)
  editRace,   (* history: two membership edits were in flight at once       *)
  seatRace,   (* history: so were two requests that give or sell seats      *)
  shrunk,     (* history: a webhook shrank the plan below its members       *)
  overtaken   (* history: invitations settled while another request, having *)
              (* found them PENDING, was about to write them                *)

db    == <<account, role, row, invite, late, sub>>
races == <<editRace, seatRace, shrunk>>
hist  == <<editRace, seatRace, shrunk, overtaken>>
vars  == <<account, role, row, invite, late, sub, pc, loc, editRace, seatRace, shrunk, overtaken>>

Members == {u \in Users : role[u] # NoRole}
Owners  == {u \in Users : role[u] = "OWNER"}
Pending == {i \in Invites : invite[i].status = "PENDING"}
Unsent  == {i \in Invites : invite[i].status = "UNSENT"}

IsEntitled(s) == s.plan \in {"PRO", "ENTERPRISE"} /\ s.status = "ACTIVE"

EditSteps == {"countOwners", "writeMember"}
AcceptSteps == {"createUser", "refetch", "readSub", "countSeats",
                "findMembership", "createMember", "markAccepted"}
InviteSteps == {"findMember", "findPending", "countMembers", "countPending", "addMembers",
                "addPending", "insertInvite"}
PlanSteps == {"countForPlan", "writeSub"}
SeatSteps == AcceptSteps \cup InviteSteps \cup PlanSteps \cup {"platformInsert"}
Steps == {"idle", "revoke", "expire"} \cup EditSteps \cup SeatSteps

(***************************************************************************)
(* What a request remembers between two statements.                        *)
(***************************************************************************)
EditLocals   == [user : Users, row : Nat, to : Roles \cup {NoRole}]
AcceptLocals == [inv : Invites, seats : Nat]
InviteLocals == [to : Users, role : Roles, seats : Nat, used : Nat]
PlanLocals   == [cap : Nat, plan : Plans \cup {"SAME"}, seats : Nat, status : Statuses \cup {"SAME"}]
RowLocals    == [inv : Invites]
Blank        == [inv |-> "none"]
Locals == EditLocals \cup AcceptLocals \cup InviteLocals \cup PlanLocals \cup RowLocals \cup {Blank}

Fits(step, locals) ==
  /\ step \in EditSteps => locals \in EditLocals
  /\ step \in AcceptSteps => locals \in AcceptLocals
  /\ step \in InviteSteps \cup {"platformInsert"} => locals \in InviteLocals
  /\ step \in PlanSteps => locals \in PlanLocals
  /\ step \in {"revoke", "expire"} => locals \in RowLocals

RequestsOK == /\ pc \in [Requests -> Steps]
              /\ loc \in [Requests -> Locals]
              /\ \A r \in Requests : Fits(pc[r], loc[r])

TypeOK ==
  /\ account \subseteq Users
  /\ role \in [Users -> Roles \cup {NoRole}]
  /\ row \in [Users -> Nat]
  /\ invite \in [Invites -> [status : InviteStatus, role : Roles \cup {NoRole}]]
  /\ late \subseteq Invites
  /\ sub \in [plan : Plans, maxUsers : Nat, status : Statuses]
  /\ RequestsOK
  /\ editRace \in BOOLEAN /\ seatRace \in BOOLEAN /\ shrunk \in BOOLEAN /\ overtaken \subseteq Invites

(* AuthService.register: the founder owns the tenant, on the FREE plan.    *)
Init ==
  /\ account = {Founder} \cup Elsewhere
  /\ role = [u \in Users |-> IF u = Founder THEN "OWNER" ELSE NoRole]
  /\ row = [u \in Users |-> IF u = Founder THEN 1 ELSE 0]
  /\ invite = [i \in Invites |-> [status |-> "UNSENT", role |-> NoRole]]
  /\ late = {}
  /\ sub = [plan |-> "FREE", maxUsers |-> PlanMaxUsers["FREE"], status |-> "ACTIVE"]
  /\ pc = [r \in Requests |-> "idle"]
  /\ loc = [r \in Requests |-> Blank]
  /\ editRace = FALSE /\ seatRace = FALSE /\ shrunk = FALSE /\ overtaken = {}

Starts(r, op) == pc[r] = "idle" /\ op \in Ops

Go(r, step, locals) == /\ pc' = [pc EXCEPT ![r] = step]
                       /\ loc' = [loc EXCEPT ![r] = locals]

Done(r) == Go(r, "idle", Blank)

EntersEdit(r) == /\ editRace' = (editRace \/ \E q \in Requests \ {r} : pc[q] \in EditSteps)
                 /\ UNCHANGED <<seatRace, shrunk, overtaken>>
EntersSeat(r) == /\ seatRace' = (seatRace \/ \E q \in Requests \ {r} : pc[q] \in SeatSteps)
                 /\ UNCHANGED <<editRace, shrunk, overtaken>>

(* The requests that have found invitation i PENDING and may write it.     *)
HoldSteps == (AcceptSteps \ {"createUser", "refetch"}) \cup {"revoke", "expire"}
Holds(r, i) == pc[r] \in HoldSteps /\ loc[r].inv = i

Settle(r, i, s) ==
  /\ invite' = [invite EXCEPT ![i] = [status |-> s, role |-> @.role]]
  /\ overtaken' = overtaken \cup {j \in {i} : \E q \in Requests \ {r} : Holds(q, j)}

-----------------------------------------------------------------------------
(* MembersService.changeRole and remove; "to" is NoRole for remove.        *)

MemberLookup(r) ==
  /\ Starts(r, "edit")
  /\ \E u \in Members, actorRole \in Admins, to \in Roles \cup {NoRole} :
       /\ role[u] = "OWNER" => actorRole = "OWNER"
       /\ role[u] # to
       /\ Go(r, IF role[u] = "OWNER" THEN "countOwners" ELSE "writeMember",
             [user |-> u, row |-> row[u], to |-> to])
  /\ EntersEdit(r)
  /\ UNCHANGED db

(* Mutation of CountOwners: misses the tenant with exactly one owner.      *)
CountOwnersLax(r) ==
  /\ pc[r] = "countOwners"
  /\ IF Cardinality(Owners) < 1 THEN Done(r) ELSE Go(r, "writeMember", loc[r])
  /\ UNCHANGED <<db, hist>>

CountOwners(r) ==
  /\ pc[r] = "countOwners"
  /\ IF Cardinality(Owners) <= 1 THEN Done(r) ELSE Go(r, "writeMember", loc[r])
  /\ UNCHANGED <<db, hist>>

(* update and delete go by membership id: they fail when the row is gone.  *)
WriteMember(r) ==
  LET u == loc[r].user IN
  /\ pc[r] = "writeMember"
  /\ role' = IF role[u] # NoRole /\ row[u] = loc[r].row
             THEN [role EXCEPT ![u] = loc[r].to] ELSE role
  /\ Done(r)
  /\ UNCHANGED <<account, row, invite, late, sub, hist>>

-----------------------------------------------------------------------------
(* InvitationsService.acceptPublic and acceptAuthenticated.                *)

(* Logging in takes a membership: in another tenant, or once in this one   *)
(* (an access token outlives the membership).                              *)
CanLogIn(u) == u \in Elsewhere \/ row[u] > 0

(* Mutation of AcceptLoad: expiry is looked at before the status.          *)
AcceptLoadExpiryFirst(r) ==
  /\ Starts(r, "accept")
  /\ \/ \E i \in late : Go(r, "expire", [inv |-> i]) /\ UNCHANGED hist
     \/ /\ \E i \in Pending \ late : Go(r, "createUser", [inv |-> i, seats |-> 0])
        /\ EntersSeat(r)
  /\ UNCHANGED db

AcceptLoad(r) ==
  /\ Starts(r, "accept")
  /\ \E i \in Pending :
       IF i \in late THEN Go(r, "expire", [inv |-> i]) /\ UNCHANGED hist
       ELSE /\ \E public \in BOOLEAN :
                 /\ ~public => CanLogIn(EmailOf[i])
                 /\ Go(r, IF public THEN "createUser" ELSE "refetch", [inv |-> i, seats |-> 0])
            /\ EntersSeat(r)
  /\ UNCHANGED db

(* The e-mail is unique: finding the user and failing to insert it are the *)
(* same refusal.                                                           *)
CreateUser(r) ==
  LET u == EmailOf[loc[r].inv] IN
  /\ pc[r] = "createUser"
  /\ IF u \in account THEN Done(r) ELSE Go(r, "refetch", loc[r])
  /\ account' = account \cup {u}
  /\ UNCHANGED <<role, row, invite, late, sub, hist>>

Refetch(r) ==
  /\ pc[r] = "refetch"
  /\ IF loc[r].inv \in Pending THEN Go(r, "readSub", loc[r]) ELSE Done(r)
  /\ UNCHANGED <<db, hist>>

(* Mutation of ReadSub: the entitlement check is forgotten.                *)
ReadSubUnchecked(r) ==
  /\ pc[r] = "readSub"
  /\ Go(r, "countSeats", [inv |-> loc[r].inv, seats |-> sub.maxUsers])
  /\ UNCHANGED <<db, hist>>

ReadSub(r) ==
  /\ pc[r] = "readSub"
  /\ IF EnforceEntitlement /\ ~IsEntitled(sub) THEN Done(r)
     ELSE Go(r, "countSeats", [inv |-> loc[r].inv, seats |-> sub.maxUsers])
  /\ UNCHANGED <<db, hist>>

(* Mutation of CountSeats: off by one.                                     *)
CountSeatsLax(r) ==
  /\ pc[r] = "countSeats"
  /\ IF Cardinality(Members) > loc[r].seats
     THEN Go(r, "expire", [inv |-> loc[r].inv])
     ELSE Go(r, "findMembership", loc[r])
  /\ UNCHANGED <<db, hist>>

(* Mutation of CountSeats: only a full tenant refuses, not an overfull one. *)
CountSeatsExact(r) ==
  /\ pc[r] = "countSeats"
  /\ IF Cardinality(Members) = loc[r].seats
     THEN Go(r, "expire", [inv |-> loc[r].inv])
     ELSE Go(r, "findMembership", loc[r])
  /\ UNCHANGED <<db, hist>>

CountSeats(r) ==
  /\ pc[r] = "countSeats"
  /\ IF Cardinality(Members) >= loc[r].seats
     THEN Go(r, "expire", [inv |-> loc[r].inv])
     ELSE Go(r, "findMembership", loc[r])
  /\ UNCHANGED <<db, hist>>

(* Mutation of FindMembership: the test is inverted.                       *)
FindMembershipInverted(r) ==
  /\ pc[r] = "findMembership"
  /\ Go(r, IF role[EmailOf[loc[r].inv]] = NoRole THEN "markAccepted" ELSE "createMember", loc[r])
  /\ UNCHANGED <<db, hist>>

FindMembership(r) ==
  /\ pc[r] = "findMembership"
  /\ Go(r, IF role[EmailOf[loc[r].inv]] = NoRole THEN "createMember" ELSE "markAccepted", loc[r])
  /\ UNCHANGED <<db, hist>>

(* (userId, tenantId) is unique: a second insert fails and ends the request. *)
CreateMember(r) ==
  LET u == EmailOf[loc[r].inv] IN
  /\ pc[r] = "createMember"
  /\ row[u] < MaxRows
  /\ IF role[u] # NoRole THEN Done(r) /\ UNCHANGED <<role, row>>
     ELSE /\ role' = [role EXCEPT ![u] = invite[loc[r].inv].role]
          /\ row' = [row EXCEPT ![u] = @ + 1]
          /\ Go(r, "markAccepted", loc[r])
  /\ UNCHANGED <<account, invite, late, sub, hist>>

MarkAccepted(r) ==
  /\ pc[r] = "markAccepted"
  /\ Settle(r, loc[r].inv, "ACCEPTED")
  /\ Done(r)
  /\ UNCHANGED <<account, role, row, late, sub, races>>

ExpireInvite(r) ==
  /\ pc[r] = "expire"
  /\ Settle(r, loc[r].inv, "EXPIRED")
  /\ Done(r)
  /\ UNCHANGED <<account, role, row, late, sub, races>>

-----------------------------------------------------------------------------
(* InvitationsService.create.                                              *)

InviteReadSub(r) ==
  /\ Starts(r, "invite")
  /\ sub.status # "CANCELED"
  /\ \E i \in Unsent, ro \in Roles \ {"OWNER"} :
       Go(r, "findMember", [to |-> EmailOf[i], role |-> ro, seats |-> sub.maxUsers, used |-> 0])
  /\ EntersSeat(r)
  /\ UNCHANGED db

InviteFindMember(r) ==
  /\ pc[r] = "findMember"
  /\ IF role[loc[r].to] # NoRole THEN Done(r) ELSE Go(r, "findPending", loc[r])
  /\ UNCHANGED <<db, hist>>

InviteFindPending(r) ==
  /\ pc[r] = "findPending"
  /\ IF \E i \in Pending : EmailOf[i] = loc[r].to THEN Done(r)
     ELSE \E first \in {"countMembers", "countPending"} : Go(r, first, loc[r])
  /\ UNCHANGED <<db, hist>>

(* Promise.all([count memberships, count pending]): in either order.       *)
Counted(r, n, next) == Go(r, next, [loc[r] EXCEPT !.used = @ + n])

CheckSeats(r, n) ==
  IF loc[r].used + n >= loc[r].seats THEN Done(r) ELSE Counted(r, n, "insertInvite")

(* Mutation of InviteCount: pending invitations take no seat.              *)
InviteCountMembers(r) ==
  /\ \/ pc[r] = "countMembers" /\ Counted(r, Cardinality(Members), "addPending")
     \/ pc[r] = "countPending" /\ Counted(r, 0, "addMembers")
     \/ pc[r] = "addPending" /\ CheckSeats(r, 0)
     \/ pc[r] = "addMembers" /\ CheckSeats(r, Cardinality(Members))
  /\ UNCHANGED <<db, hist>>

InviteCount(r) ==
  /\ \/ pc[r] = "countMembers" /\ Counted(r, Cardinality(Members), "addPending")
     \/ pc[r] = "countPending" /\ Counted(r, Cardinality(Pending), "addMembers")
     \/ pc[r] = "addPending" /\ CheckSeats(r, Cardinality(Pending))
     \/ pc[r] = "addMembers" /\ CheckSeats(r, Cardinality(Members))
  /\ UNCHANGED <<db, hist>>

(* PlatformAdminService.createInvite: no seat check, any role.             *)
PlatformInvite(r) ==
  /\ Starts(r, "platformInvite")
  /\ \E u \in Users : role[u] \in Admins
  /\ \E i \in Unsent, ro \in Roles :
       Go(r, "platformInsert", [to |-> EmailOf[i], role |-> ro, seats |-> 0, used |-> 0])
  /\ EntersSeat(r)
  /\ UNCHANGED db

(* The rows of Invites not yet used bound how many invitations are sent.   *)
InsertInvite(r) ==
  /\ pc[r] \in {"insertInvite", "platformInsert"}
  /\ \E i \in Unsent :
       /\ EmailOf[i] = loc[r].to
       /\ invite' = [invite EXCEPT ![i] = [status |-> "PENDING", role |-> loc[r].role]]
  /\ Done(r)
  /\ UNCHANGED <<account, role, row, late, sub, hist>>

-----------------------------------------------------------------------------
(* InvitationsService.revoke; PlatformAdminService.revokeInvite writes     *)
(* without looking.                                                        *)

RevokeLookup(r) ==
  /\ Starts(r, "revoke")
  /\ \E i \in Pending : Go(r, "revoke", [inv |-> i])
  /\ UNCHANGED <<db, hist>>

RevokeInvite(r) ==
  /\ pc[r] = "revoke"
  /\ Settle(r, loc[r].inv, "REVOKED")
  /\ Done(r)
  /\ UNCHANGED <<account, role, row, late, sub, races>>

PlatformRevoke(r) ==
  /\ Starts(r, "platformRevoke")
  /\ \E i \in Invites \ Unsent : Settle(r, i, "REVOKED")
  /\ UNCHANGED <<account, role, row, late, sub, pc, loc, races>>

-----------------------------------------------------------------------------
(* BillingService.changePlan and PlatformAdminService.updateTenantBilling: *)
(* check the member count against the next limit, then write the fields    *)
(* the caller gave ("SAME" and 0 stand for a field left out).              *)

ChangePlan(r) ==
  /\ Starts(r, "plan")
  /\ \E p \in Plans :
       Go(r, "countForPlan", [cap |-> PlanMaxUsers[p], plan |-> p,
                              seats |-> PlanMaxUsers[p], status |-> "ACTIVE"])
  /\ EntersSeat(r)
  /\ UNCHANGED db

UpdateTenantBilling(r) ==
  /\ Starts(r, "platformBilling")
  /\ \E p \in Plans \cup {"SAME"}, n \in SeatCounts \cup {0}, s \in Statuses \cup {"SAME"} :
       LET planMax == PlanMaxUsers[IF p = "SAME" THEN sub.plan ELSE p]
           nextMaxUsers == IF n # 0 THEN n ELSE IF p = "SAME" THEN sub.maxUsers ELSE planMax
       IN  /\ nextMaxUsers >= planMax
           /\ Go(r, "countForPlan", [cap |-> nextMaxUsers, plan |-> p, status |-> s,
                                     seats |-> IF p = "SAME" THEN n ELSE nextMaxUsers])
  /\ EntersSeat(r)
  /\ UNCHANGED db

(* Mutation of CountForPlan: off by one.                                   *)
CountForPlanLax(r) ==
  /\ pc[r] = "countForPlan"
  /\ IF Cardinality(Members) > loc[r].cap + 1 THEN Done(r) ELSE Go(r, "writeSub", loc[r])
  /\ UNCHANGED <<db, hist>>

CountForPlan(r) ==
  /\ pc[r] = "countForPlan"
  /\ IF Cardinality(Members) > loc[r].cap THEN Done(r) ELSE Go(r, "writeSub", loc[r])
  /\ UNCHANGED <<db, hist>>

Given(value, absent, old) == IF value = absent THEN old ELSE value

(* Mutation of WriteSub: a field left out is written as well.              *)
WriteSubRaw(r) ==
  /\ pc[r] = "writeSub"
  /\ sub' = [plan |-> loc[r].plan, maxUsers |-> loc[r].seats, status |-> loc[r].status]
  /\ Done(r)
  /\ UNCHANGED <<account, role, row, invite, late, hist>>

WriteSub(r) ==
  /\ pc[r] = "writeSub"
  /\ sub' = [plan     |-> Given(loc[r].plan, "SAME", sub.plan),
             maxUsers |-> Given(loc[r].seats, 0, sub.maxUsers),
             status   |-> Given(loc[r].status, "SAME", sub.status)]
  /\ Done(r)
  /\ UNCHANGED <<account, role, row, invite, late, hist>>

(* StripeBillingService.applySubscriptionState: no member count at all.  A *)
(* price that is not one of the two paid plans' leaves the plan ("SAME").  *)
ApplySubscriptionState ==
  /\ StripeManaged
  /\ \E p \in {"PRO", "ENTERPRISE", "SAME"}, s \in Statuses :
       sub' = [plan     |-> Given(p, "SAME", sub.plan), status |-> s,
               maxUsers |-> IF p = "SAME" THEN sub.maxUsers ELSE PlanMaxUsers[p]]
  /\ shrunk' = (shrunk \/ sub'.maxUsers < Cardinality(Members))
  /\ seatRace' = (seatRace \/ \E q \in Requests : pc[q] \in SeatSteps)
  /\ UNCHANGED <<account, role, row, invite, late, pc, loc, editRace, overtaken>>

-----------------------------------------------------------------------------
(* expiresAt passes; a handler dies (process stopped, statement refused)   *)
(* between two statements, and what it has written stays.                  *)

TimePasses ==
  /\ \E i \in Pending : i \notin late /\ late' = late \cup {i}
  /\ UNCHANGED <<account, role, row, invite, sub, pc, loc, hist>>

Crash(r) ==
  /\ pc[r] # "idle"
  /\ Done(r)
  /\ UNCHANGED <<db, hist>>

MembersStep(r) == MemberLookup(r) \/ CountOwners(r) \/ WriteMember(r)

AcceptStep(r) ==
  \/ AcceptLoad(r) \/ CreateUser(r) \/ Refetch(r) \/ ReadSub(r) \/ CountSeats(r)
  \/ FindMembership(r) \/ CreateMember(r) \/ MarkAccepted(r) \/ ExpireInvite(r)

InviteStep(r) ==
  \/ InviteReadSub(r) \/ InviteFindMember(r) \/ InviteFindPending(r) \/ InviteCount(r)
  \/ PlatformInvite(r) \/ InsertInvite(r)
  \/ RevokeLookup(r) \/ RevokeInvite(r) \/ PlatformRevoke(r)

BillingStep(r) == ChangePlan(r) \/ UpdateTenantBilling(r) \/ CountForPlan(r) \/ WriteSub(r)

Next ==
  \/ \E r \in Requests : MembersStep(r) \/ AcceptStep(r) \/ InviteStep(r) \/ BillingStep(r) \/ Crash(r)
  \/ ApplySubscriptionState
  \/ TimePasses

Spec == Init /\ [][Next]_vars

-----------------------------------------------------------------------------
(* Members.service promises that the last OWNER is never demoted or        *)
(* removed.  Its owner count is read some statements before the write, so  *)
(* this holds for as long as no two edits (changeRole, remove) of the      *)
(* tenant have been in flight at once, whatever else runs beside them.     *)
OwnerRemains == ~editRace => Owners # {}

(* The seat limit: unless two requests that give seats (accept, invite) or *)
(* set their number (changePlan, updateTenantBilling, a webhook) have been *)
(* in flight at once, or a webhook shrank the plan below the members it    *)
(* had, the tenant never has more members than maxUsers.                   *)
SeatLimit == ~seatRace /\ ~shrunk => Cardinality(Members) <= sub.maxUsers

(* An invitation marked ACCEPTED has let its addressee in: at least one    *)
(* membership row of that user has existed, in every interleaving of       *)
(* accepts, revocations, removals and crashes.                             *)
AcceptedHasJoined ==
  \A i \in Invites : invite[i].status = "ACCEPTED" => row[EmailOf[i]] > 0

(* Whoever joins through consumeInvite fits within the limit in force, even *)
(* after a webhook has shrunk the plan, as long as seat requests do not    *)
(* overlap.                                                                *)
SeatGrowth ==
  [][~seatRace /\ ~(Members' \subseteq Members) => Cardinality(Members') <= sub.maxUsers]_vars

(* With BILLING_ENFORCE_ENTITLEMENT a tenant gains members only while its  *)
(* subscription is a paid one and ACTIVE, whatever webhooks do to it, as   *)
(* long as none of them lands inside an accept.                            *)
JoinEntitled ==
  [][EnforceEntitlement /\ ~seatRace /\ ~(Members' \subseteq Members) => IsEntitled(sub)]_vars

(* InvitationsService.create (its comment: memberships + pending must be   *)
(* strictly less than maxUsers): an invitation it sends leaves members and *)
(* pending invitations within the limit it read, if no other seat request  *)
(* overlaps it.                                                            *)
InvitesFit ==
  [][\A r \in Requests :
       (~seatRace /\ pc[r] = "insertInvite" /\ Pending' # Pending /\ pc'[r] = "idle")
         => Cardinality(Members) + Cardinality(Pending') <= sub.maxUsers]_vars

(* ACCEPTED, EXPIRED and REVOKED are final (the platform's revokeInvite    *)
(* aside): whatever accepts, expiries and revocations are in flight, only  *)
(* one that had found the invitation PENDING before it was settled turns   *)
(* it into anything else.                                                  *)
FinalStatus ==
  [][\A i \in Invites \ overtaken : invite[i].status \in {"ACCEPTED", "EXPIRED", "REVOKED"}
       => invite'[i].status \in {invite[i].status, "REVOKED"}]_vars

(* However many handlers are in flight: until two of them race for the     *)
(* owner or the seats, or a webhook shrinks the plan, their statements are *)
(* steps of an atomic ledger of members and seats.                         *)
Ledger == INSTANCE TenantLedger WITH maxUsers <- sub.maxUsers
LedgerKept ==
  /\ Ledger!Init
  /\ [][~editRace /\ ~seatRace /\ ~shrunk' => [Ledger!Next]_<<role, sub.maxUsers>>]_vars

(* Refuted: an invited person whose e-mail has an account accepts by       *)
(* logging in first (invitations.service.ts:300-301, 317).                 *)
InviteeCanLogIn ==
  (\A r \in Requests : pc[r] = "idle") =>
    \A i \in Pending \ late : EmailOf[i] \in account => CanLogIn(EmailOf[i])
=============================================================================
