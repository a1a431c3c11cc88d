-------------------------- MODULE TenantSeatsProofs -------------------------
(***************************************************************************)
(* Theorems about TenantSeats, for any finite sets of users and            *)
(* invitations, any number of requests in flight and any plan table.       *)
(***************************************************************************)
EXTENDS TenantSeats, FiniteSetTheorems, TLAPS

(* A request that moves on keeps locals that fit the step it moves to.     *)
LEMMA GoOK ==
  ASSUME RequestsOK, NEW r \in Requests, NEW s \in Steps, NEW l \in Locals,
         Fits(s, l), Go(r, s, l)
  PROVE  RequestsOK'
<1>1. pc' \in [Requests -> Steps] /\ loc' \in [Requests -> Locals]
  BY DEF Go, RequestsOK
<1>2. ASSUME NEW q \in Requests PROVE Fits(pc'[q], loc'[q])
  <2>1. CASE q = r BY <2>1 DEF Go, RequestsOK
  <2>2. CASE q # r
    <3>1. pc'[q] = pc[q] /\ loc'[q] = loc[q] BY <2>2 DEF Go, RequestsOK
    <3>2. QED BY <3>1 DEF RequestsOK
  <2>3. QED BY <2>1, <2>2
<1>3. QED BY <1>1, <1>2 DEF RequestsOK, Fits

LEMMA DoneOK ==
  ASSUME RequestsOK, NEW r \in Requests, Done(r)
  PROVE  RequestsOK'
<1>1. "idle" \in Steps /\ Blank \in Locals BY DEF Steps, Locals
<1>2. Fits("idle", Blank)
  BY DEF Fits, EditSteps, AcceptSteps, InviteSteps, PlanSteps
<1>3. QED BY <1>1, <1>2, GoOK DEF Done

LEMMA SettleOK ==
  ASSUME invite \in [Invites -> [status : InviteStatus, role : Roles \cup {NoRole}]],
         overtaken \subseteq Invites,
         NEW r, NEW i \in Invites, NEW s \in InviteStatus, Settle(r, i, s)
  PROVE  /\ invite' \in [Invites -> [status : InviteStatus, role : Roles \cup {NoRole}]]
         /\ overtaken' \subseteq Invites
BY DEF Settle

(* The type of every variable, including what each request in flight holds. *)
LEMMA InitType == Init => TypeOK
<1> SUFFICES ASSUME Init PROVE TypeOK OBVIOUS
<1> USE UsersAssumption, RolesAssumption, PlansAssumption DEF Init
<1>1. account \subseteq Users /\ late \subseteq Invites OBVIOUS
<1>2. role \in [Users -> Roles \cup {NoRole}] /\ row \in [Users -> Nat] OBVIOUS
<1>3. invite \in [Invites -> [status : InviteStatus, role : Roles \cup {NoRole}]]
  BY DEF InviteStatus
<1>4. sub \in [plan : Plans, maxUsers : Nat, status : Statuses] BY DEF Plans, Statuses
<1>5. RequestsOK
  <2>1. "idle" \in Steps /\ Blank \in Locals BY DEF Steps, Locals
  <2>2. Fits("idle", Blank)
    BY DEF Fits, EditSteps, AcceptSteps, InviteSteps, PlanSteps
  <2>3. QED BY <2>1, <2>2 DEF RequestsOK, Fits
<1>6. QED BY <1>1, <1>2, <1>3, <1>4, <1>5 DEF TypeOK

(* Moving on within one family of steps, with the locals of that family.   *)
LEMMA MoveOK ==
  ASSUME RequestsOK, NEW r \in Requests, NEW s, NEW l, Go(r, s, l),
         \/ s \in EditSteps /\ l \in EditLocals
         \/ s \in AcceptSteps /\ l \in AcceptLocals
         \/ s \in InviteSteps \cup {"platformInsert"} /\ l \in InviteLocals
         \/ s \in PlanSteps /\ l \in PlanLocals
         \/ s \in {"revoke", "expire"} /\ l \in RowLocals
  PROVE  RequestsOK'
<1>1. s \in Steps /\ l \in Locals BY DEF Steps, SeatSteps, Locals
<1>2. Fits(s, l)
  BY DEF Fits, EditSteps, AcceptSteps, InviteSteps, PlanSteps
<1>3. QED BY <1>1, <1>2, GoOK

(* What a request at a step of a family holds.                             *)
LEMMA HeldLocals ==
  ASSUME RequestsOK, NEW r \in Requests
  PROVE  /\ pc[r] \in EditSteps => loc[r] \in EditLocals
         /\ pc[r] \in AcceptSteps => loc[r] \in AcceptLocals
         /\ pc[r] \in InviteSteps \cup {"platformInsert"} => loc[r] \in InviteLocals
         /\ pc[r] \in PlanSteps => loc[r] \in PlanLocals
         /\ pc[r] \in {"revoke", "expire"} => loc[r] \in RowLocals
BY DEF RequestsOK, Fits

LEMMA MembersType ==
  ASSUME TypeOK, NEW r \in Requests, MembersStep(r)
  PROVE  TypeOK'
<1> USE DEF TypeOK
<1>1. CASE MemberLookup(r)
  <2>1. PICK u \in Members, to \in Roles \cup {NoRole} :
          Go(r, IF role[u] = "OWNER" THEN "countOwners" ELSE "writeMember",
             [user |-> u, row |-> row[u], to |-> to])
    BY <1>1 DEF MemberLookup
  <2>2. [user |-> u, row |-> row[u], to |-> to] \in EditLocals BY DEF EditLocals, Members
  <2>3. RequestsOK' BY <2>1, <2>2, MoveOK DEF EditSteps
  <2>4. QED BY <1>1, <2>3 DEF MemberLookup, EntersEdit, db
<1>2. CASE CountOwners(r)
  <2>1. pc[r] \in EditSteps BY <1>2 DEF CountOwners, EditSteps
  <2>2. RequestsOK' BY <1>2, <2>1, HeldLocals, MoveOK, DoneOK DEF CountOwners, EditSteps
  <2>3. QED BY <1>2, <2>2 DEF CountOwners, db, hist
<1>3. CASE WriteMember(r)
  <2>1. loc[r] \in EditLocals BY <1>3, HeldLocals DEF WriteMember, EditSteps
  <2>2. role' \in [Users -> Roles \cup {NoRole}] BY <1>3, <2>1 DEF WriteMember, EditLocals
  <2>3. RequestsOK' BY <1>3, DoneOK DEF WriteMember
  <2>4. QED BY <1>3, <2>2, <2>3 DEF WriteMember, hist
<1>4. QED BY <1>1, <1>2, <1>3 DEF MembersStep

LEMMA AcceptType ==
  ASSUME TypeOK, NEW r \in Requests, AcceptStep(r)
  PROVE  TypeOK'
<1> USE DEF TypeOK
<1>0. pc[r] \in AcceptSteps => loc[r] \in AcceptLocals BY HeldLocals
<1>1. CASE AcceptLoad(r)
  <2>1. PICK i \in Pending :
          \/ Go(r, "expire", [inv |-> i]) /\ UNCHANGED hist
          \/ /\ \/ Go(r, "createUser", [inv |-> i, seats |-> 0])
                \/ Go(r, "refetch", [inv |-> i, seats |-> 0])
             /\ EntersSeat(r)
    BY <1>1 DEF AcceptLoad
  <2>2. [inv |-> i] \in RowLocals /\ [inv |-> i, seats |-> 0] \in AcceptLocals
    BY DEF RowLocals, AcceptLocals, Pending
  <2>3. RequestsOK' BY <2>1, <2>2, MoveOK DEF AcceptSteps
  <2>4. /\ editRace' \in BOOLEAN /\ seatRace' \in BOOLEAN /\ shrunk' \in BOOLEAN
        /\ overtaken' \subseteq Invites
    BY <2>1 DEF EntersSeat, hist
  <2>5. QED BY <1>1, <2>3, <2>4 DEF AcceptLoad, db
<1>2. CASE CreateUser(r)
  <2>1. pc[r] \in AcceptSteps BY <1>2 DEF CreateUser, AcceptSteps
  <2>2. RequestsOK' BY <1>2, <1>0, <2>1, MoveOK, DoneOK DEF CreateUser, AcceptSteps
  <2>3. EmailOf[loc[r].inv] \in Users BY <1>0, <2>1, InvitesAssumption DEF AcceptLocals
  <2>4. QED BY <1>2, <2>2, <2>3 DEF CreateUser, hist
<1>3. CASE Refetch(r)
  <2>1. RequestsOK' BY <1>3, <1>0, MoveOK, DoneOK DEF Refetch, AcceptSteps
  <2>2. QED BY <1>3, <2>1 DEF Refetch, db, hist
<1>4. CASE ReadSub(r)
  <2>1. loc[r] \in AcceptLocals BY <1>4, <1>0 DEF ReadSub, AcceptSteps
  <2>2. [inv |-> loc[r].inv, seats |-> sub.maxUsers] \in AcceptLocals
    BY <2>1 DEF AcceptLocals
  <2>3. RequestsOK' BY <1>4, <2>2, MoveOK, DoneOK DEF ReadSub, AcceptSteps
  <2>4. QED BY <1>4, <2>3 DEF ReadSub, db, hist
<1>5. CASE CountSeats(r)
  <2>1. loc[r] \in AcceptLocals BY <1>5, <1>0 DEF CountSeats, AcceptSteps
  <2>2. [inv |-> loc[r].inv] \in RowLocals BY <2>1 DEF AcceptLocals, RowLocals
  <2>3. RequestsOK' BY <1>5, <2>1, <2>2, MoveOK DEF CountSeats, AcceptSteps
  <2>4. QED BY <1>5, <2>3 DEF CountSeats, db, hist
<1>6. CASE FindMembership(r)
  <2>1. loc[r] \in AcceptLocals BY <1>6, <1>0 DEF FindMembership, AcceptSteps
  <2>2. RequestsOK' BY <1>6, <2>1, MoveOK DEF FindMembership, AcceptSteps
  <2>3. QED BY <1>6, <2>2 DEF FindMembership, db, hist
<1>7. CASE CreateMember(r)
  <2>1. loc[r] \in AcceptLocals BY <1>7, <1>0 DEF CreateMember, AcceptSteps
  <2>2. RequestsOK' BY <1>7, <2>1, MoveOK, DoneOK DEF CreateMember, AcceptSteps
  <2>3. role' \in [Users -> Roles \cup {NoRole}] /\ row' \in [Users -> Nat]
    BY <1>7, <2>1, InvitesAssumption DEF CreateMember, AcceptLocals
  <2>4. QED BY <1>7, <2>2, <2>3 DEF CreateMember, hist
<1>8. CASE MarkAccepted(r)
  <2>1. loc[r].inv \in Invites BY <1>8, <1>0 DEF MarkAccepted, AcceptSteps, AcceptLocals
  <2>2. RequestsOK' BY <1>8, DoneOK DEF MarkAccepted
  <2>3. QED BY <1>8, <2>1, <2>2, SettleOK DEF MarkAccepted, InviteStatus, hist, races, Settle
<1>9. CASE ExpireInvite(r)
  <2>1. loc[r].inv \in Invites BY <1>9, HeldLocals DEF ExpireInvite, RowLocals
  <2>2. RequestsOK' BY <1>9, DoneOK DEF ExpireInvite
  <2>3. QED BY <1>9, <2>1, <2>2, SettleOK DEF ExpireInvite, InviteStatus, hist, races, Settle
<1>10. QED
  BY <1>1, <1>2, <1>3, <1>4, <1>5, <1>6, <1>7, <1>8, <1>9 DEF AcceptStep

LEMMA InviteType ==
  ASSUME TypeOK, NEW r \in Requests, InviteStep(r)
  PROVE  TypeOK'
<1> USE DEF TypeOK
<1>0. pc[r] \in InviteSteps \cup {"platformInsert"} => loc[r] \in InviteLocals BY HeldLocals
<1>1. CASE InviteReadSub(r)
  <2>1. PICK i \in Unsent, ro \in Roles \ {"OWNER"} :
          Go(r, "findMember", [to |-> EmailOf[i], role |-> ro, seats |-> sub.maxUsers, used |-> 0])
    BY <1>1 DEF InviteReadSub
  <2>2. [to |-> EmailOf[i], role |-> ro, seats |-> sub.maxUsers, used |-> 0] \in InviteLocals
    BY InvitesAssumption DEF InviteLocals, Unsent
  <2>3. RequestsOK' BY <2>1, <2>2, MoveOK DEF InviteSteps
  <2>4. QED BY <1>1, <2>3 DEF InviteReadSub, EntersSeat, db
<1>2. CASE InviteFindMember(r)
  <2>1. RequestsOK' BY <1>2, <1>0, MoveOK, DoneOK DEF InviteFindMember, InviteSteps
  <2>2. QED BY <1>2, <2>1 DEF InviteFindMember, db, hist
<1>3. CASE InviteFindPending(r)
  <2>1. RequestsOK' BY <1>3, <1>0, MoveOK, DoneOK DEF InviteFindPending, InviteSteps
  <2>2. QED BY <1>3, <2>1 DEF InviteFindPending, db, hist
<1>4. CASE InviteCount(r)
  <2>1. loc[r] \in InviteLocals BY <1>4, <1>0 DEF InviteCount, InviteSteps
  <2>2. Cardinality(Members) \in Nat /\ Cardinality(Pending) \in Nat
    BY UsersAssumption, InvitesAssumption, FS_Subset, FS_CardinalityType DEF Members, Pending
  <2>3. ASSUME NEW n \in Nat, NEW next \in InviteSteps, Counted(r, n, next) PROVE RequestsOK'
    <3>1. [loc[r] EXCEPT !.used = @ + n] \in InviteLocals BY <2>1 DEF InviteLocals
    <3>2. QED BY <2>3, <3>1, MoveOK DEF Counted
  <2>4. ASSUME NEW n \in Nat, CheckSeats(r, n) PROVE RequestsOK'
    BY <2>4, <2>3, DoneOK DEF CheckSeats, InviteSteps
  <2>5. RequestsOK' BY <1>4, <2>2, <2>3, <2>4 DEF InviteCount, InviteSteps
  <2>6. QED BY <1>4, <2>5 DEF InviteCount, db, hist
<1>5. CASE PlatformInvite(r)
  <2>1. PICK i \in Unsent, ro \in Roles :
          Go(r, "platformInsert", [to |-> EmailOf[i], role |-> ro, seats |-> 0, used |-> 0])
    BY <1>5 DEF PlatformInvite
  <2>2. [to |-> EmailOf[i], role |-> ro, seats |-> 0, used |-> 0] \in InviteLocals
    BY InvitesAssumption DEF InviteLocals, Unsent
  <2>3. RequestsOK' BY <2>1, <2>2, MoveOK
  <2>4. QED BY <1>5, <2>3 DEF PlatformInvite, EntersSeat, db
<1>6. CASE InsertInvite(r)
  <2>1. loc[r].role \in Roles
    BY <1>6, <1>0 DEF InsertInvite, InviteSteps, InviteLocals
  <2>2. invite' \in [Invites -> [status : InviteStatus, role : Roles \cup {NoRole}]]
    BY <1>6, <2>1 DEF InsertInvite, InviteStatus, Unsent
  <2>3. RequestsOK' BY <1>6, DoneOK DEF InsertInvite
  <2>4. QED BY <1>6, <2>2, <2>3 DEF InsertInvite, hist
<1>7. CASE RevokeLookup(r)
  <2>1. \A i \in Pending : [inv |-> i] \in RowLocals BY DEF RowLocals, Pending
  <2>2. RequestsOK' BY <1>7, <2>1, MoveOK DEF RevokeLookup
  <2>3. QED BY <1>7, <2>2 DEF RevokeLookup, db, hist
<1>8. CASE RevokeInvite(r)
  <2>1. loc[r].inv \in Invites BY <1>8, HeldLocals DEF RevokeInvite, RowLocals
  <2>2. RequestsOK' BY <1>8, DoneOK DEF RevokeInvite
  <2>3. QED BY <1>8, <2>1, <2>2, SettleOK DEF RevokeInvite, InviteStatus, hist, races, Settle
<1>9. CASE PlatformRevoke(r)
  <2>1. invite' \in [Invites -> [status : InviteStatus, role : Roles \cup {NoRole}]]
    BY <1>9, SettleOK DEF PlatformRevoke, InviteStatus
  <2>2. QED BY <1>9, <2>1 DEF PlatformRevoke, hist, races, Settle, RequestsOK
<1>10. QED
  BY <1>1, <1>2, <1>3, <1>4, <1>5, <1>6, <1>7, <1>8, <1>9 DEF InviteStep

LEMMA BillingType ==
  ASSUME TypeOK, NEW r \in Requests, BillingStep(r)
  PROVE  TypeOK'
<1> USE DEF TypeOK
<1>0. pc[r] \in PlanSteps => loc[r] \in PlanLocals BY HeldLocals
<1>1. CASE ChangePlan(r)
  <2>1. PICK p \in Plans : Go(r, "countForPlan",
          [cap |-> PlanMaxUsers[p], plan |-> p, seats |-> PlanMaxUsers[p], status |-> "ACTIVE"])
    BY <1>1 DEF ChangePlan
  <2>2. [cap |-> PlanMaxUsers[p], plan |-> p, seats |-> PlanMaxUsers[p], status |-> "ACTIVE"]
          \in PlanLocals
    BY PlansAssumption DEF PlanLocals, Statuses
  <2>3. RequestsOK' BY <2>1, <2>2, MoveOK DEF PlanSteps
  <2>4. QED BY <1>1, <2>3 DEF ChangePlan, EntersSeat, db
<1>2. CASE UpdateTenantBilling(r)
  <2>1. PICK p \in Plans \cup {"SAME"}, n \in Nat, s \in Statuses \cup {"SAME"},
             cap \in Nat, seats \in Nat :
          Go(r, "countForPlan", [cap |-> cap, plan |-> p, status |-> s, seats |-> seats])
    BY <1>2, PlansAssumption DEF UpdateTenantBilling
  <2>2. [cap |-> cap, plan |-> p, status |-> s, seats |-> seats] \in PlanLocals BY DEF PlanLocals
  <2>3. RequestsOK' BY <2>1, <2>2, MoveOK DEF PlanSteps
  <2>4. QED BY <1>2, <2>3 DEF UpdateTenantBilling, EntersSeat, db
<1>3. CASE CountForPlan(r)
  <2>1. RequestsOK' BY <1>3, <1>0, MoveOK, DoneOK DEF CountForPlan, PlanSteps
  <2>2. QED BY <1>3, <2>1 DEF CountForPlan, db, hist
<1>4. CASE WriteSub(r)
  <2>1. loc[r] \in PlanLocals BY <1>4, <1>0 DEF WriteSub, PlanSteps
  <2>2. sub' \in [plan : Plans, maxUsers : Nat, status : Statuses]
    BY <1>4, <2>1 DEF WriteSub, Given, PlanLocals
  <2>3. RequestsOK' BY <1>4, DoneOK DEF WriteSub
  <2>4. QED BY <1>4, <2>2, <2>3 DEF WriteSub, hist
<1>5. QED BY <1>1, <1>2, <1>3, <1>4 DEF BillingStep

(* What a webhook writes is a subscription.                                *)
LEMMA WebhookType ==
  ASSUME TypeOK, ApplySubscriptionState
  PROVE  sub' \in [plan : Plans, maxUsers : Nat, status : Statuses]
<1>1. PICK p \in {"PRO", "ENTERPRISE", "SAME"}, s \in Statuses :
        sub' = [plan     |-> Given(p, "SAME", sub.plan), status |-> s,
                maxUsers |-> IF p = "SAME" THEN sub.maxUsers ELSE PlanMaxUsers[p]]
  BY DEF ApplySubscriptionState
<1>2. sub.plan \in Plans /\ sub.maxUsers \in Nat BY DEF TypeOK
<1>3. Given(p, "SAME", sub.plan) \in Plans BY <1>1, <1>2 DEF Given, Plans
<1>4. p # "SAME" => PlanMaxUsers[p] \in Nat BY <1>1, PlansAssumption DEF Plans
<1>5. QED BY <1>1, <1>2, <1>3, <1>4

(* Every step keeps every variable in its type.                            *)
LEMMA StepType == TypeOK /\ [Next]_vars => TypeOK'
<1> SUFFICES ASSUME TypeOK, [Next]_vars PROVE TypeOK' OBVIOUS
<1>1. ASSUME NEW r \in Requests, Crash(r) PROVE TypeOK'
  BY <1>1, DoneOK DEF Crash, TypeOK, db, hist
<1>2. CASE ApplySubscriptionState
  <2>1. sub' \in [plan : Plans, maxUsers : Nat, status : Statuses] BY <1>2, WebhookType
  <2>2. QED BY <1>2, <2>1 DEF ApplySubscriptionState, TypeOK, RequestsOK
<1>3. CASE TimePasses BY <1>3 DEF TimePasses, TypeOK, RequestsOK, Pending, hist
<1>4. CASE UNCHANGED vars BY <1>4 DEF vars, TypeOK, RequestsOK
<1>5. QED
  BY <1>1, <1>2, <1>3, <1>4, MembersType, AcceptType, InviteType, BillingType DEF Next

(* Type correctness of the tenant and of every request in flight: what a   *)
(* handler carries across an await always fits the statement it runs next. *)
THEOREM TypeCorrect == Spec => []TypeOK
BY InitType, StepType, PTL DEF Spec

-----------------------------------------------------------------------------
(***************************************************************************)
(* The last owner.  The count of CountOwners is stale by the time of       *)
(* WriteMember, so OwnerRemains is not inductive: what carries it over is  *)
(* that the one edit in flight leaves an owner other than its target.      *)
(***************************************************************************)
OwnerInv ==
  ~editRace =>
    /\ Owners # {}
    /\ \A q, r \in Requests : pc[q] \in EditSteps /\ pc[r] \in EditSteps => q = r
    /\ \A r \in Requests : pc[r] = "writeMember" => \E v \in Owners : v # loc[r].user

(* A step that neither starts nor advances an edit and demotes nobody.     *)
EditQuiet ==
  /\ \A q \in Requests : pc'[q] \in EditSteps => pc'[q] = pc[q] /\ loc'[q] = loc[q]
  /\ Owners \subseteq Owners'
  /\ editRace' = editRace

LEMMA QuietKeepsOwner ==
  ASSUME OwnerInv, EditQuiet
  PROVE  OwnerInv'
BY DEF OwnerInv, EditQuiet, EditSteps

(* Moving to a step outside EditSteps disturbs no edit.                    *)
LEMMA GoQuiet ==
  ASSUME RequestsOK, NEW r \in Requests, NEW s, NEW l, s \notin EditSteps, Go(r, s, l)
  PROVE  \A q \in Requests : pc'[q] \in EditSteps => pc'[q] = pc[q] /\ loc'[q] = loc[q]
BY DEF Go, RequestsOK

LEMMA DoneQuiet ==
  ASSUME RequestsOK, NEW r \in Requests, Done(r)
  PROVE  \A q \in Requests : pc'[q] \in EditSteps => pc'[q] = pc[q] /\ loc'[q] = loc[q]
<1>1. "idle" \notin EditSteps BY DEF EditSteps
<1>2. QED BY <1>1, GoQuiet DEF Done

LEMMA AcceptQuiet ==
  ASSUME TypeOK, NEW r \in Requests, AcceptStep(r)
  PROVE  EditQuiet
<1> USE GoQuiet, DoneQuiet DEF TypeOK, EditQuiet, EditSteps
<1>1. CASE AcceptLoad(r) BY <1>1 DEF AcceptLoad, EntersSeat, db, hist, Owners
<1>2. CASE CreateUser(r) BY <1>2 DEF CreateUser, hist, Owners
<1>3. CASE Refetch(r) BY <1>3 DEF Refetch, db, hist, Owners
<1>4. CASE ReadSub(r) BY <1>4 DEF ReadSub, db, hist, Owners
<1>5. CASE CountSeats(r) BY <1>5 DEF CountSeats, db, hist, Owners
<1>6. CASE FindMembership(r) BY <1>6 DEF FindMembership, db, hist, Owners
<1>7. CASE CreateMember(r)
  <2>1. Owners \subseteq Owners' BY <1>7 DEF CreateMember, Owners, NoRole
  <2>2. QED BY <1>7, <2>1 DEF CreateMember, hist
<1>8. CASE MarkAccepted(r) BY <1>8 DEF MarkAccepted, hist, races, Settle, Owners
<1>9. CASE ExpireInvite(r) BY <1>9 DEF ExpireInvite, hist, races, Settle, Owners
<1>10. QED
  BY <1>1, <1>2, <1>3, <1>4, <1>5, <1>6, <1>7, <1>8, <1>9 DEF AcceptStep

LEMMA InviteQuiet ==
  ASSUME TypeOK, NEW r \in Requests, InviteStep(r)
  PROVE  EditQuiet
<1> USE GoQuiet, DoneQuiet DEF TypeOK, EditQuiet, EditSteps
<1>1. CASE InviteReadSub(r) BY <1>1 DEF InviteReadSub, EntersSeat, db, Owners
<1>2. CASE InviteFindMember(r) BY <1>2 DEF InviteFindMember, db, hist, Owners
<1>3. CASE InviteFindPending(r) BY <1>3 DEF InviteFindPending, db, hist, Owners
<1>4. CASE InviteCount(r)
  BY <1>4 DEF InviteCount, Counted, CheckSeats, db, hist, Owners
<1>5. CASE PlatformInvite(r) BY <1>5 DEF PlatformInvite, EntersSeat, db, Owners
<1>6. CASE InsertInvite(r) BY <1>6 DEF InsertInvite, hist, Owners
<1>7. CASE RevokeLookup(r) BY <1>7 DEF RevokeLookup, db, hist, Owners
<1>8. CASE RevokeInvite(r) BY <1>8 DEF RevokeInvite, hist, races, Settle, Owners
<1>9. CASE PlatformRevoke(r) BY <1>9 DEF PlatformRevoke, hist, races, Settle, Owners
<1>10. QED
  BY <1>1, <1>2, <1>3, <1>4, <1>5, <1>6, <1>7, <1>8, <1>9 DEF InviteStep

LEMMA BillingQuiet ==
  ASSUME TypeOK, NEW r \in Requests, BillingStep(r)
  PROVE  EditQuiet
<1> USE GoQuiet, DoneQuiet DEF TypeOK, EditQuiet, EditSteps
<1>1. CASE ChangePlan(r) BY <1>1 DEF ChangePlan, EntersSeat, db, Owners
<1>2. CASE UpdateTenantBilling(r) BY <1>2 DEF UpdateTenantBilling, EntersSeat, db, Owners
<1>3. CASE CountForPlan(r) BY <1>3 DEF CountForPlan, db, hist, Owners
<1>4. CASE WriteSub(r) BY <1>4 DEF WriteSub, hist, Owners
<1>5. QED BY <1>1, <1>2, <1>3, <1>4 DEF BillingStep

(* More than one owner leaves one besides any given user.                  *)
LEMMA AnotherOwner ==
  ASSUME Cardinality(Owners) > 1, NEW u
  PROVE  \E v \in Owners : v # u
<1> SUFFICES ASSUME Owners \subseteq {u} PROVE FALSE OBVIOUS
<1>1. IsFiniteSet({u}) /\ Cardinality({u}) = 1 BY FS_Singleton
<1>2. Cardinality(Owners) <= 1 /\ Cardinality(Owners) \in Nat
  BY <1>1, FS_Subset, FS_CardinalityType
<1>3. QED BY <1>2

LEMMA EditKeepsOwner ==
  ASSUME TypeOK, OwnerInv, NEW r \in Requests, MembersStep(r)
  PROVE  OwnerInv'
<1> SUFFICES ASSUME ~editRace' PROVE
      /\ Owners' # {}
      /\ \A p, q \in Requests : pc'[p] \in EditSteps /\ pc'[q] \in EditSteps => p = q
      /\ \A q \in Requests : pc'[q] = "writeMember" => \E v \in Owners' : v # loc'[q].user
  BY DEF OwnerInv
<1>0. ~editRace BY DEF MembersStep, MemberLookup, CountOwners, WriteMember, EntersEdit, hist, TypeOK
<1>1. CASE MemberLookup(r)
  <2>1. PICK u \in Members, to \in Roles \cup {NoRole} :
          Go(r, IF role[u] = "OWNER" THEN "countOwners" ELSE "writeMember",
             [user |-> u, row |-> row[u], to |-> to])
    BY <1>1 DEF MemberLookup
  <2>2. \A q \in Requests : q # r => pc'[q] = pc[q] /\ pc[q] \notin EditSteps
    BY <1>1, <2>1 DEF MemberLookup, EntersEdit, Go, TypeOK, RequestsOK
  <2>3. Owners' = Owners /\ Owners # {} BY <1>0, <1>1 DEF MemberLookup, db, Owners, OwnerInv
  <2>4. pc'[r] = "writeMember" => role[u] # "OWNER" /\ loc'[r].user = u
    BY <2>1 DEF Go, TypeOK, RequestsOK
  <2>5. pc'[r] = "writeMember" => \E v \in Owners' : v # loc'[r].user
    BY <2>3, <2>4 DEF Owners
  <2>6. QED BY <2>2, <2>3, <2>5 DEF EditSteps
<1>2. CASE CountOwners(r)
  <2>1. pc[r] \in EditSteps BY <1>2 DEF CountOwners, EditSteps
  <2>2. \A q \in Requests : q # r => pc'[q] = pc[q] /\ pc[q] \notin EditSteps
    BY <1>0, <1>2, <2>1 DEF OwnerInv, CountOwners, Go, Done, TypeOK, RequestsOK
  <2>3. Owners' = Owners /\ Owners # {} BY <1>0, <1>2 DEF CountOwners, db, Owners, OwnerInv
  <2>4. pc'[r] = "writeMember" => Cardinality(Owners) > 1 /\ loc'[r] = loc[r]
    <3>1. Cardinality(Owners) \in Nat
      BY UsersAssumption, FS_Subset, FS_CardinalityType DEF Owners
    <3>2. QED BY <1>2, <3>1 DEF CountOwners, Go, Done, TypeOK, RequestsOK
  <2>5. pc'[r] = "writeMember" => \E v \in Owners' : v # loc'[r].user
    BY <2>3, <2>4, AnotherOwner
  <2>6. QED BY <2>2, <2>3, <2>5 DEF EditSteps
<1>3. CASE WriteMember(r)
  <2>1. pc[r] \in EditSteps /\ pc[r] = "writeMember" BY <1>3 DEF WriteMember, EditSteps
  <2>2. \A q \in Requests : pc'[q] \notin EditSteps
    BY <1>0, <1>3, <2>1 DEF OwnerInv, WriteMember, Go, Done, TypeOK, RequestsOK, EditSteps
  <2>3. PICK v \in Owners : v # loc[r].user BY <1>0, <2>1 DEF OwnerInv
  <2>4. v \in Owners' BY <1>3, <2>3 DEF WriteMember, Owners, TypeOK
  <2>5. QED BY <2>2, <2>4 DEF EditSteps
<1>4. QED BY <1>1, <1>2, <1>3 DEF MembersStep

LEMMA OwnerAlways == Spec => []OwnerInv
<1>1. Init => OwnerInv
  BY UsersAssumption DEF Init, OwnerInv, Owners, EditSteps
<1>2. TypeOK /\ OwnerInv /\ [Next]_vars => OwnerInv'
  <2> SUFFICES ASSUME TypeOK, OwnerInv, [Next]_vars PROVE OwnerInv' OBVIOUS
  <2>1. ASSUME NEW r \in Requests, Crash(r) PROVE EditQuiet
    BY <2>1, DoneQuiet DEF Crash, EditQuiet, TypeOK, db, hist, Owners
  <2>2. CASE ApplySubscriptionState
    BY <2>2, QuietKeepsOwner DEF ApplySubscriptionState, EditQuiet, Owners
  <2>3. CASE TimePasses
    BY <2>3, QuietKeepsOwner DEF TimePasses, EditQuiet, Owners, hist
  <2>4. CASE UNCHANGED vars
    BY <2>4, QuietKeepsOwner DEF vars, EditQuiet, Owners
  <2>5. QED
    BY <2>1, <2>2, <2>3, <2>4, EditKeepsOwner, AcceptQuiet, InviteQuiet, BillingQuiet,
       QuietKeepsOwner DEF Next
<1>3. QED BY <1>1, <1>2, TypeCorrect, PTL DEF Spec

(* changeRole and remove keep an OWNER in the tenant as long as no two of  *)
(* them overlap, whatever number of accepts, invitations, plan changes,    *)
(* webhooks and crashes run beside them.                                   *)
THEOREM OwnerSafety == Spec => []OwnerRemains
<1>1. OwnerInv => OwnerRemains BY DEF OwnerInv, OwnerRemains
<1>2. QED BY <1>1, OwnerAlways, PTL

-----------------------------------------------------------------------------
(***************************************************************************)
(* The seat limit.  What carries it over the steps of an accept or a plan  *)
(* change is what SeatOK says of the one seat request in flight: the limit *)
(* it has read is the one in force, and the count it has made still bounds *)
(* the members (edits beside it only remove some).                         *)
(***************************************************************************)
Occupied == Cardinality(Members)

SeatOK(r) ==
  /\ pc[r] = "countSeats" => loc[r].seats = sub.maxUsers
  /\ pc[r] \in {"findMembership", "createMember"} => Occupied < sub.maxUsers
  /\ pc[r] \in PlanSteps => loc[r].seats \in {0, loc[r].cap}
  /\ pc[r] = "writeSub" => Occupied <= loc[r].cap

SeatInv ==
  ~seatRace =>
    /\ \A q, r \in Requests : pc[q] \in SeatSteps /\ pc[r] \in SeatSteps => q = r
    /\ ~shrunk => Occupied <= sub.maxUsers
    /\ \A r \in Requests : SeatOK(r)

LEMMA OccupiedType == Occupied \in Nat /\ IsFiniteSet(Members)
BY UsersAssumption, FS_Subset, FS_CardinalityType DEF Occupied, Members

LEMMA FewerMembers ==
  ASSUME Members' \subseteq Members
  PROVE  Occupied' <= Occupied /\ Occupied' \in Nat /\ Occupied \in Nat
<1>1. IsFiniteSet(Members) BY OccupiedType
<1>2. IsFiniteSet(Members') /\ Cardinality(Members') <= Cardinality(Members)
  BY <1>1, FS_Subset
<1>3. QED BY <1>1, <1>2, FS_CardinalityType DEF Occupied

(* A step of request r that adds no member and leaves the subscription     *)
(* alone keeps SeatInv if what r now holds is right.                       *)
LEMMA SeatMove ==
  ASSUME TypeOK, SeatInv, NEW r \in Requests, NEW s, NEW l, Go(r, s, l),
         ~seatRace' => ~seatRace,
         s \in SeatSteps /\ ~seatRace' =>
           (pc[r] \in SeatSteps \/ \A q \in Requests \ {r} : pc[q] \notin SeatSteps),
         Members' \subseteq Members, sub' = sub, shrunk' = shrunk,
         ~seatRace' => SeatOK(r)'
  PROVE  SeatInv'
<1> SUFFICES ASSUME ~seatRace' PROVE
      /\ \A p, q \in Requests : pc'[p] \in SeatSteps /\ pc'[q] \in SeatSteps => p = q
      /\ ~shrunk' => Occupied' <= sub'.maxUsers
      /\ \A q \in Requests : SeatOK(q)'
  BY DEF SeatInv
<1>1. \A q \in Requests : q # r => pc'[q] = pc[q] /\ loc'[q] = loc[q]
  BY DEF Go, TypeOK, RequestsOK
<1>2. pc'[r] = s BY DEF Go, TypeOK, RequestsOK
<1>3. \A p, q \in Requests : pc'[p] \in SeatSteps /\ pc'[q] \in SeatSteps => p = q
  BY <1>1, <1>2 DEF SeatInv
<1>4. Occupied' <= Occupied /\ Occupied' \in Nat /\ Occupied \in Nat BY FewerMembers
<1>5. sub.maxUsers \in Nat BY DEF TypeOK
<1>6. ~shrunk' => Occupied' <= sub'.maxUsers BY <1>4, <1>5 DEF SeatInv
<1>7. ASSUME NEW q \in Requests PROVE SeatOK(q)'
  <2>1. CASE q = r BY <2>1
  <2>2. CASE q # r
    <3>1. SeatOK(q) BY DEF SeatInv
    <3>2. pc[q] = "writeSub" => loc[q].cap \in Nat
      BY HeldLocals DEF TypeOK, PlanSteps, PlanLocals
    <3>3. QED BY <1>1, <1>4, <1>5, <2>2, <3>1, <3>2 DEF SeatOK, PlanSteps
  <2>3. QED BY <2>1, <2>2
<1>8. QED BY <1>3, <1>6, <1>7

(* Steps that leave the seat requests, or end one.                         *)
LEMMA SeatLeave ==
  ASSUME TypeOK, SeatInv, NEW r \in Requests, NEW s, NEW l, Go(r, s, l),
         s \in {"idle", "revoke", "expire"} \cup EditSteps,
         seatRace' = seatRace, Members' \subseteq Members, sub' = sub, shrunk' = shrunk
  PROVE  SeatInv'
<1>1. s \notin SeatSteps
  BY DEF SeatSteps, AcceptSteps, InviteSteps, PlanSteps, EditSteps
<1>2. pc'[r] = s BY DEF Go, TypeOK, RequestsOK
<1>3. SeatOK(r)' BY <1>2 DEF SeatOK, PlanSteps, EditSteps
<1>4. QED BY <1>1, <1>3, SeatMove

LEMMA DoneSeat ==
  ASSUME TypeOK, SeatInv, NEW r \in Requests, Done(r),
         seatRace' = seatRace, Members' \subseteq Members, sub' = sub, shrunk' = shrunk
  PROVE  SeatInv'
BY SeatLeave DEF Done

(* Steps within a seat request about whose locals SeatOK says nothing.     *)
LEMMA SeatStay ==
  ASSUME TypeOK, SeatInv, NEW r \in Requests, NEW s, NEW l, Go(r, s, l),
         pc[r] \in SeatSteps, s \in InviteSteps \cup {"refetch", "readSub", "markAccepted"},
         seatRace' = seatRace, Members' \subseteq Members, sub' = sub, shrunk' = shrunk
  PROVE  SeatInv'
<1>1. pc'[r] = s BY DEF Go, TypeOK, RequestsOK
<1>2. SeatOK(r)' BY <1>1 DEF SeatOK, PlanSteps, InviteSteps
<1>3. QED BY <1>2, SeatMove

(* The start of a seat request.                                            *)
LEMMA SeatEnter ==
  ASSUME TypeOK, SeatInv, NEW r \in Requests, NEW s, NEW l, Go(r, s, l), EntersSeat(r),
         UNCHANGED db,
         \/ s \in InviteSteps \cup {"platformInsert", "createUser", "refetch"}
         \/ s = "countForPlan" /\ l.seats \in {0, l.cap}
  PROVE  SeatInv'
<1>1. pc'[r] = s /\ loc'[r] = l BY DEF Go, TypeOK, RequestsOK
<1>2. SeatOK(r)' BY <1>1 DEF SeatOK, PlanSteps, InviteSteps
<1>3. Members' \subseteq Members /\ sub' = sub BY DEF db, Members
<1>4. QED BY <1>2, <1>3, SeatMove DEF EntersSeat

LEMMA MembersSeat ==
  ASSUME TypeOK, SeatInv, NEW r \in Requests, MembersStep(r)
  PROVE  SeatInv'
<1>1. CASE MemberLookup(r)
  <2>1. PICK u \in Members, to \in Roles \cup {NoRole} :
          Go(r, IF role[u] = "OWNER" THEN "countOwners" ELSE "writeMember",
             [user |-> u, row |-> row[u], to |-> to])
    BY <1>1 DEF MemberLookup
  <2>2. QED BY <1>1, <2>1, SeatLeave DEF MemberLookup, EntersEdit, EditSteps, db, Members
<1>2. CASE CountOwners(r)
  <2>1. Members' \subseteq Members /\ sub' = sub /\ seatRace' = seatRace /\ shrunk' = shrunk
    BY <1>2 DEF CountOwners, db, hist, Members
  <2>2. QED BY <1>2, <2>1, SeatLeave, DoneSeat DEF CountOwners, EditSteps
<1>3. CASE WriteMember(r)
  <2>1. Members' \subseteq Members BY <1>3 DEF WriteMember, Members, TypeOK
  <2>2. QED BY <1>3, <2>1, DoneSeat DEF WriteMember, hist
<1>4. QED BY <1>1, <1>2, <1>3 DEF MembersStep

LEMMA AcceptSeat ==
  ASSUME TypeOK, SeatInv, NEW r \in Requests, AcceptStep(r)
  PROVE  SeatInv'
<1> DEFINE Still == /\ Members' \subseteq Members /\ sub' = sub
                    /\ seatRace' = seatRace /\ shrunk' = shrunk
<1>1. CASE AcceptLoad(r)
  <2>1. PICK i \in Pending :
          \/ Go(r, "expire", [inv |-> i]) /\ UNCHANGED hist
          \/ /\ \/ Go(r, "createUser", [inv |-> i, seats |-> 0])
                \/ Go(r, "refetch", [inv |-> i, seats |-> 0])
             /\ EntersSeat(r)
    BY <1>1 DEF AcceptLoad
  <2>2. UNCHANGED db BY <1>1 DEF AcceptLoad
  <2>3. CASE Go(r, "expire", [inv |-> i]) /\ UNCHANGED hist
    BY <2>2, <2>3, SeatLeave DEF db, hist, Members
  <2>4. QED BY <2>1, <2>2, <2>3, SeatEnter
<1>2. CASE CreateUser(r)
  <2>1. Still /\ pc[r] \in SeatSteps BY <1>2 DEF CreateUser, hist, Members, SeatSteps, AcceptSteps
  <2>2. QED BY <1>2, <2>1, SeatStay, DoneSeat DEF CreateUser
<1>3. CASE Refetch(r)
  <2>1. Still /\ pc[r] \in SeatSteps BY <1>3 DEF Refetch, db, hist, Members, SeatSteps, AcceptSteps
  <2>2. QED BY <1>3, <2>1, SeatStay, DoneSeat DEF Refetch
<1>4. CASE ReadSub(r)
  <2>1. Still /\ pc[r] \in SeatSteps BY <1>4 DEF ReadSub, db, hist, Members, SeatSteps, AcceptSteps
  <2>2. CASE Go(r, "countSeats", [inv |-> loc[r].inv, seats |-> sub.maxUsers])
    <3>1. pc'[r] = "countSeats" /\ loc'[r].seats = sub'.maxUsers
      BY <2>1, <2>2 DEF Go, TypeOK, RequestsOK
    <3>2. SeatOK(r)' BY <3>1 DEF SeatOK, PlanSteps
    <3>3. QED BY <2>1, <2>2, <3>2, SeatMove
  <2>3. QED BY <1>4, <2>1, <2>2, DoneSeat DEF ReadSub
<1>5. CASE CountSeats(r)
  <2>1. Still /\ pc[r] = "countSeats" /\ pc[r] \in SeatSteps
    BY <1>5 DEF CountSeats, db, hist, Members, SeatSteps, AcceptSteps
  <2>2. CASE Go(r, "findMembership", loc[r]) /\ ~(Cardinality(Members) >= loc[r].seats)
    <3>1. pc'[r] = "findMembership" BY <2>2 DEF Go, TypeOK, RequestsOK
    <3>2. ~seatRace => Occupied < sub.maxUsers
      BY <2>1, <2>2, OccupiedType DEF SeatInv, SeatOK, Occupied, TypeOK
    <3>3. ~seatRace' => Occupied' < sub'.maxUsers
      BY <2>1, <3>2, FewerMembers DEF TypeOK
    <3>4. ~seatRace' => SeatOK(r)' BY <3>1, <3>3 DEF SeatOK, PlanSteps
    <3>5. QED BY <2>1, <2>2, <3>4, SeatMove
  <2>3. CASE Go(r, "expire", [inv |-> loc[r].inv]) BY <2>1, <2>3, SeatLeave
  <2>4. QED BY <1>5, <2>2, <2>3 DEF CountSeats
<1>6. CASE FindMembership(r)
  <2>1. Still /\ pc[r] = "findMembership" /\ pc[r] \in SeatSteps
    BY <1>6 DEF FindMembership, db, hist, Members, SeatSteps, AcceptSteps
  <2>2. CASE Go(r, "createMember", loc[r])
    <3>1. pc'[r] = "createMember" BY <2>2 DEF Go, TypeOK, RequestsOK
    <3>2. ~seatRace => Occupied < sub.maxUsers BY <2>1 DEF SeatInv, SeatOK
    <3>3. ~seatRace' => Occupied' < sub'.maxUsers BY <2>1, <3>2, FewerMembers DEF TypeOK
    <3>4. ~seatRace' => SeatOK(r)' BY <3>1, <3>3 DEF SeatOK, PlanSteps
    <3>5. QED BY <2>1, <2>2, <3>4, SeatMove
  <2>3. QED BY <1>6, <2>1, <2>2, SeatStay DEF FindMembership
<1>7. CASE CreateMember(r)
  <2> DEFINE u == EmailOf[loc[r].inv]
  <2>1. pc[r] = "createMember" /\ pc[r] \in SeatSteps /\ UNCHANGED <<sub, seatRace, shrunk>>
    BY <1>7 DEF CreateMember, hist, SeatSteps, AcceptSteps
  <2>2. CASE role[u] # NoRole
    BY <1>7, <2>1, <2>2, DoneSeat DEF CreateMember, Members
  <2>3. CASE role[u] = NoRole
    <3>1. Go(r, "markAccepted", loc[r]) BY <1>7, <2>3 DEF CreateMember
    <3>2. Members' \subseteq Members \cup {u}
      BY <1>7, <2>3 DEF CreateMember, Members, TypeOK
    <3>3. Occupied' \in Nat /\ Occupied \in Nat /\ Occupied' <= Occupied + 1
      <4>1. IsFiniteSet(Members) BY OccupiedType
      <4>2. IsFiniteSet(Members \cup {u}) /\ Cardinality(Members \cup {u}) <= Cardinality(Members) + 1
        BY <4>1, FS_AddElement, FS_CardinalityType
      <4>3. IsFiniteSet(Members') /\ Cardinality(Members') <= Cardinality(Members \cup {u})
        BY <3>2, <4>2, FS_Subset
      <4>4. QED BY <4>1, <4>2, <4>3, FS_CardinalityType DEF Occupied
    <3>4. SUFFICES ASSUME ~seatRace PROVE
            /\ \A p, q \in Requests : pc'[p] \in SeatSteps /\ pc'[q] \in SeatSteps => p = q
            /\ Occupied' <= sub'.maxUsers
            /\ \A q \in Requests : SeatOK(q)'
      BY <2>1 DEF SeatInv
    <3>5. \A q \in Requests : q # r => pc'[q] = pc[q] /\ pc[q] \notin SeatSteps
      BY <2>1, <3>1, <3>4 DEF SeatInv, Go, TypeOK, RequestsOK
    <3>6. Occupied < sub.maxUsers BY <2>1, <3>4 DEF SeatInv, SeatOK
    <3>7. Occupied' <= sub'.maxUsers BY <2>1, <3>3, <3>6 DEF TypeOK
    <3>8. pc'[r] = "markAccepted" BY <3>1 DEF Go, TypeOK, RequestsOK
    <3>9. ASSUME NEW q \in Requests PROVE SeatOK(q)'
      BY <3>5, <3>8 DEF SeatOK, SeatSteps, AcceptSteps, PlanSteps
    <3>10. QED BY <3>5, <3>7, <3>9
  <2>4. QED BY <2>2, <2>3
<1>8. CASE MarkAccepted(r)
  BY <1>8, DoneSeat DEF MarkAccepted, hist, races, Settle, Members
<1>9. CASE ExpireInvite(r)
  BY <1>9, DoneSeat DEF ExpireInvite, hist, races, Settle, Members
<1>10. QED
  BY <1>1, <1>2, <1>3, <1>4, <1>5, <1>6, <1>7, <1>8, <1>9 DEF AcceptStep

LEMMA InviteSeat ==
  ASSUME TypeOK, SeatInv, NEW r \in Requests, InviteStep(r)
  PROVE  SeatInv'
<1> DEFINE Still == /\ Members' \subseteq Members /\ sub' = sub
                    /\ seatRace' = seatRace /\ shrunk' = shrunk
<1>1. CASE InviteReadSub(r) BY <1>1, SeatEnter DEF InviteReadSub, InviteSteps
<1>2. CASE InviteFindMember(r)
  <2>1. Still /\ pc[r] \in SeatSteps
    BY <1>2 DEF InviteFindMember, db, hist, Members, SeatSteps, InviteSteps
  <2>2. QED BY <1>2, <2>1, SeatStay, DoneSeat DEF InviteFindMember, InviteSteps
<1>3. CASE InviteFindPending(r)
  <2>1. Still /\ pc[r] \in SeatSteps
    BY <1>3 DEF InviteFindPending, db, hist, Members, SeatSteps, InviteSteps
  <2>2. QED BY <1>3, <2>1, SeatStay, DoneSeat DEF InviteFindPending, InviteSteps
<1>4. CASE InviteCount(r)
  <2>1. Still /\ pc[r] \in SeatSteps
    BY <1>4 DEF InviteCount, db, hist, Members, SeatSteps, InviteSteps
  <2>2. PICK s \in InviteSteps \cup {"idle"} : \E l : Go(r, s, l) /\ (s = "idle" => Done(r))
    <3>1. ASSUME NEW n, NEW next \in InviteSteps, Counted(r, n, next)
          PROVE  \E l : Go(r, next, l)
      BY <3>1 DEF Counted
    <3>2. ASSUME NEW n, CheckSeats(r, n)
          PROVE  Done(r) \/ \E l : Go(r, "insertInvite", l)
      BY <3>1, <3>2 DEF CheckSeats, InviteSteps
    <3>3. \/ Done(r)
          \/ \E next \in InviteSteps : next # "idle" /\ \E l : Go(r, next, l)
      BY <1>4, <3>1, <3>2 DEF InviteCount, InviteSteps
    <3>4. Done(r) => Go(r, "idle", Blank) BY DEF Done
    <3>5. QED BY <3>3, <3>4
  <2>3. QED BY <2>1, <2>2, SeatStay, DoneSeat DEF InviteSteps
<1>5. CASE PlatformInvite(r) BY <1>5, SeatEnter DEF PlatformInvite
<1>6. CASE InsertInvite(r) BY <1>6, DoneSeat DEF InsertInvite, hist, Members
<1>7. CASE RevokeLookup(r)
  <2>1. Still BY <1>7 DEF RevokeLookup, db, hist, Members
  <2>2. QED BY <1>7, <2>1, SeatLeave DEF RevokeLookup
<1>8. CASE RevokeInvite(r) BY <1>8, DoneSeat DEF RevokeInvite, hist, races, Settle, Members
<1>9. CASE PlatformRevoke(r)
  BY <1>9 DEF PlatformRevoke, hist, races, Settle, SeatInv, SeatOK, Occupied, Members
<1>10. QED
  BY <1>1, <1>2, <1>3, <1>4, <1>5, <1>6, <1>7, <1>8, <1>9 DEF InviteStep

LEMMA BillingSeat ==
  ASSUME TypeOK, SeatInv, NEW r \in Requests, BillingStep(r)
  PROVE  SeatInv'
<1>1. CASE ChangePlan(r)
  <2>1. PICK p \in Plans : Go(r, "countForPlan",
          [cap |-> PlanMaxUsers[p], plan |-> p, seats |-> PlanMaxUsers[p], status |-> "ACTIVE"])
    BY <1>1 DEF ChangePlan
  <2>2. QED BY <1>1, <2>1, SeatEnter DEF ChangePlan
<1>2. CASE UpdateTenantBilling(r)
  <2>1. PICK p, s, cap, seats :
          /\ Go(r, "countForPlan", [cap |-> cap, plan |-> p, status |-> s, seats |-> seats])
          /\ seats \in {0, cap}
    BY <1>2 DEF UpdateTenantBilling
  <2>2. QED BY <1>2, <2>1, SeatEnter DEF UpdateTenantBilling
<1>3. CASE CountForPlan(r)
  <2>1. /\ Members' \subseteq Members /\ sub' = sub /\ seatRace' = seatRace /\ shrunk' = shrunk
        /\ pc[r] \in SeatSteps /\ pc[r] \in PlanSteps
    BY <1>3 DEF CountForPlan, db, hist, Members, SeatSteps, PlanSteps
  <2>2. CASE Go(r, "writeSub", loc[r]) /\ ~(Cardinality(Members) > loc[r].cap)
    <3>1. pc'[r] = "writeSub" /\ loc'[r] = loc[r] BY <2>2 DEF Go, TypeOK, RequestsOK
    <3>2. loc[r].cap \in Nat BY <2>1, HeldLocals DEF TypeOK, PlanLocals
    <3>3. Occupied' <= loc[r].cap
      BY <2>1, <2>2, <3>2, FewerMembers DEF Occupied
    <3>4. ~seatRace' => SeatOK(r)' BY <2>1, <3>1, <3>3 DEF SeatInv, SeatOK, PlanSteps
    <3>5. QED BY <2>1, <2>2, <3>4, SeatMove
  <2>3. QED BY <1>3, <2>1, <2>2, DoneSeat DEF CountForPlan
<1>4. CASE WriteSub(r)
  <2>1. pc[r] = "writeSub" /\ pc[r] \in PlanSteps /\ pc[r] \in SeatSteps
    BY <1>4 DEF WriteSub, SeatSteps, PlanSteps
  <2>2. SUFFICES ASSUME ~seatRace PROVE
          /\ \A p, q \in Requests : pc'[p] \in SeatSteps /\ pc'[q] \in SeatSteps => p = q
          /\ ~shrunk => Occupied' <= sub'.maxUsers
          /\ \A q \in Requests : SeatOK(q)'
    BY <1>4 DEF SeatInv, WriteSub, hist
  <2>3. \A q \in Requests : pc'[q] \notin SeatSteps
    BY <1>4, <2>1, <2>2 DEF SeatInv, WriteSub, Done, Go, TypeOK, RequestsOK,
                            SeatSteps, AcceptSteps, InviteSteps, PlanSteps
  <2>4. loc[r].cap \in Nat /\ loc[r].seats \in {0, loc[r].cap} /\ Occupied <= loc[r].cap
    BY <2>1, <2>2, HeldLocals DEF SeatInv, SeatOK, TypeOK, PlanLocals
  <2>5. sub'.maxUsers = sub.maxUsers \/ sub'.maxUsers = loc[r].cap
    BY <1>4, <2>4 DEF WriteSub, Given
  <2>6. Occupied' = Occupied BY <1>4 DEF WriteSub, Occupied, Members
  <2>7. ~shrunk => Occupied' <= sub'.maxUsers BY <2>2, <2>4, <2>5, <2>6 DEF SeatInv
  <2>8. \A q \in Requests : SeatOK(q)'
    BY <2>3 DEF SeatOK, SeatSteps, AcceptSteps, PlanSteps
  <2>9. QED BY <2>3, <2>7, <2>8
<1>5. QED BY <1>1, <1>2, <1>3, <1>4 DEF BillingStep

LEMMA WebhookSeat ==
  ASSUME TypeOK, SeatInv, ApplySubscriptionState
  PROVE  SeatInv'
<1> SUFFICES ASSUME ~seatRace' PROVE
      /\ \A p, q \in Requests : pc'[p] \in SeatSteps /\ pc'[q] \in SeatSteps => p = q
      /\ ~shrunk' => Occupied' <= sub'.maxUsers
      /\ \A q \in Requests : SeatOK(q)'
  BY DEF SeatInv
<1>1. \A q \in Requests : pc'[q] \notin SeatSteps BY DEF ApplySubscriptionState
<1>2. Occupied' = Occupied BY DEF ApplySubscriptionState, Occupied, Members
<1>3. sub' \in [plan : Plans, maxUsers : Nat, status : Statuses] BY WebhookType
<1>4. ~shrunk' => Occupied' <= sub'.maxUsers
  <2>1. shrunk' = (shrunk \/ sub'.maxUsers < Cardinality(Members)) BY DEF ApplySubscriptionState
  <2>2. ~shrunk' => ~(sub'.maxUsers < Cardinality(Members)) BY <2>1, Zenon
  <2>3. QED BY <1>2, <1>3, <2>2, OccupiedType DEF Occupied
<1>5. \A q \in Requests : SeatOK(q)'
  BY <1>1 DEF SeatOK, SeatSteps, AcceptSteps, PlanSteps
<1>6. QED BY <1>1, <1>4, <1>5

LEMMA SeatAlways == Spec => []SeatInv
<1>1. Init => SeatInv
  <2> SUFFICES ASSUME Init PROVE SeatInv OBVIOUS
  <2>1. \A r \in Requests : pc[r] = "idle" BY DEF Init
  <2>2. Members = {Founder} BY UsersAssumption, RolesAssumption DEF Init, Members, NoRole
  <2>3. Occupied = 1 BY <2>2, FS_Singleton DEF Occupied
  <2>4. sub.maxUsers \in Nat \ {0} BY PlansAssumption DEF Init, Plans
  <2>5. QED
    BY <2>1, <2>3, <2>4
    DEF SeatInv, SeatOK, SeatSteps, AcceptSteps, InviteSteps, PlanSteps
<1>2. TypeOK /\ SeatInv /\ [Next]_vars => SeatInv'
  <2> SUFFICES ASSUME TypeOK, SeatInv, [Next]_vars PROVE SeatInv' OBVIOUS
  <2>1. ASSUME NEW r \in Requests, Crash(r) PROVE SeatInv'
    BY <2>1, DoneSeat DEF Crash, db, hist, Members
  <2>2. CASE TimePasses
    BY <2>2 DEF TimePasses, SeatInv, SeatOK, Occupied, Members, hist
  <2>3. CASE UNCHANGED vars
    BY <2>3 DEF vars, SeatInv, SeatOK, Occupied, Members
  <2>4. QED
    BY <2>1, <2>2, <2>3, WebhookSeat, MembersSeat, AcceptSeat, InviteSeat, BillingSeat DEF Next
<1>3. QED BY <1>1, <1>2, TypeCorrect, PTL DEF Spec

(* The seat limit holds as long as the check and the write of two requests *)
(* that give or set seats do not overlap and no webhook shrinks the plan,  *)
(* whatever edits, revocations and crashes run beside them.                *)
THEOREM SeatSafety == Spec => []SeatLimit
<1>1. SeatInv => SeatLimit BY DEF SeatInv, SeatLimit, Occupied
<1>2. QED BY <1>1, SeatAlways, PTL
-----------------------------------------------------------------------------
(***************************************************************************)
(* Who writes what, and by which action a request comes to a step.  The    *)
(* invariants below are proved from these facts, not action by action.     *)
(***************************************************************************)
WhoWrites ==
  /\ UNCHANGED <<role, row>> \/ \E r \in Requests : WriteMember(r) \/ CreateMember(r)
  /\ sub' = sub \/ ApplySubscriptionState \/ \E r \in Requests : WriteSub(r)
  /\ \/ invite' = invite
     \/ \E r \in Requests : \/ MarkAccepted(r) \/ ExpireInvite(r) \/ InsertInvite(r)
                            \/ RevokeInvite(r) \/ PlatformRevoke(r)
  /\ seatRace => seatRace'

Arrives(q) ==
  /\ pc'[q] = "createUser" => AcceptLoad(q)
  /\ pc'[q] = "refetch" => AcceptLoad(q) \/ CreateUser(q)
  /\ pc'[q] = "readSub" => Refetch(q)
  /\ pc'[q] = "countSeats" => ReadSub(q)
  /\ pc'[q] = "findMembership" => CountSeats(q)
  /\ pc'[q] = "createMember" => FindMembership(q)
  /\ pc'[q] = "markAccepted" => FindMembership(q) \/ CreateMember(q)
  /\ pc'[q] = "expire" => AcceptLoad(q) \/ CountSeats(q)
  /\ pc'[q] = "revoke" => RevokeLookup(q)
  /\ pc'[q] = "findMember" => InviteReadSub(q)
  /\ pc'[q] = "findPending" => InviteFindMember(q)
  /\ pc'[q] \in {"countMembers", "countPending"} => InviteFindPending(q)
  /\ pc'[q] \in {"addMembers", "addPending", "insertInvite"} => InviteCount(q)

LEMMA GoFacts ==
  ASSUME RequestsOK, NEW r \in Requests, NEW s, NEW l, Go(r, s, l)
  PROVE  /\ pc'[r] = s /\ loc'[r] = l
         /\ \A q \in Requests : q # r => pc'[q] = pc[q] /\ loc'[q] = loc[q]
BY DEF Go, RequestsOK

LEMMA DoneFacts ==
  ASSUME RequestsOK, NEW r \in Requests, Done(r)
  PROVE  /\ pc'[r] = "idle"
         /\ \A q \in Requests : q # r => pc'[q] = pc[q] /\ loc'[q] = loc[q]
BY GoFacts DEF Done

LEMMA Writers ==
  ASSUME TypeOK, [Next]_vars
  PROVE  WhoWrites
<1> USE DEF TypeOK, WhoWrites
<1>1. ASSUME NEW r \in Requests, MembersStep(r) PROVE WhoWrites
  BY <1>1 DEF MembersStep, MemberLookup, CountOwners, WriteMember, EntersEdit, db, hist
<1>2. ASSUME NEW r \in Requests, AcceptStep(r) PROVE WhoWrites
  <2>1. CASE AcceptLoad(r) BY <2>1 DEF AcceptLoad, EntersSeat, db, hist
  <2>2. CASE CreateUser(r) BY <2>2 DEF CreateUser, hist
  <2>3. CASE Refetch(r) \/ ReadSub(r) \/ CountSeats(r) \/ FindMembership(r)
    BY <2>3 DEF Refetch, ReadSub, CountSeats, FindMembership, db, hist
  <2>4. CASE CreateMember(r) BY <2>4 DEF CreateMember, hist
  <2>5. CASE MarkAccepted(r) \/ ExpireInvite(r) BY <2>5 DEF MarkAccepted, ExpireInvite, hist, races, Settle
  <2>6. QED BY <1>2, <2>1, <2>2, <2>3, <2>4, <2>5 DEF AcceptStep
<1>3. ASSUME NEW r \in Requests, InviteStep(r) PROVE WhoWrites
  <2>1. CASE InviteReadSub(r) \/ PlatformInvite(r)
    BY <2>1 DEF InviteReadSub, PlatformInvite, EntersSeat, db
  <2>2. CASE InviteFindMember(r) \/ InviteFindPending(r) \/ InviteCount(r) \/ RevokeLookup(r)
    BY <2>2 DEF InviteFindMember, InviteFindPending, InviteCount, RevokeLookup, db, hist
  <2>3. CASE InsertInvite(r) \/ RevokeInvite(r) \/ PlatformRevoke(r)
    BY <2>3 DEF InsertInvite, RevokeInvite, PlatformRevoke, hist, races, Settle
  <2>4. QED BY <1>3, <2>1, <2>2, <2>3 DEF InviteStep
<1>4. ASSUME NEW r \in Requests, BillingStep(r) PROVE WhoWrites
  <2>1. CASE ChangePlan(r) \/ UpdateTenantBilling(r)
    BY <2>1 DEF ChangePlan, UpdateTenantBilling, EntersSeat, db
  <2>2. CASE CountForPlan(r) \/ WriteSub(r) BY <2>2 DEF CountForPlan, WriteSub, db, hist
  <2>3. QED BY <1>4, <2>1, <2>2 DEF BillingStep
<1>5. ASSUME NEW r \in Requests, Crash(r) PROVE WhoWrites BY <1>5 DEF Crash, db, hist
<1>6. CASE ApplySubscriptionState BY <1>6 DEF ApplySubscriptionState
<1>7. CASE TimePasses BY <1>7 DEF TimePasses, hist
<1>8. CASE UNCHANGED vars BY <1>8 DEF vars
<1>9. QED BY <1>1, <1>2, <1>3, <1>4, <1>5, <1>6, <1>7, <1>8 DEF Next

LEMMA Arrivals ==
  ASSUME TypeOK, [Next]_vars, NEW q \in Requests
  PROVE  (pc'[q] = pc[q] /\ loc'[q] = loc[q]) \/ Arrives(q)
<1> DEFINE Same(p) == pc'[p] = pc[p] /\ loc'[p] = loc[p]
<1>0. RequestsOK BY DEF TypeOK
<1>1. ASSUME NEW r \in Requests, NEW s, NEW l, Go(r, s, l), q # r PROVE Same(q)
  BY <1>0, <1>1, GoFacts
<1>2. ASSUME Done(q) PROVE Arrives(q)
  <2>1. pc'[q] = "idle" BY <1>0, <1>2, DoneFacts
  <2>2. QED BY <2>1 DEF Arrives
<1>3. ASSUME NEW s, NEW l, Go(q, s, l) PROVE pc'[q] = s BY <1>0, <1>3, GoFacts
<1>4. ASSUME NEW r \in Requests, MembersStep(r) PROVE Same(q) \/ Arrives(q)
  <2>1. \E s \in EditSteps \cup {"idle"} : \E l : Go(r, s, l)
    BY <1>4 DEF MembersStep, MemberLookup, CountOwners, WriteMember, Done, EditSteps
  <2>2. CASE q = r
    <3>1. pc'[q] \in EditSteps \cup {"idle"} BY <1>3, <2>1, <2>2
    <3>2. QED BY <3>1 DEF EditSteps, Arrives
  <2>3. QED BY <1>1, <2>1, <2>2
<1>5. ASSUME NEW r \in Requests, AcceptStep(r) PROVE Same(q) \/ Arrives(q)
  <2>1. \E s, l : Go(r, s, l)
    BY <1>5 DEF AcceptStep, AcceptLoad, CreateUser, Refetch, ReadSub, CountSeats, FindMembership,
                CreateMember, MarkAccepted, ExpireInvite, Done
  <2>2. CASE q = r
    <3>1. CASE AcceptLoad(q)
      <4>1. \E s \in {"expire", "createUser", "refetch"} : \E l : Go(q, s, l)
        BY <3>1 DEF AcceptLoad
      <4>2. pc'[q] \in {"expire", "createUser", "refetch"} BY <1>3, <4>1
      <4>3. QED BY <3>1, <4>2 DEF Arrives
    <3>2. CASE CreateUser(q) BY <1>2, <1>3, <3>2 DEF CreateUser, Arrives
    <3>3. CASE Refetch(q) BY <1>2, <1>3, <3>3 DEF Refetch, Arrives
    <3>4. CASE ReadSub(q) BY <1>2, <1>3, <3>4 DEF ReadSub, Arrives
    <3>5. CASE CountSeats(q) BY <1>3, <3>5 DEF CountSeats, Arrives
    <3>6. CASE FindMembership(q) BY <1>3, <3>6 DEF FindMembership, Arrives
    <3>7. CASE CreateMember(q) BY <1>2, <1>3, <3>7 DEF CreateMember, Arrives
    <3>8. CASE MarkAccepted(q) BY <1>2, <3>8 DEF MarkAccepted
    <3>9. CASE ExpireInvite(q) BY <1>2, <3>9 DEF ExpireInvite
    <3>10. QED
      BY <1>5, <2>2, <3>1, <3>2, <3>3, <3>4, <3>5, <3>6, <3>7, <3>8, <3>9 DEF AcceptStep
  <2>3. QED BY <1>1, <2>1, <2>2
<1>6. ASSUME NEW r \in Requests, InviteStep(r) PROVE Same(q) \/ Arrives(q)
  <2>1. CASE PlatformRevoke(r) BY <2>1 DEF PlatformRevoke
  <2>2. CASE q # r
    <3>1. \/ PlatformRevoke(r)
          \/ \E s, l : Go(r, s, l)
      BY <1>6 DEF InviteStep, InviteReadSub, InviteFindMember, InviteFindPending, InviteCount,
                  Counted, CheckSeats, PlatformInvite, InsertInvite, RevokeLookup, RevokeInvite, Done
    <3>2. QED BY <1>1, <2>1, <2>2, <3>1
  <2>3. CASE q = r
    <3>1. CASE InviteReadSub(q) BY <1>3, <3>1 DEF InviteReadSub, Arrives
    <3>2. CASE InviteFindMember(q) BY <1>2, <1>3, <3>2 DEF InviteFindMember, Arrives
    <3>3. CASE InviteFindPending(q) BY <1>2, <1>3, <3>3 DEF InviteFindPending, Arrives
    <3>4. CASE InviteCount(q)
      <4>1. Done(q) \/ \E s \in {"addPending", "addMembers", "insertInvite"} : \E l : Go(q, s, l)
        BY <3>4 DEF InviteCount, Counted, CheckSeats
      <4>2. CASE \E s \in {"addPending", "addMembers", "insertInvite"} : \E l : Go(q, s, l)
        <5>1. pc'[q] \in {"addPending", "addMembers", "insertInvite"} BY <1>3, <4>2
        <5>2. QED BY <3>4, <5>1 DEF Arrives
      <4>3. QED BY <1>2, <4>1, <4>2
    <3>5. CASE PlatformInvite(q) BY <1>3, <3>5 DEF PlatformInvite, Arrives
    <3>6. CASE InsertInvite(q) BY <1>2, <3>6 DEF InsertInvite
    <3>7. CASE RevokeLookup(q) BY <1>3, <3>7 DEF RevokeLookup, Arrives
    <3>8. CASE RevokeInvite(q) BY <1>2, <3>8 DEF RevokeInvite
    <3>9. QED
      BY <1>6, <2>1, <2>3, <3>1, <3>2, <3>3, <3>4, <3>5, <3>6, <3>7, <3>8 DEF InviteStep
  <2>4. QED BY <2>2, <2>3
<1>7. ASSUME NEW r \in Requests, BillingStep(r) PROVE Same(q) \/ Arrives(q)
  <2>1. \E s \in PlanSteps \cup {"idle"} : \E l : Go(r, s, l)
    BY <1>7 DEF BillingStep, ChangePlan, UpdateTenantBilling, CountForPlan, WriteSub, Done, PlanSteps
  <2>2. CASE q = r
    <3>1. pc'[q] \in PlanSteps \cup {"idle"} BY <1>3, <2>1, <2>2
    <3>2. QED BY <3>1 DEF PlanSteps, Arrives
  <2>3. QED BY <1>1, <2>1, <2>2
<1>8. ASSUME NEW r \in Requests, Crash(r) PROVE Same(q) \/ Arrives(q)
  <2>1. CASE q = r BY <1>2, <1>8, <2>1 DEF Crash
  <2>2. CASE q # r BY <1>1, <1>8, <2>2 DEF Crash, Done
  <2>3. QED BY <2>1, <2>2
<1>9. CASE ApplySubscriptionState BY <1>9 DEF ApplySubscriptionState
<1>10. CASE TimePasses BY <1>10 DEF TimePasses
<1>11. CASE UNCHANGED vars BY <1>11 DEF vars
<1>12. QED BY <1>4, <1>5, <1>6, <1>7, <1>8, <1>9, <1>10, <1>11 DEF Next

-----------------------------------------------------------------------------
(***************************************************************************)
(* What an ACCEPTED invitation tells: a membership may be gone again, but  *)
(* the number of rows that a user has had never shrinks, and an accept     *)
(* reaches its last statement only once there has been one.                *)
(***************************************************************************)
JoinInv ==
  /\ \A u \in Users : role[u] # NoRole => row[u] > 0
  /\ \A r \in Requests : pc[r] = "markAccepted" => row[EmailOf[loc[r].inv]] > 0
  /\ AcceptedHasJoined

(* The request of an accept step is for an invitation's addressee.         *)
LEMMA Addressee ==
  ASSUME TypeOK, NEW r \in Requests, pc[r] \in AcceptSteps
  PROVE  loc[r].inv \in Invites /\ EmailOf[loc[r].inv] \in Users
<1>1. loc[r] \in AcceptLocals BY HeldLocals DEF TypeOK
<1>2. QED BY <1>1, InvitesAssumption DEF AcceptLocals

LEMMA JoinStep ==
  ASSUME TypeOK, JoinInv, [Next]_vars
  PROVE  JoinInv'
<1>0. RequestsOK /\ WhoWrites BY Writers DEF TypeOK
<1>1. \A u \in Users : row[u] \in Nat BY DEF TypeOK
<1>2. ASSUME NEW r \in Requests, CreateMember(r)
      PROVE  /\ \A u \in Users : row[u] > 0 => row'[u] > 0
             /\ \A u \in Users : role'[u] # NoRole => row'[u] > 0
             /\ pc'[r] = "markAccepted" => row'[EmailOf[loc'[r].inv]] > 0
  <2> PICK u \in Users : u = EmailOf[loc[r].inv] BY <1>2, Addressee DEF CreateMember, AcceptSteps
  <2>1. CASE role[u] # NoRole
    <3>1. UNCHANGED <<role, row>> /\ Done(r) BY <1>2, <2>1 DEF CreateMember
    <3>2. pc'[r] = "idle" BY <1>0, <3>1, DoneFacts
    <3>3. QED BY <3>1, <3>2 DEF JoinInv
  <2>2. CASE role[u] = NoRole
    <3>1. /\ role' = [role EXCEPT ![u] = invite[loc[r].inv].role]
          /\ row' = [row EXCEPT ![u] = row[u] + 1]
          /\ Go(r, "markAccepted", loc[r])
      BY <1>2, <2>2 DEF CreateMember
    <3>2. row'[u] > 0 /\ \A v \in Users : v # u => row'[v] = row[v] /\ role'[v] = role[v]
      BY <1>1, <3>1 DEF TypeOK
    <3>3. loc'[r] = loc[r] BY <1>0, <3>1, GoFacts
    <3>4. QED BY <3>2, <3>3 DEF JoinInv
  <2>3. QED BY <2>1, <2>2
<1>3. ASSUME NEW r \in Requests, WriteMember(r)
      PROVE  row' = row /\ \A u \in Users : role'[u] # NoRole => role[u] # NoRole
  BY <1>3 DEF WriteMember, TypeOK
<1>4. \A u \in Users : role'[u] # NoRole => row'[u] > 0 BY <1>0, <1>2, <1>3 DEF JoinInv, WhoWrites
<1>5. \A u \in Users : row[u] > 0 => row'[u] > 0 BY <1>0, <1>2, <1>3 DEF WhoWrites
<1>6. ASSUME NEW q \in Requests, pc'[q] = "markAccepted" PROVE row'[EmailOf[loc'[q].inv]] > 0
  <2>1. CASE pc'[q] = pc[q] /\ loc'[q] = loc[q]
    <3>1. EmailOf[loc[q].inv] \in Users BY <1>6, <2>1, Addressee DEF AcceptSteps
    <3>2. row[EmailOf[loc[q].inv]] > 0 BY <1>6, <2>1 DEF JoinInv
    <3>3. QED BY <1>5, <2>1, <3>1, <3>2
  <2>2. CASE FindMembership(q)
    <3>1. EmailOf[loc[q].inv] \in Users BY <2>2, Addressee DEF FindMembership, AcceptSteps
    <3>2. pc'[q] = IF role[EmailOf[loc[q].inv]] = NoRole THEN "createMember" ELSE "markAccepted"
      BY <1>0, <2>2, GoFacts DEF FindMembership
    <3>3. role[EmailOf[loc[q].inv]] # NoRole /\ loc'[q] = loc[q]
      BY <1>0, <1>6, <2>2, <3>2, GoFacts DEF FindMembership
    <3>4. QED BY <1>5, <3>1, <3>3 DEF JoinInv
  <2>3. CASE CreateMember(q) BY <1>2, <1>6, <2>3
  <2>4. QED BY <1>6, <2>1, <2>2, <2>3, Arrivals DEF Arrives
<1>7. ASSUME NEW i \in Invites, invite'[i].status = "ACCEPTED" PROVE row'[EmailOf[i]] > 0
  <2>0. EmailOf[i] \in Users BY InvitesAssumption
  <2>1. CASE invite[i].status = "ACCEPTED" BY <1>5, <2>0, <2>1 DEF JoinInv, AcceptedHasJoined
  <2>2. ASSUME NEW r \in Requests, MarkAccepted(r), invite[i].status # "ACCEPTED"
        PROVE  row'[EmailOf[i]] > 0
    <3>1. i = loc[r].inv BY <1>7, <2>2 DEF MarkAccepted, Settle, TypeOK
    <3>2. row[EmailOf[i]] > 0 BY <2>2, <3>1 DEF JoinInv, MarkAccepted
    <3>3. QED BY <1>5, <2>0, <3>2
  <2>3. ASSUME NEW r \in Requests, ExpireInvite(r) \/ InsertInvite(r) \/ RevokeInvite(r) \/ PlatformRevoke(r)
        PROVE  invite[i].status = "ACCEPTED"
    BY <1>7, <2>3 DEF ExpireInvite, InsertInvite, RevokeInvite, PlatformRevoke, Settle, TypeOK
  <2>4. QED BY <1>0, <1>7, <2>1, <2>2, <2>3 DEF WhoWrites
<1>8. QED BY <1>4, <1>6, <1>7 DEF JoinInv, AcceptedHasJoined

(* consumeInvite marks an invitation ACCEPTED only after its addressee had *)
(* a membership, whatever revokes, removals and crashes come in between.   *)
THEOREM AcceptSafety == Spec => []AcceptedHasJoined
<1>1. Init => JoinInv
  <2> SUFFICES ASSUME Init PROVE JoinInv OBVIOUS
  <2>1. \A u \in Users : role[u] # NoRole => row[u] > 0 BY DEF Init
  <2>2. QED BY <2>1 DEF Init, JoinInv, AcceptedHasJoined
<1>2. JoinInv => AcceptedHasJoined BY DEF JoinInv
<1>3. QED BY <1>1, <1>2, JoinStep, TypeCorrect, PTL DEF Spec

-----------------------------------------------------------------------------
(* A step that leaves or brings a request to a seat step, without a race,  *)
(* finds nobody else who writes the subscription, adds a member or sends   *)
(* an invitation.                                                          *)
LEMMA SeatAlone ==
  ASSUME TypeOK, SeatInv, [Next]_vars, ~seatRace',
         NEW q \in Requests, pc'[q] \in SeatSteps \ {"markAccepted"}
  PROVE  ~seatRace /\ sub' = sub /\ Members' \subseteq Members /\ Pending' \subseteq Pending
<1>1. RequestsOK /\ WhoWrites BY Writers DEF TypeOK
<1>2. ~seatRace BY <1>1 DEF WhoWrites
<1>3. pc'[q] # "idle" /\ pc'[q] # "markAccepted"
  BY DEF SeatSteps, AcceptSteps, InviteSteps, PlanSteps
<1>4. ASSUME NEW r \in Requests, pc[r] \in SeatSteps, NEW l,
             Done(r) \/ Go(r, "markAccepted", l)
      PROVE  FALSE
  <2>1. q # r BY <1>1, <1>3, <1>4, DoneFacts, GoFacts
  <2>2. pc'[q] = pc[q] BY <1>1, <1>4, <2>1, DoneFacts, GoFacts
  <2>3. QED BY <1>2, <1>4, <2>1, <2>2 DEF SeatInv
<1>5. ~ApplySubscriptionState BY DEF ApplySubscriptionState
<1>6. \A r \in Requests : ~WriteSub(r) BY <1>4 DEF WriteSub, SeatSteps, PlanSteps
<1>7. sub' = sub BY <1>1, <1>5, <1>6 DEF WhoWrites
<1>8. Members' \subseteq Members
  <2>1. ASSUME NEW r \in Requests, CreateMember(r) PROVE FALSE
    <3>1. Done(r) \/ Go(r, "markAccepted", loc[r]) BY <2>1 DEF CreateMember
    <3>2. pc[r] \in SeatSteps BY <2>1 DEF CreateMember, SeatSteps, AcceptSteps
    <3>3. QED BY <1>4, <3>1, <3>2
  <2>2. ASSUME NEW r \in Requests, WriteMember(r) PROVE Members' \subseteq Members
    BY <2>2 DEF WriteMember, Members, TypeOK
  <2>3. QED BY <1>1, <2>1, <2>2 DEF WhoWrites, Members
<1>9. Pending' \subseteq Pending
  <2>1. ASSUME NEW r \in Requests, InsertInvite(r) PROVE FALSE
    BY <1>4, <2>1 DEF InsertInvite, SeatSteps, InviteSteps
  <2>2. ASSUME NEW r \in Requests, MarkAccepted(r) \/ ExpireInvite(r) \/ RevokeInvite(r) \/ PlatformRevoke(r)
        PROVE  Pending' \subseteq Pending
    BY <2>2 DEF MarkAccepted, ExpireInvite, RevokeInvite, PlatformRevoke, Settle, Pending, TypeOK
  <2>3. QED BY <1>1, <2>1, <2>2 DEF WhoWrites, Pending
<1>10. QED BY <1>2, <1>7, <1>8, <1>9

-----------------------------------------------------------------------------
(***************************************************************************)
(* The entitlement: what an accept has checked stays true until its row is *)
(* inserted, because only another seat request writes the subscription.    *)
(***************************************************************************)
EntitledInv ==
  ~seatRace /\ EnforceEntitlement =>
    \A r \in Requests : pc[r] \in {"countSeats", "findMembership", "createMember"} => IsEntitled(sub)

LEMMA EntitledStep ==
  ASSUME TypeOK, SeatInv, EntitledInv, [Next]_vars
  PROVE  EntitledInv'
<1> SUFFICES ASSUME ~seatRace', EnforceEntitlement, NEW q \in Requests,
                    pc'[q] \in {"countSeats", "findMembership", "createMember"}
             PROVE  IsEntitled(sub')
  BY DEF EntitledInv, IsEntitled
<1>1. ~seatRace /\ sub' = sub BY SeatAlone DEF SeatSteps, AcceptSteps
<1>2. pc[q] \in {"countSeats", "findMembership", "createMember"} \/ ReadSub(q)
  BY Arrivals DEF Arrives, CountSeats, FindMembership
<1>3. CASE pc[q] \in {"countSeats", "findMembership", "createMember"} BY <1>1, <1>3 DEF EntitledInv
<1>4. CASE ReadSub(q) /\ ~IsEntitled(sub)
  <2>1. Done(q) BY <1>4 DEF ReadSub
  <2>2. pc'[q] = "idle" BY <2>1, DoneFacts DEF TypeOK
  <2>3. QED BY <2>2
<1>5. QED BY <1>1, <1>2, <1>3, <1>4

LEMMA EntitledAlways == Spec => []EntitledInv
<1>1. Init => EntitledInv BY DEF Init, EntitledInv
<1>2. QED BY <1>1, EntitledStep, SeatAlways, TypeCorrect, PTL DEF Spec

-----------------------------------------------------------------------------
(***************************************************************************)
(* The limit that create checks.  Members and pending invitations may each *)
(* shrink while it counts, so what it has counted is a bound from above.   *)
(***************************************************************************)
InviteOK(r) ==
  /\ pc[r] \in InviteSteps \ {"insertInvite"} => loc[r].seats = sub.maxUsers
  /\ pc[r] = "addPending" => Cardinality(Members) <= loc[r].used
  /\ pc[r] = "addMembers" => Cardinality(Pending) <= loc[r].used
  /\ pc[r] = "insertInvite" => Cardinality(Members) + Cardinality(Pending) < sub.maxUsers
InviteInv == ~seatRace => \A r \in Requests : InviteOK(r)

LEMMA PendingCount ==
  /\ IsFiniteSet(Pending) /\ Cardinality(Pending) \in Nat
  /\ IsFiniteSet(Members) /\ Cardinality(Members) \in Nat
BY UsersAssumption, InvitesAssumption, FS_Subset, FS_CardinalityType DEF Pending, Members

LEMMA FewerCounted ==
  ASSUME Members' \subseteq Members, Pending' \subseteq Pending
  PROVE  /\ Cardinality(Members') \in Nat /\ Cardinality(Members') <= Cardinality(Members)
         /\ Cardinality(Pending') \in Nat /\ Cardinality(Pending') <= Cardinality(Pending)
BY PendingCount, FS_Subset, FS_CardinalityType

LEMMA InviteInvStep ==
  ASSUME TypeOK, SeatInv, InviteInv, [Next]_vars
  PROVE  InviteInv'
<1> SUFFICES ASSUME ~seatRace', NEW q \in Requests PROVE InviteOK(q)' BY DEF InviteInv
<1>1. CASE pc'[q] \notin InviteSteps BY <1>1 DEF InviteOK, InviteSteps
<1>2. CASE pc'[q] \in InviteSteps
  <2>1. ~seatRace /\ sub' = sub /\ Members' \subseteq Members /\ Pending' \subseteq Pending
    BY <1>2, SeatAlone DEF SeatSteps, InviteSteps
  <2> PICK m \in Nat, p \in Nat : m = Cardinality(Members) /\ p = Cardinality(Pending) BY PendingCount
  <2> PICK n \in Nat, w \in Nat : n = Cardinality(Members') /\ w = Cardinality(Pending')
    BY <2>1, FewerCounted
  <2> PICK x \in Nat : x = sub.maxUsers BY DEF TypeOK
  <2>2. n <= m /\ w <= p BY <2>1, FewerCounted
  <2>3. InviteOK(q) BY <2>1 DEF InviteInv
  <2>4. RequestsOK /\ (pc[q] \in InviteSteps => loc[q] \in InviteLocals) BY HeldLocals DEF TypeOK
  <2>5. CASE pc'[q] = pc[q] /\ loc'[q] = loc[q]
    <3>1. loc[q].used \in Nat BY <1>2, <2>4, <2>5 DEF InviteLocals
    <3>2. pc[q] = "addPending" => n <= loc[q].used BY <2>2, <2>3, <3>1 DEF InviteOK
    <3>3. pc[q] = "addMembers" => w <= loc[q].used BY <2>2, <2>3, <3>1 DEF InviteOK
    <3>4. pc[q] = "insertInvite" => n + w < x BY <2>2, <2>3 DEF InviteOK
    <3>5. pc[q] \in InviteSteps \ {"insertInvite"} => loc[q].seats = x BY <2>3 DEF InviteOK
    <3>6. QED BY <2>1, <2>5, <3>2, <3>3, <3>4, <3>5 DEF InviteOK
  <2>6. CASE InviteReadSub(q)
    <3>1. \E l : Go(q, "findMember", l) /\ l.seats = sub.maxUsers BY <2>6 DEF InviteReadSub
    <3>2. pc'[q] = "findMember" /\ loc'[q].seats = sub.maxUsers BY <2>4, <3>1, GoFacts
    <3>3. QED BY <2>1, <3>2 DEF InviteOK
  <2>7. CASE InviteFindMember(q) \/ InviteFindPending(q)
    <3>1. pc[q] \in InviteSteps \ {"insertInvite"}
      BY <2>7 DEF InviteFindMember, InviteFindPending, InviteSteps
    <3>2. \/ Done(q)
          \/ \E s \in {"findPending", "countMembers", "countPending"} : Go(q, s, loc[q])
      BY <2>7 DEF InviteFindMember, InviteFindPending
    <3>3. pc'[q] # "idle" BY <1>2 DEF InviteSteps
    <3>4. pc'[q] \in {"findPending", "countMembers", "countPending"} /\ loc'[q] = loc[q]
      BY <2>4, <3>2, <3>3, GoFacts, DoneFacts
    <3>5. loc[q].seats = sub.maxUsers BY <2>3, <3>1 DEF InviteOK
    <3>6. QED BY <2>1, <3>4, <3>5 DEF InviteOK
  <2>8. CASE InviteCount(q)
    <3>1. n = m /\ w = p BY <2>8 DEF InviteCount, db, Members, Pending
    <3>2. pc[q] \in InviteSteps \ {"insertInvite"} BY <2>8 DEF InviteCount, InviteSteps
    <3>3. loc[q] \in InviteLocals /\ loc[q].used \in Nat /\ loc[q].seats = x
      BY <2>3, <2>4, <3>2 DEF InviteOK, InviteLocals
    <3> PICK l \in InviteLocals : l = loc[q] BY <3>3
    <3> PICK u \in Nat : u = l.used BY <3>3
    <3>4. pc'[q] # "idle" BY <1>2 DEF InviteSteps
    <3>5. ASSUME NEW k \in Nat, NEW next, Counted(q, k, next)
          PROVE  pc'[q] = next /\ loc'[q].used = u + k /\ loc'[q].seats = x
      <4> PICK v \in Nat : v = u + k OBVIOUS
      <4>1. [l EXCEPT !.used = v] \in InviteLocals BY DEF InviteLocals
      <4>2. PICK e \in InviteLocals : e = [l EXCEPT !.used = v] BY <4>1
      <4>3. e.used = v /\ e.seats = x BY <3>3, <4>2 DEF InviteLocals
      <4>4. Go(q, next, e) BY <3>5, <4>2 DEF Counted
      <4>5. QED BY <2>4, <4>3, <4>4, GoFacts
    <3>6. ASSUME NEW k \in Nat, CheckSeats(q, k)
          PROVE  u + k < x /\ pc'[q] = "insertInvite"
      <4>1. ~Done(q) BY <2>4, <3>4, DoneFacts
      <4>2. ~(u + k >= x) /\ Counted(q, k, "insertInvite") BY <3>3, <3>6, <4>1 DEF CheckSeats
      <4>3. QED BY <3>5, <4>2
    <3>7. CASE pc[q] = "countMembers"
      <4>1. pc'[q] = "addPending" /\ loc'[q].used = u + m /\ loc'[q].seats = x
        BY <2>8, <3>5, <3>7 DEF InviteCount
      <4>2. n <= loc'[q].used BY <3>1, <4>1
      <4>3. QED BY <2>1, <4>1, <4>2 DEF InviteOK
    <3>8. CASE pc[q] = "countPending"
      <4>1. pc'[q] = "addMembers" /\ loc'[q].used = u + p /\ loc'[q].seats = x
        BY <2>8, <3>5, <3>8 DEF InviteCount
      <4>2. w <= loc'[q].used BY <3>1, <4>1
      <4>3. QED BY <2>1, <4>1, <4>2 DEF InviteOK
    <3>9. CASE pc[q] = "addPending"
      <4>1. u + p < x /\ pc'[q] = "insertInvite" BY <2>8, <3>6, <3>9 DEF InviteCount
      <4>2. m <= u BY <2>3, <3>9 DEF InviteOK
      <4>3. n + w < x BY <3>1, <4>1, <4>2
      <4>4. QED BY <2>1, <4>1, <4>3 DEF InviteOK
    <3>10. CASE pc[q] = "addMembers"
      <4>1. u + m < x /\ pc'[q] = "insertInvite" BY <2>8, <3>6, <3>10 DEF InviteCount
      <4>2. p <= u BY <2>3, <3>10 DEF InviteOK
      <4>3. n + w < x BY <3>1, <4>1, <4>2
      <4>4. QED BY <2>1, <4>1, <4>3 DEF InviteOK
    <3>11. QED BY <2>8, <3>7, <3>8, <3>9, <3>10 DEF InviteCount
  <2>9. QED BY <1>2, <2>5, <2>6, <2>7, <2>8, Arrivals DEF Arrives, InviteSteps
<1>3. QED BY <1>1, <1>2

LEMMA InviteAlways == Spec => []InviteInv
<1>1. Init => InviteInv BY DEF Init, InviteInv, InviteOK, InviteSteps
<1>2. QED BY <1>1, InviteInvStep, SeatAlways, TypeCorrect, PTL DEF Spec

-----------------------------------------------------------------------------
(* A finite set that grows by one element at most.                         *)
LEMMA OneMore ==
  ASSUME NEW S, NEW T, NEW x, IsFiniteSet(S), T \subseteq S \cup {x}
  PROVE  Cardinality(S) \in Nat /\ Cardinality(T) \in Nat /\ Cardinality(T) <= Cardinality(S) + 1
<1> PICK k \in Nat : k = Cardinality(S) BY FS_CardinalityType
<1>1. IsFiniteSet(S \cup {x}) BY FS_AddElement
<1>2. Cardinality(S \cup {x}) = IF x \in S THEN k ELSE k + 1 BY FS_AddElement
<1>3. Cardinality(T) \in Nat /\ Cardinality(T) <= Cardinality(S \cup {x})
  BY <1>1, FS_Subset, FS_CardinalityType
<1>4. QED BY <1>2, <1>3

(* Only consumeInvite's insert gives the tenant a member, one at a time.   *)
LEMMA WhoJoins ==
  ASSUME TypeOK, [Next]_vars, ~(Members' \subseteq Members)
  PROVE  \E r \in Requests : CreateMember(r) /\ sub' = sub /\ Occupied' <= Occupied + 1
<1>1. WhoWrites BY Writers
<1>2. \A r \in Requests : ~WriteMember(r) BY DEF WriteMember, Members, TypeOK
<1>3. PICK r \in Requests : CreateMember(r) BY <1>1, <1>2 DEF WhoWrites, Members
<1> PICK u \in Users : u = EmailOf[loc[r].inv] BY <1>3, Addressee DEF CreateMember, AcceptSteps
<1>4. Members' \subseteq Members \cup {u} BY <1>3 DEF CreateMember, Members, TypeOK
<1>5. Occupied' <= Occupied + 1 BY <1>4, OccupiedType, OneMore DEF Occupied
<1>6. QED BY <1>3, <1>5 DEF CreateMember

(* consumeInvite lets nobody in beyond the limit in force, even after a    *)
(* webhook has shrunk the plan, if no other seat request overlaps it.      *)
THEOREM GrowthSafety == Spec => SeatGrowth
<1>1. TypeOK /\ SeatInv /\ [Next]_vars =>
        [~seatRace /\ ~(Members' \subseteq Members) => Cardinality(Members') <= sub.maxUsers]_vars
  <2> SUFFICES ASSUME TypeOK, SeatInv, [Next]_vars, ~seatRace, ~(Members' \subseteq Members)
               PROVE  Occupied' <= sub.maxUsers
    BY DEF Occupied
  <2>1. PICK r \in Requests : CreateMember(r) /\ Occupied' <= Occupied + 1 BY WhoJoins
  <2>2. Occupied < sub.maxUsers BY <2>1 DEF CreateMember, SeatInv, SeatOK
  <2>3. Occupied \in Nat /\ sub.maxUsers \in Nat BY OccupiedType DEF TypeOK
  <2>4. IsFiniteSet(Members') BY UsersAssumption, FS_Subset DEF Members
  <2>5. Occupied' \in Nat BY <2>4, FS_CardinalityType DEF Occupied
  <2>6. QED BY <2>1, <2>2, <2>3, <2>5
<1>2. QED BY <1>1, SeatAlways, TypeCorrect, PTL DEF Spec, SeatGrowth

(* With BILLING_ENFORCE_ENTITLEMENT consumeInvite lets somebody in only    *)
(* while the subscription is a paid, ACTIVE one, as long as no webhook and *)
(* no other seat request lands inside it.                                  *)
THEOREM EntitledSafety == Spec => JoinEntitled
<1>1. TypeOK /\ EntitledInv /\ [Next]_vars =>
        [EnforceEntitlement /\ ~seatRace /\ ~(Members' \subseteq Members) => IsEntitled(sub)]_vars
  <2> SUFFICES ASSUME TypeOK, EntitledInv, [Next]_vars, EnforceEntitlement, ~seatRace,
                      ~(Members' \subseteq Members)
               PROVE  IsEntitled(sub)
    OBVIOUS
  <2>1. PICK r \in Requests : CreateMember(r) BY WhoJoins
  <2>2. QED BY <2>1 DEF CreateMember, EntitledInv
<1>2. QED BY <1>1, EntitledAlways, TypeCorrect, PTL DEF Spec, JoinEntitled

(* create sends an invitation only if the members and all pending          *)
(* invitations then fit the limit, if no other seat request overlaps it.   *)
THEOREM InviteSafety == Spec => InvitesFit
<1>1. TypeOK /\ InviteInv /\ [Next]_vars =>
        [\A r \in Requests :
           (~seatRace /\ pc[r] = "insertInvite" /\ Pending' # Pending /\ pc'[r] = "idle")
             => Cardinality(Members) + Cardinality(Pending') <= sub.maxUsers]_vars
  <2> SUFFICES ASSUME TypeOK, InviteInv, [Next]_vars, NEW r \in Requests, ~seatRace,
                      pc[r] = "insertInvite", Pending' # Pending, pc'[r] = "idle"
               PROVE  Cardinality(Members) + Cardinality(Pending') <= sub.maxUsers
    OBVIOUS
  <2>1. RequestsOK /\ WhoWrites BY Writers DEF TypeOK
  <2>2. PICK q \in Requests : \/ MarkAccepted(q) \/ ExpireInvite(q) \/ InsertInvite(q)
                              \/ RevokeInvite(q) \/ PlatformRevoke(q)
    BY <2>1 DEF WhoWrites, Pending
  <2>3. q = r
    <3>1. ~PlatformRevoke(q) BY DEF PlatformRevoke
    <3>2. Done(q) BY <2>2, <3>1 DEF MarkAccepted, ExpireInvite, InsertInvite, RevokeInvite
    <3>3. QED BY <2>1, <3>2, DoneFacts
  <2>4. InsertInvite(r)
    BY <2>2, <2>3 DEF MarkAccepted, ExpireInvite, RevokeInvite, PlatformRevoke, Starts
  <2>5. PICK i \in Unsent : Pending' \subseteq Pending \cup {i}
    BY <2>4 DEF InsertInvite, Pending, TypeOK
  <2> PICK m \in Nat, p \in Nat : m = Cardinality(Members) /\ p = Cardinality(Pending) BY PendingCount
  <2> PICK x \in Nat : x = sub.maxUsers BY DEF TypeOK
  <2>6. m + p < x BY DEF InviteInv, InviteOK
  <2>7. Cardinality(Pending') \in Nat /\ Cardinality(Pending') <= p + 1
    BY <2>5, PendingCount, OneMore
  <2>8. m + Cardinality(Pending') <= x BY <2>6, <2>7
  <2>9. QED BY <2>8
<1>2. QED BY <1>1, InviteAlways, TypeCorrect, PTL DEF Spec, InvitesFit

-----------------------------------------------------------------------------
(***************************************************************************)
(* Whoever has found an invitation PENDING finds it so until it writes it, *)
(* unless another request settles it meanwhile: then it is overtaken.      *)
(***************************************************************************)
HeldPending ==
  \A r \in Requests, i \in Invites \ overtaken : Holds(r, i) => invite[i].status = "PENDING"

LEMMA Kept ==
  ASSUME [Next]_vars
  PROVE  overtaken \subseteq overtaken'
<1>1. ASSUME NEW r \in Requests, MembersStep(r) PROVE overtaken \subseteq overtaken'
  BY <1>1 DEF MembersStep, MemberLookup, CountOwners, WriteMember, EntersEdit, hist
<1>2. ASSUME NEW r \in Requests, AcceptStep(r) PROVE overtaken \subseteq overtaken'
  BY <1>2 DEF AcceptStep, AcceptLoad, CreateUser, Refetch, ReadSub, CountSeats, FindMembership,
              CreateMember, MarkAccepted, ExpireInvite, EntersSeat, Settle, hist
<1>3. ASSUME NEW r \in Requests, InviteStep(r) PROVE overtaken \subseteq overtaken'
  BY <1>3 DEF InviteStep, InviteReadSub, InviteFindMember, InviteFindPending, InviteCount,
              PlatformInvite, InsertInvite, RevokeLookup, RevokeInvite, PlatformRevoke, EntersSeat,
              Settle, hist
<1>4. ASSUME NEW r \in Requests, BillingStep(r) PROVE overtaken \subseteq overtaken'
  BY <1>4 DEF BillingStep, ChangePlan, UpdateTenantBilling, CountForPlan, WriteSub, EntersSeat, hist
<1>5. ASSUME NEW r \in Requests, Crash(r) PROVE overtaken \subseteq overtaken' BY <1>5 DEF Crash, hist
<1>6. CASE ApplySubscriptionState BY <1>6 DEF ApplySubscriptionState
<1>7. CASE TimePasses BY <1>7 DEF TimePasses, hist
<1>8. CASE UNCHANGED vars BY <1>8 DEF vars
<1>9. QED BY <1>1, <1>2, <1>3, <1>4, <1>5, <1>6, <1>7, <1>8 DEF Next

(* What a step does to an invitation that request q holds before and after.*)
LEMMA HeldStays ==
  ASSUME TypeOK, [Next]_vars, NEW q \in Requests, pc'[q] = pc[q], loc'[q] = loc[q],
         NEW i \in Invites \ overtaken', Holds(q, i), invite[i].status = "PENDING"
  PROVE  invite'[i].status = "PENDING"
<1>1. RequestsOK /\ WhoWrites BY Writers DEF TypeOK
<1>2. pc[q] # "idle" BY DEF Holds, HoldSteps, AcceptSteps
<1>3. ASSUME NEW r \in Requests, NEW j, NEW t, Settle(r, j, t), r # q
      PROVE  invite'[i].status = "PENDING"
  <2>1. j # i
    <3> SUFFICES ASSUME j = i PROVE FALSE OBVIOUS
    <3>1. overtaken' = overtaken \cup {k \in {i} : \E p \in Requests \ {r} : Holds(p, k)}
      BY <1>3 DEF Settle
    <3>2. i \in overtaken' BY <1>3, <3>1
    <3>3. QED BY <3>2
  <2>2. QED BY <1>3, <2>1 DEF Settle, TypeOK
<1>4. ASSUME NEW r \in Requests, Done(r) PROVE r # q BY <1>1, <1>2, <1>4, DoneFacts
<1>5. ASSUME NEW r \in Requests, MarkAccepted(r) \/ ExpireInvite(r) \/ RevokeInvite(r)
      PROVE  invite'[i].status = "PENDING"
  <2>1. Done(r) /\ \E t : Settle(r, loc[r].inv, t) BY <1>5 DEF MarkAccepted, ExpireInvite, RevokeInvite
  <2>2. QED BY <1>3, <1>4, <2>1
<1>6. ASSUME NEW r \in Requests, PlatformRevoke(r) PROVE invite'[i].status = "PENDING"
  <2>1. pc[r] = "idle" /\ \E j \in Invites : Settle(r, j, "REVOKED") BY <1>6 DEF PlatformRevoke, Starts
  <2>2. QED BY <1>2, <1>3, <2>1
<1>7. ASSUME NEW r \in Requests, InsertInvite(r) PROVE invite'[i].status = "PENDING"
  BY <1>7 DEF InsertInvite, Unsent, TypeOK
<1>8. QED BY <1>1, <1>5, <1>6, <1>7 DEF WhoWrites

LEMMA HeldStep ==
  ASSUME TypeOK, HeldPending, [Next]_vars
  PROVE  HeldPending'
<1> SUFFICES ASSUME NEW q \in Requests, NEW i \in Invites \ overtaken', Holds(q, i)'
             PROVE  invite'[i].status = "PENDING"
  BY DEF HeldPending
<1>1. RequestsOK BY DEF TypeOK
<1>2. pc'[q] \in HoldSteps /\ loc'[q].inv = i BY DEF Holds
<1>3. pc'[q] \notin {"idle", "createUser", "refetch"} BY <1>2 DEF HoldSteps, AcceptSteps
<1>4. CASE pc'[q] = pc[q] /\ loc'[q] = loc[q]
  <2>1. Holds(q, i) BY <1>2, <1>4 DEF Holds
  <2>2. overtaken \subseteq overtaken' BY Kept
  <2>3. QED BY <1>4, <2>1, <2>2, HeldStays DEF HeldPending
<1>5. CASE AcceptLoad(q)
  <2>1. \E j \in Pending : \E s, l : Go(q, s, l) /\ l.inv = j BY <1>5 DEF AcceptLoad
  <2>2. i \in Pending BY <1>1, <1>2, <2>1, GoFacts
  <2>3. QED BY <1>5, <2>2 DEF AcceptLoad, db, Pending
<1>6. CASE RevokeLookup(q)
  <2>1. \E j \in Pending : Go(q, "revoke", [inv |-> j]) BY <1>6 DEF RevokeLookup
  <2>2. i \in Pending BY <1>1, <1>2, <2>1, GoFacts
  <2>3. QED BY <1>6, <2>2 DEF RevokeLookup, db, Pending
<1>7. CASE Refetch(q)
  <2>1. Go(q, "readSub", loc[q]) /\ loc[q].inv \in Pending BY <1>1, <1>3, <1>7, DoneFacts DEF Refetch
  <2>2. i \in Pending BY <1>1, <1>2, <2>1, GoFacts
  <2>3. QED BY <1>7, <2>2 DEF Refetch, db, Pending
<1>8. CASE ReadSub(q) \/ CountSeats(q) \/ FindMembership(q) \/ CreateMember(q)
  <2>1. pc[q] \in HoldSteps /\ invite' = invite /\ overtaken' = overtaken
    BY <1>8 DEF ReadSub, CountSeats, FindMembership, CreateMember, HoldSteps, AcceptSteps, db, hist
  <2>2. Done(q) \/ \E s, l : Go(q, s, l) /\ l.inv = loc[q].inv
    BY <1>8 DEF ReadSub, CountSeats, FindMembership, CreateMember
  <2>3. loc'[q].inv = loc[q].inv BY <1>1, <1>3, <2>2, DoneFacts, GoFacts
  <2>4. Holds(q, i) BY <1>2, <2>1, <2>3 DEF Holds
  <2>5. QED BY <2>1, <2>4 DEF HeldPending
<1>9. QED BY <1>2, <1>3, <1>4, <1>5, <1>6, <1>7, <1>8, Arrivals DEF Arrives, HoldSteps, AcceptSteps

(* An invitation that consumeInvite, an expiry or revoke has settled stays *)
(* settled, whatever other handlers do, except that the platform's         *)
(* revokeInvite overwrites it, and so does a handler that had found it     *)
(* PENDING before: the only way to reopen it.                              *)
THEOREM StatusSafety == Spec => FinalStatus
<1>1. Init => HeldPending BY DEF Init, HeldPending, Holds, HoldSteps, AcceptSteps
<1>2. TypeOK /\ HeldPending /\ [Next]_vars =>
        [\A i \in Invites \ overtaken : invite[i].status \in {"ACCEPTED", "EXPIRED", "REVOKED"}
           => invite'[i].status \in {invite[i].status, "REVOKED"}]_vars
  <2> SUFFICES ASSUME TypeOK, HeldPending, [Next]_vars, NEW i \in Invites \ overtaken,
                      invite[i].status \in {"ACCEPTED", "EXPIRED", "REVOKED"}
               PROVE  invite'[i].status \in {invite[i].status, "REVOKED"}
    OBVIOUS
  <2>1. WhoWrites BY Writers
  <2>2. ASSUME NEW r \in Requests, MarkAccepted(r) \/ ExpireInvite(r) \/ RevokeInvite(r)
        PROVE  invite'[i] = invite[i]
    <3>1. pc[r] \in HoldSteps BY <2>2 DEF MarkAccepted, ExpireInvite, RevokeInvite, HoldSteps, AcceptSteps
    <3>2. loc[r].inv # i BY <3>1 DEF HeldPending, Holds
    <3>3. QED BY <2>2, <3>2 DEF MarkAccepted, ExpireInvite, RevokeInvite, Settle, TypeOK
  <2>3. ASSUME NEW r \in Requests, InsertInvite(r) PROVE invite'[i] = invite[i]
    BY <2>3 DEF InsertInvite, Unsent, TypeOK
  <2>4. ASSUME NEW r \in Requests, PlatformRevoke(r)
        PROVE  invite'[i].status \in {invite[i].status, "REVOKED"}
    BY <2>4 DEF PlatformRevoke, Settle, TypeOK
  <2>5. QED BY <2>1, <2>2, <2>3, <2>4 DEF WhoWrites
<1>3. TypeOK /\ HeldPending /\ [Next]_vars => HeldPending' BY HeldStep
<1>4. QED BY <1>1, <1>2, <1>3, TypeCorrect, PTL DEF Spec, FinalStatus

-----------------------------------------------------------------------------
(***************************************************************************)
(* The refinement.  A row is inserted as one ledger step Join, a change or *)
(* removal of a membership is Edit, a write of maxUsers is Resize; all     *)
(* else stutters.  What the ledger's guards ask for at that one step was   *)
(* checked statements before, and OwnerInv and SeatInv carry it.           *)
(***************************************************************************)
SentInv ==
  /\ \A i \in Invites : invite[i].status # "UNSENT" => invite[i].role \in Roles
  /\ \A r \in Requests :
       pc[r] \in AcceptSteps \cup {"revoke", "expire"} => invite[loc[r].inv].status # "UNSENT"

LEMMA SentStep ==
  ASSUME TypeOK, SentInv, [Next]_vars
  PROVE  SentInv'
<1>1. RequestsOK /\ WhoWrites BY Writers DEF TypeOK
<1>2. ASSUME NEW i \in Invites
      PROVE  /\ invite[i].status # "UNSENT" => invite'[i].status # "UNSENT"
             /\ invite'[i].status # "UNSENT" => invite'[i].role \in Roles
  <2>1. CASE invite' = invite BY <2>1 DEF SentInv
  <2>2. ASSUME NEW r \in Requests, MarkAccepted(r) \/ ExpireInvite(r) \/ RevokeInvite(r)
        PROVE  /\ invite[i].status # "UNSENT" => invite'[i].status # "UNSENT"
               /\ invite'[i].status # "UNSENT" => invite'[i].role \in Roles
    <3>1. loc[r].inv \in Invites
      <4>1. pc[r] \in AcceptSteps \cup {"revoke", "expire"}
        BY <2>2 DEF MarkAccepted, ExpireInvite, RevokeInvite, AcceptSteps
      <4>2. QED BY <1>1, <4>1, HeldLocals DEF AcceptLocals, RowLocals
    <3>2. invite[loc[r].inv].status # "UNSENT"
      BY <2>2 DEF MarkAccepted, ExpireInvite, RevokeInvite, SentInv, AcceptSteps
    <3>3. PICK s \in {"ACCEPTED", "EXPIRED", "REVOKED"} : Settle(r, loc[r].inv, s)
      BY <2>2 DEF MarkAccepted, ExpireInvite, RevokeInvite
    <3>4. QED BY <3>1, <3>2, <3>3 DEF Settle, SentInv, TypeOK
  <2>3. ASSUME NEW r \in Requests, PlatformRevoke(r)
        PROVE  /\ invite[i].status # "UNSENT" => invite'[i].status # "UNSENT"
               /\ invite'[i].status # "UNSENT" => invite'[i].role \in Roles
    BY <2>3 DEF PlatformRevoke, Settle, SentInv, Unsent, TypeOK
  <2>4. ASSUME NEW r \in Requests, InsertInvite(r)
        PROVE  /\ invite[i].status # "UNSENT" => invite'[i].status # "UNSENT"
               /\ invite'[i].status # "UNSENT" => invite'[i].role \in Roles
    <3>1. loc[r].role \in Roles
      BY <1>1, <2>4, HeldLocals DEF InsertInvite, InviteSteps, InviteLocals
    <3>2. QED BY <2>4, <3>1 DEF InsertInvite, SentInv, Unsent, TypeOK
  <2>5. QED BY <1>1, <2>1, <2>2, <2>3, <2>4 DEF WhoWrites
<1>3. ASSUME NEW q \in Requests, pc'[q] \in AcceptSteps \cup {"revoke", "expire"}
      PROVE  invite'[loc'[q].inv].status # "UNSENT"
  <2>0. pc'[q] # "idle" BY <1>3 DEF AcceptSteps
  <2>1. SUFFICES loc'[q].inv \in Invites /\ invite[loc'[q].inv].status # "UNSENT" BY <1>2
  <2>2. CASE pc[q] \in AcceptSteps \cup {"revoke", "expire"} /\ loc'[q].inv = loc[q].inv
    BY <1>1, <2>2, HeldLocals DEF AcceptLocals, RowLocals, SentInv
  <2>3. CASE pc'[q] = pc[q] /\ loc'[q] = loc[q] BY <1>3, <2>2, <2>3
  <2>4. CASE AcceptLoad(q) \/ RevokeLookup(q)
    <3>1. \E i \in Pending : \E s, l : Go(q, s, l) /\ l.inv = i BY <2>4 DEF AcceptLoad, RevokeLookup
    <3>2. loc'[q].inv \in Pending BY <1>1, <3>1, GoFacts
    <3>3. QED BY <3>2 DEF Pending
  <2>5. CASE \/ CreateUser(q) \/ Refetch(q) \/ ReadSub(q) \/ CountSeats(q) \/ FindMembership(q)
             \/ CreateMember(q)
    <3>1. pc[q] \in AcceptSteps
      BY <2>5 DEF CreateUser, Refetch, ReadSub, CountSeats, FindMembership, CreateMember, AcceptSteps
    <3>2. Done(q) \/ \E s, l : Go(q, s, l) /\ l.inv = loc[q].inv
      BY <2>5 DEF CreateUser, Refetch, ReadSub, CountSeats, FindMembership, CreateMember
    <3>3. loc'[q].inv = loc[q].inv BY <1>1, <2>0, <3>2, DoneFacts, GoFacts
    <3>4. QED BY <2>2, <3>1, <3>3
  <2>6. QED BY <1>3, <2>3, <2>4, <2>5, Arrivals DEF Arrives, AcceptSteps
<1>4. QED BY <1>2, <1>3 DEF SentInv

LEMMA SentAlways == Spec => []SentInv
<1>1. Init => SentInv BY DEF Init, SentInv, AcceptSteps
<1>2. QED BY <1>1, SentStep, TypeCorrect, PTL DEF Spec

(* The ledger counts as the tenant does.                                   *)
LEMMA LedgerCount ==
  ASSUME NEW S
  PROVE  Ledger!Cardinality(S) = Cardinality(S)
BY DEF Ledger!Cardinality, Cardinality

LEMMA LedgerStep ==
  ASSUME TypeOK, OwnerInv, SeatInv, SeatInv', SentInv, [Next]_vars, ~editRace, ~seatRace, ~shrunk'
  PROVE  Ledger!Next \/ UNCHANGED <<role, sub.maxUsers>>
<1>1. RequestsOK /\ WhoWrites BY Writers DEF TypeOK
<1>2. Ledger!Members = Members /\ Ledger!Owners = Owners
  BY DEF Ledger!Members, Ledger!Owners, Members, Owners
<1>3. ASSUME NEW r \in Requests, CreateMember(r)
      PROVE  Ledger!Next \/ UNCHANGED <<role, sub.maxUsers>>
  <2> PICK u \in Users : u = EmailOf[loc[r].inv] BY <1>3, Addressee DEF CreateMember, AcceptSteps
  <2>1. CASE role[u] # NoRole BY <1>3, <2>1 DEF CreateMember
  <2>2. CASE role[u] = NoRole
    <3>1. /\ role' = [role EXCEPT ![u] = invite[loc[r].inv].role] /\ sub' = sub
          /\ pc[r] = "createMember"
      BY <1>3, <2>2 DEF CreateMember
    <3>2. loc[r].inv \in Invites BY <3>1, Addressee DEF AcceptSteps
    <3>3. invite[loc[r].inv].role \in Roles BY <3>1, <3>2 DEF SentInv, AcceptSteps
    <3>4. Cardinality(Members) < sub.maxUsers BY <3>1 DEF SeatInv, SeatOK, Occupied
    <3>5. Ledger!Cardinality(Ledger!Members) < sub.maxUsers BY <1>2, <3>4, LedgerCount, Zenon
    <3>6. Ledger!Join(u) BY <2>2, <3>1, <3>3, <3>5 DEF Ledger!Join
    <3>7. QED BY <3>6 DEF Ledger!Next
  <2>3. QED BY <2>1, <2>2
<1>4. ASSUME NEW r \in Requests, WriteMember(r)
      PROVE  Ledger!Next \/ UNCHANGED <<role, sub.maxUsers>>
  <2>1. pc[r] = "writeMember" /\ loc[r] \in EditLocals /\ sub' = sub
    BY <1>1, <1>4, HeldLocals DEF WriteMember, EditSteps
  <2> PICK u \in Users : u = loc[r].user BY <2>1 DEF EditLocals
  <2>2. CASE role' = role BY <2>1, <2>2
  <2>3. CASE role' # role
    <3>1. role[u] # NoRole /\ role' = [role EXCEPT ![u] = loc[r].to] /\ loc[r].to \in Roles \cup {NoRole}
      BY <1>4, <2>1, <2>3 DEF WriteMember, EditLocals
    <3>2. u \in Members BY <3>1 DEF Members
    <3>3. Owners # {u} BY <2>1 DEF OwnerInv
    <3>4. Ledger!Edit(u) BY <1>2, <2>1, <3>1, <3>2, <3>3 DEF Ledger!Edit
    <3>5. QED BY <3>4 DEF Ledger!Next
  <2>4. QED BY <2>2, <2>3
<1>5. ASSUME UNCHANGED <<role, row>>, sub' = sub \/ ApplySubscriptionState \/ \E r \in Requests : WriteSub(r)
      PROVE  Ledger!Next \/ UNCHANGED <<role, sub.maxUsers>>
  <2>1. CASE sub' = sub BY <1>5, <2>1
  <2>2. CASE ApplySubscriptionState \/ \E r \in Requests : WriteSub(r)
    <3>1. sub'.maxUsers \in Nat BY StepType DEF TypeOK
    <3>2. Members' = Members BY <1>5 DEF Members
    <3>3. Cardinality(Members) <= sub'.maxUsers
      <4>1. CASE ApplySubscriptionState
        <5>1. shrunk' = (shrunk \/ sub'.maxUsers < Cardinality(Members)) BY <4>1 DEF ApplySubscriptionState
        <5>2. ~(sub'.maxUsers < Cardinality(Members)) BY <5>1, Zenon
        <5>3. QED BY <3>1, <5>2, OccupiedType DEF Occupied
      <4>2. CASE \E r \in Requests : WriteSub(r)
        <5>1. ~seatRace' BY <4>2 DEF WriteSub, hist
        <5>2. Occupied' <= sub'.maxUsers BY <5>1 DEF SeatInv
        <5>3. QED BY <3>2, <5>2 DEF Occupied
      <4>3. QED BY <2>2, <4>1, <4>2
    <3>4. Ledger!Cardinality(Ledger!Members) <= sub'.maxUsers BY <1>2, <3>3, LedgerCount, Zenon
    <3>5. Ledger!Resize BY <1>5, <3>1, <3>4 DEF Ledger!Resize
    <3>6. QED BY <3>5 DEF Ledger!Next
  <2>3. QED BY <1>5, <2>1, <2>2
<1>6. QED BY <1>1, <1>3, <1>4, <1>5 DEF WhoWrites

(* However many handlers are in flight: for as long as no two of them have *)
(* raced for the owner or the seats and no webhook shrinks the plan, each  *)
(* of their statements is one step of the ledger, or none.                 *)
THEOREM LedgerSteps == Spec => LedgerKept
<1>1. Init => Ledger!Init BY DEF Init, Ledger!Init
<1>2. TypeOK /\ OwnerInv /\ SeatInv /\ SeatInv' /\ SentInv /\ [Next]_vars =>
        [~editRace /\ ~seatRace /\ ~shrunk' => [Ledger!Next]_<<role, sub.maxUsers>>]_vars
  BY LedgerStep
<1>3. QED
  BY <1>1, <1>2, OwnerAlways, SeatAlways, SentAlways, TypeCorrect, PTL DEF Spec, LedgerKept

(* So a run in which nothing ever races or shrinks the plan, however many  *)
(* handlers it interleaves, implements the ledger.                         *)
THEOREM LedgerImplemented ==
  Spec /\ [](~editRace /\ ~seatRace /\ ~shrunk) => Ledger!Spec
<1>1. (~editRace /\ ~seatRace /\ ~shrunk) /\ (~editRace /\ ~seatRace /\ ~shrunk)' /\
      TypeOK /\ OwnerInv /\ SeatInv /\ SeatInv' /\ SentInv /\ [Next]_vars =>
        [Ledger!Next]_<<role, sub.maxUsers>>
  BY LedgerStep
<1>2. Init => Ledger!Init BY DEF Init, Ledger!Init
<1>3. QED
  BY <1>1, <1>2, OwnerAlways, SeatAlways, SentAlways, TypeCorrect, PTL DEF Spec, Ledger!Spec
=============================================================================
