---------------------- MODULE StripeProvisioningProofs ----------------------
(***************************************************************************)
(* Theorems about StripeProvisioning, for any checkouts, signups, emails   *)
(* and prices, any number of handlers, changes at Stripe and crashes.      *)
(***************************************************************************)
EXTENDS StripeProvisioning, FiniteSetTheorems, WellFoundedInduction, TLAPS

SubType == [status : Statuses \cup {"none"}, price : Prices \cup {"none"}, cancel : BOOLEAN]
RowType == [status : {"none", "ACTIVE", "CANCELED", "PAST_DUE"}, plan : {"none", "PRO", "ENTERPRISE"},
            price : Prices \cup {"none"}, cancel : BOOLEAN]
EventType == [kind : {"none", "completed", "updated", "deleted", "failed", "sync"},
              c : Checkouts \cup {"none"}, ver : Nat, sub : SubType]
Provisioning == {"again", "who", "user", "pick", "tenant", "sub"}
JobType == [at : Provisioning \cup {"idle", "write"}, ev : EventType, sub : SubType,
            newUser : BOOLEAN, slug : Nat]
PendingType == [step : {"start", "inserted", "session", "answered"},
                status : {"none", "PENDING", "COMPLETED"}, stored : BOOLEAN, slug : Nat \ {0}]
SignupType == [step : {"start", "user", "tenant", "owner", "done", "invited", "refused", "stopped"},
               route : {"register", "createTenant"}, email : Emails]

Typed ==
  /\ pending \in [Checkouts -> PendingType]
  /\ remote \in [Checkouts -> [ver : Nat, sub : SubType]]
  /\ mail \subseteq EventType
  /\ job \in [Handlers -> JobType]
  /\ users \subseteq Emails
  /\ tenants \subseteq [slug : Nat \ {0}, by : Checkouts \cup Signups] /\ IsFiniteSet(Taken)
  /\ members \subseteq Emails \X Nat
  /\ sub \in [Checkouts -> RowType]
  /\ signup \in [Signups -> SignupType]
  /\ written \in [Checkouts -> Nat] /\ disorder \in [Checkouts -> BOOLEAN]
  /\ spoiled \subseteq Signups

(* What a handler has read is Stripe's state of the version it names;      *)
(* provisioning works on a paid checkout, any other write on a row that    *)
(* exists.                                                                 *)
JobFits(j, P, R, S) ==
  LET c == j.ev.c IN
  /\ j.at \in Provisioning =>
       /\ c \in Checkouts /\ j.ev.kind = "completed" /\ P[c].stored
       /\ R[c].ver # 0 /\ (R[c].ver = 1 => j.sub = R[c].sub)
  /\ j.at \in {"tenant", "sub"} => j.slug # 0
  /\ j.at = "write" =>
       /\ c \in Checkouts /\ S[c] # NoRow /\ j.ev.ver <= R[c].ver
       /\ \/ /\ j.ev.kind = "sync" /\ (j.ev.ver = R[c].ver => j.sub = R[c].sub)
          \/ /\ j.ev.kind = "failed" /\ j.sub.status = "past_due" /\ j.sub.price = "none"
             /\ (j.ev.ver = R[c].ver => R[c].sub.status = "past_due")
MailFits(e, R) ==
  /\ e.c \in Checkouts /\ e.kind \in {"completed", "updated", "deleted", "failed"}
  /\ e.ver \in 1..R[e.c].ver /\ (e.ver = R[e.c].ver => e.sub = R[e.c].sub)
  /\ e.kind = "failed" => e.sub.status = "past_due"
Reads ==
  /\ \A h \in Handlers : JobFits(job[h], pending, remote, sub)
  /\ \A e \in mail : MailFits(e, remote)

(* A checkout is paid once its session is stored, for the plan asked for;  *)
(* it is COMPLETED when its unique subscription row exists, which comes    *)
(* with its tenant.                                                        *)
NewSub == [status |-> "active", price |-> "pro", cancel |-> FALSE]
Provisioned ==
  \A c \in Checkouts :
    /\ remote[c].ver = 1 => remote[c].sub = NewSub
    /\ pending[c].stored => pending[c].step = "answered"
    /\ pending[c].step = "start" => pending[c].status = "none"
    /\ sub[c] # NoRow <=> pending[c].status = "COMPLETED"
    /\ pending[c].status = "COMPLETED" => [slug |-> pending[c].slug, by |-> c] \in tenants
    /\ \A t \in tenants : t.by = c => pending[c].status = "COMPLETED" /\ t.slug = pending[c].slug

(* While Stripe's newest state has not been written whole, the event that  *)
(* brings it is still to be answered, or the row is known to be disordered.*)
Agrees(row, r) ==
  /\ row.status = LocalStatus(r.status) /\ row.cancel = r.cancel
  /\ PriceIdToPlan(r.price) # "none" => row.plan = PriceIdToPlan(r.price)
Due(c) == \E e \in mail : e.c = c /\ e.kind \in {"updated", "deleted"} /\ e.ver = remote[c].ver
Followed ==
  \A c \in Checkouts : ~disorder[c] =>
    \/ Due(c)
    \/ sub[c] = NoRow /\ remote[c].ver <= 1
    \/ sub[c] # NoRow /\ written[c] = remote[c].ver /\ Agrees(sub[c], remote[c].sub)

(* Once slug 1 is taken, every signup that had found it free has lost it;  *)
(* a signup that has inserted its tenant holds slug 1.                     *)
Accounted ==
  /\ AccountsComplete
  /\ 1 \in Taken => Overtaken(1) \subseteq spoiled
  /\ \A s \in Signups : signup[s].step = "owner" => [slug |-> 1, by |-> s] \in tenants
  /\ \A t \in tenants : t.by \in Signups => t.slug = 1

StripeInv == Typed /\ Reads /\ Provisioned /\ Followed /\ Accounted

-----------------------------------------------------------------------------
LEMMA LeastNat ==
  ASSUME NEW S \in SUBSET Nat, S # {}
  PROVE  \E n \in S : \A m \in S : n <= m
<1>1. IsWellFoundedOn(OpToRel(<, Nat), Nat) BY NatLessThanWellFounded
<1>2. PICK n \in S : \A m \in S : <<m, n>> \notin OpToRel(<, Nat) BY <1>1, WFMin
<1>3. \A m \in S : ~(m < n) BY <1>2 DEF OpToRel
<1>4. QED BY <1>3

(* There is always a slug to pick.                                         *)
LEMMA FirstFreeOK ==
  ASSUME IsFiniteSet(Taken)
  PROVE  FirstFree \in Nat \ {0}
<1> PICK k \in Nat : k = Cardinality(Taken) BY FS_CardinalityType
<1> DEFINE free == {n \in 1..(k + 1) : n \notin Taken}
<1>1. free # {}
  <2>1. SUFFICES ASSUME 1..(k + 1) \subseteq Taken PROVE FALSE OBVIOUS
  <2>2. Cardinality(1..(k + 1)) = k + 1 BY FS_Interval
  <2>3. Cardinality(1..(k + 1)) <= Cardinality(Taken) BY <2>1, FS_Subset
  <2>4. QED BY <2>2, <2>3
<1>2. PICK n \in free : \A m \in free : n <= m
  <2>1. free \in SUBSET Nat OBVIOUS
  <2> HIDE DEF free
  <2>2. QED BY <1>1, <2>1, LeastNat
<1>3. n \in 1..(k + 1) /\ n \notin Taken /\ \A i \in 1..(n - 1) : i \in Taken BY <1>2
<1>4. \E i \in 1..(k + 1) : i \notin Taken /\ \A j \in 1..(i - 1) : j \in Taken BY <1>3
<1>5. FirstFree \in 1..(k + 1) BY <1>4 DEF FirstFree
<1>6. QED BY <1>5

-----------------------------------------------------------------------------
LEMMA InitInv == Init => StripeInv
<1> SUFFICES ASSUME Init PROVE StripeInv OBVIOUS
<1> PICK ask \in [Signups -> Asked] :
      signup = [s \in Signups |-> [step |-> "start", route |-> ask[s].route, email |-> ask[s].email]]
  BY DEF Init
<1>1. signup \in [Signups -> SignupType] /\ \A s \in Signups : signup[s].step = "start"
  BY ProvisioningAssumption DEF SignupType
<1>2. NoSub \in SubType /\ NoEvent \in EventType BY DEF NoSub, NoEvent, SubType, EventType
<1>3. Idle \in JobType /\ Idle.at = "idle" BY <1>2 DEF Idle, JobType
<1>4. NoRow \in RowType BY DEF NoRow, RowType
<1>5. Taken = {} BY DEF Init, Taken
<1>6. pending \in [Checkouts -> PendingType] BY DEF Init, PendingType
<1>7. IsFiniteSet(Taken) BY <1>5, FS_EmptySet
<1>8. Typed BY <1>1, <1>2, <1>3, <1>4, <1>6, <1>7 DEF Init, Typed
<1>9. Reads BY <1>3 DEF Init, Reads, JobFits, Provisioning
<1>10. Provisioned BY DEF Init, Provisioned
<1>11. Followed BY DEF Init, Followed
<1>12. Accounted BY <1>1, <1>5 DEF Init, Accounted, AccountsComplete
<1>13. QED BY <1>8, <1>9, <1>10, <1>11, <1>12 DEF StripeInv

LEMMA AccountedSame ==
  ASSUME Accounted, UNCHANGED <<users, tenants, members, signup, spoiled>>
  PROVE  Accounted' /\ Taken' = Taken
BY DEF Accounted, AccountsComplete, Taken, Overtaken

-----------------------------------------------------------------------------
(* createCheckoutSession goes on.                                          *)
LEMMA CheckoutMoves ==
  ASSUME StripeInv, NEW c \in Checkouts, NEW r \in PendingType,
         pending' = [pending EXCEPT ![c] = r], r.slug = pending[c].slug,
         r.status = "COMPLETED" <=> pending[c].status = "COMPLETED",
         r.stored => r.step = "answered", r.step # "start", pending[c].stored => r.stored,
         UNCHANGED <<remote, mail, job, users, tenants, members, sub, signup, written, disorder, spoiled>>
  PROVE  StripeInv'
<1>1. pending \in [Checkouts -> PendingType] BY DEF StripeInv, Typed
<1>2. \A d \in Checkouts : pending'[d] = IF d = c THEN r ELSE pending[d] BY <1>1
<1>3. Accounted' /\ Taken' = Taken BY AccountedSame DEF StripeInv
<1>4. Typed' BY <1>1, <1>3 DEF StripeInv, Typed
<1>5. \A h \in Handlers : JobFits(job[h], pending', remote, sub)
  BY <1>2 DEF StripeInv, Reads, JobFits
<1>6. Reads' BY <1>5 DEF StripeInv, Reads
<1>7. Provisioned' BY <1>2 DEF StripeInv, Provisioned
<1>8. Followed' BY DEF StripeInv, Followed, Due
<1>9. QED BY <1>3, <1>4, <1>6, <1>7, <1>8 DEF StripeInv

LEMMA CheckoutInv ==
  ASSUME StripeInv, NEW c \in Checkouts, Checkout(c)
  PROVE  StripeInv'
<1>1. /\ pending[c] \in PendingType /\ pending \in [Checkouts -> PendingType]
      /\ pending[c].stored => pending[c].step = "answered"
      /\ pending[c].step = "start" => pending[c].status = "none"
  BY DEF StripeInv, Typed, Provisioned
<1>2. UNCHANGED <<remote, mail, job, users, tenants, members, sub, signup, written, disorder, spoiled>>
  BY DEF Checkout, CreatePending, CreateSession, StoreSession, history
<1>3. CASE CreatePending(c)
  <2>1. PICK r \in PendingType : r = [pending[c] EXCEPT !.step = "inserted", !.status = "PENDING"]
    BY <1>1 DEF PendingType
  <2>2. pending' = [pending EXCEPT ![c] = r] /\ pending[c].step = "start" BY <1>1, <1>3, <2>1 DEF CreatePending
  <2>3. /\ r.slug = pending[c].slug /\ r.status = "PENDING" /\ r.stored = pending[c].stored
        /\ r.step = "inserted"
    BY <1>1, <2>1 DEF PendingType
  <2>4. QED BY <1>1, <1>2, <2>2, <2>3, CheckoutMoves DEF PendingType
<1>4. CASE CreateSession(c)
  <2>1. PICK r \in PendingType : r = [pending[c] EXCEPT !.step = "session"] BY <1>1 DEF PendingType
  <2>2. pending' = [pending EXCEPT ![c] = r] /\ pending[c].step = "inserted" BY <1>1, <1>4, <2>1 DEF CreateSession
  <2>3. /\ r.slug = pending[c].slug /\ r.status = pending[c].status /\ r.stored = pending[c].stored
        /\ r.step = "session"
    BY <1>1, <2>1 DEF PendingType
  <2>4. QED BY <1>1, <1>2, <2>2, <2>3, CheckoutMoves DEF PendingType
<1>5. CASE StoreSession(c)
  <2>1. PICK r \in PendingType : r = [pending[c] EXCEPT !.step = "answered", !.stored = TRUE] BY <1>1 DEF PendingType
  <2>2. pending' = [pending EXCEPT ![c] = r] BY <1>1, <1>5, <2>1 DEF StoreSession
  <2>3. /\ r.slug = pending[c].slug /\ r.status = pending[c].status /\ r.stored /\ r.step = "answered"
    BY <1>1, <2>1 DEF PendingType
  <2>4. QED BY <1>1, <1>2, <2>2, <2>3, CheckoutMoves DEF PendingType
<1>6. QED BY <1>3, <1>4, <1>5 DEF Checkout

-----------------------------------------------------------------------------
(* Stripe changes a subscription and sends the events of the new version.  *)
LEMMA RemoteMoves ==
  ASSUME StripeInv, NEW c \in Checkouts, NEW new \in SubType, NEW v \in Nat, v = remote[c].ver + 1,
         NEW kinds \in SUBSET {"completed", "updated", "deleted", "failed"},
         kinds \cap {"updated", "deleted"} # {}, "failed" \in kinds => new.status = "past_due",
         v = 1 => new = NewSub,
         remote' = [remote EXCEPT ![c] = [ver |-> v, sub |-> new]],
         mail' = mail \cup {[kind |-> k, c |-> c, ver |-> v, sub |-> new] : k \in kinds},
         UNCHANGED <<pending, job, users, tenants, members, sub, signup, written, disorder, spoiled>>
  PROVE  StripeInv'
<1> DEFINE sent == {[kind |-> k, c |-> c, ver |-> v, sub |-> new] : k \in kinds}
<1>1. remote \in [Checkouts -> [ver : Nat, sub : SubType]] BY DEF StripeInv, Typed
<1>2. \A d \in Checkouts : remote'[d] = IF d = c THEN [ver |-> v, sub |-> new] ELSE remote[d] BY <1>1
<1>3. /\ remote'[c].ver = v /\ remote'[c].sub = new /\ remote[c].ver = v - 1 /\ remote[c].ver \in Nat
      /\ \A d \in Checkouts \ {c} : remote'[d] = remote[d]
  BY <1>1, <1>2
<1>4. Accounted' /\ Taken' = Taken BY AccountedSame DEF StripeInv
<1>5. \A e \in sent : /\ e \in EventType /\ e.c = c /\ e.ver = v /\ e.sub = new
                      /\ e.kind \in {"completed", "updated", "deleted", "failed"}
                      /\ e.kind = "failed" => new.status = "past_due"
  BY DEF EventType
<1>6. \E e \in sent : e.kind \in {"updated", "deleted"} /\ e.c = c /\ e.ver = v
  <2>1. PICK k \in kinds : k \in {"updated", "deleted"} OBVIOUS
  <2>2. [kind |-> k, c |-> c, ver |-> v, sub |-> new] \in sent OBVIOUS
  <2>3. QED BY <2>1, <2>2
<1>7. mail' = mail \cup sent OBVIOUS
<1> HIDE DEF sent
<1>8. Typed'
  <2>1. remote' \in [Checkouts -> [ver : Nat, sub : SubType]] BY <1>1
  <2>2. mail' \subseteq EventType BY <1>5, <1>7 DEF StripeInv, Typed
  <2>3. QED BY <1>4, <2>1, <2>2 DEF StripeInv, Typed
<1>9. Reads'
  <2>1. ASSUME NEW h \in Handlers PROVE JobFits(job[h], pending, remote', sub)
    <3>1. JobFits(job[h], pending, remote, sub) /\ job[h] \in JobType BY DEF StripeInv, Reads, Typed
    <3>2. job[h].ev.ver \in Nat BY <3>1 DEF JobType, EventType
    <3>3. CASE job[h].ev.c = c
      <4>1. PICK n \in Nat, w \in Nat : n = job[h].ev.ver /\ w = remote[c].ver BY <1>3, <3>2
      <4>2. v = w + 1 /\ v \in Nat BY <1>3, <4>1
      <4>3. job[h].at = "write" => n <= w BY <3>1, <3>3, <4>1 DEF JobFits
      <4>4. job[h].at \in Provisioning => w # 0 BY <3>1, <3>3, <4>1 DEF JobFits
      <4>5. /\ job[h].at = "write" => n <= v /\ n # v
            /\ job[h].at \in Provisioning => v # 0 /\ v # 1
        BY <4>2, <4>3, <4>4
      <4>6. QED BY <1>3, <3>1, <3>3, <4>1, <4>5 DEF JobFits
    <3>4. CASE job[h].ev.c # c BY <1>3, <3>1, <3>4 DEF JobFits
    <3>5. QED BY <3>3, <3>4
  <2>2. ASSUME NEW e \in mail PROVE MailFits(e, remote')
    <3>1. MailFits(e, remote) /\ e.ver \in Nat BY DEF StripeInv, Reads, Typed, EventType
    <3>2. CASE e.c = c
      <4>1. PICK n \in Nat, w \in Nat : n = e.ver /\ w = remote[c].ver BY <1>3, <3>1
      <4>2. n \in 1..w /\ v = w + 1 BY <1>3, <3>1, <3>2, <4>1 DEF MailFits
      <4>3. n \in 1..v /\ n # v BY <4>2
      <4>4. QED BY <1>3, <3>1, <3>2, <4>1, <4>3 DEF MailFits
    <3>3. CASE e.c # c BY <1>3, <3>1, <3>3 DEF MailFits
    <3>4. QED BY <3>2, <3>3
  <2>3. \A e \in sent : MailFits(e, remote') BY <1>3, <1>5 DEF MailFits
  <2>4. QED BY <1>7, <2>1, <2>2, <2>3 DEF Reads
<1>10. Provisioned' BY <1>3 DEF StripeInv, Provisioned
<1>11. Followed'
  <2>1. Due(c)' BY <1>3, <1>6, <1>7 DEF Due
  <2>2. \A d \in Checkouts \ {c} : Due(d) => Due(d)' BY <1>3, <1>7 DEF Due
  <2>3. QED BY <1>3, <2>1, <2>2 DEF StripeInv, Followed
<1>12. QED BY <1>4, <1>8, <1>9, <1>10, <1>11 DEF StripeInv

LEMMA ChangeInv ==
  ASSUME StripeInv, NEW c \in Checkouts, NEW new \in SubType,
         NEW kinds \in SUBSET {"completed", "updated", "deleted", "failed"},
         kinds \cap {"updated", "deleted"} # {}, "failed" \in kinds => new.status = "past_due",
         Change(c, new, kinds),
         UNCHANGED <<pending, job, users, tenants, members, sub, signup, written, disorder, spoiled>>
  PROVE  StripeInv'
<1>1. remote \in [Checkouts -> [ver : Nat, sub : SubType]] /\ MaxChanges \in Nat
  BY ProvisioningAssumption DEF StripeInv, Typed
<1> PICK v \in Nat : v = remote[c].ver + 1 BY <1>1
<1>2. v # 1 BY <1>1 DEF Change
<1>3. /\ remote' = [remote EXCEPT ![c] = [ver |-> v, sub |-> new]]
      /\ mail' = mail \cup {[kind |-> k, c |-> c, ver |-> v, sub |-> new] : k \in kinds}
  BY <1>1 DEF Change
<1>4. QED BY <1>2, <1>3, RemoteMoves

LEMMA StripeActs ==
  ASSUME StripeInv, NEW c \in Checkouts, Stripe(c)
  PROVE  StripeInv'
<1>1. UNCHANGED <<pending, job, users, tenants, members, sub, signup, written, disorder, spoiled>>
  BY DEF Stripe, Pay, RemoteChanges, CancelOrReactivate, SetCancelAtPeriodEnd, rows, history
<1>2. remote \in [Checkouts -> [ver : Nat, sub : SubType]] /\ remote[c].sub \in SubType
  BY DEF StripeInv, Typed
<1>3. CASE Pay(c)
  <2>1. NewSub \in SubType BY ProvisioningAssumption DEF NewSub, SubType, Statuses
  <2>2. /\ remote[c].ver = 0
        /\ remote' = [remote EXCEPT ![c] = [ver |-> 1, sub |-> NewSub]]
        /\ mail' = mail \cup {[kind |-> k, c |-> c, ver |-> 1, sub |-> NewSub] : k \in {"completed", "updated"}}
    BY <1>3 DEF Pay, NewSub
  <2>3. 1 = remote[c].ver + 1 BY <2>2
  <2>4. QED BY <1>1, <2>1, <2>2, <2>3, RemoteMoves
<1>4. CASE RemoteChanges(c)
  <2>1. PICK s \in Statuses, p \in Prices :
          Change(c, [remote[c].sub EXCEPT !.status = s, !.price = p],
                 CASE s = "canceled" -> {"deleted"}
                   [] s = "past_due" /\ s # remote[c].sub.status -> {"updated", "failed"}
                   [] OTHER -> {"updated"})
    BY <1>4 DEF RemoteChanges
  <2>2. PICK new \in SubType : new = [remote[c].sub EXCEPT !.status = s, !.price = p] BY <1>2 DEF SubType
  <2>3. new.status = s BY <1>2, <2>2 DEF SubType
  <2>4. CASE s = "canceled"
    <3>1. Change(c, new, {"deleted"}) BY <2>1, <2>2, <2>4
    <3>2. QED BY <1>1, <3>1, ChangeInv
  <2>5. CASE s # "canceled" /\ s = "past_due" /\ s # remote[c].sub.status
    <3>1. Change(c, new, {"updated", "failed"}) BY <2>1, <2>2, <2>5
    <3>2. QED BY <1>1, <2>3, <2>5, <3>1, ChangeInv
  <2>6. CASE s # "canceled" /\ ~(s = "past_due" /\ s # remote[c].sub.status)
    <3>1. Change(c, new, {"updated"}) BY <2>1, <2>2, <2>6
    <3>2. QED BY <1>1, <3>1, ChangeInv
  <2>7. QED BY <2>4, <2>5, <2>6
<1>5. CASE CancelOrReactivate(c)
  <2>1. PICK cancel \in BOOLEAN : Change(c, [remote[c].sub EXCEPT !.cancel = cancel], {"updated"})
    BY <1>5 DEF CancelOrReactivate, SetCancelAtPeriodEnd
  <2>2. PICK new \in SubType : new = [remote[c].sub EXCEPT !.cancel = cancel] BY <1>2 DEF SubType
  <2>3. Change(c, new, {"updated"}) BY <2>1, <2>2
  <2>4. QED BY <1>1, <2>3, ChangeInv
<1>6. QED BY <1>3, <1>4, <1>5 DEF Stripe

-----------------------------------------------------------------------------
(* A handler goes on, or is done, without writing a row; what it answers   *)
(* is neither an update nor a deletion.                                    *)
LEMMA JobMoves ==
  ASSUME StripeInv, NEW h \in Handlers, NEW j \in JobType,
         job' = [job EXCEPT ![h] = j], JobFits(j, pending, remote, sub),
         mail' \subseteq mail, \A e \in mail : e \in mail' \/ e.kind \notin {"updated", "deleted"},
         UNCHANGED <<pending, remote, users, tenants, members, sub, signup, written, disorder, spoiled>>
  PROVE  StripeInv'
<1>1. job \in [Handlers -> JobType] BY DEF StripeInv, Typed
<1>2. job' \in [Handlers -> JobType] /\ \A g \in Handlers : job'[g] = IF g = h THEN j ELSE job[g]
  BY <1>1
<1>3. Accounted' /\ Taken' = Taken BY AccountedSame DEF StripeInv
<1>4. Typed' BY <1>2, <1>3 DEF StripeInv, Typed
<1>5. \A g \in Handlers : JobFits(job'[g], pending, remote, sub) BY <1>2 DEF StripeInv, Reads
<1>6. Reads' BY <1>5 DEF StripeInv, Reads
<1>7. Provisioned' BY DEF StripeInv, Provisioned
<1>8. \A c \in Checkouts : Due(c) => Due(c)' BY DEF Due
<1>9. Followed' BY <1>8 DEF StripeInv, Followed
<1>10. QED BY <1>3, <1>4, <1>6, <1>7, <1>9 DEF StripeInv

LEMMA IdleOK == Idle \in JobType /\ Idle.at = "idle" /\ JobFits(Idle, pending, remote, sub)
<1>1. NoSub \in SubType /\ NoEvent \in EventType BY DEF NoSub, NoEvent, SubType, EventType
<1>2. Idle \in JobType /\ Idle.at = "idle" BY <1>1 DEF Idle, JobType
<1>3. QED BY <1>2 DEF JobFits, Provisioning

LEMMA ThrowInv ==
  ASSUME StripeInv, NEW h \in Handlers, Throw(h),
         UNCHANGED <<pending, remote, users, tenants, members, sub, signup, written, disorder, spoiled>>
  PROVE  StripeInv'
BY IdleOK, JobMoves DEF Throw

LEMMA AnswerInv ==
  ASSUME StripeInv, NEW h \in Handlers, Answer(h), job[h].ev.kind = "completed",
         UNCHANGED <<pending, remote, users, tenants, members, sub, signup, written, disorder, spoiled>>
  PROVE  StripeInv'
<1>1. mail' \subseteq mail /\ \A e \in mail : e \in mail' \/ e.kind \notin {"updated", "deleted"} BY DEF Answer
<1>2. QED BY <1>1, IdleOK, JobMoves DEF Answer

LEMMA GoInv ==
  ASSUME StripeInv, NEW h \in Handlers, job[h].at \in Provisioning,
         NEW at \in Provisioning \ {"tenant", "sub"}, Go(h, at), UNCHANGED mail,
         UNCHANGED <<pending, remote, users, tenants, members, sub, signup, written, disorder, spoiled>>
  PROVE  StripeInv'
<1>1. job[h] \in JobType /\ JobFits(job[h], pending, remote, sub) /\ job \in [Handlers -> JobType]
  BY DEF StripeInv, Typed, Reads
<1>2. PICK j \in JobType : j = [job[h] EXCEPT !.at = at] BY <1>1 DEF JobType
<1>3. j.at = at /\ j.ev = job[h].ev /\ j.sub = job[h].sub BY <1>1, <1>2 DEF JobType
<1>4. job' = [job EXCEPT ![h] = j] BY <1>1, <1>2 DEF Go
<1>5. JobFits(j, pending, remote, sub) BY <1>1, <1>3 DEF JobFits, Provisioning
<1>6. QED BY <1>4, <1>5, JobMoves

(* provisionFromCheckout up to its last insert.                            *)
LEMMA ProvisionMoves ==
  ASSUME StripeInv, NEW h \in Handlers,
         ReadAgain(h) \/ FindUser(h) \/ InsertUser(h) \/ PickSlug(h) \/ InsertTenant(h) \/ InsertSubFails(h)
  PROVE  StripeInv'
<1>1. UNCHANGED <<pending, remote, users, tenants, members, sub, signup, written, disorder, spoiled>>
  BY DEF ReadAgain, FindUser, InsertUser, PickSlug, InsertTenant, InsertSubFails, rows, history
<1>2. job[h] \in JobType /\ JobFits(job[h], pending, remote, sub) /\ job \in [Handlers -> JobType]
  BY DEF StripeInv, Typed, Reads
<1>3. job[h].at \in Provisioning
  BY DEF ReadAgain, FindUser, InsertUser, PickSlug, InsertTenant, InsertSubFails, Provisioning
<1>4. job[h].ev.kind = "completed" BY <1>2, <1>3 DEF JobFits
<1>5. CASE ReadAgain(h)
  <2>1. CASE Go(h, "who") /\ UNCHANGED mail BY <1>1, <1>3, <2>1, GoInv DEF Provisioning
  <2>2. CASE Answer(h) BY <1>1, <1>4, <2>2, AnswerInv
  <2>3. QED BY <1>5, <2>1, <2>2 DEF ReadAgain
<1>6. CASE FindUser(h)
  <2>1. CASE Go(h, "pick") BY <1>1, <1>3, <1>6, <2>1, GoInv DEF FindUser, Provisioning
  <2>2. CASE Go(h, "user") BY <1>1, <1>3, <1>6, <2>2, GoInv DEF FindUser, Provisioning
  <2>3. QED BY <1>6, <2>1, <2>2 DEF FindUser
<1>7. CASE InsertUser(h)
  <2>1. CASE Throw(h) BY <1>1, <2>1, ThrowInv
  <2>2. CASE ~Throw(h)
    <3>1. job' = [job EXCEPT ![h].newUser = TRUE, ![h].at = "pick"] /\ UNCHANGED mail
      BY <1>7, <2>2 DEF InsertUser
    <3>2. PICK j \in JobType : j = [job[h] EXCEPT !.newUser = TRUE, !.at = "pick"]
      BY <1>2 DEF JobType, Provisioning
    <3>3. j.at = "pick" /\ j.ev = job[h].ev /\ j.sub = job[h].sub BY <1>2, <3>2 DEF JobType
    <3>4. job' = [job EXCEPT ![h] = j] BY <1>2, <3>1, <3>2
    <3>5. JobFits(j, pending, remote, sub) BY <1>2, <1>3, <3>3 DEF JobFits, Provisioning
    <3>6. QED BY <1>1, <3>1, <3>4, <3>5, JobMoves
  <2>3. QED BY <2>1, <2>2
<1>8. CASE PickSlug(h)
  <2>1. PICK n \in Nat \ {0} : n = FirstFree BY FirstFreeOK DEF StripeInv, Typed
  <2>2. PICK j \in JobType : j = [job[h] EXCEPT !.slug = n, !.at = "tenant"]
    BY <1>2 DEF JobType, Provisioning
  <2>3. j.at = "tenant" /\ j.ev = job[h].ev /\ j.sub = job[h].sub /\ j.slug = n BY <1>2, <2>2 DEF JobType
  <2>4. job' = [job EXCEPT ![h] = j] /\ UNCHANGED mail BY <1>2, <1>8, <2>1, <2>2 DEF PickSlug
  <2>5. JobFits(j, pending, remote, sub) BY <1>2, <1>3, <2>3 DEF JobFits, Provisioning
  <2>6. QED BY <1>1, <2>4, <2>5, JobMoves
<1>9. CASE InsertTenant(h)
  <2>1. CASE Throw(h) BY <1>1, <2>1, ThrowInv
  <2>2. CASE ~Throw(h)
    <3>1. Go(h, "sub") /\ UNCHANGED mail /\ job[h].at = "tenant" BY <1>9, <2>2 DEF InsertTenant
    <3>2. PICK j \in JobType : j = [job[h] EXCEPT !.at = "sub"] BY <1>2 DEF JobType, Provisioning
    <3>3. j.at = "sub" /\ j.ev = job[h].ev /\ j.sub = job[h].sub /\ j.slug = job[h].slug
      BY <1>2, <3>2 DEF JobType
    <3>4. job' = [job EXCEPT ![h] = j] BY <1>2, <3>1, <3>2 DEF Go
    <3>5. JobFits(j, pending, remote, sub) BY <1>2, <3>1, <3>3 DEF JobFits, Provisioning
    <3>6. QED BY <1>1, <3>1, <3>4, <3>5, JobMoves
  <2>3. QED BY <2>1, <2>2
<1>10. CASE InsertSubFails(h) BY <1>1, <1>10, ThrowInv DEF InsertSubFails
<1>11. QED BY <1>5, <1>6, <1>7, <1>8, <1>9, <1>10

LEMMA WebhookMoves ==
  ASSUME StripeInv, NEW h \in Handlers, NEW e \in mail, HandleWebhookEvent(h, e)
  PROVE  StripeInv'
<1>1. UNCHANGED <<pending, remote, users, tenants, members, sub, signup, written, disorder, spoiled>>
  BY DEF HandleWebhookEvent, DeliverCompleted, PaymentFailed, rows, history
<1>2. /\ e \in EventType /\ MailFits(e, remote) /\ remote \in [Checkouts -> [ver : Nat, sub : SubType]]
      /\ sub \in [Checkouts -> RowType] /\ job \in [Handlers -> JobType]
      /\ job[h] \in JobType /\ JobFits(job[h], pending, remote, sub)
  BY DEF StripeInv, Typed, Reads
<1>3. CASE UNCHANGED job /\ mail' = mail \ {e} /\ e.kind \in {"completed", "failed"}
  <2>1. mail' \subseteq mail /\ \A f \in mail : f \in mail' \/ f.kind \notin {"updated", "deleted"} BY <1>3
  <2>2. job' = [job EXCEPT ![h] = job[h]] BY <1>2, <1>3
  <2>3. QED BY <1>1, <1>2, <2>1, <2>2, JobMoves
<1>4. CASE DeliverCompleted(h, e) /\ pending[e.c].stored /\ pending[e.c].status = "PENDING"
  <2>1. PICK st \in SubType : st = remote[e.c].sub BY <1>2 DEF MailFits
  <2>2. PICK j \in JobType : j = [Idle EXCEPT !.at = "again", !.ev = e, !.sub = st]
    BY <1>2, IdleOK DEF JobType, Provisioning
  <2>3. j.at = "again" /\ j.ev = e /\ j.sub = st BY <2>2, IdleOK DEF JobType
  <2>4. job' = [job EXCEPT ![h] = j] /\ UNCHANGED mail BY <1>4, <2>1, <2>2 DEF DeliverCompleted
  <2>5. e.kind = "completed" BY <1>4 DEF DeliverCompleted
  <2>6. remote[e.c].ver # 0
    <3>1. PICK n \in Nat, w \in Nat : n = e.ver /\ w = remote[e.c].ver BY <1>2 DEF EventType, MailFits
    <3>2. n \in 1..w BY <1>2, <3>1 DEF MailFits
    <3>3. w # 0 BY <3>2
    <3>4. QED BY <3>1, <3>3
  <2>7. JobFits(j, pending, remote, sub) BY <1>2, <1>4, <2>1, <2>3, <2>5, <2>6 DEF JobFits, Provisioning, MailFits
  <2>8. QED BY <1>1, <2>4, <2>7, JobMoves
<1>5. CASE PaymentFailed(h, e) /\ sub[e.c] # NoRow
  <2>1. PICK st \in SubType : st = [status |-> "past_due", price |-> "none", cancel |-> sub[e.c].cancel]
    BY <1>2 DEF MailFits, SubType, RowType, Statuses
  <2>2. PICK j \in JobType : j = [Idle EXCEPT !.at = "write", !.ev = e, !.sub = st]
    BY <1>2, IdleOK DEF JobType
  <2>3. j.at = "write" /\ j.ev = e /\ j.sub = st BY <2>2, IdleOK DEF JobType
  <2>4. job' = [job EXCEPT ![h] = j] /\ UNCHANGED mail BY <1>5, <2>1, <2>2 DEF PaymentFailed
  <2>5. e.kind = "failed" BY <1>5 DEF PaymentFailed
  <2>6. e.ver <= remote[e.c].ver BY <1>2 DEF MailFits
  <2>7. JobFits(j, pending, remote, sub)
    BY <1>2, <1>5, <2>1, <2>3, <2>5, <2>6 DEF JobFits, Provisioning, MailFits
  <2>8. QED BY <1>1, <2>4, <2>7, JobMoves
<1>6. QED BY <1>3, <1>4, <1>5 DEF HandleWebhookEvent, DeliverCompleted, PaymentFailed

LEMMA SyncMoves ==
  ASSUME StripeInv, NEW h \in Handlers, NEW c \in Checkouts, Sync(h, c)
  PROVE  StripeInv'
<1>1. UNCHANGED <<pending, remote, mail, users, tenants, members, sub, signup, written, disorder, spoiled>>
  BY DEF Sync, rows, history
<1>2. remote \in [Checkouts -> [ver : Nat, sub : SubType]] BY DEF StripeInv, Typed
<1>3. PICK st \in SubType, v \in Nat : st = remote[c].sub /\ v = remote[c].ver BY <1>2
<1>4. NoEvent \in EventType BY DEF NoEvent, NoSub, EventType, SubType
<1>5. PICK e \in EventType : e = [NoEvent EXCEPT !.kind = "sync", !.c = c, !.ver = v] BY <1>4 DEF EventType
<1>6. e.kind = "sync" /\ e.c = c /\ e.ver = v BY <1>4, <1>5 DEF EventType
<1>7. PICK j \in JobType : j = [Idle EXCEPT !.at = "write", !.sub = st, !.ev = e] BY IdleOK DEF JobType
<1>8. j.at = "write" /\ j.ev = e /\ j.sub = st BY <1>7, IdleOK DEF JobType
<1>9. job' = [job EXCEPT ![h] = j] /\ sub[c] # NoRow BY <1>3, <1>5, <1>7 DEF Sync
<1>10. JobFits(j, pending, remote, sub) BY <1>3, <1>6, <1>8, <1>9 DEF JobFits, Provisioning
<1>11. QED BY <1>1, <1>9, <1>10, JobMoves

-----------------------------------------------------------------------------
(* A state of Stripe is written over a row that exists.                    *)
LEMMA WriteInv ==
  ASSUME StripeInv, NEW c \in Checkouts, NEW st \in SubType, NEW v \in Nat, v <= remote[c].ver,
         NEW late \in BOOLEAN, NEW part \in BOOLEAN, sub[c] # NoRow, Write(c, st, v, late, part),
         v = remote[c].ver /\ ~part => st = remote[c].sub,
         v = remote[c].ver /\ part => st.status = remote[c].sub.status,
         part => st.price = "none" /\ (~late => st.cancel = sub[c].cancel),
         mail' \subseteq mail,
         \A e \in mail \ mail' : e.kind \in {"updated", "deleted"} => e.c = c /\ e.ver = v /\ ~part,
         job' \in [Handlers -> JobType], \A h \in Handlers : JobFits(job'[h], pending, remote, sub),
         UNCHANGED <<pending, remote, users, tenants, members, signup, spoiled>>
  PROVE  StripeInv'
<1>1. /\ remote \in [Checkouts -> [ver : Nat, sub : SubType]] /\ sub \in [Checkouts -> RowType]
      /\ written \in [Checkouts -> Nat] /\ disorder \in [Checkouts -> BOOLEAN]
  BY DEF StripeInv, Typed
<1>2. PICK row \in RowType : row = Mapped(sub[c], st)
  BY <1>1 DEF Mapped, RowType, SubType, LocalStatus, PriceIdToPlan
<1>3. /\ row.status = LocalStatus(st.status) /\ row.cancel = st.cancel
      /\ row.plan = IF PriceIdToPlan(st.price) = "none" THEN sub[c].plan ELSE PriceIdToPlan(st.price)
  BY <1>2 DEF Mapped
<1>4. row # NoRow BY <1>3 DEF LocalStatus, NoRow
<1>5. PICK w \in Nat, k \in Nat : w = written[c] /\ k = remote[c].ver BY <1>1
<1>6. PICK x \in Nat, d \in BOOLEAN :
        /\ x = (IF v > w THEN v ELSE w) /\ d = (late \/ v < w \/ (disorder[c] /\ (part \/ v < k)))
  BY <1>5
<1>7. /\ sub' = [sub EXCEPT ![c] = row] /\ written' = [written EXCEPT ![c] = x]
      /\ disorder' = [disorder EXCEPT ![c] = d]
  BY <1>1, <1>2, <1>5, <1>6 DEF Write
<1>8. /\ sub' \in [Checkouts -> RowType] /\ written' \in [Checkouts -> Nat]
      /\ disorder' \in [Checkouts -> BOOLEAN]
      /\ sub'[c] = row /\ written'[c] = x /\ (disorder'[c] <=> d)
      /\ \A b \in Checkouts \ {c} : sub'[b] = sub[b] /\ written'[b] = written[b] /\ disorder'[b] = disorder[b]
  BY <1>1, <1>7
<1>9. \A b \in Checkouts : sub'[b] # NoRow <=> sub[b] # NoRow BY <1>4, <1>8
<1>10. Accounted' /\ Taken' = Taken BY AccountedSame DEF StripeInv
<1>11. Typed' BY <1>8, <1>10 DEF StripeInv, Typed
<1>12. Reads'
  <2>1. ASSUME NEW h \in Handlers PROVE JobFits(job'[h], pending, remote, sub') BY <1>9 DEF JobFits
  <2>2. QED BY <2>1 DEF StripeInv, Reads
<1>13. Provisioned' BY <1>9 DEF StripeInv, Provisioned
<1>14. \A b \in Checkouts \ {c} : Due(b) => Due(b)' BY DEF Due
<1>15. ASSUME ~d, ~Due(c)' PROVE x = k /\ Agrees(row, remote[c].sub)
  <2>1. ~late /\ ~(v < w) /\ ~(disorder[c] /\ (part \/ v < k)) BY <1>6, <1>15
  <2>2. Due(c) => v = k /\ ~part BY <1>5, <1>15 DEF Due
  <2>3. disorder[c] \/ Due(c) \/ (w = k /\ Agrees(sub[c], remote[c].sub))
    BY <1>5 DEF StripeInv, Followed
  <2>4. v = k BY <1>5, <2>1, <2>2, <2>3
  <2>5. x = k BY <1>6, <2>1, <2>4
  <2>6. CASE ~part BY <1>3, <1>5, <2>4, <2>5, <2>6 DEF Agrees
  <2>7. CASE part
    <3>1. Agrees(sub[c], remote[c].sub) BY <2>1, <2>2, <2>3, <2>7
    <3>2. PriceIdToPlan(st.price) = "none" BY <2>7 DEF PriceIdToPlan
    <3>3. QED BY <1>3, <1>5, <2>1, <2>4, <2>5, <2>7, <3>1, <3>2 DEF Agrees
  <2>8. QED BY <2>6, <2>7
<1>16. Followed' BY <1>4, <1>5, <1>8, <1>14, <1>15 DEF StripeInv, Followed
<1>17. QED BY <1>10, <1>11, <1>12, <1>13, <1>16 DEF StripeInv

LEMMA ApplyEventInv ==
  ASSUME StripeInv, NEW e \in mail, NEW answered \in BOOLEAN, ApplyEvent(e, answered)
  PROVE  StripeInv'
<1>1. /\ UNCHANGED <<pending, remote, job, users, tenants, members, signup, spoiled>>
      /\ e.kind \in {"updated", "deleted"} /\ mail' = IF answered THEN mail \ {e} ELSE mail
  BY DEF ApplyEvent
<1>2. /\ MailFits(e, remote) /\ e \in EventType /\ disorder \in [Checkouts -> BOOLEAN]
      /\ job \in [Handlers -> JobType] /\ remote \in [Checkouts -> [ver : Nat, sub : SubType]]
      /\ \A h \in Handlers : JobFits(job[h], pending, remote, sub)
  BY DEF StripeInv, Reads, Typed
<1>3. PICK c \in Checkouts, v \in Nat, k \in Nat, st \in SubType :
        c = e.c /\ v = e.ver /\ k = remote[c].ver /\ st = e.sub
  BY <1>2 DEF MailFits, EventType
<1>4. v \in 1..k /\ (v = k => st = remote[c].sub) BY <1>2, <1>3 DEF MailFits
<1>5. \A f \in mail \ mail' : f = e BY <1>1
<1>6. CASE sub[c] = NoRow
  <2>1. PICK d \in BOOLEAN : d = (disorder[c] \/ v > 1) BY <1>2, <1>3
  <2>2. disorder' = [disorder EXCEPT ![c] = d] /\ UNCHANGED <<sub, written>>
    BY <1>2, <1>3, <1>6, <2>1 DEF ApplyEvent
  <2>3. /\ disorder' \in [Checkouts -> BOOLEAN] /\ (disorder'[c] <=> d)
        /\ \A b \in Checkouts \ {c} : disorder'[b] = disorder[b]
    BY <1>2, <2>2
  <2>4. Accounted' /\ Taken' = Taken BY <1>1, AccountedSame DEF StripeInv
  <2>5. Typed' BY <1>1, <2>2, <2>3, <2>4 DEF StripeInv, Typed
  <2>6. Reads' BY <1>1, <2>2 DEF StripeInv, Reads
  <2>7. Provisioned' BY <1>1, <2>2 DEF StripeInv, Provisioned
  <2>8. \A b \in Checkouts \ {c} : Due(b) => Due(b)' BY <1>1, <1>3, <1>5 DEF Due
  <2>9. ASSUME ~d, ~Due(c)' PROVE k <= 1
    <3>1. Due(c) => v = k BY <1>1, <1>3, <1>5, <2>9 DEF Due
    <3>2. Due(c) \/ k <= 1 BY <1>3, <1>6, <2>1, <2>9 DEF StripeInv, Followed
    <3>3. ~(v > 1) BY <2>1, <2>9, Zenon
    <3>4. QED BY <1>4, <3>1, <3>2, <3>3
  <2>10. Followed' BY <1>1, <1>3, <1>6, <2>2, <2>3, <2>8, <2>9 DEF StripeInv, Followed
  <2>11. QED BY <2>4, <2>5, <2>6, <2>7, <2>10 DEF StripeInv
<1>7. CASE sub[c] # NoRow
  <2> PICK no \in BOOLEAN : no = FALSE OBVIOUS
  <2>1. Write(c, st, v, no, no) /\ ~no BY <1>3, <1>7 DEF ApplyEvent
  <2>2. v <= remote[c].ver BY <1>3, <1>4
  <2>3. v = remote[c].ver => st = remote[c].sub BY <1>3, <1>4
  <2>4. \A f \in mail \ mail' : f.kind \in {"updated", "deleted"} => f.c = c /\ f.ver = v
    BY <1>3, <1>5
  <2>5. job' \in [Handlers -> JobType] /\ \A h \in Handlers : JobFits(job'[h], pending, remote, sub)
    BY <1>1, <1>2
  <2>6. mail' \subseteq mail BY <1>1
  <2>7. QED BY <1>1, <1>7, <2>1, <2>2, <2>3, <2>4, <2>5, <2>6, WriteInv
<1>8. QED BY <1>6, <1>7

LEMMA WriteRowInv ==
  ASSUME StripeInv, NEW h \in Handlers, WriteRow(h)
  PROVE  StripeInv'
<1>1. /\ UNCHANGED <<pending, remote, users, tenants, members, signup, spoiled>>
      /\ job[h].at = "write" /\ job' = [job EXCEPT ![h] = Idle] /\ mail' = mail \ {job[h].ev}
  BY DEF WriteRow, Answer
<1>2. /\ job[h] \in JobType /\ JobFits(job[h], pending, remote, sub) /\ job \in [Handlers -> JobType]
      /\ sub \in [Checkouts -> RowType] /\ remote \in [Checkouts -> [ver : Nat, sub : SubType]]
      /\ \A g \in Handlers : JobFits(job[g], pending, remote, sub)
  BY DEF StripeInv, Typed, Reads
<1>3. PICK e \in EventType, c \in Checkouts, v \in Nat, st \in SubType, part \in BOOLEAN, late \in BOOLEAN :
        /\ e = job[h].ev /\ c = e.c /\ v = e.ver /\ st = job[h].sub /\ part = (e.kind = "failed")
        /\ late = (e.kind = "failed" /\ st.cancel # sub[c].cancel)
  BY <1>1, <1>2 DEF JobType, EventType, JobFits
<1>4. Write(c, st, v, late, part) BY <1>3 DEF WriteRow
<1>5. /\ sub[c] # NoRow /\ v <= remote[c].ver /\ e.kind \in {"failed", "sync"}
      /\ (v = remote[c].ver /\ ~part => st = remote[c].sub)
      /\ (v = remote[c].ver /\ part => st.status = remote[c].sub.status)
      /\ (part => st.price = "none")
  BY <1>1, <1>2, <1>3 DEF JobFits
<1>6. part => (~late => st.cancel = sub[c].cancel) BY <1>3
<1>7. job' \in [Handlers -> JobType] /\ \A g \in Handlers : JobFits(job'[g], pending, remote, sub)
  BY <1>1, <1>2, IdleOK
<1>8. mail' \subseteq mail /\ \A f \in mail \ mail' : f.kind \notin {"updated", "deleted"} BY <1>1, <1>3, <1>5
<1>9. QED BY <1>1, <1>4, <1>5, <1>6, <1>7, <1>8, WriteInv

-----------------------------------------------------------------------------
LEMMA TakenMore ==
  ASSUME NEW n, NEW x, tenants' = tenants \cup {[slug |-> n, by |-> x]}
  PROVE  Taken' = Taken \cup {n}
<1>1. ASSUME NEW m PROVE m \in Taken' <=> m \in Taken \cup {n}
  <2>1. \A t : t \in tenants' <=> t \in tenants \/ t = [slug |-> n, by |-> x] OBVIOUS
  <2>2. m \in Taken' <=> \E t \in tenants' : m = t.slug BY DEF Taken
  <2>3. m \in Taken <=> \E t \in tenants : m = t.slug BY DEF Taken
  <2>4. [slug |-> n, by |-> x].slug = n OBVIOUS
  <2>5. QED BY <2>1, <2>2, <2>3, <2>4
<1>2. QED BY <1>1

LEMMA InsertSubInv ==
  ASSUME StripeInv, NEW h \in Handlers, InsertSub(h)
  PROVE  StripeInv'
<1>1. /\ job[h] \in JobType /\ JobFits(job[h], pending, remote, sub) /\ job \in [Handlers -> JobType]
      /\ remote \in [Checkouts -> [ver : Nat, sub : SubType]] /\ sub \in [Checkouts -> RowType]
      /\ pending \in [Checkouts -> PendingType] /\ written \in [Checkouts -> Nat]
      /\ \A g \in Handlers : JobFits(job[g], pending, remote, sub)
  BY DEF StripeInv, Typed, Reads
<1>2. job[h].at = "sub" BY DEF InsertSub
<1>3. PICK e \in EventType, c \in Checkouts, n \in Nat \ {0}, st \in SubType, k \in Nat :
        /\ e = job[h].ev /\ c = e.c /\ n = job[h].slug /\ st = job[h].sub /\ k = remote[c].ver
  BY <1>1, <1>2 DEF JobType, JobFits, Provisioning
<1>4. /\ e.kind = "completed" /\ pending[c].stored /\ k # 0 /\ (k = 1 => st = NewSub)
  BY <1>1, <1>2, <1>3 DEF JobFits, Provisioning, StripeInv, Provisioned
<1>5. PICK row \in RowType :
        row = [status |-> "ACTIVE", plan |-> "PRO", price |-> st.price, cancel |-> st.cancel]
  BY DEF SubType, RowType
<1>6. row.status = "ACTIVE" /\ row.plan = "PRO" /\ row.cancel = st.cancel /\ row # NoRow
  BY <1>5 DEF NoRow
<1>7. PICK r \in PendingType : r = [pending[c] EXCEPT !.status = "COMPLETED", !.slug = n]
  BY <1>1 DEF PendingType
<1>8. r.status = "COMPLETED" /\ r.slug = n /\ r.stored = pending[c].stored /\ r.step = pending[c].step
  BY <1>1, <1>7 DEF PendingType
<1>9. /\ sub[c] = NoRow /\ users' = users \cup {Email[c]}
      /\ tenants' = tenants \cup {[slug |-> n, by |-> c]}
      /\ members' = members \cup {<<Email[c], n>>}
      /\ sub' = [sub EXCEPT ![c] = row] /\ pending' = [pending EXCEPT ![c] = r]
      /\ written' = [written EXCEPT ![c] = 1] /\ spoiled' = spoiled \cup Overtaken(n)
      /\ job' = [job EXCEPT ![h] = Idle] /\ mail' = mail \ {e}
      /\ UNCHANGED <<remote, signup, disorder>>
  BY <1>1, <1>3, <1>5, <1>7 DEF InsertSub, Answer
<1>10. /\ sub'[c] = row /\ pending'[c] = r /\ written'[c] = 1
       /\ \A d \in Checkouts \ {c} : sub'[d] = sub[d] /\ pending'[d] = pending[d] /\ written'[d] = written[d]
  BY <1>1, <1>9
<1>11. Taken' = Taken \cup {n} BY <1>9, TakenMore
<1>12. Email[c] \in Emails /\ c \notin Signups BY ProvisioningAssumption
<1>13. Overtaken(n) \subseteq Signups BY DEF Overtaken
<1>14. Typed'
  <2>1. IsFiniteSet(Taken') BY <1>11, FS_AddElement DEF StripeInv, Typed
  <2>2. [slug |-> n, by |-> c] \in [slug : Nat \ {0}, by : Checkouts \cup Signups] OBVIOUS
  <2>3. job' \in [Handlers -> JobType] BY <1>1, <1>9, IdleOK
  <2>4. QED BY <1>1, <1>9, <1>12, <1>13, <2>1, <2>2, <2>3 DEF StripeInv, Typed
<1>15. Reads'
  <2>1. ASSUME NEW g \in Handlers PROVE JobFits(job'[g], pending', remote, sub')
    <3>1. CASE g = h
      <4>1. job'[g].at = "idle" BY <1>1, <1>9, <3>1, IdleOK
      <4>2. QED BY <4>1 DEF JobFits, Provisioning
    <3>2. CASE g # h
      <4>1. job'[g] = job[g] /\ JobFits(job[g], pending, remote, sub) BY <1>1, <1>9, <3>2
      <4>2. \A d \in Checkouts : /\ pending[d].stored => pending'[d].stored
                                 /\ sub[d] # NoRow => sub'[d] # NoRow
        BY <1>4, <1>6, <1>8, <1>10
      <4>3. QED BY <4>1, <4>2 DEF JobFits
    <3>3. QED BY <3>1, <3>2
  <2>2. QED BY <1>9, <2>1 DEF StripeInv, Reads
<1>16. Provisioned'
  <2>1. \A t \in tenants : t.by # c BY <1>9 DEF StripeInv, Provisioned
  <2>2. ASSUME NEW d \in Checkouts \ {c}, NEW t \in tenants', t.by = d PROVE t \in tenants
    BY <1>9, <2>2
  <2>3. ASSUME NEW d \in Checkouts \ {c}
        PROVE  /\ pending'[d].status = "COMPLETED" => [slug |-> pending'[d].slug, by |-> d] \in tenants'
               /\ \A t \in tenants' : t.by = d => pending'[d].status = "COMPLETED" /\ t.slug = pending'[d].slug
    BY <1>9, <1>10, <2>2 DEF StripeInv, Provisioned
  <2>4. /\ [slug |-> r.slug, by |-> c] \in tenants' /\ \A t \in tenants' : t.by = c => t.slug = r.slug
    BY <1>8, <1>9, <2>1
  <2>5. ASSUME NEW d \in Checkouts
        PROVE  /\ remote[d].ver = 1 => remote[d].sub = NewSub
               /\ pending'[d].stored => pending'[d].step = "answered"
               /\ pending'[d].step = "start" => pending'[d].status = "none"
               /\ sub'[d] # NoRow <=> pending'[d].status = "COMPLETED"
    <3>1. CASE d = c
      <4>1. pending[c].step = "answered" BY <1>4 DEF StripeInv, Provisioned
      <4>2. pending'[c].step = "answered" /\ pending'[c].status = "COMPLETED" /\ sub'[c] # NoRow
        BY <1>6, <1>8, <1>10, <4>1
      <4>3. remote[c].ver = 1 => remote[c].sub = NewSub BY DEF StripeInv, Provisioned
      <4>4. QED BY <3>1, <4>2, <4>3
    <3>2. CASE d # c
      <4>1. pending'[d] = pending[d] /\ sub'[d] = sub[d] BY <1>10, <3>2
      <4>2. /\ remote[d].ver = 1 => remote[d].sub = NewSub
            /\ pending[d].stored => pending[d].step = "answered"
            /\ pending[d].step = "start" => pending[d].status = "none"
            /\ sub[d] # NoRow <=> pending[d].status = "COMPLETED"
        BY DEF StripeInv, Provisioned
      <4>3. QED BY <4>1, <4>2
    <3>3. QED BY <3>1, <3>2
  <2>6. pending'[c].status = "COMPLETED" /\ pending'[c].slug = r.slug BY <1>8, <1>10
  <2>7. QED BY <1>9, <2>3, <2>4, <2>5, <2>6 DEF Provisioned
<1>17. Followed'
  <2>1. \A d \in Checkouts : Due(d) => Due(d)' BY <1>4, <1>9 DEF Due
  <2>2. k = 1 => Agrees(row, remote[c].sub)
    <3>1. k = 1 => remote[c].sub = NewSub BY <1>3 DEF StripeInv, Provisioned
    <3>2. LocalStatus("active") = "ACTIVE" /\ PriceIdToPlan("pro") = "PRO" BY DEF LocalStatus, PriceIdToPlan
    <3>3. NewSub.status = "active" /\ NewSub.price = "pro" /\ NewSub.cancel = FALSE BY DEF NewSub
    <3>4. k = 1 => row.cancel = NewSub.cancel BY <1>4, <1>6
    <3>5. Agrees(row, NewSub) <=> row.cancel = NewSub.cancel BY <1>6, <3>2, <3>3 DEF Agrees
    <3>6. QED BY <3>1, <3>4, <3>5
  <2>3. disorder[c] \/ Due(c) \/ k = 1 BY <1>3, <1>4, <1>9 DEF StripeInv, Followed
  <2>4. QED BY <1>3, <1>6, <1>9, <1>10, <2>1, <2>2, <2>3 DEF StripeInv, Followed
<1>18. Accounted'
  <2>1. 1 \in Taken' => Overtaken(1)' \subseteq spoiled'
    <3>1. Overtaken(1)' = Overtaken(1) BY <1>9 DEF Overtaken
    <3>2. QED BY <1>9, <1>11, <3>1 DEF StripeInv, Accounted
  <2>2. \A s \in Signups : signup'[s].step = "owner" => [slug |-> 1, by |-> s] \in tenants'
    BY <1>9 DEF StripeInv, Accounted
  <2>3. \A t \in tenants' : t.by \in Signups => t.slug = 1 BY <1>9, <1>12 DEF StripeInv, Accounted
  <2>4. AccountsComplete'
    <3>1. ASSUME NEW x \in users'
          PROVE  \/ \E i \in Taken' : <<x, i>> \in members'
                 \/ \E s \in Signups : signup'[s].email = x
                      /\ (signup'[s].step = "tenant" \/ s \in spoiled' \/ signup'[s].step = "owner")
      <4>1. CASE x = Email[c] BY <1>9, <1>11, <4>1
      <4>2. CASE x \in users BY <1>9, <1>11, <4>2 DEF StripeInv, Accounted, AccountsComplete
      <4>3. QED BY <1>9, <4>1, <4>2
    <3>2. ASSUME NEW t \in tenants'
          PROVE  \/ \E x \in Emails : <<x, t.slug>> \in members'
                 \/ t.by \in spoiled'
                 \/ t.by \in Signups /\ signup'[t.by].step \in {"owner", "invited"}
      <4>1. CASE t = [slug |-> n, by |-> c] BY <1>9, <1>12, <4>1
      <4>2. CASE t \in tenants BY <1>9, <4>2 DEF StripeInv, Accounted, AccountsComplete
      <4>3. QED BY <1>9, <4>1, <4>2
    <3>3. QED BY <3>1, <3>2 DEF AccountsComplete
  <2>5. QED BY <2>1, <2>2, <2>3, <2>4 DEF Accounted
<1>19. QED BY <1>14, <1>15, <1>16, <1>17, <1>18 DEF StripeInv

-----------------------------------------------------------------------------
(* register and createTenant.                                              *)
Moves(s, x) ==
  /\ signup' \in [Signups -> SignupType]
  /\ signup'[s].step = x /\ signup'[s].email = signup[s].email
  /\ \A q \in Signups \ {s} : signup'[q] = signup[q]

LEMMA StepMoves ==
  ASSUME StripeInv, NEW s \in Signups,
         NEW x \in {"start", "user", "tenant", "owner", "done", "invited", "refused", "stopped"},
         Step(s, x)
  PROVE  Moves(s, x)
<1>1. signup \in [Signups -> SignupType] BY DEF StripeInv, Typed
<1>2. PICK r \in SignupType : r = [signup[s] EXCEPT !.step = x] BY <1>1 DEF SignupType
<1>3. r.step = x /\ r.email = signup[s].email BY <1>1, <1>2 DEF SignupType
<1>4. signup' = [signup EXCEPT ![s] = r] BY <1>1, <1>2 DEF Step
<1>5. QED BY <1>1, <1>3, <1>4 DEF Moves

LEMMA SignupFrame ==
  ASSUME StripeInv, UNCHANGED <<pending, remote, mail, job, sub, written, disorder>>,
         NEW s \in Signups, tenants' = tenants \/ tenants' = tenants \cup {[slug |-> 1, by |-> s]},
         users' \subseteq Emails, members' \subseteq Emails \X Nat,
         signup' \in [Signups -> SignupType], spoiled' \subseteq Signups
  PROVE  Typed' /\ Reads' /\ Provisioned' /\ Followed'
<1>1. Taken' = Taken \/ Taken' = Taken \cup {1} BY TakenMore DEF Taken
<1>2. IsFiniteSet(Taken')
  <2>1. IsFiniteSet(Taken) BY DEF StripeInv, Typed
  <2>2. IsFiniteSet(Taken \cup {1}) BY <2>1, FS_AddElement
  <2>3. QED BY <1>1, <2>1, <2>2, Zenon
<1>3. tenants' \subseteq [slug : Nat \ {0}, by : Checkouts \cup Signups]
  <2>1. [slug |-> 1, by |-> s] \in [slug : Nat \ {0}, by : Checkouts \cup Signups] OBVIOUS
  <2>2. QED BY <2>1 DEF StripeInv, Typed
<1>4. Typed' BY <1>2, <1>3 DEF StripeInv, Typed
<1>5. Reads' BY DEF StripeInv, Reads
<1>6. \A t \in tenants' : t \in tenants \/ t.by \notin Checkouts BY ProvisioningAssumption
<1>7. Provisioned' BY <1>6 DEF StripeInv, Provisioned
<1>8. Followed' BY DEF StripeInv, Followed, Due
<1>9. QED BY <1>4, <1>5, <1>7, <1>8

(* What a step of signup s owes: the slug is lost for whoever waits for    *)
(* it, and the account and the tenant of s are complete or excused.        *)
LEMMA SignupAccounts ==
  ASSUME StripeInv, NEW s \in Signups, NEW x, Moves(s, x), NEW e \in Emails, e = signup[s].email,
         spoiled \subseteq spoiled', tenants \subseteq tenants', members \subseteq members',
         users' \subseteq users \cup {e}, \A t \in tenants' : t \in tenants \/ t = [slug |-> 1, by |-> s],
         1 \in Taken' => \A q \in Signups : signup'[q].step \in {"user", "tenant"} => q \in spoiled',
         x = "owner" => [slug |-> 1, by |-> s] \in tenants',
         \/ e \notin users' \/ s \in spoiled' \/ x \in {"tenant", "owner"}
         \/ <<e, 1>> \in members' /\ 1 \in Taken'
         \/ e \in users /\ signup[s].step \notin {"tenant", "owner"},
         \/ s \in spoiled' \/ x \in {"owner", "invited"} \/ <<e, 1>> \in members'
         \/ signup[s].step \notin {"owner", "invited"} /\ tenants' = tenants
  PROVE  Accounted'
<1>1. Taken \subseteq Taken' BY DEF Taken
<1>2. /\ signup'[s].step = x /\ signup'[s].email = e
      /\ \A q \in Signups \ {s} : signup'[q] = signup[q]
  BY DEF Moves
<1>3. 1 \in Taken' => Overtaken(1)' \subseteq spoiled' BY DEF Overtaken
<1>4. \A q \in Signups : signup'[q].step = "owner" => [slug |-> 1, by |-> q] \in tenants'
  <2>1. ASSUME NEW q \in Signups, q # s, signup'[q].step = "owner" PROVE [slug |-> 1, by |-> q] \in tenants
    BY <1>2, <2>1 DEF StripeInv, Accounted
  <2>2. QED BY <1>2, <2>1
<1>5. \A t \in tenants' : t.by \in Signups => t.slug = 1 BY DEF StripeInv, Accounted
<1>6. ASSUME NEW u \in users'
      PROVE  \/ \E i \in Taken' : <<u, i>> \in members'
             \/ \E q \in Signups : signup'[q].email = u
                  /\ (signup'[q].step = "tenant" \/ q \in spoiled' \/ signup'[q].step = "owner")
  <2>1. CASE u = e /\ (s \in spoiled' \/ x \in {"tenant", "owner"}) BY <1>2, <2>1
  <2>2. CASE u = e /\ <<e, 1>> \in members' /\ 1 \in Taken' BY <2>2
  <2>3. CASE u \in users /\ (u = e => signup[s].step \notin {"tenant", "owner"})
    <3>1. CASE \E i \in Taken : <<u, i>> \in members BY <1>1, <3>1
    <3>2. CASE \E q \in Signups : signup[q].email = u
                 /\ (signup[q].step = "tenant" \/ q \in spoiled \/ signup[q].step = "owner")
      <4>1. PICK q \in Signups : signup[q].email = u
                 /\ (signup[q].step = "tenant" \/ q \in spoiled \/ signup[q].step = "owner")
        BY <3>2
      <4>2. CASE q = s BY <1>2, <2>3, <4>1, <4>2
      <4>3. CASE q # s BY <1>2, <4>1, <4>3
      <4>4. QED BY <4>2, <4>3
    <3>3. QED BY <2>3, <3>1, <3>2 DEF StripeInv, Accounted, AccountsComplete
  <2>4. QED BY <2>1, <2>2, <2>3
<1>7. ASSUME NEW t \in tenants'
      PROVE  \/ \E u \in Emails : <<u, t.slug>> \in members'
             \/ t.by \in spoiled'
             \/ t.by \in Signups /\ signup'[t.by].step \in {"owner", "invited"}
  <2>1. CASE t.by = s
    <3>1. t.slug = 1 BY <1>5, <2>1
    <3>2. CASE s \in spoiled' \/ x \in {"owner", "invited"} BY <1>2, <2>1, <3>2
    <3>3. CASE <<e, 1>> \in members' BY <3>1, <3>3
    <3>4. CASE signup[s].step \notin {"owner", "invited"} /\ t \in tenants
      <4>1. (\E u \in Emails : <<u, t.slug>> \in members) \/ t.by \in spoiled
        BY <2>1, <3>4 DEF StripeInv, Accounted, AccountsComplete
      <4>2. QED BY <4>1
    <3>5. QED BY <3>2, <3>3, <3>4
  <2>2. CASE t.by # s
    <3>1. t \in tenants BY <2>2
    <3>2. \/ \E u \in Emails : <<u, t.slug>> \in members
          \/ t.by \in spoiled
          \/ t.by \in Signups /\ signup[t.by].step \in {"owner", "invited"}
      BY <3>1 DEF StripeInv, Accounted, AccountsComplete
    <3>3. QED BY <1>2, <2>2, <3>2
  <2>3. QED BY <2>1, <2>2
<1>8. AccountsComplete' BY <1>6, <1>7 DEF AccountsComplete
<1>9. QED BY <1>3, <1>4, <1>5, <1>8 DEF Accounted

LEMMA SignupInv ==
  ASSUME StripeInv, NEW s \in Signups, Signup(s) \/ CrashSignup(s)
  PROVE  StripeInv'
<1>1. UNCHANGED <<pending, remote, mail, job, sub, written, disorder>>
  BY DEF Signup, CheckSignup, RegisterUser, SignupTenant, SignupOwner, CrashSignup, rows, history
<1>2. /\ signup[s] \in SignupType /\ users \subseteq Emails /\ members \subseteq Emails \X Nat
      /\ spoiled \subseteq Signups
  BY DEF StripeInv, Typed
<1>3. PICK e \in Emails : e = signup[s].email BY <1>2 DEF SignupType
<1>4. 1 \in Taken => \A q \in Signups : signup[q].step \in {"user", "tenant"} => q \in spoiled
  BY DEF StripeInv, Accounted, Overtaken
<1>5. \A t \in tenants : t.by \in Signups => t.slug = 1 BY DEF StripeInv, Accounted
<1>6. ASSUME CheckSignup(s) PROVE StripeInv'
  <2>1. PICK x \in {"refused", "user", "tenant"} : Step(s, x) /\ (x # "refused" => 1 \notin Taken)
    BY <1>6 DEF CheckSignup
  <2>2. Moves(s, x) BY <2>1, StepMoves
  <2>3. signup[s].step = "start" /\ UNCHANGED <<users, tenants, members, spoiled>> BY <1>6 DEF CheckSignup, rows, history
  <2>4. Taken' = Taken BY <2>3 DEF Taken
  <2>5. 1 \in Taken' => \A q \in Signups : signup'[q].step \in {"user", "tenant"} => q \in spoiled'
    BY <1>4, <2>1, <2>2, <2>3, <2>4 DEF Moves
  <2>6. Accounted' BY <1>3, <2>1, <2>2, <2>3, <2>5, SignupAccounts
  <2>7. QED BY <1>1, <1>2, <2>2, <2>3, <2>6, SignupFrame DEF Moves, StripeInv
<1>7. ASSUME RegisterUser(s) PROVE StripeInv'
  <2>1. PICK x \in {"refused", "tenant"} : Step(s, x) /\ (x = "refused" <=> e \in users)
    BY <1>3, <1>7 DEF RegisterUser
  <2>2. Moves(s, x) BY <2>1, StepMoves
  <2>3. /\ signup[s].step = "user" /\ users' = users \cup {e}
        /\ UNCHANGED <<tenants, members, spoiled>>
    BY <1>3, <1>7 DEF RegisterUser, history
  <2>4. Taken' = Taken BY <2>3 DEF Taken
  <2>5. 1 \in Taken' => \A q \in Signups : signup'[q].step \in {"user", "tenant"} => q \in spoiled'
    BY <1>4, <2>2, <2>3, <2>4 DEF Moves
  <2>6. Accounted' BY <1>3, <2>1, <2>2, <2>3, <2>5, SignupAccounts
  <2>7. QED BY <1>1, <1>2, <2>2, <2>3, <2>6, SignupFrame DEF Moves, StripeInv
<1>8. ASSUME SignupTenant(s), 1 \in Taken PROVE StripeInv'
  <2>1. Step(s, "refused") /\ UNCHANGED <<users, tenants, members, spoiled>> /\ signup[s].step = "tenant"
    BY <1>8 DEF SignupTenant
  <2>2. Moves(s, "refused") BY <2>1, StepMoves
  <2>3. Taken' = Taken BY <2>1 DEF Taken
  <2>4. s \in spoiled' BY <1>4, <1>8, <2>1
  <2>5. 1 \in Taken' => \A q \in Signups : signup'[q].step \in {"user", "tenant"} => q \in spoiled'
    BY <1>4, <2>1, <2>2, <2>3 DEF Moves
  <2>6. Accounted'
    <3>1. /\ spoiled \subseteq spoiled' /\ tenants \subseteq tenants' /\ members \subseteq members'
          /\ users' \subseteq users \cup {e} /\ \A t \in tenants' : t \in tenants
      BY <2>1
    <3>2. PICK x \in {"refused"} : Moves(s, x) BY <2>2
    <3>3. x # "owner" BY <3>2
    <3>4. QED BY <1>3, <2>4, <2>5, <3>1, <3>2, <3>3, SignupAccounts
  <2>7. QED BY <1>1, <1>2, <2>1, <2>2, <2>6, SignupFrame DEF Moves, StripeInv
<1>9. ASSUME SignupTenant(s), 1 \notin Taken PROVE StripeInv'
  <2>1. /\ Step(s, "owner") /\ UNCHANGED <<users, members>> /\ signup[s].step = "tenant"
        /\ tenants' = tenants \cup {[slug |-> 1, by |-> s]} /\ spoiled' = spoiled \cup (Overtaken(1) \ {s})
    BY <1>9 DEF SignupTenant
  <2>2. Moves(s, "owner") BY <2>1, StepMoves
  <2>3. \A q \in Signups : signup'[q].step \in {"user", "tenant"} => q \in spoiled'
    <3>1. ASSUME NEW q \in Signups, q # s, signup'[q].step \in {"user", "tenant"} PROVE q \in spoiled'
      <4>1. signup[q].step \in {"user", "tenant"} BY <2>2, <3>1 DEF Moves
      <4>2. QED BY <2>1, <3>1, <4>1 DEF Overtaken
    <3>2. QED BY <2>2, <3>1 DEF Moves
  <2>4. Accounted'
    <3>1. /\ spoiled \subseteq spoiled' /\ tenants \subseteq tenants' /\ members \subseteq members'
          /\ users' \subseteq users \cup {e} /\ [slug |-> 1, by |-> s] \in tenants'
          /\ \A t \in tenants' : t \in tenants \/ t = [slug |-> 1, by |-> s]
      BY <2>1
    <3>2. PICK x \in {"owner"} : Moves(s, x) BY <2>2
    <3>3. QED BY <1>3, <2>3, <3>1, <3>2, SignupAccounts
  <2>5. spoiled' \subseteq Signups BY <1>2, <2>1 DEF Overtaken
  <2>6. QED BY <1>1, <1>2, <2>1, <2>2, <2>4, <2>5, SignupFrame DEF Moves, StripeInv
<1>10. ASSUME SignupOwner(s) PROVE StripeInv'
  <2>1. signup[s].step = "owner" /\ UNCHANGED <<users, tenants, spoiled>> BY <1>10 DEF SignupOwner, history
  <2>2. [slug |-> 1, by |-> s] \in tenants BY <2>1 DEF StripeInv, Accounted
  <2>3. Taken' = Taken /\ 1 \in Taken BY <2>1, <2>2 DEF Taken
  <2>4. PICK x \in {"done", "invited"} :
          /\ Step(s, x) /\ (x = "done" <=> e \in users)
          /\ members' = IF x = "done" THEN members \cup {<<e, 1>>} ELSE members
    BY <1>3, <1>10 DEF SignupOwner
  <2>5. Moves(s, x) BY <2>4, StepMoves
  <2>6. 1 \in Taken' => \A q \in Signups : signup'[q].step \in {"user", "tenant"} => q \in spoiled'
    BY <1>4, <2>1, <2>3, <2>4, <2>5 DEF Moves
  <2>7. Accounted' BY <1>3, <2>1, <2>3, <2>4, <2>5, <2>6, SignupAccounts
  <2>8. QED BY <1>1, <1>2, <2>1, <2>4, <2>5, <2>7, SignupFrame DEF Moves, StripeInv
<1>11. ASSUME CrashSignup(s) PROVE StripeInv'
  <2>1. Step(s, "stopped") /\ UNCHANGED <<users, tenants, members>> /\ spoiled' = spoiled \cup {s}
    BY <1>11 DEF CrashSignup, rows
  <2>2. Moves(s, "stopped") BY <2>1, StepMoves
  <2>3. Taken' = Taken BY <2>1 DEF Taken
  <2>4. 1 \in Taken' => \A q \in Signups : signup'[q].step \in {"user", "tenant"} => q \in spoiled'
    BY <1>4, <2>1, <2>2, <2>3 DEF Moves
  <2>5. Accounted'
    <3>1. /\ spoiled \subseteq spoiled' /\ tenants \subseteq tenants' /\ members \subseteq members'
          /\ users' \subseteq users \cup {e} /\ s \in spoiled' /\ \A t \in tenants' : t \in tenants
      BY <2>1
    <3>2. PICK x \in {"stopped"} : Moves(s, x) BY <2>2
    <3>3. x # "owner" BY <3>2
    <3>4. QED BY <1>3, <2>4, <3>1, <3>2, <3>3, SignupAccounts
  <2>6. QED BY <1>1, <1>2, <2>1, <2>2, <2>5, SignupFrame DEF Moves, StripeInv
<1>12. QED BY <1>6, <1>7, <1>8, <1>9, <1>10, <1>11 DEF Signup

-----------------------------------------------------------------------------
LEMMA CrashHandlerInv ==
  ASSUME StripeInv, NEW h \in Handlers, CrashHandler(h)
  PROVE  StripeInv'
BY ThrowInv DEF CrashHandler, rows

LEMMA NextInv == StripeInv /\ [Next]_vars => StripeInv'
<1> SUFFICES ASSUME StripeInv, [Next]_vars PROVE StripeInv' OBVIOUS
<1>1. CASE UNCHANGED vars
  <2>1. Accounted' /\ Taken' = Taken BY <1>1, AccountedSame DEF StripeInv, vars
  <2>2. Typed' BY <1>1, <2>1 DEF vars, StripeInv, Typed
  <2>3. Reads' BY <1>1 DEF vars, StripeInv, Reads
  <2>4. Provisioned' /\ Followed' BY <1>1 DEF vars, StripeInv, Provisioned, Followed, Due
  <2>5. QED BY <2>1, <2>2, <2>3, <2>4 DEF StripeInv
<1>2. CASE Next
  BY <1>2, CheckoutInv, StripeActs, ApplyEventInv, WebhookMoves, SyncMoves, ProvisionMoves, InsertSubInv,
     WriteRowInv, CrashHandlerInv, SignupInv
  DEF Next, Provision
<1>3. QED BY <1>1, <1>2

LEMMA Inductive == Spec => []StripeInv
<1>1. Init /\ [][Next]_vars => []StripeInv BY InitInv, NextInv, PTL
<1>2. QED BY <1>1, PTL DEF Spec

-----------------------------------------------------------------------------
(* Every variable keeps its type, the slug a handler has picked and the    *)
(* checkout it works on included.                                          *)
THEOREM TypeCorrect == Spec => []TypeOK
<1>1. StripeInv => TypeOK
  <2> SUFFICES ASSUME StripeInv PROVE TypeOK OBVIOUS
  <2>1. ASSUME NEW h \in Handlers, job[h].at # "idle" PROVE job[h].ev.c \in Checkouts
    <3>1. job[h] \in JobType /\ JobFits(job[h], pending, remote, sub) BY DEF StripeInv, Typed, Reads
    <3>2. QED BY <2>1, <3>1 DEF JobType, JobFits
  <2>2. \A t \in tenants : t.slug \in Nat /\ t.by \in Checkouts \cup Signups BY DEF StripeInv, Typed
  <2>3. QED BY <2>1, <2>2 DEF StripeInv, Typed, TypeOK, PendingType
<1>2. QED BY <1>1, Inductive, PTL

(* provisionFromCheckout makes one tenant of a paid checkout, however      *)
(* often, in parallel or after whatever failure Stripe delivers it; the    *)
(* unique Stripe id of the subscription row decides.                       *)
THEOREM TenantSafety == Spec => []OneTenantPerCheckout
<1>1. StripeInv => OneTenantPerCheckout
  <2> SUFFICES ASSUME StripeInv, NEW c \in Checkouts
               PROVE  {t.slug : t \in {u \in tenants : u.by = c}} =
                        IF pending[c].status = "COMPLETED" THEN {pending[c].slug} ELSE {}
    BY DEF OneTenantPerCheckout
  <2>1. /\ pending[c].status = "COMPLETED" => [slug |-> pending[c].slug, by |-> c] \in tenants
        /\ \A t \in tenants : t.by = c => pending[c].status = "COMPLETED" /\ t.slug = pending[c].slug
    BY DEF StripeInv, Provisioned
  <2>2. QED BY <2>1
<1>2. QED BY <1>1, Inductive, PTL

(* applySubscriptionState, in whatever order Stripe's events and the       *)
(* platform's sync write over the row, leaves Stripe's newest state in it, *)
(* unless an event came before the row or a write was overtaken.           *)
THEOREM FollowSafety == Spec => []FollowsStripe
<1>1. StripeInv => FollowsStripe
  <2> SUFFICES ASSUME StripeInv, NEW c \in Checkouts, Quiet(c), sub[c] # NoRow, ~disorder[c]
               PROVE  Agrees(sub[c], remote[c].sub)
    BY DEF FollowsStripe, Agrees
  <2>1. ~Due(c) BY DEF Quiet, Due
  <2>2. QED BY <2>1 DEF StripeInv, Followed
<1>2. QED BY <1>1, Inductive, PTL

(* Whatever register, createTenant and provisionFromCheckout do to each    *)
(* other's slugs and emails, every account has a tenant and every tenant   *)
(* an owner or an invited one, but for signups that stopped half-way or    *)
(* lost the slug.                                                          *)
THEOREM AccountSafety == Spec => []AccountsComplete
BY Inductive, PTL DEF StripeInv, Accounted

=============================================================================
