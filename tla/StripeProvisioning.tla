------------------------ MODULE StripeProvisioning ------------------------
(***************************************************************************)
(* How a tenant comes into being and how its subscription follows Stripe.  *)
(*                                                                         *)
(* A customer asks for a checkout (StripeBillingService.                   *)
(* createCheckoutSession), pays at Stripe, and the webhook creates user,   *)
(* tenant, owner and subscription in one transaction                       *)
(* (provisionFromCheckout).  Later webhooks and the platform's sync write  *)
(* Stripe's state over the local subscription row (applySubscriptionState).*)
(* Beside them AuthService.register and PlatformAdminService.createTenant  *)
(* take slugs and emails statement by statement, without a transaction.    *)
(*                                                                         *)
(* Stripe delivers an event until it is answered: an event leaves "mail"   *)
(* only when its handler completes, and two handlers may work on the same  *)
(* event.  Events of a subscription arrive in any order.  A transaction is *)
(* READ COMMITTED: its rows are private until it commits, and an insert of *)
(* a unique key that another open transaction has inserted waits for it.   *)
(***************************************************************************)
EXTENDS Naturals, FiniteSets

CONSTANTS
  Checkouts,     (* the checkouts customers ask for; all ask for slug 1     *)
  Signups,       (* the calls of register and createTenant ...              *)
  Asked,         (* ... and the routes and emails they may be for           *)
  Overlap,       (* bound: webhook and sync requests handled at once        *)
  Emails, Email, (* Email[c]: who asked for checkout c                      *)
  Prices,        (* Stripe's prices: "pro", "ent", or one of neither plan   *)
  MaxChanges,    (* bound: changes of a subscription at Stripe              *)
  MaxCrashes     (* bound: handlers and signups stopped half-way            *)

ASSUME ProvisioningAssumption ==
  /\ Email \in [Checkouts -> Emails] /\ "pro" \in Prices
  /\ Asked \subseteq [route : {"register", "createTenant"}, email : Emails]
  /\ Checkouts \cap (Signups \cup {"none"}) = {}
  /\ IsFiniteSet(Signups) /\ Overlap \in Nat /\ MaxChanges \in Nat /\ MaxCrashes \in Nat

VARIABLES
  pending,   (* the PendingCheckout rows: step of the request that made it, *)
             (* status, whether the session id is stored, the tenantSlug    *)
  remote,    (* remote[c]: the subscription at Stripe and its version       *)
  mail,      (* events Stripe has not had answered                          *)
  job,       (* job[h]: the request handler h works on                      *)
  users, tenants, members,  (* User, Tenant and OWNER Membership rows       *)
  sub,       (* sub[c]: the local Subscription row of c's tenant            *)
  signup,    (* signup[s]: step, route and email of a signup                *)
  written,   (* history: newest version written to sub[c]                   *)
  disorder,  (* history: events about c were dropped or overtaken           *)
  spoiled,   (* history: signups stopped half-way or overtaken on the slug  *)
  crashes

vars == <<pending, remote, mail, job, users, tenants, members, sub, signup,
          written, disorder, spoiled, crashes>>
rows == <<users, tenants, members, pending, sub>>
history == <<written, disorder, spoiled, crashes>>

Handlers == 1..Overlap

NoSub    == [status |-> "none", price |-> "none", cancel |-> FALSE]
NoRow    == [status |-> "none", plan |-> "none", price |-> "none", cancel |-> FALSE]
NoEvent  == [kind |-> "none", c |-> "none", ver |-> 0, sub |-> NoSub]
Idle     == [at |-> "idle", ev |-> NoEvent, sub |-> NoSub, newUser |-> FALSE, slug |-> 0]

Statuses == {"active", "past_due", "canceled"}

(* stripe-billing.mapper: a price of neither plan leaves the plan alone.   *)
LocalStatus(s) ==
  CASE s \in {"active", "trialing"} -> "ACTIVE"
    [] s \in {"canceled", "incomplete_expired"} -> "CANCELED"
    [] OTHER -> "PAST_DUE"
PriceIdToPlan(p) == CASE p = "pro" -> "PRO" [] p = "ent" -> "ENTERPRISE" [] OTHER -> "none"
Mapped(row, s) ==
  [status |-> LocalStatus(s.status),
   plan   |-> IF PriceIdToPlan(s.price) = "none" THEN row.plan ELSE PriceIdToPlan(s.price),
   price  |-> s.price,
   cancel |-> s.cancel]

(* A request is handled in the first free place.                           *)
Free(h) == job[h] = Idle /\ \A g \in 1..(h - 1) : job[g] # Idle

(* Rows other transactions have inserted and not committed.                *)
HeldUser(e) == \E h \in Handlers : job[h].newUser /\ Email[job[h].ev.c] = e
HeldSlug(n) == \E h \in Handlers : job[h].at = "sub" /\ job[h].slug = n

Taken == {t.slug : t \in tenants}
FirstFree == CHOOSE n \in 1..(Cardinality(Taken) + 1) :
               n \notin Taken /\ \A k \in 1..(n - 1) : k \in Taken

Init ==
  /\ pending = [c \in Checkouts |-> [step |-> "start", status |-> "none", stored |-> FALSE, slug |-> 1]]
  /\ remote = [c \in Checkouts |-> [ver |-> 0, sub |-> NoSub]]
  /\ mail = {} /\ users = {} /\ tenants = {} /\ members = {}
  /\ job = [h \in Handlers |-> Idle]
  /\ sub = [c \in Checkouts |-> NoRow]
  /\ \E ask \in [Signups -> Asked] :
       signup = [s \in Signups |-> [step |-> "start", route |-> ask[s].route, email |-> ask[s].email]]
  /\ written = [c \in Checkouts |-> 0]
  /\ disorder = [c \in Checkouts |-> FALSE]
  /\ spoiled = {} /\ crashes = 0

-----------------------------------------------------------------------------
(* createCheckoutSession: the slug is free, the row is inserted ...        *)
CreatePending(c) ==
  /\ pending[c].step = "start" /\ 1 \notin Taken
  /\ pending' = [pending EXCEPT ![c].step = "inserted", ![c].status = "PENDING"]
  /\ UNCHANGED <<remote, mail, job, users, tenants, members, sub, signup, history>>

(* ... Stripe opens a session for it ...                                   *)
CreateSession(c) ==
  /\ pending[c].step = "inserted"
  /\ pending' = [pending EXCEPT ![c].step = "session"]
  /\ UNCHANGED <<remote, mail, job, users, tenants, members, sub, signup, history>>

(* Mutation of StoreSession: the URL is answered without storing the id.   *)
StoreNothing(c) ==
  /\ pending[c].step = "session"
  /\ pending' = [pending EXCEPT ![c].step = "answered"]
  /\ UNCHANGED <<remote, mail, job, users, tenants, members, sub, signup, history>>

(* ... and its id is stored before the caller gets the URL.                *)
StoreSession(c) ==
  /\ pending[c].step = "session"
  /\ pending' = [pending EXCEPT ![c].step = "answered", ![c].stored = TRUE]
  /\ UNCHANGED <<remote, mail, job, users, tenants, members, sub, signup, history>>

-----------------------------------------------------------------------------
(* Stripe.  Only a customer who got the URL can pay.                       *)
Pay(c) ==
  LET new == [status |-> "active", price |-> "pro", cancel |-> FALSE] IN
  /\ pending[c].step = "answered" /\ remote[c].ver = 0
  /\ remote' = [remote EXCEPT ![c] = [ver |-> 1, sub |-> new]]
  /\ mail' = mail \cup {[kind |-> k, c |-> c, ver |-> 1, sub |-> new] : k \in {"completed", "updated"}}
  /\ UNCHANGED <<job, rows, signup, history>>

Change(c, new, kinds) ==
  /\ remote[c].ver \in 1..MaxChanges /\ remote[c].sub.status # "canceled"
  /\ new # remote[c].sub
  /\ remote' = [remote EXCEPT ![c] = [ver |-> @.ver + 1, sub |-> new]]
  /\ mail' = mail \cup {[kind |-> k, c |-> c, ver |-> remote[c].ver + 1, sub |-> new] : k \in kinds}

(* A renewal fails, a payment recovers, the price changes, it is deleted.  *)
RemoteChanges(c) ==
  /\ \E s \in Statuses, p \in Prices :
       LET old == remote[c].sub IN
       /\ (s = old.status \/ p = old.price)
       /\ Change(c, [old EXCEPT !.status = s, !.price = p],
                 CASE s = "canceled" -> {"deleted"}
                   [] s = "past_due" /\ s # old.status -> {"updated", "failed"}
                   [] OTHER -> {"updated"})
  /\ UNCHANGED <<job, rows, signup, history>>

(* setCancelAtPeriodEnd changes Stripe only; its webhook changes the row.  *)
SetCancelAtPeriodEnd(c, cancel) ==
  /\ sub[c] # NoRow
  /\ Change(c, [remote[c].sub EXCEPT !.cancel = cancel], {"updated"})
  /\ UNCHANGED <<job, rows, signup, history>>

-----------------------------------------------------------------------------
Go(h, at) == job' = [job EXCEPT ![h].at = at]

(* The handler completes and the event is answered; or it throws, and      *)
(* Stripe will deliver the event again.                                    *)
Answer(h) == /\ job' = [job EXCEPT ![h] = Idle]
             /\ mail' = mail \ {job[h].ev}
Throw(h)  == job' = [job EXCEPT ![h] = Idle] /\ UNCHANGED mail

(* The completion of a checkout.  An unknown or completed checkout is      *)
(* answered; of any other the subscription is retrieved from Stripe.       *)
DeliverCompleted(h, e) ==
  /\ Free(h) /\ e.kind = "completed"
  /\ IF pending[e.c].stored /\ pending[e.c].status = "PENDING"
     THEN /\ job' = [job EXCEPT ![h] = [Idle EXCEPT !.at = "again", !.ev = e, !.sub = remote[e.c].sub]]
          /\ UNCHANGED mail
     ELSE mail' = mail \ {e} /\ UNCHANGED job
  /\ UNCHANGED <<remote, rows, signup, history>>

(* The transaction: the checkout is still pending; its customer is looked  *)
(* up and, if new, inserted; a free slug is looked for and inserted with   *)
(* the owner.                                                              *)
ReadAgain(h) ==
  /\ job[h].at = "again"
  /\ IF pending[job[h].ev.c].status = "PENDING" THEN Go(h, "who") /\ UNCHANGED mail ELSE Answer(h)
  /\ UNCHANGED <<remote, rows, signup, history>>

FindUser(h) ==
  /\ job[h].at = "who"
  /\ Go(h, IF Email[job[h].ev.c] \in users THEN "pick" ELSE "user")
  /\ UNCHANGED <<remote, mail, rows, signup, history>>

InsertUser(h) ==
  LET e == Email[job[h].ev.c] IN
  /\ job[h].at = "user" /\ ~HeldUser(e)
  /\ IF e \in users THEN Throw(h)
     ELSE job' = [job EXCEPT ![h].newUser = TRUE, ![h].at = "pick"] /\ UNCHANGED mail
  /\ UNCHANGED <<remote, rows, signup, history>>

PickSlug(h) ==
  /\ job[h].at = "pick"
  /\ job' = [job EXCEPT ![h].slug = FirstFree, ![h].at = "tenant"]
  /\ UNCHANGED <<remote, mail, rows, signup, history>>

InsertTenant(h) ==
  /\ job[h].at = "tenant" /\ ~HeldSlug(job[h].slug)
  /\ IF job[h].slug \in Taken THEN Throw(h) ELSE Go(h, "sub") /\ UNCHANGED mail
  /\ UNCHANGED <<remote, rows, signup, history>>

(* Signups that have checked slug 1 and not yet inserted their tenant.     *)
Overtaken(n) == IF n = 1 THEN {s \in Signups : signup[s].step \in {"user", "tenant"}} ELSE {}

(* Mutation of InsertSub: the row does not carry Stripe's unique id.       *)
InsertSubUnlinked(h) ==
  LET c == job[h].ev.c  n == job[h].slug IN
  /\ job[h].at = "sub"
  /\ users' = users \cup {Email[c]}
  /\ tenants' = tenants \cup {[slug |-> n, by |-> c]}
  /\ members' = members \cup {<<Email[c], n>>}
  /\ sub' = [sub EXCEPT ![c] = [status |-> "ACTIVE", plan |-> "PRO",
                                price |-> job[h].sub.price, cancel |-> job[h].sub.cancel]]
  /\ pending' = [pending EXCEPT ![c].status = "COMPLETED", ![c].slug = n]
  /\ written' = [written EXCEPT ![c] = 1]
  /\ spoiled' = spoiled \cup Overtaken(n)
  /\ Answer(h)
  /\ UNCHANGED <<remote, signup, disorder, crashes>>

(* The subscription is inserted under Stripe's unique id, and all of it    *)
(* committed.  The new plan is the one asked for, and ACTIVE, whatever     *)
(* Stripe has answered; only the cancellation flag and price are Stripe's. *)
InsertSub(h) ==
  LET c == job[h].ev.c  n == job[h].slug IN
  /\ job[h].at = "sub"
  /\ sub[c] = NoRow
  /\ users' = users \cup {Email[c]}
  /\ tenants' = tenants \cup {[slug |-> n, by |-> c]}
  /\ members' = members \cup {<<Email[c], n>>}
  /\ sub' = [sub EXCEPT ![c] = [status |-> "ACTIVE", plan |-> "PRO",
                                price |-> job[h].sub.price, cancel |-> job[h].sub.cancel]]
  /\ pending' = [pending EXCEPT ![c].status = "COMPLETED", ![c].slug = n]
  /\ written' = [written EXCEPT ![c] = 1]
  /\ spoiled' = spoiled \cup Overtaken(n)
  /\ Answer(h)
  /\ UNCHANGED <<remote, signup, disorder, crashes>>

InsertSubFails(h) ==
  /\ job[h].at = "sub" /\ sub[job[h].ev.c] # NoRow
  /\ Throw(h)
  /\ UNCHANGED <<remote, rows, signup, history>>

-----------------------------------------------------------------------------
(* Writing state st of version v over the row of c.  The write disorders   *)
(* the row if it is late or the row carries a newer state already; Stripe's *)
(* newest state restores it, unless it is only a part of that state.       *)
Write(c, st, v, late, part) ==
  /\ sub' = [sub EXCEPT ![c] = Mapped(@, st)]
  /\ written' = [written EXCEPT ![c] = IF v > @ THEN v ELSE @]
  /\ disorder' = [disorder EXCEPT ![c] = late \/ v < written[c] \/ (@ /\ (part \/ v < remote[c].ver))]

(* Mutation of ApplyEvent: a deletion is applied like an update of the     *)
(* state before it.                                                        *)
ApplyButDeletion(e, answered) ==
  LET st == IF e.kind = "deleted" THEN [e.sub EXCEPT !.status = "active"] ELSE e.sub IN
  /\ e.kind \in {"updated", "deleted"} /\ (answered \/ crashes < MaxCrashes)
  /\ IF sub[e.c] = NoRow
     THEN disorder' = [disorder EXCEPT ![e.c] = @ \/ e.ver > 1] /\ UNCHANGED <<sub, written>>
     ELSE Write(e.c, st, e.ver, FALSE, FALSE)
  /\ mail' = IF answered THEN mail \ {e} ELSE mail
  /\ crashes' = IF answered THEN crashes ELSE crashes + 1
  /\ UNCHANGED <<remote, job, users, tenants, members, pending, signup, spoiled>>

(* applyAndAudit of an update or deletion: an unknown subscription is      *)
(* answered and forgotten; otherwise the row is written over as the event  *)
(* comes.  The handler may stop before the audit row, its last statement:  *)
(* then the event comes again.                                             *)
ApplyEvent(e, answered) ==
  /\ e.kind \in {"updated", "deleted"} /\ (answered \/ crashes < MaxCrashes)
  /\ IF sub[e.c] = NoRow
     THEN disorder' = [disorder EXCEPT ![e.c] = @ \/ e.ver > 1] /\ UNCHANGED <<sub, written>>
     ELSE Write(e.c, e.sub, e.ver, FALSE, FALSE)
  /\ mail' = IF answered THEN mail \ {e} ELSE mail
  /\ crashes' = IF answered THEN crashes ELSE crashes + 1
  /\ UNCHANGED <<remote, job, users, tenants, members, pending, signup, spoiled>>

(* invoice.payment_failed reads the row for its cancellation flag, and     *)
(* knows no price; the platform's sync retrieves Stripe's state.  Both     *)
(* write a statement later.                                                *)
PaymentFailed(h, e) ==
  /\ Free(h) /\ e.kind = "failed"
  /\ IF sub[e.c] = NoRow THEN mail' = mail \ {e} /\ UNCHANGED job
     ELSE /\ job' = [job EXCEPT ![h] = [Idle EXCEPT !.at = "write", !.ev = e,
                       !.sub = [status |-> "past_due", price |-> "none", cancel |-> sub[e.c].cancel]]]
          /\ UNCHANGED mail
  /\ UNCHANGED <<remote, rows, signup, history>>

Sync(h, c) ==
  /\ Free(h) /\ sub[c] # NoRow
  /\ job' = [job EXCEPT ![h] = [Idle EXCEPT !.at = "write", !.sub = remote[c].sub,
               !.ev = [NoEvent EXCEPT !.kind = "sync", !.c = c, !.ver = remote[c].ver]]]
  /\ UNCHANGED <<remote, mail, rows, signup, history>>

WriteRow(h) ==
  LET e == job[h].ev IN
  /\ job[h].at = "write"
  /\ Write(e.c, job[h].sub, e.ver, e.kind = "failed" /\ job[h].sub.cancel # sub[e.c].cancel, e.kind = "failed")
  /\ Answer(h)
  /\ UNCHANGED <<remote, users, tenants, members, pending, signup, spoiled, crashes>>

-----------------------------------------------------------------------------
Step(s, step) == signup' = [signup EXCEPT ![s].step = step]

(* Mutation of CheckSignup: the slug is not looked up.                     *)
CheckEmailOnly(s) ==
  /\ signup[s].step = "start"
  /\ Step(s, IF signup[s].route = "register" /\ signup[s].email \in users THEN "refused"
             ELSE IF signup[s].route = "register" THEN "user" ELSE "tenant")
  /\ UNCHANGED <<remote, mail, job, rows, history>>

(* AuthService.register and PlatformAdminService.createTenant: the look at *)
(* the unique keys, then one insert after the other.                       *)
CheckSignup(s) ==
  /\ signup[s].step = "start"
  /\ Step(s, IF 1 \in Taken \/ (signup[s].route = "register" /\ signup[s].email \in users) THEN "refused"
             ELSE IF signup[s].route = "register" THEN "user" ELSE "tenant")
  /\ UNCHANGED <<remote, mail, job, rows, history>>

RegisterUser(s) ==
  LET e == signup[s].email IN
  /\ signup[s].step = "user" /\ ~HeldUser(e)
  /\ users' = users \cup {e}
  /\ Step(s, IF e \in users THEN "refused" ELSE "tenant")
  /\ UNCHANGED <<remote, mail, job, tenants, members, pending, sub, history>>

SignupTenant(s) ==
  /\ signup[s].step = "tenant" /\ ~HeldSlug(1)
  /\ IF 1 \in Taken THEN Step(s, "refused") /\ UNCHANGED <<tenants, spoiled>>
     ELSE /\ tenants' = tenants \cup {[slug |-> 1, by |-> s]}
          /\ spoiled' = spoiled \cup (Overtaken(1) \ {s})
          /\ Step(s, "owner")
  /\ UNCHANGED <<remote, mail, job, users, members, pending, sub, written, disorder, crashes>>

(* register inserts the membership of its user, createTenant that of a     *)
(* user it finds or else an invitation.                                    *)
SignupOwner(s) ==
  /\ signup[s].step = "owner"
  /\ members' = IF signup[s].email \in users THEN members \cup {<<signup[s].email, 1>>} ELSE members
  /\ Step(s, IF signup[s].email \in users THEN "done" ELSE "invited")
  /\ UNCHANGED <<remote, mail, job, users, tenants, pending, sub, history>>

(* A process stops, or a statement is refused: a handler's transaction is  *)
(* rolled back, a checkout or signup stays where it is for good.           *)
CrashHandler(h) ==
  /\ crashes < MaxCrashes /\ job[h] # Idle
  /\ crashes' = crashes + 1
  /\ Throw(h)
  /\ UNCHANGED <<remote, rows, signup, written, disorder, spoiled>>

CrashSignup(s) ==
  /\ crashes < MaxCrashes /\ signup[s].step \in {"user", "tenant", "owner"}
  /\ crashes' = crashes + 1
  /\ Step(s, "stopped")
  /\ spoiled' = spoiled \cup {s}
  /\ UNCHANGED <<remote, mail, job, rows, written, disorder>>

Checkout(c) == CreatePending(c) \/ CreateSession(c) \/ StoreSession(c)
CancelOrReactivate(c) == \E cancel \in BOOLEAN : SetCancelAtPeriodEnd(c, cancel)
Stripe(c) == Pay(c) \/ RemoteChanges(c) \/ CancelOrReactivate(c)
HandleWebhookEvent(h, e) == DeliverCompleted(h, e) \/ PaymentFailed(h, e)
Provision(h) == \/ ReadAgain(h) \/ FindUser(h) \/ InsertUser(h) \/ PickSlug(h)
                \/ InsertTenant(h) \/ InsertSub(h) \/ InsertSubFails(h)
Signup(s) == CheckSignup(s) \/ RegisterUser(s) \/ SignupTenant(s) \/ SignupOwner(s)

Next ==
  \/ \E c \in Checkouts : Checkout(c) \/ Stripe(c)
  \/ \E e \in mail, answered \in BOOLEAN : ApplyEvent(e, answered)
  \/ \E h \in Handlers :
       \/ \E e \in mail : HandleWebhookEvent(h, e)
       \/ \E c \in Checkouts : Sync(h, c)
       \/ Provision(h) \/ WriteRow(h) \/ CrashHandler(h)
  \/ \E s \in Signups : Signup(s) \/ CrashSignup(s)

Completion(c) == \E h \in Handlers, e \in mail : e.c = c /\ DeliverCompleted(h, e)

(* Handlers run on unless they crash, and Stripe delivers the completion   *)
(* of a checkout until it is answered.                                     *)
Spec == /\ Init /\ [][Next]_vars
        /\ \A h \in Handlers : WF_vars(Provision(h)) /\ WF_vars(WriteRow(h))
        /\ \A c \in Checkouts : SF_vars(Completion(c))

-----------------------------------------------------------------------------
TypeOK ==
  /\ pending \in [Checkouts -> [step : {"start", "inserted", "session", "answered"},
                                status : {"none", "PENDING", "COMPLETED"},
                                stored : BOOLEAN, slug : Nat \ {0}]]
  /\ users \subseteq Emails /\ spoiled \subseteq Signups
  /\ \A t \in tenants : t.slug \in Nat /\ t.by \in Checkouts \cup Signups
  /\ \A h \in Handlers : job[h].at # "idle" => job[h].ev.c \in Checkouts

(* A paid checkout makes one tenant, however often, in parallel or after   *)
(* whatever failure its completion is delivered; the checkout is COMPLETED *)
(* exactly when that tenant exists, and then names the slug the tenant     *)
(* really got (checkoutSuccess shows it).                                  *)
OneTenantPerCheckout ==
  \A c \in Checkouts :
    {t.slug : t \in {u \in tenants : u.by = c}} =
      IF pending[c].status = "COMPLETED" THEN {pending[c].slug} ELSE {}

(* When no event or sync about it is under way, the local subscription has *)
(* Stripe's status, plan and cancellation flag, unless an event came       *)
(* before the row existed or a write was overtaken by a newer one.         *)
Quiet(c) == (\A e \in mail : e.c # c) /\ (\A h \in Handlers : job[h].ev.c # c)
FollowsStripe ==
  \A c \in Checkouts :
    Quiet(c) /\ sub[c] # NoRow /\ ~disorder[c] =>
      LET r == remote[c].sub IN
      /\ sub[c].status = LocalStatus(r.status)
      /\ sub[c].cancel = r.cancel
      /\ PriceIdToPlan(r.price) # "none" => sub[c].plan = PriceIdToPlan(r.price)

(* Nobody is left with an account and no tenant, and no tenant without an  *)
(* owner or an invited one, except by a signup that is under way, stopped  *)
(* half-way, or lost the slug after it had found it free.                  *)
AccountsComplete ==
  LET excused(e) == \E s \in Signups : signup[s].email = e
                      /\ (signup[s].step = "tenant" \/ s \in spoiled \/ signup[s].step = "owner") IN
  /\ \A e \in users : (\E n \in Taken : <<e, n>> \in members) \/ excused(e)
  /\ \A t \in tenants : \/ \E e \in Emails : <<e, t.slug>> \in members
                        \/ t.by \in spoiled
                        \/ t.by \in Signups /\ signup[t.by].step \in {"owner", "invited"}

(* Who has paid gets the tenant.                                           *)
PaidGetsTenant == \A c \in Checkouts : remote[c].ver > 0 ~> pending[c].status = "COMPLETED"
=============================================================================
