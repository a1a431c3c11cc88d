# Formal model of the Sales Copilot backend

TLA+ modules, TLC configurations and TLAPS proofs about the NestJS backend in
this repository. Paths below are those of the repository; `PROJECT.json` maps
every definition that models code to the lines it models.

The server is one Node.js process (or several behind a load balancer) over one
PostgreSQL database. Its services are `async` functions that await one Prisma
call after another. Almost none of them opens a transaction or takes a lock, so
**a handler is a sequence of autocommitted statements, and other handlers run
between any two of them**. What a handler has read may be stale when it writes,
and a handler that dies leaves what it has written. This is what unit tests with
a mocked Prisma client do not reach, and what these models are about.

## 1. Inventory

| Component | State | Operations | Talks to | What is hard | What makes it correct |
|---|---|---|---|---|---|
| Invitations (`src/invitations`) | `Invitation`, `User`, `Membership` rows | create, revoke, acceptPublic, acceptAuthenticated, preview, list | reads `Subscription`; calls `AuthService.issueSessionForMembership` | check and write are statements apart; an accept has up to seven of them; expiry passes in between | no more members than seats; an accepted invitation let its addressee in; final states are final |
| Members (`src/members`) | `Membership` | changeRole, remove | revokes `RefreshToken` | the owner count is stale when the role is written | one OWNER remains |
| Billing (`src/billing`) | `Subscription` | changePlan, getSubscription | counts members | downgrade against accepts and webhooks | seats never set below members |
| Platform admin (`src/platform-admin`) | tenants, subscriptions, invitations | createTenant, bootstrapOwner, updateTenant, updateTenantBilling, createInvite, revokeInvite, sync/cancel/reactivate | the same rows as the tenant's own services, and Stripe | different guards on the same rows; createTenant has several inserts and no transaction | the same invariants as above |
| Stripe billing (`stripe-billing.service.ts`) | `PendingCheckout`, `Subscription` | checkout, webhooks, provisioning, sync | Stripe | webhooks repeated and out of order; two systems, no common commit | one tenant per paid checkout; entitlement follows Stripe |
| Auth (`src/auth`) | `RefreshToken`, `User`, `AuditLog` (lockout) | register, login, refresh, logout, service token | membership, tenant, subscription rows | rotation is insert then update; reuse detection races refresh; the lockout counts after a long password check | one live token per family; a revoked family stays dead; no session without access |
| Meeting sessions (`src/sessions`, `feedback.grpc.server.ts`) | `Session`, `SessionEvent` | open, chunk, close | audio pipeline (gRPC), monitor | atomic increment against read-then-write decrement; reports lost, repeated, reordered | ENDED exactly when no connection; the end is announced |
| Feedback (`src/feedback`, `src/llm-feedback`) | `FeedbackEvent`, Socket.IO rooms | createFeedback, join-room, disconnect, metrics | audio pipeline, overlay sockets | insert is not awaited; history is loaded while the feed is live | one row per analysis window; no gap between history and feed |
| Monitor (`src/monitor`) | snapshots in memory and in Redis, `MonitorAlert` | ingestSnapshot, reportSos, whisper, acknowledge, alerts, meeting-ended | manager sockets, feedback, Redis | two stores of a snapshot and a broadcast; find, insert, broadcast of an alert; broadcasts to other processes lost with Redis | a page agrees with the broadcasts; one alert of a kind per minute, but no SOS is swallowed |
| Seller rooms (`src/seller-rooms`) | `SellerRoom`, participants, invitations | create, invite, accept, join, leave, end, sweep | presence cache | idle sweep against joins; unconditional status writes | an ended room stays ended; an occupied room is not ended |
| Fingerprint sync (`src/seller-rooms`) | presence, sequence numbers and batches in Redis, a write buffer per process | join, heartbeat, publish, flush, purge | seller rooms, other processes | two sockets of one user; check-then-set of sequence numbers; writes nobody waits for; joins against broadcasts | presence while a socket is there; increasing numbers; nothing missed after a join; nothing left after the end |
| Specialists (`src/specialists`) | template rows, versions | create, clone, update, publish, rollback, archive, dryRun, registerBuiltins | catalog for the audio pipeline | the catalog serves the row, not the version; update and publish write a statement or two after they read | what is served was published and tried; versions are numbered without gaps |
| Tenancy (`src/tenancy`) | async-local tenant context | query filter per operation | every Prisma call | operations that are not filtered | no row of another tenant |
| Playbooks, Ops | templates; none | resolve, CRUD; reports | | pure or read-only | |

How they interact. All but the feed share the database and nothing else: the
membership, subscription and invitation rows are written by four services with
different guards, and read by auth on every refresh. The audio pipeline calls
the gRPC server, which calls sessions (lifecycle), feedback (analysis results)
and monitor (snapshots, meeting-ended); feedback and monitor push to sockets.

## 2. Modules

| Module | Models | Uses |
|---|---|---|
| `TenantSeats` | invitations, members, changePlan, platform billing and invitations, webhook writes, for one tenant | `TenantLedger` (refinement) |
| `TenantLedger` | abstract: join while a seat is free, edit while an owner remains, resize not below the members | |
| `RefreshTokens` | refresh, login, session after accept, logout, token revocation on removal, for one user in one tenant | |
| `Sessions` | the `Session` row of one meeting, lifecycle reports, meeting-ended | |
| `FeedbackPipeline` | createFeedback with its asynchronous insert, join-room with its history, restarts | |
| `SellerRooms` | one seller room: members, invitations, presence of sockets, the idle timer | |
| `StripeProvisioning` | checkout, webhooks, provisioning, the platform's sync and cancellation; register and createTenant, which take the same slugs and emails | |
| `MonitorFloor` | snapshots, alerts, SOS and acknowledgements of one meeting, over all processes | |
| `SpecialistVersions` | specialist rows, their versions, and the catalog | |
| `FingerprintStream` | the fingerprints of one member over all processes, a listener, the end of the room | |
| `MC*` | values of the constants for TLC | |
| `...Proofs` | the theorems about the module of that name; `SellerRoomsProofs` has those about `FingerprintStream` and, as an instance named `Room`, those about `SellerRooms` | `TLAPS` and its libraries |

Definitions named `...Lax`, `...Raw`, `...Inverted` and the like, introduced by
"Mutation of", are plausible mistakes in the definition that follows them.
No specification uses them: they serve to check that each property notices.

### TenantSeats

`pc[r]` is the next statement of the handler `r`, `loc[r]` the values it has
read (its local variables). `pc[r] = "idle"` is a free slot. Each handler is
started by an action that does its first read together with the guards on it
(`MemberLookup`, `AcceptLoad`, `InviteReadSub`, `RevokeLookup`, `ChangePlan`,
`UpdateTenantBilling`, `PlatformInvite`); each later statement is an action.
Consecutive reads of rows that no handler changes are merged (the tenant row in
consumeInvite), and so are guards on the caller's own token.

| Handler | Actions in order |
|---|---|
| changeRole, remove | `MemberLookup`, (`CountOwners` if the target is an OWNER), `WriteMember` |
| acceptPublic | `AcceptLoad`, `CreateUser`, then consumeInvite |
| acceptAuthenticated | `AcceptLoad`, then consumeInvite |
| consumeInvite | `Refetch`, `ReadSub`, `CountSeats`, `FindMembership`, (`CreateMember`), `MarkAccepted`; `ExpireInvite` when expired or full |
| create | `InviteReadSub`, `InviteFindMember`, `InviteFindPending`, `InviteCount` twice (the `Promise.all` in either order), `InsertInvite` |
| platform createInvite | `PlatformInvite`, `InsertInvite` |
| revoke / platform revokeInvite | `RevokeLookup`, `RevokeInvite` / `PlatformRevoke` |
| changePlan / updateTenantBilling | `ChangePlan` / `UpdateTenantBilling`, `CountForPlan`, `WriteSub` |
| webhook, sync | `ApplySubscriptionState` |

`Crash(r)` ends a handler between any two statements. `TimePasses` makes an
invitation late. A membership row that was deleted and created again is another
row (`row`): update and delete go by id and fail on the old one. A webhook writes any
status - ACTIVE, PAST_DUE or CANCELED - at any moment, and one of the two paid plans or,
when the price is not one of theirs, none. `Settle` is the statement by which an
invitation becomes ACCEPTED, EXPIRED or REVOKED, without a look at what it is by then.
History variables record whether two handlers of a kind have overlapped (`editRace`,
`seatRace`), whether a webhook has written fewer seats than there are members (`shrunk`),
and which invitations were settled while another request that had found them PENDING was
still to write them (`overtaken`); properties use them to say exactly when a guarantee
holds, and no action's guard reads them.

### RefreshTokens

A family is named by the token whose issue began it. The four rows that entitle
a user (user, tenant, subscription, membership) are each "on" or "off";
`Checks` gives the order in which each flow reads them, one statement each, as
in the code: login reads tenant, user, membership, subscription; refresh reads
user, tenant, subscription, membership; the session after an accept reads
membership with user, tenant, subscription. `IssueTokens` inserts the new row;
a refresh then retires the old row in a second statement (`RetireOld`). A revoked
token presented again, a missing membership, and logout with a token revoke the
family (`RevokeFamily`); logout without a token and removal of the member revoke
all tokens of the user in the tenant (`RevokeAll`). Login starts after the
password was verified; the lockout is not part of this module.

### Sessions

The pipeline (external) reports one open and one close per connection; reports
are in flight until handled, may be lost or repeated (`ResendClose`), and a close
may be handled before its open. `MarkConnectionOpen` is the one upsert of the
code; the close is `ReadCount`, `WriteCount` and, when it computed zero,
`NotifyMeetingEnded`. `LoseOpen` and `LoseClose` also stand for a handler that
fails between its statements.

### FeedbackPipeline

An analysis window stands for the key of the idempotency guard (tenant, meeting,
participant, type, severity, windowEnd). `Lookup` is the findFirst, `Emit` the
broadcast together with the start of the insert (nothing is awaited between
them), `Persist` or `PersistFails` the end of the insert. A socket enters its
room (`JoinRoom`) before the history is read (`LoadRecent`), and is answered
last (`AckJoin`). Entering and leaving a room has no await between them with the
in-memory adapter. Ids are numbered in the order of `createdAt`. `Restart` drops
all that is in memory.

### SellerRooms

One room, after `create`. The room, member and invitation rows are in PostgreSQL;
`presence` and `ttl` are one Redis hash and its time to live; `sock` is the
gateway's socket state. `Invite`, `CreateInvitation`, `InviteMember` are the three
steps of invite; `AcceptLookup` then `AcceptInvitation` (one transaction) or
`ExpireInvitation` those of acceptInvitation; `JoinRequest` (or `FindRoom`, when a
socket joins an OPEN room), `UpsertMember`, `Activate` those of join; `End`,
`ClearSeed`, `Purge` those of end. A socket's join is `HandleJoin`, `Enter`,
`SetPresence`, `SetExpiry`, and a heartbeat the last two. The timer is `FindIdle`,
`LookPresence`, `EndIdle`, `PurgeIdle`, and `ArchiveEnded`. Time is abstract: `idle`
says that the row is 60 s old (24 h since the end, for archiving), and any time may
pass between two steps. An invitation that is no longer pending leaves its place in
`Invs` to a later one, so the number of invitations is not bounded, only how many are
pending at once. The histories `since` and `arrived` are read by properties only.

### StripeProvisioning

`pending[c]` is the PendingCheckout row of a checkout with the step of the request
that makes it (`CreatePending`, `CreateSession`, `StoreSession`); `remote[c]` is the
subscription at Stripe with a version that every change raises; `mail` holds the
events Stripe has not had answered. Stripe itself is external: `Pay`,
`RemoteChanges`. An event leaves `mail` when its handler answers it, so a handler
that throws or dies gets it again, two handlers may hold the same one, and they
come in any order.

`job[h]` is a webhook or sync request. A completion is `DeliverCompleted`, then the
transaction of provisionFromCheckout: `ReadAgain`, `FindUser`, (`InsertUser`),
`PickSlug`, `InsertTenant`, `InsertSub`, which commits everything, or
`InsertSubFails`. The rows of an open transaction are seen by others only in that an
insert of the same unique key waits for it (`HeldUser`, `HeldSlug`), which is what
PostgreSQL does at READ COMMITTED. An update or deletion is one step (`ApplyEvent`:
one statement that matters, with its audit row); `PaymentFailed` and `Sync` write
with `WriteRow` what they learned a statement before. `Mapped` is
`stripe-billing.mapper`. `CheckSignup`, `RegisterUser`, `SignupTenant` and
`SignupOwner` are register and createTenant. Slugs are numbers: 1 is the wanted one,
n its n-th variant. The histories (`written`, `disorder`, `spoiled`) say when an
event was lost to a missing row or overtaken, and which signups lost the race for
their slug or were stopped.

### MonitorFloor

A call is a snapshot (`Ingest`, `StoreInRedis`, `BroadcastSnapshot`, then its alerts)
or an SOS (`ReportSos`); `call[q]` says where it is, on which process, and which alerts it
has still to raise. An alert is `LookForRecent`, `InsertAlert`, `BroadcastAlert`, with an
await between any two of them; `Fails` may come at each, so a row may stay behind that
nobody was told of. `memory[p]`, `redis` and `floor[p]` are the places where a snapshot
ends up: the process, the shared store, and the screens of the managers connected to a
process. A broadcast reaches the managers of its own process, and those of the others only
while Redis answers. `Get` is what a newly loaded page shows. `disturbed` begins anew with
every snapshot that starts alone, so a failure is not excused for ever: what is stored and
broadcast after Redis has come back must agree again. `AlertAges` passes the minute of the
deduplication. `raised` holds the alerts that were broadcast by the process of their call.

### SpecialistVersions

`row[k]` is the template row, its texts and settings one `content`; `versions[k]` its
SpecialistVersion rows. update is `ReadForUpdate`, `WriteUpdate`; publish is
`ReadForPublish`, `InsertVersion`, `SetPublished`. Every other handler writes a row that is
never deleted without regard to what it read, and is one step. `InCatalog` is the filter of
catalog. `tried` records whose row was dry-run itself; `loose` the keys whose row and
version have been told apart by an overlap, or by an edit that also set "enabled".

### FingerprintStream

One talker, several processes, Redis between them. A message is `HandlePublish`,
`CheckSeq`, `SetSeq`, `Send`; `pending[p]` and `writing[p]` are the buffer of a process
and the writes it does not wait for (`StoreBatch`). A fingerprint is its number among
the broadcasts. A listener joins by `EnterRoom`, `ReadSnapshot`, `TellJoined`, as in the
order of handleJoin, on the process `home`. `Reaches` says whom a broadcast gets to: the
sockets of its own process always, those of the others only while Redis answers, through
which the Socket.IO adapter hands it on; `lost` records what the listener missed that way.
The end of the room is three steps of a call `e`, of its creator or of the timer: `LookRoom`
reads the members (the timer: those JOINED now), `EndRoom` writes ENDED, `PurgeRoom` deletes
the keys of the members that were read and of whoever is online; other handlers run between
them, and the talker may leave, come back and publish. Redis may fail at any moment, keys
expire, commands are refused and processes restart. A broadcast that is on its way to a
socket counts as heard, because the adapter keeps the order for each socket.

## 3. Runs

Counts are distinct states.

| Run | Bounds | Shows |
|---|---|---|
| `SeatsSerial` (2.3 M) | 1 handler at a time, 3 users, an invitation each for the two others, plans of 1, 1 and 3 seats, entitlement enforced; all operations but membership edits; crashes, and webhooks at any moment | type invariant; nobody joins beyond the limit in force, also after a webhook shrank the plan, nor while the subscription is PAST_DUE, CANCELED or FREE; an invitation is sent only if it fits beside the members and those pending; settled invitations stay settled |
| `SeatsRace` (4.0 M) | 2 handlers, 2 users, 2 invitations to the same user, plans of 1, 2 and 2 seats; edits, accepts, invitations, revocations, plan changes; crashes | what survives overlap: an OWNER remains unless edits overlap; the limit holds unless seat requests do, and until then each statement is a step of `TenantLedger`; an accepted invitation always let someone in; only who had found an invitation PENDING overwrites it |
| `RefreshRace` (2.3 M) | 3 tokens, 2 handlers; the tenant is suspended and reactivated, the membership comes and goes | rotation and revocation of families; no tokens for a request that was denied throughout |
| `SessionReports` (93 k) | 3 connections, 1 of which repeats its close | the row, the count, the announcement, and that the end is reached |
| `FeedbackHistory` (0.9 M) | 3 calls on 3 windows, two of one meeting and one of another, 1 viewer that joins twice, history of 1 row | no gaps; one row and one id per window; the acknowledged room |
| `RoomMembers` (1.6 M) | 2 handlers, 3 users, 2 pending invitations, limit 2 members | an ended room stays ended but for a join that saw it OPEN; members are not demoted; the member limit |
| `RoomPresence` (0.5 M) | 2 handlers, 2 sockets of one user, Redis fails and recovers, handlers and sweeps die | the timer spares whoever it could see; an abandoned room ends |
| `Provisioning` (0.3 M) | 1 checkout, 1 signup by either route for the same or another email, 2 overlapping requests, 2 prices, 1 change at Stripe, 1 crash | one tenant per paid checkout, whatever is delivered again; the row follows Stripe when nothing was lost or overtaken; no account without a tenant; who has paid gets it |
| `Floor` (2.6 M) | 2 snapshots with alerts of one kind, one of them also an SOS, 1 reported SOS, 2 processes, Redis fails once and comes back; calls die at every await | the page and the live floor of every process agree; one alert a minute; every answered SOS was broadcast, and every other answered alert but for the one that died before its broadcast |
| `Specialists` (0.8 M) | 2 keys, 2 contents, 6 requests, 2 of them overlapping | the catalog serves the last version; numbering; nothing untried is served |
| `Fingerprints` (1.2 M) | 3 messages, 2 in flight, numbers 0 and 1, batches of 2, 2 processes, 1 listener on either of them, 1 call at a time that ends the room, Redis fails and comes back | increasing feed; nothing missed but what the other process broadcast while Redis was down; each fingerprint written once; nothing left in Redis |
| `StuckInvitee` | as `SeatsSerial`, with accepts that crash | finds the counterexample below |

Why the bounds are enough. Each hazard is a pair of overlapping handlers, or one
handler against an environment step, over one contended resource; two
handlers, plus the environment's own steps, produce every ordering of their
statements. In `SeatsRace` a seat limit of one more than the founder is already contended
by two accepts. `SeatsSerial` has a third user: the plan can be raised to 3 seats, a member
join, and a webhook shrink it to 1 with the other invitation still pending, which is
where `SeatGrowth` matters; and members and a pending invitation are counted together when
another is sent (`InvitesFit`). No handler overlaps another there, because webhooks, and
what they leave behind for the requests that come after, are what the run is about;
`SeatsRace` leaves webhooks out, whose effect on the overlap of requests is the same as that
of a plan change but without its count. `MaxRows` = 1 in both: a removed user does not come
back, so that an old row id meeting a new row of the same user (`WriteMember`) is covered by
the proofs only, which bound no number of rows. The
number of invitation rows, tokens, calls and joins bounds how often something
happens in a behaviour; three tokens are one rotation after another, or a fork. `RefreshRace`
lets two of the four entitling rows change; the other two are read the same way.
`RecentLimit` = 1 makes a row fall out of the history. Plan sizes other than the
real 3, 10 and 50 are used so that the limits are reached; the code and the proofs
use them only as numbers. One checkout delivered to two handlers, beside one signup,
meets every unique key from both sides: the same user, the same slug, the same
subscription. Two versions at Stripe are enough for one event to overtake
another. Two snapshots and two processes make each of the places hold another one, and
`MaxFlips` = 2 is one failure of Redis and its recovery, at any two moments: a snapshot
stored while it was down is found by the page once the next was stored after it.
Six requests reach, for one specialist, create, dry-run, publish, edit, publish,
roll back. Batches of 2 with 3 messages fill a buffer once, with a remainder in the same process or the
other (the real size is 5); two sequence numbers
are equal, older or newer. Permutation symmetry is used for handlers, tokens,
calls and joins in runs of invariants and step properties, never with liveness.

`CHECK_DEADLOCK FALSE` stands in the runs that really stop: those over finitely
many connections, calls and joins (`SessionReports`, `FeedbackHistory`); those over a
bounded number of calls (`Floor`, `Specialists`); and `Provisioning`, where a checkout whose slug
was taken and a finished signup leave nothing to do.

Fairness. `Sessions`, `SellerRooms` and `StripeProvisioning` state some. In `Sessions`: weak fairness of the steps of a handler
that was called (`Handle(c)`). Node.js runs a continuation once its await is
settled, so an enabled step that stays enabled is taken; a handler that fails is
an explicit step (`LoseClose`). Nothing is assumed of the pipeline: connections
need not be opened, nor closed. `EndIsReached` is conditional on no report being
lost and no overlap, which is what the code supports. In `SellerRooms`: the timer ticks (`setInterval`
for the life of the process), time passes, and Redis drops a hash that no connected
socket renews. Clients, handlers and Redis itself owe nothing.
`AbandonedRoomEnds` is conditional on the room being deserted for good, on sweeps not
failing for ever (a failed tick is caught and tried again 15 s later), and on no
handler having died between the two commands of setPresence, after which the hash
never expires. In `StripeProvisioning`: weak fairness of a running handler, for the same reason
as in `Sessions` (failures are explicit and their number is bounded), and strong
fairness of delivering a completion, because Stripe delivers an event again until it is
answered, and a handler place that is taken becomes free. The customer need not pay, and
nothing is assumed of changes at Stripe or of signups.

### Disagreements between code and comments

`StuckInvitee` checks what the code says at `invitations.service.ts:317`, "Log in first
and call /invites/accept instead", and finds it violated: the account was created, the
accept was refused or cut off, and login requires a membership.

Others have no run of their own; the models follow the code, and the properties
carry the condition under which they hold.

- "there must always be at least one OWNER per tenant" (`members.service.ts:65-66`):
  two owners who edit each other both count 2 and both write. `OwnerRemains` excepts
  overlapping edits.
- "Re-fetch atomically to close races (2 accepts in parallel ...)"
  (`invitations.service.ts:387`): both count before either inserts. `SeatLimit` excepts overlapping seat
  requests.
- "prevent duplicate rows" (`feedback.service.ts:69`): the first insert may not have
  completed when a retry looks; and the guard that is also to prevent "duplicate broadcasts"
  broadcasts the stored row again (`Emit`).
- "Idle auto-end (empty presence ≥ 60s)" (`seller-rooms-lifecycle.service.ts:22`):
  idleness is measured from the row's last update, so a moment without presence ends
  a busy room.
- The projection seed is "discarded on ENDED" (`seller-rooms.service.ts:52`) by `end`, but
  not by the idle timer. Nor does the timer purge the fingerprints of a member who
  had left when it read the members, even if it came back before ENDED was written
  (`PurgedForGood`).
- `changePlan` writes ACTIVE in both branches of a conditional whose comment says
  "Downgrades keep status" (`billing.service.ts:106`; `ChangePlan`).
- consumeInvite compares the seat count before it looks for the membership, so a
  member who accepts again when the plan is full has the invitation expired, where
  the comment says "duplicate membership => just mark the invite accepted"
  (`invitations.service.ts:435-436`; `CountSeats`, `FindMembership`).
- "Code specialists are read-only except enabled" (`specialists.service.ts:115`) holds of
  update; rollback, publish and archive change them (`Rollback`, `Archive`, `SetPublished`).

What the premises of the properties leave open, for whoever changes the code:

- An update of a subscription that arrives before its checkout was provisioned is answered
  and forgotten, and so is a deletion: the row then starts ACTIVE (`disorder`).
- payment_failed knows no price, and the write it makes also clears `stripePriceId` and
  `currentPeriodEnd` until the next event (`PaymentFailed`).
- register inserts the user before the tenant: whoever loses the race for the slug keeps an
  account without a tenant, and cannot register the email again (`spoiled`).
- A dry run of an older content lets a newer one be published (`DryRun`, `ReadForPublish`).
- An accept, expiry or revocation writes the invitation by its id alone: one that has found
  it PENDING overwrites what another has settled meanwhile (`Settle`, `overtaken`).
- A call that dies between the row of an alert and its broadcast, at the await of
  `monitor.service.ts:258`, leaves a recent row: for a minute it answers every alert of its
  kind, though no manager was told (`CutOff`). An SOS is exempt.
- Broadcasts between processes are dropped while Redis is down, and not repeated
  (`redis-io.adapter.ts`): a manager's floor stays on an older snapshot until the next one, a
  room misses fingerprints (`disturbed`, `lost`).
- The idle timer looks at 200 ACTIVE rooms in no stated order
  (`seller-rooms-lifecycle.service.ts:80`); with more than that a room might never be among
  them. `FindIdle` models one room, and takes it to be found.
- With several processes an older batch of fingerprints may replace a newer one, and fewer
  than a batch stay in the buffer until more come (`StoreBatch`, `Enqueue`).

## 4. Proofs

Every safety property that a passing run checks, invariant or step property, the
refinement of `TenantLedger` among them, is also a theorem, for every value of the constants that the
named assumptions of the model admit: any number of users, handlers, tokens, calls, sockets,
checkouts, messages and so on. No assumption says more than that a set is finite where the
code counts it, that a function has its type, that two kinds of ids differ, that a limit is
a positive number, or that a role, price or user the code names is one of them; the fairness
of a specification is not used.

Each model has its inductive invariant, a conjunction of named parts. `Init`
implies it, each action preserves it (one step per action, under it one per part that the
action can disturb), and the theorems follow. The parts say what the property itself leaves
out: **what a handler in flight still knows of what it has read.**

`TenantSeatsProofs`, from `UsersAssumption`, `InvitesAssumption`, `RolesAssumption` and
`PlansAssumption`:

- `TypeCorrect`: `[]TypeOK`. The part that is not bookkeeping is `Fits`: what a handler
  carries always suits the statement it is about to execute.
- `OwnerSafety`: `OwnerRemains`. Not inductive: between the count and the write the truth
  rests on what the handler read. `OwnerInv` adds that, without an overlap of edits, at most
  one handler is inside an edit; that a handler about to write over an OWNER's row by its id
  has seen a second owner that is still there; and that nobody else's step takes an owner
  away.
- `SeatSafety`: `SeatLimit`. `SeatInv` adds that, without an overlap of seat requests, at
  most one handler is inside one; that a handler about to insert a membership holds the
  current `maxUsers` and that the members are fewer; and that one about to write a new limit
  has counted no more members than it is going to write. A handler that already dropped out
  of the seat section no longer matters, and edits only remove members.
- `AcceptSafety`: `AcceptedHasJoined`. The membership may be gone again when the invitation
  is marked, so `JoinInv` speaks of the number of rows a user has had, which never shrinks.
- `EntitledSafety` and `InviteSafety`: `JoinEntitled` and `InvitesFit`. `EntitledInv`: an
  accept that has read the subscription still reads the truth (`SeatAlone`). `InviteInv`:
  the first of the two counts of create, whichever it was, bounds what it counted from
  above; members and pending invitations only become fewer while it counts the other.
- `GrowthSafety`: `SeatGrowth`, from who can insert a membership (`WhoJoins`).
- `StatusSafety`: `FinalStatus`, for any number of requests in any interleaving. Who has
  found an invitation PENDING finds it so until it writes, or another has settled it and it
  is overtaken (`HeldPending`).
- `LedgerSteps`: `LedgerKept`, the refinement of `TenantLedger`, step by step. Inserting a
  membership is Join, changing or removing one is Edit, writing `maxUsers` is Resize, and
  all else stutters; what the ledger's guard asks for at that one step was checked
  statements before, and `OwnerInv` and `SeatInv` carry it there. It holds of any number of
  handlers for as long as no two have raced and no webhook has shrunk the plan.
- `LedgerImplemented`: a behaviour in which that never happens, however many handlers it
  interleaves and whatever else webhooks write, satisfies `Ledger!Spec`. Both say nothing
  after a race: the code then leaves the ledger, and the disagreements above say how.

`RefreshTokensProofs` (`VolatileAssumption`): `TypeCorrect`; `AccessSafety`
(`IssuedWithAccess`), where `Denials` adds that a row that has denied access throughout was
not among those the request has passed; `DeadFamilySafety` (`DeadFamilies`), where `Burial`
adds that no refresh of a dead family is in flight that could still insert a token; and
`RotationSafety` (`OneLivePerFamily`), the hardest: the new token is live before the old one
is retired, so two live tokens are not always a fork. `Rotation` adds that a family that was
not forked has one refresh at most, that the token it holds is the family's only live one
until it issues, and that of two live tokens one is about to be retired.

`SessionsProofs` (`ConnsAssumption`): `TypeCorrect`, with `Bounded`: no stale absolute write
counts more than the opens ever handled; `EndSafety` (`EndedIffIdle`) and
`AnnouncementSafety` (`AnnouncedEnd`), which rest on `CloseKnows`: without an overlap a
close in flight carries one less than the row's count. `CountSafety` (`CountExact`) adds
`InOrder`: what has been handled of a connection, when nothing was lost, repeated or
overtaken.

`FeedbackPipelineProofs` (`FiniteAssumption`, `LimitAssumption`): `TypeCorrect`; `RowSafety`
(`OneRowPerWindow`) and `IdSafety` (`OneIdPerWindow`), from `Idempotent`: a window that was
not retried early has one row, or one insert under way, or one call about to start it;
`HistorySafety` (`NoGaps`) and `AckSafety` (`AckedRoom`), from `Served`: once a viewer's
history is loaded, what is being inserted was sent to it live, and the newest rows were, or
are in the history it is about to be sent.

`MonitorFloorProofs` (`FloorAssumption`): `TypeCorrect`; `PageSafety` (`PageMatchesFloor`),
where `Page` follows the snapshot that is on its way through Redis to the screens;
`MinuteSafety` (`OneAlertAMinute`), where `Minute` adds the one call about to insert;
`AnswerSafety` (`AnsweredIsBroadcast`), where `Hearing` adds that what a call has left is
the end of what it was to raise, and that of the rest, and of each row, there was a
broadcast, or a call that stands or died between the two.

`StripeProvisioningProofs` (`ProvisioningAssumption`): `TypeCorrect`; `TenantSafety`
(`OneTenantPerCheckout`), where `Provisioned` ties each tenant of a checkout to its
COMPLETED row and its subscription, which are committed together; `FollowSafety`
(`FollowsStripe`), where `Reads` says that what a handler or an event holds is Stripe's
state of the version it names, and `Followed` that while the newest version is not written,
the event that brings it is still to be answered; `AccountSafety` (`AccountsComplete`),
where `Accounted` adds that whoever found the slug free has lost it once it is taken. That a
free slug always exists (`PickSlug`) needs that the taken ones are finitely many
(`FirstFreeOK`).

`SellerRoomsProofs`, first about `FingerprintStream` (`StreamAssumption`): `TypeCorrect`,
which bounds the broadcasts by the messages asked for; `FeedSafety` (`FeedIncreases`), where
`Numbers` says that Redis holds the largest number or the one about to be broadcast, and one
message at most is between its check and its broadcast; `JoinSafety` (`NothingMissed`) from
`Hearing`, which starts when the snapshot is read; `BatchSafety` (`WrittenOnce`), where
`Buffered` adds that whatever waits to be written was broadcast, so that the next one is new
and larger; `PurgeSafety` (`PurgedForGood`), where `Purged` adds that nobody is left to
write, and `Ending` that a purge comes after ENDED was written. The lemmas on `Append` and `Tail` (`AppendFacts`, `TailFacts`, `IncreasingAppend`)
and on the buffer (`BufferGrows`, `BufferFlushed`, `BatchLeaves`) are stated once.

Then about `SellerRooms` (`ConstantsOK`, what the model assumes of its constants):
`RoomTypeCorrect`; `ClosedSafety` (`ClosedForGood`), from the guards of the writers of the
status alone; `DemotionSafety` (`JoinedNotDemoted`), where `Inviting` says that the user of
an invite in flight has not joined, or has since it looked; `LimitSafety` (`MemberLimit`),
where `Seating` says that the members were counted right unless somebody else was invited or
joined; `SweepSafety` (`SweepSpares`), where `Sparing` says that whoever is present when the
timer is about to write came after it looked.

`SpecialistVersionsProofs` (`SpecialistAssumption`, of which it needs only that the places
of requests are numbered from 1):

- `TypeCorrect`: `[]TypeOK`, with the types of the requests in flight, and that a request in
  flight works on a row that exists, since none is ever deleted (`Base`).
- `VersionNumbers`: `VersionsNumbered`. A publish carries a number that was the next one
  when it read; others may have taken it, so it is at most the next one now (`NextNumber`),
  and an insert that finds its number free takes exactly the next one.
- `TriedBeforeServed`: `ServedWasTried`. `Trying` adds that a custom row with lastDryRunAt
  was dry-run itself, and so was the row of a publish in flight; a row turns from custom to
  code and never back.
- `CatalogServesLast`: `ServesLastVersion`. Not inductive by far: an insert of a version
  changes what is last before its publish touches the row. `Serving` adds what a request
  whose read is not outdated knows (`Fresh`), and that a publish whose number is still free
  carries the content of the published row, and of any row about to be published by an
  undisturbed publish (`Agreeing`).

`RowWrittenInv` is the common step of every handler that writes a row without publishing it,
`RequestInv` that of every step that writes nothing.

Only model-checked: the liveness properties `EndIsReached`, `AbandonedRoomEnds` and
`PaidGetsTenant`, whose fairness (WF, SF and the ENABLED in them) is out of the prover's
reach, and `InviteeCanLogIn`, which is false. `NothingMissed`, `WrittenOnce` and the like
are stated over sets and positions, not over a concatenation of batches, because a recursive
concatenation could not be reasoned about; they say the same.

## 5. Not modelled

Access token signatures, guards and role ranks (pure functions of a request);
request validation; audit logging; metrics and listings, which only read;
the login lockout (`auth.service.ts`) and the service token; the tenancy filter of
Prisma queries; playbook resolution, template CRUD and PDF extraction; user preferences; the
limit of open rooms in `create` and the rate limit of publishes; the time stamp of a
session's last chunk; whispers (`sendWhisper`: a feedback row, sent by two ways under one id;
the overlay that shows one of the two is not in this repository); the wiring of modules. Of the
Redis adapter of Socket.IO two modules model which broadcasts it loses, `FingerprintStream`
and `MonitorFloor`; the others are about one process, where it loses none. Rate limits of the HTTP layer belong to a library.
Prisma's connection pool is assumed to run each statement atomically with
read-committed visibility; unique constraints are modelled where the handlers
rely on them (`CreateUser`, `CreateMember`).

Narrower: two different feedbacks of one window share an idempotency key that has no message
in it; `FeedbackPipeline` takes the key as given. `AbandonedRoomEnds` excepts a presence hash
that was written without its time to live.

## 6. Plan

In this order:

1. Proofs: what `AbandonedRoomEnds`, `PaidGetsTenant` and `EndIsReached` rest on that is not
   fairness (for instance that the only event of a paid checkout stays deliverable until
   its tenant exists), as invariants, checked and proved.
2. `LoginLockout`: the sliding window against parallel attempts; the bound on
   attempts per window as a function of the number in flight.
3. The room limit of `create`, with the abstract count-then-insert it shares with seats.
4. The tenancy filter, as a table of operations against a reference definition.
