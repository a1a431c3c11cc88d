---------------------------- MODULE SellerRooms ----------------------------
(***************************************************************************)
(* One seller room: its members and invitations (SellerRoomsService), the  *)
(* presence of their sockets in Redis (FingerprintSyncGateway,             *)
(* FingerprintCacheService) and the timer that ends and archives idle      *)
(* rooms (SellerRoomsLifecycleService).                                    *)
(*                                                                         *)
(* Room and presence live in two stores that nothing keeps together.       *)
(* pc[r] is the next statement or Redis command of handler r, loc[r] what  *)
(* it has read; sweep is the timer's pass over this room.  Passes do not   *)
(* overlap: one takes less than the 15 seconds between ticks.  The room    *)
(* row's metadata and the fingerprints in Redis are left out.              *)
(***************************************************************************)
EXTENDS Naturals, FiniteSets

CONSTANTS
  Users,
  Creator,
  Invs,             (* room for invitations (see CreateInvitation)          *)
  InviteeOf,        (* the user each of them is for                         *)
  Sockets,
  OwnerOf,          (* the user of each socket                              *)
  Requests,         (* the handlers that can be in flight at once           *)
  Ops,              (* the operations that clients call                     *)
  RedisFails,       (* Redis becomes unreachable and reachable again        *)
  MaxMembers        (* MAX_MEMBERS_PER_ROOM                                 *)

(* The creator is one of finitely many users; an invitation and a socket   *)
(* belong to a user each.                                                  *)
ConstantsOK ==
  /\ IsFiniteSet(Users) /\ Creator \in Users
  /\ InviteeOf \in [Invs -> Users] /\ OwnerOf \in [Sockets -> Users]
  /\ RedisFails \in BOOLEAN /\ MaxMembers \in Nat \ {0}

ASSUME RoomAssumption == ConstantsOK

VARIABLES
  room,        (* SellerRoom.status                                         *)
  idle,        (* updatedAt is IDLE_TIMEOUT_MS old or, in an ENDED room,    *)
               (* endedAt ARCHIVE_AFTER_MS                                  *)
  member,      (* member[u]: status of u's SellerRoomMember row, or "NONE"  *)
  pending,     (* the invitations that are PENDING                          *)
  late,        (* those of them whose expiresAt has passed                  *)
  sock,        (* sock[s]: "off", "on", or "in" the room                    *)
  presence,    (* the users in the presence hash                            *)
  ttl,         (* the hash has a time to live                               *)
  redis,       (* Redis is reachable                                        *)
  pc, loc,     (* the requests in flight                                    *)
  sweep,       (* the lifecycle timer: step, and whether the room was idle  *)
  since,       (* history: the users invited or joined since r's invite     *)
               (* looked the room up                                        *)
  arrived      (* history: the users that the sweep could not have seen     *)

rows    == <<room, idle, member, pending, late>>
cache   == <<presence, ttl, redis>>
history == <<since, arrived>>
vars == <<room, idle, member, pending, late, sock, presence, ttl, redis, pc, loc, sweep,
          since, arrived>>

Open   == {"OPEN", "ACTIVE"}
Closed == {"ENDED", "ARCHIVED"}
Seated == {u \in Users : member[u] \in {"INVITED", "JOINED"}}
Accessible(u) == u = Creator \/ member[u] # "NONE"

InviteSteps == {"createInv", "inviteMember"}
Steps == {"idle", "accept", "expireInv", "findRoom", "upsert", "activate", "clearSeed",
          "purge", "enter", "setPresence", "setExpiry", "removePresence"} \cup InviteSteps

Nothing == "none"
Blank == [user |-> Creator, via |-> Nothing, seen |-> "NONE"]

TypeOK ==
  /\ room \in Open \cup Closed /\ idle \in BOOLEAN
  /\ member \in [Users -> {"NONE", "INVITED", "JOINED", "LEFT"}]
  /\ pending \subseteq Invs /\ late \subseteq pending
  /\ sock \in [Sockets -> {"off", "on", "in"}]
  /\ presence \subseteq Users /\ redis \in BOOLEAN
  /\ ttl \in BOOLEAN /\ (ttl => presence # {})
  /\ pc \in [Requests -> Steps]
  /\ loc \in [Requests -> [user : Users, via : Sockets \cup Invs \cup {Nothing},
                           seen : Open \cup Closed \cup {"NONE"}]]
  /\ sweep \in [step : {"rest", "look", "end", "purge"}, idle : BOOLEAN]
  /\ since \in [Requests -> SUBSET Users] /\ arrived \subseteq Users

(* SellerRoomsService.create: the creator has joined.                      *)
Init ==
  /\ room = "OPEN" /\ idle = FALSE
  /\ member = [u \in Users |-> IF u = Creator THEN "JOINED" ELSE "NONE"]
  /\ pending = {} /\ late = {}
  /\ sock = [s \in Sockets |-> "off"]
  /\ presence = {} /\ ttl = FALSE /\ redis = TRUE
  /\ pc = [r \in Requests |-> "idle"]
  /\ loc = [r \in Requests |-> Blank]
  /\ sweep = [step |-> "rest", idle |-> FALSE]
  /\ since = [r \in Requests |-> {}] /\ arrived = {}

Go(r, step, locals) == /\ pc' = [pc EXCEPT ![r] = step]
                       /\ loc' = [loc EXCEPT ![r] = locals]
Done(r) == Go(r, "idle", Blank)
Starts(r, op) == pc[r] = "idle" /\ op \in Ops

(* The room row is written, which also sets its updatedAt.                 *)
SetRoom(status) == room' = status /\ idle' = FALSE

(* Invitation i becomes ACCEPTED or EXPIRED, whatever it was.              *)
Answered(i) == pending' = pending \ {i} /\ late' = late \ {i}

(* u's member row is upserted, whatever it was.                            *)
SetMember(u, status) ==
  /\ member' = [member EXCEPT ![u] = status]
  /\ since' = [q \in Requests |-> IF pc'[q] \in InviteSteps THEN since[q] \cup {u} ELSE {}]

-----------------------------------------------------------------------------
(* SellerRoomsService.invite: the room with its members is read, then an   *)
(* invitation is inserted, then the member row written.                    *)

(* Mutations of Invite: the limit is off by one; members may be invited.   *)
InviteOneMore(r) ==
  /\ Starts(r, "invite")
  /\ room \in Open
  /\ Cardinality(Seated) <= MaxMembers
  /\ \E u \in Users : member[u] # "JOINED" /\ Go(r, "createInv", [Blank EXCEPT !.user = u])
  /\ UNCHANGED <<rows, cache, sock, sweep, history>>

InviteAnyone(r) ==
  /\ Starts(r, "invite")
  /\ room \in Open
  /\ Cardinality(Seated) < MaxMembers
  /\ \E u \in Users : Go(r, "createInv", [Blank EXCEPT !.user = u])
  /\ UNCHANGED <<rows, cache, sock, sweep, history>>

Invite(r) ==
  /\ Starts(r, "invite")
  /\ room \in Open
  /\ Cardinality(Seated) < MaxMembers
  /\ \E u \in Users : member[u] # "JOINED" /\ Go(r, "createInv", [Blank EXCEPT !.user = u])
  /\ UNCHANGED <<rows, cache, sock, sweep, history>>

(* An invitation that is no longer pending is never pending again, and no  *)
(* handler that comes later asks for it: its place is free for another.    *)
CreateInvitation(r) ==
  /\ pc[r] = "createInv"
  /\ \E i \in Invs \ pending : /\ InviteeOf[i] = loc[r].user
                               /\ \A q \in Requests : loc[q].via # i
                               /\ pending' = pending \cup {i}
  /\ Go(r, "inviteMember", loc[r])
  /\ UNCHANGED <<room, idle, member, late, cache, sock, sweep, history>>

InviteMember(r) ==
  /\ pc[r] = "inviteMember"
  /\ Done(r)
  /\ SetMember(loc[r].user, "INVITED")
  /\ UNCHANGED <<room, idle, pending, late, cache, sock, sweep, arrived>>

-----------------------------------------------------------------------------
(* SellerRoomsService.acceptInvitation: the lookup, then one transaction.  *)

AcceptLookup(r) ==
  /\ Starts(r, "accept")
  /\ \E i \in pending :
       /\ i \in late \/ room \in Open
       /\ Go(r, IF i \in late THEN "expireInv" ELSE "accept",
             [Blank EXCEPT !.user = InviteeOf[i], !.via = i])
  /\ UNCHANGED <<rows, cache, sock, sweep, history>>

ExpireInvitation(r) ==
  /\ pc[r] = "expireInv"
  /\ Answered(loc[r].via)
  /\ Done(r)
  /\ UNCHANGED <<room, idle, member, cache, sock, sweep, history>>

(* Mutation of AcceptInvitation: the room is made ACTIVE unconditionally.  *)
AcceptActivates(r) ==
  /\ pc[r] = "accept"
  /\ Answered(loc[r].via)
  /\ Done(r)
  /\ SetMember(loc[r].user, "JOINED")
  /\ SetRoom("ACTIVE")
  /\ UNCHANGED <<cache, sock, sweep, arrived>>

AcceptInvitation(r) ==
  /\ pc[r] = "accept"
  /\ Answered(loc[r].via)
  /\ Done(r)
  /\ SetMember(loc[r].user, "JOINED")
  /\ IF room = "OPEN" THEN SetRoom("ACTIVE") ELSE UNCHANGED <<room, idle>>
  /\ UNCHANGED <<cache, sock, sweep, arrived>>

-----------------------------------------------------------------------------
(* SellerRoomsService.join: anyone with a member row, even LEFT.           *)

JoinRequest(r) ==
  /\ Starts(r, "join")
  /\ \E u \in Users : /\ Accessible(u) /\ room \in Open
                      /\ Go(r, "upsert", [Blank EXCEPT !.user = u, !.seen = room])
  /\ UNCHANGED <<rows, cache, sock, sweep, history>>

(* The same lookup, when a socket joins a room that is still OPEN.         *)
FindRoom(r) ==
  /\ pc[r] = "findRoom"
  /\ IF Accessible(loc[r].user) /\ room \in Open
     THEN Go(r, "upsert", [loc[r] EXCEPT !.seen = room]) ELSE Done(r)
  /\ UNCHANGED <<rows, cache, sock, sweep, history>>

UpsertMember(r) ==
  /\ pc[r] = "upsert"
  /\ IF loc[r].seen = "OPEN" THEN Go(r, "activate", loc[r]) ELSE Done(r)
  /\ SetMember(loc[r].user, "JOINED")
  /\ UNCHANGED <<room, idle, pending, late, cache, sock, sweep, arrived>>

(* The room is written by id, whatever its status is by now.               *)
Activate(r) ==
  /\ pc[r] = "activate"
  /\ SetRoom("ACTIVE")
  /\ Done(r)
  /\ UNCHANGED <<member, pending, late, cache, sock, sweep, history>>

(* leave touches neither the socket nor the presence of the user.          *)
Leave ==
  /\ "leave" \in Ops
  /\ \E u \in Users : member[u] # "NONE" /\ member' = [member EXCEPT ![u] = "LEFT"]
  /\ UNCHANGED <<room, idle, pending, late, cache, sock, pc, loc, sweep, history>>

(* end, by the creator and whatever the status: the row is updated twice,  *)
(* then comes purgeRoom.                                                   *)
End(r) ==
  /\ Starts(r, "end")
  /\ SetRoom("ENDED")
  /\ Go(r, "clearSeed", Blank)
  /\ UNCHANGED <<member, pending, late, cache, sock, sweep, history>>

ClearSeed(r) ==
  /\ pc[r] = "clearSeed"
  /\ idle' = (idle /\ room \in Closed)
  /\ Go(r, "purge", Blank)
  /\ UNCHANGED <<room, member, pending, late, cache, sock, sweep, history>>

PurgeRoom == /\ presence' = IF redis THEN {} ELSE presence
             /\ ttl' = (ttl /\ ~redis)
             /\ UNCHANGED redis

Purge(r) ==
  /\ pc[r] = "purge"
  /\ PurgeRoom
  /\ Done(r)
  /\ UNCHANGED <<rows, sock, sweep, history>>

-----------------------------------------------------------------------------
(* FingerprintSyncGateway: sockets come, join, send heartbeats and go.     *)

Connect ==
  /\ \E s \in Sockets : sock[s] = "off" /\ sock' = [sock EXCEPT ![s] = "on"]
  /\ UNCHANGED <<rows, cache, pc, loc, sweep, history>>

(* assertRedisReady and assertJoinedMember.                                *)
HandleJoin(r) ==
  /\ Starts(r, "socket")
  /\ \E s \in Sockets :
       /\ sock[s] # "off" /\ redis /\ room \in Open /\ member[OwnerOf[s]] = "JOINED"
       /\ Go(r, "enter", [user |-> OwnerOf[s], via |-> s, seen |-> room])
  /\ UNCHANGED <<rows, cache, sock, sweep, history>>

Enter(r) ==
  /\ pc[r] = "enter"
  /\ sock' = [sock EXCEPT ![loc[r].via] = IF @ = "off" THEN "off" ELSE "in"]
  /\ Go(r, "setPresence", loc[r])
  /\ UNCHANGED <<rows, cache, sweep, history>>

(* The message names the room: nothing else is asked.                      *)
HandleHeartbeat(r) ==
  /\ Starts(r, "socket")
  /\ \E s \in Sockets : /\ sock[s] # "off"
                        /\ Go(r, "setPresence", [user |-> OwnerOf[s], via |-> s, seen |-> "NONE"])
  /\ UNCHANGED <<rows, cache, sock, sweep, history>>

(* setPresence: hSet, then expire; nothing at all without Redis.           *)
SetPresence(r) ==
  /\ pc[r] = "setPresence"
  /\ presence' = IF redis THEN presence \cup {loc[r].user} ELSE presence
  /\ arrived' = IF sweep.step = "end" THEN arrived \cup (presence' \ presence) ELSE arrived
  /\ Go(r, "setExpiry", loc[r])
  /\ UNCHANGED <<rows, sock, ttl, redis, sweep, since>>

SetExpiry(r) ==
  /\ pc[r] = "setExpiry"
  /\ ttl' = (ttl \/ (redis /\ presence # {}))
  /\ IF loc[r].seen = "OPEN" THEN Go(r, "findRoom", loc[r]) ELSE Done(r)
  /\ UNCHANGED <<rows, sock, presence, redis, sweep, history>>

HandleDisconnect(r) ==
  /\ pc[r] = "idle"
  /\ \E s \in Sockets :
       /\ sock[s] # "off"
       /\ sock' = [sock EXCEPT ![s] = "off"]
       /\ IF sock[s] = "in" THEN Go(r, "removePresence", [Blank EXCEPT !.user = OwnerOf[s]])
          ELSE UNCHANGED <<pc, loc>>
  /\ UNCHANGED <<rows, cache, sweep, history>>

(* The user's entry goes, whichever of the user's sockets has set it.      *)
RemovePresence(r) ==
  /\ pc[r] = "removePresence"
  /\ presence' = IF redis THEN presence \ {loc[r].user} ELSE presence
  /\ ttl' = (ttl /\ presence' # {})
  /\ Done(r)
  /\ UNCHANGED <<rows, sock, redis, sweep, history>>

-----------------------------------------------------------------------------
(* SellerRoomsLifecycleService.tick.                                       *)

(* Mutation of FindIdle: only rooms that nobody has joined are looked at.  *)
FindUnstarted ==
  /\ sweep.step = "rest" /\ room = "OPEN"
  /\ sweep' = [step |-> "look", idle |-> idle]
  /\ UNCHANGED <<rows, cache, sock, pc, loc, history>>

FindIdle ==
  /\ sweep.step = "rest" /\ room = "ACTIVE"
  /\ sweep' = [step |-> "look", idle |-> idle]
  /\ UNCHANGED <<rows, cache, sock, pc, loc, history>>

(* Mutation of LookPresence: the presence is not looked at.                *)
LookAway ==
  /\ sweep.step = "look"
  /\ sweep' = [sweep EXCEPT !.step = IF sweep.idle THEN "end" ELSE "rest"]
  /\ arrived' = IF redis THEN {} ELSE Users
  /\ UNCHANGED <<rows, cache, sock, pc, loc, since>>

(* getPresence answers {} when Redis is unreachable.                       *)
LookPresence ==
  /\ sweep.step = "look"
  /\ sweep' = [sweep EXCEPT !.step = IF (redis => presence = {}) /\ sweep.idle
                                     THEN "end" ELSE "rest"]
  /\ arrived' = IF redis THEN {} ELSE Users
  /\ UNCHANGED <<rows, cache, sock, pc, loc, since>>

EndIdle ==
  /\ sweep.step = "end"
  /\ SetRoom("ENDED")
  /\ sweep' = [sweep EXCEPT !.step = "purge"]
  /\ arrived' = {}
  /\ UNCHANGED <<member, pending, late, cache, sock, pc, loc, since>>

PurgeIdle ==
  /\ sweep.step = "purge"
  /\ PurgeRoom
  /\ sweep' = [step |-> "rest", idle |-> FALSE]
  /\ UNCHANGED <<rows, sock, pc, loc, history>>

(* One statement, with the status in its WHERE.                            *)
ArchiveEnded ==
  /\ sweep.step = "rest"
  /\ room = "ENDED" /\ idle
  /\ SetRoom("ARCHIVED")
  /\ UNCHANGED <<member, pending, late, cache, sock, pc, loc, sweep, history>>

Tick == FindIdle \/ LookPresence \/ EndIdle \/ PurgeIdle \/ ArchiveEnded

-----------------------------------------------------------------------------
(* Time passes, keys expire, Redis comes and goes, handlers die.           *)

(* IDLE_TIMEOUT_MS, or ARCHIVE_AFTER_MS.                                   *)
TimePasses ==
  /\ ~idle /\ idle' = TRUE
  /\ UNCHANGED <<room, member, pending, late, cache, sock, pc, loc, sweep, since, arrived>>

InvitationExpires ==
  /\ \E i \in pending \ late : late' = late \cup {i}
  /\ UNCHANGED <<room, idle, member, pending, cache, sock, pc, loc, sweep, history>>

(* Nobody has renewed the hash for 30 seconds.                             *)
PresenceExpires ==
  /\ ttl /\ ttl' = FALSE /\ presence' = {}
  /\ UNCHANGED <<rows, redis, sock, pc, loc, sweep, history>>

RedisFlips ==
  /\ RedisFails
  /\ redis' = ~redis
  /\ UNCHANGED <<rows, presence, ttl, sock, pc, loc, sweep, history>>

Crash(r) ==
  /\ pc[r] # "idle"
  /\ Done(r)
  /\ since' = [since EXCEPT ![r] = {}]
  /\ UNCHANGED <<rows, cache, sock, sweep, arrived>>

SweepFails ==
  /\ sweep.step # "rest"
  /\ sweep' = [step |-> "rest", idle |-> FALSE]
  /\ arrived' = {}
  /\ UNCHANGED <<rows, cache, sock, pc, loc, since>>

MembersStep(r) ==
  \/ Invite(r) \/ CreateInvitation(r) \/ InviteMember(r)
  \/ AcceptLookup(r) \/ ExpireInvitation(r) \/ AcceptInvitation(r)
  \/ JoinRequest(r) \/ FindRoom(r) \/ UpsertMember(r) \/ Activate(r)
  \/ End(r) \/ ClearSeed(r) \/ Purge(r)

SocketStep(r) ==
  \/ HandleJoin(r) \/ Enter(r) \/ HandleHeartbeat(r) \/ SetPresence(r) \/ SetExpiry(r)
  \/ HandleDisconnect(r) \/ RemovePresence(r)

Next ==
  \/ \E r \in Requests : MembersStep(r) \/ SocketStep(r) \/ Crash(r)
  \/ Leave
  \/ Connect
  \/ Tick \/ SweepFails
  \/ TimePasses \/ InvitationExpires \/ PresenceExpires \/ RedisFlips

(* The timer ticks, time passes, and Redis drops a hash that no socket     *)
(* renews.  Clients and handlers owe nothing.                              *)
Deserted == \A s \in Sockets : sock[s] = "off"

Spec == /\ Init /\ [][Next]_vars
        /\ WF_vars(Tick) /\ WF_vars(TimePasses) /\ WF_vars(Deserted /\ PresenceExpires)

-----------------------------------------------------------------------------
(* A room that has ended is never opened again by an accept, a join, a     *)
(* socket or a timer that looked before it ended, except by a join that    *)
(* had read it as OPEN.                                                    *)
ClosedForGood ==
  [][(room \in Closed /\ \A r \in Requests : pc[r] # "activate") => room' \in Closed]_vars

(* invite never takes a joined member back to INVITED, unless that user    *)
(* joined between its lookup and its write.                                *)
JoinedNotDemoted ==
  [][\A u \in Users : member[u] = "JOINED" /\ member'[u] = "INVITED"
       => \E r \in Requests : pc[r] = "inviteMember" /\ u \in since[r]]_vars

(* An invite never takes the room above MAX_MEMBERS_PER_ROOM, unless       *)
(* somebody was invited, or joined, after it had counted.                  *)
MemberLimit ==
  [][\A r \in Requests : pc[r] = "inviteMember" /\ pc'[r] = "idle" /\ since[r] = {}
       => Cardinality(Seated') <= MaxMembers]_vars

(* The timer ends a room only if whoever is present has come after it      *)
(* looked, or Redis could not be asked.                                    *)
SweepSpares ==
  [][sweep.step = "end" /\ sweep'.step = "purge" => presence \subseteq arrived]_vars

(* A room that everybody has left for good does not stay ACTIVE: a         *)
(* disconnect that failed is made up for by the hash's time to live, a     *)
(* room revived by a late join is ended again.  (Provided no handler died  *)
(* between hSet and expire, and the timer's passes do not fail forever.)   *)
Gone == /\ Deserted
        /\ \A r \in Requests : pc[r] = "idle"
        /\ presence = {} \/ ttl
AbandonedRoomEnds ==
  <>[]Gone /\ <>[][~SweepFails]_vars => []<>(room # "ACTIVE")
=============================================================================
