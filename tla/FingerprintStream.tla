-------------------------- MODULE FingerprintStream --------------------------
(***************************************************************************)
(* The audio fingerprints of one member of a seller room, the talker: from *)
(* the talker's sockets (FingerprintSyncGateway) over the check of their   *)
(* sequence numbers and the write buffer (SellerAudioFingerprintService)   *)
(* to the number and the batch in Redis (FingerprintCacheService); and     *)
(* another member that joins the room and listens.                         *)
(*                                                                         *)
(* The room may be served by several processes, which share Redis; each    *)
(* has a write buffer of its own, and reaches the sockets of the others    *)
(* through Redis pub/sub only (RedisIoAdapter): while Redis is out of      *)
(* reach a broadcast gets no further than its own process.  A message that *)
(* fails validation or the rate limit changes nothing and is left out.  A  *)
(* fingerprint is its place 1..sent among the broadcasts; one that was     *)
(* handed to the listener's socket counts as heard.                        *)
(*                                                                         *)
(* The room has been joined before (it is ACTIVE): how a join that read    *)
(* OPEN reopens a room that has ended is the subject of SellerRooms.       *)
(***************************************************************************)
EXTENDS Integers, Sequences, FiniteSets, Functions

CONSTANTS
  Procs,        (* the processes                                            *)
  Messages,     (* the publish handlers in flight at once                   *)
  Enders,       (* the calls in flight at once that end the room: end of    *)
                (* the creator, or the timer's tick                         *)
  MaxSeq,       (* bound: the largest sequence number a client uses         *)
  BatchSize,    (* how many fingerprints are written together               *)
  MaxMessages   (* bound: messages altogether                               *)

ASSUME StreamAssumption ==
  /\ IsFiniteSet(Messages) /\ MaxSeq \in Nat
  /\ BatchSize \in Nat \ {0} /\ MaxMessages \in Nat

VARIABLES
  room,      (* "open", or "ended": its row is ENDED                        *)
  member,    (* the talker is a JOINED member                               *)
  redis,     (* Redis is reachable                                          *)
  lastSeq,   (* the talker's last number in Redis, or None                  *)
  batch,     (* the talker's batch in Redis, or << >>                       *)
  pending,   (* pendingBatches: what waits for a full batch, by process     *)
  writing,   (* the batches on their way to Redis, by process               *)
  msg,       (* the publish handlers: step, process and number              *)
  asked,
  sent,      (* how many fingerprints have been broadcast                   *)
  listener,  (* "out", "in" the socket room, "read" the snapshot, "told"    *)
  home,      (* the process of the listener's socket                        *)
  heard,     (* the broadcasts that the listener gets since it is in        *)
  lost,      (* history: what it missed after the snapshot was read, of     *)
             (* other processes while Redis was down                        *)
  since,     (* history: sent when the listener read the snapshot           *)
  top,       (* history: the largest number broadcast, or None              *)
  sure,      (* history: no message was checked while another was between   *)
             (* check and broadcast, and lastSeq has always been there      *)
  ender,     (* the calls that end the room: the step, and whether the      *)
             (* members it has read include the talker                      *)
  clean      (* history: a purge reached the talker's keys and met no       *)
             (* publish and no write under way                              *)

store    == <<redis, lastSeq, batch>>
buffer   == <<pending, writing>>
audience == <<listener, home, heard, lost, since>>
ending   == <<room, ender, clean>>
vars == <<room, member, redis, lastSeq, batch, pending, writing, msg, asked, sent,
          listener, home, heard, lost, since, top, sure, ender, clean>>

Resting == [at |-> "idle", listed |-> FALSE]

None == -1
(* What validateAndNormalize lets pass.                                    *)
Seqs == 0..MaxSeq
Nowhere == "none"
Idle == [at |-> "idle", seq |-> None, proc |-> Nowhere]

Init ==
  /\ room = "open" /\ member = TRUE /\ redis = TRUE
  /\ lastSeq = None /\ batch = << >>
  /\ pending = [p \in Procs |-> << >>] /\ writing = [p \in Procs |-> << >>]
  /\ msg = [m \in Messages |-> Idle] /\ asked = 0 /\ sent = 0
  /\ listener = "out" /\ home = Nowhere /\ heard = {} /\ lost = {} /\ since = 0
  /\ top = None /\ sure = TRUE /\ ender = [e \in Enders |-> Resting] /\ clean = FALSE

(* The fingerprints that process p has still to write.                     *)
Waiting(p) == Range(pending[p]) \cup UNION {Range(writing[p][i]) : i \in DOMAIN writing[p]}

-----------------------------------------------------------------------------
(* handlePublish: the room and the talker's membership are looked up.      *)
HandlePublish(m, p, n) ==
  /\ asked < MaxMessages /\ asked' = asked + 1
  /\ msg[m] = Idle
  /\ room = "open" /\ member
  /\ msg' = [msg EXCEPT ![m] = [at |-> "check", seq |-> n, proc |-> p]]
  /\ UNCHANGED <<member, store, buffer, sent, audience, top, sure, ending>>

(* getLastSeq answers None when Redis is unreachable.                      *)
Known == IF redis THEN lastSeq ELSE None
Alone == \A o \in Messages : msg[o].at \notin {"set", "send"}

(* Mutation of CheckSeq: the last number itself passes.                    *)
CheckSeqAgain(m) ==
  /\ msg[m].at = "check"
  /\ msg' = [msg EXCEPT ![m] = IF @.seq < Known THEN Idle ELSE [@ EXCEPT !.at = "set"]]
  /\ sure' = (sure /\ redis /\ Alone)
  /\ UNCHANGED <<member, store, buffer, asked, sent, audience, top, ending>>

(* checkMonotonicSeq: the number must exceed the last one ...              *)
CheckSeq(m) ==
  /\ msg[m].at = "check"
  /\ msg' = [msg EXCEPT ![m] = IF @.seq <= Known THEN Idle ELSE [@ EXCEPT !.at = "set"]]
  /\ sure' = (sure /\ redis /\ Alone)
  /\ UNCHANGED <<member, store, buffer, asked, sent, audience, top, ending>>

(* ... which it then becomes.                                              *)
SetSeq(m) ==
  /\ msg[m].at = "set"
  /\ lastSeq' = IF redis THEN msg[m].seq ELSE lastSeq
  /\ msg' = [msg EXCEPT ![m].at = "send"]
  /\ sure' = (sure /\ redis)
  /\ UNCHANGED <<member, redis, batch, buffer, asked, sent, audience, top, ending>>

(* Mutation of InRoom: a joining socket enters after it has the snapshot.  *)
InRoomLast == listener = "told"

InRoom == listener \in {"in", "read", "told"}

(* Mutation of Enqueue: flushBatch leaves the buffer as it is.             *)
EnqueueKeeping(p) ==
  LET full == Append(pending[p], sent') IN
  /\ pending' = [pending EXCEPT ![p] = full]
  /\ writing' = IF Len(full) >= BatchSize THEN [writing EXCEPT ![p] = Append(@, full)] ELSE writing

(* enqueueForCache: a full buffer goes to a write that nobody waits for.   *)
Enqueue(p) ==
  LET full == Append(pending[p], sent') IN
  IF Len(full) >= BatchSize
  THEN /\ pending' = [pending EXCEPT ![p] = << >>]
       /\ writing' = [writing EXCEPT ![p] = Append(@, full)]
  ELSE pending' = [pending EXCEPT ![p] = full] /\ UNCHANGED writing

(* Sockets of the same process need no Redis, all others do.               *)
Reaches(p) == p = home \/ redis

(* The fingerprint is broadcast, whatever the room is by now, and enqueued.*)
Send(m) ==
  /\ msg[m].at = "send"
  /\ sent' = sent + 1
  /\ heard' = IF InRoom /\ Reaches(msg[m].proc) THEN heard \cup {sent'} ELSE heard
  /\ lost' = IF listener \notin {"read", "told"} \/ Reaches(msg[m].proc) THEN lost
             ELSE lost \cup {sent'}
  /\ Enqueue(msg[m].proc)
  /\ top' = IF msg[m].seq > top THEN msg[m].seq ELSE top
  /\ msg' = [msg EXCEPT ![m] = Idle]
  /\ UNCHANGED <<member, store, asked, listener, home, since, sure, ending>>

(* flushBatch: a batch replaces the one before.                            *)
StoreBatch(p) ==
  /\ writing[p] # << >>
  /\ batch' = IF redis THEN Head(writing[p]) ELSE batch
  /\ writing' = [writing EXCEPT ![p] = Tail(@)]
  /\ UNCHANGED <<member, redis, lastSeq, pending, msg, asked, sent, audience, top, sure, ending>>

-----------------------------------------------------------------------------
(* handleJoin of the other member, or of a room it is in already.          *)
Listener(from, to) == /\ listener = from /\ listener' = to
                      /\ UNCHANGED <<member, store, buffer, msg, asked, sent, top, sure, ending>>
Deaf == home' = Nowhere /\ heard' = {} /\ lost' = {} /\ since' = 0
RedisReady == redis

LeaveFormer  == RedisReady /\ room = "open" /\ Listener("told", "out") /\ Deaf
EnterRoom    == /\ RedisReady /\ room = "open" /\ Listener("out", "in")
                /\ home' \in Procs /\ UNCHANGED <<heard, lost, since>>
ReadSnapshot == Listener("in", "read") /\ since' = sent /\ UNCHANGED <<home, heard, lost>>
TellJoined   == Listener("read", "told") /\ UNCHANGED <<home, heard, lost, since>>
Disconnect   == \E at \in {"in", "read", "told"} : Listener(at, "out") /\ Deaf

-----------------------------------------------------------------------------
(* leave, and join again.                                                  *)
MemberChanges ==
  /\ room = "open" /\ member' = ~member
  /\ UNCHANGED <<store, buffer, msg, asked, sent, audience, top, sure, ending>>

(* end reads all members that ever were, whatever the room is by now; the  *)
(* timer reads the JOINED members of an ACTIVE room ...                    *)
LookRoom(e, byTimer) ==
  /\ ender[e] = Resting /\ (byTimer => room = "open")
  /\ ender' = [ender EXCEPT ![e] = [at |-> "write", listed |-> byTimer => member]]
  /\ UNCHANGED <<room, member, store, buffer, msg, asked, sent, audience, top, sure, clean>>

(* ... and asks for the presence, awaits later the room is ENDED ...       *)
EndRoom(e) ==
  /\ ender[e].at = "write" /\ ender' = [ender EXCEPT ![e].at = "purge"]
  /\ room' = "ended"
  /\ UNCHANGED <<member, store, buffer, msg, asked, sent, audience, top, sure, clean>>

Quiet == /\ \A m \in Messages : msg[m] = Idle
         /\ \A p \in Procs : writing[p] = << >>

(* Mutation of PurgeRoom: the sequence number is forgotten.                *)
PurgeBatch(e) ==
  /\ ender[e].at = "purge" /\ ender' = [ender EXCEPT ![e] = Resting]
  /\ \E online \in BOOLEAN :
       LET reached == redis /\ (ender[e].listed \/ online) IN
       /\ batch' = IF reached THEN << >> ELSE batch
       /\ clean' = (clean \/ (reached /\ Quiet))
  /\ UNCHANGED <<room, member, redis, lastSeq, buffer, msg, asked, sent, audience, top, sure>>

(* ... and purgeRoom deletes the keys of the members that were read and of *)
(* everybody online.                                                       *)
PurgeRoom(e) ==
  /\ ender[e].at = "purge" /\ ender' = [ender EXCEPT ![e] = Resting]
  /\ \E online \in BOOLEAN :
       LET reached == redis /\ (ender[e].listed \/ online) IN
       /\ batch' = IF reached THEN << >> ELSE batch
       /\ lastSeq' = IF reached THEN None ELSE lastSeq
       /\ clean' = (clean \/ (reached /\ Quiet))
  /\ sure' = (sure /\ lastSeq' = lastSeq)
  /\ UNCHANGED <<room, member, redis, buffer, msg, asked, sent, audience, top>>

(* The timer spares a room with somebody online; a call fails or dies.     *)
StopsEnding(e) ==
  /\ ender[e].at # "idle" /\ ender' = [ender EXCEPT ![e] = Resting]
  /\ UNCHANGED <<room, member, store, buffer, msg, asked, sent, audience, top, sure, clean>>

-----------------------------------------------------------------------------
(* Keys expire, Redis comes and goes, commands are refused, processes die. *)

BatchExpires ==
  /\ batch # << >> /\ batch' = << >>
  /\ UNCHANGED <<member, redis, lastSeq, buffer, msg, asked, sent, audience, top, sure, ending>>

LastSeqExpires ==
  /\ lastSeq # None /\ lastSeq' = None
  /\ sure' = FALSE
  /\ UNCHANGED <<member, redis, batch, buffer, msg, asked, sent, audience, top, ending>>

RedisFlips ==
  /\ redis' = ~redis
  /\ UNCHANGED <<member, lastSeq, batch, buffer, msg, asked, sent, audience, top, sure, ending>>

(* The publisher is told; a number already set stays.                      *)
Refused(m) ==
  /\ msg[m] # Idle
  /\ msg' = [msg EXCEPT ![m] = Idle]
  /\ UNCHANGED <<member, store, buffer, asked, sent, audience, top, sure, ending>>

WriteRefused(p) ==
  /\ writing[p] # << >>
  /\ writing' = [writing EXCEPT ![p] = Tail(@)]
  /\ UNCHANGED <<member, store, pending, msg, asked, sent, audience, top, sure, ending>>

Restart(p) ==
  /\ pending' = [pending EXCEPT ![p] = << >>] /\ writing' = [writing EXCEPT ![p] = << >>]
  /\ msg' = [m \in Messages |-> IF msg[m].proc = p THEN Idle ELSE msg[m]]
  /\ IF home = p THEN listener' = "out" /\ Deaf ELSE UNCHANGED audience
  /\ UNCHANGED <<member, store, asked, sent, top, sure, ending>>

Next ==
  \/ \E m \in Messages : \/ \E p \in Procs, n \in Seqs : HandlePublish(m, p, n)
                         \/ CheckSeq(m) \/ SetSeq(m) \/ Send(m) \/ Refused(m)
  \/ \E p \in Procs : StoreBatch(p) \/ WriteRefused(p) \/ Restart(p)
  \/ LeaveFormer \/ EnterRoom \/ ReadSnapshot \/ TellJoined \/ Disconnect
  \/ \E e \in Enders : \/ \E byTimer \in BOOLEAN : LookRoom(e, byTimer)
                       \/ EndRoom(e) \/ PurgeRoom(e) \/ StopsEnding(e)
  \/ MemberChanges \/ BatchExpires \/ LastSeqExpires \/ RedisFlips

Spec == Init /\ [][Next]_vars

-----------------------------------------------------------------------------
Increasing(s) == \A i, j \in DOMAIN s : i < j => s[i] < s[j]
Before(s, t) == \A x \in Range(s), y \in Range(t) : x < y
InOrder(batches, rest) ==
  /\ Increasing(rest)
  /\ \A i \in DOMAIN batches : Increasing(batches[i]) /\ Before(batches[i], rest)
  /\ \A i, j \in DOMAIN batches : i < j => Before(batches[i], batches[j])

TypeOK ==
  /\ room \in {"open", "ended"} /\ {member, redis, sure, clean} \subseteq BOOLEAN
  /\ ender \in [Enders -> [at : {"idle", "write", "purge"}, listed : BOOLEAN]]
  /\ lastSeq \in Seqs \cup {None} /\ top \in Seqs \cup {None}
  /\ \A m \in Messages : msg[m] = Idle \/ msg[m] \in
       [at : {"check", "set", "send"}, seq : Seqs, proc : Procs]
  /\ \A p \in Procs : pending[p] \in Seq(Nat) /\ writing[p] \in Seq(Seq(Nat))
  /\ sent \in 0..MaxMessages /\ since \in 0..sent /\ heard \cup lost \subseteq 1..sent
  /\ listener \in {"out", "in", "read", "told"} /\ home \in Procs \cup {Nowhere}

(* The numbers that the room gets from one talker only ever grow, over     *)
(* however many sockets and processes they come, unless two messages were  *)
(* checked and broadcast at the same time, or the last number was out of   *)
(* reach, expired or purged.                                               *)
FeedIncreases ==
  [][\A m \in Messages : sent' > sent /\ msg[m].at = "send" /\ msg'[m] = Idle /\ sure
       => msg[m].seq > top]_vars

(* Whoever has been told that it joined gets everything that is broadcast  *)
(* after the snapshot it was handed was read: from its own process always, *)
(* from the others unless Redis is down at the moment of the broadcast.    *)
NothingMissed == listener = "told" => (since + 1)..sent \subseteq heard \cup lost

(* No fingerprint is written in two batches, and a process writes them in  *)
(* the order they were broadcast: a snapshot never repeats or reorders,    *)
(* though of several processes an older batch may replace a newer one.     *)
WrittenOnce ==
  /\ \A p \in Procs : InOrder(writing[p], pending[p])
  /\ \A p, q \in Procs : p # q => Waiting(p) \cap Waiting(q) = {}
  /\ Increasing(batch)
  /\ \A p \in Procs : Range(batch) \cap Waiting(p) = {}

(* Once one purge of an ended room, the timer's or the creator's, met no   *)
(* publish and no write under way, was answered by Redis and covered the   *)
(* talker - online, or among the members read before ENDED was written -   *)
(* nothing of the talker is or comes back in Redis.                        *)
PurgedForGood == clean => lastSeq = None /\ batch = << >>
=============================================================================
