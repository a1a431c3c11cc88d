---------------------------- MODULE MonitorFloor ----------------------------
(***************************************************************************)
(* The managers' floor of one meeting: the snapshots the audio pipeline    *)
(* reports, the alerts they carry and the SOS of the seller                *)
(* (MonitorService), kept in the memory of each server process and in      *)
(* Redis (MonitorSnapshotStore) and broadcast to the managers              *)
(* (MonitorGateway).                                                       *)
(*                                                                         *)
(* A call suspends at every await: the write to Redis, and for each alert  *)
(* the look for a recent one and the insert.  A broadcast reaches the      *)
(* managers connected to the same process, and those of the others through *)
(* Redis pub/sub, which drops it while Redis is down (RedisIoAdapter).     *)
(***************************************************************************)
EXTENDS Naturals, Sequences, FiniteSets

CONSTANTS
  Procs,      (* the server processes                                       *)
  Reports,    (* the snapshots reported of the meeting ...                  *)
  AlertsOf,   (* ... and the kinds of alerts in each, in order              *)
  Soses,      (* the calls of reportSos                                     *)
  NoReport,
  MaxFlips    (* bound: how often Redis fails or recovers                   *)

Calls == Reports \cup Soses
Kinds == {"red", "yellow", "sos"}

ASSUME FloorAssumption ==
  /\ AlertsOf \in [Reports -> Seq(Kinds)] /\ NoReport \notin Reports
  /\ Reports \cap Soses = {} /\ MaxFlips \in Nat

VARIABLES
  call,      (* call[q]: where it is, its process, the alerts left to raise *)
  memory,    (* memory[p]: the snapshot process p holds                     *)
  redis, up, (* the snapshot in Redis, and whether Redis answers            *)
  floor,     (* floor[p]: the snapshot p's managers were sent last          *)
  alerts,    (* the MonitorAlert rows                                       *)
  raised,    (* the alerts that were broadcast, by call and kind            *)
  flips,
  disturbed, (* history: since the last snapshot that began alone, another  *)
             (* began beside it, a snapshot did not reach Redis or every    *)
             (* process, or stopped half-way, or its key expired            *)
  doubled    (* history: kinds looked for while one was about to be raised  *)

vars == <<call, memory, redis, up, floor, alerts, raised, flips, disturbed, doubled>>
snaps == <<memory, redis, up, floor, flips, disturbed>>

TypeOK ==
  /\ \A q \in Calls :
       /\ call[q].at \in {"start", "store", "feed", "look", "insert", "tell", "done", "failed"}
       /\ call[q].at \in {"look", "insert", "tell"} => call[q].todo # <<>>
  /\ memory \in [Procs -> Reports \cup {NoReport}] /\ floor \in [Procs -> Reports \cup {NoReport}]
  /\ redis \in Reports \cup {NoReport}
  /\ alerts \subseteq [by : Calls, kind : Kinds, recent : BOOLEAN, acked : BOOLEAN]
  /\ raised \subseteq Calls \X Kinds /\ doubled \subseteq Kinds

Script(q) == IF q \in Reports THEN AlertsOf[q] ELSE <<"sos">>

Init ==
  /\ call = [q \in Calls |-> [at |-> "start", proc |-> "none", todo |-> Script(q)]]
  /\ memory = [p \in Procs |-> NoReport] /\ floor = [p \in Procs |-> NoReport]
  /\ redis = NoReport /\ up = TRUE
  /\ alerts = {} /\ raised = {}
  /\ flips = 0 /\ disturbed = FALSE /\ doubled = {}

-----------------------------------------------------------------------------
(* ingestSnapshot: MonitorSnapshotStore.set puts it into memory ...        *)
Storing == {r \in Reports : call[r].at \in {"store", "feed"}}
Ingest(r, p) ==
  /\ call[r].at = "start"
  /\ call' = [call EXCEPT ![r].at = "store", ![r].proc = p]
  /\ memory' = [memory EXCEPT ![p] = r]
  /\ disturbed' = (Storing # {})
  /\ UNCHANGED <<redis, up, floor, alerts, raised, flips, doubled>>

(* ... and into Redis; a failure is logged and forgotten ...               *)
StoreInRedis(r) ==
  /\ call[r].at = "store"
  /\ call' = [call EXCEPT ![r].at = "feed"]
  /\ redis' = IF up THEN r ELSE redis
  /\ disturbed' = (disturbed \/ ~up)
  /\ UNCHANGED <<memory, up, floor, alerts, raised, flips, doubled>>

(* ... the managers get it, and its alerts are raised one by one.          *)
BroadcastSnapshot(r) ==
  /\ call[r].at = "feed"
  /\ call' = [call EXCEPT ![r].at = IF call[r].todo = <<>> THEN "done" ELSE "look"]
  /\ floor' = [p \in Procs |-> IF p = call[r].proc \/ up THEN r ELSE floor[p]]
  /\ disturbed' = (disturbed \/ ~up)
  /\ UNCHANGED <<memory, redis, up, alerts, raised, flips, doubled>>

ReportSos(s) ==
  /\ s \in Soses /\ call[s].at = "start"
  /\ call' = [call EXCEPT ![s].at = "look"]
  /\ UNCHANGED <<alerts, raised, doubled, snaps>>

-----------------------------------------------------------------------------
Kind(q) == Head(call[q].todo)
Answered(q) == call' = [call EXCEPT ![q].todo = Tail(@),
                                    ![q].at = IF Len(call[q].todo) = 1 THEN "done" ELSE "look"]
Recent(k) == {a \in alerts : a.kind = k /\ a.recent}
Raising(k) == {q \in Calls : call[q].at = "insert" /\ Kind(q) = k}

(* Mutations of LookForRecent: an acknowledged alert does not count; an    *)
(* SOS is suppressed like the others.                                      *)
LookForUnacked(q) ==
  LET k == Kind(q) IN
  /\ call[q].at = "look"
  /\ IF \E a \in Recent(k) : ~a.acked /\ k # "sos" THEN Answered(q)
     ELSE call' = [call EXCEPT ![q].at = "insert"]
  /\ doubled' = IF Raising(k) # {} THEN doubled \cup {k} ELSE doubled
  /\ UNCHANGED <<alerts, raised, snaps>>

LookForAny(q) ==
  LET k == Kind(q) IN
  /\ call[q].at = "look"
  /\ IF Recent(k) # {} THEN Answered(q) ELSE call' = [call EXCEPT ![q].at = "insert"]
  /\ doubled' = IF Raising(k) # {} THEN doubled \cup {k} ELSE doubled
  /\ UNCHANGED <<alerts, raised, snaps>>

(* createAlert: an alert of the kind in the last minute answers the call,  *)
(* unless it is an SOS ...                                                 *)
LookForRecent(q) ==
  LET k == Kind(q) IN
  /\ call[q].at = "look"
  /\ IF Recent(k) # {} /\ k # "sos" THEN Answered(q) ELSE call' = [call EXCEPT ![q].at = "insert"]
  /\ doubled' = IF Raising(k) # {} THEN doubled \cup {k} ELSE doubled
  /\ UNCHANGED <<alerts, raised, snaps>>

(* ... otherwise its row is inserted ...                                   *)
InsertAlert(q) ==
  /\ call[q].at = "insert"
  /\ alerts' = alerts \cup {[by |-> q, kind |-> Kind(q), recent |-> TRUE, acked |-> FALSE]}
  /\ call' = [call EXCEPT ![q].at = "tell"]
  /\ UNCHANGED <<raised, doubled, snaps>>

(* ... and, when the insert has answered, broadcast.                       *)
BroadcastAlert(q) ==
  /\ call[q].at = "tell"
  /\ raised' = raised \cup {<<q, Kind(q)>>}
  /\ Answered(q)
  /\ UNCHANGED <<alerts, doubled, snaps>>

AcknowledgeAlert(a) ==
  /\ a \in alerts /\ ~a.acked
  /\ alerts' = (alerts \ {a}) \cup {[a EXCEPT !.acked = TRUE]}
  /\ UNCHANGED <<call, raised, doubled, snaps>>

(* createdAt is more than a minute ago (nothing asks this of an SOS).      *)
AlertAges(a) ==
  /\ a \in alerts /\ a.recent /\ a.kind # "sos"
  /\ alerts' = (alerts \ {a}) \cup {[a EXCEPT !.recent = FALSE]}
  /\ UNCHANGED <<call, raised, doubled, snaps>>

(* A process stops, or a statement is refused: the call ends, with the     *)
(* alerts it has not raised, and a row may stay behind unannounced.        *)
Fails(q) ==
  /\ call[q].at \in {"store", "feed", "look", "insert", "tell"}
  /\ call' = [call EXCEPT ![q].at = "failed"]
  /\ disturbed' = (disturbed \/ q \in Storing)
  /\ UNCHANGED <<memory, redis, up, floor, alerts, raised, flips, doubled>>

-----------------------------------------------------------------------------
RedisFlips ==
  /\ flips < MaxFlips /\ flips' = flips + 1
  /\ up' = ~up
  /\ UNCHANGED <<call, memory, redis, floor, alerts, raised, disturbed, doubled>>

(* The key outlives SNAP_TTL_SEC.                                          *)
SnapshotExpires ==
  /\ redis # NoReport /\ redis' = NoReport
  /\ disturbed' = TRUE
  /\ UNCHANGED <<call, memory, up, floor, alerts, raised, flips, doubled>>

(* Mutation of Get: the memory of the process is asked first.              *)
GetFromMemory(p) ==
  IF memory[p] # NoReport THEN memory[p] ELSE redis

(* MonitorSnapshotStore.get: what a manager's page shows.                  *)
Get(p) == IF up /\ redis # NoReport THEN redis ELSE memory[p]

-----------------------------------------------------------------------------
Snapshot(r) == (\E p \in Procs : Ingest(r, p)) \/ StoreInRedis(r) \/ BroadcastSnapshot(r)
CreateAlert(q) == LookForRecent(q) \/ InsertAlert(q) \/ BroadcastAlert(q)

Next ==
  \/ \E r \in Reports : Snapshot(r)
  \/ \E s \in Soses : ReportSos(s)
  \/ \E q \in Calls : CreateAlert(q) \/ Fails(q)
  \/ \E a \in alerts : AcknowledgeAlert(a) \/ AlertAges(a)
  \/ RedisFlips \/ SnapshotExpires

Spec == Init /\ [][Next]_vars

-----------------------------------------------------------------------------
(* Whatever failed before: once a snapshot has been stored and broadcast   *)
(* with no other beside it, no death and Redis answering, the page of the  *)
(* meeting, on whichever process it is loaded, and the live floor of every *)
(* process show the same, until Redis fails or expires the key.            *)
PageMatchesFloor ==
  Storing = {} /\ up /\ ~disturbed => \A p, q \in Procs : Get(p) = floor[q]

(* Within a minute there is one alert of a kind, acknowledged or not,      *)
(* except the SOS, unless one was looked for while another was being       *)
(* inserted.                                                               *)
OneAlertAMinute ==
  \A k \in Kinds \ ({"sos"} \cup doubled) : Cardinality(Recent(k)) <= 1

(* Every answered SOS was broadcast, whatever was raised just before; and  *)
(* of an answered snapshot every alert was, by its own call or by another, *)
(* unless that other call is between the row and the broadcast, or died    *)
(* there: its row then answers for a minute, though nobody heard of it.    *)
CutOff(q, k) == /\ call[q].at \in {"tell", "failed"} /\ call[q].todo # <<>> /\ Kind(q) = k
                /\ \E a \in alerts : a.by = q /\ a.kind = k
AnsweredIsBroadcast ==
  /\ \A s \in Soses : call[s].at = "done" => <<s, "sos">> \in raised
  /\ \A r \in Reports : call[r].at = "done" =>
       \A i \in DOMAIN AlertsOf[r] :
         LET k == AlertsOf[r][i] IN
         IF k = "sos" THEN <<r, "sos">> \in raised
         ELSE \E q \in Calls : <<q, k>> \in raised \/ CutOff(q, k)
=============================================================================
