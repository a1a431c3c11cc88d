------------------------- MODULE MonitorFloorProofs -------------------------
(***************************************************************************)
(* Theorems about MonitorFloor, for any sets of processes, reports and SOS *)
(* calls, any sequences of alerts, however often Redis fails.              *)
(***************************************************************************)
EXTENDS MonitorFloor, FiniteSetTheorems, SequenceTheorems, TLAPS

CallType == [at : {"start", "store", "feed", "look", "insert", "tell", "done", "failed"},
             proc : Procs \cup {"none"}, todo : Seq(Kinds)]

Typed ==
  /\ call \in [Calls -> CallType]
  /\ memory \in [Procs -> Reports \cup {NoReport}]
  /\ floor \in [Procs -> Reports \cup {NoReport}] /\ redis \in Reports \cup {NoReport}
  /\ up \in BOOLEAN /\ disturbed \in BOOLEAN
  /\ alerts \subseteq [by : Calls, kind : Kinds, recent : BOOLEAN, acked : BOOLEAN]
  /\ raised \subseteq Calls \X Kinds /\ doubled \subseteq Kinds

(* Undisturbed, one snapshot at most is being stored, and after its write  *)
(* Redis holds it; with none being stored Redis holds what every floor     *)
(* shows, and if it holds nothing, neither does a process.                 *)
Page ==
  ~disturbed =>
    /\ \A q, r \in Storing : q = r
    /\ \A r \in Storing : call[r].at = "feed" => redis = r
    /\ Storing = {} => /\ \A p \in Procs : floor[p] = redis
                       /\ redis = NoReport => \A p \in Procs : memory[p] = NoReport

(* Of a kind that was not looked for while being raised, one alert is      *)
(* recent, or one call is about to insert the only one.                    *)
Minute ==
  \A k \in Kinds \ ({"sos"} \cup doubled) :
    /\ \A a, b \in Recent(k) : a = b
    /\ \A p, q \in Raising(k) : p = q
    /\ Raising(k) # {} => Recent(k) = {}

(* What a call has left is the end of what it was to raise; the rest was   *)
(* broadcast, or cut off after its row - and so was every alert of a row.  *)
Known(q, k) == <<q, k>> \in raised \/ CutOff(q, k)
HeardFor(q, k) == IF k = "sos" THEN <<q, "sos">> \in raised ELSE \E p \in Calls : Known(p, k)
Raised(q, n) ==
  /\ Len(call[q].todo) = Len(Script(q)) - n
  /\ \A i \in 1..Len(call[q].todo) : call[q].todo[i] = Script(q)[n + i]
  /\ \A i \in 1..n : HeardFor(q, Script(q)[i])
Rows == \A a \in alerts : Known(a.by, a.kind)
Progress == \A q \in Calls : \E n \in 0..Len(Script(q)) : Raised(q, n)
Left(q) == /\ call[q].at \in {"look", "insert", "tell"} => call[q].todo # <<>>
           /\ call[q].at = "done" => call[q].todo = <<>>
           /\ q \in Soses /\ call[q].at = "start" => call[q].todo # <<>>
Hearing == Rows /\ Progress /\ \A q \in Calls : Left(q)

FloorInv == Typed /\ Page /\ Minute /\ Hearing

-----------------------------------------------------------------------------
LEMMA ScriptOK == \A q \in Calls : Script(q) \in Seq(Kinds)
<1> SUFFICES ASSUME NEW q \in Calls PROVE Script(q) \in Seq(Kinds) OBVIOUS
<1>1. CASE q \in Reports BY <1>1, FloorAssumption DEF Script
<1>2. CASE q \notin Reports BY <1>2 DEF Script, Kinds
<1>3. QED BY <1>1, <1>2

LEMMA ScriptKinds ==
  ASSUME NEW q \in Calls, NEW n \in 0..Len(Script(q)), NEW i \in 1..n
  PROVE  Script(q)[i] \in Kinds
<1>1. Script(q) \in Seq(Kinds) BY ScriptOK
<1>2. PICK L \in Nat : L = Len(Script(q)) BY <1>1
<1>3. i \in 1..L BY <1>2
<1>4. QED BY <1>1, <1>2, <1>3

LEMMA InitInv == Init => FloorInv
<1> SUFFICES ASSUME Init PROVE FloorInv OBVIOUS
<1>1. call = [q \in Calls |-> [at |-> "start", proc |-> "none", todo |-> Script(q)]] BY DEF Init
<1>2. \A q \in Calls : call[q] \in CallType /\ call[q].at = "start" /\ call[q].todo = Script(q)
  BY <1>1, ScriptOK DEF CallType
<1>3. call \in [Calls -> CallType] BY <1>1, <1>2
<1>4. Typed BY <1>3 DEF Init, Typed
<1>5. Page BY <1>2 DEF Init, Page, Storing, Calls
<1>6. Minute BY <1>2 DEF Init, Minute, Recent, Raising
<1>7. Hearing
  <2>1. \A q \in Calls : Raised(q, 0)
    <3> TAKE q \in Calls
    <3>1. call[q].todo = Script(q) /\ Script(q) \in Seq(Kinds) BY <1>2, ScriptOK
    <3>2. QED BY <3>1 DEF Raised
  <2>2. \A q \in Calls : 0 \in 0..Len(Script(q))
    <3> TAKE q \in Calls
    <3>1. Script(q) \in Seq(Kinds) BY ScriptOK
    <3>2. QED BY <3>1
  <2>3. \A q \in Soses : call[q].todo # <<>>
    <3> TAKE q \in Soses
    <3>1. q \in Calls /\ q \notin Reports BY FloorAssumption DEF Calls
    <3>2. call[q].todo = <<"sos">> BY <1>2, <3>1 DEF Script
    <3>3. QED BY <3>2
  <2>4. Progress BY <2>1, <2>2 DEF Progress
  <2>5. \A q \in Calls : Left(q) BY <1>2, <2>3 DEF Left
  <2>6. Rows BY DEF Init, Rows
  <2>7. QED BY <2>4, <2>5, <2>6 DEF Hearing
<1>8. QED BY <1>4, <1>5, <1>6, <1>7 DEF FloorInv

-----------------------------------------------------------------------------
(* The record of a call that goes on to another place.                     *)
LEMMA Moved ==
  ASSUME Typed, NEW q \in Calls,
         NEW a \in {"store", "feed", "look", "insert", "tell", "done", "failed"},
         call' = [call EXCEPT ![q].at = a]
  PROVE  \E r \in CallType : /\ call' = [call EXCEPT ![q] = r]
                             /\ r.at = a /\ r.todo = call[q].todo
<1>1. call[q] \in CallType /\ call \in [Calls -> CallType] BY DEF Typed
<1> DEFINE r == [call[q] EXCEPT !.at = a]
<1>2. r \in CallType /\ r.at = a /\ r.todo = call[q].todo BY <1>1 DEF CallType
<1>3. call' = [call EXCEPT ![q] = r] BY <1>1
<1> HIDE DEF r
<1>4. QED BY <1>2, <1>3

(* A call goes on to another place, with nothing broadcast: what is known  *)
(* stays known.                                                            *)
LEMMA MoveOn ==
  ASSUME FloorInv, NEW q \in Calls,
         NEW a \in {"store", "feed", "look", "insert", "tell", "done", "failed"},
         \E r \in CallType : /\ call' = [call EXCEPT ![q] = r]
                             /\ r.at = a /\ r.todo = call[q].todo,
         call[q].at \notin {"done", "failed"}, call[q].at = "tell" => a = "failed",
         a \in {"look", "insert", "tell"} => call[q].todo # <<>>, a = "done" => call[q].todo = <<>>,
         alerts \subseteq alerts', UNCHANGED raised, doubled \subseteq doubled'
  PROVE  /\ call' \in [Calls -> CallType] /\ Progress' /\ \A p \in Calls : Left(p)'
         /\ \A p \in Calls, k \in Kinds : Known(p, k) => Known(p, k)'
         /\ alerts' = alerts /\ a # "insert" => Minute'
         /\ alerts' = alerts => Hearing'
         /\ \A p \in Calls : /\ call'[p].at = IF p = q THEN a ELSE call[p].at
                             /\ call'[p].todo = call[p].todo
<1>1. call[q] \in CallType /\ call \in [Calls -> CallType] BY DEF FloorInv, Typed
<1> PICK r \in CallType : /\ call' = [call EXCEPT ![q] = r]
                          /\ r.at = a /\ r.todo = call[q].todo
  OBVIOUS
<1>2. call' \in [Calls -> CallType] BY <1>1
<1>3. \A p \in Calls : /\ call'[p].at = IF p = q THEN a ELSE call[p].at
                       /\ call'[p].todo = call[p].todo
  BY <1>1
<1>4. alerts' = alerts /\ a # "insert" => Minute'
  <2>1. a # "insert" => \A k : Raising(k)' \subseteq Raising(k) BY <1>3 DEF Raising, Kind
  <2>2. alerts' = alerts => \A k : Recent(k)' = Recent(k) BY DEF Recent
  <2>3. QED BY <2>1, <2>2 DEF FloorInv, Minute
<1>5. \A p \in Calls, k \in Kinds : Known(p, k) => Known(p, k)'
  <2> SUFFICES ASSUME NEW p \in Calls, NEW k \in Kinds, CutOff(p, k) PROVE CutOff(p, k)'
    BY DEF Known
  <2>1. call'[p].at \in {"tell", "failed"} /\ call'[p].todo = call[p].todo BY <1>3 DEF CutOff
  <2>2. \E e \in alerts' : e.by = p /\ e.kind = k BY DEF CutOff
  <2>3. QED BY <2>1, <2>2 DEF CutOff, Kind
<1>6. Progress'
  <2>1. \A p \in Calls, k \in Kinds : HeardFor(p, k) => HeardFor(p, k)' BY <1>5 DEF HeardFor
  <2>2. ASSUME NEW p \in Calls PROVE \E n \in 0..Len(Script(p)) : Raised(p, n)'
    <3>1. PICK n \in 0..Len(Script(p)) : Raised(p, n) BY DEF FloorInv, Hearing, Progress
    <3>2. \A i \in 1..n : Script(p)[i] \in Kinds BY <3>1, ScriptKinds
    <3>3. \A i \in 1..n : HeardFor(p, Script(p)[i])' BY <2>1, <3>1, <3>2 DEF Raised, HeardFor
    <3>4. call'[p].todo = call[p].todo BY <1>3
    <3>5. Raised(p, n)' BY <3>1, <3>3, <3>4 DEF Raised, Script, HeardFor
    <3>6. QED BY <3>5
  <2>3. QED BY <2>2 DEF Progress, Script
<1>7. \A p \in Calls : Left(p)' BY <1>3 DEF FloorInv, Hearing, Left
<1>8. alerts' = alerts => Hearing'
  <2>1. alerts' = alerts => Rows' BY <1>5 DEF FloorInv, Hearing, Rows, Typed
  <2>2. QED BY <1>6, <1>7, <2>1 DEF Hearing
<1>9. QED BY <1>2, <1>3, <1>4, <1>5, <1>6, <1>7, <1>8

-----------------------------------------------------------------------------
(* The steps of a snapshot.                                                *)
LEMMA IngestInv ==
  ASSUME FloorInv, NEW r \in Reports, NEW p \in Procs, Ingest(r, p)
  PROVE  FloorInv'
<1>1. /\ call[r].at = "start" /\ call' = [call EXCEPT ![r].at = "store", ![r].proc = p] /\ r \in Calls
      /\ memory' = [memory EXCEPT ![p] = r] /\ disturbed' = (Storing # {})
      /\ UNCHANGED <<redis, up, floor, alerts, raised, flips, doubled>>
  BY DEF Ingest, Calls
<1>2. \E s \in CallType : call' = [call EXCEPT ![r] = s] /\ s.at = "store" /\ s.todo = call[r].todo
  <2>1. call[r] \in CallType /\ call \in [Calls -> CallType] BY <1>1 DEF FloorInv, Typed
  <2> DEFINE s == [call[r] EXCEPT !.at = "store", !.proc = p]
  <2>2. s \in CallType /\ s.at = "store" /\ s.todo = call[r].todo BY <2>1 DEF CallType
  <2>3. call' = [call EXCEPT ![r] = s] BY <1>1, <2>1
  <2> HIDE DEF s
  <2>4. QED BY <2>2, <2>3
<1>3. /\ call' \in [Calls -> CallType] /\ Minute' /\ Hearing'
      /\ \A q \in Calls : call'[q].at = IF q = r THEN "store" ELSE call[q].at
  BY <1>1, <1>2, MoveOn
<1>4. Typed' BY <1>1, <1>3 DEF FloorInv, Typed
<1>5. Storing' = Storing \cup {r} BY <1>3 DEF Storing, Calls
<1>6. Page'
  <2> SUFFICES ASSUME Storing = {}
               PROVE  /\ \A q, s \in Storing' : q = s
                      /\ \A s \in Storing' : call'[s].at # "feed"
                      /\ Storing' # {}
    BY <1>1 DEF Page
  <2>1. QED BY <1>1, <1>3, <1>5
<1>7. QED BY <1>3, <1>4, <1>6 DEF FloorInv

LEMMA StoreInRedisInv ==
  ASSUME FloorInv, NEW r \in Reports, StoreInRedis(r)
  PROVE  FloorInv'
<1>1. /\ call[r].at = "store" /\ call' = [call EXCEPT ![r].at = "feed"] /\ r \in Calls
      /\ redis' = (IF up THEN r ELSE redis) /\ disturbed' = (disturbed \/ ~up)
      /\ UNCHANGED <<memory, up, floor, alerts, raised, flips, doubled>>
  BY DEF StoreInRedis, Calls
<1>2. /\ call' \in [Calls -> CallType] /\ Minute' /\ Hearing'
      /\ \A q \in Calls : call'[q].at = IF q = r THEN "feed" ELSE call[q].at
  <2>1. \E s \in CallType : call' = [call EXCEPT ![r] = s] /\ s.at = "feed" /\ s.todo = call[r].todo
    BY <1>1, Moved DEF FloorInv
  <2>2. QED BY <1>1, <2>1, MoveOn
<1>3. Typed'
  <2>1. disturbed' \in BOOLEAN /\ redis' \in Reports \cup {NoReport} BY <1>1 DEF FloorInv, Typed
  <2>2. QED BY <1>1, <1>2, <2>1 DEF FloorInv, Typed
<1>4. Storing' = Storing /\ r \in Storing BY <1>1, <1>2 DEF Storing, Calls
<1>5. Page'
  <2> SUFFICES ASSUME ~disturbed, up
               PROVE  /\ \A q, s \in Storing' : q = s
                      /\ \A s \in Storing' : redis' = s
                      /\ Storing' # {}
    BY <1>1 DEF FloorInv, Typed, Page
  <2>1. \A q, s \in Storing : q = s BY DEF FloorInv, Page
  <2>2. redis' = r BY <1>1
  <2>3. QED BY <1>4, <2>1, <2>2
<1>6. QED BY <1>2, <1>3, <1>5 DEF FloorInv

LEMMA BroadcastSnapshotInv ==
  ASSUME FloorInv, NEW r \in Reports, BroadcastSnapshot(r)
  PROVE  FloorInv'
<1> PICK a \in {"look", "done"} : a = (IF call[r].todo = <<>> THEN "done" ELSE "look") OBVIOUS
<1>1. /\ call[r].at = "feed" /\ call' = [call EXCEPT ![r].at = a] /\ r \in Calls
      /\ floor' = [p \in Procs |-> IF p = call[r].proc \/ up THEN r ELSE floor[p]]
      /\ disturbed' = (disturbed \/ ~up)
      /\ UNCHANGED <<memory, redis, up, alerts, raised, flips, doubled>>
  BY DEF BroadcastSnapshot, Calls
<1>2. /\ a \in {"store", "feed", "look", "insert", "tell", "done", "failed"} /\ a # "insert"
      /\ (a \in {"look", "insert", "tell"} => call[r].todo # <<>>) /\ (a = "done" => call[r].todo = <<>>)
  OBVIOUS
<1>3. /\ call' \in [Calls -> CallType] /\ Minute' /\ Hearing'
      /\ \A q \in Calls : call'[q].at = IF q = r THEN a ELSE call[q].at
  <2>1. \E s \in CallType : call' = [call EXCEPT ![r] = s] /\ s.at = a /\ s.todo = call[r].todo
    BY <1>1, <1>2, Moved DEF FloorInv
  <2>2. QED BY <1>1, <1>2, <2>1, MoveOn
<1>4. Typed'
  <2>1. disturbed' \in BOOLEAN /\ floor' \in [Procs -> Reports \cup {NoReport}]
    BY <1>1 DEF FloorInv, Typed
  <2>2. QED BY <1>1, <1>3, <2>1 DEF FloorInv, Typed
<1>5. r \in Storing /\ Storing' = Storing \ {r} BY <1>1, <1>2, <1>3 DEF Storing, Calls
<1>6. Page'
  <2> SUFFICES ASSUME ~disturbed, up
               PROVE  Storing' = {} /\ (\A p \in Procs : floor'[p] = redis') /\ redis' # NoReport
    BY <1>1 DEF FloorInv, Typed, Page
  <2>1. Storing' = {} /\ redis = r BY <1>1, <1>5 DEF FloorInv, Page
  <2>2. QED BY <1>1, <2>1, FloorAssumption
<1>7. QED BY <1>3, <1>4, <1>6 DEF FloorInv

LEMMA PageSame ==
  ASSUME Page, \A r \in Reports : \/ call'[r].at = call[r].at
                                 \/ {call[r].at, call'[r].at} \cap {"store", "feed"} = {},
         UNCHANGED <<memory, redis, floor, disturbed>>
  PROVE  Page'
<1>1. Storing' = Storing /\ \A r \in Storing : r \in Reports /\ call'[r].at = call[r].at
  BY DEF Storing
<1>2. QED BY <1>1 DEF Page

LEMMA ReportSosInv ==
  ASSUME FloorInv, NEW s \in Soses, ReportSos(s)
  PROVE  FloorInv'
<1>1. /\ call[s].at = "start" /\ call' = [call EXCEPT ![s].at = "look"] /\ s \in Calls
      /\ UNCHANGED <<alerts, raised, doubled, memory, redis, up, floor, flips, disturbed>>
  BY DEF ReportSos, Calls, snaps
<1>2. call[s].todo # <<>> BY <1>1 DEF FloorInv, Hearing, Left
<1>3. /\ call' \in [Calls -> CallType] /\ Minute' /\ Hearing'
      /\ \A q \in Calls : call'[q].at = IF q = s THEN "look" ELSE call[q].at
  <2>1. \E r \in CallType : call' = [call EXCEPT ![s] = r] /\ r.at = "look" /\ r.todo = call[s].todo
    BY <1>1, Moved DEF FloorInv
  <2>2. QED BY <1>1, <1>2, <2>1, MoveOn
<1>4. Typed' BY <1>1, <1>3 DEF FloorInv, Typed
<1>5. Page' BY <1>1, <1>3, PageSame DEF FloorInv, Calls
<1>6. QED BY <1>3, <1>4, <1>5 DEF FloorInv

LEMMA FailsInv ==
  ASSUME FloorInv, NEW q \in Calls, Fails(q)
  PROVE  FloorInv'
<1>1. /\ call[q].at \in {"store", "feed", "look", "insert", "tell"}
      /\ call' = [call EXCEPT ![q].at = "failed"] /\ disturbed' = (disturbed \/ q \in Storing)
      /\ UNCHANGED <<memory, redis, up, floor, alerts, raised, flips, doubled>>
  BY DEF Fails
<1>2. /\ call' \in [Calls -> CallType] /\ Minute' /\ Hearing'
      /\ \A p \in Calls : call'[p].at = IF p = q THEN "failed" ELSE call[p].at
  <2>1. \E r \in CallType : call' = [call EXCEPT ![q] = r] /\ r.at = "failed" /\ r.todo = call[q].todo
    BY <1>1, Moved DEF FloorInv
  <2>2. QED BY <1>1, <2>1, MoveOn
<1>3. Typed'
  <2>1. disturbed' \in BOOLEAN BY <1>1 DEF FloorInv, Typed
  <2>2. QED BY <1>1, <1>2, <2>1 DEF FloorInv, Typed
<1>4. Page'
  <2>1. CASE disturbed' BY <2>1 DEF Page
  <2>2. CASE ~disturbed'
    <3>1. q \notin Storing /\ disturbed' = disturbed BY <1>1, <2>2 DEF FloorInv, Typed
    <3>2. \A r \in Reports : \/ call'[r].at = call[r].at
                             \/ {call[r].at, call'[r].at} \cap {"store", "feed"} = {}
      BY <1>2, <3>1 DEF Storing, Calls
    <3>3. QED BY <1>1, <3>1, <3>2, PageSame DEF FloorInv
  <2>3. QED BY <2>1, <2>2
<1>5. QED BY <1>2, <1>3, <1>4 DEF FloorInv

-----------------------------------------------------------------------------
(* The last alert of a sequence leaves none.                               *)
LEMMA TailEmpty ==
  ASSUME NEW S, NEW t \in Seq(S), t # <<>>
  PROVE  Len(t) = 1 <=> Tail(t) = <<>>
<1>1. Len(t) \in Nat \ {0} BY EmptySeq
<1>2. Tail(t) \in Seq(S) /\ Len(Tail(t)) = Len(t) - 1 BY <1>1, HeadTailProperties
<1>3. Tail(t) # <<>> => Len(Tail(t)) # 0 BY <1>2, EmptySeq
<1>4. Tail(t) = <<>> => Len(Tail(t)) = 0
  <2>1. Len(<<>>) = 0 BY EmptySeq
  <2>2. QED BY <2>1, Zenon
<1>5. QED BY <1>1, <1>2, <1>3, <1>4

(* The next alert of a call is answered for, by a row or by its broadcast. *)
LEMMA AnsweredHears ==
  ASSUME FloorInv, NEW q \in Calls, Answered(q), call[q].at \in {"look", "tell"},
         raised \subseteq raised', alerts' = alerts,
         call[q].at = "tell" => <<q, Kind(q)>> \in raised',
         NEW k \in Kinds, k = Kind(q),
         IF k = "sos" THEN <<q, "sos">> \in raised'
                      ELSE \E p \in Calls : Known(p, k) \/ <<p, k>> \in raised'
  PROVE  /\ call' \in [Calls -> CallType] /\ Hearing'
         /\ \A p \in Calls \ {q} : call'[p] = call[p]
         /\ call'[q].at \in {"look", "done"}
<1> DEFINE todo == call[q].todo
           a == IF Len(todo) = 1 THEN "done" ELSE "look"
           r == [call[q] EXCEPT !.todo = Tail(@), !.at = a]
<1>1. call[q] \in CallType /\ call \in [Calls -> CallType] BY DEF FloorInv, Typed
<1>2. todo \in Seq(Kinds) /\ todo # <<>> BY <1>1 DEF FloorInv, Hearing, Left, CallType
<1>3. /\ Tail(todo) \in Seq(Kinds) /\ Len(Tail(todo)) = Len(todo) - 1 /\ Len(todo) \in Nat \ {0}
      /\ \A i \in 1..(Len(todo) - 1) : Tail(todo)[i] = todo[i + 1]
      /\ todo[1] = k
  BY <1>2 DEF Kind
<1>4. r \in CallType /\ r.at = a /\ r.todo = Tail(todo) BY <1>1, <1>3 DEF CallType
<1>5. call' = [call EXCEPT ![q] = r] BY <1>1 DEF Answered
<1>6. (a = "done" => Tail(todo) = <<>>) /\ (a = "look" => Tail(todo) # <<>>) /\ a \in {"look", "done"}
  <2>1. Len(todo) = 1 <=> Tail(todo) = <<>> BY <1>2, TailEmpty
  <2>2. QED BY <2>1
<1> HIDE DEF r, a, todo
<1>7. call' \in [Calls -> CallType] BY <1>1, <1>4, <1>5
<1>8. (\A p \in Calls \ {q} : call'[p] = call[p]) /\ call'[q].at = a /\ call'[q].todo = Tail(todo)
  BY <1>1, <1>4, <1>5
<1>k. \A p \in Calls, j \in Kinds : Known(p, j) => Known(p, j)'
  <2> SUFFICES ASSUME NEW p \in Calls, NEW j \in Kinds, Known(p, j) PROVE Known(p, j)' OBVIOUS
  <2>1. CASE <<p, j>> \in raised BY <2>1 DEF Known
  <2>2. CASE CutOff(p, j) /\ p = q
    <3>1. call[q].at = "tell" /\ Kind(q) = j BY <2>2 DEF CutOff
    <3>2. QED BY <2>2, <3>1 DEF Known
  <2>3. CASE CutOff(p, j) /\ p # q
    <3>1. call'[p] = call[p] BY <1>8, <2>3
    <3>2. QED BY <2>3, <3>1 DEF Known, CutOff, Kind
  <2>4. QED BY <2>1, <2>2, <2>3 DEF Known
<1>9. \A p \in Calls, j \in Kinds : HeardFor(p, j) => HeardFor(p, j)' BY <1>k DEF HeardFor
<1>10. ASSUME NEW p \in Calls, p # q PROVE \E n \in 0..Len(Script(p)) : Raised(p, n)'
  <2>1. PICK n \in 0..Len(Script(p)) : Raised(p, n) BY DEF FloorInv, Hearing, Progress
  <2>2. \A i \in 1..n : Script(p)[i] \in Kinds BY <2>1, ScriptKinds
  <2>3. \A i \in 1..n : HeardFor(p, Script(p)[i])' BY <1>9, <2>1, <2>2 DEF Raised
  <2>4. Raised(p, n)' BY <1>8, <1>10, <2>1, <2>3 DEF Raised, Script, HeardFor
  <2>5. QED BY <2>4
<1>11. \E n \in 0..Len(Script(q)) : Raised(q, n)'
  <2>1. PICK n \in 0..Len(Script(q)) : Raised(q, n) BY DEF FloorInv, Hearing, Progress
  <2>2. PICK L \in Nat : L = Len(Script(q))
    <3>1. Script(q) \in Seq(Kinds) BY ScriptOK
    <3>2. QED BY <3>1
  <2>3. PICK l \in Nat \ {0} : l = Len(todo) BY <1>3
  <2>4. l = L - n /\ \A i \in 1..l : todo[i] = Script(q)[n + i]
    BY <2>1, <2>2, <2>3 DEF Raised, todo
  <2>5. n \in Nat /\ n + 1 \in 0..L /\ l - 1 = L - (n + 1) BY <2>1, <2>2, <2>3, <2>4
  <2>6. \A i \in 1..(l - 1) : Tail(todo)[i] = Script(q)[(n + 1) + i]
    <3> TAKE i \in 1..(l - 1)
    <3>1. i + 1 \in 1..l /\ n + (i + 1) = (n + 1) + i BY <2>5
    <3>2. Tail(todo)[i] = todo[i + 1] BY <1>3, <2>3
    <3>3. todo[i + 1] = Script(q)[n + (i + 1)] BY <2>4, <3>1
    <3>4. QED BY <3>1, <3>2, <3>3
  <2>7. Script(q)[n + 1] = k
    <3>1. todo[1] = Script(q)[n + 1] BY <2>3, <2>4
    <3>2. QED BY <1>3, <3>1
  <2>8. \A i \in 1..(n + 1) : HeardFor(q, Script(q)[i])'
    <3> TAKE i \in 1..(n + 1)
    <3>1. CASE i = n + 1
      <4>1. HeardFor(q, k)' BY <1>k DEF HeardFor, Known
      <4>2. QED BY <2>7, <3>1, <4>1 DEF HeardFor
    <3>2. CASE i # n + 1
      <4>1. i \in 1..n BY <2>5, <3>2
      <4>2. HeardFor(q, Script(q)[i]) /\ Script(q)[i] \in Kinds BY <2>1, <4>1, ScriptKinds DEF Raised
      <4>3. QED BY <1>9, <4>2
    <3>3. QED BY <3>1, <3>2
  <2>9. Len(call'[q].todo) = Len(Script(q)) - (n + 1) BY <1>3, <1>8, <2>2, <2>3, <2>5
  <2>10. \A i \in 1..Len(call'[q].todo) : call'[q].todo[i] = Script(q)[(n + 1) + i]
    BY <1>3, <1>8, <2>3, <2>6
  <2>11. Raised(q, n + 1)' BY <2>8, <2>9, <2>10 DEF Raised, Script, HeardFor
  <2>12. QED BY <2>2, <2>5, <2>11
<1>12. ASSUME NEW p \in Calls PROVE Left(p)'
  BY <1>6, <1>8 DEF FloorInv, Hearing, Left
<1>13. Rows' BY <1>k DEF FloorInv, Hearing, Rows, Typed
<1>14. Progress' BY <1>10, <1>11 DEF Progress, Script
<1>15. QED BY <1>6, <1>7, <1>8, <1>12, <1>13, <1>14 DEF Hearing

LEMMA KindOK ==
  ASSUME FloorInv, NEW q \in Calls, call[q].at \in {"look", "insert", "tell"}
  PROVE  Kind(q) \in Kinds
<1>1. call[q].todo \in Seq(Kinds) /\ call[q].todo # <<>> BY DEF FloorInv, Typed, CallType, Hearing, Left
<1>2. QED BY <1>1, HeadTailProperties DEF Kind

(* createAlert looks: there is one, or this call will insert the only one. *)
LEMMA LookForRecentInv ==
  ASSUME FloorInv, NEW q \in Calls, LookForRecent(q)
  PROVE  FloorInv'
<1>1. call[q].at = "look" /\ call[q].todo # <<>> BY DEF LookForRecent, FloorInv, Hearing, Left
<1>2. PICK k \in Kinds : k = Kind(q) BY <1>1, KindOK
<1>3. /\ IF Recent(k) # {} /\ k # "sos" THEN Answered(q) ELSE call' = [call EXCEPT ![q].at = "insert"]
      /\ doubled' = (IF Raising(k) # {} THEN doubled \cup {k} ELSE doubled)
      /\ UNCHANGED <<alerts, raised, memory, redis, up, floor, flips, disturbed>>
  BY <1>2 DEF LookForRecent, snaps
<1>4. doubled \subseteq doubled' /\ doubled' \subseteq Kinds BY <1>3 DEF FloorInv, Typed
<1>6. \A j : Recent(j)' = Recent(j) BY <1>3 DEF Recent
<1>7. CASE Recent(k) # {} /\ k # "sos"
  <2>1. PICK a \in alerts : a.kind = k BY <1>7 DEF Recent
  <2>2. Known(a.by, k) /\ a.by \in Calls BY <2>1 DEF FloorInv, Hearing, Rows, Typed
  <2>3. /\ call' \in [Calls -> CallType] /\ Hearing'
        /\ \A p \in Calls \ {q} : call'[p] = call[p]
        /\ call'[q].at \in {"look", "done"}
    <3>1. Answered(q) /\ raised \subseteq raised' /\ alerts' = alerts BY <1>3, <1>7
    <3>2. QED BY <1>1, <1>2, <1>7, <2>2, <3>1, AnsweredHears
  <2>5. Typed' BY <1>3, <1>4, <2>3 DEF FloorInv, Typed
  <2>6. Page' BY <1>1, <1>3, <2>3, PageSame DEF FloorInv, Calls
  <2>7. \A j : Raising(j)' \subseteq Raising(j) BY <2>3 DEF Raising, Kind
  <2>8. Minute' BY <1>4, <1>6, <2>7 DEF FloorInv, Minute
  <2>9. QED BY <2>3, <2>5, <2>6, <2>8 DEF FloorInv
<1>8. CASE ~(Recent(k) # {} /\ k # "sos")
  <2>1. call' = [call EXCEPT ![q].at = "insert"] BY <1>3, <1>8
  <2>2. /\ call' \in [Calls -> CallType] /\ Hearing'
        /\ \A p \in Calls : /\ call'[p].at = IF p = q THEN "insert" ELSE call[p].at
                            /\ call'[p].todo = call[p].todo
    <3>1. \E r \in CallType : call' = [call EXCEPT ![q] = r] /\ r.at = "insert" /\ r.todo = call[q].todo
      BY <2>1, Moved DEF FloorInv
    <3>2. QED BY <1>1, <1>3, <1>4, <3>1, MoveOn
  <2>3. Typed' BY <1>3, <1>4, <2>2 DEF FloorInv, Typed
  <2>4. Page' BY <1>1, <1>3, <2>2, PageSame DEF FloorInv, Calls
  <2>5. /\ \A j : j # k => Raising(j)' \subseteq Raising(j)
        /\ Raising(k)' \subseteq Raising(k) \cup {q}
    BY <1>2, <2>2 DEF Raising, Kind
  <2>6. k = "sos" \/ k \in doubled' \/ (Raising(k) = {} /\ Recent(k) = {}) BY <1>3, <1>8
  <2>7. Minute'
    <3> SUFFICES ASSUME NEW j \in Kinds \ ({"sos"} \cup doubled')
                 PROVE  /\ \A a, b \in Recent(j)' : a = b
                        /\ \A p, r \in Raising(j)' : p = r
                        /\ Raising(j)' # {} => Recent(j)' = {}
      BY DEF Minute
    <3>1. CASE j = k BY <1>6, <2>5, <2>6, <3>1
    <3>2. CASE j # k BY <1>4, <1>6, <2>5, <3>2 DEF FloorInv, Minute
    <3>3. QED BY <3>1, <3>2
  <2>8. QED BY <2>2, <2>3, <2>4, <2>7 DEF FloorInv
<1>9. QED BY <1>7, <1>8

(* The insert: the row is there, and the call about to broadcast it.       *)
LEMMA InsertAlertInv ==
  ASSUME FloorInv, NEW q \in Calls, InsertAlert(q)
  PROVE  FloorInv'
<1>1. call[q].at = "insert" /\ call[q].todo # <<>> BY DEF InsertAlert, FloorInv, Hearing, Left
<1>2. PICK k \in Kinds : k = Kind(q) BY <1>1, KindOK
<1> DEFINE new == [by |-> q, kind |-> k, recent |-> TRUE, acked |-> FALSE]
<1>3. /\ alerts' = alerts \cup {new} /\ call' = [call EXCEPT ![q].at = "tell"]
      /\ UNCHANGED <<raised, doubled, memory, redis, up, floor, flips, disturbed>>
  BY <1>2 DEF InsertAlert, snaps
<1>n. /\ new \in [by : Calls, kind : Kinds, recent : BOOLEAN, acked : BOOLEAN]
      /\ new.by = q /\ new.kind = k /\ new.recent
  OBVIOUS
<1> HIDE DEF new
<1>4. alerts \subseteq alerts' /\ new \in alerts' BY <1>3
<1>5. /\ call' \in [Calls -> CallType] /\ Progress' /\ \A p \in Calls : Left(p)'
      /\ \A p \in Calls, j \in Kinds : Known(p, j) => Known(p, j)'
      /\ \A p \in Calls : /\ call'[p].at = IF p = q THEN "tell" ELSE call[p].at
                          /\ call'[p].todo = call[p].todo
  <2>1. \E r \in CallType : call' = [call EXCEPT ![q] = r] /\ r.at = "tell" /\ r.todo = call[q].todo
    BY <1>3, Moved DEF FloorInv
  <2>2. QED BY <1>1, <1>3, <1>4, <2>1, MoveOn
<1>6. Hearing'
  <2>1. Known(q, k)'
    <3>1. call'[q].at = "tell" /\ call'[q].todo = call[q].todo BY <1>5
    <3>2. CutOff(q, k)' BY <1>n, <1>1, <1>2, <1>4, <3>1 DEF CutOff, Kind
    <3>3. QED BY <3>2 DEF Known
  <2>2. \A a \in alerts : Known(a.by, a.kind)' BY <1>5 DEF FloorInv, Hearing, Rows, Typed
  <2>3. Rows' BY <1>n, <1>3, <2>1, <2>2 DEF Rows
  <2>4. QED BY <1>5, <2>3 DEF Hearing
<1>7. Typed' BY <1>n, <1>3, <1>5 DEF FloorInv, Typed
<1>8. Page' BY <1>1, <1>3, <1>5, PageSame DEF FloorInv, Calls
<1>9. /\ \A j : j # k => Recent(j)' = Recent(j)
      /\ Recent(k)' = Recent(k) \cup {new}
  BY <1>n, <1>3 DEF Recent
<1>10. \A j : Raising(j)' \subseteq Raising(j) \ {q} BY <1>5 DEF Raising, Kind
<1>11. q \in Raising(k) BY <1>1, <1>2 DEF Raising
<1>12. Minute'
  <2> SUFFICES ASSUME NEW j \in Kinds \ ({"sos"} \cup doubled)
               PROVE  /\ \A a, b \in Recent(j)' : a = b
                      /\ \A p, r \in Raising(j)' : p = r
                      /\ Raising(j)' # {} => Recent(j)' = {}
    BY <1>3 DEF Minute
  <2>1. /\ \A a, b \in Recent(j) : a = b
        /\ \A p, r \in Raising(j) : p = r
        /\ Raising(j) # {} => Recent(j) = {}
    BY DEF FloorInv, Minute
  <2>2. CASE j = k BY <1>9, <1>10, <1>11, <2>1, <2>2
  <2>3. CASE j # k BY <1>9, <1>10, <2>1, <2>3
  <2>4. QED BY <2>2, <2>3
<1>13. QED BY <1>6, <1>7, <1>8, <1>12 DEF FloorInv

(* The broadcast: the alert of the row is heard, and the call goes on.     *)
LEMMA BroadcastAlertInv ==
  ASSUME FloorInv, NEW q \in Calls, BroadcastAlert(q)
  PROVE  FloorInv'
<1>1. call[q].at = "tell" BY DEF BroadcastAlert
<1>2. PICK k \in Kinds : k = Kind(q) BY <1>1, KindOK
<1>3. /\ raised' = raised \cup {<<q, k>>} /\ Answered(q)
      /\ UNCHANGED <<alerts, doubled, memory, redis, up, floor, flips, disturbed>>
  BY <1>2 DEF BroadcastAlert, snaps
<1>4. raised \subseteq raised' /\ <<q, k>> \in raised' /\ <<q, k>> \in Calls \X Kinds BY <1>3
<1>5. /\ call' \in [Calls -> CallType] /\ Hearing'
      /\ \A p \in Calls \ {q} : call'[p] = call[p]
      /\ call'[q].at \in {"look", "done"}
  <2>1. CASE k = "sos" BY <1>1, <1>2, <1>3, <1>4, <2>1, AnsweredHears
  <2>2. CASE k # "sos" BY <1>1, <1>2, <1>3, <1>4, <2>2, AnsweredHears
  <2>3. QED BY <2>1, <2>2
<1>6. Typed' BY <1>3, <1>4, <1>5 DEF FloorInv, Typed
<1>7. Page' BY <1>1, <1>3, <1>5, PageSame DEF FloorInv, Calls
<1>8. (\A j : Recent(j)' = Recent(j)) /\ \A j : Raising(j)' \subseteq Raising(j)
  BY <1>3, <1>5 DEF Recent, Raising, Kind
<1>9. Minute' BY <1>3, <1>8 DEF FloorInv, Minute
<1>10. QED BY <1>5, <1>6, <1>7, <1>9 DEF FloorInv

(* An alert is acknowledged, or grows old: the row is rewritten.           *)
LEMMA RewriteInv ==
  ASSUME FloorInv, NEW a \in alerts,
         NEW b \in [by : Calls, kind : Kinds, recent : BOOLEAN, acked : BOOLEAN],
         b.by = a.by, b.kind = a.kind, b.recent => a.recent,
         alerts' = (alerts \ {a}) \cup {b},
         UNCHANGED <<call, raised, doubled, snaps>>
  PROVE  FloorInv'
<1>1. UNCHANGED <<memory, redis, up, floor, flips, disturbed>> BY DEF snaps
<1>2. Typed' BY <1>1 DEF FloorInv, Typed
<1>3. Page' BY <1>1 DEF FloorInv, Page, Storing
<1>4. \A p \in Calls, k \in Kinds : Known(p, k)' <=> Known(p, k)
  <2> TAKE p \in Calls, k \in Kinds
  <2>1. (\E e \in alerts' : e.by = p /\ e.kind = k) <=> (\E e \in alerts : e.by = p /\ e.kind = k)
    OBVIOUS
  <2>2. QED BY <2>1 DEF Known, CutOff, Kind
<1>5. Hearing'
  <2>1. Rows' BY <1>4 DEF FloorInv, Hearing, Rows, Typed
  <2>2. Progress'
    <3>1. \A p \in Calls, k \in Kinds : HeardFor(p, k) => HeardFor(p, k)' BY <1>4 DEF HeardFor
    <3>2. ASSUME NEW p \in Calls PROVE \E n \in 0..Len(Script(p)) : Raised(p, n)'
      <4>1. PICK n \in 0..Len(Script(p)) : Raised(p, n) BY DEF FloorInv, Hearing, Progress
      <4>2. \A i \in 1..n : Script(p)[i] \in Kinds BY <4>1, ScriptKinds
      <4>3. \A i \in 1..n : HeardFor(p, Script(p)[i])' BY <3>1, <4>1, <4>2 DEF Raised
      <4>4. Raised(p, n)' BY <4>1, <4>3 DEF Raised, Script, HeardFor
      <4>5. QED BY <4>4
    <3>3. QED BY <3>2 DEF Progress, Script
  <2>3. \A p \in Calls : Left(p)' BY DEF FloorInv, Hearing, Left
  <2>4. QED BY <2>1, <2>2, <2>3 DEF Hearing
<1>6. \A k : Raising(k)' = Raising(k) BY DEF Raising, Kind
<1>7. Minute'
  <2> SUFFICES ASSUME NEW j \in Kinds \ ({"sos"} \cup doubled)
               PROVE  /\ \A e, f \in Recent(j)' : e = f
                      /\ \A p, r \in Raising(j)' : p = r
                      /\ Raising(j)' # {} => Recent(j)' = {}
    BY DEF Minute
  <2>1. /\ \A e, f \in Recent(j) : e = f
        /\ \A p, r \in Raising(j) : p = r
        /\ Raising(j) # {} => Recent(j) = {}
    BY DEF FloorInv, Minute
  <2>2. /\ \A e \in Recent(j)' : (e \in Recent(j) /\ e # a) \/ (e = b /\ a \in Recent(j))
    BY DEF Recent
  <2>3. QED BY <1>6, <2>1, <2>2
<1>8. QED BY <1>2, <1>3, <1>5, <1>7 DEF FloorInv

LEMMA AlertInv ==
  ASSUME FloorInv, NEW a \in alerts, AcknowledgeAlert(a) \/ AlertAges(a)
  PROVE  FloorInv'
<1>1. a \in [by : Calls, kind : Kinds, recent : BOOLEAN, acked : BOOLEAN] BY DEF FloorInv, Typed
<1> DEFINE b == [a EXCEPT !.acked = TRUE]  c == [a EXCEPT !.recent = FALSE]
<1>2. /\ b \in [by : Calls, kind : Kinds, recent : BOOLEAN, acked : BOOLEAN]
      /\ b.by = a.by /\ b.kind = a.kind /\ b.recent = a.recent
      /\ c \in [by : Calls, kind : Kinds, recent : BOOLEAN, acked : BOOLEAN]
      /\ c.by = a.by /\ c.kind = a.kind /\ ~c.recent
  BY <1>1
<1>3. /\ alerts' = (alerts \ {a}) \cup {b} \/ alerts' = (alerts \ {a}) \cup {c}
      /\ UNCHANGED <<call, raised, doubled, snaps>>
  BY DEF AcknowledgeAlert, AlertAges
<1> HIDE DEF b, c
<1>4. QED BY <1>2, <1>3, RewriteInv

-----------------------------------------------------------------------------
LEMMA HearingSame ==
  ASSUME Hearing, UNCHANGED <<call, alerts, raised>>
  PROVE  Hearing'
<1>1. \A p, k : Known(p, k)' <=> Known(p, k) BY DEF Known, CutOff, Kind
<1>2. Rows' BY <1>1 DEF Hearing, Rows
<1>3. \A p, k : HeardFor(p, k)' <=> HeardFor(p, k) BY <1>1 DEF HeardFor
<1>4. \A p, n : Raised(p, n)' <=> Raised(p, n) BY <1>3 DEF Raised, Script
<1>5. Progress' BY <1>4 DEF Hearing, Progress, Script
<1>6. QED BY <1>2, <1>5 DEF Hearing, Left

(* Redis fails, recovers, or lets the snapshot expire.                     *)
LEMMA RedisInv ==
  ASSUME FloorInv, RedisFlips \/ SnapshotExpires
  PROVE  FloorInv'
<1>1. /\ UNCHANGED <<call, memory, floor, alerts, raised, doubled>>
      /\ \/ redis' = redis /\ up' = ~up /\ disturbed' = disturbed
         \/ redis' = NoReport /\ up' = up /\ disturbed' = TRUE
  BY DEF RedisFlips, SnapshotExpires
<1>2. Typed' BY <1>1 DEF FloorInv, Typed
<1>3. Page' BY <1>1 DEF FloorInv, Page, Storing
<1>4. Minute' BY <1>1 DEF FloorInv, Minute, Recent, Raising, Kind
<1>5. Hearing' BY <1>1, HearingSame DEF FloorInv
<1>6. QED BY <1>2, <1>3, <1>4, <1>5 DEF FloorInv

LEMMA NextInv == FloorInv /\ [Next]_vars => FloorInv'
<1> SUFFICES ASSUME FloorInv, [Next]_vars PROVE FloorInv' OBVIOUS
<1>1. CASE UNCHANGED vars
  <2>1. Typed' BY <1>1 DEF vars, FloorInv, Typed
  <2>2. Page' BY <1>1 DEF vars, FloorInv, Page, Storing
  <2>3. Minute' BY <1>1 DEF vars, FloorInv, Minute, Recent, Raising, Kind
  <2>4. Hearing' BY <1>1, HearingSame DEF vars, FloorInv
  <2>5. QED BY <2>1, <2>2, <2>3, <2>4 DEF FloorInv
<1>2. QED BY <1>1, IngestInv, StoreInRedisInv, BroadcastSnapshotInv, ReportSosInv, LookForRecentInv,
             InsertAlertInv, BroadcastAlertInv, FailsInv, AlertInv, RedisInv
          DEF Next, Snapshot, CreateAlert

-----------------------------------------------------------------------------
(* Every variable keeps its type, and a call that looks for an alert,      *)
(* inserts or broadcasts one has one to raise.                             *)
THEOREM TypeCorrect == Spec => []TypeOK
<1>1. FloorInv => TypeOK
  BY DEF FloorInv, Typed, CallType, Hearing, Left, TypeOK
<1>2. QED BY InitInv, NextInv, <1>1, PTL DEF Spec

(* MonitorSnapshotStore.get answers, on every process, with the snapshot   *)
(* every floor was sent last, once one was stored and broadcast undisturbed*)
(* (whatever failed before it), until Redis fails or expires it.           *)
THEOREM PageSafety == Spec => []PageMatchesFloor
<1>1. FloorInv => PageMatchesFloor
  <2> SUFFICES ASSUME FloorInv, Storing = {}, up, ~disturbed, NEW p \in Procs, NEW q \in Procs
               PROVE  Get(p) = floor[q]
    BY DEF PageMatchesFloor
  <2>1. floor[q] = redis /\ (redis = NoReport => memory[p] = NoReport) BY DEF FloorInv, Page
  <2>2. QED BY <2>1 DEF Get
<1>2. QED BY InitInv, NextInv, <1>1, PTL DEF Spec

(* MonitorService.createAlert keeps one recent alert of a kind, besides    *)
(* the SOS, unless one was looked for while another was being inserted.    *)
THEOREM MinuteSafety == Spec => []OneAlertAMinute
<1>1. FloorInv => OneAlertAMinute
  <2> SUFFICES ASSUME FloorInv, NEW k \in Kinds \ ({"sos"} \cup doubled)
               PROVE  Cardinality(Recent(k)) <= 1
    BY DEF OneAlertAMinute
  <2>1. \A a, b \in Recent(k) : a = b BY DEF FloorInv, Minute
  <2>2. CASE Recent(k) = {} BY <2>2, FS_EmptySet
  <2>3. CASE Recent(k) # {}
    <3>1. PICK a \in Recent(k) : Recent(k) = {a} BY <2>1, <2>3
    <3>2. Cardinality({a}) = 1 BY FS_Singleton
    <3>3. Cardinality(Recent(k)) = 1 BY <3>1, <3>2, Zenon
    <3>4. QED BY <3>3
  <2>4. QED BY <2>2, <2>3
<1>2. QED BY InitInv, NextInv, <1>1, PTL DEF Spec

(* An SOS that was answered was broadcast, and so was each alert of an     *)
(* answered snapshot, by its own call or by another, unless that one is at *)
(* the await between its row and the broadcast, or died there: createAlert *)
(* answers by the row.  For reports with any sequence of alerts.           *)
THEOREM AnswerSafety == Spec => []AnsweredIsBroadcast
<1>1. FloorInv => AnsweredIsBroadcast
  <2> SUFFICES ASSUME FloorInv PROVE AnsweredIsBroadcast OBVIOUS
  <2>1. ASSUME NEW q \in Calls, call[q].at = "done"
        PROVE  \A i \in 1..Len(Script(q)) : HeardFor(q, Script(q)[i])
    <3>1. PICK n \in 0..Len(Script(q)) : Raised(q, n) BY DEF FloorInv, Hearing, Progress
    <3>2. PICK L \in Nat : L = Len(Script(q))
      <4>1. Script(q) \in Seq(Kinds) BY ScriptOK
      <4>2. QED BY <4>1
    <3>3. Len(call[q].todo) = 0
      <4>1. call[q].todo = <<>> BY <2>1 DEF FloorInv, Hearing, Left
      <4>2. Len(<<>>) = 0 BY EmptySeq
      <4>3. QED BY <4>1, <4>2, Zenon
    <3>4. n = L BY <3>1, <3>2, <3>3 DEF Raised
    <3>5. QED BY <3>1, <3>2, <3>4 DEF Raised
  <2>2. ASSUME NEW s \in Soses, call[s].at = "done" PROVE <<s, "sos">> \in raised
    <3>1. s \in Calls /\ s \notin Reports BY FloorAssumption DEF Calls
    <3>2. Script(s) = <<"sos">> BY <3>1 DEF Script
    <3>3. 1 \in 1..Len(Script(s)) /\ Script(s)[1] = "sos" BY <3>2
    <3>4. QED BY <2>1, <2>2, <3>1, <3>3 DEF HeardFor
  <2>3. ASSUME NEW r \in Reports, call[r].at = "done", NEW i \in DOMAIN AlertsOf[r]
        PROVE  IF AlertsOf[r][i] = "sos" THEN <<r, "sos">> \in raised
               ELSE \E q \in Calls : <<q, AlertsOf[r][i]>> \in raised \/ CutOff(q, AlertsOf[r][i])
    <3>1. r \in Calls /\ Script(r) = AlertsOf[r] BY DEF Calls, Script
    <3>2. AlertsOf[r] \in Seq(Kinds) BY FloorAssumption
    <3>3. i \in 1..Len(Script(r)) BY <3>1, <3>2
    <3>4. HeardFor(r, AlertsOf[r][i]) BY <2>1, <2>3, <3>1, <3>3
    <3>5. QED BY <3>4 DEF HeardFor, Known
  <2>4. QED BY <2>2, <2>3 DEF AnsweredIsBroadcast
<1>2. QED BY InitInv, NextInv, <1>1, PTL DEF Spec
=============================================================================
