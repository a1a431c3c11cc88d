----------------------- MODULE FeedbackPipelineProofs -----------------------
(***************************************************************************)
(* Theorems about FeedbackPipeline, for any sets of windows, meetings and  *)
(* viewers, any finite sets of calls and of joins, any history length.     *)
(***************************************************************************)
EXTENDS FeedbackPipeline, FiniteSetTheorems, TLAPS

CallType == [step : {"unused", "lookup", "emit", "done", "failed"},
             window : Windows \cup {"none"}, found : Feedback \cup {NoFeedback}]
JoinType == [step : {"unused", "load", "ack", "done"}, viewer : Viewers \cup {"none"},
             meeting : Meetings \cup {NoRoom}, recent : SUBSET Feedback]

(* A call that was made has a window, a join that was sent a viewer and a  *)
(* meeting; a call emits at most one new feedback.                         *)
Asked ==
  /\ \A c \in Calls : call[c].step # "unused" => call[c].window \in Windows
  /\ \A j \in Joins : join[j].step \in {"load", "ack"} =>
       join[j].viewer \in Viewers /\ join[j].meeting \in Meetings
Emitted == {c \in Calls : call[c].step = "done"}
Counting == IsFiniteSet(sent) /\ Cardinality(sent) <= Cardinality(Emitted)
Base == TypeOK /\ Asked /\ Counting

(* Of a window that was not retried early there is one row, one insert     *)
(* under way or one call about to start it; what was broadcast has a row,  *)
(* or is getting one, unless an insert of its window failed.               *)
Stored == rows \cup flying
Starting(w) == {c \in Calls : /\ call[c].step = "emit" /\ call[c].window = w
                              /\ call[c].found = NoFeedback}
OneOrigin ==
  \A w \in Windows \ early :
    /\ \A e, f \in Stored : e.window = w /\ f.window = w => e = f
    /\ \A c \in Starting(w) : \A e \in Stored : e.window # w
    /\ \A c, d \in Starting(w) : c = d
Accounted == Stored \subseteq sent /\ \A e \in sent : e.window \notin unsaved => e \in Stored
Idempotent == OneOrigin /\ Accounted

(* A viewer that did not join again too early waits for at most one join,  *)
(* the one that put it in its room.  Once its history is loaded, what is   *)
(* being inserted was sent to it, or was when the history was loaded; and  *)
(* the newest rows were, or are in the history it is about to be sent.     *)
OneJoin ==
  \A v \in Viewers \ hasty : \A i, j \in Waiting(v) : i = j /\ join[j].meeting = room[v]
Loaded(v) == v \notin hasty /\ room[v] # NoRoom /\ \A j \in Waiting(v) : join[j].step = "ack"
Sees(v, e) == e \in received[v] \cup excused[v]
Covered ==
  \A v \in Viewers : Loaded(v) =>
    /\ \A e \in Of(flying, room[v]) : Sees(v, e)
    /\ \A e \in Newest(Of(rows, room[v])) :
         Sees(v, e) \/ \E j \in Waiting(v) : e \in join[j].recent
Served == OneJoin /\ Covered /\ AckedRoom

PipelineInv == Base /\ Idempotent /\ Served

-----------------------------------------------------------------------------
LEMMA NoFeedbackOK == NoFeedback \notin Feedback
BY DEF NoFeedback, Feedback

LEMMA EmittedFinite ==
  /\ IsFiniteSet(Emitted) /\ Cardinality(Emitted) \in Nat
  /\ Cardinality(Calls) \in Nat /\ Cardinality(Emitted) <= Cardinality(Calls)
<1>1. IsFiniteSet(Calls) BY FiniteAssumption
<1>2. Emitted \subseteq Calls BY DEF Emitted
<1>3. QED BY <1>1, <1>2, FS_Subset, FS_CardinalityType

(* The newest of more rows are among the newest of fewer, and the new one. *)
LEMMA NewestOfMore ==
  ASSUME NEW es, IsFiniteSet(es), NEW n
  PROVE  Newest(es \cup {n}) \subseteq Newest(es) \cup {n}
<1> SUFFICES ASSUME NEW e \in Newest(es \cup {n}), e # n PROVE e \in Newest(es) OBVIOUS
<1> DEFINE old == {f \in es : f.id > e.id}
           new == {f \in es \cup {n} : f.id > e.id}
<1>1. e \in es /\ Cardinality(new) < RecentLimit BY DEF Newest
<1>2. IsFiniteSet(es \cup {n}) BY FS_AddElement
<1>3. new \subseteq es \cup {n} /\ old \subseteq new OBVIOUS
<1>4. IsFiniteSet(new) BY <1>2, <1>3, FS_Subset
<1>5. IsFiniteSet(old) /\ Cardinality(old) <= Cardinality(new) BY <1>3, <1>4, FS_Subset
<1>6. Cardinality(old) \in Nat /\ Cardinality(new) \in Nat BY <1>4, <1>5, FS_CardinalityType
<1>7. Cardinality(old) < RecentLimit BY <1>1, <1>5, <1>6, LimitAssumption
<1>8. QED BY <1>1, <1>7 DEF Newest

LEMMA InitInv == Init => PipelineInv
<1> SUFFICES ASSUME Init PROVE PipelineInv OBVIOUS
<1>1. Cardinality({}) = 0 /\ IsFiniteSet({}) BY FS_EmptySet
<1>2. TypeOK BY DEF Init, TypeOK
<1>3. Counting BY <1>1, EmittedFinite DEF Init, Counting
<1>4. Base BY <1>2, <1>3 DEF Init, Base, Asked
<1>5. Idempotent BY DEF Init, Idempotent, OneOrigin, Accounted, Stored, Starting
<1>6. Served BY DEF Init, Served, OneJoin, Covered, Loaded, AckedRoom, Settled, Waiting
<1>7. QED BY <1>4, <1>5, <1>6 DEF PipelineInv

-----------------------------------------------------------------------------
(* What a step of the calls leaves alone, it leaves true; and a step of    *)
(* the sockets.                                                            *)
LEMMA ServedSame ==
  ASSUME Served, UNCHANGED <<rows, flying, received, viewing>>
  PROVE  Served'
<1>1. UNCHANGED <<rows, flying, received, room, join, acked, excused, hasty>> BY DEF viewing
<1>2. \A v : Waiting(v)' = Waiting(v) BY <1>1 DEF Waiting
<1>3. QED BY <1>1, <1>2 DEF Served, OneJoin, Covered, Loaded, Sees, AckedRoom, Settled, Waiting

LEMMA CallsSame ==
  ASSUME Base, Idempotent, UNCHANGED <<rows, calling>>
  PROVE  /\ Idempotent' /\ Counting'
         /\ \A c \in Calls : call'[c].step # "unused" => call'[c].window \in Windows
<1>1. UNCHANGED <<rows, call, flying, sent, early, unsaved>> BY DEF calling
<1>2. Emitted' = Emitted BY <1>1 DEF Emitted
<1>3. Cardinality(Emitted') = Cardinality(Emitted) BY <1>2, Zenon
<1>4. Counting' BY <1>1, <1>3 DEF Base, Counting
<1>5. Idempotent' BY <1>1 DEF Idempotent, OneOrigin, Accounted, Stored, Starting
<1>6. QED BY <1>1, <1>4, <1>5 DEF Base, Asked

(* A call moves on, without a broadcast.                                   *)
LEMMA CallBase ==
  ASSUME Base, NEW c \in Calls, NEW r \in CallType, call' = [call EXCEPT ![c] = r],
         r.window \in Windows, r.step # "done", call[c].step # "done",
         early' \subseteq Windows, UNCHANGED <<flying, rows, received, sent, unsaved, viewing>>
  PROVE  Base'
<1>1. UNCHANGED <<flying, rows, received, sent, unsaved, room, join, acked, excused, hasty>> BY DEF viewing
<1>2. TypeOK' BY <1>1 DEF Base, TypeOK, CallType
<1>3. \A d \in Calls : call'[d] = IF d = c THEN r ELSE call[d] BY DEF Base, TypeOK
<1>4. Asked' BY <1>1, <1>3 DEF Base, Asked
<1>5. Emitted' = Emitted BY <1>3 DEF Emitted
<1>6. Cardinality(Emitted') = Cardinality(Emitted) BY <1>5, Zenon
<1>7. Counting' BY <1>1, <1>6 DEF Base, Counting
<1>8. QED BY <1>2, <1>4, <1>7 DEF Base

LEMMA PublishInv ==
  ASSUME PipelineInv, NEW c \in Calls, Publish(c)
  PROVE  PipelineInv'
<1>1. PICK w \in Windows : call' = [call EXCEPT ![c].step = "lookup", ![c].window = w]
  BY DEF Publish
<1> DEFINE r == [call[c] EXCEPT !.step = "lookup", !.window = w]
<1>2. call[c] \in CallType /\ call \in [Calls -> CallType] BY DEF PipelineInv, Base, TypeOK, CallType
<1>3. r \in CallType /\ r.step = "lookup" /\ r.window = w BY <1>2 DEF CallType
<1>4. call' = [call EXCEPT ![c] = r] BY <1>1, <1>2
<1>5. call[c].step = "unused" /\ UNCHANGED <<flying, rows, received, sent, early, unsaved, viewing>>
  BY DEF Publish
<1> HIDE DEF r
<1>6. early' \subseteq Windows BY <1>5 DEF PipelineInv, Base, TypeOK
<1>7. Base' BY <1>3, <1>4, <1>5, <1>6, CallBase DEF PipelineInv
<1>8. \A d \in Calls : call'[d] = IF d = c THEN r ELSE call[d] BY <1>2, <1>4
<1>9. \A u : Starting(u)' = Starting(u) BY <1>3, <1>5, <1>8 DEF Starting
<1>10. Idempotent' BY <1>5, <1>9 DEF PipelineInv, Idempotent, OneOrigin, Accounted, Stored
<1>11. QED BY <1>5, <1>7, <1>10, ServedSame DEF PipelineInv

LEMMA LookupFailsInv ==
  ASSUME PipelineInv, NEW c \in Calls, LookupFails(c)
  PROVE  PipelineInv'
<1> DEFINE r == [call[c] EXCEPT !.step = "failed"]
<1>1. call[c] \in CallType /\ call \in [Calls -> CallType] BY DEF PipelineInv, Base, TypeOK, CallType
<1>2. r \in CallType /\ r.step = "failed" /\ r.window = call[c].window BY <1>1 DEF CallType
<1>3. call' = [call EXCEPT ![c] = r] BY <1>1 DEF LookupFails
<1>4. call[c].step = "lookup" /\ UNCHANGED <<flying, rows, received, sent, early, unsaved, viewing>>
  BY DEF LookupFails
<1> HIDE DEF r
<1>5. r.window \in Windows BY <1>2, <1>4 DEF PipelineInv, Base, Asked
<1>6. early' \subseteq Windows BY <1>4 DEF PipelineInv, Base, TypeOK
<1>7. Base' BY <1>2, <1>3, <1>4, <1>5, <1>6, CallBase DEF PipelineInv
<1>8. \A d \in Calls : call'[d] = IF d = c THEN r ELSE call[d] BY <1>1, <1>3
<1>9. \A u : Starting(u)' = Starting(u) BY <1>2, <1>4, <1>8 DEF Starting
<1>10. Idempotent' BY <1>4, <1>9 DEF PipelineInv, Idempotent, OneOrigin, Accounted, Stored
<1>11. QED BY <1>4, <1>7, <1>10, ServedSame DEF PipelineInv

LEMMA LookupInv ==
  ASSUME PipelineInv, NEW c \in Calls, Lookup(c)
  PROVE  PipelineInv'
<1>0. PICK w \in Windows : w = call[c].window BY DEF Lookup, PipelineInv, Base, Asked
<1>1. PICK e \in IF Saved(w) = {} THEN {NoFeedback} ELSE Saved(w) :
        call' = [call EXCEPT ![c].step = "emit", ![c].found = e]
  BY <1>0 DEF Lookup
<1> DEFINE r == [call[c] EXCEPT !.step = "emit", !.found = e]
<1>2. call[c] \in CallType /\ call \in [Calls -> CallType] BY DEF PipelineInv, Base, TypeOK, CallType
<1>3. e \in Feedback \cup {NoFeedback} /\ (e = NoFeedback => Saved(w) = {})
  BY <1>1, NoFeedbackOK DEF Saved, PipelineInv, Base, TypeOK
<1>4. r \in CallType /\ r.step = "emit" /\ r.window = w /\ r.found = e
  BY <1>0, <1>2, <1>3 DEF CallType
<1>5. call' = [call EXCEPT ![c] = r] BY <1>1, <1>2
<1>6. call[c].step = "lookup" /\ UNCHANGED <<flying, rows, received, sent, unsaved, viewing>>
  BY DEF Lookup
<1>7. early' = early \cup (IF Saved(w) = {} /\ Underway(w) THEN {w} ELSE {}) BY <1>0 DEF Lookup
<1> HIDE DEF r
<1>9. early' \subseteq Windows /\ early \subseteq early' BY <1>7 DEF PipelineInv, Base, TypeOK
<1>10. Base' BY <1>4, <1>5, <1>6, <1>9, CallBase DEF PipelineInv
<1>11. \A d \in Calls : call'[d] = IF d = c THEN r ELSE call[d] BY <1>2, <1>5
<1>12. \A u : u # w \/ e # NoFeedback => Starting(u)' = Starting(u)
  BY <1>4, <1>6, <1>11 DEF Starting
<1>13. Starting(w)' \subseteq Starting(w) \cup {c} BY <1>11 DEF Starting
<1>14. e = NoFeedback /\ w \notin early' => Starting(w) = {} /\ \A f \in Stored : f.window # w
  BY <1>3, <1>7 DEF Underway, Starting, Saved, Stored
<1>15. OneOrigin'
  <2>1. Stored' = Stored BY <1>6 DEF Stored
  <2>2. ASSUME NEW u \in Windows \ early', u # w \/ e # NoFeedback
        PROVE  /\ \A f, g \in Stored' : f.window = u /\ g.window = u => f = g
               /\ \A d \in Starting(u)' : \A f \in Stored' : f.window # u
               /\ \A d, b \in Starting(u)' : d = b
    BY <1>9, <1>12, <2>1, <2>2 DEF PipelineInv, Idempotent, OneOrigin
  <2>3. ASSUME e = NoFeedback, w \notin early'
        PROVE  /\ \A f, g \in Stored' : f.window = w /\ g.window = w => f = g
               /\ \A d \in Starting(w)' : \A f \in Stored' : f.window # w
               /\ \A d, b \in Starting(w)' : d = b
    BY <1>13, <1>14, <2>1, <2>3
  <2>4. QED BY <2>2, <2>3 DEF OneOrigin
<1>16. Accounted' BY <1>6 DEF PipelineInv, Idempotent, Accounted, Stored
<1>17. Idempotent' BY <1>15, <1>16 DEF Idempotent
<1>18. QED BY <1>6, <1>10, <1>17, ServedSame DEF PipelineInv

-----------------------------------------------------------------------------
(* A broadcast reaches everyone in the room.                               *)
LEMMA BroadcastServed ==
  ASSUME Base, Served, NEW e \in Feedback, Broadcast(e), rows' = rows, UNCHANGED viewing,
         flying' = flying \/ flying' = flying \cup {e}
  PROVE  Served' /\ received' \in [Viewers -> SUBSET Feedback]
<1>1. UNCHANGED <<room, join, acked, excused, hasty>> BY DEF viewing
<1>2. /\ received' \in [Viewers -> SUBSET Feedback]
      /\ \A v \in Viewers : received[v] \subseteq received'[v]
      /\ \A v \in Viewers : room[v] = MeetingOf[e.window] => e \in received'[v]
  BY DEF Base, TypeOK, Broadcast
<1>3. \A v : Waiting(v)' = Waiting(v) BY <1>1 DEF Waiting
<1>4. \A v \in Viewers : \A f \in Of(flying', room[v]) : f \in Of(flying, room[v]) \/ f \in received'[v]
  BY <1>2 DEF Of
<1>5. Covered' BY <1>1, <1>2, <1>3, <1>4 DEF Served, Covered, Loaded, Sees
<1>6. OneJoin' /\ AckedRoom' BY <1>1, <1>3 DEF Served, OneJoin, AckedRoom, Settled
<1>7. QED BY <1>2, <1>5, <1>6 DEF Served

LEMMA EmitInv ==
  ASSUME PipelineInv, NEW c \in Calls, Emit(c)
  PROVE  PipelineInv'
<1>0. PICK w \in Windows : w = call[c].window BY DEF Emit, PipelineInv, Base, Asked
<1> DEFINE r == [call[c] EXCEPT !.step = "done"]
           new == [id |-> Cardinality(sent) + 1, window |-> w]
           fresh == call[c].found = NoFeedback
<1>t. TypeOK BY DEF PipelineInv, Base
<1>1. call[c] \in CallType /\ call \in [Calls -> CallType] BY <1>t DEF TypeOK, CallType
<1>2. r \in CallType /\ r.step = "done" /\ r.window = w BY <1>0, <1>1 DEF CallType
<1>3. call' = [call EXCEPT ![c] = r] BY <1>1 DEF Emit
<1>4. call[c].step = "emit" /\ UNCHANGED <<rows, early, unsaved, viewing>> BY DEF Emit
<1>5. IF ~fresh THEN Broadcast(call[c].found) /\ UNCHANGED <<flying, sent>>
      ELSE Broadcast(new) /\ flying' = flying \cup {new} /\ sent' = sent \cup {new}
  BY <1>0 DEF Emit
<1>7. fresh => c \in Starting(w) BY <1>0, <1>4 DEF Starting
<1> HIDE DEF r
<1>8. \A d \in Calls : call'[d] = IF d = c THEN r ELSE call[d] BY <1>1, <1>3
<1>9. c \notin Emitted /\ Emitted' = Emitted \cup {c} BY <1>2, <1>4, <1>8 DEF Emitted
<1>10. Cardinality(Emitted') = Cardinality(Emitted) + 1 /\ Cardinality(Emitted') <= Cardinality(Calls)
  <2>1. Cardinality(Emitted \cup {c}) = Cardinality(Emitted) + 1 BY <1>9, EmittedFinite, FS_AddElement
  <2>2. Emitted \cup {c} \subseteq Calls BY DEF Emitted
  <2>3. Cardinality(Emitted \cup {c}) <= Cardinality(Calls) BY <2>2, FiniteAssumption, FS_Subset
  <2>4. Cardinality(Emitted') = Cardinality(Emitted \cup {c}) BY <1>9, Zenon
  <2>5. QED BY <2>1, <2>3, <2>4
<1>11. IsFiniteSet(sent) /\ Cardinality(sent) \in Nat /\ Cardinality(sent) <= Cardinality(Emitted)
  BY FS_CardinalityType DEF PipelineInv, Base, Counting
<1>12. new \in Feedback
  <2>1. Cardinality(sent) + 1 \in 1..Cardinality(Calls) BY <1>10, <1>11, EmittedFinite
  <2>2. QED BY <2>1 DEF Feedback
<1>w. new.window = w OBVIOUS
<1> HIDE DEF new
<1>13. /\ Served' /\ received' \in [Viewers -> SUBSET Feedback]
       /\ flying' \subseteq Feedback /\ sent' \subseteq Feedback
  <2>1. CASE fresh
    BY <1>t, <1>4, <1>5, <1>12, <2>1, BroadcastServed DEF PipelineInv, TypeOK
  <2>2. CASE ~fresh
    <3>1. call[c].found \in Feedback BY <1>1, <2>2 DEF CallType
    <3>2. QED BY <1>t, <1>4, <1>5, <2>2, <3>1, BroadcastServed DEF PipelineInv, TypeOK
  <2>3. QED BY <2>1, <2>2
<1>14. Counting'
  <2>1. IsFiniteSet(sent \cup {new}) /\ Cardinality(sent \cup {new}) <= Cardinality(sent) + 1
    <3>1. IsFiniteSet(sent \cup {new}) BY <1>11, FS_AddElement
    <3>2. CASE new \in sent
      <4>1. sent \cup {new} = sent BY <3>2
      <4>2. Cardinality(sent \cup {new}) = Cardinality(sent) BY <4>1, Zenon
      <4>3. Cardinality(sent) <= Cardinality(sent) + 1 BY <1>11
      <4>4. QED BY <3>1, <4>2, <4>3, Zenon
    <3>3. CASE new \notin sent
      <4>1. Cardinality(sent \cup {new}) = Cardinality(sent) + 1 BY <1>11, <3>3, FS_AddElement
      <4>2. Cardinality(sent) + 1 <= Cardinality(sent) + 1 BY <1>11
      <4>3. QED BY <3>1, <4>1, <4>2, Zenon
    <3>4. QED BY <3>2, <3>3
  <2>2. sent' = sent \/ sent' = sent \cup {new} BY <1>5
  <2>3. IsFiniteSet(sent') BY <1>11, <2>1, <2>2
  <2>4. Cardinality(sent') = Cardinality(sent) \/ Cardinality(sent') = Cardinality(sent \cup {new})
    BY <2>2, Zenon
  <2>5. Cardinality(sent') \in Nat /\ Cardinality(sent \cup {new}) \in Nat
    BY <2>1, <2>3, FS_CardinalityType
  <2>6. Cardinality(sent') <= Cardinality(Emitted')
    BY <1>10, <1>11, <2>1, <2>4, <2>5, EmittedFinite
  <2>7. QED BY <2>3, <2>6 DEF Counting
<1>15. Base'
  <2>1. TypeOK' BY <1>t, <1>2, <1>3, <1>4, <1>13 DEF TypeOK, CallType, viewing
  <2>2. Asked' BY <1>2, <1>4, <1>8 DEF PipelineInv, Base, Asked, viewing
  <2>3. QED BY <1>14, <2>1, <2>2 DEF Base
<1>16. \A u : Starting(u)' = Starting(u) \ {c} BY <1>2, <1>8 DEF Starting
<1>17. \A u : fresh /\ u # w => c \notin Starting(u) BY <1>0 DEF Starting
<1>18. Idempotent'
  <2>1. CASE fresh
    <3>1. Stored' = Stored \cup {new} /\ sent' = sent \cup {new} BY <1>4, <1>5, <2>1 DEF Stored
    <3>2. ASSUME NEW u \in Windows \ early, u # w
          PROVE  /\ \A f, g \in Stored' : f.window = u /\ g.window = u => f = g
                 /\ \A d \in Starting(u)' : \A f \in Stored' : f.window # u
                 /\ \A d, b \in Starting(u)' : d = b
      BY <1>16, <1>w, <3>1, <3>2 DEF PipelineInv, Idempotent, OneOrigin
    <3>3. ASSUME w \notin early
          PROVE  /\ \A f, g \in Stored' : f.window = w /\ g.window = w => f = g
                 /\ \A d \in Starting(w)' : \A f \in Stored' : f.window # w
                 /\ \A d, b \in Starting(w)' : d = b
      BY <1>w, <1>7, <1>16, <2>1, <3>1, <3>3 DEF PipelineInv, Idempotent, OneOrigin
    <3>4. OneOrigin' BY <1>4, <3>2, <3>3 DEF OneOrigin
    <3>5. Accounted' BY <1>4, <3>1 DEF PipelineInv, Idempotent, Accounted
    <3>6. QED BY <3>4, <3>5 DEF Idempotent
  <2>2. CASE ~fresh
    <3>1. Stored' = Stored /\ sent' = sent BY <1>4, <1>5, <2>2 DEF Stored
    <3>2. QED BY <1>4, <1>16, <3>1 DEF PipelineInv, Idempotent, OneOrigin, Accounted
  <2>3. QED BY <2>1, <2>2
<1>19. QED BY <1>13, <1>15, <1>18 DEF PipelineInv

-----------------------------------------------------------------------------
(* The insert completes: what it adds was sent to whoever is in the room.  *)
LEMMA PersistInv ==
  ASSUME PipelineInv, Persist
  PROVE  PipelineInv'
<1>1. PICK e \in flying : rows' = rows \cup {e} /\ flying' = flying \ {e} BY DEF Persist
<1>2. UNCHANGED <<call, received, sent, early, unsaved, room, join, acked, excused, hasty>>
  BY DEF Persist, viewing
<1>3. Stored' = Stored BY <1>1 DEF Stored
<1>4. Emitted' = Emitted BY <1>2 DEF Emitted
<1>5. Cardinality(Emitted') = Cardinality(Emitted) BY <1>4, Zenon
<1>6. Base' BY <1>1, <1>2, <1>5 DEF PipelineInv, Base, TypeOK, Asked, Counting
<1>7. Idempotent'
  BY <1>2, <1>3 DEF PipelineInv, Idempotent, OneOrigin, Accounted, Starting
<1>8. IsFiniteSet(rows)
  <2>1. rows \subseteq sent /\ IsFiniteSet(sent)
    BY DEF PipelineInv, Idempotent, Accounted, Stored, Base, Counting
  <2>2. QED BY <2>1, FS_Subset
<1>9. ASSUME NEW m
      PROVE  Newest(Of(rows', m)) \subseteq Newest(Of(rows, m)) \cup Of(flying, m)
  <2>1. IsFiniteSet(Of(rows, m))
    <3>1. Of(rows, m) \subseteq rows BY DEF Of
    <3>2. QED BY <1>8, <3>1, FS_Subset
  <2>2. CASE MeetingOf[e.window] = m
    <3>1. Of(rows', m) = Of(rows, m) \cup {e} BY <1>1, <2>2 DEF Of
    <3>2. Newest(Of(rows, m) \cup {e}) \subseteq Newest(Of(rows, m)) \cup {e} BY <2>1, NewestOfMore
    <3>3. Newest(Of(rows', m)) = Newest(Of(rows, m) \cup {e}) BY <3>1, Zenon
    <3>4. e \in Of(flying, m) BY <2>2 DEF Of
    <3>5. QED BY <3>2, <3>3, <3>4
  <2>3. CASE MeetingOf[e.window] # m
    <3>1. Of(rows', m) = Of(rows, m) BY <1>1, <2>3 DEF Of
    <3>2. Newest(Of(rows', m)) = Newest(Of(rows, m)) BY <3>1, Zenon
    <3>3. QED BY <3>2
  <2>4. QED BY <2>2, <2>3
<1>10. \A v : Waiting(v)' = Waiting(v) BY <1>2 DEF Waiting
<1>11. Covered'
  <2> SUFFICES ASSUME NEW v \in Viewers, v \notin hasty, room[v] # NoRoom,
                      \A j \in Waiting(v) : join[j].step = "ack"
               PROVE  /\ \A f \in Of(flying', room[v]) : Sees(v, f)
                      /\ \A f \in Newest(Of(rows', room[v])) :
                           Sees(v, f) \/ \E j \in Waiting(v) : f \in join[j].recent
    BY <1>2, <1>10 DEF Covered, Loaded, Sees
  <2>1. /\ \A f \in Of(flying, room[v]) : Sees(v, f)
        /\ \A f \in Newest(Of(rows, room[v])) :
             Sees(v, f) \/ \E j \in Waiting(v) : f \in join[j].recent
    BY DEF PipelineInv, Served, Covered, Loaded
  <2>2. Of(flying', room[v]) \subseteq Of(flying, room[v]) BY <1>1 DEF Of
  <2>3. QED BY <1>9, <2>1, <2>2
<1>12. OneJoin' /\ AckedRoom'
  BY <1>2, <1>10 DEF PipelineInv, Served, OneJoin, AckedRoom, Settled
<1>13. QED BY <1>6, <1>7, <1>11, <1>12 DEF PipelineInv, Served

LEMMA PersistFailsInv ==
  ASSUME PipelineInv, PersistFails
  PROVE  PipelineInv'
<1>1. PICK e \in flying : flying' = flying \ {e} /\ unsaved' = unsaved \cup {e.window} BY DEF PersistFails
<1>2. UNCHANGED <<call, rows, received, sent, early, room, join, acked, excused, hasty>>
  BY DEF PersistFails, viewing
<1>3. Stored' \subseteq Stored /\ Stored \subseteq Stored' \cup {e} BY <1>1, <1>2 DEF Stored
<1>4. Emitted' = Emitted BY <1>2 DEF Emitted
<1>5. Cardinality(Emitted') = Cardinality(Emitted) BY <1>4, Zenon
<1>6. e.window \in Windows BY DEF PipelineInv, Base, TypeOK, Feedback
<1>7. Base' BY <1>1, <1>2, <1>5, <1>6 DEF PipelineInv, Base, TypeOK, Asked, Counting
<1>8. OneOrigin' BY <1>2, <1>3 DEF PipelineInv, Idempotent, OneOrigin, Starting
<1>9. Accounted' BY <1>1, <1>2, <1>3 DEF PipelineInv, Idempotent, Accounted
<1>10. \A v : Waiting(v)' = Waiting(v) BY <1>2 DEF Waiting
<1>11. \A m : Of(flying', m) \subseteq Of(flying, m) BY <1>1 DEF Of
<1>12. Served'
  BY <1>2, <1>10, <1>11 DEF PipelineInv, Served, OneJoin, Covered, Loaded, Sees, AckedRoom, Settled
<1>13. QED BY <1>7, <1>8, <1>9, <1>12 DEF PipelineInv, Idempotent

-----------------------------------------------------------------------------
(* Sockets: a join enters the room ...                                     *)
LEMMA JoinRoomInv ==
  ASSUME PipelineInv, NEW j \in Joins, JoinRoom(j)
  PROVE  PipelineInv'
<1>t. TypeOK BY DEF PipelineInv, Base
<1>1. PICK v \in Viewers, m \in Meetings :
        /\ join' = [join EXCEPT ![j] = [step |-> "load", viewer |-> v, meeting |-> m, recent |-> {}]]
        /\ room' = [room EXCEPT ![v] = m]
        /\ received' = [received EXCEPT ![v] = {}]
        /\ excused' = [excused EXCEPT ![v] = {}]
        /\ hasty' = IF Waiting(v) = {} THEN hasty \ {v} ELSE hasty \cup {v}
  BY DEF JoinRoom
<1>2. join[j].step = "unused" /\ UNCHANGED <<rows, acked, calling>> BY DEF JoinRoom
<1>3. UNCHANGED <<call, flying, sent, early, unsaved>> BY <1>2 DEF calling
<1>4. join'[j] = [step |-> "load", viewer |-> v, meeting |-> m, recent |-> {}]
  BY <1>t, <1>1 DEF TypeOK
<1>5. \A i \in Joins \ {j} : join'[i] = join[i] BY <1>t, <1>1 DEF TypeOK
<1>6. TypeOK' BY <1>t, <1>1, <1>2, <1>3 DEF TypeOK
<1>7. Base'
  <2>1. \A i \in Joins : join'[i].step \in {"load", "ack"} =>
          join'[i].viewer \in Viewers /\ join'[i].meeting \in Meetings
    BY <1>4, <1>5 DEF PipelineInv, Base, Asked
  <2>2. QED BY <1>2, <1>6, <2>1, CallsSame DEF PipelineInv, Base, Asked
<1>8. \A u \in Viewers \ {v} : Waiting(u)' = Waiting(u) BY <1>2, <1>4, <1>5 DEF Waiting
<1>9. Waiting(v)' = Waiting(v) \cup {j} BY <1>2, <1>4, <1>5 DEF Waiting
<1>10. \A u \in Viewers \ {v} : /\ room'[u] = room[u] /\ received'[u] = received[u]
                                /\ excused'[u] = excused[u] /\ (u \in hasty' <=> u \in hasty)
  BY <1>t, <1>1 DEF TypeOK
<1>11. room'[v] = m BY <1>t, <1>1 DEF TypeOK
<1>12. \A u \in Viewers \ {v} : \A i \in Waiting(u) : join'[i] = join[i]
  BY <1>2, <1>5 DEF Waiting
<1>13. OneJoin'
  <2>1. v \in hasty' \/ Waiting(v)' = {j} BY <1>1, <1>9
  <2>2. QED BY <1>4, <1>8, <1>10, <1>11, <1>12, <2>1 DEF PipelineInv, Served, OneJoin
<1>14. ~Loaded(v)' BY <1>4, <1>9 DEF Loaded
<1>15. Covered'
  BY <1>2, <1>3, <1>8, <1>10, <1>12, <1>14 DEF PipelineInv, Served, Covered, Loaded, Sees
<1>16. AckedRoom' BY <1>2, <1>8, <1>9, <1>10 DEF PipelineInv, Served, AckedRoom, Settled
<1>17. Idempotent' BY <1>2, CallsSame DEF PipelineInv
<1>18. QED BY <1>7, <1>13, <1>15, <1>16, <1>17 DEF PipelineInv, Served

(* ... loads the history, with what is then still being inserted excused   *)
LEMMA LoadRecentInv ==
  ASSUME PipelineInv, NEW j \in Joins, LoadRecent(j)
  PROVE  PipelineInv'
<1>t. TypeOK BY DEF PipelineInv, Base
<1>1. PICK v \in Viewers, m \in Meetings : v = join[j].viewer /\ m = join[j].meeting
  BY DEF LoadRecent, PipelineInv, Base, Asked
<1>2. \/ /\ join' = [join EXCEPT ![j].step = "ack", ![j].recent = Newest(Of(rows, m))]
         /\ excused' = [excused EXCEPT ![v] = @ \cup Of(flying, m)]
      \/ /\ join' = [join EXCEPT ![j].step = "ack"]
         /\ excused' = [excused EXCEPT ![v] = @ \cup Of(rows \cup flying, m)]
  BY <1>1 DEF LoadRecent
<1>3. join[j].step = "load" /\ UNCHANGED <<rows, room, received, acked, hasty, calling>>
  BY DEF LoadRecent
<1>4. UNCHANGED <<call, flying, sent, early, unsaved>> BY <1>3 DEF calling
<1>5. /\ \A i \in Joins : /\ join'[i].viewer = join[i].viewer /\ join'[i].meeting = join[i].meeting
                          /\ i # j => join'[i] = join[i]
      /\ join'[j].step = "ack"
  BY <1>t, <1>2 DEF TypeOK
<1>6. /\ Newest(Of(rows, m)) \in SUBSET Feedback /\ Of(flying, m) \in SUBSET Feedback
      /\ Of(rows \cup flying, m) \in SUBSET Feedback
  BY <1>t DEF Newest, Of, TypeOK
<1>7. TypeOK'
  <2>1. join' \in [Joins -> JoinType]
    <3>1. join[j] \in JoinType /\ join \in [Joins -> JoinType] BY <1>t DEF TypeOK, JoinType
    <3> DEFINE r == [join[j] EXCEPT !.step = "ack", !.recent = Newest(Of(rows, m))]
               q == [join[j] EXCEPT !.step = "ack"]
    <3>2. r \in JoinType /\ q \in JoinType BY <1>6, <3>1 DEF JoinType
    <3>3. join' = [join EXCEPT ![j] = r] \/ join' = [join EXCEPT ![j] = q] BY <1>2, <3>1
    <3> HIDE DEF r, q
    <3>4. QED BY <3>1, <3>2, <3>3
  <2>2. excused' \in [Viewers -> SUBSET Feedback]
    <3>1. ASSUME NEW X \in SUBSET Feedback, excused' = [excused EXCEPT ![v] = @ \cup X]
          PROVE  excused' \in [Viewers -> SUBSET Feedback]
      BY <1>t, <3>1 DEF TypeOK
    <3>2. QED BY <1>2, <1>6, <3>1
  <2>3. QED BY <1>t, <1>3, <1>4, <2>1, <2>2 DEF TypeOK, JoinType
<1>8. Base'
  <2>1. \A i \in Joins : join'[i].step \in {"load", "ack"} =>
          join'[i].viewer \in Viewers /\ join'[i].meeting \in Meetings
    BY <1>1, <1>5 DEF PipelineInv, Base, Asked
  <2>2. QED BY <1>3, <1>7, <2>1, CallsSame DEF PipelineInv, Base, Asked
<1>9. \A u : Waiting(u)' = Waiting(u) BY <1>3, <1>5 DEF Waiting
<1>10. j \in Waiting(v) /\ \A u : j \in Waiting(u) => u = v BY <1>1, <1>3 DEF Waiting
<1>11. OneJoin' BY <1>3, <1>5, <1>9 DEF PipelineInv, Served, OneJoin, Waiting
<1>12. AckedRoom' BY <1>3, <1>9 DEF PipelineInv, Served, AckedRoom, Settled
<1>13. \A u \in Viewers : /\ excused[u] \subseteq excused'[u]
                          /\ \A i \in Waiting(u) : u # v => join'[i] = join[i]
  <2>1. \A u \in Viewers : excused[u] \subseteq excused'[u] BY <1>t, <1>2 DEF TypeOK
  <2>2. \A u \in Viewers : \A i \in Waiting(u) : i \in Joins /\ (u # v => i # j)
    BY <1>10 DEF Waiting
  <2>3. QED BY <1>5, <2>1, <2>2
<1>14. Of(rows \cup flying, m) = Of(rows, m) \cup Of(flying, m) BY DEF Of
<1>15. \A e \in Newest(Of(rows, m)) : e \in Of(rows, m) BY DEF Newest
<1>16. /\ \A e \in Of(flying, m) : e \in excused'[v]
       /\ \A e \in Newest(Of(rows, m)) : e \in excused'[v] \/ e \in join'[j].recent
  <2>1. CASE /\ join' = [join EXCEPT ![j].step = "ack", ![j].recent = Newest(Of(rows, m))]
             /\ excused' = [excused EXCEPT ![v] = @ \cup Of(flying, m)]
    <3>1. join'[j].recent = Newest(Of(rows, m)) BY <1>t, <2>1 DEF TypeOK
    <3>2. excused'[v] = excused[v] \cup Of(flying, m) BY <1>t, <2>1 DEF TypeOK
    <3>3. QED BY <3>1, <3>2
  <2>2. CASE excused' = [excused EXCEPT ![v] = @ \cup Of(rows \cup flying, m)]
    <3>1. excused'[v] = excused[v] \cup Of(rows \cup flying, m) BY <1>t, <2>2 DEF TypeOK
    <3>2. QED BY <1>14, <1>15, <3>1
  <2>3. QED BY <1>2, <2>1, <2>2
<1>17. v \notin hasty => m = room[v] BY <1>1, <1>10 DEF PipelineInv, Served, OneJoin
<1>18. Covered'
  <2>1. ASSUME NEW u \in Viewers, Loaded(u)', u # v
        PROVE  /\ \A e \in Of(flying, room[u]) : Sees(u, e)'
               /\ \A e \in Newest(Of(rows, room[u])) :
                    Sees(u, e)' \/ \E i \in Waiting(u) : e \in join'[i].recent
    <3>1. Loaded(u) BY <1>3, <1>9, <1>13, <2>1 DEF Loaded
    <3>2. QED BY <1>3, <1>13, <2>1, <3>1 DEF PipelineInv, Served, Covered, Sees
  <2>2. ASSUME Loaded(v)'
        PROVE  /\ \A e \in Of(flying, room[v]) : Sees(v, e)'
               /\ \A e \in Newest(Of(rows, room[v])) :
                    Sees(v, e)' \/ \E i \in Waiting(v) : e \in join'[i].recent
    BY <1>3, <1>10, <1>16, <1>17, <2>2 DEF Loaded, Sees
  <2>3. QED BY <1>3, <1>4, <1>9, <2>1, <2>2 DEF Covered
<1>19. Idempotent' BY <1>3, CallsSame DEF PipelineInv
<1>20. QED BY <1>8, <1>11, <1>12, <1>18, <1>19 DEF PipelineInv, Served

(* ... and is acknowledged.                                                *)
LEMMA AckJoinInv ==
  ASSUME PipelineInv, NEW j \in Joins, AckJoin(j)
  PROVE  PipelineInv'
<1>t. TypeOK BY DEF PipelineInv, Base
<1>1. PICK v \in Viewers, m \in Meetings : v = join[j].viewer /\ m = join[j].meeting
  BY DEF AckJoin, PipelineInv, Base, Asked
<1>2. /\ join' = [join EXCEPT ![j].step = "done", ![j].recent = {}]
      /\ received' = [received EXCEPT ![v] = @ \cup join[j].recent]
      /\ acked' = [acked EXCEPT ![v] = m]
  BY <1>1 DEF AckJoin
<1>3. join[j].step = "ack" /\ UNCHANGED <<rows, room, excused, hasty, calling>> BY DEF AckJoin
<1>4. UNCHANGED <<call, flying, sent, early, unsaved>> BY <1>3 DEF calling
<1>5. /\ \A i \in Joins \ {j} : join'[i] = join[i]
      /\ join'[j].step = "done"
  BY <1>t, <1>2 DEF TypeOK
<1>6. join[j].recent \subseteq Feedback BY <1>t DEF TypeOK
<1>7. /\ \A u \in Viewers \ {v} : received'[u] = received[u] /\ acked'[u] = acked[u]
      /\ received'[v] = received[v] \cup join[j].recent /\ acked'[v] = m
  BY <1>t, <1>2 DEF TypeOK
<1>8. TypeOK'
  <2>1. join' \in [Joins -> JoinType]
    <3>1. join[j] \in JoinType /\ join \in [Joins -> JoinType] BY <1>t DEF TypeOK, JoinType
    <3> DEFINE r == [join[j] EXCEPT !.step = "done", !.recent = {}]
    <3>2. r \in JoinType BY <3>1 DEF JoinType
    <3>3. join' = [join EXCEPT ![j] = r] BY <1>2, <3>1
    <3> HIDE DEF r
    <3>4. QED BY <3>1, <3>2, <3>3
  <2>2. received' \in [Viewers -> SUBSET Feedback] /\ acked' \in [Viewers -> Meetings \cup {NoRoom}]
    BY <1>t, <1>2, <1>6 DEF TypeOK
  <2>3. QED BY <1>t, <1>3, <1>4, <2>1, <2>2 DEF TypeOK, JoinType
<1>9. Base'
  <2>1. \A i \in Joins : join'[i].step \in {"load", "ack"} =>
          join'[i].viewer \in Viewers /\ join'[i].meeting \in Meetings
    BY <1>5 DEF PipelineInv, Base, Asked
  <2>2. QED BY <1>3, <1>8, <2>1, CallsSame DEF PipelineInv, Base, Asked
<1>10. \A u \in Viewers : Waiting(u)' = Waiting(u) \ {j} BY <1>3, <1>5 DEF Waiting
<1>11. j \in Waiting(v) /\ \A u : j \in Waiting(u) => u = v BY <1>1, <1>3 DEF Waiting
<1>12. \A u \in Viewers \ {v} : Waiting(u)' = Waiting(u) /\ \A i \in Waiting(u) : join'[i] = join[i]
  <2>1. \A u \in Viewers \ {v} : j \notin Waiting(u) /\ Waiting(u) \subseteq Joins BY <1>11 DEF Waiting
  <2>2. QED BY <1>5, <1>10, <2>1
<1>13. v \notin hasty => /\ \A i \in Waiting(v) : i = j
                        /\ m = room[v] /\ Waiting(v)' = {}
  BY <1>1, <1>10, <1>11 DEF PipelineInv, Served, OneJoin
<1>14. OneJoin' BY <1>3, <1>12, <1>13 DEF PipelineInv, Served, OneJoin
<1>15. Covered'
  <2>1. ASSUME NEW u \in Viewers, Loaded(u)', u # v
        PROVE  /\ \A e \in Of(flying, room[u]) : Sees(u, e)'
               /\ \A e \in Newest(Of(rows, room[u])) :
                    Sees(u, e)' \/ \E i \in Waiting(u)' : e \in join'[i].recent
    <3>1. Loaded(u) BY <1>3, <1>12, <2>1 DEF Loaded
    <3>2. QED BY <1>3, <1>7, <1>12, <2>1, <3>1 DEF PipelineInv, Served, Covered, Sees
  <2>2. ASSUME Loaded(v)'
        PROVE  /\ \A e \in Of(flying, room[v]) : Sees(v, e)'
               /\ \A e \in Newest(Of(rows, room[v])) :
                    Sees(v, e)' \/ \E i \in Waiting(v)' : e \in join'[i].recent
    <3>1. v \notin hasty /\ Loaded(v) BY <1>3, <1>13, <2>2 DEF Loaded
    <3>2. /\ \A e \in Of(flying, room[v]) : Sees(v, e)
          /\ \A e \in Newest(Of(rows, room[v])) : Sees(v, e) \/ e \in join[j].recent
      BY <1>13, <3>1 DEF PipelineInv, Served, Covered
    <3>3. QED BY <1>3, <1>7, <3>2 DEF Sees
  <2>3. QED BY <1>3, <1>4, <2>1, <2>2 DEF Covered
<1>16. AckedRoom'
  BY <1>3, <1>7, <1>12, <1>13 DEF PipelineInv, Served, AckedRoom, Settled
<1>17. Idempotent' BY <1>3, CallsSame DEF PipelineInv
<1>18. QED BY <1>9, <1>14, <1>15, <1>16, <1>17 DEF PipelineInv, Served

(* A socket drops, with the joins it waits for.                            *)
LEMMA DisconnectInv ==
  ASSUME PipelineInv, NEW v \in Viewers, Disconnect(v)
  PROVE  PipelineInv'
<1>t. TypeOK BY DEF PipelineInv, Base
<1>1. /\ room' = [room EXCEPT ![v] = NoRoom]
      /\ received' = [received EXCEPT ![v] = {}] /\ excused' = [excused EXCEPT ![v] = {}]
      /\ acked' = [acked EXCEPT ![v] = NoRoom] /\ hasty' = hasty \ {v}
      /\ join' = [j \in Joins |-> IF j \in Waiting(v)
                                  THEN [join[j] EXCEPT !.step = "done", !.recent = {}] ELSE join[j]]
      /\ UNCHANGED <<rows, calling>>
  BY DEF Disconnect
<1>2. UNCHANGED <<call, flying, sent, early, unsaved>> BY <1>1 DEF calling
<1>3. \A j \in Joins : /\ join'[j] \in JoinType
                        /\ IF j \in Waiting(v) THEN join'[j].step = "done" ELSE join'[j] = join[j]
  <2> TAKE j \in Joins
  <2>1. join[j] \in JoinType BY <1>t DEF TypeOK, JoinType
  <2>2. QED BY <1>1, <2>1 DEF JoinType
<1>4. TypeOK'
  <2>1. join' \in [Joins -> JoinType] BY <1>1, <1>3
  <2>2. QED BY <1>t, <1>1, <1>2, <2>1 DEF TypeOK, JoinType
<1>5. Base'
  <2>1. \A i \in Joins : join'[i].step \in {"load", "ack"} =>
          join'[i].viewer \in Viewers /\ join'[i].meeting \in Meetings
    BY <1>3 DEF PipelineInv, Base, Asked
  <2>2. QED BY <1>1, <1>4, <2>1, CallsSame DEF PipelineInv, Base, Asked
<1>6. /\ \A u \in Viewers \ {v} : /\ room'[u] = room[u] /\ received'[u] = received[u]
                                   /\ excused'[u] = excused[u] /\ acked'[u] = acked[u]
                                   /\ (u \in hasty' <=> u \in hasty)
      /\ room'[v] = NoRoom
  BY <1>t, <1>1 DEF TypeOK
<1>7. \A u \in Viewers \ {v} : Waiting(u)' = Waiting(u) /\ \A j \in Waiting(u) : join'[j] = join[j]
  BY <1>3 DEF Waiting
<1>8. Waiting(v)' = {} BY <1>3 DEF Waiting
<1>9. Served'
  <2>1. OneJoin' BY <1>6, <1>7, <1>8 DEF PipelineInv, Served, OneJoin
  <2>2. ASSUME NEW u \in Viewers, Loaded(u)'
        PROVE  /\ \A e \in Of(flying, room'[u]) : Sees(u, e)'
               /\ \A e \in Newest(Of(rows, room'[u])) :
                    Sees(u, e)' \/ \E j \in Waiting(u)' : e \in join'[j].recent
    <3>1. u # v /\ Loaded(u) /\ room'[u] = room[u] BY <1>6, <1>7, <2>2 DEF Loaded
    <3>2. /\ \A e \in Of(flying, room[u]) : Sees(u, e)
          /\ \A e \in Newest(Of(rows, room[u])) :
               Sees(u, e) \/ \E j \in Waiting(u) : e \in join[j].recent
      BY <3>1 DEF PipelineInv, Served, Covered
    <3>3. QED BY <1>6, <1>7, <3>1, <3>2 DEF Sees
  <2>3. Covered' BY <1>1, <1>2, <2>2 DEF Covered
  <2>4. AckedRoom' BY <1>6, <1>7 DEF PipelineInv, Served, AckedRoom, Settled
  <2>5. QED BY <2>1, <2>3, <2>4 DEF Served
<1>10. Idempotent' BY <1>1, CallsSame DEF PipelineInv
<1>11. QED BY <1>5, <1>9, <1>10 DEF PipelineInv

(* The process stops.                                                      *)
LEMMA RestartInv ==
  ASSUME PipelineInv, Restart
  PROVE  PipelineInv'
<1>t. TypeOK BY DEF PipelineInv, Base
<1>1. /\ call' = [c \in Calls |-> IF call[c].step \in {"lookup", "emit"}
                                  THEN [call[c] EXCEPT !.step = "failed"] ELSE call[c]]
      /\ flying' = {} /\ unsaved' = unsaved \cup {e.window : e \in flying}
      /\ room' = [v \in Viewers |-> NoRoom] /\ received' = [v \in Viewers |-> {}]
      /\ excused' = [v \in Viewers |-> {}] /\ acked' = [v \in Viewers |-> NoRoom]
      /\ hasty' = {}
      /\ join' = [j \in Joins |-> IF join[j].step \in {"load", "ack"}
                                  THEN [join[j] EXCEPT !.step = "done", !.recent = {}] ELSE join[j]]
      /\ UNCHANGED <<rows, sent, early>>
  BY DEF Restart
<1>2. \A j \in Joins : join'[j] \in JoinType /\ join'[j].step \notin {"load", "ack"}
  <2> TAKE j \in Joins
  <2>1. join[j] \in JoinType BY <1>t DEF TypeOK, JoinType
  <2>2. QED BY <1>1, <2>1 DEF JoinType
<1>3. \A c \in Calls : /\ call'[c] \in CallType /\ call'[c].window = call[c].window
                        /\ call'[c].step # "emit"
                        /\ (call'[c].step = "done" <=> call[c].step = "done")
                        /\ (call[c].step = "unused" => call'[c].step = "unused")
                        /\ (call'[c].step # "unused" => call[c].step # "unused")
  <2> TAKE c \in Calls
  <2>1. call[c] \in CallType BY <1>t DEF TypeOK, CallType
  <2>2. QED BY <1>1, <2>1 DEF CallType
<1>4. TypeOK'
  <2>1. join' \in [Joins -> JoinType] /\ call' \in [Calls -> CallType] BY <1>1, <1>2, <1>3
  <2>2. unsaved' \subseteq Windows BY <1>t, <1>1 DEF TypeOK, Feedback
  <2>3. QED BY <1>t, <1>1, <2>1, <2>2 DEF TypeOK, JoinType, CallType
<1>5. Emitted' = Emitted BY <1>3 DEF Emitted
<1>6. Cardinality(Emitted') = Cardinality(Emitted) BY <1>5, Zenon
<1>7. Base' BY <1>1, <1>2, <1>3, <1>4, <1>6 DEF PipelineInv, Base, Asked, Counting
<1>8. Stored' = rows /\ \A w : Starting(w)' = {} BY <1>1, <1>3 DEF Stored, Starting
<1>9. OneOrigin' BY <1>1, <1>8 DEF PipelineInv, Idempotent, OneOrigin, Stored
<1>10. Accounted' BY <1>1, <1>8 DEF PipelineInv, Idempotent, Accounted, Stored
<1>11. /\ \A v : Waiting(v)' = {}
       /\ \A v \in Viewers : room'[v] = NoRoom
  BY <1>1, <1>2 DEF Waiting
<1>12. Served' BY <1>11 DEF Served, OneJoin, Covered, Loaded, AckedRoom, Settled
<1>13. QED BY <1>7, <1>9, <1>10, <1>12 DEF PipelineInv, Idempotent

LEMMA NextInv == PipelineInv /\ [Next]_vars => PipelineInv'
<1> SUFFICES ASSUME PipelineInv, [Next]_vars PROVE PipelineInv' OBVIOUS
<1>1. CASE UNCHANGED vars
  <2>1. UNCHANGED <<rows, calling>> /\ UNCHANGED <<rows, flying, received, viewing>>
    BY <1>1 DEF vars, calling, viewing
  <2>2. Base'
    BY <1>1, <2>1, CallsSame DEF vars, PipelineInv, Base, TypeOK, Asked
  <2>3. QED BY <2>1, <2>2, CallsSame, ServedSame DEF PipelineInv
<1>2. QED BY <1>1, PublishInv, LookupInv, LookupFailsInv, EmitInv, PersistInv, PersistFailsInv,
             JoinRoomInv, LoadRecentInv, AckJoinInv, DisconnectInv, RestartInv
          DEF Next

-----------------------------------------------------------------------------
(* At most one element.                                                    *)
LEMMA AtMostOne ==
  ASSUME NEW S, \A e, f \in S : e = f
  PROVE  Cardinality(S) <= 1
<1>1. CASE S = {} BY <1>1, FS_EmptySet
<1>2. CASE S # {}
  <2>1. PICK e \in S : S = {e} BY <1>2
  <2>2. Cardinality({e}) = 1 BY FS_Singleton
  <2>3. Cardinality(S) = 1 BY <2>1, <2>2, Zenon
  <2>4. QED BY <2>3
<1>3. QED BY <1>1, <1>2

(* Every variable keeps its type: createFeedback emits no more feedback    *)
(* than it is called for.                                                  *)
THEOREM TypeCorrect == Spec => []TypeOK
<1>1. PipelineInv => TypeOK BY DEF PipelineInv, Base
<1>2. QED BY InitInv, NextInv, <1>1, PTL DEF Spec

(* The findFirst guard of FeedbackService.createFeedback keeps one row per *)
(* analysis window through retries, failed inserts and restarts, unless a  *)
(* retry came while the first insert was still under way.                  *)
THEOREM RowSafety == Spec => []OneRowPerWindow
<1>1. PipelineInv => OneRowPerWindow
  <2> SUFFICES ASSUME PipelineInv, NEW w \in Windows \ early PROVE Cardinality(Saved(w)) <= 1
    BY DEF OneRowPerWindow
  <2>1. \A e, f \in Saved(w) : e = f BY DEF PipelineInv, Idempotent, OneOrigin, Stored, Saved
  <2>2. QED BY <2>1, AtMostOne
<1>2. QED BY InitInv, NextInv, <1>1, PTL DEF Spec

(* Every broadcast of a window carries the id of its row, unless a retry   *)
(* came early or persistFeedbackAsync lost the row.                        *)
THEOREM IdSafety == Spec => []OneIdPerWindow
<1>1. PipelineInv => OneIdPerWindow
  <2> SUFFICES ASSUME PipelineInv, NEW w \in Windows \ (early \cup unsaved)
               PROVE  Cardinality({e \in sent : e.window = w}) <= 1
    BY DEF OneIdPerWindow
  <2>1. \A e, f \in {g \in sent : g.window = w} : e = f
    BY DEF PipelineInv, Idempotent, OneOrigin, Accounted
  <2>2. QED BY <2>1, AtMostOne
<1>2. QED BY InitInv, NextInv, <1>1, PTL DEF Spec

(* FeedbackGateway.handleJoinRoom enters the room before it reads the      *)
(* rows: a viewer whose join was answered has been sent the newest rows of *)
(* the meeting, except those its load could not have found.                *)
THEOREM HistorySafety == Spec => []NoGaps
<1>1. PipelineInv => NoGaps
  BY DEF PipelineInv, Served, Covered, Loaded, Sees, NoGaps, Settled
<1>2. QED BY InitInv, NextInv, <1>1, PTL DEF Spec

(* The last room-joined a viewer was sent names the room its socket is in. *)
THEOREM AckSafety == Spec => []AckedRoom
<1>1. PipelineInv => AckedRoom BY DEF PipelineInv, Served
<1>2. QED BY InitInv, NextInv, <1>1, PTL DEF Spec
=============================================================================
