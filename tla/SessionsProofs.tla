--------------------------- MODULE SessionsProofs ---------------------------
(***************************************************************************)
(* Theorems about Sessions, for any finite set of connections and whatever *)
(* reports are repeated.                                                   *)
(***************************************************************************)
EXTENDS Sessions, FiniteSetTheorems, TLAPS

Status == {"NONE", "ACTIVE", "ENDED"}
OpenAt == {"unsent", "sent", "done", "lost"}
CloseAt == {"unsent", "sent", "write", "notify", "done", "lost"}

Opens == {c \in Conns : opened[c] = "done"}

(* Types; a stale absolute write never counts more than the opens that     *)
(* were ever handled.                                                      *)
Typed ==
  /\ session \in [status : Status, activeConnections : Nat]
  /\ opened \in [Conns -> OpenAt]
  /\ closed \in [Conns -> CloseAt]
  /\ next \in [Conns -> Nat]
  /\ resent \subseteq Resends
  /\ announced \in BOOLEAN /\ raced \in BOOLEAN /\ disturbed \in BOOLEAN
Bounded ==
  /\ session.activeConnections <= Cardinality(Opens)
  /\ \A c \in Conns : next[c] <= Cardinality(Opens)
(* The row exists from the first open on, and counts nothing before it.    *)
RowExists ==
  IF session.status = "NONE" THEN Opens = {} /\ session.activeConnections = 0 ELSE Opens # {}
Base == Typed /\ Bounded /\ RowExists

(* What a close in flight knows, while no report overlaps another's close: *)
(* it is alone, the count it computed is one less than the row's, and an   *)
(* end that is about to be announced has been written.                     *)
OneLess == IF session.activeConnections = 0 THEN 0 ELSE session.activeConnections - 1
CloseKnows ==
  ~raced => \A c \in Conns :
    /\ closed[c] = "write" => next[c] = OneLess
    /\ closed[c] = "notify" => session.status # "ACTIVE"
Ends == CloseKnows /\ EndedIffIdle /\ AnnouncedEnd

(* Without a lost, repeated or overtaken report, a close is handled after  *)
(* the open of its connection.                                             *)
InOrder ==
  ~disturbed => \A c \in Conns :
    /\ closed[c] # "lost" /\ opened[c] # "lost"
    /\ closed[c] # "unsent" => opened[c] # "unsent"
    /\ closed[c] \in {"write", "notify", "done"} => opened[c] = "done"

SessionInv == Base /\ Ends /\ InOrder /\ CountExact

-----------------------------------------------------------------------------
LEMMA OpensFinite == IsFiniteSet(Opens) /\ Cardinality(Opens) \in Nat /\ Cardinality(Opens) <= Cardinality(Conns)
<1>1. IsFiniteSet(Conns) BY ConnsAssumption
<1>2. Opens \subseteq Conns BY DEF Opens
<1>3. IsFiniteSet(Opens) /\ Cardinality(Opens) <= Cardinality(Conns) BY <1>1, <1>2, FS_Subset
<1>4. QED BY <1>3, FS_CardinalityType

LEMMA CountedFinite == IsFiniteSet(Counted) /\ Cardinality(Counted) \in Nat
<1>1. IsFiniteSet(Conns) BY ConnsAssumption
<1>2. Counted \subseteq Conns BY DEF Counted
<1>3. IsFiniteSet(Counted) BY <1>1, <1>2, FS_Subset
<1>4. QED BY <1>3, FS_CardinalityType

LEMMA InitInv == Init => SessionInv
<1> SUFFICES ASSUME Init PROVE SessionInv OBVIOUS
<1>1. Opens = {} /\ Counted = {} BY DEF Init, Opens, Counted
<1>2. Cardinality(Opens) = 0 /\ Cardinality(Counted) = 0 BY <1>1, FS_EmptySet
<1>3. Typed BY DEF Init, Typed, Status, OpenAt, CloseAt
<1>4. Base BY <1>1, <1>2, <1>3 DEF Init, Base, Bounded, RowExists
<1>5. Ends BY DEF Init, Ends, CloseKnows, EndedIffIdle, AnnouncedEnd
<1>6. InOrder BY DEF Init, InOrder
<1>7. CountExact BY <1>2 DEF Init, CountExact
<1>8. QED BY <1>4, <1>5, <1>6, <1>7 DEF SessionInv

(* A step that leaves the row alone, no new open handled and no new count  *)
(* computed, keeps the base.                                               *)
LEMMA RowUntouchedBase ==
  ASSUME Base, session' = session, Typed', Opens' = Opens,
         \A c \in Conns : next'[c] <= session.activeConnections \/ next'[c] = next[c] \/ next'[c] = 0
  PROVE  Base'
<1>1. Cardinality(Opens) \in Nat BY OpensFinite
<1>2. Cardinality(Opens') = Cardinality(Opens) OBVIOUS
<1>3. Bounded' BY <1>1, <1>2 DEF Base, Bounded, Typed
<1>4. RowExists' BY DEF Base, RowExists
<1>5. QED BY <1>3, <1>4 DEF Base

(* The upsert.                                                             *)
LEMMA MarkConnectionOpenInv ==
  ASSUME SessionInv, NEW c \in Conns, MarkConnectionOpen(c)
  PROVE  SessionInv'
<1> USE DEF SessionInv, Ends
<1>t. Typed BY DEF Base
<1>1. Typed'
  <2>1. session' \in [status : Status, activeConnections : Nat]
    BY <1>t DEF MarkConnectionOpen, Typed, Status
  <2>2. opened' \in [Conns -> OpenAt] BY <1>t DEF MarkConnectionOpen, Typed, OpenAt
  <2>3. raced' \in BOOLEAN BY <1>t DEF MarkConnectionOpen, Typed
  <2>4. QED BY <1>t, <2>1, <2>2, <2>3 DEF MarkConnectionOpen, Typed
<1>2. /\ session'.status = "ACTIVE" /\ session'.activeConnections = session.activeConnections + 1
      /\ session'.activeConnections # 0
  BY <1>t DEF MarkConnectionOpen, Typed
<1>3. c \notin Opens /\ Opens' = Opens \cup {c} BY <1>t DEF MarkConnectionOpen, Opens, Typed
<1>4. Cardinality(Opens') = Cardinality(Opens) + 1
  <2>1. Cardinality(Opens \cup {c}) = Cardinality(Opens) + 1 BY <1>3, OpensFinite, FS_AddElement
  <2>2. QED BY <1>3, <2>1, Zenon
<1>5. Bounded'
  <2>1. session'.activeConnections <= Cardinality(Opens')
    BY <1>t, <1>2, <1>4, OpensFinite DEF Base, Bounded, Typed
  <2>2. \A d \in Conns : next'[d] <= Cardinality(Opens')
    BY <1>t, <1>4, OpensFinite DEF MarkConnectionOpen, Base, Bounded, Typed
  <2>3. QED BY <2>1, <2>2 DEF Bounded
<1>6. RowExists' BY <1>2, <1>3 DEF RowExists
<1>7. raced' \/ \A d \in Conns : closed[d] \notin {"write", "notify"}
  BY DEF MarkConnectionOpen, Closing
<1>8. CloseKnows' BY <1>7 DEF MarkConnectionOpen, CloseKnows
<1>9. EndedIffIdle' BY <1>2 DEF EndedIffIdle
<1>10. AnnouncedEnd' BY DEF MarkConnectionOpen, AnnouncedEnd
<1>11. InOrder' BY <1>t DEF MarkConnectionOpen, InOrder, Typed
<1>12. CountExact'
  <2> SUFFICES ASSUME ~raced', ~disturbed'
               PROVE  session'.activeConnections = Cardinality(Counted')
    BY DEF CountExact
  <2>1. ~raced /\ ~disturbed BY DEF MarkConnectionOpen
  <2>2. closed[c] \in {"unsent", "sent"} BY <1>t, <1>7, <2>1 DEF MarkConnectionOpen, InOrder, Typed, CloseAt
  <2>3. c \notin Counted /\ Counted' = Counted \cup {c}
    BY <1>t, <2>2 DEF MarkConnectionOpen, Counted, Typed
  <2>4. Cardinality(Counted \cup {c}) = Cardinality(Counted) + 1 BY <2>3, CountedFinite, FS_AddElement
  <2>5. Cardinality(Counted') = Cardinality(Counted) + 1 BY <2>3, <2>4, Zenon
  <2>6. QED BY <1>2, <2>1, <2>5 DEF CountExact
<1>13. QED BY <1>1, <1>5, <1>6, <1>8, <1>9, <1>10, <1>11, <1>12 DEF Base

(* The read of a close.                                                    *)
LEMMA ReadCountInv ==
  ASSUME SessionInv, NEW c \in Conns, ReadCount(c)
  PROVE  SessionInv'
<1> USE DEF SessionInv, Ends
<1> DEFINE known == IF session.status = "NONE" THEN 1 ELSE session.activeConnections
<1>t. Typed BY DEF Base
<1>1. next'[c] = OneLess
  BY <1>t DEF ReadCount, OneLess, Typed, Base, RowExists
<1>2. next' = [next EXCEPT ![c] = OneLess] BY <1>t, <1>1 DEF ReadCount, Typed
<1>3. OneLess \in Nat /\ OneLess <= session.activeConnections BY <1>t DEF OneLess, Typed
<1>4. Typed' BY <1>t, <1>2, <1>3 DEF ReadCount, Typed, CloseAt
<1>5. Opens' = Opens BY DEF ReadCount, Opens
<1>6. Base'
  BY <1>t, <1>2, <1>3, <1>4, <1>5, RowUntouchedBase DEF ReadCount, Typed
<1>7. raced' \/ \A d \in Conns \ {c} : closed[d] \notin {"write", "notify"}
  BY DEF ReadCount, Closing
<1>8. CloseKnows' BY <1>t, <1>1, <1>7 DEF ReadCount, CloseKnows, OneLess, Typed
<1>9. EndedIffIdle' /\ AnnouncedEnd' BY <1>t DEF ReadCount, EndedIffIdle, AnnouncedEnd, Typed
<1>10. InOrder' BY <1>t DEF ReadCount, InOrder, Typed, OpenAt
<1>11. Counted' = Counted BY <1>t DEF ReadCount, Counted, Typed
<1>12. Cardinality(Counted') = Cardinality(Counted) BY <1>11, Zenon
<1>13. CountExact' BY <1>t, <1>12 DEF ReadCount, CountExact, Typed
<1>14. QED BY <1>6, <1>8, <1>9, <1>10, <1>13

(* The write of a close.                                                   *)
LEMMA WriteCountInv ==
  ASSUME SessionInv, NEW c \in Conns, WriteCount(c)
  PROVE  SessionInv'
<1> USE DEF SessionInv, Ends
<1>t. Typed BY DEF Base
<1>1. /\ session' = IF session.status = "NONE" THEN session
                    ELSE [status |-> IF next[c] = 0 THEN "ENDED" ELSE session.status,
                          activeConnections |-> next[c]]
      /\ closed' = [closed EXCEPT ![c] = IF next[c] = 0 THEN "notify" ELSE "done"]
      /\ closed[c] = "write"
      /\ raced' = (raced \/ Closing(c) # {})
      /\ UNCHANGED <<opened, next, resent, announced, disturbed>>
  BY DEF WriteCount
<1>2. Typed' BY <1>t, <1>1 DEF Typed, Status, CloseAt
<1>3. Opens' = Opens BY <1>1 DEF Opens
<1>4. Bounded'
  <2>1. Cardinality(Opens') = Cardinality(Opens) BY <1>3, Zenon
  <2>2. QED BY <1>t, <1>1, <2>1, OpensFinite DEF Base, Bounded, Typed
<1>5. RowExists' BY <1>t, <1>1, <1>3 DEF Base, RowExists, Typed
<1>6. raced' \/ (~raced /\ next[c] = OneLess
                 /\ \A d \in Conns \ {c} : closed[d] \notin {"write", "notify"})
  BY <1>1 DEF Closing, CloseKnows
<1>7. CloseKnows' BY <1>t, <1>1, <1>6 DEF CloseKnows, Typed
<1>8. EndedIffIdle'
  BY <1>t, <1>1, <1>6 DEF EndedIffIdle, OneLess, Typed, Status
<1>9. AnnouncedEnd' BY <1>t, <1>1 DEF AnnouncedEnd, Typed
<1>10. InOrder' BY <1>t, <1>1 DEF InOrder, Typed
<1>11. CountExact'
  <2> SUFFICES ASSUME ~raced', ~disturbed'
               PROVE  session'.activeConnections = Cardinality(Counted')
    BY DEF CountExact
  <2>1. ~raced /\ ~disturbed /\ next[c] = OneLess BY <1>1, <1>6
  <2>2. opened[c] = "done" BY <1>1, <2>1 DEF InOrder
  <2>3. session.status # "NONE" BY <2>2 DEF Base, RowExists, Opens
  <2>4. c \in Counted /\ Counted' = Counted \ {c}
    BY <1>t, <1>1, <2>2 DEF Counted, Typed
  <2>5. Cardinality(Counted \ {c}) = Cardinality(Counted) - 1 BY <2>4, CountedFinite, FS_RemoveElement
  <2>6. Cardinality(Counted') = Cardinality(Counted) - 1 BY <2>4, <2>5, Zenon
  <2>7. Cardinality(Counted) # 0 BY <2>4, CountedFinite, FS_EmptySet
  <2>8. session.activeConnections = Cardinality(Counted) BY <2>1 DEF CountExact
  <2>9. session'.activeConnections = next[c] BY <1>1, <2>3
  <2>10. QED BY <2>1, <2>6, <2>7, <2>8, <2>9, CountedFinite DEF OneLess
<1>12. QED BY <1>2, <1>4, <1>5, <1>7, <1>8, <1>9, <1>10, <1>11 DEF Base

(* The announcement.                                                       *)
LEMMA NotifyMeetingEndedInv ==
  ASSUME SessionInv, NEW c \in Conns, NotifyMeetingEnded(c)
  PROVE  SessionInv'
<1> USE DEF SessionInv, Ends
<1>t. Typed BY DEF Base
<1>1. Typed' BY <1>t DEF NotifyMeetingEnded, Typed, CloseAt
<1>2. Opens' = Opens /\ Counted' = Counted
  BY <1>t DEF NotifyMeetingEnded, Opens, Counted, Typed
<1>3. Base' BY <1>1, <1>2, RowUntouchedBase DEF NotifyMeetingEnded
<1>4. CloseKnows' /\ EndedIffIdle'
  BY <1>t DEF NotifyMeetingEnded, CloseKnows, OneLess, EndedIffIdle, Typed
<1>5. AnnouncedEnd' BY <1>t DEF NotifyMeetingEnded, CloseKnows, AnnouncedEnd, Typed, Status
<1>6. InOrder' BY <1>t DEF NotifyMeetingEnded, InOrder, Typed
<1>7. Cardinality(Counted') = Cardinality(Counted) BY <1>2, Zenon
<1>8. CountExact' BY <1>7 DEF NotifyMeetingEnded, CountExact
<1>9. QED BY <1>3, <1>4, <1>5, <1>6, <1>8

(* Reports that are sent, repeated or lost: no row is touched.             *)
LEMMA ReportInv ==
  ASSUME SessionInv, NEW c \in Conns,
         ReportOpen(c) \/ ReportClose(c) \/ ResendClose(c) \/ LoseOpen(c) \/ LoseClose(c)
  PROVE  SessionInv'
<1> USE DEF SessionInv, Ends
<1>t. Typed BY DEF Base
<1>1. /\ session' = session /\ next' = next /\ announced' = announced /\ raced' = raced
      /\ disturbed => disturbed'
  BY DEF ReportOpen, ReportClose, ResendClose, LoseOpen, LoseClose
<1>2. Typed'
  BY <1>t DEF Typed, OpenAt, CloseAt, ReportOpen, ReportClose, ResendClose, LoseOpen, LoseClose
<1>3. Opens' = Opens
  BY <1>t DEF Opens, Typed, ReportOpen, ReportClose, ResendClose, LoseOpen, LoseClose
<1>4. Base' BY <1>1, <1>2, <1>3, RowUntouchedBase
<1>5. \A d \in Conns : closed'[d] \in {"write", "notify"} => closed'[d] = closed[d]
  BY <1>t DEF Typed, ReportOpen, ReportClose, ResendClose, LoseOpen, LoseClose
<1>6. CloseKnows' BY <1>1, <1>5 DEF CloseKnows, OneLess
<1>7. EndedIffIdle' /\ AnnouncedEnd' BY <1>1 DEF EndedIffIdle, AnnouncedEnd
<1>8. InOrder'
  BY <1>t DEF InOrder, Typed, ReportOpen, ReportClose, ResendClose, LoseOpen, LoseClose
<1>9. disturbed' \/ Counted' = Counted
  BY <1>t DEF Counted, Typed, ReportOpen, ReportClose, ResendClose, LoseOpen, LoseClose
<1>10. disturbed' \/ Cardinality(Counted') = Cardinality(Counted) BY <1>9, Zenon
<1>11. CountExact' BY <1>1, <1>10 DEF CountExact
<1>12. QED BY <1>4, <1>6, <1>7, <1>8, <1>11

LEMMA NextInv == SessionInv /\ [Next]_vars => SessionInv'
<1> SUFFICES ASSUME SessionInv, [Next]_vars PROVE SessionInv' OBVIOUS
<1>1. ASSUME NEW c \in Conns, Handle(c) PROVE SessionInv'
  BY <1>1, MarkConnectionOpenInv, ReadCountInv, WriteCountInv, NotifyMeetingEndedInv DEF Handle
<1>2. CASE UNCHANGED vars
  <2>1. Counted' = Counted /\ Opens' = Opens BY <1>2 DEF vars, Counted, Opens
  <2>2. /\ Cardinality(Counted') = Cardinality(Counted)
        /\ Cardinality(Opens') = Cardinality(Opens) BY <2>1, Zenon
  <2>3. QED BY <1>2, <2>1, <2>2
    DEF vars, SessionInv, Base, Typed, Bounded, RowExists, Ends, CloseKnows, OneLess,
        EndedIffIdle, AnnouncedEnd, InOrder, CountExact
<1>3. QED BY <1>1, <1>2, ReportInv DEF Next

-----------------------------------------------------------------------------
(* Every variable keeps its type, and activeConnections, which a stale     *)
(* close may overwrite, never exceeds the number of connections: the       *)
(* column SessionsService increments and overwrites.                       *)
THEOREM TypeCorrect == Spec => []TypeOK
<1>1. SessionInv => TypeOK
  <2> SUFFICES ASSUME SessionInv PROVE TypeOK OBVIOUS
  <2>1. Cardinality(Conns) \in Nat BY ConnsAssumption, FS_CardinalityType
  <2>2. session.activeConnections \in 0..Cardinality(Conns)
    BY <2>1, OpensFinite DEF SessionInv, Base, Typed, Bounded
  <2>3. \A c \in Conns : next[c] \in 0..Cardinality(Conns)
    BY <2>1, OpensFinite DEF SessionInv, Base, Typed, Bounded
  <2>4. QED BY <2>2, <2>3 DEF SessionInv, Base, Typed, TypeOK, Status, OpenAt, CloseAt
<1>2. QED BY InitInv, NextInv, <1>1, PTL DEF Spec

(* SessionsService.markConnectionClosed ends a session exactly when it     *)
(* writes a count of zero, and markConnectionOpen revives it: while no     *)
(* report is handled inside another's close, a session is ENDED if and     *)
(* only if it counts no connection, whatever is lost, repeated or late.    *)
THEOREM EndSafety == Spec => []EndedIffIdle
<1>1. SessionInv => EndedIffIdle BY DEF SessionInv, Ends
<1>2. QED BY InitInv, NextInv, <1>1, PTL DEF Spec

(* The increment of markConnectionOpen and the absolute write of           *)
(* markConnectionClosed count the open connections exactly, when no close  *)
(* is overlapped and every report is handled once and in order.            *)
THEOREM CountSafety == Spec => []CountExact
<1>1. SessionInv => CountExact BY DEF SessionInv
<1>2. QED BY InitInv, NextInv, <1>1, PTL DEF Spec

(* MonitorService.notifyMeetingEnded is called only for a session whose    *)
(* row says ENDED, and an open withdraws the announcement.                 *)
THEOREM AnnouncementSafety == Spec => []AnnouncedEnd
<1>1. SessionInv => AnnouncedEnd BY DEF SessionInv, Ends
<1>2. QED BY InitInv, NextInv, <1>1, PTL DEF Spec
=============================================================================
