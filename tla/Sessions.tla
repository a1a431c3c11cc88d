------------------------------ MODULE Sessions ------------------------------
(***************************************************************************)
(* The Session row of one meeting (SessionsService), the lifecycle reports *)
(* the audio pipeline sends for the meeting's connections                  *)
(* (FeedbackGrpcServer.reportSessionLifecycle), and the meeting-ended      *)
(* event the managers' monitor receives.                                   *)
(*                                                                         *)
(* Opening is one atomic upsert; closing reads the connection count and    *)
(* writes the next one in a second statement, then records an event, then  *)
(* announces the end.  The reports are separate gRPC calls: they overlap,  *)
(* get lost, arrive out of order or twice.                                 *)
(***************************************************************************)
EXTENDS Naturals, FiniteSets

CONSTANTS Conns,     (* the audio connections of the meeting                *)
          Resends    (* the connections whose close report may be sent again *)

ASSUME ConnsAssumption == IsFiniteSet(Conns) /\ Resends \subseteq Conns

VARIABLES
  session,    (* the row: status ("NONE" before it exists), activeConnections *)
  opened,     (* opened[c]: where the open report of c is                   *)
  closed,     (* closed[c]: where the close report of c is                  *)
  next,       (* next[c]: nextConnections computed by the close of c        *)
  resent,     (* connections whose close report was sent twice              *)
  announced,  (* the monitor's last word: meeting-ended, or live again      *)
  raced,      (* history: a report was handled inside another's close       *)
  disturbed   (* history: a report was lost, repeated or overtaken          *)

vars == <<session, opened, closed, next, resent, announced, raced, disturbed>>

TypeOK ==
  /\ session \in [status : {"NONE", "ACTIVE", "ENDED"}, activeConnections : 0..Cardinality(Conns)]
  /\ opened \in [Conns -> {"unsent", "sent", "done", "lost"}]
  /\ closed \in [Conns -> {"unsent", "sent", "write", "notify", "done", "lost"}]
  /\ next \in [Conns -> 0..Cardinality(Conns)]
  /\ resent \subseteq Resends
  /\ announced \in BOOLEAN /\ raced \in BOOLEAN /\ disturbed \in BOOLEAN

Init ==
  /\ session = [status |-> "NONE", activeConnections |-> 0]
  /\ opened = [c \in Conns |-> "unsent"]
  /\ closed = [c \in Conns |-> "unsent"]
  /\ next = [c \in Conns |-> 0]
  /\ resent = {}
  /\ announced = FALSE /\ raced = FALSE /\ disturbed = FALSE

(* The connections other than c whose close has read the row and is not    *)
(* finished with it.                                                       *)
Closing(c) == {d \in Conns \ {c} : closed[d] \in {"write", "notify"}}

(* The connections the row should count.                                   *)
Counted == {c \in Conns : opened[c] = "done" /\ closed[c] \in {"unsent", "sent", "write"}}

-----------------------------------------------------------------------------
(* The pipeline reports an open, and later a close, of each connection.    *)
ReportOpen(c) ==
  /\ opened[c] = "unsent"
  /\ opened' = [opened EXCEPT ![c] = "sent"]
  /\ UNCHANGED <<session, closed, next, resent, announced, raced, disturbed>>

ReportClose(c) ==
  /\ opened[c] # "unsent" /\ closed[c] = "unsent"
  /\ closed' = [closed EXCEPT ![c] = "sent"]
  /\ UNCHANGED <<session, opened, next, resent, announced, raced, disturbed>>

(* A caller that did not get the answer of a close repeats it.             *)
ResendClose(c) ==
  /\ c \in Resends \ resent
  /\ closed[c] \in {"done", "lost"}
  /\ closed' = [closed EXCEPT ![c] = "sent"]
  /\ resent' = resent \cup {c}
  /\ disturbed' = TRUE
  /\ UNCHANGED <<session, opened, next, announced, raced>>

(* Mutations of MarkConnectionOpen: an ended session is not reopened; the  *)
(* count is set, not incremented.                                          *)
OpenKeepsStatus(c) ==
  /\ opened[c] = "sent"
  /\ session' = [status |-> IF session.status = "NONE" THEN "ACTIVE" ELSE session.status,
                 activeConnections |-> session.activeConnections + 1]
  /\ opened' = [opened EXCEPT ![c] = "done"]
  /\ announced' = FALSE
  /\ raced' = (raced \/ closed[c] \in {"write", "notify"} \/ Closing(c) # {})
  /\ UNCHANGED <<closed, next, resent, disturbed>>

OpenSetsOne(c) ==
  /\ opened[c] = "sent"
  /\ session' = [status |-> "ACTIVE", activeConnections |-> 1]
  /\ opened' = [opened EXCEPT ![c] = "done"]
  /\ announced' = FALSE
  /\ raced' = (raced \/ closed[c] \in {"write", "notify"} \/ Closing(c) # {})
  /\ UNCHANGED <<closed, next, resent, disturbed>>

(* SessionsService.markConnectionOpen: the upsert.                         *)
MarkConnectionOpen(c) ==
  /\ opened[c] = "sent"
  /\ session' = [status |-> "ACTIVE", activeConnections |-> session.activeConnections + 1]
  /\ opened' = [opened EXCEPT ![c] = "done"]
  /\ announced' = FALSE
  /\ raced' = (raced \/ closed[c] \in {"write", "notify"} \/ Closing(c) # {})
  /\ UNCHANGED <<closed, next, resent, disturbed>>

(* SessionsService.markConnectionClosed: findUnique ...                    *)
ReadCount(c) ==
  LET known == IF session.status = "NONE" THEN 1 ELSE session.activeConnections IN
  /\ closed[c] = "sent"
  /\ next' = [next EXCEPT ![c] = IF known = 0 THEN 0 ELSE known - 1]
  /\ closed' = [closed EXCEPT ![c] = "write"]
  /\ disturbed' = (disturbed \/ opened[c] = "sent")
  /\ raced' = (raced \/ Closing(c) # {})
  /\ UNCHANGED <<session, opened, resent, announced>>

(* Mutations of WriteCount: every close announces the end; none does.      *)
WriteThenAlwaysNotify(c) ==
  /\ closed[c] = "write"
  /\ session' = IF session.status = "NONE" THEN session
                ELSE [status |-> IF next[c] = 0 THEN "ENDED" ELSE session.status,
                      activeConnections |-> next[c]]
  /\ closed' = [closed EXCEPT ![c] = "notify"]
  /\ raced' = (raced \/ Closing(c) # {})
  /\ UNCHANGED <<opened, next, resent, announced, disturbed>>

WriteThenNeverNotify(c) ==
  /\ closed[c] = "write"
  /\ session' = IF session.status = "NONE" THEN session
                ELSE [status |-> IF next[c] = 0 THEN "ENDED" ELSE session.status,
                      activeConnections |-> next[c]]
  /\ closed' = [closed EXCEPT ![c] = "done"]
  /\ raced' = (raced \/ Closing(c) # {})
  /\ UNCHANGED <<opened, next, resent, announced, disturbed>>

(* ... then updateMany, which finds no row if the session does not exist.  *)
WriteCount(c) ==
  LET last == next[c] = 0 IN
  /\ closed[c] = "write"
  /\ session' = IF session.status = "NONE" THEN session
                ELSE [status |-> IF last THEN "ENDED" ELSE session.status,
                      activeConnections |-> next[c]]
  /\ closed' = [closed EXCEPT ![c] = IF last THEN "notify" ELSE "done"]
  /\ raced' = (raced \/ Closing(c) # {})
  /\ UNCHANGED <<opened, next, resent, announced, disturbed>>

(* MonitorService.notifyMeetingEnded, after the event row was written.     *)
NotifyMeetingEnded(c) ==
  /\ closed[c] = "notify"
  /\ closed' = [closed EXCEPT ![c] = "done"]
  /\ announced' = TRUE
  /\ UNCHANGED <<session, opened, next, resent, raced, disturbed>>

(* A report never arrives, or its handler fails before its next statement. *)
LoseOpen(c) ==
  /\ opened[c] = "sent"
  /\ opened' = [opened EXCEPT ![c] = "lost"]
  /\ disturbed' = TRUE
  /\ UNCHANGED <<session, closed, next, resent, announced, raced>>

LoseClose(c) ==
  /\ closed[c] \in {"sent", "write", "notify"}
  /\ closed' = [closed EXCEPT ![c] = "lost"]
  /\ disturbed' = TRUE
  /\ UNCHANGED <<session, opened, next, resent, announced, raced>>

Handle(c) == MarkConnectionOpen(c) \/ ReadCount(c) \/ WriteCount(c) \/ NotifyMeetingEnded(c)

Next == \E c \in Conns : \/ ReportOpen(c) \/ ReportClose(c) \/ ResendClose(c)
                         \/ Handle(c)
                         \/ LoseOpen(c) \/ LoseClose(c)

(* A handler that was called finishes, unless it fails.                    *)
Spec == Init /\ [][Next]_vars /\ \A c \in Conns : WF_vars(Handle(c))

-----------------------------------------------------------------------------
(* A session is ENDED exactly while it counts no connection, whatever is   *)
(* lost, repeated or reordered, as long as no report is handled between    *)
(* the read and the end of another's close.                                *)
EndedIffIdle ==
  ~raced /\ session.status # "NONE" =>
    (session.status = "ENDED" <=> session.activeConnections = 0)

(* Without such an overlap, and with every report handled once and in      *)
(* order, activeConnections is the number of connections that are open: no *)
(* update is lost between the atomic increment and the absolute write.     *)
CountExact ==
  ~raced /\ ~disturbed => session.activeConnections = Cardinality(Counted)

(* The monitor is told that a meeting has ended only if it has: when the   *)
(* row exists and no report overlapped a close, the row is ENDED.          *)
AnnouncedEnd ==
  ~raced /\ announced /\ session.status # "NONE" => session.status = "ENDED"

(* Once the last connection has closed, with no overlap and no lost        *)
(* report, the session ends and the monitor hears of it (or a new          *)
(* connection has been reported).                                          *)
AllClosed ==
  /\ \E c \in Conns : opened[c] # "unsent"
  /\ \A c \in Conns : opened[c] # "unsent" => closed[c] # "unsent"
EndIsReached ==
  AllClosed ~> \/ session.status = "ENDED" /\ announced
               \/ ~AllClosed \/ raced \/ disturbed
=============================================================================
