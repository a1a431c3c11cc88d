-------------------------- MODULE FeedbackPipeline --------------------------
(***************************************************************************)
(* Feedback from the LLM pipeline to the viewers of a meeting:             *)
(* FeedbackService.createFeedback (called from PublishFeedback, again when *)
(* the pipeline retries) and FeedbackGateway's join-room.                  *)
(*                                                                         *)
(* createFeedback looks the analysis window up, then broadcasts and only   *)
(* starts to insert the row: the insert completes, or fails, after the     *)
(* caller has its answer.  Joining puts the socket into the room at once,  *)
(* then loads the recent rows and acknowledges.                            *)
(***************************************************************************)
EXTENDS Naturals, FiniteSets

CONSTANTS
  Windows,      (* analysis windows: participant, type, severity, windowEnd *)
  Meetings,
  MeetingOf,    (* the meeting of each window                               *)
  Calls,        (* the createFeedback calls that are made                   *)
  Viewers,      (* the sockets                                              *)
  Joins,        (* the join-room messages that are sent                     *)
  RecentLimit   (* how many rows loadRecentFeedback takes (20)              *)

ASSUME WindowsAssumption == MeetingOf \in [Windows -> Meetings]
ASSUME FiniteAssumption == IsFiniteSet(Calls) /\ IsFiniteSet(Joins)
ASSUME LimitAssumption == RecentLimit \in Nat \ {0}

VARIABLES
  call,      (* call[c]: a createFeedback call                              *)
  flying,    (* feedback broadcast whose insert has not completed           *)
  rows,      (* the FeedbackEvent rows                                      *)
  room,      (* room[v]: the room the socket of v is in                     *)
  join,      (* join[j]: a join-room handler                                *)
  received,  (* received[v]: feedback v was sent since it last joined       *)
  acked,     (* acked[v]: the meeting of the last room-joined v was sent    *)
  sent,      (* history: all feedback ever broadcast                        *)
  early,     (* history: windows retried before the first insert completed  *)
  unsaved,   (* history: windows of which an insert failed                  *)
  excused,   (* excused[v], history: what v's load could not have found     *)
  hasty      (* history: viewers that joined again before an acknowledgement *)

vars == <<call, flying, rows, room, join, received, acked, sent, early, unsaved, excused, hasty>>

NoRoom == "none"
NoFeedback == [id |-> 0, window |-> "none"]
Feedback == [id : 1..Cardinality(Calls), window : Windows]
Of(es, m) == {e \in es : MeetingOf[e.window] = m}

TypeOK ==
  /\ call \in [Calls -> [step : {"unused", "lookup", "emit", "done", "failed"},
                         window : Windows \cup {"none"}, found : Feedback \cup {NoFeedback}]]
  /\ flying \subseteq Feedback /\ rows \subseteq Feedback /\ sent \subseteq Feedback
  /\ room \in [Viewers -> Meetings \cup {NoRoom}]
  /\ join \in [Joins -> [step : {"unused", "load", "ack", "done"}, viewer : Viewers \cup {"none"},
                         meeting : Meetings \cup {NoRoom}, recent : SUBSET Feedback]]
  /\ received \in [Viewers -> SUBSET Feedback] /\ excused \in [Viewers -> SUBSET Feedback]
  /\ acked \in [Viewers -> Meetings \cup {NoRoom}]
  /\ early \subseteq Windows /\ unsaved \subseteq Windows /\ hasty \subseteq Viewers

Init ==
  /\ call = [c \in Calls |-> [step |-> "unused", window |-> "none", found |-> NoFeedback]]
  /\ flying = {} /\ rows = {} /\ sent = {}
  /\ room = [v \in Viewers |-> NoRoom]
  /\ join = [j \in Joins |-> [step |-> "unused", viewer |-> "none", meeting |-> NoRoom, recent |-> {}]]
  /\ received = [v \in Viewers |-> {}] /\ excused = [v \in Viewers |-> {}]
  /\ acked = [v \in Viewers |-> NoRoom]
  /\ early = {} /\ unsaved = {} /\ hasty = {}

viewing == <<room, join, acked, excused, hasty>>
calling == <<call, flying, sent, early, unsaved>>

-----------------------------------------------------------------------------
(* createFeedback, called for the first time or again, for any window.     *)
Publish(c) ==
  /\ call[c].step = "unused"
  /\ \E w \in Windows : call' = [call EXCEPT ![c].step = "lookup", ![c].window = w]
  /\ UNCHANGED <<flying, rows, received, sent, early, unsaved, viewing>>

Saved(w) == {e \in rows : e.window = w}

(* Feedback of w that will have, or is getting, a row the lookup misses.   *)
Underway(w) == \/ \E e \in flying : e.window = w
               \/ \E c \in Calls : call[c].step = "emit" /\ call[c].window = w
                                   /\ call[c].found = NoFeedback

(* Mutation of Lookup: finds nothing.                                      *)
LookupBlind(c) ==
  /\ call[c].step = "lookup"
  /\ call' = [call EXCEPT ![c].step = "emit"]
  /\ early' = early \cup (IF Saved(call[c].window) = {} /\ Underway(call[c].window)
                          THEN {call[c].window} ELSE {})
  /\ UNCHANGED <<flying, rows, received, sent, unsaved, viewing>>

(* The idempotency guard: findFirst.                                       *)
Lookup(c) ==
  LET w == call[c].window IN
  /\ call[c].step = "lookup"
  /\ \E e \in IF Saved(w) = {} THEN {NoFeedback} ELSE Saved(w) :
       call' = [call EXCEPT ![c].step = "emit", ![c].found = e]
  /\ early' = early \cup (IF Saved(w) = {} /\ Underway(w) THEN {w} ELSE {})
  /\ UNCHANGED <<flying, rows, received, sent, unsaved, viewing>>

(* LlmFeedbackService.handleIngress logs a failed lookup and lets it pass. *)
LookupFails(c) ==
  /\ call[c].step = "lookup"
  /\ call' = [call EXCEPT ![c].step = "failed"]
  /\ UNCHANGED <<flying, rows, received, sent, early, unsaved, viewing>>

(* FeedbackGateway.broadcastFeedback: to the sockets in the room.          *)
Broadcast(e) ==
  received' = [v \in Viewers |-> IF room[v] = MeetingOf[e.window]
                                 THEN received[v] \cup {e} ELSE received[v]]

(* Mutation of Emit: the row that exists is inserted again.                *)
EmitAgain(c) ==
  LET new == [id |-> Cardinality(sent) + 1, window |-> call[c].window] IN
  /\ call[c].step = "emit"
  /\ call' = [call EXCEPT ![c].step = "done"]
  /\ Broadcast(new) /\ flying' = flying \cup {new} /\ sent' = sent \cup {new}
  /\ UNCHANGED <<rows, early, unsaved, viewing>>

(* Broadcast the row that exists, or new feedback whose insert starts now. *)
(* Ids are numbered by createdAt.                                          *)
Emit(c) ==
  LET new == [id |-> Cardinality(sent) + 1, window |-> call[c].window] IN
  /\ call[c].step = "emit"
  /\ call' = [call EXCEPT ![c].step = "done"]
  /\ IF call[c].found # NoFeedback
     THEN Broadcast(call[c].found) /\ UNCHANGED <<flying, sent>>
     ELSE Broadcast(new) /\ flying' = flying \cup {new} /\ sent' = sent \cup {new}
  /\ UNCHANGED <<rows, early, unsaved, viewing>>

(* persistFeedbackAsync: the insert succeeds, or fails and is logged.      *)
Persist ==
  /\ \E e \in flying : rows' = rows \cup {e} /\ flying' = flying \ {e}
  /\ UNCHANGED <<call, received, sent, early, unsaved, viewing>>

PersistFails ==
  /\ \E e \in flying : flying' = flying \ {e} /\ unsaved' = unsaved \cup {e.window}
  /\ UNCHANGED <<call, rows, received, sent, early, viewing>>

-----------------------------------------------------------------------------
(* FeedbackGateway.handleJoinRoom: leave the other room and enter this one ... *)
Waiting(v) == {j \in Joins : join[j].step \in {"load", "ack"} /\ join[j].viewer = v}

JoinRoom(j) ==
  /\ join[j].step = "unused"
  /\ \E v \in Viewers, m \in Meetings :
       /\ join' = [join EXCEPT ![j] = [step |-> "load", viewer |-> v, meeting |-> m, recent |-> {}]]
       /\ room' = [room EXCEPT ![v] = m]
       /\ received' = [received EXCEPT ![v] = {}]
       /\ excused' = [excused EXCEPT ![v] = {}]
       /\ hasty' = IF Waiting(v) = {} THEN hasty \ {v} ELSE hasty \cup {v}
  /\ UNCHANGED <<rows, acked, calling>>

(* ... loadRecentFeedback: the newest rows, none if the query fails ...    *)
Newest(es) == {e \in es : Cardinality({f \in es : f.id > e.id}) < RecentLimit}

(* Mutations of LoadRecent: the oldest rows; no answer when it fails.      *)
LoadOldest(j) ==
  LET m == join[j].meeting
      es == Of(rows, m) IN
  /\ join[j].step = "load"
  /\ join' = [join EXCEPT ![j].step = "ack",
                  ![j].recent = {e \in es : Cardinality({f \in es : f.id < e.id}) < RecentLimit}]
  /\ excused' = [excused EXCEPT ![join[j].viewer] = @ \cup Of(flying, m)]
  /\ UNCHANGED <<rows, room, received, acked, hasty, calling>>

LoadOrGiveUp(j) ==
  LET m == join[j].meeting  v == join[j].viewer IN
  /\ join[j].step = "load"
  /\ \/ /\ join' = [join EXCEPT ![j].step = "ack", ![j].recent = Newest(Of(rows, m))]
        /\ excused' = [excused EXCEPT ![v] = @ \cup Of(flying, m)]
     \/ /\ join' = [join EXCEPT ![j].step = "done"]
        /\ excused' = [excused EXCEPT ![v] = @ \cup Of(rows \cup flying, m)]
  /\ UNCHANGED <<rows, room, received, acked, hasty, calling>>

LoadRecent(j) ==
  LET m == join[j].meeting  v == join[j].viewer IN
  /\ join[j].step = "load"
  /\ \/ /\ join' = [join EXCEPT ![j].step = "ack", ![j].recent = Newest(Of(rows, m))]
        /\ excused' = [excused EXCEPT ![v] = @ \cup Of(flying, m)]
     \/ /\ join' = [join EXCEPT ![j].step = "ack"]
        /\ excused' = [excused EXCEPT ![v] = @ \cup Of(rows \cup flying, m)]
  /\ UNCHANGED <<rows, room, received, acked, hasty, calling>>

(* ... and room-joined, if the socket is still there.                      *)
AckJoin(j) ==
  LET v == join[j].viewer IN
  /\ join[j].step = "ack"
  /\ join' = [join EXCEPT ![j].step = "done", ![j].recent = {}]
  /\ received' = [received EXCEPT ![v] = @ \cup join[j].recent]
  /\ acked' = [acked EXCEPT ![v] = join[j].meeting]
  /\ UNCHANGED <<rows, room, excused, hasty, calling>>

(* FeedbackGateway.handleDisconnect; what was in flight reaches nobody.    *)
Disconnect(v) ==
  /\ room[v] # NoRoom
  /\ room' = [room EXCEPT ![v] = NoRoom]
  /\ received' = [received EXCEPT ![v] = {}]
  /\ excused' = [excused EXCEPT ![v] = {}]
  /\ acked' = [acked EXCEPT ![v] = NoRoom]
  /\ hasty' = hasty \ {v}
  /\ join' = [j \in Joins |-> IF j \in Waiting(v)
                              THEN [join[j] EXCEPT !.step = "done", !.recent = {}] ELSE join[j]]
  /\ UNCHANGED <<rows, calling>>

(* The process stops: calls and inserts in flight are gone, sockets drop.  *)
Restart ==
  /\ call' = [c \in Calls |-> IF call[c].step \in {"lookup", "emit"}
                              THEN [call[c] EXCEPT !.step = "failed"] ELSE call[c]]
  /\ flying' = {}
  /\ unsaved' = unsaved \cup {e.window : e \in flying}
  /\ room' = [v \in Viewers |-> NoRoom]
  /\ received' = [v \in Viewers |-> {}]
  /\ excused' = [v \in Viewers |-> {}]
  /\ acked' = [v \in Viewers |-> NoRoom]
  /\ hasty' = {}
  /\ join' = [j \in Joins |-> IF join[j].step \in {"load", "ack"}
                              THEN [join[j] EXCEPT !.step = "done", !.recent = {}] ELSE join[j]]
  /\ UNCHANGED <<rows, sent, early>>

Next ==
  \/ \E c \in Calls : Publish(c) \/ Lookup(c) \/ LookupFails(c) \/ Emit(c)
  \/ Persist
  \/ PersistFails
  \/ \E j \in Joins : JoinRoom(j) \/ LoadRecent(j) \/ AckJoin(j)
  \/ \E v \in Viewers : Disconnect(v)
  \/ Restart

Spec == Init /\ [][Next]_vars

-----------------------------------------------------------------------------
Settled(v) == room[v] # NoRoom /\ Waiting(v) = {}

(* No gap between history and live feed: a viewer whose join was answered  *)
(* has been sent the newest rows of the meeting, as many as a history      *)
(* holds, except those whose insert was under way (or whose query failed)  *)
(* when its history was loaded.  This is why the socket enters the room    *)
(* before the rows are read.  (A viewer that joins again before an answer  *)
(* came may be sent the older history last.)                               *)
NoGaps ==
  \A v \in Viewers \ hasty : Settled(v) =>
    Newest(Of(rows, room[v])) \subseteq received[v] \cup excused[v]

(* The last room-joined a viewer was sent names the room it is in, even    *)
(* when its history could not be loaded, unless it joined again before an  *)
(* answer came.                                                            *)
AckedRoom == \A v \in Viewers \ hasty : Settled(v) => acked[v] = room[v]

(* The idempotency guard keeps one row per window, through retries, failed *)
(* inserts and restarts, unless a retry arrived while the first insert was *)
(* still under way.                                                        *)
OneRowPerWindow == \A w \in Windows \ early : Cardinality(Saved(w)) <= 1

(* Retries of a window reuse the id of its row, by which the overlay       *)
(* recognises duplicates, unless they came early or an insert failed.      *)
OneIdPerWindow ==
  \A w \in Windows \ (early \cup unsaved) : Cardinality({e \in sent : e.window = w}) <= 1
=============================================================================
