-------------------------- MODULE SellerRoomsProofs --------------------------
(***************************************************************************)
(* Theorems about the two models of src/seller-rooms.  Those about         *)
(* FingerprintStream come first: they hold for any processes, any finite   *)
(* set of messages in flight, and any sequence numbers, batch and message  *)
(* bounds.  Those about SellerRooms, here the instance Room, hold for any  *)
(* finite set of users, any invitations, sockets and handlers, and any     *)
(* limit of members; the variables whose names both models use are renamed.*)
(***************************************************************************)
EXTENDS FingerprintStream, FiniteSetTheorems, SequenceTheorems, TLAPS

CONSTANTS Users, Creator, Invs, InviteeOf, Sockets, OwnerOf, Requests, Ops, RedisFails, MaxMembers
VARIABLES status, idle, members, invited, late, sock, presence, ttl, online, pc, loc, sweep,
          joined, arrived

Room == INSTANCE SellerRooms
          WITH room <- status, member <- members, pending <- invited, redis <- online,
               since <- joined

MsgType == {Idle} \cup [at : {"check", "set", "send"}, seq : Seqs, proc : Procs]
EnderType == [at : {"idle", "write", "purge"}, listed : BOOLEAN]
Busy == {m \in Messages : msg[m] # Idle}

(* A message that was asked for is broadcast at most once.                 *)
Typed ==
  /\ room \in {"open", "ended"}
  /\ member \in BOOLEAN /\ redis \in BOOLEAN /\ sure \in BOOLEAN /\ clean \in BOOLEAN
  /\ ender \in [Enders -> EnderType]
  /\ lastSeq \in Seqs \cup {None} /\ top \in Seqs \cup {None}
  /\ msg \in [Messages -> MsgType]
  /\ pending \in [Procs -> Seq(Nat)] /\ writing \in [Procs -> Seq(Seq(Nat))] /\ batch \in Seq(Nat)
  /\ sent \in Nat /\ since \in Nat /\ listener \in {"out", "in", "read", "told"}
  /\ home \in Procs \cup {Nowhere}
Counted ==
  /\ asked \in 0..MaxMessages /\ sent + Cardinality(Busy) <= asked
  /\ since <= sent /\ heard \cup lost \subseteq 1..sent

(* While sure, one message at most is between check and broadcast; Redis   *)
(* holds the largest number, or the one about to be broadcast.             *)
Numbers ==
  sure =>
    /\ top <= lastSeq
    /\ \A m, o \in Messages : msg[m].at \in {"set", "send"} /\ msg[o].at \in {"set", "send"} => m = o
    /\ \A m \in Messages : msg[m].at = "set" => msg[m].seq > lastSeq
    /\ \A m \in Messages : msg[m].at = "send" => msg[m].seq > top /\ msg[m].seq = lastSeq

(* From the read of the snapshot on the listener hears everything, except  *)
(* what other processes broadcast while Redis was down.                    *)
Hearing == listener \in {"read", "told"} => (since + 1)..sent \subseteq heard \cup lost

(* Whatever waits to be written, or was, was broadcast.                    *)
Buffered ==
  /\ WrittenOnce
  /\ \A p \in Procs : Waiting(p) \subseteq 1..sent
  /\ Range(batch) \subseteq 1..sent

(* A room is purged after its row is ENDED.                                *)
Ending == \A e \in Enders : ender[e].at = "purge" => room = "ended"

(* A room purged undisturbed has nobody left to write.                     *)
Purged == clean => /\ room = "ended" /\ lastSeq = None /\ batch = << >>
                   /\ Quiet

StreamInv == Typed /\ Counted /\ Numbers /\ Hearing /\ Buffered /\ Ending /\ Purged

-----------------------------------------------------------------------------
(* Sequences: what Append and Tail do to the elements and to the order.    *)
LEMMA AppendFacts ==
  ASSUME NEW S, NEW s \in Seq(S), NEW e \in S
  PROVE  /\ Append(s, e) \in Seq(S)
         /\ DOMAIN s = 1..Len(s) /\ Len(s) \in Nat
         /\ DOMAIN Append(s, e) = 1..(Len(s) + 1)
         /\ \A i \in DOMAIN s : Append(s, e)[i] = s[i]
         /\ Append(s, e)[Len(s) + 1] = e
         /\ Range(Append(s, e)) = Range(s) \cup {e}
<1>1. /\ Append(s, e) \in Seq(S) /\ Len(Append(s, e)) = Len(s) + 1
      /\ \A i \in 1..Len(s) : Append(s, e)[i] = s[i]
      /\ Append(s, e)[Len(s) + 1] = e
  BY AppendProperties
<1>2. Len(s) \in Nat /\ DOMAIN s = 1..Len(s) /\ DOMAIN Append(s, e) = 1..(Len(s) + 1)
  BY <1>1, LenProperties
<1>3. Range(Append(s, e)) = Range(s) \cup {e} BY <1>1, <1>2 DEF Range
<1>4. QED BY <1>1, <1>2, <1>3

LEMMA TailFacts ==
  ASSUME NEW S, NEW s \in Seq(S), s # << >>
  PROVE  /\ Tail(s) \in Seq(S) /\ Head(s) \in S
         /\ Len(s) \in Nat \ {0} /\ DOMAIN s = 1..Len(s)
         /\ Head(s) = s[1]
         /\ DOMAIN Tail(s) = 1..(Len(s) - 1)
         /\ \A i \in DOMAIN Tail(s) : Tail(s)[i] = s[i + 1]
<1>1. Len(s) \in Nat \ {0} /\ DOMAIN s = 1..Len(s) BY EmptySeq, LenProperties
<1>2. /\ Tail(s) \in Seq(S) /\ Head(s) \in S /\ Len(Tail(s)) = Len(s) - 1
      /\ \A i \in 1..Len(Tail(s)) : Tail(s)[i] = s[i + 1]
  BY HeadTailProperties
<1>3. Head(s) = s[1] OBVIOUS
<1>4. DOMAIN Tail(s) = 1..(Len(s) - 1) BY <1>2, LenProperties
<1>5. QED BY <1>1, <1>2, <1>3, <1>4

(* A number larger than all before it may be appended.                     *)
LEMMA IncreasingAppend ==
  ASSUME NEW s \in Seq(Nat), NEW n \in Nat, Increasing(s), \A x \in Range(s) : x < n
  PROVE  Increasing(Append(s, n))
<1> DEFINE t == Append(s, n)
<1>1. /\ DOMAIN s = 1..Len(s) /\ Len(s) \in Nat /\ DOMAIN t = 1..(Len(s) + 1)
      /\ \A i \in DOMAIN s : t[i] = s[i]
      /\ t[Len(s) + 1] = n
  BY AppendFacts
<1>2. SUFFICES ASSUME NEW i \in DOMAIN t, NEW j \in DOMAIN t, i < j PROVE t[i] < t[j]
  BY DEF Increasing
<1> HIDE DEF t
<1>3. i \in DOMAIN s /\ t[i] = s[i] /\ s[i] \in Range(s) BY <1>1, <1>2 DEF Range
<1>4. CASE j \in DOMAIN s BY <1>1, <1>2, <1>3, <1>4 DEF Increasing
<1>5. CASE j = Len(s) + 1 BY <1>1, <1>3, <1>5
<1>6. QED BY <1>1, <1>4, <1>5

(* The numbers that a process has still to write.                          *)
Numbered(W, P) == Range(P) \cup UNION {Range(W[i]) : i \in DOMAIN W}

LEMMA EmptyFacts ==
  /\ << >> \in Seq(Nat) /\ << >> \in Seq(Seq(Nat))
  /\ Range(<< >>) = {} /\ Increasing(<< >>)
  /\ InOrder(<< >>, << >>) /\ Numbered(<< >>, << >>) = {}
<1>1. << >> \in Seq(Nat) /\ << >> \in Seq(Seq(Nat)) /\ DOMAIN << >> = {} OBVIOUS
<1>2. QED BY <1>1 DEF Range, Increasing, InOrder, Numbered, Before

(* A newer fingerprint may wait in the buffer ...                          *)
LEMMA BufferGrows ==
  ASSUME NEW W \in Seq(Seq(Nat)), NEW P \in Seq(Nat), NEW n \in Nat,
         InOrder(W, P), \A x \in Numbered(W, P) : x < n
  PROVE  /\ InOrder(W, Append(P, n))
         /\ Numbered(W, Append(P, n)) = Numbered(W, P) \cup {n}
<1>1. Range(Append(P, n)) = Range(P) \cup {n} BY AppendFacts
<1>2. \A x \in Range(P) : x < n BY DEF Numbered
<1>3. \A i \in DOMAIN W : \A x \in Range(W[i]) : x < n BY DEF Numbered
<1>4. Increasing(Append(P, n)) BY <1>2, IncreasingAppend DEF InOrder
<1>5. \A i \in DOMAIN W : Increasing(W[i]) /\ Before(W[i], Append(P, n))
  BY <1>1, <1>3 DEF InOrder, Before
<1>6. InOrder(W, Append(P, n)) BY <1>4, <1>5 DEF InOrder
<1>7. Numbered(W, Append(P, n)) = Numbered(W, P) \cup {n} BY <1>1 DEF Numbered
<1>8. QED BY <1>6, <1>7

(* ... the buffer may become the last batch to write ...                   *)
LEMMA BufferFlushed ==
  ASSUME NEW W \in Seq(Seq(Nat)), NEW P \in Seq(Nat), InOrder(W, P)
  PROVE  /\ InOrder(Append(W, P), << >>)
         /\ Numbered(Append(W, P), << >>) = Numbered(W, P)
<1> DEFINE V == Append(W, P)
<1>1. /\ DOMAIN W = 1..Len(W) /\ Len(W) \in Nat /\ DOMAIN V = 1..(Len(W) + 1)
      /\ \A i \in DOMAIN W : V[i] = W[i]
      /\ V[Len(W) + 1] = P
  BY AppendFacts
<1> HIDE DEF V
<1>2. Range(<< >>) = {} /\ Increasing(<< >>) BY EmptyFacts
<1>3. \A i \in DOMAIN V : i \in DOMAIN W \/ i = Len(W) + 1
  <2>1. PICK k \in Nat : k = Len(W) BY <1>1
  <2>2. \A i \in 1..(k + 1) : i \in 1..k \/ i = k + 1 OBVIOUS
  <2>3. QED BY <1>1, <2>1, <2>2
<1>4. \A i \in DOMAIN V : Increasing(V[i]) BY <1>1, <1>3 DEF InOrder
<1>5. \A i \in DOMAIN V : Before(V[i], << >>) BY <1>2 DEF Before
<1>6. ASSUME NEW i \in DOMAIN V, NEW j \in DOMAIN V, i < j PROVE Before(V[i], V[j])
  <2>1. i \in DOMAIN W BY <1>1, <1>6
  <2>2. CASE j \in DOMAIN W BY <1>1, <1>6, <2>1, <2>2 DEF InOrder
  <2>3. CASE j = Len(W) + 1 BY <1>1, <2>1, <2>3 DEF InOrder
  <2>4. QED BY <1>3, <2>2, <2>3
<1>7. InOrder(V, << >>) BY <1>2, <1>4, <1>5, <1>6 DEF InOrder
<1>8. Numbered(V, << >>) = Numbered(W, P)
  <2>1. UNION {Range(V[i]) : i \in DOMAIN V} = Range(P) \cup UNION {Range(W[i]) : i \in DOMAIN W}
    <3>1. Len(W) + 1 \in DOMAIN V /\ DOMAIN W \subseteq DOMAIN V BY <1>1
    <3>2. \A i \in DOMAIN W : V[i] = W[i] BY <1>1
    <3>3. V[Len(W) + 1] = P BY <1>1
    <3>4. QED BY <3>1, <3>2, <3>3, <1>3
  <2>2. QED BY <2>1, <1>2 DEF Numbered
<1>9. QED BY <1>7, <1>8 DEF V

(* ... and the oldest batch may go.                                        *)
LEMMA BatchLeaves ==
  ASSUME NEW W \in Seq(Seq(Nat)), NEW P \in Seq(Nat), InOrder(W, P), W # << >>
  PROVE  /\ InOrder(Tail(W), P)
         /\ Numbered(Tail(W), P) \subseteq Numbered(W, P)
         /\ Range(Head(W)) \subseteq Numbered(W, P)
         /\ Range(Head(W)) \cap Numbered(Tail(W), P) = {}
         /\ Increasing(Head(W))
         /\ Range(Head(W)) \subseteq Nat
<1> DEFINE V == Tail(W)
<1>1. /\ Len(W) \in Nat \ {0} /\ DOMAIN W = 1..Len(W) /\ Head(W) = W[1] /\ Head(W) \in Seq(Nat)
      /\ DOMAIN V = 1..(Len(W) - 1)
      /\ \A i \in DOMAIN V : V[i] = W[i + 1]
  BY TailFacts
<1> HIDE DEF V
<1>2. \A i \in DOMAIN V : i + 1 \in DOMAIN W /\ V[i] = W[i + 1] /\ 1 < i + 1 BY <1>1
<1>3. 1 \in DOMAIN W BY <1>1
<1>4. \A i \in DOMAIN V : Increasing(V[i]) /\ Before(V[i], P) BY <1>2 DEF InOrder
<1>5. \A i, j \in DOMAIN V : i < j => Before(V[i], V[j])
  <2>1. \A i, j \in DOMAIN V : i < j => i + 1 < j + 1 BY <1>1
  <2>2. QED BY <1>2, <2>1 DEF InOrder
<1>6. InOrder(V, P) BY <1>4, <1>5 DEF InOrder
<1>7. Numbered(V, P) \subseteq Numbered(W, P) BY <1>2 DEF Numbered
<1>8. Range(Head(W)) \subseteq Numbered(W, P) BY <1>1, <1>3 DEF Numbered
<1>9. Range(Head(W)) \subseteq Nat
  <2>1. \A i \in DOMAIN Head(W) : Head(W)[i] \in Nat BY <1>1, LenProperties, ElementOfSeq
  <2>2. QED BY <2>1 DEF Range
<1>10. ASSUME NEW x \in Range(Head(W)), x \in Numbered(V, P) PROVE FALSE
  <2>1. x \in Nat BY <1>9
  <2>2. CASE x \in Range(P)
    <3>1. Before(W[1], P) BY <1>3 DEF InOrder
    <3>2. x < x BY <1>1, <1>10, <2>2, <3>1 DEF Before
    <3>3. QED BY <2>1, <3>2
  <2>3. ASSUME NEW i \in DOMAIN V, x \in Range(V[i]) PROVE FALSE
    <3>1. Before(W[1], W[i + 1]) BY <1>2, <1>3 DEF InOrder
    <3>2. QED BY <1>1, <1>2, <2>1, <2>3, <3>1 DEF Before
  <2>4. x \in Range(P) \/ \E i \in DOMAIN V : x \in Range(V[i]) BY <1>10 DEF Numbered
  <2>5. QED BY <2>2, <2>3, <2>4
<1>11. Increasing(Head(W)) BY <1>1, <1>3 DEF InOrder
<1>12. QED BY <1>6, <1>7, <1>8, <1>9, <1>10, <1>11 DEF V

LEMMA WaitingNumbered == \A p \in Procs : Waiting(p) = Numbered(writing[p], pending[p])
BY DEF Waiting, Numbered

-----------------------------------------------------------------------------
LEMMA InitInv == Init => StreamInv
<1> SUFFICES ASSUME Init PROVE StreamInv OBVIOUS
<1>1. Idle \in MsgType BY DEF MsgType
<1>2. Typed BY <1>1, EmptyFacts DEF Init, Typed, Resting, EnderType
<1>3. Counted
  <2>1. Busy = {} BY DEF Init, Busy
  <2>2. Cardinality(Busy) = 0 BY <2>1, FS_EmptySet
  <2>3. QED BY <2>2, StreamAssumption DEF Init, Counted
<1>4. Numbers BY DEF Init, Numbers, Idle, None
<1>5. Hearing BY DEF Init, Hearing
<1>6. Buffered
  <2>1. \A p \in Procs : pending[p] = << >> /\ writing[p] = << >> BY DEF Init
  <2>2. \A p \in Procs : Waiting(p) = {} /\ InOrder(writing[p], pending[p])
    BY <2>1, WaitingNumbered, EmptyFacts
  <2>3. Range(batch) = {} /\ Increasing(batch) BY EmptyFacts DEF Init
  <2>4. QED BY <2>2, <2>3 DEF Buffered, WrittenOnce
<1>7. Purged BY DEF Init, Purged
<1>8. Ending BY DEF Init, Ending, Resting
<1>9. QED BY <1>2, <1>3, <1>4, <1>5, <1>6, <1>7, <1>8 DEF StreamInv

-----------------------------------------------------------------------------
(* One message moves.                                                      *)
LEMMA MsgMoves ==
  ASSUME Typed, NEW m \in Messages, NEW r \in MsgType, msg' = [msg EXCEPT ![m] = r]
  PROVE  /\ msg' \in [Messages -> MsgType] /\ msg'[m] = r
         /\ \A o \in Messages : o # m => msg'[o] = msg[o]
BY DEF Typed

LEMMA BusyCount ==
  /\ IsFiniteSet(Busy) /\ Cardinality(Busy) \in Nat
<1>1. Busy \subseteq Messages BY DEF Busy
<1>2. QED BY <1>1, StreamAssumption, FS_Subset, FS_CardinalityType

(* What is broadcast and what is under way never exceeds what was asked.   *)
LEMMA CountedTaken ==
  ASSUME Typed, NEW m \in Messages, NEW r \in MsgType, msg' = [msg EXCEPT ![m] = r],
         msg[m] = Idle, r # Idle
  PROVE  Cardinality(Busy') = Cardinality(Busy) + 1
<1>1. Busy' = Busy \cup {m} BY MsgMoves DEF Busy
<1>2. m \notin Busy BY DEF Busy
<1>3. QED BY <1>1, <1>2, BusyCount, FS_AddElement

LEMMA CountedLeft ==
  ASSUME Typed, NEW m \in Messages, msg' = [msg EXCEPT ![m] = Idle], msg[m] # Idle
  PROVE  Cardinality(Busy') = Cardinality(Busy) - 1
<1>0. Idle \in MsgType BY DEF MsgType
<1>1. Busy' = Busy \ {m} BY <1>0, MsgMoves DEF Busy
<1>2. m \in Busy BY DEF Busy
<1>3. QED BY <1>1, <1>2, BusyCount, FS_RemoveElement

LEMMA CountedFewer ==
  ASSUME Typed, Counted, Busy' \subseteq Busy, UNCHANGED <<asked, sent, since, heard, lost>>
  PROVE  Counted'
<1>1. Cardinality(Busy') <= Cardinality(Busy) /\ Cardinality(Busy') \in Nat
  BY BusyCount, FS_Subset, FS_CardinalityType
<1> PICK b \in Nat : b = Cardinality(Busy) BY BusyCount
<1> PICK c \in Nat : c = Cardinality(Busy') BY <1>1
<1>2. sent + b <= asked /\ sent \in Nat /\ asked \in Nat BY StreamAssumption DEF Counted, Typed
<1>3. sent' + c <= asked' BY <1>1, <1>2
<1>4. QED BY <1>3 DEF Counted

(* A listener that is out has heard nothing.                               *)
LEMMA CountedDeaf ==
  ASSUME Typed, Counted, Busy' \subseteq Busy, UNCHANGED <<asked, sent>>,
         heard' = {}, lost' = {}, since' = 0
  PROVE  Counted'
<1>1. Cardinality(Busy') <= Cardinality(Busy) /\ Cardinality(Busy') \in Nat
  BY BusyCount, FS_Subset, FS_CardinalityType
<1> PICK b \in Nat : b = Cardinality(Busy) BY BusyCount
<1> PICK c \in Nat : c = Cardinality(Busy') BY <1>1
<1>2. sent + b <= asked /\ sent \in Nat /\ asked \in Nat BY StreamAssumption DEF Counted, Typed
<1>3. sent' + c <= asked' /\ since' <= sent' BY <1>1, <1>2
<1>4. QED BY <1>3 DEF Counted

LEMMA BufferedSame ==
  ASSUME Buffered, UNCHANGED <<pending, writing, batch, sent>>
  PROVE  Buffered'
BY DEF Buffered, WrittenOnce, Waiting

(* A message that is not between check and broadcast is no concern.        *)
LEMMA NumbersFewer ==
  ASSUME Numbers, sure' => sure, UNCHANGED <<top, lastSeq>>,
         \A o \in Messages : msg'[o] = msg[o] \/ msg'[o].at \notin {"set", "send"}
  PROVE  Numbers'
<1> SUFFICES ASSUME sure' PROVE Numbers' BY DEF Numbers
<1>1. \A o \in Messages : msg'[o].at \in {"set", "send"} => msg'[o] = msg[o] OBVIOUS
<1>2. \A m, o \in Messages : msg'[m].at \in {"set", "send"} /\ msg'[o].at \in {"set", "send"} => m = o
  BY <1>1 DEF Numbers
<1>3. \A m \in Messages : msg'[m].at = "set" => msg'[m].seq > lastSeq' BY <1>1 DEF Numbers
<1>4. \A m \in Messages : msg'[m].at = "send" => msg'[m].seq > top' /\ msg'[m].seq = lastSeq'
  BY <1>1 DEF Numbers
<1>5. top' <= lastSeq' BY DEF Numbers
<1>6. QED BY <1>2, <1>3, <1>4, <1>5 DEF Numbers

(* Redis may forget the last number, and with it what is sure ...          *)
LEMMA NumbersForgotten ==
  ASSUME Numbers, sure' => sure /\ lastSeq' = lastSeq, UNCHANGED <<top, msg>>
  PROVE  Numbers'
<1>1. CASE sure' BY <1>1, NumbersFewer
<1>2. CASE ~sure' BY <1>2 DEF Numbers
<1>3. QED BY <1>1, <1>2

(* ... and the batch.                                                      *)
LEMMA BufferedForgotten ==
  ASSUME Buffered, batch' \in {batch, << >>}, UNCHANGED <<pending, writing, sent>>
  PROVE  Buffered'
<1>1. CASE batch' = batch BY <1>1, BufferedSame
<1>2. CASE batch' = << >>
  <2>1. Range(batch') = {} /\ Increasing(batch') BY <1>2, EmptyFacts
  <2>2. \A p \in Procs : Waiting(p)' = Waiting(p) BY DEF Waiting
  <2>3. WrittenOnce' BY <2>1, <2>2 DEF Buffered, WrittenOnce
  <2>4. QED BY <2>1, <2>2, <2>3 DEF Buffered
<1>3. QED BY <1>1, <1>2

LEMMA EndingSame ==
  ASSUME Ending, UNCHANGED <<room, ender>>
  PROVE  Ending'
BY DEF Ending

-----------------------------------------------------------------------------
LEMMA PublishPreserves ==
  ASSUME StreamInv, NEW m \in Messages, NEW p \in Procs, NEW n \in Seqs, HandlePublish(m, p, n)
  PROVE  StreamInv'
<1> USE DEF StreamInv
<1> PICK r \in MsgType : r = [at |-> "check", seq |-> n, proc |-> p] BY DEF MsgType
<1>1. msg' = [msg EXCEPT ![m] = r] /\ msg[m] = Idle /\ r.at = "check" BY DEF HandlePublish
<1>2. msg' \in [Messages -> MsgType] /\ msg'[m] = r /\ \A o \in Messages : o # m => msg'[o] = msg[o]
  BY <1>1, MsgMoves
<1>3. Typed' BY <1>2 DEF HandlePublish, Typed, store, buffer, audience, ending
<1>4. Counted'
  <2>1. r # Idle BY <1>1 DEF Idle
  <2>2. Cardinality(Busy') = Cardinality(Busy) + 1 BY <1>1, <2>1, CountedTaken
  <2>3. asked' = asked + 1 /\ asked < MaxMessages /\ UNCHANGED <<sent, since, heard, lost>>
    BY DEF HandlePublish, audience
  <2>4. sent \in Nat BY DEF Typed
  <2>5. QED BY <2>2, <2>3, <2>4, BusyCount, StreamAssumption DEF Counted
<1>5. Numbers'
  <2>1. \A o \in Messages : msg'[o] = msg[o] \/ msg'[o].at \notin {"set", "send"} BY <1>1, <1>2
  <2>2. QED BY <2>1, NumbersFewer DEF HandlePublish, store
<1>6. Hearing' BY DEF HandlePublish, audience, Hearing
<1>7. Buffered' BY BufferedSame DEF HandlePublish, store, buffer
<1>8. Purged' BY DEF HandlePublish, ending, Purged
<1>9. Ending' BY EndingSame DEF HandlePublish, ending
<1>10. QED BY <1>3, <1>4, <1>5, <1>6, <1>7, <1>8, <1>9

LEMMA CheckPreserves ==
  ASSUME StreamInv, NEW m \in Messages, CheckSeq(m)
  PROVE  StreamInv'
<1> USE DEF StreamInv
<1>1. msg[m] \in MsgType /\ msg[m].at = "check" /\ msg[m] # Idle BY DEF CheckSeq, Typed, Idle
<1>2. msg[m] \in [at : {"check", "set", "send"}, seq : Seqs, proc : Procs] BY <1>1 DEF MsgType
<1> PICK r \in MsgType : r = IF msg[m].seq <= Known THEN Idle ELSE [msg[m] EXCEPT !.at = "set"]
  BY <1>2 DEF MsgType
<1>3. msg' = [msg EXCEPT ![m] = r] BY DEF CheckSeq
<1>4. msg' \in [Messages -> MsgType] /\ msg'[m] = r /\ \A o \in Messages : o # m => msg'[o] = msg[o]
  BY <1>3, MsgMoves
<1>5. Typed'
  <2>1. sure' \in BOOLEAN BY DEF CheckSeq
  <2>2. QED BY <1>4, <2>1 DEF CheckSeq, Typed, store, buffer, audience, ending
<1>6. Counted'
  <2>1. Busy' \subseteq Busy BY <1>1, <1>4 DEF Busy
  <2>2. QED BY <2>1, CountedFewer DEF CheckSeq, audience
<1>7. Numbers'
  <2> SUFFICES ASSUME sure' PROVE Numbers' BY DEF Numbers
  <2>1. sure /\ redis /\ Alone BY DEF CheckSeq
  <2>2. \A o \in Messages : msg[o].at \notin {"set", "send"} BY <2>1 DEF Alone
  <2>3. \A o \in Messages : msg'[o].at \in {"set", "send"} => o = m BY <1>4, <2>2
  <2>4. r.at \in {"set", "send"} => r.at = "set" /\ r.seq = msg[m].seq /\ r.seq > lastSeq
    <3>1. CASE msg[m].seq <= Known BY <3>1 DEF Idle
    <3>2. CASE ~(msg[m].seq <= Known)
      <4>1. r.at = "set" /\ r.seq = msg[m].seq BY <1>2, <3>2
      <4>2. msg[m].seq \in Int /\ lastSeq \in Int BY <1>2 DEF Typed, Seqs, None
      <4>3. ~(msg[m].seq <= lastSeq) BY <2>1, <3>2 DEF Known
      <4>4. QED BY <4>1, <4>2, <4>3
    <3>3. QED BY <3>1, <3>2
  <2>5. UNCHANGED <<top, lastSeq>> BY DEF CheckSeq, store
  <2>6. \A o \in Messages : msg'[o].at = "set" => msg'[o].seq > lastSeq BY <1>4, <2>3, <2>4
  <2>7. \A o \in Messages : msg'[o].at # "send" BY <1>4, <2>3, <2>4
  <2>8. QED BY <2>1, <2>3, <2>5, <2>6, <2>7 DEF Numbers
<1>8. Hearing' BY DEF CheckSeq, audience, Hearing
<1>9. Buffered' BY BufferedSame DEF CheckSeq, store, buffer
<1>10. Purged'
  <2>1. ~Quiet BY <1>1 DEF Quiet
  <2>2. QED BY <2>1 DEF CheckSeq, ending, Purged
<1>11. Ending' BY EndingSame DEF CheckSeq, ending
<1>12. QED BY <1>5, <1>6, <1>7, <1>8, <1>9, <1>10, <1>11

LEMMA SetPreserves ==
  ASSUME StreamInv, NEW m \in Messages, SetSeq(m)
  PROVE  StreamInv'
<1> USE DEF StreamInv
<1>1. msg[m] \in MsgType /\ msg[m].at = "set" /\ msg[m] # Idle BY DEF SetSeq, Typed, Idle
<1>2. msg[m] \in [at : {"check", "set", "send"}, seq : Seqs, proc : Procs] BY <1>1 DEF MsgType
<1> PICK r \in MsgType : r = [msg[m] EXCEPT !.at = "send"] BY <1>2 DEF MsgType
<1>3. msg' = [msg EXCEPT ![m] = r] /\ r.at = "send" /\ r.seq = msg[m].seq /\ r # Idle
  BY <1>2 DEF SetSeq, Idle
<1>4. msg' \in [Messages -> MsgType] /\ msg'[m] = r /\ \A o \in Messages : o # m => msg'[o] = msg[o]
  BY <1>3, MsgMoves
<1>5. msg[m].seq \in Seqs BY <1>2
<1>6. Typed'
  <2>1. sure' \in BOOLEAN BY DEF SetSeq
  <2>2. lastSeq' \in Seqs \cup {None} BY <1>5 DEF SetSeq, Typed
  <2>3. QED BY <1>4, <2>1, <2>2 DEF SetSeq, Typed, buffer, audience, ending
<1>7. Counted'
  <2>1. Busy' \subseteq Busy BY <1>1, <1>4 DEF Busy
  <2>2. QED BY <2>1, CountedFewer DEF SetSeq, audience
<1>8. Numbers'
  <2> SUFFICES ASSUME sure' PROVE Numbers' BY DEF Numbers
  <2>1. sure /\ redis BY DEF SetSeq
  <2>2. lastSeq' = r.seq /\ top' = top BY <1>3, <2>1 DEF SetSeq
  <2>3. \A o \in Messages : msg'[o].at \in {"set", "send"} => o = m
    <3>1. \A o \in Messages : msg[o].at \in {"set", "send"} => o = m BY <1>1, <2>1 DEF Numbers
    <3>2. QED BY <1>4, <3>1
  <2>4. top < r.seq
    <3>1. PICK t \in Int : t = top BY DEF Typed, Seqs, None
    <3>2. PICK l \in Int : l = lastSeq BY DEF Typed, Seqs, None
    <3>3. PICK s \in Int : s = r.seq BY <1>3, <1>5 DEF Seqs
    <3>4. t <= l /\ s > l BY <1>1, <1>3, <2>1, <3>1, <3>2, <3>3 DEF Numbers
    <3>5. QED BY <3>1, <3>3, <3>4
  <2>5. top \in Int /\ r.seq \in Int BY <1>3, <1>5 DEF Typed, Seqs, None
  <2>6. top <= r.seq /\ r.seq > top BY <2>4, <2>5
  <2>7. \A o \in Messages : msg'[o].at # "set" BY <1>3, <1>4, <2>3
  <2>8. \A o \in Messages : msg'[o].at = "send" => msg'[o].seq = r.seq BY <1>4, <2>3
  <2>9. QED BY <2>2, <2>3, <2>6, <2>7, <2>8 DEF Numbers
<1>9. Hearing' BY DEF SetSeq, audience, Hearing
<1>10. Buffered' BY BufferedSame DEF SetSeq, buffer
<1>11. Purged'
  <2>1. ~Quiet BY <1>1 DEF Quiet
  <2>2. QED BY <2>1 DEF SetSeq, ending, Purged
<1>12. Ending' BY EndingSame DEF SetSeq, ending
<1>13. QED BY <1>6, <1>7, <1>8, <1>9, <1>10, <1>11, <1>12

(* enqueueForCache takes one new number into the buffer or the last batch. *)
LEMMA EnqueueTakes ==
  ASSUME Typed, Buffered, NEW p \in Procs, Enqueue(p), sent' = sent + 1
  PROVE  \E W \in Seq(Seq(Nat)), P \in Seq(Nat) :
           /\ writing' = [writing EXCEPT ![p] = W] /\ pending' = [pending EXCEPT ![p] = P]
           /\ InOrder(W, P) /\ Numbered(W, P) = Waiting(p) \cup {sent + 1}
<1> PICK n \in Nat : n = sent + 1 BY DEF Typed
<1> PICK V \in Seq(Seq(Nat)) : V = writing[p] BY DEF Typed
<1> PICK Q \in Seq(Nat) : Q = pending[p] BY DEF Typed
<1> PICK F \in Seq(Nat) : F = Append(Q, n) BY AppendFacts
<1> PICK A \in Seq(Seq(Nat)) : A = Append(V, F) BY AppendFacts
<1>1. Waiting(p) = Numbered(V, Q) /\ InOrder(V, Q) BY WaitingNumbered DEF Buffered, WrittenOnce
<1>2. \A x \in Numbered(V, Q) : x < n
  <2>1. sent \in Nat BY DEF Typed
  <2>2. Waiting(p) \subseteq 1..sent BY DEF Buffered
  <2>3. QED BY <1>1, <2>1, <2>2
<1>3. InOrder(V, F) /\ Numbered(V, F) = Waiting(p) \cup {n} BY <1>1, <1>2, BufferGrows
<1>4. InOrder(A, << >>) /\ Numbered(A, << >>) = Waiting(p) \cup {n} BY <1>3, BufferFlushed
<1>5. CASE Len(F) >= BatchSize
  <2>1. writing' = [writing EXCEPT ![p] = A] /\ pending' = [pending EXCEPT ![p] = << >>]
    BY <1>5 DEF Enqueue
  <2>2. << >> \in Seq(Nat) BY EmptyFacts
  <2>3. QED BY <1>4, <2>1, <2>2
<1>6. CASE ~(Len(F) >= BatchSize)
  <2>1. writing' = [writing EXCEPT ![p] = V] /\ pending' = [pending EXCEPT ![p] = F]
    BY <1>6 DEF Enqueue, Typed
  <2>2. QED BY <1>3, <2>1
<1>7. QED BY <1>5, <1>6

LEMMA SendPreserves ==
  ASSUME StreamInv, NEW m \in Messages, Send(m)
  PROVE  StreamInv'
<1> USE DEF StreamInv
<1>1. msg[m] \in MsgType /\ msg[m].at = "send" /\ msg[m] # Idle BY DEF Send, Typed, Idle
<1>2. msg[m] \in [at : {"check", "set", "send"}, seq : Seqs, proc : Procs] BY <1>1 DEF MsgType
<1>3. Idle \in MsgType /\ Idle.at = "idle" BY DEF MsgType, Idle
<1>4. msg' = [msg EXCEPT ![m] = Idle] /\ sent' = sent + 1 BY DEF Send
<1>5. msg' \in [Messages -> MsgType] /\ msg'[m] = Idle /\ \A o \in Messages : o # m => msg'[o] = msg[o]
  BY <1>3, <1>4, MsgMoves
<1> PICK p \in Procs : p = msg[m].proc BY <1>2
<1> PICK W \in Seq(Seq(Nat)), P \in Seq(Nat) :
      /\ writing' = [writing EXCEPT ![p] = W] /\ pending' = [pending EXCEPT ![p] = P]
      /\ InOrder(W, P) /\ Numbered(W, P) = Waiting(p) \cup {sent + 1}
  BY <1>4, EnqueueTakes DEF Send
<1>6. /\ writing' \in [Procs -> Seq(Seq(Nat))] /\ pending' \in [Procs -> Seq(Nat)]
      /\ writing'[p] = W /\ pending'[p] = P
      /\ \A q \in Procs : q # p => writing'[q] = writing[q] /\ pending'[q] = pending[q]
  BY DEF Typed
<1>7. msg[m].seq \in Seqs BY <1>2
<1>8. sent \in Nat /\ sent' \in Nat BY <1>4 DEF Typed
<1>9. Typed'
  <2>1. top' \in Seqs \cup {None} BY <1>7 DEF Send, Typed
  <2>2. QED BY <1>5, <1>6, <1>8, <2>1 DEF Send, Typed, store, ending
<1>10. Counted'
  <2>1. Cardinality(Busy') = Cardinality(Busy) - 1 BY <1>1, <1>4, CountedLeft
  <2> PICK b \in Nat : b = Cardinality(Busy) BY BusyCount
  <2>2. sent + b <= asked /\ asked \in Nat BY StreamAssumption DEF Counted
  <2>3. sent' + Cardinality(Busy') <= asked' /\ asked' \in 0..MaxMessages
    BY <1>4, <1>8, <2>1, <2>2 DEF Send, Counted
  <2>4. since' <= sent' BY <1>4, <1>8 DEF Send, Counted, Typed
  <2>5. heard' \cup lost' \subseteq 1..sent' BY <1>4, <1>8 DEF Send, Counted
  <2>6. QED BY <2>3, <2>4, <2>5 DEF Counted
<1>11. Numbers'
  <2> SUFFICES ASSUME sure' PROVE Numbers' BY DEF Numbers
  <2>1. sure /\ lastSeq' = lastSeq BY DEF Send, store
  <2>2. \A o \in Messages : msg[o].at \in {"set", "send"} => o = m BY <1>1, <2>1 DEF Numbers
  <2>3. \A o \in Messages : msg'[o].at \notin {"set", "send"} BY <1>3, <1>5, <2>2
  <2>4. msg[m].seq = lastSeq /\ msg[m].seq > top BY <1>1, <2>1 DEF Numbers
  <2>5. top' = lastSeq' BY <2>1, <2>4 DEF Send
  <2>6. lastSeq' \in Int BY <1>7, <2>1, <2>4 DEF Seqs
  <2>7. QED BY <2>3, <2>5, <2>6 DEF Numbers
<1>12. Hearing'
  <2>1. SUFFICES ASSUME listener \in {"read", "told"} PROVE (since + 1)..(sent + 1) \subseteq heard' \cup lost'
    BY <1>4 DEF Hearing, Send
  <2>2. heard' \cup lost' = heard \cup lost \cup {sent + 1} BY <1>4, <2>1 DEF Send, InRoom
  <2>3. (since + 1)..sent \subseteq heard \cup lost BY <2>1 DEF Hearing
  <2>4. since \in Nat BY DEF Typed
  <2>5. QED BY <1>8, <2>2, <2>3, <2>4
<1>13. Buffered'
  <2>1. \A q \in Procs : Waiting(q) \subseteq 1..sent BY DEF Buffered
  <2>2. sent + 1 \notin 1..sent /\ 1..sent \subseteq 1..(sent + 1) /\ sent + 1 \in 1..(sent + 1) BY <1>8
  <2>3. Waiting(p)' = Waiting(p) \cup {sent + 1}
    <3>1. Waiting(p)' = Numbered(writing'[p], pending'[p]) BY DEF Waiting, Numbered
    <3>2. QED BY <1>6, <3>1
  <2>4. \A q \in Procs : q # p => Waiting(q)' = Waiting(q) BY <1>6 DEF Waiting
  <2>5. \A q \in Procs : Waiting(q)' \subseteq 1..sent' BY <1>4, <2>1, <2>2, <2>3, <2>4
  <2>6. batch' = batch /\ Range(batch) \subseteq 1..sent BY DEF Send, store, Buffered
  <2>7. \A q \in Procs : InOrder(writing'[q], pending'[q]) BY <1>6 DEF Buffered, WrittenOnce
  <2>8. ASSUME NEW q \in Procs, NEW s \in Procs, q # s PROVE Waiting(q)' \cap Waiting(s)' = {}
    <3>1. Waiting(q) \cap Waiting(s) = {} BY <2>8 DEF Buffered, WrittenOnce
    <3>2. sent + 1 \notin Waiting(q) /\ sent + 1 \notin Waiting(s) BY <2>1, <2>2
    <3>3. QED BY <2>3, <2>4, <2>8, <3>1, <3>2
  <2>9. \A q \in Procs : Range(batch') \cap Waiting(q)' = {}
    <3>1. \A q \in Procs : Range(batch) \cap Waiting(q) = {} BY DEF Buffered, WrittenOnce
    <3>2. sent + 1 \notin Range(batch) BY <2>2, <2>6
    <3>3. QED BY <2>3, <2>4, <2>6, <3>1, <3>2
  <2>10. Increasing(batch') BY <2>6 DEF Buffered, WrittenOnce
  <2>11. Range(batch') \subseteq 1..sent' BY <1>4, <2>2, <2>6
  <2>12. QED BY <2>5, <2>7, <2>8, <2>9, <2>10, <2>11 DEF Buffered, WrittenOnce
<1>14. Purged'
  <2>1. ~Quiet BY <1>1 DEF Quiet
  <2>2. QED BY <2>1 DEF Send, ending, Purged
<1>15. Ending' BY EndingSame DEF Send, ending
<1>16. QED BY <1>9, <1>10, <1>11, <1>12, <1>13, <1>14, <1>15

LEMMA RefusedPreserves ==
  ASSUME StreamInv, NEW m \in Messages, Refused(m)
  PROVE  StreamInv'
<1> USE DEF StreamInv
<1>1. Idle \in MsgType /\ Idle.at = "idle" BY DEF MsgType, Idle
<1>2. msg' = [msg EXCEPT ![m] = Idle] /\ msg[m] # Idle BY DEF Refused
<1>3. msg' \in [Messages -> MsgType] /\ msg'[m] = Idle /\ \A o \in Messages : o # m => msg'[o] = msg[o]
  BY <1>1, <1>2, MsgMoves
<1>4. Typed' BY <1>3 DEF Refused, Typed, store, buffer, audience, ending
<1>5. Busy' \subseteq Busy BY <1>2, <1>3 DEF Busy
<1>6. Counted' BY <1>5, CountedFewer DEF Refused, audience
<1>7. Numbers'
  <2>1. \A o \in Messages : msg'[o] = msg[o] \/ msg'[o].at \notin {"set", "send"} BY <1>1, <1>3
  <2>2. QED BY <2>1, NumbersFewer DEF Refused, store
<1>8. Hearing' BY DEF Refused, audience, Hearing
<1>9. Buffered' BY BufferedSame DEF Refused, store, buffer
<1>10. Purged'
  <2>1. ~Quiet BY <1>2 DEF Quiet
  <2>2. QED BY <2>1 DEF Refused, ending, Purged
<1>11. Ending' BY EndingSame DEF Refused, ending
<1>12. QED BY <1>4, <1>6, <1>7, <1>8, <1>9, <1>10, <1>11

(* A process has the oldest of its batches no longer to write, or it has   *)
(* nothing left to write.                                                  *)
LEMMA BufferedShrinks ==
  ASSUME Typed, Buffered, NEW p \in Procs, NEW W \in Seq(Seq(Nat)), NEW P \in Seq(Nat),
         writing' = [writing EXCEPT ![p] = W], pending' = [pending EXCEPT ![p] = P],
         InOrder(W, P), Numbered(W, P) \subseteq Waiting(p), sent' = sent,
         Increasing(batch'),
         \/ batch' = batch
         \/ Range(batch') \subseteq Waiting(p) /\ Range(batch') \cap Numbered(W, P) = {}
  PROVE  Buffered'
<1>1. /\ writing'[p] = W /\ pending'[p] = P
      /\ \A q \in Procs : q # p => writing'[q] = writing[q] /\ pending'[q] = pending[q]
  BY DEF Typed
<1>2. Waiting(p)' = Numbered(W, P)
  <2>1. Waiting(p)' = Numbered(writing'[p], pending'[p]) BY DEF Waiting, Numbered
  <2>2. QED BY <1>1, <2>1
<1>3. \A q \in Procs : q # p => Waiting(q)' = Waiting(q) BY <1>1 DEF Waiting
<1>4. \A q \in Procs : Waiting(q)' \subseteq Waiting(q) BY <1>2, <1>3
<1>5. \A q \in Procs : InOrder(writing'[q], pending'[q]) BY <1>1 DEF Buffered, WrittenOnce
<1>6. \A q, r \in Procs : q # r => Waiting(q)' \cap Waiting(r)' = {}
  BY <1>4 DEF Buffered, WrittenOnce
<1>7. \A q \in Procs : Waiting(q)' \subseteq 1..sent' BY <1>4 DEF Buffered
<1>8. Range(batch') \subseteq 1..sent' /\ \A q \in Procs : Range(batch') \cap Waiting(q)' = {}
  <2>1. CASE batch' = batch BY <1>4, <2>1 DEF Buffered, WrittenOnce
  <2>2. CASE Range(batch') \subseteq Waiting(p) /\ Range(batch') \cap Numbered(W, P) = {}
    <3>1. Range(batch') \subseteq 1..sent' BY <2>2 DEF Buffered
    <3>2. \A q \in Procs : q # p => Waiting(p) \cap Waiting(q) = {} BY DEF Buffered, WrittenOnce
    <3>3. \A q \in Procs : Range(batch') \cap Waiting(q)' = {} BY <1>2, <1>3, <2>2, <3>2
    <3>4. QED BY <3>1, <3>3
  <2>3. QED BY <2>1, <2>2
<1>9. QED BY <1>5, <1>6, <1>7, <1>8 DEF Buffered, WrittenOnce

(* flushBatch's write arrives, or is refused.                              *)
LEMMA WritePreserves ==
  ASSUME StreamInv, NEW p \in Procs, StoreBatch(p) \/ WriteRefused(p)
  PROVE  StreamInv'
<1> USE DEF StreamInv
<1> PICK V \in Seq(Seq(Nat)) : V = writing[p] BY DEF Typed
<1> PICK P \in Seq(Nat) : P = pending[p] BY DEF Typed
<1>1. V # << >> BY DEF StoreBatch, WriteRefused
<1> PICK W \in Seq(Seq(Nat)) : W = Tail(V) BY <1>1, TailFacts
<1> PICK H \in Seq(Nat) : H = Head(V) BY <1>1, TailFacts
<1>2. /\ writing' = [writing EXCEPT ![p] = W] /\ batch' \in {H, batch}
      /\ UNCHANGED <<room, member, redis, lastSeq, pending, msg, asked, sent, listener, home, heard, lost,
                     since, top, sure, ender, clean>>
  BY DEF StoreBatch, WriteRefused, store, audience, ending
<1>3. writing' \in [Procs -> Seq(Seq(Nat))] /\ pending' = [pending EXCEPT ![p] = P]
  BY <1>2 DEF Typed
<1>4. batch' \in Seq(Nat) BY <1>2 DEF Typed
<1>5. Typed' BY <1>2, <1>3, <1>4 DEF Typed
<1>6. Busy' = Busy BY <1>2 DEF Busy
<1>7. Counted' BY <1>2, <1>6, CountedFewer
<1>8. Numbers' BY <1>2, NumbersFewer
<1>9. Hearing' BY <1>2 DEF Hearing
<1>10. Buffered'
  <2>1. InOrder(V, P) /\ Numbered(V, P) = Waiting(p) BY WaitingNumbered DEF Buffered, WrittenOnce
  <2>2. /\ InOrder(W, P) /\ Numbered(W, P) \subseteq Waiting(p)
        /\ Range(H) \subseteq Waiting(p) /\ Range(H) \cap Numbered(W, P) = {} /\ Increasing(H)
    BY <1>1, <2>1, BatchLeaves
  <2>3. Increasing(batch') BY <1>2, <2>2 DEF Buffered, WrittenOnce
  <2>4. QED BY <1>2, <1>3, <2>2, <2>3, BufferedShrinks
<1>11. Purged'
  <2>1. ~Quiet BY <1>1 DEF Quiet
  <2>2. QED BY <1>2, <2>1 DEF Purged
<1>12. Ending' BY <1>2, EndingSame
<1>13. QED BY <1>5, <1>7, <1>8, <1>9, <1>10, <1>11, <1>12

LEMMA RestartPreserves ==
  ASSUME StreamInv, NEW p \in Procs, Restart(p)
  PROVE  StreamInv'
<1> USE DEF StreamInv
<1>1. Idle \in MsgType /\ Idle.at = "idle" BY DEF MsgType, Idle
<1>2. /\ msg' \in [Messages -> MsgType]
      /\ \A o \in Messages : msg'[o] = msg[o] \/ msg'[o] = Idle
  BY <1>1 DEF Restart, Typed
<1>3. /\ writing' = [writing EXCEPT ![p] = << >>] /\ pending' = [pending EXCEPT ![p] = << >>]
      /\ UNCHANGED <<room, member, redis, lastSeq, batch, asked, sent, top, sure, ender, clean>>
      /\ \/ listener' = "out" /\ home' = Nowhere /\ heard' = {} /\ lost' = {} /\ since' = 0
         \/ UNCHANGED <<listener, home, heard, lost, since>>
  BY DEF Restart, Deaf, store, audience, ending
<1>4. Typed' BY <1>2, <1>3, EmptyFacts DEF Typed
<1>5. Busy' \subseteq Busy BY <1>2, <1>1 DEF Busy
<1>6. Counted'
  <2>1. CASE UNCHANGED <<listener, home, heard, lost, since>> BY <1>3, <1>5, <2>1, CountedFewer
  <2>2. CASE heard' = {} /\ lost' = {} /\ since' = 0 BY <1>3, <1>5, <2>2, CountedDeaf
  <2>3. QED BY <1>3, <2>1, <2>2
<1>7. Numbers'
  <2>1. \A o \in Messages : msg'[o] = msg[o] \/ msg'[o].at \notin {"set", "send"} BY <1>1, <1>2
  <2>2. QED BY <1>3, <2>1, NumbersFewer
<1>8. Hearing' BY <1>3 DEF Hearing
<1>9. Buffered'
  <2>1. Increasing(batch') BY <1>3 DEF Buffered, WrittenOnce
  <2>2. Numbered(<< >>, << >>) \subseteq Waiting(p) BY EmptyFacts
  <2>3. QED BY <1>3, <2>1, <2>2, EmptyFacts, BufferedShrinks
<1>10. Purged'
  <2>1. SUFFICES ASSUME clean PROVE Quiet' BY <1>3 DEF Purged
  <2>2. \A o \in Messages : msg'[o] = Idle BY <1>2, <2>1 DEF Purged, Quiet
  <2>3. \A q \in Procs : writing'[q] = << >> BY <1>3, <2>1 DEF Purged, Quiet, Typed
  <2>4. QED BY <2>2, <2>3 DEF Quiet
<1>11. Ending' BY <1>3, EndingSame
<1>12. QED BY <1>4, <1>6, <1>7, <1>8, <1>9, <1>10, <1>11

-----------------------------------------------------------------------------
(* What the listener does, and the talker's membership, the room and Redis *)
(* touch neither messages nor buffers.                                     *)
LEMMA ListenerPreserves ==
  ASSUME StreamInv, LeaveFormer \/ EnterRoom \/ ReadSnapshot \/ TellJoined \/ Disconnect
  PROVE  StreamInv'
<1> USE DEF StreamInv
<1>1. UNCHANGED <<room, member, redis, lastSeq, batch, pending, writing, msg, asked, sent,
                  top, sure, ender, clean>>
  BY DEF LeaveFormer, EnterRoom, ReadSnapshot, TellJoined, Disconnect, Listener, store, buffer, ending
<1>2. /\ listener' \in {"out", "in", "read", "told"}
      /\ home' \in Procs \cup {home, Nowhere}
      /\ \/ listener' \in {"out"} /\ heard' = {} /\ lost' = {} /\ since' = 0
         \/ listener' = "in" /\ UNCHANGED <<heard, lost, since>>
         \/ listener' = "read" /\ since' = sent /\ UNCHANGED <<heard, lost>>
         \/ listener = "read" /\ UNCHANGED <<heard, lost, since>>
  BY DEF LeaveFormer, EnterRoom, ReadSnapshot, TellJoined, Disconnect, Listener, Deaf
<1>3. sent \in Nat /\ since \in Nat /\ since' \in Nat BY <1>2 DEF Typed
<1>4. Typed' BY <1>1, <1>2, <1>3 DEF Typed
<1>5. Counted'
  <2>1. Busy' = Busy BY <1>1 DEF Busy
  <2>2. since' <= sent
    <3>1. since <= sent BY DEF Counted
    <3>2. since' = 0 \/ since' = since \/ since' = sent BY <1>2
    <3>3. QED BY <1>3, <3>1, <3>2
  <2>3. heard' \cup lost' = {} \/ heard' \cup lost' = heard \cup lost BY <1>2
  <2>4. heard' \cup lost' \subseteq 1..sent BY <2>3 DEF Counted
  <2>5. Cardinality(Busy') = Cardinality(Busy) BY <2>1
  <2>6. QED BY <1>1, <2>2, <2>4, <2>5 DEF Counted
<1>6. Numbers' BY <1>1, NumbersFewer
<1>7. Hearing'
  <2>1. SUFFICES ASSUME listener' \in {"read", "told"} PROVE (since' + 1)..sent \subseteq heard' \cup lost'
    BY <1>1 DEF Hearing
  <2>2. CASE since' = sent
    <3>1. (since' + 1)..sent = {} BY <1>3, <2>2
    <3>2. QED BY <3>1
  <2>3. CASE listener = "read" /\ UNCHANGED <<heard, lost, since>> BY <2>3 DEF Hearing
  <2>4. QED BY <1>2, <2>1, <2>2, <2>3
<1>8. Buffered' BY <1>1, BufferedSame
<1>9. Purged' BY <1>1 DEF Purged, Quiet
<1>10. Ending' BY <1>1, EndingSame
<1>11. QED BY <1>4, <1>5, <1>6, <1>7, <1>8, <1>9, <1>10

LEMMA RoomPreserves ==
  ASSUME StreamInv, MemberChanges \/ BatchExpires \/ LastSeqExpires \/ RedisFlips
  PROVE  StreamInv'
<1> USE DEF StreamInv
<1>1. UNCHANGED <<room, ender, clean, pending, writing, msg, asked, sent, listener, home, heard,
                  lost, since, top>>
  BY DEF MemberChanges, BatchExpires, LastSeqExpires, RedisFlips, store, buffer, audience, ending
<1>2. /\ batch' \in {batch, << >>} /\ lastSeq' \in {lastSeq, None}
      /\ sure' => sure /\ lastSeq' = lastSeq
  BY DEF MemberChanges, BatchExpires, LastSeqExpires, RedisFlips, store
<1>3. member' \in BOOLEAN /\ redis' \in BOOLEAN /\ sure' \in BOOLEAN
  BY DEF Typed, MemberChanges, BatchExpires, LastSeqExpires, RedisFlips, store
<1>4. batch' \in Seq(Nat) /\ lastSeq' \in Seqs \cup {None} BY <1>2, EmptyFacts DEF Typed
<1>5. Typed' BY <1>1, <1>3, <1>4 DEF Typed
<1>6. Counted'
  <2>1. Busy' = Busy BY <1>1 DEF Busy
  <2>2. QED BY <1>1, <2>1, CountedFewer
<1>7. Numbers' BY <1>1, <1>2, NumbersForgotten
<1>8. Hearing' BY <1>1 DEF Hearing
<1>9. Buffered' BY <1>1, <1>2, BufferedForgotten
<1>10. Purged' BY <1>1, <1>2 DEF Purged, Quiet
<1>11. Ending' BY <1>1, EndingSame
<1>12. QED BY <1>5, <1>6, <1>7, <1>8, <1>9, <1>10, <1>11

(* A call that ends the room touches Redis only to delete.                 *)
LEMMA EndPreserves ==
  ASSUME StreamInv, NEW e \in Enders,
         \/ \E byTimer \in BOOLEAN : LookRoom(e, byTimer)
         \/ EndRoom(e) \/ PurgeRoom(e) \/ StopsEnding(e)
  PROVE  StreamInv'
<1> USE DEF StreamInv
<1>1. UNCHANGED <<member, redis, pending, writing, msg, asked, sent, listener, home, heard, lost,
                  since, top>>
  BY DEF LookRoom, EndRoom, PurgeRoom, StopsEnding, store, buffer, audience
<1>2. /\ batch' \in {batch, << >>} /\ lastSeq' \in {lastSeq, None}
      /\ sure' => sure /\ lastSeq' = lastSeq
  <2>1. CASE PurgeRoom(e) BY <2>1 DEF PurgeRoom
  <2>2. CASE (\E byTimer \in BOOLEAN : LookRoom(e, byTimer)) \/ EndRoom(e) \/ StopsEnding(e)
    BY <2>2 DEF LookRoom, EndRoom, StopsEnding, store
  <2>3. QED BY <2>1, <2>2
<1>3. ender' \in [Enders -> EnderType]
  <2>1. Resting \in EnderType BY DEF Resting, EnderType
  <2>2. ender[e] \in EnderType BY DEF Typed
  <2>3. CASE PurgeRoom(e) \/ StopsEnding(e) BY <2>1, <2>3 DEF PurgeRoom, StopsEnding, Typed
  <2>4. ASSUME NEW byTimer \in BOOLEAN, LookRoom(e, byTimer) PROVE ender' \in [Enders -> EnderType]
    <3>1. [at |-> "write", listed |-> byTimer => member] \in EnderType BY DEF EnderType, Typed
    <3>2. QED BY <2>4, <3>1 DEF LookRoom, Typed
  <2>5. CASE EndRoom(e)
    <3>1. [ender[e] EXCEPT !.at = "purge"] \in EnderType BY <2>2 DEF EnderType
    <3>2. QED BY <2>5, <3>1 DEF EndRoom, Typed
  <2>6. QED BY <2>3, <2>4, <2>5
<1>4. /\ room' \in {"open", "ended"} /\ sure' \in BOOLEAN /\ clean' \in BOOLEAN
  <2>1. CASE PurgeRoom(e) BY <2>1 DEF PurgeRoom, Typed
  <2>2. CASE (\E byTimer \in BOOLEAN : LookRoom(e, byTimer)) \/ EndRoom(e) \/ StopsEnding(e)
    BY <2>2 DEF LookRoom, EndRoom, StopsEnding, Typed
  <2>3. QED BY <2>1, <2>2
<1>5. batch' \in Seq(Nat) /\ lastSeq' \in Seqs \cup {None} BY <1>2, EmptyFacts DEF Typed
<1>6. Typed' BY <1>1, <1>3, <1>4, <1>5 DEF Typed
<1>7. Counted'
  <2>1. Busy' = Busy BY <1>1 DEF Busy
  <2>2. QED BY <1>1, <2>1, CountedFewer
<1>8. Numbers' BY <1>1, <1>2, NumbersForgotten
<1>9. Hearing' BY <1>1 DEF Hearing
<1>10. Buffered' BY <1>1, <1>2, BufferedForgotten
<1>11. Purged'
  <2>1. Quiet' = Quiet BY <1>1 DEF Quiet
  <2>2. ender[e].at = "purge" => room = "ended" BY DEF Ending
  <2>3. CASE PurgeRoom(e)
    <3>1. SUFFICES ASSUME clean' PROVE room' = "ended" /\ lastSeq' = None /\ batch' = << >> /\ Quiet'
      BY DEF Purged
    <3>2. CASE clean BY <1>2, <2>1, <2>3, <3>2 DEF Purged, PurgeRoom
    <3>3. CASE ~clean BY <2>1, <2>2, <2>3, <3>1, <3>3 DEF PurgeRoom
    <3>4. QED BY <3>2, <3>3
  <2>4. CASE (\E byTimer \in BOOLEAN : LookRoom(e, byTimer)) \/ EndRoom(e) \/ StopsEnding(e)
    <3>1. clean' = clean /\ room' \in {room, "ended"}
      BY <2>4 DEF LookRoom, EndRoom, StopsEnding
    <3>2. QED BY <1>2, <2>1, <3>1 DEF Purged
  <2>5. QED BY <2>3, <2>4
<1>12. Ending'
  <2>1. ASSUME NEW d \in Enders, d # e PROVE ender'[d] = ender[d]
    BY <2>1 DEF LookRoom, EndRoom, PurgeRoom, StopsEnding, Typed
  <2>2. ender'[e].at = "purge" => room' = "ended"
    <3>1. CASE EndRoom(e) BY <3>1 DEF EndRoom
    <3>2. CASE PurgeRoom(e) \/ StopsEnding(e) BY <3>2 DEF PurgeRoom, StopsEnding, Typed, Resting
    <3>3. CASE \E byTimer \in BOOLEAN : LookRoom(e, byTimer) BY <3>3 DEF LookRoom, Typed
    <3>4. QED BY <3>1, <3>2, <3>3
  <2>3. room = "ended" => room' = "ended" BY DEF LookRoom, EndRoom, PurgeRoom, StopsEnding
  <2>4. QED BY <2>1, <2>2, <2>3 DEF Ending
<1>13. QED BY <1>6, <1>7, <1>8, <1>9, <1>10, <1>11, <1>12

-----------------------------------------------------------------------------
LEMMA NextInv == StreamInv /\ [Next]_vars => StreamInv'
<1> SUFFICES ASSUME StreamInv, [Next]_vars PROVE StreamInv' OBVIOUS
<1>1. CASE UNCHANGED vars
  <2>1. Typed' BY <1>1 DEF StreamInv, Typed, vars
  <2>2. Busy' = Busy BY <1>1 DEF Busy, vars
  <2>3. Counted' BY <1>1, <2>2, CountedFewer DEF StreamInv, vars
  <2>4. Numbers' BY <1>1, NumbersFewer DEF StreamInv, vars
  <2>5. Hearing' BY <1>1 DEF StreamInv, Hearing, vars
  <2>6. Buffered' BY <1>1, BufferedSame DEF StreamInv, vars
  <2>7. Purged' BY <1>1 DEF StreamInv, Purged, Quiet, vars
  <2>8. Ending' BY <1>1 DEF StreamInv, Ending, vars
  <2>9. QED BY <2>1, <2>3, <2>4, <2>5, <2>6, <2>7, <2>8 DEF StreamInv
<1>2. ASSUME NEW m \in Messages, NEW p \in Procs, NEW n \in Seqs, HandlePublish(m, p, n)
      PROVE StreamInv'
  BY <1>2, PublishPreserves
<1>3. ASSUME NEW m \in Messages, CheckSeq(m) \/ SetSeq(m) \/ Send(m) \/ Refused(m) PROVE StreamInv'
  BY <1>3, CheckPreserves, SetPreserves, SendPreserves, RefusedPreserves
<1>4. ASSUME NEW p \in Procs, StoreBatch(p) \/ WriteRefused(p) \/ Restart(p) PROVE StreamInv'
  BY <1>4, WritePreserves, RestartPreserves
<1>5. CASE LeaveFormer \/ EnterRoom \/ ReadSnapshot \/ TellJoined \/ Disconnect
  BY <1>5, ListenerPreserves
<1>6. CASE MemberChanges \/ BatchExpires \/ LastSeqExpires \/ RedisFlips BY <1>6, RoomPreserves
<1>7. ASSUME NEW e \in Enders,
             \/ \E byTimer \in BOOLEAN : LookRoom(e, byTimer)
             \/ EndRoom(e) \/ PurgeRoom(e) \/ StopsEnding(e)
      PROVE StreamInv'
  BY <1>7, EndPreserves
<1>8. QED BY <1>1, <1>2, <1>3, <1>4, <1>5, <1>6, <1>7 DEF Next

LEMMA Invariance == Spec => []StreamInv
BY InitInv, NextInv, PTL DEF Spec

-----------------------------------------------------------------------------
(* Every handler, buffer and key has its type, and no more fingerprints    *)
(* are broadcast or counted as heard than were asked for.                  *)
THEOREM TypeCorrect == Spec => []TypeOK
<1>1. StreamInv => TypeOK
  <2> SUFFICES ASSUME StreamInv PROVE TypeOK OBVIOUS
  <2>1. asked <= MaxMessages /\ sent \in Nat /\ asked \in Nat BY StreamAssumption DEF StreamInv, Typed, Counted
  <2> PICK b \in Nat : b = Cardinality(Busy) BY BusyCount
  <2>2. sent + b <= asked BY DEF StreamInv, Counted
  <2>3. sent \in 0..MaxMessages BY <2>1, <2>2, StreamAssumption
  <2>4. since \in 0..sent BY <2>1 DEF StreamInv, Typed, Counted
  <2>5. \A m \in Messages : msg[m] = Idle \/ msg[m] \in
          [at : {"check", "set", "send"}, seq : Seqs, proc : Procs]
    BY DEF StreamInv, Typed, MsgType
  <2>6. QED BY <2>3, <2>4, <2>5 DEF StreamInv, Typed, Counted, EnderType, TypeOK
<1>2. QED BY <1>1, Invariance, PTL

(* handleJoin enters the socket room before it reads the snapshot:         *)
(* whoever was told that it joined gets all that is broadcast thereafter,  *)
(* except by other processes while Redis is down.                          *)
THEOREM JoinSafety == Spec => []NothingMissed
<1>1. StreamInv => NothingMissed BY DEF StreamInv, Hearing, NothingMissed
<1>2. QED BY <1>1, Invariance, PTL

(* enqueueForCache and flushBatch, whoever dies and whatever write is      *)
(* refused, put no fingerprint into two batches and none out of order.     *)
THEOREM BatchSafety == Spec => []WrittenOnce
<1>1. StreamInv => WrittenOnce BY DEF StreamInv, Buffered
<1>2. QED BY <1>1, Invariance, PTL

(* purgeRoom, once it met no publish and no write under way and covered    *)
(* the talker, leaves nothing of the talker in Redis, and nothing comes    *)
(* back, whatever the members were when they were read.                    *)
THEOREM PurgeSafety == Spec => []PurgedForGood
<1>1. StreamInv => PurgedForGood BY DEF StreamInv, Purged, PurgedForGood
<1>2. QED BY <1>1, Invariance, PTL

(* checkMonotonicSeq lets the room hear growing numbers only, as long as   *)
(* nothing came between a check and its broadcast and nothing was lost.    *)
THEOREM FeedSafety == Spec => FeedIncreases
<1>1. StreamInv /\ [Next]_vars =>
        [\A m \in Messages : sent' > sent /\ msg[m].at = "send" /\ msg'[m] = Idle /\ sure
           => msg[m].seq > top]_vars
  BY DEF StreamInv, Numbers
<1>2. QED BY <1>1, Invariance, PTL DEF Spec, FeedIncreases

-----------------------------------------------------------------------------
(* What SellerRooms asks of its constants, in the words of this module.    *)
LEMMA RoomFacts ==
  ASSUME Room!ConstantsOK
  PROVE  /\ IsFiniteSet(Users) /\ Creator \in Users
         /\ InviteeOf \in [Invs -> Users] /\ OwnerOf \in [Sockets -> Users]
         /\ MaxMembers \in Nat \ {0}
BY DEF Room!ConstantsOK, Room!IsFiniteSet, IsFiniteSet

LEMMA RoomCardinality ==
  ASSUME NEW S
  PROVE  Room!Cardinality(S) = Cardinality(S)
BY DEF Room!Cardinality, Cardinality, Room!IsFiniteSet, IsFiniteSet

(* The user of an invite that has not written yet had not joined when it   *)
(* looked, or has joined since.                                            *)
Inviting == \A r \in Requests : pc[r] \in Room!InviteSteps
              => members[loc[r].user] # "JOINED" \/ loc[r].user \in joined[r]

(* The members that it counted are all the members there are, or fewer.    *)
Seating == \A r \in Requests : pc[r] \in Room!InviteSteps /\ joined[r] = {}
             => Cardinality(Room!Seated) < MaxMembers

(* Whoever is present before the timer ends the room came after it looked. *)
Sparing == sweep.step = "end" => presence \subseteq arrived

RoomInv == Room!TypeOK /\ Inviting /\ Seating /\ Sparing

-----------------------------------------------------------------------------
(* Types.                                                                  *)
Locals == [user : Users, via : Sockets \cup Invs \cup {Room!Nothing},
           seen : Room!Open \cup Room!Closed \cup {"NONE"}]

LEMMA LocalTypes ==
  ASSUME Room!TypeOK, NEW r \in Requests
  PROVE  pc[r] \in Room!Steps /\ loc[r] \in Locals /\ loc[r].user \in Users
BY DEF Room!TypeOK, Locals

(* What a handler keeps of its first look.                                 *)
LEMMA Looked ==
  ASSUME Room!ConstantsOK, NEW u \in Users, NEW v \in Sockets \cup Invs \cup {Room!Nothing},
         NEW n \in Room!Open \cup Room!Closed \cup {"NONE"}
  PROVE  /\ Room!Blank \in Locals /\ [Room!Blank EXCEPT !.user = u] \in Locals
         /\ [Room!Blank EXCEPT !.user = u, !.via = v] \in Locals
         /\ [Room!Blank EXCEPT !.user = u, !.seen = n] \in Locals
         /\ [user |-> u, via |-> v, seen |-> n] \in Locals
         /\ \A l \in Locals : [l EXCEPT !.seen = n] \in Locals
<1>1. Room!Blank \in Locals BY RoomFacts DEF Room!Blank, Locals
<1>2. \A l \in Locals : [l EXCEPT !.user = u] \in Locals BY DEF Locals
<1>3. \A l \in Locals : [l EXCEPT !.seen = n] \in Locals BY DEF Locals
<1>4. \A l \in Locals : [l EXCEPT !.via = v] \in Locals BY DEF Locals
<1>5. [user |-> u, via |-> v, seen |-> n] \in Locals BY DEF Locals
<1>6. QED BY <1>1, <1>2, <1>3, <1>4, <1>5

LEMMA GoFacts ==
  ASSUME Room!TypeOK, NEW r \in Requests, NEW s, NEW l, Room!Go(r, s, l), NEW q \in Requests
  PROVE  /\ pc'[r] = s /\ loc'[r] = l
         /\ q # r => pc'[q] = pc[q] /\ loc'[q] = loc[q]
BY DEF Room!TypeOK, Room!Go

(* A handler goes on to a step with locals of their types.                 *)
LEMMA GoTypes ==
  ASSUME Room!TypeOK, NEW r \in Requests, NEW s \in Room!Steps, NEW l \in Locals, Room!Go(r, s, l)
  PROVE  /\ pc' \in [Requests -> Room!Steps]
         /\ loc' \in [Requests -> Locals]
BY DEF Room!TypeOK, Room!Go, Locals

LEMMA DoneTypes ==
  ASSUME Room!ConstantsOK, Room!TypeOK, NEW r \in Requests, NEW s \in Room!Steps,
         Room!Go(r, s, Room!Blank)
  PROVE  /\ pc' \in [Requests -> Room!Steps]
         /\ loc' \in [Requests -> Locals]
<1>1. Room!Blank \in Locals BY RoomFacts DEF Room!Blank, Locals
<1>2. QED BY <1>1, GoTypes

LEMMA SameLocals ==
  ASSUME Room!ConstantsOK, Room!TypeOK, NEW r \in Requests, NEW s \in Room!Steps,
         Room!Go(r, s, loc[r])
  PROVE  /\ pc' \in [Requests -> Room!Steps]
         /\ loc' \in [Requests -> Locals]
BY LocalTypes, GoTypes

LEMMA MemberTypes ==
  ASSUME Room!TypeOK, NEW u \in Users, NEW s \in {"INVITED", "JOINED"}, Room!SetMember(u, s)
  PROVE  /\ members' \in [Users -> {"NONE", "INVITED", "JOINED", "LEFT"}]
         /\ joined' \in [Requests -> SUBSET Users]
BY DEF Room!TypeOK, Room!SetMember

LEMMA InitType == ASSUME Room!ConstantsOK, Room!Init PROVE Room!TypeOK
<1>1. loc \in [Requests -> Locals]
  <2>1. Room!Blank \in Locals BY RoomFacts DEF Room!Blank, Locals
  <2>2. QED BY <2>1 DEF Room!Init
<1>2. /\ pc \in [Requests -> Room!Steps] /\ joined \in [Requests -> SUBSET Users]
      /\ members \in [Users -> {"NONE", "INVITED", "JOINED", "LEFT"}]
      /\ sock \in [Sockets -> {"off", "on", "in"}]
  BY DEF Room!Init, Room!Steps
<1>3. QED BY <1>1, <1>2 DEF Room!Init, Room!TypeOK, Room!Open, Locals

LEMMA MembersType ==
  ASSUME Room!ConstantsOK, Room!TypeOK, NEW r \in Requests, Room!MembersStep(r)
  PROVE  Room!TypeOK'
<1> USE DEF Room!rows, Room!cache, Room!history
<1> DEFINE Kept == UNCHANGED <<Room!cache, sock, sweep, arrived>>
           Handlers == /\ pc' \in [Requests -> Room!Steps]
                       /\ loc' \in [Requests -> Locals]
           Stored == /\ status' \in Room!Open \cup Room!Closed /\ idle' \in BOOLEAN
                     /\ members' \in [Users -> {"NONE", "INVITED", "JOINED", "LEFT"}]
                     /\ invited' \subseteq Invs /\ late' \subseteq invited'
                     /\ joined' \in [Requests -> SUBSET Users]
<1>0. Creator \in Users BY RoomFacts
<1>1. Handlers
  <2>0. /\ Room!InviteSteps \subseteq Room!Steps
        /\ {"idle", "clearSeed", "purge", "activate"} \subseteq Room!Steps
    BY DEF Room!Steps, Room!InviteSteps
  <2>1. CASE Room!Invite(r)
    <3>1. PICK u \in Users : Room!Go(r, "createInv", [Room!Blank EXCEPT !.user = u]) BY <2>1
       DEF Room!Invite
    <3>2. [Room!Blank EXCEPT !.user = u] \in Locals BY Looked
    <3>3. QED BY <3>1, <3>2, GoTypes DEF Room!Steps, Room!InviteSteps
  <2>2. CASE Room!CreateInvitation(r) BY <2>2, SameLocals, <2>0
     DEF Room!CreateInvitation, Room!InviteSteps
  <2>3. CASE Room!InviteMember(r) BY <2>3, DoneTypes, <2>0 DEF Room!InviteMember, Room!Done
  <2>4. CASE Room!AcceptLookup(r)
    <3>1. PICK i \in invited, s \in {"expireInv", "accept"} :
            Room!Go(r, s, [Room!Blank EXCEPT !.user = InviteeOf[i], !.via = i]) BY <2>4
               DEF Room!AcceptLookup
    <3>2. InviteeOf[i] \in Users /\ i \in Invs BY RoomFacts DEF Room!TypeOK
    <3>3. [Room!Blank EXCEPT !.user = InviteeOf[i], !.via = i] \in Locals BY <3>2, Looked
    <3>4. s \in Room!Steps BY DEF Room!Steps
    <3>5. QED BY <3>1, <3>2, <3>3, <3>4, GoTypes
  <2>5. CASE Room!ExpireInvitation(r) BY <2>5, DoneTypes, <2>0
     DEF Room!ExpireInvitation, Room!Done
  <2>6. CASE Room!AcceptInvitation(r) BY <2>6, DoneTypes, <2>0
     DEF Room!AcceptInvitation, Room!Done
  <2>7. CASE Room!JoinRequest(r)
    <3>1. PICK u \in Users : Room!Go(r, "upsert", [Room!Blank EXCEPT !.user = u, !.seen = status])
      BY <2>7 DEF Room!JoinRequest
    <3>2. status \in Room!Open \cup Room!Closed /\ "upsert" \in Room!Steps BY
       DEF Room!TypeOK, Room!Steps
    <3>3. [Room!Blank EXCEPT !.user = u, !.seen = status] \in Locals BY <3>2, Looked
    <3>4. QED BY <3>1, <3>2, <3>3, GoTypes
  <2>8. CASE Room!FindRoom(r)
    <3>1. CASE Room!Done(r) BY <3>1, DoneTypes, <2>0 DEF Room!Done
    <3>2. CASE Room!Go(r, "upsert", [loc[r] EXCEPT !.seen = status])
      <4>1. status \in Room!Open \cup Room!Closed /\ "upsert" \in Room!Steps BY
         DEF Room!TypeOK, Room!Steps
      <4>2. [loc[r] EXCEPT !.seen = status] \in Locals BY <4>1, Looked, LocalTypes
      <4>3. QED BY <3>2, <4>1, <4>2, GoTypes
    <3>3. QED BY <2>8, <3>1, <3>2 DEF Room!FindRoom
  <2>9. CASE Room!UpsertMember(r) BY <2>9, DoneTypes, SameLocals, <2>0
     DEF Room!UpsertMember, Room!Done
  <2>10. CASE Room!Activate(r) BY <2>10, DoneTypes, <2>0 DEF Room!Activate, Room!Done
  <2>11. CASE Room!End(r) BY <2>11, DoneTypes, <2>0 DEF Room!End
  <2>12. CASE Room!ClearSeed(r) BY <2>12, DoneTypes, <2>0 DEF Room!ClearSeed
  <2>13. CASE Room!Purge(r) BY <2>13, DoneTypes, <2>0 DEF Room!Purge, Room!Done
  <2> QED BY <2>1, <2>2, <2>3, <2>4, <2>5, <2>6, <2>7, <2>8, <2>9, <2>10, <2>11, <2>12, <2>13
          DEF Room!MembersStep
<1>2. Stored
  <2>0. loc[r].user \in Users BY LocalTypes
  <2>1. CASE Room!InviteMember(r)
    <3>1. Room!SetMember(loc[r].user, "INVITED") BY <2>1 DEF Room!InviteMember
    <3>2. QED BY <2>0, <2>1, <3>1, MemberTypes DEF Room!InviteMember, Room!TypeOK
  <2>2. CASE Room!UpsertMember(r)
    <3>1. Room!SetMember(loc[r].user, "JOINED") BY <2>2 DEF Room!UpsertMember
    <3>2. QED BY <2>0, <2>2, <3>1, MemberTypes DEF Room!UpsertMember, Room!TypeOK
  <2>3. CASE Room!AcceptInvitation(r)
    <3>1. Room!SetMember(loc[r].user, "JOINED") BY <2>3 DEF Room!AcceptInvitation
    <3>2. QED BY <2>0, <2>3, <3>1, MemberTypes DEF Room!AcceptInvitation, Room!Answered,
                                                   Room!SetRoom, Room!TypeOK, Room!Open
  <2>4. CASE Room!CreateInvitation(r) BY <2>4 DEF Room!CreateInvitation, Room!TypeOK
  <2>5. CASE Room!ExpireInvitation(r) BY <2>5 DEF Room!ExpireInvitation, Room!Answered,
                                                  Room!TypeOK
  <2>6. CASE Room!Activate(r) BY <2>6 DEF Room!Activate, Room!SetRoom, Room!TypeOK, Room!Open
  <2>7. CASE Room!End(r) BY <2>7 DEF Room!End, Room!SetRoom, Room!TypeOK, Room!Closed
  <2>8. CASE Room!ClearSeed(r) BY <2>8 DEF Room!ClearSeed, Room!TypeOK
  <2>9. CASE Room!Purge(r) BY <2>9 DEF Room!Purge, Room!TypeOK
  <2>10. CASE Room!Invite(r) \/ Room!AcceptLookup(r) \/ Room!JoinRequest(r) \/ Room!FindRoom(r)
    BY <2>10 DEF Room!Invite, Room!AcceptLookup, Room!JoinRequest, Room!FindRoom, Room!TypeOK
  <2> QED BY <2>1, <2>2, <2>3, <2>4, <2>5, <2>6, <2>7, <2>8, <2>9, <2>10 DEF Room!MembersStep
<1>3. CASE Room!Purge(r) BY <1>1, <1>2, <1>3 DEF Room!Purge, Room!PurgeRoom, Room!TypeOK, Locals
<1>4. CASE ~Room!Purge(r)
  <2>1. Kept
    BY <1>4 DEF Room!MembersStep, Room!Invite, Room!CreateInvitation, Room!InviteMember,
                Room!AcceptLookup, Room!ExpireInvitation, Room!AcceptInvitation,
                Room!JoinRequest, Room!FindRoom, Room!UpsertMember, Room!Activate, Room!End,
                Room!ClearSeed
  <2>2. QED BY <1>1, <1>2, <2>1 DEF Room!TypeOK, Locals
<1>5. QED BY <1>3, <1>4

LEMMA SocketType ==
  ASSUME Room!ConstantsOK, Room!TypeOK, NEW r \in Requests, Room!SocketStep(r)
  PROVE  Room!TypeOK'
<1> USE DEF Room!rows, Room!cache, Room!history
<1> DEFINE Handlers == pc' \in [Requests -> Room!Steps] /\ loc' \in [Requests -> Locals]
           Presence == /\ presence' \subseteq Users /\ ttl' \in BOOLEAN /\ (ttl' => presence' # {})
                       /\ arrived' \subseteq Users
           Socks == sock' \in [Sockets -> {"off", "on", "in"}]
           Kept == UNCHANGED <<Room!rows, online, sweep, joined>>
<1>0. {"idle", "enter", "setPresence", "setExpiry", "findRoom", "removePresence"}
        \subseteq Room!Steps
  BY DEF Room!Steps
<1>1. loc[r].user \in Users BY LocalTypes
<1>2. CASE Room!HandleJoin(r)
  <2>1. PICK s \in Sockets : Room!Go(r, "enter", [user |-> OwnerOf[s], via |-> s, seen |-> status])
    BY <1>2 DEF Room!HandleJoin
  <2>2. OwnerOf[s] \in Users /\ status \in Room!Open \cup Room!Closed BY RoomFacts
     DEF Room!TypeOK
  <2>3. [user |-> OwnerOf[s], via |-> s, seen |-> status] \in Locals BY <2>2, Looked
  <2>4. Handlers BY <1>0, <2>1, <2>3, GoTypes
  <2>5. QED BY <1>2, <2>4 DEF Room!HandleJoin, Room!TypeOK, Locals
<1>3. CASE Room!Enter(r)
  <2>1. Handlers BY <1>0, <1>3, SameLocals DEF Room!Enter
  <2>2. Socks BY <1>3 DEF Room!Enter, Room!TypeOK
  <2>3. QED BY <1>3, <2>1, <2>2 DEF Room!Enter, Room!TypeOK, Locals
<1>4. CASE Room!HandleHeartbeat(r)
  <2>1. PICK s \in Sockets :
          Room!Go(r, "setPresence", [user |-> OwnerOf[s], via |-> s, seen |-> "NONE"])
    BY <1>4 DEF Room!HandleHeartbeat
  <2>2. OwnerOf[s] \in Users BY RoomFacts
  <2>3. [user |-> OwnerOf[s], via |-> s, seen |-> "NONE"] \in Locals BY <2>2, Looked
  <2>4. Handlers BY <1>0, <2>1, <2>3, GoTypes
  <2>5. QED BY <1>4, <2>4 DEF Room!HandleHeartbeat, Room!TypeOK, Locals
<1>5. CASE Room!SetPresence(r)
  <2>1. Handlers BY <1>0, <1>5, SameLocals DEF Room!SetPresence
  <2>2. Presence BY <1>1, <1>5 DEF Room!SetPresence, Room!TypeOK
  <2>3. QED BY <1>5, <2>1, <2>2 DEF Room!SetPresence, Room!TypeOK, Locals
<1>6. CASE Room!SetExpiry(r)
  <2>1. Handlers BY <1>0, <1>6, SameLocals, DoneTypes DEF Room!SetExpiry, Room!Done
  <2>2. Presence BY <1>6 DEF Room!SetExpiry, Room!TypeOK
  <2>3. QED BY <1>6, <2>1, <2>2 DEF Room!SetExpiry, Room!TypeOK, Locals
<1>7. CASE Room!HandleDisconnect(r)
  <2>1. PICK s \in Sockets :
          /\ sock' = [sock EXCEPT ![s] = "off"]
          /\ \/ Room!Go(r, "removePresence", [Room!Blank EXCEPT !.user = OwnerOf[s]])
             \/ UNCHANGED <<pc, loc>>
    BY <1>7 DEF Room!HandleDisconnect
  <2>2. OwnerOf[s] \in Users BY RoomFacts
  <2>3. [Room!Blank EXCEPT !.user = OwnerOf[s]] \in Locals BY <2>2, Looked
  <2>4. Handlers
    <3>1. CASE UNCHANGED <<pc, loc>> BY <3>1 DEF Room!TypeOK, Locals
    <3>2. QED BY <1>0, <2>1, <2>3, <3>1, GoTypes
  <2>5. Socks BY <2>1 DEF Room!TypeOK
  <2>6. QED BY <1>7, <2>4, <2>5 DEF Room!HandleDisconnect, Room!TypeOK, Locals
<1>8. CASE Room!RemovePresence(r)
  <2>1. Handlers BY <1>0, <1>8, DoneTypes DEF Room!RemovePresence, Room!Done
  <2>2. Presence BY <1>8 DEF Room!RemovePresence, Room!TypeOK
  <2>3. QED BY <1>8, <2>1, <2>2 DEF Room!RemovePresence, Room!TypeOK, Locals
<1>9. QED BY <1>2, <1>3, <1>4, <1>5, <1>6, <1>7, <1>8 DEF Room!SocketStep

LEMMA OtherType ==
  ASSUME Room!ConstantsOK, Room!TypeOK,
         \/ \E r \in Requests : Room!Crash(r)
         \/ Room!Leave \/ Room!Connect \/ Room!Tick \/ Room!SweepFails \/ Room!TimePasses
         \/ Room!InvitationExpires \/ Room!PresenceExpires \/ Room!RedisFlips \/ UNCHANGED Room!vars
  PROVE  Room!TypeOK'
<1> USE DEF Room!rows, Room!cache, Room!history
<1>1. CASE \E r \in Requests : Room!Crash(r)
  <2>1. PICK r \in Requests : Room!Crash(r) BY <1>1
  <2>2. pc' \in [Requests -> Room!Steps] /\ loc' \in [Requests -> Locals]
    BY <2>1, DoneTypes DEF Room!Crash, Room!Done, Room!Steps
  <2>3. joined' \in [Requests -> SUBSET Users] BY <2>1 DEF Room!Crash, Room!TypeOK
  <2>4. QED BY <2>1, <2>2, <2>3 DEF Room!Crash, Room!TypeOK, Locals
<1>2. CASE Room!Leave BY <1>2 DEF Room!Leave, Room!TypeOK
<1>3. CASE Room!Connect BY <1>3 DEF Room!Connect, Room!TypeOK
<1>4. CASE Room!FindIdle BY <1>4 DEF Room!FindIdle, Room!TypeOK
<1>5. CASE Room!LookPresence
  <2>1. sweep' \in [step : {"rest", "look", "end", "purge"}, idle : BOOLEAN]
    BY <1>5 DEF Room!LookPresence, Room!TypeOK
  <2>2. arrived' \subseteq Users BY <1>5 DEF Room!LookPresence
  <2>3. QED BY <1>5, <2>1, <2>2 DEF Room!LookPresence, Room!TypeOK
<1>6. CASE Room!EndIdle BY <1>6 DEF Room!EndIdle, Room!SetRoom, Room!TypeOK, Room!Closed
<1>7. CASE Room!PurgeIdle BY <1>7 DEF Room!PurgeIdle, Room!PurgeRoom, Room!TypeOK
<1>8. CASE Room!ArchiveEnded BY <1>8 DEF Room!ArchiveEnded, Room!SetRoom, Room!TypeOK,
                                         Room!Closed
<1>9. CASE Room!SweepFails BY <1>9 DEF Room!SweepFails, Room!TypeOK
<1>10. CASE Room!TimePasses BY <1>10 DEF Room!TimePasses, Room!TypeOK
<1>11. CASE Room!InvitationExpires BY <1>11 DEF Room!InvitationExpires, Room!TypeOK
<1>12. CASE Room!PresenceExpires BY <1>12 DEF Room!PresenceExpires, Room!TypeOK
<1>13. CASE Room!RedisFlips BY <1>13 DEF Room!RedisFlips, Room!TypeOK
<1>14. CASE UNCHANGED Room!vars BY <1>14 DEF Room!vars, Room!TypeOK
<1>15. QED BY <1>1, <1>2, <1>3, <1>4, <1>5, <1>6, <1>7, <1>8, <1>9, <1>10, <1>11, <1>12, <1>13, <1>14
           DEF Room!Tick

LEMMA StepType == ASSUME Room!ConstantsOK, Room!TypeOK, [Room!Next]_(Room!vars) PROVE Room!TypeOK'
BY MembersType, SocketType, OtherType DEF Room!Next

-----------------------------------------------------------------------------
(* Who writes a member row, and how.                                       *)
LEMMA MemberWriters ==
  ASSUME Room!ConstantsOK, Room!TypeOK, [Room!Next]_(Room!vars)
  PROVE  \/ /\ UNCHANGED members
            /\ \A q \in Requests : joined'[q] = joined[q] \/ pc'[q] \notin Room!InviteSteps
         \/ Room!Leave
         \/ \E r \in Requests, s \in {"INVITED", "JOINED"} :
              /\ Room!SetMember(loc[r].user, s) /\ pc'[r] \notin Room!InviteSteps
              /\ \A q \in Requests \ {r} : pc'[q] = pc[q] /\ loc'[q] = loc[q]
              /\ s = "INVITED" => Room!InviteMember(r)
<1> USE DEF Room!rows, Room!cache, Room!history
<1>1. CASE \E r \in Requests : Room!InviteMember(r)
  <2>1. PICK r \in Requests : Room!InviteMember(r) BY <1>1
  <2>2. Room!Go(r, "idle", Room!Blank) BY <2>1 DEF Room!InviteMember, Room!Done
  <2>3. pc'[r] = "idle" /\ \A q \in Requests \ {r} : pc'[q] = pc[q] /\ loc'[q] = loc[q]
    BY <2>2, GoFacts
  <2>4. QED BY <2>1, <2>3 DEF Room!InviteMember, Room!InviteSteps
<1>2. CASE \E r \in Requests : Room!AcceptInvitation(r)
  <2>1. PICK r \in Requests : Room!AcceptInvitation(r) BY <1>2
  <2>2. Room!Go(r, "idle", Room!Blank) BY <2>1 DEF Room!AcceptInvitation, Room!Done
  <2>3. pc'[r] = "idle" /\ \A q \in Requests \ {r} : pc'[q] = pc[q] /\ loc'[q] = loc[q]
    BY <2>2, GoFacts
  <2>4. Room!SetMember(loc[r].user, "JOINED") BY <2>1 DEF Room!AcceptInvitation
  <2>5. QED BY <2>3, <2>4 DEF Room!InviteSteps
<1>3. CASE \E r \in Requests : Room!UpsertMember(r)
  <2>1. PICK r \in Requests : Room!UpsertMember(r) BY <1>3
  <2>2. Room!Go(r, "idle", Room!Blank) \/ Room!Go(r, "activate", loc[r]) BY <2>1
     DEF Room!UpsertMember, Room!Done
  <2>3. /\ pc'[r] \in {"idle", "activate"}
        /\ \A q \in Requests \ {r} : pc'[q] = pc[q] /\ loc'[q] = loc[q]
    BY <2>2, GoFacts
  <2>4. Room!SetMember(loc[r].user, "JOINED") BY <2>1 DEF Room!UpsertMember
  <2>5. QED BY <2>3, <2>4 DEF Room!InviteSteps
<1>4. CASE \E r \in Requests :
             \/ Room!Invite(r) \/ Room!CreateInvitation(r) \/ Room!AcceptLookup(r)
             \/ Room!ExpireInvitation(r) \/ Room!JoinRequest(r) \/ Room!FindRoom(r)
             \/ Room!Activate(r) \/ Room!End(r) \/ Room!ClearSeed(r) \/ Room!Purge(r)
  <2>1. UNCHANGED <<members, joined>>
    BY <1>4 DEF Room!Invite, Room!CreateInvitation, Room!AcceptLookup, Room!ExpireInvitation,
                Room!JoinRequest, Room!FindRoom, Room!Activate, Room!End, Room!ClearSeed,
                Room!Purge
  <2>2. QED BY <2>1
<1>5. CASE \E r \in Requests : Room!SocketStep(r)
  <2>1. UNCHANGED <<members, joined>>
    BY <1>5 DEF Room!SocketStep, Room!HandleJoin, Room!Enter, Room!HandleHeartbeat,
                Room!SetPresence, Room!SetExpiry, Room!HandleDisconnect, Room!RemovePresence
  <2>2. QED BY <2>1
<1>6. CASE \E r \in Requests : Room!Crash(r)
  <2>1. PICK r \in Requests : Room!Crash(r) BY <1>6
  <2>2. pc'[r] = "idle" BY <2>1, GoFacts DEF Room!Crash, Room!Done
  <2>3. UNCHANGED members /\ \A q \in Requests \ {r} : joined'[q] = joined[q]
    BY <2>1 DEF Room!Crash, Room!TypeOK
  <2>4. QED BY <2>2, <2>3 DEF Room!InviteSteps
<1>7. CASE Room!Connect \/ Room!Tick \/ Room!SweepFails \/ Room!TimePasses
           \/ Room!InvitationExpires \/ Room!PresenceExpires
           \/ Room!RedisFlips \/ UNCHANGED Room!vars
  <2>1. UNCHANGED <<members, joined>>
    BY <1>7 DEF Room!Connect, Room!Tick, Room!FindIdle, Room!LookPresence, Room!EndIdle,
                Room!PurgeIdle, Room!ArchiveEnded, Room!SweepFails, Room!TimePasses,
                Room!InvitationExpires, Room!PresenceExpires, Room!RedisFlips, Room!vars
  <2>2. QED BY <2>1
<1>8. QED BY <1>1, <1>2, <1>3, <1>4, <1>5, <1>6, <1>7 DEF Room!Next, Room!MembersStep

(* An invite that has not written yet began with Invite and goes on with   *)
(* the same user.                                                          *)
LEMMA Inviters ==
  ASSUME Room!ConstantsOK, Room!TypeOK, [Room!Next]_(Room!vars),
         NEW q \in Requests, pc'[q] \in Room!InviteSteps
  PROVE  \/ Room!Invite(q) /\ UNCHANGED <<members, joined>>
         \/ pc[q] \in Room!InviteSteps /\ loc'[q] = loc[q]
<1> USE DEF Room!rows, Room!cache, Room!history
<1> DEFINE Same == pc'[q] = pc[q] /\ loc'[q] = loc[q]
<1>0. /\ \A s \in {"idle", "accept", "expireInv", "upsert", "activate", "clearSeed", "purge",
                   "setPresence", "setExpiry", "findRoom", "enter", "removePresence"} :
           s \notin Room!InviteSteps
      /\ {"createInv", "inviteMember"} \subseteq Room!InviteSteps
  BY DEF Room!InviteSteps
<1>1. ASSUME NEW r \in Requests, NEW s, NEW l, Room!Go(r, s, l), s \notin Room!InviteSteps PROVE Same
  BY <1>1, GoFacts
<1>2. ASSUME NEW r \in Requests, Room!MembersStep(r)
      PROVE  Same \/ (Room!Invite(q) /\ UNCHANGED <<members, joined>>) \/ Room!CreateInvitation(q)
  <2>1. CASE Room!Invite(r)
    <3>1. UNCHANGED <<members, joined>> BY <2>1 DEF Room!Invite
    <3>2. \E l : Room!Go(r, "createInv", l) BY <2>1 DEF Room!Invite
    <3>3. q = r \/ Same BY <3>2, GoFacts
    <3>4. QED BY <2>1, <3>1, <3>3
  <2>2. CASE Room!CreateInvitation(r)
    <3>1. Room!Go(r, "inviteMember", loc[r]) BY <2>2 DEF Room!CreateInvitation
    <3>2. q = r \/ Same BY <3>1, GoFacts
    <3>3. QED BY <2>2, <3>2
  <2>3. CASE ~Room!Invite(r) /\ ~Room!CreateInvitation(r)
    <3>1. \E s \in {"idle", "accept", "expireInv", "upsert", "activate", "clearSeed", "purge"} :
            \E l : Room!Go(r, s, l)
      BY <1>2, <2>3 DEF Room!MembersStep, Room!InviteMember, Room!AcceptLookup,
                        Room!ExpireInvitation, Room!AcceptInvitation, Room!JoinRequest,
                        Room!FindRoom, Room!UpsertMember, Room!Activate, Room!End,
                        Room!ClearSeed, Room!Purge, Room!Done
    <3>2. QED BY <1>0, <1>1, <3>1
  <2>4. QED BY <2>1, <2>2, <2>3
<1>3. ASSUME NEW r \in Requests, Room!SocketStep(r) \/ Room!Crash(r) PROVE Same
  <2>1. \/ UNCHANGED <<pc, loc>>
        \/ \E s \in {"idle", "enter", "setPresence", "setExpiry", "findRoom", "removePresence"} :
             \E l : Room!Go(r, s, l)
    BY <1>3 DEF Room!SocketStep, Room!HandleJoin, Room!Enter, Room!HandleHeartbeat,
                Room!SetPresence, Room!SetExpiry, Room!HandleDisconnect, Room!RemovePresence,
                Room!Crash, Room!Done
  <2>2. QED BY <1>0, <1>1, <2>1
<1>4. ASSUME \/ Room!Leave \/ Room!Connect \/ Room!Tick \/ Room!SweepFails \/ Room!TimePasses
             \/ Room!InvitationExpires \/ Room!PresenceExpires \/ Room!RedisFlips
             \/ UNCHANGED Room!vars
      PROVE  Same
  BY <1>4 DEF Room!Leave, Room!Connect, Room!Tick, Room!FindIdle, Room!LookPresence,
              Room!EndIdle, Room!PurgeIdle, Room!ArchiveEnded, Room!SweepFails, Room!TimePasses,
              Room!InvitationExpires, Room!PresenceExpires, Room!RedisFlips, Room!vars
<1>5. ASSUME Room!CreateInvitation(q) PROVE pc[q] \in Room!InviteSteps /\ loc'[q] = loc[q]
  <2>1. Room!Go(q, "inviteMember", loc[q]) /\ pc[q] = "createInv" BY <1>5
     DEF Room!CreateInvitation
  <2>2. QED BY <1>0, <2>1, GoFacts
<1> HIDE DEF Same
<1>6. Same \/ (Room!Invite(q) /\ UNCHANGED <<members, joined>>) \/ Room!CreateInvitation(q)
  <2>1. CASE \E r \in Requests : Room!MembersStep(r) BY <1>2, <2>1
  <2>2. CASE \E r \in Requests : Room!SocketStep(r) \/ Room!Crash(r) BY <1>3, <2>2
  <2>3. QED BY <1>4, <2>1, <2>2 DEF Room!Next
<1>7. QED BY <1>5, <1>6 DEF Same

LEMMA InvitingStep ==
  ASSUME Room!ConstantsOK, Room!TypeOK, Inviting, [Room!Next]_(Room!vars)
  PROVE  Inviting'
<1> SUFFICES ASSUME NEW q \in Requests, pc'[q] \in Room!InviteSteps
             PROVE  members'[loc'[q].user] # "JOINED" \/ loc'[q].user \in joined'[q]
  BY DEF Inviting
<1>1. CASE Room!Invite(q) /\ UNCHANGED <<members, joined>>
  <2>1. PICK u \in Users : /\ members[u] # "JOINED"
                           /\ Room!Go(q, "createInv", [Room!Blank EXCEPT !.user = u])
    BY <1>1 DEF Room!Invite
  <2>2. loc'[q].user = u BY <2>1, GoFacts DEF Room!Blank
  <2>3. QED BY <1>1, <2>1, <2>2
<1>2. CASE pc[q] \in Room!InviteSteps /\ loc'[q] = loc[q]
  <2>0. loc[q].user \in Users BY LocalTypes
  <2>1. members[loc[q].user] # "JOINED" \/ loc[q].user \in joined[q] BY <1>2 DEF Inviting
  <2>2. CASE /\ UNCHANGED members
             /\ \A p \in Requests : joined'[p] = joined[p] \/ pc'[p] \notin Room!InviteSteps
    BY <1>2, <2>1, <2>2
  <2>3. CASE Room!Leave BY <1>2, <2>0, <2>1, <2>3 DEF Room!Leave, Room!TypeOK, Room!history
  <2>4. CASE \E r \in Requests, s \in {"INVITED", "JOINED"} : Room!SetMember(loc[r].user, s)
    <3>1. PICK r \in Requests, s \in {"INVITED", "JOINED"} : Room!SetMember(loc[r].user, s) BY <2>4
    <3>2. joined'[q] = joined[q] \cup {loc[r].user} BY <3>1 DEF Room!SetMember
    <3>3. loc[r].user # loc[q].user => members'[loc[q].user] = members[loc[q].user]
      BY <2>0, <3>1, LocalTypes DEF Room!SetMember, Room!TypeOK
    <3>4. QED BY <1>2, <2>1, <3>2, <3>3
  <2>5. QED BY <2>2, <2>3, <2>4, MemberWriters
<1>3. QED BY <1>1, <1>2, Inviters

LEMMA SeatedFinite ==
  ASSUME Room!ConstantsOK, Room!TypeOK
  PROVE  IsFiniteSet(Room!Seated) /\ Cardinality(Room!Seated) \in Nat
<1>1. Room!Seated \subseteq Users BY DEF Room!Seated
<1>2. QED BY <1>1, RoomFacts, FS_Subset, FS_CardinalityType

(* The members that are INVITED or JOINED.                                 *)
LEMMA OneMore ==
  ASSUME NEW S, IsFiniteSet(S), NEW e
  PROVE  /\ IsFiniteSet(S \cup {e})
         /\ Cardinality(S \cup {e}) \in Nat
         /\ Cardinality(S \cup {e}) <= Cardinality(S) + 1
<1>1. CASE e \in S
  <2>1. S \cup {e} = S BY <1>1
  <2>2. QED BY <2>1, FS_CardinalityType
<1>2. CASE e \notin S
  <2>1. IsFiniteSet(S \cup {e}) /\ Cardinality(S \cup {e}) = Cardinality(S) + 1
    BY <1>2, FS_AddElement
  <2>2. Cardinality(S) \in Nat BY FS_CardinalityType
  <2>3. QED BY <2>1, <2>2
<1>3. QED BY <1>1, <1>2

(* Nobody takes a seat but by SetMember.                                   *)
LEMMA SeatedShrinks ==
  ASSUME Room!ConstantsOK, Room!TypeOK, UNCHANGED members \/ Room!Leave
  PROVE  Room!Seated' \subseteq Room!Seated /\ Cardinality(Room!Seated') <= Cardinality(Room!Seated)
<1>1. Room!Seated' \subseteq Room!Seated BY DEF Room!Leave, Room!Seated, Room!TypeOK
<1>2. Cardinality(Room!Seated') <= Cardinality(Room!Seated) BY <1>1, SeatedFinite, FS_Subset
<1>3. QED BY <1>1, <1>2

LEMMA SeatingStep ==
  ASSUME Room!ConstantsOK, Room!TypeOK, Seating, [Room!Next]_(Room!vars)
  PROVE  Seating'
<1> SUFFICES ASSUME NEW q \in Requests, pc'[q] \in Room!InviteSteps, joined'[q] = {}
             PROVE  Cardinality(Room!Seated') < MaxMembers
  BY DEF Seating
<1>0. Room!TypeOK' /\ MaxMembers \in Nat BY StepType, RoomFacts
<1>1. Cardinality(Room!Seated) \in Nat BY SeatedFinite
<1>2. Cardinality(Room!Seated') \in Nat
  <2>1. Room!Seated' \subseteq Users BY DEF Room!Seated
  <2>2. QED BY <2>1, RoomFacts, FS_Subset, FS_CardinalityType
<1>3. CASE Room!Invite(q) /\ UNCHANGED <<members, joined>>
  <2>1. Cardinality(Room!Seated) < MaxMembers BY <1>3, RoomCardinality DEF Room!Invite
  <2>2. QED BY <1>0, <1>1, <1>2, <1>3, <2>1, SeatedShrinks
<1>4. CASE pc[q] \in Room!InviteSteps /\ loc'[q] = loc[q]
  <2>1. CASE /\ UNCHANGED members \/ Room!Leave
             /\ joined'[q] = joined[q]
    <3>1. Cardinality(Room!Seated) < MaxMembers BY <1>4, <2>1 DEF Seating
    <3>2. QED BY <1>0, <1>1, <1>2, <2>1, <3>1, SeatedShrinks
  <2>2. CASE \E r \in Requests, s \in {"INVITED", "JOINED"} : Room!SetMember(loc[r].user, s)
    BY <2>2 DEF Room!SetMember
  <2>3. Room!Leave => joined' = joined BY DEF Room!Leave, Room!history
  <2>4. QED BY <2>1, <2>2, <2>3, MemberWriters
<1>5. QED BY <1>3, <1>4, Inviters

LEMMA SparingStep ==
  ASSUME Room!ConstantsOK, Room!TypeOK, Sparing, [Room!Next]_(Room!vars)
  PROVE  Sparing'
<1> USE DEF Room!rows, Room!cache, Room!history
<1> SUFFICES ASSUME sweep'.step = "end" PROVE presence' \subseteq arrived' BY DEF Sparing
<1>1. CASE Room!LookPresence
  <2>1. online => presence = {} BY <1>1 DEF Room!LookPresence, Room!TypeOK
  <2>2. QED BY <1>1, <2>1 DEF Room!LookPresence, Room!TypeOK
<1>2. CASE \E r \in Requests : Room!SetPresence(r) BY <1>2 DEF Room!SetPresence, Sparing
<1>3. CASE \E r \in Requests : Room!Purge(r) \/ Room!RemovePresence(r)
  BY <1>3 DEF Room!Purge, Room!PurgeRoom, Room!RemovePresence, Sparing
<1>4. CASE Room!PresenceExpires BY <1>4 DEF Room!PresenceExpires
<1>5. CASE Room!FindIdle \/ Room!EndIdle \/ Room!PurgeIdle \/ Room!SweepFails
  BY <1>5 DEF Room!FindIdle, Room!EndIdle, Room!PurgeIdle, Room!SweepFails, Room!TypeOK
<1>6. CASE UNCHANGED <<presence, arrived, sweep>> BY <1>6 DEF Sparing
<1>7. CASE \E r \in Requests : Room!MembersStep(r) /\ ~Room!Purge(r)
  <2>1. UNCHANGED <<presence, arrived, sweep>>
    BY <1>7 DEF Room!MembersStep, Room!Invite, Room!CreateInvitation, Room!InviteMember,
                Room!AcceptLookup, Room!ExpireInvitation, Room!AcceptInvitation,
                Room!JoinRequest, Room!FindRoom, Room!UpsertMember, Room!Activate, Room!End,
                Room!ClearSeed
  <2>2. QED BY <1>6, <2>1
<1>8. CASE \E r \in Requests :
             \/ Room!SocketStep(r) /\ ~Room!SetPresence(r) /\ ~Room!RemovePresence(r)
             \/ Room!Crash(r)
  <2>1. UNCHANGED <<presence, arrived, sweep>>
    BY <1>8 DEF Room!SocketStep, Room!HandleJoin, Room!Enter, Room!HandleHeartbeat,
                Room!SetExpiry, Room!HandleDisconnect, Room!Crash
  <2>2. QED BY <1>6, <2>1
<1>9. CASE Room!Leave \/ Room!Connect \/ Room!ArchiveEnded \/ Room!TimePasses
           \/ Room!InvitationExpires \/ Room!RedisFlips
           \/ UNCHANGED Room!vars
  <2>1. UNCHANGED <<presence, arrived, sweep>>
    BY <1>9 DEF Room!Leave, Room!Connect, Room!ArchiveEnded, Room!TimePasses,
                Room!InvitationExpires, Room!RedisFlips, Room!vars
  <2>2. QED BY <1>6, <2>1
<1>10. QED BY <1>1, <1>2, <1>3, <1>4, <1>5, <1>7, <1>8, <1>9 DEF Room!Next, Room!Tick

-----------------------------------------------------------------------------
(* The invariant: what an invite and a pass of the timer still know of     *)
(* what they have read, whoever has written meanwhile.                     *)
THEOREM RoomInvariance == ASSUME Room!ConstantsOK PROVE Room!Spec => []RoomInv
<1>1. Room!Init => RoomInv
  BY InitType DEF Room!Init, RoomInv, Inviting, Seating, Sparing, Room!InviteSteps
<1>2. RoomInv /\ [Room!Next]_(Room!vars) => RoomInv'
  BY StepType, InvitingStep, SeatingStep, SparingStep DEF RoomInv
<1>3. QED BY <1>1, <1>2, PTL DEF Room!Spec

(* The rows, the presence hash, the handlers and the timer keep their      *)
(* types, and no hash without members has a time to live.                  *)
THEOREM RoomTypeCorrect == ASSUME Room!ConstantsOK PROVE Room!Spec => []Room!TypeOK
BY RoomInvariance, PTL DEF RoomInv

(* No accept, join, socket or timer opens a room that has ended, unless a  *)
(* join (SellerRoomsService.join) that read it as OPEN is about to write.  *)
THEOREM ClosedSafety == Room!Spec => Room!ClosedForGood
<1> USE DEF Room!rows, Room!cache, Room!history
<1>1. ASSUME Room!Next, status \in Room!Closed, \A r \in Requests : pc[r] # "activate"
      PROVE  status' \in Room!Closed
  <2>0. status # "OPEN" /\ {"ENDED", "ARCHIVED"} \subseteq Room!Closed BY <1>1 DEF Room!Closed
  <2>1. CASE \E r \in Requests : Room!MembersStep(r)
    <3>1. PICK r \in Requests : Room!MembersStep(r) /\ ~Room!Activate(r) BY <1>1, <2>1
       DEF Room!Activate
    <3>2. CASE Room!End(r) BY <2>0, <3>2 DEF Room!End, Room!SetRoom
    <3>3. CASE ~Room!End(r)
      <4>1. UNCHANGED status
        BY <2>0, <3>1, <3>3
           DEF Room!MembersStep, Room!Invite, Room!CreateInvitation, Room!InviteMember,
               Room!AcceptLookup, Room!ExpireInvitation, Room!AcceptInvitation,
               Room!JoinRequest, Room!FindRoom, Room!UpsertMember, Room!ClearSeed, Room!Purge
      <4>2. QED BY <1>1, <4>1
    <3>4. QED BY <3>2, <3>3
  <2>2. CASE \E r \in Requests : Room!SocketStep(r) \/ Room!Crash(r)
    BY <1>1, <2>2 DEF Room!SocketStep, Room!HandleJoin, Room!Enter, Room!HandleHeartbeat,
                      Room!SetPresence, Room!SetExpiry, Room!HandleDisconnect,
                      Room!RemovePresence, Room!Crash
  <2>3. CASE Room!EndIdle \/ Room!ArchiveEnded BY <2>0, <2>3
     DEF Room!EndIdle, Room!ArchiveEnded, Room!SetRoom
  <2>4. CASE Room!Leave \/ Room!Connect \/ Room!FindIdle \/ Room!LookPresence \/ Room!PurgeIdle
             \/ Room!SweepFails \/ Room!TimePasses
             \/ Room!InvitationExpires \/ Room!PresenceExpires \/ Room!RedisFlips
    BY <1>1, <2>4 DEF Room!Leave, Room!Connect, Room!FindIdle, Room!LookPresence,
                      Room!PurgeIdle, Room!SweepFails, Room!TimePasses, Room!InvitationExpires,
                      Room!PresenceExpires, Room!RedisFlips
  <2>5. QED BY <1>1, <2>1, <2>2, <2>3, <2>4 DEF Room!Next, Room!Tick
<1>2. [Room!Next]_(Room!vars)
        => [(status \in Room!Closed /\ \A r \in Requests : pc[r] # "activate")
              => status' \in Room!Closed]_(Room!vars)
  BY <1>1
<1>3. QED BY <1>2, PTL DEF Room!Spec, Room!ClosedForGood

(* SellerRoomsService.invite writes a member row long after it has looked: *)
(* it takes nobody back to INVITED who had joined when it looked.          *)
THEOREM DemotionSafety == ASSUME Room!ConstantsOK PROVE Room!Spec => Room!JoinedNotDemoted
<1>1. ASSUME RoomInv, [Room!Next]_(Room!vars),
             NEW u \in Users, members[u] = "JOINED", members'[u] = "INVITED"
      PROVE  \E r \in Requests : pc[r] = "inviteMember" /\ u \in joined[r]
  <2>0. Room!TypeOK BY <1>1 DEF RoomInv
  <2>1. CASE UNCHANGED members BY <1>1, <2>1
  <2>2. CASE Room!Leave BY <1>1, <2>0, <2>2 DEF Room!Leave, Room!TypeOK
  <2>3. CASE \E r \in Requests, s \in {"INVITED", "JOINED"} :
               Room!SetMember(loc[r].user, s) /\ (s = "INVITED" => Room!InviteMember(r))
    <3>1. PICK r \in Requests, s \in {"INVITED", "JOINED"} :
            Room!SetMember(loc[r].user, s) /\ (s = "INVITED" => Room!InviteMember(r)) BY <2>3
    <3>2. u = loc[r].user /\ s = "INVITED" BY <1>1, <2>0, <3>1, LocalTypes
       DEF Room!SetMember, Room!TypeOK
    <3>3. pc[r] = "inviteMember" BY <3>1, <3>2 DEF Room!InviteMember
    <3>4. u \in joined[r] BY <1>1, <3>2, <3>3 DEF RoomInv, Inviting, Room!InviteSteps
    <3>5. QED BY <3>3, <3>4
  <2>4. QED BY <1>1, <2>0, <2>1, <2>2, <2>3, MemberWriters
<1>2. RoomInv /\ [Room!Next]_(Room!vars)
        => [\A u \in Users : members[u] = "JOINED" /\ members'[u] = "INVITED"
              => \E r \in Requests : pc[r] = "inviteMember" /\ u \in joined[r]]_(Room!vars)
  BY <1>1
<1>3. QED BY <1>2, RoomInvariance, PTL DEF Room!Spec, Room!JoinedNotDemoted

(* An invite whose count was not overtaken by another invite or a join     *)
(* leaves no more than MAX_MEMBERS_PER_ROOM members.                       *)
THEOREM LimitSafety == ASSUME Room!ConstantsOK PROVE Room!Spec => Room!MemberLimit
<1>1. ASSUME RoomInv, [Room!Next]_(Room!vars), NEW r \in Requests,
             pc[r] = "inviteMember", pc'[r] = "idle", joined[r] = {}
      PROVE  Cardinality(Room!Seated') <= MaxMembers
  <2>0. Room!TypeOK /\ MaxMembers \in Nat BY <1>1, RoomFacts DEF RoomInv
  <2>1. Cardinality(Room!Seated) < MaxMembers BY <1>1 DEF RoomInv, Seating, Room!InviteSteps
  <2>2. Cardinality(Room!Seated) \in Nat /\ IsFiniteSet(Room!Seated) BY <2>0, SeatedFinite
  <2>3. Cardinality(Room!Seated') \in Nat
    <3>1. Room!Seated' \subseteq Users BY DEF Room!Seated
    <3>2. QED BY <3>1, RoomFacts, FS_Subset, FS_CardinalityType
  <2>4. CASE UNCHANGED members \/ Room!Leave BY <2>0, <2>1, <2>2, <2>3, <2>4, SeatedShrinks
  <2>5. CASE \E q \in Requests, s \in {"INVITED", "JOINED"} : Room!SetMember(loc[q].user, s)
    <3>1. PICK q \in Requests, s \in {"INVITED", "JOINED"} : Room!SetMember(loc[q].user, s) BY <2>5
    <3>2. PICK u \in Users : u = loc[q].user BY <2>0, LocalTypes
    <3>3. Room!Seated' \subseteq Room!Seated \cup {u} BY <2>0, <3>1, <3>2
       DEF Room!Seated, Room!SetMember, Room!TypeOK
    <3>4. /\ IsFiniteSet(Room!Seated \cup {u})
          /\ Cardinality(Room!Seated \cup {u}) <= Cardinality(Room!Seated) + 1
          /\ Cardinality(Room!Seated \cup {u}) \in Nat
      BY <2>2, OneMore
    <3>5. Cardinality(Room!Seated') <= Cardinality(Room!Seated \cup {u}) BY <3>3, <3>4, FS_Subset
    <3>6. QED BY <2>0, <2>1, <2>2, <2>3, <3>4, <3>5
  <2>6. QED BY <1>1, <2>0, <2>4, <2>5, MemberWriters
<1>2. RoomInv /\ [Room!Next]_(Room!vars)
        => [\A r \in Requests : pc[r] = "inviteMember" /\ pc'[r] = "idle" /\ joined[r] = {}
              => Room!Cardinality(Room!Seated') <= MaxMembers]_(Room!vars)
  BY <1>1, RoomCardinality
<1>3. QED BY <1>2, RoomInvariance, PTL DEF Room!Spec, Room!MemberLimit

(* SellerRoomsLifecycleService.tick ends a room only over users whose      *)
(* presence it could not have seen.                                        *)
THEOREM SweepSafety == ASSUME Room!ConstantsOK PROVE Room!Spec => Room!SweepSpares
<1>1. RoomInv /\ [Room!Next]_(Room!vars)
        => [sweep.step = "end" /\ sweep'.step = "purge" => presence \subseteq arrived]_(Room!vars)
  BY DEF RoomInv, Sparing
<1>2. QED BY <1>1, RoomInvariance, PTL DEF Room!Spec, Room!SweepSpares
==============================================================================
