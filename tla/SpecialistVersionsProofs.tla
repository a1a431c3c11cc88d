---------------------- MODULE SpecialistVersionsProofs ----------------------
(***************************************************************************)
(* Theorems about SpecialistVersions, for any sets of keys and contents,   *)
(* and any number of overlapping and of further requests.                  *)
(***************************************************************************)
EXTENDS SpecialistVersions, FiniteSetTheorems, TLAPS

RowType == [source : {"CUSTOM", "CODE"}, status : {"DRAFT", "PUBLISHED", "ARCHIVED"},
            enabled : BOOLEAN, content : Contents, tested : BOOLEAN]
VersionType == [version : Nat \ {0}, content : Contents]
ReqType == [at : {"idle", "update", "version", "publish"}, k : Keys \cup {"none"},
            seen : RowType \cup {NoRow}, version : Nat,
            edit : Edits, dirty : BOOLEAN]

(* Types, with those of the requests in flight; a request works on a row,  *)
(* and so does a version belong to one.                                    *)
Typed ==
  /\ row \in [Keys -> RowType \cup {NoRow}]
  /\ versions \in [Keys -> SUBSET VersionType]
  /\ req \in [Requests -> ReqType]
  /\ tried \in SUBSET Keys /\ loose \in SUBSET Keys
Grounded ==
  /\ \A q \in Requests : req[q].at # "idle" => req[q].k \in Rows /\ req[q].seen \in RowType
  /\ \A k \in Keys : versions[k] # {} => k \in Rows
Base == Typed /\ Grounded

(* A publish that has read carries at most the number after the last.      *)
Numbered(k) ==
  /\ IsFiniteSet(versions[k]) /\ Last(k) \in Nat
  /\ Numbers(k) = 1..Last(k) /\ Cardinality(versions[k]) = Last(k)
NextNumber == \A q \in Requests :
  req[q].at = "version" => req[q].version \in 1..(Last(req[q].k) + 1)
Numbering == NextNumber /\ \A k \in Keys : Numbered(k)

(* A custom row that may be published, or is being, was itself dry-run.    *)
Trying ==
  /\ \A k \in Keys : row[k].source = "CUSTOM" /\ (row[k].tested \/ row[k].status = "PUBLISHED") => k \in tried
  /\ \A q \in Requests : req[q].at \in {"version", "publish"} /\ row[req[q].k].source = "CUSTOM"
                           => req[q].k \in tried

(* What a request whose read is not outdated knows of the row and of its   *)
(* last version; and a publish whose number is still free carries what an  *)
(* undisturbed publish, or the published row, shows.                       *)
Kept(k) == [version |-> Last(k), content |-> row[k].content] \in versions[k]
Served(k) == row[k].source = "CUSTOM" /\ row[k].status = "PUBLISHED" /\ k \notin loose
FreeNumber(q) == req[q].at = "version" /\ req[q].version \notin Numbers(req[q].k)
Fresh == \A q \in Requests : ~req[q].dirty =>
  /\ req[q].at \in {"update", "version"} => req[q].seen = row[req[q].k]
  /\ req[q].at = "publish" => Kept(req[q].k)
Agreeing == \A p, q \in Requests :
  FreeNumber(q) /\ req[p].at = "publish" /\ ~req[p].dirty /\ req[p].k = req[q].k
    => req[q].seen.content = row[req[q].k].content
Serving ==
  /\ Fresh /\ Agreeing
  /\ \A k \in Keys : Served(k) => Kept(k)
  /\ \A q \in Requests : FreeNumber(q) /\ Served(req[q].k)
                           => req[q].seen.content = row[req[q].k].content

SpecialistInv == Base /\ Numbering /\ Trying /\ Serving

-----------------------------------------------------------------------------
(* Marking requests as outdated changes nothing else of them.              *)
LEMMA SoilFacts ==
  ASSUME NEW rs \in [Requests -> ReqType], NEW k, NEW q
  PROVE  /\ Soil(rs, k, q) \in [Requests -> ReqType]
         /\ \A p \in Requests :
              /\ Soil(rs, k, q)[p].at = rs[p].at /\ Soil(rs, k, q)[p].k = rs[p].k
              /\ Soil(rs, k, q)[p].seen = rs[p].seen
              /\ Soil(rs, k, q)[p].version = rs[p].version
              /\ Soil(rs, k, q)[p].edit = rs[p].edit
              /\ Soil(rs, k, q)[p].dirty = (rs[p].dirty \/ (p # q /\ rs[p].k = k))
<1>1. ASSUME NEW p \in Requests
      PROVE  /\ Soil(rs, k, q)[p] \in ReqType
             /\ Soil(rs, k, q)[p].at = rs[p].at /\ Soil(rs, k, q)[p].k = rs[p].k
             /\ Soil(rs, k, q)[p].seen = rs[p].seen
             /\ Soil(rs, k, q)[p].version = rs[p].version
             /\ Soil(rs, k, q)[p].edit = rs[p].edit
             /\ Soil(rs, k, q)[p].dirty = (rs[p].dirty \/ (p # q /\ rs[p].k = k))
  <2>1. rs[p] \in ReqType OBVIOUS
  <2>2. CASE p # q /\ rs[p].k = k
    <3>1. Soil(rs, k, q)[p] = [rs[p] EXCEPT !.dirty = TRUE] BY <2>2 DEF Soil
    <3>2. QED BY <2>1, <2>2, <3>1 DEF ReqType
  <2>3. CASE ~(p # q /\ rs[p].k = k)
    <3>1. Soil(rs, k, q)[p] = rs[p] BY <2>3 DEF Soil
    <3>2. QED BY <2>1, <2>3, <3>1 DEF ReqType
  <2>4. QED BY <2>2, <2>3
<1>2. Soil(rs, k, q) = [p \in Requests |-> Soil(rs, k, q)[p]] BY DEF Soil
<1>3. QED BY <1>1, <1>2

LEMMA IdleOK == Idle \in ReqType
BY DEF Idle, ReqType, Edits

LEMMA NoRowOK == NoRow \notin RowType
BY DEF NoRow, RowType

(* A row is written, and whoever has read it is outdated.                  *)
LEMMA WriteRowBase ==
  ASSUME Base, NEW k \in Keys, NEW new \in RowType, WriteRow(k, new),
         versions' = versions, tried' \in SUBSET Keys, loose' \in SUBSET Keys
  PROVE  Base'
<1>1. row' \in [Keys -> RowType \cup {NoRow}] BY DEF WriteRow, Base, Typed
<1>2. Rows \subseteq Rows' BY NoRowOK DEF Rows, WriteRow, Base, Typed
<1>3. /\ req' \in [Requests -> ReqType]
      /\ \A q \in Requests : req'[q].at = req[q].at /\ req'[q].k = req[q].k /\ req'[q].seen = req[q].seen
  BY SoilFacts DEF WriteRow, Base, Typed
<1>4. Typed' BY <1>1, <1>3 DEF Base, Typed
<1>5. Grounded' BY <1>2, <1>3 DEF Base, Grounded
<1>6. QED BY <1>4, <1>5 DEF Base

(* Types and ground, action by action.                                     *)
LEMMA InitBase == Init => Base
BY IdleOK, NoRowOK DEF Init, Base, Typed, Grounded, Idle

LEMMA RequestBase ==
  ASSUME Base, NEW q \in Requests, NEW r \in ReqType,
         req' = [req EXCEPT ![q] = r],
         r.at # "idle" => r.k \in Rows /\ r.seen \in RowType,
         row' = row, versions' = versions, tried' = tried, loose' = loose
  PROVE  Base'
<1>1. Typed' BY DEF Base, Typed
<1>2. Grounded' BY DEF Base, Typed, Grounded, Rows
<1>3. QED BY <1>1, <1>2 DEF Base

LEMMA ReadForUpdateBase ==
  ASSUME Base, NEW q \in Requests, NEW k \in Keys, NEW edit \in Edits, ReadForUpdate(q, k, edit)
  PROVE  Base'
<1> DEFINE r == [Idle EXCEPT !.at = "update", !.k = k, !.seen = row[k], !.edit = edit]
<1>1. k \in Rows /\ row[k] \in RowType BY DEF ReadForUpdate, Rows, Base, Typed
<1>2. r \in ReqType /\ r.at = "update" /\ r.k = k /\ r.seen = row[k] BY <1>1 DEF Idle, ReqType
<1>3. req' = [req EXCEPT ![q] = r] BY DEF ReadForUpdate
<1> HIDE DEF r
<1>4. QED BY <1>1, <1>2, <1>3, RequestBase DEF ReadForUpdate

LEMMA ReadForPublishBase ==
  ASSUME Base, Numbering, NEW q \in Requests, NEW k \in Keys, ReadForPublish(q, k)
  PROVE  Base'
<1> DEFINE r == [Idle EXCEPT !.at = "version", !.k = k, !.seen = row[k], !.version = Last(k) + 1]
<1>1. k \in Rows /\ row[k] \in RowType BY DEF ReadForPublish, Rows, Base, Typed
<1>2. Last(k) + 1 \in Nat BY DEF Numbering, Numbered
<1>3. r \in ReqType /\ r.at = "version" /\ r.k = k /\ r.seen = row[k]
  BY <1>1, <1>2 DEF Idle, ReqType, Edits
<1>4. req' = [req EXCEPT ![q] = r] BY DEF ReadForPublish
<1> HIDE DEF r
<1>5. QED BY <1>1, <1>3, <1>4, RequestBase DEF ReadForPublish

LEMMA CrashBase ==
  ASSUME Base, NEW q \in Requests, Crash(q)
  PROVE  Base'
BY IdleOK, RequestBase DEF Crash, Idle

LEMMA WriteUpdateBase ==
  ASSUME Base, NEW q \in Requests, WriteUpdate(q)
  PROVE  Base'
<1> DEFINE r == req[q]
<1>1. r \in ReqType /\ r.at = "update" /\ r.k \in Rows /\ row[r.k] \in RowType
  BY DEF WriteUpdate, Base, Typed, Grounded, Rows
<1>2. Patched(row[r.k], r.edit) \in RowType BY <1>1 DEF Patched, ReqType, RowType, Edits
<1>3. PICK new \in RowType : row' = [row EXCEPT ![r.k] = new]
  BY <1>2 DEF WriteUpdate, RowType
<1>4. r.k \in Keys BY <1>1 DEF Rows
<1>5. row' \in [Keys -> RowType \cup {NoRow}] BY <1>3, <1>4 DEF Base, Typed
<1>6. Rows \subseteq Rows' BY <1>3, <1>4, NoRowOK DEF Rows, Base, Typed
<1>7. /\ req' \in [Requests -> ReqType]
      /\ \A p \in Requests \ {q} : req'[p].at = req[p].at /\ req'[p].k = req[p].k /\ req'[p].seen = req[p].seen
      /\ req'[q].at = "idle"
  BY SoilFacts, IdleOK DEF WriteUpdate, Base, Typed, Idle
<1>8. loose' \in SUBSET Keys BY <1>4 DEF WriteUpdate, Base, Typed
<1>9. Typed' BY <1>5, <1>7, <1>8 DEF WriteUpdate, Base, Typed
<1>10. Grounded' BY <1>6, <1>7 DEF WriteUpdate, Base, Grounded
<1>11. QED BY <1>9, <1>10 DEF Base

LEMMA SetPublishedBase ==
  ASSUME Base, NEW q \in Requests, SetPublished(q)
  PROVE  Base'
<1> DEFINE r == req[q]
<1>1. r.at = "publish" /\ r.k \in Rows /\ row[r.k] \in RowType /\ r.k \in Keys
  BY DEF SetPublished, Base, Typed, Grounded, Rows
<1>2. PICK new \in RowType : row' = [row EXCEPT ![r.k] = new]
  <2>1. [row[r.k] EXCEPT !.status = "PUBLISHED", !.enabled = TRUE] \in RowType BY <1>1 DEF RowType
  <2>2. row' = [row EXCEPT ![r.k] = [row[r.k] EXCEPT !.status = "PUBLISHED", !.enabled = TRUE]]
    BY <1>1 DEF SetPublished, Base, Typed
  <2>3. QED BY <2>1, <2>2
<1>3. row' \in [Keys -> RowType \cup {NoRow}] BY <1>1, <1>2 DEF Base, Typed
<1>4. Rows \subseteq Rows' BY <1>1, <1>2, NoRowOK DEF Rows, Base, Typed
<1>5. /\ req' \in [Requests -> ReqType]
      /\ \A p \in Requests \ {q} : req'[p].at = req[p].at /\ req'[p].k = req[p].k /\ req'[p].seen = req[p].seen
      /\ req'[q].at = "idle"
  BY SoilFacts, IdleOK DEF SetPublished, Base, Typed, Idle
<1>6. loose' \in SUBSET Keys BY <1>1 DEF SetPublished, Base, Typed
<1>7. Typed' BY <1>3, <1>5, <1>6 DEF SetPublished, Base, Typed
<1>8. Grounded' BY <1>4, <1>5 DEF SetPublished, Base, Grounded
<1>9. QED BY <1>7, <1>8 DEF Base

LEMMA InsertVersionBase ==
  ASSUME Base, Numbering, NEW q \in Requests, InsertVersion(q)
  PROVE  Base'
<1> DEFINE r == req[q]
<1>1. /\ r \in ReqType /\ r.at = "version" /\ r.k \in Rows /\ r.k \in Keys
      /\ r.seen \in RowType
  BY DEF InsertVersion, Base, Typed, Grounded, Rows
<1>2. CASE r.version \in Numbers(r.k)
  BY <1>1, <1>2, IdleOK, RequestBase DEF InsertVersion, Idle
<1>3. CASE r.version \notin Numbers(r.k)
  <2>1. [version |-> r.version, content |-> r.seen.content] \in VersionType
    BY <1>1 DEF VersionType, RowType, ReqType, Numbering, NextNumber, Numbered
  <2>2. versions' \in [Keys -> SUBSET VersionType] /\ \A k \in Keys \ {r.k} : versions'[k] = versions[k]
    BY <1>1, <1>3, <2>1 DEF InsertVersion, Base, Typed
  <2>3. /\ req' \in [Requests -> ReqType]
        /\ \A p \in Requests : req'[p].k = req[p].k /\ req'[p].seen = req[p].seen
        /\ \A p \in Requests \ {q} : req'[p].at = req[p].at
        /\ req'[q].at = "publish"
    <3> DEFINE rs == Soil(req, r.k, q)
    <3>1. rs \in [Requests -> ReqType] /\ \A p \in Requests : rs[p].at = req[p].at /\ rs[p].k = req[p].k /\ rs[p].seen = req[p].seen
      BY SoilFacts DEF Base, Typed
    <3>2. req' = [rs EXCEPT ![q] = [rs[q] EXCEPT !.at = "publish"]]
      BY <1>3, <3>1 DEF InsertVersion
    <3> HIDE DEF rs
    <3>3. QED BY <3>1, <3>2 DEF ReqType
  <2>4. Typed' BY <2>2, <2>3 DEF InsertVersion, Base, Typed
  <2>5. Rows' = Rows BY DEF InsertVersion, Rows
  <2>6. Grounded' BY <1>1, <2>2, <2>3, <2>5 DEF Base, Grounded
  <2>7. QED BY <2>4, <2>6 DEF Base
<1>4. QED BY <1>2, <1>3

-----------------------------------------------------------------------------
(* Numbering.  Only the insert of a version that is the next one changes   *)
(* the versions, and a number that was read stays at most the next one.    *)
LEMMA MaxUpTo ==
  ASSUME NEW n \in Nat \ {0}
  PROVE  Max(1..n) = n
<1>1. n \in 1..n OBVIOUS
<1>2. \A x \in 1..n : (\A y \in 1..n : x >= y) => x = n BY <1>1
<1>3. \A y \in 1..n : n >= y OBVIOUS
<1>4. QED BY <1>1, <1>2, <1>3 DEF Max

LEMMA InsertVersionNumbers ==
  ASSUME Base, Numbering, NEW q \in Requests, InsertVersion(q),
         req[q].version \notin Numbers(req[q].k), NEW k \in Keys
  PROVE  /\ Numbered(k)'
         /\ Last(k)' = IF k = req[q].k THEN req[q].version ELSE Last(k)
         /\ k = req[q].k => req[q].version = Last(k) + 1
<1>1. Numbered(k) BY DEF Numbering
<1>2. CASE k # req[q].k
  <2>1. versions'[k] = versions[k] BY <1>2 DEF InsertVersion, Base, Typed
  <2>2. QED BY <1>1, <1>2, <2>1 DEF Numbered, Numbers, Last
<1>3. CASE k = req[q].k
  <2>1. PICK n \in Nat : n = Last(k) BY <1>1 DEF Numbered
  <2>2. PICK new : new = [version |-> req[q].version, content |-> req[q].seen.content] OBVIOUS
  <2>3. new.version = n + 1 /\ req[q].version = n + 1
    BY <1>1, <1>3, <2>1, <2>2 DEF Numbered, InsertVersion, Numbering, NextNumber
  <2>4. versions'[k] = versions[k] \cup {new} BY <1>3, <2>2 DEF InsertVersion, Base, Typed
  <2>5. Numbers(k)' = 1..(n + 1)
    <3>1. Numbers(k)' = Numbers(k) \cup {n + 1} BY <2>3, <2>4 DEF Numbers
    <3>2. QED BY <1>1, <2>1, <3>1 DEF Numbered
  <2>6. Last(k)' = n + 1
    <3>1. versions'[k] # {} BY <2>4
    <3>2. n + 1 \in Nat \ {0} OBVIOUS
    <3>3. QED BY <2>5, <3>1, <3>2, MaxUpTo DEF Last
  <2>7. new \notin versions[k] BY <1>3, <2>2 DEF Numbers
  <2>8. IsFiniteSet(versions[k]) /\ Cardinality(versions[k]) = n BY <1>1, <2>1 DEF Numbered
  <2>9. IsFiniteSet(versions'[k]) /\ Cardinality(versions'[k]) = n + 1
    <3>1. IsFiniteSet(versions[k] \cup {new}) /\ Cardinality(versions[k] \cup {new}) = n + 1
      BY <2>7, <2>8, FS_AddElement
    <3>2. QED BY <2>4, <3>1, Zenon
  <2>10. QED BY <1>3, <2>1, <2>3, <2>5, <2>6, <2>9 DEF Numbered
<1>4. QED BY <1>2, <1>3

(* Where the insert leaves the requests.                                   *)
LEMMA InsertVersionReq ==
  ASSUME Base, NEW q \in Requests, InsertVersion(q),
         req[q].version \notin Numbers(req[q].k), NEW p \in Requests
  PROVE  /\ req'[p].k = req[p].k /\ req'[p].seen = req[p].seen /\ req'[p].version = req[p].version
         /\ req'[p].at = IF p = q THEN "publish" ELSE req[p].at
         /\ req'[p].dirty = (req[p].dirty \/ (p # q /\ req[p].k = req[q].k))
<1> DEFINE rs == Soil(req, req[q].k, q)
<1>1. /\ rs \in [Requests -> ReqType]
      /\ rs[p].at = req[p].at /\ rs[p].k = req[p].k /\ rs[p].seen = req[p].seen
      /\ rs[p].version = req[p].version
      /\ rs[p].dirty = (req[p].dirty \/ (p # q /\ req[p].k = req[q].k))
  BY SoilFacts DEF Base, Typed
<1>2. req' = [rs EXCEPT ![q] = [rs[q] EXCEPT !.at = "publish"]]
  BY <1>1 DEF InsertVersion
<1> HIDE DEF rs
<1>3. QED BY <1>1, <1>2 DEF ReqType

LEMMA InsertVersionNumbering ==
  ASSUME Base, Numbering, NEW q \in Requests, InsertVersion(q)
  PROVE  Numbering'
<1>1. CASE req[q].version \in Numbers(req[q].k)
  <2>1. versions' = versions /\ \A p \in Requests \ {q} : req'[p] = req[p]
    BY <1>1 DEF InsertVersion, Base, Typed
  <2>2. req'[q].at = "idle" BY <1>1 DEF InsertVersion, Base, Typed, Idle
  <2>3. NextNumber' BY <2>1, <2>2 DEF Numbering, NextNumber, Numbers, Last
  <2>4. QED BY <2>1, <2>3 DEF Numbering, Numbered, Numbers, Last
<1>2. CASE req[q].version \notin Numbers(req[q].k)
  <2>1. \A k \in Keys : Numbered(k)' BY <1>2, InsertVersionNumbers
  <2>2. ASSUME NEW p \in Requests, req'[p].at = "version"
        PROVE  req'[p].version \in 1..(Last(req[p].k)' + 1) /\ req'[p].k = req[p].k
    <3>1. p # q /\ req[p].at = "version" /\ req'[p].k = req[p].k /\ req'[p].version = req[p].version
      BY <1>2, <2>2, InsertVersionReq
    <3>2. PICK k \in Keys : k = req[p].k BY <3>1 DEF Base, Grounded, Rows
    <3>3. req[p].version \in 1..(Last(k) + 1) /\ Last(k) \in Nat
      BY <3>1, <3>2 DEF Numbering, NextNumber, Numbered
    <3>4. Last(k)' \in Nat /\ Last(k)' >= Last(k) BY <1>2, <2>1, <3>3, InsertVersionNumbers DEF Numbered
    <3>5. Last(req[p].k)' = Last(k)'
      BY <3>1, <3>2 DEF Last, Numbers
    <3>6. QED BY <3>1, <3>3, <3>4, <3>5
  <2>3. NextNumber'
    <3> SUFFICES ASSUME NEW p \in Requests, req'[p].at = "version"
                 PROVE  req'[p].version \in 1..(Last(req[p].k)' + 1)
      BY DEF NextNumber
    <3>1. QED BY <2>2
  <2>4. QED BY <2>1, <2>3 DEF Numbering
<1>3. QED BY <1>1, <1>2

LEMMA SameNumbering ==
  ASSUME Numbering, versions' = versions,
         \A p \in Requests : req'[p].at = "version" =>
           \/ req[p].at = "version" /\ req'[p].k = req[p].k /\ req'[p].version = req[p].version
           \/ \E k \in Keys : req'[p].k = k /\ req'[p].version = Last(k) + 1
  PROVE  Numbering'
<1>1. \A k \in Keys : Numbered(k)' BY DEF Numbering, Numbered, Numbers, Last
<1>2. ASSUME NEW p \in Requests, req'[p].at = "version"
      PROVE  req'[p].version \in 1..(Last(req[p].k)' + 1)
  <2>1. CASE req[p].at = "version" /\ req'[p].k = req[p].k /\ req'[p].version = req[p].version
    BY <2>1 DEF Numbering, NextNumber, Last, Numbers
  <2>2. CASE \E k \in Keys : req'[p].k = k /\ req'[p].version = Last(k) + 1
    <3>1. PICK k \in Keys : req'[p].k = k /\ req'[p].version = Last(k) + 1 BY <2>2
    <3>2. Last(k) \in Nat BY DEF Numbering, Numbered
    <3>3. Last(req[p].k)' = Last(k) BY <3>1 DEF Last, Numbers
    <3>4. QED BY <3>1, <3>2, <3>3
  <2>3. QED BY <1>2, <2>1, <2>2
<1>3. QED BY <1>1, <1>2 DEF Numbering, NextNumber

-----------------------------------------------------------------------------
(* A row is written by a step that does not publish it: whoever else has   *)
(* read it is outdated, and the writer, if it was a request, is done.      *)
LEMMA RowWrittenInv ==
  ASSUME SpecialistInv, Base', NEW k \in Keys, NEW new \in RowType, row' = [row EXCEPT ![k] = new],
         \A p \in Requests :
           \/ req'[p].at = "idle"
           \/ /\ req'[p].at = req[p].at /\ req'[p].k = req[p].k
              /\ req'[p].seen = req[p].seen /\ req'[p].version = req[p].version
              /\ req'[p].dirty = (req[p].dirty \/ req[p].k = k),
         versions' = versions, tried \subseteq tried', loose \subseteq loose',
         new.source = "CUSTOM" /\ (new.tested \/ new.status = "PUBLISHED") => k \in tried',
         new.source = "CUSTOM" /\ k \in Rows => row[k].source = "CUSTOM",
         new.source = "CUSTOM" /\ new.status = "PUBLISHED" /\ k \notin loose' =>
           row[k].source = "CUSTOM" /\ row[k].status = "PUBLISHED" /\ new.content = row[k].content
  PROVE  SpecialistInv'
<1> USE DEF SpecialistInv
<1> DEFINE Going(p) == req'[p].at # "idle"
<1>1. row'[k] = new /\ \A j \in Keys \ {k} : row'[j] = row[j] BY DEF Base, Typed
<1>2. \A p \in Requests : Going(p) =>
        /\ req'[p].at = req[p].at /\ req'[p].k = req[p].k
        /\ req'[p].seen = req[p].seen /\ req'[p].version = req[p].version
        /\ req'[p].dirty = (req[p].dirty \/ req[p].k = k)
  OBVIOUS
<1>3. \A p \in Requests : Going(p) => req[p].k \in Rows /\ req[p].k \in Keys
  BY <1>2 DEF Base, Grounded, Rows
<1>4. Numbering' BY <1>2, SameNumbering
<1>5. \A j \in Keys : Numbers(j)' = Numbers(j) /\ Last(j)' = Last(j) BY DEF Numbers, Last
<1>6. Trying'
  <2>1. ASSUME NEW j \in Keys, row'[j].source = "CUSTOM", row'[j].tested \/ row'[j].status = "PUBLISHED"
        PROVE  j \in tried'
    BY <1>1, <2>1 DEF Trying
  <2>2. ASSUME NEW p \in Requests, req'[p].at \in {"version", "publish"},
               row'[req'[p].k].source = "CUSTOM"
        PROVE  req'[p].k \in tried'
    <3>1. PICK j \in Rows : j = req[p].k /\ j \in Keys BY <1>3, <2>2
    <3>2. row[j].source = "CUSTOM" BY <1>1, <1>2, <2>2, <3>1
    <3>3. QED BY <1>2, <2>2, <3>1, <3>2 DEF Trying
  <2>3. QED BY <2>1, <2>2 DEF Trying
<1>7. Fresh'
  <2>1. ASSUME NEW p \in Requests, ~req'[p].dirty, req'[p].at \in {"update", "version"}
        PROVE  req'[p].seen = row'[req'[p].k]
    <3>1. PICK j \in Keys : j = req[p].k /\ j # k /\ j = req'[p].k BY <1>2, <1>3, <2>1
    <3>2. req[p].at \in {"update", "version"} /\ ~req[p].dirty /\ req'[p].seen = req[p].seen BY <1>2, <2>1
    <3>3. req[p].seen = row[req[p].k] BY <3>2 DEF Serving, Fresh
    <3>4. row'[j] = row[j] BY <1>1, <3>1
    <3>5. QED BY <3>1, <3>2, <3>3, <3>4, Zenon
  <2>2. ASSUME NEW p \in Requests, ~req'[p].dirty, req'[p].at = "publish"
        PROVE  Kept(req[p].k)'
    <3>1. PICK j \in Keys : j = req[p].k /\ j # k /\ j = req'[p].k BY <1>2, <1>3, <2>2
    <3>2. Kept(j) BY <1>2, <2>2, <3>1 DEF Serving, Fresh
    <3>3. Kept(j)' BY <1>1, <1>5, <3>1, <3>2 DEF Kept
    <3>4. QED BY <3>1, <3>3 DEF Kept, Last, Numbers
  <2>3. QED BY <2>1, <2>2 DEF Fresh
<1>8. ASSUME NEW q \in Requests, FreeNumber(q)' PROVE Going(q) /\ FreeNumber(q)
  <2>1. Going(q) BY <1>8 DEF FreeNumber
  <2>2. QED BY <1>2, <1>8, <2>1 DEF FreeNumber, Numbers
<1>9. Agreeing'
  <2>1. ASSUME NEW p \in Requests, NEW q \in Requests, FreeNumber(q)',
               req'[p].at = "publish", ~req'[p].dirty, req'[p].k = req'[q].k
        PROVE  req'[q].seen.content = row'[req'[q].k].content
    <3>1. PICK j \in Keys : j = req[q].k /\ j = req[p].k /\ j # k BY <1>2, <1>3, <1>8, <2>1
    <3>2. req[q].seen.content = row[j].content
      <4>1. FreeNumber(q) /\ req[p].at = "publish" /\ ~req[p].dirty BY <1>2, <1>8, <2>1
      <4>2. QED BY <3>1, <4>1 DEF Serving, Agreeing
    <3>3. row'[j] = row[j] BY <1>1, <3>1
    <3>4. req'[q].k = j /\ req'[q].seen = req[q].seen BY <1>2, <1>8, <2>1, <3>1
    <3>5. QED BY <3>2, <3>3, <3>4, Zenon
  <2>2. QED BY <2>1 DEF Agreeing
<1>10. \A j \in Keys : Served(j)' => Served(j) /\ row'[j].content = row[j].content
  BY <1>1 DEF Served
<1>11. \A j \in Keys : Served(j)' => Kept(j)'
  BY <1>5, <1>10 DEF Kept, Serving
<1>12. ASSUME NEW q \in Requests, FreeNumber(q)', Served(req[q].k)'
       PROVE  req'[q].seen.content = row'[req'[q].k].content
  <2>1. PICK j \in Keys : j = req[q].k /\ j = req'[q].k BY <1>2, <1>3, <1>8, <1>12
  <2>2. Served(j)' BY <1>12, <2>1 DEF Served
  <2>3. Served(j) /\ row'[j].content = row[j].content BY <1>10, <2>2
  <2>4. req[q].seen.content = row[j].content BY <1>8, <1>12, <2>1, <2>3 DEF Serving
  <2>5. req'[q].seen = req[q].seen BY <1>2, <1>8, <1>12
  <2>6. QED BY <2>1, <2>3, <2>4, <2>5, Zenon
<1>13. QED BY <1>4, <1>6, <1>7, <1>9, <1>11, <1>12 DEF Serving

(* The handlers that write a row at once.                                  *)
LEMMA WriteRowInv ==
  ASSUME SpecialistInv, NEW k \in Keys, NEW new \in RowType, WriteRow(k, new),
         versions' = versions, tried \subseteq tried', tried' \in SUBSET Keys, loose' = loose,
         new.source = "CUSTOM" /\ (new.tested \/ new.status = "PUBLISHED") => k \in tried',
         new.source = "CUSTOM" /\ k \in Rows => row[k].source = "CUSTOM",
         new.source = "CUSTOM" /\ new.status = "PUBLISHED" =>
           row[k].source = "CUSTOM" /\ row[k].status = "PUBLISHED" /\ new.content = row[k].content
  PROVE  SpecialistInv'
<1>1. Base' BY WriteRowBase DEF SpecialistInv, Base, Typed
<1>2. row' = [row EXCEPT ![k] = new] BY DEF WriteRow
<1>3. \A p \in Requests :
        /\ req'[p].at = req[p].at /\ req'[p].k = req[p].k
        /\ req'[p].seen = req[p].seen /\ req'[p].version = req[p].version
        /\ req'[p].dirty = (req[p].dirty \/ req[p].k = k)
  <2>1. 0 \notin Requests BY SpecialistAssumption DEF Requests
  <2>2. req' = Soil(req, k, 0) BY DEF WriteRow
  <2>3. QED BY <2>1, <2>2, SoilFacts DEF SpecialistInv, Base, Typed
<1>4. QED BY <1>1, <1>2, <1>3, RowWrittenInv

LEMMA CreateInv ==
  ASSUME SpecialistInv, NEW k \in Keys, NEW c \in Contents, Create(k, c)
  PROVE  SpecialistInv'
<1> DEFINE new == [source |-> "CUSTOM", status |-> "DRAFT", enabled |-> TRUE, content |-> c, tested |-> FALSE]
<1>1. new \in RowType /\ ~new.tested /\ new.status = "DRAFT" BY DEF RowType
<1>2. WriteRow(k, new) /\ k \notin Rows BY DEF Create
<1> HIDE DEF new
<1>3. QED BY <1>1, <1>2, WriteRowInv DEF Create, SpecialistInv, Base, Typed

LEMMA CloneInv ==
  ASSUME SpecialistInv, NEW k \in Keys, NEW copy \in Keys, Clone(k, copy)
  PROVE  SpecialistInv'
<1> DEFINE new == [source |-> "CUSTOM", status |-> "DRAFT", enabled |-> FALSE,
                   content |-> row[k].content, tested |-> FALSE]
<1>1. new \in RowType /\ ~new.tested /\ new.status = "DRAFT"
  BY DEF Clone, Rows, RowType, SpecialistInv, Base, Typed
<1>2. WriteRow(copy, new) /\ copy \notin Rows BY DEF Clone
<1> HIDE DEF new
<1>3. QED BY <1>1, <1>2, WriteRowInv DEF Clone, SpecialistInv, Base, Typed

LEMMA RollbackInv ==
  ASSUME SpecialistInv, NEW k \in Keys, NEW v \in versions[k], Rollback(k, v)
  PROVE  SpecialistInv'
<1> DEFINE new == [row[k] EXCEPT !.content = v.content, !.status = "DRAFT"]
<1>1. row[k] \in RowType /\ v \in VersionType BY DEF SpecialistInv, Base, Typed, Grounded, Rows
<1>2. /\ new \in RowType /\ new.source = row[k].source
      /\ new.tested = row[k].tested /\ new.status = "DRAFT"
  BY <1>1 DEF RowType, VersionType
<1>3. WriteRow(k, new) BY DEF Rollback
<1> HIDE DEF new
<1>4. QED BY <1>2, <1>3, WriteRowInv DEF Rollback, SpecialistInv, Base, Typed, Trying

LEMMA ArchiveInv ==
  ASSUME SpecialistInv, NEW k \in Keys, Archive(k)
  PROVE  SpecialistInv'
<1> DEFINE new == [row[k] EXCEPT !.status = "ARCHIVED", !.enabled = FALSE]
<1>1. row[k] \in RowType BY DEF Archive, SpecialistInv, Base, Typed, Rows
<1>2. /\ new \in RowType /\ new.source = row[k].source
      /\ new.tested = row[k].tested /\ new.status = "ARCHIVED"
  BY <1>1 DEF RowType
<1>3. WriteRow(k, new) BY DEF Archive
<1> HIDE DEF new
<1>4. QED BY <1>2, <1>3, WriteRowInv DEF Archive, SpecialistInv, Base, Typed, Trying

LEMMA DryRunInv ==
  ASSUME SpecialistInv, NEW k \in Keys, DryRun(k)
  PROVE  SpecialistInv'
<1> DEFINE new == [row[k] EXCEPT !.tested = TRUE]
<1>1. row[k] \in RowType BY DEF DryRun, SpecialistInv, Base, Typed, Rows
<1>2. /\ new \in RowType /\ new.source = row[k].source
      /\ new.status = row[k].status /\ new.content = row[k].content
  BY <1>1 DEF RowType
<1>3. WriteRow(k, new) /\ tried' = tried \cup {k} BY DEF DryRun
<1> HIDE DEF new
<1>4. QED BY <1>2, <1>3, WriteRowInv DEF DryRun, SpecialistInv, Base, Typed

LEMMA RegisterBuiltinInv ==
  ASSUME SpecialistInv, NEW k \in Keys, NEW c \in Contents, RegisterBuiltin(k, c)
  PROVE  SpecialistInv'
<1> DEFINE new == IF k \in Rows
                  THEN [row[k] EXCEPT !.content = c, !.source = "CODE", !.status = "PUBLISHED"]
                  ELSE [source |-> "CODE", status |-> "PUBLISHED", enabled |-> TRUE, content |-> c, tested |-> TRUE]
<1>1. k \in Rows => row[k] \in RowType BY DEF SpecialistInv, Base, Typed, Rows
<1>2. new \in RowType /\ new.source = "CODE" BY <1>1 DEF RowType
<1>3. WriteRow(k, new) BY DEF RegisterBuiltin
<1> HIDE DEF new
<1>4. QED BY <1>2, <1>3, WriteRowInv DEF RegisterBuiltin, SpecialistInv, Base, Typed

LEMMA WriteUpdateInv ==
  ASSUME SpecialistInv, NEW q \in Requests, WriteUpdate(q)
  PROVE  SpecialistInv'
<1> DEFINE r == req[q]
<1>1. PICK k \in Keys : k = r.k /\ k \in Rows /\ row[k] \in RowType
  BY DEF WriteUpdate, SpecialistInv, Base, Typed, Grounded, Rows
<1>2. r \in ReqType /\ r.at = "update" BY DEF WriteUpdate, SpecialistInv, Base, Typed
<1> DEFINE patched == Patched(row[k], r.edit)
           drafted == r.seen.source = "CUSTOM" /\ r.seen.status = "PUBLISHED" /\ r.edit.enabled = Keep
           new == IF drafted THEN [patched EXCEPT !.status = "DRAFT"] ELSE patched
<1>3. /\ patched \in RowType /\ patched.source = row[k].source
      /\ patched.status = row[k].status /\ patched.tested = row[k].tested
      /\ r.edit.content = Keep => patched.content = row[k].content
  BY <1>1, <1>2 DEF Patched, ReqType, RowType, Edits
<1>4. /\ new \in RowType /\ new.source = row[k].source /\ new.tested = row[k].tested
      /\ new.status = IF drafted THEN "DRAFT" ELSE row[k].status
      /\ r.edit.content = Keep => new.content = row[k].content
  BY <1>3 DEF RowType
<1>5. row' = [row EXCEPT ![k] = new] BY <1>1 DEF WriteUpdate
<1>6. \A p \in Requests :
        \/ req'[p].at = "idle"
        \/ /\ req'[p].at = req[p].at /\ req'[p].k = req[p].k
           /\ req'[p].seen = req[p].seen /\ req'[p].version = req[p].version
           /\ req'[p].dirty = (req[p].dirty \/ req[p].k = k)
  <2>1. req \in [Requests -> ReqType] BY DEF SpecialistInv, Base, Typed
  <2>2. req' = [Soil(req, k, q) EXCEPT ![q] = Idle] BY <1>1 DEF WriteUpdate
  <2>3. ASSUME NEW p \in Requests, p # q
        PROVE  /\ req'[p].at = req[p].at /\ req'[p].k = req[p].k
               /\ req'[p].seen = req[p].seen /\ req'[p].version = req[p].version
               /\ req'[p].dirty = (req[p].dirty \/ req[p].k = k)
    <3>1. req'[p] = Soil(req, k, q)[p] BY <2>1, <2>2, <2>3, SoilFacts
    <3>2. QED BY <2>1, <2>3, <3>1, SoilFacts
  <2>4. req'[q].at = "idle" BY <2>1, <2>2, SoilFacts DEF Idle
  <2>5. QED BY <2>3, <2>4, Zenon
<1>7. loose \subseteq loose' BY DEF WriteUpdate
<1>8. r.edit.content # Keep /\ k \notin loose' => r.edit.enabled = Keep /\ r.seen = row[k]
  BY <1>1, <1>2 DEF WriteUpdate, SpecialistInv, Serving, Fresh
<1>9. new.source = "CUSTOM" /\ new.status = "PUBLISHED" /\ k \notin loose' =>
        row[k].source = "CUSTOM" /\ row[k].status = "PUBLISHED" /\ new.content = row[k].content
  BY <1>4, <1>8
<1>10. versions' = versions /\ tried' = tried /\ Base'
  BY WriteUpdateBase DEF WriteUpdate, SpecialistInv
<1>11. new.source = "CUSTOM" /\ (new.tested \/ new.status = "PUBLISHED") => k \in tried'
  BY <1>4, <1>10 DEF SpecialistInv, Trying
<1> HIDE DEF new
<1>12. QED BY <1>4, <1>5, <1>6, <1>7, <1>9, <1>10, <1>11, RowWrittenInv

-----------------------------------------------------------------------------
(* A request ends, or reads a row; nothing is written.                     *)
LEMMA RequestInv ==
  ASSUME SpecialistInv, Base', NEW q \in Requests, NEW r \in ReqType, req' = [req EXCEPT ![q] = r],
         \/ r.at = "idle"
         \/ r.at = "update" /\ r.seen = row[r.k]
         \/ r.at = "version" /\ r.seen = row[r.k] /\ r.k \in Keys /\ r.version = Last(r.k) + 1
              /\ row[r.k].tested,
         row' = row, versions' = versions, tried' = tried, loose' = loose
  PROVE  SpecialistInv'
<1> USE DEF SpecialistInv
<1>1. req'[q] = r /\ \A p \in Requests \ {q} : req'[p] = req[p] BY DEF Base, Typed
<1>2. Numbering' BY <1>1, SameNumbering
<1>3. Trying' BY <1>1 DEF Trying
<1>4. \A j \in Keys : (Kept(j)' <=> Kept(j)) /\ (Served(j)' <=> Served(j))
  BY DEF Kept, Served, Last, Numbers
<1>5. ASSUME NEW p \in Requests, p # q
      PROVE  /\ FreeNumber(p)' <=> FreeNumber(p)
             /\ Kept(req[p].k)' <=> Kept(req[p].k)
             /\ Served(req[p].k)' <=> Served(req[p].k)
  BY <1>1, <1>5 DEF FreeNumber, Kept, Served, Numbers, Last
<1>6. Fresh'
  <2>1. ASSUME NEW p \in Requests, ~req'[p].dirty, req'[p].at \in {"update", "version"}
        PROVE  req'[p].seen = row'[req'[p].k]
    BY <1>1, <2>1 DEF Serving, Fresh
  <2>2. ASSUME NEW p \in Requests, ~req'[p].dirty, req'[p].at = "publish"
        PROVE  Kept(req[p].k)'
    <3>1. p # q BY <1>1, <2>2
    <3>2. Kept(req[p].k) BY <1>1, <2>2, <3>1 DEF Serving, Fresh
    <3>3. QED BY <1>5, <3>1, <3>2
  <2>3. QED BY <2>1, <2>2 DEF Fresh
<1>7. Agreeing'
  <2>1. ASSUME NEW p \in Requests, NEW o \in Requests, FreeNumber(o)',
               req'[p].at = "publish", ~req'[p].dirty, req'[p].k = req'[o].k
        PROVE  req'[o].seen.content = row'[req'[o].k].content
    <3>1. p # q BY <1>1, <2>1
    <3>2. CASE o = q BY <1>1, <2>1, <3>2 DEF FreeNumber
    <3>3. CASE o # q
      <4>1. FreeNumber(o) /\ req'[o] = req[o] /\ req'[p] = req[p] BY <1>1, <1>5, <2>1, <3>1, <3>3
      <4>2. QED BY <2>1, <4>1 DEF Serving, Agreeing
    <3>4. QED BY <3>2, <3>3
  <2>2. QED BY <2>1 DEF Agreeing
<1>8. ASSUME NEW o \in Requests, FreeNumber(o)', Served(req[o].k)'
      PROVE  req'[o].seen.content = row'[req'[o].k].content
  <2>1. CASE o = q BY <1>1, <1>8, <2>1 DEF FreeNumber
  <2>2. CASE o # q
    <3>1. FreeNumber(o) /\ Served(req[o].k) /\ req'[o] = req[o] BY <1>1, <1>5, <1>8, <2>2
    <3>2. QED BY <3>1 DEF Serving
  <2>3. QED BY <2>1, <2>2
<1>9. \A j \in Keys : Served(j)' => Kept(j)' BY <1>4 DEF Serving
<1>10. QED BY <1>2, <1>3, <1>6, <1>7, <1>8, <1>9 DEF Serving

LEMMA ReadForUpdateInv ==
  ASSUME SpecialistInv, NEW q \in Requests, NEW k \in Keys, NEW edit \in Edits, ReadForUpdate(q, k, edit)
  PROVE  SpecialistInv'
<1> DEFINE r == [Idle EXCEPT !.at = "update", !.k = k, !.seen = row[k], !.edit = edit]
<1>1. k \in Rows /\ row[k] \in RowType BY DEF ReadForUpdate, Rows, SpecialistInv, Base, Typed
<1>2. r \in ReqType /\ r.at = "update" /\ r.k = k /\ r.seen = row[k] BY <1>1 DEF Idle, ReqType
<1>3. req' = [req EXCEPT ![q] = r] BY DEF ReadForUpdate
<1>4. Base' BY ReadForUpdateBase DEF SpecialistInv
<1> HIDE DEF r
<1>5. QED BY <1>2, <1>3, <1>4, RequestInv DEF ReadForUpdate

LEMMA ReadForPublishInv ==
  ASSUME SpecialistInv, NEW q \in Requests, NEW k \in Keys, ReadForPublish(q, k)
  PROVE  SpecialistInv'
<1> DEFINE r == [Idle EXCEPT !.at = "version", !.k = k, !.seen = row[k], !.version = Last(k) + 1]
<1>1. k \in Rows /\ row[k] \in RowType /\ row[k].tested
  BY DEF ReadForPublish, Rows, SpecialistInv, Base, Typed
<1>2. Last(k) + 1 \in Nat BY DEF SpecialistInv, Numbering, Numbered
<1>3. /\ r \in ReqType /\ r.at = "version" /\ r.k = k
      /\ r.seen = row[k] /\ r.version = Last(k) + 1
  BY <1>1, <1>2 DEF Idle, ReqType, Edits
<1>4. req' = [req EXCEPT ![q] = r] BY DEF ReadForPublish
<1>5. Base' BY ReadForPublishBase DEF SpecialistInv
<1> HIDE DEF r
<1>6. QED BY <1>1, <1>3, <1>4, <1>5, RequestInv DEF ReadForPublish

LEMMA CrashInv ==
  ASSUME SpecialistInv, NEW q \in Requests, Crash(q)
  PROVE  SpecialistInv'
<1>1. Base' BY CrashBase DEF SpecialistInv
<1>2. Idle.at = "idle" BY DEF Idle
<1>3. QED BY <1>1, <1>2, IdleOK, RequestInv DEF Crash

(* The insert of a version takes its number from every other publish of    *)
(* the key, and shows the row, if that is published or was not written     *)
(* since the publish read it.                                              *)
LEMMA InsertVersionInv ==
  ASSUME SpecialistInv, NEW q \in Requests, InsertVersion(q)
  PROVE  SpecialistInv'
<1> USE DEF SpecialistInv
<1>1. Base' BY InsertVersionBase
<1>2. CASE req[q].version \in Numbers(req[q].k)
  <2>1. Idle.at = "idle" BY DEF Idle
  <2>2. QED BY <1>1, <1>2, <2>1, IdleOK, RequestInv DEF InsertVersion
<1>3. CASE req[q].version \notin Numbers(req[q].k)
  <2>1. PICK k \in Keys : k = req[q].k BY DEF InsertVersion, Base, Grounded, Rows
  <2>2. req[q].at = "version" /\ FreeNumber(q) BY <1>3 DEF InsertVersion, FreeNumber
  <2>3. \A p \in Requests :
          /\ req'[p].k = req[p].k /\ req'[p].seen = req[p].seen /\ req'[p].version = req[p].version
          /\ req'[p].at = IF p = q THEN "publish" ELSE req[p].at
          /\ req'[p].dirty = (req[p].dirty \/ (p # q /\ req[p].k = k))
    BY <1>3, <2>1, InsertVersionReq
  <2>4. row' = row /\ tried' = tried /\ loose' = loose BY DEF InsertVersion
  <2>5. \A p \in Requests : req'[p].at # "idle" => req[p].k \in Keys
    BY <2>1, <2>2, <2>3 DEF Base, Grounded, Rows
  <2>6. ASSUME NEW j \in Keys, j # k
        PROVE  /\ Numbers(j)' = Numbers(j) /\ (Kept(j)' <=> Kept(j))
    <3>1. versions'[j] = versions[j] BY <1>3, <2>1, <2>6 DEF InsertVersion, Base, Typed
    <3>2. QED BY <2>4, <3>1 DEF Numbers, Kept, Last
  <2>7. Numbers(k)' = 1..req[q].version
    BY <1>3, <2>1, InsertVersionNumbers DEF Numbered
  <2>8. req[q].seen.content = row[k].content => Kept(k)'
    <3>1. [version |-> req[q].version, content |-> req[q].seen.content] \in versions'[k]
      BY <1>3, <2>1 DEF InsertVersion, Base, Typed
    <3>2. Last(k)' = req[q].version BY <1>3, <2>1, InsertVersionNumbers
    <3>3. QED BY <2>4, <3>1, <3>2 DEF Kept
  <2>9. ASSUME NEW o \in Requests, FreeNumber(o)'
        PROVE  o # q /\ req[o].k \in Keys /\ req[o].k # k /\ FreeNumber(o)
    <3>1. o # q /\ req'[o].at = "version" /\ req[o].at = "version" BY <2>3, <2>9 DEF FreeNumber
    <3>2. PICK j \in Keys : j = req[o].k BY <2>5, <3>1
    <3>3. req[o].version \notin Numbers(j)' BY <2>3, <2>9, <3>2 DEF FreeNumber, Numbers
    <3>4. j # k
      <4>1. ASSUME j = k PROVE req[o].version \in 1..req[q].version
        <5>1. req[o].version \in 1..(Last(k) + 1) BY <3>1, <3>2, <4>1 DEF Numbering, NextNumber
        <5>2. req[q].version = Last(k) + 1 BY <1>3, <2>1, InsertVersionNumbers
        <5>3. QED BY <5>1, <5>2
      <4>2. QED BY <2>7, <3>3, <4>1
    <3>5. QED BY <2>6, <3>1, <3>2, <3>3, <3>4 DEF FreeNumber
  <2>10. Trying' BY <2>2, <2>3, <2>4 DEF Trying
  <2>11. Fresh'
    <3>1. ASSUME NEW p \in Requests, ~req'[p].dirty, req'[p].at \in {"update", "version"}
          PROVE  req'[p].seen = row'[req'[p].k]
      BY <2>3, <2>4, <3>1 DEF Serving, Fresh
    <3>2. ASSUME NEW p \in Requests, ~req'[p].dirty, req'[p].at = "publish"
          PROVE  Kept(req[p].k)'
      <4>1. PICK j \in Keys : j = req[p].k /\ j = req'[p].k BY <2>3, <2>5, <3>2
      <4>2. CASE p = q
        <5>1. req[q].seen = row[k] BY <2>1, <2>2, <2>3, <3>2, <4>2 DEF Serving, Fresh
        <5>2. Kept(k)' BY <2>8, <5>1
        <5>3. QED BY <2>1, <4>1, <4>2, <5>2 DEF Kept, Last, Numbers
      <4>3. CASE p # q
        <5>1. j # k /\ Kept(j) BY <2>3, <3>2, <4>1, <4>3 DEF Serving, Fresh
        <5>2. Kept(j)' BY <2>6, <5>1
        <5>3. QED BY <4>1, <5>2 DEF Kept, Last, Numbers
      <4>4. QED BY <4>2, <4>3
    <3>3. QED BY <3>1, <3>2 DEF Fresh
  <2>12. Agreeing'
    <3>1. ASSUME NEW p \in Requests, NEW o \in Requests, FreeNumber(o)',
                 req'[p].at = "publish", ~req'[p].dirty, req'[p].k = req'[o].k
          PROVE  req'[o].seen.content = row'[req'[o].k].content
      <4>1. p # q /\ req[p].k = req[o].k BY <2>1, <2>3, <2>9, <3>1
      <4>2. FreeNumber(o) /\ req[p].at = "publish" /\ ~req[p].dirty BY <2>3, <2>9, <3>1, <4>1
      <4>3. req[o].seen.content = row[req[o].k].content BY <4>1, <4>2 DEF Serving, Agreeing
      <4>4. QED BY <2>3, <2>4, <4>3
    <3>2. QED BY <3>1 DEF Agreeing
  <2>13. ASSUME NEW j \in Keys, Served(j)' PROVE Kept(j)'
    <3>1. Served(j) BY <2>4, <2>13 DEF Served
    <3>2. CASE j = k
      <4>1. req[q].seen.content = row[k].content BY <2>1, <2>2, <3>1, <3>2 DEF Serving
      <4>2. QED BY <2>8, <3>2, <4>1
    <3>3. CASE j # k BY <2>6, <3>1, <3>3 DEF Serving
    <3>4. QED BY <3>2, <3>3
  <2>14. ASSUME NEW o \in Requests, FreeNumber(o)', Served(req[o].k)'
         PROVE  req'[o].seen.content = row'[req'[o].k].content
    <3>1. FreeNumber(o) /\ Served(req[o].k) BY <2>3, <2>4, <2>9, <2>14 DEF Served
    <3>2. req[o].seen.content = row[req[o].k].content BY <3>1 DEF Serving
    <3>3. QED BY <2>3, <2>4, <3>2
  <2>15. Numbering' BY InsertVersionNumbering
  <2>16. QED BY <1>1, <2>10, <2>11, <2>12, <2>13, <2>14, <2>15 DEF Serving
<1>4. QED BY <1>2, <1>3

(* Publishing the row shows the version inserted last, or marks the key.   *)
LEMMA SetPublishedInv ==
  ASSUME SpecialistInv, NEW q \in Requests, SetPublished(q)
  PROVE  SpecialistInv'
<1> USE DEF SpecialistInv
<1>1. Base' BY SetPublishedBase
<1>2. PICK k \in Keys : k = req[q].k /\ k \in Rows /\ row[k] \in RowType
  BY DEF SetPublished, Base, Typed, Grounded, Rows
<1>3. req[q].at = "publish" BY DEF SetPublished
<1>4. /\ row'[k].source = row[k].source /\ row'[k].content = row[k].content
      /\ \A j \in Keys \ {k} : row'[j] = row[j]
  <2>1. row' = [row EXCEPT ![k] = [row[k] EXCEPT !.status = "PUBLISHED", !.enabled = TRUE]]
    BY <1>2 DEF SetPublished, Base, Typed
  <2>2. QED BY <1>2, <2>1 DEF Base, Typed, RowType
<1>5. /\ req'[q].at = "idle"
      /\ \A p \in Requests \ {q} :
           /\ req'[p].at = req[p].at /\ req'[p].k = req[p].k
           /\ req'[p].seen = req[p].seen /\ req'[p].version = req[p].version
           /\ req'[p].dirty = (req[p].dirty \/ req[p].k = k)
  <2>1. req \in [Requests -> ReqType] BY DEF Base, Typed
  <2>2. req' = [Soil(req, k, q) EXCEPT ![q] = Idle] BY <1>2 DEF SetPublished
  <2>3. ASSUME NEW p \in Requests, p # q
        PROVE  /\ req'[p].at = req[p].at /\ req'[p].k = req[p].k
               /\ req'[p].seen = req[p].seen /\ req'[p].version = req[p].version
               /\ req'[p].dirty = (req[p].dirty \/ req[p].k = k)
    <3>1. req'[p] = Soil(req, k, q)[p] BY <2>1, <2>2, <2>3, SoilFacts
    <3>2. QED BY <2>1, <2>3, <3>1, SoilFacts
  <2>4. req'[q].at = "idle" BY <2>1, <2>2, SoilFacts DEF Idle
  <2>5. QED BY <2>3, <2>4, Zenon
<1>6. versions' = versions /\ tried' = tried BY DEF SetPublished
<1>7. /\ \A j \in Keys \ {k} : j \in loose' <=> j \in loose
      /\ k \notin loose' => ~req[q].dirty
  BY <1>2 DEF SetPublished
<1>8. \A p \in Requests : req'[p].at # "idle" =>
        p # q /\ req[p].k \in Keys /\ req'[p].k = req[p].k /\ req[p].at = req'[p].at
  BY <1>5 DEF Base, Grounded, Rows
<1>9. \A j \in Keys : Numbers(j)' = Numbers(j) /\ (Kept(j)' <=> Kept(j))
  BY <1>4, <1>6 DEF Numbers, Kept, Last
<1>10. ASSUME NEW o \in Requests, FreeNumber(o)' PROVE o # q /\ req'[o].at # "idle" /\ FreeNumber(o)
  <2>1. req'[o].at = "version" /\ o # q BY <1>5, <1>10 DEF FreeNumber
  <2>2. QED BY <1>5, <1>6, <1>10, <2>1 DEF FreeNumber, Numbers
<1>11. Numbering' BY <1>5, <1>6, SameNumbering
<1>12. Trying'
  <2>1. ASSUME NEW j \in Keys, row'[j].source = "CUSTOM", row'[j].tested \/ row'[j].status = "PUBLISHED"
        PROVE  j \in tried'
    BY <1>2, <1>3, <1>4, <1>6, <2>1 DEF Trying
  <2>2. ASSUME NEW p \in Requests, req'[p].at \in {"version", "publish"},
               row'[req'[p].k].source = "CUSTOM"
        PROVE  req'[p].k \in tried'
    <3>1. PICK j \in Keys : j = req[p].k /\ j = req'[p].k BY <1>8, <2>2
    <3>2. row[j].source = "CUSTOM" BY <1>4, <2>2, <3>1
    <3>3. req[p].at \in {"version", "publish"} BY <1>8, <2>2
    <3>4. QED BY <1>6, <3>1, <3>2, <3>3 DEF Trying
  <2>3. QED BY <2>1, <2>2 DEF Trying
<1>13. Fresh'
  <2>1. ASSUME NEW p \in Requests, ~req'[p].dirty, req'[p].at \in {"update", "version"}
        PROVE  req'[p].seen = row'[req'[p].k]
    <3>1. PICK j \in Keys : j = req[p].k /\ j # k /\ j = req'[p].k BY <1>5, <1>8, <2>1
    <3>2. req[p].at \in {"update", "version"} /\ ~req[p].dirty /\ req'[p].seen = req[p].seen
      BY <1>5, <1>8, <2>1
    <3>3. req[p].seen = row[req[p].k] BY <3>2 DEF Serving, Fresh
    <3>4. row'[j] = row[j] BY <1>4, <3>1
    <3>5. QED BY <3>1, <3>2, <3>3, <3>4, Zenon
  <2>2. ASSUME NEW p \in Requests, ~req'[p].dirty, req'[p].at = "publish"
        PROVE  Kept(req[p].k)'
    <3>1. PICK j \in Keys : j = req[p].k /\ j = req'[p].k BY <1>8, <2>2
    <3>2. req[p].at = "publish" /\ ~req[p].dirty BY <1>5, <1>8, <2>2
    <3>3. Kept(j) BY <3>1, <3>2 DEF Serving, Fresh
    <3>4. Kept(j)' BY <1>9, <3>3
    <3>5. QED BY <3>1, <3>4 DEF Kept, Last, Numbers
  <2>3. QED BY <2>1, <2>2 DEF Fresh
<1>14. Agreeing'
  <2>1. ASSUME NEW p \in Requests, NEW o \in Requests, FreeNumber(o)',
               req'[p].at = "publish", ~req'[p].dirty, req'[p].k = req'[o].k
        PROVE  req'[o].seen.content = row'[req'[o].k].content
    <3>1. PICK j \in Keys : j = req[o].k /\ j = req[p].k /\ j # k BY <1>5, <1>8, <1>10, <2>1
    <3>2. FreeNumber(o) /\ req[p].at = "publish" /\ ~req[p].dirty BY <1>5, <1>8, <1>10, <2>1
    <3>3. req[o].seen.content = row[j].content BY <3>1, <3>2 DEF Serving, Agreeing
    <3>4. row'[j] = row[j] BY <1>4, <3>1
    <3>5. req'[o].k = j /\ req'[o].seen = req[o].seen BY <1>5, <1>10, <2>1, <3>1
    <3>6. QED BY <3>3, <3>4, <3>5, Zenon
  <2>2. QED BY <2>1 DEF Agreeing
<1>15. ASSUME NEW j \in Keys, Served(j)' PROVE Kept(j)'
  <2>1. CASE j = k
    <3>1. ~req[q].dirty BY <1>7, <1>15, <2>1 DEF Served
    <3>2. Kept(k) BY <1>2, <1>3, <3>1 DEF Serving, Fresh
    <3>3. QED BY <1>9, <2>1, <3>2
  <2>2. CASE j # k
    <3>1. Served(j) BY <1>4, <1>7, <1>15, <2>2 DEF Served
    <3>2. QED BY <1>9, <3>1 DEF Serving
  <2>3. QED BY <2>1, <2>2
<1>16. ASSUME NEW o \in Requests, FreeNumber(o)', Served(req[o].k)'
       PROVE  req'[o].seen.content = row'[req'[o].k].content
  <2>1. PICK j \in Keys : j = req[o].k /\ j = req'[o].k BY <1>8, <1>10, <1>16
  <2>2. Served(j)' /\ FreeNumber(o) BY <1>10, <1>16, <2>1 DEF Served
  <2>3. req[o].seen.content = row[j].content
    <3>1. CASE j = k
      <4>1. ~req[q].dirty BY <1>7, <2>2, <3>1 DEF Served
      <4>2. QED BY <1>2, <1>3, <2>1, <2>2, <3>1, <4>1 DEF Serving, Agreeing
    <3>2. CASE j # k
      <4>1. Served(j) BY <1>4, <1>7, <2>2, <3>2 DEF Served
      <4>2. QED BY <2>1, <2>2, <4>1 DEF Serving
    <3>3. QED BY <3>1, <3>2
  <2>4. row'[j].content = row[j].content BY <1>4
  <2>5. req'[o].seen = req[o].seen BY <1>5, <1>10, <1>16
  <2>6. QED BY <2>1, <2>3, <2>4, <2>5, Zenon
<1>17. QED BY <1>1, <1>11, <1>12, <1>13, <1>14, <1>15, <1>16 DEF Serving

-----------------------------------------------------------------------------
LEMMA InitInv == Init => SpecialistInv
<1> SUFFICES ASSUME Init PROVE SpecialistInv OBVIOUS
<1>1. \A q \in Requests : req[q].at = "idle" /\ req[q] = Idle BY DEF Init, Idle
<1>2. \A k \in Keys : versions[k] = {} /\ row[k].source = "none" BY DEF Init, NoRow
<1>3. Numbering
  <2>1. ASSUME NEW k \in Keys PROVE Numbered(k)
    <3>1. Last(k) = 0 /\ Numbers(k) = {} BY <1>2 DEF Last, Numbers
    <3>2. IsFiniteSet(versions[k]) /\ Cardinality(versions[k]) = 0 BY <1>2, FS_EmptySet
    <3>3. QED BY <3>1, <3>2 DEF Numbered
  <2>2. QED BY <1>1, <2>1 DEF Numbering, NextNumber
<1>4. Trying BY <1>1, <1>2 DEF Trying
<1>5. Serving BY <1>1, <1>2 DEF Serving, Fresh, Agreeing, Served, FreeNumber
<1>6. QED BY <1>3, <1>4, <1>5, InitBase DEF SpecialistInv

LEMMA NextInv == SpecialistInv /\ [Next]_vars => SpecialistInv'
<1> SUFFICES ASSUME SpecialistInv, [Next]_vars PROVE SpecialistInv' OBVIOUS
<1>1. ASSUME NEW k \in Keys, NEW c \in Contents, Create(k, c) \/ RegisterBuiltin(k, c) PROVE SpecialistInv'
  BY <1>1, CreateInv, RegisterBuiltinInv
<1>2. ASSUME NEW k \in Keys, NEW copy \in Keys, Clone(k, copy) PROVE SpecialistInv'
  BY <1>2, CloneInv
<1>3. ASSUME NEW q \in Requests, NEW k \in Keys, NEW edit \in Edits, ReadForUpdate(q, k, edit)
      PROVE SpecialistInv'
  BY <1>3, ReadForUpdateInv
<1>4. ASSUME NEW q \in Requests, NEW k \in Keys, ReadForPublish(q, k) PROVE SpecialistInv'
  BY <1>4, ReadForPublishInv
<1>5. ASSUME NEW q \in Requests, WriteUpdate(q) \/ InsertVersion(q) \/ SetPublished(q) \/ Crash(q)
      PROVE SpecialistInv'
  BY <1>5, WriteUpdateInv, InsertVersionInv, SetPublishedInv, CrashInv
<1>6. ASSUME NEW k \in Keys, NEW v \in versions[k], Rollback(k, v) PROVE SpecialistInv'
  BY <1>6, RollbackInv
<1>7. ASSUME NEW k \in Keys, Archive(k) \/ DryRun(k) PROVE SpecialistInv'
  BY <1>7, ArchiveInv, DryRunInv
<1>8. CASE UNCHANGED vars
  <2> USE <1>8 DEF vars, SpecialistInv
  <2>1. Base' BY DEF Base, Typed, Grounded, Rows
  <2>2. Numbering' BY DEF Numbering, NextNumber, Numbered, Numbers, Last
  <2>3. Trying' BY DEF Trying
  <2>4. Serving' BY DEF Serving, Fresh, Agreeing, Served, Kept, FreeNumber, Numbers, Last
  <2>5. QED BY <2>1, <2>2, <2>3, <2>4
<1>9. QED BY <1>1, <1>2, <1>3, <1>4, <1>5, <1>6, <1>7, <1>8 DEF Next

(* Specialist rows and versions always have their types, in whatever way   *)
(* the handlers of SpecialistsService overlap.                             *)
THEOREM TypeCorrect == Spec => []TypeOK
<1>1. SpecialistInv => TypeOK
  BY DEF SpecialistInv, Base, Typed, TypeOK, Rows, RowType, VersionType
<1>2. QED BY InitInv, NextInv, <1>1, PTL DEF Spec

(* However publishes overlap or stop half-way, the versions of a           *)
(* specialist are numbered 1, 2, 3 ... without a gap or a repetition.      *)
THEOREM VersionNumbers == Spec => []VersionsNumbered
<1>1. SpecialistInv => VersionsNumbered
  BY DEF SpecialistInv, Numbering, Numbered, VersionsNumbered
<1>2. QED BY InitInv, NextInv, <1>1, PTL DEF Spec

(* The catalog never serves a custom specialist that was not itself        *)
(* dry-run, though clone and rollback copy what others were tried with.    *)
THEOREM TriedBeforeServed == Spec => []ServedWasTried
<1>1. SpecialistInv => ServedWasTried
  BY DEF SpecialistInv, Trying, ServedWasTried, InCatalog
<1>2. QED BY InitInv, NextInv, <1>1, PTL DEF Spec

(* Unless a publish or an edit was overlapped, or an edit also set         *)
(* "enabled", the catalog serves the version that was published last.      *)
THEOREM CatalogServesLast == Spec => []ServesLastVersion
<1>1. SpecialistInv => ServesLastVersion
  BY DEF SpecialistInv, Serving, Served, Kept, ServesLastVersion, InCatalog
<1>2. QED BY InitInv, NextInv, <1>1, PTL DEF Spec
=============================================================================
