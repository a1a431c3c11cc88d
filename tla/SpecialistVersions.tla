------------------------- MODULE SpecialistVersions -------------------------
(***************************************************************************)
(* The specialists (SpecialistsService): template rows that platform       *)
(* admins edit, dry-run, publish, roll back and archive, the numbered      *)
(* versions that publishing keeps, and the catalog that serves them.       *)
(*                                                                         *)
(* The catalog serves the template row and not a version, so what is       *)
(* served is what was published only as far as the handlers keep the two   *)
(* together.  update and publish read the row and write it one or two      *)
(* statements later; the other handlers write a row that is never deleted  *)
(* without regard to what they read, and are one step each.                *)
(***************************************************************************)
EXTENDS Naturals, FiniteSets, FiniteSetsExt

CONSTANTS
  Keys,      (* the specialists' keys                                       *)
  Contents,  (* what name, instructions, triggers, model ... may say        *)
  Keep,      (* a field a patch does not mention                            *)
  Overlap,   (* bound: updates and publishes in progress at once            *)
  MaxOps     (* bound: requests altogether                                  *)

ASSUME SpecialistAssumption == Keep \notin Contents /\ Overlap \in Nat /\ MaxOps \in Nat

VARIABLES
  row,       (* the SpecialistTemplate rows                                 *)
  versions,  (* versions[k]: the SpecialistVersion rows of k                *)
  req,       (* req[q]: the update or publish under way in place q          *)
  ops,
  tried,     (* history: the keys whose row has itself been dry-run         *)
  loose      (* history: keys published, or edited while published, with    *)
             (* another write in between, or edited together with "enabled" *)

vars == <<row, versions, req, ops, tried, loose>>

NoRow == [source |-> "none", status |-> "none", enabled |-> FALSE, content |-> Keep, tested |-> FALSE]
Idle  == [at |-> "idle", k |-> "none", seen |-> NoRow, version |-> 0,
          edit |-> [content |-> Keep, enabled |-> Keep], dirty |-> FALSE]
Requests == 1..Overlap
Rows == {k \in Keys : row[k] # NoRow}
Numbers(k) == {v.version : v \in versions[k]}
Last(k) == IF versions[k] = {} THEN 0 ELSE Max(Numbers(k))

Init ==
  /\ row = [k \in Keys |-> NoRow]
  /\ versions = [k \in Keys |-> {}]
  /\ req = [q \in Requests |-> Idle]
  /\ ops = 0 /\ tried = {} /\ loose = {}

TypeOK ==
  /\ \A k \in Rows : /\ row[k].source \in {"CUSTOM", "CODE"}
                     /\ row[k].status \in {"DRAFT", "PUBLISHED", "ARCHIVED"}
                     /\ row[k].content \in Contents
                     /\ row[k].enabled \in BOOLEAN /\ row[k].tested \in BOOLEAN
  /\ \A k \in Keys : versions[k] \subseteq [version : Nat \ {0}, content : Contents]
  /\ tried \subseteq Keys /\ loose \subseteq Keys

-----------------------------------------------------------------------------
CountOp == ops < MaxOps /\ ops' = ops + 1
Free(q) == req[q] = Idle /\ \A p \in 1..(q - 1) : req[p] # Idle

(* Whoever else has read k now works with an outdated row.                 *)
Soil(rs, k, q) == [p \in Requests |-> IF p # q /\ rs[p].k = k THEN [rs[p] EXCEPT !.dirty = TRUE] ELSE rs[p]]
WriteRow(k, new) == /\ row' = [row EXCEPT ![k] = new]
                    /\ req' = Soil(req, k, 0)

(* create and clone: a key that does not exist yet.                        *)
Create(k, c) ==
  /\ CountOp /\ k \notin Rows
  /\ WriteRow(k, [source |-> "CUSTOM", status |-> "DRAFT", enabled |-> TRUE, content |-> c, tested |-> FALSE])
  /\ UNCHANGED <<versions, tried, loose>>

(* Mutation of Clone: the copy inherits lastDryRunAt.                      *)
CloneWhole(k, copy) ==
  /\ CountOp /\ k \in Rows /\ copy \notin Rows
  /\ WriteRow(copy, [row[k] EXCEPT !.source = "CUSTOM", !.status = "DRAFT", !.enabled = FALSE])
  /\ UNCHANGED <<versions, tried, loose>>

Clone(k, copy) ==
  /\ CountOp /\ k \in Rows /\ copy \notin Rows
  /\ WriteRow(copy, [source |-> "CUSTOM", status |-> "DRAFT", enabled |-> FALSE,
                     content |-> row[k].content, tested |-> FALSE])
  /\ UNCHANGED <<versions, tried, loose>>

-----------------------------------------------------------------------------
(* update: a CODE specialist is read-only except for "enabled" ...         *)
ReadForUpdate(q, k, edit) ==
  /\ CountOp /\ Free(q) /\ k \in Rows
  /\ row[k].source = "CODE" => edit.content = Keep
  /\ req' = [req EXCEPT ![q] = [Idle EXCEPT !.at = "update", !.k = k, !.seen = row[k], !.edit = edit]]
  /\ UNCHANGED <<row, versions, tried, loose>>

Patched(r, edit) == [r EXCEPT !.content = IF edit.content = Keep THEN @ ELSE edit.content,
                              !.enabled = IF edit.enabled = Keep THEN @ ELSE edit.enabled]

(* Mutation of WriteUpdate: a published specialist stays published.        *)
WriteUpdatePublished(q) ==
  LET r == req[q]  new == Patched(row[r.k], r.edit) IN
  /\ r.at = "update"
  /\ row' = [row EXCEPT ![r.k] = new]
  /\ req' = [Soil(req, r.k, q) EXCEPT ![q] = Idle]
  /\ loose' = IF r.edit.content # Keep /\ (r.edit.enabled # Keep \/ r.dirty) THEN loose \cup {r.k} ELSE loose
  /\ UNCHANGED <<versions, ops, tried>>

(* ... and the edit of a published one makes it a draft again, going by    *)
(* the row that was read, and unless the patch mentions "enabled".         *)
WriteUpdate(q) ==
  LET r == req[q]  new == Patched(row[r.k], r.edit) IN
  /\ r.at = "update"
  /\ row' = [row EXCEPT ![r.k] =
       IF r.seen.source = "CUSTOM" /\ r.seen.status = "PUBLISHED" /\ r.edit.enabled = Keep
       THEN [new EXCEPT !.status = "DRAFT"] ELSE new]
  /\ req' = [Soil(req, r.k, q) EXCEPT ![q] = Idle]
  /\ loose' = IF r.edit.content # Keep /\ (r.edit.enabled # Keep \/ r.dirty) THEN loose \cup {r.k} ELSE loose
  /\ UNCHANGED <<versions, ops, tried>>

(* publish: the row, with its last version, after a dry run ...            *)
ReadForPublish(q, k) ==
  /\ CountOp /\ Free(q) /\ k \in Rows /\ row[k].tested
  /\ req' = [req EXCEPT ![q] = [Idle EXCEPT !.at = "version", !.k = k, !.seen = row[k], !.version = Last(k) + 1]]
  /\ UNCHANGED <<row, versions, tried, loose>>

(* Mutation of InsertVersion: no unique (specialistId, version).           *)
InsertVersionAnyway(q) ==
  LET r == req[q] IN
  /\ r.at = "version"
  /\ versions' = [versions EXCEPT ![r.k] = @ \cup {[version |-> r.version, content |-> r.seen.content]}]
  /\ req' = [Soil(req, r.k, q) EXCEPT ![q].at = "publish"]
  /\ UNCHANGED <<row, ops, tried, loose>>

(* ... its content is kept under the next number, which must be free ...   *)
InsertVersion(q) ==
  LET r == req[q] IN
  /\ r.at = "version"
  /\ IF r.version \in Numbers(r.k) THEN req' = [req EXCEPT ![q] = Idle] /\ UNCHANGED versions
     ELSE /\ versions' = [versions EXCEPT ![r.k] = @ \cup {[version |-> r.version, content |-> r.seen.content]}]
          /\ req' = [Soil(req, r.k, q) EXCEPT ![q].at = "publish"]
  /\ UNCHANGED <<row, ops, tried, loose>>

(* ... and the row, whatever it holds by now, is published.                *)
SetPublished(q) ==
  LET r == req[q] IN
  /\ r.at = "publish"
  /\ row' = [row EXCEPT ![r.k].status = "PUBLISHED", ![r.k].enabled = TRUE]
  /\ req' = [Soil(req, r.k, q) EXCEPT ![q] = Idle]
  /\ loose' = IF r.dirty THEN loose \cup {r.k} ELSE loose \ {r.k}
  /\ UNCHANGED <<versions, ops, tried>>

-----------------------------------------------------------------------------
(* rollback writes a version over the row, as a draft, CODE or not.        *)
Rollback(k, v) ==
  /\ CountOp /\ v \in versions[k]
  /\ WriteRow(k, [row[k] EXCEPT !.content = v.content, !.status = "DRAFT"])
  /\ UNCHANGED <<versions, tried, loose>>

Archive(k) ==
  /\ CountOp /\ k \in Rows
  /\ WriteRow(k, [row[k] EXCEPT !.status = "ARCHIVED", !.enabled = FALSE])
  /\ UNCHANGED <<versions, tried, loose>>

(* dryRun notes that there was one, also when the model was skipped (no    *)
(* API key) or failed: its error is an output like any other.              *)
DryRun(k) ==
  /\ CountOp /\ k \in Rows
  /\ WriteRow(k, [row[k] EXCEPT !.tested = TRUE])
  /\ tried' = tried \cup {k}
  /\ UNCHANGED <<versions, loose>>

(* registerBuiltins: the upsert of one item.                               *)
RegisterBuiltin(k, c) ==
  /\ CountOp
  /\ WriteRow(k, IF k \in Rows
                 THEN [row[k] EXCEPT !.content = c, !.source = "CODE", !.status = "PUBLISHED"]
                 ELSE [source |-> "CODE", status |-> "PUBLISHED", enabled |-> TRUE, content |-> c, tested |-> TRUE])
  /\ UNCHANGED <<versions, tried, loose>>

(* The process stops, or a statement is refused.                           *)
Crash(q) ==
  /\ req[q] # Idle
  /\ req' = [req EXCEPT ![q] = Idle]
  /\ UNCHANGED <<row, versions, ops, tried, loose>>

Edits == [content : Contents \cup {Keep}, enabled : BOOLEAN \cup {Keep}]

Next ==
  \/ \E k \in Keys, c \in Contents : Create(k, c) \/ RegisterBuiltin(k, c)
  \/ \E k, copy \in Keys : Clone(k, copy)
  \/ \E q \in Requests, k \in Keys : \/ \E edit \in Edits : ReadForUpdate(q, k, edit)
                                     \/ ReadForPublish(q, k)
  \/ \E q \in Requests : WriteUpdate(q) \/ InsertVersion(q) \/ SetPublished(q) \/ Crash(q)
  \/ \E k \in Keys : \/ \E v \in versions[k] : Rollback(k, v)
                     \/ Archive(k) \/ DryRun(k)

Spec == Init /\ [][Next]_vars

-----------------------------------------------------------------------------
(* catalog.                                                                *)
InCatalog(k) == row[k].enabled /\ (row[k].status = "PUBLISHED" \/ row[k].source = "CODE")

(* What the catalog serves of a custom specialist is the version published *)
(* last, unless the row was written while it was being published, edited   *)
(* on the ground of an outdated read, or edited together with "enabled".   *)
ServesLastVersion ==
  \A k \in Keys : InCatalog(k) /\ row[k].source = "CUSTOM" /\ k \notin loose =>
    [version |-> Last(k), content |-> row[k].content] \in versions[k]

(* However publishes overlap or stop half-way, the versions of a           *)
(* specialist are numbered without gaps and no number is given twice.      *)
VersionsNumbered ==
  \A k \in Keys : /\ Numbers(k) = 1..Last(k)
                  /\ Cardinality(versions[k]) = Last(k)

(* No custom specialist is served that was not itself dry-run, wherever    *)
(* its content was copied from.                                            *)
ServedWasTried ==
  \A k \in Keys : InCatalog(k) /\ row[k].source = "CUSTOM" => k \in tried
=============================================================================
