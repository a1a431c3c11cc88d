--------------------------- MODULE RefreshTokens ---------------------------
(***************************************************************************)
(* The refresh tokens of one user in one tenant: rotation, reuse           *)
(* detection, logout, and removal of the member (AuthService,              *)
(* MembersService.remove).  Handlers are sequences of autocommitted        *)
(* statements, as in TenantSeats.                                          *)
(*                                                                         *)
(* What entitles the user to a session is the four rows the handlers look  *)
(* at: the user, the tenant, its subscription and the membership.  "off"   *)
(* holds those that currently deny access.                                 *)
(***************************************************************************)
EXTENDS Naturals, Sequences, FiniteSets

CONSTANTS Tokens,    (* rows of RefreshToken; bounds how many are issued    *)
          Requests,  (* handlers that can be in flight at once              *)
          Volatile   (* the rows that change while these tokens are in use  *)

Rows == {"user", "tenant", "subscription", "membership"}

ASSUME VolatileAssumption == Volatile \subseteq Rows

VARIABLES
  token,     (* token[t]: "none", "live" or "revoked"                       *)
  family,    (* family[t]: the token whose issue began t's family           *)
  expired,   (* tokens whose expiresAt has passed                           *)
  off,       (* the rows that deny access                                   *)
  pc, loc,   (* the requests in flight: next statement and what they hold   *)
  denied,    (* history: rows that have denied access ever since r began    *)
  forked,    (* history: families refreshed twice at once, or whose refresh *)
             (* died between issuing the new token and retiring the old one *)
  dead       (* history: families revoked with no refresh of them in flight *)

db   == <<token, family, expired, off>>
vars == <<token, family, expired, off, pc, loc, denied, forked, dead>>

(***************************************************************************)
(* The rows each flow reads before it issues tokens, one statement each.   *)
(***************************************************************************)
Checks == [refresh |-> << {"user"}, {"tenant"}, {"subscription"}, {"membership"} >>,
           login   |-> << {"tenant"}, {"user"}, {"membership"}, {"subscription"} >>,
           session |-> << {"membership", "user"}, {"tenant"}, {"subscription"} >>]

NoToken == "none"
Issued  == {t \in Tokens : token[t] # "none"}
Live    == {t \in Tokens : token[t] = "live"}
Family(f) == {t \in Issued : family[t] = f}

Blank  == [op |-> "idle", token |-> NoToken, n |-> 0]
Locals == [op : DOMAIN Checks \cup {"idle", "logout", "remove"},
           token : Tokens \cup {NoToken}, n : 0..4]
Steps  == {"idle", "check", "issue", "retire", "wipe", "wipeAll"}

TypeOK ==
  /\ token \in [Tokens -> {"none", "live", "revoked"}]
  /\ family \in [Tokens -> Tokens]
  /\ expired \subseteq Issued
  /\ off \subseteq Rows
  /\ pc \in [Requests -> Steps]
  /\ loc \in [Requests -> Locals]
  /\ denied \in [Requests -> SUBSET Rows]
  /\ forked \subseteq Tokens /\ dead \subseteq Tokens

Init ==
  /\ token = [t \in Tokens |-> "none"]
  /\ family = [t \in Tokens |-> t]
  /\ expired = {}
  /\ off = {}
  /\ pc = [r \in Requests |-> "idle"]
  /\ loc = [r \in Requests |-> Blank]
  /\ denied = [r \in Requests |-> {}]
  /\ forked = {} /\ dead = {}

Go(r, step, locals) == /\ pc' = [pc EXCEPT ![r] = step]
                       /\ loc' = [loc EXCEPT ![r] = locals]
Done(r) == Go(r, "idle", Blank) /\ denied' = [denied EXCEPT ![r] = {}]
Begin(r, step, locals) == /\ pc[r] = "idle"
                          /\ Go(r, step, locals)
                          /\ denied' = [denied EXCEPT ![r] = off]

(* Refreshes of family f that have read a live token and may still issue.  *)
Refreshing(f) == {r \in Requests : /\ loc[r].op = "refresh"
                                   /\ pc[r] \in {"check", "issue", "retire"}
                                   /\ family[loc[r].token] = f}

Revoke(ts) == token' = [t \in Tokens |-> IF t \in ts \cap Live THEN "revoked" ELSE token[t]]

-----------------------------------------------------------------------------
(* AuthService.refresh.                                                    *)

RefreshLookup(r) ==
  /\ \E t \in Issued :
       \/ /\ token[t] = "revoked"
          /\ Begin(r, "wipe", [op |-> "refresh", token |-> t, n |-> 0])
          /\ UNCHANGED forked
       \/ /\ token[t] = "live" /\ t \notin expired
          /\ Begin(r, "check", [op |-> "refresh", token |-> t, n |-> 1])
          /\ forked' = forked \cup (IF Refreshing(family[t]) = {} THEN {} ELSE {family[t]})
  /\ UNCHANGED <<db, dead>>

(* AuthService.login (after the password) and issueSessionForMembership    *)
(* (after an invitation was accepted).                                     *)
SignIn(r) ==
  /\ \E op \in {"login", "session"} : Begin(r, "check", [op |-> op, token |-> NoToken, n |-> 1])
  /\ UNCHANGED <<db, forked, dead>>

(* Mutation of Check: the membership is not looked at.                     *)
CheckLax(r) ==
  LET l == loc[r] IN
  /\ pc[r] = "check"
  /\ IF Checks[l.op][l.n] \cap (off \ {"membership"}) = {}
     THEN /\ IF l.n = Len(Checks[l.op]) THEN Go(r, "issue", l)
             ELSE Go(r, "check", [l EXCEPT !.n = @ + 1])
          /\ UNCHANGED denied
     ELSE Done(r)
  /\ UNCHANGED <<db, forked, dead>>

Check(r) ==
  LET l == loc[r] IN
  /\ pc[r] = "check"
  /\ IF Checks[l.op][l.n] \cap off = {}
     THEN /\ IF l.n = Len(Checks[l.op]) THEN Go(r, "issue", l)
             ELSE Go(r, "check", [l EXCEPT !.n = @ + 1])
          /\ UNCHANGED denied
     ELSE IF l.op = "refresh" /\ Checks[l.op][l.n] = {"membership"}
          THEN Go(r, "wipe", l) /\ UNCHANGED denied
          ELSE Done(r)
  /\ UNCHANGED <<db, forked, dead>>

IssueTokens(r) ==
  /\ pc[r] = "issue"
  /\ \E t \in Tokens \ Issued :
       /\ token' = [token EXCEPT ![t] = "live"]
       /\ IF loc[r].op = "refresh"
          THEN /\ family' = [family EXCEPT ![t] = family[loc[r].token]]
               /\ Go(r, "retire", loc[r])
               /\ UNCHANGED denied
          ELSE Done(r) /\ UNCHANGED family
  /\ UNCHANGED <<expired, off, forked, dead>>

(* Mutation of RetireOld: the old token stays live.                        *)
KeepOld(r) ==
  /\ pc[r] = "retire"
  /\ Done(r)
  /\ UNCHANGED <<token, family, expired, off, forked, dead>>

(* The old row is written by id, whatever has happened to it since.        *)
RetireOld(r) ==
  /\ pc[r] = "retire"
  /\ token' = [token EXCEPT ![loc[r].token] = "revoked"]
  /\ Done(r)
  /\ UNCHANGED <<family, expired, off, forked, dead>>

(* Mutation of RevokeFamily: only the token presented is revoked.          *)
RevokePresented(r) ==
  LET f == family[loc[r].token] IN
  /\ pc[r] = "wipe"
  /\ Revoke({loc[r].token})
  /\ dead' = dead \cup (IF Refreshing(f) = {} THEN {f} ELSE {})
  /\ Done(r)
  /\ UNCHANGED <<family, expired, off, forked>>

RevokeFamily(r) ==
  LET f == family[loc[r].token] IN
  /\ pc[r] = "wipe"
  /\ Revoke(Family(f))
  /\ dead' = dead \cup (IF Refreshing(f) = {} THEN {f} ELSE {})
  /\ Done(r)
  /\ UNCHANGED <<family, expired, off, forked>>

-----------------------------------------------------------------------------
(* AuthService.logout, with and without a token; MembersService.remove     *)
(* deletes the membership, then revokes the tokens.                        *)

LogoutLookup(r) ==
  /\ \E t \in Live : Begin(r, "wipe", [op |-> "logout", token |-> t, n |-> 0])
  /\ UNCHANGED <<db, forked, dead>>

LogoutAll(r) ==
  /\ Begin(r, "wipeAll", [op |-> "logout", token |-> NoToken, n |-> 0])
  /\ UNCHANGED <<db, forked, dead>>

RemoveMember(r) ==
  /\ "membership" \in Volatile \ off
  /\ Begin(r, "wipeAll", [op |-> "remove", token |-> NoToken, n |-> 0])
  /\ off' = off \cup {"membership"}
  /\ UNCHANGED <<token, family, expired, forked, dead>>

RevokeAll(r) ==
  /\ pc[r] = "wipeAll"
  /\ Revoke(Tokens)
  /\ dead' = dead \cup {family[t] : t \in {u \in Issued : Refreshing(family[u]) = {}}}
  /\ Done(r)
  /\ UNCHANGED <<family, expired, off, forked>>

-----------------------------------------------------------------------------
(* Rows change hands: the tenant is suspended or reactivated, the user     *)
(* deactivated, the subscription lapses, the member is invited again.      *)
AccessChanges ==
  /\ \E x \in Volatile : \/ x \in off /\ off' = off \ {x}
                         \/ x \notin off /\ x # "membership" /\ off' = off \cup {x}
  /\ denied' = [r \in Requests |-> denied[r] \cap off']
  /\ UNCHANGED <<token, family, expired, pc, loc, forked, dead>>

TokenExpires ==
  /\ \E t \in Live \ expired : expired' = expired \cup {t}
  /\ UNCHANGED <<token, family, off, pc, loc, denied, forked, dead>>

Crash(r) ==
  /\ pc[r] # "idle"
  /\ forked' = forked \cup (IF pc[r] = "retire" THEN {family[loc[r].token]} ELSE {})
  /\ Done(r)
  /\ UNCHANGED <<db, dead>>

Next ==
  \/ \E r \in Requests :
       \/ RefreshLookup(r) \/ SignIn(r) \/ Check(r) \/ IssueTokens(r) \/ RetireOld(r)
       \/ RevokeFamily(r) \/ LogoutLookup(r) \/ LogoutAll(r) \/ RemoveMember(r) \/ RevokeAll(r)
       \/ Crash(r)
  \/ AccessChanges
  \/ TokenExpires

Spec == Init /\ [][Next]_vars

-----------------------------------------------------------------------------
(* Nobody gets a session from a request that was denied throughout: of the *)
(* user, tenant, subscription and membership rows, each has allowed access *)
(* at some moment since the request began.  A refresh that starts after    *)
(* the member was removed or the tenant suspended therefore fails, however *)
(* the statements of the removal and of other refreshes fall.              *)
IssuedWithAccess == \A r \in Requests : pc[r] = "issue" => denied[r] = {}

(* Rotation: a family has one live token, not counting the one a refresh   *)
(* is about to retire, unless the family was refreshed twice at once or a  *)
(* refresh died halfway.                                                   *)
OneLivePerFamily ==
  \A f \in Tokens \ forked :
    Cardinality((Family(f) \cap Live)
                  \ {loc[r].token : r \in {q \in Requests : pc[q] = "retire"}}) <= 1

(* A family revoked by reuse detection, logout or removal while no refresh *)
(* of it is in flight never has a live token again.                        *)
DeadFamilies == \A t \in Live : family[t] \notin dead
=============================================================================
