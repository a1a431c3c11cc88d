------------------------ MODULE RefreshTokensProofs -------------------------
(***************************************************************************)
(* Theorems about RefreshTokens, for any sets of tokens and requests and   *)
(* whichever rows change while the tokens are in use.                      *)
(***************************************************************************)
EXTENDS RefreshTokens, FiniteSetTheorems, TLAPS

Flows == {"refresh", "login", "session"}

(* A request in its checks has a next one; a refresh, and a revocation of  *)
(* a family, hold a row that was issued.                                   *)
Holds(step, l) ==
  /\ step \in {"check", "issue"} => l.op \in Flows
  /\ step = "check" => l.n \in 1..Len(Checks[l.op])
  /\ step = "retire" => l.op = "refresh"
  /\ step = "wipe" \/ (step # "idle" /\ l.op = "refresh") => l.token \in Issued
Held == \A r \in Requests : Holds(pc[r], loc[r])
(* The first token of a family names it, and is issued before the others.  *)
Founded ==
  /\ \A t \in Tokens : IF t \in Issued THEN family[t] \in Issued ELSE family[t] = t
  /\ dead \subseteq Issued
Base == TypeOK /\ Held /\ Founded

(* What has denied access throughout denies it now; no check that was      *)
(* passed looked at such a row.                                            *)
Passed(step, l, d) ==
  /\ step = "check" => \A i \in 1..(l.n - 1) : Checks[l.op][i] \cap d = {}
  /\ step = "issue" => d = {}
Denials == \A r \in Requests : denied[r] \subseteq off /\ Passed(pc[r], loc[r], denied[r])

(* A dead family has neither a live token nor a refresh that may make one. *)
RefreshAt(step, l) == l.op = "refresh" /\ step \in {"check", "issue", "retire"}
Refreshes(r) == RefreshAt(pc[r], loc[r])
FamilyOf(r) == family[loc[r].token]
Burial ==
  /\ DeadFamilies
  /\ \A r \in Requests : Refreshes(r) => FamilyOf(r) \notin dead

(* A family that was not forked has at most one refresh; until that one    *)
(* issues, the token it holds is the family's only live one; and two live  *)
(* tokens means that the older is about to be retired.                     *)
Alone ==
  \A q, r \in Requests :
    Refreshes(q) /\ Refreshes(r) /\ FamilyOf(q) = FamilyOf(r) /\ FamilyOf(r) \notin forked => q = r
OnlyToken ==
  \A r \in Requests : \A t \in Live :
    Refreshes(r) /\ pc[r] # "retire" /\ family[t] = FamilyOf(r) /\ FamilyOf(r) \notin forked
      => t = loc[r].token
Retiring(t) == \E r \in Requests : pc[r] = "retire" /\ loc[r].token = t
OneLive ==
  \A t, u \in Live : family[t] = family[u] /\ family[t] \notin forked
    => t = u \/ Retiring(t) \/ Retiring(u)
Rotation == Alone /\ OnlyToken /\ OneLive

TokenInv == Base /\ Denials /\ Burial /\ Rotation

-----------------------------------------------------------------------------
(* Each flow looks at all four rows, in at most four statements.           *)
LEMMA ChecksFacts ==
  /\ DOMAIN Checks = Flows
  /\ \A op \in Flows : Len(Checks[op]) \in 1..4 /\ 1 \in 1..Len(Checks[op])
  /\ \A op \in Flows : \A d \in SUBSET Rows :
       (\A i \in 1..Len(Checks[op]) : Checks[op][i] \cap d = {}) => d = {}
<1>1. DOMAIN Checks = Flows BY DEF Checks, Flows
<1>2. /\ Checks["refresh"] = << {"user"}, {"tenant"}, {"subscription"}, {"membership"} >>
      /\ Checks["login"] = << {"tenant"}, {"user"}, {"membership"}, {"subscription"} >>
      /\ Checks["session"] = << {"membership", "user"}, {"tenant"}, {"subscription"} >>
  BY DEF Checks
<1>3. /\ Len(Checks["refresh"]) = 4 /\ Len(Checks["login"]) = 4 /\ Len(Checks["session"]) = 3
  BY <1>2
<1>4. ASSUME NEW op \in Flows, NEW d \in SUBSET Rows,
             \A i \in 1..Len(Checks[op]) : Checks[op][i] \cap d = {}
      PROVE  d = {}
  <2>1. CASE op = "refresh"
    <3>1. /\ Checks[op][1] \cap d = {} /\ Checks[op][2] \cap d = {}
          /\ Checks[op][3] \cap d = {} /\ Checks[op][4] \cap d = {}
      BY <1>3, <1>4, <2>1
    <3>2. QED BY <1>2, <2>1, <3>1 DEF Rows
  <2>2. CASE op = "login"
    <3>1. /\ Checks[op][1] \cap d = {} /\ Checks[op][2] \cap d = {}
          /\ Checks[op][3] \cap d = {} /\ Checks[op][4] \cap d = {}
      BY <1>3, <1>4, <2>2
    <3>2. QED BY <1>2, <2>2, <3>1 DEF Rows
  <2>3. CASE op = "session"
    <3>1. /\ Checks[op][1] \cap d = {} /\ Checks[op][2] \cap d = {} /\ Checks[op][3] \cap d = {}
      BY <1>3, <1>4, <2>3
    <3>2. QED BY <1>2, <2>3, <3>1 DEF Rows
  <2>4. QED BY <2>1, <2>2, <2>3 DEF Flows
<1>5. ASSUME NEW op \in Flows PROVE Len(Checks[op]) \in 1..4 /\ 1 \in 1..Len(Checks[op])
  <2>1. PICK m \in 3..4 : Len(Checks[op]) = m BY <1>3 DEF Flows
  <2>2. m \in 1..4 /\ 1 \in 1..m OBVIOUS
  <2>3. QED BY <2>1, <2>2, Zenon
<1>6. QED BY <1>1, <1>4, <1>5

LEMMA RefreshingFacts ==
  ASSUME NEW f
  PROVE  /\ Refreshing(f) = {r \in Requests : Refreshes(r) /\ FamilyOf(r) = f}
BY DEF Refreshing, Refreshes, RefreshAt, FamilyOf

LEMMA InitInv == Init => TokenInv
<1> SUFFICES ASSUME Init PROVE TokenInv OBVIOUS
<1>1. TypeOK BY DEF Init, TypeOK, Issued, Steps, Locals, Blank, Rows
<1>2. Base BY <1>1 DEF Init, Base, Held, Holds, Founded, Issued, Blank
<1>3. Denials BY DEF Init, Denials, Passed
<1>4. Burial /\ Rotation
  BY DEF Init, Burial, DeadFamilies, Rotation, Alone, OnlyToken, OneLive, Refreshes, RefreshAt, Live
<1>5. QED BY <1>2, <1>3, <1>4 DEF TokenInv

-----------------------------------------------------------------------------
(* A request moves on; no row is taken away.                               *)
LEMMA RequestBase ==
  ASSUME Base, NEW r \in Requests, NEW step \in Steps, NEW l \in Locals, Go(r, step, l),
         token' \in [Tokens -> {"none", "live", "revoked"}], Issued' = Issued,
         family' = family, expired' = expired, off' \subseteq Rows,
         denied' \in [Requests -> SUBSET Rows],
         forked' \subseteq Tokens, dead' \subseteq Issued, Holds(step, l)
  PROVE  Base'
<1>1. TypeOK' BY DEF Base, TypeOK, Go, Issued
<1>2. Held' BY DEF Base, TypeOK, Held, Holds, Go
<1>3. Founded' BY DEF Base, Founded
<1>4. QED BY <1>1, <1>2, <1>3 DEF Base

LEMMA RequestDenials ==
  ASSUME Base, Denials, NEW r \in Requests, NEW step, NEW l, NEW d, Go(r, step, l),
         denied' = [denied EXCEPT ![r] = d], off \subseteq off', d \subseteq off', Passed(step, l, d)
  PROVE  Denials'
BY DEF Base, TypeOK, Denials, Passed, Go

LEMMA DoneBase ==
  ASSUME Base, NEW r \in Requests, Done(r),
         token' \in [Tokens -> {"none", "live", "revoked"}], Issued' = Issued,
         family' = family, expired' = expired, off' = off,
         forked' \subseteq Tokens, dead' \subseteq Issued
  PROVE  Base'
<1>1. Blank \in Locals /\ "idle" \in Steps /\ Holds("idle", Blank)
  BY DEF Blank, Locals, Steps, Holds
<1>2. Go(r, "idle", Blank) BY DEF Done
<1>3. off' \subseteq Rows /\ denied' \in [Requests -> SUBSET Rows] BY DEF Done, Base, TypeOK
<1>4. QED BY <1>1, <1>2, <1>3, RequestBase

LEMMA DoneDenials ==
  ASSUME Base, Denials, NEW r \in Requests, Done(r), off \subseteq off'
  PROVE  Denials'
BY DEF Base, TypeOK, Denials, Passed, Go, Done

(* A step that makes no token live, under which no request begins a        *)
(* refresh or goes on to retire; a request that stops retiring has retired *)
(* its token, or forks; and what is buried has no token and no refresh.    *)
LEMMA QuietRotation ==
  ASSUME Base, Burial, Rotation,
         Live' \subseteq Live, family' = family, forked \subseteq forked',
         \A q \in Requests : RefreshAt(pc'[q], loc'[q]) =>
           /\ Refreshes(q) /\ loc'[q].token = loc[q].token
           /\ (pc[q] = "retire" => pc'[q] = "retire"),
         \A q \in Requests : pc[q] = "retire" => \/ pc'[q] = "retire" /\ loc'[q].token = loc[q].token
                                                \/ loc[q].token \notin Live'
                                                \/ FamilyOf(q) \in forked',
         \A t \in Live' : family[t] \in dead' => family[t] \in dead,
         \A q \in Requests : RefreshAt(pc'[q], loc'[q]) /\ FamilyOf(q) \in dead' => FamilyOf(q) \in dead
  PROVE  Burial' /\ Rotation'
<1>2. \A q \in Requests : RefreshAt(pc'[q], loc'[q]) => family'[loc'[q].token] = family[loc[q].token]
  OBVIOUS
<1>3. Burial' BY <1>2 DEF Burial, DeadFamilies, Refreshes, FamilyOf
<1>4. Alone' BY <1>2 DEF Rotation, Alone, Refreshes, FamilyOf
<1>5. OnlyToken' BY <1>2 DEF Rotation, OnlyToken, Refreshes, FamilyOf
<1>6. ASSUME NEW t \in Live', Retiring(t), family[t] \notin forked' PROVE Retiring(t)'
  BY <1>6 DEF Retiring, FamilyOf
<1>7. OneLive' BY <1>6 DEF Rotation, OneLive
<1>8. QED BY <1>3, <1>4, <1>5, <1>7 DEF Rotation

-----------------------------------------------------------------------------
(* Requests that begin, and that look.                                     *)
LEMMA BeginInv ==
  ASSUME TokenInv, NEW r \in Requests, NEW step \in Steps, NEW l \in Locals,
         Begin(r, step, l) \/ (Go(r, step, l) /\ pc[r] = "idle" /\ denied' = [denied EXCEPT ![r] = off]),
         UNCHANGED <<token, family, expired, dead>>, off \subseteq off', off' \subseteq Rows,
         forked' = forked, Holds(step, l),
         step \in {"wipe", "wipeAll"} \/ (step = "check" /\ l.n = 1 /\ l.op # "refresh")
  PROVE  TokenInv'
<1>1. Go(r, step, l) /\ pc[r] = "idle" /\ denied' = [denied EXCEPT ![r] = off] BY DEF Begin
<1>2. Base' BY <1>1, RequestBase DEF TokenInv, Base, TypeOK, Founded, Issued
<1>3. Denials'
  <2>1. Passed(step, l, off) BY DEF Passed
  <2>2. QED BY <1>1, <2>1, RequestDenials DEF TokenInv
<1>4. \A q \in Requests \ {r} : pc'[q] = pc[q] /\ loc'[q] = loc[q]
  BY <1>1 DEF Go, TokenInv, Base, TypeOK
<1>5. pc'[r] = step /\ loc'[r] = l BY <1>1 DEF Go, TokenInv, Base, TypeOK
<1>6. Burial' /\ Rotation' BY <1>1, <1>4, <1>5, QuietRotation DEF TokenInv, Refreshes, RefreshAt, Live
<1>7. QED BY <1>2, <1>3, <1>6 DEF TokenInv

LEMMA LookupRevokedInv ==
  ASSUME TokenInv, NEW r \in Requests, NEW t \in Issued,
         Begin(r, "wipe", [op |-> "refresh", token |-> t, n |-> 0]),
         UNCHANGED <<token, family, expired, off, forked, dead>>
  PROVE  TokenInv'
<1> DEFINE l == [op |-> "refresh", token |-> t, n |-> 0]
<1>1. l \in Locals /\ Holds("wipe", l) BY DEF Locals, Holds, Checks, Issued
<1>2. "wipe" \in Steps /\ Begin(r, "wipe", l) /\ off' \subseteq Rows BY DEF Steps, TokenInv, Base, TypeOK
<1> HIDE DEF l
<1>3. QED BY <1>1, <1>2, BeginInv

LEMMA LookupLiveInv ==
  ASSUME TokenInv, NEW r \in Requests, NEW t \in Issued, token[t] = "live",
         Begin(r, "check", [op |-> "refresh", token |-> t, n |-> 1]),
         forked' = forked \cup (IF Refreshing(family[t]) = {} THEN {} ELSE {family[t]}),
         UNCHANGED <<token, family, expired, off, dead>>
  PROVE  TokenInv'
<1> DEFINE l == [op |-> "refresh", token |-> t, n |-> 1]
<1>1. l \in Locals /\ l.op = "refresh" /\ l.token = t /\ l.n = 1 BY DEF Locals, Checks, Issued
<1>2. Holds("check", l)
  <2> HIDE DEF l
  <2>1. l.op \in Flows /\ l.token \in Issued BY <1>1 DEF Flows
  <2>2. 1 \in 1..Len(Checks[l.op]) BY <2>1, ChecksFacts
  <2>3. l.n \in 1..Len(Checks[l.op]) BY <1>1, <2>2, Zenon
  <2>4. QED BY <2>1, <2>3 DEF Holds
<1>3. /\ Go(r, "check", l) /\ pc[r] = "idle" /\ denied' = [denied EXCEPT ![r] = off]
      /\ "check" \in Steps
  BY DEF Begin, Steps
<1> HIDE DEF l
<1>4. t \in Live BY DEF Live, Issued
<1>5. forked \subseteq forked' /\ forked' \subseteq Tokens
  BY DEF TokenInv, Base, TypeOK, Issued
<1>6. Base' BY <1>1, <1>2, <1>3, <1>5, RequestBase DEF TokenInv, Base, TypeOK, Founded, Issued
<1>7. Denials'
  <2>1. Passed("check", l, off) BY <1>1 DEF Passed
  <2>2. QED BY <1>3, <2>1, RequestDenials DEF TokenInv
<1>8. /\ \A q \in Requests \ {r} : pc'[q] = pc[q] /\ loc'[q] = loc[q]
      /\ pc'[r] = "check" /\ loc'[r] = l
  BY <1>3 DEF Go, TokenInv, Base, TypeOK
<1>9. /\ \A q \in Requests \ {r} : Refreshes(q)' = Refreshes(q) /\ FamilyOf(q)' = FamilyOf(q)
      /\ Refreshes(r)' /\ FamilyOf(r)' = family[t] /\ ~Refreshes(r)
  BY <1>1, <1>3, <1>8 DEF Refreshes, RefreshAt, FamilyOf
<1>10. Live' = Live BY DEF Live
<1>11. Burial' BY <1>4, <1>9, <1>10 DEF TokenInv, Burial, DeadFamilies
<1>12. \A q \in Requests : Refreshes(q) /\ FamilyOf(q) = family[t] => family[t] \in forked'
  BY RefreshingFacts
<1>13. Alone' BY <1>5, <1>9, <1>12 DEF TokenInv, Rotation, Alone
<1>14. \A q \in Requests : pc[q] = "retire" => Refreshes(q)
  BY DEF TokenInv, Base, Held, Holds, Refreshes, RefreshAt
<1>15. \A u \in Live : family[u] = family[t] /\ family[t] \notin forked' => u = t
  BY <1>4, <1>5, <1>12, <1>14 DEF TokenInv, Rotation, OneLive, Retiring, FamilyOf
<1>16. OnlyToken' BY <1>1, <1>5, <1>8, <1>9, <1>10, <1>15 DEF TokenInv, Rotation, OnlyToken
<1>17. \A u \in Live : Retiring(u) => Retiring(u)' BY <1>3, <1>8 DEF Retiring
<1>18. OneLive' BY <1>5, <1>10, <1>17 DEF TokenInv, Rotation, OneLive
<1>19. QED BY <1>6, <1>7, <1>11, <1>13, <1>16, <1>18 DEF TokenInv, Rotation

LEMMA RefreshLookupInv ==
  ASSUME TokenInv, NEW r \in Requests, RefreshLookup(r)
  PROVE  TokenInv'
<1>1. PICK t \in Issued :
        \/ /\ token[t] = "revoked"
           /\ Begin(r, "wipe", [op |-> "refresh", token |-> t, n |-> 0])
           /\ UNCHANGED forked
        \/ /\ token[t] = "live" /\ t \notin expired
           /\ Begin(r, "check", [op |-> "refresh", token |-> t, n |-> 1])
           /\ forked' = forked \cup (IF Refreshing(family[t]) = {} THEN {} ELSE {family[t]})
  BY DEF RefreshLookup
<1>2. UNCHANGED <<token, family, expired, off, dead>> BY DEF RefreshLookup, db
<1>3. QED BY <1>1, <1>2, LookupRevokedInv, LookupLiveInv

LEMMA SignInInv ==
  ASSUME TokenInv, NEW r \in Requests, SignIn(r)
  PROVE  TokenInv'
<1>1. PICK op \in {"login", "session"} : Begin(r, "check", [op |-> op, token |-> NoToken, n |-> 1])
  BY DEF SignIn
<1> DEFINE l == [op |-> op, token |-> NoToken, n |-> 1]
<1>2. l \in Locals /\ l.op = op /\ l.n = 1 BY DEF Locals, Checks
<1>3. Holds("check", l) BY <1>2, ChecksFacts DEF Holds, Flows
<1>4. "check" \in Steps /\ Begin(r, "check", l) /\ off' \subseteq Rows
  BY <1>1 DEF Steps, SignIn, db, TokenInv, Base, TypeOK
<1>5. UNCHANGED <<token, family, expired, dead, off, forked>> BY DEF SignIn, db
<1> HIDE DEF l
<1>6. QED BY <1>2, <1>3, <1>4, <1>5, BeginInv

LEMMA LogoutInv ==
  ASSUME TokenInv, NEW r \in Requests, LogoutLookup(r) \/ LogoutAll(r) \/ RemoveMember(r)
  PROVE  TokenInv'
<1>1. CASE LogoutLookup(r)
  <2>1. PICK t \in Live : Begin(r, "wipe", [op |-> "logout", token |-> t, n |-> 0])
    BY <1>1 DEF LogoutLookup
  <2> DEFINE l == [op |-> "logout", token |-> t, n |-> 0]
  <2>2. l \in Locals /\ Holds("wipe", l) BY DEF Locals, Holds, Live, Issued
  <2>3. "wipe" \in Steps /\ Begin(r, "wipe", l) /\ off' \subseteq Rows
    BY <1>1, <2>1 DEF Steps, LogoutLookup, db, TokenInv, Base, TypeOK
  <2>4. UNCHANGED <<token, family, expired, dead, off, forked>> BY <1>1 DEF LogoutLookup, db
  <2> HIDE DEF l
  <2>5. QED BY <2>2, <2>3, <2>4, BeginInv
<1>2. CASE LogoutAll(r)
  <2> DEFINE l == [op |-> "logout", token |-> NoToken, n |-> 0]
  <2>2. l \in Locals /\ Holds("wipeAll", l) BY DEF Locals, Holds
  <2>3. "wipeAll" \in Steps /\ Begin(r, "wipeAll", l) /\ off' \subseteq Rows
    BY <1>2 DEF Steps, LogoutAll, db, TokenInv, Base, TypeOK
  <2>4. UNCHANGED <<token, family, expired, dead, off, forked>> BY <1>2 DEF LogoutAll, db
  <2> HIDE DEF l
  <2>5. QED BY <2>2, <2>3, <2>4, BeginInv
<1>3. CASE RemoveMember(r)
  <2> DEFINE l == [op |-> "remove", token |-> NoToken, n |-> 0]
  <2>2. l \in Locals /\ Holds("wipeAll", l) BY DEF Locals, Holds
  <2>3. /\ "wipeAll" \in Steps /\ Begin(r, "wipeAll", l)
        /\ off \subseteq off' /\ off' \subseteq Rows
    BY <1>3 DEF Steps, RemoveMember, TokenInv, Base, TypeOK, Rows
  <2>4. UNCHANGED <<token, family, expired, dead, forked>> BY <1>3 DEF RemoveMember
  <2> HIDE DEF l
  <2>5. QED BY <2>2, <2>3, <2>4, BeginInv
<1>4. QED BY <1>1, <1>2, <1>3

-----------------------------------------------------------------------------
(* One check: it passes, or it fails and the request ends or revokes.      *)
LEMMA CheckInv ==
  ASSUME TokenInv, NEW r \in Requests, Check(r)
  PROVE  TokenInv'
<1> DEFINE l == loc[r]
           more == [l EXCEPT !.n = @ + 1]
<1>t. TypeOK BY DEF TokenInv, Base
<1>1. /\ pc[r] = "check" /\ l \in Locals /\ l.op \in Flows /\ l.n \in 1..Len(Checks[l.op])
      /\ l.op = "refresh" => l.token \in Issued
  BY DEF Check, TokenInv, Base, TypeOK, Held, Holds
<1>2. Len(Checks[l.op]) \in 1..4 BY <1>1, ChecksFacts
<1>3. UNCHANGED <<token, family, expired, off, forked, dead>> BY DEF Check, db
<1>4. \/ /\ Checks[l.op][l.n] \cap off = {} /\ denied' = denied
         /\ IF l.n = Len(Checks[l.op]) THEN Go(r, "issue", l) ELSE Go(r, "check", more)
      \/ l.op = "refresh" /\ Go(r, "wipe", l) /\ denied' = denied
      \/ Done(r)
  BY DEF Check
<1>5. denied[r] \subseteq off /\ Passed("check", l, denied[r]) BY <1>1 DEF TokenInv, Denials
<1>6. more.op = l.op /\ more.token = l.token /\ more.n = l.n + 1 BY <1>1 DEF Locals
<1>7. l.n # Len(Checks[l.op]) => more \in Locals
  <2>1. PICK m \in 1..4 : m = Len(Checks[l.op]) BY <1>2
  <2>2. l.n \in 1..m BY <1>1, <2>1
  <2>3. l.n # m => l.n + 1 \in 0..4 BY <2>2
  <2>4. QED BY <1>1, <2>1, <2>3 DEF Locals
<1> HIDE DEF l, more
<1>9. ASSUME Checks[l.op][l.n] \cap off = {}, denied' = denied,
             l.n = Len(Checks[l.op]), Go(r, "issue", l)
      PROVE  Base' /\ Denials'
  <2>1. Holds("issue", l) BY <1>1 DEF Holds
  <2>2. Base' BY <1>t, <1>1, <1>3, <1>9, <2>1, RequestBase DEF TokenInv, Base, Founded, TypeOK, Steps, Issued
  <2>3. \A i \in 1..Len(Checks[l.op]) : Checks[l.op][i] \cap denied[r] = {}
    BY <1>1, <1>2, <1>5, <1>9 DEF Passed
  <2>4. denied[r] = {} BY <1>t, <1>1, <2>3, ChecksFacts DEF TypeOK
  <2>5. denied' = [denied EXCEPT ![r] = denied[r]] BY <1>t, <1>9 DEF TypeOK
  <2>6. Passed("issue", l, denied[r]) BY <2>4 DEF Passed
  <2>7. Denials' BY <1>3, <1>5, <1>9, <2>5, <2>6, RequestDenials DEF TokenInv
  <2>8. QED BY <2>2, <2>7
<1>10. ASSUME Checks[l.op][l.n] \cap off = {}, denied' = denied,
              l.n # Len(Checks[l.op]), Go(r, "check", more)
       PROVE  Base' /\ Denials'
  <2>1. Holds("check", more) BY <1>1, <1>2, <1>6, <1>10 DEF Holds
  <2>2. Base' BY <1>t, <1>3, <1>7, <1>10, <2>1, RequestBase DEF TokenInv, Base, Founded, TypeOK, Steps, Issued
  <2>3. \A i \in 1..l.n : Checks[l.op][i] \cap denied[r] = {}
    BY <1>1, <1>2, <1>5, <1>10 DEF Passed
  <2>4. denied' = [denied EXCEPT ![r] = denied[r]] BY <1>t, <1>10 DEF TypeOK
  <2>5. Passed("check", more, denied[r]) BY <1>1, <1>2, <1>6, <2>3 DEF Passed
  <2>6. Denials' BY <1>3, <1>5, <1>10, <2>4, <2>5, RequestDenials DEF TokenInv
  <2>7. QED BY <2>2, <2>6
<1>11. ASSUME l.op = "refresh", Go(r, "wipe", l), denied' = denied
       PROVE  Base' /\ Denials'
  <2>1. Holds("wipe", l) BY <1>1, <1>11 DEF Holds
  <2>2. Base' BY <1>t, <1>1, <1>3, <1>11, <2>1, RequestBase DEF TokenInv, Base, Founded, TypeOK, Steps, Issued
  <2>3. denied' = [denied EXCEPT ![r] = denied[r]] BY <1>t, <1>11 DEF TypeOK
  <2>4. Passed("wipe", l, denied[r]) BY DEF Passed
  <2>5. Denials' BY <1>3, <1>5, <1>11, <2>3, <2>4, RequestDenials DEF TokenInv
  <2>6. QED BY <2>2, <2>5
<1>12. ASSUME Done(r) PROVE Base' /\ Denials'
  <2>1. Base' BY <1>t, <1>3, <1>12, DoneBase DEF TokenInv, Base, Founded, TypeOK, Issued
  <2>2. Denials' BY <1>3, <1>12, DoneDenials DEF TokenInv
  <2>3. QED BY <2>1, <2>2
<1>13. Base' /\ Denials' BY <1>4, <1>9, <1>10, <1>11, <1>12
<1>14. /\ \A q \in Requests \ {r} : pc'[q] = pc[q] /\ loc'[q] = loc[q]
       /\ \/ loc'[r].op = l.op /\ loc'[r].token = l.token
          \/ pc'[r] = "idle"
       /\ pc'[r] # "retire"
  BY <1>t, <1>4, <1>6 DEF Go, Done, TypeOK
<1>15. Burial' /\ Rotation'
  <2>1. \A q \in Requests : RefreshAt(pc'[q], loc'[q]) =>
           /\ Refreshes(q) /\ loc'[q].token = loc[q].token
           /\ (pc[q] = "retire" => pc'[q] = "retire")
    BY <1>1, <1>14 DEF Refreshes, RefreshAt, l
  <2>2. \A q \in Requests : pc[q] = "retire" => pc'[q] = "retire" /\ loc'[q].token = loc[q].token
    BY <1>1, <1>14
  <2>3. QED BY <1>3, <2>1, <2>2, QuietRotation DEF TokenInv, Live
<1>16. QED BY <1>13, <1>15 DEF TokenInv

-----------------------------------------------------------------------------
(* A token is issued: by a refresh, which then retires the old one, or as  *)
(* the first of a family.                                                  *)
LEMMA IssueTokensInv ==
  ASSUME TokenInv, NEW r \in Requests, IssueTokens(r)
  PROVE  TokenInv'
<1>t. TypeOK BY DEF TokenInv, Base
<1>1. PICK t \in Tokens \ Issued :
        /\ token' = [token EXCEPT ![t] = "live"]
        /\ IF loc[r].op = "refresh"
           THEN /\ family' = [family EXCEPT ![t] = family[loc[r].token]]
                /\ Go(r, "retire", loc[r])
                /\ UNCHANGED denied
           ELSE Done(r) /\ UNCHANGED family
  BY DEF IssueTokens
<1>2. pc[r] = "issue" /\ UNCHANGED <<expired, off, forked, dead>> BY DEF IssueTokens
<1>3. Issued' = Issued \cup {t} /\ Live' = Live \cup {t} /\ t \notin Live
  BY <1>t, <1>1 DEF TypeOK, Issued, Live
<1>4. \A q \in Requests : Refreshes(q) => loc[q].token \in Issued /\ FamilyOf(q) \in Issued
  BY DEF TokenInv, Base, Held, Holds, Founded, Refreshes, RefreshAt, FamilyOf, Issued
<1>5. \A u \in Issued : family'[u] = family[u] BY <1>t, <1>1 DEF TypeOK, Issued
<1>6. \A q \in Requests \ {r} : pc'[q] = pc[q] /\ loc'[q] = loc[q]
  BY <1>t, <1>1 DEF Go, Done, TypeOK
<1>7. Denials'
  <2>1. CASE loc[r].op = "refresh"
    <3>1. Go(r, "retire", loc[r]) /\ denied' = denied BY <1>1, <2>1
    <3>2. denied' = [denied EXCEPT ![r] = denied[r]] BY <1>t, <3>1 DEF TypeOK
    <3>3. Passed("retire", loc[r], denied[r]) /\ denied[r] \subseteq off BY DEF Passed, TokenInv, Denials
    <3>4. QED BY <1>2, <3>1, <3>2, <3>3, RequestDenials DEF TokenInv
  <2>2. CASE loc[r].op # "refresh" BY <1>1, <1>2, <2>2, DoneDenials DEF TokenInv
  <2>3. QED BY <2>1, <2>2
<1>8. CASE loc[r].op = "refresh"
  <2>1. /\ family' = [family EXCEPT ![t] = family[loc[r].token]]
        /\ Go(r, "retire", loc[r]) /\ UNCHANGED denied
    BY <1>1, <1>8
  <2>2. pc'[r] = "retire" /\ loc' = loc BY <1>t, <2>1 DEF Go, TypeOK
  <2>3. Refreshes(r) BY <1>2, <1>8 DEF Refreshes, RefreshAt
  <2>4. loc[r].token \in Issued /\ FamilyOf(r) \in Issued /\ family'[t] = FamilyOf(r)
    BY <1>t, <1>4, <2>1, <2>3 DEF TypeOK, FamilyOf
  <2>5. Base'
    <3>1. TypeOK' BY <1>t, <1>1, <1>2, <1>3, <2>1, <2>4 DEF TypeOK, Go, Steps, Issued, FamilyOf
    <3>2. Held' BY <1>t, <1>3, <1>8, <2>1, <2>2, <2>4 DEF TokenInv, Base, Held, Holds, Go, TypeOK
    <3>3. Founded' BY <1>2, <1>3, <1>5, <2>1, <2>4 DEF TokenInv, Base, Founded
    <3>4. QED BY <3>1, <3>2, <3>3 DEF Base
  <2>6. \A q \in Requests :
          /\ RefreshAt(pc'[q], loc'[q]) = Refreshes(q)
          /\ Refreshes(q) => family'[loc'[q].token] = FamilyOf(q)
    BY <1>2, <1>4, <1>5, <1>6, <1>8, <2>2 DEF Refreshes, RefreshAt, FamilyOf
  <2>7. \A u \in Live : u \in Issued BY DEF Live, Issued
  <2>8. Burial'
    BY <1>2, <1>3, <1>5, <2>3, <2>4, <2>6, <2>7 DEF TokenInv, Burial, DeadFamilies, Refreshes, FamilyOf
  <2>9. Alone' BY <1>2, <2>6 DEF TokenInv, Rotation, Alone, Refreshes, FamilyOf
  <2>10. OnlyToken'
    <3> SUFFICES ASSUME NEW q \in Requests, NEW u \in Live',
                        RefreshAt(pc'[q], loc'[q]), pc'[q] # "retire",
                        family'[u] = family'[loc'[q].token], family'[loc'[q].token] \notin forked'
                 PROVE  u = loc'[q].token
      BY DEF OnlyToken, Refreshes, FamilyOf
    <3>1. q # r /\ Refreshes(q) /\ pc[q] # "retire" /\ FamilyOf(q) \notin forked BY <1>2, <1>6, <2>2, <2>6
    <3>2. FamilyOf(q) # FamilyOf(r) BY <2>3, <3>1 DEF TokenInv, Rotation, Alone
    <3>3. u # t BY <2>4, <2>6, <3>1, <3>2
    <3>4. QED BY <1>3, <1>5, <2>2, <2>6, <2>7, <3>1, <3>3 DEF TokenInv, Rotation, OnlyToken
  <2>11. OneLive'
    <3>1. \A u \in Live : Retiring(u) => Retiring(u)' BY <1>2, <1>6, <2>2 DEF Retiring
    <3>2. \A u \in Live : family[u] = FamilyOf(r) /\ FamilyOf(r) \notin forked => u = loc[r].token
      BY <1>2, <2>3 DEF TokenInv, Rotation, OnlyToken
    <3>3. \A u \in Tokens : u = loc[r].token => Retiring(u)' BY <2>2 DEF Retiring
    <3>4. \A u \in Live : u \in Tokens BY DEF Live
    <3>5. QED BY <1>2, <1>3, <1>5, <2>4, <2>7, <3>1, <3>2, <3>3, <3>4 DEF TokenInv, Rotation, OneLive
  <2>12. QED BY <1>7, <2>5, <2>8, <2>9, <2>10, <2>11 DEF TokenInv, Rotation
<1>9. CASE loc[r].op # "refresh"
  <2>1. Done(r) /\ family' = family BY <1>1, <1>9
  <2>2. family[t] = t BY DEF TokenInv, Base, Founded
  <2>3. pc'[r] = "idle" /\ loc'[r] = Blank BY <1>t, <2>1 DEF Done, Go, TypeOK
  <2>4. Base'
    <3>1. TypeOK' BY <1>t, <1>1, <1>2, <1>3, <2>1 DEF TypeOK, Done, Go, Steps, Blank, Locals, Issued
    <3>2. Held' BY <1>3, <1>6, <2>3 DEF TokenInv, Base, Held, Holds
    <3>3. Founded' BY <1>2, <1>3, <2>1 DEF TokenInv, Base, Founded
    <3>4. QED BY <3>1, <3>2, <3>3 DEF Base
  <2>5. \A q \in Requests :
          /\ RefreshAt(pc'[q], loc'[q]) = Refreshes(q)
          /\ Refreshes(q) => loc'[q].token = loc[q].token /\ (pc'[q] = "retire") = (pc[q] = "retire")
    BY <1>6, <1>9, <2>3 DEF Refreshes, RefreshAt
  <2>6. \A u \in Live : u \in Issued /\ family[u] \in Issued BY DEF Live, Issued, TokenInv, Base, Founded
  <2>7. t \notin dead BY DEF TokenInv, Base, Founded
  <2>8. Burial'
    BY <1>2, <1>3, <2>1, <2>2, <2>5, <2>7 DEF TokenInv, Burial, DeadFamilies, Refreshes, FamilyOf
  <2>9. Alone' BY <1>2, <2>1, <2>5 DEF TokenInv, Rotation, Alone, Refreshes, FamilyOf
  <2>10. OnlyToken'
    BY <1>2, <1>3, <1>4, <2>1, <2>2, <2>5 DEF TokenInv, Rotation, OnlyToken, Refreshes, FamilyOf
  <2>11. OneLive'
    <3>1. \A u \in Live : Retiring(u) => Retiring(u)' BY <1>2, <1>6 DEF Retiring
    <3>2. QED BY <1>2, <1>3, <2>1, <2>2, <2>6, <3>1 DEF TokenInv, Rotation, OneLive
  <2>12. QED BY <1>7, <2>4, <2>8, <2>9, <2>10, <2>11 DEF TokenInv, Rotation
<1>10. QED BY <1>8, <1>9

-----------------------------------------------------------------------------
(* A request ends having revoked tokens, or having died.                   *)
LEMMA DoneInv ==
  ASSUME TokenInv, NEW r \in Requests, Done(r),
         token' \in [Tokens -> {"none", "live", "revoked"}], Issued' = Issued, Live' \subseteq Live,
         family' = family, expired' = expired, off' = off,
         forked \subseteq forked', forked' \subseteq Tokens, dead' \subseteq Issued,
         pc[r] = "retire" => loc[r].token \notin Live' \/ FamilyOf(r) \in forked',
         \A t \in Live' : family[t] \in dead' => family[t] \in dead,
         \A q \in Requests \ {r} : Refreshes(q) /\ FamilyOf(q) \in dead' => FamilyOf(q) \in dead
  PROVE  TokenInv'
<1>1. Base' BY DoneBase DEF TokenInv
<1>2. Denials' BY DoneDenials DEF TokenInv
<1>3. /\ \A q \in Requests \ {r} : pc'[q] = pc[q] /\ loc'[q] = loc[q]
      /\ pc'[r] = "idle"
  BY DEF Done, Go, TokenInv, Base, TypeOK
<1>4. \A q \in Requests : RefreshAt(pc'[q], loc'[q]) => q # r /\ Refreshes(q)
  BY <1>3 DEF Refreshes, RefreshAt
<1>5. Burial' /\ Rotation'
  <2>1. \A q \in Requests : RefreshAt(pc'[q], loc'[q]) =>
           /\ Refreshes(q) /\ loc'[q].token = loc[q].token
           /\ (pc[q] = "retire" => pc'[q] = "retire")
    BY <1>3, <1>4
  <2>2. \A q \in Requests : pc[q] = "retire" => \/ pc'[q] = "retire" /\ loc'[q].token = loc[q].token
                                                \/ loc[q].token \notin Live'
                                                \/ FamilyOf(q) \in forked'
    BY <1>3
  <2>3. \A q \in Requests : RefreshAt(pc'[q], loc'[q]) /\ FamilyOf(q) \in dead' => FamilyOf(q) \in dead
    BY <1>4
  <2>4. QED BY <2>1, <2>2, <2>3, QuietRotation DEF TokenInv
<1>6. QED BY <1>1, <1>2, <1>5 DEF TokenInv

LEMMA RetireOldInv ==
  ASSUME TokenInv, NEW r \in Requests, RetireOld(r)
  PROVE  TokenInv'
<1>1. pc[r] = "retire" /\ loc[r].token \in Issued
  BY DEF RetireOld, TokenInv, Base, Held, Holds
<1>2. /\ token' = [token EXCEPT ![loc[r].token] = "revoked"]
      /\ Done(r) /\ UNCHANGED <<family, expired, off, forked, dead>>
  BY DEF RetireOld
<1>3. /\ token' \in [Tokens -> {"none", "live", "revoked"}] /\ Issued' = Issued
      /\ Live' \subseteq Live /\ loc[r].token \notin Live'
  BY <1>1, <1>2 DEF TokenInv, Base, TypeOK, Issued, Live
<1>4. QED BY <1>2, <1>3, DoneInv DEF TokenInv, Base, TypeOK, Founded

LEMMA RevokeFacts ==
  ASSUME TypeOK, NEW ts, Revoke(ts)
  PROVE  /\ token' \in [Tokens -> {"none", "live", "revoked"}] /\ Issued' = Issued
         /\ Live' = Live \ ts
BY DEF Revoke, TypeOK, Issued, Live

LEMMA RevokeFamilyInv ==
  ASSUME TokenInv, NEW r \in Requests, RevokeFamily(r)
  PROVE  TokenInv'
<1> DEFINE f == family[loc[r].token]
<1>1. pc[r] = "wipe" /\ f \in Issued
  BY DEF RevokeFamily, TokenInv, Base, Held, Holds, Founded, Issued
<1>2. /\ Revoke(Family(f)) /\ dead' = dead \cup (IF Refreshing(f) = {} THEN {f} ELSE {})
      /\ Done(r) /\ UNCHANGED <<family, expired, off, forked>>
  BY DEF RevokeFamily
<1> HIDE DEF f
<1>3. /\ token' \in [Tokens -> {"none", "live", "revoked"}] /\ Issued' = Issued
      /\ Live' = Live \ Family(f)
  BY <1>2, RevokeFacts DEF TokenInv, Base
<1>4. \A t \in Live' : family[t] # f BY <1>3 DEF Family, Live, Issued
<1>5. f \in dead' /\ f \notin dead => \A q \in Requests : Refreshes(q) => FamilyOf(q) # f
  BY <1>2, RefreshingFacts
<1>6. dead' \subseteq Issued /\ dead' \subseteq dead \cup {f}
  BY <1>1, <1>2 DEF TokenInv, Base, Founded
<1>7. QED BY <1>1, <1>2, <1>3, <1>4, <1>5, <1>6, DoneInv DEF TokenInv, Base, TypeOK

LEMMA RevokeAllInv ==
  ASSUME TokenInv, NEW r \in Requests, RevokeAll(r)
  PROVE  TokenInv'
<1>1. /\ pc[r] = "wipeAll" /\ Revoke(Tokens)
      /\ dead' = dead \cup {family[t] : t \in {u \in Issued : Refreshing(family[u]) = {}}}
      /\ Done(r) /\ UNCHANGED <<family, expired, off, forked>>
  BY DEF RevokeAll
<1>2. /\ token' \in [Tokens -> {"none", "live", "revoked"}] /\ Issued' = Issued
      /\ Live' = Live \ Tokens
  BY <1>1, RevokeFacts DEF TokenInv, Base
<1>3. Live' = {} BY <1>2 DEF Live
<1>4. dead' \subseteq Issued BY <1>1 DEF TokenInv, Base, Founded, Issued
<1>5. \A q \in Requests : Refreshes(q) /\ FamilyOf(q) \in dead' => FamilyOf(q) \in dead
  BY <1>1, RefreshingFacts
<1>6. QED BY <1>1, <1>2, <1>3, <1>4, <1>5, DoneInv DEF TokenInv, Base, TypeOK

LEMMA CrashInv ==
  ASSUME TokenInv, NEW r \in Requests, Crash(r)
  PROVE  TokenInv'
<1>1. /\ forked' = forked \cup (IF pc[r] = "retire" THEN {FamilyOf(r)} ELSE {})
      /\ Done(r) /\ UNCHANGED <<token, family, expired, off, dead>>
  BY DEF Crash, db, FamilyOf
<1>2. pc[r] = "retire" => FamilyOf(r) \in Tokens
  BY DEF TokenInv, Base, TypeOK, Held, Holds, Founded, Issued, FamilyOf
<1>3. forked \subseteq forked' /\ forked' \subseteq Tokens BY <1>1, <1>2 DEF TokenInv, Base, TypeOK
<1>4. Live' = Live /\ Issued' = Issued BY <1>1 DEF Live, Issued
<1>5. QED BY <1>1, <1>3, <1>4, DoneInv DEF TokenInv, Base, TypeOK, Founded

(* Rows and expiries change under the requests.                            *)
LEMMA AccessChangesInv ==
  ASSUME TokenInv, AccessChanges
  PROVE  TokenInv'
<1>1. /\ off' \subseteq Rows /\ denied' = [r \in Requests |-> denied[r] \cap off']
      /\ UNCHANGED <<token, family, expired, pc, loc, forked, dead>>
  BY VolatileAssumption DEF AccessChanges, TokenInv, Base, TypeOK
<1>2. Live' = Live /\ Issued' = Issued BY <1>1 DEF Live, Issued
<1>3. Base' BY <1>1, <1>2 DEF TokenInv, Base, TypeOK, Held, Holds, Founded
<1>4. Denials' BY <1>1 DEF TokenInv, Base, TypeOK, Denials, Passed
<1>5. Burial' /\ Rotation'
  BY <1>1, <1>2 DEF TokenInv, Burial, DeadFamilies, Rotation, Alone, OnlyToken, OneLive, Retiring,
                    Refreshes, FamilyOf
<1>6. QED BY <1>3, <1>4, <1>5 DEF TokenInv

LEMMA TokenExpiresInv ==
  ASSUME TokenInv, TokenExpires
  PROVE  TokenInv'
<1>1. UNCHANGED <<token, family, off, pc, loc, denied, forked, dead>> BY DEF TokenExpires
<1>2. Live' = Live /\ Issued' = Issued BY <1>1 DEF Live, Issued
<1>3. TypeOK' BY <1>1, <1>2 DEF TokenExpires, TokenInv, Base, TypeOK, Live, Issued
<1>4. Base' BY <1>1, <1>2, <1>3 DEF TokenInv, Base, Held, Holds, Founded
<1>5. Denials' BY <1>1 DEF TokenInv, Denials, Passed
<1>6. Burial' /\ Rotation'
  BY <1>1, <1>2 DEF TokenInv, Burial, DeadFamilies, Rotation, Alone, OnlyToken, OneLive, Retiring,
                    Refreshes, FamilyOf
<1>7. QED BY <1>4, <1>5, <1>6 DEF TokenInv

LEMMA NextInv == TokenInv /\ [Next]_vars => TokenInv'
<1> SUFFICES ASSUME TokenInv, [Next]_vars PROVE TokenInv' OBVIOUS
<1>1. CASE UNCHANGED vars
  <2>1. Live' = Live /\ Issued' = Issued BY <1>1 DEF vars, Live, Issued
  <2>2. Base' /\ Denials'
    BY <1>1, <2>1 DEF vars, TokenInv, Base, TypeOK, Held, Holds, Founded, Denials, Passed
  <2>3. Burial' /\ Rotation'
    BY <1>1, <2>1 DEF vars, TokenInv, Burial, DeadFamilies, Rotation, Alone, OnlyToken, OneLive, Retiring,
                      Refreshes, FamilyOf
  <2>4. QED BY <2>2, <2>3 DEF TokenInv
<1>2. QED BY <1>1, RefreshLookupInv, SignInInv, CheckInv, IssueTokensInv, RetireOldInv,
             RevokeFamilyInv, LogoutInv, RevokeAllInv, CrashInv, AccessChangesInv, TokenExpiresInv
          DEF Next

-----------------------------------------------------------------------------
(* Every variable keeps its type: AuthService only writes token rows it    *)
(* has issued and follows the steps of its flows.                          *)
THEOREM TypeCorrect == Spec => []TypeOK
<1>1. TokenInv => TypeOK BY DEF TokenInv, Base
<1>2. QED BY InitInv, NextInv, <1>1, PTL DEF Spec

(* AuthService.refresh, login and issueSessionForMembership issue tokens   *)
(* only if each of the user, tenant, subscription and membership rows has  *)
(* allowed access at some moment since the request began, in whatever      *)
(* order the rows change and the statements of other requests fall.        *)
THEOREM AccessSafety == Spec => []IssuedWithAccess
<1>1. TokenInv => IssuedWithAccess BY DEF TokenInv, Denials, Passed, IssuedWithAccess
<1>2. QED BY InitInv, NextInv, <1>1, PTL DEF Spec

(* A family that reuse detection, logout or MembersService.remove revoked  *)
(* with no refresh of it in flight never has a live token again.           *)
THEOREM DeadFamilySafety == Spec => []DeadFamilies
<1>1. TokenInv => DeadFamilies BY DEF TokenInv, Burial
<1>2. QED BY InitInv, NextInv, <1>1, PTL DEF Spec

(* The rotation of AuthService.refresh leaves a family one live token,     *)
(* besides one that is about to be retired, unless two refreshes of the    *)
(* family overlapped or one died between its two writes.                   *)
THEOREM RotationSafety == Spec => []OneLivePerFamily
<1>1. TokenInv => OneLivePerFamily
  <2> SUFFICES ASSUME TokenInv, NEW f \in Tokens \ forked
               PROVE  Cardinality((Family(f) \cap Live)
                        \ {loc[r].token : r \in {q \in Requests : pc[q] = "retire"}}) <= 1
    BY DEF OneLivePerFamily
  <2> DEFINE S == (Family(f) \cap Live) \ {loc[r].token : r \in {q \in Requests : pc[q] = "retire"}}
  <2>1. \A t, u \in S : t = u BY DEF TokenInv, Rotation, OneLive, Retiring, Family
  <2> HIDE DEF S
  <2>2. CASE S = {} BY <2>2, FS_EmptySet DEF S
  <2>3. CASE S # {}
    <3>1. PICK t \in S : S = {t} BY <2>1, <2>3
    <3>2. Cardinality({t}) = 1 BY FS_Singleton
    <3>3. Cardinality(S) = 1 BY <3>1, <3>2, Zenon
    <3>4. QED BY <3>3 DEF S
  <2>4. QED BY <2>2, <2>3
<1>2. QED BY InitInv, NextInv, <1>1, PTL DEF Spec
=============================================================================
