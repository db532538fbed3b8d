---------------------------- MODULE TokensProofs ----------------------------
(***************************************************************************)
(* What holds of the refresh tokens for every number of users, tokens,     *)
(* families and concurrent requests, and what holds of the families whose  *)
(* requests come one after the other.                                      *)
(***************************************************************************)
EXTENDS Tokens, TLAPS

-----------------------------------------------------------------------------

(* A request that presented a token goes on with the user and family of    *)
(* its row, and before it issues a new one has revoked it.                 *)
RequestOK(s) ==
    requests[s] # NoRequest =>
        /\ requests[s].pc # "issue" => requests[s].token # NoToken
        /\ requests[s].token # NoToken =>
              /\ requests[s].token \in Issued
              /\ tokens[requests[s].token].user = requests[s].user
              /\ tokens[requests[s].token].family = requests[s].family
              /\ requests[s].pc = "issue" => tokens[requests[s].token].revoked

RotationInv ==
    /\ TypeOK
    /\ \A s \in Slots : RequestOK(s)
    /\ ExchangedIsRevoked

(* A row is never removed, never changes hands, and is never valid again.  *)
Persists(k) ==
    /\ tokens'[k] \in Rows
    /\ tokens'[k].user = tokens[k].user
    /\ tokens'[k].family = tokens[k].family
    /\ tokens'[k].parent = tokens[k].parent
    /\ tokens[k].revoked => tokens'[k].revoked

LEMMA TokenFacts ==
    ASSUME TypeOK
    PROVE  /\ \A k \in Tokens : k \in Issued <=> tokens[k] \in Rows
           /\ \A s \in Slots : requests[s] # NoRequest => requests[s] \in InFlight
  BY TokensAssumption DEF TypeOK, Issued

(* Whatever a step does to the table, the rows that are there persist.     *)
LEMMA RowsPersist ==
    ASSUME RotationInv, [Next]_vars
    PROVE  \A k \in Issued : Persists(k)
<1>1. SUFFICES ASSUME NEW k \in Issued PROVE Persists(k)
  OBVIOUS
<1>2. k \in Tokens /\ tokens[k] \in Rows
  BY TokenFacts DEF RotationInv, Issued
<1>3. CASE UNCHANGED tokens
  BY <1>2, <1>3 DEF Persists
<1>4. ASSUME NEW f \in Families, tokens' = RevokeFamily(f)
      PROVE  Persists(k)
  BY <1>2, <1>4 DEF Persists, RevokeFamily, Rows
<1>5. ASSUME NEW s \in Slots, RevokePresented(s)
      PROVE  Persists(k)
  <2>1. requests[s].token \in Tokens
    BY <1>5, TokenFacts DEF RevokePresented, At, RotationInv, RequestOK, Issued
  <2> QED BY <1>2, <1>5, <2>1 DEF Persists, RevokePresented, Rows, RotationInv, TypeOK
<1>6. ASSUME NEW s \in Slots, NEW j \in Tokens, Issue(s, j)
      PROVE  Persists(k)
  BY <1>2, <1>6 DEF Persists, Issue, Issued, RotationInv, TypeOK
<1>7. ASSUME NEW s \in Slots, Burn(s)
      PROVE  Persists(k)
  BY <1>4, <1>7, TokenFacts DEF Burn, At, RotationInv, InFlight
<1>8. ASSUME NEW s \in Slots, NEW j \in Tokens, LogOut(s, j)
      PROVE  Persists(k)
  BY <1>4, <1>8, TokenFacts DEF LogOut, RotationInv, Rows
<1> QED
  BY <1>3, <1>5, <1>6, <1>7, <1>8
  DEF RotationInv, Next, vars, Rotate, SignIn, Present, CheckUser, Fail, SetActive, Expire

-----------------------------------------------------------------------------

LEMMA TypeStep == RotationInv /\ [Next]_vars => TypeOK'
<1> SUFFICES ASSUME RotationInv, [Next]_vars PROVE TypeOK'
  OBVIOUS
<1> USE DEF RotationInv
<1>1. ASSUME NEW s \in Slots, NEW u \in Users, NEW f \in Families, SignIn(s, u, f)
      PROVE  TypeOK'
  BY <1>1 DEF SignIn, TypeOK, InFlight, history
<1>2. ASSUME NEW s \in Slots, NEW k \in Tokens, Present(s, k)
      PROVE  TypeOK'
  <2>1. tokens[k] \in Rows
    BY <1>2, TokenFacts DEF Present
  <2> QED BY <1>2, <2>1 DEF Present, TypeOK, InFlight, Rows, Contend
<1>3. ASSUME NEW f \in Families
      PROVE  RevokeFamily(f) \in [Tokens -> Rows \cup {NoToken}]
  <2>1. \A k \in Issued : [tokens[k] EXCEPT !.revoked = TRUE] \in Rows
    BY TokenFacts DEF Rows, Issued
  <2> QED BY <2>1 DEF RevokeFamily, MembersOf, Issued, TypeOK
<1>4. ASSUME NEW s \in Slots, NEW k \in Tokens, LogOut(s, k)
      PROVE  TypeOK'
  <2>1. tokens[k].family \in Families
    BY <1>4, TokenFacts DEF LogOut, Rows
  <2> QED BY <1>3, <1>4, <2>1 DEF LogOut, TypeOK, Contend
<1>5. ASSUME NEW s \in Slots, Burn(s)
      PROVE  TypeOK'
  <2>1. requests[s].family \in Families
    BY <1>5, TokenFacts DEF Burn, At, InFlight
  <2> QED BY <1>3, <1>5, <2>1 DEF Burn, Reply, TypeOK
<1>6. ASSUME NEW s \in Slots, CheckUser(s)
      PROVE  TypeOK'
  <2>1. requests[s] \in InFlight
    BY <1>6, TokenFacts DEF CheckUser, At
  <2> QED BY <1>6, <2>1 DEF CheckUser, Goto, Reply, TypeOK, InFlight, history
<1>7. ASSUME NEW s \in Slots, RevokePresented(s)
      PROVE  TypeOK'
  <2>1. requests[s] \in InFlight /\ requests[s].token \in Issued
    BY <1>7, TokenFacts DEF RevokePresented, At, RequestOK
  <2>2. [tokens[requests[s].token] EXCEPT !.revoked = TRUE] \in Rows
    BY <2>1, TokenFacts DEF Rows, Issued
  <2>3. tokens' \in [Tokens -> Rows \cup {NoToken}]
    BY <1>7, <2>1, <2>2 DEF RevokePresented, TypeOK, Issued
  <2> QED BY <1>7, <2>1, <2>3 DEF RevokePresented, Goto, TypeOK, InFlight, history
<1>8. ASSUME NEW s \in Slots, NEW k \in Tokens, Issue(s, k)
      PROVE  TypeOK'
  <2>1. requests[s] \in InFlight
    BY <1>8, TokenFacts DEF Issue, At
  <2> QED BY <1>8, <2>1 DEF Issue, Reply, TypeOK, InFlight, Rows, history
<1>9. ASSUME NEW s \in Slots, Fail(s)
      PROVE  TypeOK'
  BY <1>9 DEF Fail, Reply, TypeOK, history
<1>10. ASSUME NEW k \in Tokens, Expire(k)
      PROVE  TypeOK'
  BY <1>10 DEF Expire, TypeOK, history
<1>11. ASSUME NEW u \in Users, SetActive(u)
      PROVE  TypeOK'
  BY <1>11 DEF SetActive, TypeOK, history
<1>12. CASE UNCHANGED vars
  BY <1>12 DEF vars, TypeOK
<1> QED
  BY <1>1, <1>2, <1>4, <1>5, <1>6, <1>7, <1>8, <1>9, <1>10, <1>11, <1>12 DEF Next, Rotate

(* A request whose slot does not change stays in order, because the row it *)
(* presented persists.                                                     *)
LEMMA RequestFrame ==
    ASSUME RotationInv, TypeOK', \A k \in Issued : Persists(k),
           NEW s \in Slots, requests'[s] = requests[s]
    PROVE  RequestOK(s)'
<1>1. \A k \in Tokens : tokens'[k] \in Rows => k \in Issued'
  BY TokensAssumption DEF Issued
<1>2. CASE requests[s] = NoRequest
  BY <1>2 DEF RequestOK
<1>3. CASE requests[s] # NoRequest
  BY <1>1, <1>3 DEF RotationInv, RequestOK, Persists, Issued
<1> QED BY <1>2, <1>3

(* Requests stay in order: the one that steps by what it has just done.    *)
LEMMA RequestStep ==
    ASSUME RotationInv, [Next]_vars, TypeOK', \A k \in Issued : Persists(k)
    PROVE  \A s \in Slots : RequestOK(s)'
<1> SUFFICES ASSUME NEW s \in Slots PROVE RequestOK(s)'
  OBVIOUS
<1>0. requests \in [Slots -> InFlight \cup {NoRequest}]
  BY DEF RotationInv, TypeOK
<1>i. \A k \in Issued : k \in Issued'
  BY TokensAssumption DEF Persists, Issued
<1>n. ASSUME requests'[s] = NoRequest PROVE RequestOK(s)'
  BY <1>n DEF RequestOK
<1>f. ASSUME requests'[s] = requests[s] PROVE RequestOK(s)'
  BY <1>f, RequestFrame
<1>1. ASSUME NEW r \in Slots, NEW u \in Users, NEW f \in Families, SignIn(r, u, f)
      PROVE  RequestOK(s)'
  BY <1>0, <1>1, <1>f DEF SignIn, RequestOK
<1>2. ASSUME NEW r \in Slots, NEW k \in Tokens, Present(r, k)
      PROVE  RequestOK(s)'
  <2>1. k \in Issued /\ k # NoToken /\ tokens' = tokens
    BY <1>2, TokensAssumption DEF Present, Issued
  <2> QED BY <1>0, <1>2, <1>f, <1>i, <2>1 DEF Present, RequestOK
<1>3. ASSUME NEW r \in Slots, Burn(r) \/ Fail(r) \/ \E k \in Tokens : Issue(r, k)
      PROVE  RequestOK(s)'
  BY <1>0, <1>3, <1>f, <1>n DEF Burn, Fail, Issue, Reply
<1>4. ASSUME NEW r \in Slots, CheckUser(r)
      PROVE  RequestOK(s)'
  <2>1. CASE requests' = [requests EXCEPT ![r].pc = "revoke"]
    <3>1. RequestOK(r) /\ At(r, "user") /\ requests[r] \in InFlight /\ tokens' = tokens
      BY <1>0, <1>4 DEF CheckUser, At, RotationInv
    <3>2. requests'[r] = [requests[r] EXCEPT !.pc = "revoke"]
      BY <1>0, <2>1
    <3>3. RequestOK(r)'
      BY <1>i, <3>1, <3>2 DEF RequestOK, At, InFlight
    <3> QED BY <1>0, <1>f, <2>1, <3>3
  <2> QED BY <1>0, <1>4, <1>f, <1>n, <2>1 DEF CheckUser, Goto, Reply
<1>5. ASSUME NEW r \in Slots, RevokePresented(r)
      PROVE  RequestOK(s)'
  <2>1. RequestOK(r) /\ At(r, "revoke") /\ requests[r] \in InFlight
    BY <1>0, <1>5 DEF RevokePresented, At, RotationInv
  <2>2. requests'[r] = [requests[r] EXCEPT !.pc = "issue"]
    BY <1>0, <1>5 DEF RevokePresented, Goto
  <2>3. requests[r].token \in Issued /\ tokens'[requests[r].token].revoked
    BY <1>5, <2>1, TokenFacts DEF RevokePresented, RequestOK, At, RotationInv, TypeOK, Issued, Rows
  <2>4. RequestOK(r)'
    BY <1>i, <2>1, <2>2, <2>3 DEF RequestOK, Persists, At, InFlight
  <2> QED BY <1>0, <1>5, <1>f, <2>4 DEF RevokePresented, Goto
<1>6. CASE UNCHANGED requests
  BY <1>6, <1>f
<1> QED
  BY <1>1, <1>2, <1>3, <1>4, <1>5, <1>6 DEF Next, Rotate, vars, LogOut, Expire, SetActive

(* An exchanged token stays exchanged, and the only new row has the token  *)
(* its request presented for parent.                                       *)
LEMMA ExchangeStep ==
    ASSUME RotationInv, [Next]_vars, TypeOK', \A k \in Issued : Persists(k)
    PROVE  ExchangedIsRevoked'
<1>1. ASSUME NEW k \in Issued', tokens[k] # NoToken PROVE
          tokens'[k].parent # NoToken =>
              LET p == tokens'[k].parent IN
              /\ p \in (Issued \ Live)'
              /\ tokens'[p].family = tokens'[k].family
              /\ tokens'[p].user = tokens'[k].user
  <2>1. k \in Issued
    BY <1>1 DEF Issued
  <2> QED BY <2>1, TokensAssumption DEF RotationInv, ExchangedIsRevoked, Persists, Issued, Live
<1>2. ASSUME NEW k \in Issued', tokens[k] = NoToken PROVE
          tokens'[k].parent # NoToken =>
              LET p == tokens'[k].parent IN
              /\ p \in (Issued \ Live)'
              /\ tokens'[p].family = tokens'[k].family
              /\ tokens'[p].user = tokens'[k].user
  <2>1. PICK s \in Slots : Issue(s, k)
    <3>0. k \in Tokens /\ tokens'[k] # NoToken
      BY DEF Issued
    <3>1. ASSUME NEW f \in Families PROVE tokens' # RevokeFamily(f)
      BY <1>2, <3>0 DEF RevokeFamily, MembersOf, Issued
    <3>2. ASSUME NEW s \in Slots, RevokePresented(s) PROVE FALSE
      <4>1. requests[s].token \in Issued
        BY <3>2, TokenFacts DEF RevokePresented, At, RotationInv, RequestOK
      <4> QED BY <1>2, <3>0, <3>2, <4>1 DEF RevokePresented, RotationInv, TypeOK, Issued
    <3>3. ASSUME NEW s \in Slots, Burn(s) PROVE FALSE
      BY <3>1, <3>3, TokenFacts DEF Burn, At, RotationInv, InFlight
    <3>4. ASSUME NEW s \in Slots, NEW j \in Tokens, LogOut(s, j) PROVE FALSE
      BY <3>1, <3>4, TokenFacts DEF LogOut, RotationInv, Rows
    <3>5. ASSUME NEW s \in Slots, NEW j \in Tokens, Issue(s, j), j # k PROVE FALSE
      BY <1>2, <3>0, <3>5 DEF Issue, RotationInv, TypeOK
    <3>6. ~ UNCHANGED tokens
      BY <1>2, <3>0
    <3> QED
      BY <3>2, <3>3, <3>4, <3>5, <3>6
      DEF Next, Rotate, vars, SignIn, Present, CheckUser, Fail, Expire, SetActive
  <2>2. RequestOK(s) /\ requests[s] # NoRequest /\ requests[s].pc = "issue"
    BY <2>1 DEF Issue, At, RotationInv
  <2>3. /\ tokens'[k].parent = requests[s].token
        /\ tokens'[k].family = requests[s].family
        /\ tokens'[k].user = requests[s].user
    BY <2>1 DEF Issue, RotationInv, TypeOK
  <2>4. CASE requests[s].token # NoToken
    BY <2>2, <2>3, <2>4, TokensAssumption DEF RequestOK, Persists, Issued, Live
  <2> QED BY <2>3, <2>4
<1> QED BY <1>1, <1>2 DEF ExchangedIsRevoked

(* RotationInv is inductive.                                               *)
LEMMA RotationInit == Init => RotationInv
  BY TokensAssumption DEF Init, RotationInv, TypeOK, RequestOK, ExchangedIsRevoked, Issued

LEMMA RotationStep == RotationInv /\ [Next]_vars => RotationInv'
<1> SUFFICES ASSUME RotationInv, [Next]_vars PROVE RotationInv'
  OBVIOUS
<1>1. TypeOK' /\ \A k \in Issued : Persists(k)
  BY TypeStep, RowsPersist
<1> QED BY <1>1, RequestStep, ExchangeStep DEF RotationInv

-----------------------------------------------------------------------------

LiveOf(f) == MembersOf(f) \cap Live

(* What a request on a family nobody else works on can rely on: what it    *)
(* presented is the one live token until it revokes it, then there is none. *)
SoleRequestOK(s, f) ==
    /\ requests[s].pc \in {"user", "revoke"} => requests[s].token \in Live
    /\ requests[s].pc = "issue" =>
          /\ LiveOf(f) = {}
          /\ \A k \in MembersOf(f) :
                tokens[k].parent # NoToken => tokens[k].parent # requests[s].token
    /\ requests[s].pc # "burn" => f \notin ended

(* A family whose requests have come one after the other.                  *)
FamilyOK(f) ==
    /\ f \in ended => MembersOf(f) # {}
    /\ f \notin contended =>
          /\ \A j, k \in LiveOf(f) : j = k
          /\ \A j, k \in MembersOf(f) :
                tokens[k].parent # NoToken /\ tokens[j].parent = tokens[k].parent => j = k
          /\ f \in ended => LiveOf(f) = {}
          /\ \A r, s \in Serving(f) : r = s
          /\ \A s \in Serving(f) : SoleRequestOK(s, f)

TurnInv == RotationInv /\ \A f \in Families : FamilyOK(f)

(* A step on another family leaves f alone.                                *)
Untouched(f) ==
    /\ MembersOf(f)' = MembersOf(f)
    /\ \A k \in MembersOf(f) : tokens'[k] = tokens[k]
    /\ Serving(f)' = Serving(f)
    /\ \A s \in Serving(f) : requests'[s] = requests[s]
    /\ f \in ended' <=> f \in ended
    /\ f \in contended => f \in contended'

LEMMA UntouchedOK ==
    ASSUME RotationInv, RotationInv', NEW f \in Families, FamilyOK(f), Untouched(f)
    PROVE  FamilyOK(f)'
<1>1. LiveOf(f)' = LiveOf(f)
  BY DEF Untouched, LiveOf, Live, MembersOf, Issued
<1>2. ASSUME NEW s \in Serving(f), SoleRequestOK(s, f)
      PROVE  SoleRequestOK(s, f)'
  <2>1. requests[s].token \in LiveOf(f) <=> requests[s].token \in LiveOf(f)'
    BY <1>1
  <2>2. requests[s].pc \in {"user", "revoke"} => requests[s].token \in MembersOf(f)
    BY <1>2 DEF SoleRequestOK, Serving, RotationInv, RequestOK, MembersOf, Live
  <2> QED BY <1>1, <1>2, <2>1, <2>2 DEF Untouched, SoleRequestOK, LiveOf
<1> QED BY <1>1, <1>2 DEF Untouched, FamilyOK

LEMMA RevokedFamily ==
    ASSUME TypeOK, NEW g \in Families, tokens' = RevokeFamily(g)
    PROVE  /\ \A f \in Families : MembersOf(f)' = MembersOf(f)
           /\ \A k \in Tokens : k \notin MembersOf(g) => tokens'[k] = tokens[k]
           /\ \A k \in Issued : tokens'[k].parent = tokens[k].parent
           /\ \A f \in Families : f = g => LiveOf(f)' = {}
<1>1. \A k \in Tokens : tokens'[k] = IF k \in MembersOf(g) THEN [tokens[k] EXCEPT !.revoked = TRUE]
                                     ELSE tokens[k]
  BY DEF RevokeFamily
<1>2. ASSUME NEW k \in Issued
      PROVE  /\ k \in Issued' /\ tokens'[k].family = tokens[k].family
             /\ tokens'[k].parent = tokens[k].parent
             /\ k \in MembersOf(g) => tokens'[k].revoked
  <2>1. tokens[k] \in Rows /\ k \in Tokens
    BY <1>2, TokenFacts DEF Issued
  <2>2. CASE k \in MembersOf(g)
    <3>1. tokens'[k] = [tokens[k] EXCEPT !.revoked = TRUE]
      BY <1>1, <2>1, <2>2
    <3>2. tokens'[k] \in Rows /\ tokens'[k].family = tokens[k].family
          /\ tokens'[k].parent = tokens[k].parent /\ tokens'[k].revoked
      BY <2>1, <3>1 DEF Rows
    <3> QED BY <2>1, <3>2, TokensAssumption DEF Issued
  <2> QED BY <1>1, <2>1, <2>2 DEF Issued
<1>3. \A k \in Tokens : k \notin Issued => k \notin Issued'
  BY <1>1 DEF Issued, MembersOf
<1>4. Issued' = Issued
  BY <1>2, <1>3 DEF Issued
<1>5. \A f \in Families : MembersOf(f)' = MembersOf(f)
  BY <1>2, <1>4 DEF MembersOf
<1>6. ASSUME NEW f \in Families, f = g PROVE LiveOf(f)' = {}
  BY <1>2, <1>5, <1>6 DEF LiveOf, Live, MembersOf
<1> QED BY <1>1, <1>2, <1>5, <1>6

(* The end of request s.                                                   *)
LEMMA Replied ==
    ASSUME TypeOK, NEW s \in Slots, requests[s] # NoRequest, Reply(s)
    PROVE  /\ \A f \in Families : Serving(f)' = Serving(f) \ {s}
           /\ \A r \in Slots : r # s => requests'[r] = requests[r]
  BY DEF TypeOK, Reply, Serving

(* The next step of request s.                                             *)
LEMMA Moved ==
    ASSUME TypeOK, NEW s \in Slots, requests[s] # NoRequest, NEW step \in {"burn", "user", "revoke", "issue"}, Goto(s, step)
    PROVE  /\ \A f \in Families : Serving(f)' = Serving(f)
           /\ \A r \in Slots : r # s => requests'[r] = requests[r]
           /\ requests'[s].pc = step
           /\ requests'[s].token = requests[s].token
<1>1. requests[s] \in InFlight
  BY DEF TypeOK
<1>2. requests'[s] = [requests[s] EXCEPT !.pc = step]
  BY DEF TypeOK, Goto
<1>3. /\ requests'[s].pc = step /\ requests'[s].token = requests[s].token
      /\ requests'[s].family = requests[s].family
  BY <1>1, <1>2 DEF InFlight
<1>4. \A r \in Slots : r # s => requests'[r] = requests[r]
  BY DEF TypeOK, Goto
<1>5. requests'[s] # NoRequest
  <2>1. requests'[s] \in InFlight
    BY <1>1, <1>2 DEF InFlight
  <2> QED BY <2>1, TokensAssumption
<1> QED BY <1>3, <1>4, <1>5 DEF Serving

LEMMA FamilyStep ==
    ASSUME TurnInv, RotationInv', [Next]_vars, NEW f \in Families
    PROVE  FamilyOK(f)'
<1> USE DEF TurnInv
<1>0. /\ TypeOK /\ TypeOK' /\ RotationInv /\ FamilyOK(f)
      /\ \A s \in Slots : requests[s] # NoRequest => requests[s].family \in Families
  BY TokenFacts DEF RotationInv, InFlight
<1>u. Untouched(f) => FamilyOK(f)'
  BY <1>0, UntouchedOK
<1>1. ASSUME NEW s \in Slots, NEW u \in Users, NEW g \in Families, SignIn(s, u, g)
      PROVE  FamilyOK(f)'
  <2>1. /\ requests'[s] = [user |-> u, family |-> g, token |-> NoToken, pc |-> "issue"]
        /\ requests'[s] # NoRequest
        /\ \A r \in Slots : r # s => requests'[r] = requests[r]
        /\ UNCHANGED <<tokens, ended, contended>>
        /\ requests[s] = NoRequest
    BY <1>0, <1>1, TokensAssumption DEF SignIn, TypeOK, InFlight, history
  <2>2. CASE g = f
    <3>1. MembersOf(f)' = {} /\ Serving(f)' = {s} /\ LiveOf(f)' = {}
      BY <1>1, <2>1, <2>2 DEF SignIn, LiveOf, MembersOf, Serving, Issued
    <3>2. f \notin ended'
      BY <1>0, <1>1, <2>1, <2>2 DEF SignIn, FamilyOK
    <3>3. SoleRequestOK(s, f)'
      BY <2>1, <3>1, <3>2 DEF SoleRequestOK
    <3> QED BY <3>1, <3>2, <3>3 DEF FamilyOK
  <2>3. CASE g # f
    BY <1>u, <2>1, <2>3 DEF Untouched, MembersOf, Serving, Issued
  <2> QED BY <2>2, <2>3
<1>2. ASSUME NEW s \in Slots, NEW k \in Tokens, Present(s, k)
      PROVE  FamilyOK(f)'
  <2>1. /\ requests'[s] = [user |-> tokens[k].user, family |-> tokens[k].family, token |-> k,
                           pc |-> IF tokens[k].revoked THEN "burn" ELSE "user"]
        /\ requests'[s] # NoRequest
        /\ \A r \in Slots : r # s => requests'[r] = requests[r]
        /\ UNCHANGED <<tokens, ended>>
        /\ requests[s] = NoRequest
        /\ k \in Issued
        /\ tokens[k].family \in Families
    <3>1. k \in Issued /\ tokens[k] \in Rows
      BY <1>0, <1>2, TokenFacts DEF Present
    <3>2. requests'[s] = [user |-> tokens[k].user, family |-> tokens[k].family, token |-> k,
                          pc |-> IF tokens[k].revoked THEN "burn" ELSE "user"]
      BY <1>0, <1>2 DEF Present, TypeOK
    <3>3. requests'[s] \in InFlight
      BY <3>1, <3>2 DEF Rows, InFlight, Issued
    <3> QED BY <1>0, <1>2, <3>1, <3>2, <3>3, TokensAssumption DEF Present, TypeOK, Rows
  <2>2. CASE tokens[k].family = f
    <3>1. MembersOf(f)' = MembersOf(f) /\ LiveOf(f)' = LiveOf(f) /\ Live' = Live
      BY <2>1 DEF LiveOf, Live, MembersOf, Issued
    <3>2. CASE Serving(f) = {}
      <4>1. Serving(f)' = {s} /\ contended' = contended
        BY <1>2, <2>1, <2>2, <3>2 DEF Serving, Present, Contend
      <4>2. requests'[s].token = k /\ requests'[s].pc \in {"burn", "user"}
        BY <2>1
      <4>3. requests'[s].pc # "burn" => k \in LiveOf(f)
        BY <2>1, <2>2 DEF LiveOf, Live, MembersOf
      <4>4. f \notin contended' => SoleRequestOK(s, f)'
        BY <1>0, <2>1, <3>1, <4>1, <4>2, <4>3 DEF SoleRequestOK, FamilyOK, LiveOf
      <4> QED BY <1>0, <2>1, <3>1, <4>1, <4>4 DEF FamilyOK, MembersOf
    <3>3. CASE Serving(f) # {}
      BY <1>0, <1>2, <2>1, <2>2, <3>1, <3>3 DEF Present, Contend, FamilyOK
    <3> QED BY <3>2, <3>3
  <2>3. CASE tokens[k].family # f
    <3>1. f \in contended => f \in contended'
      BY <1>2 DEF Present, Contend
    <3> QED BY <1>u, <2>1, <2>3, <3>1 DEF Untouched, MembersOf, Serving, Issued
  <2> QED BY <2>2, <2>3
<1>r. ASSUME NEW s \in Slots, requests[s] # NoRequest, requests[s].family # f,
             \A r \in Slots : r # s => requests'[r] = requests[r],
             requests'[s] = NoRequest \/ requests'[s].family = requests[s].family,
             MembersOf(f)' = MembersOf(f), \A k \in MembersOf(f) : tokens'[k] = tokens[k],
             f \in ended' <=> f \in ended, UNCHANGED contended
      PROVE  FamilyOK(f)'
  BY <1>u, <1>r DEF Untouched, Serving
<1>3. ASSUME NEW s \in Slots, Burn(s)
      PROVE  FamilyOK(f)'
  <2>0. PICK g \in Families : g = requests[s].family
    BY <1>0, <1>3 DEF Burn, At
  <2>1. requests[s] # NoRequest /\ g = requests[s].family /\ tokens' = RevokeFamily(g)
        /\ ended' = ended \cup {g} /\ UNCHANGED contended /\ requests'[s] = NoRequest
    BY <1>0, <1>3, <2>0 DEF Burn, At, Reply, TypeOK
  <2>2. /\ Serving(f)' = Serving(f) \ {s}
        /\ \A r \in Slots : r # s => requests'[r] = requests[r]
    BY <1>0, <1>3, <2>1, Replied DEF Burn
  <2>3. /\ MembersOf(f)' = MembersOf(f)
        /\ \A k \in Tokens : k \notin MembersOf(g) => tokens'[k] = tokens[k]
        /\ \A k \in Issued : tokens'[k].parent = tokens[k].parent
        /\ f = g => LiveOf(f)' = {}
    BY <1>0, <2>0, <2>1, RevokedFamily
  <2>4. CASE g = f
    <3>1. MembersOf(f) # {}
      BY <1>0, <1>3, <2>1, <2>4 DEF Burn, At, RotationInv, RequestOK, MembersOf
    <3>2. f \notin contended => Serving(f)' = {}
      <4>1. s \in Serving(f)
        BY <2>1, <2>4 DEF Serving
      <4> QED BY <1>0, <2>2, <4>1 DEF FamilyOK
    <3> QED BY <1>0, <2>1, <2>3, <2>4, <3>1, <3>2 DEF FamilyOK, MembersOf
  <2>5. CASE g # f
    BY <1>r, <2>1, <2>2, <2>3, <2>5 DEF MembersOf, Issued
  <2> QED BY <2>4, <2>5
<1>4. ASSUME NEW s \in Slots, CheckUser(s) \/ Fail(s)
      PROVE  FamilyOK(f)'
  <2>1. requests[s] # NoRequest /\ UNCHANGED <<tokens, ended, contended>>
    BY <1>4 DEF CheckUser, Fail, At, history
  <2>2. /\ MembersOf(f)' = MembersOf(f) /\ LiveOf(f)' = LiveOf(f) /\ Live' = Live
        /\ \A k \in Tokens : tokens'[k] = tokens[k]
    BY <2>1 DEF LiveOf, Live, MembersOf, Issued
  <2>3. CASE Reply(s)
    <3>1. /\ Serving(f)' = Serving(f) \ {s}
          /\ \A r \in Slots : r # s => requests'[r] = requests[r]
      BY <1>0, <2>1, <2>3, Replied
    <3>2. \A r \in Serving(f)' : SoleRequestOK(r, f) => SoleRequestOK(r, f)'
      BY <2>1, <2>2, <3>1 DEF SoleRequestOK, Serving, MembersOf, Issued
    <3> QED BY <1>0, <2>1, <2>2, <3>1, <3>2 DEF FamilyOK, MembersOf, Issued
  <2>4. CASE At(s, "user") /\ Goto(s, "revoke")
    <3>1. /\ Serving(f)' = Serving(f)
          /\ \A r \in Slots : r # s => requests'[r] = requests[r]
          /\ requests'[s].pc = "revoke" /\ requests'[s].token = requests[s].token
      BY <1>0, <2>1, <2>4, Moved
    <3>2. \A r \in Serving(f)' : SoleRequestOK(r, f) => SoleRequestOK(r, f)'
      BY <2>1, <2>2, <2>4, <3>1 DEF SoleRequestOK, Serving, MembersOf, Issued, At
    <3> QED BY <1>0, <2>1, <2>2, <3>1, <3>2 DEF FamilyOK, MembersOf, Issued
  <2> QED BY <1>4, <2>3, <2>4 DEF CheckUser, Fail
<1>5. ASSUME NEW s \in Slots, RevokePresented(s)
      PROVE  FamilyOK(f)'
  <2> DEFINE g == requests[s].family
             p == requests[s].token
  <2>1. /\ requests[s] # NoRequest /\ requests[s].pc = "revoke" /\ g \in Families
        /\ p \in MembersOf(g) /\ UNCHANGED <<ended, contended>>
    BY <1>0, <1>5 DEF RevokePresented, At, RotationInv, RequestOK, MembersOf, history
  <2>2. /\ Serving(f)' = Serving(f)
        /\ \A r \in Slots : r # s => requests'[r] = requests[r]
        /\ requests'[s].pc = "issue" /\ requests'[s].token = p
    BY <1>0, <1>5, <2>1, Moved DEF RevokePresented
  <2>3. /\ \A k \in Tokens : k # p => tokens'[k] = tokens[k]
        /\ tokens'[p] \in Rows /\ tokens'[p].family = tokens[p].family
        /\ tokens'[p].parent = tokens[p].parent /\ tokens'[p].revoked
    <3>1. p \in Tokens /\ tokens[p] \in Rows
      BY <1>0, <2>1, TokenFacts DEF MembersOf, Issued
    <3>2. tokens'[p] = [tokens[p] EXCEPT !.revoked = TRUE]
      BY <1>0, <1>5, <3>1 DEF RevokePresented, TypeOK
    <3> QED BY <1>0, <1>5, <3>1, <3>2 DEF RevokePresented, TypeOK, Rows
  <2>4. MembersOf(f)' = MembersOf(f) /\ Issued' = Issued
    BY <2>1, <2>3, TokensAssumption DEF MembersOf, Issued
  <2>5. CASE g = f
    <3> SUFFICES ASSUME f \notin contended PROVE FamilyOK(f)'
      BY <1>0, <2>1, <2>4 DEF FamilyOK
    <3>1. s \in Serving(f) /\ Serving(f)' = {s}
      BY <1>0, <2>1, <2>2, <2>5 DEF FamilyOK, Serving
    <3>2. p \in LiveOf(f) /\ f \notin ended
      BY <1>0, <2>1, <2>5, <3>1 DEF FamilyOK, SoleRequestOK, LiveOf
    <3>3. LiveOf(f)' = {}
      BY <1>0, <2>3, <2>4, <3>2 DEF FamilyOK, LiveOf, Live, Issued
    <3>4. \A k \in MembersOf(f) : tokens[k].parent # NoToken => tokens[k].parent # p
      BY <1>0, <3>2 DEF RotationInv, ExchangedIsRevoked, LiveOf, MembersOf
    <3>5. \A k \in MembersOf(f) : tokens'[k].parent = tokens[k].parent
      BY <2>3 DEF MembersOf, Issued
    <3>6. SoleRequestOK(s, f)'
      BY <2>1, <2>2, <2>4, <3>2, <3>3, <3>4, <3>5 DEF SoleRequestOK
    <3> QED BY <1>0, <2>1, <2>4, <3>1, <3>2, <3>3, <3>5, <3>6 DEF FamilyOK
  <2>6. CASE g # f
    <3>1. \A k \in MembersOf(f) : tokens'[k] = tokens[k]
      BY <2>1, <2>3, <2>6 DEF MembersOf, Issued
    <3>2. requests'[s] = NoRequest \/ requests'[s].family = g
      BY <1>0, <1>5, <2>1 DEF RevokePresented, Goto, TypeOK, InFlight
    <3> QED BY <1>r, <2>1, <2>2, <2>4, <2>6, <3>1, <3>2
  <2> QED BY <2>5, <2>6
<1>6. ASSUME NEW s \in Slots, NEW k \in Tokens, Issue(s, k)
      PROVE  FamilyOK(f)'
  <2> DEFINE g == requests[s].family
             p == requests[s].token
  <2>1. /\ requests[s] # NoRequest /\ requests[s].pc = "issue" /\ g \in Families
        /\ UNCHANGED <<ended, contended>> /\ requests'[s] = NoRequest
        /\ k \notin Issued
    BY <1>0, <1>6 DEF Issue, At, history, Reply, TypeOK, Issued
  <2>2. /\ Serving(f)' = Serving(f) \ {s}
        /\ \A r \in Slots : r # s => requests'[r] = requests[r]
    BY <1>0, <1>6, <2>1, Replied DEF Issue
  <2>3. /\ \A j \in Tokens : j # k => tokens'[j] = tokens[j]
        /\ tokens'[k].family = g /\ tokens'[k].parent = p /\ ~ tokens'[k].revoked
        /\ Issued' = Issued \cup {k}
    <3>1. tokens'[k] = [user |-> requests[s].user, family |-> g, revoked |-> FALSE, parent |-> p]
      BY <1>0, <1>6 DEF Issue, TypeOK
    <3>2. tokens'[k] # NoToken
      <4>1. requests[s] \in InFlight
        BY <1>0, <2>1, TokenFacts
      <4>2. tokens'[k] \in Rows
        BY <3>1, <4>1 DEF Rows, InFlight
      <4> QED BY <4>2, TokensAssumption
    <3>3. \A j \in Tokens : j # k => tokens'[j] = tokens[j]
      BY <1>0, <1>6 DEF Issue, TypeOK
    <3> QED BY <3>1, <3>2, <3>3 DEF Issued
  <2>4. CASE g = f
    <3>1. MembersOf(f)' = MembersOf(f) \cup {k}
      BY <2>1, <2>3, <2>4 DEF MembersOf, Issued
    <3> SUFFICES ASSUME f \notin contended PROVE FamilyOK(f)'
      BY <2>1, <3>1 DEF FamilyOK
    <3>2. s \in Serving(f) /\ Serving(f)' = {}
      BY <1>0, <2>1, <2>2, <2>4 DEF FamilyOK, Serving
    <3>3. /\ LiveOf(f) = {} /\ f \notin ended
          /\ \A j \in MembersOf(f) : tokens[j].parent # NoToken => tokens[j].parent # p
      BY <1>0, <2>1, <3>2 DEF FamilyOK, SoleRequestOK
    <3>4. \A j, i \in LiveOf(f)' : j = i
      BY <2>3, <3>1, <3>3 DEF LiveOf, Live, MembersOf, Issued
    <3>5. ASSUME NEW i \in MembersOf(f)', NEW j \in MembersOf(f)',
                 tokens'[j].parent # NoToken, tokens'[i].parent = tokens'[j].parent
          PROVE  i = j
      BY <1>0, <2>1, <2>3, <3>1, <3>3, <3>5 DEF FamilyOK, MembersOf, Issued
    <3> QED BY <2>1, <3>1, <3>2, <3>3, <3>4, <3>5 DEF FamilyOK
  <2>5. CASE g # f
    <3>1. MembersOf(f)' = MembersOf(f)
      BY <2>1, <2>3, <2>5 DEF MembersOf, Issued
    <3>2. \A j \in MembersOf(f) : tokens'[j] = tokens[j]
      BY <2>1, <2>3 DEF MembersOf, Issued
    <3> QED BY <1>r, <2>1, <2>2, <2>5, <3>1, <3>2
  <2> QED BY <2>4, <2>5
<1>7. ASSUME NEW s \in Slots, NEW k \in Tokens, LogOut(s, k)
      PROVE  FamilyOK(f)'
  <2>0. PICK g \in Families : g = tokens[k].family
    BY <1>0, <1>7, TokenFacts DEF LogOut, Rows
  <2>1. /\ k \in MembersOf(g) /\ g = tokens[k].family /\ tokens' = RevokeFamily(g)
        /\ ended' = ended \cup {g} /\ UNCHANGED requests /\ Serving(f)' = Serving(f)
    BY <1>0, <1>7, <2>0 DEF LogOut, MembersOf, Serving
  <2>2. /\ MembersOf(f)' = MembersOf(f)
        /\ \A j \in Tokens : j \notin MembersOf(g) => tokens'[j] = tokens[j]
        /\ \A j \in Issued : tokens'[j].parent = tokens[j].parent
        /\ f = g => LiveOf(f)' = {}
    BY <1>0, <2>0, <2>1, RevokedFamily
  <2>3. CASE g = f
    <3>1. f \notin contended' => Serving(f) = {} /\ f \notin contended
      BY <1>7, <2>0, <2>3 DEF LogOut, Contend
    <3> QED BY <1>0, <2>1, <2>2, <2>3, <3>1 DEF FamilyOK, MembersOf
  <2>4. CASE g # f
    <3>1. \A j \in MembersOf(f) : tokens'[j] = tokens[j]
      BY <2>2, <2>4 DEF MembersOf, Issued
    <3>2. f \in contended => f \in contended'
      BY <1>7 DEF LogOut, Contend
    <3> QED BY <1>u, <2>1, <2>2, <2>4, <3>1, <3>2 DEF Untouched
  <2> QED BY <2>3, <2>4
<1>8. CASE UNCHANGED <<tokens, requests, ended, contended>>
  BY <1>u, <1>8 DEF Untouched, MembersOf, Serving, Issued
<1> QED
  BY <1>1, <1>2, <1>3, <1>4, <1>5, <1>6, <1>7, <1>8
  DEF Next, Rotate, vars, history, Expire, SetActive

(* TurnInv is inductive, and the three properties follow from it.          *)
LEMMA TurnInit == Init => TurnInv
  BY RotationInit DEF TurnInv, FamilyOK, Init, LiveOf, Live, MembersOf, Issued, Serving

LEMMA TurnStep == TurnInv /\ [Next]_vars => TurnInv'
  BY RotationStep, FamilyStep DEF TurnInv

LEMMA TurnInvariant == Spec => []TurnInv
  BY TurnInit, TurnStep, PTL DEF Spec

(* Rows and requests keep their types.                                     *)
THEOREM TypeCorrect == Spec => []TypeOK
<1>1. Spec => []RotationInv
  BY RotationInit, RotationStep, PTL DEF Spec
<1>2. RotationInv => TypeOK
  BY DEF RotationInv
<1> QED BY <1>1, <1>2, PTL

(* A token that was exchanged is revoked, whatever interleaves.            *)
THEOREM RotationRevokes == Spec => []ExchangedIsRevoked
<1>1. Spec => []RotationInv
  BY RotationInit, RotationStep, PTL DEF Spec
<1>2. RotationInv => ExchangedIsRevoked
  BY DEF RotationInv
<1> QED BY <1>1, <1>2, PTL

(* In a family whose requests come in turn each token is exchanged once.   *)
THEOREM ExchangesInTurn == Spec => []ExchangedOnceInTurn
<1>1. TurnInv => ExchangedOnceInTurn
  <2> SUFFICES ASSUME TurnInv, NEW j \in Issued, NEW k \in Issued,
                      tokens[k].family \notin contended, tokens[k].parent # NoToken,
                      tokens[j].parent = tokens[k].parent
               PROVE  j = k
    BY DEF ExchangedOnceInTurn
  <2>1. tokens[j].family = tokens[k].family
    BY DEF TurnInv, RotationInv, ExchangedIsRevoked
  <2>2. tokens[k].family \in Families
    BY TokenFacts DEF TurnInv, RotationInv, Issued, Rows
  <2> QED BY <2>1, <2>2 DEF TurnInv, FamilyOK, MembersOf
<1> QED BY <1>1, TurnInvariant, PTL

(* Such a family has at most one token that works.                         *)
THEOREM OneLiveInTurn == Spec => []OneLivePerFamily
<1>1. TurnInv => OneLivePerFamily
  <2>1. TurnInv => \A k \in Live : tokens[k].family \in Families
    BY TokenFacts DEF TurnInv, RotationInv, Live, Issued, Rows
  <2> QED BY <2>1 DEF TurnInv, FamilyOK, OneLivePerFamily, LiveOf, MembersOf, Live
<1> QED BY <1>1, TurnInvariant, PTL

(* And once it was logged out, or a reuse was detected, it has none.       *)
THEOREM EndedIsDeadInTurn == Spec => []EndedFamiliesStayDead
<1>1. TurnInv => EndedFamiliesStayDead
  <2>1. TurnInv => \A k \in Live : tokens[k].family \in Families
    BY TokenFacts DEF TurnInv, RotationInv, Live, Issued, Rows
  <2> QED BY <2>1 DEF TurnInv, FamilyOK, EndedFamiliesStayDead, LiveOf, MembersOf, Live
<1> QED BY <1>1, TurnInvariant, PTL
=============================================================================
