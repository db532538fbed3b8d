--------------------------- MODULE AccountsProofs ---------------------------
(***************************************************************************)
(* For every number of accounts, addresses, organizations and calls at a   *)
(* time: accounts are a way of signing in that Tokens knows, an address    *)
(* has one account, and a token is of whoever gave the account's password. *)
(***************************************************************************)
EXTENDS Accounts, TokensProofs

-----------------------------------------------------------------------------

(* A sign-in is a step of Tokens, whatever it costs above.                 *)
LEMMA OpenIsSignIn ==
    ASSUME NEW s \in Slots, NEW u \in Users, NEW p, Open(s, u, p)
    PROVE  Next
  BY DEF Open, Next

LEMMA ServeIsNext ==
    ASSUME NEW s \in Slots, Serve(s)
    PROVE  [Next]_vars
<1>1. ASSUME NEW u \in Users, Insert(s, u)
      PROVE  [Next]_vars
  BY <1>1, OpenIsSignIn DEF Insert
<1>2. ASSUME NEW u \in Users, NEW e \in Addresses, NEW p \in Passwords, Login(s, u, e, p)
      PROVE  [Next]_vars
  BY <1>2, OpenIsSignIn DEF Login
<1>3. ASSUME Fail(s)
      PROVE  [Next]_vars
  BY <1>3 DEF Next
<1>4. CASE Mismatch(s) \/ CallFails(s) \/ GiveUp(s)
  BY <1>3, <1>4 DEF Mismatch, CallFails, GiveUp
<1>5. ASSUME NEW k \in Tokens, Refresh(s, k) \/ EndSession(s, k)
      PROVE  [Next]_vars
  BY <1>5 DEF Refresh, EndSession, Next
<1>6. CASE BurnFamily(s) \/ GoOn(s)
  BY <1>6 DEF BurnFamily, GoOn, Rotate, Next
<1>7. ASSUME NEW kind, NEW row, Apply(s, kind, row)
      PROVE  [Next]_vars
  BY <1>7 DEF Apply
<1>8. CASE CheckAddress(s) \/ InsertRefused(s) \/ Compare(s) \/ Touch(s)
  BY <1>8 DEF CheckAddress, InsertRefused, Compare, Touch
<1> QED
  BY <1>1, <1>2, <1>4, <1>5, <1>6, <1>7, <1>8 DEF Serve

LEMMA StepImplementsTokens == [ANext]_avars => [Next]_vars
<1> SUFFICES ASSUME [ANext]_avars PROVE [Next]_vars
  OBVIOUS
<1>1. ASSUME NEW u \in Users, SwitchActive(u)
      PROVE  [Next]_vars
  BY <1>1 DEF SwitchActive, Next
<1>2. ASSUME NEW u \in Users, NEW e \in Addresses, Rename(u, e)
      PROVE  [Next]_vars
  BY <1>2 DEF Rename
<1>3. ASSUME NEW o \in Organizations, NEW status, SetOrganization(o, status)
      PROVE  [Next]_vars
  BY <1>3 DEF SetOrganization
<1>4. ASSUME NEW k \in Tokens, RunsOut(k)
      PROVE  [Next]_vars
  BY <1>4 DEF RunsOut, Next
<1>5. CASE UNCHANGED avars
  BY <1>5 DEF avars
<1> QED
  BY <1>1, <1>2, <1>3, <1>4, <1>5, ServeIsNext DEF ANext

(* Registration, creation, sign-in and administration, statement by        *)
(* statement, are behaviours of Tokens: what is proved of tokens holds     *)
(* above them too.                                                         *)
THEOREM AccountsImplementTokens == ASpec => ImplementsTokens
<1>1. AInit => Init
  BY DEF AInit
<1> QED
  BY <1>1, StepImplementsTokens, PTL DEF ASpec, Spec, ImplementsTokens

-----------------------------------------------------------------------------

ATypeOK ==
    /\ accounts \in [Users -> AccountRows \cup {NoAccount}]
    /\ orgs \in [Organizations -> {"active", "inactive", "removed"}]
    /\ calls \in [Slots -> NewAccounts \cup Logins \cup {NoCall}]
    /\ opened \in [Families -> Passwords \cup {NoPassword}]

(* A sign-in under way holds the family it asked for; what asks for an     *)
(* account holds none yet.                                                 *)
CallOwned(s) ==
    calls[s] # NoCall =>
        IF calls[s].kind = "login"
        THEN /\ requests[s] # NoRequest
             /\ requests[s].user = calls[s].user
             /\ opened[requests[s].family] = calls[s].password
        ELSE requests[s] = NoRequest

(* Once the password is compared, whoever works on a family gave the       *)
(* password of its account.                                                *)
RequestOwned(s) ==
    requests[s] # NoRequest =>
        /\ accounts[requests[s].user] # NoAccount
        /\ \/ calls[s] # NoCall /\ calls[s].pc = "compare"
           \/ accounts[requests[s].user].password = opened[requests[s].family]

OwnershipInv ==
    /\ ATypeOK
    /\ RotationInv
    /\ TokensAreOwn
    /\ \A s \in Slots : CallOwned(s) /\ RequestOwned(s)

(* Accounts keep their password.                                           *)
PasswordsPersist ==
    \A u \in Users :
        accounts[u] # NoAccount =>
            accounts'[u] # NoAccount /\ accounts'[u].password = accounts[u].password

LEMMA ATypeStep ==
    ASSUME ATypeOK, TypeOK, ANext
    PROVE  ATypeOK'
<1>1. \A s \in Slots : calls[s] # NoCall => calls[s] \in NewAccounts \cup Logins
  BY DEF ATypeOK
<1>2. ASSUME NEW s \in Slots, HangUp(s)
      PROVE  calls' \in [Slots -> NewAccounts \cup Logins \cup {NoCall}]
  BY <1>2 DEF HangUp, ATypeOK
<1>3. ASSUME NEW s \in Slots, NEW u \in Users, NEW p \in Passwords, Open(s, u, p)
      PROVE  opened' \in [Families -> Passwords \cup {NoPassword}]
  BY <1>3 DEF Open, ATypeOK
<1>4. ASSUME NEW s \in Slots, NEW kind \in {"register", "create"}, NEW row \in Forms,
             Apply(s, kind, row)
      PROVE  ATypeOK'
  <2>1. [kind |-> kind, row |-> row, pc |-> "check"] \in NewAccounts
    BY AccountsAssumption DEF NewAccounts
  <2> QED BY <1>4, <2>1 DEF Apply, ATypeOK, directory
<1>5. ASSUME NEW s \in Slots, CheckAddress(s)
      PROVE  ATypeOK'
  <2>1. [calls[s] EXCEPT !.pc = "insert"] \in NewAccounts
    BY <1>1, <1>5 DEF CheckAddress, Calling, NewAccounts, Logins
  <2> QED BY <1>2, <1>5, <2>1 DEF CheckAddress, ATypeOK, directory
<1>6. ASSUME NEW s \in Slots, NEW u \in Users, Insert(s, u)
      PROVE  ATypeOK'
  <2>1. calls[s].row \in AccountRows
    BY <1>1, <1>6 DEF Insert, Calling, NewAccounts, Logins
  <2>2. calls[s].row.password \in Passwords
    BY <2>1 DEF AccountRows
  <2>3. opened' \in [Families -> Passwords \cup {NoPassword}]
    BY <1>3, <1>6, <2>2 DEF Insert, ATypeOK
  <2> QED BY <1>2, <1>6, <2>1, <2>3 DEF Insert, ATypeOK
<1>7. ASSUME NEW s \in Slots, NEW u \in Users, NEW e \in Addresses, NEW p \in Passwords,
             Login(s, u, e, p)
      PROVE  ATypeOK'
  <2>1. [kind |-> "login", user |-> u, password |-> p, pc |-> "compare"] \in Logins
    BY DEF Logins
  <2> QED BY <1>3, <1>7, <2>1 DEF Login, ATypeOK, directory
<1>8. ASSUME NEW s \in Slots, Compare(s)
      PROVE  ATypeOK'
  <2>1. [calls[s] EXCEPT !.pc = "touch"] \in Logins
    BY <1>1, <1>8 DEF Compare, Calling, NewAccounts, Logins
  <2> QED BY <1>8, <2>1 DEF Compare, ATypeOK, directory
<1>9. ASSUME NEW s \in Slots, InsertRefused(s) \/ Mismatch(s) \/ Touch(s) \/ CallFails(s)
      PROVE  ATypeOK'
  BY <1>2, <1>9 DEF InsertRefused, Mismatch, Touch, CallFails, ATypeOK, directory
<1>10. ASSUME NEW s \in Slots, Elsewhere(s)
       PROVE  ATypeOK'
  BY <1>10 DEF Elsewhere, ATypeOK, directory
<1>11. ASSUME NEW s \in Slots, Serve(s)
       PROVE  ATypeOK'
  BY <1>4, <1>5, <1>6, <1>7, <1>8, <1>9, <1>10, <1>11
  DEF Serve, Refresh, EndSession, BurnFamily, GoOn, GiveUp
<1>12. ASSUME NEW u \in Users, NEW e \in Addresses, Rename(u, e)
       PROVE  ATypeOK'
  <2>1. [accounts[u] EXCEPT !.address = e] \in AccountRows
    BY <1>12 DEF Rename, Stored, ATypeOK, AccountRows
  <2> QED BY <1>12, <2>1 DEF Rename, ATypeOK
<1>13. ASSUME NEW o \in Organizations, NEW status \in {"active", "inactive", "removed"},
              SetOrganization(o, status)
       PROVE  ATypeOK'
  BY <1>13 DEF SetOrganization, ATypeOK
<1>14. ASSUME NEW u \in Users, SwitchActive(u)
       PROVE  ATypeOK'
  BY <1>14 DEF SwitchActive, ATypeOK
<1>15. ASSUME NEW k \in Tokens, RunsOut(k)
       PROVE  ATypeOK'
  BY <1>15 DEF RunsOut, ATypeOK
<1> QED BY <1>11, <1>12, <1>13, <1>14, <1>15 DEF ANext

LEMMA PasswordStep ==
    ASSUME ATypeOK, ANext
    PROVE  PasswordsPersist
<1>1. ASSUME NEW u \in Users, NEW e \in Addresses, Rename(u, e)
      PROVE  PasswordsPersist
  <2>1. accounts[u] \in AccountRows
    BY <1>1 DEF Rename, Stored, ATypeOK
  <2>2. /\ accounts'[u] \in AccountRows
        /\ accounts'[u].password = accounts[u].password
    BY <1>1, <2>1 DEF Rename, ATypeOK, AccountRows
  <2> QED BY <1>1, <2>2, AccountsAssumption DEF Rename, PasswordsPersist, ATypeOK
<1>2. ASSUME NEW s \in Slots, NEW u \in Users, Insert(s, u)
      PROVE  PasswordsPersist
  BY <1>2 DEF Insert, PasswordsPersist, ATypeOK
<1>3. CASE UNCHANGED accounts
  BY <1>3 DEF PasswordsPersist
<1> QED
  BY <1>1, <1>2, <1>3
  DEF ANext, Serve, Apply, CheckAddress, InsertRefused, Login, Compare, Mismatch, Touch,
      CallFails, Refresh, EndSession, BurnFamily, GoOn, GiveUp, Elsewhere, directory,
      SwitchActive, SetOrganization, RunsOut

(* A family that is in use keeps the password it was asked for with.       *)
OpenedPersists ==
    /\ \A k \in Issued : opened'[tokens[k].family] = opened[tokens[k].family]
    /\ \A s \in Slots :
          requests[s] # NoRequest => opened'[requests[s].family] = opened[requests[s].family]

LEMMA OpenedByOpen ==
    ASSUME ATypeOK, TypeOK,
           NEW s \in Slots, NEW u \in Users, NEW p \in Passwords, Open(s, u, p)
    PROVE  OpenedPersists
<1>1. PICK f \in Families : SignIn(s, u, f) /\ opened' = [opened EXCEPT ![f] = p]
  BY DEF Open
<1>2. /\ \A k \in Issued : tokens[k].family # f
      /\ \A q \in Slots : requests[q] # NoRequest => requests[q].family # f
  BY <1>1 DEF SignIn, MembersOf, Serving
<1> QED BY <1>1, <1>2 DEF OpenedPersists, ATypeOK

LEMMA OpenedStep ==
    ASSUME ATypeOK, TypeOK, ANext
    PROVE  OpenedPersists
<1>1. ASSUME NEW s \in Slots, NEW u \in Users, Insert(s, u)
      PROVE  OpenedPersists
  <2>1. calls[s].row.password \in Passwords
    BY <1>1 DEF Insert, Calling, ATypeOK, NewAccounts, Logins, AccountRows
  <2> QED BY <1>1, <2>1, OpenedByOpen DEF Insert, OpenedPersists
<1>2. ASSUME NEW s \in Slots, NEW u \in Users, NEW e \in Addresses, NEW p \in Passwords,
             Login(s, u, e, p)
      PROVE  OpenedPersists
  BY <1>2, OpenedByOpen DEF Login
<1>3. CASE UNCHANGED opened
  BY <1>3 DEF OpenedPersists
<1> QED
  BY <1>1, <1>2, <1>3
  DEF ANext, Serve, Apply, CheckAddress, InsertRefused, Compare, Mismatch, Touch, CallFails,
      Refresh, EndSession, BurnFamily, GoOn, GiveUp, Elsewhere,
      SwitchActive, Rename, SetOrganization, RunsOut

(* A slot that does not move stays as it is, since what it relies on       *)
(* persists.                                                               *)
LEMMA SlotFrame ==
    ASSUME OwnershipInv, PasswordsPersist, OpenedPersists,
           NEW s \in Slots, requests'[s] = requests[s], calls'[s] = calls[s]
    PROVE  CallOwned(s)' /\ RequestOwned(s)'
<1>1. requests[s] # NoRequest => requests[s].user \in Users
  BY TokenFacts DEF OwnershipInv, RotationInv, InFlight
<1> QED
  BY <1>1 DEF OwnershipInv, CallOwned, RequestOwned, PasswordsPersist, OpenedPersists

(* The slot of a call has just done what its state says.                   *)
LEMMA OpenOwned ==
    ASSUME ATypeOK, TypeOK,
           NEW s \in Slots, NEW u \in Users, NEW p \in Passwords, Open(s, u, p)
    PROVE  /\ requests'[s] # NoRequest
           /\ requests'[s].user = u
           /\ opened'[requests'[s].family] = p
           /\ \A q \in Slots \ {s} : requests'[q] = requests[q]
<1>1. PICK f \in Families : SignIn(s, u, f) /\ opened' = [opened EXCEPT ![f] = p]
  BY DEF Open
<1>2. requests'[s] = [user |-> u, family |-> f, token |-> NoToken, pc |-> "issue"]
  BY <1>1 DEF SignIn, TypeOK
<1>3. requests'[s] \in InFlight
  BY <1>2 DEF InFlight
<1> QED BY <1>1, <1>2, <1>3, TokensAssumption DEF SignIn, TypeOK, ATypeOK

SlotsOwned == \A s \in Slots : CallOwned(s) /\ RequestOwned(s)

LEMMA SlotStep ==
    ASSUME OwnershipInv, PasswordsPersist, OpenedPersists, NEW s \in Slots, Serve(s)
    PROVE  SlotsOwned'
<1> USE DEF OwnershipInv, RotationInv
<1>1. ASSUME CallOwned(s)', RequestOwned(s)',
             \A q \in Slots \ {s} : requests'[q] = requests[q] /\ calls'[q] = calls[q]
      PROVE  SlotsOwned'
  BY <1>1, SlotFrame DEF SlotsOwned
<1>2. calls[s] # NoCall => calls[s] \in NewAccounts \cup Logins
  BY DEF ATypeOK
<1>3. ASSUME NEW kind \in {"register", "create"}, NEW row \in Forms, Apply(s, kind, row)
      PROVE  SlotsOwned'
  <2>1. calls'[s] = [kind |-> kind, row |-> row, pc |-> "check"]
    BY <1>3 DEF Apply, ATypeOK
  <2> QED
    BY <1>1, <1>3, <2>1
    DEF Apply, Idle, CallOwned, RequestOwned, ATypeOK, vars, directory
<1>4. CASE CheckAddress(s)
  <2>1. calls[s] \in NewAccounts
    BY <1>2, <1>4 DEF CheckAddress, Calling, Logins
  <2>2. calls'[s] = NoCall \/ calls'[s] = [calls[s] EXCEPT !.pc = "insert"]
    BY <1>4 DEF CheckAddress, HangUp, ATypeOK
  <2>3. requests[s] = NoRequest
    BY <1>4, <2>1 DEF CallOwned, NewAccounts, CheckAddress, Calling
  <2> QED
    BY <1>1, <1>4, <2>1, <2>2, <2>3
    DEF CheckAddress, HangUp, CallOwned, RequestOwned, NewAccounts, ATypeOK, vars
<1>5. ASSUME NEW u \in Users, Insert(s, u)
      PROVE  SlotsOwned'
  <2>1. calls[s] \in NewAccounts /\ calls'[s] = NoCall
    BY <1>2, <1>5 DEF Insert, Calling, Logins, HangUp, ATypeOK
  <2>2. requests[s] = NoRequest
    BY <1>5, <2>1 DEF CallOwned, NewAccounts, Insert, Calling
  <2>3. calls[s].row.password \in Passwords /\ calls[s].row \in AccountRows
    BY <2>1 DEF NewAccounts, AccountRows
  <2>4. accounts'[u] = calls[s].row /\ calls[s].row # NoAccount
    BY <1>5, <2>3, AccountsAssumption DEF Insert, ATypeOK
  <2>5. \A q \in Slots \ {s} : calls'[q] = calls[q]
    BY <1>5 DEF Insert, HangUp, ATypeOK
  <2>6. CASE Open(s, u, calls[s].row.password)
    BY <1>1, <2>1, <2>3, <2>4, <2>5, <2>6, OpenOwned DEF CallOwned, RequestOwned
  <2>7. CASE UNCHANGED <<vars, opened>>
    BY <1>1, <2>1, <2>2, <2>5, <2>7 DEF CallOwned, RequestOwned, vars
  <2> QED BY <1>5, <2>6, <2>7 DEF Insert
<1>6. CASE InsertRefused(s)
  <2>1. calls[s] \in NewAccounts
    BY <1>2, <1>6 DEF InsertRefused, Calling, Logins
  <2>2. requests[s] = NoRequest
    BY <1>6, <2>1 DEF CallOwned, NewAccounts, InsertRefused, Calling
  <2> QED
    BY <1>1, <1>6, <2>2
    DEF InsertRefused, HangUp, CallOwned, RequestOwned, ATypeOK, vars
<1>7. ASSUME NEW u \in Users, NEW e \in Addresses, NEW p \in Passwords, Login(s, u, e, p)
      PROVE  SlotsOwned'
  <2>1. calls'[s] = [kind |-> "login", user |-> u, password |-> p, pc |-> "compare"]
    BY <1>7 DEF Login, ATypeOK
  <2>2. calls'[s] \in Logins
    BY <2>1 DEF Logins
  <2>3. accounts'[u] # NoAccount
    BY <1>7 DEF Login, Stored, directory
  <2>4. /\ requests'[s] # NoRequest
        /\ requests'[s].user = u
        /\ opened'[requests'[s].family] = p
        /\ \A q \in Slots \ {s} : requests'[q] = requests[q]
    BY <1>7, OpenOwned DEF Login
  <2>5. CallOwned(s)' /\ RequestOwned(s)'
    BY <2>1, <2>2, <2>3, <2>4, AccountsAssumption DEF CallOwned, RequestOwned
  <2>6. \A q \in Slots \ {s} : calls'[q] = calls[q]
    BY <1>7 DEF Login, ATypeOK
  <2> QED BY <1>1, <2>4, <2>5, <2>6
<1>8. CASE Compare(s)
  <2>1. calls[s] \in Logins
    BY <1>2, <1>8 DEF Compare, Calling, NewAccounts
  <2>2. calls'[s] = [calls[s] EXCEPT !.pc = "touch"]
    BY <1>8 DEF Compare, ATypeOK
  <2>3. calls'[s] \in Logins
    BY <2>1, <2>2 DEF Logins
  <2> QED
    BY <1>1, <1>8, <2>1, <2>2, <2>3, AccountsAssumption
    DEF Compare, Calling, Matches, CallOwned, RequestOwned, Logins, ATypeOK, vars, directory
<1>9. CASE Touch(s)
  BY <1>1, <1>9 DEF Touch, Calling, HangUp, CallOwned, RequestOwned, ATypeOK, vars, directory
<1>10. CASE Mismatch(s) \/ CallFails(s)
  <2>1. calls'[s] = NoCall /\ requests'[s] = NoRequest
    BY <1>10 DEF Mismatch, CallFails, Calling, HangUp, Fail, Reply, ATypeOK, TypeOK, vars
  <2> QED
    BY <1>1, <1>10, <2>1
    DEF Mismatch, CallFails, HangUp, Fail, Reply, CallOwned, RequestOwned, ATypeOK, TypeOK, vars
<1>11. ASSUME NEW k \in Tokens, Refresh(s, k) \/ EndSession(s, k)
       PROVE  SlotsOwned'
  <2>1. CASE EndSession(s, k)
    BY <1>1, <2>1 DEF EndSession, LogOut, Elsewhere, CallOwned, RequestOwned, directory
  <2>2. CASE Refresh(s, k)
    <3>1. /\ requests'[s].user = tokens[k].user
          /\ requests'[s].family = tokens[k].family
      BY <2>2 DEF Refresh, Present, TypeOK
    <3> QED
      BY <1>1, <2>2, <3>1
      DEF Refresh, Present, Elsewhere, CallOwned, RequestOwned, TokensAreOwn, TypeOK, directory
  <2> QED BY <1>11, <2>1, <2>2
<1>12. CASE BurnFamily(s) \/ GoOn(s) \/ GiveUp(s)
  <2>1. /\ requests'[s] # NoRequest =>
              /\ requests[s] # NoRequest
              /\ requests'[s].user = requests[s].user
              /\ requests'[s].family = requests[s].family
        /\ \A q \in Slots \ {s} : requests'[q] = requests[q]
    <3>1. requests[s] \in InFlight
      BY <1>12, TokenFacts DEF BurnFamily, Burn, At, GoOn, GiveUp, Fail
    <3> QED
      BY <1>12, <3>1
      DEF BurnFamily, Burn, Reply, GoOn, Rotate, CheckUser, RevokePresented, Issue, Goto,
          GiveUp, Fail, TypeOK, InFlight
  <2> QED
    BY <1>1, <1>12, <2>1
    DEF BurnFamily, GoOn, GiveUp, Elsewhere, CallOwned, RequestOwned, directory
<1> QED
  BY <1>3, <1>4, <1>5, <1>6, <1>7, <1>8, <1>9, <1>10, <1>11, <1>12 DEF Serve

(* The only new token is one whose request was in order.                   *)
LEMMA TokensStep ==
    ASSUME OwnershipInv, PasswordsPersist, OpenedPersists, ANext
    PROVE  TokensAreOwn'
<1> USE DEF OwnershipInv, RotationInv
<1>1. [Next]_vars
  BY StepImplementsTokens
<1>2. \A k \in Issued : Persists(k)
  BY <1>1, RowsPersist
<1>3. ASSUME NEW k \in Issued
      PROVE  /\ accounts'[tokens'[k].user] # NoAccount
             /\ accounts'[tokens'[k].user].password = opened'[tokens'[k].family]
  <2>1. tokens[k].user \in Users
    BY <1>3, TokenFacts DEF Rows, Issued
  <2> QED
    BY <1>2, <1>3, <2>1 DEF TokensAreOwn, Persists, PasswordsPersist, OpenedPersists
<1>4. ASSUME NEW s \in Slots, NEW k \in Tokens, Elsewhere(s), Issue(s, k)
      PROVE  /\ accounts'[tokens'[k].user] # NoAccount
             /\ accounts'[tokens'[k].user].password = opened'[tokens'[k].family]
  <2>1. /\ tokens'[k].user = requests[s].user
        /\ tokens'[k].family = requests[s].family
    BY <1>4 DEF Issue, TypeOK
  <2>2. RequestOwned(s) /\ requests[s] # NoRequest /\ calls[s] = NoCall
    BY <1>4 DEF Issue, At, Elsewhere
  <2> QED BY <1>4, <2>1, <2>2 DEF RequestOwned, Elsewhere, directory
<1>5. ASSUME NEW k \in Tokens, k \in Issued', k \notin Issued
      PROVE  \E s \in Slots : Elsewhere(s) /\ Issue(s, k)
  <2>1. tokens[k] = NoToken /\ tokens'[k] # NoToken
    BY <1>5 DEF Issued
  <2>2. ASSUME NEW f, tokens' = RevokeFamily(f)
        PROVE  FALSE
    BY <2>1, <2>2 DEF RevokeFamily, MembersOf, Issued
  <2>3. ASSUME NEW s \in Slots, GoOn(s)
        PROVE  Elsewhere(s) /\ Issue(s, k)
    <3>1. ~ Burn(s) /\ ~ CheckUser(s)
      BY <2>1, <2>2 DEF Burn, CheckUser
    <3>2. ~ RevokePresented(s)
      <4> SUFFICES ASSUME RevokePresented(s) PROVE FALSE
        OBVIOUS
      <4>1. requests[s].token \in Issued
        BY TokenFacts DEF RevokePresented, At, RequestOK
      <4> QED BY <2>1, <4>1 DEF RevokePresented, TypeOK, Issued
    <3> QED BY <2>1, <2>3, <3>1, <3>2 DEF GoOn, Rotate, Issue, TypeOK
  <2>4. ASSUME NEW s \in Slots, BurnFamily(s)
        PROVE  FALSE
    BY <2>2, <2>4 DEF BurnFamily, Burn
  <2>5. ASSUME NEW s \in Slots, NEW j \in Tokens, EndSession(s, j)
        PROVE  FALSE
    BY <2>2, <2>5 DEF EndSession, LogOut
  <2>6. CASE UNCHANGED tokens
    BY <2>1, <2>6
  <2> QED
    BY <2>3, <2>4, <2>5, <2>6
    DEF ANext, Serve, Apply, CheckAddress, Insert, InsertRefused, Login, Open, SignIn, Compare,
        Mismatch, Touch, CallFails, Refresh, Present, GiveUp, Fail,
        SwitchActive, SetActive, Rename, SetOrganization, RunsOut, Expire, vars
<1> QED
  BY <1>3, <1>4, <1>5 DEF TokensAreOwn, Issued

LEMMA OwnershipInit == AInit => OwnershipInv
<1> SUFFICES ASSUME AInit PROVE OwnershipInv
  OBVIOUS
<1>1. RotationInv
  BY RotationInit DEF AInit
<1>2. TokensAreOwn /\ \A s \in Slots : CallOwned(s) /\ RequestOwned(s)
  BY DEF AInit, Init, TokensAreOwn, Issued, CallOwned, RequestOwned
<1> QED BY <1>1, <1>2 DEF AInit, OwnershipInv, ATypeOK

LEMMA OwnershipStep == OwnershipInv /\ [ANext]_avars => OwnershipInv'
<1> SUFFICES ASSUME OwnershipInv, [ANext]_avars PROVE OwnershipInv'
  OBVIOUS
<1>1. RotationInv'
  BY RotationStep, StepImplementsTokens DEF OwnershipInv
<1>2. CASE UNCHANGED avars
  BY <1>1, <1>2
  DEF avars, vars, OwnershipInv, ATypeOK, TokensAreOwn, Issued, CallOwned, RequestOwned
<1>3. CASE ANext
  <2>1. ATypeOK' /\ PasswordsPersist /\ OpenedPersists
    BY <1>3, ATypeStep, PasswordStep, OpenedStep DEF OwnershipInv, RotationInv
  <2>2. TokensAreOwn'
    BY <1>3, <2>1, TokensStep
  <2>3. ASSUME ~ \E s \in Slots : Serve(s)
        PROVE  SlotsOwned'
    <3>1. UNCHANGED <<requests, calls>>
      BY <1>3, <2>3
      DEF ANext, SwitchActive, SetActive, Rename, SetOrganization, RunsOut, Expire, vars
    <3> QED BY <2>1, <3>1, SlotFrame DEF SlotsOwned
  <2>4. SlotsOwned'
    BY <2>1, <2>3, SlotStep
  <2> QED BY <1>1, <2>1, <2>2, <2>4 DEF OwnershipInv, SlotsOwned
<1> QED BY <1>2, <1>3

(* Whoever holds a token gave the password of its account: neither races   *)
(* for an address nor crashes half way sign anybody in to another's.       *)
THEOREM TokensBelongToTheirUsers == ASpec => []TokensAreOwn
<1>1. ASpec => []OwnershipInv
  BY OwnershipInit, OwnershipStep, PTL DEF ASpec
<1>2. OwnershipInv => TokensAreOwn
  BY DEF OwnershipInv
<1> QED BY <1>1, <1>2, PTL

-----------------------------------------------------------------------------

AddressInv == ATypeOK /\ TypeOK /\ OneAccountPerAddress

(* An account is stored anew only where nobody has its address.            *)
LEMMA AddressStep ==
    ASSUME AddressInv, ANext
    PROVE  OneAccountPerAddress'
<1> USE DEF AddressInv
<1>1. ASSUME NEW u \in Users, NEW row \in AccountRows, ~ Taken(row.address),
             accounts' = [accounts EXCEPT ![u] = row], UNCHANGED orgs
      PROVE  OneAccountPerAddress'
  BY <1>1 DEF OneAccountPerAddress, Stored, Taken, ATypeOK
<1>2. ASSUME NEW s \in Slots, NEW u \in Users, Insert(s, u)
      PROVE  OneAccountPerAddress'
  <2>1. calls[s].row \in AccountRows
    BY <1>2 DEF Insert, Calling, ATypeOK, NewAccounts, Logins
  <2> QED BY <1>1, <1>2, <2>1 DEF Insert, Refused
<1>3. ASSUME NEW u \in Users, NEW e \in Addresses, Rename(u, e)
      PROVE  OneAccountPerAddress'
  <2>1. /\ [accounts[u] EXCEPT !.address = e] \in AccountRows
        /\ [accounts[u] EXCEPT !.address = e].address = e
    BY <1>3 DEF Rename, Stored, ATypeOK, AccountRows
  <2> QED BY <1>1, <1>3, <2>1 DEF Rename
<1>4. ASSUME NEW o \in Organizations, NEW status \in {"active", "inactive", "removed"},
             SetOrganization(o, status)
      PROVE  OneAccountPerAddress'
  <2>1. \A u \in Users : Stored(u)' => Stored(u)
    BY <1>4 DEF SetOrganization, Stored, ATypeOK
  <2> QED BY <1>4, <2>1 DEF SetOrganization, OneAccountPerAddress
<1>5. CASE UNCHANGED <<accounts, orgs>>
  BY <1>5 DEF OneAccountPerAddress, Stored
<1> QED
  BY <1>2, <1>3, <1>4, <1>5
  DEF ANext, Serve, Apply, CheckAddress, InsertRefused, Login, Compare, Mismatch, Touch,
      CallFails, Refresh, EndSession, BurnFamily, GoOn, GiveUp, Elsewhere, directory,
      SwitchActive, RunsOut

(* However many registrations, creations and changes of address race to    *)
(* it, an address has one account.                                         *)
THEOREM AddressesAreUnique == ASpec => []OneAccountPerAddress
<1>1. AInit => OneAccountPerAddress
  BY DEF AInit, OneAccountPerAddress, Stored
<1>2. OwnershipInv /\ OneAccountPerAddress /\ [ANext]_avars => OneAccountPerAddress'
  <2>1. CASE UNCHANGED avars
    BY <2>1 DEF avars, OneAccountPerAddress, Stored
  <2> QED BY <2>1, AddressStep DEF AddressInv, OwnershipInv, RotationInv
<1>3. ASpec => []OwnershipInv
  BY OwnershipInit, OwnershipStep, PTL DEF ASpec
<1> QED BY <1>1, <1>2, <1>3, PTL DEF ASpec

=============================================================================
