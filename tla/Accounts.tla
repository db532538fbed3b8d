------------------------------ MODULE Accounts ------------------------------
(***************************************************************************)
(* The accounts that tokens are issued to: registration, creation by an    *)
(* administrator, sign-in by password, and what administrators do to users *)
(* and organizations meanwhile (auth.service.ts, users.service.ts,         *)
(* organizations.service.ts).                                              *)
(*                                                                         *)
(* Tokens takes a sign-in for one step.  Here it is a call that works      *)
(* until it is refused or comes to issueTokens; from then on, and for      *)
(* rotation and logout, the actions are those of Tokens.                   *)
(***************************************************************************)
EXTENDS Tokens

CONSTANTS
    Addresses,         \* users.email
    Passwords,         \* a hash is compared as the password it was made from
    Organizations,
    Forms,             \* model bound: rows that somebody asks for
    MaxChanges,        \* model bound: what administrators and the clock do meanwhile
    NoAccount, NoCall, NoPassword

VARIABLES
    accounts,          \* the rows of users, but for isActive
    orgs,              \* organizations: "active", "inactive" or "removed"
    calls,             \* what a slot does before issueTokens
    changes,           \* changes so far that no call of this module made
    opened             \* history: the password each family was asked for with

avars == <<vars, accounts, orgs, calls, changes, opened>>
directory == <<accounts, orgs, changes>>

AccountRows == [address : Addresses, password : Passwords, org : Organizations]

(* POST /auth/register, POST /users and POST /auth/login; `user` is the    *)
(* account that a login has found.                                         *)
NewAccounts ==
    [kind : {"register", "create"}, row : AccountRows, pc : {"check", "insert"}]
Logins == [kind : {"login"}, user : Users, password : Passwords, pc : {"compare", "touch"}]

ASSUME AccountsAssumption ==
    /\ Forms \subseteq AccountRows /\ MaxChanges \in Nat
    /\ NoAccount \notin AccountRows
    /\ NoCall \notin NewAccounts \cup Logins
    /\ NoPassword \notin Passwords

(* Removing an organization cascades to its users and their tokens.        *)
Stored(u) == accounts[u] # NoAccount /\ orgs[accounts[u].org] # "removed"
Taken(e) == \E u \in Users : Stored(u) /\ accounts[u].address = e

Idle(s) == calls[s] = NoCall /\ requests[s] = NoRequest
Calling(s, pc) == calls[s] # NoCall /\ calls[s].pc = pc
HangUp(s) == calls' = [calls EXCEPT ![s] = NoCall]

-----------------------------------------------------------------------------

(* Both ways to an account.  Registration begins with the organization,    *)
(* which must be active; the administrator's form does not ask.            *)
Apply(s, kind, row) ==
    /\ Idle(s)
    /\ kind = "register" => orgs[row.org] = "active"
    /\ calls' = [calls EXCEPT ![s] = [kind |-> kind, row |-> row, pc |-> "check"]]
    /\ UNCHANGED <<vars, directory, opened>>

(* findUnique by the address; then the password is hashed, for long.       *)
CheckAddress(s) ==
    /\ Calling(s, "check")
    /\ IF Taken(calls[s].row.address) THEN HangUp(s)
       ELSE calls' = [calls EXCEPT ![s].pc = "insert"]
    /\ UNCHANGED <<vars, directory, opened>>

(* Nobody asks whether the account is active.                              *)
Open_AnyAccount(s, u, p) ==
    \E f \in Families :
        /\ requests[s] = NoRequest /\ MembersOf(f) = {} /\ Serving(f) = {}
        /\ requests' = [requests EXCEPT ![s] =
              [user |-> u, family |-> f, token |-> NoToken, pc |-> "issue"]]
        /\ opened' = [opened EXCEPT ![f] = p]
        /\ UNCHANGED <<tokens, expired, active, history>>

(* A new family, for whoever gave password p.                              *)
Open(s, u, p) ==
    \E f \in Families : SignIn(s, u, f) /\ opened' = [opened EXCEPT ![f] = p]

(* No unique index: the address was looked up, and that must do.           *)
Refused_Unindexed(row) == orgs[row.org] = "removed"

(* The unique index on the address and the foreign key of the organization *)
(* have the last word: P2002 and P2003, answered with 409 and 400.         *)
Refused(row) == Taken(row.address) \/ orgs[row.org] = "removed"

(* Somebody who registers an address that has just been taken is signed in *)
(* to the account that took it.                                            *)
Insert_Upsert(s, u) ==
    /\ Calling(s, "insert")
    /\ IF Taken(calls[s].row.address)
       THEN Stored(u) /\ accounts[u].address = calls[s].row.address
       ELSE accounts[u] = NoAccount
    /\ orgs[calls[s].row.org] # "removed"
    /\ accounts' = [accounts EXCEPT ![u] = IF @ = NoAccount THEN calls[s].row ELSE @]
    /\ HangUp(s)
    /\ IF calls[s].kind = "register" THEN Open(s, u, calls[s].row.password)
       ELSE UNCHANGED <<vars, opened>>
    /\ UNCHANGED <<orgs, changes>>

(* The row, with isActive by default; a registration is signed in.         *)
Insert(s, u) ==
    /\ Calling(s, "insert")
    /\ accounts[u] = NoAccount
    /\ ~ Refused(calls[s].row)
    /\ accounts' = [accounts EXCEPT ![u] = calls[s].row]
    /\ HangUp(s)
    /\ IF calls[s].kind = "register" THEN Open(s, u, calls[s].row.password)
       ELSE UNCHANGED <<vars, opened>>
    /\ UNCHANGED <<orgs, changes>>

InsertRefused(s) ==
    /\ Calling(s, "insert")
    /\ Refused(calls[s].row)
    /\ HangUp(s)
    /\ UNCHANGED <<vars, directory, opened>>

(* login: the account by its address, if it is active.                     *)
Login(s, u, e, p) ==
    /\ Idle(s)
    /\ Stored(u) /\ accounts[u].address = e
    /\ Open(s, u, p)
    /\ calls' = [calls EXCEPT ![s] =
          [kind |-> "login", user |-> u, password |-> p, pc |-> "compare"]]
    /\ UNCHANGED directory

(* The password is compared with the hash read then, for long.             *)
Matches(s) == accounts[calls[s].user].password = calls[s].password

Compare(s) ==
    /\ Calling(s, "compare")
    /\ Matches(s)
    /\ calls' = [calls EXCEPT ![s].pc = "touch"]
    /\ UNCHANGED <<vars, directory, opened>>

Mismatch(s) ==
    /\ Calling(s, "compare")
    /\ ~ Matches(s)
    /\ HangUp(s)
    /\ Fail(s)
    /\ UNCHANGED <<directory, opened>>

(* lastLoginAt is written, which takes the row to be there still.          *)
Touch(s) ==
    /\ Calling(s, "touch")
    /\ Stored(calls[s].user)
    /\ HangUp(s)
    /\ UNCHANGED <<vars, directory, opened>>

(* Any await may throw, also for want of a row; the process may be killed. *)
CallFails(s) ==
    /\ calls[s] # NoCall
    /\ HangUp(s)
    /\ IF requests[s] # NoRequest THEN Fail(s) ELSE UNCHANGED vars
    /\ UNCHANGED <<directory, opened>>

-----------------------------------------------------------------------------

(* What Tokens says of a slot, of rows that are still there: without the   *)
(* row of the token or of its user every statement but updateMany throws.  *)
Elsewhere(s) == calls[s] = NoCall /\ UNCHANGED <<directory, calls, opened>>

Refresh(s, k) == Elsewhere(s) /\ k \in Issued /\ Stored(tokens[k].user) /\ Present(s, k)
EndSession(s, k) == Elsewhere(s) /\ k \in Issued /\ Stored(tokens[k].user) /\ LogOut(s, k)
BurnFamily(s) == Elsewhere(s) /\ Burn(s)
GoOn(s) == Elsewhere(s) /\ requests[s] # NoRequest /\ Stored(requests[s].user) /\ Rotate(s)
GiveUp(s) == Elsewhere(s) /\ Fail(s)

-----------------------------------------------------------------------------

(* What administrators and the clock do.                                   *)
Changing == changes < MaxChanges /\ changes' = changes + 1

(* PATCH and DELETE /users/:id, but for the name and the role.             *)
Rename(u, e) ==
    /\ Stored(u)
    /\ ~ Taken(e)
    /\ accounts' = [accounts EXCEPT ![u].address = e]
    /\ Changing
    /\ UNCHANGED <<vars, orgs, calls, opened>>

SwitchActive(u) ==
    /\ Stored(u)
    /\ SetActive(u)
    /\ Changing
    /\ UNCHANGED <<accounts, orgs, calls, opened>>

(* PATCH and DELETE /organizations/:id.                                    *)
SetOrganization(o, status) ==
    /\ orgs[o] \notin {status, "removed"}
    /\ orgs' = [orgs EXCEPT ![o] = status]
    /\ Changing
    /\ UNCHANGED <<vars, accounts, calls, opened>>

RunsOut(k) ==
    /\ Expire(k)
    /\ Changing
    /\ UNCHANGED <<accounts, orgs, calls, opened>>

-----------------------------------------------------------------------------

AInit ==
    /\ Init
    /\ accounts = [u \in Users |-> NoAccount]
    /\ orgs = [o \in Organizations |-> "active"]
    /\ calls = [s \in Slots |-> NoCall]
    /\ changes = 0
    /\ opened = [f \in Families |-> NoPassword]

Serve(s) ==
    \/ \E kind \in {"register", "create"}, row \in Forms : Apply(s, kind, row)
    \/ CheckAddress(s)
    \/ \E u \in Users : Insert(s, u)
    \/ InsertRefused(s)
    \/ \E u \in Users, e \in Addresses, p \in Passwords : Login(s, u, e, p)
    \/ Compare(s)
    \/ Mismatch(s)
    \/ Touch(s)
    \/ CallFails(s)
    \/ \E k \in Tokens : Refresh(s, k) \/ EndSession(s, k)
    \/ BurnFamily(s)
    \/ GoOn(s)
    \/ GiveUp(s)

ANext ==
    \/ \E s \in Slots : Serve(s)
    \/ \E u \in Users : SwitchActive(u) \/ \E e \in Addresses : Rename(u, e)
    \/ \E o \in Organizations, status \in {"active", "inactive", "removed"} :
          SetOrganization(o, status)
    \/ \E k \in Tokens : RunsOut(k)

ASpec == AInit /\ [][ANext]_avars

-----------------------------------------------------------------------------

(* However registrations, an administrator's creations and changes of      *)
(* address race, no two accounts have one address.                         *)
OneAccountPerAddress ==
    \A u, v \in Users :
        Stored(u) /\ Stored(v) /\ accounts[u].address = accounts[v].address => u = v

(* A token is of an account whose password was given for it: whoever loses *)
(* the race for an address gets no part in the winner's account.           *)
TokensAreOwn ==
    \A k \in Issued :
        /\ accounts[tokens[k].user] # NoAccount
        /\ accounts[tokens[k].user].password = opened[tokens[k].family]

(* What Tokens says of sign-ins, that one is a single step of an account   *)
(* that is active, and all that follows from it, is true of these.         *)
ImplementsTokens == Spec

=============================================================================
