------------------------------- MODULE Tokens -------------------------------
(***************************************************************************)
(* Refresh tokens: issued in families, rotated on every use, revoked       *)
(* family by family (token.service.ts, auth.service.ts).                   *)
(*                                                                         *)
(* Requests interleave at every await.  A client may present any token it  *)
(* was ever given, again and at the same time as somebody else.            *)
(***************************************************************************)
EXTENDS Naturals, FiniteSets

CONSTANTS
    Users,
    Tokens,            \* token ids (the jti of the JWT)
    Families,          \* family ids
    Slots,             \* requests that are served at the same time
    NoToken, NoRequest

VARIABLES
    tokens,            \* the refresh_tokens table
    expired,           \* tokens whose lifetime is over
    active,            \* users.isActive
    requests,          \* what each slot serves
    ended,             \* history: families that were logged out or burnt
    contended          \* history: families two requests worked on at the same time

vars == <<tokens, expired, active, requests, ended, contended>>
history == <<ended, contended>>

(* A row.  `parent` is the token it was exchanged for; no column records   *)
(* it and only properties read it.                                         *)
Rows == [user : Users, family : Families, revoked : BOOLEAN, parent : Tokens \cup {NoToken}]

(* A request of POST /auth/login or /auth/refresh after its first query,   *)
(* with the token it presented.                                            *)
InFlight ==
    [user : Users, family : Families, token : Tokens \cup {NoToken},
     pc : {"burn", "user", "revoke", "issue"}]

ASSUME TokensAssumption ==
    /\ NoToken \notin Rows \cup Tokens
    /\ NoRequest \notin InFlight

Issued == {k \in Tokens : tokens[k] # NoToken}
Live == {k \in Issued : ~ tokens[k].revoked}
MembersOf(f) == {k \in Issued : tokens[k].family = f}
Serving(f) == {s \in Slots : requests[s] # NoRequest /\ requests[s].family = f}

At(s, step) == requests[s] # NoRequest /\ requests[s].pc = step
Goto(s, step) == requests' = [requests EXCEPT ![s].pc = step]
Reply(s) == requests' = [requests EXCEPT ![s] = NoRequest]

(* A request starts to work on family f.                                   *)
Contend(f) == contended' = IF Serving(f) = {} THEN contended ELSE contended \cup {f}

-----------------------------------------------------------------------------

(* login and register: the account is active and its password was checked; *)
(* a new family is chosen before the tokens are signed.                    *)
SignIn(s, u, f) ==
    /\ requests[s] = NoRequest
    /\ active[u]
    /\ MembersOf(f) = {} /\ Serving(f) = {}
    /\ requests' = [requests EXCEPT ![s] =
          [user |-> u, family |-> f, token |-> NoToken, pc |-> "issue"]]
    /\ UNCHANGED <<tokens, expired, active, history>>

(* A revoked token is not noticed.                                         *)
Present_NoReuseDetection(s, k) ==
    /\ requests[s] = NoRequest
    /\ k \in Issued \ expired
    /\ requests' = [requests EXCEPT ![s] =
          [user |-> tokens[k].user, family |-> tokens[k].family, token |-> k, pc |-> "user"]]
    /\ Contend(tokens[k].family)
    /\ UNCHANGED <<tokens, expired, active, ended>>

(* rotate: the signature and the lifetime are verified, then the row is    *)
(* read.  Whether it was revoked decides what the request goes on to do.   *)
Present(s, k) ==
    /\ requests[s] = NoRequest
    /\ k \in Issued \ expired
    /\ requests' = [requests EXCEPT ![s] =
          [user |-> tokens[k].user, family |-> tokens[k].family, token |-> k,
           pc |-> IF tokens[k].revoked THEN "burn" ELSE "user"]]
    /\ Contend(tokens[k].family)
    /\ UNCHANGED <<tokens, expired, active, ended>>

RevokeFamily(f) ==
    [k \in Tokens |-> IF k \in MembersOf(f) THEN [tokens[k] EXCEPT !.revoked = TRUE]
                      ELSE tokens[k]]

(* Only the presented token, revoked already, is revoked.                  *)
Burn_PresentedOnly(s) ==
    /\ At(s, "burn")
    /\ tokens' = [tokens EXCEPT ![requests[s].token].revoked = TRUE]
    /\ ended' = ended \cup {requests[s].family}
    /\ Reply(s)
    /\ UNCHANGED <<expired, active, contended>>

(* Reuse detection: everything the family still has is revoked.            *)
Burn(s) ==
    /\ At(s, "burn")
    /\ tokens' = RevokeFamily(requests[s].family)
    /\ ended' = ended \cup {requests[s].family}
    /\ Reply(s)
    /\ UNCHANGED <<expired, active, contended>>

(* The lifetime is compared once more, and the account must be active.     *)
CheckUser(s) ==
    /\ At(s, "user")
    /\ IF active[requests[s].user] /\ requests[s].token \notin expired
       THEN Goto(s, "revoke")
       ELSE Reply(s)
    /\ UNCHANGED <<tokens, expired, active, history>>

(* The presented token is only revoked once the new one is there.          *)
RevokePresented_Late(s) ==
    /\ At(s, "revoke")
    /\ Goto(s, "issue")
    /\ UNCHANGED <<tokens, expired, active, history>>

(* The presented token is revoked, by its id alone: whether somebody else  *)
(* has revoked it since it was read makes no difference.                   *)
RevokePresented(s) ==
    /\ At(s, "revoke")
    /\ tokens' = [tokens EXCEPT ![requests[s].token].revoked = TRUE]
    /\ Goto(s, "issue")
    /\ UNCHANGED <<expired, active, history>>

(* issueTokens: the row of the new token.                                  *)
Issue(s, k) ==
    /\ At(s, "issue")
    /\ tokens[k] = NoToken
    /\ tokens' = [tokens EXCEPT ![k] =
          [user |-> requests[s].user, family |-> requests[s].family, revoked |-> FALSE,
           parent |-> requests[s].token]]
    /\ Reply(s)
    /\ UNCHANGED <<expired, active, history>>

(* Any await may throw and the process may be killed.  Nothing here runs   *)
(* in a transaction: what was written stays.                               *)
Fail(s) ==
    /\ requests[s] # NoRequest
    /\ Reply(s)
    /\ UNCHANGED <<tokens, expired, active, history>>

(* logout: one update, on the family named in the token itself.            *)
LogOut(s, k) ==
    /\ requests[s] = NoRequest
    /\ k \in Issued \ expired
    /\ tokens' = RevokeFamily(tokens[k].family)
    /\ ended' = ended \cup {tokens[k].family}
    /\ Contend(tokens[k].family)
    /\ UNCHANGED <<expired, active, requests>>

(* users.service: an administrator deactivates or reactivates an account.  *)
SetActive(u) ==
    /\ active' = [active EXCEPT ![u] = ~ @]
    /\ UNCHANGED <<tokens, expired, requests, history>>

Expire(k) ==
    /\ k \in Issued \ expired
    /\ expired' = expired \cup {k}
    /\ UNCHANGED <<tokens, active, requests, history>>

-----------------------------------------------------------------------------

Init ==
    /\ tokens = [k \in Tokens |-> NoToken]
    /\ expired = {}
    /\ active = [u \in Users |-> TRUE]
    /\ requests = [s \in Slots |-> NoRequest]
    /\ ended = {}
    /\ contended = {}

Rotate(s) ==
    \/ Burn(s)
    \/ CheckUser(s)
    \/ RevokePresented(s)
    \/ \E k \in Tokens : Issue(s, k)

Next ==
    \/ \E s \in Slots :
          \/ \E u \in Users, f \in Families : SignIn(s, u, f)
          \/ \E k \in Tokens : Present(s, k) \/ LogOut(s, k)
          \/ Rotate(s)
          \/ Fail(s)
    \/ \E k \in Tokens : Expire(k)
    \/ \E u \in Users : SetActive(u)

Spec == Init /\ [][Next]_vars

-----------------------------------------------------------------------------

TypeOK ==
    /\ tokens \in [Tokens -> Rows \cup {NoToken}]
    /\ expired \subseteq Tokens
    /\ active \in [Users -> BOOLEAN]
    /\ requests \in [Slots -> InFlight \cup {NoRequest}]
    /\ ended \subseteq Families
    /\ contended \subseteq Families

(* However rotations, logouts and reuse interleave, a token that has been  *)
(* exchanged is revoked, and stays in one family, of one user, with every  *)
(* token it was exchanged for.                                             *)
ExchangedIsRevoked ==
    \A k \in Issued :
        tokens[k].parent # NoToken =>
            LET p == tokens[k].parent IN
            /\ p \in Issued \ Live
            /\ tokens[p].family = tokens[k].family
            /\ tokens[p].user = tokens[k].user

(* "Each refresh rotates the token": one exchange for each token.          *)
ExchangedOnce ==
    \A j, k \in Issued :
        tokens[j].parent = tokens[k].parent /\ tokens[k].parent # NoToken => j = k

(* The same for a family whose requests came one after the other, whatever *)
(* failed half way and however often a token was presented.                *)
ExchangedOnceInTurn ==
    \A j, k \in Issued :
        /\ tokens[k].family \notin contended
        /\ tokens[k].parent # NoToken
        /\ tokens[j].parent = tokens[k].parent
        => j = k

(* Such a family never has two tokens that work.                           *)
OneLivePerFamily ==
    \A j, k \in Live :
        tokens[j].family = tokens[k].family /\ tokens[k].family \notin contended => j = k

(* "Revokes the whole family": after a reuse of one of its tokens or a     *)
(* logout, no token of such a family works any more, and none ever will.   *)
EndedFamiliesStayDead ==
    \A k \in Live : tokens[k].family \notin ended \ contended

=============================================================================
