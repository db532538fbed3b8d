---------------------------- MODULE SessionProofs ----------------------------
(***************************************************************************)
(* For every number of requests and sign-ins: a refresh is shared, what    *)
(* waits for it is sent again in its own session, pages are shown to whom  *)
(* their guards let in, and a busy form waits for something that can still *)
(* happen.                                                                 *)
(***************************************************************************)
EXTENDS Session, TLAPS

Kinds == {"data", "me", "login", "logout"}
Stages == {"idle", "sent", "refreshing", "queued", "retried", "resumed"}
Destinations == Pages \ {"login"}

(* The sign-ins there have been.                                           *)
Issued == 1 .. sessions

RequestRecords ==
    [pc : Stages, kind : Kinds, by : Accounts \cup {Nobody}, with : Issued \cup {NoTokens}]

SessionTypeOK ==
    /\ sessions \in 0 .. MaxSessions
    /\ storage \in Issued \cup {NoTokens}
    /\ refreshed \in Issued \cup {NoTokens}
    /\ user \in Accounts \cup {Nobody}
    /\ phase \in {"restoring", "running"}
    /\ page \in Pages
    /\ redirect \in Destinations
    /\ form \in Requests \cup {Nobody}
    /\ requests \in [Requests -> RequestRecords]
    /\ stayed \in BOOLEAN

(* While the session is restored, nobody is signed in and the request that *)
(* asks whom the tokens belong to is the only one.                         *)
RestoringAlone ==
    /\ phase = "restoring" =>
          /\ user = Nobody
          /\ \A r \in Requests : requests[r] # Idle => requests[r].kind = "me"
    /\ \A r \in Requests : requests[r].kind = "me" =>
          /\ phase = "restoring"
          /\ \A q \in Requests : q # r => requests[q] = Idle

(* A sign-in carries no token and is sent once; all others carry one.      *)
Carried(r) ==
    /\ requests[r].kind = "login" => requests[r].pc = "sent"
    /\ requests[r].with = NoTokens <=> requests[r].kind = "login" \/ requests[r] = Idle
    /\ requests[r].pc = "idle" => requests[r] = Idle

(* The flag is up as long as the session in storage is being refreshed.    *)
FlagIsUp ==
    \A r \in Requests :
        requests[r].pc = "refreshing" /\ requests[r].with = storage => isRefreshing

(* While a refresh is under way the subject holds no token.                *)
QueueWaits == isRefreshing => refreshed = NoTokens

(* Who is signed in, or about to be restored, has tokens.                  *)
UserHasTokens == user # Nobody \/ phase = "restoring" => storage # NoTokens

(* Requests that nobody's signing in has overtaken are of one session: the *)
(* one they began in, and the one in storage, if there is any.             *)
OfOneSession ==
    \A q \in Requests \ overtaken : requests[q].with # NoTokens =>
        /\ requests[q].by = requests[q].with
        /\ storage # NoTokens => storage = requests[q].with
        /\ \A r \in Requests \ overtaken :
              requests[r].with # NoTokens => requests[r].with = requests[q].with

SessionInv ==
    /\ SessionTypeOK
    /\ RestoringAlone
    /\ \A r \in Requests : Carried(r)
    /\ FlagIsUp
    /\ QueueWaits
    /\ UserHasTokens
    /\ OfOneSession
    /\ PageIsAllowed
    /\ SubmitEnds
    /\ OneRefreshAtATime

-----------------------------------------------------------------------------

(* The records requests turn into.                                         *)
LEMMA SentTyped ==
    ASSUME SessionTypeOK, NEW kind \in Kinds
    PROVE  /\ Sent(kind) \in RequestRecords
           /\ Idle \in RequestRecords
           /\ storage # NoTokens => Sent(kind).with # NoTokens /\ Sent(kind).by = Sent(kind).with
<1>1. storage \in Accounts \cup {NoTokens}
  BY SessionAssumption DEF SessionTypeOK, Issued, Accounts
<1>2. Sent(kind) \in RequestRecords
  BY <1>1 DEF SessionTypeOK, Sent, RequestRecords, Stages
<1>3. Idle \in RequestRecords
  BY DEF Idle, RequestRecords, Stages, Kinds
<1> QED BY <1>2, <1>3 DEF Sent

(* One lemma per step; what the step cannot disturb follows from the       *)
(* conjunct alone.                                                         *)
LEMMA LogOutStep ==
    ASSUME SessionInv, NEW r \in Requests, LogOut(r)
    PROVE  SessionInv'
<1> USE SessionAssumption DEF SessionInv, SessionTypeOK, RequestRecords, Kinds, Stages, Issued,
           Accounts, Destinations, Pages, Idle, history,
           LogOut, SignOut, Sent, Show, Guarded, LeaveForm
<1>1. SessionTypeOK'
  <2>1. requests' \in [Requests -> RequestRecords]
    <3> HIDE DEF SessionInv, SessionTypeOK, RequestRecords, Idle, Sent, Kinds
    <3>1. Sent("logout") \in RequestRecords /\ Idle \in RequestRecords
      BY SentTyped DEF SessionInv, Kinds
    <3>2. requests \in [Requests -> RequestRecords]
      BY DEF SessionInv, SessionTypeOK
    <3> QED BY <3>1, <3>2
  <2> QED BY <2>1
<1>2. RestoringAlone'
  BY DEF RestoringAlone
<1>3. \A q \in Requests : Carried(q)'
  BY DEF Carried
<1>4. FlagIsUp'
  BY DEF FlagIsUp, Carried
<1>5. PageIsAllowed'
  BY DEF PageIsAllowed
<1>6. SubmitEnds'
  BY DEF SubmitEnds
<1>7. OneRefreshAtATime'
  BY DEF OneRefreshAtATime, In
<1>8. QueueWaits' /\ UserHasTokens'
  BY DEF QueueWaits, UserHasTokens, RestoringAlone
<1>9. OfOneSession'
  BY DEF OfOneSession, Carried
<1> QED BY <1>1, <1>2, <1>3, <1>4, <1>5, <1>6, <1>7, <1>8, <1>9

LEMMA SubmitStep ==
    ASSUME SessionInv, NEW r \in Requests, Submit(r)
    PROVE  SessionInv'
<1> USE SessionAssumption DEF SessionInv, SessionTypeOK, RequestRecords, Kinds, Stages, Issued,
           Accounts, Destinations, Pages, Idle, history,
           Submit
<1>1. SessionTypeOK'
  OBVIOUS
<1>2. RestoringAlone'
  BY DEF RestoringAlone
<1>3. \A q \in Requests : Carried(q)'
  BY DEF Carried
<1>4. FlagIsUp'
  BY DEF FlagIsUp
<1>5. PageIsAllowed'
  BY DEF PageIsAllowed
<1>6. SubmitEnds'
  BY DEF SubmitEnds
<1>7. OneRefreshAtATime'
  BY DEF OneRefreshAtATime, In
<1>8. QueueWaits' /\ UserHasTokens'
  BY DEF QueueWaits, UserHasTokens, RestoringAlone
<1>9. OfOneSession'
  BY DEF OfOneSession, Carried
<1> QED BY <1>1, <1>2, <1>3, <1>4, <1>5, <1>6, <1>7, <1>8, <1>9

LEMMA SendStep ==
    ASSUME SessionInv, NEW r \in Requests, Send(r)
    PROVE  SessionInv'
<1> USE SessionAssumption DEF SessionInv, SessionTypeOK, RequestRecords, Kinds, Stages, Issued,
           Accounts, Destinations, Pages, Idle, history,
           Send, Sent, session, router
<1>1. SessionTypeOK'
  OBVIOUS
<1>2. RestoringAlone'
  BY DEF RestoringAlone
<1>3. \A q \in Requests : Carried(q)'
  <2>1. \A q \in Requests : q # r => requests'[q] = requests[q]
    OBVIOUS
  <2>2. Carried(r)'
    BY DEF Carried, PageIsAllowed, UserHasTokens
  <2> QED BY <2>1, <2>2 DEF Carried
<1>4. FlagIsUp'
  BY DEF FlagIsUp
<1>5. PageIsAllowed'
  BY DEF PageIsAllowed
<1>6. SubmitEnds'
  BY DEF SubmitEnds
<1>7. OneRefreshAtATime'
  BY DEF OneRefreshAtATime, In
<1>8. QueueWaits' /\ UserHasTokens'
  BY DEF QueueWaits, UserHasTokens, RestoringAlone
<1>9. OfOneSession'
  BY DEF OfOneSession, Carried
<1> QED BY <1>1, <1>2, <1>3, <1>4, <1>5, <1>6, <1>7, <1>8, <1>9

LEMMA SignInStep ==
    ASSUME SessionInv, NEW r \in Requests, SignIn(r)
    PROVE  SessionInv'
<1> USE SessionAssumption DEF SessionInv, SessionTypeOK, RequestRecords, Kinds, Stages, Issued,
           Accounts, Destinations, Pages, Idle, history,
           SignIn, Finish, Overtake, Stay, Show, Guarded, LeaveForm
<1>1. SessionTypeOK'
  <2>1. sessions' \in 1 .. MaxSessions /\ Issued' = 1 .. sessions'
    OBVIOUS
  <2>2. Issued \subseteq Issued' /\ storage' \in Issued'
    BY <2>1
  <2>3. requests' \in [Requests -> RequestRecords']
    BY <2>2
  <2>4. user' \in Accounts /\ page' \in Pages /\ redirect' \in Destinations
    BY <2>1
  <2>5. form' \in Requests \cup {Nobody} /\ phase' = phase /\ refreshed' = refreshed
    OBVIOUS
  <2>6. stayed' \in BOOLEAN
    OBVIOUS
  <2>7. SessionTypeOK
    BY DEF SessionInv
  <2> HIDE DEF RequestRecords, SignIn, SessionInv, Show, LeaveForm
  <2> QED BY <2>1, <2>2, <2>3, <2>4, <2>5, <2>6, <2>7
<1>2. RestoringAlone'
  BY DEF RestoringAlone
<1>3. \A q \in Requests : Carried(q)'
  BY DEF Carried
<1>4. FlagIsUp'
  <2> SUFFICES ASSUME NEW q \in Requests, requests[q].pc = "refreshing",
                      requests[q].with = sessions + 1
               PROVE  FALSE
    BY DEF FlagIsUp
  <2> QED BY DEF Carried
<1>5. PageIsAllowed'
  BY DEF PageIsAllowed
<1>6. SubmitEnds'
  BY DEF SubmitEnds
<1>7. OneRefreshAtATime'
  BY DEF OneRefreshAtATime, In
<1>8. QueueWaits' /\ UserHasTokens'
  BY DEF QueueWaits, UserHasTokens, RestoringAlone
<1>9. OfOneSession'
  BY DEF OfOneSession, Carried
<1> QED BY <1>1, <1>2, <1>3, <1>4, <1>5, <1>6, <1>7, <1>8, <1>9

LEMMA SignInFailsStep ==
    ASSUME SessionInv, NEW r \in Requests, SignInFails(r)
    PROVE  SessionInv'
<1> USE SessionAssumption DEF SessionInv, SessionTypeOK, RequestRecords, Kinds, Stages, Issued,
           Accounts, Destinations, Pages, Idle, history,
           SignInFails, Finish, session, router
<1>1. SessionTypeOK'
  OBVIOUS
<1>2. RestoringAlone'
  BY DEF RestoringAlone
<1>3. \A q \in Requests : Carried(q)'
  BY DEF Carried
<1>4. FlagIsUp'
  BY DEF FlagIsUp
<1>5. PageIsAllowed'
  BY DEF PageIsAllowed
<1>6. SubmitEnds'
  BY DEF SubmitEnds
<1>7. OneRefreshAtATime'
  BY DEF OneRefreshAtATime, In
<1>8. QueueWaits' /\ UserHasTokens'
  BY DEF QueueWaits, UserHasTokens, RestoringAlone
<1>9. OfOneSession'
  BY DEF OfOneSession, Carried
<1> QED BY <1>1, <1>2, <1>3, <1>4, <1>5, <1>6, <1>7, <1>8, <1>9

LEMMA OkStep ==
    ASSUME SessionInv, NEW r \in Requests, Ok(r)
    PROVE  SessionInv'
<1> USE SessionAssumption DEF SessionInv, SessionTypeOK, RequestRecords, Kinds, Stages, Issued,
           Accounts, Destinations, Pages, Idle, history,
           Ok, Succeed, Finish, Show, Guarded, router
<1>1. SessionTypeOK'
  <2>1. requests[r].with \in Accounts
    BY DEF Carried
  <2> QED BY <2>1
<1>2. RestoringAlone'
  BY DEF RestoringAlone
<1>3. \A q \in Requests : Carried(q)'
  BY DEF Carried
<1>4. FlagIsUp'
  BY DEF FlagIsUp
<1>5. PageIsAllowed'
  BY DEF PageIsAllowed
<1>6. SubmitEnds'
  <2>1. requests[r].kind # "login"
    BY DEF Carried
  <2>2. CASE requests[r].kind = "me"
    BY <2>2 DEF RestoringAlone, SubmitEnds
  <2>3. CASE requests[r].kind # "me"
    BY <2>1, <2>3 DEF SubmitEnds
  <2> QED BY <2>2, <2>3
<1>7. OneRefreshAtATime'
  BY DEF OneRefreshAtATime, In
<1>8. QueueWaits' /\ UserHasTokens'
  BY DEF QueueWaits, UserHasTokens, RestoringAlone
<1>9. OfOneSession'
  BY DEF OfOneSession, Carried
<1> QED BY <1>1, <1>2, <1>3, <1>4, <1>5, <1>6, <1>7, <1>8, <1>9

LEMMA ErrorStep ==
    ASSUME SessionInv, NEW r \in Requests, Error(r)
    PROVE  SessionInv'
<1> USE SessionAssumption DEF SessionInv, SessionTypeOK, RequestRecords, Kinds, Stages, Issued,
           Accounts, Destinations, Pages, Idle, history,
           Error, Carry, Finish, Show, Guarded, router
<1>1. SessionTypeOK'
  OBVIOUS
<1>2. RestoringAlone'
  BY DEF RestoringAlone
<1>3. \A q \in Requests : Carried(q)'
  BY DEF Carried
<1>4. FlagIsUp'
  BY DEF FlagIsUp
<1>5. PageIsAllowed'
  BY DEF PageIsAllowed
<1>6. SubmitEnds'
  BY DEF SubmitEnds
<1>7. OneRefreshAtATime'
  BY DEF OneRefreshAtATime, In
<1>8. QueueWaits' /\ UserHasTokens'
  BY DEF QueueWaits, UserHasTokens, RestoringAlone
<1>9. OfOneSession'
  BY DEF OfOneSession, Carried
<1> QED BY <1>1, <1>2, <1>3, <1>4, <1>5, <1>6, <1>7, <1>8, <1>9

LEMMA QueueStep ==
    ASSUME SessionInv, NEW r \in Requests, Queue(r)
    PROVE  SessionInv'
<1> USE SessionAssumption DEF SessionInv, SessionTypeOK, RequestRecords, Kinds, Stages, Issued,
           Accounts, Destinations, Pages, Idle, history,
           Queue, Unauthorized, session, router
<1>1. SessionTypeOK'
  <2>1. requests'[r] \in RequestRecords
    <3>1. requests[r] \in RequestRecords
      OBVIOUS
    <3>2. CASE refreshed = NoTokens
      <4>1. requests'[r] = [requests[r] EXCEPT !.pc = "queued"]
        BY <3>2
      <4> QED BY <3>1, <4>1
    <3>3. CASE refreshed # NoTokens
      <4>1. requests'[r] = [requests[r] EXCEPT !.pc = "resumed", !.with = refreshed]
        BY <3>3
      <4> QED BY <3>1, <3>3, <4>1
    <3> QED BY <3>2, <3>3
  <2> QED BY <2>1
<1>2. RestoringAlone'
  BY DEF RestoringAlone
<1>3. \A q \in Requests : Carried(q)'
  <2>1. \A q \in Requests : q # r => requests'[q] = requests[q]
    OBVIOUS
  <2>2. /\ requests[r].kind # "login" /\ requests[r] # Idle /\ requests[r].with # NoTokens
        /\ refreshed = NoTokens
    BY DEF Carried, QueueWaits
  <2>3. requests'[r] = [requests[r] EXCEPT !.pc = "queued"]
    BY <2>2
  <2>4. /\ requests'[r].pc = "queued" /\ requests'[r].kind = requests[r].kind
        /\ requests'[r].with = requests[r].with
    <3>1. requests[r] \in RequestRecords
      OBVIOUS
    <3> HIDE DEF SessionInv, Queue
    <3> QED BY <2>3, <3>1
  <2>5. Carried(r)'
    <3>1. Idle.pc = "idle"
      OBVIOUS
    <3> HIDE DEF SessionInv, Queue, Idle
    <3> QED BY <2>2, <2>4, <3>1 DEF Carried
  <2> QED BY <2>1, <2>5 DEF Carried
<1>4. FlagIsUp'
  BY DEF FlagIsUp
<1>5. PageIsAllowed'
  BY DEF PageIsAllowed
<1>6. SubmitEnds'
  BY DEF SubmitEnds
<1>7. OneRefreshAtATime'
  BY DEF OneRefreshAtATime, In
<1>8. QueueWaits' /\ UserHasTokens'
  BY DEF QueueWaits, UserHasTokens, RestoringAlone
<1>9. OfOneSession'
  BY DEF OfOneSession, Carried
<1> QED BY <1>1, <1>2, <1>3, <1>4, <1>5, <1>6, <1>7, <1>8, <1>9

LEMMA LeadStep ==
    ASSUME SessionInv, NEW r \in Requests, Lead(r)
    PROVE  SessionInv'
<1> USE SessionAssumption DEF SessionInv, SessionTypeOK, RequestRecords, Kinds, Stages, Issued,
           Accounts, Destinations, Pages, Idle, history,
           Lead, Unauthorized, router
<1>1. SessionTypeOK'
  <2>1. [requests[r] EXCEPT !.pc = "refreshing", !.with = storage] \in RequestRecords
    OBVIOUS
  <2> QED BY <2>1
<1>2. RestoringAlone'
  BY DEF RestoringAlone
<1>3. \A q \in Requests : Carried(q)'
  BY DEF Carried
<1>4. FlagIsUp'
  BY DEF FlagIsUp
<1>5. PageIsAllowed'
  BY DEF PageIsAllowed
<1>6. SubmitEnds'
  BY DEF SubmitEnds
<1>7. OneRefreshAtATime'
  <2>1. ASSUME NEW q \in Requests, q # r, requests[q].pc = "refreshing"
        PROVE  requests[q].with # storage
    BY <2>1 DEF FlagIsUp
  <2>2. requests'[r].with = storage
    OBVIOUS
  <2>3. \A q \in Requests : q # r => requests'[q] = requests[q]
    OBVIOUS
  <2> QED BY <2>1, <2>2, <2>3 DEF OneRefreshAtATime, In
<1>8. QueueWaits' /\ UserHasTokens'
  BY DEF QueueWaits, UserHasTokens, RestoringAlone
<1>9. OfOneSession'
  BY DEF OfOneSession, Carried
<1> QED BY <1>1, <1>2, <1>3, <1>4, <1>5, <1>6, <1>7, <1>8, <1>9

LEMMA RefreshedStep ==
    ASSUME SessionInv, NEW r \in Requests, Refreshed(r)
    PROVE  SessionInv'
<1> DEFINE Again(q, stage) == [requests[q] EXCEPT !.pc = stage, !.with = requests[r].with]
<1>a. \A q \in Requests : requests[q] \in RequestRecords
  BY DEF SessionInv, SessionTypeOK
<1>b. requests[r].with \in Issued /\ requests[r].with # NoTokens
  BY <1>a DEF SessionInv, Carried, Refreshed, RequestRecords, Idle
<1>e. /\ requests' = Resumed(r) /\ requests[r].pc = "refreshing"
      /\ storage' = requests[r].with /\ refreshed' = requests[r].with /\ isRefreshing' = FALSE
      /\ UNCHANGED <<user, phase, page, redirect, form, stayed, sessions>>
  BY DEF Refreshed, router
<1>f. \A q \in Requests : requests'[q] =
          IF q = r THEN Again(q, "retried")
          ELSE IF requests[q].pc = "queued" THEN Again(q, "resumed") ELSE requests[q]
  BY <1>a, <1>e DEF Resumed, RequestRecords
<1>g. \A q \in Requests, stage \in Stages :
          /\ Again(q, stage) \in RequestRecords
          /\ Again(q, stage).kind = requests[q].kind
          /\ Again(q, stage).by = requests[q].by
          /\ Again(q, stage).with = requests[r].with
          /\ Again(q, stage).pc = stage
  BY <1>a, <1>b DEF RequestRecords
<1>h. "retried" \in Stages /\ "resumed" \in Stages
  BY DEF Stages
<1> HIDE DEF Again
<1>i. \A q \in Requests :
          /\ requests'[q] \in RequestRecords
          /\ requests'[q].kind = requests[q].kind
          /\ requests'[q].by = requests[q].by
          /\ requests'[q].pc = "refreshing" => requests'[q] = requests[q] /\ q # r
          /\ requests'[q] # requests[q] =>
                /\ requests[q].pc \in {"refreshing", "queued"}
                /\ requests'[q].pc \in {"retried", "resumed"}
                /\ requests'[q].with = requests[r].with
  BY <1>a, <1>e, <1>f, <1>g, <1>h
<1>j. \A q \in Requests : requests[q] # Idle /\ requests[q].kind # "login"
                            <=> requests[q].with # NoTokens
  BY DEF SessionInv, Carried, Idle
<1>1. SessionTypeOK'
  <2>1. requests' \in [Requests -> RequestRecords]
    BY <1>e, <1>i DEF Resumed
  <2>2. RequestRecords' = RequestRecords /\ Issued' = Issued
    BY <1>e DEF RequestRecords, Issued
  <2> QED BY <1>b, <1>e, <2>1, <2>2 DEF SessionInv, SessionTypeOK
<1>2. RestoringAlone'
  BY <1>e, <1>i DEF SessionInv, RestoringAlone, Idle
<1>3. \A q \in Requests : Carried(q)'
  <2> SUFFICES ASSUME NEW q \in Requests PROVE Carried(q)'
    OBVIOUS
  <2>1. CASE requests'[q] = requests[q]
    BY <2>1 DEF SessionInv, Carried
  <2>2. CASE requests'[q] # requests[q]
    <3>1. requests[q].kind # "login"
      BY <1>i, <2>2 DEF SessionInv, Carried
    <3> QED BY <1>b, <1>i, <2>2, <3>1 DEF Carried, Idle
  <2> QED BY <2>1, <2>2
<1>4. FlagIsUp'
  <2>1. ASSUME NEW q \in Requests, q # r, requests[q].pc = "refreshing"
        PROVE  requests[q].with # requests[r].with
    BY <1>e, <2>1 DEF SessionInv, OneRefreshAtATime, In
  <2> QED BY <1>e, <1>i, <2>1 DEF FlagIsUp
<1>5. PageIsAllowed'
  BY <1>e DEF SessionInv, PageIsAllowed
<1>6. SubmitEnds'
  BY <1>e, <1>i DEF SessionInv, SessionTypeOK, SubmitEnds
<1>7. OneRefreshAtATime'
  BY <1>i DEF SessionInv, OneRefreshAtATime, In
<1>8. QueueWaits' /\ UserHasTokens'
  BY <1>b, <1>e DEF QueueWaits, UserHasTokens
<1>9. OfOneSession'
  <2>1. CASE r \in overtaken
    BY <2>1 DEF Refreshed, Overtake, OfOneSession
  <2>2. CASE r \notin overtaken
    <3>1. overtaken' = overtaken
      BY <2>2 DEF Refreshed
    <3>2. ASSUME NEW q \in Requests \ overtaken, requests'[q].with # NoTokens
          PROVE  requests'[q].with = requests[r].with /\ requests[q].by = requests[r].with
      <4>1. requests[q].with # NoTokens
        <5>1. CASE requests'[q] = requests[q]
          BY <3>2, <5>1
        <5>2. CASE requests'[q] # requests[q]
          BY <1>i, <5>2 DEF SessionInv, Carried, Idle
        <5> QED BY <5>1, <5>2
      <4>2. requests[q].by = requests[q].with /\ requests[q].with = requests[r].with
        BY <1>b, <2>2, <4>1 DEF SessionInv, OfOneSession
      <4> QED BY <1>i, <4>2
    <3> QED BY <1>e, <1>i, <3>1, <3>2 DEF OfOneSession
  <2> QED BY <2>1, <2>2
<1> QED
  BY <1>1, <1>2, <1>3, <1>4, <1>5, <1>6, <1>7, <1>8, <1>9 DEF SessionInv

LEMMA RefreshFailsStep ==
    ASSUME SessionInv, NEW r \in Requests, RefreshFails(r)
    PROVE  SessionInv'
<1> USE SessionAssumption DEF SessionInv, SessionTypeOK, RequestRecords, Kinds, Stages, Issued,
           Accounts, Destinations, Pages, Idle, history,
           RefreshFails, SignOut, Sent, Carry, Show, Guarded, LeaveForm
<1>1. SessionTypeOK'
  <2>1. requests' \in [Requests -> RequestRecords]
    <3> HIDE DEF SessionInv, SessionTypeOK, RequestRecords, Idle, Sent, Kinds
    <3>1. Sent("logout") \in RequestRecords /\ Idle \in RequestRecords
      BY SentTyped DEF SessionInv, Kinds
    <3>2. requests \in [Requests -> RequestRecords]
      BY DEF SessionInv, SessionTypeOK
    <3> QED BY <3>1, <3>2
  <2> QED BY <2>1
<1>2. RestoringAlone'
  BY DEF RestoringAlone
<1>3. \A q \in Requests : Carried(q)'
  BY DEF Carried
<1>4. FlagIsUp'
  BY DEF FlagIsUp, Carried
<1>5. PageIsAllowed'
  BY DEF PageIsAllowed
<1>6. SubmitEnds'
  BY DEF SubmitEnds
<1>7. OneRefreshAtATime'
  BY DEF OneRefreshAtATime, In
<1>8. QueueWaits' /\ UserHasTokens'
  BY DEF QueueWaits, UserHasTokens, RestoringAlone
<1>9. OfOneSession'
  BY DEF OfOneSession, Carried
<1> QED BY <1>1, <1>2, <1>3, <1>4, <1>5, <1>6, <1>7, <1>8, <1>9

LEMMA RetryFailsStep ==
    ASSUME SessionInv, NEW r \in Requests, RetryFails(r)
    PROVE  SessionInv'
<1> USE SessionAssumption DEF SessionInv, SessionTypeOK, RequestRecords, Kinds, Stages, Issued,
           Accounts, Destinations, Pages, Idle, history,
           RetryFails, SignOut, Sent, Carry, Show, Guarded, LeaveForm
<1>1. SessionTypeOK'
  <2>1. requests' \in [Requests -> RequestRecords]
    <3> HIDE DEF SessionInv, SessionTypeOK, RequestRecords, Idle, Sent, Kinds
    <3>1. Sent("logout") \in RequestRecords /\ Idle \in RequestRecords
      BY SentTyped DEF SessionInv, Kinds
    <3>2. requests \in [Requests -> RequestRecords]
      BY DEF SessionInv, SessionTypeOK
    <3> QED BY <3>1, <3>2
  <2> QED BY <2>1
<1>2. RestoringAlone'
  BY DEF RestoringAlone
<1>3. \A q \in Requests : Carried(q)'
  BY DEF Carried
<1>4. FlagIsUp'
  BY DEF FlagIsUp, Carried
<1>5. PageIsAllowed'
  BY DEF PageIsAllowed
<1>6. SubmitEnds'
  BY DEF SubmitEnds
<1>7. OneRefreshAtATime'
  BY DEF OneRefreshAtATime, In
<1>8. QueueWaits' /\ UserHasTokens'
  BY DEF QueueWaits, UserHasTokens, RestoringAlone
<1>9. OfOneSession'
  BY DEF OfOneSession, Carried
<1> QED BY <1>1, <1>2, <1>3, <1>4, <1>5, <1>6, <1>7, <1>8, <1>9

LEMMA LoadStep ==
    ASSUME SessionInv, NEW r \in Requests, NEW p \in Pages, Load(r, p)
    PROVE  SessionInv'
<1> USE SessionAssumption DEF SessionInv, SessionTypeOK, RequestRecords, Kinds, Stages, Issued,
           Accounts, Destinations, Pages, Idle, history,
           Load, Sent, router, Show, Guarded
<1>1. SessionTypeOK'
  <2>1. requests' \in [Requests -> RequestRecords]
    <3> HIDE DEF SessionInv, SessionTypeOK, RequestRecords, Idle, Sent, Kinds
    <3>1. Sent("me") \in RequestRecords /\ Idle \in RequestRecords
      BY SentTyped DEF SessionInv, Kinds
    <3> QED BY <3>1
  <2> QED BY <2>1
<1>2. RestoringAlone'
  BY DEF RestoringAlone
<1>3. \A q \in Requests : Carried(q)'
  BY DEF Carried
<1>4. FlagIsUp'
  BY DEF FlagIsUp
<1>5. PageIsAllowed'
  BY DEF PageIsAllowed
<1>6. SubmitEnds'
  BY DEF SubmitEnds
<1>7. OneRefreshAtATime'
  BY DEF OneRefreshAtATime, In
<1>8. QueueWaits' /\ UserHasTokens'
  BY DEF QueueWaits, UserHasTokens, RestoringAlone
<1>9. OfOneSession'
  BY DEF OfOneSession, Carried
<1> QED BY <1>1, <1>2, <1>3, <1>4, <1>5, <1>6, <1>7, <1>8, <1>9

LEMMA NavigateStep ==
    ASSUME SessionInv, NEW p \in Pages, NEW to \in Destinations, Navigate(p, to)
    PROVE  SessionInv'
<1> USE SessionAssumption DEF SessionInv, SessionTypeOK, RequestRecords, Kinds, Stages, Issued,
           Accounts, Destinations, Pages, Idle, history,
           Navigate, Go, Stay, Show, Guarded, LeaveForm
<1>1. SessionTypeOK'
  OBVIOUS
<1>2. RestoringAlone'
  BY DEF RestoringAlone
<1>3. \A q \in Requests : Carried(q)'
  BY DEF Carried
<1>4. FlagIsUp'
  BY DEF FlagIsUp
<1>5. PageIsAllowed'
  BY DEF PageIsAllowed
<1>6. SubmitEnds'
  BY DEF SubmitEnds
<1>7. OneRefreshAtATime'
  BY DEF OneRefreshAtATime, In
<1>8. QueueWaits' /\ UserHasTokens'
  BY DEF QueueWaits, UserHasTokens, RestoringAlone
<1>9. OfOneSession'
  BY DEF OfOneSession, Carried
<1> QED BY <1>1, <1>2, <1>3, <1>4, <1>5, <1>6, <1>7, <1>8, <1>9

-----------------------------------------------------------------------------

LEMMA NextStep == SessionInv /\ [Next]_vars => SessionInv'
<1> SUFFICES ASSUME SessionInv, [Next]_vars PROVE SessionInv'
  OBVIOUS
<1>1. ASSUME NEW r \in Requests, Answer(r)
      PROVE  SessionInv'
  BY <1>1, SignInStep, SignInFailsStep, OkStep, ErrorStep, QueueStep, LeadStep, RefreshedStep,
     RefreshFailsStep, RetryFailsStep DEF Answer
<1>2. CASE UNCHANGED vars
  BY <1>2 DEF vars, SessionInv, SessionTypeOK, RequestRecords, Issued, RestoringAlone, Carried,
     FlagIsUp, QueueWaits, UserHasTokens, OfOneSession, PageIsAllowed, SubmitEnds,
     OneRefreshAtATime, In
<1> QED
  BY <1>1, <1>2, LogOutStep, SubmitStep, SendStep, LoadStep, NavigateStep
  DEF Next, Destinations

LEMMA InitHolds == Init => SessionInv
<1> SUFFICES ASSUME Init PROVE SessionInv
  OBVIOUS
<1>1. \A r \in Requests : requests[r] = Idle
  BY DEF Init
<1>2. Idle \in RequestRecords
  BY DEF Idle, RequestRecords, Stages, Kinds
<1>3. SessionTypeOK
  <2>1. requests \in [Requests -> RequestRecords]
    BY <1>2 DEF Init
  <2>2. sessions \in 0 .. MaxSessions /\ page \in Pages /\ redirect \in Destinations
    BY SessionAssumption DEF Init, Pages, Destinations
  <2>3. phase \in {"restoring", "running"} /\ stayed \in BOOLEAN
    BY DEF Init
  <2> QED BY <2>1, <2>2, <2>3 DEF Init, SessionTypeOK
<1>4. RestoringAlone /\ \A r \in Requests : Carried(r)
  BY <1>1 DEF Init, RestoringAlone, Carried, Idle
<1>5. FlagIsUp /\ OneRefreshAtATime /\ OfOneSession
  BY <1>1 DEF Init, FlagIsUp, OneRefreshAtATime, In, OfOneSession, Idle
<1>6. QueueWaits /\ UserHasTokens /\ PageIsAllowed /\ SubmitEnds
  BY DEF Init, QueueWaits, UserHasTokens, PageIsAllowed, SubmitEnds
<1> QED BY <1>3, <1>4, <1>5, <1>6 DEF SessionInv

(* The invariant behind the properties of a session.                       *)
THEOREM SessionIsSound == Spec => []SessionInv
  BY InitHolds, NextStep, PTL DEF Spec

(* A page is shown only to whom its guards let in, although they look only *)
(* when the router moves (auth.guard.ts, role.guard.ts), but for the page  *)
(* that a form that was left asked for while it was on screen.             *)
THEOREM PagesAreGuarded == Spec => []PageIsAllowed
<1>1. SessionInv => PageIsAllowed
  BY DEF SessionInv
<1> QED BY <1>1, SessionIsSound, PTL

(* A disabled sign-in form waits for a request that is still under way     *)
(* (login.component.ts, register.component.ts).                            *)
THEOREM BusyFormsAreAnswered == Spec => []SubmitEnds
<1>1. SessionInv => SubmitEnds
  BY DEF SessionInv
<1> QED BY <1>1, SessionIsSound, PTL

(* No session is refreshed twice at a time, for any number of requests     *)
(* that fail together (auth.interceptor.ts).                               *)
THEOREM RefreshIsShared == Spec => []OneRefreshAtATime
<1>1. SessionInv => OneRefreshAtATime
  BY DEF SessionInv
<1> QED BY <1>1, SessionIsSound, PTL

(* What is sent again after a 401 carries a token of the session it began  *)
(* in, for any number of requests, refreshes and sessions before it        *)
(* (auth.interceptor.ts): unless somebody signed in meanwhile, or a        *)
(* refresh that this had happened to came back.                            *)
THEOREM RequestsKeepTheirSession == Spec => []ResentInItsSession
<1>1. SessionInv => ResentInItsSession
  <2> SUFFICES ASSUME SessionInv, NEW r \in Requests \ overtaken,
                      requests[r].pc \in {"refreshing", "retried", "resumed"}
               PROVE  requests[r].with = requests[r].by
    BY DEF ResentInItsSession
  <2>1. requests[r].with # NoTokens
    BY DEF SessionInv, Carried, Idle
  <2> QED BY <2>1 DEF SessionInv, OfOneSession
<1> QED BY <1>1, SessionIsSound, PTL
=============================================================================
