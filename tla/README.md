# Support platform: a TLA+ verification project

The repository is a support desk: an Angular client, a NestJS API and worker,
PostgreSQL and RabbitMQ. This directory models what is concurrent, failure-prone
or order-dependent in it, checks the models with TLC and proves theorems about
them with TLAPS. `PROJECT.json` is the machine-readable index: components, runs,
mutants, the map from definitions to source lines, findings, hazards, theorems.
Paths below are relative to `src/`; `B/` stands for `backend/src/` and `F/` for
`frontend/src/app/`.

## 1. Inventory

| Part | State it keeps | Operations | What is hard |
| --- | --- | --- | --- |
| Tickets, comments (`B/tickets`, `B/comments`) | `tickets`, `comments` rows | create, update, assign, comment | lookup and write are separate statements; references are counted; access depends on a role read earlier |
| Users (`B/users`) | role, activity | update, deactivate, create | changes while requests of, or about, the user are in flight |
| Outbox publisher (`B/messaging/event-publisher.service.ts`) | `event_outbox` rows | enqueue in the caller's transaction | commit or rollback together with the change |
| Outbox relay (`B/messaging/outbox-relay.service.ts`) | `running`, `stopped`, row status and attempts | one tick every 3 s | overlapping ticks, several processes, crash between publish and mark |
| Topology (`B/messaging/contracts`, `B/worker`) | queues and bindings | declared when the worker boots | events published before anything is bound |
| Consumer runner, idempotency (`B/consumers`) | `processed_events`, `x-retry` header | handle, runOnce, retry, dead-letter | redelivery, concurrent handlers, ambiguous commits, failing publishes |
| Projections (`B/consumers/*.consumer.ts`) | notifications, audit log, daily metrics | one projection per event kind | events arrive late and in any order |
| Refresh tokens (`B/auth/token.service.ts`) | `refresh_tokens` rows | issue, rotate, revoke | a series of statements without a transaction |
| Accounts (`B/auth/auth.service.ts`, `jwt.strategy.ts`, `B/users`) | users, addresses, password hashes | register, create, login, change of address, validate | lookup, slow hash and insertion are three steps, and so are lookup, comparison and sign-in |
| Organizations (`B/organizations`) | `organizations` rows | CRUD | deletion against foreign keys |
| Read side (`B/notifications`, `B/audit`, `B/common/utils/pagination.util.ts`) | read marks | list, count, mark read | pages and counters that change under the reader |
| Web session (`F/services/auth.service.ts`, `F/interceptors/auth.interceptor.ts`, `F/core/auth`, `F/guards`, `F/features/auth`) | tokens in localStorage, `user` signal, `isRefreshing`, `refreshedToken$`, the page of the router, the busy form | login, register, navigate, restore, refresh, logout | many requests trip over one expired token; answers come in any order, also to a form that was left; guards look only when the router moves |
| Web list pages and forms (`F/features/*/*-list`, `*-form`, `F/shared`) | query controls, rows and total shown, loading and saving flags | type, filter, page, sort, create, edit, remove | loads are not cancelled; answers come in any order or not at all; a 204 answer has no body |
| Ticket page, notification menu (`F/features/tickets/ticket-detail`, `F/layouts`, `F/services/notifications.service.ts`) | ticket and comments shown, form and dialog; badge and list | load, change status, assign, comment, edit; open a notification, mark read | own copies of server state, never polled; answers in any order; the router keeps the page when only the id changes |
| Health, configuration, bootstrap, filters | none worth a variable | probes, validation | — |

How they interact: a request of the web client passes the interceptor, the JWT
strategy and the roles guard and ends in a service. A service that changes a
ticket writes the row and an outbox row in one transaction. The relay, a timer in
every API process, publishes committed rows to the topic exchange; the broker
copies each to the queues whose binding matches; the worker's handlers apply it
in a transaction with a `processed_events` row, or retry it, or dead-letter it.
The read side and the client's pages show what came out.

What makes the parts correct, in one line each:

- pipeline: an event takes effect at each subscriber at most once, only if its
  transaction committed, and is never lost silently;
- tickets: no request crosses organizations, customers keep to their own tickets,
  a closed ticket was announced, references are unique and without gaps;
- projections: the right people are told, the audit trail explains the tickets,
  the metrics count what happened;
- tokens: one exchange per token, one live token per family, revocation is final;
- accounts: one account per address, a token is of the account whose password was
  given for it, and a sign-in of many steps is to the tokens as one of a single step;
- session: requests wait for the refresh that concerns them and are sent again in
  the session they began in; one refresh of a session at a time;
  no page is shown to somebody its guards keep away, and no form stays busy for ever;
- list pages: when nothing is pending the table shows what the controls ask for
  and the server has; the loading bar ends; a form inserts one row;
- ticket page and menu: when nothing is pending they show what the database has,
  as far as anything told them; a comment is stored once, and shown in order.

## 2. Modules

| Module | What it is | Source |
| --- | --- | --- |
| `Broker` | the exchange, queues, bindings, dead-letter queue; the fault counter | `B/messaging/contracts`, `B/worker/worker-messaging.module.ts`; RabbitMQ itself is external |
| `OutboxRelay` | business transactions, relay ticks, API processes | `event-publisher.service.ts`, `outbox-relay.service.ts` |
| `ConsumerRunner` | handler executions of the worker | `consumer-runner.service.ts`, `idempotency.service.ts` |
| `EventPipeline` | composition of the three; fairness; properties | `worker.ts` |
| `EventDelivery` | the abstract promise: applied at most once, after commit, to subscribers | — |
| `EventPipelineProofs` | theorems about `EventPipeline` | — |
| `Tickets` | requests as processes over users, tickets and the outbox | `B/tickets`, `B/comments`, `B/users`, `jwt.strategy.ts`, `roles.guard.ts` |
| `TicketsProofs` | theorems about `Tickets` | — |
| `Projections` | `Tickets` plus what the consumers write | `B/consumers/*.consumer.ts` |
| `ProjectionsProofs` | theorems about `Projections` | — |
| `Tokens` | refresh-token families | `token.service.ts`, `auth.service.ts` |
| `TokensProofs` | theorems about `Tokens` | — |
| `Accounts` | `Tokens` below the calls that lead to a sign-in, the administrators and the organizations | `auth.service.ts`, `users.service.ts`, `organizations.service.ts`, the unique index and the foreign keys |
| `AccountsProofs` | theorems about `Accounts` | — |
| `Session` | the session of a browser tab | `auth.interceptor.ts`, `auth.service.ts`, `token-storage.service.ts`, the login and registration components, the guards and routes |
| `SessionProofs` | theorems about `Session` | — |
| `ListPage` | one list page with its dialogs, and the list queries and CRUD operations of the API behind it | `ticket-list`, `user-list`, `organization-list` and the forms, `data-table`, `api.service.ts`, `organizations.service.ts`, `users.service.ts`, `pagination.util.ts` |
| `ListPageProofs` | theorems about `ListPage` | — |
| `TicketPage` | the ticket page under the notification menu, and what the API does for both | `ticket-detail`, `ticket-form`, `main-layout`, `notifications.service.ts` of both sides, `comments.service.ts` |
| `TicketPageProofs` | theorems about `TicketPage` | — |
| `MC*` | constants and symmetry for TLC | — |

Composition. `EventPipeline` extends `OutboxRelay` and `ConsumerRunner`, which
both extend `Broker`: an action of one side leaves the variables of the other
unchanged and meets it in the broker's. `Projections` extends `Tickets` and takes
from the pipeline only what `EventDelivery` promises (an event reaches a consumer
at most once, in any order); that the pipeline keeps this promise is checked and
proved separately, and that `Projections` asks for no more is proved too, so
neither model carries the other's state. `Accounts` extends
`Tokens`: its slots work on a call first and on a `Tokens` request from the moment
a family is chosen, and `ImplementsTokens` says that hiding the calls leaves a
behaviour of `Tokens`.

Reading the models against the code:

- **A step is what runs between two awaits.** A relay tick is `StartTick`,
  `Query`, then for each row `PublishRow` and `MarkDispatched` (or
  `PublishFails`/`MarkFails` and `RecordFailure`), then `EndTick`. A handler is
  `Deliver`, `Claim`/`Duplicate`, `Project`/`ProjectThrows`, `Commit`, and on an
  error `Retry`/`DeadLetter`, then `Ack`. A request of `Tickets` is `Arrive`,
  `Find`, `CheckAssignee` and the transaction. A rotation of `Tokens` is
  `Present`, `Burn` or `CheckUser`, `RevokePresented`, `Issue`. A registration of
  `Accounts` is `Apply`, `CheckAddress`, `Insert`, then `Issue`; a sign-in is `Login`,
  `Compare`, `Touch`, then `Issue`. An action of
  `Session`, `ListPage` or `TicketPage` is one JavaScript callback with everything
  it calls; a list query is `FindMany` and `Count`, two statements of one
  transaction; a ticket page loads by `ReadTicket` and `ReadComments`, two requests
  in either order. What `Tickets` splits into steps, `TicketPage` serves in one:
  there the question is what the answers do to the page.
- **A transaction whose first write locks the row is one step**; `create` reads
  (`Count`) before it writes and is two. An uncommitted `processed_events` row
  blocks another insert of the same key, as a unique index does.
- **Faults are actions**: a publish or an update that throws, after or before it
  took effect; a lost channel; a dying worker or API process; a request that
  fails at any await; a submission that the proxy gives up on (`proxy_read_timeout`)
  and the API serves later (`TimesOut`, `SubmissionTimesOut`). In the pipeline each
  spends one of `MaxFaults`, so that properties can tell what a fault is needed for.
- **Data is cut to what properties tell apart.** An event is its key, ticket,
  organization, actor, assignee and `isInternal`; a ticket patch is its status
  and whether it names a priority; a token is its row.
- Definitions named `X_Something` before a definition `X` are deliberately wrong
  variants; each shows that some property would notice the mistake. They are
  listed under "mutants" and nothing else uses them.

Simplifications that a reader should know: the rows of one transaction commit
one by one in `OutboxRelay` (in `Tickets` together); the broker keeps what it
accepted; tickets are never deleted, because the foreign key of their creator
refuses the deletion of an organization that has any; users never change
organization, because no operation changes it; one browser tab. In `Session` a
navigation ends in the callback that starts it (the chunk of a page is there
already), the registration form is a sign-in form that leads to the dashboard,
and a form left while its request is under way leads on to any page; a pair of
tokens is told by the sign-in it descends from, and the API may answer 401 to any
of them at any time; the `initialized` signal, which nothing reads, is left out. In
`TicketPage` a reading of a notification that fails was served before or never is:
only the page's own requests are given up and served late. In `ListPage` a row
inserted for a submission that was given up counts neither as made by the form nor
as a lost answer. In `Accounts` a sign-in chooses its family when it finds the
account, before the password is compared; nothing depends on when, since no one
else ever gets that family.

## 3. Runs

Every bound is a constant of a model (`MaxFaults`, `MaxRetries`, `MaxEvents`,
`MaxDays`, `MaxChanges`, `Forms`, `MaxSessions`, `MaxSteps`) or the size of a set of
processes or ids.

| Run | Instance | Shows |
| --- | --- | --- |
| `pipeline` | 2 events in one batch, 2 subscribers, 2 ticks of one process, 2 handlers, 2 faults | applied at most once; nothing lost; no phantom; a republication and a FAILED row each cost faults; refinement of `EventDelivery` |
| `progress` | first start, 1 event, 2 subscribers of which audit always throws, 2 faults; fairness | rows leave PENDING, queues drain, what was queued is applied or dead-lettered |
| `tickets` | 3 users of 2 organizations, each with the calls he makes, 2 requests at a time, 3 tickets, 5 events | closed tickets are announced, once per closing unless overtaken; references contiguous; organizations and customers stay apart; assignees are active staff |
| `projections` | 3 users, 1 request at a time, 3 events consumed in every order, 2 days | who is notified, internal notes, audit trail, metrics |
| `accounts` | 2 accounts of 1 organization, 2 addresses, 2 passwords, 2 families, 3 tokens, 2 requests, crashes, 2 changes by administrators or the clock | an exchanged token is revoked; one exchange, one live token, dead families stay dead as long as no two requests meet in the family; one account per address; tokens belong to who gave the password; refinement of `Tokens` |
| `session` | 3 requests, 2 sign-ins of which one is an administrator's, 3 pages; fairness | requests are sent again in their session unless overtaken, one refresh at a time, pages are those the guards allow unless a form that was left asked for the one on screen, the form waits only for answers that can come, the queue resolves unless its refresh failed |
| `lists` | each of the 3 pages, 4 rows, 2 loads and 2 submissions in flight, 4 steps (another user's counts 2) | the table is current when quiet, the loading bar ends, no empty page, one row per form |
| `ticket_page` | 2 tickets, 2 notifications, 2 requests in flight, 3 steps, an admin, an agent or a customer; 1 comment and 1 notification to a page | page, comments and badge are current when quiet, comments in order and of the ticket shown, nothing stays busy, one comment per text unless an answer was lost or given up |

Why the bounds are enough. What the pipeline properties speak about concerns one
event and one consumer; two ticks and two handlers give every pairwise race, two
events share a batch, and two faults allow a failed publication followed by a
failed update, or a redelivery followed by a failed retry. Ticket races are
between two requests; a closing records two events, so that five allow close,
reopen or assign, close again, and four two concurrent closings. Three tokens
give an exchange, its reuse and a live one in another family; two changes allow
an account to be deactivated and reactivated, or an address to be freed and taken
again, while two calls are under way. Three requests give a
leader, one queued request and one that comes late; two sign-ins and an old refresh
still under way give a request the token of the other session, which is what
`overtaken` is for, and an administrator's page to somebody else (`stayed`). Four steps on a list page are
what it takes to bring a debounce and a filter out of step, or to open a form,
save, lose the answer and save again. On a ticket page three steps open it and
overlap two writes, or post, lose the answer and post again, or follow a
notification away from it and back; with one comment and one notification to a
page, two of each already exceed it. No request arrives in `Tickets` once
`MaxEvents` events are recorded, since it could not record its own; those in
flight go on. The theorems of section 4 do not depend on any of this.

Deadlock is checked in every run but those of `ListPage` and `TicketPage`, whose
users stop after `MaxSteps` steps. The bound costs `LoadingEnds` and `BusyEnds`
nothing: they are invariants.

The other runs expect a violation. Each is a disagreement between the code and
a sentence of the repository; the finding in `PROJECT.json` quotes it.

| Run | The code does | The repository says |
| --- | --- | --- |
| `first_boot` | what is published before the worker's first start is dropped and marked DISPATCHED | "no lost or phantom events" |
| `double_spend` | one token presented twice at once is exchanged twice | "each refresh rotates the token" |
| `hung_queue` | a failed refresh leaves the requests behind it hanging | "queue until the in-flight refresh completes" |
| `removed_row` | the 204 answer to a DELETE has no body, so `res.data` throws and the page is not loaded again | "unwraps the standard envelope", "wraps every successful response" |

Other behaviours that the models have because the code has them, and that the
properties therefore name as exceptions or do not promise:

- the flag of a relay is a field of its process: ticks of two API processes publish
  the same row without any fault (`FlagPreventsDoublePublishing` is about one
  process), and the consumers' `processed_events` make up for it (`AppliedOnce`
  holds for any number);
- a broker outage of `maxAttempts` ticks turns a committed row into FAILED, which
  nothing publishes later (`GivesUpOnlyAfterFaults` says only that it takes that
  many faults);
- two concurrent creations compute one reference; the unique index refuses the
  second with 409 (`ReferencesAreContiguous` holds because of it);
- a closing decided on a status that somebody else has changed since is announced
  twice or not at all (`overtaken` in `ClosingsAnnounced`);
- a customer's edit is not refused on a ticket that is no longer open, and a
  demoted assignee is still told of internal notes;
- a family revoked while a rotation is between its revocation and its insertion
  has a live token afterwards (`contended` in `EndedFamiliesStayDead`);
- an administrator may create an account in an organization that is not active;
  registration asks for an active one, but only before the password is hashed;
- a deactivated account keeps its refresh tokens, which work again after its
  reactivation; a password compared in time signs in an account that was
  deactivated since it was looked up;
- the answer to a sign-in form that was left signs in all the same, and leads
  away from wherever the user is. If it leads to the page on screen, Angular's
  router does nothing (`provideRouter` has no `onSameUrlNavigation`): a form left at
  `/auth/login?redirectTo=/users` and answered while an administrator who signed in
  since is on `/users` leaves whoever it signed in there, and no guard looks until
  the router moves (`stayed` in `PageIsAllowed`);
- a refresh answered after a logout or a new sign-in stores its tokens and hands
  them to all that are queued: a request of one session can be sent again with the
  tokens of another (`overtaken` in `ResentInItsSession`); an error of the retried
  request signs the user out as an error of the refresh does;
- on a list page, a text that `distinctUntilChanged` holds back leaves the table
  with another text's rows (`suppressed` in `TableIsCurrent`); the answer to an
  older query can be the last one shown; a form dismissed while it saves writes
  its row without the list being loaded again; a sort, a turn or an edit sent
  while a text is being typed that is then typed back leaves an empty page
  (`overrun` in `NoEmptyPage`: it takes more steps than the run `lists` has, and
  appeared in the proof);
- following a notification from one ticket page to another changes the URL and
  nothing else: the page keeps the ticket it was opened with, and its controls act
  on that one (`PageIsCurrent` speaks of `opened`, not of `url`);
- the badge is counted once: later notifications, a second reading through a stale
  menu and a count overtaken by a reading leave it wrong until all are marked read
  (`miscounts` in `BadgeIsCurrent`); of two overlapping changes of a ticket the
  answer that comes last is shown; more than `CommentLimit` comments hide the
  newest.

### Fairness

`EventPipeline!FairSpec`: the interval keeps firing in every process
(`StartTick`), an await returns (`TickStep`, `SlotStep`), a stopped process is
started again (the `restart: unless-stopped` of the compose file), the broker
hands every waiting message to some free handler (`Deliver`, per message), and
the worker boots. All of it is weak fairness and none of it concerns faults,
which may or may not happen. `Session!FairSpec`: the browser settles every
request in the end, with an answer or an error. Nothing is assumed of users.

## 4. Proofs

TLAPS proves the theorems below for every value of the constants that the
assumptions of the modules admit: any number of events, consumers, ticks,
replicas, handlers, faults and retries in `EventPipelineProofs`; any number of
users, families, tokens, calls and concurrent requests in `TokensProofs` and
`AccountsProofs`; any number of users, organizations, tickets and requests in
`TicketsProofs` and `ProjectionsProofs`; any number of requests and sign-ins in
`SessionProofs`; any number of rows, tickets, notifications and requests in flight
in `ListPageProofs` and `TicketPageProofs`; any number of days in the metrics. The
assumptions are those a module declares: sizes are natural numbers, "no row", "no
request" and "not counted yet" are none of the values they stand beside, the
tickets, rows, notifications and the requests of a ticket page in flight are
finite in number, and what the seed script writes is numbered from 1 within one
organization.

| Theorem | Statement | Inductive invariant |
| --- | --- | --- |
| `TypeCorrect` (pipeline) | `[]TypeOK` | `TypeInv`: `TypeOK`, and what the program counter of a tick or a handler says of its other fields (`RelayShape`, `RunnerShape`) |
| `AtMostOnce` | `[]AppliedOnce` | `OnceInv`: besides, at most one open transaction holds a key, and none holds a key that is committed |
| `NoLoss` | `[]NothingLost` if all queues are declared beforehand | `LossInv`: the bindings stay complete; each accepted event is applied, dead-lettered or in a message at each subscriber |
| `NoPhantoms` | `[]DispatchedArePublished` | `PublishInv`: rows that a tick holds are committed, the row it is about to mark was accepted |
| `PipelineImplementsDelivery` | `Spec => ImplementsDelivery` | `TypeInv`, `OnceInv`, `PublishInv` and `MessageInv`: every message, waiting or in a handler, is of a committed event and a subscriber of it |
| `NoEarlyGiveUp` | `[]GivesUpOnlyAfterFaults` | `AttemptInv`: the attempts of a row, with what a tick has read and is about to write, never exceed the faults so far |
| `FlagPreventsDoublePublishing` | `[]RepublishedOnlyAfterFault` if all ticks belong to one process | `FlagInv`: while the flag is set one tick is active; each publication of a row beyond the one being marked has cost a fault |
| `TypeCorrect` (tokens) | `[]TypeOK` | `RotationInv` |
| `RotationRevokes` | `[]ExchangedIsRevoked` | `RotationInv`: besides, a request that has revoked its token refers to a revoked row of its family, and rows persist |
| `ExchangesInTurn`, `OneLiveInTurn`, `EndedIsDeadInTurn` | `[]ExchangedOnceInTurn`, `[]OneLivePerFamily`, `[]EndedFamiliesStayDead` | `TurnInv`: in a family that never had two requests at once, either no request is under way and at most one token lives, or the sole request's step says which tokens are live, exchanged and ended |
| `AccountsImplementTokens` | `ASpec => ImplementsTokens` | none: each step of a call is a step of `Tokens` or a stutter (`StepImplementsTokens`) |
| `TokensBelongToTheirUsers` | `[]TokensAreOwn` | `OwnershipInv`: besides `RotationInv`, the family a call or a request works on was opened with the password of its account |
| `AddressesAreUnique` | `[]OneAccountPerAddress` | `AddressInv`: types; the unique index does the rest at each insertion and change |
| `SessionIsSound`, `PagesAreGuarded`, `BusyFormsAreAnswered`, `RefreshIsShared`, `RequestsKeepTheirSession` | `[]SessionInv`, `[]PageIsAllowed`, `[]SubmitEnds`, `[]OneRefreshAtATime`, `[]ResentInItsSession` | `SessionInv`: while a session is restored its request is alone (`RestoringAlone`); a sign-in carries no token and all else carries one (`Carried`); the flag of the interceptor is up while the stored session is refreshed (`FlagIsUp`), and then the subject holds no token (`QueueWaits`); who is signed in has tokens (`UserHasTokens`); requests that no sign-in has overtaken are all of one session, the one in storage if there is any (`OfOneSession`) |
| `TicketsAreSound`, `ClosingsAreKnown`, `ClosingsAreCounted`, `OrganizationsAreApart`, `CustomersAreConfined`, `ReferencesAreUnbroken` | `[]TicketsInv` and its parts `ClosedIsAnnounced`, `ClosingsAnnounced`, `OneOrganization`, `CustomersKeepToTheirTickets`, `ReferencesAreContiguous` | `TicketsInv`: besides, `RequestInv`: what each request in flight has learned at an earlier step is still so, or it was overtaken |
| `AssigneesAreStaff` | `AssignedToActiveStaff` (a step property) | `TicketsInv` |
| `ProjectionsAreSound`, `InternalNotesAreInternal`, `CreatorsAreTold`, `TrailExplainsTickets` | `[]ProjectionsInv`, `[]InternalNotesGoToAssignees`, `[]TheRightPeopleAreTold`, `[]AuditExplainsTickets` | `ProjectionsInv`: `TicketsInv`; `OriginsInv`, every ticket and every assignee is explained by the seed or an event; `AppliedInv`, what was applied to the trail is in it |
| `EventsAreCounted`, `MetricsAreRight` | `[](CreationsInv /\ MetricsInv)`, `[]MetricsMatchTickets` | `MetricsInv`: each column summed over all days is the number of its events that were applied; `CreationsInv`: no ticket is created twice in the outbox, and none of the seed |
| `ProjectionsImplementDelivery` | `PSpec => ImplementsDelivery` | `ProjectionsInv`: a consumer's application or a committed event is a step of `EventDelivery`, all else a stutter |
| `ListPagesAreSound`, `LoadingBarsEnd`, `FormsMakeOneRow` | `[]ListInv`, `[]LoadingEnds`, `[]OneRowPerForm` | `ListInv`: an open form waits for one submission (`OneOpenPost`), and has no row yet that it could repeat unless an answer was lost (`Counted`) |
| `TablesAreSound`, `TablesAreCurrent`, `PagesAreNotEmpty` | `[]TableInv`, `[]TableIsCurrent`, `[]NoEmptyPage` | `TableInv`: the newest load is in flight or was answered (`NewestInFlight`); unless `drift` names a reason, it asks what the controls say and has what the server would answer now, and so has the table (`NewestAsked`, `ShownAsked`); unless `overrun`, the page, the newest load and what is shown start before the last row (`PageWithin`, `LoadWithin`, `ShownWithin`) |
| `TicketPageIsSound`, `BusyPagesAreAnswered`, `TextsAreStoredOnce` | `[]PageInv`, `[]BusyEnds`, `[]OneCommentPerDraft` | `PageInv`: the page waits for one answer of a kind at a time (`OneAtATime`), drafts are numbered and the form holds the newest (`Numbered`), and one still to be stored neither is stored nor on its way a second time, unless an answer was lost (`ToStoreOnce`) |
| `TicketPageShowsAnswers`, `PagesAreCurrent`, `CommentsAreInOrder` | `[]ShownInv`, `[]PageIsCurrent`, `[]CommentsInOrder` | `ShownInv`: the answers in flight are of the ticket shown (`OnPage`), unless `drift` names a reason, the row shown is the database's or the answer to the newest write is on its way (`RowIsCurrent`, `NoWriteYet`), the comments shown are sorted, of this ticket and, unless `gap` names a reason, miss only those under way (`ListIsSound`, `ListIsCurrent`) |
| `BadgeIsTallied`, `BadgesAreCurrent` | `[]BadgeInv`, `[]BadgeIsCurrent` | `BadgeInv`: one count is asked for at a time (`MenuWaits`), the menu lists stored notifications (`MenuExists`), and unless something was miscounted the badge, or the count on its way to it, is what is unread and the readings it has not heard of (`Tally`) |

Why the invariants are needed. `AppliedOnce` alone is not preserved by `Commit`:
it takes the exclusion of a second open claim. `DispatchedArePublished` is not
preserved by `MarkDispatched` without knowing that the row in hand was accepted.
`OneLivePerFamily` is not preserved by `Issue` without knowing that the request
revoked the only live token earlier, and that nobody came in between, which is
what `contended` records. `ClosingsAnnounced` is not preserved by the write of an
update without knowing that the status it read before its transaction is still the
ticket's, which holds only of tickets that are not `overtaken`; that is what
`RequestInv` carries from `Find` to the transaction. `TokensAreOwn` needs the owner
of a family from the moment it is chosen, before there is a token in it.
`OneRefreshAtATime` is not preserved by a 401 without knowing that the flag of the
interceptor is up while somebody refreshes for the stored session, since refreshes
of an earlier session may still be under way without it. `ResentInItsSession` is not
preserved by the answer to a refresh, which sends all that are queued with its own
token, without knowing that these are of the same session unless overtaken.
`OneRowPerForm` and
`OneCommentPerDraft` are not preserved by the API's insertion: that the row was
not inserted before follows from what the form, the dialog and the requests in
flight say together. `TableIsCurrent` and `NoEmptyPage` speak of a page at rest,
and what makes them true happens while it is not: `TableInv` follows each load
from the request through `FindMany` and `Count` to its answer, with what it asked
and what has changed since. `PageIsCurrent` and `BadgeIsCurrent` are of the same
kind: `ShownInv` and `Tally` say, of every state between two answers, what the
answers still in flight will make of the page. `MetricsMatchTickets` compares a
sum over days with a number of events; `MetricsInv` is the equation it rests on.

The sum is a recursive function on the days (`OverAllDays`). The library's
induction theorems take an operator as a parameter, so `SumIs` is proved from the
well-ordering of the natural numbers instead: of the days on which a sum is not
what it should be there would be a least one (`LeastNumber`). That one more event
in a row adds one to the sum of its column (`SumOfOneMore`) is all that the step
of the analytics consumer needs.

The refinements map the committed rows and the applied pairs to the variables of
`EventDelivery`; a step is an abstract commit, an abstract application, or a
stutter. The entries of the outbox of `Tickets` are told apart by their place, a
natural number, so `ImplementsDelivery` of `Projections` is proved and not run.

The argument is the usual one throughout: the initial states satisfy the
invariant, each action preserves it (one step of the proof per action), it
implies the property, and temporal logic does the rest. The runs check the same
properties on the small instances.

With TLC only: the liveness properties (`OutboxDrains`, `QueuesDrain`, `Settled`,
`QueueResolvesUnlessStranded`), since the prover reasons neither about fairness
nor about `ENABLED`. Every invariant, step property and refinement of a passing
run is the statement of one of the theorems. The properties of the other runs are
refuted by a counterexample and stay with TLC.

## 5. What is not modelled, and why

- The web dashboard, toasts and names of users: they show what they are given
  and decide nothing. Health probes, configuration, images and CI have no behaviour
  over time. The audit read side is a query on rows that are only ever added.
- The rate limits of the API and RabbitMQ's prefetch, confirms and disk.
- Ties of a sort by a column that is not unique, which PostgreSQL may order
  differently for each page.
- A second browser tab on the same localStorage.
- A deletion of an organization that has tickets, which the foreign keys refuse.

`PROJECT.json` gives the reason for each part under "components".
