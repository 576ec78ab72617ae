# Verification of the LGS lead generation system

TLA+ models of the parts of this repository that have concurrent or stateful
behaviour, the TLC runs that check them on small instances, and TLAPS proofs of
the results that matter most for every size. Everything is translated from the
source; where a doc or a comment says something else, section 6 names the
difference, four of them with a run that shows it.

## 1. The system

| Component | State | Operations | Who talks to it |
|---|---|---|---|
| Campaign service: `pkg/campaign/service.go`, handlers in `services/backend/main.go` | none of its own: one goroutine per request; all state is in Postgres | create, get, list, update, set status, delete; each mutation but delete then inserts an audit row | the dashboard over HTTP; Postgres by autocommitted statements |
| Core schema: `services/postgres/init-scripts/01_core_schema.sql` | `users`, `campaigns`, `audit_logs`, and tables for leads, profiles and relationships | constraints, foreign keys with `ON DELETE`, timestamp triggers | the two services above and below |
| Queue manager: `pkg/queue/queue.go` | four buffered channels, a context, a counter under a mutex | push, pop and peek for each pipeline, stats, health, close | a library: no caller in the repository yet |
| Tokio spine: `services/scrape-worker/src/main.rs` | two unbounded channels, their receivers behind mutexes, statistics, a shutdown flag | push, pop, health, stats, shutdown; worker loops on a runtime | worker tasks of its own process |
| Users and auth: `pkg/users/users.go`, `pkg/auth/auth.go` | `users` table; tokens are held by clients | register, authenticate, change password, validate a token, middleware | handlers of the backend |
| Gateway: `services/backend/main.go` | the phase of the process, the connections of its pool that are out | start, serve, stop within a deadline, close the pool, exit, restart | signals, clients, the campaign service, which it runs |
| Dashboard session: `services/frontend` (`useAuth`, `Providers`, `middleware`, `api`) | cookie, stored user, query cache, requests in flight | sign up, in and out, navigate, fetch, mutate, react to a 403 | the backend over HTTP; other tabs by the cookie |
| Campaign pages: `services/frontend` (list, table, filters, page of a campaign, pipeline) | view on the screen, open menu, query cache, requests in flight | filter, open, refresh, change the status, delete | the backend; other tabs by the table |
| Create form: `CampaignCreateModal.tsx` | fields, input type, whether it is shown, the POSTs | type, switch the input type, submit, close, reopen | the backend |
| Connections, configuration, models: `pkg/db`, `pkg/redis`, `pkg/config`, `pkg/models` | a connection pool | connect, read the environment | all Go programs |
| Stubs: `services/{antidetect-service,proxy-manager,search-worker,validation-worker}` | none | print a line | nobody |
| Deployment: `deploy`, `Makefile`, Dockerfiles | none | build, start, restart | |

What is hard in it, component by component:

* **Campaign service.** A mutation and its audit row are two statements with no
  transaction around them. Requests of one user race on one campaign; a delete
  can come between an update and its audit row; a connection can drop after the
  statement committed, a client can go away, the process can die anywhere.
  Correct means: no user sees or changes another's campaigns, no update is
  lost, an answer does not misreport the effect, the trail is truthful.
* **Queue manager.** A peek is a receive followed by a send, so other calls can
  come between its halves; `Close` closes channels under running pushes; a pop
  blocks until a message, a context or a shutdown releases it. Correct means:
  bounded, first in first out, delivered at most once, nobody left asleep.
* **Tokio spine.** A push takes the statistics lock and then the receiver lock,
  a pop takes them the other way round and keeps the receiver across an
  `await`; a task that blocks in a std mutex keeps its thread. Correct means:
  the same as above, and that a pop with a message available returns.
* **Users and auth.** Nothing is locked between the statements of a login or of
  a password change (read, compare, write); two registrations of one email
  overlap; a token outlives changes of the row it was made from. Correct means:
  one account per email, a login answered as if it were one step, a password
  replaced only by who knew one, a handler that runs under an identity earned
  by a login that has not expired.
* **Gateway.** A stop gives requests 15 seconds and then closes the pool under
  whatever still runs; handlers have no deadline (the write timeout of 10 seconds
  ends none, it loses their responses);
  closing the pool has none either; a request takes two connections in turn from
  a limited pool. Correct means: a stop within its deadline takes no response and
  no audit row away, a request that holds a connection never waits for another,
  the process ends.
* **Dashboard.** Answers of requests sent in one session arrive in the next, or
  never; a cached list outlives a mutation; the cookie lapses, or another tab
  changes it, without a word to the cache; a sign-in clears nothing, and two of
  them may overlap. Correct means: the sidebar names the account that is signed
  in, nothing of a session crosses a clear of the cache, and a view that counts as
  fresh shows the mutations the tab was told of.
* **Campaign pages.** What a button offers is decided by a cached status; the
  server carries out any change. A refetch may be late, fail twice, be joined or
  be cancelled, and the user may be on another page by then. Correct means: what
  is on the screen and at rest is not older than what the tab was told, and a
  transition carried out is one the buttons offer for the status it meets.
* **Create form.** The component outlives what it shows: closing it ends neither
  its request nor its input type, and the answer of an old draft closes the form
  of a new one. Correct means: a draft becomes one campaign, with its own terms,
  and the button comes back.

`PROJECT.json` lists each hazard at its line with the properties that would
catch it going wrong.

## 2. Modules

| Module | What it is |
|---|---|
| `CampaignService` | every campaign handler with the service method it calls and the tables it uses |
| `CampaignStore` | what the campaigns table promises; implemented by `CampaignService` |
| `InMemoryQueue` | the Go queue manager |
| `TokioSpine` | the Rust queue manager with its workers and threads |
| `MessagePool` | what any queue promises; implemented by the two above |
| `UserService` | registration, sign-in, password change, tokens and the auth middleware |
| `ApiGateway` | the backend process around `CampaignService`, which it extends: pool, graceful stop, kill, restart |
| `DashboardSession` | one tab of the dashboard: cookie, cache, requests in flight, with the backend's answers |
| `CampaignStatus` | what the dashboard makes of a status: the transitions offered in two places, the pipeline |
| `CampaignPages` | the list and the page of a campaign in one tab, with cache, requests and other tabs |
| `CreateForm` | the create form and its requests |
| `ChannelLemmas` | facts about sequences as channels, shared by two proof modules |
| `CampaignServiceProofs` (with `ApiGateway`), `InMemoryQueueProofs`, `TokioSpineProofs`, `UserServiceProofs`, `DashboardSessionProofs`, `CampaignPagesProofs` (with `CampaignStatus`), `CreateFormProofs` | theorems |
| `MC...`, one for each of the eight modules with a specification of a component | instances for TLC |

`ApiGateway` composes with `CampaignService` by extension: each of its steps is a
step of the service with what it does to the pool, a step of the process alone,
or the end of every request at once. The three dashboard modules look at one tab
from three sides and share no variable: the session does not care what the views
hold, the pages assume a session, and what the form creates is not shown in
them.

In each module the definitions preceded by "A variant:" are plausible
mistakes; no specification uses them. Putting one in place of the definition
that follows it must make a named property fail (`mutants` in `PROJECT.json`).

### CampaignService

A request `r` goes `idle -> run -> audit -> reply -> done` (`pc`). `Send` picks
the decoded request from `Traffic`; the user in it is the one the middleware
took from the token. Each service method is one SQL statement, hence one
action: `Create`, `Get`, `List`, `Update` (Update and SetStatus, which differ in
validation and audit event), `Delete`. The ways a statement can have no effect
are actions of their own: `RejectInvalid` (400 before any statement),
`NotFound`, `UpdateViolatesCheck` (the CHECK on `status`), `StatementFails`.
`AfterCommit` decides between going on to `LogAudit` and, on a broken
connection, answering 500 for a committed statement. `LogAudit` swallows its
error, as the code does. `Reply` is the end of the handler. `Break` is a client
disconnect or a connection loss, `Crash` the death and restart of the process:
requests in progress are never answered, Postgres keeps what it committed.
`commits` is history: the mutations in the order they took effect. `Spec` states
safety only; that requests are answered is checked in `ApiGateway`, where what
they wait for is modelled.

Abstractions: name and status stand for the editable columns; a body that does
not decode is the operation `"malformed"`; a statement is atomic, as
autocommitted statements on one row under READ COMMITTED are (an UPDATE that
waited for a row lock re-evaluates its WHERE); a statement that commits after
its caller got an error is placed at the error. Rows of `users` are never
deleted by any code, so their foreign keys do not act.

### ApiGateway

`phase` is where `main` is: serving, draining (inside `srv.Shutdown`), closing
(inside the deferred `pool.Close`) or exited. A request acquires a connection
(`Acquire`, while the pool is open and has one left), performs the statement as
`CampaignService` has it and gives the connection back (`Work`), then does the
same for its audit row; a step without a statement needs none. `GiveUp` is a
request that gets no connection because its client left or the pool is closed:
500 for its own statement, nothing for its audit row. `Signal` starts the stop,
`Drained` and `Deadline` are the two ways `Shutdown` returns, `Exit` is the end of
`main` once every connection is back, `Kill` the end at any time, `Start` a new
process on the same database. A request can come in while the process drains,
over a connection accepted before. `answered`, `slow` and `excused` are history:
whose response was written, whose handler returned too late for it (`Written`: the
write timeout of 10 seconds, `main.go:58`, lets the handler run and fails the
write), and who was under way when the deadline passed or the process was
killed.

Abstractions: time is the order of `Drained` and `Deadline`, and any handler may
have needed more than the write timeout; a request is on a
connection of its own; CORS, logging and a port that cannot be listened on change
no state the handlers see. `docker stop` sends SIGKILL after 10 seconds unless
told otherwise, and `docker-compose.yml` tells it nothing, so under it `Kill`
comes before `Deadline` would.

### InMemoryQueue

A goroutine makes one call after another. `pc` says where in which call it is,
`queue`, `message` and `step` are its locals. A `select` is one atomic step
with a disjunct per ready case; several ready cases are a free choice, as in
Go. A push is `CallPush`, then `PushSends`, `PushFails` or `PushPanics` (send
on a closed channel, which `select` also chooses freely), then
`IncrementCounter`. A pop that finds nothing ready is queued in `receivers`; a
send hands its message to the longest waiting receiver, so an unbuffered queue
works too. A peek is `PeekReceives` and then `PeekReturns`, `PeekDrops` or
`PeekPanics`. Close is `Cancel` and one `CloseChannel` per channel in the order
of the code. `Expire` ends the caller's context at any time. The four queues
have identical code, so one parameterised action stands for four methods.
`accepted`, `delivered`, `dropped` and `peeked` are history.

### TokioSpine

A task is on a thread (`running`) or not. `pc` moves lock by lock: a critical
section that neither awaits nor takes a second lock is one step, the two that do
are split at the second lock. `Await` gives up the thread and keeps the
receiver's guard, `Resume` asks for a thread again, at most `Threads` tasks have
one. `len` is what the code stores: 1 after a push, one less, not below 0, after
a pop. `late` is history: how many messages a task moved after the shutdown.

The file does not build as it stands: the trait has async methods without
`#[async_trait]` while its implementation has the attribute, it is used as
`dyn`, a std `MutexGuard` is held across an await in a future that the attribute
requires to be `Send`, and the binary has no `main`. The model is of what the
text says; the smallest repairs (the attribute, or a `?Send` future) leave the
locking as it is, and a repair that replaced the mutex by an async one would
change `LockReceiver` and `Await` only.

### UserService

A request `r` is one of a registration, a login, a password change or the use
of a bearer on a protected route; `pc` says where in its handler it is.
`Register` is the INSERT, whose constraints are `Insertable`; a duplicate, a
role the CHECK refuses and a password bcrypt refuses all end in
`RegisterFails`, a 500. A login is `Authenticate` (the lookup of an active
account and the bcrypt comparison), `TouchLastLogin` (whose error is
discarded) and `SignToken`, with the clock of that moment. `UpdatePassword` is
`ChangeReads` (GetByID and the comparison) and `ChangeWrites`. `Admit` is the
middleware with `RequireRole` behind it, `Forbid` its refusals. `Administer`
is an operator's UPDATE of `role` or `is_active`, which no code of the
repository makes but which `ErrInactiveAccount` exists for; `Break` a lost
connection or a client that has gone; `Tick` the clock. `window` is history:
the tables there were while a request ran, which is what "as if it had been
one step" is measured against.

Abstractions: `Fold` is what CITEXT compares, `Digest` what bcrypt tells apart
(the first 72 bytes), so that two texts can have one hash; the salt is left
out. `Forged` stands for every bearer that the backend did not sign. A body
that does not decode is answered before anything is read and is modelled in
`CampaignService`. `UpdatePassword` and `RequireRole` have no caller yet; they
are modelled as the methods they are.

### DashboardSession

The tab is single-threaded: an event handler is one action. The user's actions
are `OpenView` (navigation, with the redirects of `middleware.ts`), `Browse` (the
filter tabs and Back, which open a page without it; `back` says whether the
router still has one), `Refresh`, `Mutate`, `SignUp`, `SignIn`, `Logout`,
`Reload`. A request in flight is a record in `call` with the token it was sent
with; `live` says that a query of the cache waits for it. The backend is reduced
to what the tab can tell apart: `ServeFetch`, `ServeMutation`, `ServeLogin`,
`ServeRegister`, `Refuse` (403, for no token or one of `Expires`); `Lose` is a
timeout or any other error. The answers are handled by `FetchSucceeds`,
`MutationSucceeds` (with the invalidation), `SignedIn`, `Registered`,
`Forbidden`, and, one second after an error, `Retry` or `GiveUp`. `Lapse`,
`OtherTabSignsIn` and `OtherTabSignsOut` change the cookie behind the tab's back;
`disturbed` counts them until the cache is next cleared. `sessions` is history: the
accounts that signed in since then, in this tab or another. A view belongs to one
of them, and not always to the last: a sign-in (`SignedIn`) sets the user and
clears nothing, so after a lapse, another tab's sign-in or two overlapping
sign-ins of this tab the cache may hold views of two accounts (section 6). A token of `Expires`
may be refused whenever the backend likes: the code sets the cookie's life to one
day (`useAuth.ts:42`) and the token's to `JWT_EXPIRY_HOURS`, so neither bounds the
other.

Abstractions: what the backend answers is an owner and the number of the
owner's mutations it shows, so every view of an account is stale or not by the
same number. React Query is external and modelled as configured here: a
removed query forgets its fetch but does not abort the request, an invalidated
query on the screen is fetched again, a fetch under way is cancelled if there
was data and joined if there was none, one retry, collection after five
minutes off the screen. A view is one query; a navigation and its redirect are
one step. `early` and `missed` are history: they name the one order in which an
invalidation comes too soon, a fetch already under way that it does not repeat.
Back to the login page while signed in is not modelled.

### CampaignPages and CampaignStatus

`CampaignStatus` has the tables of transitions, of the menu (`MenuOffers`) and of
the page (`PageOffers`), and the pipeline derived from a status. `CampaignPages`
keeps the list of all campaigns, one list per filter and one view per campaign.
`tables` is the campaigns table after every change, and a cached view is the
number of the version it shows, with `fresh`, `invalid` (stale but shown),
`hidden` (stale behind an error) or `error`. The user filters, opens and leaves a
page, refreshes, opens a menu, changes a status, deletes; each goes through the
code's conditions: a button is there if the row is rendered and its status, as
cached, has it. The server serves, refuses or loses each request, in any order;
`ChangeElsewhere` is another tab or device. `ChangeSucceeds` and `DeleteLeaves`
are the `onSuccess` handlers: everything is invalidated, the view on the screen
fetched again, and the page of a deleted campaign left for the list.
`others`, `acked`, `early` and `missed` are history; `seen` in a request too.

Abstractions: a campaign is its status; a change is carried out when it is
served; the confirmation of a delete is part of it; toasts are left out.

### CreateForm

`form` is the input type and the fields, `open` whether the modal is shown,
`mounted` whether the list page, which owns the component, is on the screen. A
draft is what is typed between two openings; terms are known by their draft and
the field they were typed in (keywords and profiles share one input, queries have
a textarea). A POST is sent, lost (nobody waits, but the server may still carry
it out), done or over; `here` says that the component that sent it is mounted.
`Hidden` is what React keeps when the modal renders nothing: the input type.
`Succeeds` closes whatever the form holds by then. `Refuse` is any answer but
success, a 500 for a campaign that has been inserted included (`AfterCommit` in
`CampaignService`): the form keeps its draft then too. `unsure` is history: the
drafts the tab is in doubt about, because no answer came or such a 500. (A 403
leads to the login page, which to the form is `LeavePage`.)

## 3. Runs

| Run | Instance | What it shows |
|---|---|---|
| `campaign_race` | 3 requests, 2 users, 2 ids, traffic aimed at one id and bodies that do not decode, 1 broken connection, crash anywhere; symmetric in requests and users; 1,080,253 states | isolation, no lost update, honest answers, truthful and complete audit, `CampaignStore` implemented |
| `gateway` | 2 requests, one of each course through the handlers, a pool of 1 connection, both clients may leave, signal, deadline, kill and restart anywhere; 162,926 states | a stop takes no response and no audit row away, every handler returns, every stop ends |
| `campaign_audit_gap` | 2 requests | a divergence of section 6 |
| `queue` | 3 goroutines, 3 messages, queues with buffers of 2 and 0; symmetric; 177,223 states | bounded buffers, no lost wake-up, FIFO, counter, panics, `MessagePool` implemented |
| `queue_peek_loses` | 2 goroutines | a divergence |
| `tokio` | 2 producers, 2 workers of one pipeline, 2 messages, 3 threads; 137,654 states | FIFO, counter, overrun of a shutdown, `MessagePool` implemented, progress unless stuck |
| `tokio_deadlock`, `tokio_shutdown` | 1 producer, 2 workers | divergences |
| `users` | 3 requests, 2 ids, 3 spellings of 2 emails, 3 passwords of which two share a hash, 1 broken connection, an operator, a clock that passes the expiry; symmetric in requests; 1,788,779 states | unique emails, atomic logins, owned passwords, earned identities |
| `dashboard` | 2 accounts, 2 views, 2 requests in flight, 2 sign-ins, 1 mutation, 1 change of the cookie behind the tab's back, a token that expires; symmetric in accounts and requests; 1,913,529 states | nothing crosses a clear of the cache, the sidebar names the account, fresh views show one's own mutations |
| `pages` | 1 campaign, the list, the filter "paused" and its page, a campaign that is paused and deleted, 2 requests in flight, 2 changes of the table; symmetric in requests; 1,648,430 states | the screen shows one's own changes, transitions carried out were offered |
| `form` | 2 drafts, 2 POSTs, 3 input types; 229,360 states | one campaign per draft, with its own terms; the button comes back |

Why the bounds are enough. The longest interplay in the campaign service is a
mutation, a conflicting mutation before its audit row, and a third request that
reads or deletes; two ids tell a new id from a reused one; each user needs
another to be isolated from. A peek that loses its message needs the peeker and
one pusher, and a third goroutine that pops or closes; buffer sizes 2 and 0 have
every kind of room: free, one slot left, full, and none at all. The lock cycle
needs one push and one pop; the second worker shares the receiver, the second
producer contends for the statistics; with 3 threads for 4 tasks threads run
out. `MaxBroken` bounds the requests whose connection fails, `Traffic` the
inputs; `Representative` in `MCCampaignService` has one body for each way a
request is treated (the module of the same name in `MCUserService` likewise). A login
overlaps at most one request that matters to it at a time, a change or a
registration, and the third request uses the token. In the dashboard two
requests are what it takes to overtake; two sign-ins are an old session and a
new one; once the cookie has changed unnoticed, `disturbed` stays positive until
the cache is cleared, so a second change could show nothing new to the
properties. On the pages two requests are a change and the fetch that overtakes
it or a second change, and two changes of the table are one of this tab and one
of another; the filter is one the campaign moves into, and the theorem
`TransitionsFit` holds for all filters and targets; each property is about
one campaign at a time, and the views of others differ from it by nothing but
their name. The gateway's pool of one connection makes every acquisition
contend, and its second request is under way, waiting or arriving at every step
of the first. In the form a second draft is what an old answer can be mistaken
for, and two POSTs are a repetition. Messages are sent at most once each, which bounds the queue
runs. No run has a state constraint.

`CHECK_DEADLOCK FALSE` appears where a behaviour may end: all requests answered
(`campaign_race`, `gateway`, `users`), a panicked goroutine with nobody else, and
in `TokioSpine` the real deadlock, which `tokio_deadlock` shows.

## 4. Fairness

* `ApiGateway`: weak fairness of `Acquire`, `Work` and `GiveUp` of each request
  (the scheduler runs every goroutine, a statement returns, with an error if
  need be, and the pool hands a free connection to somebody who waits), of
  `Drained` or `Deadline` (the timer of the stop fires) and of `Exit`. Nothing is
  assumed of clients, signals, kills or a new start. That a statement returns is
  an assumption the code does not enforce: no statement has a timeout but its
  client's patience, and `StopEnds` rests on it, since `pool.Close` waits for
  every connection.
* `InMemoryQueue`: none. Its liveness is stated as the invariant
  `NobodySleepsInVain`, because whether a caller ever closes, pushes or has a
  deadline is not for the library to say.
* `CampaignService`, `UserService`, `DashboardSession`, `CampaignPages`: none; only
  safety is stated.
* `CreateForm`: weak fairness of the timeout of axios (`api.ts:10`), for each
  POST. React Query does not send a mutation while the browser says it is
  offline; the model's POST is one that has been sent.
* `TokioSpine`: weak fairness of each task on its thread, strong fairness of
  `Resume`, because the runtime's run queue is first in, first out while threads
  may be taken and released again and again. Producers need not call, a
  shutdown need not come. The std mutex is only assumed to be acquired when it
  stays free.

## 5. Theorems

All are of the form `Spec => ...`, for any value of the constants that satisfies
the named ASSUMEs of the module.

| Theorem | States | Along which invariant |
|---|---|---|
| `TypeCorrect` | tables stay in the schema | `TypeInv`: `TypeOK`, and a request that has been sent has an input of its kind |
| `TenantIsolation` | `Ownership` | `OwnershipInv`: adds that each commit's request was sent for that campaign and that whatever is in the table or was issued has a commit of its owner |
| `AuditRowsAreKept` | `AuditOnlyGrows` | from `TypeInv`, action by action |
| `AuditTrailIsTruthful` | `AuditIsTruthful` | `AuditInv`: adds, for each request about to write its row, that its commit and the row agree |
| `ServiceImplementsStore` | `ImplementsStore` | `OwnershipInv`, one refinement step per action |
| `AnswersAreHonest` | `AnswerIsHonest` | `EffectInv`: `OwnershipInv`, a request that has not run has no commit, none has two, and one about to be audited holds the row it committed |
| `TrailIsComplete` | `AuditIsComplete` | `EffectInv` and, for each request, `Logged`: if it was answered 200 or 201 over an intact connection and its campaign exists, its row is there |
| `NoUpdateIsLost` | `LastWriterWins` | `WriterInv`: `OwnershipInv`, and each column of each row has a writer after whom nobody wrote it |
| `GatewayTypeCorrect`, `StopIsGraceful` | `GatewayTypeOK`, `StopAnswersEverybody` | `ProcessInv`: `EffectInv`, finitely many connections are out, past the deadline whoever is under way is excused, and a request is done just if its response was written or its handler was slow |
| `StopLosesNoAuditRow` | `StopKeepsTheTrail` | `ProcessInv` with `TrailInv`, which carries `Logged` through the steps that get no connection |
| `GatewayKeepsTheService` | `Ownership`, `AnswerIsHonest`, `AuditIsTruthful` and `LastWriterWins`, of the process | `ServiceInv`: the invariants of the service; to it a step of the process is one of its own, or the answer to a request that gets no connection (`SeenByTheService`) |
| `GatewayImplementsStore`, `GatewayKeepsAuditRows` | `ImplementsStore`, `AuditOnlyGrows`, of the process | `ServiceInv` |
| `QueueTypeCorrect` | capacity and locals | `QueueInv`: `TypeOK`, and which locals each place in the code has |
| `PanicsComeAfterClose` | `PanicsOnlyAfterClose` | `ShutdownInv`: a channel is closed only after the cancel |
| `QueueIsFifo` | `FifoUnlessPeeked` | `FifoInv`: adds that whoever waits in a queue's receivers does so on an empty buffer, without which a direct hand-over would overtake |
| `NobodySleeps` | `NobodySleepsInVain` | itself, with `QueueInv` and `ShutdownInv`: a send wakes the head of the waiters, a close comes after the cancel that woke all |
| `WaitersAreTheBlocked` | the receivers of a queue are exactly the callers blocked in a Pop of it | `WaitersInv`: nobody waits twice, and whoever waits is blocked in a Pop of that queue; the converse is in `NobodySleepsInVain` |
| `CounterCountsEveryMessage` | `CounterLags` | `CountInv`: adds that the callers between a send and its count, and the accepted messages, are finitely many; each accept adds one place to `Sent` |
| `QueueImplementsPool` | `ImplementsPool` | `OnceInv`: a queue holds no message twice, nor one that a peeker has in hand, no two peekers of a queue hold the same, and what is about to be pushed has been in no queue; with `WaitersInv` and `FifoInv` |
| `MessagesAreInOnePlace` | `Apart` of `MessagePool` | inductive in the pool, carried over by the refinement |
| `AcceptedIsAccountedFor` | an accepted message is in the queue, in a peeker's hands, returned or dropped | itself: the pool forgets nothing, and each accept is in it |
| `PopNeverRepeats` | no message is returned twice | itself, with `OnceInv` and `Apart` |
| `SpineTypeCorrect` | lock owners, lengths in 0..1 | `SpineInv`: `TypeOK` and call shape |
| `SpineIsFifo` | `Fifo` | `SpineInv` |
| `TotalCountsEveryPush` | `TotalLags` | `CountInv`, as above, of the producers |
| `LocksExclude` | who can hold which lock, and where it then is | `LocksInv`: the statistics belong to the push at its length, a receiver to the worker of its queue that receives or decrements |
| `StuckIsForGood` | a push that finds its receiver held never goes on and keeps the statistics | `LocksInv`: whoever could release the receiver needs the statistics first |
| `SpineImplementsPool` | `ImplementsPool` | `OnceInv`: a channel holds no message twice, and what is about to be sent has been in none |
| `MessagesAreInOnePlace`, `PopNeverRepeats` | as for the queue manager | the same way |
| `UsersTypeCorrect` | schema and shape | `TypeInv`: `TypeOK`, and `Places`: a request in progress holds a row of an account that exists |
| `EmailsAreUnique` | `OneAccountPerEmail` | itself, with `TypeInv`: an INSERT checks it and no other statement changes an email |
| `LoginsAreAtomic` | `LoginIsAtomic` | `LoginInv`: the window of a request in progress holds the current table, and that of a login that has read its account the table it read it in |
| `IdentitiesAreEarned` | `HandlersRunAsEarned` | `EarnedInv`: `HandlersRunAsEarned` with `Signed`: a token belongs to a login that ended well, which the token's later uses need; with `LoginInv` |
| `PasswordsAreOwned` | `PasswordsHaveOwners` | `OwnersInv`: each password written so far is explained by a request that has ended, the last one of an account is its password, and a change in progress still knows what it compared |
| `ShutdownStopsMessages` | `LateMovesAreBounded` | `LateInv`: a task that has passed the check and not yet moved its message has moved none late |
| `SessionTypeCorrect` | `TypeOK`: one fetch per view | `ShapeInv`: the cookie and the tokens of requests have been signed, a request has a view exactly while a query waits for it, and on the dashboard the router has a page to go back to |
| `TabIsOfItsAccount` | `TabShowsItsAccount` | `SessionInv`: a request that a query waits for carries a token of an account in `sessions`, or its answer is of one, and so is the account of the cookie; without a cookie `sessions` is empty unless that was taken away behind the tab's back; a login was answered with a token of the account it asked for |
| `OwnWritesAreSeen` | `FreshViewsShowOwnWrites` | `WritesInv`: nothing acknowledged exceeds what is committed, and an answer that a query waits for, its request not `early`, is as new as what was acknowledged |
| `PagesTypeCorrect` | `TypeOK`: one fetch per view | `PagesInv`, below |
| `ScreenIsCurrent` | `ScreenShowsOwnWrites` | `PagesInv`: data that is fresh, or that a fetch not `early` will bring, is at least as new as what was acknowledged when it was asked for; a view on the screen without a fetch is not invalid |
| `TransitionsFit` | `TransitionsWereOffered` | `OfferInv`: a campaign's status is the same in every version of the table since the newest change of it made elsewhere, acknowledged to the tab, or carried out and not yet told; no cached view is of a later version than the current one; a change clicked on a current view is alone under way for its campaign and was offered for the status that view shows; with `PagesInv` |
| `OffersCompared` | which transitions the menu offers and the page does not: to completed, and of an archived campaign to active | by cases |
| `PipelineMatchesButtons` | the pipeline and the buttons tell the same of a status | by cases |
| `FormTypeCorrect` | `TypeOK` | `CountInv`: each campaign made is of a POST that is done or over |
| `DraftsAreUsedOnce` | `OneCampaignPerDraft`, for drafts not in `unsure` | `DraftInv`: while a POST of the open draft is under way its component is mounted, so the button is disabled; once the draft is a campaign the form waits for the answer or holds another |
| `TermsAreNotMixed` | `TermsAreOfTheDraft` | `TermsInv`: the terms in the form are of the open draft and of the field that shows |

How they rest on each other. Every safety property and every refinement that a
passing run checks is a theorem. The invariants of a module are layered: the
shape first, then one layer per theme, each using those below it.
`ChannelLemmas` has what the proofs of the two queues need of sequences (what an
append and a removal do to the entries, the members and the injectivity of a
sequence) and of the logs the counters are compared with. A counter is compared
with the number of places in the logs (`Sent`), which grows by one per accept;
that these sets are finite is part of `CountInv` and not an assumption on the
goroutines or the queues. The pool keeps sets, so a queue that returned a message
a second time would only stutter in it; `PopNeverRepeats` excludes that, from the
same invariants. The theorems of the process (`Gateway...`) reuse those of the
service: a pool that runs dry, a stop and a kill show the service steps it knows,
and one more that touches no table.

`StuckIsForGood` puts the third item of section 6 for every number of tasks and
threads: the wait of a push for a receiver that a suspended pop keeps is never
over. It also reads `ProgressUnlessStuck`: its premise can hold only if no push
ever waits for a held receiver.

Model-checked only: `HandlersReturn`, `StopEnds`, `ProgressUnlessStuck` and
`ButtonComesBack`. They are liveness under fairness, which needs ENABLED and is
out of the prover's reach. The four properties of section 6 that a run violates
are not theorems, of course.

## 6. Where the repository disagrees with itself

Shown by a run:

1. `campaign_audit_gap`: a deletion is answered 204 and not audited;
   `pkg/campaign/README.md:67` says every successful mutation is.
2. `queue_peek_loses`: a peek can lose the message it peeked at; `queue.go:225` says
   of `PeekValidate` that it does not consume it. (`PeekCampaign` has the same code
   and calls itself "best-effort", `queue.go:172`.)
3. `tokio_deadlock`: the lock orders of push and pop form a cycle; `main.rs:233`
   says a pop blocks until a message is available.
4. `tokio_shutdown`: a shutdown does not release a waiting pop; `main.rs:317` says
   the channels are dropped.

Seen in a definition:

5. `SetStatus` carries out every transition between the four statuses, and a
   repetition; the diagram of `pkg/campaign/README.md:21-29` has four (active and
   paused to one another, active to completed, paused to archived), and the
   repository's `README.md:96` a chain ("active → paused → completed → archived").
   The buttons offer more than either: of the nine transitions of the menu the
   diagram lacks active to archived, paused to completed, completed to archived,
   archived to completed and archived to active, and of the five of the page active
   to archived and completed to archived (`MenuOffers`, `PageOffers`).
   `TransitionsWereOffered` is about the buttons, not the diagram.
6. A sign-in after the cookie lapsed shows the views of the former account
   (`SignedIn`, `Lapse`): `Providers.tsx:70-71` clears the cache at a 403 "so stale
   data doesn't persist after the user signs back in as a different account", and
   `frontend/README.md:99` counts on a 403 to get there, but a lapse leads to the
   login page without one. So do two overlapping sign-ins of one tab, which is why
   `TabShowsItsAccount` allows every account in `sessions`.
7. `Close` leaves accepted messages behind (`CallClose`, `CloseChannel`), makes a
   push or peek in progress panic, and panics itself the second time (`PushPanics`,
   `PeekPanics`); `queue.go:362` says it "gracefully shuts down all queues and
   flushes pending messages".
8. PATCH validates neither name nor status: a blank name is stored, an unknown
   status is a 500 (`UpdateViolatesCheck`); `pkg/campaign/README.md:42` says 400.
9. Deleting a campaign rewrites its audit rows, by `ON DELETE SET NULL`
   (`01_core_schema.sql:196`, `Unreferenced`); line 191 calls the trail immutable.
   `AuditOnlyGrows` allows just that.
10. The cookie of the session expires after a day whatever the token does (`Lapse`;
    `useAuth.ts:42`, `expires: 1`); `frontend/README.md:90` says its expiry matches
    that of the token, and line 99 that it is `JWT_EXPIRY_HOURS / 24`.
11. A token lives `JWT_EXPIRY_HOURS`, 24 by default (`config.go:69`; `Expiry` in
    `UserService`); the repository's `README.md:46` speaks of "standard 30-day
    self-invalidation rules".
12. A mutation refetches the views on the screen and joins a first load under way
    (`Refetched` in `DashboardSession`); the comment at `useCampaigns.ts:36` says
    "every status-filtered view refreshes". The others are fetched when they are
    opened, and one whose fetch was under way may show old data as fresh.
13. The server's write timeout (10 s, `main.go:58`) is shorter than the 15 s that
    `main.go:73` gives the requests of a stop: between the two a handler is waited
    for whose response is lost (`Written`).
14. The download card is shown for archived campaigns too (`Downloadable`); the
    comment at `campaigns/[id]/page.tsx:173` says "only when completed".
15. `requestLogger` never logs a user: it reads the identity from the request it was
    given, and the auth middleware puts it into a copy (`main.go:117`).
16. The sidebar links to Overview, Leads, Analytics and Settings, which have no
    pages.

## 7. Not modelled

See `components` in `PROJECT.json` for each part and its reason. In short: the
stubs and deployment files have no behaviour, the lead and profile tables have no
code that uses them, CORS, logging and layout change no state, read-only
monitoring calls (`Stats`, `Health`) change nothing. `Service.GetByID` has no
caller. The dashboard's `useUpdateCampaign` hook has no page that uses it and is,
to the cache, the same as any other mutation.

## 8. Plan

Done: the campaign service, both queues, users, the gateway, the session, the
pages, the form. Left, in order:

1. Liveness of the dashboard: a view on the screen stops loading if every
   request is answered or times out.
2. `LeadSchema`: the uniqueness and cross-table constraints, once code uses
   them.
