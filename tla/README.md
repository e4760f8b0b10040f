# A TLA+ model of Omniflow Starter

Omniflow Starter is a Node.js/Express administration starter: MySQL through a
connection pool, Redis as a cache, RabbitMQ behind a circuit breaker for jobs
and e-mail, sessions with a second factor, roles and permissions, and an AI
chat. This directory holds TLA+ modules that model its core, the TLC
configurations that check them, and TLAPS proofs. Paths are relative to the
root of the repository; `knowledge/` and `documentation/` are the texts whose
statements the models are held against.

## Inventory

| Component | State | Operations | What is hard, what makes it correct |
|---|---|---|---|
| Circuit breaker (`helpers/circuitBreaker.js`) | state, failure and success counts, time of the last failure | `execute`, `_onSuccess`, `_onFailure`, `reset` | Calls overlap and settle in any period. Trips exactly after a run of failures; opens and closes only when earned; an open breaker shields the service; it recovers. |
| Job queue (`helpers/queue.js`, `workers/`) | the `jobs` table, the broker's queues, each worker's channel | `sendToQueue`, `consume`, `updateJobStatus`, `retryFailedJobs` | Row and message are written separately; crashes, lost connections, unconfirmed publishes and redelivery; concurrent retries. Every way to lose a job is known, verdicts match what the callback did, attempts bounded, statuses follow the documented life. |
| Queue connection (`helpers/queue.js`) | connection, channel, `isConnected`, `isReconnecting`, attempts, timers | `connect`, `handleConnectionError`, `handleConnectionClose`, `reconnect`, `close` | Handlers, timers and attempts in any order. One attempt at a time, the flag tells the truth, a lost connection comes back. |
| Cache (`helpers/cache.js`, every page that uses it, its administration) | Redis entries | `handleCache`, `invalidateCache`, flush, import | Late fills, swallowed errors, patterns and keys written in different files, imported entries. No stale entry without a reason, none for ever. |
| Redis connection (`db/redis.js`) | the client in use, two flags, a timer | `createRedisConnection`, the event handlers, `retryStrategy`, `getRedis` | Events of an old client act on its successor's state. Pages are told the truth; a server that is back is found again. |
| Database pool, transactions (`db/db.js`, `updateRolePermissions.js`, `permissionOverride.js`) | pooled connections with open transactions | START TRANSACTION … COMMIT through `db.query` | Each query may take another connection. A set of permissions is replaced as a whole or not at all; no transaction is left open. |
| E-mail dispatch (`helpers/queuedEmail.js`, `emailOTP.js`, `workers/emailWorker.js`) | the race of queue and timeout, the connection's write buffer, `email_queue` and its consumer | `sendEmailSmart`, `fallbackToSyncEmail`, `processEmailJob`, `start` | A late queue operation, a lost buffer, a failed UPDATE, a lost consumer, a dying process. Every way to lose an e-mail is known, none is sent both ways, callers go on. |
| Login, OTP, sessions (`routes/admin/auth/`, `middlewares/`) | the session store, pending second factor, permissions loaded at login | `login`, `postVerifyOTP`, `logout`, `checkActiveUser`, `checkPermission` | Overlapping requests with copies of one session; accounts and roles that change meanwhile. |
| User and role administration (`routes/admin/user`, `roles`, `permissions`, `userProfile`) | `users`, `roles`, `permissions` and their joins | create, upload, toggle, delete, update | Check-then-insert, read-negate-write, soft deletes, uploads that fail midway. |
| AI chat, copilot, assistant (`routes/aiChat/`, `routes/api/ai*`, `services/aiChatService.js`) | conversations and messages | create, send (stream), edit, regenerate, delete | A stream in flight while its conversation is edited or deleted; errors after its headers. |
| AI models, use cases, analysis (`routes/admin/ai*`, `services/aiAnalysisService.js`) | three tables | create, update, delete, save | Check-then-insert of the active settings, cached lists, settings read twice. |
| Activity log (`helpers/log.js`) | `activity_logs` | `logActivity` | Runs inside other operations; its failure must not undo them. |
| Password policy, server lifecycle, configuration, middlewares, notifications, uploads, tracing, i18n, views, browser code | libraries' own, or none | | Not modelled; see the end. |

The components meet in a few places. A handler writes MySQL, then invalidates
Redis, then logs, which invalidates again. `sendToQueue` runs its publish
through the breaker and needs the queue connection. By default (`RUN_WORKERS`,
`server.js:21`, `config/index.js:314`) consumers run in the server's process and on
its `QueueService`: they lose its connection, and die, together with the senders.
They may also run in processes of their own, and then meet the senders only in
the broker and in the `jobs` table. `EmailDispatch` has the default, `JobQueue`
several processes that consume and each serve requests. `sendEmailSmart` is one
of the senders, and the e-mail worker one of the consumers. Sessions live in
MySQL and are read once per request. Within one process nothing runs in
parallel: code between two `await`s is atomic, and every awaited query, command,
callback or timer is where the others run. The models' steps are those stretches.

## Modules

| Module | Role |
|---|---|
| `CircuitBreaker`, `MCCircuitBreaker` | the breaker with a set of overlapping calls and a clock |
| `JobQueue`, `MCJobQueue` | senders, retriers, workers, broker and the `jobs` table |
| `JobLifecycle` | the abstract life of a job, as the documentation draws it; `JobQueue` implements it when undisturbed |
| `QueueConnection`, `MCQueueConnection` | the connection life of one `QueueService` |
| `CacheAside`, `MCCacheAside` | `handleCache`, `invalidateCache`, flush and import with concurrent readers and writers |
| `CachedPages` | the keys, tables and patterns of every handler that caches or invalidates: constants for `CacheAside` |
| `RedisConnection`, `MCRedisConnection` | clients side by side that write one module's state |
| `PooledQueries`, `MCPooledQueries` | the pool, MySQL's transactions and locks, and requests that send one query after the other |
| `HandlerQueries` | the queries of every handler, as sequences: constants for `PooledQueries` |
| `EmailDispatch`, `MCEmailDispatch` | `sendEmailSmart`, its callers, the queue and the e-mail worker |
| `AdminSessions`, `MCAdminSessions` | one browser's requests, the session store, the account and its permissions |
| `AIChat`, `MCAIChat` | one conversation, the streams and the settings they read |
| `CircuitBreaker_proofs`, `JobQueue_proofs`, `Connections_proofs`, `CacheAside_proofs`, `PooledQueries_proofs`, `AdminSessions_proofs`, `EmailDispatch_proofs`, `AIChat_proofs` | theorems; `Connections_proofs` has those of `QueueConnection` and of `RedisConnection` |

**CircuitBreaker.** `state`, `failureCount` and `successCount` are the object's
fields; `failureCount` saturates at the threshold and `sinceFailure`, the ticks
since `lastFailureTime`, at the timeout, the values the code compares them with.
`call[c]` says where a call of `execute` stands: `Admit` and `Refuse` are the
code up to the operation, `OperationSucceeds` and `OperationFails` what follows
it, in whatever state the breaker is by then; `Tick` is the clock. The history
variable `recent` holds the last outcomes, from which the properties say what
the counters should be.

**JobQueue.** One action per await of `sendToQueue`, `consume` and
`retryFailedJobs`. `message[m].at` says whether the broker has the m-th message
queued, with a worker, acknowledged or dead-lettered; `handler[m][w]` where a
worker's handler of it stands (one left over from a lost channel goes on
running, as in the program). `channel[w]` is `this.channel`: consuming, lost
(null), reopened without a consumer, since `consume` is only called at start,
or down. `Send` may also write a message that never reaches the broker
(`PublishIsLost`): the channel has no publisher confirms (`queue.js:55`), so
`sendToQueue` answers true for it, and `sender[j]` is `dropped`. A process that
dies takes its handlers along (`WorkerCrash`) and requests that it was serving
(`SenderCrash`, `RetrierCrash`): a `sendToQueue` between its INSERT and its
publish is then `dead`, and a restart brings the consumer back, not the request.
`tagged` says whether a message carries its job's id. `DataForms`
lists what the database driver may return for the JSON column, on which
`JSON.parse` in `retryFailedJobs` depends. `Faults` and `MaxFaults` select what
may go wrong. Among the histories, `erred` has the messages whose callback threw;
an `ack()` that throws for want of a channel is not among them.

**QueueConnection.** The fields of `QueueService`, the connection attempt in
flight, the timers and the events a connection still has to deliver. A process
may be restarted once its state is final.

**CacheAside.** A behaviour follows one key. `version` counts the updates of the
page's data; an entry is the number it was filled with. `reader` and `writer`
say where calls stand: a lookup, its query and its store are separate steps,
as are an update's write and, per pattern, its scan and delete. `Import` brings
back what an earlier export had, without a time to live if that had run down to
zero. `blemish` is a history variable: why the current entry may be behind the
database (filled late, imported, or an invalidation that did not take place),
reset whenever the entry is right or gone. `CachedPages` is read off the
handlers, one definition for each.

**RedisConnection.** Each client of ioredis is connecting, connected, ready,
failing (an error was emitted, the close is to come) or waiting to retry by
itself, whether or not `redis` still refers to it; `OnClientConnect`,
`OnClientReady`, `OnClientError`, `OnClientClose` and `Retry` are its handlers and
its `retryStrategy`, all of which write the module's variables. `getRedis` makes a client when a page asks
for one, `ReconnectionTimerFires` 15 seconds after a close.

**PooledQueries** runs what **HandlerQueries** lists. A handler is a sequence of
queries, in the order of its awaits, and stops at the first that refuses it or
fails; `Ask` takes a connection from the pool's stack (mysql2 pops the one
released last) and `Answer` gives the result and the connection back, so that
the other request's queries come between. A *cell* is a handful of rows that the
queries of one request touch together. `pending[c]` is what the open transaction
of connection `c` has written: invisible and locked to others, committed by
whoever sends COMMIT or START TRANSACTION on that connection, rolled back
when the connection goes. Statements of MySQL that wait for a lock are answered
when it is free, or fail.

**EmailDispatch.** `caller[m]` is `sendEmailSmart` for mail `m` and `op[m]` its queue
operation, which goes on after the race is lost. `Timeout` has the bug of the
code: the catch block refers to a variable that is out of its scope, so the
caller gets an exception instead of the fallback. `at[m]` is where the message
is. `PublishMail` puts it into the connection's write buffer, `BrokerTakes` moves it
on, and a connection that goes (`ConnectionGoes`) discards what is still there and
gives back what was not acknowledged. `consumer` is the one consumer that `start`
registers, once: it is `gone` when `start` failed or its channel was lost, and
`Connect`, unlike a new process, does not bring it back. `handler[m]` is `consume`'s
handler of `m`; those of several mails run at once, and one left over from a lost
connection goes on and settles too late (`SettledTooLate`). `updateJobStatus` may
fail at each of its calls, which is logged only: `RecordFailed` then notes the mail
in the history variable `unrecorded`, and `NackMail` dead-letters it all the same. An `ack` without a
channel throws into the handler's catch block; a `nack` without one is an
unhandled rejection and ends the process. `ProcessDies` ends callers,
operations, handlers and the connection together.

**AdminSessions.** `rows` is the sessions table; every request has a copy of its row,
which it writes back at its end if it changed it. A request is a kind (log-in,
code, page behind `checkPermission`, page that asks for nothing more, keep-alive,
log-out) and a step between two awaits; the histories
say whether, since it began, the account was active, and which permissions were
held and not revoked. `destroy` is asynchronous: `req.session` is away at once
(`gone`), `deleting[s]` counts the DELETEs under way, and `DeleteAnswers` ends one,
with the row gone or with an error that is only logged (`undeleted`).
`logout` waits for it and redirects either way; `checkActiveUser` does not
wait: `req.flash` throws, the catch block calls `next()`, and the request goes on
without a session, into an error of `checkPermission`, or into a page that has none
(`openPage`), which is served. `overlapped` has the sessions that two requests used at
once, for which the code promises less.

**AIChat.** One action per await of nine operations in one conversation. A row of
`messages` remembers for which question its answer was written. `Caught`,
`ErrorHandlerThrows` and `ClientCloses` are the ends a request can come to besides
its own: answered with an error event, gone with its process, which an exception
after the headers ends, or left by its reader.

## Runs

| Run | Checks | Shows |
|---|---|---|
| `breaker` | `TypeOK`, `CountsConsecutiveFailures`, `TripsAtThreshold`, `PeriodsStartClean`, `TransitionsAreEarned`, `OpenShieldsTheService`, `Recovers` | counting, tripping, probing and closing with overlapping calls; when operations stop failing the breaker closes for good |
| `jobs_faults` | `VerdictMatchesCallback`, `OnlyTheHolderSettles`, `CompletedMeansDone`, `AttemptsBounded` | under all faults and two concurrent retries |
| `jobs_quiet` | `DoneAtMostOnce`, `ImplementsLifecycle` | refinement of `JobLifecycle` with one retry at a time and refused publishes only |
| `jobs_live` | `NewJobsSettle`, `MessagesSettle` | over crashes, restarts and lost publishes every message the broker has is settled, and every new job too, unless the process of its sender died before the publish or the publish never reached the broker |
| `connection` | `TypeOK`, `ConnectedMeansOpen`, `SingleAttempt`, `TimerOnlyWithoutConnection`, `OrderlyCloseRecovers` | every order of events, timers and attempts |
| `connection_refused` | violates `Reconnects` | after one refused attempt no other is made |
| `cache` | `TypeOK`, `ChangesInvalidateCovered`, `EventuallyFresh` | every page, every update: on a page all of whose updates clear it only a late fill, an import or a failure leaves a stale entry; staleness ends with the time to live |
| `redis` | `PagesAreToldTheTruth`, `CacheComesBack` | three clients that write one state: `isConnected()` and `getRedis()` are right, and a server that is back for good is used again |
| `pool` | `AloneReplacesWhole`, `OneGetsTheName`, `RequestsEnd`, `LeftTransactionsEnd` | every handler alone and in the pairs that share rows or a transaction: alone, permissions are replaced as a whole or not at all; of two requests one gets a name while no transaction is around; no request waits for ever, no orphaned transaction stays |
| `sessions` | `OnlyTheActiveGetIn`, `OneLoginPerCode`, `EndedStaysEnded`, `PermissionsAreEffective` | overlapping requests of one browser while account and permissions change, sessions are being destroyed and queries, the DELETE of a session among them, fail |
| `email` | `MailsLeaveATrace`, `MailedOnce`, `CallersComeBack`, `QueuedMailsSettle` | a code beside an upload's welcomes, with timeouts, lost buffers and consumers, failed UPDATEs, SMTP failures, deaths of the process and restarts: there are two ways to lose a mail from sight and no third, only a death sends one twice, callers come back, and a published mail is delivered or fails while there is a consumer |
| `chat` | `OneModelPerRequest`, `NoAnswerOutlivesItsQuestion`, `RequestsAreAnswered` | two requests of any kinds at a time, with a fault or a change of models or settings |

The one violation is what `PROJECT.json` lists as a finding, with the line of the
documentation it contradicts.

### Bounds

- *Breaker*: threshold 3, a cool-down of two ticks and four overlapping calls, so
  that a whole window of outcomes can be stale, and one more. The proofs remove
  these bounds.
- *Jobs*: `jobs_faults` has one job, two workers, two retriers and three faults: a
  redelivery takes one fault, a leftover handler against a second holder two,
  and a third lets the database fail meanwhile. Jobs meet only in a retrier's
  batch, for which `jobs_quiet` has two. `MaxMessages` bounds what is
  published; the liveness run has room for every send and every retry. Its two
faults are refused, kept but refused, or lost publishes and deaths of processes
and requests; it leaves out failing queries and lost connections, after which
rows and messages do stay behind (*Jobs*, below). The proofs
  remove these bounds for the four properties of `jobs_faults` and, of undisturbed
  operation, for the two of `jobs_quiet`.
- *Connection*: `MaxReconnectAttempts` = 2 reaches the limit as 10 would. The proofs
  remove this bound.
- *Cache*: two readers and two writers give one reader before and one after each
  write, and an invalidation of one update in the middle of another;
  `MaxVersion` = 1 has an entry behind the data. One fault fails a scan, a
  delete, the connection or the process, or imports an old export. Keys do not
  interact, so one key per behaviour is no restriction.
- *Redis*: three clients: one in use, one left over from it, and one made
  while both are about; one retry of each; three faults, for one each. The proof
  of `PagesAreToldTheTruth` removes these bounds.
- *Pool*: two connections, the fewest on which a transaction can be spread, and
  two requests. A pair per way of meeting: two transactions, a transaction and a
  handler of one query or several, two that check for a name and insert or
  rename, two that read and write one row. One fault: a query, a connection in
  use or free, or the process. The proofs remove these bounds for the two
  invariants. Why `OneGetsTheName` excludes a request with a transaction beside the
  two is told below.
- *Sessions*: four requests in two slots (log-in, code, and two more to overlap with
  either), two codes, three sessions (before, after and beside a regeneration),
  one change by an administrator, one failed query: enough for a row that its
DELETE leaves, and for a session destroyed while its request goes on. The proofs
remove these bounds.
- *E-mail*: a code beside two welcomes in one upload, or one of a new user; two
  faults, so that an UPDATE may fail after the SMTP server did, a connection may
  go and the process die after it, or the process die twice. The proofs remove
  these bounds for the two invariants.
- *Chat*: two models, two requests, six messages: a conversation with one question
  and answer, or none, and room for two more of each; one fault or change. The
  proofs remove these bounds for the two safety properties.

Runs with a liveness property use no symmetry.

### Fairness

Within a process the event loop runs every ready callback, so a request or
handler that has started goes on: weak fairness on its next step. The broker
delivers to a queue with a consumer; a dead process is started again by its container
(`docker-compose.yml:18`, the one service `app`, which by default serves requests and
consumes): with its workers, but without the requests it was serving, so that no
fairness brings a dead sender back; timers fire; Redis drops an entry after its time to
live. MySQL answers every query, at the latest when the wait for a lock times
out, and mysql2's timer closes idle connections as long as `maxIdle` is below
`connectionLimit`, as in production (`config/index.js:77`). SMTP calls return; of
a queue operation not even that is assumed, which is what the race with the
timeout is for. What is in a connection's buffer is taken or lost. An AI service's stream ends or fails. Nothing obliges anybody to
send, retry, read or update, no fault is obliged to happen, and a lost connection
need not come back except where the code arranges it, which is what
`QueueConnection` and `RedisConnection` check.

## Where code and texts, or parts of the code, disagree

`connection_refused` shows one disagreement as a run. The others below were met while
modelling; the models have what the code does, and the properties are stated as
weakly as that requires.

- *Jobs.* The status `completed` is written before `ack` (`queue.js:342`); a
  connection lost in between takes it back, where `knowledge/admin/jobs/en.md:126`
  has a permanent state. A retried message carries no job id (`queue.js:434`), so
  the row stays `pending`; `JSON.parse` of a column the driver has already
  parsed (`queue.js:431`) lets a retry send nothing; `nack` without requeue
  (`queue.js:356`) dead-letters at the first failure: compare
  `knowledge/admin/failed/en.md:80-81` and `:123-124`. A process that dies between
  the INSERT (`queue.js:216`) and the publish leaves a pending job for ever:
  `retryFailedJobs` selects failed ones. So does a publish that was only in the
  connection's buffer when the connection went: hence the two exceptions of
  `NewJobsSettle`. A failed UPDATE of a status is only logged, and a worker whose
  connection was lost consumes again only when its process starts again:
  `jobs_faults` has both, and `jobs_live`, which could not hold of them, neither.
- *Cache.* The pattern `permissions:*` (`updateRolePermissions.js:116`) matches no page
  that shows permissions; compare `knowledge/admin/permissions/en.md:255`. An import
  may bring back old data, and an entry exported with a time to live of 0
  is imported without one.
- *Pool.* A request may answer with success although its COMMIT went to another
  connection, and another request's COMMIT or ROLLBACK may end its transaction:
  hence `Alone` in `AloneReplacesWhole`. The same befalls a single INSERT that the
  pool sends to such a connection: it is answered, reported as success and then
  rolled back with a transaction that is not its own, whereupon another request
  may create the same name (two creations beside an update of permissions show it,
  without any fault): hence the hypothesis of `OneGetsTheName`. Two first saves of the analysis settings
  leave two active rows; of two toggles at the same time one is lost; a password
  change compares with a hash that another may replace meanwhile. An upload
  that fails midway keeps the users it has inserted. `centralizedErrorHandler`
  turns the 409 of a duplicate key into 500.
- *Sessions.* Requests that overlap on one session may open two sessions with one
  code (`emailOTP.js:103`: "can only be used once"), and one of them may write a
  session back that a log-out has deleted, with the user in it
  (`knowledge/admin/login/en.md:14`: "Session ends - After logout"): hence
  `overlapped`. An error of that DELETE is only logged (`logout.js:47-51`,
  `checkActiveUser.js:28-32`, `:54-58`), and the browser is told that it is logged out:
  hence `undeleted`. After `destroy()` `req.flash` throws, and the catch block of
  `checkActiveUser` (`:66-79`), meant for failed queries, lets the request go on.
  Behind `checkPermission`, which looks at the session, that ends in an error; the
  routes without it that leave the session alone (`index.router.js:7-13`,
  `aiModels.router.js:18-19`) serve their page to an inactive or deleted user, where
  `knowledge/admin/profile/en.md:29` has "Account disabled, no access": hence the
  second disjunct of `OnlyTheActiveGetIn`. The
  refill of permissions in `admin.router.js` takes the role's and ignores a
  user's revokes. Errors of `regenerate` and `save` are thrown in callbacks and
  end the process.
- *E-mail.* "High priority for OTP emails" (`queuedEmail.js:27`) has no effect:
  the queue is declared without `x-max-priority`. After a timeout the exception
  on `queueTimeout` replaces the fallback. `architecture.md:166` promises "Reliable
  message delivery", but a mail reported as sent may be lost from sight: its message
  was in the buffer of a connection that went (no confirms, `queue.js:55`,
  `:234-236`), or its failure could not be written (`updateJobStatus` only logs that,
  `queue.js:302-304`) and `nack` dead-lettered it all the same (`:356`). `MailsLeaveATrace` has
  these two ways and no third. The worker consumes from its start only
  (`emailWorker.js:354`): if the SMTP server does not answer then, or after a lost
  connection and a reconnect, queued mails wait for the next start of the process:
  hence `consumer = "gone"` in `QueuedMailsSettle`.
- *Redis.* "Prevent multiple concurrent connection attempts" (`redis.js:40`) does not
  hold: an error or a close of any client resets the guard, and clients that were
  given up go on retrying. One of them may set `isRedisConnected` while `redis`
  is null.
- *Chat.* `editMessageStream` stores the regenerated answer
  (`messageActions.controller.js:306`) and then inserts an undefined `model_id` into
  a column of `ai_request_logs` that must not be null (`:313`): the answer is there, but
  the request ends with an error event, and neither the log nor the conversation's
  time is written. `knowledge/admin/chat/en.md:22` says that the AI "will regenerate its
  response". A stopped stream goes on in the server, and its answer may be
  stored after its question was deleted. With neither settings nor a key,
  `sendMessageStream` throws after its headers, which ends the process.

## Proofs

`CircuitBreaker_proofs` proves type correctness, the three invariants and the
two action properties of run `breaker`, for every set of calls, threshold and
cool-down. The argument is one inductive invariant, `BreakerInv`: the type
invariant, the three invariants themselves, and what ties them together, that the
latest `failureCount` outcomes are failures and, below the threshold, the one
before them is not. It is needed because an outcome may settle in any state, so
each branch of a handler relies on what earlier periods left in the counters.
`SuccessInv` and `FailureInv` are the two steps that change counters, `NextInv`
adds the others; the action properties follow from the invariant and one case
per action. The proofs assume `BreakerAssumption` only: threshold and timeout
are positive numbers, and null is not a number.

`JobQueue_proofs` proves type correctness and the four invariants of run
`jobs_faults`, for any jobs, messages, workers, faults and a finite set of
concurrent retries. `TypesInv` adds to the types that a retry past its UPDATE has
a job in hand. Three invariants stand on it:
`DeliveryInv` strengthens `OnlyTheHolderSettles` with what a restart relies on,
that a process that is down runs no handler, and that what is handled has been
published; `OutcomesAreRemembered` ties a handler's step to the histories, for
a throw only while the delivery can still be settled (an `ack()` without a channel
throws too, but then settles nothing), and from it follow
`VerdictMatchesCallback` and, with `BecomesCompleted`, which says which step alone
makes a row completed, `CompletedMeansDone`; `AttemptsInv` counts with every job's
attempts the calls that have selected it and not yet updated it, which is why
`AttemptsBounded`, not inductive by itself, holds. The lemmas `Published`,
`Moved`, `Placed` and `Requeued` say what the steps do to the messages.

`CacheAside_proofs` proves type correctness and `ChangesInvalidateCovered` for
every set of pages and updates, any number of readers and writers, any number
of versions, faults and imports. The property is nearly inductive: what a stale
entry waits for is a pattern in some writer's `todo`, so the invariant adds the
types, above all that a writer is idle exactly when its `todo` is empty.
`NextPatternClears` says that dropping a pattern that does not match keeps the
deletion to come; `AccountStands` covers the steps that touch neither the entry
nor the data. Nothing is used of matching itself, so the theorem does not depend
on the form of patterns. Which of the real pages are covered is a question of
constants: `admin:ai_models:list`, `api:ai_models:*`, `api:ai_use_cases:active` and
`datatable:logs` are; every other page of `CachedPages` has an update that leaves
it, from `queue:*` for `admin:queue:stats` (`sendTestJob.js:65`) and `logs:*` for
`admin:logs:filtered` (`log.js:430`) to `sendMessageStream`, which clears nothing.

`Connections_proofs` proves `TypeOK`, `ConnectedMeansOpen`, `SingleAttempt` and
`TimerOnlyWithoutConnection` of `QueueConnection` for every `MaxReconnectAttempts` and any number of
faults. `SingleAttempt` is the one that needs strengthening: `connect` gives its
guard back before `setupQueues` has finished, so the guard alone does not keep
attempts apart. What does is that, while the guard is free, at most one timer is
left, and none beside an open connection (`AttemptHoldsGuard`, `SetupIsAlone`,
`OneTimerLeft`). The handlers are functions on the service, each with a lemma that
says what it does field by field; the steps are their compositions.

The same module proves `RedisTypeOK` and `PagesAreToldTheTruth` of `RedisConnection`
for any number of clients, retries and faults; types are all it needs besides,
since whatever sets the flags also moves the client that did.

`JobQueue_proofs` also proves the two properties of run `jobs_quiet`, under the
conditions that run has, stated as `Undisturbed`: no fault but a refused publish,
and one `retryFailedJobs()` at a time. The run is an instance of it, with one
retrier and two jobs; the theorems are for any jobs, workers, limits and numbers
of refusals. `QuietInv` says how far a job's two possible messages have come
(`Stage`) and what the row must show then (`Shown`). `SenderOf` and `RetriesOf` tie
the row to the calls that are about to write it; `AtRest` is the fact on which
all else hangs: a row is `failed`, or in a retry's hands, only when its sender is
done, its message with an id is rejected and no other has been sent, so nobody's
write is still to come. `MessagesOf` has the consequence of the missing id: once
the second message is sent the row stays `pending`, so there is never a third.
`DoneAtMostOnce` follows since of the two messages the first has failed; for
`ImplementsLifecycle`, `LifecycleStep` maps every step to one of `JobLifecycle` or a
stutter, each guard of the abstract step from a conjunct of the invariant.

`AdminSessions_proofs` proves type correctness and the four invariants of run
`sessions` for any requests, sessions, codes, permissions and faults. One
inductive invariant has a conjunct for what each property needs. What a request
remembers must be right at every step and not only at its end: `ActivityOf` and
`PermissionsOf` follow it from query to query, and `WitnessOf` keeps the account it
was read from within what the request has seen, whoever changes it meanwhile.
`ActivityOf` has, for a page, that the request was let through by a check that
saw an active account or failed, or that it goes on without its session (`gone`).
`EndedStaysEnded` needs `OverlapInv` (two requests of a session are noted) because a
destroyed session comes back only by a request that still holds a copy; `EndedInv`
says that there is none already while the DELETE is under way (`NobodyWrites`),
since the request that began it runs on without a session and no other may
have come without being noted, and that after a DELETE that did not fail
there is no row either.
`OneLoginPerCode` needs every place a code can still be used from, rows and copies
(`CodesInv`), to be of the session it was issued to, and to be gone after its log-in.

`EmailDispatch_proofs` proves type correctness and both invariants of run `email`
for any mails, occasions and faults. The invariant, `MailOK`, has four parts for
each mail. `Fresh`: before it is published or sent it is nowhere. `Placed`: a handler
has its message on a channel that consumes, or is left over from a lost one,
after which nobody consumes; so a message that went back to the queue is handled
again only by a new process, in which no old handler is left. `Counted`, which
rests on it: what may yet be sent was delivered no more often than the process has
died. `Reported`: a handler past the SMTP server's answer means a delivery,
whichever UPDATE fails; one that rejects has written that the mail failed or is
noted in `unrecorded`; and an operation that has returned true has its message
somewhere, be it among the lost ones. The lemmas say what the steps of one mail
do (`SendStep` to `SmtpStep`) and what the loss of the connection (`LossStep`) and
the death of the process (`DeathStep`) do to all.

`AIChat_proofs` proves type correctness, `OneModelPerRequest` and the action
property `NoAnswerOutlivesItsQuestion` for any models, order of models, requests,
messages, faults and changes. `OrderInv` says that an answer's id is not below its
question's, `NamesOf` that what a request names was stored before, so that the id
MySQL gives next is above it; a deletion takes everything from an id on. `ModelOf`
follows the model of a request through the two reads of the settings. That
`FirstActive` is well defined rests on the well-foundedness of `<` on the natural
numbers (`Least`), and `AIChatAssumption` has the models in some order, the one in
which the `SELECT` returns them.

`PooledQueries_proofs` proves both invariants of run `pool` for any number of
connections, requests and faults. It does not prove them of the handlers listed
in `MCPooledQueries` alone: of arbitrary sequences of queries neither holds, so three
assumptions of `PooledQueries` say what the handlers of `HandlerQueries` have in common.
A handler with a transaction reads, sends BEGIN, the DELETE, the INSERTs and COMMIT,
and then reads or logs (`ReplacesInTransaction`); no handler empties a row that a
unique index keeps, and a rename writes another row than an INSERT does
(`NamesAssumption`). TLC evaluates them on every handler and pair of the run, and two
theorems show that `updateRolePermissions` and `updateUserPermissions` have that form for
every set, or lists, of permissions asked for. Three invariants carry the proof;
each has also been checked by TLC, with two faults.

- `PoolInv`, whichever requests run together: types, and that a connection is free
  once or answers the query of one request. It rests on what pushing, popping and
  making a stack do (`Stacked`, `Popped`, `Pushed`).
- `TransactionInv`, for a request alone: the connection it has, or that lies on top
  of the stack, is always the same one (`OnTop`), since a request gives its
  connection back before it asks again; so its BEGIN, its writes and its COMMIT
  meet there. `Progress` says, by the query it is at, what that connection's
  transaction has written, above all that between DELETE and COMMIT this is the
  INSERTs so far, and that no other connection has a transaction. After an
  exception either the ROLLBACK is still to come and goes there too, or the
  transaction went with its connection, and a crash ends it with all others. A free connection that is lost is excluded
  by the property: then BEGIN's transaction is gone and what follows is committed
  one by one.
- `NamesInv`, while no request has a transaction: the row of a name that was
  created or taken is there for good, and not a renamed one, so that the unique
  index refuses whoever comes second, and no second one is past its write.

Model-checked only: liveness under fairness, which this prover does not reach. Every
invariant and action property that a passing run checks is a theorem, and so is the
refinement of `JobLifecycle`.

## Plan

1. *done* All modules above, and the proofs of every safety property the runs check.
2. Left: an abstract `AtomicUpdate` which `PooledQueries` implements for a request
   alone; `ReplacedAsAWhole` has what it would say of the state, not the step at which
   the set changes.
3. Left: a composition of breaker, connection and queue in one process. They
   meet in `sendToQueue`, whose publish `JobQueue` lets succeed or fail whatever the
   breaker's state and the connection are.

## Not modelled

Configuration, DDL, formatting, validation messages, headers, CSRF and rate
limits, notifications, uploads, tracing, views and browser code: they keep no
state of their own that other parts read, or are libraries. The password policy
is a property of text. Start-up and shutdown are one straight sequence each; their
effect on the queue is `Close` in `QueueConnection`. `closeRedis`, `getDLQMessages`,
`getFailedJobs`, `getDeadLetterStats`, `softDelete.js` and the cache middleware have
no callers. Of the routes of the admin panel `AdminSessions` has those behind
`checkPermission` and, as `openPage`, those that neither ask for a permission nor look
at the session; routes without `checkPermission` that do look at it are not told
apart from the former. `AIChat` takes messages in the order of their ids: ties of
`created_at`, to the second, are not modelled. `PooledQueries` gives every read
the committed rows, also in an orphaned transaction, where MySQL would give it
that transaction's snapshot. Of the browser's scripts, `session-timeout.js` and
`networkGuard.js` keep state, of one page.
