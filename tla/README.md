# A verification development of apprise-go

apprise-go sends notifications to some sixty services (`apprise/`), serves that
over an HTTP API (`api/`, `cmd/apprise-api`), and schedules notifications with
cron expressions and a persistent retry queue (`apprise/scheduler*.go`). This
directory holds TLA+ models of its core, the TLC configurations that check them
and the TLAPS proofs about them. Paths below are relative to `src/`.

## Inventory

| Component | State | Operations | Interacts with |
|---|---|---|---|
| Notification queue, `apprise/scheduler_queue.go` | table `notification_queue` (SQLite, survives the process), `q.mu` | `Add`, `GetPendingJobs`, `UpdateJobStatus`, `DeleteJob`, `CleanupCompletedJobs`, the goroutine `processQueue` | a temporary `Apprise` per job (`NotifyAll`); filled by API handlers and by cron runs |
| Scheduled jobs and cron, `apprise/scheduler.go`, `scheduler_db.go`, `api/handlers_scheduler.go` | table `scheduled_jobs`, the cron object's entries, `running`, `s.mu` | `Start`, `Stop`, `Add/Get/Update/RemoveScheduledJob`, `Enable/DisableScheduledJob`, the callback `executeScheduledJob` | inserts into the queue; the foreign key `scheduled_id` |
| Apprise core, `apprise/apprise.go` | slices `services`, `tags`, a timeout | `Add`, `NotifyAll`, `Clear`, options | starts a goroutine per service; records metrics; shared without a lock by API requests |
| Services, `apprise/<service>.go` and the registry in `apprise.go` | configuration from the URL; a login token in four of them | `ParseURL`, `Send`, `TestURL` (the same parse on a new service) | HTTP APIs, SMTP, commands of the desktop; the context of `NotifyAll`; the queue's retries |
| API server, `api/*.go` | `Apprise`, scheduler, tokens | handlers | everything above |
| Rate limiter, `api/ratelimit.go` | a map of clients, a counter and window each | `CheckLimit`, cleanup goroutine, `Stop` | every request |
| Metrics, `apprise/metrics.go` | counters per service, two levels of locks | `Record*`, `Get*` | every send |
| HTTP pool, `apprise/http_pool.go` | clients and transports by key | `GetClient`, `RemoveClient` | senders |
| Attachments, `apprise/attachment.go` | a list with a size limit | `Add`, `Clear` | senders |
| Configuration, `config.go`, `apprise_config.go`, `config_template.go` | lists of URLs, templates, file times | load, apply, generate | `Apprise.Add` |
| Templates and metrics stores, `scheduler_templates.go`, `scheduler_metrics.go` | one table each | CRUD, reports | scheduler |
| Desktop and mobile push, `desktop*.go`, `mobile_push_rich.go` | tokens, history, a bounded channel | `Send`, `SendBatch` | platform programs |
| Command line, generators, benchmarks | none that lasts | | |

What is hard here:

* **Crashes and partial failures.** A job is two UPDATEs with sends in between;
  each can fail, and the process can end at any point. `executeScheduledJob` is
  a SELECT, an INSERT and an UPDATE without a lock.
* **Stale copies.** A batch is processed from copies, API updates write back
  rows they read before, and cron callbacks outlive the job they were made for.
* **Two stores.** The table of scheduled jobs and the entries of the cron
  object are kept in step by reloads only.
* **Retries.** Budgets, boundaries, the back-off shift, and a job that was
  delivered in part.
* **Lifecycle.** `Stop` and a second `Start` beside a goroutine that was never
  told to stop.
* **Many requests in one Send.** A Send with several recipients, a login or a
  rate limit can fail or be cut off half way, and a retry starts over.
* **Locks.** Read locks taken twice, pointers used after the lock of their map
  is released, slices shared without any.

What makes a component correct: the *queue* delivers a job at most once per
service, tries it as often as `max_retries` says and no earlier than
`next_retry_at`, gives one true verdict, and in the end some verdict unless more
urgent jobs never stop coming. The
*scheduler* never loses an enabled job but by a reload that met an error, never
queues a removed one, and its counters and links tell the truth. *Apprise* answers once per service, with that
service's own result. A *sender* reports success only if somebody was served
(all but two do), posts nothing before its login went well (three of the four
take that for a token), ends with its context, and gives a retry no needless
second copy. The *rate limiter* admits at most two limits in any span
of a window, turns nobody away before the limit is spent, and forgets no client
that is not idle. *Metrics* count each send once and their locks do not deadlock.

## Modules

| Module | Contents |
|---|---|
| `NotificationQueue` | the queue: table, owner's operations, processors, faults; its properties |
| `NotificationStream` | the queue under callers who never stop adding rows: who can be starved |
| `DeliveryContract` | what the queue promises about a job: the abstract specification |
| `MCNotificationQueue` | the requests and URLs of the small instances |
| `NotificationQueueProofs` | types, the inductive invariant and the state properties, for every instance |
| `NotificationQueueRefinement` | the action properties and the refinement of `DeliveryContract` |
| `CronScheduler`, `MCCronScheduler` | scheduled jobs, the cron object, API updates, runs; small instances |
| `CronSchedulerProofs` | types and the four other properties, for every instance |
| `Dispatch`, `MCDispatch` | `NotifyAll`'s goroutines, the metrics they record, and who reads those; small instances |
| `NotifyContract` | what `NotifyAll` and the metrics promise goroutines that use them at once: the abstract specification |
| `DispatchProofs` | types, the three safety properties and the refinement of `NotifyContract`, for every instance |
| `SendPlans` | the vocabulary of the senders: what a URL is, what a request is, what a plan is |
| `ChatSenders`, `SmsSenders`, `WebSenders`, `PushSenders`, `OpsSenders`, `CloudSenders`, `LocalSenders` | `ParseURL` and `Send` of each service, as a predicate on URLs and a plan of requests |
| `Senders` | the registry: from scheme to service |
| `SendLoop`, `MCSendLoop` | the life of a service and its Sends under any table of senders; the table of `Senders` and its URLs |
| `SendLoopProofs` | the properties of `SendLoop` for every sound table |
| `SendersProofs` | that the table of `Senders` is sound, for every URL |
| `RateLimiter`, `MCRateLimiter` | clients, windows, cleanup and `Stop`; the small instance |
| `RateLimiterProofs` | its types and all its safety properties, for every instance |

### NotificationQueue and the code

One SQL statement is one step. `q.mu` (and SQLite) make a statement atomic; the
goroutine holds no lock from one to the next, so everything else may happen in
between.

| Model | Code |
|---|---|
| `queue`, `present`, `nextId` | the rows, which of them are in the table, AUTOINCREMENT. A deleted row keeps its contents in `queue`, for the histories and the refinement |
| `batch`, `seen`, `cur`, `ok` | the slice `GetPendingJobs` returned, the `RetryCount` of each copy, the job in `processQueuedJob`, the responses with `Success` |
| `pc` | `idle`: in the select of `processQueue`; `batch`: at the head of the loop; `sending`: after UPDATE running; `report`: after `NotifyAll`; `off`: no goroutine |
| `FetchBatch`, `MarkRunning`, `NotifyAll`, `Report` | `processQueueBatch`, and the three parts of `processQueuedJob` |
| `MarkRunningFails`, `ReportFails` | the error branches of the two UPDATEs |
| `Start`, `Stop`, `Cancel`, `Exit`, `ProcessExit` | the scheduler's life, the context, the end of the process |
| `Elapse` | time: one unit of `retry_delay` passes for one waiting job |
| `attempts`, `confirmed` | histories for the properties only |

Abstractions. Title, body, tags, metadata, timestamps and error texts are not
kept: no guard reads them. `created_at` order is id order, since `Add` reads
the clock and inserts under `q.mu`. `next_retry_at` is the number of
`retry_delay` units left (`wait`), counted down independently per job; a
negative `retry_delay`, which makes every retry due at once, is left out.
A service either answers `Success` or not; "took the job" means that it answered
`Success`, so a request that was delivered but timed out counts as refused, as
it does in the code. Multi-recipient services are one service here. The priority
and retry defaults, negative values and URLs that `Apprise.Add` rejects (also
all of a job's) are kept, since `successful == len(responses)` holds of none.
`Add` inserts the caller's `retry_count` too. No caller in the repository sets it,
but one may, and then has that many retries fewer; `asked` keeps the inserted
number for the properties. A negative one is left out, as the shift would panic.
`GetPendingJobs`, like the reload of the scheduled jobs, does not ask for
`rows.Err()`: a batch that an error cuts short leaves its rows for the next tick,
which a smaller `BatchLimit` does too, so it is left out.
An `UPDATE` of a row that is gone changes nothing, also in the retry branch,
whose own SELECT then fails.

`Overlap` says whether `Start` may be called while an older goroutine still
lives. `cmd/apprise-api` calls `Start` once, so the safety properties are
checked and proved for `Overlap = FALSE`, which covers Stop, Start and cancelled
contexts one after the other. With two goroutines a row can be fetched twice
before either marks it, and sent twice.

`MaxJobs` bounds the ids, and with them how many rows callers can ever add, which
would decide every question about starving. `NotificationStream` therefore gives
the newest id out again once its row is deleted and in no batch (`Recycle`): ids
are only compared, so the row that gets it is as new to the others as it would be
with an id of its own, and callers can add rows for ever.

### CronScheduler and the code

The methods hold `s.mu` to their end: one step each, with the reload they end
in. `handleUpdateScheduledJob` reads (`GetScheduledJob`), merges and writes
(`UpdateScheduledJob`) without a lock, so `copy` is what it read. A run of
`executeScheduledJob` is `Fire`, `Read`, `Add`, `UpdateScheduledJobStats`.
`entries[j][e]` counts the cron object's entries for a job and expression:
`loadScheduledJobs` adds one for each enabled row that parses and never removes
one. `CronID` is not a column, so `RemoveScheduledJob` reads 0 and cron keeps
the entries. A reload that fails has loaded some rows and returns an error
(`reload = "failed"`). One whose iteration fails has loaded some rows too and
returns nil, since nothing asks for `rows.Err()` (`"short"`): `Start` then sets
`running`, and `EnabledIsScheduled` promises nothing until a reload that meets no
error (`"whole"`). A run whose statement fails ends (`RunFails`). Deleting a job sets `scheduled_id` to
NULL in its queue rows, and inserting one for a job that is gone fails: the DSN
turns foreign keys on. Other columns, and the template of a run, are left out.

### Dispatch and the code

Each `NotifyAll` call starts one goroutine per service (`pc[c][i]`): it sends,
writes its answer at its own index of `responses`, and records it. A failure is
recorded twice, by `RecordNotificationError` (`FindEntry`, which takes `mm.mu`,
then `CountError` under the entry's own lock) and by `RecordNotification`.
`known`, `sent` and `failed` are the map of the metrics manager and its counters.

`mm.mu` is Go's `sync.RWMutex`, modelled by what it does (external in the map):
`Lock` first announces the writer (`lockForError`, `lockForRecord`), one at a
time, and then waits until nobody reads; while a writer is announced `RLock`
blocks, also for a goroutine that already holds the lock for reading. That is
what `GetAllServiceMetrics` does: `StartReading` takes the read lock, and each
`GetServiceMetrics` takes it again. Sections that cannot block in the middle are
one step.

The list of services is fixed while calls run. `Add` and `Clear` beside them,
the Prometheus collectors, `LastSent` and `AvgDuration` are left out. The API
server's shared `Apprise` is never asked to send, so what these runs say concerns
programs that use the library's `Apprise` and its metrics from several goroutines,
as `BENCHMARKS.md` does for the former.

### The senders and the code

A sender is two definitions. `XParseURL(u)` is true iff `ParseURL` returns nil.
`XSend(u)` is the plan of its `Send`: the requests in the order in which the
code makes them, each with its recipients, the answers it takes for success, whether
it looks into the body, and what follows a failure: `return`
(`return err`), `note` (`lastError = err` and on to the next, or past the next
`skip` ones) or `forget` (the error is dropped). A plan with `some` returns nil
if one post went well (`successCount == 0 && lastError != nil`); one that is
`hopeless` returns an error without a request, as the placeholder services do
that only say what would be needed (`instagram`, `youtube`, `tiktok`,
`aws-sns-sms`).

A URL is a record of what some `ParseURL` tells apart: the presence of user,
password, host and fragment, the number of path segments, the query keys with a
value, which of the values are invalid, and whether it has the form of the
service's webhook. Names, tokens, formats and headers are left out; so are
encoding errors of `json.Marshal` on the program's own types. A request without
a host is one that `net/http` refuses, so such a service is accepted and
hopeless. The scheme `rocketchat` is registered (`apprise.go:376`), but its
`ParseURL` accepts only `rocket` and `rockets`, so no URL of it is ever accepted.

`SendLoop` runs a plan. `Add` parses, `Notify` and `Retry` are the Sends that
`NotifyAll` and the queue start, the latter with a service made anew. `Answer`
and `Lose` are the ends of a request: a success of the server means that the message
is there, a lost answer that it may be. If the sender does not look into the body,
its service is assumed to report failures by status. Where the code does look, a
2xx can be `denied` by its body, and the body of a success can come with another
status (`odd`): Slack's bot, Telegram and Pushover look at the body alone and
take that for success, the others do not. `Timeout` ends the context: the request under way
(`cut`) may still have arrived, and later ones that heed the context do not
leave. `TickFires` and `TickCut` are the two cases of the select of the rate-limited senders
(`case <-ctx.Done()`, `case <-ticker.C`). `heeds` says what ends a request: the
context, a timeout of its own (`http.Client.Timeout`, TLS dial), or nothing: the
SMTP commands after the dial have neither (`email.go:209` and on), nor has the
`openURL` of the desktop. A token got by a login is kept by the service
(`loggedIn`).

Rich and batch mobile push build their requests, print them and return nil
(`Feigned`; `mobile_push_rich.go:510`): their Sends succeed and reach nobody, so
`served` stays empty.

`Matrix`, `Mattermost`, `Rocket.Chat` and `Reddit` log in; the first three skip that in
later Sends. An answer to a login may be a success without a token (`bare`).
Mattermost fails then (`mattermost.go:272`); the other three go on and post with an
empty one (`tokenless`), and the next Send logs in again. Two Sends of one service at once, which would share the token
without a lock, are left out, and so are tokens that expire.

### RateLimiter and the code

`CheckLimit` is two critical sections: `Lookup` under `rl.mutex` and `Check`
under `client.mutex`. In between, `held` is a pointer nobody else knows of.
`cleanupStaleClients` holds `rl.mutex` from `CleanupTick` to `CleanupDone`
(`MapIsFree`), looks at one entry after the other (`Examine`) and deletes after
it has let go of that entry's lock (`Delete`), in any order, as maps are ranged
over. `entries` are never reused: an entry that is out of the map lives
on while a request holds it. `Stop` stops the ticker, and then waits until the
goroutine receives (`StopReceived`), which it does once; a stopped ticker
delivers no tick that was not received before, as in Go 1.23 and later.

The clock counts ticks of any length and may advance at any moment, also
between the reads of one call. The cleanup ticker may fire at any time instead of every
five minutes, which covers every `WindowSize`. `owner`, `admitted`, `onTime` and
`late` are histories: `admitted` is when requests of each client were let in,
`onTime` is those of them that came on an entry in the map which nobody was about to
delete, and `late` counts the others for each entry. `GetRateLimitStatus` and `GetStats` change
nothing and are left out, and so is what `getClientID` takes for a client.

## Runs

| Run | Shows | Bounds and why they are enough |
|---|---|---|
| `queue_safety` (330 834 states) | types, `Inductive`, `AtMostOnceConfirmed`, `AttemptsWithinBudget`, `VerdictMatchesDelivery`, `RunningIsHeld`, `VerdictIsFinal`, `RetryWaits`, and that the queue implements `DeliveryContract` | two jobs: one can be deleted, retried or decided while the other is in the same batch; the four requests are the defaults with a bad URL, an urgent one with two services and one of its retries spent, no retry, no usable URL and more retries spent than there are; one fault; one goroutine that can be cancelled and started again |
| `queue_live` (53 073 states) | `OnlyUrgentRowsStarve`, `FirstAttemptsInOrder` | callers never stop adding; batches of one with two rows at once, so that LIMIT leaves one behind and an endless stream of urgent rows starves the other; requests of two priorities; no faults |
| `cron_safety` (113 104 states) | types, `EnabledIsScheduled`, `LinksAreLive`, `RunCountTellsTruth`, `RemovedIsQuiet` | one job, two runs of it at once, an update under way, two good expressions and a bad one, two queue rows, two entries per expression, one fault, which can be a reload that stops early and says so or not; runs are symmetric. Actions on distinct jobs share only the reload, and the proofs have no bound |
| `queue_crash` | **violated** `JobsAreSettled` | one fault |
| `queue_stop` | **violated** `NoFetchWhileStopped` | |
| `queue_backoff` | **violated** `RetryBacksOff` | a job with 65 retries |
| `cron_reload` | **violated** `ReloadReplacesEntries` | no faults |
| `dispatch_safety` (1 183 536 states) | types, `SnapshotIsConsistent`, `ReturnIsComplete`, `SentTellsTruth`, and that `Dispatch` implements `NotifyContract` | two calls (interchangeable), three services of which two share an id, so that goroutines of one and of different calls meet at one entry; a reader with two keys to copy |
| `senders_safety` (24 906 states, 48 014 URLs) | types, `PlansAreWellMade`, `NilMeansServed`, `SecondCopyHasCause`, `NoPostWithoutLogin`, `SendsEnd` for every registered scheme | URLs with up to three path segments (as many as a `ParseURL` asks for in the services that ask for more), so none, one and several recipients; two Sends and their retry; two ticks, so a list can be served in full or cut. States are few because a state keeps the plan and not the URL |
| `ratelimit_safety` (750 296 states) | types, `ClientBudget`, `LateAreFew`, `DeniedMeansSpent`, `NothingForgotten`, `StopEnds` | one client (entries of different clients meet only in the lock of the map), two requests at once, a limit of two; a window of two ticks and a clock of seven: an entry becomes stale after four, is removed under a request, and its client comes back for a window; two calls of `Stop`, of which the second waits for ever |
| `dispatch_nested` | **violated** `CallsReturn` | one call, one service, one reader |
| `dispatch_failed` | **violated** `FailuresCountedOnce` | one call, one service |

The queue's configurations but `queue_live` turn the deadlock check off: a stopped
scheduler with every row decided and no ids left has nothing to do. So do those of
`Dispatch`, where the system can stop for the reason `dispatch_nested` shows,
and that of `RateLimiter`, whose clock ends.

The six violations are disagreements between the code and what it says of
itself, quoted under "findings" in `PROJECT.json`:

* A row left `running` by a crash or a failed UPDATE is never fetched again:
  the queue is persistent, its retry logic is not. (`queue_crash` has one job and
  one id, so nothing but the fault can keep the job from its verdict.)
* `Stop` "stops the scheduler and queue processing", but the goroutine goes on.
* The back-off, "capped at 64x", is not a delay at all from the 64th retry on.
* "Reload jobs to update cron schedule" adds entries beside the old ones.
* A "goroutine-safe" `Notify` hangs if its outcome is recorded in the middle of a
  `GetAllServiceMetrics`.
* `NotifyAll` counts each failure twice; the tests of either call expect one.

Each property of a passing run has a plausible mistake in the module, kept
beside the definition it would replace, that makes TLC refute it ("mutants").

### Fairness

`queue_live` and `queue_crash` assume weak fairness of some `Start`
(`cmd/apprise-api` calls it unconditionally and exits if it fails), of the steps
of each goroutine (its ticker fires every ten seconds, the loop has no exit but
the context, which is `context.Background()`), and of time passing. `NotifyAll`
is assumed to return there: senders get a context with the Apprise timeout, but
nothing forces one to heed it. Nothing is assumed of callers: nobody has to add,
delete or clean up, and nobody has to stop adding. `GetPendingJobs` orders by
priority and has no aging, so a row can wait for ever; `OnlyUrgentRowsStarve`
says that this takes, again and again, a whole batch of due rows that callers gave
a higher priority. Nothing else does it: neither a backlog, nor newer rows of the
same priority however many, nor rows that come back for retries.

`senders_safety` assumes that the timer of a context goes off, that a request
which the context or its own timeout ends does end, and that the code between
two requests runs. It is not assumed that an answer arrives or that the ticker
of a rate-limited sender fires. `SendsEnd` leaves out email and the desktop's
`openURL`, which nothing ends. `ratelimit_safety` assumes that the goroutine of
the cleanup runs; neither that the ticker fires nor that anybody calls `Stop`.

`dispatch_nested` assumes strong fairness of each sender's and each reader's
steps, since a blocked `Lock` or `RLock` is granted in turn, and that a send returns; nobody
has to start a call or a read. Its counterexample is a real stop, in which no
step of either goroutine is enabled, so no stronger fairness would help.

## Proofs

The theorems hold for every value of the constants: any number of jobs,
services, goroutines, retries and faults. They rest on `QueueAssumption`,
`CronAssumption`, `RunsAssumption`, `DispatchAssumption`, `PlansAreTyped`,
`MaxAttemptsAssumption`, `TicksAssumption` and `RateLimiterAssumption`, which only
say what kind of thing each constant is (goroutines, calls and requests are finitely
many, a limit is not zero), and on `~Overlap`, `SoundTable` and `TheTable` where
stated.

*Queue.* `AtMostOnceConfirmed` is not inductive: that a job is not sent twice
depends on what the goroutine knows. `Inductive` adds the connection:

* at most one goroutine lives (`OneLive`), and its variables fit its `pc`
  (`GoroutineShape`);
* an unprocessed copy agrees with its row: same retry count, row due, nothing
  delivered (`CopyIsCurrent`), for only this goroutine changes those;
* the current job is marked running if it is still in the table, and has been
  sent exactly once more than its retry count says iff `pc` is `report`
  (`CurrentJob`);
* a row that may be fetched is `Unsent`: attempts equal its retry count and
  nobody took it (`RowAgrees`). Rows that a fault orphaned are running, so they
  are never fetched, and that is why a crash costs a delivery and never doubles
  one.

`Init => Inductive` and one lemma per action give `Bookkeeping`, from which the
state properties follow. `VerdictIsFinal`, `RetryWaits` and the refinement are
facts about single steps from a state with `Inductive`: `Add` is `Accept`,
`NotifyAll` is `Try`, the last UPDATE is `Complete`, `GiveUp` or no step, and all
else leaves the contract's variables alone.

`FirstAttemptsInOrder` compares two rows, and what keeps them in order is the
batch one of them is in. `InOrder` adds that a row nobody has tried is due as long
as it is not decided (`UntriedIsDue`); that a batch which contains a job contains every
untried row ahead of it, whatever LIMIT is, because LIMIT cuts a sorted list
(`BatchIsComplete`); and that the job being sent is the first of what is left
of its batch (`CurrentIsFirst`).

*Cron.* `EnabledIsScheduled` is inductive with the types: an entry, once made,
is only lost with the process; an expression or `enabled` changes only together
with a reload, and a reload that meets no error reaches every row. `LinksAreLive` and `RemovedIsQuiet` need the foreign key at
`Add` and at `RemoveScheduledJob`, and hold though runs of removed jobs go on.
`RunCountTellsTruth` counts goroutines. `Counted` makes it inductive: an id that
AUTOINCREMENT has not given out has no entry, no run and no queue row, so that a new
job starts with nothing to count, and every run is of an id given out. A step then
moves at most one goroutine into or out of `Uncounted`.

*Dispatch.* `SnapshotIsConsistent` needs that a reader with keys left to copy
holds the lock, and that a service without an entry has no sends
(`ReadUnderLock`). `ReturnIsComplete` needs what each `pc` value says about the
answer and the entry (`Shape`). `SentTellsTruth` is about calls that have ended;
the invariant behind it (`SentCounts`) holds always: `TotalSent` is the size of the set
of goroutines that are done and succeeded, and a recorder adds itself to exactly
one of these sets.

`DispatchImplementsContract` puts these together (`Consistent`): an answer counts
for the contract when its goroutine is done, and a read has all its totals when it
takes the lock. A key that is still to be copied is seen with its total of now,
which is its total of then, as no recorder gets the lock in between; so
`StartReading` is `Read`, `RecordNotification` is `Count`, `Send` is `Answer`, and
copying, locking and counting errors are no steps. Reads of one moment are what
the read lock of `GetAllServiceMetrics` is for; that each key takes it once more adds
nothing to that, and is why `dispatch_nested` can hang.

*Senders.* The table is a parameter of `SendLoop`, and so are the number of
retries and of ticks. `SoundTable` says that each accepted URL gives well-made
plans, which is what the run checks of the real table as `PlansAreWellMade`; the
theorems of `SendLoopProofs` say what follows from it under every answer, loss and
timeout. `NilMeansServed` needs to know what has
become of each request the Send is past (`Bookkeeping`: it served its
recipients, or noted an error, or had nobody to serve), and who is served has a
copy. It says nothing of the nil of a plan with requests that are only printed.
`NilReachesThem` has no such exception, for tables without such plans. `SecondCopyHasCause` needs to count (`Counted`): within one Send a
recipient is in one request, so a second copy means an earlier Send, and
a Send that has ended in an error gave a sure copy only if `CanForget`.
`NoPostWithoutLogin` needs that the login is the first request (`TokenFirst`), and
excepts a post without a token by a sender that does not look at it.
`PostsHoldToken` has no such exception, for tables without such logins.

`SendersProofs` shows that the real table is sound. `ServiceUrls` are all URLs:
any scheme, any number of segments, any set of keys. The lemmas about shapes of
plans come first: one request that tells somebody (`OneTeller`), one for each of
n recipients (`OneEach`), the same with a tick or a command between them
(`OneEachAfterQuiet`), a login in front of a sound plan (`LoginBefore`), requests
that tell nobody before or after one that does (`OneLast`, `OneFirst`). Then every
`XSend` is shown to be of one of the shapes, a group of services at a time, with
`XParseURL` where the plan needs it (a list of numbers that is not empty), and
`SchemeIsSound` goes through the registry. `TheTable` says that `SendLoop` is run
on it, as `senders_safety` does on some of its URLs: hence `ServicesTellTheTruth`
and the others, for any number of recipients. `TableIsHonest` shows that every plan
but those of rich and batch mobile push makes its requests, hence `ServicesReachThem`:
a nil of any other service means that the message is with somebody, or with
everybody. `MattermostHoldsToken` is the same for logins, of the one service that
looks at the token it gets. `TableIsTyped` shows that the
assumption `PlansAreTyped` is met when nothing bounds them.

*Rate limiter.* That an entry is stale says something about `lastRequest`; that
its window is over, about `windowStart`; how many were admitted, about
sequences of times. `IInv` ties them, entry by entry and client by client:

* a window never starts after the last request of its entry, which is in it; that
  holds only because the limit is not zero, so that who opens a window is admitted
  (`EntryIsSound`);
* the counter of an entry is at most what its client has been admitted since the
  window began, hence `DeniedMeansSpent`; and what came on time in it is at most the
  counter, hence at most the limit;
* what came on time in the span of a window before it is at most the limit too, as a
  new window begins only when the old one is over. Any span meets at most two
  windows of an entry, hence `ClientBudget` (`ClientIsSound`);
* an entry in the map that the removal has looked at is either still as idle as it
  looked, or has a late request, and a client without an entry had nothing on
  time for a window: that is `NothingForgotten`, and why a new entry may start at
  zero. For this no two clients may share an entry;
* a request is late on an entry once, as it then lets go of it: those that have been
  and those that still hold it are at most all requests (`LateAreFew`).

*Only model-checked.* `SendsEnd`, `StopEnds` and `OnlyUrgentRowsStarve`, which are
liveness under fairness and need ENABLED, beyond the prover's reach; and what the
violation runs refute. Every invariant and action property of a passing run is a
theorem. `FirstAttemptsInOrder` is one of `Spec`, for any number of ids, and the
run checks it with ids given out again besides.

## Not modelled, and the plan

| Left out | Why |
|---|---|
| `Add` and `Clear` beside a running `NotifyAll`, or beside each other | requests to `/services` append to the shared `Apprise` without a lock, but only its `Count` is ever read; the race is listed as a hazard |
| HTTP client pool, attachments | a map under one lock, checked twice, whose entries are never removed (`RemoveClient` has no caller but tests); an attachment list belongs to one goroutine |
| Configuration files, templates and environments | sequential parsing and rendering, whose result is a list for `Add` |
| Notification templates, metrics store | single SQL statements and reports, with no invariant between tables |
| API handlers and authentication | stateless over what is modelled; users and keys are constants |
| `SendBatch`, interaction results, history of the desktop | library entries that no program and no Send of the repository reaches |
| Builders, generators, command line, benchmarks, examples | loops over modelled calls, or text |
| Payloads, HTTP and platform I/O | wording and transport |

Next, in order of importance:

1. For `Dispatch`, that a nested read is the only way to hang: in every other state
   with a call under way some goroutine can go on.
2. `SchedulerSystem`: cron runs, API requests and the queue composed, so that a
   scheduled run leads to a settled job.
3. `Dispatch`, extended by `Add` and `Clear` beside a running call.
