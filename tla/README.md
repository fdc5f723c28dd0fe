# A verification of the PDF fixer service

The repository is a small SaaS: clients upload PDFs whose form fields cannot be typed
in, the service fixes them in the background, and a monthly quota, a billing status and
an administrator decide who may do so.  `src/backend` is a FastAPI application with
SQLAlchemy over SQLite or PostgreSQL, with Celery and Redis as options; `src/frontend`
is an Angular application.  This directory holds TLA+ modules of its core, the TLC
configurations that check them, and proofs that TLAPS checks.

How to run it, in this directory: `tlc -workers 2 -config MCQuotaRace.cfg MCQuota`, and
likewise for the other configurations in the table of runs; `tlapm QuotaProofs.tla` for
the proofs.  `PROJECT.json` lists the components, runs, hazards, findings and theorems,
and maps every definition to the lines it models.

## 1. Inventory

| Component | State | Operations | Interacts with |
|---|---|---|---|
| monthly quota: `UsageRepository`, `JobRepository.create_job_with_quota_reservation` | a `WorkspaceUsage` row per workspace and month, `Job` rows | `get_or_create`, reserve and commit, `count_for_period` | `create_job`, the scheduler, plan changes |
| quota scheduler: `scheduler.py` | a daemon thread | `run_once`: open the month's rows, purge old ones | the usage rows |
| job submission: `routes.py create_job` | the staged upload, the `Job` row | stage, admit, commit, dispatch, mark failed | storage, quota, dispatcher |
| job execution: `services/jobs.py process_job` | the `Job` row, a temporary and an output file | processing, fix, stage the output, completed or failed | storage, `update_status` |
| dispatch: `queueing.py`, `worker.py` | a thread pool's queue, or a Celery queue | `enqueue` | `create_job`, `process_job`, start and end of the process |
| storage: `services/storage.py` | files, or S3 objects | stage input, materialize, stage output, delete | submission, execution, downloads |
| downloads: `download_job_result` | none | read | storage |
| billing webhook: `stripe_billing_webhook`, `services/stripe_webhook.py` | `BillingEvent` rows, the plan columns of `Workspace` | resolve, create the event, update the plan, mark | Stripe (retries), administrators, quota |
| workspace administration: `create_workspace`, `update_workspace_plan` | `Workspace` rows | create, update | webhook, quota |
| authentication limits: `services/auth_security.py` | windows, failures and lockouts, in memory or in Redis | `allow_*`, `register_login_failure`, `clear_login_state` | login and password reset handlers |
| accounts: `user_login`, reset, `create_user`, `update_user` | `User` rows, signed tokens | log in, reset the password, change role and activity | limits, mailer |
| bootstrap: `bootstrap.py` | the default workspace and users | write them at every start | accounts, plans |
| client portal, admin pages (Angular) | the session in the browser's storage, the job list, busy flags, poll timers | submit, poll, filter, save | the API, with answers in any order |
| PDF fixing: `services/pdf_processor.py` | none | rewrite the fields' appearance | execution |
| configuration, schema, mailer, command line tools | none or constant | | |

What is hard about it:

* **Interleaving.**  Handlers declared with `def` run in a thread pool, each with its own
  session; the scheduler and the local workers are more threads, Celery workers and
  further API processes more processes.  Only the database, the file system and Redis
  order them.  The webhook handler is `async def` and never awaits after it has read the
  body, so one process handles one event at a time - but two processes do not.
* **Several commits per operation.**  `get_or_create` commits before the reservation; a
  webhook is three commits; a job is a file, a commit and a message.  Each can be the last.
* **Stale state.**  Sessions keep what they loaded across commits
  (`expire_on_commit=False`, `db.py:11`) and write only the columns that differ from it.
* **Delivery.**  The local queue dies with its process; Celery may deliver again, and
  publish a message whose `delay()` raises; Stripe sends events again and in any order.
* **Time.**  A month ends while a request works on it; windows and lockouts expire
  between the steps of a login.

The hazards, each at its line, are in `PROJECT.json`.  What makes each component correct:

* quota: a month is charged exactly the jobs that exist; no job is added beyond the limit
  it was itself admitted with; every request is answered;
* submission and execution: files and rows agree; nobody loses a job unless a fault took
  whoever held it; a status moves forward, except that a completed job becomes failed when
  reporting it fails; a completed job has its whole file;
* webhook: an acknowledged event was applied; links between Stripe ids and workspaces
  survive; a workspace has the limit of its plan; processed events are not applied again;
* limits: no window admits more than its limit of the requests that read their clock in it,
  nobody goes on uncounted, and how often a password can be wrong during a lockout, and
  before the next one, is bounded;
* accounts: a password that was set stands, a used reset token is refused, a client has a
  workspace, some administrator stays active - under the conditions the code can keep them;
* portal: no interval outlives its page's handle, a file shown as ready can be downloaded
  unless its job was undone since, a form that is busy has its file under way, and polling
  comes to an end that is shown.

Some hazards are open: the code does not prevent them, and no property claims that it does.
They are in `PROJECT.json` without properties, with the reason: a failed audit entry that
leaves an accepted job undispatched, an exception outside the `try` of `process_job` that
leaves it processing, Stripe events in an old order, two administrators who deactivate each
other, two overlapping confirmations of one reset token, overlapping changes of one user's
role and workspace, the form that stays busy after an error, and uploads that no row names.
Where a property has to live beside one of these, a history variable (`struck`, `unguarded`,
`mixed`, `refused`) says which behaviours it exempts.

## 2. Modules

| Module | Models | Lines of code it stands for |
|---|---|---|
| `QuotaLedger` | the promise: each request is decided once, in one step, against one limit | abstract |
| `Quota` | usage rows, reservations, the purge, plan changes | `repository.py` 33-63, 300-349, `scheduler.py`, `routes.py` 721-811 |
| `JobLifecycle` | the promise: queued, processing, then completed with a whole file or failed; a completed job may be withdrawn | abstract |
| `JobPipeline` | `create_job` after admission, both dispatchers, `process_job`, both storages, downloads | `routes.py` 673-894, `queueing.py`, `worker.py`, `services/jobs.py`, `services/storage.py` |
| `BillingWebhook` | `stripe_billing_webhook`, `update_workspace_plan`, starts on the default workspace, the plan rules | `routes.py` 137-148, 964-1135, `repository.py` 143-203, 352-397, `bootstrap.py` 9-18, `services/stripe_webhook.py`, `services/plans.py` |
| `AuthSecurity` | the limits and the handlers that ask them | `services/auth_security.py`, `routes.py` 258-495 |
| `Accounts` | users, reset tokens, the default users of each start | `routes.py` 346-650, `repository.py` 206-297, `bootstrap.py` 21-40 |
| `ClientPortal` | the client's page: submission, polling, its session | `client-portal.component.ts`, `session.service.ts`, `client-auth.guard.ts` |
| `MC*` | instances for TLC | |
| `*Proofs` | theorems about the module they are named after | |

The components meet in three places.  In the first two each module contains the other
side of its meeting as an action.  Submission asks the quota: `Quota` has all of that decision and
stops at the commit; `JobPipeline` leaves the decision open and goes on from the
staged upload.  Plan changes move the limit of the quota: `Quota!UpdatePlan` sets any
limit and any billing status at any time, which covers everything that
`BillingWebhook` does to the row.  The third is the page and the API: `ClientPortal` extends
`JobLifecycle`, whose steps are the jobs its polling sees, and `JobPipeline` is proved to
implement the same `JobLifecycle` while delivery is at most once.  What a repeated delivery
does to a finished job beyond that is a step of the portal's own (`Repeats`).

### Quota

A step is a statement or a commit of one session.  `pc[r]` is where a request stands:
`admit` (the workspace is read again), `select`, `insert`, `reselect` (the parts of
`get_or_create`), `fetched`, `reserved` (the conditional UPDATE has hit the row and holds
it), `committed`, and its answer.  `rowHolder` is the row lock of PostgreSQL under READ
COMMITTED; SQLite, the local default, locks the whole database and has fewer behaviours.
The scheduler goes through the same `get_or_create`, one workspace after another, with
the month and the cutoff it computed when it started.  A request that fetched a row
that was purged is in `stale`: its id names nothing, and its UPDATE hits no row.
A failing statement or process ends the transaction and releases the row.

`QuotaLedger` is the same seen from outside: `Accept` and `Refuse` compare with the
number of charged jobs, in one step.  Under the refinement mapping a request is admitted
where it reads its limit, accepted by the commit of its job, and refused by the
UPDATE that found no room.

### JobPipeline

A step is one durable effect.  `pc[j]` follows the handler of job j, `at[x]` worker x in
`process_job`.  The handler's two error paths differ in what they delete and mark, and
both are there: before `create_job_with_quota_reservation` returns, `job` is `None` and the
staged file is deleted, even if the row was committed; after it nothing is.  The staging
file is shared by all executions of a job, so `SaveFixed` and `OutputStaged` look for
another execution in the same place.  `struck` is a history variable: the jobs whose
handler, worker or queue a fault took away: among them those whose audit entry failed after
the commit, which stay queued with their quota spent and are never dispatched, and those
whose execution ended outside the `try` of `process_job`, which stay processing.  Faults are
counted, and each configuration names the kinds it admits.

An execution does not end with its COMPLETED commit.  The refresh after it
(`repository.py:102`) and the audit entry (`jobs.py:49`) are inside the same `try`, so
`CompleteJob` leaves the worker at `reporting`.  `ReportJob` is the regular end; with the fault
`report` (`ReportFails`) the handler of exceptions (`jobs.py:80-90`) writes failed and an error
over completed, while `output_path` and the file stay.

`storage` is local or S3.  A local copy is visible while it is made, and two copies to one
name spoil each other; an S3 put is atomic, the last one counts, it unlinks its source also
when it fails, and it may be done although its answer is lost.  Deleting a staged upload can
raise, so `HandlerFails` may leave it.  A download (`BeginDownload`, `EndDownload`) reads the
row, and later the file or the object behind the signed URL.

`JobLifecycle` is refined with `result` as the file that `output_path` leads to; a failed
report is its `Withdraw`.

### BillingWebhook

`row[w]` has the columns that plans are made of.  A session holds the version of the row
it loaded and the status of the event it has seen, and an UPDATE writes the columns in
which the new values differ from the loaded ones (`Written`).  `InsertConflict` is the
rollback in `create_event`, after which the session has forgotten its workspace and
loads it again.  A payload that names a workspace that does not exist is inserted
where foreign keys are not enforced (SQLite) and raises where they are (PostgreSQL); both
are in the model.  Stripe delivers an event until it is answered with success, and, as a
counted fault, once more.  Signature and body checks change nothing and are left out.

A process that starts writes the configured plan over the default workspace
(`BeginStart`, `CommitStart`), in a session like the others, with the Stripe ids as they are.

### AuthSecurity

A store is the memory of one process or Redis; all have the same state.  A call on memory
holds a lock and is one step; a call on Redis is one step per command or script.  The
handlers ask, check the password and report in separate steps, and the model has the order
of the rules (address, then e-mail; window, then lockout) and what a refusal has already
counted.  `RedisFails` fails a command before or after it has run; with the `auto` backend
the whole call is repeated on the process's memory, with `redis` the request ends.

Times are in one abstract unit, as short as one likes.  Memory reads the clock under its
lock.  For Redis the process reads it first (`auth_security.py:363`, and 315 for a failure) and
sends the script later: `stamp[c]` is that reading, taken by `Begin`, `ReadClock` (the second
script of a reset request) and `Proceed`, and `Moment` is the time a script works with.  So an
entry can reach its window late, and both of its times are kept (`Entry`).  The lockout check
on Redis is `ttl > 0` on a TTL rounded to seconds: `RoundedOff` is the end of a lockout for which
Redis answers zero, and `Locked` is `Remains > Rounded`.  `admitted`, `misses` and `began` are
histories: what was admitted during the last window, the wrong passwords since the pair was
locked out or last logged in, and when its last lockout began; `InForce` is that it still lasts.

### Accounts

A caller is a thread of some API process.  `loaded[c]` is the row as its session read it,
`object[c]` what it will be; `Result` writes the columns in which they differ.  `at[c]` is
`count` between `update_user`'s read and its guard, which reads the table, then `save`;
`confirm` after the check of a reset token; `start` and `next` are the two upserts of a start.
An insert whose address is taken by now fails.  Every hash is a new one, as every salt is, so
a hash is the number of the load it was made for, and the password version in a reset token is
that number.  Four histories say what was committed: `latest` the last hash set, `used` the
tokens with which a reset was completed, `mixed` the users that two overlapping updates wrote,
`unguarded` whether an administrator went in a way that the guard of `routes.py:586` does not
see (a change of role, an overlap, or two deactivations that were both counted for).

### ClientPortal

Each callback of the page is one step; a page is `new`, `open` or `gone`, and its callbacks
run when it is gone too, since nothing is unsubscribed.  `pollTimer` is the handle that
`stopPolling` clears and `intervals` are those that run: the two can differ, and
`IntervalsOwned` says how far.  `requireAuthToken` reads the session that all tabs share, and
leaves the page when it is gone.  Requests and answers are sets, out of which any element
may be the next.  The jobs take the steps of `JobLifecycle`; a finished one can also be taken
back (`TakesBack`) or executed again (`Repeats`), and is in the history `undone` from then on.
`late`, `overtaken` and `refused` are histories: a page that learnt of a job
after it was gone, that got an answer after the polling had ended, whose submission failed.

## 3. Runs

| Run | States | What is asked |
|---|---|---|
| `quota_race` | 22 thousand | two submissions and the scheduler in one month, plans changing: `NoOverage`, `EveryRequestAnswered` |
| `quota_purge` | 1.4 million | three months, one of retention, a usage reader: `CountMatchesJobs`, `NoOverage`, `ImplementsLedger` |
| `pipeline_faults` | 33 thousand | two jobs, two workers, both queues and storages, two faults that keep delivery at most once: `UploadsMatchJobs`, `SomebodyCarriesOn`, `CompletedIsWhole`, `DownloadsServed`, `FinishesUnlessStruck`, `ImplementsLifecycle` |
| `pipeline_redelivery` | 692 thousand | Celery with repeated and ambiguous messages and failed reports: `UploadsMatchJobs`, `SomebodyCarriesOn`, `DownloadsServed` |
| `pipeline_restart` | violation | `AcceptedJobFinishes` |
| `pipeline_duplicate` | violation | `CompletedStays` |
| `webhook_processes` | 1.6 million | two processes, an administrator, a start, one failure: `AckedIsApplied`, `PlanAndLimitAgree` |
| `webhook_link` | 98 thousand | one process, four kinds of events in any order, a start, two failures: `LinkedEventsResolve`, `DuplicatesIgnored`, `EveryEventApplied` |
| `webhook_unlink` | violation | `LinkedEventsResolve`, with an administrator who saves the plan form |
| `auth_limits` | 641 thousand | four requests of any kind, every backend, late scripts, rounded TTLs, one failure of Redis: `WindowBound`, `AllowedIsCounted`, `MissesBounded` |
| `accounts` | 840 thousand | two threads, two users, four changes, starts and resets: `PasswordStands`, `UsedIsRefused`, `MembershipValid`, `AdministratorRemains` |
| `portal` | 242 thousand | a page with two submissions, one failed request or undone job, a session that comes and goes: `IntervalsOwned`, `DoneIsDownloadable`, `BusyIsUnderWay`, `PollingEnds`, `EndIsShown` |

One run of each module also checks its type invariant `TypeOK`.  Each property of a
passing run has a mutant in `PROJECT.json`: a definition with a plausible bug, under
which TLC finds the property violated.  The operators introduced by "A plausible bug" in
the modules are those mutants; no specification uses them.

Bounds, and why they are enough to be interesting:

* *Quota*: two submitters are the least that race for the last job of a month, and limits
  of one and two let a plan change fall on either side of the count.  Three months with a
  retention of one let the scheduler purge month 0 while a request that started in it
  is still under way; with one month fewer that cannot happen.  The proofs cover the rest.
* *JobPipeline*: two workers are the least that can execute one job at once, and the
  second job is one that a first job's fault must not disturb.  Two faults reach each
  pair of error paths, among them a failed report after a failure elsewhere.
* *BillingWebhook*: two processes on one event reach the conflict in `create_event`, and
  with an administrator three writers are on one row.  The payloads of `webhook_link` are
  those of `tests/test_billing_quota_audit.py`: one that names the workspace and links it,
  one that names the subscription, one the customer; and one that names nothing.
* *AuthSecurity*: logins per address are limited to three, reset requests per e-mail to
  one, and everything else to two, so that four requests are more than any window takes.  A
  threshold of two makes failures accumulate, and with two threads fewer than two passwords
  may be wrong during a lockout and fewer than three otherwise.  One tick moves a window of
  one: what was stamped before it and reaches Redis after it is the script that comes late.
  Lockout and failure window are equal, as they are by default, and half of the lockout is
  rounded off, so at time 1 a lockout of time 0 is over on Redis and in force in memory.
  The bounds of `WindowBound` and `MissesBounded` are reached.
* *Accounts*: four loads are a user who is created and three changes around one token, or
  two administrators and the deactivation of each, or a start beside two updates; two
  threads are the least that overlap.
* *ClientPortal*: pages share nothing but the session, so one page shows what one can see;
  two submissions are the least whose polling overlaps, and two different answers under way
  the least that overtake each other.  One fault is a request that fails or a job that is
  undone; the two do not touch each other's state.

`MaxPeriod`, `MaxFaults`, `MaxTime`, `MaxRequests`, `MaxLoads`, `MaxAnswers` and the
finite sets of requests, jobs and events are the bounds; they appear in guards only.
Symmetry is used among submitters, processes and threads that do the same, and only in
runs without liveness.  Every run checks for deadlock but two.  `JobPipeline`,
`BillingWebhook` and `AuthSecurity` have an action `Finished` that allows stuttering when
everything has been answered, so TLC reports every other state that has no successor; in
`Quota` plans can always change, so there `EveryRequestAnswered` is what finds a request that
waits for ever.  In `Accounts` a session can always commit or be abandoned, so only the
bound on loads ends a behaviour: nobody asks any more.  In `ClientPortal`
a browser whose pages are all gone and whose answers have all arrived is at rest.

### Fairness

* `Quota`: weak fairness of each started request and of the scheduler's run: threads that
  can run do.  No request need arrive, no month end, no plan change and nothing fail.  A
  request that waits for a row is not scheduled by this assumption; that the row is
  released is what `EveryRequestAnswered` checks.
* `JobPipeline`: weak fairness of each handler and worker.  No fault need happen.
* `BillingWebhook`: weak fairness of each handler, and strong fairness of Stripe's
  deliveries of an event that waits for an answer: Stripe, outside the program, retries -
  which is what the handler counts on when it answers with an error and lets a failed
  event through again (`routes.py:1051`) - and a process is free only at times.  Failures
  are bounded, so this asks no more than that they end.
* `ClientPortal`: weak fairness of each interval's callback, of the API's answer to each
  `getJob`, and of the arrival of some answer: timers fire and requests end, with an answer
  or an error.  Nothing is assumed of users, sessions, workers or uploads.  That an interval
  fires again and again does not hold up the answers, which is what `PollingEnds` needs.
* `AuthSecurity` and `Accounts` have no liveness property.  A caller who is refused is answered.

## 4. Proofs

Each is for every value of the constants, under the assumptions stated by name in the
module that declares them (the sets are what the code accepts; `Submitters` is finite;
`Callers`, the threads that log in, are finitely many and at least one; retention is at least
one, as `config.py:159` makes it; limits and lengths of windows are at least one, as `config.py`
makes them).  A theorem that needs more names it in its `ASSUME`, and a run shows that there are
such constants.

**Quota** (`QuotaProofs`): `TypeCorrect`, `CountCorrect` (`CountMatchesJobs`), `QuotaSafe`
(`NoOverage`), `Refinement` (`ImplementsLedger`), `DecisionsFinal`, `NoWaitCycle`.
`CountMatchesJobs` is not inductive alone, and `NoOverage`, which is about the step that adds
a job, needs the exact count.  `Inv` adds: a row is held by exactly the request that is at
`reserved`, and its count is still below the limit that request compared it with (`RowsHeld`,
the heart of it: it is what the row lock buys); whoever has a job is past its commit
(`JobsCommitted`); a stale request's month is no longer retained (`StaleIsOld`); keys and
limits are known where they are used.  `CommitInv` is then a counting argument: the set of
jobs charged to the row grows by one, and so does the count.  `CommitWithinLimit` reads
`NoOverage` off it: the count that is committed is at most the limit of the very job that is
added, whatever the plan says by then.  `CleanupInv` shows the purge touches unretained months
only, although its cutoff may be older than the present.  The refinement maps each action to
one of the ledger's or to a stutter, under the same invariant.  `DecisionsFinal` is an action
property that follows from it: an accepted job stays charged, and a refused request never
becomes a job.  `NoWaitCycle` is what `EveryRequestAnswered` rests on besides fairness:
whoever holds a row commits next and holds no other.  `QuotaLedgerProofs` shows that the
ledger is worth implementing: by itself it keeps the limits (`LedgerKeepsLimits`) and its
decisions (`LedgerDecides`).

**JobPipeline** (`JobPipelineProofs`): under all faults `TypeCorrect`, `UploadsSafe`,
`NobodyForgotten` and `DownloadsSafe`; under `AtMostOnce` (no `duplicate` and no `ambiguous`
fault) `CompletedSafe`, `Refinement`, `FinishedIsFinal` and `CompletedIsFinal`.  The general
invariant says what holds until dispatch (`Undispatched`).  `OnceInv` adds that a job is in
one place - its handler, the queue, or one worker - and that row and files are what that place
says (`OnePlace`, `RowInPlace`). Without `AtMostOnce` the second half is false:
`pipeline_duplicate` shows how. `FinishedIsFinal` says what is left of finality while delivery
is at most once: from a status that ends a job there is one more step at most, from completed
to failed, when the report fails, and the file stays as it is.  `CompletedIsFinal` proves,
without the fault `report`, the very property that `pipeline_duplicate` finds violated:
repeated delivery and failed reports are the two ways in which a job loses its completion.
The first comes from the refinement, through what the lifecycle's steps do to a job that has
ended (`LifecycleEnds`), the second from `OnceInv` (`CompletedKept`). `DownloadsServed` needs
`Reachable`, which holds under every fault: an output path, once set, leads to a file for
ever, since executions replace the file and none deletes it; that the file is whole while
delivery is at most once follows from the refinement, because the lifecycle never changes the
result of a completed job.

**BillingWebhook** (`BillingWebhookProofs`): `TypeCorrect`; `AckedSafe`; `PlanLimitSafe` under
`PlansByName` (no explicit limits, plans that differ in their limits, and configured and
initial rows that agree); `OnceProcessed` and `ProcessedIsFinal` under `OneProcess`;
`LinksResolve` (`LinkedEventsResolve`) under `OneProcess` and `OneAccountEach`. The argument
of `PlanLimitSafe` is `WrittenAgrees`: between two versions of a row that each have the limit
of their plan, plan and limit differ together or not at all, so that a session which writes
columns that differ writes both or neither, however old its version is.  With explicit limits
this is false, which is why the assumption is there: an update that changes the plan to one
whose limit the row happened to have already writes the plan only.  `ProcessedIsFinal` is
false with two processes: one that looked for a workspace before the link was made marks
failed what the other has processed since.

`OneAccountEach(acct)` says that each workspace has one account at Stripe: initial rows have its
ids or none, the events about a workspace carry its ids or none, an event that names a
workspace which does not exist has no other workspace's subscription, and administrators send
the ids back.  The constants of `webhook_link` satisfy it.  Each part is needed: an event
that moves a subscription, two processes, or an administrator who leaves the ids out
(`webhook_unlink`) make the property false.  `LinkInv` then says that ids stay in a row once
they are there, that no session writes others (`SessionsLinked`), that a handler only finds a
workspace its event is about, that a processed event has left its subscription in the row
(`ProcessedLinked`), and that a handler which has looked without success looked before any link
was known.

**AuthSecurity** (`AuthSecurityProofs`): `TypeCorrect`; `WindowSafe` (`WindowBound`);
`CountedSafe` (`AllowedIsCounted`); `MissesSafe` (`MissesBounded`).  A bucket is cleaned only
when it is looked at, so the invariant relates it to the history (`Windows`): it holds every
admission whose stamp is in the last window, and never more of those than its limit.  A
script that comes late can clean with an old time and put in an old entry, which is why the
bound by stamps is exact and the bound by the time the store admitted is not.  What it lacks
is a budget (`Budget`): of the requests that had read the clock at some moment and had not
reached the store, those admitted since (`Delayed`) and those still on their way (`Waiting`)
are together at most the threads, since a thread delays one request at a time and reads
the clock again for the next.  `Progress` says what a call made of several commands
has counted at each of them.

`MissesSafe` bounds how often a password can be wrong, for any number of threads and any
lengths of windows, lockouts and rounding.  The code checks the lockout before the password
and counts the failure after it, so the threads between the two (`Attempts`) are not stopped
by a lockout that begins meanwhile, and on Redis their failures are not counted while it lasts
(`Late`).  `Counts` is again a budget: while a lockout is in force, the misses since it began
and the attempts still under way are together at most the other threads (`Others`); each
further miss takes one attempt away, and nobody joins.  When none is in force, every miss
of the last failure window is in the counter, which is below the threshold, or late,
and the late ones are at most the other threads.  That a lockout on Redis ends early is part
of `InForce`, which is what the check of a store sees (`Seen`).  With the
`auto` backend this holds until Redis fails for the first time (`Undiverted`), as the property
says.

**Accounts** (`AccountsProofs`): `TypeSafe`; `PasswordsStand`; `MembershipSafe`; `UsesSafe`;
`AdministratorSafe`.  `Inv` says which object each label goes with.  `MembershipSafe` adds
that whoever is about to write role or workspace of a user that is not `mixed` loaded and
will write a valid pair.  `UsesSafe` (`UsedIsRefused`) rests on hashes: a hash is set once
(`HashesFresh`), so one that a completed reset has replaced never comes back, whatever older
rows sessions commit, and the token that names it never passes the check again
(`UsedAreDead`).  `AdministratorSafe` rests on `GuardLeavesOne`: of two
active administrators counted, one is left when the other goes.

**ClientPortal** (`ClientPortalProofs`): `TypeSafe`, `IntervalsSafe`, `BusySafe`, `DownloadSafe`,
`PollingEndsExplained`.
`DoneInv` says that an answer `completed` under way, or shown, is about a job that is completed
and has its file, unless the job is in `undone`: no other step can take that back
(`AnswersStand`).  `PollingEndsExplained`
is the safety that `EndIsShown` rests on: the step that ends the polling of an open page shows
why, leaves the page, polls the next submission, or is an answer that came too late.  It needs
`IntervalsOwned`, since an answer about one job clears the interval of another.

**Only model-checked**: the liveness properties `EveryRequestAnswered`,
`FinishesUnlessStruck`, `EveryEventApplied`, `PollingEnds` and `EndIsShown`, since liveness under
fairness is beyond the prover's reach.  `NoWaitCycle`, `NobodyForgotten` and
`PollingEndsExplained` are the safety parts of three of them: nobody waits for a waiting request,
no job is without somebody who carries on, no polling ends without a sign.  Every invariant and
every other action property of a passing run is proved.  `AcceptedJobFinishes` is false, and so
are `CompletedStays` and `LinkedEventsResolve` without the assumptions named above.

## 5. Findings

* `pipeline_restart`: with the default local backend a restart of the API process leaves
  accepted jobs `queued` or `processing` for ever; nothing looks for them at start.
* `pipeline_duplicate`: a message delivered twice takes a completed job back to
  `processing`, and possibly to `failed`; the portal stopped polling when it was completed.
  A failed report takes it to `failed` under single delivery too (`ReportFails`); that needs no
  run of its own, as it violates the same property.
* `webhook_unlink`: saving the plan form of the admin page erases the Stripe ids of the
  workspace, which the page does not send, and later events of the subscription end
  with 404.

## 6. What is left out

Inside the modelled components: audit entries (that writing one can fail is modelled, since it
ends a handler), signatures, the extraction of fields from Stripe's JSON, `Retry-After` values
and status counters, the restart of a process that empties the memory backend, the start and
the end of the scheduler's thread, the expiry of tokens and signed URLs (a request that is not
made, a download that finds nothing), the first start, which inserts the default workspace,
the API keys, and clocks that disagree.  The refresh of `update_status` is taken to read back
what its own commit wrote: that another execution of the same job commits between the two is
left out.  Two things that are so by design have no property: a signed session keeps its role
and workspace until it expires, and the windows of the memory backend are those of one
process.  `create_workspace` is a check and an insert of a row that nothing else knows yet:
its race on the name is that of `create_user`.  Of the client's page, the contents of the job
list and the workspace information are left out: they are shown, and nothing depends on them
but the message that the limit is reached.

Not modelled at all: configuration parsing and table definitions (constants and types
here), read-only list pages and their filters, pikepdf and the PDF format, SMTP, the
password hash and the token signature, the command line scripts, CSS and HTML.

## 7. Plan

Done: `Quota` with its ledger, then `JobPipeline` with its lifecycle, S3 and downloads,
`BillingWebhook` with starts, `AuthSecurity`, `Accounts`, and `ClientPortal`; each with its
runs, then its proofs.  What is left, in this order:

1. `Quota` with the plan rows of `BillingWebhook` in place of `UpdatePlan`, and `NoOverage`
   stated of the plans in force.
2. `BillingWebhook` as the implementation of an abstract delivery - received, applied,
   processed, answered - with the refinement proved, which would say at once what
   `AckedIsApplied` and `DuplicatesIgnored` say apart.
3. Pure functions as operators, each against a reference definition: the walk over the
   field tree in `pdf_processor.py`, the normalisation of Stripe payloads.
