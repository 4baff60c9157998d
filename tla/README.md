# Rustrak in TLA+

Specifications, model-checking configurations and machine-checked proofs for Rustrak, a
self-hosted error tracker that speaks the Sentry protocol: its server (`src/apps/server`;
the SQLite build unless a module says otherwise), the client library of its API
(`src/packages/client`) and the parts of its dashboard that keep state
(`src/apps/dashboard`). The server accepts events over HTTP, keeps each accepted event in a
pending file until its digest has committed, groups events into issues, raises alerts,
watches cron monitors, counts sessions, assembles source maps and cleans up after itself;
the dashboard shows it to whoever is signed in.

Every `.tla` file says at its head what it models; `PROJECT.json` maps each definition
to the lines it translates. Paths below are relative to `src/apps/server/src`, those that end
in `.ts` or `.tsx` to `src/apps/dashboard/src` or, for `http.ts` and `client.ts`, to
`src/packages/client/src`.

## 1. Inventory

### 1.1 Parts, state, operations

| Part | Source | State | Operations |
|---|---|---|---|
| Ingest handler | `routes/ingest.rs`, `ingest/*` | none of its own; the in-flight claim of its event | parse the envelope, check the quota, claim the event, store the pending file, answer, spawn the digest |
| Pending event store | `ingest/storage.rs` | a directory: `<id>.json` records, temporary files, quarantined files | publish (write, sync, link, sync directory), read, delete, list, sweep temporaries |
| In-flight registry, slots | `digest/processors/mod.rs` | owners of each event id; a semaphore of 16 processing slots; a mutex for the digests' write | claim and release, acquire and return |
| Error digest | `digest/processors/event.rs` | rows of `events`, `issues`, `groupings`, counters of `projects` and `installation` | read file, duplicate check, quota check, one write transaction, alerts, hand-over of the file |
| Durability queue | `digest/processors/event.rs` | queued deletions, the batch being checkpointed, `worker_running` | enqueue, FULL checkpoint, delete the batch's files, re-queue, give up |
| Recovery worker | `routes/ingest.rs` | the list of its last scan, its backoff | scan for files without owner, digest each |
| Quotas | `services/rate_limit.rs` | counters and windows of the installation and of each project | check (read), consume (in the digest's transaction), count drops |
| Alerts | `services/alert.rs`, `workers/alert_retry*` | rules with their cooldown clock, channels, `alert_history` rows (status, attempts, `next_retry_at`), integrations' health | fire a rule, dispatch, claim due rows, retry, fail |
| Notification providers | `services/notification/*` | none | format and send one message |
| Source map and debug file assembly | `services/sourcemap.rs`, `services/debug_file.rs`, `workers/sourcemap_assembly.rs` | `assembly_jobs` (state, retries, lock), chunks and their owners, stored bundles | upload chunks, request assembly, claim, assemble, mark failure, reset stuck jobs |
| Scheduler | `scheduler/*` | `scheduled_jobs` (settings, `next_run_at`, last run), the set of running jobs | tick, claim a due run, run, record its end, save settings |
| Cron monitors | `services/monitor.rs` | monitors, environments (status, next check-in), check-ins, incidents | process a check-in, sweep missed and timed-out ones |
| Session aggregator | `workers/session_aggregator.rs` | counters and users in memory, `session_counts`, `session_users` | count a session, flush, merge back on failure |
| Issues and grouping | `services/issue.rs`, `services/grouping*.rs` | issues (status, counts, merge), groupings | find or create, resolve, regress, merge, delete |
| Storage clean-up | `services/storage.rs` | rows and blobs past retention, a single running clean-up, the cached figures of the storage page | purge, collect unreferenced blobs, vacuum, read the figures |
| Transactions, spans, logs, feedback | `digest/processors/*`, `services/{transaction,span,log}.rs` | their rows | digest in memory, no pending file |
| Projects, releases, stats | `services/{project,release,stats}.rs` | their rows, the cached project of ingest | create, update, delete, read |
| Users, roles, tokens, invitations | `services/{users,role,auth_token,invitation}.rs`, `auth/*` | accounts, permissions, hashes of tokens | login, grant, invite, accept, revoke |
| OAuth and MCP | `services/oauth.rs`, `mcp/*` | clients, codes, access and refresh tokens | authorise, exchange, rotate, revoke |
| GitHub integration | `services/github/*` | installation, linked issues with the state GitHub has told of, delivery ids, the issues being opened (`OPENING`) | webhook, mirror of status, assignee and comments, auto-create |
| Telemetry | `telemetry/*` | counters, an install id | count, report |
| API client | `utils/http.ts`, `client.ts` | the attempts of a call | send, retry, time out, abort |
| Dashboard session and reader | `shared/api/{session,query}.ts`, `shared/i18n/intl.ts`, `features/user/api/mutations.ts`, the guards of `routes/` | who is signed in, the memo of that question, the query cache, the language on screen | ask, sign in, sign out, clear, save a preference, reload |
| Storage page | `features/storage/*` | the cached status of the clean-up, whether it was seen running | start, poll, announce |
| Other pages, generated client, docs, UI, benchmarks | `src/apps/dashboard`, `src/apps/docs`, `src/packages/*` | view state | read and present what the server's API returns |

### 1.2 How they interact

* A request runs in a tokio task. The handler awaits a blocking store, answers, and
  leaves a second task behind that digests the event under a processing slot; if the
  client hangs up, the handler is dropped at an await with whatever it owns, while a
  blocking call already started runs on.
* Digests, the recovery worker and the durability worker share the in-flight registry,
  the write mutex, the database and the directory of pending files.
* A digest calls the alert service after its commit. Deliveries are rows of
  `alert_history`; a spawned task and the retry worker both dispatch them and share them
  by a lease only.
* The scheduler ticks once a minute and starts the monitor sweep and the clean-up in
  their own tasks.
* A change of an issue's status spawns a task that copies it to GitHub, and what
  people change on GitHub comes as webhooks; nothing orders the tasks among themselves. A new issue's
  event, and each replay of it, spawns one that opens a GitHub issue.
* The dashboard talks to the server through one client that repeats what is safe to repeat;
  what a request does and what its caller is told are two things. Answers reach the session
  store and the query cache in any order, whoever has signed in or out since. A clean-up
  runs apart from the request that starts it, and the page polls for its end.
* Everything in memory is lost by a kill; the database runs with a write-ahead log and
  `synchronous=NORMAL`, so a loss of power may also roll back the commits after the last
  checkpoint.

### 1.3 What is hard, and what has to hold

| Part | Hard behaviour | Properties |
|---|---|---|
| Error pipeline | duplicates racing each other and the recovery worker, a kill or a loss of power between commit, alert, checkpoint and deletion, clients that hang up, retries of retries | nothing acknowledged is lost; an event is counted once; a file goes only when its event is durable and alerted; claims and slots balance; files and claims drain; the queue is always served |
| Pending event store | several writers of one name, malformed records, crashes between link and sync | a complete record or none; an answered request's record is complete; the first wins; durable once synced; never neither under its name nor in quarantine |
| Alerts | two dispatchers and a lease, a crash between commit and dispatch, the attempt limit, cooldown | a delivery is settled in the end, and for good; no two senders at once; sent again only after a failure or an unwritten outcome; suppressed only after a notice |
| Assembly | a crash in the middle of a job, expiry of the lock, chunks shared by jobs, a re-request | a job is finished or failed in the end; no chunk a live job needs is removed, nor its row |
| Scheduler | settings saved between read and claim, downtime, a run longer than its period, a crash | a job never overlaps itself; a due run happens; a save is never overwritten by the old schedule |
| Monitors | late, repeated and out-of-order check-ins racing the sweep | the newest result decides; a failure is reported once; a run that goes quiet is timed out |
| Session aggregator | flush racing ingest and shutdown, a failed or unknown commit | a session is counted once; what was answered is kept, but for a kill or an unknown commit |
| Quotas | windows that turn over between check and consume, concurrent consumers | a window never stores more than its limit |
| Issues | concurrent creation, legacy keys, deletion and status changes during a digest | one issue per grouping; counts match the rows |
| GitHub mirror | tasks that each note what they set after GitHub has answered, webhooks in any order, lost answers, replays | an event opens one GitHub issue; once all is quiet, both sides are alike (but see section 6) |
| API client | a request carried out although its answer was lost, repeats of it, an abort | what is not safe to repeat is done once; the one answer the caller gets is true |
| Session and reader | answers that arrive after a sign-out or a sign-in | nothing read before a sign-out is believed after it; no two accounts' data in one cache; the language on screen is the account's |
| Storage page and figures | polls, the start's own answer and a restart in any order; reads that outlast a clean-up | a clean-up seen is told of, once and never an older one; figures are not from before a clean-up |
| Clean-up of files | rows created while it runs, shared blobs | nothing a live row refers to is removed |
| Roles, invitations, OAuth | two of one single-use secret, the last owner | a code, a refresh token, an invitation is used once; there is always an owner |

## 2. Modules

| Module | Models | Extends / uses | Runs |
|---|---|---|---|
| `AcceptedEvents` | the promise: an event taken is held until it is stored or dropped | - | as a property of `DigestPipeline` |
| `DigestPipeline` | ingest handler, in-flight registry, slots, error digest, durability queue, recovery worker, quota counter, crashes | instantiates `AcceptedEvents` | `digest_safe`, `digest_power` |
| `DigestPipelineProofs` | theorems about it | `DigestPipeline`, TLAPS | - |
| `PendingStore` | how one event's record gets its name in the directory | - | `stores` |
| `DurableFilesProofs` | theorems about it and `SourceFiles` | both, TLAPS | - |
| `AlertDelivery` | one rule: cooldown, recorded deliveries, dispatch, retry worker | - | `alerts`, `alert_lease` |
| `AlertDeliveryProofs` | theorems about it | `AlertDelivery`, TLAPS | - |
| `AssemblyJobs` | chunks, assembly jobs, the assembly worker, polling clients | - | `assembly` |
| `AssemblyJobsProofs` | theorems about it | `AssemblyJobs`, TLAPS | - |
| `SourceFiles` | the content-addressed store, its rows, its collection | - | `stores`, `files_unlinked` |
| `JobScheduler` | one scheduled job, clean-ups started by hand, saves | - | `scheduler` |
| `JobSchedulerProofs` | theorems about it | `JobScheduler`, TLAPS | - |
| `MonitorCheckIns` | one environment of a cron monitor: check-ins, incidents, the sweep | - | `ingested` |
| `SessionAggregator` | session counters in memory, their flush and the server's stop | - | `ingested` |
| `IssueLifecycle` | the issues of a project: digests (Postgres) beside people | - | `ingested` |
| `IngestedProofs` | theorems about these three | all three, TLAPS | - |
| `GitHubMirror` | one issue and its GitHub issues: mirror, webhooks, auto-create | - | `ingested`, `status_mirrored` |
| `GitHubMirrorProofs` | theorems about it | `GitHubMirror`, TLAPS | - |
| `ApiCall` | the promise of one call of the API client | - | as a property of `ApiClient` |
| `ApiClient` | one call: attempts, retries, timeout, abort, and the server's side of it | instantiates `ApiCall` | `dashboard` |
| `SignedIn` | one tab: session store, guards, query cache, preferences | - | `dashboard`, `language_shown` |
| `CleanupJob` | the server's clean-up as others see it, and the cached figures | - | `dashboard` |
| `CleanupPage` | the storage page following a clean-up | extends `CleanupJob` | `dashboard` |
| `DashboardProofs` | theorems about `ApiClient`, `SignedIn`, `CleanupJob` | all three, TLAPS | - |

`MC<Module>` gives the constants of a module small values; a `.cfg` picks among them.
`MCDurableFiles`, `MCIngested` and `MCDashboard` put several small components side by side:
these share no state, so the first state chooses one of them and only that one moves. A
definition whose comment begins with "Mutant" is no part of a model: it is a plausible bug,
put in place of the definition after it to show that a property notices.

The modules are cut where the code hands over through the disk or the database.
`DigestPipeline` takes the publication of a pending file as one durable step, which
`PendingStore` takes apart. It takes an alert as one recorded fact, from which
`AlertDelivery` goes on. It takes the database as a set of committed states. What a job of
`AssemblyJobs` saves is what `SourceFiles` keeps. `DigestPipeline` takes an event's group for
granted, which `IssueLifecycle` takes apart for the build in which digests of a project can
overlap; a failure that `MonitorCheckIns` reports is an event like any other. The status that
`GitHubMirror` copies is that of an issue, and its `Openers` are an event's digest and the
replays of it. `CleanupPage`
and the requests for figures meet the same `CleanupJob`, which is where they are composed.

Every module of a component has a type invariant, which is proved; those of monitors,
sessions, issues, the client, the tab and the clean-up are stated beside their proofs.

### 2.1 DigestPipeline

State. `pc[r]` is where a run of the digest is: one run for each request (`Deliveries`) and
one for the recovery worker. `inFlight` is `InFlightDigests`' count of owners, `permits` the
semaphore of `processing_slot`, `slot` the mutex around the digests' write, with `tries` the
write attempts of its holder. `files` are the events with a pending file. `db` is what has
been committed; `recoverable` are the states of the database a loss of power could leave at
this moment, and `sinceCkpt` those of them committed after the running checkpoint started.
`unlinked` are removals that no sync of the directory covers. `pending`, `batch`,
`workerRunning` and `worker` are the durability queue; an entry is known by the run that
made it. `acked` and `refused` are history.

| Actions | Code |
|---|---|
| `Arrive`, `Reject`, `Store`, `StoreFails`, `ClientGone`, `Answer` | `ingest_envelope`, `enqueue_digest`; a dropped handler drops its claim, the blocking store runs on |
| `AcquirePermit`, `Retry` | `digest_stored_event` and its contention retries |
| `Scan`, `Recover`, `ScanDone` | `recover_pending_events_once_with_status`: it registers nothing |
| `ReadEvent`, `CheckExists`, `CheckQuota`, `TakeSlot`, `WriteEvent`, `RecordAlert`, `Finish`, `End` | `process_ref` and `process_impl`, in their order; `WriteEvent` is the transaction: duplicate, quota, rows, counter |
| `StepFails`, `WriteFails`, `ChannelGone` | a failing statement at each of them; `Retain` and `should_retain_event` decide whether the file stays |
| `CountLimited`, `RemoveRefused`, `RemoveFails` | `drop_rate_limited` and the removal of an unusable record |
| `TakeBatch`, `CheckpointStarts`, `CheckpointCompletes`, `CheckpointFails`, `RemoveBatch`, `RemoveBatchFails`, `ReleaseBatch` | `DurabilityQueue::run`, `checkpoint_full` |
| `NextWindow`, `Kill`, `PowerLoss` | the clock and the machine |

### 2.2 PendingStore

State. `dir` is the directory as the process sees it: whose record has the canonical name,
the temporary files, the quarantined ones. `recoverable` are the directories a loss of power
may leave. The actions are the calls of `write_pending_record_atomically`,
`publish_pending_file` and `sync_parent_directory` in their order: `CreateTemp`,
`WriteTemp`, `Link`, `UnlinkTemp`, `Inspect` (the name is taken: is it complete?),
`Discard`, `Quarantine`, `Rename`, `SyncDirectory`, `Answer`. `CallFails` and `GiveUp` are a
failing call and its clean-up; `SweepTemp` is the scan's removal of old temporaries,
`Digest` the end of the event. The filesystem is external: it orders directory operations,
so a loss of power leaves one of the states since the last sync, and no mixture of them.

### 2.3 AlertDelivery

State. One rule, its channels and their integrations; `status`, `attempts` and `due` are the
columns of `alert_history` for each event and channel; `pc` is where each digest is in
`fire_rule`, `work` and `sending` what each dispatcher has taken and is waiting for. Timers
count down (`cool`, `due`, `left`). `Tick` lets time pass only when each sender that has
something to do is waiting for an answer: in the code only sends take time worth counting.

`Check`, `Load`, `Record`, `RecordFails` are `fire_rule` (the cooldown is reserved in the
transaction that records the deliveries); `StartSend`, `SkipUnrouted`, `Succeed`, `Fail`,
`Unrecorded` are `dispatch_history`; `Claim` and `WorkerGivesUp` are `claim_due_retries` and
the retry worker. `Fail` stands for a request that was refused and for one without an answer
in time, which the endpoint may have accepted: `dispatch_history` tells neither apart and
retries both. Nothing here knows what an endpoint has accepted; `requests` counts what was
sent to it, which bounds that, and `unwritten` the requests whose outcome a kill or a failing
database kept from the row. A disabled integration counts as delivered without a request, as
in the code. The worker's lookup of a row's
integration is folded into `SkipUnrouted`. Rule filters and the check that a new issue fires
once are left out: they decide whether `fire_rule` is reached.

### 2.4 AssemblyJobs and SourceFiles

`AssemblyJobs`: `state`, `retries`, `list` and `row` are columns of `assembly_jobs`, `owned`
is `assembly_job_chunks`, `chunks` the chunk table, `holder` what a debug ID resolves to
within one project, `older[j]` the jobs whose rows were made before that of `j`: the worker
claims the oldest that waits. A client goes through `StoreChunk`, `Look` (read its job), `Forget` (a
re-upload), `Check` (which chunks are missing), `Queue` (the transaction that answers); an
uploader does so in one request. The worker's `Claim`, `Join`, `Save`, `Finish` are
`claim_next`, the assembly, `store_file` and `finish_job`; `AssembleFails` leads to `Mark`
(`mark_failure`). The expiry of a job's lock is seen only by a restart, so it is a choice
made there: `Kill` queues again any subset of the jobs that were being assembled, and
`stranded` remembers the rest, as it does a job whose failure or claim could not be recorded.

`SourceFiles`: `files` on disk, `rows` of `source_file`, `resolves` the metadata by which a
name finds its content. The worker's `Look` and `Write` are `put` (write unless it is
there); `Insert` takes SQLite's write lock; `Commit` shows all of a job's rows at once. A
collection reads its orphans (`Snapshot`), then for each `DeleteRow` (one conditional
statement) and `Unlink`. `Alias` is `alias_proguard_mapping`, `Forget` the end of a project.
A job whose transaction failed is assumed to be taken again. What a dSYM covers is left out.

### 2.5 JobScheduler

One job, the storage clean-up, since it is also started by hand. `row` is the row of
`scheduled_jobs`; `tick` is the loop's position and what it has read (`Read`, `Decide`,
`Move`, `Claim`, `ClaimRefused`, `TickFails`); `runs` are the spawned tasks (`Begin`,
`Work`, `EndRun`, the last of which writes the record and clears the running mark); `manual`
are the requests (`Ask`, `RecordStart`, `WorkByHand`, `RecordFinish`, `HangUp`). `started`
and `finished` hold which run wrote them instead of when. Time is in minutes and a schedule
is the set of minutes it fires at. The policy for missed runs is chosen once, in `Init`; no
job in the code takes `Skip`, the engine implements it.

### 2.6 MonitorCheckIns, SessionAggregator, IssueLifecycle

`MonitorCheckIns`: one environment of one monitor on an interval schedule. `rows` are
`monitor_checkins`, `env` the row of `monitor_environments`. A request is stamped by
`Arrive` and recorded, later, by `Record`, which is the whole of `process_check_in`: the
upsert, `update_existing` (`Changes`, `Updated`), then `mark_failed` or `mark_ok`. `Refuse` is
a check-in that changes nothing, `NoMonitor` the wait of a result for the start that brings
the monitor. The sweep reads what is due, then what is overdue, and handles each find in a
transaction that looks again (`SweepStart`, `SweepMissed`, `SweepScan`, `SweepTimeout`).
Crontab schedules, muting, the nil check-in id, retention and the editing of a monitor are
left out. Times are whole minutes.

`SessionAggregator`: a counter is the set of the updates it counts, so that twice the same
can be told from two. `state` is what `ingest_session` adds to, `batch` what `flush` has
taken out, `db` the tables. `FlushFails` merges back, `CommitUnknown` does not. `Stop`,
`Take("shutdown")` and `Exit` are the end of `main`.

`IssueLifecycle`: on Postgres a digest takes the project's advisory lock (`Lock`), reads the
grouping with its issue (`Find`: the current key, or the key of an older server), writes and
commits (`Land`, `Create`) or rolls back; people's `SetStatus`, `ResolveInNextRelease`,
`Delete` and the creation of a release (`Ship`) come in between without that lock. The
update applies to the row as it is at the commit what was decided on the row as it was read.

### 2.7 GitHubMirror

State. `status` is the issue's, `link[r]` the state that its link to a GitHub issue holds,
`remote[r]` what GitHub has; `task` is where each spawned task is, `opening` who holds the
issue in `OPENING`, `hooks` the bag of webhooks on their way or being handled.
`opener[r]` is the run whose marker is in the body of the issue.

A task of `mirror_status` goes through `ReadIssue`, `ReadLinks` (the links whose state is
another), for each of them `SetIssueState` and `SetRemoteState`, then `ReadAgain`. `SkipFailed`
is one link's failure, `ReadFails` that of a read, which ends the task. `StoreHook` and
`FollowHook` are the two halves of the handler of issues' webhooks, `HookFails` a lost one or
a failing statement. `auto_create` is `ClaimOpening`, then in each attempt `FindLink`,
`IssuesSince`, `CreateIssue`, `AddLink`, after which it goes on as `mirror_status`;
`AttemptFails` covers an answer that is lost although the issue was opened. GitHub carries
out a request at once or never. A webhook comes of what people change there (`OnGitHub`): what
the server itself has changed comes back as the app's bot, and `handle` drops that
(`services/github/webhook.rs:27-30`).

`crossed` notes that two changes have met: one is made on GitHub while anything is under way,
or here while a webhook is, or a task changes an issue on GitHub that another has changed
otherwise and not noted yet. `CatchesUp` exempts these; `MatchesAsItIsNow` does not and is
what `status_mirrored` refutes. `spared` are the links that a failure has kept from a sync.

### 2.8 ApiClient

`attempt` says what became of each attempt at the server, which goes on with it whether the
client still waits or not; `phase` is where `createFetch` is. `Conclude` is the loop's
decision to repeat, `Receive`, `Drop`, `TimeOut` and `Rethrow` the ways an attempt ends.
`ApiCall`, the promise, has no attempts: a call takes effect at most once unless its method
is safe to repeat, not after its caller was told that it was carried out or refused, and the
caller is told one thing, once.

### 2.9 SignedIn

`memo` is the session store's `inFlight` (nothing, a request, a resolved user), `settled`
what it last published. `read` are requests to `/auth/me`: `AnswerRead` is the server,
`Deliver` the continuation in `ensure`, which publishes whatever has happened since.
`guard` is the request a guard of the router waits for; `Hover` is a preload. `fetch` and
`cache` are a page's read and the query cache, with the account a read was asked for and the
one that was answered. `Save`, `AnswerSave`, `Adopt`, `Reload` are a preference from the click to
the screen; a language is the number of times it was changed. The cookie is the server's
session; it may end at the server at any time (`Elsewhere`).

`leaving` are the sign-outs in flight. `SignedOut` is the answer to one, or its failure: the
session is dropped in the tab, and an answer takes the browser's cookie with it. When the page
it was asked on has been left meanwhile (a 401 leads to the sign-in page, `Show`), it still
does both, also to a sign-in that came in between, but leads nowhere.

### 2.10 CleanupJob and CleanupPage

`CleanupJob`: `job` is the status in memory. `kept` is the cached snapshot; a request for
figures is served what is kept (`AskKept`, with a refresh behind it when it is old) or queues
for `reading` (`AskRead`, `Grant`, `ReadEnds`). The lock is served in order of arrival. A
time is the number of clean-ups that have ended. `Collect` and `Forget` are a collection of source
maps by request.

`CleanupPage`: `status` is the query's data, `poll` the read in flight, `seen` is
`runningRef`. `Cache` is what the effect does with new data. `Start` to `Follow` are the
mutation: asked, answered, settled (which refetches everything under `storage` and waits for
it), handed on to `follow`. A dialog's dry runs are one of the reads waited for.

## 3. Runs

| Run | Question | Instance and bounds |
|---|---|---|
| `digest_safe` | Is anything acknowledged lost, counted twice, leaked or left unserved? Does the pipeline implement `AcceptedEvents`? | two events; one sent twice, one that the digest refuses; two slots; a quota of 1 and a second window; one fault, one kill; integrations may vanish |
| `digest_power` | Does a file go only when no loss of power can take its row or alert back? Is every file dealt with, as `AcceptedEvents` promises? | one event sent twice; two slots; a quota that is never full; two faults; one kill or loss of power; fairness |
| `stores` | Which record is under a pending event's name, and what is left of it by a crash? Does a collection of source files take what is in use or leave what is not? | three interchangeable writers, the name free or malformed at first, one failing call, one kill or loss of power; two names and two contents, two jobs that write them crosswise, two overlapping collections, one failure or crash |
| `alerts` | Are deliveries sent by one sender at a time and again only after a failure, settled in the end and for good, none suppressed without another? | one event digested twice and another, one channel, cooldown 1, two attempts, one fault or kill, one edit, a lease longer than a dispatch; fairness |
| `alert_lease` | Does the lease cover a dispatch of several channels? (it does not) | one event, three channels, a lease of two sends, no fault |
| `assembly` | Do live jobs keep row and chunks whatever the others do? Does every job end? | two debug files with a common chunk and debug ID; two pollers and an uploader, one mistaken about its list; one fault, one kill at any time; fairness |
| `scheduler` | Do runs overlap, get lost, or overwrite a save? | three schedules, both policies, a manual run that is recorded, one save, one crash, fault or hang-up, four minutes; fairness |
| `ingested` | Do check-ins, sessions, issues and their copies on GitHub come out right in whatever order their steps come? | two runs of a job, one of which starts, beats and ends while the other fails, thresholds of 1, four minutes, one kill, failed step or toggle; five session updates, room for one release, two failures or kills; three events of two keys and an issue under an old key, three actions of people; an older issue with two GitHub issues, or a new one with its event and one replay, two attempts each; two changes of its status, here or on GitHub, and two webhooks and two syncs at a time; one lost request, webhook or kill; fairness of the sweep |
| `dashboard` | Is a call carried out once? Does the tab believe an old answer or mix two readers? Is a clean-up told of, and are figures current? | two retries, a method that is repeated twice over and one that is not; two accounts, two requests to `/auth/me`, three sign-ins or ends of a session; two clean-ups, two starts, one restart, one failed read; two requests for figures, one collection; fairness of the page |
| `files_unlinked` | Is what a name resolves to on disk? (not always) | one job, one collection, no failure |
| `language_shown` | Is the screen in the account's language once every save is done? (not always) | one account, one save of each control |
| `status_mirrored` | Does GitHub match the issue once every sync has ended? (not always) | one linked issue, three changes, no webhook, no failure |

Why these bounds are enough to be interesting. The races here are between two parties and a
third that changes the ground: two digests of an event and the recovery worker or a crash,
two writers and a malformed record, a dispatch task and the retry worker, two jobs and a
chunk, two syncs and a change of mind, two check-ins and the sweep, two answers and a sign-out. Every instance has all
three. Retry limits are 2, so that there is a first failure after which the code goes on and
a last after which it gives up; one kill is enough to restart from any state, and the states
after it are initial ones but for the disk. The two events of `digest_safe` compete for one
unit of quota and one registry. The thresholds of the monitor are 1, so that each result
counts; with higher ones "the newest result decides" is not what the code promises.
`MaxFaults` is the budget of failing calls of a behaviour and not a property of the code; the
same holds for every other constant whose comment calls it a bound. Deadlock is checked in
the pipeline's runs, where the recovery worker never stops scanning; it is off where everyone
is done once the requests are.

`digest_power` needs a quota that is never full and integrations that stay. Section 7 says
what happens without.

## 4. Fairness

* Each tokio task is polled until it ends: weak fairness of its next step (`DeliveryStep`,
  `DigestStep`, `WorkerStep`, `SenderStep`, `ClientStep`, `RunStep`, `ManualStep`).
* Tokio's semaphore and mutex are served in the order of arrival: strong fairness of
  `AcquirePermit`, `TakeSlot` and `CheckpointStarts`, which are enabled again and again but
  not always.
* The recovery and retry workers and the scheduler loop for ever with a bounded pause: weak
  fairness of `Scan`, `Recover`, `ScanDone`, `Claim` and `TickStep`. In `AlertDelivery` time
  passes (`Tick`).
* In `assembly` requests that have begun are polled too; whether a client polls again is its
  own affair.
* The scheduler starts the monitor's sweep each minute and the sweep goes through its finds:
  weak fairness of `SweepStep` and `Minute` in `MonitorCheckIns`. Check-ins have none.
* The page polls while a clean-up runs, requests are answered in the end (the client times
  out), a clean-up ends and a started mutation settles: weak fairness of these steps in
  `CleanupPage`, for a tab that is looked at (TanStack pauses `refetchInterval` in a hidden
  one, and goes on when it is shown), one by one, since each is a timer, a request or a promise of its own.
* Nothing is assumed of new requests, edits, saves, window turns, faults or crashes.

## 5. Proofs

tlapm checks these for every value of the constants that the modules' ASSUMEs allow. Every
safety property that a passing run checks is stated by a theorem. Most are not inductive
as they stand; what each is strengthened with is named, and why.

The type theorems (`TypesHold`, `FilesTypeCorrect`, `AlertTypeCorrect`, `AssemblyTypeCorrect`,
`JobTypeCorrect`, `MonitorTypeCorrect`, `SessionTypeCorrect`, `IssueTypeCorrect`,
`MirrorTypeCorrect`, `ClientTypeCorrect`, `TabTypeCorrect`, `CleanupTypeCorrect`,
`PageTypeCorrect`) say of each
module that its variables keep their types, and the bounds of the code's retry loops where
it has any. The rest builds on them.

**DigestPipelineProofs**
* `QueueAlwaysServed`: `Spec => []QueueIsServed`. It is inductive as it stands: `enqueue`
  sets the flag and adds the entry in one step, and `run` stops only in the step that finds
  the queue empty.
* `CountedOnce`: `Spec => []DigestedOnce`. The strengthening `CountInv` says it of the
  committed state and of those the running checkpoint does not cover as well: each commit
  adds the row and the count together, a checkpoint narrows the recoverable states to those,
  and a loss of power returns to one of which it already held.
* `ResourcesNeverLeak`: `Spec => []ResourcesAccounted`. `EntryInv` adds that queue entries are
  told apart by who made them and for which event, so that an entry that is made or released
  changes each count by one; the counts are then compared step by step (`Claimers`, `Holders`).
* `AckedIsKept` and `PipelineImplementsAccepted`: without a loss of power (`~PowerFails`),
  `[]NothingAckedIsLost`, and the pipeline implements `AcceptedEvents`. The step that removes
  a file must know that the row is there. `KeptInv` adds what each step of a run relies on: an
  answer comes after the store; a digest in progress works on an event that is held, stored or
  refused; past its commit the row is in the database; a record is discarded only if it is
  stored or unusable; what is on the queue is stored. `status` reads the database first, then
  the files; each action is either one step of the abstract module or a stutter.
* With losses of power: `DurableBeforeDeleted`, `AlertedBeforeFileGoes`, `AckedIsKeptUnderPower`
  and `PipelineStepsUnderPower` (the steps are those of `AcceptedEvents` and of its
  `PowerLoss`). They assume `RoomForAll`, a quota larger than the number of events, and
  `~ChannelsVanish`: section 7 says what happens otherwise, and these are the conditions of
  the run `digest_power`. `DurableInv` follows an event through all states a loss of power may
  return to: its row and alert are in the committed state when its entry is queued
  (`QueueInv`), in every state since the checkpoint began while that runs, in every
  recoverable one once it has completed, and so in all of them when its file is gone
  (`DiskInv`). `RoomInv` shows that the quota refuses nobody, by counting rows.

**DurableFilesProofs**
* `PublishedStaysDurable`: what has been synced is in every state a crash or a loss of power
  may leave, until the event is settled. `PublishInv` ties the place of each writer to the
  directory: one that has published its record, or found a complete one, is right about it
  until a digest has settled the event; `NameMoves` says which steps touch the name at all.
* `AckedStaysComplete`: an answered request's record is complete, short of a loss of power
  since.
* `FirstLinkDecides`: as long as nothing was quarantined, no live writer replaces a complete
  record; a rename happens only after a quarantine (`RenamesAfterQuarantine`).
* `NameIsNeverLost`: no state that a kill or a loss of power may leave has a quarantined
  record and nothing under the name. It is about all of `recoverable` and inductive as such.
* `NamesOutliveCollections`: the condition of a collection's DELETE is part of it, however
  old its list is.
* `FilesAreAccounted`: as long as nothing has failed, each file has a row, or a job or a
  collection that will settle it. `WorkersJobIsOpen` is what it needs of the worker.

**AlertDeliveryProofs**
* `DeliveriesAreNotDoubled` assumes `LeaseCoversBatch`: the lease is longer than a dispatch to
  all channels of the rule (with the code's 120 s and 30 s, three channels). `HeldInv` says
  who may hold a delivery, `LeasedRows` that the rest of its lease is always more than the rest
  of the batch may take, and `Accounted` that every request but the one in flight, or the one
  that settled the row, is a counted attempt or an unwritten outcome; `SendsAreNew` is what it
  needs of a send. It does not say that an endpoint accepts once: a request that times out may
  have been accepted, and is sent again. Without the assumption `alert_lease` is the
  counterexample.
* `SomethingIsNotified`, which assumes nothing: the cooldown drops an alert only while another
  of its rule is on record. `DroppedForAnother`: that other one is about another event. It
  assumes `NoticeOfOneRun`: the digests of one event do not overlap, or the rule has one
  channel, or nobody edits it. Each suffices (`AloneInv`, `AllOrNone`, `UneditedInv`), and
  without all three it is false: one digest has listed two channels when the rule loses one of
  them; a second digest of the same event lists the other one, records it and takes the
  cooldown; the first one's row for the lost channel is then skipped for the event's own
  notice.

**AssemblyJobsProofs**
* `LiveJobsAreKept`: the hard step is a re-upload's deletion, which acts on a row read
  before. `SeenSettled` says that the row it has read is settled while it is still that row;
  a job queued again after a deletion has another one.
* `SharedChunksAreKept` with `WorkerHasJob`: the job the worker is at is marked as being
  assembled, so that no restart and no request has queued it a second time.

**JobSchedulerProofs**
* `SavedSettingsWin`, `RunsNeverOverlap`. `JobInv` adds that a run that was claimed and not
  begun is the only one (`OneRun`), that who works is marked so (`OneWorker`), and that what
  the tick writes is a slot of the settings it has read (`TickOfItsSettings`).

**IngestedProofs**
* `NewestDecides` assumes a failure threshold of one: with a larger one a monitor stays well
  on purpose after a single error. `FailuresAreReportedOnce` holds for all thresholds:
  `ReportsTold` says that what was reported has a row that tells of it, and that such a row is
  never opened again. Both rest on `RowsApart`: one row for each check-in, the missed ones
  numbered.
* `SessionsAreCountedOnce`, `AnsweredSessionsAreKept`: each is part of the other's invariant
  (`SessionInv`), with who holds the batch (`BatchIsHeld`) and what the last flush leaves
  (`LastFlush`).
* `OneIssueForAKey`: `LockHeld` and `ReadUnderLock` say that what a digest has read under the
  lock can only have been deleted since. `IssuesCountTheirEvents` counts over all issues.

**GitHubMirrorProofs**
* `OneIssueIsOpened`: `OpenedOnce` for any number of replays, attempts, lost answers and
  kills. `RunIsSound` says of each run what its place tells: only the holder of `OPENING` is
  under way, a request is sent only after a search has found none of the run's own and while
  nothing is linked, and a run that mirrors has linked one. `OpenedIsCounted` then allows, beside
  the failed runs, one GitHub issue that is linked or is the current run's own; a run that
  returns gives this up only for a link or a failure. A link is never taken away
  (`LinksAre`, from the types of webhooks and tasks).
* `LinksCatchUp`: `CatchesUp`, which is about the moments when nothing is under way, needs to
  know what happens in between. `SyncInv` says, until changes have crossed, who will see to
  what is out of step. A link whose GitHub issue is not as the status says has a task that
  will set it or read the status again, or a webhook (`SomebodySeesToIt`); what a link holds is
  what GitHub has, unless a task is about to note it or a webhook to store it
  (`LinksAreTrue`); the status is the one last asked for, or a webhook brings it
  (`StatusIsAsked`). For these it has to be known that a webhook is alone on its way and no
  task is at a link meanwhile (`HooksAreAlone`), and that what a run of `auto_create` has opened
  stays open until it is linked (`RunsKnowTheirs`). Each task, failure and webhook has a lemma
  of its own. What a failure has kept from a sync is exempt (`spared`) and nothing else is.

**DashboardProofs**
* `ClientImplementsCall`: `ApiClient` implements `ApiCall`. `Unsent` says what has not been
  sent, `ToldAtTheEnd` that the caller is told at the end and of no more than happened,
  `OneAttempt` that an unsafe call has one attempt.
* `ClearedReaderIsAsked` with `WaitsInSession`. `ReadersStayApart` assumes `Others = {}`: a
  sign-in of another account in another tab is not seen by this one. `HeldIsOne` is about all
  that the tab holds, awaits or could be given, `EmptyAtTheDoor` about the places from which a
  sign-in publishes no change of reader.
* `KeptFiguresFollowCollections` with `StaleFollowed`: figures that miss a collection have its
  second drop queued behind them. `OutcomesAreOfTheRunSeen`: `NeverAnOldOutcome` is an action
  property, of the steps that announce. `SeenBeforeAnswer` says that an answer on its way is
  not of an older run than the one seen, and `StartedBeforeAnswer` that neither is it older than
  a run started here, once the mutation has settled: it is this that the refetch in place of
  the reads in flight brings about, and without it the start's own answer would put a newer
  run before an older answer. `AnsweredFiguresAreCurrent` with `CurrentInv`: what a request
  remembers of the moment it was asked is not ahead of now, and the read it waits for began
  after it.

Only model-checked. Liveness, which is out of the prover's reach: `FilesDrain`, `Settles`,
`JobsSettle`, `DueRuns`, `OpenRunsEnd`, `SeenIsTold`, and the fairness half of
`ImplementsUnderPower`, whose steps are proved.

## 6. Findings

Four runs end in a violation on purpose, of a sentence in the code that the code does not
keep.

* `alert_lease`. `services/alert.rs:38-39` says that the lease "must exceed the longest
  single dispatch ... so an in-flight delivery is never re-claimed and double-sent". The
  lease starts for all channels of a rule at the commit, and one task sends to them in turn
  (`services/alert.rs:845`) without looking at the row again. Several hanging endpoints use
  up the lease of those after them, and the retry worker sends beside the task.
* `files_unlinked`. `services/storage.rs:727` says "so we never unlink a file that's back in
  use". The statement that deletes the row is atomic; the unlink is not part of it. An
  assembly that finds the file in the store writes its row in between, and the file of a row
  in use is removed.
* `language_shown`. `features/user/api/mutations.ts:110-113` says that the store adopts the
  answer of a save because otherwise the page would "resolve straight back to the language the
  reader just changed away from". Each answer carries the whole row and is adopted in the
  order of arrival (`:124`): the time zone's answer, read before the language was changed and
  delivered after, brings the old language back.
* `status_mirrored`. `services/github/sync.rs:219-224` says that the linked GitHub issues are
  closed or reopened "to match the Rustrak issue's status as it is now", and that another pass
  catches a change whose own sync "saw this one's link state from before". An issue is
  resolved, reopened and resolved. One task has closed it on GitHub when another reopens it
  there and notes "open"; the first one's note, "closed", comes last; the third task finds the
  link as it wants it (`:237`) and every re-read agrees. The issue is resolved, GitHub's is
  open, and nothing will run until the next change. The mirror of the assignee sends
  regardless of what was noted (`:345`) and has no such end.

## 7. Where the code does less than its words

These were met while modelling. Where a constant is named, changing it in that passing run
shows the behaviour, which is the reason for its value there; elsewhere a property says how
it makes room for it.

* A digest that passed the duplicate check before another run's commit and then finds the
  quota full removes the event's file at once (`digest/processors/event.rs:478`), before any
  checkpoint covers the other's commit; a loss of power then loses an acknowledged event.
  `docs` (`blog/ingest-digest-performance.mdx:32`) says a file goes only after a FULL
  checkpoint. (`digest_power` with `QuotaLimit = 1`: `DeletedOnlyWhenDurable`.)
* An integration deleted between the list of a rule's channels and their load is `NotFound`
  (`services/alert.rs:732`), which does not keep the file of a committed event whose alerts
  are not recorded (`event.rs:399`). (`digest_power` with `ChannelsVanish = TRUE`:
  `AlertedBeforeDeleted`.)
* A request that finds a complete record under the name answers without syncing the
  directory (`ingest/storage.rs:229`), although the writer of that record may not have
  synced it either; `reference/architecture.mdx:60` promises the file for every accepted
  event. `AckedIsComplete` is therefore about the time since the power last failed.
* Of two writers that both read a malformed record, the second one replaces the first one's
  complete record (`ingest/storage.rs:254`), against "keep the first complete record"
  (`:230`). Hence the condition on quarantined records in `FirstLinkWins`.
* The cooldown is one clock for each rule, not for each issue (`services/alert.rs:776`), so
  an alert about one issue suppresses another's; `usage/alerts/index.mdx:112` can be read
  otherwise. `SuppressedAfterNotice` says what does hold.
* A request that the endpoint accepts and answers after the client's 30 s has failed like any
  other and is sent again (`services/alert.rs:911-951`), with nothing by which a receiver
  could tell it from a new one. `NeverDoubleSent` therefore bounds requests by the attempts
  the row counts, and says nothing of what endpoints accept.
* Jobs left `assembling` are queued again only at start and only when their lock has expired
  (`workers/sourcemap_assembly.rs:56`). A restart within the lock, or a failure that could
  not be recorded, leaves the job there until a later restart (`:32-33` counts on the
  reset). `JobsSettle` exempts such jobs (`stranded`).
* A failed job is answered with its error only once its chunks are gone
  (`routes/sourcemaps.rs:394`). When another live job keeps them, or two clients of one
  failing job restart it for each other, a poll queues it again instead. Two files of one
  debug ID whose clients poll in turn can replace each other's job without end. So no property
  says that each client hears how its job ended.
* An upload is answered 201 although the transaction found nothing to queue
  (`routes/sourcemaps.rs:751`, against `:677`).
* A claimed slot is lost by a restart before its run begins (`scheduler/engine.rs:161`,
  against "neither skips" at `:5-6`). `DueRuns` exempts a restart.
* A manual clean-up that begins between the tick's busy check and its claim has its record
  taken over by the claimed run, which then does nothing (`engine.rs:149`, against
  `:62-63`). `DueRuns` only asks that a clean-up began.
* A client that hangs up between the start of a clean-up and the task that records its end
  leaves it without an end (`routes/storage.rs:416`, `:465`). No property asks for it.
* A crash or a failing unlink leaves a file without a row, which no later collection sees,
  since it goes by the rows (`services/storage.rs:744-745`). `NoStrayFile` exempts it.
* The comment of `mark_ok` speaks of the newest result, `has_newer_result` looks at some
  statuses only: a run that was marked missed or timed out does not keep an older, late
  result from deciding. `NewestResultDecides` is about results that clients sent.
* `config.rs:31` describes the cap of the session aggregator as one on pairs of release and
  environment; what is counted against it are releases.
* A `DELETE` whose answer was lost, or answered with a 5xx after it was carried out, is sent
  again and may be told "not found". `ApiCall` allows it: the method is safe to repeat.
* An answer to a saved preference that arrives after a sign-out puts its account back into
  the session store. `ClearedIsAsked` is about what `/auth/me` answered.
* `begin_kind` resets the end of the last clean-up (`services/storage.rs:285`), so while the
  next one runs, figures from before the last one are served. `FiguresAreCurrent` exempts
  that time.
* `features/storage/ui/hooks/use-cleanup-job.ts:22-23` says "The outcome is announced once".
  A poll that sees a clean-up end announces it while the mutation that started it still waits
  for its refetches; then the start's own answer, a running job, goes into the cache (`:76`),
  and the next poll announces the same end (`told` reaches 2 in `CleanupPage`, with one
  clean-up started on the page). `NeverAnOldOutcome` is about which run is told of.
* Webhooks are not ordered, and `update_remote` writes the state each carries: two that are
  handled the wrong way round leave the link, and then the issue, with the older one, and
  one that arrives between a task's request and its note has what it stored overwritten.
  `CatchesUp` exempts both (`crossed`).
* An `auto_create` that gives up, or is killed, may leave an unlinked issue on GitHub, and a
  replay of the event opens another (`services/github/sync.rs:434` says so of a restart).
  `OpenedOnce` allows one more for each such run (`failedRuns`).
* Of two clean-ups, the second of which starts between two polls, the page announces only the
  second: it never sees the first one end.
* By reading, not by a run: on Postgres a status set between a digest's read of its issue and
  its update is overwritten by the regression the digest decided on; and the loading toast of
  a compaction stays when a clean-up starts between two polls.

## 8. What is not modelled

Postgres but for `IssueLifecycle`, where digests of one project can overlap; pending files at
the locations of older versions; deletion of a project or of rows during an error digest; the
project's quota counter beside the installation's (the check and the consumption of both are
in the same two places); parsing, grouping, symbolication and formatting, whose outcomes are
choices (accept, refuse, fail). An event is assumed to raise one alert. Transactions, spans,
logs and feedback have no pending file and are digested within the request.

Of monitors: crontab schedules, muting, retention, the nil check-in id. The two thresholds are
parameters of `MonitorCheckIns` and only their value 1 is checked. Of issues: merging,
comments, bulk edits; `Ship` is the creation of a release together with what it does to the
issues that wait for it. Of the dashboard: the path a reader returns to after a sign-in, what
other tabs hold in memory, and the pages that only show a query or keep the state of a form
(the issue list, dialogs, the routing of channels, the query bar, toasts). The generated part
of the client, the component library and the documentation site keep no state that two
parties share: they are data, markup and prose. Of GitHub: the mirrors of
assignees and comments, links made and removed by hand, commits, code owners, the set-up of
the app, webhooks that are delivered twice. OAuth,
invitations and MCP are not modelled; `PROJECT.json` lists every part with what is left out.

## 9. Plan

Written in this order, the most important behaviour first: the pipeline and its promise, the
store of pending files, alerts, assembly, the scheduler, the files of source maps; then
monitors, sessions, issues, their mirror on GitHub, the API client with its promise, the dashboard's session and its
storage page. What is next:

1. Models: both quota counters with the cached project, the mirror of assignees, invitations and the last owner, OAuth codes and refresh tokens, merging of
   issues. A composition of `DigestPipeline` with `IssueLifecycle`, and of `AssemblyJobs` with
   `SourceFiles`.
2. Abstract specifications: a delivery that is pending and then settled, for
   `AlertDelivery`; a monitor's status as a function of the check-ins in the order of their
   start.
3. Proofs: the theorems of what the first two points add. `NewestResultDecides` for any failure threshold needs a
   statement of its own, about the last so many results.
