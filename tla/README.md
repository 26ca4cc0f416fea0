# Verification of LucidLink Connect

TLA+ modules that model the parts of this repository whose correctness depends on
the order of things (deliveries, transactions, crashes, cancellations, requests of
one user that overlap), TLC runs that check them on small instances, and TLAPS proofs
for every size.

## 1. Inventory

| Component | State it keeps | Operations | What is hard | What makes it correct | Module |
|---|---|---|---|---|---|
| Import job queue and worker (`services/job_queue.py`, `worker.py`, `idempotency.py`, `db/repositories/job.py`) | `import_jobs`, `processed_jobs`, the ARQ queue in Valkey, locals of each running `import_job` | add, cancel, delete, clear, deliver, claim, import, stale-job cron | at-least-once delivery, load-then-flush saves, kills at any await, publishing to a store that can be down | each object ingested at most once; a row that says completed accounts for all of it; a cancel stops within a batch; no running row is forgotten | `ImportJobs`, `IngestOnce` |
| SQS poller (`services/sqs_poller.py`) | poll lock in Valkey, `sqs_events`, messages in SQS | acquire, sweep, record, import, delete, release | a lock that expires under its holder, check-then-insert, crash between record and import | no event imported twice; no event dropped without a row that says so; verdicts true and final | `SqsPoller`, `EventLedger` |
| User state (`services/user_state.py`, routes of `main.py`) | per process and user: token, host, credentials, the lists of filespaces and data stores, the selection; `user_settings`, datastore credentials | hydrate once, write through; load, create, delete, connect | several replicas, hydration overlapping a write, lists filled with a query per entry | a process finds what was saved, serves nothing that was not committed; the list goes with the selection | `UserState`, `FilespaceLists` |
| SQS/S3 provisioning (`services/sqs_service.py`, routes of `main.py`) | SQS queues and policies, bucket notification configurations, `sqs_queues` | create, attach, delete | read-modify-write of a shared configuration; failure in the middle | the entries of other queues survive; a reported success is one | `QueueProvisioning` |
| Authentication (`services/auth.py`, `routes/auth.py`, `db/repositories/user.py`) | `users`, `user_sessions`, signed tokens | login, register, invite, change role or password, delete user, log out, first admin | a login overlapping a revocation; admins acting on each other | an accepted token tells the truth about its user; an admin remains | `AuthSessions` |
| LucidLink client (`services/lucidlink.py`) | none (an HTTP client); the filespace tree is remote | resolve, create folder, import file, ensure structure | concurrent creators, conflicts, retries | every parent exists before a file is imported | `EnsureStructure` |
| Log stream (`main.py`, `user_state.py`) | the trimmed list of a user's log lines, an index per open stream | append and trim, poll | the index against a list that stops growing | each line reaches an open stream once | none |
| Activity logger (`services/activity_logger.py`) | `activity_logs`, tasks in flight | fire-and-forget inserts, prune | shutdown with tasks in flight | what was logged is persisted before the engine is disposed of | none |
| Secrets (`services/secrets.py`) | an encrypted file | read, change, rewrite | (nothing writes it any more) | no write is lost | none |
| Drain and health (`services/shutdown.py`, `routes/health.py`) | a draining flag | SIGTERM, readiness | order of flag, drain, teardown | nothing is torn down while requests are accepted | none |

Interactions: the web process writes `import_jobs` and enqueues into Valkey; ARQ
workers read both, write the row and `processed_jobs`, list S3 and call
LucidLink; their messages travel back over a Valkey channel. The poller is an ARQ
cron in the same workers and calls the same LucidLink API. Both use the
credentials the web process stored (`UserState`) and make folders the same way
(`EnsureStructure`). Queues that the poller polls are set up by `QueueProvisioning`.
Modules meet where components do: `ImportJobs` and `SqsPoller` take a step of
`ensure_structure` and `import_file` as one external call, `FilespaceLists` says with
which filespace the rows of `UserState` are written.

`PROJECT.json` lists the hazards line by line, with the properties about each.

## 2. Plan and status

All modules of the plan that have a question for a model checker are written, and each
has its proofs: `ImportJobs` with its abstract specification `IngestOnce`, `SqsPoller` with `EventLedger`,
`UserState`, `FilespaceLists`, `EnsureStructure`, `AuthSessions`, `QueueProvisioning`.
Each component module `M` has an `MCM` with the values of its small instances, one
`.cfg` per run, and an `MProofs`; `ImportJobsRowProofs` extends `ImportJobsProofs` with
what relates the row of a job to the locals of its run.

What is left, should the code change: the log stream, if its index is repaired, and the
drain, if the application takes over the order of its own shutdown.

## 3. ImportJobs

`rows` is the table; `rows[j]` keeps the columns the code decides on (status and
counters; `started_at` because a cron compares it). `adding` holds `add_job` calls
between the commit and the enqueue. `queue` and `tries` are what ARQ knows of the
job. `processed` is the claim table. Each worker slot has a label `pc`, its `job`,
the locals `run` of `import_job` and, during a save, the row `seen` that its
session has loaded. `sent`, `listed`, `reported`, `lost`, `noticed` and `undelivered` are history:
properties read them, actions never do.

| Action | Code |
|---|---|
| `AddJob`, `Enqueue`, `NoDispatch` | `JobQueue.add_job`: the commit, the enqueue in the other store, and the ways the second never happens |
| `Cancel`, `Delete`, `ClearHistory`, `TimeoutStale` | one SQL statement each in `JobRepository` |
| `Deliver`, `GiveUp`, `LeaseExpires`, `Ack` | ARQ (external, modelled from how it is configured and used) |
| `Claim`, `MarkFailed` | the `@idempotent` wrapper |
| `SaveLoad`, `SaveFlush` | every `update_status` of the worker: load the row, then flush the columns that differ from the loaded ones |
| `GetJob` ... `HandleException` | `import_job` and `_import_job_body`, one step per transaction or external call |
| `Crash`, `Terminate`, `TimeOut` | a kill, SIGTERM after `job_completion_wait`, `job_timeout`; a batch may have been sent in part |

The two-step save is where the interesting behaviour lives. SQLAlchemy writes a
column only if its value differs from the loaded one: a cancel that commits
between load and flush survives if the loaded status was already the one being
written, and is overwritten otherwise.

Abstractions: Postgres answers (an outage is not modelled), Valkey may fail at any
publish or enqueue; the owner filter of the queries is left out (one user's jobs);
error messages are not kept; files are counted, not named. Jobs share nothing but
slots and `ClearHistory`, so one job shows every interleaving of a job with
itself; the proofs hold for any number.

### Runs

| Run | Question | Bounds |
|---|---|---|
| `delivery` | safety of everything above, refinement of `IngestOnce`; every delivery ends, and a run that is not killed settles its row | 1 job, 3 slots, 3 deliveries, up to 3 files in batches of 2 (a full batch, a short one, an empty listing); no symmetry, because of the liveness |
| `stale` | is the row of a killed run ever failed by the cron? **No**: `started_at` is never written | 1 job, 1 slot |
| `cancel` | is a cancelled job left alone? **No**: the next save of status running undoes the cancellation | 1 job, 1 slot |

Three slots are needed for a holder, a redelivery and a second one; `MaxTries` is
ARQ's own limit of deliveries (its default is 5) and `MaxFiles` the size of a
listing. Deadlock is not checked: when every job is removed and acknowledged the
system has nothing left to do.

What each property says is written above its definition. `CompletedAccountsForAll`
and `NoticedCancelStopsTheRun` are the ones users see; `RunningHasOwner` lists
every way a row can be left running and `PendingHasOwner` every way it can be left
pending: the commit of `add_job` and the enqueue are in two stores and nothing repairs
the gap, nor a job that ARQ drops before its claim; `SettledRowIsLeftAlone` and `IngestsOnce` say
that a redelivery is harmless.

### Fairness of `delivery`

`WF(WorkerStep(w))`: an asyncio event loop keeps resuming its tasks, and every
external call has a timeout. `WF` of delivery and of giving up: ARQ polls its
queue. `WF(Unheld(j) /\ LeaseExpires(j))`: the in-progress key of a dead holder
has a TTL. `WF(TimeoutStale)`: the cron fires. Nothing is assumed of users, of
crashes, or of the enqueue after `add_job`'s commit.

## 4. SqsPoller

A sweep is one invocation of the cron `poll_sqs_queues`; each tick may start one in
any worker. `lock` is the key in Valkey: `Free`, the sweep whose id it holds, or
`Dead` when that sweep is gone and only the TTL will take it. `queues` and `rows`
are `sqs_queues` and `sqs_events`; `rows[<<m, k>>]` is the sequence of rows of one
message and object, because the table allows several, and a deleted row says
`removed`. `sqs` and `receives` are the messages in AWS, `imported` the filespace.
The rest are the locals of each sweep. `late`, `overrun`, `attempts` and `cutShort` are
history.

| Action | Code |
|---|---|
| `Send`, `Redeliver` | S3 and the visibility timeout (external) |
| `Pause`, `Resume`, `DeleteQueue`, `ClearEvents` | the routes of `main.py`, one transaction each, and the cron `cleanup_old_events` |
| `Acquire`, `LockExpires`, `Release` | `SET NX EX 60`, its TTL, the Lua script of `release_poll_lock` |
| `ListActive`, `NextQueue`, `LeaveQueue` | `poll_sqs_queues` |
| `Receive`, `TakeMessage`, `RecordFailure`, `DeleteMessage` | `poll_single_queue` |
| `Probe`, `Insert`, `Lookup`, `Begin`, `Import`, `Settle` | `process_s3_event` |
| `Cancelled`, `Crash` | `CancelledError`, which runs the `finally`; a kill, which does not |

Abstractions: Postgres answers, but a queue's row can be gone, which makes the
foreign key refuse an insert. `error_message` and `last_poll_at` are display only
and left out. `Records` are the `ObjectCreated` events that `parse_s3_events`
returns; `is_create_event` has already dropped the others. Credentials, datastore
and token are there or not, whichever the step chooses. LucidLink says an object is
new, exists, or failed; a failure may hide a success (a timeout). SQS retention and
dead-letter queues are not modelled. The probe and the insert share a session but
nothing makes them one step under READ COMMITTED, so they are two. Closing the HTTP
client, which follows the verdict's commit inside the `try`, is taken not to fail.

| Run | Question | Bounds |
|---|---|---|
| `poll_redelivery` | what the lock is worth, no second import, who is left with a row without a verdict, refinement of `EventLedger` | 2 sweeps, a message naming one object twice, 2 receives |
| `poll_live` | does every sweep end, does an active queue have its turn? | 1 slot for sweeps, one after another, 2 queues, a message of 2 objects and a malformed one |
| `poll_lost` | are the events of a deleted message settled? **No**, after a crash | 1 sweep, 2 receives |

`EventLedger` is what the sweeps promise together, whatever becomes of each: one ledger
kept by one hand, with no sweeps, labels or lock in it. A row goes from pending to
processing to a verdict, an object is linked only for a row that says processing (or was
removed under the sweep), a success needs its object, a message goes when its events are
recorded. `KeepsTheLedger` is the refinement, with `ledger <- rows`, `linked <- imported`
and the deleted messages for `gone`. It holds without the lock too: the lock is only
needed for not doing things twice. That verdicts are true (`SettledRowsTellTheTruth`)
and final (`SettledRowsNeverChange`) and that no message goes with an object unrecorded
(`RecordedBeforeDeleted`) is part of it; each also has a theorem of its own, and no run.

`UnsettledHasOwner` is the other half of `poll_lost`. The probe takes any row for an event
that is done with, so a row left at pending or processing is never worked on again; the
question is who can leave one. A sweep that is interrupted at it, which `cutShort` notes,
and an exception that takes the sweep off it, which writes a row that says failed after it.
Nothing else can: not a queue paused or deleted under the sweep (its rows go with it), not
a lock that runs out, not a second sweep over the same message, and no return or exception
of `process_s3_event` between the row's commit and its verdict. It needs no lock either.

Two sweeps are a holder and the one that follows it; two receives are a delivery and
a redelivery. `OneImportPerEvent` has the condition `~overrun`: the lock is the only
thing that keeps two sweeps from inserting the same event, so once a sweep outlives
its lock the promise is void, and the run shows that redelivery and crashes alone do
not break it. `MaxReceives` bounds what would be SQS's retention; no liveness of
messages is claimed, since a malformed one is redelivered until it expires.

Two more disagreements with comments are reachable in the model and have no run:
two workers poll at once after 60 seconds ("only one worker polls at a time",
`sqs_poller.py:4-5`), and an exception after the row's commit adds a failed row
beside the pending one ("we never inserted the row above", `sqs_poller.py:199-200`).

Fairness: `WF(SweepStep(s))`, the event loop; `WF(LockExpires)`, the TTL;
`WF(\E s : Acquire(s))`, the cron, which ticks every ten seconds in every worker
(`sqs_poller.py:428`): a lock that is free stays free until some tick takes it. Nothing is
assumed of users or of AWS.

`ActiveQueueHasItsTurn` says what the lock, the snapshot and the `except` per queue are
for. It rests on all of the fairness, and on the code: a queue before it that fails in any
way must not end the sweep, the TTL must free a lock that nobody released, the list must
be read anew. Its two exceptions are needed: a queue that is paused now and then may be
paused at every snapshot, and a sweep that is cancelled or dies at every try never gets
to it. An interruption of `release_poll_lock` itself does not count as one, because it has
the same effect as the release.

## 5. UserState

The web service runs two tasks by default (`web_desired_count`) without sticky
sessions, and each keeps a `UserSession` per user. `rows`, `tokenRow` and `hostRow`
are the tables; `cache`, `token`, `host`, `hydrated` and `listed` are the memory of
each process. `req` holds the requests in progress: the route, the form, and what
its queries returned. A coroutine is cut at every statement and every external call,
so a query is two steps: the database reads (`ReadRows`), and later the coroutine
resumes and uses what was read (`UseRows`). `saved`, `disputed`, `clean`, `known`,
`sure`, `checked` and `failed` are history.

| Action | Code |
|---|---|
| `OpenPage`, `Hydrate`, `ReadHost` ... `UseRows` | the routes that hydrate and look a datastore up; `UserSession.hydrate` |
| `LoadFilespaces`, `FilespacesListed`, `DatastoresListed` | `load_filespaces` |
| `Connect`, `Credentials` | `connect` |
| `SaveToken`, `SaveHost`, `Commit` | the transaction of both: two upserts on `user_settings` |
| `Save`, `Validated`, `Upsert`, `Keep` | `save_datastore_credentials`, `create_datastore` |
| `Remove`, `Drop`, `Dropped`, `Erase`, `Forget` | `delete_datastore_credentials`, `delete_datastore` |
| `Fail`, `Refuse` | a statement raises and its transaction rolls back; LucidLink or S3 says no |
| `Reply`, `Restart` | the answer; a task is replaced |

Abstractions: one user, since caches and rows are keyed by user;
`datastore_credentials` and `s3_services` are one variable, because every route
writes both or neither; keys, bucket and region are one record; a write that one
statement makes is one step with its commit, since the row stays locked between
them; a commit whose acknowledgement is lost is not modelled; the legacy secrets
file `load_from_db` reads is empty. LucidLink and S3 may answer anything. The lists
of filespaces and datastores are reduced to whether a process has them.

| Run | Question | Bounds |
|---|---|---|
| `user_solo` | requests one at a time: is the connection a pair that was accepted? | 1 process, 1 slot, 2 datastores, 2 records, 2 tokens, 2 hosts |
| `user_replicas` | does a page find what was saved, with hydrations in flight and on two processes? is anything uncommitted cached? when does a cache leave the table? | 2 processes, 2 slots, 1 datastore, 2 records |

Two slots are a hydration and what overlaps it: a save, its answer and the next
page can all happen in the other slot. Two processes are a writer and a reader.
Datastores do not interact except in the one query that reads all rows, so one is
enough for the concurrent run. The property of `user_solo` is one that concurrency
breaks; it checks that errors and restarts alone do not.
`CacheFollowsUnlessDisputed` draws the line for the caches: `disputed[p]` has the data
stores whose row changed in another process while p held something of it (`Crossed`),
or while a request of p had read the rows or was about to cache a row of its own; at
every other data store the cache of p is the table, whatever runs, fails or restarts. A
write of p that nothing crosses settles the matter, and so does a restart. A removal
that finds no row settles nothing (`main.py:809`). None of the conditions of `Crossed`
can be spared: without any one of them TLC refutes the property.
`ConnectionIsWhole` has the condition `~failed`, because memory is written before the
rows: after a failed statement the two legitimately differ until the next load.
`SavedIsFound` excludes datastores that a removal overlaps. Deadlock cannot occur: an
empty slot always takes a request. No fairness and no liveness: a request waits for
nothing but the database and one HTTP call.

What concurrency breaks was found with the same properties and larger bounds, and
contradicts comments of the code:

* with two slots, a hydration that has read the rows puts back into the cache what a
  removal has popped since ("updated write-through by the routes", `user_state.py`);
* with two processes, `connect` saves the token in the memory of its own process over
  a newer one that another process has committed;
* hydrating again heals nothing, since it returns at once ("callers can re-trigger
  hydrate if they suspect the cache is stale", `user_state.py:169-170`);
* `delete_datastore` leaves the cache entry when another replica deleted the row
  ("Postgres + cache", `main.py:802`, against the condition at `main.py:809`);
* a blank API host means no host, not the saved one, in a process that has not
  hydrated ("saved/default", `main.py:305`), and the token is then saved beside a
  host it was not checked with; `user_solo` therefore has no blank host.

## 6. FilespaceLists

The lists a process keeps for a user. `session` holds the account in use, the
filespaces, the data stores listed and the selected name; `exists` are the data stores
in LucidLink. Requests share `session` and nothing locks it; a coroutine is cut at
every await, and the loops over data stores await once per entry. `req` holds each
request's form and locals; its `space` and `name` are the `filespace_id` and
`filespace_name` it passes on. `blurred`, and `wrote`, `overtaken`, `sound` and `start` of
a request, are history.

| Action | Code |
|---|---|
| `LoadFilespaces`, `FilespacesListed`, `Saved` | `load_filespaces` |
| `LoadDatastores`, `StoresListed`, `Begin`, `Fill`, `Finish`, `Break` | `load_datastores`, the end of `load_filespaces`, and the list that `create_datastore` reloads |
| `CreateDatastore`, `Headed`, `Create`, `Reload`, `Record` | `create_datastore`; `record` is where it saves the credentials, with the name selected when the list is complete, `noted` where cache and log have the name selected after the commit (`Naming`) |
| `DeleteDatastore`, `Delete`, `Unlist`, `Unsave` | `delete_datastore` |
| `Ask`, `Save` | the form for credentials, and `save_datastore_credentials` |
| `OpenPage`, `Show`, `Reply` | the templates that go through the dictionary with a query per entry |
| `NotDeleted`, `Refuse`, `Hydrate`, `Restart` | LucidLink says no; `UserState` changes the account in memory; a process is replaced |

Python's dictionaries matter and are modelled: a loop over one breaks if it changes
size, goes on over the old one if it is replaced, and an entry keeps its place when its
value changes. Abstractions: one process and one user (other processes have lists of
their own); hydration may happen at any time; a filespace has one name, unique in its
account, and a data store one, unique in its filespace, but not across them; entries
of a list are taken in any order; one step per data store even where the code skips the
query of a new one; `list_datastores` answering with an error is an empty list.

`lists` has 2 slots, 2 accounts, 3 filespaces and 3 data stores: one account's
filespaces, another's of the same name, and data stores that share a name. Two slots
are a load and whatever overlaps it; slots are symmetric. Deadlock cannot occur, and no
fairness is assumed.

`ListFollowsSelection` has the condition `~blurred`, because the code does not promise
more: two loads that overlap mix two filespaces in one list, and a load that fails
midway leaves a new list under the old selection. The property says that the next load
that runs by itself repairs both.

`CredentialsNameTheirFilespace` claims two things of different strength, as the code does.
The id that `create_datastore` saves is a local taken before its awaits, and right
whatever happens meanwhile. The name is read from the session after them, twice: it is
right if no other request overtook the creation, and a form holds id and name of one
moment. Without the condition TLC refutes the property: a load of another filespace ends
while LucidLink answers, and the data store made in the one filespace is saved
(`main.py:965`), cached (`main.py:978`) and logged (`main.py:992`, "Created DataStore ...
in filespace ...") under the name of the other. So the property says where the name can
be trusted, not that it is always right.

Reachable as well: `delete_datastore` removes from the list by name, of whichever
filespace is listed by then; switching to an account whose filespace has the same name
changes what the selection stands for; an account without filespaces leaves the old
list.

## 7. EnsureStructure

`tree` maps each path to its entry in the filespace (external): an id, and whether it
is a folder. `req` holds the calls of `ensure_structure` at work, with `curr_id`, the
folder they are at and the attempt. `erred` and `disturbed` are history.

| Action | Code |
|---|---|
| `Call`, `ResolveRoot`, `Return` | the beginning and the end of `ensure_structure` |
| `Resolve`, `ResolveFails` | `get_id_by_path` |
| `Create`, `Conflict`, `CreateFails` | `create_folder`: made, `CONFLICT`, an error (which may hide a success) |
| `RemoveEntry`, `Occupy` | other users of the filespace, who also put files where folders should be |

`structure` has two callers and three keys whose folders overlap and share a name, so
that a folder under a mistaken parent would show; 3 ids, 3 attempts as in the code. `WF`
of each caller's steps: the event loop, and a timeout on each HTTP call. No symmetry
under liveness.

The code takes what a path resolves to for a folder, even a file; does not resolve a
parent again after someone removed it; and fails with an empty `last_error` after three
conflicts. `AnswersAreTrue` therefore excuses calls that an error or a removal hit, and
no others. The worker only logs a failure of `ensure_structure` and imports anyway
(`ImportJobs` lets such an import fail).

## 8. QueueProvisioning

`existing`, `allowed` and `config` are SQS and S3: queues, their policies, and per bucket
one notification configuration that can only be replaced as a whole. `rows` and `keys`
are `sqs_queues` and `sqs_credentials`. `req` holds the requests; `rivals` is history.

| Action | Code |
|---|---|
| `Add`, `Keys`, `Store`, `Insert` | `add_sqs_queue`, in its two modes |
| `Remove`, `Find`, `Keys`, `Store`, `Erase` | `delete_sqs_queue` |
| `CreateQueue`, `DescribeQueue`, `ConfigureQueue` | `create_queue` and the calls it is made of |
| `Fetch`, `PutConfig`, `ConfigFails` | the get and the put of `configure_s3_notification` and `remove_s3_notification` |
| `DropQueue`, `DropFails` | `delete_queue` |
| `SaveKeys`, `DeleteKeys`, `Fail`, `Reply`, `Restart` | the credentials' routes; a statement or an AWS call raises; the answer; a process is replaced |

boto3 is synchronous: between the first and the last AWS call of a chain a coroutine
never lets another one of its process run (`HasLoop`), so the read-modify-write of a
configuration is atomic in a process and only there. Abstractions: one user, one region;
whether data store credentials are found is a free choice (`UserState` owns them); of
SQS credentials only the presence counts; errors that are not `ClientError` end the
request.

`provisioning` has 2 processes, 2 slots, 2 names, 1 bucket, 1 row: two requests in one
process or in two, over one configuration, where a row id is used again. All but the
bucket and the data store are symmetric. Deadlock cannot occur; no fairness.

Every property excepts requests that another process overlapped (`rivals`): then an
entry really is lost, in the time between a get and a put. Reachable too, without a run:
two first saves of the credentials leave two rows ("one row per user", `main.py:1831`;
"a single fresh row", `datastore.py:153`); a queue is logged as "fully deleted"
(`main.py:2245`) when its clean-up was skipped for want of credentials; two rows may name
one queue; a failed insert leaves the queue in AWS. Certain, in one process: a put drops
the bucket's EventBridge configuration, which is an empty object and tests false
(`sqs_service.py:111`, under "preserve other notification types").

## 9. AuthSessions

`users` and `sessions` are the tables, a session that is revoked, expired or deleted
being `None`; `boot` is how far each process is in `ensure_admin_exists`. `req` holds the
requests. `crossed`, and `late` of a login, are history.

| Action | Code |
|---|---|
| `Count`, `CreateAdmin`, `StartFails`, `Restart` | `ensure_admin_exists` at start-up |
| `Login`, `Lookup`, `Refresh`, `OpenSession` | `authenticate_user`, `create_access_token` |
| `Register`, `Invite`, `Unused`, `InsertAnonymous`, `Insert` | the two ways an account is made, with the unique address |
| `ChangePassword`, `Verify`, `Repass`, `CommitPassword` | `change_password` |
| `ChangeRole`, `LoadRole`, `ApplyRole`, `CommitRole`, `CommitRoleOnly` | `change_user_role`: a row is written only if the role differs from the one loaded |
| `DeleteUser`, `Erase` | `delete_user`, with its sessions (`ON DELETE CASCADE`) |
| `Logout`, `LogoutEverywhere`, `Expire`, `Refuse` | how sessions end; a request is refused |

An `UPDATE` locks its row until the commit (`Locked`), which is what makes two changes of
one account come one after the other. The check of the middleware is subsumed by the
route's own. Hashing and the strength of passwords are inputs; ids are used again only
when no request remembers them, as a uuid is.

`accounts` has 2 processes that start together, 2 slots, 2 users, 1 active session, 2
addresses, 2 passwords: an admin and another, or two admins; more sessions only repeat
the one, since every revocation is by user. Everything but the addresses is symmetric.
Deadlock cannot occur; no fairness.

The exceptions are in the properties: a login that verified a password before a change
of the account and stores its session after it keeps a token that no longer tells the
truth (`late`); two admins who take each other's role at once leave nobody (`crossed`),
since the routes ask the token and forbid it only to oneself. The temporary password of an
invitation may fail the strength test that every other password passes; passwords being
inputs here, no property is about it.

## 10. Runs and bounds at a glance

| Run | Module | Expected | Distinct states, about |
|---|---|---|---|
| `delivery` | `MCImportJobs` | holds | 392,196 |
| `stale` | `MCImportJobs` | violation of `StaleRunningIsTimedOut` | 3,220 |
| `cancel` | `MCImportJobs` | violation of `CancelIsFinal` | 84 |
| `poll_redelivery` | `MCSqsPoller` | holds | 786,290 |
| `poll_live` | `MCSqsPoller` | holds | 403,572 |
| `poll_lost` | `MCSqsPoller` | violation of `DeletedEventsAreSettled` | 13,984 |
| `user_solo` | `MCUserState` | holds | 714,768 |
| `user_replicas` | `MCUserState` | holds | 998,652 |
| `provisioning` | `MCQueueProvisioning` | holds | 2,058,782 |
| `accounts` | `MCAuthSessions` | holds | 1,926,830 |
| `structure` | `MCEnsureStructure` | holds | 236,485 |
| `lists` | `MCFilespaceLists` | holds | 2,761,408 |

The bounds of each run are given with its module. In general: two slots or sweeps show
every interleaving of a pair, three are taken where a third party matters (`delivery`:
a holder, a redelivery, and the redelivery after that); two replicas are a writer and a
reader. Each property of a passing run is accompanied, in its module, by a mutant of
the code: an operator beside the one it changes, under which TLC finds the property
violated. Three runs expect a violation; each is a disagreement between a comment and
the code, listed under "findings".

## 11. Proofs

All proofs hold for any value of the constants that satisfies the module's `ASSUME`.

`ImportJobsProofs` (any sets of jobs and slots, any bounds):

* `TypeCorrect`: `Spec => []TypeOK`, one lemma per group of actions.
* `RunsAreExclusive`, `RunsAccount`: `SingleRun` and `RunAccounts`. Neither is
  inductive alone (what a run adds to `sent` is bounded by its locals only because
  no other slot is in the body of the same job), so the invariant is
  `RunInv == TypeOK /\ SingleRun /\ RunAccounts`.
* `ImplementsIngestOnce`: under the refinement mapping `phase <- Phase` every step
  is a step of `IngestOnce` or a stutter, from `RunInv`.

`ImportJobsRowProofs`, on top of `RunInv`, with `RowInv`: per job what its row, its
claim and the log say of each other (`JobOK`), per slot what a run knows of its row
(`SlotOK`). The heart is that the counts in the row are the ones the run last saved, at
each label, because only the run writes them; and that a row it has loaded can only
have been cancelled or removed since.

* `CompletedAccounts`, `ReportsAgree`, `RunningOwned`: the three invariants of the row.
* `PendingOwned`: only `add_job` makes a row pending (`PendingRows`), a slot that
  returns has seen a claim and one past its start finds no pending row (`Past`).
* `RemovedRemains`, `SettledIsAlone`, `NoticedCancelStops`: action properties, from
  lemmas on who writes a row (`RowWriters`) and who sends files (`Senders`).

`SqsPollerProofs` (any queues, messages, objects, sweeps and contents):

* `TypeCorrect`: with `Placed(s)`, which says that a step of `process_s3_event` has
  its message, its event and its row. It needs `RowsGrow`: rows are marked removed,
  never renumbered.
* `HolderPolls`, `SweepsAreExclusive`: `OnlyHolderPolls` is inductive; that no sweep
  is late before one overruns gives the exclusion.
* `RecordedFirst`: an object of the message in hand is recorded or still ahead
  (`SweepAccounts`), and nothing is ahead when `delete_message` is called.
* `ImportsOnce`: `First(s)` says that a sweep about to insert an event found no row
  of it, and one about to import for a row that is there is the first to. It
  survives the steps of others because, before an overrun, there are none.
* `VerdictsAreTrue`: a success exists only between `import_file` and its row, with the
  object linked (`Truthful`).
* `VerdictsAreFinal`: the row a sweep has in hand has no verdict (`Undecided`) and no
  other sweep has it (`Apart`): each works on the row it appended itself, also when
  sweeps overlap.
* `UnsettledOwned`: over the rows a sweep has in hand, that the messages of its turn are
  those of its queue (`AtHome`) and that a deleted queue has no row without a verdict
  (`NoOrphans`): so the except branch that finds a row to fail can write beside it.
* `DeletedSettledUnlessCut`: from it, what `poll_lost` refutes holds of every event that no
  sweep was interrupted at: a row off hand is settled, removed, or has a failure after it.
* `ImplementsEventLedger`: `RecordedBeforeDeleted`, true and final verdicts, and
  `Stage(s)`, what the row in hand says at each label; then one lemma per action that
  writes the row, the filespace or the messages (`BeginRefines`, ...), the rest being
  stutters.

`UserStateProofs` (any processes, slots, datastores, records, tokens and hosts):

* `TypeCorrect`: `Fits` says of which kind a query's result is at the label that uses
  it; the token and the host of `hydrate` share a local.
* `OnlyCommittedCached`: what feeds a cache is a row, a snapshot of rows or a save
  that is committed (`SavedInv`).
* `SavedFound`: a hydration that overlaps a save either read the row or leaves the
  entry the save made (`KnownRequest`); a removal in progress keeps its datastore out
  of `clean`; and a hydrated process has everything it knows (`KnownIsServed`).
* `CacheFollows`: at a data store that is not disputed, the cache follows the table or
  a request is about to bring it there, and what the requests of the process have read
  or written of it is still in the table (`InStep`). `FollowWrite` is the step that
  matters, a row that changes; `CacheFollowsTable` is the case of one process and one
  slot (`Solo`), where nothing is ever disputed: between requests the caches are the
  table (`QuietCacheIsTable`).
* `ConnectionWhole`: with one process and one slot (without `Solo` it is false) and a
  host in every form (`HostsNamed`). `ConnInv`: memory and rows agree but during a load.

`FilespaceListsProofs` (any finite set of data stores, any slots, accounts and
filespaces): `ListsInStep`, `CredentialsAtHome`, `PagesWhole`, from one invariant `Inv`:
names are distinct among the filespaces and the data stores listed; the list is within
the selection's while nobody is changing it (`Follows`); each request knows where its data
store is, that what it chose is still selected if nobody overtook it (`Choice`), and
whether its page still shows the session's dictionary. Counting the entries
of a page needs the set to be finite, hence the assumption.

`EnsureStructureProofs`: `AnswersTrue`, `CreatesInPlace`. An id belongs to one path
(`UniqueIds`), and an undisturbed call holds the id of the folder it is at, with all
above it in place.

`QueueProvisioningProofs`: `CreationDelivers`, `DeletionCleans`, `EntriesKept`. Between a
get and a put, what a request has seen is what the configuration is, unless it has a rival
in another process (`Fresh`); inside a process `HasLoop` excludes one.

`AuthSessionsProofs`: `SessionsTrue`, `AdminStays`. A session tells what its user's row
tells, or is late (`Told`); so does a verified login (`Verified`); a lock on a row keeps it
as it was loaded until the commit (`Held`); while there are users one is an admin unless
admins crossed (`Governed`).

Only model-checked: liveness (`EveryDeliveryEnds`, `UninterruptedRunSettles`,
`EverySweepEnds`, `ActiveQueueHasItsTurn`, `EveryCallReturns`), which is beyond the
prover. The violated properties are not theorems. Each inductive invariant was checked
by TLC on the instance of its run before it was proved.

## 12. Not modelled

* Log stream: an open stream keeps an index into a list that is trimmed to 500 lines
  (`user_state.py:225`, `main.py:1357`). Once the list is full its length no longer grows
  and the stream goes silent; below that, lines logged while the stream yields are
  skipped. Both are certain and sequential, so there is nothing to explore.
* Activity logger: rows are inserted by tasks that nobody awaits; at shutdown they race
  the disposal of the engine and some are lost. Nothing reads them but the page that
  lists them.
* Secrets: nothing calls the writers of the file any more; `UserState` starts from an
  empty one, which is what an installation without that file has.
* Drain: on SIGTERM the code sets the flag and sleeps for `GRACEFUL_DRAIN_SECONDS` while
  uvicorn closes its sockets; which of them comes first is uvicorn's choice. What a kill or
  a SIGTERM does to work in flight is in `ImportJobs` and `SqsPoller`.
* Rendering and request parsing, S3 reads, logging and metrics plumbing, connection
  factories, the bootstrap installer, and the Terraform and shell deployment files.
