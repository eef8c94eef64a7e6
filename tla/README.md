# Verification of the web-browser agent service

TLA+ modules, TLC configurations and TLAPS proofs about the program in `src/`:
an HTTP API (`ai_tool_web/api`) that turns a request into a *session*, Redis as
queue, state store and event channel, browser workers (`ai_tool_web/worker`)
that run sessions, the agent library (`LLM_base`) that drives the browser, and
the store of the users' scenarios.

1. [Inventory](#1-inventory) 2. [Modules](#2-modules-and-the-code)
3. [Runs](#3-runs) 4. [Findings](#4-findings) 5. [Proofs](#5-proofs)
6. [Limits](#6-what-is-only-model-checked-and-what-is-not-modelled)
7. [Plan](#7-plan) 8. [Running it](#8-running-it)

## 1. Inventory

How a session goes: `POST /v1/sessions` (or `/v1/tasks/{id}/run`) picks a
scenario, numbers the task's iteration, cancels earlier iterations, writes
`session:{id}` with status `queued` and RPUSHes `pending_jobs`. A worker BLPOPs
it, takes `lock:session:{id}`, writes `assigned` and runs `run_job_sync` in a
thread: `running`, then per record of the generator `run_scenario` a `step` event, an `ask` (status
`waiting_for_user` and a BLPOP of `resume:{id}`) or an ending. The generator is a
YAML flow or an LLM agent, and the captcha solver is an action of the flow. The
client follows `GET .../stream` (SSE) or gets callbacks, then reads
`GET .../result`. `recovery_loop` in the API looks every 30 s for sessions whose
worker's registry key is gone. Users' scenarios live in SQLite or MySQL;
publishing copies one to Redis, where sessions get it from.

| component | state | hard behaviour | what makes it correct | module |
|---|---|---|---|---|
| job queue, lock, worker main loop (`worker/browser_worker.py`, `store/job_queue.py`) | `pending_jobs`, `lock:session:{id}`, the loop's position | every await is an interleaving point; crash between any two commands; lock expiry; an upload that blocks the event loop | one worker per session; a lock is never renewed or deleted by another worker | JobDispatch |
| worker registry, heartbeat (`store/worker_registry.py`, `worker/heartbeat.py`) | `worker:{id}` with TTL 30 s | read-then-write races with the main loop; expiry | a worker's key expires only when it is dead or its event loop hangs | JobDispatch |
| recovery loop (`api/recovery.py`) | what it read of one session | stale reads, restart between hash and queue | no session taken from a live worker; every orphan handled | JobDispatch, JobRun |
| run of a session (`worker/job_handler.py`) | status, result file, generator | cancel/answer/kill races, timeout, crash between event and status | one verdict; event, status and result agree; a cancel takes effect; runs end | JobRun |
| session store (`store/session_store.py`) | `session:{id}` hash | unconditional writes | status follows the lifecycle | JobRun, SessionLifecycle |
| event store and SSE (`store/event_store.py`, `api/sse_stream.py`, `routes/stream.py`) | sequence, channel, 50-entry buffer | subscription races, reconnection, trimming, publisher death | order, no duplicates, nothing lost, the stream ends | EventStream |
| cancel, resume, reset, kill-all routes | — (write the hash, `resume:{id}`, the queue) | decisions on an earlier read | as for the run | JobRun, JobDispatch |
| creation of a session, task routes (`routes/sessions.py`, `routes/tasks.py`) | `task:{id}:counter` | overlapping POSTs; stale listings; the counter's expiry | unique iterations while the counter lives; earlier iterations end; the cancel hits the latest | TaskIterations |
| callback delivery, result and uploads (`services/callback_service.py`, `services/session_persist.py`, `routes/result.py`) | attempts, threads, three places of the result | POSTs lost, late, twice; failed writes; lost answers of uploads; the next day | the end is told last; what was told can be read | Delivery |
| flow runner and actions (`scenarios/flow_runner.py`, `scenarios/actions/`) | step, branch stack, attempts, cached snapshot | ends several levels down; references of an older page; looks that err | one stream of records; a failure is told; no reference of a page the step's own actions left | FlowRun |
| captcha (`scenarios/actions/solve_captcha.py`) | image files, code, answer of the user | the image changes under it; a verdict read off the page's texts; rerolls; hand-over to the user | a code of the image on the page; a user's code is submitted once, as a code of the user's | Captcha |
| agent runner (`runner.py`) | step, retry, guard history | a decision refused, decided again by vision | acts on what it saw; ends | AgentRun |
| generic runner (`scenarios/generic_runner.py`) | proxy and domains of the adapter, hooks | closed, raised or ended at any point | settings restored; one stream of records | ScenarioRun |
| browser of a worker (`browser_adapter.py`, downloads of `upload_download.py`, reports) | Chromium, overrides, `/root/Downloads`, run directories | a browser outlives job and process; workers of a host share files; a report that cannot be copied | own proxy, no other session's state, own files | WorkerHost |
| user scenarios and seeding (`services/user_scenario_service.py`, `store/*_scenario_repo.py`, `services/builtin_seeder.py`) | definitions, revisions, published pointer, Redis copy | check-then-insert; one SQLite connection for all; API processes; crash | dense versions; what was answered is on disk; Redis has valid, durable revisions | ScenarioStore |
| YAML normaliser, input validation, generation by LLM, matcher, log buffer, auth, read-only routes, legacy API | stateless, text, or read by nobody | — | — | none (section 6) |

The parts meet in few places: through Redis (the status, `resume:{id}`, the
queue, events), through the generator between `run_job_sync` and `run_scenario`,
and through the adapter's overrides and the host's files. So an atomic step of a
model is one Redis command, one SQL statement, one attempt of a POST, one call of
the adapter, or a local decision directly after one.

`PROJECT.json` lists the components with their files, and the hazards, each at
its line with the properties that watch it.

## 2. Modules and the code

**JobDispatch** — queue, lock, main loop, heartbeat, recovery loop, kill-all.
`queue`, `status`, `assignee`, `lockTtl/lockOwner`, `regTtl/regCur` and `flag`
are the Redis keys with what is left of their TTLs; `pc/job` is `main()`'s
position, `hb*` the heartbeat task's, `rec*` the recovery loop's locals, `kill*`
the kill-all handler's. Actions are named for the step they take: `Pop`,
`TakeLock`/`SkipLocked` (SET NX), `MarkBusy`, `Assign`, `Begin`, `Finish`,
`JobRaises`, `Unlock`, `MarkIdle`; `HbRead`, `HbWriteIdle/Busy`, `HbRenew`;
`RecWake`, `RecRead`, `RecAlive`/`RecOrphan` (EXISTS), `RecRequeue`, `RecPush`,
`RecFail`. Workers crash and start again under the same id; the API crashes with
all that its handlers had in progress. Faults are bounded by `MaxFaults`. `running` and `waiting_for_user` are one
status here, and the four verdicts are `done`: JobRun tells them apart.

*Time.* One tick is `LOCK_RENEW_S` = 15 s, and TTLs and sleeps are constants in
ticks. A `Tick` passes when every worker is `Quiet`: asleep, idle or inside the
job; a chain of Redis commands between two sleeps takes less than a tick. A `Hang`
is a tick that passes while some worker is in the middle of a chain, since its
event loop is `Blocked`: `_log_upload_loop` and the log upload around a job call
`requests.post` with a timeout of 15 s for the connection and again for the answer
on the loop, and for that long neither the heartbeat nor the main loop of that
process goes on. Its key may expire, and recovery then takes the session of a
worker that lives: `find_dead`'s "Since key TTL=30s and we refresh every 15s, an
expired key means dead worker" (`worker_registry.py:79`) is not so. `hung` remembers
the sessions that a hanging worker had (`InHands`), and the three safety properties
speak of the others, `Sound`: one worker's hanging costs it its own session and
disturbs no other's. A Redis that refuses commands, and a pause of the API process
between two commands, are outside the model.

**JobRun** — one session after the lock: the thread of `run_job_sync` against
cancel (also reset and the sweep of a new iteration, which do the same to one
session), resume, kill-all, the death of the worker and recovery. The agent is a
nondeterministic generator: it yields steps, questions or an end, raises, or
stops. The ask timeout may fire whenever the list is empty in SSE mode and never
in callback mode. Another worker may take a session that recovery queued again, and
need not: its lock may still stand. `result` is what `result.json` says; persisting it may fail.

**SessionLifecycle** — what a poller of the status may rely on. JobRun implements
it (`LifecycleHolds`, refinement `state <- status`) until a kill-all reads the
session: kill-all writes `cancelled` over a session whose thread then writes its
own verdict, so a terminal status can change. The arrow waiting → done is the
`confirm_done` answer.

**EventStream** — `push_event_*` as its five commands, the channel as one queue
per subscribed client, `subscribe_async` (SUBSCRIBE, then LRANGE, then replay,
then live, deduplicated by id) and clients that drop and reconnect. Recovery is
the second publisher, after the worker has died in any state.

**TaskIterations** — `create_session` from the capacity check to the push, with
the choice of the scenario as `Prepare`, `_next_iteration`, and
`_cancel_prev_iterations` read session by session; workers reduced to what JobRun
shows of a run; callers of the task's cancel (`all` or latest) and resume routes
with their listing read hash by hash. The counter may expire (`CounterExpires`):
its 24 h are renewed by a POST only, those of a session's hash by every update, so
a session outlives the counter that numbered it and INCR gives 1 again; `life` is
the number of expiries a POST drew its number after. The POSTs of `Callback` have a
`callback_url`, and no ask of theirs times out. A worker may die with its session,
which recovery queues again (`Requeue`, to be skipped for its old lock or taken) or
fails (`Lost`), or never sees; no other worker takes the dead one's place.

**Generator, FlowRun, Captcha, AgentRun, ScenarioRun, RecordStream** — one
composition: `run_scenario` and all it calls, on the worker's side of the
generator. *Generator* has the shared state (`gen`: new, running, suspended, and
how it ended; `pc`: where it goes on; the adapter's settings) and no behaviour;
*FlowRun*, *Captcha* and *AgentRun* each add their variables and actions on it;
*ScenarioRun* adds the generic runner and puts the disjuncts together, each
engine leaving the others' variables alone. In FlowRun `frames` is the call
stack: the steps still to do at each nesting level, which `_run_steps` has on
Python's. Pages load, redirect and change at any time, so what a look at the browser
finds (`Looks`: a snapshot, a text, an element) is any page, or an error, which the
code swallows: a rule or an `if_visible` whose look failed is one that is not met.
`snap` is the page the cached snapshot is of and `age` its place among the flow's
own actions: *fresh*, made after the last of them that acted on the page; *stale*,
made before it; *kept*, stale where the capture after the step, which should have
renewed it, failed. A page that changes by itself leaves a fresh snapshot fresh, for
nothing in the code could know; a `wait_for` without a target (`Sleep`) only sleeps
and changes neither. A step knows the pages where its target is found once (`one`)
or several times (`many`), and `Steps` is every step of the scenarios at any depth.
`acted` is the age of the snapshot that the reference in use was looked up in. A
rule is the kinds of its conditions, each of which may come out either way; the
empty rule never holds. `clear` remembers that the failure rules were looked at
after the last step began and none was met. In Captcha the verdict after a
submission is read off texts of the page and may be anything, whatever the site
decided. `files` maps an attempt's file name to the image it was written from, which
is the detail the finding rests on; `code` and `answer` remember the image they were
read of, and `typed` that the user's last code was not submitted yet. The LLM, the
page and the user are nondeterministic: a decision, an answer or a page may be
anything at any time.

*RecordStream* is the abstract specification: records with growing numbers, at
most one `done` and nothing after it, except that the record which tells why a
step failed repeats the step's number; then an end, an exception, or a close.
A hook after the last step (`final_capture`, or `post_step` itself) may yield that
`done` again, with the same number. ScenarioRun implements it (`IsRecordStream`).
`GenYields`, `GenRaises` and `GenStops` of JobRun are that stream seen from the other
side, so the two models meet in it.

**WorkerHost** — the workers of one host over several sessions: the daemon's
Chromium with the proxy it was launched with and the sessions that have used it,
the process's override, the recycling in `open_url` and the close after a job,
which may fail; the downloads directory all workers share with the look-back of
`_wait_for_new_file`, the extensions a session asks for, incomplete files, and the
cleanup, which deletes one file at a time while others arrive. A candidate is chosen
(`Choose`), watched for a second by `_is_stable`, and returned (`Return`) under the
name it had, which may by then be another worker's file, deleted, or one that a
rename put there; `picked` is that name. The run directories are named by the
second, and the report is found in them (`FindJson`) and read a second time to be
copied (`CopyJson`); either may fail. A crash leaves the browser.

**ScenarioStore** — `UserScenarioService` statement by statement over either
repository. In SQLite all requests share one connection, hence one transaction:
`tx` is its state, `defs/revs` what every request reads, `disk` what a crash
leaves, and `db.commit()` commits whatever is pending, of whomever. In MySQL each
request is of an API process of its own: statements autocommit, `append_revision`
is a transaction whose row the others see at COMMIT, and a second INSERT of the
same version waits for the first. `lock` is `_tx_lock`, one per process. `cache`
is the Redis copy. Boot seeds the builtin scenario if there is none.

**Delivery** — a session in callback mode after JobRun's decisions: POSTs that
arrive and fail, fail, or time out and arrive later (`late`); steps in threads of
their own, questions and ends in the job's thread; then status, `session.jsonl` (whose failed
write is swallowed and leaves a part of it), `result.json`, its upload with a lost
request or a lost answer, the recorded url; and `GET /result`'s three places.
Without the session's directory nothing is kept and the session ends all the same.

Definitions that follow a `mutant` comment are plausible bugs of the definition
below them; `PROJECT.json` pairs each with the property it must break, which is
how we know that the property depends on the code it is about.

## 3. Runs

| run | instance | distinct states | shows |
|---|---|---|---|
| JobDispatch | 2 workers, 2 sessions, 1 fault anywhere (crash of a worker or the API, or a hang of an event loop), symmetry | 3,017,510 | `OneHolder`, `NoLiveSessionRecovered`, `LockOwnership` |
| JobDispatchLive | 1 worker, 1 session, 2 faults, 1 kill-all with emergency exit, fairness | 140,987 | `OrphanRunEnds`: the session of a dead worker gets a terminal status unless a worker of that id comes back first, or the dead one had hung |
| JobRun | 1 cancel, 1 answer, 1 kill-all, 1 crash, 3 records, both modes, fairness | 172,389 | `OneVerdict`, `ResultIsAnnounced`, `WaitingCancelArrives`, `OneStepAfterCancel`, `SseRunEnds`, and that the run implements `SessionLifecycle` |
| EventStream | 4 events, buffer of 2, 1 client, 2 publisher deaths, 1 dropped connection, fairness | 52,130 | `InOrder`, `SubscriberMissesNothing`, `LateStreamEnds` |
| TaskIterations | 2 POSTs of which 1 with a callback, 1 caller, capacity 1, 2 workers, 1 step, 1 fault (a worker's death or the counter's expiry), fairness | 1,433,733 | `UniqueIteration`, `EarlierIsCancelled`, `CancelHitsLatest`, `EarlierEnds` |
| ScenarioRun | 20 scenarios, 3 pages, 2 captcha images, 2 OCR attempts, 1 vision call, an agent of 3 steps and 2 retries with 2 references, fairness | 247,105 | `RefsAreFresh`, `FailureIsTold`, `ActsOnSeen`, `TypedCodeOnce`, `ScopeRestored`, `RunEnds`, and that the composition implements `RecordStream` |
| WorkerHost | 2 workers, 2 sessions of which 1 with a proxy, 2 extensions, 1 session that asks for one of them and 1 for any, 1 crash | 617,965 | `ProxyIsOwn`, `NoForeignState`, `OwnDownloadWins`, `PublishedIsOwn` |
| ScenarioStore | both repositories, 2 requests, 1 user who is an admin, 1 name beside the builtin scenario, 2 YAMLs of which 1 fails validation, quota 1, 2 revisions, 1 crash, symmetry | 809,165 | `VersionsAreDense`, `ToldIsDurable`, `CacheIsDurable` |
| Delivery | 2 records, 2 attempts per POST, fairness | 1,088,920 | `NoAskAfterEnd`, `DoneHasResult` |
| JobDispatchRestart, ScenarioRunStale, ScenarioStoreCommit | as above, smaller | — | each refutes what a comment or test says; see Findings |

The passing runs of JobDispatch, JobRun, EventStream, TaskIterations, ScenarioRun,
WorkerHost and ScenarioStore check the module's `TypeOK` as well. Delivery has no
type invariant of its own: what its proof needs of types is in `DeliveryInv` and
`EndingInv`.

*Bounds and why they do.* Two workers are the least that can contend for a lock,
take over a requeued session, restart beside another or share a host's files.
TTLs keep the code's ratios (15 : 30 : 45 : 60 s = 1 : 2 : 3 : 4; recovery 2).
Three records of JobRun let a question come before, between and after steps, and
let a second question follow an answered one. The buffer of 2 under 4 events makes
trimming happen with the terminal event inside, after, and during it; two deaths
let recovery die as well. One POST's sweep against another's creation needs two
POSTs; a capacity of 1 makes refusal happen. The scenarios of ScenarioRun hold
each action at least once, a branch within a branch, retries, both kinds of rule,
a captcha that ends with the user, and steps whose target is on one page, on
several or on none; a third page distinguishes *somewhere else* from *back*. Two
extensions let a file be newer and of the wrong kind. One fault in TaskIterations
lets the counter expire between the two POSTs, or one of them lose its worker. Two
images are what a change of the captcha needs. The agent's three steps and two
retries let it be refused by each guard and come back through vision. Two
requests and two revisions give each pair of statements of different operations
in each order; more of either repeats them, and the proofs drop the bound. A
second attempt makes POSTs duplicated, overtaken and late.

`CHECK_DEADLOCK FALSE` is set where a finished session, a returned generator, or
a used-up bound leaves nothing to do. JobDispatch never stops and ScenarioStore's
processes go back to serving: both are checked for deadlock.

*Fairness and why the code gives it.* An event loop serves every ready task, so a
handler that has begun goes on, and the heartbeat, the recovery loop and a
woken main loop take their next step (weak fairness of each): a log's POST is
answered or times out. Time passes. The
job's thread runs: its agent calls return (the LLM and browser calls have
timeouts) and the SSE-mode BLPOP has one; a callback's has none, so in TaskIterations
`AskTimeout` is only for sessions without one. The generator runs when it is resumed,
and `run_job_sync` resumes it as long as it yields (`RunEnds` assumes such a
caller; one that closes the generator ends it at once). The worker's thread in
Delivery goes on while it is not waiting. Nothing makes a client send a request or
an answer, a page change, a POST arrive, a dead worker start, or, in JobDispatch,
a job end. In JobRun and TaskIterations nothing makes recovery look before another
worker registers under the dead one's id, nor a session that was queued again be
popped and pass its old lock (the first run of section 4 and the first paragraph
after it show both fail), so what they promise of an end excuses the death of the
session's worker: `SseRunEnds` is of runs whose worker lives, and `EarlierEnds`
excuses the sessions in `crashed` and what waits in the queue after a death. It
also excuses a session with a callback that goes on to a question after the sweep
read it as running, and what waits behind such sessions in the queue while they
hold every worker (`AllHeld`, which two POSTs and two workers do not reach).

## 4. Findings

Each is the result of one violation run; `PROJECT.json` quotes both sides.

* **JobDispatchRestart** (`CrashedRunEnds`) — recovery's rule is that a crashed
  worker's running session fails. The worker manager restarts a worker under its
  old id within 5 s; its key exists again before recovery looks, and the session
  stays `running`.
* **ScenarioRunStale** (`SubmitsLooked`) — the captcha solver looks at the image
  again just before it submits, to read a new one if it has changed. Both looks
  write the file `captcha_src_{step}_{attempt}.png`, so the file is compared with
  itself, the change is never noticed, and the old image's code is submitted.
* **ScenarioStoreCommit** (`FailedIsUnsaved`) — `append_revision` takes a lock
  because all coroutines share one SQLite connection. `create_definition`,
  `archive_definition` and `set_published_revision` commit on that connection
  without the lock and end the other's transaction: its INSERT is then saved at
  once, its COMMIT fails, and the request is answered 500 with its revision saved.

Seen while modelling, in the models unless said otherwise, and not runs of their
own because the code or its documents promise nothing else, or because a run
above stands for the same kind:

*Sessions and workers.* Recovery requeues a dead worker's *assigned* session
while its 60 s lock still stands; the worker that pops it skips it ("already
locked", which DEPLOY.md calls benign), and the session is `queued`, in no queue,
for good. A death between the hash and the push, or between the pop and
`assigned_worker`, ends the same way. The heartbeat writes back the
`current_session` it read before the main loop's write, so the record of a busy
worker may say idle and its lock run out unrenewed; `OneHolder` does not rest on
the lock. A cancel that reads `running` sends no message: a worker that has
passed its flag check goes on to the next question and waits, in callback mode
without a timeout and for ever if nobody answers: TaskIterations has this for a new
iteration's sweep too. When the counter of a task has expired under a session that
lives, the next POST is iteration 1 again, and "latest" is then the older one; the
comment at `sessions.py:29-30` says that the counter is kept longer than a session,
both are kept 24 h. The log upload on the event loop can cost a live worker its key
and its session (section 2, *Time*). A generator that just stops, as the agent does at `max_steps`,
makes a session `done` with no terminal event, callback or result. Two
overlapping POSTs of a task may both be live.

*Events.* PUBLISH comes before RPUSH: a client that subscribes and reads the
buffer in between gets the event neither way. An event trimmed between a client's
SUBSCRIBE and its LRANGE is in its live channel, but the replay's newer ids come
first and deduplication drops it; `SubscriberMissesNothing` speaks of events still
in the buffer.

*Callbacks and results.* The terminal callback carries the address of the result
before the status is written: a supervisor that asks at once gets 404.
`result.py` takes an empty `result_path` for the current directory, which exists,
so the conventional local path is never tried. Recovery tells Redis of a failed
session but calls no supervisor back. A failed write of `session.jsonl` is swallowed,
so a result can be served over a log without its end. Not in a model: `_rename_for_upload` renames
the local screenshot before its upload, and `log_service` clears its buffer also
when the upload returned nothing.

*Scenarios that run.* A rule or an `if_visible` whose look at the browser fails is
one that is not met, so a failure rule that is true of the page can be missed and the
flow end in success. `extract_data` without a cached snapshot calls `snapshot()` of
`browser_adapter`, which has no such function (`extract_data.py:80`): a retry, which
starts without a snapshot, always fails. A `manual_only` captcha step whose code was
refused is ok on its retry, because the code is gone by then
(`solve_captcha.py:192-235`). `post_step` decides before the question of its step is
answered. `fetch_to_cdn` followed by `extract_data` loses the link of the first.
A `manual_only` captcha without an answer does nothing and is ok, in manual
mode a page that shows neither success nor error counts as solved, and in any mode
a page that refused the code but has a success text counts as solved too. The agent's
trace is not written when it is closed or raises. Not in a model:
`vision_matcher.py` tests a reference with a substring, so e1 passes where e12 is
meant; the question for a missing input is put before its first use only, which
may be in a branch that is not taken.

*A host.* `start_worker.sh` runs several workers, `upload_download.py` calls its
cleanup safe because a worker has one thread; the downloads directory is shared,
so a session without a file of its own yet can take, and cleanup delete, another's;
`OwnDownloadWins` speaks only of a session whose own complete file is there, with an
extension it asks for, and not of a rename that puts another file under the name it
had chosen. A report that cannot be read or uploaded is missing without a trace in
the result, which `PublishedIsOwn` allows: what is published is the session's own.
Sessions that share a run directory (started in one second) may publish each
other's. Only the newest 50 `session.json` are looked at.

*Scenario store.* Quota, id and "no change" are checked some awaits before the
insert: two requests pass the same check, so the quota is exceeded and equal
revisions are stored. A crash leaves a definition without a revision. Publishing
does not ask whether the revision passed validation: the database points to it,
and the request fails when Redis refuses it; two crossing publishes leave the
database with one revision and Redis with the other. An archived scenario stays
in Redis, and another user's cloned scenario may be cloned.

## 5. Proofs

Eight modules, checked by `tlapm` to the last leaf, for every value of the
constants.

| module | theorem | says |
|---|---|---|
| JobDispatch_proofs | `TypeCorrect`, `Inductive` | `TypeOK`; the invariant `IInv` below |
| | `OneHolderAlways` | no two workers have the same session in hand, if no worker that had it hung |
| | `RecoverySafe` | recovery requeues or fails no session that a worker holds, with the same exception |
| | `LockIsOwn` | past the lock, a worker's lock is its own or has expired, with the same exception |
| | `BegunIsNotRequeued` | a session whose job has begun is never queued or assigned again, with the same exception |
| | `OrphanStays` | the session of a worker that died running it stays that worker's until it is failed, cancelled, or the id registers again, with the same exception: the safety half of `OrphanRunEnds` |
| JobRun_proofs | `TypeCorrect` | `TypeOK` |
| | `VerdictIsLast`, `ResultAgrees` | `OneVerdict`, `ResultIsAnnounced` |
| | `CancelArrives` | `WaitingCancelArrives` |
| | `LifecycleImplemented` | JobRun implements `SessionLifecycle` |
| | `CancelStopsAgent` | `OneStepAfterCancel` |
| | `EachStepCounts` | each step of the thread lowers a rank: the safety half of `SseRunEnds` |
| EventStream_proofs | `IdsAreGiven` | `TypeOK` |
| | `ClientsSeeOrder`, `NothingIsMissed` | `InOrder`, `SubscriberMissesNothing` |
| | `LateReaderStops` | a client that comes after the end never waits for live messages: the safety half of `LateStreamEnds` |
| TaskIterations_proofs | `CounterCountsPosts` | `TypeOK`: neither the counter nor a number is ever ahead of the POSTs, however often the counter expires |
| | `IterationsAreUnique`, `EarlierIsTold`, `CancelFindsLatest` | `UniqueIteration`, `EarlierIsCancelled`, `CancelHitsLatest` |
| | `ToldWindsDown` | an iteration that was told to stop has at most the browser step under way left, and waits in the queue again only if its worker dies before it starts it: the safety half of `EarlierEnds` |
| ScenarioRun_proofs | `RunStaysInRange` | `TypeOK` |
| | `StreamImplemented` | ScenarioRun implements `RecordStream` |
| | `ReferencesStayFresh`, `AgentActsOnSeen`, `SettingsRestored`, `FailuresTold`, `TypedSubmittedOnce` | `RefsAreFresh`, `ActsOnSeen`, `ScopeRestored`, `FailureIsTold`, `TypedCodeOnce` |
| WorkerHost_proofs | `HostStaysInRange` | `TypeOK` |
| | `ProxyAlwaysOwn`, `NoStateCarriedOver`, `ReportIsOwn`, `OwnDownloadIsNewer` | `ProxyIsOwn`, `NoForeignState`, `PublishedIsOwn`, `OwnDownloadWins` |
| ScenarioStore_proofs | `StoreStaysInRange` | `TypeOK` |
| | `VersionsStayDense`, `AnswersAreDurable`, `CacheStaysDurable` | `VersionsAreDense`, `ToldIsDurable`, `CacheIsDurable` |
| Delivery_proofs | `EndIsLast` | `NoAskAfterEnd` |
| | `EndHasResult` | when the thread is through with an end that was heard and wrote its result, that is served if the upload server took it, and a log whose write did not fail ends with that end: the safety half of `DoneHasResult` |

*Assumptions.* `DispatchAssumption` (the sentinels are no ids, the bounds are
numbers, the heartbeat period is shorter than the worker key's TTL) and
`StaleScanIsIdle` (the key expires before `find_dead` calls its record stale, why
recovery's first strategy has nothing to do and is not modelled);
`RunAssumption`, `StreamAssumption`, `TaskAssumption`, `ScenarioAssumption`,
`HostAssumption`, `StoreAssumption` and `DeliveryAssumption`: bounds are numbers,
buffer and attempts are not zero; no session is the sentinel, admins are users,
some YAML is valid, a request is of one route; the POSTs of TaskIterations and the
sessions of WorkerHost are finitely many (their number bounds the counter and the
directory, so `TypeOK` needs it); the steps and branches of a scenario are
sequences of steps, and a captcha step's `max` is within the bound; `FlowAssumption`
(pages and images are numbers, none of them the sentinel). In TaskIterations only the
proof of `TypeOK` uses an assumption, in ScenarioRun that and `FailuresTold`; the
other theorems about them hold for any set of POSTs, scenarios and pages.

*JobDispatch.* `OneHolder` is not inductive. The argument is not the lock's but
the session's place: it is being created, in the queue, in one worker's hands, or
in the recovery loop's, one at a time. The conjuncts of `IInv`: `KeyInv` — the key of
a live worker that has a session (`Claims`) does not expire, for the heartbeat's
timer plus its chain stay under the TTL, unless the worker hangs; `HolderInv` — `assigned_worker` names the holder from `Assign` on;
`QueueInv`, `CreateInv` — a queued or just-created session is there once,
unassigned and unheld; `RecoveryInv` — what recovery read still stands when it
acts, since a session assigned to a worker without a key has no holder;
`RegistryInv` — a live worker's registry record names a session it holds or held
last, without which the heartbeat's renewal could hit another's lock.
`BegunInv` goes on from there: a begun session has an owner, and one that
recovery found recoverable and orphaned, or is requeueing, has not begun. Between
the HGETALL and the EXISTS its job may begin, but only in the hands of the owner
recovery read, who is then alive with a key that the EXISTS finds. Every conjunct
but the types' and `BeatInv` speaks of the sessions in `Sound`; the registry's and recovery's are
kept because a hang puts into `hung` all that the hanging worker holds or is the
`assigned_worker` of, which is all that its missing heartbeat can cost.

*JobRun.* `StatusInv` ties the status to where the thread and recovery are.
`VerdictInv`: no terminal event before `Announce`, and exactly the last one after
it; recovery adds its event only where the thread is dead. `ResultInv`: from the
announcement to `result.json` the last event and the status stay what they were,
but for a kill-all. `WaitingInv` follows the cancel message: only a question that
was asked can have been seen waiting, and the message that was pushed is in the
list until the thread takes it and ends. For the refinement `LifeInv` says that
either a kill-all has read the session, after which SessionLifecycle allows
anything, or the status follows from the thread's place; each step is then an
arrow of the lifecycle or a stutter. `FlagInv` and `AtMostOneMore` are the two
halves of `CancelStopsAgent`: a cancel that is past its write has set the flag,
which nobody clears, and with it set only the `gen.send` under way or already
decided adds a step. `EachStepCounts` ranks the thread's places within a round of
its loop under the steps still allowed, so it needs no invariant but the types.

*EventStream.* `OrderInv`: each list of ids (buffer, channel, replay, delivered)
is rising, and holds only ids that INCR gave out, other than the one being
published. `MissInv` adds where a published, buffered event is for each
subscribed client; the case that needs it is the replay that overlaps the live
channel, where deduplication by the newest id seen must not drop what was not
delivered. `SizeInv` bounds the buffer between a push and its LTRIM. `EndInv`:
nothing but recovery's "failed" follows an end, and an open stream has not come to
one; then `Meets` is kept by every step: the end stays in the buffer, since what
follows it is few, and in the replay of a stream that is live.

*TaskIterations.* `SessionInv`: a session exists when its POST has written the
hash, is queued once, and carries the number INCR gave, which no other POST of the
same life of the counter has. `SweepInv`: an iteration
that was there before a POST is still to be read, is in hand, or has been told;
being told is stable. `CallInv` says the same of what a caller listed, and that
its pick has the highest number of the live ones in the list at the time it was
read. `CountInv`: the counter is the number of POSTs that have drawn one since it
last expired, which bounds it by theirs. `StepInv`: a browser step is under way only
in a running session whose worker lives; what is left of a flagged one is then a
number that each step of its worker lowers, and that grows only when recovery queues
it again after a death before it was started.

*ScenarioRun.* Six small invariants, one per question. `StreamInv`: the record
under way has a number that was not handed over, so each `Yield` is a step of
RecordStream. `SnapshotInv`: only between an action and its judging is the cached
snapshot stale; the retry drops it, and the capture renews it or keeps it for having
failed. `DecisionInv`:
each way to accept a decision, vision included, looked the reference up.
`ScopeInv`, `FailureInv`: where the generator can end, and with what record; a flow
comes to its next step, or to its last, only past the failure rules, for which
`FrameTypes` says that a level which is left is that of a step that was worked on.
`TypedInv`: a code that waits was not submitted, and a step that reads a code by OCR
is not the one it waits for.
`RangeInv` is one conjunct per engine: what `frames` has at each nesting level are
steps of the scenario, a level that is left is never empty, there is a step in
hand wherever one is worked on, and an attempt's image is there when it is read.

*WorkerHost.* `HostInv` = `OverrideInv` (the process's override is its scenario's
until `reset_proxy`) and `BrowserInv` (a browser that did not leak is gone by the
time its worker is idle). `CopyInv` adds that a session is one worker's, and that
what lies in a run directory is the report of a session that has this directory,
also where another has written over the one that was matched.
`DownloadInv` orders the shared directory: files are in the order of their
completion (`AgeInv`: the later of two is not of a session that was over when the
earlier one's began, unless a leaked browser wrote it), which rests on a browser
that still writes being its session's own or leaked (`WriterInv`) and on being
over for good (`OverInv`); deletions by other workers keep that order.

*ScenarioStore.* `DbInv`: what is on disk is an earlier state of what requests
read, the same one unless SQLite's transaction is open, and no statement takes
anything back; rows are dense, because the version that is inserted is one more
than the number of rows or is refused. `RequestInv`: what a request found is still
there, where it goes on. `PairInv`: two transactions of MySQL are never about to
commit rows of one scenario. `Told` is stable since `disk` only grows, crash
included. None of this needs `_tx_lock`; `LockInv` says what the lock adds: it
is held exactly by the requests in a transaction, in SQLite one at a time, whose
version is then still the next one.

*Delivery.* `DeliveryInv`: what is sent by threads of their own is a step; once
an end has arrived, or is late, the thread is sending it or through with it.
`EndingInv` follows the verdict through the artifacts: the last record collected is
its end from the moment it is decided, and a result that was written has been sent
to the upload server, and its url recorded, before the thread is through, whatever
became of the log.

Under each step lemma there is one step per action and one per conjunct that the
action can disturb. The last steps join them with the temporal rule.

## 6. What is only model-checked, and what is not modelled

Only model-checked: what must eventually happen, under fairness
(`OrphanRunEnds`, `SseRunEnds`, `LateStreamEnds`, `EarlierEnds`, `RunEnds`,
`DoneHasResult`), which is out of the prover's reach. All but `RunEnds` have a
theorem for the part that is not about fairness: that the way to the end is not
lost, or that each step goes nearer to it. For `RunEnds` that would be a rank
that counts the steps of a scenario's nested branches, a recursion over data.
Every invariant and action property that a passing run checks is a theorem.

What the properties leave open, and a reader might take for granted:

* `OneHolder`, `NoLiveSessionRecovered` and `LockOwnership` say nothing of a session
  whose worker's event loop stood still over a tick, and `OrphanRunEnds` nothing of
  the other workers that an emergency exit leaves running.
* `LateStreamEnds` is of a client that connects, without having seen it, while the end
  is in the buffer. One that reconnects with the end's own id waits for ever.
* `UniqueIteration` is of one life of the counter, `EarlierIsCancelled` of POSTs that
  had returned: two that overlap may leave both iterations live.
* `RefsAreFresh` is about the flow's own actions. A page that changes by itself
  between snapshot and click is not excluded by anything in the code.
* `TypedCodeOnce` is about the code that is submitted. Whether the site accepted it
  the code cannot know: its verdict is a look at texts.
* `ProxyIsOwn` and `NoForeignState` except a browser that leaked: its close failed,
  or its worker crashed.
* `OwnDownloadWins` is of the choice, and of a session whose own file is complete;
  `PublishedIsOwn` says whose a published report is, and not that one is published.
* `DoneHasResult` excuses a disk or an upload server that kept nothing.

Abstracted in the models: the session hash's own expiry (24 h after its last update,
while that of the task's counter is modelled), Redis and database errors, the wording of events and texts on pages, the contents of YAML
beyond whether it passes validation, `Load` as the validation of the spec with
both outcomes. An element is the pages where it is found; a decision of the LLM,
a page and an answer may be anything.

Not modelled, with the reason in `PROJECT.json`: the YAML normaliser and input
validation (pure checks over documents; ScenarioStore has their verdict), the
generation of scenarios by the LLM (a prompt and the parsing of its answer), the
log buffer (read by nobody else), authentication (stateless lookups; who may do
what is in ScenarioStore), the read-only routes, the legacy single-process API.
In components that are modelled in part: the choice and promotion of a scenario's
YAML in `create_session` beyond whether it succeeds, the admin's older route that
writes Redis alone, the builtin matcher, `run_agent` with a human between steps
(used by the legacy programs), the enrichment of snapshots.

## 7. Plan

Done: JobDispatch; JobRun and SessionLifecycle; EventStream; TaskIterations; the
composition ScenarioRun with RecordStream; WorkerHost; ScenarioStore; Delivery;
and the proofs of all their safety properties and of the safety halves of five of
the six liveness properties.

Left, in this order:

1. The rewriting of a scenario's steps for missing inputs (`_inject_ask_inline`
   in `sessions.py`) as an operator over small step trees, against the definition
   "asked for before each use on every path".
2. JobRun over ScenarioRun instead of over its own nondeterministic generator:
   both meet in RecordStream, so this would add states and no behaviour.
3. The older admin route and the builtin matcher in ScenarioStore.
4. The log buffer with its lock, a flush that fails and the shutdown.

## 8. Running it

    tlc -workers 2 -config MCJobDispatch.cfg MCJobDispatch.tla
    tlc -workers 2 -config MCJobRun.cfg JobRun.tla
    tlc -workers 2 -config MCScenarioRun.cfg MCScenarioRun.tla
    tlapm JobRun_proofs.tla

The other configurations go with the module their name begins with: those of
JobDispatch, ScenarioRun, ScenarioStore and WorkerHost with the `MC` module of that
name, which has their sets and symmetries, the others with the module itself. The
longest run takes two to three minutes, the proofs of a module a few minutes.
