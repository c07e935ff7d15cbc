# tg-service-v2 in TLA+

Specifications of the service's concurrent core, the TLC runs that check them
and the TLAPS proofs about them. Paths are relative to the repository root;
module names are files of this directory.

## 1. The system

tg-service-v2 takes tasks from Kafka (post, edit, delete a message; scrape a
channel), carries them out at Telegram and publishes one result per task. All
of a replica is one asyncio event loop; several replicas form one Kafka
consumer group and share Redis and PostgreSQL. Interleaving happens at awaits
within a replica, and at calls to Kafka, Redis and the database between them.

| Component (source) | State | Operations | Works with |
|---|---|---|---|
| Task consumer (`src/transport/consumer.py`, `router.py`, `schemas.py`) | the set of tasks, a semaphore, a commit lock; in Kafka: ownership, positions, committed offsets | consume_loop, _process_message, _commit_offset, on_partitions_revoked, stop | Kafka, router, handlers |
| Handlers and guard (`modules/posting/handlers.py`, `modules/scraping/handlers.py`) | Redis keys `tg_idem:*` (SET NX EX 24 h) | _check_idempotency, handle_* | services, producer |
| Result producer (`transport/producer.py`) | the Kafka producer | send_result | Kafka |
| Bot pool (`modules/posting/bot_pool.py`) | ordered pool of Bot clients, cache platform → bot (60 s); `bot_accounts.is_active`, `fail_count` | get_bot, get_bot_for_platform, mark_bot_failed, close_all | database, posting service |
| Posting service (`modules/posting/service.py`) | a pending set of used bots, its lock; `bot_accounts.last_used_at` | send/edit/delete_message (three attempts), _mark_used, _flush_mark_used | rate limiter, bot pool, shutdown |
| Rate limiter (`infrastructure/rate_limiter.py`) | two sorted sets in Redis | acquire (Lua script, polling, 10 s deadline) | Redis |
| Session pool (`modules/scraping/session_pool.py`) | clients, busy set, lock, round-robin index; `telegram_sessions.status`, `flood_wait_until`, `fail_count` | get_session, release_session, mark_flood_wait, mark_session_failed, close_all | database, Telethon |
| Scraping service (`modules/scraping/service.py`) | a semaphore of 10; while it walks a channel, totals and buckets of days, weeks, months | scrape_platform (three attempts, 60 s timeout), _collect_stat_info | session pool |
| Lifecycle (`main.py`, `core/healthcheck.py`) | main task, one _shutdown() per signal, `_running`, time of the last probe | start-up order, _shutdown in five steps, /healthz | everything |
| Account services, proxy manager (`modules/accounts`, `modules/scraping/proxy_manager.py`) | tables `telegram_sessions`, `proxies`, `bot_accounts` | import_session, proxy checks, listings | tools, session pool |
| Tools (`scripts/import_accounts.py`, `src/cli`) | a cycle over the folder's proxies | import of a folder, of a file; check of the proxies; listings | account services |
| Migrations, configuration, logging, metrics, crypto, client factory, `billing/idempotency.py` | none of their own | | |

What makes each part right, and hard:

* **Consumer.** A request takes effect at most once and is answered; an offset
  is committed only when the message is done with. Hard because tasks of one
  partition finish out of order, replicas crash, are expelled or rebalanced in
  mid-task, a drain may time out and cancel tasks, and every external call may
  fail before or after taking effect.
* **Bot pool.** Never more than `BOT_POOL_MAX_SIZE` bots, never a closed one
  handed out, the platform's own bot first. Hard because a size check, a close
  and an insertion have an await between them, and rows are read before and
  written after other jobs ran.
* **Session pool.** A session is used by one scrape at a time, its connected
  client is never overwritten in the pool, it is out of the pool when it cools
  down or is banned, and free again afterwards.
  Hard because sessions are shared when all are busy and because a job sleeps
  between connecting and fetching its client.
* **Rate limiter.** No more than the limit in any window, over replicas whose
  clocks and call delays differ.
* **Lifecycle.** Shutdown closes what start-up opened, users before what they
  use, with no task left in flight, and ends. Hard because a second signal starts
  a second shutdown, because stopping the consumer lets main() return and cancel
  the shutdown that did it, and because tasks and probes open clients again.
* **Channel statistics.** Every message counts once in its buckets. Hard because
  the walk may break off anywhere and is begun again, and because years, months
  and ISO weeks do not end together.
* **Tools.** A session keeps the proxy it was imported with, and proxies share
  the sessions evenly. Hard because imports are commits one by one, are repeated
  after a failure, and checks of proxies count failures in read rows.

## 2. Modules

| Module | What it is |
|---|---|
| `TaskDelivery` | The abstract contract with the backend: claim, execute once, answer. |
| `TaskConsumer` | Replicas of the consumer group, from consume_loop to the commit; implements `TaskDelivery`. |
| `TaskConsumerProofs` | TLAPS proofs about `TaskConsumer`. |
| `BotPool` | The bot pool under the posting service's retry loop. |
| `BotPoolProofs` | TLAPS proofs about `BotPool`. |
| `SessionPool` | The session pool under scrape_platform's retry loop. |
| `SessionPoolProofs` | TLAPS proofs about `SessionPool`. |
| `RateLimiter` | The two sliding windows in Redis and the callers that poll them. |
| `RateLimiterProofs` | TLAPS proofs about `RateLimiter`. |
| `Lifecycle` | One process from start to exit: main(), the shutdowns, the tasks, the probe. |
| `LifecycleProofs` | TLAPS proofs about `Lifecycle`. |
| `ChannelStats` | What a scrape counts and reports, over attempts that break off. |
| `ChannelStatsProofs` | TLAPS proofs about `ChannelStats`. |
| `FiniteSums` | Lemmas about the sum of a function over a finite set, for `ChannelStatsProofs`. |
| `AccountStore` | The tables of sessions and proxies under the operator's tools. |
| `AccountStoreProofs` | TLAPS proofs about `AccountStore`. |
| `MC...`, one per specification | Instances for TLC. |

The modules meet where one component sees the other as an outcome: `BotPool` takes
the limiter's verdict (`Acquire`), `TaskConsumer` takes a handler's operation as
one call that may be cut anywhere, `Lifecycle` takes a task as in flight or not,
and `TaskConsumer` and `BotPool` see of the shutdown where it waits for their tasks
and where main()'s return cuts it.

Every module names, next to a definition, the `Faulty:` variant of it that a
plausible slip in the code would give. Nothing uses these variants; put in the
original's place, each makes the property it is paired with in `PROJECT.json`
fail, which shows that the property depends on that piece of code.

### TaskConsumer

`owner` and `committed` are the coordinator's and the broker's; `assigned` and
`position` are what aiokafka in each replica believes; `phase` is the process
(up, revoking = inside on_partitions_revoked, stopping = inside stop(), exiting =
main() has returned and asyncio.run() winds up, down);
`pc[w][m]` is where the task of message m on worker w stands; `idem` are the
Redis keys; `executed` counts the times an operation reached Telegram;
`results` holds the kinds of result published for a request; `handled` and
`abandoned` (requests on which a task was cut short between its permit and its
answer, or whose failure could not be reported) are history variables.

One action per await of `_process_message`: `Start` (permit, decode, validate,
route), `Claim` (SET NX), `Execute`, `Succeed`/`Refuse`/`Raise`, `Reply`,
`Report` (the generic except), `Commit` (finally). Around it `Boot`, `Join`,
`Fetch`, `BeginRevoke`/`EndRevoke`, `Stop`/`FinishStop`, `Cancel` (drain
timeout), `BreakLoop`, `Crash`, `Expel`, `Evict`. Whatever goes wrong is paid for
out of `Budget`, so a run's .cfg lists its adversity. A cancelled task's result or
database call under way counts as done or not done, whichever action came first.

A stop is seldom left to drain: a record that arrives meanwhile meets `_running =
False`, consume_loop breaks off, main() returns and asyncio.run() cancels all tasks,
whose `finally` still commits (`BreakLoop`; `CancelTasks` is shared with `Cancel`).
This costs no budget: it may happen in every stop with unread records. In the
"exiting" process a commit may be cut too, since the Kafka client's own tasks are
cancelled with the rest. A consume_loop that raises is covered as a `Crash` only.

The three posting handlers and the scraping handler have one shape, and one
model: guard, operation, answer, error answer. Payloads are abstracted to
"accepted" or "refused".

### BotPool

A job is one call of send, edit or delete_message: the three loops are line for
line alike. `pool` is the OrderedDict as a sequence of (bot, client), `open` the
clients whose HTTP session is open. Each await is a boundary between actions: a
row is read in one and used in another (`Query`/`Found`, `Load`/`Create`,
`ReadRow`/`Count`/`CommitRow`), an eviction closes in one and inserts in the
next (`PutOrEvict`, `Evicted`). A job enters by `Acquire`, the rate limiter's
verdict. After a message is out, `MarkUsed` adds the bot to `pending` under the
lock, and the job that fills a batch writes it (`Flushed`, the lock held).
`owed` are the bots whose last_used_at in the database is older than their last
use, `lost` those of them whose last use went with a failed write or with the
process; a bot used again leaves `lost`. The end comes in any of the code's ways:
`DrainTimeout` (stop() cancels the jobs), `MainReturns` (at any step, also in the
sleep before the flush or in the flush itself: every job is cut and the memory is
gone), or, if neither cuts it short, `ShutdownFlush` and `CloseAll`: _shutdown()'s
flush, which takes no lock, and close_all.

`rows` are the bots that have a row: `AddBot` is scripts/add_bot.py, run by the
operator at any moment, at most `NewBots` times. Nothing in the repository activates
a row again. `kept[p]` and `asked[j]` (history) are the rows there were when the
bot cached for a platform, and the bot a job posts through, were looked up; they
are what "stale" means in `RightBot`. Rows come in the order the database likes,
since `scalar_one_or_none` looks at their number only. The cache may be taken as
expired at any lookup, and may be used at any lookup.

### SessionPool

A job is one scrape_platform call. `pool[s]` says whether there is a client and
whether it is connected, `live[s]` how many connected clients of the session
exist at all, `dropped[s]` (history) how many of them nobody will close: let go of
after a FloodWait or a ban, or left by a call that broke off between connect() and
the insertion (`LeaveBehind`: not authorized, or a later call raised, or the task was
cancelled, `BrokenOff`). The lock is a
variable because it is held over awaits while a client connects; critical
sections without an await are single actions that need it free. Which free
session is taken is left open: the round-robin index and the order of rows
(`fail_count`, `last_used_at`) only narrow that choice, so what holds here
holds for the code.

### RateLimiter

A call of acquire() reads its clock (`now`), the Lua script runs in Redis some
time later, and its answer is looked at later still: `Acquire` or `Retry`,
`Script` (`Refuse` or `Grant`, atomic as in Redis), `Answered`. `zset` and
`expires` are Redis' sorted sets and their TTLs, with members that carry their
score. `Fail` is an exception or a cancellation at any wait; a slot taken stays
taken (`took`, history). `clock` is that of the fastest replica, and `Tick`
waits for what is due: `Lag` bounds the age of `now` when its answer is looked
at (call time plus clock skew), and how late a sleeper wakes. The code puts no
bound on it; it is a parameter of what the limiter can promise.

### Lifecycle

`main` walks through the starts and the loop, `shut[s]` through the five steps of
the _shutdown() that signal s began; `open` are the resources opened and not yet
closed. When main() returns (the iteration ends because the consumer was closed,
a record arrives after `_running` was cleared, the loop raises, or a shutdown came
to its end and cancelled it) asyncio.run cancels every other task, the shutdowns
included (`MainReturns`). A start may fail, a stop may raise, a signal before the
handlers are in place kills. `Work` opens what a task opens; `Probe` is
check_health, which opens the database's and Redis' pools when they are closed.

### ChannelStats

One action per message of the walk (`Take`), one for an attempt that raises or
times out in the middle (`BreakOff`), one for the averages and medians at its end
(`Report`). The calendar is a constant: a day has a year, a month and an ISO week
with a year of its own. The properties state the report as sums and splits over
the channel's messages, which the code computes bucket by bucket.

### AccountStore

Every tool is a process, `Together` says which of them run at once. An action
ends at a commit, or at the read that comes before it: `AddProxy`, `Skip`,
`LookUp`, `Insert` for the imports, `Begin`, `Alive`, `Failed`, `Count` for the
check. `Die` and `GiveUp` stop a tool anywhere; its repetition is a second process.
The check writes what SQLAlchemy writes: the columns it has changed.

## 3. Runs

`Checks that hold`

| Run | Instance | Shows |
|---|---|---|
| `ConsumerGuard` | 2 workers, 1 partition, the same request twice, 2 permits, one each of crash, rebalance, stop (cut or not), expulsion, drain timeout, failing call | `TypeOK`, `ExecutedAtMostOnce`, `VerdictIsTrue`, `TasksWithinAssignment`, and `DeliveryRefined`: the replicas implement `TaskDelivery` |
| `ConsumerSequential` | 2 workers, 1 permit, a malformed and a good message, one each of crash, rebalance, expulsion, failing call, eviction | `CommittedAreHandled`, `CommitsMoveForward`, and that every message is handled in the end |
| `ConsumerGraceful` | 2 workers, 2 permits, 3 messages (one that fails validation, then a request sent twice), one each of crash, rebalance, stop (cut or not) | `NoLostRequest`, `OneWorkerPerPartition`, every request answered or given up by a task that was cut short after its permit, every drain ends |
| `BotPosting` | 2 jobs of 2 platforms, 3 bots, any one of them perhaps added only while jobs run, pool of 1, 2 attempts, limit 2, batches of 2, any bots pending before; drain timeout, end of the process at any step | `PoolBounded`, `PoolIsUsable`, `RightBot` (a stranger posts only while the platform's own bots are all newer than the look-up), `NoEarlyDeactivation`, `UsesAreKept` (a use not in the database is pending, in a batch under way, or went with a failed write or the process), every job ends |
| `ScrapeAdverse` | 2 jobs, a session with a live and one with a dead proxy, 2 attempts, limit 2, every adversity | `ConnectionsAccounted`, `NoEarlyBan`, every scrape ends |
| `ScrapeQuiet` | 3 jobs, 2 permits, 2 sessions, only lost connections | `ExclusiveUse`, `BusyIsInUse` |
| `RateWindow` | 4 calls, 2 chats, limits 2 and 1, window of 3 ticks, `Lag` 1 | `TypeOK`, `WindowHolds`, `GivesUpInTime`, `HeldUpByOthers` |
| `ShutdownOrderly` | 2 messages, 2 signals, 2 probes, one start, stop or iteration that raises | `NothingInFlight` while anything is closed, `ClosedInOrder`, and that a signal ends the process even if tasks hang |
| `AccountTools` | any two of two folder imports, a file import and two checks; 5 accounts, 2 of them unreadable, 2 proxies, limit 3 | `SessionKeepsItsProxy`, `LoadIsSpread` (no proxy of the folder has more than its share), `ChecksDecide` |
| `ChannelStats` | every channel of up to 4 messages out of 7 kinds, on days of two years, 2 attempts | `ReportIsOfChannel`, `WeeksAreWeeks` |

`Disagreements between code and text` (each run ends in a counterexample)

| Run | The text | The code |
|---|---|---|
| `ConsumerOutOfOrder` | consumer.py:5, 159: committed only after processing | a later message's commit covers an earlier one still in work |
| `ShutdownCutsDrain` | main.py:11: shutdown waits for the running tasks to end (SHUTDOWN_TIMEOUT) | a record that arrives during the drain ends consume_loop and main(), and asyncio.run cancels the tasks at once |

### Bounds

Two replicas are what it takes for one to hold what the other gets; a third
adds no new pair. Two or three messages cover a repetition, an overtaking and a
kind of refusal each, and a record that is late for a stop; one of each adversity reaches every pair of steps it can
fall between, and sequences of two different ones. Two jobs suffice for every
race over one pool entry or row; `ScrapeQuiet` has a third to take what the
first gave back. One
new row (`NewBots` 1) makes a cached fallback stale, for either platform. Limits
(`FailLimit` 2 for 5, `MaxRetries` 2 for 3, `MaxDepth` 1
for 10, pool of 1 for 50) are the smallest at which both sides of the limit are
reached. In `RateWindow` a window is three ticks, so that one shortened by `Lag`
still has two; `Expire` is as short as its assumption allows, `MaxWait` shorter
than a window, so that calls do give up, and `Horizon` one window, so that slots
taken first are cleaned up within the run. Two signals are all the process
handles, two messages leave one in flight while the other arrives late, one fault
reaches every step that may raise. In `AccountTools` three readable accounts on two
proxies make shares uneven, the unreadable ones stand between them, and three
rounds of checks reach the limit. In `ChannelStats` four messages fill a bucket
twice beside two others, and the days are those where the two kinds of year
disagree.

`CHECK_DEADLOCK FALSE` everywhere: logs and jobs are finite, and the
system rests when they are done; that it does not rest earlier is what the
liveness properties say. Symmetry is used only in runs without liveness.

### Fairness

`TaskConsumer!Fairness`: weak fairness of each task (the event loop runs it and
the clients' calls time out), of consume_loop, of the ends of drains, of a
restart (the container's restart policy), of the coordinator assigning free
partitions and of an expelled worker noticing. No adversity is ever fair.
`BotPool!FairSpec`, `SessionPool!FairSpec`: weak fairness of each job's next
step; which outcome Telegram gives is left open. The lock is an asyncio.Lock,
first come first served, and jobs take it finitely often, so weak fairness is
enough. `Lifecycle!Fairness`: each _shutdown()'s next step (a stop returns or
raises, the drain's timer fires), main()'s end, and the end of a task once it is
cancelled. Nothing is assumed of a task that is not, nor of further records.

## 4. Proofs

In the modules named `...Proofs`, for any replicas, partitions, messages, permits,
jobs, bots, sessions, calls, chats, signals, tools, channels, calendars, times and
limits that meet the modules' ASSUMEs: every invariant and every action property
that a passing run checks. What a theorem supposes beyond the ASSUMEs is said here,
and why it is needed. First `TaskConsumerProofs`:

* `TypeCorrect`: `TypeOK` is inductive.
* `TasksStayWithinAssignment`: inductive together with `TypeOK`. It needs that
  both drains wait for *all* tasks, the ones without a permit included.
* `AtMostOnce` (assuming no eviction, `Budget["evict"] = 0`).
  `executed[r] <= 1` is not inductive: the invariant `GuardInv` adds that at
  most one task in the whole group is past the guard and before the effect for
  a request, that such a request has its key and has not been executed, and
  that an executed request has its key.
* `ImplementsDelivery` (same assumption): every step of the replicas is a step
  of `TaskDelivery` or leaves its variables alone; uses `GuardInv`.
* `OneWorker` (assuming no expulsion): from `TasksStayWithinAssignment` and an
  invariant that what workers believe they have is what the coordinator gave.
* `SequentialCommitsAreHandled`, `SequentialCommitsMoveForward` (assuming
  `Concurrency = 1`, no drain timeout and no stop, since either may cancel). `SeqInv` relates each worker's
  position, its one running task and the committed offset: the waiting tasks of
  a partition are exactly those between the running one and the position, and
  all below is handled. Without any of the assumptions the property is false: see
  `ConsumerOutOfOrder`, and set `Cancels = 1` or `Stops = 1` in
  `ConsumerSequential.cfg`.
* `VerdictsAreTrue` (assuming no eviction, and `CopiesAlike`: of the copies of a
  request all pass validation and have a handler, or none). An error is true for
  good only if nobody can still execute, so `VerdictInv` says that a request with
  an error, or about to get one, is `Settled`: not executed, its key set (or no
  copy routed) and no task between guard and effect. The part about errors
  holds until the first call fails: from then on an operation that took effect
  may be reported as failed.
* `NoRequestIsLost`, without assumptions: any crashes, stops, cancellations and
  failing calls. What these lose is not assumed away but named: `Concluded` is
  "answered, or in `abandoned`", and only four steps add to `abandoned`, each what it
  cuts: `Crash`, `Cancel` and `BreakLoop` the requests of tasks between permit
  and answer, `Report` the one it fails to report. So the theorem says that
  nothing else loses a request: not a task cancelled while it waits for its permit, not
  a duplicate's commit that passes the first copy, not a rebalance, a redelivery or an
  expulsion. `AnswerInv` says who owes the answer at each moment. A request whose key
  is set (`KeyKept`) or whose message is done with (`DoneKept`) is answered, given up, or
  in a task on its way to an answer. Permits are taken in the order of the offsets, so
  every routed message up to a task with a permit (`InsidePassed`), hence up to the
  committed offset (`CommittedPassed`), is so too, or has a permit itself; what a worker
  fetched has passed likewise or waits, until its waiting tasks are cancelled
  (`FetchedPassed`).

Then the other components:

* `SessionPoolProofs`: `SessionTypeCorrect`, and `NoClientIsOverwritten`
  (`ConnectionsAccounted`): a job that connects holds the lock, and the pool
  has no client of its session meanwhile, so every connected client is the pooled one or
  one the code let go of (of those there may be any number); `BannedAtLimit` (`NoEarlyBan`): a
  count read is never more than the failures committed. `SessionsAreNotShared`
  supposes `Undisturbed`: permits for no more jobs than there are sessions, no dead
  proxy, and nothing going wrong but lost connections. Then (`QuietInv`) all sessions
  stay eligible and each busy one is in the hands of a job of its own, so that,
  counting the jobs inside the semaphore, the one that chooses finds a session
  left. Each part is needed: in `ScrapeQuiet.cfg`, one permit more, a dead proxy,
  or any other adversity makes TLC find a shared session. `BusySessionsAreHeld`
  supposes less (`OnlyFloods`): sharing and flood waits do no harm. What is needed
  besides is `ClientIsComing`: a busy session without a client is one that some job
  is about to connect, so a job whose client has gone (KeyError) is not its last.
* `RateLimiterProofs`: `WindowIsKept` rests on `WindowInv`: the sets are within
  their limits, and a slot whose window the fastest clock has not left (`Counts`)
  is in both sets, outlived by their TTL, and has a member of its own. A script
  that runs late cleans by an older `now`, hence never a slot that counts. Who
  went through in the last `Window - Lag` ticks counts, so they inject into the
  set. `WaitIsBounded` uses the same invariant; `HeldUpOnlyByOthers` adds that
  every member was entered by a call that took a slot. ChatLimit = 1 is needed:
  with more, two grants may share a member and the global window overflows.
* `BotPoolProofs`: all invariants of `BotPool`, from `TypeOK` and four parts that
  are inductive only together. `PoolInv`: no two entries share a bot or a client,
  each client in the pool is open, and none of them is in the hands of a job that
  is about to close it or put it in, since an evicted entry left the pool before
  its close. `BotInv`: when a job or the cache has chosen a bot of no or an other
  platform, none of the rows there were at its look-up is an active bot of the platform,
  nor can become one; rows added later are what `RightBot` leaves out. `FailInv`: a
  count read is never more than the failures committed. `UseInv`: a bot owed to the
  database is pending, in a batch whose writer holds the lock (or is the shutdown's
  flush, when no job is left), or lost.
* `LifecycleProofs`: `TasksEndBeforeClosing` and `UsersCloseFirst`. The invariant
  follows each shutdown's position: once a stop() has begun the loop accepts no
  record, so what has drained stays empty, so no task opens a pool again, and what
  a shutdown has passed is closed. Every shutdown satisfies it for itself, which is
  why two of them do no harm.
* `AccountStoreProofs`: `ProxyIsForLife` from the shape of every commit;
  `ProxyVerdicts` from `CountIsTrue` and `SeenIsTrue`: what is stored, and what a
  check has read, is never above the failures so far, and is exactly the failures
  since the last success until checks overlap. `StoreTypeCorrect` holds that every
  session's proxy is a row: the numbers a tool keeps are of rows that exist.
  `ProxiesShareTheLoad` rests on `SpreadInv`, which knows the cycle in closed form:
  the readable account with k readable ones before it gets the proxy at place
  k mod n. The accounts at one place are then n apart in this count, so there are
  no more of them than the share; rows of different imports are different rows.
* `ChannelStatsProofs`: `WalkTypeCorrect`, `ReportIsTrue`, `WeeksAreOfOneYear`.
  `WalkInv` says that, wherever the walk stands, counters and buckets are the sums
  over the messages read in this attempt; a broken attempt starts from the empty
  sum. That the median splits the buckets is a lemma about ranks. The weeks need
  `WeekAssumption`: in weeks 2 to 51 the ISO year is the calendar's, as ISO 8601
  has it, where a week is of the year of its Thursday.
* `FiniteSums`: the sum of the community modules is a fold in an arbitrary order.
  It is shown not to depend on it, and to grow with an element by its value. The
  library's induction theorems take operators, which the provers cannot
  instantiate; here induction is over a set of numbers (`NumberInduction`, from
  the well-foundedness of < on Nat), which serves where the formula to be proved
  can be written as membership in a set.

Only model-checked: liveness under fairness (`EventuallyHandled`,
`EventuallyAnswered`, `DrainEnds`, `EveryJobEnds`, `EveryScrapeEnds`,
`SignalEndsProcess`), which is out of the prover's reach.

## 5. What else was observed

Met while modelling, not kept as runs:

* In a full window the limiter may let one more through: `now` is older than the
  answer, so a slot is cleaned up to `Lag` before its message is a window old.
  "1 msg/sec per chat" and "no race condition" (rate_limiter.py:19, 5) hold for
  a window shortened by `Lag` only (`WindowHolds`).
* rate_limiter.py:4 says 30 messages a second and 20 a minute per chat; the code
  allows 25 a second, and one a second per chat, which is 60 a minute.
* Concurrent failures of a bot are counted once (bot_pool.py:126): it may stay
  active after five failures (bot_pool.py:114 says it is deactivated).
* A crash after SET NX loses the request: the redelivery is skipped as a duplicate
  (consumer.py:7, 161 promise no losses). So does a stop that a late record cuts, or a
  drain timeout: the cancelled task commits and never answers. `NoLostRequest` counts
  these requests as given up and shows that there are no others.
* An error result that cannot be published either is logged and swallowed
  (consumer.py:218) and the offset committed: such a request has no answer.
* Two active bots of a platform, or two fallbacks, raise MultipleResultsFound
  (bot_pool.py:95, 104); line 74 promises any active one.
* A failed scrape leaves its session in `_busy` for ever (session_pool.py:146), and
  a client dropped during the jitter makes get_session raise KeyError
  (session_pool.py:120).
* A task cancelled by the drain timeout commits its offset in `finally`
  (consumer.py:225) though it was not processed.
* `async for` ignores `max_poll_records` (consumer.py:108): tasks are created
  without bound.
* A fallback stays in the cache for up to 60 s after the platform's own bot was added
  (bot_pool.py:79-84, 109), and posts meanwhile; `RightBot` says no more than that.
* A row read before `mark_bot_failed` is cached after it (bot_pool.py:109): a
  platform's jobs fail on a deactivated bot for up to 60 s, or post through it if an other job has
  just put a client of it into the pool.
* Clients dropped by `mark_bot_failed`, `mark_flood_wait` or a ban are never
  closed (bot_pool.py:131, session_pool.py:135, 152), so `close_all` misses them.
* `_busy` is a set, not a count: of two jobs that share a session the first to
  finish frees it under the other (session_pool.py:125).
* A banned session may be put back into the pool by a job that chose it before
  (session_pool.py:113), and a failure of a shared session may go uncounted
  (session_pool.py:145).
* Normally main() returns as soon as the consumer is closed, and asyncio.run cuts
  _shutdown() in its half second of sleep: the flush is skipped, and pools, producer
  and database end with the process (main.py:79-83). The uses then pending are lost,
  though service.py:260 says they are flushed at shutdown: `MainReturns` of `BotPool`,
  `BreakLoop` of `TaskConsumer`.
* A call after connect() that raises or is cancelled leaves a connected client that
  nobody holds (session_pool.py:107-112), and so does a session found unauthorized.
* With two shutdowns at work the second close_all may raise, since the first
  clears the pool under it. A start that fails leaves the producer open.
* A probe after close_engine opens the pools of database and Redis again
  (healthcheck.py). The container's own health check asks /metrics and never sees
  the readiness.
* average_messages_weekly divides all messages by the weeks that have views, and
  week 1 of a year also gets the days that belong to the next year's first week
  (service.py:199, 253).
* An import that is run again adds the folder's proxies once more
  (import_accounts.py:97), and spreads over the new rows.
* A failing proxy check that read its row before an other one's success writes the
  old count back (proxy_manager.py:51).
* When all are busy, a retry may get the session it has just failed with
  (session_pool.py:70 against service.py:57).

## 6. Not modelled

* Data without behaviour: fingerprints, encryption, schemas' wording, result
  topics' names, chat id resolution, markup, the parsing of account files.
* Of the tools, those that only read, and those that add or change one row in one
  commit (add a proxy); `get_active_proxy`, which has no
  caller; the import of a list of proxies, one row and one commit each.
  Migrations: run alone, before the service.
* `billing/idempotency.py`: called by nobody.
* Telethon client factory, crypto, configuration, logging, metrics, the engine:
  no state of the service's own beyond what is opened and closed in `Lifecycle`.
* `max_size` of the session pool: stored and never read. The database connections
  a nested get_session holds: an exhausted engine ends in an error after 30 s.
* Memory: how many tasks a partition's records become (consumer.py:173).
* Timing, outside `RateLimiter`: timeouts and cooldowns end when they please, TTLs
  are evictions.
* Eviction of the limiter's sets by Redis (`allkeys-lru`): it empties a window.

## 7. Plan

1. `SessionPool` with a count of database connections: ten scrapes nested over
   dead proxies against a pool of sixty.
