----------------------------- MODULE BotPool -----------------------------
(***************************************************************************)
(* Posting through a pool of bots (src/modules/posting/bot_pool.py and the *)
(* retry loop that send_message, edit_message and delete_message of        *)
(* src/modules/posting/service.py share).                                  *)
(*                                                                         *)
(* Several jobs run on one event loop; each of them may be overtaken at    *)
(* every await, and only there: at a database query (the row is read in    *)
(* one step, and looked at in a later one), at closing an evicted bot, at  *)
(* a call to Telegram, at a commit. Between awaits a step is atomic.       *)
(*                                                                         *)
(* A job that has posted notes its bot as used (_mark_used): the notes are *)
(* gathered and written to the database in batches, by the job that fills  *)
(* one, under a lock, and by _shutdown, without it. main() mostly returns  *)
(* before _shutdown is that far: its tasks are cancelled and its memory is *)
(* gone. Rows of bots are added by an other process (scripts/add_bot.py)   *)
(* while the jobs run; nothing activates a row again.                      *)
(*                                                                         *)
(* Left out: the text and media of a message, and names in log lines. The  *)
(* rate limiter (RateLimiter) appears as letting a job through or not.     *)
(***************************************************************************)
EXTENDS Integers, Sequences, FiniteSets, SequencesExt

CONSTANTS
    Jobs,        \* calls of the posting service, each by a handler of its own
    Bots,        \* rows of bot_accounts
    Platforms,
    NoBot, NoPlatform,
    PlatformOf,  \* [Jobs -> Platforms]
    BoundTo,     \* [Bots -> Platforms \cup {NoPlatform}], column platform_id
    MaxSize,     \* BOT_POOL_MAX_SIZE
    FailLimit,   \* failures that deactivate a bot (5 in the code)
    MaxRetries,  \* attempts of a job (3 in the code)
    BatchSize,   \* _MARK_BATCH_SIZE (20 in the code)
    NewBots      \* bound: rows added while the jobs run

ASSUME BindingsAssumption == /\ PlatformOf \in [Jobs -> Platforms]
                             /\ BoundTo \in [Bots -> Platforms \cup {NoPlatform}]
                             /\ NoBot \notin Bots /\ NoPlatform \notin Platforms
ASSUME LimitsAssumption   == {MaxSize, FailLimit, MaxRetries, BatchSize} \subseteq Nat \ {0}
ASSUME BotsAssumption     == IsFiniteSet(Bots)

VARIABLES
    rows,     \* database: the bots that have a row
    active,   \* database: is_active of each bot (TRUE in a new row)
    fails,    \* database: fail_count of each bot
    pool,     \* _pool: the bots loaded, least recently used first
    cache,    \* _platform_cache: the bot remembered for each platform
    kept,     \* history: the rows there were when that bot was looked up
    asked,    \* history: the rows there were when a job's bot was looked up
    open,     \* Bot clients with an open HTTP session
    created,  \* number of clients created, which also names the next one
    job,      \* where each job stands
    marks,    \* history: completed mark_bot_failed calls per bot
    pending,  \* _mark_pending: bots used since the last batch
    batch,    \* the bots a flush is writing
    owed,     \* database: bots whose last_used_at is older than their last use
    lost,     \* history: bots whose last use went with a failed write or the process
    shutdown  \* where _shutdown stands

db      == <<rows, active, fails, marks>>
choices == <<cache, kept, asked>>
usage   == <<pending, batch, owed, lost, shutdown>>
vars    == <<db, pool, choices, open, created, job, usage>>

Pcs      == {"acquiring", "lookup", "querying", "fallback", "found", "loading", "loaded",
             "evicting", "sending", "reading", "counting", "committing", "marking",
             "flushing", "done"}
Verdicts == {"none", "sent", "rejected", "limited", "allFailed", "noBot", "ambiguous", "inactive",
             "cut"}
Clients  == Nat
JobStates == [pc : Pcs, attempt : 0 .. (MaxRetries - 1), bot : Bots \cup {NoBot},
              client : Clients, evictee : Clients, seen : Nat, verdict : Verdicts]

TypeOK ==
    /\ rows    \in SUBSET Bots
    /\ active  \in [Bots -> BOOLEAN]
    /\ fails   \in [Bots -> Nat]
    /\ pool    \in Seq([bot : Bots, client : Clients])
    /\ cache   \in [Platforms -> Bots \cup {NoBot}]
    /\ kept    \in [Platforms -> SUBSET Bots]
    /\ asked   \in [Jobs -> SUBSET Bots]
    /\ open    \in SUBSET Clients
    /\ created \in Nat
    /\ job     \in [Jobs -> JobStates]
    /\ marks   \in [Bots -> Nat]
    /\ {pending, batch, owed, lost} \subseteq SUBSET Bots
    /\ shutdown \in {"no", "flushing", "closed", "cut"}

\* A job with nothing in its hands.
Blank(pc, verdict) == [pc |-> pc, attempt |-> 0, bot |-> NoBot, client |-> 0, evictee |-> 0,
                       seen |-> 0, verdict |-> verdict]

Init ==
    /\ rows \in {S \in SUBSET Bots : Cardinality(Bots \ S) <= NewBots}
    /\ active  = [b \in Bots |-> TRUE]
    /\ fails   = [b \in Bots |-> 0]
    /\ pool    = <<>>
    /\ cache   = [p \in Platforms |-> NoBot]
    /\ kept    = [p \in Platforms |-> {}]
    /\ asked   = [j \in Jobs |-> {}]
    /\ open    = {}
    /\ created = 0
    /\ job     = [j \in Jobs |-> Blank("acquiring", "none")]
    /\ marks   = [b \in Bots |-> 0]
    /\ pending \in {S \in SUBSET rows : Cardinality(S) < BatchSize}  \* left by earlier jobs
    /\ owed = pending /\ batch = {} /\ lost = {}
    /\ shutdown = "no"

---------------------------------------------------------------------------
(* The pool as an ordered dictionary                                       *)

Entries      == {pool[i] : i \in DOMAIN pool}
Pooled(b)    == \E e \in Entries : e.bot = b
ClientOf(b)  == (CHOOSE e \in Entries : e.bot = b).client
IndexOf(b)   == CHOOSE i \in DOMAIN pool : pool[i].bot = b
Without(b)   == IF Pooled(b) THEN RemoveAt(pool, IndexOf(b)) ELSE pool
MoveToEnd(b) == Append(Without(b), [bot |-> b, client |-> ClientOf(b)])
\* Assigning to a key that is there keeps its place and drops its old client.
Put(b, c)    == IF Pooled(b)
                THEN [i \in DOMAIN pool |->
                        IF pool[i].bot = b THEN [bot |-> b, client |-> c] ELSE pool[i]]
                ELSE Append(pool, [bot |-> b, client |-> c])

At(j, pc)          == job[j].pc = pc
GoTo(j, pc)        == job' = [job EXCEPT ![j].pc = pc]
Finish(j, verdict) == job' = [job EXCEPT ![j].pc = "done", ![j].verdict = verdict]

\* The next attempt, or BotError(ALL_BOTS_FAILED) after the last.
\* Faulty: one attempt too many.
NextAttemptOneMore(j) ==
    IF job[j].attempt < MaxRetries
    THEN job' = [job EXCEPT ![j].pc = "lookup", ![j].attempt = @ + 1]
    ELSE Finish(j, "allFailed")

NextAttempt(j) ==
    IF job[j].attempt < MaxRetries - 1
    THEN job' = [job EXCEPT ![j].pc = "lookup", ![j].attempt = @ + 1]
    ELSE Finish(j, "allFailed")

\* The rate limiter lets the job through, or its RateLimitExceeded (or a Redis
\* error) leaves the service.
Acquire(j) ==
    /\ At(j, "acquiring")
    /\ GoTo(j, "lookup") \/ Finish(j, "limited")
    /\ UNCHANGED <<db, pool, choices, open, created, usage>>

---------------------------------------------------------------------------
(* get_bot                                                                 *)

\* Up to the first await: a pooled bot is returned, an other one is loaded.
GetBot(j, b) ==
    IF Pooled(b)
    THEN /\ pool' = MoveToEnd(b)
         /\ job' = [job EXCEPT ![j].pc = "sending", ![j].bot = b, ![j].client = ClientOf(b)]
    ELSE /\ job' = [job EXCEPT ![j].pc = "loading", ![j].bot = b]
         /\ UNCHANGED pool

\* The row is read; ValueError when the bot is not active.
Load(j) ==
    /\ At(j, "loading")
    /\ IF active[job[j].bot] THEN GoTo(j, "loaded") ELSE Finish(j, "inactive")
    /\ UNCHANGED <<db, pool, choices, open, created, usage>>

\* One round of the `while`: evict the oldest bot, or put the new one in.
\* Faulty: the oldest bot is closed while it is still in the pool.
PutOrEvictInPlace(j, c) ==
    IF Len(pool) >= MaxSize
    THEN /\ pool' = pool
         /\ job' = [job EXCEPT ![j].pc = "evicting", ![j].client = c,
                               ![j].evictee = Head(pool).client]
    ELSE /\ pool' = Put(job[j].bot, c)
         /\ job' = [job EXCEPT ![j].pc = "sending", ![j].client = c, ![j].evictee = 0]

PutOrEvict(j, c) ==
    IF Len(pool) >= MaxSize
    THEN /\ pool' = Tail(pool)
         /\ job' = [job EXCEPT ![j].pc = "evicting", ![j].client = c,
                               ![j].evictee = Head(pool).client]
    ELSE /\ pool' = Put(job[j].bot, c)
         /\ job' = [job EXCEPT ![j].pc = "sending", ![j].client = c, ![j].evictee = 0]

Create(j) ==
    /\ At(j, "loaded")
    /\ created' = created + 1
    /\ open' = open \cup {created + 1}
    /\ PutOrEvict(j, created + 1)
    /\ UNCHANGED <<db, choices, usage>>

\* The evicted session is closed and the `while` looks again.
\* Faulty: `if` in place of `while`.
PutAtOnce(j) ==
    /\ At(j, "evicting")
    /\ open' = open \ {job[j].evictee}
    /\ pool' = Put(job[j].bot, job[j].client)
    /\ job' = [job EXCEPT ![j].pc = "sending", ![j].evictee = 0]
    /\ UNCHANGED <<db, choices, created, usage>>

Evicted(j) ==
    /\ At(j, "evicting")
    /\ open' = open \ {job[j].evictee}
    /\ PutOrEvict(j, job[j].client)
    /\ UNCHANGED <<db, choices, created, usage>>

---------------------------------------------------------------------------
(* get_bot_for_platform                                                    *)

\* A fresh cache entry is used; an expired one is dropped. (Its is_active is
\* the one of a detached row, always true.)
Lookup(j) ==
    /\ At(j, "lookup")
    /\ LET p == PlatformOf[j]
       IN \/ /\ cache[p] # NoBot
             /\ GetBot(j, cache[p])
             /\ asked' = [asked EXCEPT ![j] = kept[p]]
             /\ UNCHANGED <<cache, kept>>
          \/ /\ cache' = [cache EXCEPT ![p] = NoBot]
             /\ kept'  = [kept EXCEPT ![p] = {}]
             /\ asked' = [asked EXCEPT ![j] = {}]
             /\ GoTo(j, "querying")
             /\ UNCHANGED pool
    /\ UNCHANGED <<db, open, created, usage>>

\* scalar_one_or_none() on the rows: one is found, none goes on, two raise
\* MultipleResultsFound.
One(j, bots, none) ==
    IF bots = {} THEN none
    ELSE IF Cardinality(bots) = 1
         THEN job' = [job EXCEPT ![j].pc = "found", ![j].bot = CHOOSE b \in bots : TRUE]
         ELSE Finish(j, "ambiguous")

ActiveBots   == {b \in rows : active[b]}
BoundBots(p) == {b \in ActiveBots : BoundTo[b] = p}

Query(j) ==
    /\ At(j, "querying")
    /\ One(j, BoundBots(PlatformOf[j]), GoTo(j, "fallback"))
    /\ asked' = [asked EXCEPT ![j] = rows]
    /\ UNCHANGED <<db, pool, cache, kept, open, created, usage>>

Fallback(j) ==
    /\ At(j, "fallback")
    /\ One(j, ActiveBots, Finish(j, "noBot"))
    /\ UNCHANGED <<db, pool, choices, open, created, usage>>

\* Faulty: one cache entry for all platforms.
FoundForAll(j) ==
    /\ At(j, "found")
    /\ cache' = [p \in Platforms |-> job[j].bot]
    /\ kept'  = [p \in Platforms |-> asked[j]]
    /\ GetBot(j, job[j].bot)
    /\ UNCHANGED <<db, asked, open, created, usage>>

Found(j) ==
    /\ At(j, "found")
    /\ cache' = [cache EXCEPT ![PlatformOf[j]] = job[j].bot]
    /\ kept'  = [kept EXCEPT ![PlatformOf[j]] = asked[j]]
    /\ GetBot(j, job[j].bot)
    /\ UNCHANGED <<db, asked, open, created, usage>>

---------------------------------------------------------------------------
(* The call to Telegram and its outcomes                                   *)

\* The message is out; the bot is noted as used next.
Sent(j) ==
    /\ At(j, "sending")
    /\ GoTo(j, "marking")
    /\ UNCHANGED <<db, pool, choices, open, created, usage>>

\* The mark lock is held over one await only, the write of a batch.
MarkLockFree == \A j \in Jobs : ~At(j, "flushing")

\* _mark_used: the job that fills the batch writes it. The set is emptied
\* before the write.
BatchFull(marked) == Cardinality(marked) >= BatchSize

\* Faulty: a full batch is flushed in place of noting the bot.
MarkUsedOrFlush(j) ==
    /\ At(j, "marking")
    /\ MarkLockFree
    /\ LET marked == pending \cup {job[j].bot}
       IN IF BatchFull(marked)
          THEN batch' = pending /\ pending' = {} /\ GoTo(j, "flushing")
          ELSE pending' = marked /\ UNCHANGED batch /\ Finish(j, "sent")
    /\ owed' = owed \cup {job[j].bot}
    /\ lost' = lost \ {job[j].bot}
    /\ UNCHANGED <<db, pool, choices, open, created, shutdown>>

MarkUsed(j) ==
    /\ At(j, "marking")
    /\ MarkLockFree
    /\ LET marked == pending \cup {job[j].bot}
       IN IF BatchFull(marked)
          THEN batch' = marked /\ pending' = {} /\ GoTo(j, "flushing")
          ELSE pending' = marked /\ UNCHANGED batch /\ Finish(j, "sent")
    /\ owed' = owed \cup {job[j].bot}
    /\ lost' = lost \ {job[j].bot}
    /\ UNCHANGED <<db, pool, choices, open, created, shutdown>>

\* The UPDATE of _flush_mark_used; a failure is logged and the batch is gone.
WriteBatch ==
    /\ \/ owed' = owed \ batch /\ UNCHANGED lost
       \/ lost' = lost \cup batch /\ UNCHANGED owed
    /\ batch' = {}

Flushed(j) ==
    /\ At(j, "flushing")
    /\ WriteBatch
    /\ Finish(j, "sent")
    /\ UNCHANGED <<db, pool, choices, open, created, pending, shutdown>>

\* TelegramBadRequest, TelegramNotFound: BotError at once (an exception of an
\* other kind leaves the loop the same way).
Rejected(j) ==
    /\ At(j, "sending")
    /\ Finish(j, "rejected")
    /\ UNCHANGED <<db, pool, choices, open, created, usage>>

\* TelegramRetryAfter: sleep and try again.
\* Faulty: the attempt is not counted.
RetryAfterForEver(j) ==
    /\ At(j, "sending")
    /\ GoTo(j, "lookup")
    /\ UNCHANGED <<db, pool, choices, open, created, usage>>

RetryAfter(j) ==
    /\ At(j, "sending")
    /\ NextAttempt(j)
    /\ UNCHANGED <<db, pool, choices, open, created, usage>>

\* TelegramForbiddenError: mark_bot_failed drops the bot from the platform
\* cache, then reads its row ...
Forbidden(j) ==
    /\ At(j, "sending")
    /\ cache' = [p \in Platforms |-> IF cache[p] = job[j].bot THEN NoBot ELSE cache[p]]
    /\ kept'  = [p \in Platforms |-> IF cache[p] = job[j].bot THEN {} ELSE kept[p]]
    /\ GoTo(j, "reading")
    /\ UNCHANGED <<db, pool, asked, open, created, usage>>

ReadRow(j) ==
    /\ At(j, "reading")
    /\ job' = [job EXCEPT ![j].pc = "counting", ![j].seen = fails[job[j].bot]]
    /\ UNCHANGED <<db, pool, choices, open, created, usage>>

\* ... counts the failure; at the limit the bot leaves the pool, unclosed ...
\* Faulty: off by one.
AtLimitEarly(j) == job[j].seen + 2 >= FailLimit
AtLimit(j)      == job[j].seen + 1 >= FailLimit

Count(j) ==
    /\ At(j, "counting")
    /\ pool' = IF AtLimit(j) THEN Without(job[j].bot) ELSE pool
    /\ GoTo(j, "committing")
    /\ UNCHANGED <<db, choices, open, created, usage>>

\* ... and commits what it counted from the row it read.
CommitRow(j) ==
    /\ At(j, "committing")
    /\ LET b == job[j].bot
       IN /\ fails'  = [fails EXCEPT ![b] = job[j].seen + 1]
          /\ active' = [active EXCEPT ![b] = @ /\ ~AtLimit(j)]
          /\ marks'  = [marks EXCEPT ![b] = @ + 1]
    /\ NextAttempt(j)
    /\ UNCHANGED <<rows, pool, choices, open, created, usage>>

---------------------------------------------------------------------------
(* New rows, and the end of the process                                    *)

\* scripts/add_bot.py: a row of its own, active and without failures. (After the
\* last job it would not be seen.)
AddBot(b) ==
    /\ b \notin rows
    /\ \E j \in Jobs : ~At(j, "done")
    /\ rows' = rows \cup {b}
    /\ UNCHANGED <<active, fails, marks, pool, choices, open, created, job, usage>>

\* Cancelled jobs: whatever they await raises, and nothing of theirs is done
\* after it. A batch under way may have been written.
CutJobs ==
    job' = [j \in Jobs |-> IF At(j, "done") THEN job[j]
                           ELSE Blank("done", "cut")]

\* stop() has waited SHUTDOWN_TIMEOUT for the jobs, and cancels them.
DrainTimeout ==
    /\ shutdown = "no"
    /\ \E j \in Jobs : ~At(j, "done")
    /\ CutJobs
    /\ WriteBatch
    /\ UNCHANGED <<db, pool, choices, open, created, pending, shutdown>>

\* main() returns (consume_loop ends when stop() has the consumer closed, or a
\* record comes while it drains) or the process is killed: every task is cut,
\* _shutdown in its sleep or its flush with them, and what is in memory is gone.
MainReturns ==
    /\ shutdown \in {"no", "flushing"}
    /\ shutdown' = "cut"
    /\ CutJobs
    /\ \/ owed' = owed \ batch /\ lost' = lost \cup pending
       \/ owed' = owed /\ lost' = lost \cup pending \cup batch
    /\ pending' = {} /\ batch' = {}
    /\ pool' = <<>> /\ open' = {}
    /\ cache' = [p \in Platforms |-> NoBot] /\ kept' = [p \in Platforms |-> {}]
    /\ UNCHANGED <<db, asked, created>>

\* _shutdown, if main() lets it come to that: _flush_mark_used, without the lock,
\* and close_all.
ShutdownFlush ==
    /\ shutdown = "no"
    /\ \A j \in Jobs : At(j, "done")
    /\ shutdown' = "flushing"
    /\ batch' = pending
    /\ pending' = {}
    /\ UNCHANGED <<db, pool, choices, open, created, job, owed, lost>>

CloseAll ==
    /\ shutdown = "flushing"
    /\ shutdown' = "closed"
    /\ WriteBatch
    /\ open' = open \ {e.client : e \in Entries}
    /\ pool' = <<>>
    /\ UNCHANGED <<db, choices, created, job, pending>>

---------------------------------------------------------------------------

Step(j) ==
    \/ Acquire(j) \/ Lookup(j) \/ Query(j) \/ Fallback(j) \/ Found(j) \/ Load(j) \/ Create(j)
    \/ Evicted(j) \/ Sent(j) \/ Rejected(j) \/ RetryAfter(j) \/ Forbidden(j)
    \/ ReadRow(j) \/ Count(j) \/ CommitRow(j) \/ MarkUsed(j) \/ Flushed(j)

Next ==
    \/ DrainTimeout \/ MainReturns \/ ShutdownFlush \/ CloseAll
    \/ \E b \in Bots : AddBot(b)
    \/ \E j \in Jobs : Step(j)

Spec == Init /\ [][Next]_vars

\* Every job is scheduled; database, Telegram and sleeps return.
FairSpec == Spec /\ \A j \in Jobs : WF_vars(Step(j))

---------------------------------------------------------------------------
(* Properties                                                              *)

\* However the evictions of several jobs overlap, the pool never holds more
\* bots than BOT_POOL_MAX_SIZE.
PoolBounded == Len(pool) <= MaxSize

\* A bot in the pool has an open session and is there once: an eviction never
\* leaves a closed bot to be handed out later.
PoolIsUsable ==
    /\ \A e \in Entries : e.client \in open
    /\ \A i, k \in DOMAIN pool : pool[i].bot = pool[k].bot => i = k

\* A job posts through a bot of no or an other platform only while its own has
\* no active bot but such as were added after that choice was looked up, by this
\* job or by the one that left it in the cache (bot_pool.py:78-111). A fallback
\* goes on posting until its cache entry is 60 s old.
RightBot ==
    \A j \in Jobs : At(j, "sending") /\ BoundTo[job[j].bot] # PlatformOf[j]
                    => \A b \in BoundBots(PlatformOf[j]) : b \notin asked[j]

\* A bot is never deactivated early: whatever counts are lost, the limit is not
\* reached with fewer failures (bot_pool.py:126-128).
NoEarlyDeactivation == \A b \in Bots : ~active[b] => marks[b] >= FailLimit

\* Every job comes to a verdict: retries end.
EveryJobEnds == \A j \in Jobs : <>At(j, "done")

\* No use of a bot is forgotten: a bot whose last_used_at is older than its last
\* use is pending or in a batch under way, unless the write of that use failed or
\* the process ended first. A shutdown that comes to its end leaves none, and a
\* batch is written as soon as it is full (service.py:259-289).
UsesAreKept ==
    /\ owed \subseteq pending \cup batch \cup lost
    /\ shutdown = "closed" => owed \subseteq lost
    /\ Cardinality(pending) < BatchSize

===========================================================================
