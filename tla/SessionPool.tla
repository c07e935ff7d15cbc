---------------------------- MODULE SessionPool ----------------------------
(***************************************************************************)
(* Scraping through a pool of Telethon sessions                            *)
(* (src/modules/scraping/session_pool.py and the retry loop of             *)
(* scrape_platform in src/modules/scraping/service.py).                    *)
(*                                                                         *)
(* Each job is one scrape_platform call. Jobs share one event loop and may *)
(* overtake each other at every await and nowhere else: at a database      *)
(* query, at the pool's lock when somebody holds it, while a client        *)
(* connects (the lock is held all along), during the jitter, at Telegram.  *)
(*                                                                         *)
(* Left out: the order of the rows and the round-robin index (which of the *)
(* free sessions is taken is left open), last_used_at, roles, the length   *)
(* of a cooldown, and what a scrape collects.                              *)
(***************************************************************************)
EXTENDS Integers, FiniteSets

CONSTANTS
    Jobs,        \* scrape_platform calls
    NoJob,       \* "nobody holds the lock"
    Sessions,    \* rows of telegram_sessions with role "scrape"
    NoSession,
    DeadProxy,   \* sessions whose proxy is inactive or missing
    Permits,     \* _SCRAPING_SEM (10 in the code)
    FailLimit,   \* failures that ban a session (5 in the code)
    MaxRetries,  \* _MAX_SCRAPE_RETRIES (3 in the code)
    MaxDepth,    \* recursion of get_session over dead proxies (10 in the code)
    Adversity    \* what may go wrong

Adversities == {"flood", "fail", "unauthorized", "raise", "disconnect", "cancel"}

ASSUME NamesAssumption     == NoJob \notin Jobs /\ NoSession \notin Sessions
ASSUME ProxyAssumption     == DeadProxy \subseteq Sessions
ASSUME LimitsAssumption    == /\ {Permits, FailLimit, MaxRetries} \subseteq Nat \ {0}
                              /\ MaxDepth \in Nat
ASSUME AdversityAssumption == Adversity \subseteq Adversities

VARIABLES
    status,   \* database: status of each session
    cooling,  \* database: flood_wait_until lies in the future
    fails,    \* database: fail_count
    pool,     \* _pool: is there a client, and is it connected
    busy,     \* _busy
    lock,     \* _lock: the job that holds it
    live,     \* connected clients of each session (one let go of stays connected)
    job,      \* where each job stands
    dropped,  \* history: connected clients the pool let go of
    marks,    \* history: completed mark_session_failed calls
    closed    \* close_all has run

db    == <<status, cooling, fails, marks>>
conns == <<pool, live, dropped>>
vars  == <<status, cooling, fails, pool, busy, lock, live, job, dropped, marks, closed>>

\* Up to "jitter" a job is inside get_session; "connecting" holds the lock.
Pcs == {"entering", "querying", "choosing", "proxy", "acquiring", "connecting", "jitter",
        "scraping", "releasing", "dropping", "reading", "counting", "committing", "done"}
Verdicts  == {"none", "ok", "noSession", "keyError", "raised", "exhausted", "cancelled"}
JobStates == [pc : Pcs, attempt : 0 .. (MaxRetries - 1), depth : 0 .. MaxDepth,
              rows : SUBSET Sessions, session : Sessions \cup {NoSession},
              seen : Nat, verdict : Verdicts]

TypeOK ==
    /\ status  \in [Sessions -> {"active", "banned", "archived"}]
    /\ cooling \in [Sessions -> BOOLEAN]
    /\ fails   \in [Sessions -> Nat]
    /\ pool    \in [Sessions -> {"none", "up", "down"}]
    /\ busy    \in SUBSET Sessions
    /\ lock    \in Jobs \cup {NoJob}
    /\ live    \in [Sessions -> Nat]
    /\ job     \in [Jobs -> JobStates]
    /\ dropped \in [Sessions -> Nat]
    /\ marks   \in [Sessions -> Nat]
    /\ closed  \in BOOLEAN

Init ==
    /\ status  = [s \in Sessions |-> "active"]
    /\ cooling = [s \in Sessions |-> FALSE]
    /\ fails   = [s \in Sessions |-> 0]
    /\ pool    = [s \in Sessions |-> "none"]
    /\ busy    = {}
    /\ lock    = NoJob
    /\ live    = [s \in Sessions |-> 0]
    /\ job     = [j \in Jobs |-> [pc |-> "entering", attempt |-> 0, depth |-> 0, rows |-> {},
                                  session |-> NoSession, seen |-> 0, verdict |-> "none"]]
    /\ dropped = [s \in Sessions |-> 0]
    /\ marks   = [s \in Sessions |-> 0]
    /\ closed  = FALSE

---------------------------------------------------------------------------
(* Helpers                                                                 *)

At(j, pc)          == job[j].pc = pc
GoTo(j, pc)        == job' = [job EXCEPT ![j].pc = pc]
Finish(j, verdict) == job' = [job EXCEPT ![j].pc = "done", ![j].verdict = verdict]
May(kind)          == kind \in Adversity
Unlocked           == lock = NoJob
Inside             == {j \in Jobs : job[j].pc \notin {"entering", "done"}}
Eligible           == {s \in Sessions : status[s] = "active" /\ ~cooling[s]}
One(s)             == [t \in Sessions |-> IF t = s THEN 1 ELSE 0]
Plus(f, g)         == [t \in Sessions |-> f[t] + g[t]]
Minus(f, g)        == [t \in Sessions |-> f[t] - g[t]]

\* A job has this session in hand: from choosing it to giving it back.
Holding(j) == job[j].pc \in {"proxy", "acquiring", "connecting", "jitter", "scraping",
                             "releasing", "dropping", "reading", "counting"}

\* Another attempt, or SessionError after the last.
\* Faulty: one attempt too many.
NextAttemptOneMore(j) ==
    IF job[j].attempt < MaxRetries
    THEN job' = [job EXCEPT ![j].pc = "querying", ![j].attempt = @ + 1, ![j].depth = 0]
    ELSE Finish(j, "exhausted")

NextAttempt(j) ==
    IF job[j].attempt < MaxRetries - 1
    THEN job' = [job EXCEPT ![j].pc = "querying", ![j].attempt = @ + 1, ![j].depth = 0]
    ELSE Finish(j, "exhausted")

\* `_busy.discard` and `del _pool[...]`: the client is dropped, not disconnected.
Drop(s) ==
    /\ busy' = busy \ {s}
    /\ pool' = [pool EXCEPT ![s] = "none"]
    /\ dropped' = IF pool[s] = "up" THEN Plus(dropped, One(s)) ELSE dropped
    /\ UNCHANGED live

\* A client that is connected, and that nobody keeps.
LeaveBehind(s) ==
    /\ live' = Plus(live, One(s))
    /\ dropped' = Plus(dropped, One(s))
    /\ UNCHANGED pool

---------------------------------------------------------------------------
(* get_session                                                             *)

\* The semaphore.
Enter(j) ==
    /\ At(j, "entering")
    /\ Cardinality(Inside) < Permits
    /\ GoTo(j, "querying")
    /\ UNCHANGED <<db, conns, busy, lock, closed>>

\* The snapshot of the eligible rows; NoAvailableSessionError when empty.
Query(j) ==
    /\ At(j, "querying")
    /\ IF Eligible = {}
       THEN Finish(j, "noSession")
       ELSE job' = [job EXCEPT ![j].pc = "choosing", ![j].rows = Eligible]
    /\ UNCHANGED <<db, conns, busy, lock, closed>>

\* Under the lock: a session of the snapshot that is not busy, any when all
\* are (sharing).
ChoicesAny(rows) == rows                    \* faulty: busy sessions are not skipped
Choices(rows)    == IF rows \subseteq busy THEN rows ELSE rows \ busy

Choose(j) ==
    /\ At(j, "choosing")
    /\ Unlocked
    /\ \E s \in Choices(job[j].rows) :
          /\ busy' = busy \cup {s}
          /\ job' = [job EXCEPT ![j].pc = "proxy", ![j].session = s, ![j].rows = {}]
    /\ UNCHANGED <<db, conns, lock, closed>>

\* A session with a dead proxy is skipped, still busy, and get_session calls
\* itself. Faulty: without a limit.
CheckProxyForEver(j) ==
    /\ At(j, "proxy")
    /\ GoTo(j, IF job[j].session \in DeadProxy THEN "querying" ELSE "acquiring")
    /\ UNCHANGED <<db, conns, busy, lock, closed>>

CheckProxy(j) ==
    /\ At(j, "proxy")
    /\ \/ job[j].session \notin DeadProxy /\ GoTo(j, "acquiring")
       \/ /\ job[j].session \in DeadProxy
          /\ IF job[j].depth >= MaxDepth
             THEN Finish(j, "noSession")
             ELSE job' = [job EXCEPT ![j].pc = "querying", ![j].depth = @ + 1]
    /\ UNCHANGED <<db, conns, busy, lock, closed>>

\* A connected client is used at once. Otherwise a dead one is removed and a
\* new one connects while the lock is held.
\* Faulty: the lock is not held while the client connects.
AcquireUnheld(j) ==
    /\ At(j, "acquiring")
    /\ Unlocked
    /\ LET s == job[j].session
       IN IF pool[s] = "up"
          THEN GoTo(j, "jitter") /\ UNCHANGED pool
          ELSE GoTo(j, "connecting") /\ pool' = [pool EXCEPT ![s] = "none"]
    /\ UNCHANGED <<db, busy, lock, live, dropped, closed>>

Acquire(j) ==
    /\ At(j, "acquiring")
    /\ Unlocked
    /\ LET s == job[j].session
       IN \/ pool[s] = "up" /\ GoTo(j, "jitter") /\ UNCHANGED <<pool, lock>>
          \/ /\ pool[s] # "up"
             /\ pool' = [pool EXCEPT ![s] = "none"]
             /\ lock' = j
             /\ GoTo(j, "connecting")
    /\ UNCHANGED <<db, busy, live, dropped, closed>>

Connected(j) ==
    /\ At(j, "connecting")
    /\ pool' = [pool EXCEPT ![job[j].session] = "up"]
    /\ live' = Plus(live, One(job[j].session))
    /\ lock' = NoJob
    /\ GoTo(j, "jitter")
    /\ UNCHANGED <<db, busy, dropped, closed>>

\* is_user_authorized() is false: the row is archived, NoAvailableSessionError
\* ends the call, and the client stays connected.
Unauthorized(j) ==
    /\ May("unauthorized")
    /\ At(j, "connecting")
    /\ status' = [status EXCEPT ![job[j].session] = "archived"]
    /\ LeaveBehind(job[j].session)
    /\ lock' = NoJob
    /\ Finish(j, "noSession")
    /\ UNCHANGED <<cooling, fails, marks, busy, closed>>

\* After the jitter: `self._pool[session.id]`, a KeyError when it is gone.
Obtain(j) ==
    /\ At(j, "jitter")
    /\ IF pool[job[j].session] = "none" THEN Finish(j, "keyError") ELSE GoTo(j, "scraping")
    /\ UNCHANGED <<db, conns, busy, lock, closed>>

---------------------------------------------------------------------------
(* scrape_platform                                                         *)

\* A result, or an error that is the channel's fault; mark_used.
Scraped(j) ==
    /\ At(j, "scraping")
    /\ GoTo(j, "releasing")
    /\ UNCHANGED <<db, conns, busy, lock, closed>>

\* release_session.
\* Faulty: the session is not given back.
ReleaseNothing(j) ==
    /\ At(j, "releasing")
    /\ Unlocked
    /\ Finish(j, "ok")
    /\ UNCHANGED <<db, conns, busy, lock, closed>>

Release(j) ==
    /\ At(j, "releasing")
    /\ Unlocked
    /\ busy' = busy \ {job[j].session}
    /\ Finish(j, "ok")
    /\ UNCHANGED <<db, conns, lock, closed>>

\* FloodWaitError: mark_flood_wait writes the cooldown ...
Flooded(j) ==
    /\ May("flood")
    /\ At(j, "scraping")
    /\ cooling' = [cooling EXCEPT ![job[j].session] = TRUE]
    /\ GoTo(j, "dropping")
    /\ UNCHANGED <<status, fails, marks, conns, busy, lock, closed>>

\* ... then takes the session out of the pool.
DropFlooded(j) ==
    /\ At(j, "dropping")
    /\ Unlocked
    /\ Drop(job[j].session)
    /\ NextAttempt(j)
    /\ UNCHANGED <<db, lock, closed>>

\* Any other error, the 60 s timeout included: mark_session_failed reads ...
Failed(j) ==
    /\ May("fail")
    /\ At(j, "scraping")
    /\ GoTo(j, "reading")
    /\ UNCHANGED <<db, conns, busy, lock, closed>>

ReadRow(j) ==
    /\ At(j, "reading")
    /\ job' = [job EXCEPT ![j].pc = "counting", ![j].seen = fails[job[j].session]]
    /\ UNCHANGED <<db, conns, busy, lock, closed>>

\* ... counts, giving the session back only at the limit ...
AtLimitEarly(j) == job[j].seen + 2 >= FailLimit   \* faulty: off by one
AtLimit(j)      == job[j].seen + 1 >= FailLimit

Count(j) ==
    /\ At(j, "counting")
    /\ GoTo(j, "committing")
    /\ \/ ~AtLimit(j) /\ UNCHANGED <<conns, busy>>
       \/ AtLimit(j) /\ Unlocked /\ Drop(job[j].session)
    /\ UNCHANGED <<db, lock, closed>>

\* ... and commits. A frozen account is not retried.
CommitRow(j) ==
    /\ At(j, "committing")
    /\ LET s == job[j].session
       IN /\ fails'  = [fails EXCEPT ![s] = job[j].seen + 1]
          /\ status' = [status EXCEPT ![s] = IF AtLimit(j) THEN "banned" ELSE @]
          /\ marks'  = [marks EXCEPT ![s] = @ + 1]
    /\ NextAttempt(j) \/ Finish(j, "exhausted")
    /\ UNCHANGED <<cooling, conns, busy, lock, closed>>

\* What a call that ends while it connects does to the connections: connect() had
\* not come to its end, or it had, and is_user_authorized() or the UPDATE after it
\* did not.
BrokenOff(j) ==
    \/ UNCHANGED conns
    \/ At(j, "connecting") /\ LeaveBehind(job[j].session)

\* A database call, connect() or is_user_authorized() raises outside the `try`, or
\* inside one of its handlers: the call ends there and the lock, if held, is
\* released.
Raise(j) ==
    /\ May("raise")
    /\ job[j].pc \in {"querying", "proxy", "connecting", "releasing", "dropping", "reading",
                      "committing"}
    /\ lock' = IF lock = j THEN NoJob ELSE lock
    /\ BrokenOff(j)
    /\ Finish(j, "raised")
    /\ UNCHANGED <<db, busy, closed>>

\* The consumer cancels the task, at whatever it awaits.
Cancel(j) ==
    /\ May("cancel")
    /\ ~At(j, "done")
    /\ lock' = IF lock = j THEN NoJob ELSE lock
    /\ BrokenOff(j)
    /\ Finish(j, "cancelled")
    /\ UNCHANGED <<db, busy, closed>>

---------------------------------------------------------------------------
(* Around the jobs                                                         *)

\* Time passes: the cooldown ends.
CoolDown(s) ==
    /\ cooling[s]
    /\ cooling' = [cooling EXCEPT ![s] = FALSE]
    /\ UNCHANGED <<status, fails, marks, conns, busy, lock, job, closed>>

\* A pooled client loses its connection.
Disconnect(s) ==
    /\ May("disconnect")
    /\ pool[s] = "up"
    /\ pool' = [pool EXCEPT ![s] = "down"]
    /\ live' = Minus(live, One(s))
    /\ UNCHANGED <<db, busy, lock, job, dropped, closed>>

\* Shutdown, after the consumer has drained.
CloseAll ==
    /\ ~closed
    /\ \A j \in Jobs : At(j, "done")
    /\ pool' = [s \in Sessions |-> "none"]
    /\ live' = [s \in Sessions |-> IF pool[s] = "up" THEN live[s] - 1 ELSE live[s]]
    /\ closed' = TRUE
    /\ UNCHANGED <<db, busy, lock, job, dropped>>

Step(j) ==
    \/ Enter(j) \/ Query(j) \/ Choose(j) \/ CheckProxy(j) \/ Acquire(j) \/ Connected(j)
    \/ Unauthorized(j) \/ Obtain(j) \/ Scraped(j) \/ Release(j) \/ Flooded(j)
    \/ DropFlooded(j) \/ Failed(j) \/ ReadRow(j) \/ Count(j) \/ CommitRow(j)

Next ==
    \/ \E j \in Jobs : Step(j) \/ Raise(j) \/ Cancel(j)
    \/ \E s \in Sessions : CoolDown(s) \/ Disconnect(s)
    \/ CloseAll

Spec == Init /\ [][Next]_vars

\* Every job is scheduled; database calls, connect() and scrapes return (each
\* has a timeout), and the lock is handed on in the order it was asked for.
FairSpec == Spec /\ \A j \in Jobs : WF_vars(Step(j))

---------------------------------------------------------------------------
(* Properties                                                              *)

\* No connection is lost track of unnoticed: the connected clients of a session
\* are the one in the pool and those that were let go of, by a FloodWait, a ban or
\* a call that broke off while connecting. A session may so be connected several
\* times over, but never because two jobs that share it put one client over the
\* other: the lock is held while one connects (session_pool.py:95-114).
ConnectionsAccounted ==
    \A s \in Sessions : live[s] = dropped[s] + (IF pool[s] = "up" THEN 1 ELSE 0)

\* With no more jobs inside the semaphore than eligible sessions, a session
\* never serves two jobs (session_pool.py:55-65).
ExclusiveUse ==
    \A i, j \in Jobs : i # j /\ Holding(i) /\ Holding(j) => job[i].session # job[j].session

\* "_busy: the sessions in use now" (session_pool.py:35): a busy
\* session is in some job's hands. A scrape that fails otherwise than by a
\* FloodWait keeps it for ever.
BusyIsInUse ==
    \A s \in busy : \E j \in Jobs : job[j].session = s /\ (Holding(j) \/ At(j, "committing"))

\* A session is never banned early: whatever counts are lost, five failures
\* were committed (session_pool.py:145-147).
NoEarlyBan == \A s \in Sessions : status[s] = "banned" => marks[s] >= FailLimit

\* Every scrape comes to an end: the retries, the search for a session with a
\* live proxy and the lock all let go.
EveryScrapeEnds == \A j \in Jobs : <>At(j, "done")

===========================================================================
