---------------------------- MODULE Lifecycle ----------------------------
(***************************************************************************)
(* One process of the service from start to exit: main() and _shutdown()   *)
(* of src/main.py, start, stop and consume_loop of src/transport/          *)
(* consumer.py, and the readiness probe of src/core/healthcheck.py, which  *)
(* is answered by the same event loop.                                     *)
(*                                                                         *)
(* Each signal starts a _shutdown() of its own, a task beside main(). All  *)
(* tasks end when main() returns: asyncio.run() then cancels whatever is   *)
(* left, and waits for it. An action is what happens between two awaits.   *)
(*                                                                         *)
(* External: aiokafka ends the iteration of a consumer once stop() was     *)
(* called. What a message does is in TaskConsumer; here it is in flight or *)
(* not, and opens the clients it needs.                                    *)
(***************************************************************************)
EXTENDS Integers, FiniteSets

CONSTANTS
    Messages,  \* records that arrive while the process runs
    Signals,   \* SIGTERM, SIGINT
    Probes,    \* requests for /healthz
    Faults     \* bound: starts, stops and iterations that raise

ASSUME FaultsAssumption == Faults \in Nat

VARIABLES
    main,       \* where main() stands
    running,    \* KafkaTaskConsumer._running
    tasks,      \* the task of each message
    shut,       \* where the _shutdown() of each signal stands
    open,       \* what has been opened and not closed
    timedOut,   \* history: a drain lasted SHUTDOWN_TIMEOUT
    faults,     \* faults left
    probe,      \* what became of each probe
    recent      \* _last_check_time is less than _MIN_CHECK_INTERVAL ago

health == <<probe, recent>>
vars   == <<main, running, tasks, shut, open, timedOut, faults, health>>

Pools     == {"bots", "sessions"}
Resources == Pools \cup {"consumer", "producer", "engine", "redis"}
Closing   == {"flushing"} \cup (Resources \ {"consumer"})
ShutSteps == Closing \cup {"none", "called", "draining", "cancelling", "stopping",
                           "sleeping", "done", "dead"}

TypeOK ==
    /\ main      \in {"new", "producing", "consuming", "running", "returned", "exited"}
    /\ running   \in BOOLEAN
    /\ tasks     \in [Messages -> {"none", "working", "cancelled", "ended"}]
    /\ shut      \in [Signals -> ShutSteps]
    /\ open      \in SUBSET Resources
    /\ timedOut  \in BOOLEAN
    /\ faults    \in 0 .. Faults
    /\ probe     \in [Probes -> {"idle", "checking", "ready", "unready", "limited"}]
    /\ recent    \in BOOLEAN
    \* The consumer runs from its start until it is stopped.
    /\ running => main \notin {"new", "producing"}

Init ==
    /\ main      = "new"
    /\ running   = FALSE
    /\ tasks     = [m \in Messages |-> "none"]
    /\ shut      = [s \in Signals |-> "none"]
    /\ open      = {}
    /\ timedOut  = FALSE
    /\ faults    = Faults
    /\ probe     = [q \in Probes |-> "idle"]
    /\ recent    = FALSE

InFlight    == {m \in Messages : tasks[m] \in {"working", "cancelled"}}
Cancelled   == [m \in Messages |-> IF m \in InFlight THEN "cancelled" ELSE tasks[m]]
GoTo(s, pc) == shut' = [shut EXCEPT ![s] = pc]
Raise       == faults > 0 /\ faults' = faults - 1
Serving     == main \in {"running", "returned"}

---------------------------------------------------------------------------
(* main(): the start, step by step                                         *)

StartUp(from, to, opened) ==
    /\ main = from
    /\ open' = open \cup opened
    /\ main' = to
    /\ UNCHANGED <<tasks, shut, timedOut, faults, health>>

\* producer.start(); _register_handlers asks for the Redis pool.
\* Faulty: _running is set before the consumer has started.
StartProducerRunning == StartUp("new", "producing", {"producer", "redis"}) /\ running' = TRUE

StartProducer == StartUp("new", "producing", {"producer", "redis"}) /\ UNCHANGED running

StartConsumer == StartUp("producing", "consuming", {"consumer"}) /\ running' = TRUE

\* start_healthcheck_server, the signal handlers, and into consume_loop.
StartHealth == StartUp("consuming", "running", {}) /\ UNCHANGED running

\* A start raises: main() ends, and what was started before stays open.
StartFails ==
    /\ main \in {"new", "producing", "consuming"}
    /\ Raise
    /\ main' = "exited"
    /\ UNCHANGED <<running, tasks, shut, open, timedOut, health>>

\* A signal before its handler is in place ends the process.
Killed ==
    /\ main \in {"new", "producing", "consuming"}
    /\ main' = "exited"
    /\ UNCHANGED <<running, tasks, shut, open, timedOut, faults, health>>

---------------------------------------------------------------------------
(* main(): the end                                                         *)

\* main() returns; asyncio.run() cancels the tasks and the _shutdown()s that
\* have not ended, all but those in `finished`.
MainReturns(finished) ==
    /\ main' = "returned"
    /\ tasks' = Cancelled
    /\ shut' = [s \in Signals |->
                  IF s \in finished THEN "done"
                  ELSE IF shut[s] \in {"none", "done"} THEN shut[s] ELSE "dead"]

\* consume_loop: the next record becomes a task, or, after stop() has begun,
\* ends the loop.
Receive(m) ==
    /\ main = "running"
    /\ "consumer" \in open
    /\ tasks[m] = "none"
    /\ IF running
       THEN tasks' = [tasks EXCEPT ![m] = "working"] /\ UNCHANGED <<main, shut>>
       ELSE MainReturns({})
    /\ UNCHANGED <<running, open, timedOut, faults, health>>

\* The iteration ends since the consumer was stopped.
LoopEnds ==
    /\ main = "running"
    /\ "consumer" \notin open
    /\ MainReturns({})
    /\ UNCHANGED <<running, open, timedOut, faults, health>>

\* The iteration raises, and main() with it.
LoopFails ==
    /\ main = "running"
    /\ Raise
    /\ MainReturns({})
    /\ UNCHANGED <<running, open, timedOut, health>>

\* asyncio.run() has waited for all it cancelled.
Exit ==
    /\ main = "returned"
    /\ InFlight = {}
    /\ main' = "exited"
    /\ UNCHANGED <<running, tasks, shut, open, timedOut, faults, health>>

---------------------------------------------------------------------------
(* The tasks                                                               *)

\* A task opens the clients and the database connections it needs.
Work(m, r) ==
    /\ tasks[m] = "working"
    /\ open' = open \cup {r}
    /\ UNCHANGED <<main, running, tasks, shut, timedOut, faults, health>>

\* Done, or through its `finally` after a cancellation.
TaskEnds(m) ==
    /\ m \in InFlight
    /\ tasks' = [tasks EXCEPT ![m] = "ended"]
    /\ UNCHANGED <<main, running, shut, open, timedOut, faults, health>>

---------------------------------------------------------------------------
(* _shutdown()                                                             *)

\* The handler creates the task; one created after main() has returned still
\* runs while asyncio.run() waits.
Signal(s) ==
    /\ Serving
    /\ shut[s] = "none"
    /\ GoTo(s, "called")
    /\ UNCHANGED <<main, running, tasks, open, timedOut, faults, health>>

\* consumer.stop(): wait for the tasks there are, and close the client, which
\* takes the consumer out of service at once.
CloseConsumer(s) == open' = open \ {"consumer"} /\ GoTo(s, "stopping")

Stop(s) ==
    /\ main # "exited"
    /\ shut[s] = "called"
    /\ running' = FALSE
    /\ IF InFlight = {} THEN CloseConsumer(s) ELSE GoTo(s, "draining") /\ UNCHANGED open
    /\ UNCHANGED <<main, tasks, timedOut, faults, health>>

Drained(s) ==
    /\ main # "exited"
    /\ shut[s] \in {"draining", "cancelling"}
    /\ InFlight = {}
    /\ CloseConsumer(s)
    /\ UNCHANGED <<main, running, tasks, timedOut, faults, health>>

\* The tasks are cancelled and gathered.
\* Faulty: they are not cancelled, or not gathered.
DrainOnly(s) ==
    /\ main # "exited"
    /\ shut[s] = "draining"
    /\ InFlight # {}
    /\ timedOut' = TRUE
    /\ GoTo(s, "cancelling")
    /\ UNCHANGED <<main, running, tasks, open, faults, health>>

DrainNoGather(s) ==
    /\ main # "exited"
    /\ shut[s] = "draining"
    /\ InFlight # {}
    /\ timedOut' = TRUE
    /\ tasks' = Cancelled
    /\ CloseConsumer(s)
    /\ UNCHANGED <<main, running, faults, health>>

DrainTimeout(s) ==
    /\ main # "exited"
    /\ shut[s] = "draining"
    /\ InFlight # {}
    /\ timedOut' = TRUE
    /\ tasks' = Cancelled
    /\ GoTo(s, "cancelling")
    /\ UNCHANGED <<main, running, open, faults, health>>

\* The order of the steps from here on.
\* Faulty: the producer before the pools.
AfterProducerFirst ==
    [stopping |-> "sleeping", sleeping |-> "flushing", flushing |-> "producer",
     producer |-> "bots", bots |-> "sessions", sessions |-> "engine", engine |-> "redis"]
After ==
    [stopping |-> "sleeping", sleeping |-> "flushing", flushing |-> "bots",
     bots |-> "sessions", sessions |-> "producer", producer |-> "engine", engine |-> "redis"]

\* An await of _shutdown() returns, and the next step begins. The flush writes
\* to the database when there is something to write.
Proceed(s) ==
    /\ main # "exited"
    /\ shut[s] \in DOMAIN After
    /\ IF shut[s] = "flushing"
       THEN open' \in {open, open \cup {"engine"}}
       ELSE open' = open \ {shut[s]}
    /\ GoTo(s, After[shut[s]])
    /\ UNCHANGED <<main, running, tasks, timedOut, faults, health>>

\* close_redis() returns, and main_task.cancel() ends main().
CloseRedis(s) ==
    /\ main # "exited"
    /\ shut[s] = "redis"
    /\ open' = open \ {"redis"}
    /\ IF main = "running"
       THEN MainReturns({s})
       ELSE GoTo(s, "done") /\ UNCHANGED <<main, tasks>>
    /\ UNCHANGED <<running, timedOut, faults, health>>

\* A stop raises and takes its _shutdown() down. So does a pool that an other
\* _shutdown() clears while this one walks through it.
ShutdownFails(s) ==
    /\ main # "exited"
    /\ \/ shut[s] \in {"stopping", "producer", "engine", "redis"} /\ Raise
       \/ shut[s] \in Pools \ open /\ UNCHANGED faults
    /\ GoTo(s, "dead")
    /\ UNCHANGED <<main, running, tasks, open, timedOut, health>>

---------------------------------------------------------------------------
(* The readiness probe                                                     *)

\* 429, or check_health(): it asks the database and Redis, whose pools it
\* opens again when _shutdown() has closed them.
Probe(q) ==
    /\ Serving
    /\ probe[q] = "idle"
    /\ IF recent
       THEN probe' = [probe EXCEPT ![q] = "limited"] /\ UNCHANGED open
       ELSE probe' = [probe EXCEPT ![q] = "checking"] /\ open' = open \cup {"engine", "redis"}
    /\ recent' = TRUE
    /\ UNCHANGED <<main, running, tasks, shut, timedOut, faults>>

\* 200 when database, Redis and the assignment are there, 503 otherwise.
Answer(q) ==
    /\ Serving
    /\ probe[q] = "checking"
    /\ \E status \in {"ready", "unready"} : probe' = [probe EXCEPT ![q] = status]
    /\ UNCHANGED <<main, running, tasks, shut, open, timedOut, faults, recent>>

\* A second has passed.
IntervalEnds ==
    /\ recent
    /\ recent' = FALSE
    /\ UNCHANGED <<main, running, tasks, shut, open, timedOut, faults, probe>>

---------------------------------------------------------------------------

Start   == StartProducer \/ StartConsumer \/ StartHealth \/ StartFails
Loop    == LoopEnds \/ LoopFails \/ \E m \in Messages : Receive(m)
ShutStep(s) ==
    Stop(s) \/ Drained(s) \/ DrainTimeout(s) \/ Proceed(s) \/ CloseRedis(s) \/ ShutdownFails(s)

Next ==
    \/ Start \/ Killed \/ Loop \/ Exit \/ IntervalEnds
    \/ \E m \in Messages : TaskEnds(m) \/ \E r \in Pools \cup {"engine"} : Work(m, r)
    \/ \E s \in Signals : Signal(s) \/ ShutStep(s)
    \/ \E q \in Probes : Probe(q) \/ Answer(q)

Spec == Init /\ [][Next]_vars

\* Steps of _shutdown() and of main() are scheduled, stops return or raise, the
\* drain's timer fires, a cancelled task ends. Nothing is assumed of a task that
\* is not cancelled: it may hang for ever.
Fairness ==
    /\ WF_vars(LoopEnds) /\ WF_vars(Exit)
    /\ \A s \in Signals : WF_vars(ShutStep(s))
    /\ \A m \in Messages : WF_vars(tasks[m] = "cancelled" /\ TaskEnds(m))

FairSpec == Spec /\ Fairness

---------------------------------------------------------------------------
(* Properties                                                              *)

\* No task is in flight while a _shutdown() closes what tasks use, whatever
\* second signals, timeouts and late records do (consumer.py:122-134, main.py:
\* 76-94).
NothingInFlight == \A s \in Signals : shut[s] \in Closing => InFlight = {}

\* What tasks and pools use goes after them, with two _shutdown()s at work as
\* well: the producer after the consumer and the pools, the database and Redis
\* after the producer (main.py:10-14).
UsersOf(r) ==
    CASE r \in Pools -> {"consumer"}
      [] r = "producer" -> Pools \cup {"consumer"}
      [] r \in {"engine", "redis"} -> Pools \cup {"consumer", "producer"}
      [] OTHER -> {}
ClosedInOrder == [][\A r \in open \ open' : UsersOf(r) \cap open' = {}]_vars

\* A signal ends the process in the end, even with tasks that hang.
SignalEndsProcess == (\E s \in Signals : shut[s] # "none") ~> main = "exited"

\* Contradicted: tasks in flight have SHUTDOWN_TIMEOUT to end (main.py:11).
DrainHasItsTime == (\E m \in Messages : tasks[m] = "cancelled") => timedOut

===========================================================================
