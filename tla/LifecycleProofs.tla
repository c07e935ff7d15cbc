-------------------------- MODULE LifecycleProofs --------------------------
(***************************************************************************)
(* Theorems about Lifecycle, for any number of messages, signals, probes   *)
(* and faults: however many _shutdown()s run, none closes a resource while *)
(* a task may use it.                                                      *)
(***************************************************************************)
EXTENDS Lifecycle, TLAPS

\* A _shutdown() whose consumer.stop() has begun, one whose consumer is
\* closed, and what such a one has closed and nothing opens again.
Ending  == Closing \cup {"stopping", "sleeping"}
Begun   == Ending \cup {"draining", "cancelling"}
PastBots     == {"sessions", "producer", "engine", "redis"}
PastSessions == {"producer", "engine", "redis"}
PastProducer == {"engine", "redis"}

\* _shutdown()s come after the start.
Started == \A s \in Signals : shut[s] # "none" => main \in {"running", "returned", "exited"}

\* No record becomes a task once a stop() has begun.
NoneAccepted == \A s \in Signals : shut[s] \in Begun => ~running

\* None is left once the consumer is closed.
NoneLeft == \A s \in Signals : shut[s] \in Ending => InFlight = {}

\* What has been closed stays closed.
StaysClosed ==
    \A s \in Signals :
        /\ shut[s] \in Ending       => "consumer" \notin open
        /\ shut[s] \in PastBots     => "bots" \notin open
        /\ shut[s] \in PastSessions => "sessions" \notin open
        /\ shut[s] \in PastProducer => "producer" \notin open

IInv == TypeOK /\ Started /\ NoneAccepted /\ NoneLeft /\ StaysClosed

---------------------------------------------------------------------------
(* Facts about moves of one _shutdown(), and about the end of main().      *)

LEMMA GoToMoves ==
    ASSUME TypeOK, NEW s \in Signals, NEW pc \in ShutSteps, GoTo(s, pc)
    PROVE  /\ shut' \in [Signals -> ShutSteps]
           /\ shut'[s] = pc
           /\ \A t \in Signals \ {s} : shut'[t] = shut[t]
BY DEF TypeOK, GoTo

\* Cancelling keeps what is in flight in flight.
LEMMA CancelledInFlight ==
    ASSUME TypeOK, tasks' = Cancelled
    PROVE  /\ tasks' \in [Messages -> {"none", "working", "cancelled", "ended"}]
           /\ InFlight' = InFlight
BY DEF TypeOK, Cancelled, InFlight

LEMMA MainReturnsMoves ==
    ASSUME TypeOK, NEW finished, MainReturns(finished)
    PROVE  /\ main' = "returned"
           /\ tasks' \in [Messages -> {"none", "working", "cancelled", "ended"}]
           /\ InFlight' = InFlight
           /\ shut' \in [Signals -> ShutSteps]
           /\ \A s \in Signals : shut'[s] \in {"none", "done", "dead"}
           /\ \A s \in Signals \ finished : shut'[s] = "none" <=> shut[s] = "none"
<1>1. main' = "returned" /\ tasks' = Cancelled
    BY DEF MainReturns
<1>2. /\ shut' \in [Signals -> ShutSteps]
      /\ \A s \in Signals : shut'[s] \in {"none", "done", "dead"}
      /\ \A s \in Signals \ finished : shut'[s] = "none" <=> shut[s] = "none"
    BY DEF MainReturns, TypeOK, ShutSteps
<1> QED BY <1>1, <1>2, CancelledInFlight

LEMMA RaiseCounts ==
    ASSUME TypeOK, Raise
    PROVE  faults' \in 0 .. Faults
BY FaultsAssumption DEF TypeOK, Raise

\* Where an Ending _shutdown() gets to.
LEMMA AfterOfStep ==
    ASSUME NEW pc \in DOMAIN After
    PROVE  /\ pc \in Ending
           /\ After[pc] \in Ending
           /\ pc # "none"
           /\ After[pc] \in PastBots     => pc \in PastBots \cup {"bots"}
           /\ After[pc] \in PastSessions => pc \in PastSessions \cup {"sessions"}
           /\ After[pc] \in PastProducer => pc \in PastProducer \cup {"producer"}
BY DEF After, Ending, Closing, Resources, Pools, PastBots, PastSessions, PastProducer

---------------------------------------------------------------------------
(* Steps of main(), of the tasks and of the probes.                        *)

LEMMA StartStep ==
    ASSUME IInv, Start \/ Killed
    PROVE  IInv'
<1>1. main \in {"new", "producing", "consuming"} /\ \A s \in Signals : shut[s] = "none"
    BY DEF IInv, Started, Start, StartProducer, StartConsumer, StartHealth, StartFails, StartUp, Killed
<1>2. UNCHANGED <<shut, tasks>>
    BY DEF Start, StartProducer, StartConsumer, StartHealth, StartFails, StartUp, Killed
<1>3. TypeOK'
  <2>1. CASE StartProducer \/ StartConsumer \/ StartHealth
    <3>1. open' \in SUBSET Resources
        BY <2>1 DEF IInv, TypeOK, StartProducer, StartConsumer, StartHealth, StartUp, Resources
    <3>2. main' \in {"producing", "consuming", "running"} /\ running' \in BOOLEAN
        BY <2>1 DEF IInv, TypeOK, StartProducer, StartConsumer, StartHealth, StartUp
    <3>3. running' => main' # "producing"
        BY <2>1 DEF IInv, TypeOK, StartProducer, StartConsumer, StartHealth, StartUp
    <3>4. UNCHANGED <<tasks, shut, timedOut, faults, probe, recent>>
        BY <2>1 DEF StartProducer, StartConsumer, StartHealth, StartUp, health
    <3> QED BY <3>1, <3>2, <3>3, <3>4 DEF IInv, TypeOK
  <2>2. CASE StartFails
      BY <2>2, RaiseCounts DEF IInv, TypeOK, StartFails, health
  <2>3. CASE Killed
      BY <2>3 DEF IInv, TypeOK, Killed, health
  <2> QED BY <2>1, <2>2, <2>3 DEF Start
<1> QED BY <1>1, <1>2, <1>3
        DEF IInv, Started, NoneAccepted, NoneLeft, StaysClosed, Ending, Begun, Closing, Resources,
            Pools, PastBots, PastSessions, PastProducer

\* main() ends the loop: every _shutdown() ends with it.
LEMMA ReturnStep ==
    ASSUME IInv, NEW finished, MainReturns(finished), main = "running",
           running' = running, open' \in SUBSET open, timedOut' = timedOut,
           faults' \in 0 .. Faults, UNCHANGED health,
           \A s \in finished : shut[s] # "none"
    PROVE  IInv'
<1>1. TypeOK'
    BY MainReturnsMoves DEF IInv, TypeOK, health
<1>2. \A s \in Signals : shut'[s] \notin Begun
    BY MainReturnsMoves DEF IInv, Begun, Ending, Closing, Resources, Pools
<1>3. Started'
    BY MainReturnsMoves DEF IInv, Started
<1> QED BY <1>1, <1>2, <1>3
        DEF IInv, NoneAccepted, NoneLeft, StaysClosed, Ending, Begun, Closing, Resources, Pools,
            PastBots, PastSessions, PastProducer

LEMMA LoopStep ==
    ASSUME IInv, Loop
    PROVE  IInv'
<1>1. CASE LoopEnds \/ LoopFails
  <2>1. faults' \in 0 .. Faults
      BY <1>1, RaiseCounts DEF IInv, TypeOK, LoopEnds, LoopFails
  <2>2. main = "running" /\ MainReturns({}) /\ UNCHANGED <<running, open, timedOut, health>>
      BY <1>1 DEF LoopEnds, LoopFails
  <2> QED BY <2>1, <2>2, ReturnStep
<1>2. ASSUME NEW m \in Messages, Receive(m) PROVE IInv'
  <2>1. CASE ~running
    <3>1. main = "running" /\ MainReturns({}) /\ UNCHANGED <<running, open, timedOut, faults, health>>
        BY <1>2, <2>1 DEF Receive
    <3> QED BY <3>1, ReturnStep DEF IInv, TypeOK
  <2>2. CASE running
    <3>1. \A s \in Signals : shut[s] \notin Begun
        BY <2>2 DEF IInv, NoneAccepted
    <3>2. UNCHANGED <<main, shut, running, open>> /\ TypeOK'
        BY <1>2, <2>2 DEF Receive, IInv, TypeOK, health
    <3> QED BY <3>1, <3>2
            DEF IInv, Started, NoneAccepted, NoneLeft, StaysClosed, Ending, Begun, Closing,
                Resources, Pools, PastBots, PastSessions, PastProducer
  <2> QED BY <2>1, <2>2
<1> QED BY <1>1, <1>2 DEF Loop

\* Steps that end tasks, end the process or answer probes disturb little.
LEMMA QuietStep ==
    ASSUME IInv, TypeOK', UNCHANGED <<running, shut>>, InFlight' \subseteq InFlight,
           main' = main \/ main' = "exited",
           open' \subseteq open \cup {"engine", "redis"}
    PROVE  IInv'
<1>1. Started' /\ NoneAccepted'
    BY DEF IInv, Started, NoneAccepted
<1>2. NoneLeft'
    BY DEF IInv, NoneLeft
<1>3. StaysClosed'
    BY DEF IInv, StaysClosed
<1> QED BY <1>1, <1>2, <1>3 DEF IInv

LEMMA TaskStep ==
    ASSUME IInv, NEW m \in Messages,
           TaskEnds(m) \/ \E r \in Pools \cup {"engine"} : Work(m, r)
    PROVE  IInv'
<1>1. CASE TaskEnds(m)
  <2>1. TypeOK' /\ InFlight' \subseteq InFlight
      BY <1>1 DEF TaskEnds, IInv, TypeOK, InFlight, health
  <2>2. UNCHANGED <<main, running, shut, open>>
      BY <1>1 DEF TaskEnds
  <2> QED BY <2>1, <2>2, QuietStep
<1>2. ASSUME NEW r \in Pools \cup {"engine"}, Work(m, r) PROVE IInv'
  <2>1. TypeOK'
      BY <1>2 DEF Work, IInv, TypeOK, health, Resources
  <2>2. \A s \in Signals : shut[s] \notin Ending
      BY <1>2 DEF Work, IInv, NoneLeft, InFlight
  <2>3. UNCHANGED <<main, running, shut, tasks>>
      BY <1>2 DEF Work
  <2> QED BY <2>1, <2>2, <2>3
          DEF IInv, Started, NoneAccepted, NoneLeft, StaysClosed, InFlight, Ending, Closing,
              Resources, Pools, PastBots, PastSessions, PastProducer
<1> QED BY <1>1, <1>2

LEMMA ExitStep ==
    ASSUME IInv, Exit \/ IntervalEnds
    PROVE  IInv'
<1>1. /\ UNCHANGED <<running, shut, tasks, open, timedOut, faults, probe>>
      /\ main' = main \/ main' = "exited"
      /\ recent' = recent \/ recent' = FALSE
    BY DEF Exit, IntervalEnds, health
<1>2. InFlight' = InFlight
    BY <1>1 DEF InFlight
<1>3. TypeOK'
    BY <1>1 DEF IInv, TypeOK
<1> QED BY <1>1, <1>2, <1>3, QuietStep

LEMMA ProbeStep ==
    ASSUME IInv, NEW q \in Probes, Probe(q) \/ Answer(q)
    PROVE  IInv'
<1>1. TypeOK'
  <2>1. probe' \in [Probes -> {"idle", "checking", "ready", "unready", "limited"}]
      BY DEF Probe, Answer, IInv, TypeOK
  <2>2. open' \in SUBSET Resources /\ recent' \in BOOLEAN
      BY DEF Probe, Answer, IInv, TypeOK, Resources
  <2> QED BY <2>1, <2>2 DEF Probe, Answer, IInv, TypeOK
<1>2. UNCHANGED <<main, running, shut, tasks>> /\ open' \subseteq open \cup {"engine", "redis"}
    BY DEF Probe, Answer
<1>3. InFlight' = InFlight
    BY <1>2 DEF InFlight
<1> QED BY <1>1, <1>2, <1>3, QuietStep

---------------------------------------------------------------------------
(* Steps of a _shutdown().                                                 *)

LEMMA SignalStep ==
    ASSUME IInv, NEW s \in Signals, Signal(s)
    PROVE  IInv'
<1>1. /\ shut' \in [Signals -> ShutSteps] /\ shut'[s] = "called"
      /\ \A t \in Signals \ {s} : shut'[t] = shut[t]
    BY GoToMoves DEF Signal, ShutSteps, IInv
<1>2. UNCHANGED <<main, running, tasks, open>> /\ main \in {"running", "returned"}
    BY DEF Signal, Serving
<1>3. TypeOK'
    BY <1>1 DEF Signal, IInv, TypeOK, health
<1> QED BY <1>1, <1>2, <1>3
        DEF IInv, Started, NoneAccepted, NoneLeft, StaysClosed, InFlight, Ending, Begun, Closing,
            Resources, Pools, PastBots, PastSessions, PastProducer

\* The consumer is closed once nothing is in flight.
LEMMA ClosingStep ==
    ASSUME IInv, NEW s \in Signals, CloseConsumer(s), InFlight = {}, running' = FALSE,
           shut[s] # "none", UNCHANGED <<main, tasks, timedOut, faults, health>>
    PROVE  IInv'
<1>1. /\ shut' \in [Signals -> ShutSteps] /\ shut'[s] = "stopping"
      /\ \A t \in Signals \ {s} : shut'[t] = shut[t]
    BY GoToMoves DEF CloseConsumer, ShutSteps, IInv
<1>2. open' = open \ {"consumer"}
    BY DEF CloseConsumer
<1>3. TypeOK'
    BY <1>1, <1>2 DEF IInv, TypeOK, health
<1>4. Started' /\ NoneAccepted'
    BY <1>1 DEF IInv, Started, NoneAccepted
<1>5. NoneLeft'
    BY DEF NoneLeft, InFlight
<1>6. StaysClosed'
    BY <1>1, <1>2 DEF IInv, StaysClosed, PastBots, PastSessions, PastProducer
<1> QED BY <1>3, <1>4, <1>5, <1>6 DEF IInv

LEMMA StopStep ==
    ASSUME IInv, NEW s \in Signals, Stop(s) \/ Drained(s)
    PROVE  IInv'
<1>1. CASE InFlight = {}
  <2>1. /\ CloseConsumer(s) /\ running' = FALSE /\ shut[s] # "none"
        /\ UNCHANGED <<main, tasks, timedOut, faults, health>>
      BY <1>1 DEF Stop, Drained, IInv, TypeOK, NoneAccepted, Begun
  <2> QED BY <1>1, <2>1, ClosingStep
<1>2. CASE InFlight # {}
  <2>1. /\ running' = FALSE /\ GoTo(s, "draining") /\ shut[s] = "called"
        /\ UNCHANGED <<main, tasks, open, timedOut, faults, health>>
      BY <1>2 DEF Stop, Drained
  <2>2. /\ shut' \in [Signals -> ShutSteps] /\ shut'[s] = "draining"
        /\ \A t \in Signals \ {s} : shut'[t] = shut[t]
      BY <2>1, GoToMoves DEF ShutSteps, IInv
  <2>3. TypeOK'
      BY <2>1, <2>2 DEF IInv, TypeOK, health
  <2> QED BY <2>1, <2>2, <2>3
          DEF IInv, Started, NoneAccepted, NoneLeft, StaysClosed, InFlight, Ending, Begun, Closing,
              Resources, Pools, PastBots, PastSessions, PastProducer
<1> QED BY <1>1, <1>2

LEMMA TimeoutStep ==
    ASSUME IInv, NEW s \in Signals, DrainTimeout(s)
    PROVE  IInv'
<1>1. /\ shut' \in [Signals -> ShutSteps] /\ shut'[s] = "cancelling" /\ shut[s] = "draining"
      /\ \A t \in Signals \ {s} : shut'[t] = shut[t]
    BY GoToMoves DEF DrainTimeout, ShutSteps, IInv
<1>2. InFlight' = InFlight /\ tasks' \in [Messages -> {"none", "working", "cancelled", "ended"}]
    BY CancelledInFlight DEF DrainTimeout, IInv
<1>3. UNCHANGED <<main, running, open>>
    BY DEF DrainTimeout
<1>4. TypeOK'
    BY <1>1, <1>2 DEF DrainTimeout, IInv, TypeOK, health
<1>5. Started' /\ NoneAccepted'
    BY <1>1, <1>3 DEF IInv, Started, NoneAccepted, Begun
<1>6. NoneLeft'
    BY <1>1, <1>2 DEF IInv, NoneLeft, Ending, Closing, Resources, Pools
<1>7. StaysClosed'
    BY <1>1, <1>3 DEF IInv, StaysClosed, Ending, Closing, Resources, Pools,
                      PastBots, PastSessions, PastProducer
<1> QED BY <1>4, <1>5, <1>6, <1>7 DEF IInv

\* Each step leaves closed what it has closed; a flush opens the database only.
LEMMA ProceedStep ==
    ASSUME IInv, NEW s \in Signals, Proceed(s)
    PROVE  IInv'
<1>1. shut[s] \in DOMAIN After /\ GoTo(s, After[shut[s]])
    BY DEF Proceed
<1>2. /\ shut[s] \in Ending /\ After[shut[s]] \in Ending /\ shut[s] # "none"
      /\ After[shut[s]] \in PastBots     => shut[s] \in PastBots \cup {"bots"}
      /\ After[shut[s]] \in PastSessions => shut[s] \in PastSessions \cup {"sessions"}
      /\ After[shut[s]] \in PastProducer => shut[s] \in PastProducer \cup {"producer"}
    BY <1>1, AfterOfStep
<1>3. /\ shut' \in [Signals -> ShutSteps] /\ shut'[s] = After[shut[s]]
      /\ \A t \in Signals \ {s} : shut'[t] = shut[t]
    BY <1>1, <1>2, GoToMoves DEF ShutSteps, Ending, IInv
<1>4. /\ open' \subseteq open \cup {"engine"}
      /\ shut[s] \in {"bots", "sessions", "producer"} => shut[s] \notin open'
    BY DEF Proceed
<1>5. UNCHANGED <<main, running, tasks>>
    BY DEF Proceed
<1>6. TypeOK'
  <2>1. open' \in SUBSET Resources
      BY <1>4 DEF IInv, TypeOK, Resources
  <2> QED BY <1>3, <2>1 DEF Proceed, IInv, TypeOK, health
<1>7. Started' /\ NoneAccepted'
    BY <1>2, <1>3, <1>5 DEF IInv, Started, NoneAccepted, Begun
<1>8. NoneLeft'
    BY <1>2, <1>3, <1>5 DEF IInv, NoneLeft, InFlight
<1>9. StaysClosed'
    BY <1>2, <1>3, <1>4 DEF IInv, StaysClosed
<1> QED BY <1>6, <1>7, <1>8, <1>9 DEF IInv

LEMMA CloseRedisStep ==
    ASSUME IInv, NEW s \in Signals, CloseRedis(s)
    PROVE  IInv'
<1>1. open' = open \ {"redis"} /\ shut[s] = "redis" /\ UNCHANGED <<running, timedOut, faults, health>>
    BY DEF CloseRedis
<1>2. CASE main = "running"
  <2>1. MainReturns({s})
      BY <1>2 DEF CloseRedis
  <2> QED BY <1>1, <1>2, <2>1, ReturnStep DEF IInv, TypeOK
<1>3. CASE main # "running"
  <2>1. GoTo(s, "done") /\ UNCHANGED <<main, tasks>>
      BY <1>3 DEF CloseRedis
  <2>2. /\ shut' \in [Signals -> ShutSteps] /\ shut'[s] = "done"
        /\ \A t \in Signals \ {s} : shut'[t] = shut[t]
      BY <2>1, GoToMoves DEF ShutSteps, IInv
  <2>3. TypeOK'
      BY <1>1, <2>1, <2>2 DEF IInv, TypeOK, health
  <2> QED BY <1>1, <2>1, <2>2, <2>3
          DEF IInv, Started, NoneAccepted, NoneLeft, StaysClosed, InFlight, Ending, Begun, Closing,
              Resources, Pools, PastBots, PastSessions, PastProducer
<1> QED BY <1>2, <1>3

LEMMA FailStep ==
    ASSUME IInv, NEW s \in Signals, ShutdownFails(s)
    PROVE  IInv'
<1>1. shut[s] # "none" /\ GoTo(s, "dead") /\ UNCHANGED <<main, running, tasks, open, timedOut, health>>
    BY DEF ShutdownFails, Pools
<1>2. /\ shut' \in [Signals -> ShutSteps] /\ shut'[s] = "dead"
      /\ \A t \in Signals \ {s} : shut'[t] = shut[t]
    BY <1>1, GoToMoves DEF ShutSteps, IInv
<1>3. faults' \in 0 .. Faults
    BY RaiseCounts DEF ShutdownFails, IInv, TypeOK
<1>4. TypeOK'
    BY <1>1, <1>2, <1>3 DEF IInv, TypeOK, health
<1> QED BY <1>1, <1>2, <1>4
        DEF IInv, Started, NoneAccepted, NoneLeft, StaysClosed, InFlight, Ending, Begun, Closing,
            Resources, Pools, PastBots, PastSessions, PastProducer

---------------------------------------------------------------------------
(* The invariant, and what follows.                                        *)

LEMMA InitIInv == Init => IInv
<1> SUFFICES ASSUME Init PROVE IInv
    OBVIOUS
<1>1. TypeOK
  <2>1. /\ tasks \in [Messages -> {"none", "working", "cancelled", "ended"}]
        /\ shut \in [Signals -> ShutSteps]
        /\ probe \in [Probes -> {"idle", "checking", "ready", "unready", "limited"}]
      BY DEF Init, ShutSteps
  <2>2. faults \in 0 .. Faults
      BY FaultsAssumption DEF Init
  <2> QED BY <2>1, <2>2 DEF Init, TypeOK
<1>2. \A s \in Signals : shut[s] = "none"
    BY DEF Init
<1> QED BY <1>1, <1>2
        DEF IInv, Started, NoneAccepted, NoneLeft, StaysClosed, Ending, Begun, Closing,
            Resources, Pools, PastBots, PastSessions, PastProducer

LEMMA StepIInv == IInv /\ [Next]_vars => IInv'
<1> SUFFICES ASSUME IInv, [Next]_vars PROVE IInv'
    OBVIOUS
<1>1. CASE Start \/ Killed
    BY <1>1, StartStep
<1>2. CASE Loop
    BY <1>2, LoopStep
<1>3. CASE Exit \/ IntervalEnds
    BY <1>3, ExitStep
<1>4. ASSUME NEW m \in Messages, TaskEnds(m) \/ \E r \in Pools \cup {"engine"} : Work(m, r)
      PROVE IInv'
    BY <1>4, TaskStep
<1>5. ASSUME NEW s \in Signals, Signal(s) \/ ShutStep(s) PROVE IInv'
    BY <1>5, SignalStep, StopStep, TimeoutStep, ProceedStep, CloseRedisStep, FailStep DEF ShutStep
<1>6. ASSUME NEW q \in Probes, Probe(q) \/ Answer(q) PROVE IInv'
    BY <1>6, ProbeStep
<1>7. CASE UNCHANGED vars
    BY <1>7 DEF vars, health, IInv, TypeOK, Started, NoneAccepted, NoneLeft, StaysClosed, InFlight
<1> QED BY <1>1, <1>2, <1>3, <1>4, <1>5, <1>6, <1>7 DEF Next

LEMMA Invariance == Spec => []IInv
BY InitIInv, StepIInv, PTL DEF Spec

\* The states are of their types, and the loop accepts records only between the
\* start of the consumer and its stop (consumer.py:114, 123).
THEOREM LifecycleTypeCorrect == Spec => []TypeOK
<1>1. IInv => TypeOK
    BY DEF IInv
<1> QED BY <1>1, Invariance, PTL

\* However many signals arrive, and whatever times out or raises, no task is in
\* flight while pools, producer, database and Redis are flushed and closed
\* (consumer.py:122-134, main.py:76-94).
THEOREM TasksEndBeforeClosing == Spec => []NothingInFlight
<1>1. IInv => NothingInFlight
    BY DEF IInv, NoneLeft, NothingInFlight, Ending
<1> QED BY <1>1, Invariance, PTL

\* A step closes the consumer, or what a _shutdown() is about to close.
LEMMA StepCloses ==
    ASSUME IInv, [Next]_vars, NEW r \in open \ open'
    PROVE  \/ r = "consumer"
           \/ \E s \in Signals : shut[s] = r /\ r \in Closing \ {"flushing"}
<1>1. CASE Start \/ Killed
    BY <1>1 DEF Start, StartProducer, StartConsumer, StartHealth, StartFails, StartUp, Killed
<1>2. CASE Loop
    BY <1>2 DEF Loop, LoopEnds, LoopFails, Receive
<1>3. CASE Exit \/ IntervalEnds
    BY <1>3 DEF Exit, IntervalEnds
<1>4. ASSUME NEW m \in Messages, TaskEnds(m) \/ \E x \in Pools \cup {"engine"} : Work(m, x)
      PROVE FALSE
    BY <1>4 DEF TaskEnds, Work
<1>5. ASSUME NEW s \in Signals, Signal(s) \/ ShutStep(s)
      PROVE  r = "consumer" \/ (shut[s] = r /\ r \in Closing \ {"flushing"})
  <2>1. CASE Signal(s) \/ DrainTimeout(s) \/ ShutdownFails(s)
      BY <2>1 DEF Signal, DrainTimeout, ShutdownFails
  <2>2. CASE Stop(s) \/ Drained(s)
      BY <2>2 DEF Stop, Drained, CloseConsumer
  <2>3. CASE Proceed(s) \/ CloseRedis(s)
    <3>1. r = shut[s] /\ r # "flushing"
        BY <2>3 DEF Proceed, CloseRedis
    <3>2. r \in Resources
        BY DEF IInv, TypeOK
    <3> QED BY <3>1, <3>2 DEF Closing
  <2> QED BY <1>5, <2>1, <2>2, <2>3 DEF ShutStep
<1>6. ASSUME NEW q \in Probes, Probe(q) \/ Answer(q) PROVE FALSE
    BY <1>6 DEF Probe, Answer
<1>7. CASE UNCHANGED vars
    BY <1>7 DEF vars
<1> QED BY <1>1, <1>2, <1>3, <1>4, <1>5, <1>6, <1>7 DEF Next

\* A step that closes a resource opens none.
LEMMA StepOpensNothing ==
    ASSUME IInv, [Next]_vars, NEW r \in open \ open'
    PROVE  open' \subseteq open
<1>1. CASE Start \/ Killed
    BY <1>1 DEF Start, StartProducer, StartConsumer, StartHealth, StartFails, StartUp, Killed
<1>2. CASE Loop \/ Exit \/ IntervalEnds
    BY <1>2 DEF Loop, LoopEnds, LoopFails, Receive, Exit, IntervalEnds
<1>3. ASSUME NEW m \in Messages, TaskEnds(m) \/ \E x \in Pools \cup {"engine"} : Work(m, x)
      PROVE FALSE
    BY <1>3 DEF TaskEnds, Work
<1>4. ASSUME NEW s \in Signals, Signal(s) \/ ShutStep(s) PROVE open' \subseteq open
  <2>1. CASE Signal(s) \/ DrainTimeout(s) \/ ShutdownFails(s)
      BY <2>1 DEF Signal, DrainTimeout, ShutdownFails
  <2>2. CASE Stop(s) \/ Drained(s)
      BY <2>2 DEF Stop, Drained, CloseConsumer
  <2>3. CASE Proceed(s) \/ CloseRedis(s)
      BY <2>3 DEF Proceed, CloseRedis
  <2> QED BY <1>4, <2>1, <2>2, <2>3 DEF ShutStep
<1>5. ASSUME NEW q \in Probes, Probe(q) \/ Answer(q) PROVE FALSE
    BY <1>5 DEF Probe, Answer
<1>6. CASE UNCHANGED vars
    BY <1>6 DEF vars
<1> QED BY <1>1, <1>2, <1>3, <1>4, <1>5, <1>6 DEF Next

\* A resource is closed when all that use it are: consumer, pools, producer,
\* database and Redis, in this order, with any number of _shutdown()s at work
\* (main.py:76-94).
THEOREM UsersCloseFirst == Spec => ClosedInOrder
<1>1. IInv /\ [Next]_vars => [\A r \in open \ open' : UsersOf(r) \cap open' = {}]_vars
  <2> SUFFICES ASSUME IInv, [Next]_vars, NEW r \in open \ open'
               PROVE  UsersOf(r) \cap open' = {}
      OBVIOUS
  <2>1. open' \subseteq open
      BY StepOpensNothing
  <2>2. CASE r = "consumer"
      BY <2>2 DEF UsersOf, Pools
  <2>3. ASSUME NEW s \in Signals, shut[s] = r, r \in Closing \ {"flushing"}
        PROVE  UsersOf(r) \cap open = {}
    <3>1. "consumer" \notin open
        BY <2>3 DEF IInv, StaysClosed, Ending
    <3>2. CASE r \in Pools
        BY <3>1, <3>2 DEF UsersOf, Pools
    <3>3. CASE r = "producer"
        BY <2>3, <3>1, <3>3 DEF UsersOf, Pools, IInv, StaysClosed, PastBots, PastSessions
    <3>4. CASE r \in {"engine", "redis"}
        BY <2>3, <3>1, <3>4
           DEF UsersOf, Pools, IInv, StaysClosed, PastBots, PastSessions, PastProducer
    <3> QED BY <2>3, <3>2, <3>3, <3>4 DEF Closing, Resources
  <2> QED BY <2>1, <2>2, <2>3, StepCloses
<1> QED BY <1>1, Invariance, PTL DEF Spec, ClosedInOrder

===========================================================================
