--------------------------- MODULE TaskConsumer ---------------------------
(***************************************************************************)
(* The task consumer of tg-service-v2: replicas ("workers") of one Kafka   *)
(* consumer group read task messages, process up to Concurrency of them at *)
(* once, guard each request with a Redis key, answer it on a result topic  *)
(* and commit the message's offset by hand                                 *)
(* (src/transport/consumer.py, router.py, producer.py and the guard and    *)
(* answer paths of modules/posting/handlers.py, modules/scraping/          *)
(* handlers.py).                                                           *)
(*                                                                         *)
(* The group coordinator, the result broker, Redis and Telegram are        *)
(* external and appear as the code sees them: a commit of a worker that    *)
(* lost the partition is refused, a call may fail before or after taking   *)
(* effect, a key may be evicted.                                           *)
(*                                                                         *)
(* Everything that may go wrong or come from outside is paid for out of    *)
(* Budget, so that a run says exactly which adversity it allows.           *)
(***************************************************************************)
EXTENDS Integers, FiniteSets

CONSTANTS
    Workers,      \* service replicas, all in one consumer group
    NoWorker,     \* "nobody owns the partition"
    Partitions,   \* partitions of the task topics
    LogLength,    \* messages the backend wrote to each partition
    Requests,     \* request_ids
    RequestOf,    \* [Messages -> Requests]; not injective: the backend resends
    Malformed,    \* messages that are not JSON
    Invalid,      \* JSON that TaskRequestSchema refuses
    Unrouted,     \* valid requests on a topic without a handler
    Concurrency,  \* CONSUMER_CONCURRENCY, the semaphore's permits
    Budget        \* [Adversity -> Nat]: how often each adversity may strike

Offsets   == 0 .. (LogLength - 1)
Messages  == Partitions \X Offsets
Adversity == {"crash", "stop", "rebalance", "expel", "cancel", "fault", "evict"}

ASSUME WorkersAssumption     == NoWorker \notin Workers
ASSUME PartitionsAssumption  == IsFiniteSet(Partitions)
ASSUME LogLengthAssumption   == LogLength \in Nat \ {0}
ASSUME RequestOfAssumption   == RequestOf \in [Messages -> Requests]
ASSUME KindsAssumption       == /\ Malformed \subseteq Messages
                                /\ Invalid \subseteq Messages
                                /\ Unrouted \subseteq Messages
ASSUME ConcurrencyAssumption == Concurrency \in Nat \ {0}
ASSUME BudgetAssumption      == Budget \in [Adversity -> Nat]

VARIABLES
    owner,      \* group coordinator: the worker each partition belongs to
    committed,  \* broker: the committed offset of each partition
    assigned,   \* client: the partitions each worker believes it has
    position,   \* client: next offset to hand to consume_loop
    phase,      \* what each worker's process is doing
    pc,         \* where _process_message stands, per worker and message
    idem,       \* Redis: requests whose idempotency key exists
    executed,   \* how often a request's operation reached Telegram
    results,    \* kinds of result published for each request
    handled,    \* history: messages some task processed to the end
    abandoned,  \* history: requests a task gave up on before it answered them
    budget      \* adversity left

group == <<owner, assigned, position>>
world == <<idem, executed, results>>
vars  == <<owner, committed, assigned, position, phase, pc, idem, executed,
           results, handled, abandoned, budget>>

\* "exiting": main() has returned and asyncio.run() winds up what it cancelled.
Phases == {"up", "revoking", "stopping", "exiting", "down"}

\* "waiting" for a permit; "checking" the key; "handling" before and "effected"
\* after the operation reached Telegram; the three sends; the `finally` commit
\* after processing ("committing") or after a cancellation ("aborting").
Steps == {"idle", "waiting", "checking", "handling", "effected", "replyOk",
          "replyError", "reporting", "committing", "aborting"}

TypeOK ==
    /\ owner     \in [Partitions -> Workers \cup {NoWorker}]
    /\ committed \in [Partitions -> 0 .. LogLength]
    /\ assigned  \in [Workers -> SUBSET Partitions]
    /\ position  \in [Workers -> [Partitions -> 0 .. LogLength]]
    /\ phase     \in [Workers -> Phases]
    /\ pc        \in [Workers -> [Messages -> Steps]]
    /\ idem      \in SUBSET Requests
    /\ executed  \in [Requests -> Nat]
    /\ results   \in [Requests -> SUBSET {"ok", "error"}]
    /\ handled   \in SUBSET Messages
    /\ abandoned \in SUBSET Requests
    /\ budget    \in [Adversity -> Nat]

Init ==
    /\ owner     = [p \in Partitions |-> NoWorker]
    /\ committed = [p \in Partitions |-> 0]
    /\ assigned  = [w \in Workers |-> {}]
    /\ position  = [w \in Workers |-> [p \in Partitions |-> 0]]
    /\ phase     = [w \in Workers |-> "down"]
    /\ pc        = [w \in Workers |-> [m \in Messages |-> "idle"]]
    /\ idem      = {}
    /\ executed  = [r \in Requests |-> 0]
    /\ results   = [r \in Requests |-> {}]
    /\ handled   = {}
    /\ abandoned = {}
    /\ budget    = Budget

---------------------------------------------------------------------------
(* Helpers                                                                 *)

Tasks(w)     == {m \in Messages : pc[w][m] # "idle"}
Running(w)   == {m \in Messages : pc[w][m] \notin {"idle", "waiting"}}
Owned(w)     == {p \in Partitions : owner[p] = w}
Spend(kind)  == /\ budget[kind] > 0
                /\ budget' = [budget EXCEPT ![kind] = @ - 1]
MoveTo(w, m, step)   == pc' = [pc EXCEPT ![w][m] = step]
Publish(m, kind)     == results' = [results EXCEPT ![RequestOf[m]] = @ \cup {kind}]

\* A permit of the semaphore is free.
PermitFreeOfTasks(w) == Cardinality(Tasks(w)) < Concurrency      \* faulty: counts waiting tasks
PermitFreeOneMore(w) == Cardinality(Running(w)) <= Concurrency   \* faulty: off by one
PermitFree(w)        == Cardinality(Running(w)) < Concurrency

\* The drain is over: no task of w is left, waiting or running.
DrainedOfRunning(w) == Running(w) = {}    \* faulty: forgets the waiting tasks
Drained(w)          == Tasks(w) = {}

\* SET NX finds no key.
UnclaimedAlways(m) == TRUE                \* faulty: SET without NX
Unclaimed(m)       == RequestOf[m] \notin idem

\* The offset committed for m, and the offset a new owner reads p from.
NextOffsetTwoOn(m) == m[2] + 2            \* faulty: off by one
NextOffset(m)      == m[2] + 1
ResumeAtLatest(p)  == IF committed[p] = 0 THEN LogLength ELSE committed[p]  \* faulty: auto_offset_reset="latest"
ResumeAt(p)        == committed[p]

\* The kind of result a handler sends.
VerdictAlwaysOk(w, m) == "ok"             \* faulty: error lost on the way
Verdict(w, m)         == IF pc[w][m] = "replyOk" THEN "ok" ELSE "error"

\* The coordinator takes every partition of w back.
Disown(w)    == owner' = [p \in Partitions |-> IF owner[p] = w THEN NoWorker ELSE owner[p]]
\* The client forgets its assignment and the positions that go with it.
Unassign(w)  == /\ assigned' = [assigned EXCEPT ![w] = {}]
                /\ position' = [position EXCEPT ![w] = [p \in Partitions |-> 0]]

---------------------------------------------------------------------------
(* The process and its place in the group                                  *)

\* main(): a fresh process, subscribed but not yet assigned.
Boot(w) ==
    /\ phase[w] = "down"
    /\ phase' = [phase EXCEPT ![w] = "up"]
    /\ UNCHANGED <<group, committed, pc, world, handled, abandoned, budget>>

\* The end of a rebalance: w gets free partitions and reads on from the
\* committed offsets.
Join(w, S) ==
    /\ phase[w] = "up"
    /\ assigned[w] = {}
    /\ S # {}
    /\ \A p \in S : owner[p] = NoWorker
    /\ owner'    = [p \in Partitions |-> IF p \in S THEN w ELSE owner[p]]
    /\ assigned' = [assigned EXCEPT ![w] = S]
    /\ position' = [position EXCEPT ![w] = [p \in Partitions |-> IF p \in S THEN ResumeAt(p) ELSE 0]]
    /\ UNCHANGED <<committed, phase, pc, world, handled, abandoned, budget>>

\* consume_loop: the next record of p becomes a task. No limit on tasks here.
\* A worker the coordinator has expelled does not know it yet and goes on.
Fetch(w, p) ==
    /\ phase[w] = "up"
    /\ p \in assigned[w]
    /\ position[w][p] < LogLength
    /\ pc' = [pc EXCEPT ![w][<<p, position[w][p]>>] = "waiting"]
    /\ position' = [position EXCEPT ![w][p] = @ + 1]
    /\ UNCHANGED <<owner, committed, assigned, phase, world, handled, abandoned, budget>>

\* A rebalance revokes what w has; aiokafka hands out no record meanwhile and
\* calls on_partitions_revoked. A worker that was expelled rejoins this way.
BeginRevoke(w) ==
    /\ phase[w] = "up"
    /\ assigned[w] # {}
    /\ \/ Spend("rebalance")
       \/ assigned[w] # Owned(w) /\ UNCHANGED budget
    /\ phase' = [phase EXCEPT ![w] = "revoking"]
    /\ UNCHANGED <<group, committed, pc, world, handled, abandoned>>

\* on_partitions_revoked returns once every task is done.
EndRevoke(w) ==
    /\ phase[w] = "revoking"
    /\ Drained(w)
    /\ phase' = [phase EXCEPT ![w] = "up"]
    /\ Disown(w)
    /\ Unassign(w)
    /\ UNCHANGED <<committed, pc, world, handled, abandoned, budget>>

\* The coordinator drops a silent worker, which does not notice: its tasks
\* go on and only its commits are refused.
Expel(w) ==
    /\ Owned(w) # {}
    /\ Spend("expel")
    /\ Disown(w)
    /\ UNCHANGED <<committed, assigned, position, phase, pc, world, handled, abandoned>>

\* KafkaTaskConsumer.stop(): no new tasks, wait for the ones in flight.
Stop(w) ==
    /\ phase[w] = "up"
    /\ Spend("stop")
    /\ phase' = [phase EXCEPT ![w] = "stopping"]
    /\ UNCHANGED <<group, committed, pc, world, handled, abandoned>>

\* The tasks are done. What _shutdown closes after the drain holds nothing a task
\* still uses, so the process counts as down from here on.
FinishStop(w) ==
    /\ phase[w] \in {"stopping", "exiting"}
    /\ Drained(w)
    /\ phase' = [phase EXCEPT ![w] = "down"]
    /\ Disown(w)
    /\ Unassign(w)
    /\ UNCHANGED <<committed, pc, world, handled, abandoned, budget>>

\* What task.cancel() makes of a task: one still waiting for its permit never
\* entered the `try` and is gone, one past it goes through `finally`, and one
\* whose commit is under way stops there.
Cancelled(step) ==
    CASE step \in {"idle", "waiting", "committing", "aborting"} -> "idle"
      [] OTHER -> "aborting"

\* Requests whose task is cut short between taking its permit and its answer.
GivenUp(w) == {RequestOf[m] : m \in {n \in Running(w) : pc[w][n] # "committing"}}

\* Every task of w is cancelled. _commit_lock lets one commit at a time be under
\* way; it may have arrived.
CancelTasks(w) ==
    /\ pc' = [pc EXCEPT ![w] = [m \in Messages |-> Cancelled(pc[w][m])]]
    /\ handled' = handled \cup {m \in Messages : pc[w][m] = "committing"}
    /\ abandoned' = abandoned \cup GivenUp(w)
    /\ \/ UNCHANGED committed
       \/ \E m \in Messages :
             /\ pc[w][m] \in {"committing", "aborting"}
             /\ owner[m[1]] = w
             /\ committed' = [committed EXCEPT ![m[1]] = NextOffset(m)]

\* The drain timed out.
Cancel(w) ==
    /\ phase[w] \in {"revoking", "stopping"}
    /\ ~Drained(w)
    /\ Spend("cancel")
    /\ CancelTasks(w)
    /\ UNCHANGED <<group, phase, world>>

\* A record arrives while stop() drains: consume_loop breaks off, main() returns
\* and asyncio.run() cancels every task, the drain included.
BreakLoop(w) ==
    /\ phase[w] = "stopping"
    /\ \E p \in assigned[w] : position[w][p] < LogLength
    /\ phase' = [phase EXCEPT ![w] = "exiting"]
    /\ CancelTasks(w)
    /\ UNCHANGED <<group, world, budget>>

\* The process dies; the coordinator gives its partitions away.
Crash(w) ==
    /\ phase[w] # "down"
    /\ Spend("crash")
    /\ phase' = [phase EXCEPT ![w] = "down"]
    /\ pc' = [pc EXCEPT ![w] = [m \in Messages |-> "idle"]]
    /\ abandoned' = abandoned \cup GivenUp(w)
    /\ Disown(w)
    /\ Unassign(w)
    /\ UNCHANGED <<committed, world, handled>>

\* Redis drops a key: its TTL ran out, or allkeys-lru chose it.
Evict(r) ==
    /\ r \in idem
    /\ Spend("evict")
    /\ idem' = idem \ {r}
    /\ UNCHANGED <<group, committed, phase, pc, executed, results, handled, abandoned>>

---------------------------------------------------------------------------
(* _process_message                                                        *)

\* Where decoding sends a message: bad JSON returns at once, a bad schema
\* raises, a topic without handler is answered with NO_HANDLER.
Decoded(m) ==
    CASE m \in Malformed -> "committing"
      [] m \in Invalid \ Malformed -> "reporting"
      [] m \in Unrouted \ (Invalid \cup Malformed) -> "replyError"
      [] OTHER -> "checking"

\* A permit is free. The semaphore is first come first served, so of one
\* partition the lowest waiting offset goes first.
Start(w, m) ==
    /\ pc[w][m] = "waiting"
    /\ \A o \in Offsets : o < m[2] => pc[w][<<m[1], o>>] # "waiting"
    /\ PermitFree(w)
    /\ MoveTo(w, m, Decoded(m))
    /\ UNCHANGED <<group, committed, phase, world, handled, abandoned, budget>>

\* _check_idempotency: SET NX EX. When the call fails the key may be set.
Claim(w, m) ==
    /\ pc[w][m] = "checking"
    /\ \/ /\ Unclaimed(m)
          /\ idem' = idem \cup {RequestOf[m]}
          /\ MoveTo(w, m, "handling")
          /\ UNCHANGED budget
       \/ /\ ~Unclaimed(m)
          /\ MoveTo(w, m, "committing")
          /\ UNCHANGED <<idem, budget>>
       \/ /\ Spend("fault")
          /\ idem' \in {idem, idem \cup {RequestOf[m]}}
          /\ MoveTo(w, m, "reporting")
    /\ UNCHANGED <<group, committed, phase, executed, results, handled, abandoned>>

\* The service's operation takes effect at Telegram.
Execute(w, m) ==
    /\ pc[w][m] = "handling"
    /\ MoveTo(w, m, "effected")
    /\ executed' = [executed EXCEPT ![RequestOf[m]] = @ + 1]
    /\ UNCHANGED <<group, committed, phase, idem, results, handled, abandoned, budget>>

\* The service returns its result to the handler.
Succeed(w, m) ==
    /\ pc[w][m] = "effected"
    /\ MoveTo(w, m, "replyOk")
    /\ UNCHANGED <<group, committed, phase, world, handled, abandoned, budget>>

\* The payload is refused, or the service raises TelegramServiceError.
\* Faulty: the error is logged and not sent.
RefuseSilently(w, m) ==
    /\ pc[w][m] = "handling"
    /\ MoveTo(w, m, "committing")
    /\ UNCHANGED <<group, committed, phase, world, handled, abandoned, budget>>

Refuse(w, m) ==
    /\ pc[w][m] = "handling"
    /\ MoveTo(w, m, "replyError")
    /\ UNCHANGED <<group, committed, phase, world, handled, abandoned, budget>>

\* Any other exception leaves the handler, before or after the effect, and
\* _process_message answers in its place.
Raise(w, m) ==
    /\ pc[w][m] \in {"handling", "effected"}
    /\ Spend("fault")
    /\ MoveTo(w, m, "reporting")
    /\ UNCHANGED <<group, committed, phase, world, handled, abandoned>>

\* A handler's send_result. When it raises, the result may be out all the
\* same, and _process_message reports an error on top.
Reply(w, m) ==
    /\ pc[w][m] \in {"replyOk", "replyError"}
    /\ \/ Publish(m, Verdict(w, m)) /\ MoveTo(w, m, "committing") /\ UNCHANGED budget
       \/ /\ Spend("fault")
          /\ MoveTo(w, m, "reporting")
          /\ Publish(m, Verdict(w, m)) \/ UNCHANGED results
    /\ UNCHANGED <<group, committed, phase, idem, executed, handled, abandoned>>

\* The fallback error result of _process_message; its failure is swallowed.
Report(w, m) ==
    /\ pc[w][m] = "reporting"
    /\ MoveTo(w, m, "committing")
    /\ \/ Publish(m, "error") /\ UNCHANGED <<abandoned, budget>>
       \/ /\ Spend("fault")
          /\ abandoned' = abandoned \cup {RequestOf[m]}
          /\ UNCHANGED results
    /\ UNCHANGED <<group, committed, phase, idem, executed, handled>>

\* `finally`: _commit_offset, then the permit is released. The broker refuses
\* a worker that lost the partition; the refusal is swallowed. The commit sets
\* the offset, whatever it was before. Once main() has returned, the client's
\* own tasks are cancelled too, and the commit may not get out.
Commit(w, m) ==
    /\ pc[w][m] \in {"committing", "aborting"}
    /\ MoveTo(w, m, "idle")
    /\ handled' = IF pc[w][m] = "committing" THEN handled \cup {m} ELSE handled
    /\ \/ /\ owner[m[1]] = w
          /\ committed' = [committed EXCEPT ![m[1]] = NextOffset(m)]
          /\ UNCHANGED budget
       \/ owner[m[1]] # w /\ UNCHANGED <<committed, budget>>
       \/ phase[w] = "exiting" /\ UNCHANGED <<committed, budget>>
       \/ Spend("fault") /\ UNCHANGED committed
    /\ UNCHANGED <<group, phase, world, abandoned>>

---------------------------------------------------------------------------

TaskStep(w, m) ==
    \/ Start(w, m) \/ Claim(w, m) \/ Execute(w, m) \/ Succeed(w, m)
    \/ Refuse(w, m) \/ Raise(w, m) \/ Reply(w, m) \/ Report(w, m)
    \/ Commit(w, m)

WorkerStep(w) ==
    \/ Boot(w) \/ BeginRevoke(w) \/ EndRevoke(w) \/ Expel(w) \/ Stop(w)
    \/ FinishStop(w) \/ Cancel(w) \/ BreakLoop(w) \/ Crash(w)
    \/ \E S \in SUBSET Partitions : Join(w, S)
    \/ \E p \in Partitions : Fetch(w, p)

Next ==
    \/ \E w \in Workers : WorkerStep(w)
    \/ \E w \in Workers, m \in Messages : TaskStep(w, m)
    \/ \E r \in Requests : Evict(r)

Spec == Init /\ [][Next]_vars

(* Fairness: the event loop runs every task and the consume loop, Telegram  *)
(* and broker calls return (the clients have timeouts), the orchestrator    *)
(* restarts a dead replica, the coordinator assigns free partitions and an  *)
(* expelled worker finds out. No adversity is ever owed.                    *)
Rejoin(w) == assigned[w] # Owned(w) /\ BeginRevoke(w)

Fairness ==
    /\ \A w \in Workers :
          /\ WF_vars(Boot(w))
          /\ WF_vars(\E S \in SUBSET Partitions : Join(w, S))
          /\ WF_vars(Rejoin(w))
          /\ WF_vars(EndRevoke(w))
          /\ WF_vars(FinishStop(w))
          /\ \A p \in Partitions : WF_vars(Fetch(w, p))
    /\ \A w \in Workers, m \in Messages : WF_vars(TaskStep(w, m))

FairSpec == Spec /\ Fairness

---------------------------------------------------------------------------
(* Properties                                                              *)

\* "no duplicates" (consumer.py:7): however often a request is delivered, to
\* whichever replicas, its operation reaches Telegram at most once, as long
\* as Redis keeps its key.
ExecutedAtMostOnce == \A r \in Requests : executed[r] <= 1

\* The published verdict is the truth: success only for an operation that took
\* effect and, as long as no call has failed midway, an error only for one that
\* did not, so that the backend never gets both.
VerdictIsTrue ==
    \A r \in Requests :
        /\ "ok" \in results[r] => executed[r] = 1
        /\ "error" \in results[r] /\ budget["fault"] = Budget["fault"] => executed[r] = 0

\* A task lives only on a worker that still has the task's partition, below
\* the position it reads from: the drain in on_partitions_revoked and stop()
\* leaves nothing behind, so no offset ever has two tasks on one worker.
TasksWithinAssignment ==
    \A w \in Workers : \A m \in Tasks(w) :
        m[1] \in assigned[w] /\ m[2] < position[w][m[1]]

\* Seen from the backend, the replicas behave like one TaskDelivery: whatever is
\* delivered again, lost, cancelled or restarted, a request is claimed once,
\* executed once after that, and "ok" follows the effect. (While Redis keeps
\* the keys.)
Delivery == INSTANCE TaskDelivery WITH
    claimed <- idem, effects <- executed, answers <- results
DeliveryRefined == Delivery!Spec

\* Unless the coordinator expels a worker, one partition is never in work at
\* two replicas (_RebalanceListener, consumer.py:42-43).
OneWorkerPerPartition ==
    \A v, w \in Workers : v # w =>
        {m[1] : m \in Tasks(v)} \cap {m[1] : m \in Tasks(w)} = {}

\* "the offset is committed only AFTER processing" (consumer.py:5, 159): every
\* message below a committed offset was processed to the end by some task.
CommittedAreHandled ==
    \A m \in Messages : m[2] < committed[m[1]] => m \in handled

\* "no losses" (consumer.py:7), as far as the code keeps it: whatever crashes,
\* drains, expulsions, faults and duplicates come together, a routed request
\* whose message the group will not read again and that no task holds any more
\* has been answered, unless a task that had its permit was cut short on it, or
\* the last attempt to report its failure failed. A task cut short while it
\* waits for a permit loses nothing: no commit has passed its offset.
Routed    == Messages \ (Malformed \cup Invalid \cup Unrouted)
InWork(r) == \E w \in Workers : \E m \in Tasks(w) : RequestOf[m] = r
Concluded(r) == results[r] # {} \/ r \in abandoned
NoLostRequest ==
    \A m \in Routed :
        m[2] < committed[m[1]] /\ ~InWork(RequestOf[m]) => Concluded(RequestOf[m])

\* With one permit the committed offset never moves back, whoever commits.
CommitsMoveForward ==
    [][\A p \in Partitions : committed'[p] >= committed[p]]_committed

\* Every message is processed to the end, over crashes, rebalances, expulsions.
EventuallyHandled == \A m \in Messages : <>(m \in handled)

\* Every routed request is answered in the end, with the same exception: stops,
\* rebalances and crashes only delay what no task had a permit for.
EventuallyAnswered == \A m \in Routed : <>Concluded(RequestOf[m])

\* A revocation and a stop come to an end (or the process dies).
DrainEnds ==
    \A w \in Workers :
        /\ phase[w] = "revoking" ~> phase[w] # "revoking"
        /\ phase[w] \in {"stopping", "exiting"} ~> phase[w] = "down"

===========================================================================
