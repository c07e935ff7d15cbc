------------------------ MODULE TaskConsumerProofs ------------------------
(***************************************************************************)
(* Theorems about TaskConsumer, for any number of replicas, partitions,    *)
(* messages, permits and any budget of adversity. A safety theorem that    *)
(* has to exclude an adversity names it.                                   *)
(***************************************************************************)
EXTENDS TaskConsumer, FiniteSetTheorems, TLAPS

(* A message is a partition and an offset.                                 *)
LEMMA MessageShape ==
    ASSUME NEW m \in Messages
    PROVE  /\ m[1] \in Partitions
           /\ m[2] \in 0 .. (LogLength - 1)
           /\ m[2] \in Nat
           /\ NextOffset(m) \in 0 .. LogLength
           /\ RequestOf[m] \in Requests
           /\ m = <<m[1], m[2]>>
<1>1. m[1] \in Partitions /\ m[2] \in 0 .. (LogLength - 1) /\ m = <<m[1], m[2]>>
    BY DEF Messages, Offsets
<1>2. RequestOf[m] \in Requests
    BY RequestOfAssumption
<1>3. NextOffset(m) \in 0 .. LogLength
    BY <1>1, LogLengthAssumption DEF NextOffset
<1> QED BY <1>1, <1>2, <1>3, LogLengthAssumption

(* Spending from the budget leaves a budget.                               *)
LEMMA SpendType ==
    ASSUME budget \in [Adversity -> Nat], NEW kind \in Adversity, Spend(kind)
    PROVE  budget' \in [Adversity -> Nat]
BY DEF Spend

(* Disown and Unassign keep the types of what they change.                 *)
LEMMA DisownType ==
    ASSUME TypeOK, NEW w \in Workers, Disown(w)
    PROVE  owner' \in [Partitions -> Workers \cup {NoWorker}]
BY DEF TypeOK, Disown

LEMMA UnassignType ==
    ASSUME TypeOK, NEW w \in Workers, Unassign(w)
    PROVE  /\ assigned' \in [Workers -> SUBSET Partitions]
           /\ position' \in [Workers -> [Partitions -> 0 .. LogLength]]
<1>1. 0 \in 0 .. LogLength  BY LogLengthAssumption
<1> QED BY <1>1 DEF TypeOK, Unassign

LEMMA MoveType ==
    ASSUME TypeOK, NEW w \in Workers, NEW m \in Messages, NEW step \in Steps,
           MoveTo(w, m, step)
    PROVE  pc' \in [Workers -> [Messages -> Steps]]
BY DEF TypeOK, MoveTo

(* What is given up on is a set of requests.                               *)
LEMMA GivenUpType ==
    ASSUME NEW w \in Workers
    PROVE  GivenUp(w) \subseteq Requests
BY MessageShape DEF GivenUp, Running

LEMMA CancelTasksType ==
    ASSUME TypeOK, NEW w \in Workers, CancelTasks(w)
    PROVE  /\ pc' \in [Workers -> [Messages -> Steps]]
           /\ committed' \in [Partitions -> 0 .. LogLength]
           /\ handled' \in SUBSET Messages
           /\ abandoned' \in SUBSET Requests
<1>1. \A step \in Steps : Cancelled(step) \in Steps
    BY DEF Cancelled, Steps
<1>2. pc' \in [Workers -> [Messages -> Steps]]
    BY <1>1 DEF CancelTasks, TypeOK
<1>3. committed' \in [Partitions -> 0 .. LogLength]
    BY MessageShape DEF CancelTasks, TypeOK
<1> QED BY <1>2, <1>3, GivenUpType DEF CancelTasks, TypeOK

(* A cancelled task is gone or on its way out, and none is new.            *)
LEMMA CancelTasksMoves ==
    ASSUME TypeOK, NEW w \in Workers, CancelTasks(w)
    PROVE  \A v \in Workers, n \in Messages :
              /\ pc'[v][n] = pc[v][n] \/ pc'[v][n] \in {"idle", "aborting"}
              /\ pc[v][n] = "idle" => pc'[v][n] = "idle"
<1>1. \A step : Cancelled(step) \in {"idle", "aborting"}
    BY DEF Cancelled
<1>2. Cancelled("idle") = "idle"
    BY DEF Cancelled
<1>3. \A v \in Workers, n \in Messages :
          pc'[v][n] = IF v = w THEN Cancelled(pc[w][n]) ELSE pc[v][n]
    BY DEF CancelTasks, TypeOK
<1> QED BY <1>1, <1>2, <1>3

(* The steps of the processes keep the types.                              *)
LEMMA WorkerStepType ==
    ASSUME TypeOK, NEW w \in Workers, WorkerStep(w)
    PROVE  TypeOK'
<1> USE DEF TypeOK
<1>0. {"crash", "stop", "rebalance", "expel", "cancel", "fault"} \subseteq Adversity
    BY DEF Adversity
<1>1. CASE Boot(w)
    BY <1>1 DEF Boot, group, world, Phases
<1>2. CASE BeginRevoke(w)
    BY <1>0, <1>2, SpendType DEF BeginRevoke, group, world, Phases
<1>3. CASE EndRevoke(w)
    BY <1>3, DisownType, UnassignType DEF EndRevoke, world, Phases
<1>4. CASE Expel(w)
    BY <1>0, <1>4, DisownType, SpendType DEF Expel, world
<1>5. CASE Stop(w)
    BY <1>0, <1>5, SpendType DEF Stop, group, world, Phases
<1>6. CASE FinishStop(w)
    BY <1>6, DisownType, UnassignType DEF FinishStop, world, Phases
<1>7. CASE Cancel(w)
    BY <1>0, <1>7, CancelTasksType, SpendType DEF Cancel, group, world
<1>11. CASE BreakLoop(w)
    BY <1>11, CancelTasksType DEF BreakLoop, group, world, Phases
<1>8. CASE Crash(w)
  <2>1. pc' \in [Workers -> [Messages -> Steps]]
      BY <1>8 DEF Crash, Steps
  <2>2. abandoned' \in SUBSET Requests
      BY <1>8, GivenUpType DEF Crash
  <2> QED
      BY <1>0, <1>8, <2>1, <2>2, DisownType, UnassignType, SpendType DEF Crash, world, Phases
<1>9. ASSUME NEW S \in SUBSET Partitions, Join(w, S)  PROVE TypeOK'
  <2>1. 0 \in 0 .. LogLength  BY LogLengthAssumption
  <2> QED BY <1>9, <2>1 DEF Join, ResumeAt, world
<1>10. ASSUME NEW p \in Partitions, Fetch(w, p)  PROVE TypeOK'
  <2> DEFINE o == position[w][p]
  <2>1. o \in Offsets /\ o + 1 \in 0 .. LogLength
      BY <1>10, LogLengthAssumption DEF Fetch, Offsets
  <2>2. <<p, o>> \in Messages
      BY <2>1 DEF Messages
  <2>3. pc' \in [Workers -> [Messages -> Steps]]
      BY <1>10, <2>2 DEF Fetch, Steps
  <2>4. position' \in [Workers -> [Partitions -> 0 .. LogLength]]
      BY <1>10, <2>1 DEF Fetch
  <2> QED BY <1>10, <2>3, <2>4 DEF Fetch, world
<1> QED
    BY <1>1, <1>2, <1>3, <1>4, <1>5, <1>6, <1>7, <1>8, <1>9, <1>10, <1>11 DEF WorkerStep

(* The steps of the tasks keep the types.                                  *)
LEMMA TaskStepType ==
    ASSUME TypeOK, NEW w \in Workers, NEW m \in Messages, TaskStep(w, m)
    PROVE  TypeOK'
<1> USE DEF TypeOK
<1>0. "fault" \in Adversity /\ RequestOf[m] \in Requests
    BY MessageShape DEF Adversity
<1>1. {"idle", "checking", "handling", "effected", "replyOk", "replyError",
       "reporting", "committing"} \subseteq Steps
    BY DEF Steps
<1>2. ASSUME NEW kind \in {"ok", "error"}, Publish(m, kind)
      PROVE  results' \in [Requests -> SUBSET {"ok", "error"}]
    BY <1>0, <1>2 DEF Publish
<1>3. CASE Start(w, m)
  <2>1. Decoded(m) \in Steps  BY DEF Decoded, Steps
  <2> QED BY <1>3, <2>1, MoveType DEF Start, group, world
<1>4. CASE Claim(w, m)
    BY <1>0, <1>1, <1>4, MoveType, SpendType DEF Claim, group
<1>5. CASE Execute(w, m)
  <2>1. executed' \in [Requests -> Nat]
      BY <1>0, <1>5 DEF Execute
  <2> QED BY <1>1, <1>5, <2>1, MoveType DEF Execute, group
<1>6. CASE Succeed(w, m)
    BY <1>1, <1>6, MoveType DEF Succeed, group, world
<1>7. CASE Refuse(w, m)
    BY <1>1, <1>7, MoveType DEF Refuse, group, world
<1>8. CASE Raise(w, m)
    BY <1>0, <1>1, <1>8, MoveType, SpendType DEF Raise, group, world
<1>9. CASE Reply(w, m)
    BY <1>0, <1>1, <1>2, <1>9, MoveType, SpendType DEF Reply, Verdict, group
<1>10. CASE Report(w, m)
    BY <1>0, <1>1, <1>2, <1>10, MoveType, SpendType DEF Report, group
<1>11. CASE Commit(w, m)
  <2>1. committed' \in [Partitions -> 0 .. LogLength]
      BY <1>11, MessageShape DEF Commit
  <2>2. budget' \in [Adversity -> Nat]
      BY <1>0, <1>11, SpendType DEF Commit
  <2>3. pc' \in [Workers -> [Messages -> Steps]]
      BY <1>1, <1>11, MoveType DEF Commit
  <2>4. handled' \in SUBSET Messages
      BY <1>11 DEF Commit
  <2>5. UNCHANGED <<group, phase, world, abandoned>>
      BY <1>11 DEF Commit
  <2> QED BY <2>1, <2>2, <2>3, <2>4, <2>5 DEF group, world
<1> QED
    BY <1>3, <1>4, <1>5, <1>6, <1>7, <1>8, <1>9, <1>10, <1>11 DEF TaskStep

(* Every variable keeps its type over every step of the service.           *)
THEOREM TypeCorrect == Spec => []TypeOK
<1>1. Init => TypeOK
    BY LogLengthAssumption, BudgetAssumption DEF Init, TypeOK, Steps, Phases
<1>2. TypeOK /\ [Next]_vars => TypeOK'
  <2> SUFFICES ASSUME TypeOK, [Next]_vars  PROVE TypeOK'
      OBVIOUS
  <2>1. ASSUME NEW w \in Workers, WorkerStep(w)  PROVE TypeOK'
      BY <2>1, WorkerStepType
  <2>2. ASSUME NEW w \in Workers, NEW m \in Messages, TaskStep(w, m)  PROVE TypeOK'
      BY <2>2, TaskStepType
  <2>3. ASSUME NEW r \in Requests, Evict(r)  PROVE TypeOK'
      BY <2>3, SpendType DEF Evict, TypeOK, group, Adversity
  <2>4. CASE UNCHANGED vars
      BY <2>4 DEF TypeOK, vars
  <2> QED BY <2>1, <2>2, <2>3, <2>4 DEF Next
<1> QED BY <1>1, <1>2, PTL DEF Spec

---------------------------------------------------------------------------
(* Tasks stay within their worker's assignment                             *)

(* A task step moves one task that exists and leaves the group alone.      *)
LEMMA TaskStepMoves ==
    ASSUME TypeOK, NEW w \in Workers, NEW m \in Messages, TaskStep(w, m)
    PROVE  /\ pc[w][m] # "idle"
           /\ \A v \in Workers, n \in Messages :
                 <<v, n>> # <<w, m>> => pc'[v][n] = pc[v][n]
           /\ UNCHANGED <<group, phase>>
<1>1. ASSUME NEW step, MoveTo(w, m, step)
      PROVE  \A v \in Workers, n \in Messages :
                 <<v, n>> # <<w, m>> => pc'[v][n] = pc[v][n]
    BY <1>1 DEF MoveTo, TypeOK
<1>2. CASE Start(w, m)    BY <1>1, <1>2 DEF Start
<1>3. CASE Claim(w, m)    BY <1>1, <1>3 DEF Claim
<1>4. CASE Execute(w, m)  BY <1>1, <1>4 DEF Execute
<1>5. CASE Succeed(w, m)  BY <1>1, <1>5 DEF Succeed
<1>6. CASE Refuse(w, m)   BY <1>1, <1>6 DEF Refuse
<1>7. CASE Raise(w, m)    BY <1>1, <1>7 DEF Raise
<1>8. CASE Reply(w, m)    BY <1>1, <1>8 DEF Reply
<1>9. CASE Report(w, m)   BY <1>1, <1>9 DEF Report
<1>10. CASE Commit(w, m)  BY <1>1, <1>10 DEF Commit
<1> QED
    BY <1>2, <1>3, <1>4, <1>5, <1>6, <1>7, <1>8, <1>9, <1>10 DEF TaskStep

(* What a drained worker gives up holds no task.                           *)
LEMMA UnassignWithin ==
    ASSUME TypeOK, TasksWithinAssignment, NEW w \in Workers, Unassign(w),
           \A n \in Messages : pc'[w][n] = "idle",
           \A v \in Workers \ {w} : pc'[v] = pc[v]
    PROVE  TasksWithinAssignment'
BY DEF TypeOK, TasksWithinAssignment, Tasks, Unassign

LEMMA WorkerStepWithin ==
    ASSUME TypeOK, TasksWithinAssignment, NEW w \in Workers, WorkerStep(w)
    PROVE  TasksWithinAssignment'
<1> USE DEF TypeOK, TasksWithinAssignment, Tasks
<1>1. CASE Boot(w) \/ BeginRevoke(w) \/ Expel(w) \/ Stop(w)
    BY <1>1 DEF Boot, BeginRevoke, Expel, Stop, group
<1>2. CASE EndRevoke(w) \/ FinishStop(w)
    BY <1>2, UnassignWithin DEF EndRevoke, FinishStop, Drained
<1>3. CASE Crash(w)
    BY <1>3, UnassignWithin DEF Crash
<1>4. CASE Cancel(w) \/ BreakLoop(w)
  <2>1. \A v \in Workers, m \in Messages : pc'[v][m] # "idle" => pc[v][m] # "idle"
      BY <1>4, CancelTasksMoves DEF Cancel, BreakLoop
  <2> QED BY <1>4, <2>1 DEF Cancel, BreakLoop, group
<1>5. ASSUME NEW S \in SUBSET Partitions, Join(w, S)  PROVE TasksWithinAssignment'
  <2>1. \A m \in Messages : pc[w][m] = "idle"
      BY <1>5 DEF Join
  <2>2. \A v \in Workers \ {w} : assigned'[v] = assigned[v] /\ position'[v] = position[v]
      BY <1>5 DEF Join
  <2> QED BY <1>5, <2>1, <2>2 DEF Join
<1>6. ASSUME NEW p \in Partitions, Fetch(w, p)  PROVE TasksWithinAssignment'
  <2> DEFINE o == position[w][p]
  <2>1. SUFFICES ASSUME NEW v \in Workers, NEW m \in Messages, pc'[v][m] # "idle"
                 PROVE  m[1] \in assigned[v] /\ m[2] < position'[v][m[1]]
      BY <1>6 DEF Fetch
  <2>2. m[1] \in Partitions /\ m[2] \in Nat /\ m = <<m[1], m[2]>>
      BY MessageShape
  <2>3. /\ position[v][m[1]] \in Int
        /\ position'[v][m[1]] \in Int
        /\ position[v][m[1]] <= position'[v][m[1]]
      BY <1>6, <2>2, LogLengthAssumption DEF Fetch
  <2>4. CASE v = w /\ m = <<p, o>>
      BY <1>6, <2>2, <2>4 DEF Fetch
  <2>5. CASE ~(v = w /\ m = <<p, o>>)
    <3>1. pc[v][m] = pc'[v][m]
        BY <1>6, <2>5 DEF Fetch
    <3>2. m[1] \in assigned[v] /\ m[2] < position[v][m[1]]
        BY <2>1, <3>1
    <3> QED BY <2>2, <2>3, <3>2
  <2> QED BY <2>4, <2>5
<1> QED
    BY <1>1, <1>2, <1>3, <1>4, <1>5, <1>6 DEF WorkerStep

(* Whatever the coordinator, the drains and the crashes do, a task never   *)
(* outlives the assignment of its partition on its worker, so no message   *)
(* ever has a second task on one worker.                                   *)
THEOREM TasksStayWithinAssignment == Spec => []TasksWithinAssignment
<1>1. Init => TasksWithinAssignment
    BY DEF Init, TasksWithinAssignment, Tasks
<1>2. TypeOK /\ TasksWithinAssignment /\ [Next]_vars => TasksWithinAssignment'
  <2> SUFFICES ASSUME TypeOK, TasksWithinAssignment, [Next]_vars
               PROVE  TasksWithinAssignment'
      OBVIOUS
  <2>1. ASSUME NEW w \in Workers, WorkerStep(w)  PROVE TasksWithinAssignment'
      BY <2>1, WorkerStepWithin
  <2>2. ASSUME NEW w \in Workers, NEW m \in Messages, TaskStep(w, m)
        PROVE  TasksWithinAssignment'
      BY <2>2, TaskStepMoves DEF TasksWithinAssignment, Tasks, group
  <2>3. ASSUME NEW r \in Requests, Evict(r)  PROVE TasksWithinAssignment'
      BY <2>3 DEF Evict, TasksWithinAssignment, Tasks, group
  <2>4. CASE UNCHANGED vars
      BY <2>4 DEF TasksWithinAssignment, Tasks, vars
  <2> QED BY <2>1, <2>2, <2>3, <2>4 DEF Next
<1> QED BY <1>1, <1>2, TypeCorrect, PTL DEF Spec

---------------------------------------------------------------------------
(* At most one execution                                                   *)

(* The inductive invariant of the idempotency guard, while keys last. A    *)
(* request is out of reach of every other task from the moment one task    *)
(* sets its key, which is what the four parts say together.                *)
EffectNeedsKey == \A r \in Requests : executed[r] > 0 => r \in idem
HolderHasKey   == \A w \in Workers, m \in Messages :
                     pc[w][m] = "handling" => /\ RequestOf[m] \in idem
                                              /\ executed[RequestOf[m]] = 0
OneHolder      == \A v, w \in Workers, n, m \in Messages :
                     /\ pc[v][n] = "handling"
                     /\ pc[w][m] = "handling"
                     /\ RequestOf[n] = RequestOf[m]
                     => v = w /\ n = m
EffectBeforeOk == \A w \in Workers, m \in Messages :
                     pc[w][m] \in {"effected", "replyOk"} => executed[RequestOf[m]] > 0
KeysLast       == budget["evict"] = 0

GuardInv == /\ KeysLast
            /\ EffectNeedsKey
            /\ HolderHasKey
            /\ OneHolder
            /\ EffectBeforeOk
            /\ ExecutedAtMostOnce

(* Spending on one adversity leaves the allowance of another alone.        *)
LEMMA SpendKeeps ==
    ASSUME TypeOK, NEW kind \in Adversity, NEW other \in Adversity \ {kind}, Spend(kind)
    PROVE  budget'[other] = budget[other]
BY DEF TypeOK, Spend

(* A process step never takes a task into the handler, touches neither     *)
(* Redis nor Telegram nor the result topic, and evicts nothing.            *)
LEMMA WorkerStepWorld ==
    ASSUME TypeOK, NEW w \in Workers, WorkerStep(w)
    PROVE  /\ UNCHANGED world
           /\ budget'["evict"] = budget["evict"]
           /\ \A v \in Workers, n \in Messages :
                 pc'[v][n] \in {"handling", "effected", "replyOk"} => pc'[v][n] = pc[v][n]
<1>0. /\ {"crash", "stop", "rebalance", "expel", "cancel"} \subseteq Adversity
      /\ "evict" \in Adversity \ {"crash", "stop", "rebalance", "expel", "cancel"}
    BY DEF Adversity
<1>1. CASE Boot(w) \/ EndRevoke(w) \/ FinishStop(w)
    BY <1>1 DEF Boot, EndRevoke, FinishStop
<1>2. CASE BeginRevoke(w) \/ Expel(w) \/ Stop(w)
    BY <1>0, <1>2, SpendKeeps DEF BeginRevoke, Expel, Stop
<1>3. CASE Crash(w)
    BY <1>0, <1>3, SpendKeeps DEF Crash, TypeOK
<1>4. CASE Cancel(w) \/ BreakLoop(w)
  <2>1. \A v \in Workers, n \in Messages :
            pc'[v][n] \in {"handling", "effected", "replyOk"} => pc'[v][n] = pc[v][n]
      BY <1>4, CancelTasksMoves DEF Cancel, BreakLoop
  <2> QED BY <1>0, <1>4, <2>1, SpendKeeps DEF Cancel, BreakLoop
<1>5. ASSUME NEW S \in SUBSET Partitions, Join(w, S)
      PROVE  UNCHANGED <<world, budget, pc>>
    BY <1>5 DEF Join
<1>6. ASSUME NEW p \in Partitions, Fetch(w, p)
      PROVE  /\ UNCHANGED <<world, budget>>
             /\ \A v \in Workers, n \in Messages :
                   pc'[v][n] = pc[v][n] \/ pc'[v][n] = "waiting"
    BY <1>6 DEF Fetch, TypeOK
<1> QED
    BY <1>1, <1>2, <1>3, <1>4, <1>5, <1>6 DEF WorkerStep

(* A step that enters no task into the handler and leaves Redis and        *)
(* Telegram alone keeps the guard's invariant.                             *)
LEMMA GuardFrame ==
    ASSUME TypeOK, GuardInv, UNCHANGED <<idem, executed>>,
           budget'["evict"] = budget["evict"],
           \A v \in Workers, n \in Messages :
              pc'[v][n] \in {"handling", "effected"} => pc'[v][n] = pc[v][n],
           \A v \in Workers, n \in Messages :
              pc'[v][n] = "replyOk" => pc[v][n] \in {"effected", "replyOk"}
    PROVE  GuardInv'
<1>1. KeysLast' /\ EffectNeedsKey' /\ ExecutedAtMostOnce'
    BY DEF GuardInv, KeysLast, EffectNeedsKey, ExecutedAtMostOnce
<1>2. HolderHasKey' /\ OneHolder'
    BY DEF GuardInv, HolderHasKey, OneHolder
<1>3. EffectBeforeOk'
    BY DEF GuardInv, EffectBeforeOk
<1> QED BY <1>1, <1>2, <1>3 DEF GuardInv

(* Setting a fresh key makes its task the only holder.                     *)
LEMMA ClaimGuard ==
    ASSUME TypeOK, GuardInv, NEW w \in Workers, NEW m \in Messages, Claim(w, m)
    PROVE  GuardInv'
<1> USE MessageShape
<1>1. "fault" \in Adversity /\ "evict" \in Adversity \ {"fault"}
    BY DEF Adversity
<1>2. budget'["evict"] = budget["evict"]
    BY <1>1, SpendKeeps DEF Claim
<1>3. idem \subseteq idem' /\ executed' = executed
    BY DEF Claim
<1>4. KeysLast' /\ EffectNeedsKey' /\ ExecutedAtMostOnce'
    BY <1>2, <1>3 DEF GuardInv, KeysLast, EffectNeedsKey, ExecutedAtMostOnce
<1>5. \A v \in Workers, n \in Messages :
          \/ <<v, n>> = <<w, m>>
          \/ pc'[v][n] = pc[v][n]
    BY TaskStepMoves DEF TaskStep
<1>6. pc'[w][m] \in {"handling", "committing", "reporting"}
    BY DEF Claim, MoveTo, TypeOK
<1>7. pc'[w][m] = "handling" => RequestOf[m] \notin idem /\ RequestOf[m] \in idem'
    BY DEF Claim, Unclaimed, MoveTo, TypeOK
<1>8. RequestOf[m] \notin idem => executed[RequestOf[m]] = 0
    BY DEF GuardInv, EffectNeedsKey, TypeOK
<1>9. HolderHasKey'
    BY <1>3, <1>5, <1>7, <1>8 DEF GuardInv, HolderHasKey
<1>10. OneHolder'
    BY <1>5, <1>7 DEF GuardInv, OneHolder, HolderHasKey
<1>11. EffectBeforeOk'
    BY <1>3, <1>5, <1>6 DEF GuardInv, EffectBeforeOk
<1> QED BY <1>4, <1>9, <1>10, <1>11 DEF GuardInv

(* The only holder executes, and holds no longer.                          *)
LEMMA ExecuteGuard ==
    ASSUME TypeOK, GuardInv, NEW w \in Workers, NEW m \in Messages, Execute(w, m)
    PROVE  GuardInv'
<1> USE MessageShape
<1> DEFINE q == RequestOf[m]
<1>1. pc[w][m] = "handling" /\ pc'[w][m] = "effected"
    BY DEF Execute, MoveTo, TypeOK
<1>2. q \in idem /\ executed[q] = 0
    BY <1>1 DEF GuardInv, HolderHasKey
<1>3. executed'[q] = 1 /\ \A r \in Requests \ {q} : executed'[r] = executed[r]
    BY <1>2 DEF Execute, TypeOK
<1>4. UNCHANGED <<idem, budget>>
    BY DEF Execute
<1>5. KeysLast' /\ EffectNeedsKey' /\ ExecutedAtMostOnce'
    BY <1>2, <1>3, <1>4 DEF GuardInv, KeysLast, EffectNeedsKey, ExecutedAtMostOnce
<1>6. \A v \in Workers, n \in Messages :
          \/ <<v, n>> = <<w, m>>
          \/ pc'[v][n] = pc[v][n]
    BY TaskStepMoves DEF TaskStep
<1>7. OneHolder'
    BY <1>1, <1>6 DEF GuardInv, OneHolder
<1>8. ASSUME NEW v \in Workers, NEW n \in Messages, pc'[v][n] = "handling"
      PROVE  RequestOf[n] \in idem /\ executed'[RequestOf[n]] = 0
  <2>1. pc[v][n] = "handling" /\ <<v, n>> # <<w, m>>
      BY <1>1, <1>6, <1>8
  <2>2. RequestOf[n] # q
      BY <1>1, <2>1 DEF GuardInv, OneHolder
  <2> QED BY <1>3, <2>1, <2>2 DEF GuardInv, HolderHasKey
<1>9. HolderHasKey'
    BY <1>4, <1>8 DEF HolderHasKey
<1>10. EffectBeforeOk'
  <2> SUFFICES ASSUME NEW v \in Workers, NEW n \in Messages,
                      pc'[v][n] \in {"effected", "replyOk"}
               PROVE  executed'[RequestOf[n]] > 0
      BY DEF EffectBeforeOk
  <2>1. RequestOf[n] \in Requests
      OBVIOUS
  <2>2. CASE RequestOf[n] = q   BY <1>3, <2>2
  <2>3. CASE RequestOf[n] # q   BY <1>1, <1>3, <1>6, <2>1, <2>3 DEF GuardInv, EffectBeforeOk
  <2> QED BY <2>2, <2>3
<1> QED BY <1>5, <1>7, <1>9, <1>10 DEF GuardInv

LEMMA TaskStepGuard ==
    ASSUME TypeOK, GuardInv, NEW w \in Workers, NEW m \in Messages, TaskStep(w, m)
    PROVE  GuardInv'
<1>0. "fault" \in Adversity /\ "evict" \in Adversity \ {"fault"}
    BY DEF Adversity
<1>1. CASE Claim(w, m)    BY <1>1, ClaimGuard
<1>2. CASE Execute(w, m)  BY <1>2, ExecuteGuard
<1>3. ASSUME NEW step \in Steps \ {"handling", "effected"}, MoveTo(w, m, step),
             step = "replyOk" => pc[w][m] = "effected",
             UNCHANGED <<idem, executed>>, budget' = budget \/ Spend("fault")
      PROVE  GuardInv'
  <2>1. budget'["evict"] = budget["evict"]
      BY <1>0, <1>3, SpendKeeps
  <2>2. \A v \in Workers, n \in Messages :
            pc'[v][n] = IF <<v, n>> = <<w, m>> THEN step ELSE pc[v][n]
      BY <1>3 DEF MoveTo, TypeOK
  <2> QED BY <1>3, <2>1, <2>2, GuardFrame
<1>4. CASE Start(w, m)
  <2>1. Decoded(m) \in Steps \ {"handling", "effected", "replyOk"}
      BY DEF Decoded, Steps
  <2> QED BY <1>3, <1>4, <2>1 DEF Start, world
<1>5. {"idle", "replyOk", "replyError", "reporting", "committing"}
          \subseteq Steps \ {"handling", "effected"}
    BY DEF Steps
<1>6. CASE Succeed(w, m)  BY <1>3, <1>5, <1>6 DEF Succeed, world
<1>7. CASE Refuse(w, m)   BY <1>3, <1>5, <1>7 DEF Refuse, world
<1>8. CASE Raise(w, m)    BY <1>3, <1>5, <1>8 DEF Raise, world
<1>9. CASE Reply(w, m)    BY <1>3, <1>5, <1>9 DEF Reply
<1>10. CASE Report(w, m)  BY <1>3, <1>5, <1>10 DEF Report
<1>11. CASE Commit(w, m)  BY <1>3, <1>5, <1>11 DEF Commit, world
<1> QED
    BY <1>1, <1>2, <1>4, <1>6, <1>7, <1>8, <1>9, <1>10, <1>11 DEF TaskStep

LEMMA GuardInvInductive ==
    ASSUME TypeOK, GuardInv, [Next]_vars
    PROVE  GuardInv'
<1>1. ASSUME NEW w \in Workers, WorkerStep(w)  PROVE GuardInv'
    BY <1>1, WorkerStepWorld, GuardFrame DEF world
<1>2. ASSUME NEW w \in Workers, NEW m \in Messages, TaskStep(w, m)  PROVE GuardInv'
    BY <1>2, TaskStepGuard
<1>3. ASSUME NEW r \in Requests  PROVE ~Evict(r)
    BY DEF Evict, Spend, GuardInv, KeysLast
<1>4. CASE UNCHANGED vars
    BY <1>4, GuardFrame DEF vars
<1> QED BY <1>1, <1>2, <1>3, <1>4 DEF Next

LEMMA GuardInvInit ==
    ASSUME Budget["evict"] = 0, Init
    PROVE  GuardInv
BY MessageShape DEF Init, GuardInv, KeysLast, EffectNeedsKey, HolderHasKey, OneHolder,
                    EffectBeforeOk, ExecutedAtMostOnce

(* While Redis keeps its keys, no request's operation ever takes effect    *)
(* twice: not over redelivery, a crash, a zombie replica, a cancelled      *)
(* drain, a failed call or a request the backend sent again.               *)
THEOREM AtMostOnce ==
    ASSUME Budget["evict"] = 0
    PROVE  Spec => []ExecutedAtMostOnce
<1>1. Init => GuardInv
    BY GuardInvInit
<1>2. TypeOK /\ GuardInv /\ [Next]_vars => GuardInv'
    BY GuardInvInductive
<1>3. GuardInv => ExecutedAtMostOnce
    BY DEF GuardInv
<1> QED BY <1>1, <1>2, <1>3, TypeCorrect, PTL DEF Spec

---------------------------------------------------------------------------
(* Refinement of TaskDelivery                                              *)

LEMMA DeliveryStutters ==
    ASSUME UNCHANGED world
    PROVE  [Delivery!Next]_<<idem, executed, results>>
BY DEF world

(* Publishing a result is the contract's Answer.                           *)
LEMMA DeliveryAnswer ==
    ASSUME TypeOK, GuardInv, NEW m \in Messages, NEW kind \in {"ok", "error"},
           Publish(m, kind), kind = "ok" => executed[RequestOf[m]] > 0,
           UNCHANGED <<idem, executed>>
    PROVE  Delivery!Next
<1>1. RequestOf[m] \in Requests
    BY MessageShape
<1>2. executed[RequestOf[m]] > 0 => executed[RequestOf[m]] = 1
    BY <1>1 DEF GuardInv, ExecutedAtMostOnce, TypeOK
<1>3. Delivery!Answer(RequestOf[m], kind)
    BY <1>2 DEF Delivery!Answer, Publish
<1> QED BY <1>1, <1>3 DEF Delivery!Next

(* Setting a fresh key is the contract's Claim, the effect its Execute, a  *)
(* send its Answer; the rest of a task's life is invisible.                *)
LEMMA TaskStepDelivers ==
    ASSUME TypeOK, GuardInv, NEW w \in Workers, NEW m \in Messages, TaskStep(w, m)
    PROVE  [Delivery!Next]_<<idem, executed, results>>
<1> DEFINE q == RequestOf[m]
<1>0. q \in Requests
    BY MessageShape
<1>1. CASE Claim(w, m)
  <2>1. UNCHANGED <<executed, results>>
      BY <1>1 DEF Claim
  <2>2. CASE idem' = idem
      BY <2>1, <2>2, DeliveryStutters DEF world
  <2>3. CASE idem' # idem
    <3>1. q \notin idem /\ idem' = idem \cup {q}
        BY <1>1, <2>3 DEF Claim, Unclaimed
    <3>2. Delivery!Claim(q)
        BY <2>1, <3>1 DEF Delivery!Claim
    <3> QED BY <1>0, <3>2 DEF Delivery!Next
  <2> QED BY <2>2, <2>3
<1>2. CASE Execute(w, m)
  <2>1. q \in idem /\ executed[q] = 0
      BY <1>2 DEF Execute, GuardInv, HolderHasKey
  <2>2. Delivery!Execute(q)
      BY <1>2, <2>1 DEF Execute, Delivery!Execute
  <2> QED BY <1>0, <2>2 DEF Delivery!Next
<1>3. CASE Reply(w, m)
  <2>1. UNCHANGED <<idem, executed>>
      BY <1>3 DEF Reply
  <2>2. \/ pc[w][m] = "replyOk" /\ Publish(m, "ok")
        \/ pc[w][m] = "replyError" /\ Publish(m, "error")
        \/ UNCHANGED results
      BY <1>3 DEF Reply, Verdict
  <2>3. pc[w][m] = "replyOk" => executed[q] > 0
      BY DEF GuardInv, EffectBeforeOk
  <2> QED BY <2>1, <2>2, <2>3, DeliveryAnswer, DeliveryStutters DEF world
<1>4. CASE Report(w, m)
  <2>1. Publish(m, "error") \/ UNCHANGED results
      BY <1>4 DEF Report
  <2> QED BY <1>4, <2>1, DeliveryAnswer, DeliveryStutters DEF Report, world
<1>5. CASE Start(w, m)    BY <1>5, DeliveryStutters DEF Start
<1>6. CASE Succeed(w, m)  BY <1>6, DeliveryStutters DEF Succeed
<1>7. CASE Refuse(w, m)   BY <1>7, DeliveryStutters DEF Refuse
<1>8. CASE Raise(w, m)    BY <1>8, DeliveryStutters DEF Raise
<1>9. CASE Commit(w, m)   BY <1>9, DeliveryStutters DEF Commit
<1> QED
    BY <1>1, <1>2, <1>3, <1>4, <1>5, <1>6, <1>7, <1>8, <1>9 DEF TaskStep

(* Seen through its Redis keys, effects and published results, the whole   *)
(* consumer group implements the contract of one TaskDelivery.             *)
THEOREM ImplementsDelivery ==
    ASSUME Budget["evict"] = 0
    PROVE  Spec => DeliveryRefined
<1>1. Init => Delivery!Init
    BY DEF Init, Delivery!Init
<1>2. TypeOK /\ GuardInv /\ [Next]_vars => [Delivery!Next]_<<idem, executed, results>>
  <2> SUFFICES ASSUME TypeOK, GuardInv, [Next]_vars
               PROVE  [Delivery!Next]_<<idem, executed, results>>
      OBVIOUS
  <2>1. ASSUME NEW w \in Workers, WorkerStep(w)
        PROVE  [Delivery!Next]_<<idem, executed, results>>
      BY <2>1, WorkerStepWorld, DeliveryStutters
  <2>2. ASSUME NEW w \in Workers, NEW m \in Messages, TaskStep(w, m)
        PROVE  [Delivery!Next]_<<idem, executed, results>>
      BY <2>2, TaskStepDelivers
  <2>3. ASSUME NEW r \in Requests  PROVE ~Evict(r)
      BY DEF Evict, Spend, GuardInv, KeysLast
  <2>4. CASE UNCHANGED vars
      BY <2>4, DeliveryStutters DEF vars, world
  <2> QED BY <2>1, <2>2, <2>3, <2>4 DEF Next
<1>3. Init => GuardInv
    BY GuardInvInit
<1>4. TypeOK /\ GuardInv /\ [Next]_vars => GuardInv'
    BY GuardInvInductive
<1> QED
    BY <1>1, <1>2, <1>3, <1>4, TypeCorrect, PTL
    DEF Spec, DeliveryRefined, Delivery!Spec

---------------------------------------------------------------------------
(* One partition, one replica                                              *)

(* Without expulsions what a worker believes it has is its own.            *)
BeliefIsTrue == \A w \in Workers : \A p \in assigned[w] : owner[p] = w
NoExpulsion  == budget["expel"] = 0

LEMMA BeliefInductive ==
    ASSUME TypeOK, BeliefIsTrue, NoExpulsion, [Next]_vars
    PROVE  BeliefIsTrue' /\ NoExpulsion'
<1> USE DEF BeliefIsTrue, NoExpulsion
<1>0. /\ {"crash", "stop", "rebalance", "cancel", "fault", "evict"} \subseteq Adversity
      /\ "expel" \in Adversity \ {"crash", "stop", "rebalance", "cancel", "fault", "evict"}
    BY DEF Adversity
<1>1. ASSUME NEW w \in Workers, WorkerStep(w)  PROVE BeliefIsTrue' /\ NoExpulsion'
  <2>1. CASE Boot(w) \/ BeginRevoke(w) \/ Stop(w) \/ Cancel(w) \/ BreakLoop(w)
      BY <1>0, <2>1, SpendKeeps DEF Boot, BeginRevoke, Stop, Cancel, BreakLoop, group
  <2>2. ASSUME Disown(w), Unassign(w)  PROVE BeliefIsTrue'
      BY <2>2 DEF Disown, Unassign, TypeOK
  <2>3. CASE EndRevoke(w) \/ FinishStop(w)
      BY <2>2, <2>3 DEF EndRevoke, FinishStop
  <2>4. CASE Crash(w)
      BY <1>0, <2>2, <2>4, SpendKeeps DEF Crash
  <2>5. ~Expel(w)
      BY DEF Expel, Spend
  <2>6. ASSUME NEW S \in SUBSET Partitions, Join(w, S)  PROVE BeliefIsTrue' /\ NoExpulsion'
    <3>1. \A v \in Workers \ {w} : assigned'[v] = assigned[v]
        BY <2>6 DEF Join, TypeOK
    <3>2. assigned'[w] = S
        BY <2>6 DEF Join, TypeOK
    <3>3. \A p \in Partitions : owner'[p] = IF p \in S THEN w ELSE owner[p]
        BY <2>6 DEF Join
    <3>4. \A v \in Workers \ {w} : assigned[v] \cap S = {}
        BY <2>6, WorkersAssumption DEF Join
    <3>5. \A v \in Workers : assigned[v] \subseteq Partitions
        BY DEF TypeOK
    <3>6. BeliefIsTrue'
        BY <3>1, <3>2, <3>3, <3>4, <3>5
    <3> QED BY <2>6, <3>6 DEF Join
  <2>7. ASSUME NEW p \in Partitions, Fetch(w, p)  PROVE BeliefIsTrue' /\ NoExpulsion'
      BY <2>7 DEF Fetch
  <2> QED BY <1>1, <2>1, <2>3, <2>4, <2>5, <2>6, <2>7 DEF WorkerStep
<1>2. ASSUME NEW w \in Workers, NEW m \in Messages, TaskStep(w, m)
      PROVE  BeliefIsTrue' /\ NoExpulsion'
  <2>1. UNCHANGED <<owner, assigned>>
      BY <1>2, TaskStepMoves DEF group
  <2>2. UNCHANGED budget \/ Spend("fault")
      BY <1>2 DEF TaskStep, Start, Claim, Execute, Succeed, Refuse, Raise, Reply, Report, Commit
  <2> QED BY <1>0, <2>1, <2>2, SpendKeeps
<1>3. ASSUME NEW r \in Requests, Evict(r)  PROVE BeliefIsTrue' /\ NoExpulsion'
    BY <1>0, <1>3, SpendKeeps DEF Evict, group
<1>4. CASE UNCHANGED vars
    BY <1>4 DEF vars
<1> QED BY <1>1, <1>2, <1>3, <1>4 DEF Next

(* As long as the coordinator expels nobody, no partition is ever in work  *)
(* at two replicas: the drain leaves no task behind the revocation.        *)
THEOREM OneWorker ==
    ASSUME Budget["expel"] = 0
    PROVE  Spec => []OneWorkerPerPartition
<1>1. Init => BeliefIsTrue /\ NoExpulsion
    BY DEF Init, BeliefIsTrue, NoExpulsion
<1>2. TypeOK /\ BeliefIsTrue /\ NoExpulsion /\ [Next]_vars => BeliefIsTrue' /\ NoExpulsion'
    BY BeliefInductive
<1>3. BeliefIsTrue /\ TasksWithinAssignment => OneWorkerPerPartition
    BY DEF BeliefIsTrue, TasksWithinAssignment, OneWorkerPerPartition
<1> QED BY <1>1, <1>2, <1>3, TypeCorrect, TasksStayWithinAssignment, PTL DEF Spec

---------------------------------------------------------------------------
(* One permit: commits follow processing and never move back               *)

Idle(step)  == step = "idle"
Inside(step) == step \notin {"idle", "waiting"}

(* The inductive invariant of a replica with one permit none of whose      *)
(* tasks is ever cancelled, by a drain's timeout or by main()'s return. Of *)
(* a partition's tasks only the lowest can be past the permit (InTurn);    *)
(* every offset a partition's owner has fetched is either processed or     *)
(* still a task of the owner (Covered); and the owner has nothing below    *)
(* the committed offset (NothingBelow).                                    *)
NoCancelling   == /\ budget["cancel"] = 0
                  /\ budget["stop"] = 0
                  /\ \A w \in Workers : phase[w] \in {"up", "revoking", "down"}
NeverCancelled == /\ NoCancelling
                  /\ \A w \in Workers, m \in Messages : pc[w][m] # "aborting"
Serial         == \A w \in Workers, m, n \in Messages :
                     Inside(pc[w][m]) /\ Inside(pc[w][n]) => m = n
InTurn         == \A w \in Workers, m, n \in Messages :
                     /\ Inside(pc[w][m])
                     /\ n[1] = m[1]
                     /\ n[2] < m[2]
                     => Idle(pc[w][n])
OwnerKnows     == \A w \in Workers, p \in Partitions : owner[p] = w => p \in assigned[w]
Covered        == \A w \in Workers, n \in Messages :
                     /\ owner[n[1]] = w
                     /\ n[2] < position[w][n[1]]
                     => n \in handled \/ ~Idle(pc[w][n])
NothingBelow   == \A w \in Workers, n \in Messages :
                     owner[n[1]] = w =>
                        /\ committed[n[1]] <= position[w][n[1]]
                        /\ ~Idle(pc[w][n]) => committed[n[1]] <= n[2]

SeqInv == /\ NeverCancelled
          /\ Serial
          /\ InTurn
          /\ OwnerKnows
          /\ Covered
          /\ NothingBelow
          /\ CommittedAreHandled

(* Nobody is ever cancelled as long as the budget pays for no timeout and  *)
(* no stop.                                                                *)
LEMMA NoCancellingStays ==
    ASSUME TypeOK, NoCancelling, [Next]_vars
    PROVE  NoCancelling'
<1> USE DEF NoCancelling
<1>0. /\ {"crash", "rebalance", "expel", "fault", "evict"} \subseteq Adversity
      /\ \A kind \in {"crash", "rebalance", "expel", "fault", "evict"} :
            {"cancel", "stop"} \subseteq Adversity \ {kind}
    BY DEF Adversity
<1>1. ASSUME NEW kind \in {"crash", "rebalance", "expel", "fault", "evict"}, Spend(kind)
      PROVE  budget'["cancel"] = 0 /\ budget'["stop"] = 0
    BY <1>0, <1>1, SpendKeeps
<1>2. ASSUME NEW w \in Workers, WorkerStep(w)  PROVE NoCancelling'
  <2>1. CASE Boot(w) \/ EndRevoke(w) \/ FinishStop(w)
      BY <2>1 DEF Boot, EndRevoke, FinishStop, TypeOK
  <2>2. CASE BeginRevoke(w)   BY <1>1, <2>2 DEF BeginRevoke, TypeOK
  <2>3. CASE Expel(w)         BY <1>1, <2>3 DEF Expel
  <2>4. CASE Crash(w)         BY <1>1, <2>4 DEF Crash, TypeOK
  <2>5. ~Cancel(w) /\ ~BreakLoop(w) /\ ~Stop(w)
      BY DEF Cancel, BreakLoop, Stop, Spend
  <2>6. ASSUME NEW S \in SUBSET Partitions, Join(w, S)  PROVE NoCancelling'
      BY <2>6 DEF Join
  <2>7. ASSUME NEW p \in Partitions, Fetch(w, p)  PROVE NoCancelling'
      BY <2>7 DEF Fetch
  <2> QED BY <1>2, <2>1, <2>2, <2>3, <2>4, <2>5, <2>6, <2>7 DEF WorkerStep
<1>3. ASSUME NEW w \in Workers, NEW m \in Messages, TaskStep(w, m)  PROVE NoCancelling'
  <2>1. UNCHANGED budget \/ Spend("fault")
      BY <1>3 DEF TaskStep, Start, Claim, Execute, Succeed, Refuse, Raise, Reply, Report, Commit
  <2> QED BY <1>1, <1>3, <2>1, TaskStepMoves
<1>4. ASSUME NEW r \in Requests, Evict(r)  PROVE NoCancelling'
    BY <1>1, <1>4 DEF Evict
<1>5. CASE UNCHANGED vars
    BY <1>5 DEF vars
<1> QED BY <1>2, <1>3, <1>4, <1>5 DEF Next

(* A partition's messages, seen through its offsets.                       *)
LEMMA MessageOf ==
    ASSUME NEW p \in Partitions, NEW o \in Offsets
    PROVE  <<p, o>> \in Messages /\ <<p, o>>[1] = p /\ <<p, o>>[2] = o
BY DEF Messages

(* With one permit, a free permit means no task is past it.                *)
LEMMA FreePermit ==
    ASSUME Concurrency = 1, NEW w \in Workers, PermitFree(w)
    PROVE  \A m \in Messages : ~Inside(pc[w][m])
<1>1. IsFiniteSet(Offsets)
    BY LogLengthAssumption, FS_Interval DEF Offsets
<1>2. IsFiniteSet(Messages)
    BY <1>1, PartitionsAssumption, FS_Product DEF Messages
<1>3. IsFiniteSet(Running(w))
    BY <1>2, FS_Subset DEF Running
<1>4. Cardinality(Running(w)) \in Nat /\ Cardinality(Running(w)) < 1
    BY <1>3, FS_CardinalityType DEF PermitFree
<1>5. Running(w) = {}
    BY <1>3, <1>4, FS_EmptySet
<1> QED BY <1>5 DEF Running, Inside

(* Steps that leave the tasks of everyone but w alone, take w's partitions *)
(* away and end w's tasks keep the invariant: nothing is said of a replica *)
(* that owns nothing and has no task.                                      *)
LEMMA LeaveSeq ==
    ASSUME TypeOK, SeqInv, NEW w \in Workers, Disown(w), Unassign(w),
           \A n \in Messages : pc'[w][n] = "idle",
           \A v \in Workers \ {w} : pc'[v] = pc[v],
           UNCHANGED <<committed, handled>>, NoCancelling'
    PROVE  SeqInv'
<1> USE DEF SeqInv, Inside, Idle
<1>1. \A p \in Partitions : owner'[p] # w
    BY WorkersAssumption DEF Disown
<1>2. \A v \in Workers \ {w}, p \in Partitions : owner'[p] = v <=> owner[p] = v
    BY WorkersAssumption DEF Disown
<1>3. \A v \in Workers \ {w} : assigned'[v] = assigned[v] /\ position'[v] = position[v]
    BY DEF Unassign, TypeOK
<1>4. NeverCancelled' /\ Serial' /\ InTurn'
    BY DEF NeverCancelled, Serial, InTurn
<1>5. OwnerKnows'
    BY <1>1, <1>2, <1>3 DEF OwnerKnows
<1>6. Covered' /\ NothingBelow'
    BY <1>1, <1>2, <1>3, MessageShape DEF Covered, NothingBelow
<1>7. CommittedAreHandled'
    BY DEF CommittedAreHandled
<1> QED BY <1>4, <1>5, <1>6, <1>7

(* A new owner reads from the committed offset: all below is processed.    *)
LEMMA JoinSeq ==
    ASSUME TypeOK, TasksWithinAssignment, SeqInv,
           NEW w \in Workers, NEW S \in SUBSET Partitions, Join(w, S), NoCancelling'
    PROVE  SeqInv'
<1> USE DEF SeqInv, Inside, Idle
<1>1. UNCHANGED <<committed, pc, handled, budget>>
    BY DEF Join
<1>2. NeverCancelled' /\ Serial' /\ InTurn' /\ CommittedAreHandled'
    BY <1>1 DEF NeverCancelled, Serial, InTurn, CommittedAreHandled
<1>3. \A p \in Partitions : owner'[p] = IF p \in S THEN w ELSE owner[p]
    BY DEF Join
<1>4. /\ assigned'[w] = S
      /\ \A p \in S : position'[w][p] = committed[p]
      /\ \A v \in Workers \ {w} : assigned'[v] = assigned[v] /\ position'[v] = position[v]
    BY DEF Join, ResumeAt, TypeOK
<1>5. \A p \in Partitions : owner[p] # w
    BY DEF Join, OwnerKnows
<1>6. \A v \in Workers \ {w}, p \in Partitions : owner'[p] = v => owner[p] = v
    BY <1>3
<1>7. \A p \in Partitions : owner'[p] = w => p \in S
    BY <1>3, <1>5
<1>8. \A n \in Messages : pc[w][n] = "idle"
    BY DEF Join, TasksWithinAssignment, Tasks
<1>9. OwnerKnows'
    BY <1>4, <1>6, <1>7 DEF OwnerKnows
<1>10. Covered'
  <2> SUFFICES ASSUME NEW v \in Workers, NEW n \in Messages,
                      owner'[n[1]] = v, n[2] < position'[v][n[1]]
               PROVE  n \in handled \/ ~Idle(pc[v][n])
      BY <1>1 DEF Covered
  <2>1. CASE v = w   BY <1>4, <1>7, <2>1, MessageShape DEF CommittedAreHandled
  <2>2. CASE v # w   BY <1>4, <1>6, <2>2, MessageShape DEF Covered
  <2> QED BY <2>1, <2>2
<1>11. NothingBelow'
  <2> SUFFICES ASSUME NEW v \in Workers, NEW n \in Messages, owner'[n[1]] = v
               PROVE  /\ committed[n[1]] <= position'[v][n[1]]
                      /\ ~Idle(pc[v][n]) => committed[n[1]] <= n[2]
      BY <1>1 DEF NothingBelow
  <2>1. CASE v = w   BY <1>4, <1>7, <1>8, <2>1, MessageShape DEF TypeOK
  <2>2. CASE v # w   BY <1>4, <1>6, <2>2, MessageShape DEF NothingBelow
  <2> QED BY <2>1, <2>2
<1> QED BY <1>2, <1>9, <1>10, <1>11

(* A fetched record becomes the highest task of its partition.             *)
LEMMA FetchSeq ==
    ASSUME TypeOK, TasksWithinAssignment, SeqInv,
           NEW w \in Workers, NEW p \in Partitions, Fetch(w, p), NoCancelling'
    PROVE  SeqInv'
<1> USE DEF SeqInv, Inside, Idle
<1> DEFINE o == position[w][p]
           f == <<p, o>>
<1>1. o \in Offsets /\ f \in Messages /\ f[1] = p /\ f[2] = o
    BY MessageOf, LogLengthAssumption DEF Fetch, Offsets, TypeOK
<1>2. UNCHANGED <<owner, committed, assigned, handled, budget>>
    BY DEF Fetch
<1>3. /\ pc'[w][f] = "waiting"
      /\ \A v \in Workers, n \in Messages : <<v, n>> # <<w, f>> => pc'[v][n] = pc[v][n]
    BY <1>1 DEF Fetch, TypeOK
<1>4. /\ position'[w][p] = o + 1
      /\ \A v \in Workers, q \in Partitions :
            <<v, q>> # <<w, p>> => position'[v][q] = position[v][q]
    BY DEF Fetch, TypeOK
<1>5. NeverCancelled' /\ Serial' /\ OwnerKnows' /\ CommittedAreHandled'
    BY <1>2, <1>3 DEF NeverCancelled, Serial, OwnerKnows, CommittedAreHandled
<1>6. InTurn'
  <2> SUFFICES ASSUME NEW v \in Workers, NEW m \in Messages, NEW n \in Messages,
                      Inside(pc'[v][m]), n[1] = m[1], n[2] < m[2]
               PROVE  Idle(pc'[v][n])
      BY DEF InTurn
  <2>1. Inside(pc[v][m]) /\ Idle(pc[v][n])
      BY <1>3 DEF InTurn
  <2>2. <<v, n>> # <<w, f>>
    <3>1. SUFFICES ASSUME v = w, n = f  PROVE FALSE
        OBVIOUS
    <3>2. m[2] < o
        BY <1>1, <2>1, <3>1 DEF TasksWithinAssignment, Tasks
    <3> QED BY <1>1, <3>1, <3>2, MessageShape DEF TypeOK
  <2> QED BY <1>3, <2>1, <2>2
<1>7. Covered'
  <2> SUFFICES ASSUME NEW v \in Workers, NEW n \in Messages,
                      owner[n[1]] = v, n[2] < position'[v][n[1]]
               PROVE  n \in handled \/ ~Idle(pc'[v][n])
      BY <1>2 DEF Covered
  <2>1. CASE <<v, n>> = <<w, f>>   BY <1>3, <2>1
  <2>2. CASE <<v, n>> # <<w, f>>
    <3>1. n[1] \in Partitions /\ n[2] \in Int /\ n = <<n[1], n[2]>>
        BY MessageShape
    <3>2. <<v, n[1]>> = <<w, p>> => n[2] < o
        BY <1>1, <1>4, <2>2, <3>1 DEF Offsets
    <3>3. n[2] < position[v][n[1]]
        BY <1>4, <3>1, <3>2
    <3> QED BY <1>3, <2>2, <3>3 DEF Covered
  <2> QED BY <2>1, <2>2
<1>8. NothingBelow'
  <2> SUFFICES ASSUME NEW v \in Workers, NEW n \in Messages, owner[n[1]] = v
               PROVE  /\ committed[n[1]] <= position'[v][n[1]]
                      /\ ~Idle(pc'[v][n]) => committed[n[1]] <= n[2]
      BY <1>2 DEF NothingBelow
  <2>1. n[1] \in Partitions /\ committed[n[1]] \in Int /\ position[v][n[1]] \in Int
      BY MessageShape DEF TypeOK
  <2>2. committed[n[1]] <= position[v][n[1]]
      BY DEF NothingBelow
  <2>3. committed[n[1]] <= position'[v][n[1]]
      BY <1>4, <2>1, <2>2
  <2>4. CASE <<v, n>> = <<w, f>>   BY <1>1, <2>2, <2>3, <2>4
  <2>5. CASE <<v, n>> # <<w, f>>   BY <1>3, <2>3, <2>5 DEF NothingBelow
  <2> QED BY <2>4, <2>5
<1> QED BY <1>5, <1>6, <1>7, <1>8

(* The single permit goes to the lowest waiting task of a partition.       *)
LEMMA StartSeq ==
    ASSUME Concurrency = 1, TypeOK, SeqInv,
           NEW w \in Workers, NEW m \in Messages, Start(w, m), NoCancelling'
    PROVE  SeqInv'
<1> USE DEF SeqInv, Inside, Idle
<1>1. \A n \in Messages : ~Inside(pc[w][n])
    BY FreePermit DEF Start
<1>2. \A v \in Workers, n \in Messages : <<v, n>> # <<w, m>> => pc'[v][n] = pc[v][n]
    BY TaskStepMoves DEF TaskStep
<1>3. pc[w][m] = "waiting" /\ pc'[w][m] = Decoded(m)
    BY DEF Start, MoveTo, TypeOK
<1>4. Inside(Decoded(m)) /\ Decoded(m) # "aborting"
    BY DEF Decoded
<1>5. UNCHANGED <<owner, committed, assigned, position, handled, budget>>
    BY DEF Start, group
<1>6. \A n \in Messages : n[1] = m[1] /\ n[2] < m[2] => pc[w][n] = "idle"
  <2> SUFFICES ASSUME NEW n \in Messages, n[1] = m[1], n[2] < m[2]
               PROVE  pc[w][n] = "idle"
      OBVIOUS
  <2>1. n = <<m[1], n[2]>> /\ n[2] \in Offsets
      BY MessageShape DEF Offsets
  <2>2. pc[w][n] # "waiting"
      BY <2>1 DEF Start
  <2> QED BY <1>1, <2>2
<1>7. NeverCancelled' /\ OwnerKnows' /\ CommittedAreHandled'
    BY <1>2, <1>3, <1>4, <1>5 DEF NeverCancelled, OwnerKnows, CommittedAreHandled
<1>8. Serial'
    BY <1>1, <1>2 DEF Serial
<1>9. InTurn'
  <2> SUFFICES ASSUME NEW v \in Workers, NEW k \in Messages, NEW n \in Messages,
                      Inside(pc'[v][k]), n[1] = k[1], n[2] < k[2]
               PROVE  Idle(pc'[v][n])
      BY DEF InTurn
  <2>1. n[2] \in Int /\ m[2] \in Int
      BY MessageShape
  <2>2. CASE v = w
    <3>1. k = m
        BY <1>1, <1>2, <2>2
    <3> QED BY <1>2, <1>6, <2>1, <2>2, <3>1
  <2>3. CASE v # w   BY <1>2, <2>3 DEF InTurn
  <2> QED BY <2>2, <2>3
<1>10. \A v \in Workers, n \in Messages : Idle(pc'[v][n]) <=> Idle(pc[v][n])
    BY <1>2, <1>3, <1>4
<1>11. Covered' /\ NothingBelow'
    BY <1>5, <1>10 DEF Covered, NothingBelow
<1> QED BY <1>7, <1>8, <1>9, <1>11

(* A step of a task within _process_message moves no other task.           *)
LEMMA InsideSeq ==
    ASSUME TypeOK, SeqInv, NEW w \in Workers, NEW m \in Messages, Inside(pc[w][m]),
           NEW step \in Steps \ {"idle", "waiting", "aborting"}, MoveTo(w, m, step),
           UNCHANGED <<group, committed, handled>>, NoCancelling'
    PROVE  SeqInv'
<1> USE DEF SeqInv, Inside, Idle
<1>1. \A v \in Workers, n \in Messages :
          /\ Idle(pc'[v][n]) <=> Idle(pc[v][n])
          /\ Inside(pc'[v][n]) <=> Inside(pc[v][n])
          /\ pc'[v][n] # "aborting"
    BY DEF MoveTo, TypeOK, NeverCancelled
<1>2. NeverCancelled' /\ Serial' /\ InTurn'
    BY <1>1 DEF NeverCancelled, Serial, InTurn
<1>3. OwnerKnows' /\ Covered' /\ NothingBelow' /\ CommittedAreHandled'
    BY <1>1 DEF OwnerKnows, Covered, NothingBelow, CommittedAreHandled, group
<1> QED BY <1>2, <1>3

(* The commit: all below the task is done, and nothing lower is left.      *)
LEMMA CommitSeq ==
    ASSUME TypeOK, TasksWithinAssignment, SeqInv,
           NEW w \in Workers, NEW m \in Messages, Commit(w, m), NoCancelling'
    PROVE  /\ SeqInv'
           /\ \A p \in Partitions : committed'[p] >= committed[p]
<1> USE DEF SeqInv, Inside, Idle
<1>1. pc[w][m] = "committing"
    BY DEF Commit, NeverCancelled
<1>2. /\ pc'[w][m] = "idle"
      /\ \A v \in Workers, n \in Messages : <<v, n>> # <<w, m>> => pc'[v][n] = pc[v][n]
    BY DEF Commit, MoveTo, TypeOK
<1>3. handled' = handled \cup {m} /\ UNCHANGED <<owner, assigned, position>>
    BY <1>1 DEF Commit, group
<1>5. NeverCancelled' /\ Serial' /\ InTurn' /\ OwnerKnows'
    BY <1>2, <1>3 DEF NeverCancelled, Serial, InTurn, OwnerKnows
<1>6. Covered'
    BY <1>2, <1>3 DEF Covered
<1>7. m[1] \in Partitions /\ m[2] \in Int
    BY MessageShape
<1>8. CASE UNCHANGED committed
  <2>1. NothingBelow'
      BY <1>2, <1>3, <1>8 DEF NothingBelow
  <2>2. CommittedAreHandled'
      BY <1>3, <1>8 DEF CommittedAreHandled
  <2>3. \A p \in Partitions : committed'[p] >= committed[p]
      BY <1>8 DEF TypeOK
  <2> QED BY <1>5, <1>6, <2>1, <2>2, <2>3
<1>9. CASE owner[m[1]] = w /\ committed' = [committed EXCEPT ![m[1]] = NextOffset(m)]
  <2>1. /\ committed'[m[1]] = m[2] + 1
        /\ \A p \in Partitions \ {m[1]} : committed'[p] = committed[p]
      BY <1>7, <1>9 DEF NextOffset, TypeOK
  <2>2. committed[m[1]] <= m[2] /\ m[2] < position[w][m[1]]
      BY <1>1, <1>9 DEF NothingBelow, TasksWithinAssignment, Tasks
  <2>3. \A n \in Messages : n[1] = m[1] /\ n[2] < m[2] => n \in handled
    <3> SUFFICES ASSUME NEW n \in Messages, n[1] = m[1], n[2] < m[2]
                 PROVE  n \in handled
        OBVIOUS
    <3>1. Idle(pc[w][n])
        BY <1>1 DEF InTurn
    <3>2. n[2] \in Int /\ position[w][m[1]] \in Int
        BY <1>7, MessageShape DEF TypeOK
    <3>3. n[2] < position[w][n[1]]
        BY <1>7, <2>2, <3>2
    <3> QED BY <1>9, <3>1, <3>3 DEF Covered
  <2>4. CommittedAreHandled'
    <3> SUFFICES ASSUME NEW n \in Messages, n[2] < committed'[n[1]]
                 PROVE  n \in handled'
        BY DEF CommittedAreHandled
    <3>1. n[1] \in Partitions /\ n[2] \in Int /\ n = <<n[1], n[2]>> /\ m = <<m[1], m[2]>>
        BY MessageShape
    <3>2. CASE n[1] = m[1]
      <4>1. n[2] < m[2] \/ n = m
          BY <1>7, <2>1, <3>1, <3>2
      <4> QED BY <1>3, <2>3, <3>2, <4>1
    <3>3. CASE n[1] # m[1]
        BY <1>3, <2>1, <3>1, <3>3 DEF CommittedAreHandled
    <3> QED BY <3>2, <3>3
  <2>5. NothingBelow'
    <3> SUFFICES ASSUME NEW v \in Workers, NEW n \in Messages, owner[n[1]] = v
                 PROVE  /\ committed'[n[1]] <= position[v][n[1]]
                        /\ ~Idle(pc'[v][n]) => committed'[n[1]] <= n[2]
        BY <1>3 DEF NothingBelow
    <3>1. n[1] \in Partitions /\ n[2] \in Int /\ n = <<n[1], n[2]>> /\ m = <<m[1], m[2]>>
        BY MessageShape
    <3>2. CASE n[1] = m[1]
      <4>1. v = w
          BY <1>9, <3>2
      <4>2. position[w][m[1]] \in Int
          BY <1>7 DEF TypeOK
      <4>3. ~Idle(pc'[v][n]) => ~(n[2] < m[2]) /\ n # m
          BY <1>1, <1>2, <3>2, <4>1 DEF InTurn
      <4>4. ~Idle(pc'[v][n]) => m[2] + 1 <= n[2]
          BY <1>7, <3>1, <3>2, <4>3
      <4> QED BY <1>7, <2>1, <2>2, <3>2, <4>1, <4>2, <4>4
    <3>3. CASE n[1] # m[1]
        BY <1>2, <2>1, <3>1, <3>3 DEF NothingBelow
    <3> QED BY <3>2, <3>3
  <2>6. \A p \in Partitions : committed'[p] >= committed[p]
      BY <1>7, <2>1, <2>2 DEF TypeOK
  <2> QED BY <1>5, <1>6, <2>4, <2>5, <2>6
<1> QED BY <1>8, <1>9 DEF Commit

LEMMA SeqInvInductive ==
    ASSUME Concurrency = 1, TypeOK, TasksWithinAssignment, SeqInv, [Next]_vars
    PROVE  /\ SeqInv'
           /\ \A p \in Partitions : committed'[p] >= committed[p]
<1>0. NoCancelling /\ NoCancelling'
    BY NoCancellingStays DEF SeqInv, NeverCancelled
<1>1. UNCHANGED committed => \A p \in Partitions : committed'[p] >= committed[p]
    BY DEF TypeOK
<1>2. ASSUME UNCHANGED <<assigned, position, pc, committed, handled>>,
             \A p \in Partitions : owner'[p] \in {owner[p], NoWorker}
      PROVE  SeqInv'
  <2>1. \A v \in Workers, p \in Partitions : owner'[p] = v => owner[p] = v
      BY <1>2, WorkersAssumption
  <2>2. Covered' /\ NothingBelow' /\ OwnerKnows'
      BY <1>2, <2>1, MessageShape DEF SeqInv, Covered, NothingBelow, OwnerKnows
  <2> QED
      BY <1>0, <1>2, <2>2 DEF SeqInv, NeverCancelled, Serial, InTurn, CommittedAreHandled
<1>3. ASSUME NEW w \in Workers, WorkerStep(w)  PROVE SeqInv' /\ UNCHANGED committed
  <2>1. CASE Boot(w)         BY <1>2, <2>1 DEF Boot, group
  <2>2. CASE BeginRevoke(w)  BY <1>2, <2>2 DEF BeginRevoke, group
  <2>3. ~Stop(w) /\ ~Cancel(w) /\ ~BreakLoop(w)
      BY <1>0 DEF Stop, Cancel, BreakLoop, Spend, NoCancelling
  <2>4. CASE Expel(w)
    <3>1. \A p \in Partitions : owner'[p] \in {owner[p], NoWorker}
        BY <2>4 DEF Expel, Disown
    <3> QED BY <1>2, <2>4, <3>1 DEF Expel
  <2>5. CASE EndRevoke(w) \/ FinishStop(w)
    <3>1. \A n \in Messages : pc'[w][n] = "idle"
        BY <2>5 DEF EndRevoke, FinishStop, Drained, Tasks
    <3> QED BY <1>0, <2>5, <3>1, LeaveSeq DEF EndRevoke, FinishStop
  <2>6. CASE Crash(w)
    <3>1. /\ \A n \in Messages : pc'[w][n] = "idle"
          /\ \A v \in Workers \ {w} : pc'[v] = pc[v]
        BY <2>6 DEF Crash, TypeOK
    <3> QED BY <1>0, <2>6, <3>1, LeaveSeq DEF Crash
  <2>8. ASSUME NEW S \in SUBSET Partitions, Join(w, S)  PROVE SeqInv' /\ UNCHANGED committed
      BY <1>0, <2>8, JoinSeq DEF Join
  <2>9. ASSUME NEW p \in Partitions, Fetch(w, p)  PROVE SeqInv' /\ UNCHANGED committed
      BY <1>0, <2>9, FetchSeq DEF Fetch
  <2> QED
      BY <1>3, <2>1, <2>2, <2>3, <2>4, <2>5, <2>6, <2>8, <2>9 DEF WorkerStep
<1>4. ASSUME NEW w \in Workers, NEW m \in Messages, TaskStep(w, m)
      PROVE  SeqInv' /\ \A p \in Partitions : committed'[p] >= committed[p]
  <2>3. CASE Start(w, m)   BY <1>0, <1>1, <2>3, StartSeq DEF Start
  <2>4. CASE Commit(w, m)  BY <1>0, <2>4, CommitSeq
  <2>5. ASSUME NEW step \in Steps \ {"idle", "waiting", "aborting"}, MoveTo(w, m, step),
               Inside(pc[w][m]), UNCHANGED <<group, committed, handled>>
        PROVE  SeqInv' /\ UNCHANGED committed
      BY <1>0, <2>5, InsideSeq
  <2>6. {"handling", "effected", "replyOk", "replyError", "reporting", "committing"}
            \subseteq Steps \ {"idle", "waiting", "aborting"}
      BY DEF Steps
  <2>7. CASE Claim(w, m)    BY <1>1, <2>5, <2>6, <2>7 DEF Claim, Inside
  <2>8. CASE Execute(w, m)  BY <1>1, <2>5, <2>6, <2>8 DEF Execute, Inside
  <2>9. CASE Succeed(w, m)  BY <1>1, <2>5, <2>6, <2>9 DEF Succeed, Inside
  <2>10. CASE Refuse(w, m)  BY <1>1, <2>5, <2>6, <2>10 DEF Refuse, Inside
  <2>11. CASE Raise(w, m)   BY <1>1, <2>5, <2>6, <2>11 DEF Raise, Inside
  <2>12. CASE Reply(w, m)   BY <1>1, <2>5, <2>6, <2>12 DEF Reply, Inside
  <2>13. CASE Report(w, m)  BY <1>1, <2>5, <2>6, <2>13 DEF Report, Inside
  <2> QED
      BY <1>4, <2>3, <2>4, <2>7, <2>8, <2>9, <2>10, <2>11, <2>12, <2>13 DEF TaskStep
<1>5. ASSUME NEW r \in Requests, Evict(r)  PROVE SeqInv' /\ UNCHANGED committed
    BY <1>2, <1>5 DEF Evict, group
<1>6. CASE UNCHANGED vars
    BY <1>1, <1>2, <1>6 DEF vars
<1> QED BY <1>1, <1>3, <1>4, <1>5, <1>6 DEF Next

LEMMA SeqInvInit ==
    ASSUME Budget["cancel"] = 0, Budget["stop"] = 0, Init
    PROVE  SeqInv
<1>1. \A m \in Messages : m[1] \in Partitions /\ m[2] \in Nat
    BY MessageShape
<1>2. NeverCancelled /\ Serial /\ InTurn /\ OwnerKnows
    BY WorkersAssumption
    DEF Init, NeverCancelled, NoCancelling, Serial, InTurn, OwnerKnows, Inside
<1>3. Covered /\ NothingBelow /\ CommittedAreHandled
    BY <1>1, WorkersAssumption DEF Init, Covered, NothingBelow, CommittedAreHandled, Idle
<1> QED BY <1>2, <1>3 DEF SeqInv

(* With one permit and no task cancelled, be it by a drain's timeout or by *)
(* the return of main() after a stop, an offset is committed only when     *)
(* every message up to it has been processed to the end, over any number   *)
(* of replicas, crashes, rebalances, expulsions, failed calls and evicted  *)
(* keys.                                                                   *)
THEOREM SequentialCommitsAreHandled ==
    ASSUME Concurrency = 1, Budget["cancel"] = 0, Budget["stop"] = 0
    PROVE  Spec => []CommittedAreHandled
<1>1. Init => SeqInv
    BY SeqInvInit
<1>2. TypeOK /\ TasksWithinAssignment /\ SeqInv /\ [Next]_vars => SeqInv'
    BY SeqInvInductive
<1>3. SeqInv => CommittedAreHandled
    BY DEF SeqInv
<1> QED BY <1>1, <1>2, <1>3, TypeCorrect, TasksStayWithinAssignment, PTL DEF Spec

(* Under the same conditions a committed offset never moves back, even     *)
(* though a replica that lost its partition keeps trying to commit.        *)
THEOREM SequentialCommitsMoveForward ==
    ASSUME Concurrency = 1, Budget["cancel"] = 0, Budget["stop"] = 0
    PROVE  Spec => CommitsMoveForward
<1>1. Init => SeqInv
    BY SeqInvInit
<1>2. TypeOK /\ TasksWithinAssignment /\ SeqInv /\ [Next]_vars => SeqInv'
    BY SeqInvInductive
<1>3. TypeOK /\ TasksWithinAssignment /\ SeqInv /\ [Next]_vars =>
          [\A p \in Partitions : committed'[p] >= committed[p]]_committed
    BY SeqInvInductive
<1> QED
    BY <1>1, <1>2, <1>3, TypeCorrect, TasksStayWithinAssignment, PTL
    DEF Spec, CommitsMoveForward

---------------------------------------------------------------------------
(* The published verdict is the truth                                      *)

(* All copies of a request are routed, or none is: the backend sends the   *)
(* same message again. (A malformed copy would report an error for a       *)
(* request that another copy executes.)                                    *)
CopiesAlike == \A m, n \in Messages :
                  RequestOf[m] = RequestOf[n] => (m \in Routed <=> n \in Routed)

(* Nobody will execute r: it has no routed copy, or its key is set and no  *)
(* task is about to execute it.                                            *)
Barren(r)  == \A m \in Messages : RequestOf[m] = r => m \notin Routed
Settled(r) == /\ executed[r] = 0
              /\ r \in idem \/ Barren(r)
              /\ \A w \in Workers, m \in Messages :
                    RequestOf[m] = r => pc[w][m] # "handling"

NoFaultYet     == budget["fault"] = Budget["fault"]
FaultsSpent    == budget["fault"] <= Budget["fault"]
OkAfterEffect  == \A r \in Requests : "ok" \in results[r] => executed[r] > 0
CheckedRouted  == \A w \in Workers, m \in Messages :
                     pc[w][m] \in {"checking", "handling", "effected", "replyOk"} => m \in Routed
BarrenUntouched == \A r \in Requests : Barren(r) => executed[r] = 0
ReportIsBarren == \A w \in Workers, m \in Messages : pc[w][m] = "reporting" => m \notin Routed
RefusalSettled == \A w \in Workers, m \in Messages :
                     pc[w][m] = "replyError" => Settled(RequestOf[m])
ErrorSettled   == \A r \in Requests : "error" \in results[r] => Settled(r)

(* The inductive invariant, beside the guard's: an error is out, or on its *)
(* way, only for a settled request, until the first call fails.            *)
VerdictInv ==
    /\ FaultsSpent /\ OkAfterEffect /\ CheckedRouted /\ BarrenUntouched
    /\ NoFaultYet => ReportIsBarren /\ RefusalSettled /\ ErrorSettled

(* What a step of a process does to the tasks: it starts, ends or cancels  *)
(* them and answers nothing.                                               *)
LEMMA WorkerStepTasks ==
    ASSUME TypeOK, NEW w \in Workers, WorkerStep(w)
    PROVE  /\ UNCHANGED world
           /\ budget'["fault"] = budget["fault"]
           /\ \A v \in Workers, n \in Messages :
                 pc'[v][n] = pc[v][n] \/ pc'[v][n] \in {"idle", "waiting", "aborting"}
<1>0. /\ {"crash", "stop", "rebalance", "expel", "cancel"} \subseteq Adversity
      /\ "fault" \in Adversity \ {"crash", "stop", "rebalance", "expel", "cancel"}
    BY DEF Adversity
<1>1. UNCHANGED world
    BY WorkerStepWorld
<1>2. CASE Boot(w) \/ EndRevoke(w) \/ FinishStop(w)
    BY <1>1, <1>2 DEF Boot, EndRevoke, FinishStop
<1>3. CASE BeginRevoke(w) \/ Expel(w) \/ Stop(w)
    BY <1>0, <1>1, <1>3, SpendKeeps DEF BeginRevoke, Expel, Stop
<1>4. CASE Crash(w)
    BY <1>0, <1>1, <1>4, SpendKeeps DEF Crash, TypeOK
<1>5. CASE Cancel(w) \/ BreakLoop(w)
  <2>1. \A v \in Workers, n \in Messages :
            pc'[v][n] = pc[v][n] \/ pc'[v][n] \in {"idle", "waiting", "aborting"}
      BY <1>5, CancelTasksMoves DEF Cancel, BreakLoop
  <2> QED BY <1>0, <1>1, <1>5, <2>1, SpendKeeps DEF Cancel, BreakLoop
<1>6. ASSUME NEW S \in SUBSET Partitions, Join(w, S)  PROVE UNCHANGED <<pc, budget>>
    BY <1>6 DEF Join
<1>7. ASSUME NEW p \in Partitions, Fetch(w, p)
      PROVE  /\ UNCHANGED budget
             /\ \A v \in Workers, n \in Messages :
                   pc'[v][n] = pc[v][n] \/ pc'[v][n] = "waiting"
    BY <1>7 DEF Fetch, TypeOK
<1> QED BY <1>1, <1>2, <1>3, <1>4, <1>5, <1>6, <1>7 DEF WorkerStep

(* A task step pays for a fault or for nothing; keys and results only grow.*)
LEMMA TaskStepGrows ==
    ASSUME TypeOK, NEW w \in Workers, NEW m \in Messages, TaskStep(w, m)
    PROVE  /\ UNCHANGED budget \/ Spend("fault")
           /\ idem \subseteq idem'
           /\ \A r \in Requests : results[r] \subseteq results'[r]
<1>1. UNCHANGED budget \/ Spend("fault")
    BY DEF TaskStep, Start, Claim, Execute, Succeed, Refuse, Raise, Reply, Report, Commit
<1>2. idem \subseteq idem'
    BY DEF TaskStep, Start, Claim, Execute, Succeed, Refuse, Raise, Reply, Report, Commit, world
<1>3. UNCHANGED results \/ \E kind : Publish(m, kind)
    BY DEF TaskStep, Start, Claim, Execute, Succeed, Refuse, Raise, Reply, Report, Commit, world
<1>4. \A r \in Requests : results[r] \subseteq results'[r]
    BY <1>3, MessageShape DEF Publish, TypeOK
<1> QED BY <1>1, <1>2, <1>4

(* Only routed messages get to their handler.                              *)
LEMMA CheckedRoutedStep ==
    ASSUME TypeOK, CheckedRouted, NEW w \in Workers, NEW m \in Messages, TaskStep(w, m)
    PROVE  CheckedRouted'
<1> DEFINE inner == {"checking", "handling", "effected", "replyOk"}
<1>1. \A v \in Workers, n \in Messages : <<v, n>> # <<w, m>> => pc'[v][n] = pc[v][n]
    BY TaskStepMoves
<1>2. ASSUME NEW step, MoveTo(w, m, step)  PROVE pc'[w][m] = step
    BY <1>2 DEF MoveTo, TypeOK
<1>3. pc'[w][m] \in inner => m \in Routed
  <2>1. CASE Start(w, m)
      BY <1>2, <2>1 DEF Start, Decoded, Routed
  <2>2. CASE ~Start(w, m)
    <3>1. pc'[w][m] \in inner => pc[w][m] \in inner
        BY <1>2, <2>2 DEF TaskStep, Claim, Execute, Succeed, Refuse, Raise, Reply, Report, Commit
    <3> QED BY <3>1 DEF CheckedRouted
  <2> QED BY <2>1, <2>2
<1> QED BY <1>1, <1>3 DEF CheckedRouted

(* A request without a routed copy is settled.                             *)
LEMMA UnroutedSettled ==
    ASSUME CopiesAlike, CheckedRouted, BarrenUntouched,
           NEW m \in Messages, m \notin Routed
    PROVE  Settled(RequestOf[m])
<1>1. RequestOf[m] \in Requests /\ Barren(RequestOf[m])
    BY MessageShape DEF CopiesAlike, Barren
<1>2. \A w \in Workers, n \in Messages : RequestOf[n] = RequestOf[m] => pc[w][n] # "handling"
    BY <1>1 DEF CheckedRouted, Barren
<1> QED BY <1>1, <1>2 DEF Settled, BarrenUntouched

(* Nothing a task does unsettles a request, while keys last.               *)
LEMMA SettledStays ==
    ASSUME TypeOK, CheckedRouted, NEW r \in Requests, Settled(r),
           NEW w \in Workers, NEW m \in Messages, TaskStep(w, m)
    PROVE  Settled(r)'
<1>0. RequestOf[m] \in Requests
    BY MessageShape
<1>1. \A v \in Workers, n \in Messages : <<v, n>> # <<w, m>> => pc'[v][n] = pc[v][n]
    BY TaskStepMoves
<1>2. ASSUME NEW step, MoveTo(w, m, step)  PROVE pc'[w][m] = step
    BY <1>2 DEF MoveTo, TypeOK
<1>3. pc'[w][m] = "handling" => pc[w][m] = "checking" /\ RequestOf[m] \notin idem
  <2>1. CASE Start(w, m)
      BY <1>2, <2>1 DEF Start, Decoded
  <2>2. CASE Claim(w, m)
      BY <1>2, <2>2 DEF Claim, Unclaimed
  <2>3. CASE ~Start(w, m) /\ ~Claim(w, m)
      BY <1>2, <2>3 DEF TaskStep, Execute, Succeed, Refuse, Raise, Reply, Report, Commit
  <2> QED BY <2>1, <2>2, <2>3
<1>4. ASSUME pc'[w][m] = "handling"  PROVE RequestOf[m] # r
  <2>1. m \in Routed
      BY <1>3, <1>4 DEF CheckedRouted
  <2> QED BY <1>3, <1>4, <2>1 DEF Settled, Barren
<1>5. executed'[r] = executed[r]
  <2>1. CASE Execute(w, m)
      BY <1>0, <2>1 DEF Execute, Settled, TypeOK
  <2>2. CASE ~Execute(w, m)
      BY <2>2 DEF TaskStep, Start, Claim, Succeed, Refuse, Raise, Reply, Report, Commit, world
  <2> QED BY <2>1, <2>2
<1>6. r \in idem' \/ Barren(r)
    BY TaskStepGrows DEF Settled
<1>7. \A v \in Workers, n \in Messages : RequestOf[n] = r => pc'[v][n] # "handling"
    BY <1>1, <1>4 DEF Settled
<1> QED BY <1>5, <1>6, <1>7 DEF Settled, Barren

(* Steps outside the tasks: none takes effect and none answers.            *)
LEMMA VerdictFrame ==
    ASSUME VerdictInv, UNCHANGED world, budget'["fault"] = budget["fault"],
           \A v \in Workers, n \in Messages :
              pc'[v][n] = pc[v][n] \/ pc'[v][n] \in {"idle", "waiting", "aborting"}
    PROVE  VerdictInv'
<1> USE DEF VerdictInv
<1>1. UNCHANGED <<idem, executed, results>>
    BY DEF world
<1>2. FaultsSpent' /\ OkAfterEffect' /\ CheckedRouted' /\ BarrenUntouched'
    BY <1>1 DEF FaultsSpent, OkAfterEffect, CheckedRouted, BarrenUntouched, Barren
<1>3. \A r : Settled(r) => Settled(r)'
    BY <1>1 DEF Settled, Barren
<1>4. ASSUME NoFaultYet'  PROVE ReportIsBarren' /\ RefusalSettled' /\ ErrorSettled'
  <2>1. ReportIsBarren /\ RefusalSettled /\ ErrorSettled
      BY <1>4 DEF NoFaultYet
  <2> QED BY <1>1, <1>3, <2>1 DEF ReportIsBarren, RefusalSettled, ErrorSettled
<1> QED BY <1>2, <1>4

LEMMA TaskStepVerdict ==
    ASSUME CopiesAlike, TypeOK, GuardInv, VerdictInv,
           NEW w \in Workers, NEW m \in Messages, TaskStep(w, m)
    PROVE  VerdictInv'
<1> DEFINE q == RequestOf[m]
<1> USE DEF VerdictInv
<1>0. q \in Requests /\ "fault" \in Adversity /\ Budget["fault"] \in Nat
    BY MessageShape, BudgetAssumption DEF Adversity
<1>1. \A v \in Workers, n \in Messages : <<v, n>> # <<w, m>> => pc'[v][n] = pc[v][n]
    BY TaskStepMoves
<1>2. ASSUME NEW step, MoveTo(w, m, step)  PROVE pc'[w][m] = step
    BY <1>2 DEF MoveTo, TypeOK
<1>3. ASSUME Spend("fault")
      PROVE  budget'["fault"] = budget["fault"] - 1 /\ budget["fault"] \in Nat
    BY <1>0, <1>3 DEF Spend, TypeOK
<1>4. FaultsSpent'
    BY <1>0, <1>3, TaskStepGrows DEF FaultsSpent
<1>5. CheckedRouted'
    BY CheckedRoutedStep
<1>6. \A r \in Requests :
          \/ executed'[r] = executed[r]
          \/ r = q /\ pc[w][m] = "handling" /\ executed'[r] = executed[r] + 1
    BY <1>0 DEF TaskStep, Start, Claim, Execute, Succeed, Refuse, Raise, Reply, Report, Commit,
                world, TypeOK
<1>7. BarrenUntouched'
  <2> SUFFICES ASSUME NEW r \in Requests, Barren(r)  PROVE executed'[r] = 0
      BY DEF BarrenUntouched, Barren
  <2>1. executed[r] = 0
      BY DEF BarrenUntouched
  <2>2. pc[w][m] = "handling" => r # q
      BY DEF CheckedRouted, Barren
  <2> QED BY <1>6, <2>1, <2>2
<1>8. OkAfterEffect'
  <2> SUFFICES ASSUME NEW r \in Requests, "ok" \in results'[r]  PROVE executed'[r] > 0
      BY DEF OkAfterEffect
  <2>1. executed[r] \in Nat /\ executed'[r] \in Nat /\ executed'[r] >= executed[r]
      BY <1>6 DEF TypeOK
  <2>2. CASE "ok" \in results[r]
      BY <2>1, <2>2 DEF OkAfterEffect
  <2>3. CASE "ok" \notin results[r]
    <3>1. pc[w][m] = "replyOk" /\ r = q
        BY <1>0, <2>3 DEF TaskStep, Start, Claim, Execute, Succeed, Refuse, Raise, Reply, Report,
                          Commit, Publish, Verdict, world, TypeOK
    <3>2. executed[q] > 0
        BY <3>1 DEF GuardInv, EffectBeforeOk
    <3> QED BY <2>1, <3>1, <3>2
  <2> QED BY <2>2, <2>3
<1>9. ASSUME NoFaultYet'  PROVE ReportIsBarren' /\ RefusalSettled' /\ ErrorSettled'
  <2>1. ~Spend("fault")
      BY <1>0, <1>3, <1>9 DEF NoFaultYet, FaultsSpent
  <2>2. ReportIsBarren /\ RefusalSettled /\ ErrorSettled
      BY <1>9, <2>1, TaskStepGrows DEF NoFaultYet
  <2>3. \A r \in Requests : Settled(r) => Settled(r)'
      BY SettledStays
  <2>4. ReportIsBarren'
    <3>1. pc'[w][m] = "reporting" => m \notin Routed
      <4>1. CASE Start(w, m)
          BY <1>2, <4>1 DEF Start, Decoded, Routed
      <4>2. CASE ~Start(w, m)
          BY <1>2, <2>1, <4>2 DEF TaskStep, Claim, Execute, Succeed, Refuse, Raise, Reply, Report,
                                  Commit
      <4> QED BY <4>1, <4>2
    <3> QED BY <1>1, <2>2, <3>1 DEF ReportIsBarren
  <2>5. RefusalSettled'
    <3>1. ASSUME pc'[w][m] = "replyError"  PROVE Settled(q)'
      <4>1. CASE Start(w, m)
        <5>1. m \notin Routed
            BY <1>2, <3>1, <4>1 DEF Start, Decoded, Routed
        <5> QED BY <1>0, <2>3, <5>1, UnroutedSettled
      <4>2. CASE Refuse(w, m)
        <5>1. pc[w][m] = "handling" /\ UNCHANGED <<idem, executed>>
            BY <4>2 DEF Refuse, world
        <5>2. q \in idem /\ executed[q] = 0
            BY <5>1 DEF GuardInv, HolderHasKey
        <5>3. \A v \in Workers, n \in Messages : RequestOf[n] = q => pc'[v][n] # "handling"
            BY <1>1, <3>1, <5>1 DEF GuardInv, OneHolder
        <5> QED BY <5>1, <5>2, <5>3 DEF Settled
      <4>3. ~Claim(w, m) /\ ~Execute(w, m) /\ ~Succeed(w, m) /\ ~Raise(w, m)
          BY <1>2, <3>1 DEF Claim, Execute, Succeed, Raise
      <4>4. ~Reply(w, m) /\ ~Report(w, m) /\ ~Commit(w, m)
          BY <1>2, <3>1 DEF Reply, Report, Commit
      <4> QED BY <4>1, <4>2, <4>3, <4>4 DEF TaskStep
    <3> SUFFICES ASSUME NEW v \in Workers, NEW n \in Messages, pc'[v][n] = "replyError"
                 PROVE  Settled(RequestOf[n])'
        BY DEF RefusalSettled
    <3>2. CASE <<v, n>> = <<w, m>>
        BY <3>1, <3>2
    <3>3. CASE <<v, n>> # <<w, m>>
      <4>1. Settled(RequestOf[n])
          BY <1>1, <2>2, <3>3 DEF RefusalSettled
      <4> QED BY <2>3, <4>1, MessageShape
    <3> QED BY <3>2, <3>3
  <2>6. ErrorSettled'
    <3> SUFFICES ASSUME NEW r \in Requests, "error" \in results'[r]  PROVE Settled(r)'
        BY DEF ErrorSettled
    <3>1. CASE "error" \in results[r]
        BY <2>2, <2>3, <3>1 DEF ErrorSettled
    <3>2. CASE "error" \notin results[r]
      <4>1. pc[w][m] \in {"replyError", "reporting"} /\ r = q
          BY <1>0, <3>2 DEF TaskStep, Start, Claim, Execute, Succeed, Refuse, Raise, Reply, Report,
                            Commit, Publish, Verdict, world, TypeOK
      <4>2. CASE pc[w][m] = "replyError"
          BY <2>2, <2>3, <4>1, <4>2 DEF RefusalSettled
      <4>3. CASE pc[w][m] = "reporting"
          BY <2>2, <2>3, <4>1, <4>3, UnroutedSettled DEF ReportIsBarren
      <4> QED BY <4>1, <4>2, <4>3
    <3> QED BY <3>1, <3>2
  <2> QED BY <2>4, <2>5, <2>6
<1> QED BY <1>4, <1>5, <1>7, <1>8, <1>9

LEMMA VerdictInvInit == Init => VerdictInv
<1> SUFFICES ASSUME Init  PROVE VerdictInv
    OBVIOUS
<1>1. budget = Budget /\ Budget["fault"] \in Nat
    BY BudgetAssumption DEF Init, Adversity
<1>2. FaultsSpent /\ OkAfterEffect /\ CheckedRouted /\ BarrenUntouched
    BY <1>1 DEF Init, FaultsSpent, OkAfterEffect, CheckedRouted, BarrenUntouched
<1>3. ReportIsBarren /\ RefusalSettled /\ ErrorSettled
    BY DEF Init, ReportIsBarren, RefusalSettled, ErrorSettled
<1> QED BY <1>2, <1>3 DEF VerdictInv

LEMMA VerdictInvInductive ==
    ASSUME CopiesAlike, TypeOK, GuardInv, VerdictInv, [Next]_vars
    PROVE  VerdictInv'
<1>1. ASSUME NEW w \in Workers, WorkerStep(w)  PROVE VerdictInv'
    BY <1>1, WorkerStepTasks, VerdictFrame
<1>2. ASSUME NEW w \in Workers, NEW m \in Messages, TaskStep(w, m)  PROVE VerdictInv'
    BY <1>2, TaskStepVerdict
<1>3. ASSUME NEW r \in Requests  PROVE ~Evict(r)
    BY DEF Evict, Spend, GuardInv, KeysLast
<1>4. CASE UNCHANGED vars
    BY <1>4, VerdictFrame DEF vars, world
<1> QED BY <1>1, <1>2, <1>3, <1>4 DEF Next

(* Over crashes, cancelled drains, expulsions and repeated requests, "ok"  *)
(* is published only for an operation that took effect, and, until a call  *)
(* fails midway, an error only for one that never will.                    *)
THEOREM VerdictsAreTrue ==
    ASSUME Budget["evict"] = 0, CopiesAlike
    PROVE  Spec => []VerdictIsTrue
<1>1. Init => GuardInv /\ VerdictInv
    BY GuardInvInit, VerdictInvInit
<1>2. TypeOK /\ GuardInv /\ VerdictInv /\ [Next]_vars => GuardInv' /\ VerdictInv'
    BY GuardInvInductive, VerdictInvInductive
<1>3. TypeOK /\ GuardInv /\ VerdictInv => VerdictIsTrue
  <2> SUFFICES ASSUME TypeOK, GuardInv, VerdictInv, NEW r \in Requests
               PROVE  /\ "ok" \in results[r] => executed[r] = 1
                      /\ "error" \in results[r] /\ budget["fault"] = Budget["fault"]
                         => executed[r] = 0
      BY DEF VerdictIsTrue
  <2>1. executed[r] \in Nat /\ executed[r] <= 1
      BY DEF TypeOK, GuardInv, ExecutedAtMostOnce
  <2> QED BY <2>1 DEF VerdictInv, OkAfterEffect, NoFaultYet, ErrorSettled, Settled
<1> QED BY <1>1, <1>2, <1>3, TypeCorrect, PTL DEF Spec

---------------------------------------------------------------------------
(* No request is lost                                                      *)

(* An answer to r is out, or a task is on its way to one, or r is given up.*)
Answering  == {"handling", "effected", "replyOk", "replyError", "reporting"}
Kept(r)    == \/ results[r] # {}
              \/ r \in abandoned
              \/ \E w \in Workers, m \in Routed :
                    RequestOf[m] = r /\ pc[w][m] \in Answering

(* The message needs no further delivery: its request is kept, or a task   *)
(* on it has its permit.                                                   *)
Passed(m)  == Kept(RequestOf[m]) \/ \E w \in Workers : Inside(pc[w][m])

(* Tasks of a partition get their permit in the order of their offsets, so *)
(* everything up to a task with a permit has passed (InsidePassed), and a  *)
(* commit never goes beyond a task that only waits. What a worker fetched  *)
(* has passed or waits, until its waiting tasks are cancelled; it fetches  *)
(* no more after that (FetchedPassed).                                     *)
KeyKept         == \A r \in idem : Kept(r)
DoneKept        == \A w \in Workers : \A m \in Routed :
                      pc[w][m] \in {"committing", "aborting"} => Kept(RequestOf[m])
DownEmpty       == \A w \in Workers : phase[w] = "down" => assigned[w] = {}
InsidePassed    == \A w \in Workers, m \in Messages : \A n \in Routed :
                      Inside(pc[w][m]) /\ n[1] = m[1] /\ n[2] <= m[2] => Passed(n)
StillReads(w, p) == phase[w] = "up" \/ \E k \in Messages : k[1] = p /\ pc[w][k] = "waiting"
FetchedPassed   == \A w \in Workers : \A n \in Routed :
                      /\ n[1] \in assigned[w]
                      /\ n[2] < position[w][n[1]]
                      /\ StillReads(w, n[1])
                      => pc[w][n] = "waiting" \/ Passed(n)
CommittedPassed == \A n \in Routed : n[2] < committed[n[1]] => Passed(n)

AnswerInv == /\ CheckedRouted /\ KeyKept /\ DoneKept /\ DownEmpty
             /\ InsidePassed /\ FetchedPassed /\ CommittedPassed

LEMMA RoutedShape ==
    ASSUME NEW n \in Routed
    PROVE  /\ n \in Messages /\ n[1] \in Partitions /\ n[2] \in Int
           /\ n = <<n[1], n[2]>> /\ RequestOf[n] \in Requests
BY MessageShape DEF Routed

(* What has passed stays passed, and so does what a commit goes beyond, as *)
(* long as kept requests are kept, a task leaves its permit only with its  *)
(* request kept, and a commit is that of a task with a permit.             *)
LEMMA PassedStays ==
    ASSUME TypeOK, AnswerInv,
           \A r \in Requests : Kept(r) => Kept(r)',
           \A w \in Workers : \A n \in Routed :
              Inside(pc[w][n]) => Inside(pc'[w][n]) \/ Kept(RequestOf[n])',
           \A p \in Partitions :
              \/ committed'[p] = committed[p]
              \/ \E w \in Workers, m \in Messages :
                    m[1] = p /\ Inside(pc[w][m]) /\ committed'[p] = m[2] + 1
    PROVE  /\ \A n \in Routed : Passed(n) => Passed(n)'
           /\ CommittedPassed'
<1>1. ASSUME NEW n \in Routed, Passed(n)  PROVE Passed(n)'
    BY <1>1, RoutedShape DEF Passed
<1>2. CommittedPassed'
  <2> SUFFICES ASSUME NEW n \in Routed, n[2] < committed'[n[1]]
               PROVE  Passed(n)
      BY <1>1 DEF CommittedPassed
  <2>1. n[1] \in Partitions /\ n[2] \in Int
      BY RoutedShape
  <2>2. CASE committed'[n[1]] = committed[n[1]]
      BY <2>2 DEF AnswerInv, CommittedPassed
  <2>3. CASE \E w \in Workers, m \in Messages :
                m[1] = n[1] /\ Inside(pc[w][m]) /\ committed'[n[1]] = m[2] + 1
    <3>1. PICK w \in Workers, m \in Messages :
              m[1] = n[1] /\ Inside(pc[w][m]) /\ committed'[n[1]] = m[2] + 1
        BY <2>3
    <3>2. n[2] <= m[2]
        BY <2>1, <3>1, MessageShape
    <3> QED BY <3>1, <3>2 DEF AnswerInv, InsidePassed
  <2> QED BY <2>1, <2>2, <2>3
<1> QED BY <1>1, <1>2

(* A step that leaves the tasks, the answers and the positions alone keeps *)
(* the invariant, and so does one that takes a partition or a key away.    *)
LEMMA AnswerFrame ==
    ASSUME TypeOK, AnswerInv, UNCHANGED <<pc, results, abandoned, committed>>,
           idem' \subseteq idem, DownEmpty',
           \A w \in Workers, p \in Partitions :
              p \in assigned'[w] => /\ p \in assigned[w]
                                    /\ position'[w][p] = position[w][p]
                                    /\ phase'[w] = "up" => phase[w] = "up"
    PROVE  AnswerInv'
<1>1. \A r : Kept(r)' <=> Kept(r)
    BY DEF Kept
<1>2. \A n : Passed(n)' <=> Passed(n)
    BY <1>1 DEF Passed
<1>3. CheckedRouted' /\ KeyKept' /\ DoneKept' /\ InsidePassed' /\ CommittedPassed'
    BY <1>1, <1>2 DEF AnswerInv, CheckedRouted, KeyKept, DoneKept, InsidePassed, CommittedPassed
<1>4. FetchedPassed'
  <2> SUFFICES ASSUME NEW w \in Workers, NEW n \in Routed,
                      n[1] \in assigned'[w], n[2] < position'[w][n[1]], StillReads(w, n[1])'
               PROVE  pc[w][n] = "waiting" \/ Passed(n)
      BY <1>2 DEF FetchedPassed
  <2>1. n[1] \in Partitions
      BY RoutedShape
  <2>2. n[1] \in assigned[w] /\ n[2] < position[w][n[1]] /\ StillReads(w, n[1])
      BY <2>1 DEF StillReads
  <2> QED BY <2>2 DEF AnswerInv, FetchedPassed
<1> QED BY <1>3, <1>4 DEF AnswerInv

(* A new owner reads on from the committed offset: all below has passed.   *)
LEMMA JoinAnswer ==
    ASSUME TypeOK, AnswerInv, NEW w \in Workers, NEW S \in SUBSET Partitions, Join(w, S)
    PROVE  AnswerInv'
<1>1. UNCHANGED <<committed, pc, idem, results, abandoned, phase>>
    BY DEF Join, world
<1>2. /\ assigned'[w] = S
      /\ \A p \in S : position'[w][p] = committed[p]
      /\ \A v \in Workers \ {w} : assigned'[v] = assigned[v] /\ position'[v] = position[v]
    BY DEF Join, ResumeAt, TypeOK
<1>3. \A r : Kept(r)' <=> Kept(r)
    BY <1>1 DEF Kept
<1>4. \A n : Passed(n)' <=> Passed(n)
    BY <1>1, <1>3 DEF Passed
<1>5. CheckedRouted' /\ KeyKept' /\ DoneKept' /\ InsidePassed' /\ CommittedPassed'
    BY <1>1, <1>3, <1>4
    DEF AnswerInv, CheckedRouted, KeyKept, DoneKept, InsidePassed, CommittedPassed
<1>6. DownEmpty'
    BY <1>1, <1>2 DEF AnswerInv, DownEmpty, Join
<1>7. FetchedPassed'
  <2> SUFFICES ASSUME NEW v \in Workers, NEW n \in Routed,
                      n[1] \in assigned'[v], n[2] < position'[v][n[1]], StillReads(v, n[1])
               PROVE  pc[v][n] = "waiting" \/ Passed(n)
      BY <1>1, <1>4 DEF FetchedPassed, StillReads
  <2>1. CASE v = w   BY <1>2, <2>1 DEF AnswerInv, CommittedPassed
  <2>2. CASE v # w   BY <1>2, <2>2 DEF AnswerInv, FetchedPassed
  <2> QED BY <2>1, <2>2
<1> QED BY <1>5, <1>6, <1>7 DEF AnswerInv

(* A fetched record waits; before, its offset had no task on the worker.   *)
LEMMA FetchAnswer ==
    ASSUME TypeOK, TasksWithinAssignment, AnswerInv,
           NEW w \in Workers, NEW p \in Partitions, Fetch(w, p)
    PROVE  AnswerInv'
<1> DEFINE o == position[w][p]
           f == <<p, o>>
<1>1. o \in Offsets /\ f \in Messages /\ f[1] = p /\ f[2] = o
    BY MessageOf, LogLengthAssumption DEF Fetch, Offsets, TypeOK
<1>2. UNCHANGED <<committed, assigned, phase, idem, results, abandoned>>
    BY DEF Fetch, world
<1>3. /\ pc'[w][f] = "waiting"
      /\ \A v \in Workers, n \in Messages : <<v, n>> # <<w, f>> => pc'[v][n] = pc[v][n]
    BY <1>1 DEF Fetch, TypeOK
<1>4. /\ position'[w][p] = o + 1
      /\ \A v \in Workers, q \in Partitions :
            <<v, q>> # <<w, p>> => position'[v][q] = position[v][q]
    BY DEF Fetch, TypeOK
<1>5. pc[w][f] = "idle"
    BY <1>1, LogLengthAssumption DEF TasksWithinAssignment, Tasks, Offsets
<1>6. \A v \in Workers, n \in Messages :
          /\ Inside(pc'[v][n]) <=> Inside(pc[v][n])
          /\ Inside(pc[v][n]) => pc'[v][n] = pc[v][n]
    BY <1>3, <1>5 DEF Inside
<1>7. \A step \in Answering \cup {"checking", "committing", "aborting"} : Inside(step)
    BY DEF Answering, Inside
<1>8. \A r : Kept(r) => Kept(r)'
    BY <1>2, <1>6, <1>7, RoutedShape DEF Kept
<1>9. /\ \A n \in Routed : Passed(n) => Passed(n)'
      /\ CommittedPassed'
    BY <1>2, <1>6, <1>8, RoutedShape, PassedStays
<1>10. CheckedRouted'
    BY <1>3 DEF AnswerInv, CheckedRouted
<1>11. KeyKept' /\ DoneKept'
    BY <1>2, <1>3, <1>8, RoutedShape DEF AnswerInv, KeyKept, DoneKept
<1>12. DownEmpty'
    BY <1>2 DEF AnswerInv, DownEmpty
<1>13. InsidePassed'
    BY <1>6, <1>9 DEF AnswerInv, InsidePassed
<1>14. FetchedPassed'
  <2> SUFFICES ASSUME NEW v \in Workers, NEW n \in Routed,
                      n[1] \in assigned[v], n[2] < position'[v][n[1]], StillReads(v, n[1])'
               PROVE  pc'[v][n] = "waiting" \/ Passed(n)'
      BY <1>2 DEF FetchedPassed
  <2>0. n \in Messages /\ n[1] \in Partitions /\ n[2] \in Int /\ n = <<n[1], n[2]>>
      BY RoutedShape
  <2>1. CASE <<v, n>> = <<w, f>>   BY <1>3, <2>1
  <2>2. CASE <<v, n>> # <<w, f>>
    <3>1. <<v, n[1]>> = <<w, p>> => n[2] < o
      <4>1. ASSUME v = w, n[1] = p  PROVE n[2] # o
          BY <2>2, <2>0, <4>1
      <4>2. ASSUME v = w, n[1] = p  PROVE n[2] < o + 1
          BY <1>4, <4>2
      <4> QED BY <1>1, <2>0, <4>1, <4>2 DEF Offsets
    <3>2. n[2] < position[v][n[1]]
        BY <1>4, <2>0, <3>1
    <3>3. StillReads(v, n[1])
      <4>1. CASE v = w   BY <4>1 DEF StillReads, Fetch
      <4>2. CASE v # w   BY <1>2, <1>3, <4>2 DEF StillReads
      <4> QED BY <4>1, <4>2
    <3>4. pc[v][n] = "waiting" \/ Passed(n)
        BY <3>2, <3>3 DEF AnswerInv, FetchedPassed
    <3> QED BY <1>3, <1>9, <2>0, <2>2, <3>4
  <2> QED BY <2>1, <2>2
<1> QED BY <1>9, <1>10, <1>11, <1>12, <1>13, <1>14 DEF AnswerInv

(* When a worker's tasks are cut short, by a crash or a cancellation, each *)
(* request with a task past the permit is given up on or already answered. *)
LEMMA CutAnswer ==
    ASSUME TypeOK, AnswerInv, NEW w \in Workers,
           \A n \in Messages : pc'[w][n] \in {"idle", "aborting"},
           \A n \in Messages : Inside(pc'[w][n]) => Inside(pc[w][n]),
           \A v \in Workers \ {w} : pc'[v] = pc[v],
           abandoned' = abandoned \cup GivenUp(w), UNCHANGED <<idem, results>>,
           \A p \in Partitions :
              \/ committed'[p] = committed[p]
              \/ \E m \in Messages :
                    m[1] = p /\ Inside(pc[w][m]) /\ committed'[p] = m[2] + 1,
           phase'[w] # "up", \A v \in Workers \ {w} : phase'[v] = phase[v],
           DownEmpty',
           \A v \in Workers \ {w} : assigned'[v] = assigned[v] /\ position'[v] = position[v]
    PROVE  AnswerInv'
<1>1. \A n \in Messages :
          Inside(pc[w][n]) /\ pc[w][n] # "committing" => RequestOf[n] \in abandoned'
    BY DEF GivenUp, Running, Inside
<1>2. \A step \in Answering : Inside(step) /\ step # "committing"
    BY DEF Answering, Inside
<1>3. ASSUME NEW r, Kept(r)  PROVE Kept(r)'
  <2>1. CASE results[r] # {} \/ r \in abandoned
      BY <2>1 DEF Kept
  <2>2. CASE \E v \in Workers, m \in Routed : RequestOf[m] = r /\ pc[v][m] \in Answering
    <3>1. PICK v \in Workers, m \in Routed : RequestOf[m] = r /\ pc[v][m] \in Answering
        BY <2>2
    <3>2. CASE v = w
        BY <1>1, <1>2, <3>1, <3>2, RoutedShape DEF Kept
    <3>3. CASE v # w
        BY <3>1, <3>3 DEF Kept
    <3> QED BY <3>2, <3>3
  <2> QED BY <1>3, <2>1, <2>2 DEF Kept
<1>4. ASSUME NEW v \in Workers, NEW n \in Routed, Inside(pc[v][n])
      PROVE  Inside(pc'[v][n]) \/ Kept(RequestOf[n])'
  <2>1. CASE v # w
      BY <1>4, <2>1
  <2>2. CASE v = w /\ pc[w][n] # "committing"
      BY <1>1, <1>4, <2>2, RoutedShape DEF Kept
  <2>3. CASE v = w /\ pc[w][n] = "committing"
      BY <1>3, <2>3 DEF AnswerInv, DoneKept
  <2> QED BY <2>1, <2>2, <2>3
<1>5. /\ \A n \in Routed : Passed(n) => Passed(n)'
      /\ CommittedPassed'
    BY <1>3, <1>4, PassedStays
<1>6. CheckedRouted'
    BY DEF AnswerInv, CheckedRouted
<1>7. KeyKept'
    BY <1>3 DEF AnswerInv, KeyKept
<1>8. DoneKept'
  <2> SUFFICES ASSUME NEW v \in Workers, NEW n \in Routed,
                      pc'[v][n] \in {"committing", "aborting"}
               PROVE  Kept(RequestOf[n])'
      BY DEF DoneKept
  <2>1. CASE v = w
    <3>1. Inside(pc[w][n])
        BY <2>1, RoutedShape DEF Inside
    <3>2. CASE pc[w][n] = "committing"
        BY <1>3, <3>2 DEF AnswerInv, DoneKept
    <3>3. CASE pc[w][n] # "committing"
        BY <1>1, <3>1, <3>3, RoutedShape DEF Kept
    <3> QED BY <3>2, <3>3
  <2>2. CASE v # w
      BY <1>3, <2>2 DEF AnswerInv, DoneKept
  <2> QED BY <2>1, <2>2
<1>9. InsidePassed'
  <2> SUFFICES ASSUME NEW v \in Workers, NEW m \in Messages, NEW n \in Routed,
                      Inside(pc'[v][m]), n[1] = m[1], n[2] <= m[2]
               PROVE  Passed(n)
      BY <1>5 DEF InsidePassed
  <2>1. Inside(pc[v][m])
      OBVIOUS
  <2> QED BY <2>1 DEF AnswerInv, InsidePassed
<1>10. FetchedPassed'
  <2> SUFFICES ASSUME NEW v \in Workers, NEW n \in Routed,
                      n[1] \in assigned'[v], n[2] < position'[v][n[1]], StillReads(v, n[1])'
               PROVE  pc'[v][n] = "waiting" \/ Passed(n)'
      BY DEF FetchedPassed
  <2>1. v # w
      BY DEF StillReads
  <2>2. StillReads(v, n[1])
      BY <2>1 DEF StillReads
  <2>3. pc[v][n] = "waiting" \/ Passed(n)
      BY <2>1, <2>2 DEF AnswerInv, FetchedPassed
  <2> QED BY <1>5, <2>1, <2>3
<1> QED BY <1>5, <1>6, <1>7, <1>8, <1>9, <1>10 DEF AnswerInv

LEMMA WorkerStepAnswer ==
    ASSUME TypeOK, TasksWithinAssignment, AnswerInv, NEW w \in Workers, WorkerStep(w)
    PROVE  AnswerInv'
<1>1. CASE Boot(w)
  <2>1. assigned[w] = {}
      BY <1>1 DEF Boot, AnswerInv, DownEmpty
  <2>2. /\ UNCHANGED <<group, pc, results, abandoned, committed, idem>>
        /\ \A v \in Workers \ {w} : phase'[v] = phase[v]
        /\ phase'[w] = "up"
      BY <1>1 DEF Boot, world, TypeOK
  <2>3. DownEmpty'
      BY <2>2 DEF AnswerInv, DownEmpty, group
  <2> QED BY <2>1, <2>2, <2>3, AnswerFrame DEF group
<1>2. CASE BeginRevoke(w) \/ Stop(w)
  <2>1. /\ UNCHANGED <<group, pc, results, abandoned, committed, idem>>
        /\ \A v \in Workers \ {w} : phase'[v] = phase[v]
        /\ phase'[w] \notin {"up", "down"}
      BY <1>2 DEF BeginRevoke, Stop, world, TypeOK
  <2>2. DownEmpty'
      BY <2>1 DEF AnswerInv, DownEmpty, group
  <2> QED BY <2>1, <2>2, AnswerFrame DEF group
<1>3. CASE Expel(w)
  <2>1. DownEmpty'
      BY <1>3 DEF Expel, AnswerInv, DownEmpty
  <2> QED BY <1>3, <2>1, AnswerFrame DEF Expel, world
<1>4. CASE EndRevoke(w) \/ FinishStop(w)
  <2>1. /\ assigned'[w] = {}
        /\ \A v \in Workers \ {w} : /\ assigned'[v] = assigned[v]
                                    /\ position'[v] = position[v]
                                    /\ phase'[v] = phase[v]
      BY <1>4 DEF EndRevoke, FinishStop, Unassign, TypeOK
  <2>2. DownEmpty'
      BY <2>1 DEF AnswerInv, DownEmpty
  <2>3. UNCHANGED <<pc, results, abandoned, committed, idem>>
      BY <1>4 DEF EndRevoke, FinishStop, world
  <2> QED BY <2>1, <2>2, <2>3, AnswerFrame
<1>5. CASE Cancel(w) \/ BreakLoop(w)
  <2>1. /\ CancelTasks(w)
        /\ UNCHANGED <<group, idem, results>>
        /\ phase'[w] \notin {"up", "down"}
        /\ \A v \in Workers \ {w} : phase'[v] = phase[v]
      BY <1>5 DEF Cancel, BreakLoop, world, TypeOK
  <2>2. \A step : Cancelled(step) \in {"idle", "aborting"}
      BY DEF Cancelled
  <2>3. \A step : Inside(Cancelled(step)) => Inside(step)
      BY DEF Cancelled, Inside
  <2>4. /\ \A n \in Messages : pc'[w][n] = Cancelled(pc[w][n])
        /\ \A v \in Workers \ {w} : pc'[v] = pc[v]
      BY <2>1 DEF CancelTasks, TypeOK
  <2>5. \A p \in Partitions :
            \/ committed'[p] = committed[p]
            \/ \E m \in Messages :
                  m[1] = p /\ Inside(pc[w][m]) /\ committed'[p] = m[2] + 1
      BY <2>1 DEF CancelTasks, NextOffset, Inside, TypeOK
  <2>6. DownEmpty'
      BY <2>1 DEF AnswerInv, DownEmpty, group
  <2>7. abandoned' = abandoned \cup GivenUp(w)
      BY <2>1 DEF CancelTasks
  <2> QED BY <2>1, <2>2, <2>3, <2>4, <2>5, <2>6, <2>7, CutAnswer DEF group
<1>6. CASE Crash(w)
  <2>1. /\ \A n \in Messages : pc'[w][n] = "idle"
        /\ \A v \in Workers \ {w} : /\ pc'[v] = pc[v]
                                    /\ phase'[v] = phase[v]
                                    /\ assigned'[v] = assigned[v]
                                    /\ position'[v] = position[v]
        /\ phase'[w] = "down" /\ assigned'[w] = {}
      BY <1>6 DEF Crash, Unassign, TypeOK
  <2>2. /\ UNCHANGED <<idem, results, committed>>
        /\ abandoned' = abandoned \cup GivenUp(w)
      BY <1>6 DEF Crash, world
  <2>3. DownEmpty'
      BY <2>1 DEF AnswerInv, DownEmpty
  <2>4. \A n \in Messages : ~Inside(pc'[w][n])
      BY <2>1 DEF Inside
  <2> QED BY <2>1, <2>2, <2>3, <2>4, CutAnswer
<1> QED
    BY <1>1, <1>2, <1>3, <1>4, <1>5, <1>6, JoinAnswer, FetchAnswer DEF WorkerStep

(* An answer on its way arrives, is passed on, or is given up.             *)
LEMMA TaskStepKeeps ==
    ASSUME TypeOK, AnswerInv, NEW w \in Workers, NEW m \in Messages, TaskStep(w, m)
    PROVE  /\ \A r \in Requests : Kept(r) => Kept(r)'
           /\ m \in Routed /\ pc'[w][m] \in {"committing", "aborting"} => Kept(RequestOf[m])'
           /\ KeyKept'
<1> DEFINE q == RequestOf[m]
<1>0. q \in Requests
    BY MessageShape
<1>1. \A v \in Workers, n \in Messages : <<v, n>> # <<w, m>> => pc'[v][n] = pc[v][n]
    BY TaskStepMoves
<1>2. ASSUME NEW step, MoveTo(w, m, step)  PROVE pc'[w][m] = step
    BY <1>2 DEF MoveTo, TypeOK
<1>3. ASSUME NEW kind, Publish(m, kind)  PROVE Kept(q)'
  <2>1. kind \in results'[q]
      BY <1>0, <1>3 DEF Publish, TypeOK
  <2> QED BY <2>1 DEF Kept
<1>4. ASSUME m \in Routed, pc'[w][m] \in Answering  PROVE Kept(q)'
    BY <1>4 DEF Kept
<1>5. {"handling", "effected", "replyOk", "replyError", "reporting"} = Answering
    BY DEF Answering
<1>6. abandoned \subseteq abandoned'
    BY DEF TaskStep, Start, Claim, Execute, Succeed, Refuse, Raise, Reply, Report, Commit
<1>7. ASSUME m \in Routed, pc[w][m] \in Answering  PROVE Kept(q)'
  <2>1. ~Start(w, m) /\ ~Claim(w, m) /\ ~Commit(w, m)
      BY <1>7 DEF Start, Claim, Commit, Answering
  <2>2. CASE Execute(w, m) \/ Succeed(w, m) \/ Refuse(w, m) \/ Raise(w, m)
      BY <1>2, <1>4, <1>5, <1>7, <2>2 DEF Execute, Succeed, Refuse, Raise
  <2>3. CASE Reply(w, m)
      BY <1>2, <1>3, <1>4, <1>5, <1>7, <2>3 DEF Reply
  <2>4. CASE Report(w, m)
    <3>1. q \in abandoned' => Kept(q)'
        BY DEF Kept
    <3> QED BY <1>3, <2>4, <3>1 DEF Report
  <2> QED BY <2>1, <2>2, <2>3, <2>4 DEF TaskStep
<1>8. ASSUME NEW r \in Requests, Kept(r)  PROVE Kept(r)'
  <2>1. CASE results[r] # {} \/ r \in abandoned
      BY <1>6, <1>8, <2>1, TaskStepGrows DEF Kept
  <2>2. CASE \E v \in Workers, n \in Routed : RequestOf[n] = r /\ pc[v][n] \in Answering
    <3>1. PICK v \in Workers, n \in Routed : RequestOf[n] = r /\ pc[v][n] \in Answering
        BY <2>2
    <3>2. n \in Messages
        BY RoutedShape
    <3>3. CASE <<v, n>> = <<w, m>>
        BY <1>7, <3>1, <3>3
    <3>4. CASE <<v, n>> # <<w, m>>
        BY <1>1, <3>1, <3>2, <3>4 DEF Kept
    <3> QED BY <3>3, <3>4
  <2> QED BY <1>8, <2>1, <2>2 DEF Kept
<1>9. ASSUME m \in Routed, pc'[w][m] \in {"committing", "aborting"}  PROVE Kept(q)'
  <2>1. ~Start(w, m)
      BY <1>2, <1>9 DEF Start, Decoded, Routed
  <2>2. CASE Claim(w, m)
    <3>1. q \in idem
        BY <1>2, <1>9, <2>2 DEF Claim, Unclaimed
    <3> QED BY <1>0, <1>8, <3>1 DEF AnswerInv, KeyKept
  <2>3. CASE pc[w][m] \in Answering
      BY <1>7, <1>9, <2>3
  <2>4. CASE ~Claim(w, m) /\ pc[w][m] \notin Answering
      BY <1>2, <1>5, <1>9, <2>1, <2>4
      DEF TaskStep, Execute, Succeed, Refuse, Raise, Reply, Report, Commit
  <2> QED BY <2>2, <2>3, <2>4
<1>10. KeyKept'
  <2>1. CASE idem' \subseteq idem
      BY <1>8, <2>1 DEF AnswerInv, KeyKept, TypeOK
  <2>2. CASE ~(idem' \subseteq idem)
    <3>1. Claim(w, m) /\ idem' = idem \cup {q} /\ pc'[w][m] \in {"handling", "reporting"}
        BY <1>2, <2>2 DEF TaskStep, Start, Claim, Execute, Succeed, Refuse, Raise, Reply,
                          Report, Commit, world
    <3>2. m \in Routed
        BY <3>1 DEF Claim, AnswerInv, CheckedRouted
    <3>3. Kept(q)'
        BY <1>4, <1>5, <3>1, <3>2
    <3> QED BY <1>8, <3>1, <3>3 DEF AnswerInv, KeyKept, TypeOK
  <2> QED BY <2>1, <2>2
<1> QED BY <1>8, <1>9, <1>10

LEMMA TaskStepAnswer ==
    ASSUME TypeOK, TasksWithinAssignment, AnswerInv,
           NEW w \in Workers, NEW m \in Messages, TaskStep(w, m)
    PROVE  AnswerInv'
<1>1. /\ \A v \in Workers, n \in Messages : <<v, n>> # <<w, m>> => pc'[v][n] = pc[v][n]
      /\ pc[w][m] # "idle"
      /\ UNCHANGED <<assigned, position, phase>>
    BY TaskStepMoves DEF group
<1>2. ASSUME NEW step, MoveTo(w, m, step)  PROVE pc'[w][m] = step
    BY <1>2 DEF MoveTo, TypeOK
<1>3. pc'[w][m] # "waiting"
  <2>1. Decoded(m) # "waiting"
      BY DEF Decoded
  <2> QED BY <1>2, <2>1 DEF TaskStep, Start, Claim, Execute, Succeed, Refuse, Raise, Reply,
                            Report, Commit
<1>4. ~Commit(w, m) => pc'[w][m] # "idle"
  <2>1. Decoded(m) # "idle"
      BY DEF Decoded
  <2> QED BY <1>2, <2>1 DEF TaskStep, Start, Claim, Execute, Succeed, Refuse, Raise, Reply,
                            Report
<1>5. Commit(w, m) => pc[w][m] \in {"committing", "aborting"}
    BY DEF Commit
<1>6. pc[w][m] = "waiting" <=> Start(w, m)
    BY DEF TaskStep, Start, Claim, Execute, Succeed, Refuse, Raise, Reply, Report, Commit
<1>7. ASSUME NEW v \in Workers, NEW n \in Routed, Inside(pc[v][n])
      PROVE  Inside(pc'[v][n]) \/ Kept(RequestOf[n])'
  <2>0. n \in Messages /\ RequestOf[n] \in Requests
      BY RoutedShape
  <2>1. CASE <<v, n>> # <<w, m>>
      BY <1>1, <1>7, <2>0, <2>1
  <2>2. CASE <<v, n>> = <<w, m>> /\ ~Commit(w, m)
      BY <1>3, <1>4, <2>2 DEF Inside
  <2>3. CASE <<v, n>> = <<w, m>> /\ Commit(w, m)
    <3>1. Kept(RequestOf[n])
        BY <1>5, <2>3 DEF AnswerInv, DoneKept
    <3> QED BY <2>0, <3>1, TaskStepKeeps
  <2> QED BY <2>1, <2>2, <2>3
<1>8. \A p \in Partitions :
          \/ committed'[p] = committed[p]
          \/ \E v \in Workers, n \in Messages :
                n[1] = p /\ Inside(pc[v][n]) /\ committed'[p] = n[2] + 1
  <2>1. CASE UNCHANGED committed
      BY <2>1
  <2>2. CASE ~UNCHANGED committed
    <3>1. Commit(w, m) /\ committed' = [committed EXCEPT ![m[1]] = NextOffset(m)]
        BY <2>2 DEF TaskStep, Start, Claim, Execute, Succeed, Refuse, Raise, Reply, Report, Commit
    <3>2. Inside(pc[w][m])
        BY <1>5, <3>1 DEF Inside
    <3> QED BY <3>1, <3>2 DEF NextOffset, TypeOK
  <2> QED BY <2>1, <2>2
<1>9. /\ \A n \in Routed : Passed(n) => Passed(n)'
      /\ CommittedPassed'
    BY <1>7, <1>8, TaskStepKeeps, PassedStays
<1>10. CheckedRouted' /\ KeyKept'
    BY CheckedRoutedStep, TaskStepKeeps DEF AnswerInv
<1>11. DoneKept'
  <2> SUFFICES ASSUME NEW v \in Workers, NEW n \in Routed,
                      pc'[v][n] \in {"committing", "aborting"}
               PROVE  Kept(RequestOf[n])'
      BY DEF DoneKept
  <2>1. n \in Messages /\ RequestOf[n] \in Requests
      BY RoutedShape
  <2>2. CASE <<v, n>> = <<w, m>>
      BY <2>2, TaskStepKeeps
  <2>3. CASE <<v, n>> # <<w, m>>
      BY <1>1, <2>1, <2>3, TaskStepKeeps DEF AnswerInv, DoneKept
  <2> QED BY <2>2, <2>3
<1>12. DownEmpty'
    BY <1>1 DEF AnswerInv, DownEmpty
<1>13. StillReads(w, m[1]) /\ pc[w][m] = "waiting" =>
          \A n \in Routed : n[1] = m[1] /\ n[2] < m[2] => Passed(n)
  <2> SUFFICES ASSUME pc[w][m] = "waiting", NEW n \in Routed, n[1] = m[1], n[2] < m[2]
               PROVE  Passed(n)
      OBVIOUS
  <2>1. n = <<m[1], n[2]>> /\ n[1] \in Partitions /\ n[2] \in Int /\ n[2] \in Offsets
      BY RoutedShape, MessageShape DEF Offsets
  <2>2. pc[w][n] # "waiting"
      BY <1>6, <2>1 DEF Start
  <2>3. m[1] \in assigned[w] /\ m[2] < position[w][m[1]]
      BY DEF TasksWithinAssignment, Tasks
  <2>4. m[2] \in Int /\ position[w][m[1]] \in Int
      BY MessageShape DEF TypeOK
  <2>5. n[2] < position[w][n[1]]
      BY <2>1, <2>3, <2>4
  <2>6. StillReads(w, n[1])
      BY DEF StillReads
  <2> QED BY <2>2, <2>3, <2>5, <2>6 DEF AnswerInv, FetchedPassed
<1>14. InsidePassed'
  <2> SUFFICES ASSUME NEW v \in Workers, NEW k \in Messages, NEW n \in Routed,
                      Inside(pc'[v][k]), n[1] = k[1], n[2] <= k[2]
               PROVE  Passed(n)'
      BY DEF InsidePassed
  <2>1. CASE Inside(pc[v][k])
      BY <1>9, <2>1 DEF AnswerInv, InsidePassed
  <2>2. CASE ~Inside(pc[v][k])
    <3>1. v = w /\ k = m /\ pc[w][m] = "waiting"
        BY <1>1, <2>2 DEF Inside
    <3>2. CASE n[2] = m[2]
      <4>1. n = m
          BY <3>1, <3>2, RoutedShape, MessageShape
      <4> QED BY <3>1, <4>1 DEF Passed
    <3>3. CASE n[2] # m[2]
      <4>1. n[2] < m[2]
          BY <3>1, <3>3, RoutedShape, MessageShape
      <4>2. StillReads(w, m[1])
          BY <3>1 DEF StillReads
      <4> QED BY <1>9, <1>13, <3>1, <4>1, <4>2
    <3> QED BY <3>2, <3>3
  <2> QED BY <2>1, <2>2
<1>15. FetchedPassed'
  <2> SUFFICES ASSUME NEW v \in Workers, NEW n \in Routed,
                      n[1] \in assigned[v], n[2] < position[v][n[1]], StillReads(v, n[1])'
               PROVE  pc'[v][n] = "waiting" \/ Passed(n)'
      BY <1>1 DEF FetchedPassed
  <2>0. n \in Messages
      BY RoutedShape
  <2>1. StillReads(v, n[1])
      BY <1>1, <1>3 DEF StillReads
  <2>2. pc[v][n] = "waiting" \/ Passed(n)
      BY <2>1 DEF AnswerInv, FetchedPassed
  <2>3. CASE <<v, n>> # <<w, m>>
      BY <1>1, <1>9, <2>0, <2>2, <2>3
  <2>4. CASE <<v, n>> = <<w, m>> /\ Passed(n)
      BY <1>9, <2>4
  <2>5. CASE <<v, n>> = <<w, m>> /\ pc[w][m] = "waiting"
    <3>1. Inside(pc'[w][m])
        BY <1>3, <1>4, <1>5, <2>5 DEF Inside
    <3> QED BY <2>5, <3>1 DEF Passed
  <2> QED BY <2>2, <2>3, <2>4, <2>5
<1> QED BY <1>9, <1>10, <1>11, <1>12, <1>14, <1>15 DEF AnswerInv

LEMMA AnswerInvInductive ==
    ASSUME TypeOK, TasksWithinAssignment, AnswerInv, [Next]_vars
    PROVE  AnswerInv'
<1>1. ASSUME NEW r \in Requests, Evict(r)  PROVE AnswerInv'
  <2>1. DownEmpty'
      BY <1>1 DEF Evict, AnswerInv, DownEmpty, group
  <2> QED BY <1>1, <2>1, AnswerFrame DEF Evict, group
<1>2. CASE UNCHANGED vars
  <2>1. DownEmpty'
      BY <1>2 DEF vars, AnswerInv, DownEmpty
  <2> QED BY <1>2, <2>1, AnswerFrame DEF vars
<1> QED BY <1>1, <1>2, WorkerStepAnswer, TaskStepAnswer DEF Next

(* No routed request is lost behind a committed offset: when no task is    *)
(* left on it, it has been answered, or one of its tasks was cut short     *)
(* after it got its permit (a crash, a drain's timeout, or the return of   *)
(* main() under a stop), or the report of its failure failed. In           *)
(* particular nothing is lost that only waited for a permit. This for any  *)
(* number of permits, so with offsets committed out of order, and over     *)
(* every adversity the model has.                                          *)
THEOREM NoRequestIsLost == Spec => []NoLostRequest
<1>1. Init => AnswerInv
  <2> SUFFICES ASSUME Init  PROVE AnswerInv
      OBVIOUS
  <2>1. \A m \in Messages : m[1] \in Partitions /\ m[2] \in Nat
      BY MessageShape
  <2>2. CheckedRouted /\ KeyKept /\ DoneKept /\ DownEmpty
      BY RoutedShape DEF Init, CheckedRouted, KeyKept, DoneKept, DownEmpty
  <2>3. InsidePassed /\ FetchedPassed /\ CommittedPassed
      BY <2>1, RoutedShape DEF Init, InsidePassed, FetchedPassed, CommittedPassed, Inside
  <2> QED BY <2>2, <2>3 DEF AnswerInv
<1>2. TypeOK /\ TasksWithinAssignment /\ AnswerInv /\ [Next]_vars => AnswerInv'
    BY AnswerInvInductive
<1>3. AnswerInv => NoLostRequest
  <2> SUFFICES ASSUME AnswerInv, NEW m \in Routed, m[2] < committed[m[1]],
                      ~InWork(RequestOf[m])
               PROVE  Concluded(RequestOf[m])
      BY DEF NoLostRequest
  <2>1. \A w \in Workers, n \in Messages : RequestOf[n] = RequestOf[m] => pc[w][n] = "idle"
      BY DEF InWork, Tasks
  <2>2. Passed(m)
      BY DEF AnswerInv, CommittedPassed
  <2>3. Kept(RequestOf[m])
      BY <2>1, <2>2, RoutedShape DEF Passed, Inside
  <2> QED BY <2>1, <2>3, RoutedShape DEF Kept, Answering, Concluded
<1> QED BY <1>1, <1>2, <1>3, TypeCorrect, TasksStayWithinAssignment, PTL DEF Spec

===========================================================================
