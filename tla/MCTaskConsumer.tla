-------------------------- MODULE MCTaskConsumer --------------------------
(* Instances of TaskConsumer for TLC: one partition, LogLength messages.     *)
EXTENDS TaskConsumer, TLC

CONSTANTS p1, r1, r2, r3,
          Crashes, Stops, Rebalances, Expulsions, Cancels, Faults, Evictions

MCPartitions == {p1}
MCRequests   == {r1, r2, r3}

\* The backend sends a request twice, at the start or at the end of the log, or
\* every request once.
RepeatedRequest  == [m \in Messages |-> IF m[2] <= 1 THEN r1 ELSE r2]
RepeatedLater    == [m \in Messages |-> IF m[2] = 0 THEN r1 ELSE r2]
DistinctRequests == [m \in Messages |-> CASE m[2] = 0 -> r1 [] m[2] = 1 -> r2 [] OTHER -> r3]

NoMessage    == {}
FirstMessage == {<<p1, 0>>}
ThirdMessage == {<<p1, 2>>}

MCBudget ==
    [kind \in Adversity |->
        CASE kind = "crash"     -> Crashes
          [] kind = "stop"      -> Stops
          [] kind = "rebalance" -> Rebalances
          [] kind = "expel"     -> Expulsions
          [] kind = "cancel"    -> Cancels
          [] kind = "fault"     -> Faults
          [] kind = "evict"     -> Evictions]

WorkerSymmetry == Permutations(Workers)
===========================================================================
