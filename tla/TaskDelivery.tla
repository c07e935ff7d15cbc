--------------------------- MODULE TaskDelivery ---------------------------
(***************************************************************************)
(* What the service promises the backend about each request, with no       *)
(* replicas, offsets or deliveries in sight: a request is claimed once,    *)
(* its operation takes effect once and only after the claim, and "ok" is   *)
(* published only for an operation that took effect. An error may be       *)
(* published at any time, and a claimed request may stay without effect    *)
(* and without answer for ever (the process died): this contract promises  *)
(* at most once, not at least once. TaskConsumer implements it.            *)
(***************************************************************************)
EXTENDS Naturals

CONSTANT Requests

VARIABLES
    claimed,    \* requests the guard has let in
    effects,    \* how often each request's operation took effect
    answers     \* kinds of result published, per request

Init ==
    /\ claimed = {}
    /\ effects = [r \in Requests |-> 0]
    /\ answers = [r \in Requests |-> {}]

\* The guard lets the request in.
Claim(r) ==
    /\ r \notin claimed
    /\ claimed' = claimed \cup {r}
    /\ UNCHANGED <<effects, answers>>

\* The operation takes effect.
Execute(r) ==
    /\ r \in claimed
    /\ effects[r] = 0
    /\ effects' = [effects EXCEPT ![r] = 1]
    /\ UNCHANGED <<claimed, answers>>

\* A result is published.
Answer(r, kind) ==
    /\ kind = "ok" => effects[r] = 1
    /\ answers' = [answers EXCEPT ![r] = @ \cup {kind}]
    /\ UNCHANGED <<claimed, effects>>

Next == \E r \in Requests :
            Claim(r) \/ Execute(r) \/ \E kind \in {"ok", "error"} : Answer(r, kind)

Spec == Init /\ [][Next]_<<claimed, effects, answers>>

===========================================================================
