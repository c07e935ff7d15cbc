---------------------------- MODULE RateLimiter ----------------------------
(***************************************************************************)
(* The rate limiter in front of every call to the Bot API                  *)
(* (src/infrastructure/rate_limiter.py): two sliding windows in Redis, one *)
(* for the bot fleet and one per chat, tested and taken by a Lua script.   *)
(*                                                                         *)
(* A call of acquire() reads its clock, sends the script to Redis and      *)
(* looks at the answer; each of the three is a step of its own, and the    *)
(* steps of all calls of all replicas interleave. So a script may run with *)
(* a `now` that is older than what others have already cleaned up to.      *)
(*                                                                         *)
(* Time is a number of ticks. `clock` is the fastest replica's; Lag bounds *)
(* what separates `now` from the moment its answer is looked at: the time  *)
(* the call takes, and what the caller's clock is behind. It also bounds   *)
(* how late the event loop wakes a sleeper.                                *)
(*                                                                         *)
(* Left out: eviction of the sets by Redis.                                *)
(***************************************************************************)
EXTENDS Integers, FiniteSets

CONSTANTS
    Calls,        \* calls of acquire(), by all replicas
    Chats,
    GlobalLimit,  \* _GLOBAL_LIMIT (25 in the code)
    ChatLimit,    \* _PER_CHAT_LIMIT (1 in the code)
    Window,       \* _WINDOW_SEC
    Expire,       \* EXPIRE of both keys (five windows in the code)
    MaxWait,      \* _MAX_WAIT_SEC (ten windows in the code)
    Poll,         \* the sleep between two tries
    Lag,          \* see above
    Horizon       \* bound: no call begins after it

GlobalKey == "tg_rl:global"
Keys      == {GlobalKey} \cup Chats

ASSUME ChatsAssumption  == GlobalKey \notin Chats
ASSUME LimitsAssumption == GlobalLimit \in Nat \ {0} /\ ChatLimit = 1
ASSUME TimesAssumption  == /\ {Window, Poll, MaxWait} \subseteq Nat \ {0}
                           /\ {Expire, Lag, Horizon} \subseteq Nat
                           /\ Expire >= Window

VARIABLES
    clock,
    zset,      \* Redis: the sorted sets; a member carries its score
    expires,   \* Redis: when each of them expires
    pc,        \* where each call stands
    chat,      \* the chat a call is for
    now,       \* `now` of its last try
    deadline,
    at,        \* when it looked at its last answer
    took       \* history: the calls whose script took a slot

redis == <<zset, expires>>
vars  == <<clock, zset, expires, pc, chat, now, deadline, at, took>>

\* "sent": the script is under way; "granted", "refused": its answer is;
\* "through": acquire() returned; "timedOut", "failed": it raised.
Pcs == {"idle", "sent", "granted", "refused", "asleep", "through", "timedOut", "failed"}

UnderWay == {"sent", "granted", "refused"}
Waiting  == UnderWay \cup {"asleep"}

\* A member names the time and the chat only, not the call: two calls for one
\* chat with one `now` would share a member, were the second let through.
Members   == [now : Nat, chat : Chats]

\* Faulty: the arguments swapped.
MemberSwapped(c) == [now |-> chat[c], chat |-> now[c]]
Member(c)        == [now |-> now[c], chat |-> chat[c]]

Limit(k) == IF k = GlobalKey THEN GlobalLimit ELSE ChatLimit

TypeOK ==
    /\ clock \in Nat
    /\ zset \in [Keys -> SUBSET Members]
    /\ expires \in [Keys -> Nat]
    /\ pc \in [Calls -> Pcs]
    /\ chat \in [Calls -> Chats]
    /\ now \in [Calls -> Nat]
    /\ deadline \in [Calls -> Nat]
    /\ at \in [Calls -> Nat]
    /\ took \in SUBSET Calls

Init ==
    /\ clock = 0
    /\ zset = [k \in Keys |-> {}]
    /\ expires = [k \in Keys |-> 0]
    /\ pc = [c \in Calls |-> "idle"]
    /\ chat \in [Calls -> Chats]
    /\ now = [c \in Calls |-> 0]
    /\ deadline = [c \in Calls |-> 0]
    /\ at = [c \in Calls |-> 0]
    /\ took = {}

---------------------------------------------------------------------------
(* A call                                                                  *)

\* The deadline is set, `now` is read and the script goes out.
Acquire(c) ==
    /\ pc[c] = "idle"
    /\ clock <= Horizon
    /\ deadline' = [deadline EXCEPT ![c] = clock + MaxWait]
    /\ now' = [now EXCEPT ![c] = clock]
    /\ pc' = [pc EXCEPT ![c] = "sent"]
    /\ UNCHANGED <<clock, redis, chat, at, took>>

\* What is left of a key once it has expired or been cleaned up to the
\* beginning of the caller's window.
Recent(c, k) ==
    IF clock < expires[k] THEN {m \in zset[k] : m.now > now[c] - Window} ELSE {}

KeysOf(c) == {GlobalKey, chat[c]}

\* Faulty: one slot too many.
FullPastLimit(c) == \E k \in KeysOf(c) : Cardinality(Recent(c, k)) > Limit(k)

Full(c) == \E k \in KeysOf(c) : Cardinality(Recent(c, k)) >= Limit(k)

\* Faulty: the slot is entered before the windows are counted.
RefuseButEnter(c) ==
    /\ Full(c)
    /\ zset' = [k \in Keys |-> IF k \in KeysOf(c) THEN Recent(c, k) \cup {Member(c)}
                                                  ELSE zset[k]]
    /\ expires' = [k \in Keys |-> IF k \in KeysOf(c) THEN clock + Expire ELSE expires[k]]
    /\ pc' = [pc EXCEPT ![c] = "refused"]
    /\ UNCHANGED took

\* The Lua script, at once for all of Redis: clean, count, and take a slot in
\* both windows or in none.
Refuse(c) ==
    /\ Full(c)
    /\ zset' = [k \in Keys |-> IF k \in KeysOf(c) THEN Recent(c, k) ELSE zset[k]]
    /\ pc' = [pc EXCEPT ![c] = "refused"]
    /\ UNCHANGED <<expires, took>>

Grant(c) ==
    /\ ~Full(c)
    /\ zset' = [k \in Keys |-> IF k \in KeysOf(c) THEN Recent(c, k) \cup {Member(c)}
                                                  ELSE zset[k]]
    /\ expires' = [k \in Keys |-> IF k \in KeysOf(c) THEN clock + Expire ELSE expires[k]]
    /\ pc' = [pc EXCEPT ![c] = "granted"]
    /\ took' = took \cup {c}

Script(c) ==
    /\ pc[c] = "sent"
    /\ Refuse(c) \/ Grant(c)
    /\ UNCHANGED <<clock, chat, now, deadline, at>>

\* Faulty: a refused call polls on whatever the time.
AnsweredForEver(c) ==
    /\ \/ pc[c] = "granted" /\ pc' = [pc EXCEPT ![c] = "through"]
       \/ pc[c] = "refused" /\ pc' = [pc EXCEPT ![c] = "asleep"]
    /\ at' = [at EXCEPT ![c] = clock]
    /\ UNCHANGED <<clock, redis, chat, now, deadline, took>>

\* The caller looks at the answer: a slot is a slot however late it comes;
\* without one it gives up past the deadline, or sleeps.
Answered(c) ==
    /\ \/ pc[c] = "granted" /\ pc' = [pc EXCEPT ![c] = "through"]
       \/ /\ pc[c] = "refused"
          /\ pc' = [pc EXCEPT ![c] = IF clock >= deadline[c] THEN "timedOut" ELSE "asleep"]
    /\ at' = [at EXCEPT ![c] = clock]
    /\ UNCHANGED <<clock, redis, chat, now, deadline, took>>

Retry(c) ==
    /\ pc[c] = "asleep"
    /\ clock >= at[c] + Poll
    /\ now' = [now EXCEPT ![c] = clock]
    /\ pc' = [pc EXCEPT ![c] = "sent"]
    /\ UNCHANGED <<clock, redis, chat, deadline, at, took>>

\* Redis fails before or after the script ran, or the task is cancelled: a slot
\* taken stays taken.
Fail(c) ==
    /\ pc[c] \in Waiting
    /\ pc' = [pc EXCEPT ![c] = "failed"]
    /\ UNCHANGED <<clock, redis, chat, now, deadline, at, took>>

---------------------------------------------------------------------------
(* Time                                                                    *)

\* Nothing that takes at most Lag takes longer.
Punctual(c) ==
    /\ pc[c] \in UnderWay => clock < now[c] + Lag
    /\ pc[c] = "asleep"   => clock < at[c] + Poll + Lag

Tick ==
    /\ clock < Horizon \/ \E c \in Calls : pc[c] \in Waiting
    /\ \A c \in Calls : Punctual(c)
    /\ clock' = clock + 1
    /\ UNCHANGED <<redis, pc, chat, now, deadline, at, took>>

Next ==
    \/ \E c \in Calls : Acquire(c) \/ Script(c) \/ Answered(c) \/ Retry(c) \/ Fail(c)
    \/ Tick

Spec == Init /\ [][Next]_vars

---------------------------------------------------------------------------
(* Properties                                                              *)

Throughs(k) == {c \in Calls : pc[c] = "through" /\ (k = GlobalKey \/ k = chat[c])}

\* No more than the limit of messages go out in any window shortened by Lag,
\* to one chat or to all, whatever order the scripts ran in: a script that
\* runs late cleans nothing that could still count, and counts everything it
\* must (rate_limiter.py:34-46). A message of the last Window - Lag ticks is
\* counted here at every moment, so in every such stretch of time. Without the allowance
\* for Lag it does not hold, nor with a ChatLimit above one (see Member).
WindowHolds ==
    \A k \in Keys :
        Cardinality({c \in Throughs(k) : at[c] + Window > clock + Lag}) <= Limit(k)

\* acquire() gives up in time: _MAX_WAIT_SEC is looked at after a try only, so
\* another sleep and two more delays may pass, but no more (rate_limiter.py:69-83).
GivesUpInTime ==
    \A c \in Calls : pc[c] \in Waiting => clock <= deadline[c] + Poll + 2 * Lag

\* The other calls that took a slot in the window of c's last try.
Rivals(c, k) == {d \in took \ {c} : k \in KeysOf(d) /\ now[d] > now[c] - Window}

\* A call is only held up by others: when it gives up, as many of them as there
\* are slots took one in the window of its last try. Its own tries, and calls
\* that were refused, take up nothing (rate_limiter.py:38-46).
HeldUpByOthers ==
    \A c \in Calls : pc[c] = "timedOut" =>
        \E k \in KeysOf(c) : Cardinality(Rivals(c, k)) >= Limit(k)

===========================================================================
