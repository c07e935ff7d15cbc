------------------------- MODULE RateLimiterProofs -------------------------
(***************************************************************************)
(* Theorems about RateLimiter, for any calls, chats, limits and times that *)
(* meet its assumptions.                                                   *)
(***************************************************************************)
EXTENDS RateLimiter, FiniteSetTheorems, TLAPS

\* A call whose slot still lies in the window of the fastest clock.
Counts(c) == c \in took /\ now[c] + Window > clock

\* The sets never hold more than their limit.
Bounded == \A k \in Keys : IsFiniteSet(zset[k]) /\ Cardinality(zset[k]) <= Limit(k)

\* What a call knows is no older than Lag allows.
Timely ==
    \A c \in Calls :
        /\ pc[c] \in UnderWay => /\ now[c] <= clock
                                 /\ clock <= now[c] + Lag
                                 /\ now[c] <= deadline[c] + Poll + Lag
        /\ pc[c] = "asleep"   => /\ clock <= at[c] + Poll + Lag
                                 /\ at[c] <= deadline[c]
        /\ pc[c] = "through"  => at[c] <= now[c] + Lag

\* Who has taken a slot is past trying; who goes through has one.
Taken ==
    /\ \A c \in took : pc[c] \in {"granted", "through", "failed"} /\ now[c] <= clock
    /\ \A c \in Calls : pc[c] \in {"granted", "through"} => c \in took

\* A slot that counts is in both sets, which outlive it, and is nobody else's.
Kept ==
    /\ \A c \in took : \A k \in KeysOf(c) : expires[k] >= now[c] + Window
    /\ \A c \in Calls : Counts(c) => \A k \in KeysOf(c) : Member(c) \in zset[k]
    /\ \A c, d \in Calls : Counts(c) /\ Counts(d) /\ c # d => Member(c) # Member(d)

WindowInv == TypeOK /\ Bounded /\ Timely /\ Taken /\ Kept

---------------------------------------------------------------------------
(* What the script sees and leaves.                                        *)

LEMMA KeysOfInKeys ==
    ASSUME TypeOK, NEW c \in Calls
    PROVE  KeysOf(c) \subseteq Keys /\ GlobalKey \in KeysOf(c) /\ chat[c] \in KeysOf(c)
BY DEF TypeOK, KeysOf, Keys

LEMMA LimitIsNat == ASSUME NEW k \in Keys PROVE Limit(k) \in Nat
BY LimitsAssumption DEF Limit

LEMMA RecentBounded ==
    ASSUME TypeOK, Bounded, NEW c \in Calls, NEW k \in Keys
    PROVE  /\ Recent(c, k) \subseteq zset[k]
           /\ Recent(c, k) \subseteq Members
           /\ IsFiniteSet(Recent(c, k))
           /\ Cardinality(Recent(c, k)) \in Nat
           /\ Cardinality(Recent(c, k)) <= Limit(k)
<1>1. Recent(c, k) \subseteq zset[k]
    BY DEF Recent
<1>2. zset[k] \subseteq Members
    BY DEF TypeOK
<1>3. IsFiniteSet(zset[k]) /\ Cardinality(zset[k]) <= Limit(k)
    BY DEF Bounded
<1>4. /\ IsFiniteSet(Recent(c, k))
      /\ Cardinality(Recent(c, k)) <= Cardinality(zset[k])
    BY <1>1, <1>3, FS_Subset
<1>5. Cardinality(Recent(c, k)) \in Nat /\ Cardinality(zset[k]) \in Nat
    BY <1>3, <1>4, FS_CardinalityType
<1> QED BY <1>1, <1>2, <1>3, <1>4, <1>5, LimitIsNat

\* A script that is under way cleans no slot that counts.
LEMMA RecentKeeps ==
    ASSUME WindowInv, NEW c \in Calls, pc[c] = "sent",
           NEW d \in Calls, Counts(d), NEW k \in KeysOf(d)
    PROVE  Member(d) \in Recent(c, k)
<1>1. now[c] <= clock
    BY DEF WindowInv, Timely, UnderWay
<1>2. Member(d) \in zset[k] /\ expires[k] >= now[d] + Window
    BY DEF WindowInv, Kept, Counts
<1>3. now[d] + Window > clock
    BY DEF Counts
<1>4. /\ clock \in Nat /\ now[c] \in Nat /\ now[d] \in Nat /\ Window \in Nat
      /\ expires[k] \in Nat
    BY KeysOfInKeys, TimesAssumption DEF WindowInv, TypeOK
<1>5. clock < expires[k] /\ now[d] > now[c] - Window
    BY <1>1, <1>2, <1>3, <1>4
<1>6. Member(d).now = now[d]
    BY DEF Member
<1> QED BY <1>2, <1>5, <1>6 DEF Recent

LEMMA GrantBounded ==
    ASSUME TypeOK, Bounded, NEW c \in Calls, ~Full(c), NEW k \in KeysOf(c)
    PROVE  /\ IsFiniteSet(Recent(c, k) \cup {Member(c)})
           /\ Cardinality(Recent(c, k) \cup {Member(c)}) <= Limit(k)
<1>1. k \in Keys
    BY KeysOfInKeys
<1>2. IsFiniteSet(Recent(c, k)) /\ Cardinality(Recent(c, k)) \in Nat
    BY <1>1, RecentBounded
<1>3. Limit(k) \in Nat /\ Cardinality(Recent(c, k)) + 1 <= Limit(k)
    BY <1>1, <1>2, LimitIsNat DEF Full
<1>4. /\ IsFiniteSet(Recent(c, k) \cup {Member(c)})
      /\ \/ Cardinality(Recent(c, k) \cup {Member(c)}) = Cardinality(Recent(c, k))
         \/ Cardinality(Recent(c, k) \cup {Member(c)}) = Cardinality(Recent(c, k)) + 1
  <2> DEFINE r == Recent(c, k)
             m == Member(c)
  <2> HIDE DEF r, m
  <2>1. IsFiniteSet(r)
      BY <1>2 DEF r
  <2>2. /\ IsFiniteSet(r \cup {m})
        /\ Cardinality(r \cup {m}) = IF m \in r THEN Cardinality(r) ELSE Cardinality(r) + 1
      BY <2>1, FS_AddElement
  <2> QED BY <2>2 DEF r, m
<1>5. Cardinality(Recent(c, k) \cup {Member(c)}) \in Nat
    BY <1>4, FS_CardinalityType
<1> QED BY <1>2, <1>3, <1>4, <1>5

\* Two slots that count never share a member: the second is refused, because
\* a chat has one slot.
LEMMA GrantedAlone ==
    ASSUME WindowInv, NEW c \in Calls, pc[c] = "sent", ~Full(c),
           NEW d \in Calls, Counts(d)
    PROVE  Member(d) # Member(c)
<1> SUFFICES ASSUME Member(d) = Member(c) PROVE FALSE
    OBVIOUS
<1>1. Member(d).chat = chat[d] /\ Member(c).chat = chat[c]
    BY DEF Member
<1>2. chat[d] = chat[c]
    BY <1>1
<1>3. chat[c] \in KeysOf(c) /\ chat[c] \in KeysOf(d) /\ chat[c] \in Keys
    BY <1>2, KeysOfInKeys DEF WindowInv
<1>4. Member(d) \in Recent(c, chat[c])
    BY <1>3, RecentKeeps
<1>5. /\ IsFiniteSet(Recent(c, chat[c]))
      /\ Cardinality(Recent(c, chat[c])) \in Nat
    BY <1>3, RecentBounded DEF WindowInv
<1>6. Cardinality(Recent(c, chat[c])) # 0
    BY <1>4, <1>5, FS_EmptySet
<1>7. Limit(chat[c]) = 1
    BY ChatsAssumption, LimitsAssumption DEF Limit, WindowInv, TypeOK
<1> QED BY <1>3, <1>5, <1>6, <1>7 DEF Full

---------------------------------------------------------------------------
(* The invariant holds at first and is kept by every step.                 *)

LEMMA WindowInit == Init => WindowInv
<1> SUFFICES ASSUME Init PROVE WindowInv
    OBVIOUS
<1>1. TypeOK
    BY DEF Init, TypeOK, Pcs
<1>2. Bounded
    BY FS_EmptySet, LimitIsNat DEF Init, Bounded
<1>3. Timely /\ Taken /\ Kept
    BY DEF Init, Timely, Taken, Kept, Counts, UnderWay
<1> QED BY <1>1, <1>2, <1>3 DEF WindowInv

LEMMA AcquireKeeps ==
    ASSUME WindowInv, NEW c \in Calls, Acquire(c) PROVE WindowInv'
<1> USE DEF Acquire, redis
<1>0. c \notin took
    BY DEF WindowInv, Taken
<1>1. TypeOK'
    BY TimesAssumption DEF WindowInv, TypeOK, Pcs
<1>2. Bounded'
    BY DEF WindowInv, Bounded, Limit
<1>3. Timely'
    BY TimesAssumption DEF WindowInv, TypeOK, Timely, UnderWay
<1>4. Taken'
    BY <1>0 DEF WindowInv, TypeOK, Taken
<1>5. Kept'
    BY <1>0 DEF WindowInv, TypeOK, Kept, Counts, Member, KeysOf
<1> QED BY <1>1, <1>2, <1>3, <1>4, <1>5 DEF WindowInv

LEMMA RefuseKeeps ==
    ASSUME WindowInv, NEW c \in Calls, Script(c), Refuse(c) PROVE WindowInv'
<1> USE DEF Script, Refuse
<1>0. /\ c \notin took
      /\ \A k \in Keys : zset'[k] = IF k \in KeysOf(c) THEN Recent(c, k) ELSE zset[k]
    BY DEF WindowInv, Taken
<1>1. TypeOK'
  <2>1. zset' \in [Keys -> SUBSET Members]
      BY RecentBounded DEF WindowInv, TypeOK
  <2> QED BY <2>1 DEF WindowInv, TypeOK, Pcs
<1>2. Bounded'
    BY <1>0, RecentBounded DEF WindowInv, Bounded, Limit
<1>3. Timely'
    BY DEF WindowInv, TypeOK, Timely, UnderWay
<1>4. Taken'
    BY <1>0 DEF WindowInv, TypeOK, Taken
<1>5. Kept'
  <2>1. \A d \in Calls : Counts(d)' <=> Counts(d)
      BY DEF Counts
  <2>2. \A d \in Calls : Counts(d) => \A k \in KeysOf(d) : Member(d) \in zset'[k]
    <3> SUFFICES ASSUME NEW d \in Calls, Counts(d), NEW k \in KeysOf(d)
                 PROVE  Member(d) \in zset'[k]
        OBVIOUS
    <3>1. k \in Keys
        BY KeysOfInKeys DEF WindowInv
    <3>2. Member(d) \in Recent(c, k)
        BY RecentKeeps
    <3>3. Member(d) \in zset[k]
        BY DEF WindowInv, Kept
    <3> QED BY <1>0, <3>1, <3>2, <3>3
  <2> QED BY <2>1, <2>2 DEF WindowInv, Kept, Member, KeysOf, Counts
<1> QED BY <1>1, <1>2, <1>3, <1>4, <1>5 DEF WindowInv

LEMMA GrantKeeps ==
    ASSUME WindowInv, NEW c \in Calls, Script(c), Grant(c) PROVE WindowInv'
<1> USE DEF Script, Grant
<1>0. /\ \A k \in Keys : zset'[k] = IF k \in KeysOf(c) THEN Recent(c, k) \cup {Member(c)}
                                                       ELSE zset[k]
      /\ \A k \in Keys : expires'[k] = IF k \in KeysOf(c) THEN clock + Expire ELSE expires[k]
    OBVIOUS
<1>1. TypeOK'
  <2>1. zset' \in [Keys -> SUBSET Members]
      BY RecentBounded DEF WindowInv, TypeOK, Members, Member
  <2>2. expires' \in [Keys -> Nat]
      BY TimesAssumption DEF WindowInv, TypeOK
  <2> QED BY <2>1, <2>2 DEF WindowInv, TypeOK, Pcs
<1>2. Bounded'
  <2> SUFFICES ASSUME NEW k \in Keys
               PROVE  IsFiniteSet(zset'[k]) /\ Cardinality(zset'[k]) <= Limit(k)
      BY DEF Bounded, Limit
  <2>1. CASE k \in KeysOf(c)
      BY <1>0, <2>1, GrantBounded DEF WindowInv
  <2>2. CASE k \notin KeysOf(c)
      BY <1>0, <2>2 DEF WindowInv, Bounded
  <2> QED BY <2>1, <2>2
<1>3. Timely'
    BY DEF WindowInv, TypeOK, Timely, UnderWay
<1>4. Taken'
    BY DEF WindowInv, TypeOK, Taken, Timely, UnderWay
<1>5. Kept'
  <2>1. now[c] <= clock /\ \A d \in took : now[d] <= clock
      BY DEF WindowInv, Timely, UnderWay, Taken
  <2>2. \A d \in Calls : Counts(d)' => Counts(d) \/ d = c
      BY DEF Counts
  <2>3. \A d \in took' : \A k \in KeysOf(d) : expires'[k] >= now[d] + Window
    <3> SUFFICES ASSUME NEW d \in took', NEW k \in KeysOf(d)
                 PROVE  expires'[k] >= now[d] + Window
        OBVIOUS
    <3>1. d \in Calls /\ k \in Keys /\ now[d] \in Nat /\ clock \in Nat
        BY KeysOfInKeys DEF WindowInv, TypeOK
    <3>2. CASE k \in KeysOf(c)
        BY <1>0, <2>1, <3>1, <3>2, TimesAssumption
    <3>3. CASE k \notin KeysOf(c)
        BY <1>0, <3>1, <3>3 DEF WindowInv, Kept
    <3> QED BY <3>2, <3>3
  <2>4. \A d \in Calls : Counts(d)' => \A k \in KeysOf(d) : Member(d) \in zset'[k]
    <3> SUFFICES ASSUME NEW d \in Calls, Counts(d)', NEW k \in KeysOf(d)
                 PROVE  Member(d) \in zset'[k]
        OBVIOUS
    <3>1. k \in Keys
        BY KeysOfInKeys DEF WindowInv
    <3>2. CASE d = c
        BY <1>0, <3>1, <3>2
    <3>3. CASE d # c
      <4>1. Counts(d)
          BY <2>2, <3>3
      <4>2. Member(d) \in Recent(c, k) /\ Member(d) \in zset[k]
          BY <4>1, RecentKeeps DEF WindowInv, Kept
      <4> QED BY <1>0, <3>1, <4>2
    <3> QED BY <3>2, <3>3
  <2>5. \A d, e \in Calls : Counts(d)' /\ Counts(e)' /\ d # e => Member(d) # Member(e)
    <3> SUFFICES ASSUME NEW d \in Calls, NEW e \in Calls, Counts(d)', Counts(e)', d # e
                 PROVE  Member(d) # Member(e)
        OBVIOUS
    <3>1. CASE d = c
        BY <2>2, <3>1, GrantedAlone
    <3>2. CASE e = c
        BY <2>2, <3>2, GrantedAlone
    <3>3. CASE d # c /\ e # c
        BY <2>2, <3>3 DEF WindowInv, Kept
    <3> QED BY <3>1, <3>2, <3>3
  <2>6. \A d \in Calls : Member(d)' = Member(d) /\ KeysOf(d)' = KeysOf(d)
      BY DEF Member, KeysOf
  <2>7. took' \subseteq Calls
      BY DEF WindowInv, TypeOK
  <2> QED BY <2>3, <2>4, <2>5, <2>6, <2>7 DEF Kept
<1> QED BY <1>1, <1>2, <1>3, <1>4, <1>5 DEF WindowInv

LEMMA AnsweredKeeps ==
    ASSUME WindowInv, NEW c \in Calls, Answered(c) PROVE WindowInv'
<1> USE DEF Answered, redis
<1>1. TypeOK'
    BY DEF WindowInv, TypeOK, Pcs
<1>2. Bounded'
    BY DEF WindowInv, Bounded, Limit
<1>3. Timely'
    BY TimesAssumption DEF WindowInv, TypeOK, Timely, UnderWay
<1>4. Taken'
    BY DEF WindowInv, TypeOK, Taken
<1>5. Kept'
    BY DEF WindowInv, Kept, Counts, Member, KeysOf
<1> QED BY <1>1, <1>2, <1>3, <1>4, <1>5 DEF WindowInv

LEMMA RetryKeeps ==
    ASSUME WindowInv, NEW c \in Calls, Retry(c) PROVE WindowInv'
<1> USE DEF Retry, redis
<1>0. c \notin took
    BY DEF WindowInv, Taken
<1>1. TypeOK'
    BY DEF WindowInv, TypeOK, Pcs
<1>2. Bounded'
    BY DEF WindowInv, Bounded, Limit
<1>3. Timely'
    BY TimesAssumption DEF WindowInv, TypeOK, Timely, UnderWay
<1>4. Taken'
    BY <1>0 DEF WindowInv, TypeOK, Taken
<1>5. Kept'
    BY <1>0 DEF WindowInv, TypeOK, Kept, Counts, Member, KeysOf
<1> QED BY <1>1, <1>2, <1>3, <1>4, <1>5 DEF WindowInv

LEMMA FailKeeps ==
    ASSUME WindowInv, NEW c \in Calls, Fail(c) PROVE WindowInv'
<1> USE DEF Fail, redis
<1>1. TypeOK'
    BY DEF WindowInv, TypeOK, Pcs
<1>2. Bounded'
    BY DEF WindowInv, Bounded, Limit
<1>3. Timely' /\ Taken'
    BY DEF WindowInv, TypeOK, Timely, Taken, UnderWay
<1>4. Kept'
    BY DEF WindowInv, Kept, Counts, Member, KeysOf
<1> QED BY <1>1, <1>2, <1>3, <1>4 DEF WindowInv

LEMMA TickKeeps ==
    ASSUME WindowInv, Tick PROVE WindowInv'
<1> USE DEF Tick, redis
<1>1. TypeOK'
    BY DEF WindowInv, TypeOK
<1>2. Bounded'
    BY DEF WindowInv, Bounded, Limit
<1>3. Timely'
    BY TimesAssumption DEF WindowInv, TypeOK, Timely, Punctual, UnderWay
<1>4. Taken'
    BY DEF WindowInv, TypeOK, Taken
<1>5. Kept'
  <2>1. \A d \in Calls : Counts(d)' => Counts(d)
      BY TimesAssumption DEF WindowInv, TypeOK, Counts
  <2> QED BY <2>1 DEF WindowInv, Kept, Member, KeysOf
<1> QED BY <1>1, <1>2, <1>3, <1>4, <1>5 DEF WindowInv

LEMMA StutterKeeps == WindowInv /\ UNCHANGED vars => WindowInv'
BY DEF vars, redis, WindowInv, TypeOK, Bounded, Limit, Timely, Taken, Kept, Counts, Member, KeysOf

THEOREM WindowInvHolds == Spec => []WindowInv
<1>1. WindowInv /\ [Next]_vars => WindowInv'
  <2> SUFFICES ASSUME WindowInv, [Next]_vars PROVE WindowInv'
      OBVIOUS
  <2>1. ASSUME NEW c \in Calls, Script(c) PROVE WindowInv'
      BY <2>1, RefuseKeeps, GrantKeeps DEF Script
  <2> QED BY <2>1, AcquireKeeps, AnsweredKeeps, RetryKeeps, FailKeeps, TickKeeps,
             StutterKeeps DEF Next
<1> QED BY <1>1, WindowInit, PTL DEF Spec

---------------------------------------------------------------------------
(* The window, and the end of waiting.                                     *)

\* The types of every variable.
THEOREM RateTypeCorrect == Spec => []TypeOK
BY WindowInvHolds, PTL DEF WindowInv

\* Those who went through lately have a member each in the set, which is never
\* over its limit.
LEMMA WindowFollows == WindowInv => WindowHolds
<1> SUFFICES ASSUME WindowInv, NEW k \in Keys
             PROVE  Cardinality({c \in Throughs(k) : at[c] + Window > clock + Lag}) <= Limit(k)
    BY DEF WindowHolds
<1> DEFINE S == {c \in Throughs(k) : at[c] + Window > clock + Lag}
           f == [c \in S |-> Member(c)]
<1>1. \A c \in S : c \in Calls /\ Counts(c) /\ k \in KeysOf(c)
  <2> SUFFICES ASSUME NEW c \in S PROVE c \in Calls /\ Counts(c) /\ k \in KeysOf(c)
      OBVIOUS
  <2>1. c \in Calls /\ pc[c] = "through" /\ k \in KeysOf(c) /\ at[c] + Window > clock + Lag
      BY DEF Throughs, KeysOf
  <2>2. c \in took /\ at[c] <= now[c] + Lag
      BY <2>1 DEF WindowInv, Taken, Timely
  <2>3. {at[c], now[c], clock, Window, Lag} \subseteq Nat
      BY <2>1, TimesAssumption DEF WindowInv, TypeOK
  <2>4. now[c] + Window > clock
      BY <2>1, <2>2, <2>3
  <2> QED BY <2>1, <2>2, <2>4 DEF Counts
<1>2. \A c \in S : Member(c) \in zset[k]
    BY <1>1 DEF WindowInv, Kept
<1>3. \A c, d \in S : Member(c) = Member(d) => c = d
    BY <1>1 DEF WindowInv, Kept
<1>4. f \in Injection(S, zset[k])
    BY <1>2, <1>3 DEF Injection, IsInjective
<1>5. IsFiniteSet(zset[k]) /\ Cardinality(zset[k]) <= Limit(k)
    BY DEF WindowInv, Bounded
<1>6. IsFiniteSet(S) /\ Cardinality(S) <= Cardinality(zset[k])
    BY <1>4, <1>5, FS_Injection
<1>7. Cardinality(S) \in Nat /\ Cardinality(zset[k]) \in Nat /\ Limit(k) \in Nat
    BY <1>5, <1>6, FS_CardinalityType, LimitIsNat
<1>8. Cardinality(S) <= Limit(k)
    BY <1>5, <1>6, <1>7
<1> QED BY <1>8

\* In no stretch of Window - Lag ticks do more messages go out than the limit,
\* to any chat or to all.
THEOREM WindowIsKept == Spec => []WindowHolds
BY WindowInvHolds, WindowFollows, PTL

\* acquire() waits at most _MAX_WAIT_SEC, one sleep and two delays.
THEOREM WaitIsBounded == Spec => []GivesUpInTime
<1>1. WindowInv => GivesUpInTime
  <2> SUFFICES ASSUME WindowInv, NEW c \in Calls, pc[c] \in Waiting
               PROVE  clock <= deadline[c] + Poll + 2 * Lag
      BY DEF GivesUpInTime
  <2>1. {clock, deadline[c], now[c], at[c], Poll, Lag} \subseteq Nat
      BY TimesAssumption DEF WindowInv, TypeOK
  <2>2. CASE pc[c] \in UnderWay
      BY <2>1, <2>2 DEF WindowInv, Timely
  <2>3. CASE pc[c] = "asleep"
      BY <2>1, <2>3 DEF WindowInv, Timely
  <2> QED BY <2>2, <2>3 DEF Waiting
<1> QED BY <1>1, WindowInvHolds, PTL

---------------------------------------------------------------------------
(* Who a refused call has to thank.                                        *)

\* Every member was entered by a call that took a slot.
Owned ==
    /\ IsFiniteSet(took)
    /\ \A k \in Keys : \A m \in zset[k] : \E d \in took : k \in KeysOf(d) /\ Member(d) = m

HeldUp(c) == \E k \in KeysOf(c) : Cardinality(Rivals(c, k)) >= Limit(k)

RivalInv == Owned /\ \A c \in Calls : pc[c] \in {"refused", "timedOut"} => HeldUp(c)

LEMMA RivalsFinite ==
    ASSUME Owned, NEW c, NEW k
    PROVE  IsFiniteSet(Rivals(c, k)) /\ Cardinality(Rivals(c, k)) \in Nat
BY FS_Subset, FS_CardinalityType DEF Owned, Rivals

\* What fills the window of a call under way are the slots of others.
LEMMA RecentAreRivals ==
    ASSUME WindowInv, Owned, NEW c \in Calls, pc[c] = "sent", NEW k \in KeysOf(c)
    PROVE  Cardinality(Recent(c, k)) <= Cardinality(Rivals(c, k))
<1> DEFINE R == {d \in Rivals(c, k) : Member(d) \in Recent(c, k)}
           f == [d \in R |-> Member(d)]
<1>1. k \in Keys /\ c \notin took
    BY KeysOfInKeys DEF WindowInv, Taken
<1>2. \A m \in Recent(c, k) : \E d \in R : Member(d) = m
  <2> SUFFICES ASSUME NEW m \in Recent(c, k) PROVE \E d \in R : Member(d) = m
      OBVIOUS
  <2>1. m \in zset[k] /\ m.now > now[c] - Window
      BY DEF Recent
  <2>2. PICK d \in took : k \in KeysOf(d) /\ Member(d) = m
      BY <1>1, <2>1 DEF Owned
  <2>3. now[d] = m.now
      BY <2>2 DEF Member
  <2> QED BY <1>1, <2>1, <2>2, <2>3 DEF Rivals
<1>3. f \in Surjection(R, Recent(c, k))
    BY <1>2 DEF Surjection
<1>4. IsFiniteSet(Rivals(c, k)) /\ Cardinality(Rivals(c, k)) \in Nat
    BY RivalsFinite
<1>5. IsFiniteSet(R) /\ Cardinality(R) <= Cardinality(Rivals(c, k))
    BY <1>4, FS_Subset
<1>6. IsFiniteSet(Recent(c, k)) /\ Cardinality(Recent(c, k)) <= Cardinality(R)
    BY <1>3, <1>5, FS_Surjection
<1>7. Cardinality(R) \in Nat /\ Cardinality(Recent(c, k)) \in Nat
    BY <1>5, <1>6, FS_CardinalityType
<1> QED BY <1>4, <1>5, <1>6, <1>7

LEMMA RefuseIsHeldUp ==
    ASSUME WindowInv, Owned, NEW c \in Calls, pc[c] = "sent", Full(c) PROVE HeldUp(c)
<1>1. PICK k \in KeysOf(c) : Cardinality(Recent(c, k)) >= Limit(k)
    BY DEF Full
<1>2. k \in Keys
    BY KeysOfInKeys DEF WindowInv
<1>3. Cardinality(Recent(c, k)) \in Nat /\ Limit(k) \in Nat
    BY <1>2, RecentBounded, LimitIsNat DEF WindowInv
<1>4. Cardinality(Rivals(c, k)) \in Nat
    BY RivalsFinite
<1> QED BY <1>1, <1>3, <1>4, RecentAreRivals DEF HeldUp

\* More slots taken do not take a rival away.
LEMMA RivalsGrow ==
    ASSUME WindowInv, Owned, NEW c \in Calls, HeldUp(c),
           chat' = chat, took \subseteq took', IsFiniteSet(took'), now'[c] = now[c],
           \A d \in took : now'[d] = now[d]
    PROVE  HeldUp(c)'
<1>1. PICK k \in KeysOf(c) : Cardinality(Rivals(c, k)) >= Limit(k)
    BY DEF HeldUp
<1>2. Rivals(c, k) \subseteq Rivals(c, k)'
    BY DEF Rivals, KeysOf
<1>3. IsFiniteSet(Rivals(c, k)')
    BY FS_Subset DEF Rivals
<1>4. Cardinality(Rivals(c, k)) <= Cardinality(Rivals(c, k)')
    BY <1>2, <1>3, FS_Subset
<1>5. Cardinality(Rivals(c, k)) \in Nat /\ Cardinality(Rivals(c, k)') \in Nat
    BY <1>3, RivalsFinite, FS_CardinalityType
<1>6. k \in Keys /\ Limit(k) \in Nat
    BY KeysOfInKeys, LimitIsNat DEF WindowInv
<1>7. Cardinality(Rivals(c, k)') >= Limit(k)
    BY <1>1, <1>4, <1>5, <1>6
<1>8. KeysOf(c)' = KeysOf(c) /\ Limit(k)' = Limit(k)
    BY DEF KeysOf, Limit
<1> QED BY <1>7, <1>8 DEF HeldUp

LEMMA OwnedKept ==
    ASSUME WindowInv, Owned, [Next]_vars
    PROVE  Owned' /\ took \subseteq took' /\ chat' = chat /\ \A d \in took : now'[d] = now[d]
<1>1. ASSUME zset' = zset, took' = took, chat' = chat, \A d \in took : now'[d] = now[d]
      PROVE  Owned'
    BY <1>1 DEF Owned, Member, KeysOf
<1>2. \A d \in took : pc[d] \notin {"idle", "sent", "asleep"}
    BY DEF WindowInv, Taken
<1>3. ASSUME NEW c \in Calls, Acquire(c) \/ Answered(c) \/ Retry(c) \/ Fail(c)
      PROVE  Owned' /\ took \subseteq took' /\ chat' = chat /\ \A d \in took : now'[d] = now[d]
    BY <1>1, <1>2, <1>3 DEF Acquire, Answered, Retry, Fail, redis, WindowInv, TypeOK
<1>4. ASSUME NEW c \in Calls, Script(c)
      PROVE  Owned' /\ took \subseteq took' /\ chat' = chat /\ \A d \in took : now'[d] = now[d]
  <2>1. chat' = chat /\ now' = now
      BY <1>4 DEF Script
  <2>2. \A d : Member(d)' = Member(d) /\ KeysOf(d)' = KeysOf(d)
      BY <2>1 DEF Member, KeysOf
  <2>3. \A k \in Keys : Recent(c, k) \subseteq zset[k]
      BY RecentBounded DEF WindowInv
  <2>4. CASE Refuse(c)
    <3>1. /\ took' = took
          /\ \A k \in Keys : zset'[k] \subseteq zset[k]
        BY <2>3, <2>4 DEF Refuse
    <3> QED BY <2>1, <2>2, <3>1 DEF Owned
  <2>5. CASE Grant(c)
    <3>1. /\ took' = took \cup {c}
          /\ \A k \in Keys : \A m \in zset'[k] : m \in zset[k] \/ (m = Member(c) /\ k \in KeysOf(c))
        BY <2>3, <2>5 DEF Grant
    <3>2. IsFiniteSet(took')
        BY <3>1, FS_AddElement DEF Owned
    <3>3. ASSUME NEW k \in Keys, NEW m \in zset'[k]
          PROVE  \E d \in took' : k \in KeysOf(d) /\ Member(d) = m
      <4>1. CASE m = Member(c) /\ k \in KeysOf(c)
          BY <3>1, <4>1
      <4>2. CASE m \in zset[k]
          BY <3>1, <4>2 DEF Owned
      <4> QED BY <3>1, <3>3, <4>1, <4>2
    <3> QED BY <2>1, <2>2, <3>1, <3>2, <3>3 DEF Owned
  <2> QED BY <1>4, <2>4, <2>5 DEF Script
<1>5. CASE Tick \/ UNCHANGED vars
    BY <1>1, <1>5 DEF Tick, vars, redis
<1> QED BY <1>3, <1>4, <1>5 DEF Next

\* A call that gives up was held up by others who took all the slots of its
\* window.
THEOREM HeldUpOnlyByOthers == Spec => []HeldUpByOthers
<1>1. Init => RivalInv
    BY FS_EmptySet DEF Init, RivalInv, Owned
<1>2. WindowInv /\ RivalInv /\ [Next]_vars => RivalInv'
  <2> SUFFICES ASSUME WindowInv, RivalInv, [Next]_vars PROVE RivalInv'
      OBVIOUS
  <2>1. Owned /\ Owned' /\ took \subseteq took' /\ chat' = chat /\ \A d \in took : now'[d] = now[d]
      BY OwnedKept DEF RivalInv
  <2>2. ASSUME NEW c \in Calls, pc'[c] \in {"refused", "timedOut"} PROVE HeldUp(c)'
    <3>1. now'[c] = now[c] /\ (pc[c] \in {"refused", "timedOut"} \/ (pc[c] = "sent" /\ Full(c)))
      <4> USE <2>2 DEF WindowInv, TypeOK
      <4>1. ASSUME NEW d \in Calls, Acquire(d) \/ Retry(d)
            PROVE  now'[c] = now[c] /\ pc[c] \in {"refused", "timedOut"}
          BY <4>1 DEF Acquire, Retry
      <4>2. ASSUME NEW d \in Calls, Answered(d) \/ Fail(d)
            PROVE  now'[c] = now[c] /\ pc[c] \in {"refused", "timedOut"}
          BY <4>2 DEF Answered, Fail
      <4>4. ASSUME NEW d \in Calls, Script(d)
            PROVE  /\ now'[c] = now[c]
                   /\ pc[c] \in {"refused", "timedOut"} \/ (pc[c] = "sent" /\ Full(c))
        <5>1. now' = now /\ pc[d] = "sent"
            BY <4>4 DEF Script
        <5>2. CASE Refuse(d)
            BY <5>1, <5>2 DEF Refuse
        <5>3. CASE Grant(d)
            BY <5>1, <5>3 DEF Grant
        <5> QED BY <4>4, <5>2, <5>3 DEF Script
      <4>3. CASE Tick \/ UNCHANGED vars
          BY <2>2, <4>3 DEF Tick, vars, redis
      <4> QED BY <4>1, <4>2, <4>3, <4>4 DEF Next
    <3>2. HeldUp(c)
        BY <2>1, <3>1, RefuseIsHeldUp DEF RivalInv
    <3>3. IsFiniteSet(took')
        BY <2>1 DEF Owned
    <3> QED BY <2>1, <3>1, <3>2, <3>3, RivalsGrow
  <2> QED BY <2>1, <2>2 DEF RivalInv
<1>3. RivalInv => HeldUpByOthers
    BY DEF RivalInv, HeldUp, HeldUpByOthers
<1> QED BY <1>1, <1>2, <1>3, WindowInvHolds, PTL DEF Spec
===========================================================================
