------------------------- MODULE SessionPoolProofs -------------------------
(***************************************************************************)
(* Theorems about SessionPool, for any number of jobs and sessions, any    *)
(* limits and any adversity.                                               *)
(***************************************************************************)
EXTENDS SessionPool, FiniteSetTheorems, TLAPS

\* A job past its choice has a session.
Chosen(j) == Holding(j) \/ At(j, "committing")
Held      == \A j \in Jobs : Chosen(j) => job[j].session \in Sessions

\* A job that connects holds the lock, and the pool has no client of its
\* session meanwhile.
Locked == \A j \in Jobs : At(j, "connecting") => lock = j /\ pool[job[j].session] = "none"

\* A count, in the row or in a job's hands, is never more than the failures
\* committed.
Counted ==
    /\ \A s \in Sessions : fails[s] <= marks[s]
    /\ \A j \in Jobs : At(j, "counting") \/ At(j, "committing")
                       => job[j].seen <= marks[job[j].session]

PoolInv == TypeOK /\ Held /\ Locked /\ ConnectionsAccounted /\ Counted /\ NoEarlyBan

---------------------------------------------------------------------------
(* What the ways to move a job on do to the jobs.                          *)

LEMMA GoToMoves ==
    ASSUME TypeOK, NEW j \in Jobs, NEW pc \in Pcs, GoTo(j, pc)
    PROVE  /\ job' \in [Jobs -> JobStates]
           /\ \A i \in Jobs \ {j} : job'[i] = job[i]
           /\ job'[j].pc = pc
           /\ job'[j].session = job[j].session
           /\ job'[j].seen = job[j].seen
BY DEF TypeOK, JobStates, GoTo

LEMMA FinishMoves ==
    ASSUME TypeOK, NEW j \in Jobs, NEW verdict \in Verdicts, Finish(j, verdict)
    PROVE  /\ job' \in [Jobs -> JobStates]
           /\ \A i \in Jobs \ {j} : job'[i] = job[i]
           /\ job'[j].pc = "done"
<1> DEFINE r == [job[j] EXCEPT !.pc = "done", !.verdict = verdict]
<1>1. r \in JobStates /\ r.pc = "done"
    BY DEF TypeOK, JobStates, Pcs
<1>2. job' = [job EXCEPT ![j] = r]
    BY DEF TypeOK, JobStates, Finish
<1> QED BY <1>1, <1>2 DEF TypeOK

LEMMA NextAttemptMoves ==
    ASSUME TypeOK, NEW j \in Jobs, NextAttempt(j)
    PROVE  /\ job' \in [Jobs -> JobStates]
           /\ \A i \in Jobs \ {j} : job'[i] = job[i]
           /\ job'[j].pc \in {"querying", "done"}
<1>1. CASE job[j].attempt < MaxRetries - 1
  <2>1. job[j].attempt + 1 \in 0 .. (MaxRetries - 1) /\ 0 \in 0 .. MaxDepth
      BY <1>1, LimitsAssumption DEF TypeOK, JobStates
  <2> QED BY <1>1, <2>1 DEF NextAttempt, TypeOK, JobStates, Pcs
<1>2. CASE ~(job[j].attempt < MaxRetries - 1)
    BY <1>2, FinishMoves DEF NextAttempt, Verdicts
<1> QED BY <1>1, <1>2

(* The arithmetic on connections, pointwise.                               *)
LEMMA PlusOne ==
    ASSUME NEW f \in [Sessions -> Nat], NEW s \in Sessions
    PROVE  /\ Plus(f, One(s)) \in [Sessions -> Nat]
           /\ Plus(f, One(s))[s] = f[s] + 1
           /\ \A t \in Sessions \ {s} : Plus(f, One(s))[t] = f[t]
BY DEF Plus, One

LEMMA MinusOne ==
    ASSUME NEW f \in [Sessions -> Nat], NEW s \in Sessions, f[s] # 0
    PROVE  /\ Minus(f, One(s)) \in [Sessions -> Nat]
           /\ Minus(f, One(s))[s] = f[s] - 1
           /\ \A t \in Sessions \ {s} : Minus(f, One(s))[t] = f[t]
BY DEF Minus, One

---------------------------------------------------------------------------
(* Every step of a job moves that job alone, and along the code.           *)

Act(j) == Step(j) \/ Raise(j) \/ Cancel(j)

\* Where the steps of a job may take it.
Follows(j) ==
    \/ job'[j].pc \in {"entering", "querying", "choosing", "done"}
    \/ At(j, "choosing") /\ job'[j].pc = "proxy" /\ job'[j].session \in Sessions
    \/ /\ Chosen(j)
       /\ job'[j].session = job[j].session
       /\ job'[j].pc \in {"acquiring", "connecting", "jitter", "scraping", "releasing",
                          "dropping", "reading", "counting", "committing"}
       /\ job'[j].pc = "counting" => job'[j].seen = fails[job[j].session]
       /\ job'[j].pc = "committing" => At(j, "counting") /\ job'[j].seen = job[j].seen

LEMMA JobMoves ==
    ASSUME TypeOK, Held, NEW j \in Jobs, Act(j)
    PROVE  /\ job' \in [Jobs -> JobStates]
           /\ \A i \in Jobs \ {j} : job'[i] = job[i]
           /\ Follows(j)
<1>0. "done" \in Pcs /\ Verdicts = {"none", "ok", "noSession", "keyError", "raised",
                                    "exhausted", "cancelled"}
    BY DEF Pcs, Verdicts
<1>1. CASE Enter(j)
    BY <1>1, GoToMoves DEF Enter, Follows, Pcs
<1>2. CASE Query(j)
  <2>1. CASE Eligible = {}
      BY <1>0, <1>2, <2>1, FinishMoves DEF Query, Follows
  <2>2. CASE Eligible # {}
    <3> DEFINE r == [job[j] EXCEPT !.pc = "choosing", !.rows = Eligible]
    <3>1. r \in JobStates /\ r.pc = "choosing"
        BY DEF TypeOK, JobStates, Pcs, Eligible
    <3>2. job' = [job EXCEPT ![j] = r]
        BY <1>2, <2>2 DEF Query, TypeOK, JobStates
    <3> QED BY <3>1, <3>2 DEF Follows, TypeOK
  <2> QED BY <2>1, <2>2
<1>3. CASE Choose(j)
  <2>1. PICK s \in Choices(job[j].rows) :
            job' = [job EXCEPT ![j].pc = "proxy", ![j].session = s, ![j].rows = {}]
      BY <1>3 DEF Choose
  <2>2. s \in Sessions
      BY <2>1 DEF Choices, TypeOK, JobStates
  <2> DEFINE r == [job[j] EXCEPT !.pc = "proxy", !.session = s, !.rows = {}]
  <2>3. r \in JobStates /\ r.pc = "proxy" /\ r.session = s
      BY <2>2 DEF TypeOK, JobStates, Pcs
  <2>4. job' = [job EXCEPT ![j] = r]
      BY <2>1 DEF TypeOK, JobStates
  <2>5. /\ job' \in [Jobs -> JobStates]
        /\ \A i \in Jobs \ {j} : job'[i] = job[i]
        /\ job'[j].pc = "proxy" /\ job'[j].session = s
      BY <2>3, <2>4 DEF TypeOK
  <2> QED BY <1>3, <2>2, <2>5 DEF Choose, Follows
<1>4. CASE CheckProxy(j)
  <2>1. CASE GoTo(j, "acquiring")
      BY <1>4, <2>1, GoToMoves DEF CheckProxy, Follows, Chosen, Holding, At, Pcs
  <2>2. CASE Finish(j, "noSession")
      BY <1>0, <2>2, FinishMoves DEF Follows
  <2>3. CASE /\ ~(job[j].depth >= MaxDepth)
             /\ job' = [job EXCEPT ![j].pc = "querying", ![j].depth = @ + 1]
    <3>1. job[j].depth + 1 \in 0 .. MaxDepth
        BY <2>3, LimitsAssumption DEF TypeOK, JobStates
    <3> QED BY <2>3, <3>1 DEF Follows, TypeOK, JobStates, Pcs
  <2> QED BY <1>4, <2>1, <2>2, <2>3 DEF CheckProxy
<1>5. CASE Acquire(j)
    BY <1>5, GoToMoves DEF Acquire, Follows, Chosen, Holding, At, Pcs
<1>6. CASE Connected(j)
    BY <1>6, GoToMoves DEF Connected, Follows, Chosen, Holding, At, Pcs
<1>7. CASE Unauthorized(j)
    BY <1>0, <1>7, FinishMoves DEF Unauthorized, Follows
<1>8. CASE Obtain(j)
    BY <1>0, <1>8, GoToMoves, FinishMoves DEF Obtain, Follows, Chosen, Holding, At, Pcs
<1>9. CASE Scraped(j)
    BY <1>9, GoToMoves DEF Scraped, Follows, Chosen, Holding, At, Pcs
<1>10. CASE Release(j)
    BY <1>0, <1>10, FinishMoves DEF Release, Follows
<1>11. CASE Flooded(j)
    BY <1>11, GoToMoves DEF Flooded, Follows, Chosen, Holding, At, Pcs
<1>12. CASE DropFlooded(j)
    BY <1>12, NextAttemptMoves DEF DropFlooded, Follows
<1>13. CASE Failed(j)
    BY <1>13, GoToMoves DEF Failed, Follows, Chosen, Holding, At, Pcs
<1>14. CASE ReadRow(j)
  <2>1. fails[job[j].session] \in Nat
      BY <1>14 DEF ReadRow, Held, Chosen, Holding, At, TypeOK
  <2> DEFINE r == [job[j] EXCEPT !.pc = "counting", !.seen = fails[job[j].session]]
  <2>2. /\ r \in JobStates /\ r.pc = "counting" /\ r.session = job[j].session
        /\ r.seen = fails[job[j].session]
      BY <2>1 DEF TypeOK, JobStates, Pcs
  <2>3. job' = [job EXCEPT ![j] = r]
      BY <1>14 DEF ReadRow, TypeOK, JobStates
  <2>4. /\ job' \in [Jobs -> JobStates]
        /\ \A i \in Jobs \ {j} : job'[i] = job[i]
        /\ job'[j].pc = "counting" /\ job'[j].session = job[j].session
        /\ job'[j].seen = fails[job[j].session]
      BY <2>2, <2>3 DEF TypeOK
  <2> QED BY <1>14, <2>4 DEF ReadRow, Follows, Chosen, Holding, At
<1>15. CASE Count(j)
    BY <1>15, GoToMoves DEF Count, Follows, Chosen, Holding, At, Pcs
<1>16. CASE CommitRow(j)
    BY <1>0, <1>16, NextAttemptMoves, FinishMoves DEF CommitRow, Follows
<1>17. CASE Raise(j)
    BY <1>0, <1>17, FinishMoves DEF Raise, Follows
<1>18. CASE Cancel(j)
    BY <1>0, <1>18, FinishMoves DEF Cancel, Follows
<1> QED
    BY <1>1, <1>2, <1>3, <1>4, <1>5, <1>6, <1>7, <1>8, <1>9, <1>10, <1>11, <1>12, <1>13,
       <1>14, <1>15, <1>16, <1>17, <1>18 DEF Act, Step

---------------------------------------------------------------------------
(* Types and sessions in hand.                                             *)

LEMMA HeldStep ==
    ASSUME TypeOK, Held, NEW j \in Jobs, Act(j)
    PROVE  Held'
<1> SUFFICES ASSUME NEW i \in Jobs, Chosen(i)'  PROVE job'[i].session \in Sessions
    BY DEF Held
<1>1. CASE i # j
    BY <1>1, JobMoves DEF Held, Chosen, Holding, At
<1>2. CASE i = j
    BY <1>2, JobMoves DEF Held, Follows, Chosen, Holding, At
<1> QED BY <1>1, <1>2

\* Letting a session go keeps the types and the account.
LEMMA DropKeeps ==
    ASSUME TypeOK, ConnectionsAccounted, NEW s \in Sessions, Drop(s)
    PROVE  /\ busy' \in SUBSET Sessions
           /\ pool' \in [Sessions -> {"none", "up", "down"}]
           /\ dropped' \in [Sessions -> Nat]
           /\ live' = live
           /\ ConnectionsAccounted'
           /\ \A t \in Sessions : pool[t] = "none" => pool'[t] = "none"
<1>1. CASE pool[s] = "up"
  <2>1. dropped' = Plus(dropped, One(s))
      BY <1>1 DEF Drop
  <2>2. /\ dropped' \in [Sessions -> Nat]
        /\ dropped'[s] = dropped[s] + 1
        /\ \A t \in Sessions \ {s} : dropped'[t] = dropped[t]
      BY <2>1, PlusOne DEF TypeOK
  <2>3. /\ pool' \in [Sessions -> {"none", "up", "down"}] /\ pool'[s] = "none"
        /\ \A t \in Sessions \ {s} : pool'[t] = pool[t]
        /\ live' = live
      BY DEF Drop, TypeOK
  <2>4. live'[s] = dropped'[s]
      BY <1>1, <2>2, <2>3 DEF TypeOK, ConnectionsAccounted
  <2>5. ASSUME NEW t \in Sessions
        PROVE  live'[t] = dropped'[t] + (IF pool'[t] = "up" THEN 1 ELSE 0)
      BY <2>2, <2>3, <2>4 DEF TypeOK, ConnectionsAccounted
  <2>6. ConnectionsAccounted'
      BY <2>5 DEF ConnectionsAccounted
  <2> QED BY <2>2, <2>3, <2>6 DEF Drop, TypeOK
<1>2. CASE pool[s] # "up"
    BY <1>2 DEF Drop, TypeOK, ConnectionsAccounted
<1> QED BY <1>1, <1>2

\* A connection made outside the pool is at once let go of.
LEMMA StrayKeeps ==
    ASSUME TypeOK, ConnectionsAccounted, NEW s \in Sessions, UNCHANGED pool,
           live' = Plus(live, One(s)), dropped' = Plus(dropped, One(s))
    PROVE  /\ live' \in [Sessions -> Nat]
           /\ dropped' \in [Sessions -> Nat]
           /\ ConnectionsAccounted'
<1>1. /\ live' \in [Sessions -> Nat] /\ dropped' \in [Sessions -> Nat]
      /\ live'[s] = live[s] + 1 /\ dropped'[s] = dropped[s] + 1
      /\ \A t \in Sessions \ {s} : live'[t] = live[t] /\ dropped'[t] = dropped[t]
    BY PlusOne DEF TypeOK
<1> QED BY <1>1 DEF TypeOK, ConnectionsAccounted

---------------------------------------------------------------------------
(* What a job's step does to everything but the jobs.                      *)

\* The parts of TypeOK other than the one on job.
TypesRest ==
    /\ status  \in [Sessions -> {"active", "banned", "archived"}]
    /\ cooling \in [Sessions -> BOOLEAN]
    /\ fails   \in [Sessions -> Nat]
    /\ pool    \in [Sessions -> {"none", "up", "down"}]
    /\ busy    \in SUBSET Sessions
    /\ lock    \in Jobs \cup {NoJob}
    /\ live    \in [Sessions -> Nat]
    /\ dropped \in [Sessions -> Nat]
    /\ marks   \in [Sessions -> Nat]
    /\ closed  \in BOOLEAN

\* The connections stay accounted for, and a job that connects keeps the lock:
\* no other job touches the pool's entry or the lock meanwhile.
LEMMA JobStepConnections ==
    ASSUME TypeOK, Held, Locked, ConnectionsAccounted, NEW j \in Jobs, Act(j)
    PROVE  TypesRest' /\ ConnectionsAccounted' /\ Locked'
<1> DEFINE s == job[j].session
<1> DEFINE Quiet == UNCHANGED <<db, conns, busy, lock, closed>>
<1> DEFINE Left  == \A i \in Jobs : At(i, "connecting")' => i # j /\ At(i, "connecting")
<1>0. job' \in [Jobs -> JobStates] /\ \A i \in Jobs \ {j} : job'[i] = job[i]
    BY JobMoves
<1>1. Chosen(j) => s \in Sessions
    BY DEF Held
<1>2. ASSUME job'[j].pc # "connecting"  PROVE Left
    BY <1>0, <1>2 DEF At
<1>3. ASSUME Left, Unlocked  PROVE \A i \in Jobs : ~At(i, "connecting")'
    BY <1>3, NamesAssumption DEF Locked, Unlocked
<1>4. ASSUME Quiet, job'[j].pc # "connecting"
      PROVE  TypesRest' /\ ConnectionsAccounted' /\ Locked'
  <2>1. TypesRest' /\ ConnectionsAccounted'
      BY <1>4 DEF TypeOK, TypesRest, ConnectionsAccounted, db, conns
  <2>2. Locked'
      BY <1>0, <1>2, <1>4 DEF Locked, At, db, conns
  <2> QED BY <2>1, <2>2
<1>5. CASE Enter(j)
    BY <1>4, <1>5, GoToMoves DEF Enter, Pcs
<1>6. CASE Query(j)
  <2>1. job'[j].pc # "connecting"
    <3>1. CASE Eligible = {}
        BY <1>6, <3>1, FinishMoves DEF Query, Verdicts
    <3>2. CASE Eligible # {}
        BY <1>6, <3>2 DEF Query, TypeOK, JobStates
    <3> QED BY <3>1, <3>2
  <2> QED BY <1>4, <1>6, <2>1 DEF Query
<1>7. CASE Choose(j)
  <2>1. job'[j].pc # "connecting" /\ busy' \in SUBSET Sessions
    <3>1. PICK t \in Choices(job[j].rows) :
              /\ job' = [job EXCEPT ![j].pc = "proxy", ![j].session = t, ![j].rows = {}]
              /\ busy' = busy \cup {t}
        BY <1>7 DEF Choose
    <3>2. t \in Sessions
        BY <3>1 DEF Choices, TypeOK, JobStates
    <3> QED BY <3>1, <3>2 DEF TypeOK, JobStates
  <2>2. UNCHANGED <<db, conns, lock, closed>>
      BY <1>7 DEF Choose
  <2>3. TypesRest' /\ ConnectionsAccounted'
      BY <2>1, <2>2 DEF TypeOK, TypesRest, ConnectionsAccounted, db, conns
  <2>4. Locked'
      BY <1>0, <1>2, <2>1, <2>2 DEF Locked, At, db, conns
  <2> QED BY <2>3, <2>4
<1>8. CASE CheckProxy(j)
  <2>1. job'[j].pc # "connecting"
    <3>1. CASE GoTo(j, "acquiring")
        BY <3>1, GoToMoves DEF Pcs
    <3>2. CASE Finish(j, "noSession")
        BY <3>2, FinishMoves DEF Verdicts
    <3>3. CASE job' = [job EXCEPT ![j].pc = "querying", ![j].depth = @ + 1]
        BY <3>3 DEF TypeOK, JobStates
    <3> QED BY <1>8, <3>1, <3>2, <3>3 DEF CheckProxy
  <2> QED BY <1>4, <1>8, <2>1 DEF CheckProxy
<1>9. CASE Acquire(j)
  <2>1. s \in Sessions /\ UNCHANGED <<db, busy, live, dropped, closed>>
      BY <1>1, <1>9 DEF Acquire, Chosen, Holding, At
  <2>2. CASE pool[s] = "up" /\ GoTo(j, "jitter") /\ UNCHANGED <<pool, lock>>
    <3>1. job'[j].pc # "connecting"
        BY <2>2, GoToMoves DEF Pcs
    <3> QED BY <1>4, <2>1, <2>2, <3>1 DEF conns
  <2>3. CASE /\ pool[s] # "up"
             /\ pool' = [pool EXCEPT ![s] = "none"]
             /\ lock' = j
             /\ GoTo(j, "connecting")
    <3>1. job'[j].session = s
        BY <2>3, GoToMoves DEF Pcs
    <3>2. \A i \in Jobs \ {j} : ~At(i, "connecting")'
        BY <1>0, <1>9, NamesAssumption DEF Acquire, Unlocked, Locked, At
    <3>3. Locked'
        BY <2>1, <2>3, <3>1, <3>2 DEF Locked, At, TypeOK
    <3>4. TypesRest' /\ ConnectionsAccounted'
        BY <2>1, <2>3 DEF TypeOK, TypesRest, ConnectionsAccounted, db
    <3> QED BY <3>3, <3>4
  <2> QED BY <1>9, <2>2, <2>3 DEF Acquire
<1>10. CASE Connected(j)
  <2>1. /\ s \in Sessions /\ lock = j /\ pool[s] = "none"
        /\ UNCHANGED <<db, busy, dropped, closed>>
      BY <1>1, <1>10 DEF Connected, Locked, Chosen, Holding, At
  <2>2. job'[j].pc # "connecting"
      BY <1>10, GoToMoves DEF Connected, Pcs
  <2>3. Locked'
      BY <1>2, <2>1, <2>2 DEF Locked
  <2>4. /\ live' \in [Sessions -> Nat] /\ live'[s] = live[s] + 1
        /\ \A t \in Sessions \ {s} : live'[t] = live[t]
      BY <1>10, <2>1, PlusOne DEF Connected, TypeOK
  <2>5. TypesRest' /\ ConnectionsAccounted'
      BY <1>10, <2>1, <2>4 DEF Connected, TypeOK, TypesRest, ConnectionsAccounted, db
  <2> QED BY <2>3, <2>5
<1>11. CASE Unauthorized(j)
  <2>1. s \in Sessions /\ lock = j
      BY <1>1, <1>11 DEF Unauthorized, Locked, Chosen, Holding, At
  <2>2. job'[j].pc # "connecting"
      BY <1>11, FinishMoves DEF Unauthorized, Verdicts
  <2>3. Locked'
      BY <1>2, <2>1, <2>2 DEF Locked
  <2>4. /\ live' \in [Sessions -> Nat] /\ dropped' \in [Sessions -> Nat]
        /\ ConnectionsAccounted'
      BY <1>11, <2>1, StrayKeeps DEF Unauthorized, LeaveBehind
  <2> QED BY <1>11, <2>1, <2>3, <2>4 DEF Unauthorized, LeaveBehind, TypeOK, TypesRest
<1>12. CASE Obtain(j)
  <2>1. job'[j].pc # "connecting"
      BY <1>12, GoToMoves, FinishMoves DEF Obtain, Pcs, Verdicts
  <2> QED BY <1>4, <1>12, <2>1 DEF Obtain
<1>13. CASE Scraped(j)
    BY <1>4, <1>13, GoToMoves DEF Scraped, Pcs
<1>14. CASE Release(j)
  <2>1. job'[j].pc # "connecting" /\ UNCHANGED <<db, conns, lock, closed>>
      BY <1>14, FinishMoves DEF Release, Verdicts
  <2>2. TypesRest' /\ ConnectionsAccounted'
      BY <1>14, <2>1 DEF Release, TypeOK, TypesRest, ConnectionsAccounted, db, conns
  <2>3. Locked'
      BY <1>0, <1>2, <2>1 DEF Locked, At, db, conns
  <2> QED BY <2>2, <2>3
<1>15. CASE Flooded(j)
  <2>1. job'[j].pc # "connecting" /\ UNCHANGED <<status, fails, marks, conns, busy, lock, closed>>
      BY <1>15, GoToMoves DEF Flooded, Pcs
  <2>2. TypesRest' /\ ConnectionsAccounted'
      BY <1>15, <2>1 DEF Flooded, TypeOK, TypesRest, ConnectionsAccounted, conns
  <2>3. Locked'
      BY <1>0, <1>2, <2>1 DEF Locked, At, conns
  <2> QED BY <2>2, <2>3
<1>16. CASE DropFlooded(j)
  <2>1. s \in Sessions /\ Drop(s) /\ UNCHANGED <<db, lock, closed>>
      BY <1>1, <1>16 DEF DropFlooded, Chosen, Holding, At
  <2>2. job'[j].pc # "connecting"
      BY <1>16, NextAttemptMoves DEF DropFlooded
  <2>3. Locked'
      BY <1>2, <1>3, <1>16, <2>2 DEF DropFlooded, Locked
  <2> QED BY <2>1, <2>3, DropKeeps DEF TypeOK, TypesRest, db
<1>17. CASE Failed(j)
    BY <1>4, <1>17, GoToMoves DEF Failed, Pcs
<1>18. CASE ReadRow(j)
  <2>1. job'[j].pc # "connecting"
      BY <1>18 DEF ReadRow, TypeOK, JobStates
  <2> QED BY <1>4, <1>18, <2>1 DEF ReadRow
<1>19. CASE Count(j)
  <2>1. s \in Sessions /\ UNCHANGED <<db, lock, closed>> /\ job'[j].pc # "connecting"
      BY <1>1, <1>19, GoToMoves DEF Count, Chosen, Holding, At, Pcs
  <2>2. CASE UNCHANGED <<conns, busy>>
      BY <1>4, <2>1, <2>2
  <2>3. CASE Unlocked /\ Drop(s)
    <3>1. Locked'
        BY <1>2, <1>3, <2>1, <2>3 DEF Locked
    <3> QED BY <2>1, <2>3, <3>1, DropKeeps DEF TypeOK, TypesRest, db
  <2> QED BY <1>19, <2>2, <2>3 DEF Count
<1>20. CASE CommitRow(j)
  <2>1. s \in Sessions /\ UNCHANGED <<cooling, conns, busy, lock, closed>>
      BY <1>1, <1>20 DEF CommitRow, Chosen
  <2>2. job'[j].pc # "connecting"
      BY <1>20, NextAttemptMoves, FinishMoves DEF CommitRow, Verdicts
  <2>3. job[j].seen + 1 \in Nat
      BY DEF TypeOK, JobStates
  <2>4. TypesRest' /\ ConnectionsAccounted'
      BY <1>20, <2>1, <2>3 DEF CommitRow, TypeOK, TypesRest, ConnectionsAccounted, conns
  <2>5. Locked'
      BY <1>0, <1>2, <2>1, <2>2 DEF Locked, At, conns
  <2> QED BY <2>4, <2>5
<1>21. CASE Raise(j) \/ Cancel(j)
  <2>1. /\ job'[j].pc # "connecting" /\ UNCHANGED <<db, busy, closed>>
        /\ lock' = IF lock = j THEN NoJob ELSE lock
        /\ BrokenOff(j)
      BY <1>21, FinishMoves DEF Raise, Cancel, Verdicts
  <2>2. /\ live' \in [Sessions -> Nat] /\ dropped' \in [Sessions -> Nat]
        /\ pool' = pool /\ ConnectionsAccounted'
    <3>1. CASE UNCHANGED conns
        BY <3>1 DEF TypeOK, ConnectionsAccounted, conns
    <3>2. CASE At(j, "connecting") /\ LeaveBehind(s)
        BY <1>1, <3>2, StrayKeeps DEF LeaveBehind, Chosen, Holding, At
    <3> QED BY <2>1, <3>1, <3>2 DEF BrokenOff
  <2>3. TypesRest'
      BY <2>1, <2>2 DEF TypeOK, TypesRest, db
  <2>4. Locked'
      BY <1>0, <1>2, <2>1, <2>2 DEF Locked, At
  <2> QED BY <2>2, <2>3, <2>4
<1> QED
    BY <1>5, <1>6, <1>7, <1>8, <1>9, <1>10, <1>11, <1>12, <1>13, <1>14, <1>15, <1>16,
       <1>17, <1>18, <1>19, <1>20, <1>21 DEF Act, Step

---------------------------------------------------------------------------
(* Counts and bans.                                                        *)

\* Only the commit of mark_session_failed changes a count or bans.
LEMMA OnlyCommitCounts ==
    ASSUME TypeOK, Held, NEW j \in Jobs, Act(j), ~CommitRow(j)
    PROVE  /\ UNCHANGED <<fails, marks>>
           /\ \A s \in Sessions : status'[s] = "banned" => status[s] = "banned"
<1>1. CASE Unauthorized(j)
  <2>1. job[j].session \in Sessions
      BY <1>1 DEF Unauthorized, Held, Chosen, Holding, At
  <2> QED BY <1>1, <2>1 DEF Unauthorized, TypeOK
<1>2. CASE ~Unauthorized(j)
    BY <1>2 DEF Act, Step, Enter, Query, Choose, CheckProxy, Acquire, Connected, Obtain,
                Scraped, Release, Flooded, DropFlooded, Failed, ReadRow, Count, Raise, Cancel, db
<1> QED BY <1>1, <1>2

LEMMA JobStepCounts ==
    ASSUME TypeOK, Held, Counted, NoEarlyBan, NEW j \in Jobs, Act(j)
    PROVE  Counted' /\ NoEarlyBan'
<1> DEFINE s == job[j].session
<1>0. /\ job' \in [Jobs -> JobStates]
      /\ \A i \in Jobs \ {j} : job'[i] = job[i]
      /\ Follows(j)
    BY JobMoves
<1>1. CASE ~CommitRow(j)
  <2>1. /\ UNCHANGED <<fails, marks>>
        /\ \A t \in Sessions : status'[t] = "banned" => status[t] = "banned"
      BY <1>1, OnlyCommitCounts
  <2>2. ASSUME NEW i \in Jobs, (At(i, "counting") \/ At(i, "committing"))'
        PROVE  job'[i].seen <= marks'[job'[i].session]
    <3>1. CASE i # j
        BY <1>0, <2>1, <2>2, <3>1 DEF Counted, At
    <3>2. CASE i = j
      <4>1. /\ Chosen(j) /\ job'[j].session = s
            /\ \/ job'[j].seen = fails[s]
               \/ At(j, "counting") /\ job'[j].seen = job[j].seen
          BY <1>0, <2>2, <3>2 DEF Follows, At
      <4>2. s \in Sessions
          BY <4>1 DEF Held
      <4> QED BY <2>1, <3>2, <4>1, <4>2 DEF Counted
    <3> QED BY <3>1, <3>2
  <2> QED BY <2>1, <2>2 DEF Counted, NoEarlyBan
<1>2. CASE CommitRow(j)
  <2>1. /\ s \in Sessions /\ job[j].seen \in Nat /\ job[j].seen <= marks[s]
        /\ marks[s] \in Nat /\ FailLimit \in Nat
      BY <1>2, LimitsAssumption DEF CommitRow, Held, Chosen, Counted, TypeOK, JobStates
  <2>2. /\ fails'[s] = job[j].seen + 1
        /\ marks'[s] = marks[s] + 1
        /\ \A t \in Sessions \ {s} :
              fails'[t] = fails[t] /\ marks'[t] = marks[t] /\ status'[t] = status[t]
        /\ status'[s] = IF AtLimit(j) THEN "banned" ELSE status[s]
      BY <1>2, <2>1 DEF CommitRow, TypeOK
  <2>3. \A t \in Sessions : marks[t] \in Nat /\ marks[t] <= marks'[t]
      BY <2>1, <2>2 DEF TypeOK
  <2>4. \A t \in Sessions : fails'[t] <= marks'[t]
      BY <2>1, <2>2 DEF Counted, TypeOK
  <2>5. job'[j].pc \in {"querying", "done"}
      BY <1>2, NextAttemptMoves, FinishMoves DEF CommitRow, Verdicts
  <2>6. ASSUME NEW i \in Jobs, (At(i, "counting") \/ At(i, "committing"))'
        PROVE  job'[i].seen <= marks'[job'[i].session]
    <3>1. i # j
        BY <2>5, <2>6 DEF At
    <3>2. job'[i] = job[i] /\ (At(i, "counting") \/ At(i, "committing"))
        BY <1>0, <2>6, <3>1 DEF At
    <3>3. job[i].session \in Sessions /\ job[i].seen \in Nat
        BY <3>2 DEF Held, Chosen, Holding, At, TypeOK, JobStates
    <3>4. job[i].seen <= marks[job[i].session]
        BY <3>2 DEF Counted
    <3>5. marks'[job[i].session] \in Nat
        BY <2>1, <2>2, <2>3, <3>3 DEF TypeOK
    <3> QED BY <2>3, <3>2, <3>3, <3>4, <3>5
  <2>7. ASSUME NEW t \in Sessions, status'[t] = "banned"  PROVE marks'[t] >= FailLimit
    <3>1. CASE t = s /\ AtLimit(j)
        BY <2>1, <2>2, <3>1 DEF AtLimit
    <3>2. CASE ~(t = s /\ AtLimit(j))
      <4>1. status[t] = "banned"
          BY <2>2, <2>7, <3>2
      <4>2. marks[t] >= FailLimit /\ marks'[t] \in Nat
          BY <2>1, <2>2, <4>1 DEF NoEarlyBan, TypeOK
      <4> QED BY <2>1, <2>3, <4>2
    <3> QED BY <3>1, <3>2
  <2> QED BY <2>4, <2>6, <2>7 DEF Counted, NoEarlyBan
<1> QED BY <1>1, <1>2

---------------------------------------------------------------------------
(* The invariant.                                                          *)

LEMMA PoolInvInit == Init => PoolInv
<1> SUFFICES ASSUME Init  PROVE PoolInv
    OBVIOUS
<1>1. 0 \in 0 .. (MaxRetries - 1) /\ 0 \in 0 .. MaxDepth
    BY LimitsAssumption
<1>2. TypeOK
    BY <1>1 DEF Init, TypeOK, JobStates, Pcs, Verdicts
<1>3. Held /\ Locked /\ Counted
    BY DEF Init, Held, Locked, Counted, Chosen, Holding, At
<1>4. ConnectionsAccounted /\ NoEarlyBan
    BY DEF Init, ConnectionsAccounted, NoEarlyBan
<1> QED BY <1>2, <1>3, <1>4 DEF PoolInv

LEMMA PoolInvInductive == PoolInv /\ [Next]_vars => PoolInv'
<1> SUFFICES ASSUME PoolInv, [Next]_vars  PROVE PoolInv'
    OBVIOUS
<1> USE DEF PoolInv
<1>1. ASSUME NEW j \in Jobs, Act(j)  PROVE PoolInv'
  <2>1. TypesRest' /\ ConnectionsAccounted' /\ Locked'
      BY <1>1, JobStepConnections
  <2>2. job' \in [Jobs -> JobStates] /\ Held' /\ Counted' /\ NoEarlyBan'
      BY <1>1, JobMoves, HeldStep, JobStepCounts
  <2> QED BY <2>1, <2>2 DEF TypesRest, TypeOK
<1>2. ASSUME NEW s \in Sessions, CoolDown(s)  PROVE PoolInv'
    BY <1>2 DEF CoolDown, conns, TypeOK, Held, Locked, ConnectionsAccounted, Counted,
                NoEarlyBan, Chosen, Holding, At
<1>3. ASSUME NEW s \in Sessions, Disconnect(s)  PROVE PoolInv'
  <2>1. pool[s] = "up" /\ live[s] # 0
      BY <1>3 DEF Disconnect, TypeOK, ConnectionsAccounted
  <2>2. /\ live' \in [Sessions -> Nat] /\ live'[s] = live[s] - 1
        /\ \A t \in Sessions \ {s} : live'[t] = live[t]
      BY <1>3, <2>1, MinusOne DEF Disconnect, TypeOK
  <2>3. /\ pool' \in [Sessions -> {"none", "up", "down"}] /\ pool'[s] = "down"
        /\ \A t \in Sessions \ {s} : pool'[t] = pool[t]
      BY <1>3 DEF Disconnect, TypeOK
  <2>4. ConnectionsAccounted'
      BY <1>3, <2>1, <2>2, <2>3 DEF Disconnect, TypeOK, ConnectionsAccounted
  <2>5. Locked'
    <3>1. \A i \in Jobs : At(i, "connecting") => job[i].session # s
        BY <2>1 DEF Locked
    <3>2. \A i \in Jobs : At(i, "connecting") => job[i].session \in Sessions
        BY DEF Held, Chosen, Holding, At
    <3> QED BY <1>3, <2>3, <3>1, <3>2 DEF Disconnect, Locked, At
  <2>6. TypeOK'
      BY <1>3, <2>2, <2>3 DEF Disconnect, TypeOK, db
  <2>7. Held' /\ Counted' /\ NoEarlyBan'
      BY <1>3 DEF Disconnect, Held, Counted, NoEarlyBan, Chosen, Holding, At, db
  <2> QED BY <2>4, <2>5, <2>6, <2>7
<1>4. CASE CloseAll
  <2>1. \A s \in Sessions : pool[s] = "up" => live[s] - 1 \in Nat
      BY DEF TypeOK, ConnectionsAccounted
  <2>2. TypeOK'
      BY <1>4, <2>1 DEF CloseAll, TypeOK, db
  <2>3. ConnectionsAccounted'
      BY <1>4, <2>1 DEF CloseAll, TypeOK, ConnectionsAccounted
  <2>4. Locked'
      BY <1>4 DEF CloseAll, Locked, At
  <2>5. Held' /\ Counted' /\ NoEarlyBan'
      BY <1>4 DEF CloseAll, Held, Counted, NoEarlyBan, Chosen, Holding, At, db
  <2> QED BY <2>2, <2>3, <2>4, <2>5
<1>5. CASE UNCHANGED vars
    BY <1>5 DEF vars, TypeOK, Held, Locked, ConnectionsAccounted, Counted, NoEarlyBan,
                Chosen, Holding, At
<1> QED BY <1>1, <1>2, <1>3, <1>4, <1>5 DEF Next, Act

LEMMA PoolInvHolds == Spec => []PoolInv
<1> QED BY PoolInvInit, PoolInvInductive, PTL DEF Spec

(* The variables keep their types: in particular no count and no number of *)
(* connections ever goes below zero.                                       *)
THEOREM SessionTypeCorrect == Spec => []TypeOK
<1>1. PoolInv => TypeOK  BY DEF PoolInv
<1> QED BY <1>1, PoolInvHolds, PTL

(* However jobs share, lose and drop sessions, the connected clients of a  *)
(* session are the pooled one and those let go of: by a FloodWait, a ban,  *)
(* or a call that broke off while connecting. None is overwritten in the   *)
(* pool, for the lock is held while one connects (session_pool.py:95-114). *)
THEOREM NoClientIsOverwritten == Spec => []ConnectionsAccounted
<1>1. PoolInv => ConnectionsAccounted  BY DEF PoolInv
<1> QED BY <1>1, PoolInvHolds, PTL

(* Failures may go uncounted, but a session is banned only after FailLimit *)
(* of them were committed (session_pool.py:145-147).                       *)
THEOREM BannedAtLimit == Spec => []NoEarlyBan
<1>1. PoolInv => NoEarlyBan  BY DEF PoolInv
<1> QED BY <1>1, PoolInvHolds, PTL

---------------------------------------------------------------------------
(* Exclusive use, when sessions are plenty and nothing goes wrong but      *)
(* disconnections. Every hypothesis is needed: a flood wait or a dead      *)
(* proxy makes sessions ineligible, and any error but a flood wait leaves  *)
(* its session busy for ever, after which sessions are shared.             *)

Undisturbed ==
    /\ Adversity \subseteq {"disconnect"}
    /\ DeadProxy = {}
    /\ IsFiniteSet(Sessions)
    /\ Permits <= Cardinality(Sessions)

QuietPcs == {"entering", "querying", "choosing", "proxy", "acquiring", "connecting",
             "jitter", "scraping", "releasing", "done"}

QuietPlaces    == \A j \in Jobs : job[j].pc \in QuietPcs
AllEligible    == Eligible = Sessions
WholeSnapshot  == \A j \in Jobs : At(j, "choosing") => job[j].rows = Sessions
WithinPermits  == IsFiniteSet(Inside) /\ Cardinality(Inside) <= Permits
HeldIsBusy     == \A j \in Jobs : Holding(j) => job[j].session \in busy
PooledInJitter == \A j \in Jobs : At(j, "jitter") => pool[job[j].session] # "none"

QuietInv == /\ QuietPlaces /\ AllEligible /\ WholeSnapshot /\ WithinPermits
            /\ HeldIsBusy /\ PooledInJitter /\ ExclusiveUse /\ BusyIsInUse

\* The steps of a job that are left: it enters within the permits, looks,
\* chooses, goes on with its session in hand, and gives it back.
QuietStep(j) ==
    \/ /\ At(j, "entering") /\ job'[j].pc = "querying"
       /\ Cardinality(Inside) < Permits
       /\ UNCHANGED <<busy, pool>>
    \/ /\ At(j, "querying") /\ job'[j].pc \in {"choosing", "done"}
       /\ job'[j].pc = "choosing" => job'[j].rows = Sessions
       /\ UNCHANGED <<busy, pool>>
    \/ /\ At(j, "choosing") /\ job'[j].pc = "proxy"
       /\ job'[j].session \in Choices(Sessions)
       /\ busy' = busy \cup {job'[j].session}
       /\ UNCHANGED pool
    \/ /\ Holding(j) /\ Holding(j)' /\ job'[j].pc \in QuietPcs
       /\ job'[j].session = job[j].session
       /\ \A s \in Sessions \ {job[j].session} : pool'[s] = pool[s]
       /\ job'[j].pc = "jitter" => pool'[job[j].session] # "none"
       /\ UNCHANGED busy
    \/ /\ At(j, "releasing") /\ job'[j].pc = "done"
       /\ busy' = busy \ {job[j].session}
       /\ UNCHANGED pool

LEMMA QuietMoves ==
    ASSUME Undisturbed, PoolInv, QuietInv, NEW j \in Jobs, Act(j)
    PROVE  QuietStep(j) /\ UNCHANGED <<status, cooling>>
<1> USE DEF PoolInv
<1>0. /\ ~May("flood") /\ ~May("fail") /\ ~May("unauthorized") /\ ~May("raise") /\ ~May("cancel")
      /\ DeadProxy = {}
    BY DEF Undisturbed, May
<1>1. job[j].pc \in QuietPcs
    BY DEF QuietInv, QuietPlaces
<1>2. Holding(j) => job[j].session \in Sessions
    BY DEF Held, Chosen
<1>3. {"done", "acquiring", "connecting", "jitter", "scraping", "releasing", "querying"} \subseteq Pcs
      /\ {"noSession", "keyError", "ok"} \subseteq Verdicts
    BY DEF Pcs, Verdicts
<1>4. CASE Enter(j)
    BY <1>3, <1>4, GoToMoves DEF Enter, QuietStep, db, conns
<1>5. CASE Query(j)
  <2>1. UNCHANGED <<status, cooling, busy, pool>>
      BY <1>5 DEF Query, db, conns
  <2>2. CASE Eligible = {}
      BY <1>3, <1>5, <2>1, <2>2, FinishMoves DEF Query, QuietStep
  <2>3. CASE Eligible # {}
    <3> DEFINE r == [job[j] EXCEPT !.pc = "choosing", !.rows = Eligible]
    <3>1. r.pc = "choosing" /\ r.rows = Sessions
        BY DEF TypeOK, JobStates, QuietInv, AllEligible
    <3>2. job' = [job EXCEPT ![j] = r]
        BY <1>5, <2>3 DEF Query, TypeOK, JobStates
    <3>3. job'[j].pc = "choosing" /\ job'[j].rows = Sessions
        BY <3>1, <3>2 DEF TypeOK
    <3> QED BY <1>5, <2>1, <3>3 DEF Query, QuietStep
  <2> QED BY <2>2, <2>3
<1>6. CASE Choose(j)
  <2>1. At(j, "choosing") /\ UNCHANGED <<status, cooling, pool>>
      BY <1>6 DEF Choose, db, conns
  <2>2. PICK s \in Choices(job[j].rows) :
            /\ busy' = busy \cup {s}
            /\ job' = [job EXCEPT ![j].pc = "proxy", ![j].session = s, ![j].rows = {}]
      BY <1>6 DEF Choose
  <2>3. s \in Choices(Sessions)
      BY <2>1, <2>2 DEF QuietInv, WholeSnapshot
  <2> DEFINE r == [job[j] EXCEPT !.pc = "proxy", !.session = s, !.rows = {}]
  <2>4. r.pc = "proxy" /\ r.session = s
      BY DEF TypeOK, JobStates
  <2>5. job' = [job EXCEPT ![j] = r]
      BY <2>2 DEF TypeOK, JobStates
  <2>6. job'[j].pc = "proxy" /\ job'[j].session = s
      BY <2>4, <2>5 DEF TypeOK
  <2> QED BY <2>1, <2>2, <2>3, <2>6 DEF QuietStep
<1>7. CASE CheckProxy(j)
  <2>1. GoTo(j, "acquiring") /\ At(j, "proxy")
      BY <1>0, <1>7 DEF CheckProxy
  <2> QED BY <1>3, <1>7, <2>1, GoToMoves DEF CheckProxy, QuietStep, Holding, At, QuietPcs, db, conns
<1>8. CASE Acquire(j)
  <2>1. At(j, "acquiring") /\ Holding(j) /\ UNCHANGED <<status, cooling, busy>>
      BY <1>8 DEF Acquire, Holding, At, db
  <2>2. CASE /\ pool[job[j].session] = "up" /\ GoTo(j, "jitter") /\ UNCHANGED <<pool, lock>>
      BY <1>3, <2>1, <2>2, GoToMoves DEF QuietStep, Holding, QuietPcs
  <2>3. CASE /\ pool' = [pool EXCEPT ![job[j].session] = "none"] /\ GoTo(j, "connecting")
    <3>1. \A s \in Sessions \ {job[j].session} : pool'[s] = pool[s]
        BY <2>3 DEF TypeOK
    <3> QED BY <1>3, <2>1, <2>3, <3>1, GoToMoves DEF QuietStep, Holding, QuietPcs
  <2> QED BY <1>8, <2>2, <2>3 DEF Acquire
<1>9. CASE Connected(j)
  <2>1. Holding(j) /\ UNCHANGED <<status, cooling, busy>> /\ GoTo(j, "jitter")
      BY <1>9 DEF Connected, Holding, At, db
  <2>2. /\ \A s \in Sessions \ {job[j].session} : pool'[s] = pool[s]
        /\ pool'[job[j].session] = "up"
      BY <1>2, <1>9, <2>1 DEF Connected, TypeOK
  <2> QED BY <1>3, <2>1, <2>2, GoToMoves DEF QuietStep, Holding, QuietPcs
<1>10. CASE Obtain(j)
  <2>1. At(j, "jitter") /\ UNCHANGED <<status, cooling, busy, pool>>
      BY <1>10 DEF Obtain, db, conns
  <2>2. GoTo(j, "scraping")
      BY <1>10, <2>1 DEF Obtain, QuietInv, PooledInJitter
  <2> QED BY <1>3, <2>1, <2>2, GoToMoves DEF QuietStep, Holding, At, QuietPcs
<1>11. CASE Scraped(j)
    BY <1>3, <1>11, GoToMoves DEF Scraped, QuietStep, Holding, At, QuietPcs, db, conns
<1>12. CASE Release(j)
    BY <1>3, <1>12, FinishMoves DEF Release, QuietStep, db, conns
<1>13. ~Unauthorized(j) /\ ~Flooded(j) /\ ~Failed(j) /\ ~Raise(j) /\ ~Cancel(j)
    BY <1>0 DEF Unauthorized, Flooded, Failed, Raise, Cancel
<1>14. ~DropFlooded(j) /\ ~ReadRow(j) /\ ~Count(j) /\ ~CommitRow(j)
    BY <1>1 DEF DropFlooded, ReadRow, Count, CommitRow, At, QuietPcs
<1> QED BY <1>4, <1>5, <1>6, <1>7, <1>8, <1>9, <1>10, <1>11, <1>12, <1>13, <1>14 DEF Act, Step

\* The count behind exclusive use: while a job chooses, the others inside the
\* semaphore are fewer than the sessions, so a free one is left and taken.
LEMMA ChosenIsFree ==
    ASSUME Undisturbed, PoolInv, QuietInv, NEW j \in Jobs, At(j, "choosing"),
           NEW s \in Choices(Sessions)
    PROVE  s \in Sessions \ busy
<1> DEFINE others == Inside \ {j}
<1> DEFINE User(t, i) == Holding(i) /\ job[i].session = t
<1>1. SUFFICES ASSUME Sessions \subseteq busy  PROVE FALSE
    BY DEF Choices
<1>2. /\ IsFiniteSet(others)
      /\ Cardinality(others) = Cardinality(Inside) - 1
      /\ Cardinality(Inside) \in Nat
    BY FS_RemoveElement, FS_CardinalityType DEF QuietInv, WithinPermits, Inside, At
<1>3. ASSUME NEW t \in Sessions  PROVE \E i \in others : User(t, i)
  <2>1. PICK i \in Jobs : job[i].session = t /\ (Holding(i) \/ At(i, "committing"))
      BY <1>1, <1>3 DEF QuietInv, BusyIsInUse
  <2>2. Holding(i)
      BY <2>1 DEF QuietInv, QuietPlaces, QuietPcs, At
  <2> QED BY <2>1, <2>2 DEF Inside, Holding, At
<1> DEFINE user == [t \in Sessions |-> CHOOSE i \in others : User(t, i)]
<1>4. \A t \in Sessions : user[t] \in others /\ User(t, user[t])
    BY <1>3
<1>5. user \in Injection(Sessions, others)
    BY <1>4 DEF Injection, IsInjective
<1>6. Cardinality(Sessions) <= Cardinality(others)
    BY <1>2, <1>5, FS_Injection
<1>7. Cardinality(Sessions) \in Nat /\ Permits \in Nat
    BY FS_CardinalityType, LimitsAssumption DEF Undisturbed
<1> QED BY <1>2, <1>6, <1>7 DEF Undisturbed, QuietInv, WithinPermits

\* One job's step.
LEMMA QuietJobStep ==
    ASSUME Undisturbed, PoolInv, QuietInv, NEW j \in Jobs, Act(j)
    PROVE  QuietInv'
<1> DEFINE s == job'[j].session
<1> USE DEF PoolInv
<1>1. QuietStep(j) /\ UNCHANGED <<status, cooling>>
    BY QuietMoves
<1>2. /\ job' \in [Jobs -> JobStates]
      /\ \A i \in Jobs \ {j} : job'[i] = job[i]
    BY JobMoves
<1>3. QuietPlaces'
    BY <1>1, <1>2 DEF QuietInv, QuietPlaces, QuietStep, QuietPcs
<1>4. AllEligible'
    BY <1>1 DEF QuietInv, AllEligible, Eligible
<1>5. WholeSnapshot'
    BY <1>1, <1>2 DEF QuietInv, WholeSnapshot, QuietStep, Holding, At
<1>6. WithinPermits'
  <2>1. CASE At(j, "entering") /\ job'[j].pc = "querying" /\ Cardinality(Inside) < Permits
    <3>1. Inside' = Inside \cup {j} /\ j \notin Inside
        BY <1>2, <2>1 DEF Inside, At
    <3>2. IsFiniteSet(Inside) /\ Cardinality(Inside) \in Nat /\ Permits \in Nat
        BY FS_CardinalityType, LimitsAssumption DEF QuietInv, WithinPermits
    <3>3. IsFiniteSet(Inside') /\ Cardinality(Inside') = Cardinality(Inside) + 1
        BY <3>1, <3>2, FS_AddElement
    <3> QED BY <2>1, <3>2, <3>3 DEF WithinPermits
  <2>2. CASE ~At(j, "entering")
    <3>1. Inside' \in SUBSET Inside
        BY <1>1, <1>2, <2>2 DEF Inside, QuietStep, At, Holding
    <3>2. IsFiniteSet(Inside) /\ Cardinality(Inside) <= Permits /\ Permits \in Nat
        BY LimitsAssumption DEF QuietInv, WithinPermits
    <3>3. /\ IsFiniteSet(Inside') /\ Cardinality(Inside') <= Cardinality(Inside)
          /\ Cardinality(Inside) \in Nat /\ Cardinality(Inside') \in Nat
        BY <3>1, <3>2, FS_Subset, FS_CardinalityType
    <3> QED BY <3>2, <3>3 DEF WithinPermits
  <2> QED BY <1>1, <2>1, <2>2 DEF QuietStep, At, Holding
<1>7. CASE \* the job takes a session
           At(j, "choosing") /\ job'[j].pc = "proxy" /\ s \in Choices(Sessions)
           /\ busy' = busy \cup {s} /\ UNCHANGED pool
  <2>1. s \in Sessions \ busy
      BY <1>7, ChosenIsFree
  <2>2. \A i \in Jobs \ {j} : Holding(i) => job[i].session # s
      BY <2>1 DEF QuietInv, HeldIsBusy
  <2>3. HeldIsBusy' /\ PooledInJitter'
      BY <1>2, <1>7 DEF QuietInv, HeldIsBusy, PooledInJitter, Holding, At
  <2>4. ExclusiveUse'
      BY <1>2, <2>2 DEF QuietInv, ExclusiveUse, Holding
  <2>5. BusyIsInUse'
    <3> SUFFICES ASSUME NEW t \in busy'
                 PROVE  \E i \in Jobs : job'[i].session = t /\ (Holding(i) \/ At(i, "committing"))'
        BY DEF BusyIsInUse
    <3>1. CASE t = s
        BY <1>7, <3>1 DEF Holding, At
    <3>2. CASE t \in busy
      <4>1. PICK i \in Jobs : job[i].session = t /\ (Holding(i) \/ At(i, "committing"))
          BY <3>2 DEF QuietInv, BusyIsInUse
      <4>2. i # j
          BY <1>7, <4>1 DEF Holding, At
      <4> QED BY <1>2, <4>1, <4>2 DEF Holding, At
    <3> QED BY <1>7, <3>1, <3>2
  <2> QED BY <1>3, <1>4, <1>5, <1>6, <2>3, <2>4, <2>5 DEF QuietInv
<1>8. CASE \* the job gives its session back
           At(j, "releasing") /\ job'[j].pc = "done" /\ busy' = busy \ {job[j].session}
           /\ UNCHANGED pool
  <2>1. \A i \in Jobs \ {j} : Holding(i) => job[i].session # job[j].session
      BY <1>8 DEF QuietInv, ExclusiveUse, Holding, At
  <2>2. HeldIsBusy' /\ PooledInJitter' /\ ExclusiveUse'
      BY <1>2, <1>8, <2>1 DEF QuietInv, HeldIsBusy, PooledInJitter, ExclusiveUse, Holding, At
  <2>3. BusyIsInUse'
    <3> SUFFICES ASSUME NEW t \in busy, t # job[j].session
                 PROVE  \E i \in Jobs : job'[i].session = t /\ (Holding(i) \/ At(i, "committing"))'
        BY <1>8 DEF BusyIsInUse
    <3>1. PICK i \in Jobs : job[i].session = t /\ (Holding(i) \/ At(i, "committing"))
        BY DEF QuietInv, BusyIsInUse
    <3> QED BY <1>2, <3>1 DEF Holding, At
  <2> QED BY <1>3, <1>4, <1>5, <1>6, <2>2, <2>3 DEF QuietInv
<1>9. CASE \* the job keeps what it has
           /\ UNCHANGED busy
           /\ Holding(j) <=> Holding(j)'
           /\ Holding(j) => job'[j].session = job[j].session
           /\ ~At(j, "committing")
           /\ \A t \in Sessions : (~Holding(j) \/ t # job[j].session) => pool'[t] = pool[t]
           /\ job'[j].pc = "jitter" => Holding(j) /\ pool'[job[j].session] # "none"
  <2>1. HeldIsBusy'
      BY <1>2, <1>9 DEF QuietInv, HeldIsBusy, Holding
  <2>2. ExclusiveUse'
      BY <1>2, <1>9 DEF QuietInv, ExclusiveUse, Holding
  <2>3. BusyIsInUse'
    <3> SUFFICES ASSUME NEW t \in busy
                 PROVE  \E i \in Jobs : job'[i].session = t /\ (Holding(i) \/ At(i, "committing"))'
        BY <1>9 DEF BusyIsInUse
    <3>1. PICK i \in Jobs : job[i].session = t /\ (Holding(i) \/ At(i, "committing"))
        BY DEF QuietInv, BusyIsInUse
    <3> QED BY <1>2, <1>9, <3>1 DEF Holding, At
  <2>4. PooledInJitter'
    <3> SUFFICES ASSUME NEW i \in Jobs, At(i, "jitter")'  PROVE pool'[job'[i].session] # "none"
        BY DEF PooledInJitter
    <3>1. CASE i = j
        BY <1>9, <3>1 DEF At
    <3>2. CASE i # j
      <4>1. job'[i] = job[i] /\ At(i, "jitter") /\ Holding(i)
          BY <1>2, <3>2 DEF At, Holding
      <4>2. job[i].session \in Sessions /\ (Holding(j) => job[i].session # job[j].session)
          BY <3>2, <4>1 DEF Held, Chosen, QuietInv, ExclusiveUse
      <4> QED BY <1>9, <4>1, <4>2 DEF QuietInv, PooledInJitter
    <3> QED BY <3>1, <3>2
  <2> QED BY <1>3, <1>4, <1>5, <1>6, <2>1, <2>2, <2>3, <2>4 DEF QuietInv
<1> QED
  <2>1. job[j].pc \in QuietPcs
      BY DEF QuietInv, QuietPlaces
  <2> QED BY <1>1, <1>7, <1>8, <1>9, <2>1 DEF QuietStep, Holding, At, QuietPcs

LEMMA QuietInvInit == Undisturbed /\ Init => QuietInv
<1> SUFFICES ASSUME Undisturbed, Init  PROVE QuietInv
    OBVIOUS
<1>1. Inside = {}
    BY DEF Init, Inside
<1>2. WithinPermits
    BY <1>1, FS_EmptySet, LimitsAssumption DEF WithinPermits
<1>3. QuietPlaces /\ AllEligible /\ WholeSnapshot
    BY DEF Init, QuietPlaces, QuietPcs, AllEligible, Eligible, WholeSnapshot, At
<1>4. HeldIsBusy /\ PooledInJitter /\ ExclusiveUse /\ BusyIsInUse
    BY DEF Init, HeldIsBusy, PooledInJitter, ExclusiveUse, BusyIsInUse, Holding, At
<1> QED BY <1>2, <1>3, <1>4 DEF QuietInv

LEMMA QuietInvInductive == Undisturbed /\ PoolInv /\ QuietInv /\ [Next]_vars => QuietInv'
<1> SUFFICES ASSUME Undisturbed, PoolInv, QuietInv, [Next]_vars  PROVE QuietInv'
    OBVIOUS
<1>1. ASSUME NEW j \in Jobs, Act(j)  PROVE QuietInv'
    BY <1>1, QuietJobStep
<1>2. ASSUME NEW s \in Sessions, CoolDown(s)  PROVE QuietInv'
    BY <1>2 DEF CoolDown, QuietInv, AllEligible, Eligible
<1>3. ASSUME UNCHANGED <<status, cooling, busy, job>>,
             \A j \in Jobs : At(j, "jitter") => pool'[job[j].session] # "none"
      PROVE  QuietInv'
  <2>1. QuietPlaces' /\ AllEligible' /\ WholeSnapshot' /\ PooledInJitter'
      BY <1>3 DEF QuietInv, QuietPlaces, AllEligible, Eligible, WholeSnapshot, PooledInJitter, At
  <2>2. WithinPermits' /\ HeldIsBusy' /\ ExclusiveUse' /\ BusyIsInUse'
      BY <1>3 DEF QuietInv, WithinPermits, Inside, HeldIsBusy, ExclusiveUse, BusyIsInUse, Holding, At
  <2> QED BY <2>1, <2>2 DEF QuietInv
<1>4. ASSUME NEW s \in Sessions, Disconnect(s)  PROVE QuietInv'
  <2>1. \A j \in Jobs : At(j, "jitter") => job[j].session \in Sessions /\ pool[job[j].session] # "none"
      BY DEF PoolInv, Held, Chosen, Holding, At, QuietInv, PooledInJitter
  <2> QED BY <1>3, <1>4, <2>1 DEF Disconnect, db, PoolInv, TypeOK
<1>5. CASE CloseAll
    BY <1>3, <1>5 DEF CloseAll, db, At
<1>6. CASE UNCHANGED vars
    BY <1>3, <1>6 DEF vars, QuietInv, PooledInJitter
<1> QED BY <1>1, <1>2, <1>4, <1>5, <1>6 DEF Next, Act

LEMMA QuietInvHolds == Undisturbed => (Spec => []QuietInv)
<1>1. SUFFICES ASSUME Undisturbed  PROVE Spec => []QuietInv
    OBVIOUS
<1> USE <1>1
<1>2. Init => QuietInv
    BY QuietInvInit
<1>3. PoolInv /\ QuietInv /\ [Next]_vars => QuietInv'
    BY QuietInvInductive
<1> QED BY <1>2, <1>3, PoolInvHolds, PTL DEF Spec

(* With as many sessions as permits, and nothing going wrong but clients   *)
(* losing their connection, no session ever serves two scrapes: get_session*)
(* skips busy sessions under its lock (session_pool.py:55-65), and the     *)
(* semaphore of scrape_platform keeps a free one in reserve for each job.  *)
THEOREM SessionsAreNotShared == Undisturbed => (Spec => []ExclusiveUse)
<1>1. QuietInv => ExclusiveUse  BY DEF QuietInv
<1> QED BY <1>1, QuietInvHolds, PTL

---------------------------------------------------------------------------
(* Sessions are given back. Sharing does no harm to this, and neither do   *)
(* flood waits: jobs that share a session lose its mark too early, never   *)
(* too late.                                                               *)

OnlyFloods == Adversity \subseteq {"disconnect", "flood"} /\ DeadProxy = {}

\* A job on its way to the client of its session.
Coming(j) == job[j].pc \in {"proxy", "acquiring", "connecting"}

NoneFails  == \A j \in Jobs : job[j].pc \notin {"reading", "counting", "committing"}

\* A busy session without a client will have one: so a job that finds the
\* client of its session gone does not leave it busy.
ClientIsComing ==
    \A s \in busy : pool[s] = "none" => \E j \in Jobs : job[j].session = s /\ Coming(j)

GivenBack == NoneFails /\ BusyIsInUse /\ ClientIsComing

\* The steps of a job that are left: it looks, chooses, keeps its session, finds
\* that its client is gone, or gives it back.
FloodStep(j) ==
    \/ ~Holding(j) /\ ~Holding(j)' /\ UNCHANGED <<busy, pool>>
    \/ /\ ~Holding(j) /\ job'[j].pc = "proxy"
       /\ busy' = busy \cup {job'[j].session}
       /\ UNCHANGED pool
    \/ /\ Holding(j) /\ Holding(j)'
       /\ job'[j].session = job[j].session
       /\ UNCHANGED busy
       /\ \A s \in Sessions \ {job[j].session} : pool'[s] = pool[s]
       /\ \/ pool'[job[j].session] # "none"
          \/ Coming(j)'
          \/ ~Coming(j) /\ UNCHANGED pool
    \/ At(j, "jitter") /\ pool[job[j].session] = "none" /\ UNCHANGED <<busy, pool>>
    \/ /\ Holding(j)
       /\ busy' = busy \ {job[j].session}
       /\ \A s \in Sessions \ {job[j].session} : pool'[s] = pool[s]

LEMMA FloodMoves ==
    ASSUME OnlyFloods, PoolInv, NoneFails, NEW j \in Jobs, Act(j)
    PROVE  FloodStep(j) /\ job'[j].pc \notin {"reading", "counting", "committing"}
<1> USE DEF PoolInv
<1>0. /\ ~May("fail") /\ ~May("unauthorized") /\ ~May("raise") /\ ~May("cancel")
      /\ DeadProxy = {}
    BY DEF OnlyFloods, May
<1>1. job[j].pc \notin {"reading", "counting", "committing"}
    BY DEF NoneFails
<1>2. Holding(j) => job[j].session \in Sessions
    BY DEF Held, Chosen
<1>3. {"done", "acquiring", "connecting", "jitter", "scraping", "releasing", "dropping",
       "querying"} \subseteq Pcs
      /\ {"noSession", "keyError", "ok"} \subseteq Verdicts
    BY DEF Pcs, Verdicts
<1>4. CASE Enter(j)
    BY <1>3, <1>4, GoToMoves DEF Enter, FloodStep, Holding, At, conns
<1>5. CASE Query(j)
  <2>1. UNCHANGED <<busy, pool>> /\ At(j, "querying")
      BY <1>5 DEF Query, conns
  <2>2. job'[j].pc \in {"choosing", "done"}
    <3>1. CASE Eligible = {}
        BY <1>3, <1>5, <3>1, FinishMoves DEF Query
    <3>2. CASE Eligible # {}
        BY <1>5, <3>2 DEF Query, TypeOK, JobStates
    <3> QED BY <3>1, <3>2
  <2> QED BY <2>1, <2>2 DEF FloodStep, Holding, At
<1>6. CASE Choose(j)
  <2>1. At(j, "choosing") /\ UNCHANGED pool
      BY <1>6 DEF Choose, conns
  <2>2. PICK s \in Choices(job[j].rows) :
            /\ busy' = busy \cup {s}
            /\ job' = [job EXCEPT ![j].pc = "proxy", ![j].session = s, ![j].rows = {}]
      BY <1>6 DEF Choose
  <2> DEFINE r == [job[j] EXCEPT !.pc = "proxy", !.session = s, !.rows = {}]
  <2>3. r.pc = "proxy" /\ r.session = s
      BY DEF TypeOK, JobStates
  <2>4. job' = [job EXCEPT ![j] = r]
      BY <2>2 DEF TypeOK, JobStates
  <2>5. job'[j].pc = "proxy" /\ job'[j].session = s
      BY <2>3, <2>4 DEF TypeOK
  <2> QED BY <2>1, <2>2, <2>5 DEF FloodStep, Holding, At
<1>7. CASE CheckProxy(j)
  <2>1. GoTo(j, "acquiring") /\ At(j, "proxy") /\ UNCHANGED <<busy, pool>>
      BY <1>0, <1>7 DEF CheckProxy, conns
  <2> QED BY <1>3, <2>1, GoToMoves DEF FloodStep, Holding, Coming, At
<1>8. CASE Acquire(j)
  <2>1. At(j, "acquiring") /\ Holding(j) /\ UNCHANGED busy
      BY <1>8 DEF Acquire, Holding, At
  <2>2. CASE pool[job[j].session] = "up" /\ GoTo(j, "jitter") /\ UNCHANGED <<pool, lock>>
      BY <1>3, <2>1, <2>2, GoToMoves DEF FloodStep, Holding
  <2>3. CASE /\ pool' = [pool EXCEPT ![job[j].session] = "none"] /\ GoTo(j, "connecting")
    <3>1. \A s \in Sessions \ {job[j].session} : pool'[s] = pool[s]
        BY <2>3 DEF TypeOK
    <3> QED BY <1>3, <2>1, <2>3, <3>1, GoToMoves DEF FloodStep, Holding, Coming
  <2> QED BY <1>8, <2>2, <2>3 DEF Acquire
<1>9. CASE Connected(j)
  <2>1. Holding(j) /\ UNCHANGED busy /\ GoTo(j, "jitter")
      BY <1>9 DEF Connected, Holding, At
  <2>2. /\ \A s \in Sessions \ {job[j].session} : pool'[s] = pool[s]
        /\ pool'[job[j].session] = "up"
      BY <1>2, <1>9, <2>1 DEF Connected, TypeOK
  <2> QED BY <1>3, <2>1, <2>2, GoToMoves DEF FloodStep, Holding
<1>10. CASE Obtain(j)
  <2>1. At(j, "jitter") /\ UNCHANGED <<busy, pool>>
      BY <1>10 DEF Obtain, conns
  <2>2. CASE pool[job[j].session] = "none" /\ Finish(j, "keyError")
      BY <1>3, <2>1, <2>2, FinishMoves DEF FloodStep
  <2>3. CASE pool[job[j].session] # "none" /\ GoTo(j, "scraping")
      BY <1>3, <2>1, <2>3, GoToMoves DEF FloodStep, Holding, At
  <2> QED BY <1>10, <2>2, <2>3 DEF Obtain
<1>11. CASE Scraped(j)
    BY <1>3, <1>11, GoToMoves DEF Scraped, FloodStep, Holding, Coming, At, conns
<1>12. CASE Release(j)
    BY <1>3, <1>12, FinishMoves DEF Release, FloodStep, Holding, At, conns
<1>13. CASE Flooded(j)
    BY <1>3, <1>13, GoToMoves DEF Flooded, FloodStep, Holding, Coming, At, conns
<1>14. CASE DropFlooded(j)
  <2>1. /\ Holding(j)
        /\ busy' = busy \ {job[j].session}
        /\ pool' = [pool EXCEPT ![job[j].session] = "none"]
      BY <1>14 DEF DropFlooded, Drop, Holding, At
  <2>2. \A s \in Sessions \ {job[j].session} : pool'[s] = pool[s]
      BY <2>1 DEF TypeOK
  <2> QED BY <1>14, <2>1, <2>2, NextAttemptMoves DEF DropFlooded, FloodStep
<1>15. ~Unauthorized(j) /\ ~Failed(j) /\ ~Raise(j) /\ ~Cancel(j)
    BY <1>0 DEF Unauthorized, Failed, Raise, Cancel
<1>16. ~ReadRow(j) /\ ~Count(j) /\ ~CommitRow(j)
    BY <1>1 DEF ReadRow, Count, CommitRow, At
<1> QED BY <1>4, <1>5, <1>6, <1>7, <1>8, <1>9, <1>10, <1>11, <1>12, <1>13, <1>14, <1>15, <1>16
        DEF Act, Step

\* One job's step.
LEMMA GivenBackJobStep ==
    ASSUME OnlyFloods, PoolInv, GivenBack, NEW j \in Jobs, Act(j)
    PROVE  GivenBack'
<1>1. FloodStep(j) /\ job'[j].pc \notin {"reading", "counting", "committing"}
    BY FloodMoves DEF GivenBack
<1>2. \A i \in Jobs \ {j} : job'[i] = job[i]
    BY JobMoves DEF PoolInv
<1>3. NoneFails'
    BY <1>1, <1>2 DEF GivenBack, NoneFails
<1>4. busy \subseteq Sessions /\ (Coming(j) => Holding(j))
    BY DEF PoolInv, TypeOK, Coming, Holding
<1> DEFINE User(s, i) == job[i].session = s /\ Holding(i)
           Bringer(s, i) == job[i].session = s /\ Coming(i)
<1>5. /\ \A s \in busy : \E i \in Jobs : User(s, i)
      /\ \A s \in busy : pool[s] = "none" => \E i \in Jobs : Bringer(s, i)
    BY DEF GivenBack, NoneFails, BusyIsInUse, ClientIsComing, At
<1>6. SUFFICES ASSUME NEW s \in busy'
               PROVE  /\ \E i \in Jobs : User(s, i)'
                      /\ pool'[s] = "none" => \E i \in Jobs : Bringer(s, i)'
    BY <1>3 DEF GivenBack, BusyIsInUse, ClientIsComing
<1>7. /\ \A i \in Jobs \ {j} : User(s, i) => User(s, i)'
      /\ \A i \in Jobs \ {j} : Bringer(s, i) => Bringer(s, i)'
      /\ \A i \in Jobs : Bringer(s, i)' => User(s, i)'
    BY <1>2 DEF Holding, Coming
<1>8. CASE ~Holding(j) /\ UNCHANGED <<busy, pool>>
    BY <1>4, <1>5, <1>7, <1>8
<1>9. CASE ~Holding(j) /\ job'[j].pc = "proxy" /\ busy' = busy \cup {job'[j].session}
           /\ UNCHANGED pool
  <2>1. CASE s = job'[j].session
    <3>1. Bringer(s, j)'
        BY <1>9, <2>1 DEF Coming
    <3> QED BY <1>7, <3>1
  <2>2. CASE s \in busy
      BY <1>4, <1>5, <1>7, <1>9, <2>2
  <2> QED BY <1>9, <2>1, <2>2
<1>10. CASE /\ Holding(j) /\ Holding(j)'
            /\ job'[j].session = job[j].session
            /\ UNCHANGED busy
            /\ \A t \in Sessions \ {job[j].session} : pool'[t] = pool[t]
            /\ \/ pool'[job[j].session] # "none"
               \/ Coming(j)'
               \/ ~Coming(j) /\ UNCHANGED pool
  <2>1. \E i \in Jobs : User(s, i)'
      BY <1>5, <1>7, <1>10
  <2>2. ASSUME pool'[s] = "none"  PROVE \E i \in Jobs : Bringer(s, i)'
    <3>1. CASE s # job[j].session
        BY <1>4, <1>5, <1>7, <1>10, <2>2, <3>1
    <3>2. CASE s = job[j].session /\ Coming(j)'
      <4>1. Bringer(s, j)'
          BY <1>10, <3>2
      <4> QED BY <4>1
    <3>3. CASE s = job[j].session /\ ~Coming(j) /\ UNCHANGED pool
        BY <1>5, <1>7, <1>10, <2>2, <3>3
    <3> QED BY <1>10, <2>2, <3>1, <3>2, <3>3
  <2> QED BY <2>1, <2>2
<1>11. CASE At(j, "jitter") /\ pool[job[j].session] = "none" /\ UNCHANGED <<busy, pool>>
  <2>1. ~Coming(j)
      BY <1>11 DEF Coming, At
  <2>2. CASE s = job[j].session
      BY <1>5, <1>7, <1>11, <2>1, <2>2
  <2>3. CASE s # job[j].session
      BY <1>5, <1>7, <1>11, <2>3
  <2> QED BY <2>2, <2>3
<1>12. CASE /\ Holding(j)
            /\ busy' = busy \ {job[j].session}
            /\ \A t \in Sessions \ {job[j].session} : pool'[t] = pool[t]
    BY <1>4, <1>5, <1>7, <1>12
<1> QED BY <1>1, <1>8, <1>9, <1>10, <1>11, <1>12 DEF FloodStep

LEMMA GivenBackInit == Init => GivenBack
BY DEF Init, GivenBack, NoneFails, BusyIsInUse, ClientIsComing

LEMMA GivenBackInductive == OnlyFloods /\ PoolInv /\ GivenBack /\ [Next]_vars => GivenBack'
<1> SUFFICES ASSUME OnlyFloods, PoolInv, GivenBack, [Next]_vars  PROVE GivenBack'
    OBVIOUS
<1>1. ASSUME NEW j \in Jobs, Act(j)  PROVE GivenBack'
    BY <1>1, GivenBackJobStep
<1>2. ASSUME UNCHANGED <<busy, job>>, \A s \in busy : pool'[s] = "none" => pool[s] = "none"
      PROVE  GivenBack'
    BY <1>2 DEF GivenBack, NoneFails, BusyIsInUse, ClientIsComing, Holding, Coming, At
<1>3. ASSUME NEW s \in Sessions, CoolDown(s)  PROVE GivenBack'
    BY <1>2, <1>3 DEF CoolDown, conns
<1>4. ASSUME NEW s \in Sessions, Disconnect(s)  PROVE GivenBack'
    BY <1>2, <1>4 DEF Disconnect, PoolInv, TypeOK
<1>5. CASE CloseAll
  <2>1. busy = {} /\ UNCHANGED <<busy, job>>
      BY <1>5 DEF CloseAll, GivenBack, BusyIsInUse, Holding, At
  <2> QED BY <1>2, <2>1
<1>6. CASE UNCHANGED vars
    BY <1>2, <1>6 DEF vars
<1> QED BY <1>1, <1>3, <1>4, <1>5, <1>6 DEF Next, Act

(* Where no scrape fails but by a flood wait, no session stays in _busy    *)
(* without a scrape that uses it, shared or not, whatever clients are      *)
(* dropped under the jobs (session_pool.py:35, 120, 125, 135).             *)
THEOREM BusySessionsAreHeld == OnlyFloods => (Spec => []BusyIsInUse)
<1>1. SUFFICES ASSUME OnlyFloods  PROVE Spec => []BusyIsInUse
    OBVIOUS
<1> USE <1>1
<1>2. Init => GivenBack
    BY GivenBackInit
<1>3. PoolInv /\ GivenBack /\ [Next]_vars => GivenBack'
    BY GivenBackInductive
<1>4. GivenBack => BusyIsInUse
    BY DEF GivenBack
<1> QED BY <1>2, <1>3, <1>4, PoolInvHolds, PTL DEF Spec

============================================================================
