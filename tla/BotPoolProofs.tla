--------------------------- MODULE BotPoolProofs ---------------------------
(***************************************************************************)
(* Theorems about BotPool, for any jobs, platforms and limits, and any     *)
(* finite set of bots.                                                     *)
(***************************************************************************)
EXTENDS BotPool, SequenceTheorems, FiniteSetTheorems, TLAPS

Entry == [bot : Bots, client : Clients]

\* No bot and no client is twice in the pool.
Distinct(s) ==
    \A i, k \in DOMAIN s : s[i].bot = s[k].bot \/ s[i].client = s[k].client => i = k

\* What a job that evicts has in its hands is not in the pool, and not what an
\* other job is about to close.
Evicting(j) == At(j, "evicting")
Apart ==
    \A j \in Jobs : Evicting(j) =>
        /\ job[j].client \in open
        /\ \A i \in DOMAIN pool : pool[i].client \notin {job[j].client, job[j].evictee}
        /\ \A k \in Jobs : Evicting(k) =>
              job[k].evictee # job[j].client /\ (k # j => job[k].client # job[j].client)

PoolInv ==
    /\ Distinct(pool)
    /\ \A i \in DOMAIN pool : pool[i].client \in open
    /\ Apart
    /\ \A i \in DOMAIN pool : pool[i].client <= created
    /\ \A j \in Jobs : job[j].client <= created /\ job[j].evictee <= created
    /\ PoolBounded

\* A bot that may post for a platform, looked up when there were `known` rows: it
\* is bound to it, or no active one was there.
Right(b, p, known) == BoundTo[b] = p \/ \A a \in BoundBots(p) : a \notin known

Posting(j) == job[j].pc \in {"found", "loading", "loaded", "evicting", "sending"}
Failing(j) == job[j].pc \in {"reading", "counting", "committing"}
Using(j)   == job[j].pc \in {"marking", "flushing"}

BotInv ==
    /\ \A p \in Platforms : kept[p] \subseteq rows
    /\ \A j \in Jobs : asked[j] \subseteq rows
    /\ \A p \in Platforms : cache[p] # NoBot => Right(cache[p], p, kept[p])
    /\ \A j \in Jobs :
          /\ Posting(j) => Right(job[j].bot, PlatformOf[j], asked[j])
          /\ At(j, "fallback") => \A a \in BoundBots(PlatformOf[j]) : a \notin asked[j]
          /\ Posting(j) \/ Failing(j) \/ Using(j) => job[j].bot \in Bots

\* A count, in the row or in a job's hands, is never more than the failures
\* committed.
FailInv ==
    /\ \A b \in Bots : fails[b] <= marks[b]
    /\ \A j \in Jobs : At(j, "counting") \/ At(j, "committing")
                       => job[j].seen <= marks[job[j].bot]
    /\ NoEarlyDeactivation

\* The batch belongs to the one job that flushes, or to the shutdown.
UseInv ==
    /\ \A j, k \in Jobs : At(j, "flushing") /\ At(k, "flushing") => j = k
    /\ shutdown = "no" /\ MarkLockFree => batch = {}
    /\ shutdown # "no" => pending = {} /\ \A j \in Jobs : At(j, "done")
    /\ UsesAreKept

IInv == TypeOK /\ PoolInv /\ BotInv /\ FailInv /\ UseInv

---------------------------------------------------------------------------
(* The operations on the pool.                                             *)

LEMMA RemoveAtIs ==
    ASSUME NEW S, NEW s \in Seq(S), NEW n \in DOMAIN s
    PROVE  /\ RemoveAt(s, n) \in Seq(S)
           /\ Len(RemoveAt(s, n)) = Len(s) - 1
           /\ \A i \in 1 .. (Len(s) - 1) :
                 RemoveAt(s, n)[i] = s[IF i < n THEN i ELSE i + 1]
<1> DEFINE a == SubSeq(s, 1, n - 1)
           b == SubSeq(s, n + 1, Len(s))
<1>1. n \in 1 .. Len(s) /\ Len(s) \in Nat
    OBVIOUS
<1>2. a \in Seq(S) /\ Len(a) = n - 1 /\ \A i \in 1 .. (n - 1) : a[i] = s[i]
    BY <1>1
<1>3. b \in Seq(S) /\ Len(b) = Len(s) - n /\ \A i \in 1 .. (Len(s) - n) : b[i] = s[n + i]
    BY <1>1
<1>4. RemoveAt(s, n) = a \o b
    BY DEF RemoveAt
<1> HIDE DEF a, b
<1>7. /\ a \o b \in Seq(S) /\ Len(a \o b) = Len(a) + Len(b)
      /\ \A i \in 1 .. (Len(a) + Len(b)) :
            (a \o b)[i] = IF i <= Len(a) THEN a[i] ELSE b[i - Len(a)]
    BY <1>2, <1>3, ConcatProperties
<1>8. Len(a) + Len(b) = Len(s) - 1
    BY <1>1, <1>2, <1>3
<1>5. a \o b \in Seq(S) /\ Len(a \o b) = Len(s) - 1
    BY <1>7, <1>8
<1>6. ASSUME NEW i \in 1 .. (Len(s) - 1)
      PROVE  (a \o b)[i] = s[IF i < n THEN i ELSE i + 1]
  <2>1. (a \o b)[i] = IF i <= Len(a) THEN a[i] ELSE b[i - Len(a)]
      BY <1>7, <1>8
  <2>2. CASE i < n
      BY <1>1, <1>2, <2>1, <2>2
  <2>3. CASE ~(i < n)
    <3>1. i - (n - 1) \in 1 .. (Len(s) - n) /\ n + (i - (n - 1)) = i + 1
        BY <1>1, <2>3
    <3>2. b[i - (n - 1)] = s[i + 1] /\ ~(i <= n - 1)
        BY <1>1, <1>3, <2>3, <3>1
    <3> QED BY <1>1, <1>2, <2>1, <2>3, <3>2
  <2> QED BY <2>2, <2>3
<1> QED BY <1>4, <1>5, <1>6 DEF a, b

\* Where a pooled bot is, and with which client.
LEMMA PooledIs ==
    ASSUME TypeOK, Distinct(pool), NEW b \in Bots, Pooled(b)
    PROVE  /\ IndexOf(b) \in DOMAIN pool
           /\ pool[IndexOf(b)] = [bot |-> b, client |-> ClientOf(b)]
           /\ ClientOf(b) \in Clients
           /\ \A i \in DOMAIN pool : pool[i].bot = b => i = IndexOf(b)
<1>1. PICK n \in DOMAIN pool : pool[n].bot = b
    BY DEF Pooled, Entries
<1>2. IndexOf(b) \in DOMAIN pool /\ pool[IndexOf(b)].bot = b
    BY <1>1 DEF IndexOf
<1>3. \A i \in DOMAIN pool : pool[i].bot = b => i = IndexOf(b)
    BY <1>2 DEF Distinct
<1> DEFINE e == CHOOSE x \in Entries : x.bot = b
<1>4. e \in Entries /\ e.bot = b
    BY <1>1 DEF Entries
<1>5. e = pool[IndexOf(b)]
    BY <1>3, <1>4 DEF Entries
<1>6. pool \in Seq(Entry)
    BY DEF TypeOK, Entry
<1>7. pool[IndexOf(b)] \in Entry
    BY <1>2, <1>6
<1> QED BY <1>2, <1>3, <1>5, <1>7 DEF ClientOf, Entry, Clients

\* What leaves the pool is one entry; the others stay.
LEMMA WithoutIs ==
    ASSUME TypeOK, Distinct(pool), NEW b \in Bots
    PROVE  /\ Without(b) \in Seq(Entry)
           /\ Distinct(Without(b))
           /\ Len(Without(b)) = IF Pooled(b) THEN Len(pool) - 1 ELSE Len(pool)
           /\ \A i \in DOMAIN Without(b) :
                 /\ Without(b)[i].bot # b
                 /\ \E k \in DOMAIN pool : Without(b)[i] = pool[k]
<1>1. CASE Pooled(b)
  <2> DEFINE n == IndexOf(b)
             w == RemoveAt(pool, n)
             at(i) == IF i < n THEN i ELSE i + 1
  <2>0. pool \in Seq(Entry) /\ DOMAIN pool = 1 .. Len(pool) /\ Len(pool) \in Nat
      BY DEF TypeOK, Entry
  <2>1. n \in DOMAIN pool
      BY <1>1, PooledIs
  <2>2. w \in Seq(Entry) /\ Len(w) = Len(pool) - 1
        /\ \A i \in 1 .. (Len(pool) - 1) : w[i] = pool[at(i)]
      BY <2>0, <2>1, RemoveAtIs
  <2>3. \A i \in DOMAIN w : at(i) \in DOMAIN pool /\ at(i) # n /\ w[i] = pool[at(i)]
      BY <2>0, <2>1, <2>2
  <2>4. \A i, k \in DOMAIN w : at(i) = at(k) => i = k
      BY <2>0, <2>1, <2>2
  <2>5. Distinct(w)
      BY <2>3, <2>4 DEF Distinct
  <2>6. \A i \in DOMAIN w : w[i].bot # b
      BY <1>1, <2>3, PooledIs
  <2> QED BY <1>1, <2>2, <2>3, <2>5, <2>6 DEF Without
<1>2. CASE ~Pooled(b)
    BY <1>2 DEF Without, Pooled, Entries, TypeOK, Entry
<1> QED BY <1>1, <1>2

LEMMA MoveToEndIs ==
    ASSUME TypeOK, Distinct(pool), NEW b \in Bots, Pooled(b)
    PROVE  /\ MoveToEnd(b) \in Seq(Entry)
           /\ Distinct(MoveToEnd(b))
           /\ Len(MoveToEnd(b)) = Len(pool)
           /\ \A i \in DOMAIN MoveToEnd(b) : \E k \in DOMAIN pool : MoveToEnd(b)[i] = pool[k]
<1> DEFINE w == Without(b)
           e == [bot |-> b, client |-> ClientOf(b)]
<1>1. /\ w \in Seq(Entry) /\ Distinct(w) /\ Len(w) = Len(pool) - 1
      /\ \A i \in DOMAIN w : w[i].bot # b /\ \E k \in DOMAIN pool : w[i] = pool[k]
    BY WithoutIs
<1>2. e \in Entry /\ IndexOf(b) \in DOMAIN pool /\ pool[IndexOf(b)] = e
    BY PooledIs DEF Entry
<1>3. \A i \in DOMAIN w : w[i].client # e.client
    BY <1>1, <1>2 DEF Distinct
<1>4. /\ Append(w, e) \in Seq(Entry) /\ Len(Append(w, e)) = Len(pool)
      /\ DOMAIN Append(w, e) = 1 .. (Len(w) + 1) /\ DOMAIN w = 1 .. Len(w) /\ Len(w) \in Nat
      /\ \A i \in 1 .. Len(w) : Append(w, e)[i] = w[i]
      /\ Append(w, e)[Len(w) + 1] = e
    BY <1>1, <1>2 DEF TypeOK
<1>5. Distinct(Append(w, e))
    BY <1>1, <1>3, <1>4 DEF Distinct
<1>6. \A i \in DOMAIN Append(w, e) : \E k \in DOMAIN pool : Append(w, e)[i] = pool[k]
    BY <1>1, <1>2, <1>4
<1> QED BY <1>4, <1>5, <1>6 DEF MoveToEnd

\* A client that is not in the pool may be put there.
LEMMA PutIs ==
    ASSUME TypeOK, Distinct(pool), NEW b \in Bots, NEW c \in Clients,
           \A i \in DOMAIN pool : pool[i].client # c
    PROVE  /\ Put(b, c) \in Seq(Entry)
           /\ Distinct(Put(b, c))
           /\ Len(Put(b, c)) <= Len(pool) + 1
           /\ \A i \in DOMAIN Put(b, c) :
                 Put(b, c)[i] = [bot |-> b, client |-> c] \/ \E k \in DOMAIN pool : Put(b, c)[i] = pool[k]
<1> DEFINE e == [bot |-> b, client |-> c]
<1>0. e \in Entry /\ pool \in Seq(Entry) /\ DOMAIN pool = 1 .. Len(pool) /\ Len(pool) \in Nat
    BY DEF Entry, TypeOK
<1>1. CASE Pooled(b)
  <2> DEFINE s == [i \in DOMAIN pool |-> IF pool[i].bot = b THEN e ELSE pool[i]]
  <2>1. Put(b, c) = s
      BY <1>1 DEF Put
  <2>2. s \in [1 .. Len(pool) -> Entry]
      BY <1>0
  <2>3. s \in Seq(Entry) /\ Len(s) = Len(pool) /\ DOMAIN s = DOMAIN pool
      BY <1>0, <2>2
  <2>4. Distinct(s)
      BY <2>3 DEF Distinct
  <2> QED BY <1>0, <2>1, <2>3, <2>4
<1>2. CASE ~Pooled(b)
  <2>1. \A i \in DOMAIN pool : pool[i].bot # b
      BY <1>2 DEF Pooled, Entries
  <2>2. Put(b, c) = Append(pool, e)
      BY <1>2 DEF Put
  <2>3. /\ Append(pool, e) \in Seq(Entry) /\ Len(Append(pool, e)) = Len(pool) + 1
        /\ DOMAIN Append(pool, e) = 1 .. (Len(pool) + 1)
        /\ \A i \in 1 .. Len(pool) : Append(pool, e)[i] = pool[i]
        /\ Append(pool, e)[Len(pool) + 1] = e
      BY <1>0
  <2>4. Distinct(Append(pool, e))
      BY <1>0, <2>1, <2>3 DEF Distinct
  <2> QED BY <1>0, <2>2, <2>3, <2>4
<1> QED BY <1>1, <1>2

---------------------------------------------------------------------------
(* What the ways to move a job on do to the jobs.                          *)

\* Job j alone moves.
Moves(j) == job' \in [Jobs -> JobStates] /\ \A i \in Jobs \ {j} : job'[i] = job[i]
Holds(j) == /\ job'[j].bot = job[j].bot
            /\ job'[j].client = job[j].client
            /\ job'[j].evictee = job[j].evictee

LEMMA GoToMoves ==
    ASSUME TypeOK, NEW j \in Jobs, NEW pc \in Pcs, GoTo(j, pc)
    PROVE  /\ Moves(j) /\ Holds(j)
           /\ job'[j].pc = pc
           /\ job'[j].seen = job[j].seen
           /\ job'[j].verdict = job[j].verdict
BY DEF TypeOK, JobStates, GoTo, Moves, Holds

LEMMA FinishMoves ==
    ASSUME TypeOK, NEW j \in Jobs, NEW verdict \in Verdicts, Finish(j, verdict)
    PROVE  /\ Moves(j) /\ Holds(j)
           /\ job'[j].pc = "done"
           /\ job'[j].verdict = verdict
<1> DEFINE r == [job[j] EXCEPT !.pc = "done", !.verdict = verdict]
<1>1. /\ r \in JobStates /\ r.pc = "done" /\ r.verdict = verdict
      /\ r.bot = job[j].bot /\ r.client = job[j].client /\ r.evictee = job[j].evictee
    BY DEF TypeOK, JobStates, Pcs
<1>2. job' = [job EXCEPT ![j] = r]
    BY DEF TypeOK, JobStates, Finish
<1> QED BY <1>1, <1>2 DEF TypeOK, Moves, Holds

LEMMA NextAttemptMoves ==
    ASSUME TypeOK, NEW j \in Jobs, NextAttempt(j)
    PROVE  /\ Moves(j) /\ Holds(j)
           /\ \/ job'[j].pc = "lookup" /\ job'[j].verdict = job[j].verdict
              \/ job'[j].pc = "done" /\ job'[j].verdict = "allFailed"
<1>1. CASE job[j].attempt < MaxRetries - 1
  <2> DEFINE r == [job[j] EXCEPT !.pc = "lookup", !.attempt = @ + 1]
  <2>1. job[j].attempt + 1 \in 0 .. (MaxRetries - 1)
      BY <1>1, LimitsAssumption DEF TypeOK, JobStates
  <2>2. /\ r \in JobStates /\ r.pc = "lookup" /\ r.verdict = job[j].verdict
        /\ r.bot = job[j].bot /\ r.client = job[j].client /\ r.evictee = job[j].evictee
      BY <2>1 DEF TypeOK, JobStates, Pcs
  <2>3. job' = [job EXCEPT ![j] = r]
      BY <1>1 DEF NextAttempt, TypeOK, JobStates
  <2> QED BY <2>2, <2>3 DEF TypeOK, Moves, Holds
<1>2. CASE ~(job[j].attempt < MaxRetries - 1)
    BY <1>2, FinishMoves DEF NextAttempt, Verdicts
<1> QED BY <1>1, <1>2

LEMMA OneMoves ==
    ASSUME TypeOK, NEW j \in Jobs, NEW bots \in SUBSET Bots, NEW none, One(j, bots, none),
           bots # {}
    PROVE  /\ Moves(j)
           /\ job'[j].client = job[j].client /\ job'[j].evictee = job[j].evictee
           /\ \/ job'[j].pc = "found" /\ job'[j].bot \in bots /\ job'[j].verdict = job[j].verdict
              \/ job'[j].pc = "done" /\ job'[j].verdict = "ambiguous"
<1>1. CASE Cardinality(bots) = 1
  <2> DEFINE b == CHOOSE x \in bots : TRUE
             r == [job[j] EXCEPT !.pc = "found", !.bot = b]
  <2>1. b \in bots
      OBVIOUS
  <2>2. job' = [job EXCEPT ![j] = r]
      BY <1>1 DEF One, TypeOK, JobStates
  <2> HIDE DEF b
  <2>3. /\ r \in JobStates /\ r.pc = "found" /\ r.bot = b /\ r.verdict = job[j].verdict
        /\ r.client = job[j].client /\ r.evictee = job[j].evictee
      BY <2>1 DEF TypeOK, JobStates, Pcs
  <2> QED BY <2>1, <2>2, <2>3 DEF TypeOK, Moves
<1>2. CASE Cardinality(bots) # 1
    BY <1>2, FinishMoves DEF One, Verdicts, Holds
<1> QED BY <1>1, <1>2

\* The entries of the pool may be reordered and fewer, not others.
Shrinks == /\ pool' \in Seq(Entry)
           /\ Distinct(pool')
           /\ Len(pool') <= Len(pool)
           /\ \A i \in DOMAIN pool' : \E k \in DOMAIN pool : pool'[i] = pool[k]

LEMMA GetBotMoves ==
    ASSUME TypeOK, Distinct(pool), NEW j \in Jobs, NEW b \in Bots, GetBot(j, b)
    PROVE  /\ Moves(j) /\ Shrinks
           /\ job'[j].pc \in {"loading", "sending"}
           /\ job'[j].bot = b
           /\ job'[j].verdict = job[j].verdict
           /\ job'[j].evictee = job[j].evictee
           /\ \/ job'[j].client = job[j].client
              \/ \E k \in DOMAIN pool : job'[j].client = pool[k].client
<1>1. CASE Pooled(b)
  <2> DEFINE r == [job[j] EXCEPT !.pc = "sending", !.bot = b, !.client = ClientOf(b)]
  <2>1. /\ ClientOf(b) \in Clients
        /\ \E k \in DOMAIN pool : ClientOf(b) = pool[k].client
    <3>1. /\ IndexOf(b) \in DOMAIN pool /\ ClientOf(b) \in Clients
          /\ pool[IndexOf(b)] = [bot |-> b, client |-> ClientOf(b)]
        BY <1>1, PooledIs
    <3>2. pool[IndexOf(b)].client = ClientOf(b)
        BY <3>1
    <3> QED BY <3>1, <3>2
  <2>2. /\ r \in JobStates /\ r.pc = "sending" /\ r.bot = b /\ r.verdict = job[j].verdict
        /\ r.evictee = job[j].evictee /\ r.client = ClientOf(b)
      BY <2>1 DEF TypeOK, JobStates, Pcs
  <2>3. job' = [job EXCEPT ![j] = r]
      BY <1>1 DEF GetBot, TypeOK, JobStates
  <2>4. Shrinks
    <3>1. pool' = MoveToEnd(b)
        BY <1>1 DEF GetBot
    <3>2. /\ MoveToEnd(b) \in Seq(Entry)
          /\ Distinct(MoveToEnd(b))
          /\ Len(MoveToEnd(b)) = Len(pool)
          /\ \A i \in DOMAIN MoveToEnd(b) : \E k \in DOMAIN pool : MoveToEnd(b)[i] = pool[k]
        BY <1>1, MoveToEndIs
    <3>3. Len(pool) \in Nat
        BY DEF TypeOK
    <3> QED BY <3>1, <3>2, <3>3 DEF Shrinks
  <2> QED BY <2>1, <2>2, <2>3, <2>4 DEF TypeOK, Moves
<1>2. CASE ~Pooled(b)
  <2> DEFINE r == [job[j] EXCEPT !.pc = "loading", !.bot = b]
  <2>1. /\ r \in JobStates /\ r.pc = "loading" /\ r.bot = b /\ r.verdict = job[j].verdict
        /\ r.evictee = job[j].evictee /\ r.client = job[j].client
      BY DEF TypeOK, JobStates, Pcs
  <2>2. job' = [job EXCEPT ![j] = r] /\ pool' = pool
      BY <1>2 DEF GetBot, TypeOK, JobStates
  <2>3. Shrinks
      BY <2>2 DEF Shrinks, TypeOK, Entry
  <2> QED BY <2>1, <2>2, <2>3 DEF TypeOK, Moves
<1> QED BY <1>1, <1>2

LEMMA PutOrEvictMoves ==
    ASSUME TypeOK, NEW j \in Jobs, NEW c \in Clients, PutOrEvict(j, c), PoolBounded
    PROVE  /\ Moves(j)
           /\ job'[j].bot = job[j].bot /\ job'[j].client = c
           /\ job'[j].verdict = job[j].verdict
           /\ \/ /\ Len(pool) >= MaxSize /\ pool' = Tail(pool)
                 /\ job'[j].pc = "evicting" /\ job'[j].evictee = pool[1].client
              \/ /\ Len(pool) < MaxSize /\ pool' = Put(job[j].bot, c)
                 /\ job'[j].pc = "sending" /\ job'[j].evictee = 0
<1>0. Len(pool) \in Nat /\ MaxSize \in Nat \ {0}
    BY LimitsAssumption DEF TypeOK
<1>1. CASE Len(pool) >= MaxSize
  <2> DEFINE r == [job[j] EXCEPT !.pc = "evicting", !.client = c, !.evictee = pool[1].client]
  <2>0. pool \in Seq(Entry)
      BY DEF TypeOK, Entry
  <2>1. pool[1] \in Entry /\ Head(pool) = pool[1]
      BY <1>0, <1>1, <2>0
  <2>2. /\ r \in JobStates /\ r.pc = "evicting" /\ r.bot = job[j].bot
        /\ r.verdict = job[j].verdict /\ r.client = c /\ r.evictee = pool[1].client
      BY <2>1 DEF TypeOK, JobStates, Pcs, Entry
  <2>3. job' = [job EXCEPT ![j] = r] /\ pool' = Tail(pool)
      BY <1>1, <2>1 DEF PutOrEvict, TypeOK, JobStates
  <2> QED BY <1>1, <2>2, <2>3 DEF TypeOK, Moves
<1>2. CASE ~(Len(pool) >= MaxSize)
  <2> DEFINE r == [job[j] EXCEPT !.pc = "sending", !.client = c, !.evictee = 0]
  <2>1. /\ r \in JobStates /\ r.pc = "sending" /\ r.bot = job[j].bot
        /\ r.verdict = job[j].verdict /\ r.client = c /\ r.evictee = 0
      BY DEF TypeOK, JobStates, Pcs, Clients
  <2>2. job' = [job EXCEPT ![j] = r] /\ pool' = Put(job[j].bot, c)
      BY <1>2 DEF PutOrEvict, TypeOK, JobStates
  <2>3. Len(pool) < MaxSize
      BY <1>0, <1>2
  <2> QED BY <2>1, <2>2, <2>3 DEF TypeOK, Moves
<1> QED BY <1>1, <1>2

\* Jobs that are cut are done, and hold nothing.
LEMMA CutMoves ==
    ASSUME TypeOK, CutJobs
    PROVE  /\ job' \in [Jobs -> JobStates]
           /\ \A j \in Jobs : job'[j].pc = "done"
           /\ \A j \in Jobs : \/ job'[j].client = job[j].client /\ job'[j].evictee = job[j].evictee
                              \/ job'[j].client = 0 /\ job'[j].evictee = 0
<1> DEFINE r == Blank("done", "cut")
<1>0. 0 \in 0 .. (MaxRetries - 1) /\ "done" \in Pcs /\ "cut" \in Verdicts
    BY LimitsAssumption DEF Pcs, Verdicts
<1>1. r \in JobStates /\ r.pc = "done" /\ r.client = 0 /\ r.evictee = 0
    BY <1>0 DEF Blank, JobStates, Clients
<1>2. job' = [j \in Jobs |-> IF At(j, "done") THEN job[j] ELSE r]
    BY DEF CutJobs
<1> HIDE DEF r
<1>3. \A j \in Jobs : job'[j] = IF At(j, "done") THEN job[j] ELSE r
    BY <1>2
<1>4. job' \in [Jobs -> JobStates]
    BY <1>1, <1>2 DEF TypeOK
<1> QED BY <1>1, <1>3, <1>4 DEF At

---------------------------------------------------------------------------
(* Every step of a job moves that job alone, and along the code.           *)

\* Where the steps of a job may take it, with which bot.
Follows(j) ==
    /\ job'[j].pc # "done" => job'[j].verdict = job[j].verdict
    /\ job'[j].pc = "counting"   => /\ At(j, "reading")
                                    /\ job'[j].bot = job[j].bot /\ job'[j].seen = fails[job[j].bot]
    /\ job'[j].pc = "committing" => /\ At(j, "counting")
                                    /\ job'[j].bot = job[j].bot /\ job'[j].seen = job[j].seen
    /\ \/ job'[j].pc \in {"lookup", "querying", "done"}
       \/ job'[j].pc = "fallback" /\ BoundBots(PlatformOf[j]) = {}
       \/ /\ job'[j].pc = "found"
          /\ job'[j].bot \in ActiveBots
          /\ \/ BoundTo[job'[j].bot] = PlatformOf[j]
             \/ At(j, "fallback") /\ asked' = asked
       \/ /\ job'[j].pc \in {"loading", "sending"}
          /\ job'[j].bot = cache[PlatformOf[j]]
          /\ job'[j].bot # NoBot
          /\ asked'[j] = kept[PlatformOf[j]]
       \/ /\ job'[j].bot = job[j].bot
          /\ asked' = asked
          /\ \/ Posting(j) /\ job'[j].pc \in {"loading", "loaded", "evicting", "sending",
                                              "reading", "marking"}
             \/ Failing(j) /\ job'[j].pc \in {"counting", "committing"}
             \/ At(j, "marking") /\ job'[j].pc = "flushing"

\* Only the two steps that look a bot up say when.
LEMMA AskedIs ==
    ASSUME TypeOK, NEW j \in Jobs, Step(j)
    PROVE  /\ asked' \in [Jobs -> SUBSET Bots]
           /\ \A i \in Jobs \ {j} : asked'[i] = asked[i]
           /\ ~Lookup(j) /\ ~Query(j) => asked' = asked
           /\ asked'[j] \in {asked[j], kept[PlatformOf[j]], rows, {}}
           /\ rows' = rows
<1>1. CASE Lookup(j)
  <2>1. rows' = rows
      BY <1>1 DEF Lookup, db
  <2>2. \/ asked' = [asked EXCEPT ![j] = kept[PlatformOf[j]]]
        \/ asked' = [asked EXCEPT ![j] = {}]
      BY <1>1 DEF Lookup
  <2>3. kept[PlatformOf[j]] \in SUBSET Bots
      BY BindingsAssumption DEF TypeOK
  <2> QED BY <1>1, <2>1, <2>2, <2>3 DEF TypeOK
<1>2. CASE Query(j)
    BY <1>2 DEF Query, TypeOK, db
<1>3. CASE ~Lookup(j) /\ ~Query(j)
  <2>1. asked' = asked
      BY <1>3 DEF Step, Acquire, Fallback, Found, Load, Create, Evicted, Sent, Rejected,
                  RetryAfter, Forbidden, ReadRow, Count, CommitRow, MarkUsed, Flushed, choices
  <2>2. rows' = rows
      BY <1>3 DEF Step, Acquire, Fallback, Found, Load, Create, Evicted, Sent, Rejected,
                  RetryAfter, Forbidden, ReadRow, Count, CommitRow, MarkUsed, Flushed, db
  <2> QED BY <2>1, <2>2 DEF TypeOK
<1> QED BY <1>1, <1>2, <1>3

LEMMA JobMoves ==
    ASSUME TypeOK, PoolInv, BotInv, NEW j \in Jobs, Step(j)
    PROVE  Moves(j) /\ Follows(j)
<1> USE DEF PoolInv
<1>0. "done" \in Pcs /\ {"sent", "rejected", "limited", "noBot", "inactive"} \subseteq Verdicts
    BY DEF Pcs, Verdicts
<1>1. CASE Acquire(j)
    BY <1>0, <1>1, GoToMoves, FinishMoves DEF Acquire, Follows, Pcs
<1>2. CASE Lookup(j)
  <2> DEFINE p == PlatformOf[j]
  <2>1. CASE cache[p] # NoBot /\ GetBot(j, cache[p]) /\ asked' = [asked EXCEPT ![j] = kept[p]]
    <3>1. cache[p] \in Bots
        BY <2>1, BindingsAssumption DEF TypeOK
    <3> QED BY <1>2, <2>1, <3>1, GetBotMoves DEF Follows, TypeOK
  <2>2. CASE GoTo(j, "querying")
      BY <2>2, GoToMoves DEF Follows, Pcs
  <2> QED BY <1>2, <2>1, <2>2 DEF Lookup
<1>3. CASE Query(j)
  <2>1. CASE BoundBots(PlatformOf[j]) = {}
      BY <1>3, <2>1, GoToMoves DEF Query, One, Follows, Pcs
  <2>2. CASE BoundBots(PlatformOf[j]) # {}
    <3>1. BoundBots(PlatformOf[j]) \in SUBSET Bots
        BY DEF BoundBots, ActiveBots, TypeOK
    <3>2. /\ Moves(j)
          /\ \/ job'[j].pc = "found" /\ job'[j].bot \in BoundBots(PlatformOf[j])
                /\ job'[j].verdict = job[j].verdict
             \/ job'[j].pc = "done"
        BY <1>3, <2>2, <3>1, OneMoves DEF Query
    <3>3. \A b \in BoundBots(PlatformOf[j]) : b \in ActiveBots /\ BoundTo[b] = PlatformOf[j]
        BY DEF BoundBots
    <3>4. CASE job'[j].pc = "done"
        BY <3>2, <3>4 DEF Follows
    <3>5. CASE /\ job'[j].pc = "found" /\ job'[j].bot \in BoundBots(PlatformOf[j])
               /\ job'[j].verdict = job[j].verdict
        BY <3>2, <3>3, <3>5 DEF Follows
    <3> QED BY <3>2, <3>4, <3>5
  <2> QED BY <2>1, <2>2
<1>4. CASE Fallback(j)
  <2>1. CASE ActiveBots = {}
      BY <1>0, <1>4, <2>1, FinishMoves DEF Fallback, One, Follows
  <2>2. CASE ActiveBots # {}
    <3>1. ActiveBots \in SUBSET Bots
        BY DEF ActiveBots, TypeOK
    <3>2. /\ Moves(j)
          /\ \/ job'[j].pc = "found" /\ job'[j].bot \in ActiveBots
                /\ job'[j].verdict = job[j].verdict
             \/ job'[j].pc = "done"
        BY <1>4, <2>2, <3>1, OneMoves DEF Fallback
    <3> QED BY <1>4, <3>2 DEF Follows, Fallback, choices
  <2> QED BY <2>1, <2>2
<1>5. CASE Found(j)
  <2>1. Posting(j) /\ job[j].bot \in Bots
      BY <1>5 DEF Found, At, Posting, BotInv
  <2> QED BY <1>5, <2>1, GetBotMoves DEF Found, Follows
<1>6. CASE Load(j)
    BY <1>0, <1>6, GoToMoves, FinishMoves DEF choices, Load, Follows, Holds, Posting, At, Pcs
<1>7. CASE Create(j)
  <2>1. created + 1 \in Clients
      BY DEF TypeOK, Clients
  <2>2. /\ Moves(j) /\ job'[j].bot = job[j].bot /\ job'[j].verdict = job[j].verdict
        /\ job'[j].pc \in {"evicting", "sending"}
      BY <1>7, <2>1, PutOrEvictMoves DEF Create
  <2> QED BY <1>7, <2>2 DEF Create, choices, Follows, Posting, At
<1>8. CASE Evicted(j)
  <2>1. job[j].client \in Clients
      BY DEF TypeOK, JobStates
  <2>2. /\ Moves(j) /\ job'[j].bot = job[j].bot /\ job'[j].verdict = job[j].verdict
        /\ job'[j].pc \in {"evicting", "sending"}
      BY <1>8, <2>1, PutOrEvictMoves DEF Evicted
  <2> QED BY <1>8, <2>2 DEF Evicted, choices, Follows, Posting, At
<1>9. CASE Sent(j)
    BY <1>9, GoToMoves DEF Sent, choices, Follows, Holds, Posting, At, Pcs
<1>10. CASE Rejected(j)
    BY <1>0, <1>10, FinishMoves DEF Rejected, Follows
<1>11. CASE RetryAfter(j)
    BY <1>11, NextAttemptMoves DEF RetryAfter, Follows
<1>12. CASE Forbidden(j)
    BY <1>12, GoToMoves DEF Forbidden, Follows, Holds, Posting, At, Pcs
<1>13. CASE ReadRow(j)
  <2>1. fails[job[j].bot] \in Nat
      BY <1>13 DEF ReadRow, BotInv, Failing, At, TypeOK
  <2> DEFINE r == [job[j] EXCEPT !.pc = "counting", !.seen = fails[job[j].bot]]
  <2>2. /\ r \in JobStates /\ r.pc = "counting" /\ r.bot = job[j].bot
        /\ r.seen = fails[job[j].bot] /\ r.verdict = job[j].verdict
      BY <2>1 DEF TypeOK, JobStates, Pcs
  <2>3. job' = [job EXCEPT ![j] = r]
      BY <1>13 DEF ReadRow, TypeOK, JobStates
  <2>4. Moves(j) /\ job'[j] = r
      BY <2>2, <2>3 DEF TypeOK, Moves
  <2> QED BY <1>13, <2>2, <2>4 DEF ReadRow, choices, Follows, Failing, At
<1>14. CASE Count(j)
    BY <1>14, GoToMoves DEF Count, choices, Follows, Holds, Failing, At, Pcs
<1>15. CASE CommitRow(j)
    BY <1>15, NextAttemptMoves DEF CommitRow, Follows
<1>16. CASE MarkUsed(j)
    BY <1>0, <1>16, GoToMoves, FinishMoves DEF MarkUsed, choices, Follows, Holds, At, Pcs
<1>17. CASE Flushed(j)
    BY <1>0, <1>17, FinishMoves DEF Flushed, Follows
<1> QED
    BY <1>1, <1>2, <1>3, <1>4, <1>5, <1>6, <1>7, <1>8, <1>9, <1>10, <1>11, <1>12, <1>13,
       <1>14, <1>15, <1>16, <1>17 DEF Step

---------------------------------------------------------------------------
(* Types.                                                                  *)

LEMMA TypeStep ==
    ASSUME TypeOK, PoolInv, BotInv, Next
    PROVE  TypeOK'
<1> USE DEF PoolInv
<1> DEFINE Db    == rows' \subseteq Bots /\ active' \in [Bots -> BOOLEAN] /\ fails' \in [Bots -> Nat] /\ marks' \in [Bots -> Nat]
           Pool  == pool' \in Seq(Entry)
           Cache == /\ cache' \in [Platforms -> Bots \cup {NoBot}]
                    /\ kept' \in [Platforms -> SUBSET Bots] /\ asked' \in [Jobs -> SUBSET Bots]
           Open  == open' \in SUBSET Clients /\ created' \in Nat
           Usage == /\ pending' \subseteq Bots /\ batch' \subseteq Bots
                    /\ owed' \subseteq Bots /\ lost' \subseteq Bots
                    /\ shutdown' \in {"no", "flushing", "closed", "cut"}
<1>1. ASSUME Db, Pool, Cache, Open, Usage, job' \in [Jobs -> JobStates]
      PROVE  TypeOK'
    BY <1>1 DEF TypeOK, Entry
<1>2. /\ UNCHANGED db => Db
      /\ UNCHANGED pool => Pool
      /\ UNCHANGED choices => Cache
      /\ UNCHANGED <<open, created>> => Open
      /\ UNCHANGED usage => Usage
    BY DEF TypeOK, Entry, db, choices, usage
<1>3. WriteBatch => batch' = {} /\ owed' \subseteq Bots /\ lost' \subseteq Bots
    BY DEF WriteBatch, TypeOK
<1>4. CASE ShutdownFlush
    BY <1>1, <1>2, <1>4 DEF ShutdownFlush, TypeOK
<1>5. CASE CloseAll
  <2>1. Pool /\ Open
    <3>1. pool' = <<>> /\ created' = created
          /\ open' = open \ {e.client : e \in Entries}
        BY <1>5 DEF CloseAll
    <3>2. pool' \in Seq(Entry)
        BY <3>1
    <3>3. open' \subseteq open
        BY <3>1
    <3> QED BY <3>1, <3>2, <3>3 DEF TypeOK
  <2>2. Usage
      BY <1>3, <1>5 DEF CloseAll, TypeOK
  <2> QED BY <1>1, <1>2, <1>5, <2>1, <2>2 DEF CloseAll, TypeOK
<1>7. CASE \E b \in Bots : AddBot(b)
    BY <1>1, <1>2, <1>7 DEF AddBot, TypeOK
<1>8. CASE DrainTimeout
  <2>1. job' \in [Jobs -> JobStates]
      BY <1>8, CutMoves DEF DrainTimeout
  <2>2. Usage
      BY <1>3, <1>8 DEF DrainTimeout, TypeOK
  <2> QED BY <1>1, <1>2, <1>8, <2>1, <2>2 DEF DrainTimeout
<1>9. CASE MainReturns
  <2>1. job' \in [Jobs -> JobStates]
      BY <1>9, CutMoves DEF MainReturns
  <2>2. Usage
    <3>1. owed' \subseteq owed /\ lost' \subseteq lost \cup pending \cup batch
        BY <1>9 DEF MainReturns
    <3>2. pending' = {} /\ batch' = {} /\ shutdown' = "cut"
        BY <1>9 DEF MainReturns
    <3> QED BY <3>1, <3>2 DEF TypeOK
  <2>3. Pool /\ Open
    <3>1. pool' = <<>> /\ open' = {} /\ created' = created
        BY <1>9 DEF MainReturns
    <3> QED BY <3>1 DEF TypeOK
  <2>4. Cache
      BY <1>9 DEF MainReturns, TypeOK
  <2> QED BY <1>1, <1>2, <1>9, <2>1, <2>2, <2>3, <2>4 DEF MainReturns
<1>6. ASSUME NEW j \in Jobs, Step(j)
      PROVE  TypeOK'
  <2>0. job' \in [Jobs -> JobStates]
      BY <1>6, JobMoves DEF Moves
  <2>1. ASSUME Db, Pool, Cache, Open, Usage  PROVE TypeOK'
      BY <1>1, <2>0, <2>1
  <2>13. CASE Query(j)
    <3>1. Cache
        BY <1>6, <2>13, AskedIs DEF Query, TypeOK
    <3> QED BY <1>2, <2>1, <2>13, <3>1 DEF Query
  <2>2. CASE \/ Acquire(j) \/ Fallback(j) \/ Load(j) \/ Sent(j) \/ Rejected(j)
             \/ RetryAfter(j) \/ ReadRow(j)
      BY <1>2, <2>1, <2>2
         DEF Acquire, Fallback, Load, Sent, Rejected, RetryAfter, ReadRow
  <2>3. CASE Lookup(j)
    <3>1. cache[PlatformOf[j]] # NoBot => cache[PlatformOf[j]] \in Bots
        BY BindingsAssumption DEF TypeOK
    <3>2. Pool
        BY <1>2, <2>3, <3>1, GetBotMoves DEF Lookup, Shrinks
    <3>3. Cache
      <4>1. asked' \in [Jobs -> SUBSET Bots]
          BY <1>6, AskedIs
      <4>2. \/ cache' = cache /\ kept' = kept
            \/ /\ cache' = [cache EXCEPT ![PlatformOf[j]] = NoBot]
               /\ kept' = [kept EXCEPT ![PlatformOf[j]] = {}]
          BY <2>3 DEF Lookup
      <4> QED BY <4>1, <4>2 DEF TypeOK
    <3> QED BY <1>2, <2>1, <2>3, <3>2, <3>3 DEF Lookup
  <2>4. CASE Found(j)
    <3>1. job[j].bot \in Bots
        BY <2>4 DEF Found, At, Posting, BotInv
    <3>2. Pool
        BY <2>4, <3>1, GetBotMoves DEF Found, Shrinks
    <3>3. Cache
      <4>1. /\ cache' = [cache EXCEPT ![PlatformOf[j]] = job[j].bot]
            /\ kept' = [kept EXCEPT ![PlatformOf[j]] = asked[j]]
            /\ asked' = asked
          BY <2>4 DEF Found
      <4> QED BY <3>1, <4>1 DEF TypeOK
    <3> QED BY <1>2, <2>1, <2>4, <3>2, <3>3 DEF Found
  <2>5. ASSUME NEW c \in Clients, PutOrEvict(j, c), job[j].bot \in Bots,
               \A i \in DOMAIN pool : pool[i].client # c
        PROVE  Pool
    <3>1. pool \in Seq(Entry) /\ Len(pool) \in Nat /\ MaxSize \in Nat \ {0}
        BY LimitsAssumption DEF TypeOK, Entry
    <3>2. CASE Len(pool) >= MaxSize
      <4>1. pool' = Tail(pool) /\ pool # <<>>
          BY <2>5, <3>1, <3>2 DEF PutOrEvict
      <4> QED BY <3>1, <4>1
    <3>3. CASE ~(Len(pool) >= MaxSize)
        BY <2>5, <3>3, PutIs DEF PutOrEvict
    <3> QED BY <3>2, <3>3
  <2>6. CASE Create(j)
    <3>1. created \in Nat /\ created + 1 \in Clients /\ job[j].bot \in Bots
        BY <2>6 DEF TypeOK, Clients, Create, At, Posting, BotInv
    <3>2. \A i \in DOMAIN pool : pool[i].client # created + 1
      <4>1. \A i \in DOMAIN pool : pool[i].client \in Nat /\ pool[i].client <= created
          BY DEF TypeOK, Clients
      <4> QED BY <3>1, <4>1
    <3>3. Pool
        BY <2>5, <2>6, <3>1, <3>2 DEF Create
    <3>4. Open
        BY <2>6, <3>1 DEF Create, TypeOK, Clients
    <3> QED BY <1>2, <2>1, <2>6, <3>3, <3>4 DEF Create
  <2>7. CASE Evicted(j)
    <3>1. job[j].client \in Clients /\ job[j].bot \in Bots
        BY <2>7 DEF TypeOK, JobStates, Evicted, At, Posting, BotInv
    <3>2. \A i \in DOMAIN pool : pool[i].client # job[j].client
        BY <2>7 DEF Evicted, Evicting, Apart
    <3>3. Pool
        BY <2>5, <2>7, <3>1, <3>2 DEF Evicted
    <3>4. Open
        BY <2>7 DEF Evicted, TypeOK
    <3> QED BY <1>2, <2>1, <2>7, <3>3, <3>4 DEF Evicted
  <2>8. CASE Forbidden(j)
    <3>1. Cache
      <4>1. /\ cache' \in [Platforms -> Bots \cup {NoBot}]
            /\ kept' \in [Platforms -> SUBSET Bots]
          BY <2>8 DEF Forbidden, TypeOK
      <4> QED BY <2>8, <4>1 DEF Forbidden, TypeOK
    <3> QED BY <1>2, <2>1, <2>8, <3>1 DEF Forbidden
  <2>9. CASE Count(j)
    <3>1. job[j].bot \in Bots
        BY <2>9 DEF Count, At, Failing, BotInv
    <3>2. Pool
        BY <1>2, <2>9, <3>1, WithoutIs DEF Count
    <3> QED BY <1>2, <2>1, <2>9, <3>2 DEF Count
  <2>10. CASE CommitRow(j)
    <3>1. job[j].bot \in Bots /\ job[j].seen + 1 \in Nat
        BY <2>10 DEF CommitRow, At, Failing, BotInv, TypeOK, JobStates
    <3>2. active' \in [Bots -> BOOLEAN]
      <4>1. (active[job[j].bot] /\ ~AtLimit(j)) \in BOOLEAN
          OBVIOUS
      <4>2. active' = [active EXCEPT ![job[j].bot] = active[job[j].bot] /\ ~AtLimit(j)]
          BY <2>10 DEF CommitRow
      <4> QED BY <3>1, <4>1, <4>2 DEF TypeOK
    <3>3. fails' \in [Bots -> Nat] /\ marks' \in [Bots -> Nat]
        BY <2>10, <3>1 DEF CommitRow, TypeOK
    <3>4. rows' = rows
        BY <2>10 DEF CommitRow
    <3> QED BY <1>2, <2>1, <2>10, <3>2, <3>3, <3>4 DEF CommitRow, TypeOK
  <2>11. CASE MarkUsed(j)
    <3>1. job[j].bot \in Bots
        BY <2>11 DEF MarkUsed, At, Using, BotInv
    <3>2. Usage
        BY <2>11, <3>1 DEF MarkUsed, TypeOK
    <3> QED BY <1>2, <2>1, <2>11, <3>2 DEF MarkUsed
  <2>12. CASE Flushed(j)
    <3>1. Usage
        BY <1>3, <2>12 DEF Flushed, TypeOK
    <3> QED BY <1>2, <2>1, <2>12, <3>1 DEF Flushed
  <2> QED
      BY <1>6, <2>2, <2>3, <2>4, <2>6, <2>7, <2>8, <2>9, <2>10, <2>11, <2>12,
         <2>13 DEF Step
<1> QED BY <1>4, <1>5, <1>6, <1>7, <1>8, <1>9 DEF Next

---------------------------------------------------------------------------
(* The pool.                                                               *)

\* A step that opens and closes nothing and does not evict.
LEMMA ShrinkKeeps ==
    ASSUME TypeOK, TypeOK', PoolInv, NEW j \in Jobs, Moves(j), Shrinks,
           UNCHANGED <<open, created>>, job'[j].pc # "evicting",
           job'[j].client <= created, job'[j].evictee <= created
    PROVE  PoolInv'
<1>1. \A i \in DOMAIN pool' : \E k \in DOMAIN pool : pool'[i] = pool[k]
    BY DEF Shrinks
<1>2. Apart'
  <2> SUFFICES ASSUME NEW i \in Jobs, Evicting(i)'
               PROVE  /\ job'[i].client \in open'
                      /\ \A m \in DOMAIN pool' : pool'[m].client \notin {job'[i].client, job'[i].evictee}
                      /\ \A k \in Jobs : Evicting(k)' =>
                            job'[k].evictee # job'[i].client
                            /\ (k # i => job'[k].client # job'[i].client)
      BY DEF Apart
  <2>1. \A k \in Jobs : Evicting(k)' => k # j /\ job'[k] = job[k] /\ Evicting(k)
      BY DEF Moves, Evicting, At
  <2> QED BY <1>1, <2>1 DEF PoolInv, Apart
<1>3. \A i \in Jobs : job'[i].client <= created /\ job'[i].evictee <= created
    BY DEF Moves, PoolInv
<1>4. PoolBounded'
  <2>1. Len(pool) \in Nat /\ Len(pool') \in Nat /\ MaxSize \in Nat
      BY LimitsAssumption DEF TypeOK
  <2> QED BY <2>1 DEF Shrinks, PoolInv, PoolBounded
<1> QED BY <1>1, <1>2, <1>3, <1>4 DEF PoolInv, Shrinks

\* A round of the `while`, with a client that is nowhere else.
LEMMA PutOrEvictKeeps ==
    ASSUME TypeOK, TypeOK', NEW j \in Jobs, NEW c \in Clients, PutOrEvict(j, c),
           job[j].bot \in Bots, PoolBounded, Distinct(pool),
           c \in open', c <= created',
           \A i \in DOMAIN pool : pool[i].client \in open' /\ pool[i].client <= created'
                                  /\ pool[i].client # c,
           \A k \in Jobs : job[k].client <= created' /\ job[k].evictee <= created',
           \A k \in Jobs \ {j} : Evicting(k) =>
               /\ job[k].client \in open' /\ job[k].client # c /\ job[k].evictee # c
               /\ \A i \in DOMAIN pool : pool[i].client \notin {job[k].client, job[k].evictee}
               /\ \A l \in Jobs \ {j} : Evicting(l) =>
                     job[l].evictee # job[k].client /\ (l # k => job[l].client # job[k].client)
    PROVE  PoolInv'
<1>0. /\ pool \in Seq(Entry) /\ Len(pool) \in Nat /\ MaxSize \in Nat \ {0}
      /\ DOMAIN pool = 1 .. Len(pool)
    BY LimitsAssumption DEF TypeOK, Entry
<1>1. /\ Moves(j) /\ job'[j].client = c
      /\ \/ /\ Len(pool) >= MaxSize /\ pool' = Tail(pool)
            /\ job'[j].pc = "evicting" /\ job'[j].evictee = pool[1].client
         \/ /\ Len(pool) < MaxSize /\ pool' = Put(job[j].bot, c)
            /\ job'[j].pc = "sending" /\ job'[j].evictee = 0
    BY PutOrEvictMoves
<1>2. \A k \in Jobs \ {j} : job'[k] = job[k] /\ (Evicting(k)' <=> Evicting(k))
    BY <1>1 DEF Moves, Evicting, At
<1>3. CASE Len(pool) >= MaxSize
  <2>1. /\ pool' = Tail(pool) /\ pool # <<>>
        /\ job'[j].evictee = pool[1].client /\ job'[j].client = c
      BY <1>0, <1>1, <1>3
  <2>2. /\ Len(pool') = Len(pool) - 1 /\ DOMAIN pool' = 1 .. (Len(pool) - 1)
        /\ \A i \in DOMAIN pool' : pool'[i] = pool[i + 1]
      BY <1>0, <2>1
  <2>3. \A i \in DOMAIN pool' : i + 1 \in DOMAIN pool /\ i + 1 # 1 /\ pool'[i] = pool[i + 1]
      BY <1>0, <2>2
  <2>4. 1 \in DOMAIN pool
      BY <1>0, <1>3
  <2>5. Distinct(pool')
    <3>1. \A i, k \in DOMAIN pool' : i + 1 = k + 1 => i = k
        BY <1>0, <2>2
    <3> QED BY <2>3, <3>1 DEF Distinct
  <2>6. \A i \in DOMAIN pool' : pool'[i].client # pool[1].client
      BY <2>3, <2>4 DEF Distinct
  <2>7. Apart'
    <3>1. ASSUME NEW i \in Jobs, Evicting(i)'
          PROVE  /\ job'[i].client \in open'
                 /\ \A m \in DOMAIN pool' :
                       pool'[m].client \notin {job'[i].client, job'[i].evictee}
        BY <1>2, <2>1, <2>3, <2>6, <3>1
    <3>2. ASSUME NEW i \in Jobs, Evicting(i)', NEW k \in Jobs, Evicting(k)'
          PROVE  job'[k].evictee # job'[i].client /\ (k # i => job'[k].client # job'[i].client)
      <4>1. CASE i = j
          BY <1>2, <2>1, <2>4, <3>2, <4>1
      <4>2. CASE i # j /\ k = j
          BY <1>2, <2>1, <2>4, <3>2, <4>2
      <4>3. CASE i # j /\ k # j
          BY <1>2, <3>2, <4>3
      <4> QED BY <4>1, <4>2, <4>3
    <3> QED BY <3>1, <3>2 DEF Apart
  <2>8. \A k \in Jobs : job'[k].client <= created' /\ job'[k].evictee <= created'
      BY <1>2, <2>1, <2>4
  <2>9. PoolBounded'
      BY <1>0, <2>2 DEF PoolBounded
  <2>10. \A i \in DOMAIN pool' : pool'[i].client \in open' /\ pool'[i].client <= created'
      BY <2>3
  <2> QED BY <2>5, <2>7, <2>8, <2>9, <2>10 DEF PoolInv
<1>4. CASE Len(pool) < MaxSize
  <2> DEFINE e == [bot |-> job[j].bot, client |-> c]
  <2>1. /\ pool' = Put(job[j].bot, c) /\ job'[j].pc = "sending" /\ job'[j].evictee = 0
      BY <1>0, <1>1, <1>4
  <2>2. /\ Distinct(pool') /\ Len(pool') <= Len(pool) + 1
        /\ \A i \in DOMAIN pool' : pool'[i] = e \/ \E k \in DOMAIN pool : pool'[i] = pool[k]
      BY <2>1, PutIs
  <2>3. \A i \in DOMAIN pool' : pool'[i].client = c \/ \E k \in DOMAIN pool : pool'[i] = pool[k]
      BY <2>2
  <2>4. Apart'
    <3>1. \A k \in Jobs : Evicting(k)' => k # j /\ job'[k] = job[k] /\ Evicting(k)
        BY <1>2, <2>1 DEF Evicting, At
    <3>2. ASSUME NEW i \in Jobs, Evicting(i)'
          PROVE  /\ job'[i].client \in open'
                 /\ \A m \in DOMAIN pool' :
                       pool'[m].client \notin {job'[i].client, job'[i].evictee}
        BY <2>3, <3>1, <3>2
    <3>3. ASSUME NEW i \in Jobs, Evicting(i)', NEW k \in Jobs, Evicting(k)'
          PROVE  job'[k].evictee # job'[i].client /\ (k # i => job'[k].client # job'[i].client)
        BY <3>1, <3>3
    <3> QED BY <3>2, <3>3 DEF Apart
  <2>5. \A k \in Jobs : job'[k].client <= created' /\ job'[k].evictee <= created'
    <3>1. 0 <= created'
        BY DEF TypeOK
    <3> QED BY <1>1, <1>2, <2>1, <3>1
  <2>6. PoolBounded'
    <3>1. Len(pool') \in Nat
        BY DEF TypeOK
    <3> QED BY <1>0, <1>4, <2>2, <3>1 DEF PoolBounded
  <2>7. \A i \in DOMAIN pool' : pool'[i].client \in open' /\ pool'[i].client <= created'
      BY <2>3
  <2> QED BY <2>2, <2>4, <2>5, <2>6, <2>7 DEF PoolInv
<1> QED BY <1>0, <1>3, <1>4

\* A step keeps the entries of the pool bounded, distinct and of clients made.
LEMMA PoolStep ==
    ASSUME TypeOK, TypeOK', PoolInv, BotInv, UseInv, Next
    PROVE  PoolInv'
<1>0. /\ created \in Nat
      /\ \A i \in DOMAIN pool : pool[i].client \in Nat
      /\ \A k \in Jobs : job[k].client \in Nat /\ job[k].evictee \in Nat
  <2>1. pool \in Seq(Entry)
      BY DEF TypeOK, Entry
  <2>2. \A i \in DOMAIN pool : pool[i] \in Entry
      BY <2>1
  <2> QED BY <2>2 DEF TypeOK, JobStates, Clients, Entry
<1>1. CASE ShutdownFlush
  <2>1. UNCHANGED <<pool, open, created, job>>
      BY <1>1 DEF ShutdownFlush
  <2>2. Apart'
      BY <2>1 DEF PoolInv, Apart, Evicting, At
  <2> QED BY <2>1, <2>2 DEF PoolInv, Distinct, PoolBounded
<1>2. CASE CloseAll
  <2>1. \A k \in Jobs : ~Evicting(k)'
      BY <1>2 DEF CloseAll, UseInv, Evicting, At
  <2>2. pool' = <<>> /\ UNCHANGED <<job, created>>
      BY <1>2 DEF CloseAll
  <2>3. DOMAIN pool' = {} /\ Len(pool') = 0
      BY <2>2
  <2> QED
      BY <2>1, <2>2, <2>3, LimitsAssumption DEF PoolInv, Distinct, Apart, PoolBounded
<1>4. CASE \E b \in Bots : AddBot(b)
  <2>1. UNCHANGED <<pool, open, created, job>>
      BY <1>4 DEF AddBot
  <2>2. Apart'
      BY <2>1 DEF PoolInv, Apart, Evicting, At
  <2> QED BY <2>1, <2>2 DEF PoolInv, Distinct, PoolBounded
<1>5. CASE DrainTimeout \/ MainReturns
  <2>1. /\ \A k \in Jobs : ~Evicting(k)'
        /\ \A k \in Jobs : job'[k].client <= created /\ job'[k].evictee <= created
        /\ created' = created
    <3>1. CutJobs /\ created' = created
        BY <1>5 DEF DrainTimeout, MainReturns
    <3> QED BY <1>0, <3>1, CutMoves DEF PoolInv, Evicting, At
  <2>2. Apart'
      BY <2>1 DEF Apart
  <2>3. CASE pool' = pool /\ open' = open
      BY <2>1, <2>2, <2>3 DEF PoolInv, Distinct, PoolBounded
  <2>4. CASE pool' = <<>>
    <3>1. DOMAIN pool' = {} /\ Len(pool') = 0
        BY <2>4
    <3> QED BY <2>1, <2>2, <3>1, LimitsAssumption DEF PoolInv, Distinct, PoolBounded
  <2> QED BY <1>5, <2>3, <2>4 DEF DrainTimeout, MainReturns
<1>3. ASSUME NEW j \in Jobs, Step(j)
      PROVE  PoolInv'
  <2>0. /\ Moves(j) /\ Follows(j)
        /\ job[j].client <= created /\ job[j].evictee <= created
        /\ Distinct(pool)
      BY <1>3, JobMoves DEF PoolInv
  <2>1. ASSUME UNCHANGED <<pool, open, created>>, Holds(j), job'[j].pc # "evicting"
        PROVE  PoolInv'
    <3>1. Shrinks
        BY <2>0, <2>1 DEF Shrinks, TypeOK, Entry
    <3> QED BY <2>0, <2>1, <3>1, ShrinkKeeps DEF Holds
  <2>2. ASSUME NEW b \in Bots, GetBot(j, b), UNCHANGED <<open, created>>
        PROVE  PoolInv'
    <3>1. /\ Shrinks /\ job'[j].pc # "evicting" /\ job'[j].evictee = job[j].evictee
          /\ \/ job'[j].client = job[j].client
             \/ \E k \in DOMAIN pool : job'[j].client = pool[k].client
        BY <2>0, <2>2, GetBotMoves
    <3>2. job'[j].client <= created
        BY <2>0, <3>1 DEF PoolInv
    <3> QED BY <2>0, <2>2, <3>1, <3>2, ShrinkKeeps
  <2>3. CASE Acquire(j)
      BY <2>1, <2>3, GoToMoves, FinishMoves DEF Acquire, Pcs, Verdicts
  <2>4. CASE Lookup(j)
    <3>1. CASE cache[PlatformOf[j]] # NoBot /\ GetBot(j, cache[PlatformOf[j]])
      <4>1. cache[PlatformOf[j]] \in Bots
          BY <3>1, BindingsAssumption DEF TypeOK
      <4> QED BY <2>2, <2>4, <3>1, <4>1 DEF Lookup
    <3>2. CASE GoTo(j, "querying") /\ UNCHANGED pool
        BY <2>1, <2>4, <3>2, GoToMoves DEF Lookup, Pcs
    <3> QED BY <2>4, <3>1, <3>2 DEF Lookup
  <2>5. ASSUME NEW bots \in SUBSET Bots, NEW none, One(j, bots, none), bots # {},
               UNCHANGED <<pool, open, created>>
        PROVE  PoolInv'
    <3>1. /\ job'[j].client = job[j].client /\ job'[j].evictee = job[j].evictee
          /\ job'[j].pc # "evicting"
        BY <2>5, OneMoves
    <3>2. Shrinks
        BY <2>0, <2>5 DEF Shrinks, TypeOK, Entry
    <3> QED BY <2>0, <2>5, <3>1, <3>2, ShrinkKeeps
  <2>6. CASE Query(j)
    <3>1. CASE BoundBots(PlatformOf[j]) = {}
        BY <2>1, <2>6, <3>1, GoToMoves DEF Query, One, Pcs
    <3>2. CASE BoundBots(PlatformOf[j]) # {}
      <4>1. BoundBots(PlatformOf[j]) \in SUBSET Bots
          BY DEF BoundBots, ActiveBots, TypeOK
      <4> QED BY <2>5, <2>6, <3>2, <4>1 DEF Query
    <3> QED BY <3>1, <3>2
  <2>7. CASE Fallback(j)
    <3>1. CASE ActiveBots = {}
        BY <2>1, <2>7, <3>1, FinishMoves DEF Fallback, One, Verdicts
    <3>2. CASE ActiveBots # {}
      <4>1. ActiveBots \in SUBSET Bots
          BY DEF ActiveBots, TypeOK
      <4> QED BY <2>5, <2>7, <3>2, <4>1 DEF Fallback
    <3> QED BY <3>1, <3>2
  <2>8. CASE Found(j)
    <3>1. job[j].bot \in Bots
        BY <2>8 DEF Found, At, Posting, BotInv
    <3> QED BY <2>2, <2>8, <3>1 DEF Found
  <2>9. CASE Load(j)
      BY <2>1, <2>9, GoToMoves, FinishMoves DEF Load, Pcs, Verdicts
  <2>10. CASE Create(j)
    <3> DEFINE c == created + 1
    <3>1. c \in Clients /\ job[j].bot \in Bots
        BY <2>10 DEF TypeOK, Clients, Create, At, Posting, BotInv
    <3>2. created' = c /\ open' = open \cup {c} /\ PutOrEvict(j, c)
        BY <2>10 DEF Create
    <3>3. \A i \in DOMAIN pool : pool[i].client \in open' /\ pool[i].client <= created'
                                 /\ pool[i].client # c
      <4>1. \A i \in DOMAIN pool : pool[i].client \in open /\ pool[i].client <= created
          BY DEF PoolInv
      <4> QED BY <1>0, <3>2, <4>1
    <3>4. \A k \in Jobs : /\ job[k].client <= created' /\ job[k].client # c
                          /\ job[k].evictee <= created' /\ job[k].evictee # c
      <4>1. \A k \in Jobs : job[k].client <= created /\ job[k].evictee <= created
          BY DEF PoolInv
      <4> QED BY <1>0, <3>2, <4>1
    <3>5. c \in open' /\ c <= created' /\ PoolBounded
        BY <1>0, <3>2 DEF PoolInv
    <3>6. \A k \in Jobs \ {j} : Evicting(k) =>
               /\ job[k].client \in open' /\ job[k].client # c /\ job[k].evictee # c
               /\ \A i \in DOMAIN pool : pool[i].client \notin {job[k].client, job[k].evictee}
               /\ \A l \in Jobs \ {j} : Evicting(l) =>
                     job[l].evictee # job[k].client /\ (l # k => job[l].client # job[k].client)
        BY <3>2, <3>4 DEF PoolInv, Apart
    <3> HIDE DEF c
    <3> QED BY <2>0, <3>1, <3>2, <3>3, <3>4, <3>5, <3>6, PutOrEvictKeeps
  <2>11. CASE Evicted(j)
    <3> DEFINE c == job[j].client
    <3>1. c \in Clients /\ job[j].bot \in Bots /\ Evicting(j)
        BY <2>11 DEF TypeOK, JobStates, Evicted, Evicting, At, Posting, BotInv
    <3>2. created' = created /\ open' = open \ {job[j].evictee} /\ PutOrEvict(j, c)
        BY <2>11 DEF Evicted
    <3>3. \A i \in DOMAIN pool : pool[i].client \in open' /\ pool[i].client <= created'
                                 /\ pool[i].client # c
        BY <3>1, <3>2 DEF PoolInv, Apart
    <3>4. \A k \in Jobs : job[k].client <= created' /\ job[k].evictee <= created'
        BY <3>2 DEF PoolInv
    <3>5. c \in open' /\ c <= created' /\ PoolBounded
        BY <3>1, <3>2 DEF PoolInv, Apart
    <3>6. \A k \in Jobs \ {j} : Evicting(k) =>
               /\ job[k].client \in open' /\ job[k].client # c /\ job[k].evictee # c
               /\ \A i \in DOMAIN pool : pool[i].client \notin {job[k].client, job[k].evictee}
               /\ \A l \in Jobs \ {j} : Evicting(l) =>
                     job[l].evictee # job[k].client /\ (l # k => job[l].client # job[k].client)
        BY <3>1, <3>2 DEF PoolInv, Apart
    <3> HIDE DEF c
    <3> QED BY <2>0, <3>1, <3>2, <3>3, <3>4, <3>5, <3>6, PutOrEvictKeeps
  <2>12. CASE Sent(j)
      BY <2>1, <2>12, GoToMoves DEF Sent, Pcs
  <2>13. CASE Rejected(j)
      BY <2>1, <2>13, FinishMoves DEF Rejected, Verdicts
  <2>14. CASE RetryAfter(j)
      BY <2>1, <2>14, NextAttemptMoves DEF RetryAfter
  <2>15. CASE Forbidden(j)
      BY <2>1, <2>15, GoToMoves DEF Forbidden, Pcs
  <2>16. CASE ReadRow(j)
    <3>1. Holds(j) /\ job'[j].pc = "counting"
        BY <2>16 DEF ReadRow, Holds, TypeOK, JobStates
    <3> QED BY <2>1, <2>16, <3>1 DEF ReadRow
  <2>17. CASE Count(j)
    <3>1. job[j].bot \in Bots
        BY <2>17 DEF Count, At, Failing, BotInv
    <3>2. Holds(j) /\ job'[j].pc = "committing" /\ UNCHANGED <<open, created>>
        BY <2>17, GoToMoves DEF Count, Pcs
    <3>3. pool' = Without(job[j].bot) \/ pool' = pool
        BY <2>17 DEF Count
    <3>4. Shrinks
      <4>1. Len(pool) \in Nat
          BY DEF TypeOK
      <4>2. CASE pool' = pool
          BY <2>0, <4>1, <4>2 DEF Shrinks, TypeOK, Entry
      <4>3. CASE pool' = Without(job[j].bot)
          BY <2>0, <3>1, <4>1, <4>3, WithoutIs DEF Shrinks
      <4> QED BY <3>3, <4>2, <4>3
    <3> QED BY <2>0, <3>2, <3>4, ShrinkKeeps DEF Holds
  <2>18. CASE CommitRow(j)
      BY <2>1, <2>18, NextAttemptMoves DEF CommitRow
  <2>19. CASE MarkUsed(j)
      BY <2>1, <2>19, GoToMoves, FinishMoves DEF MarkUsed, Pcs, Verdicts
  <2>20. CASE Flushed(j)
      BY <2>1, <2>20, FinishMoves DEF Flushed, Verdicts
  <2> QED
      BY <1>3, <2>3, <2>4, <2>6, <2>7, <2>8, <2>9, <2>10, <2>11, <2>12, <2>13, <2>14, <2>15,
         <2>16, <2>17, <2>18, <2>19, <2>20 DEF Step
<1> QED BY <1>1, <1>2, <1>3, <1>4, <1>5 DEF Next

---------------------------------------------------------------------------
(* The bots in hand and in the cache.                                      *)

\* The job's steps add no row and activate none.
LEMMA ActiveShrinks ==
    ASSUME TypeOK, BotInv, NEW j \in Jobs, Step(j)
    PROVE  \A p \in Platforms : BoundBots(p)' \subseteq BoundBots(p)
<1>1. \A b \in Bots : active'[b] => active[b]
  <2>1. CASE CommitRow(j)
    <3>1. job[j].bot \in Bots
        BY <2>1 DEF CommitRow, At, Failing, BotInv
    <3> QED BY <2>1, <3>1 DEF CommitRow, TypeOK
  <2>2. CASE ~CommitRow(j)
      BY <2>2 DEF Step, Acquire, Lookup, Query, Fallback, Found, Load, Create, Evicted, Sent,
                  Rejected, RetryAfter, Forbidden, ReadRow, Count, MarkUsed, Flushed, db
  <2> QED BY <2>1, <2>2
<1>2. rows' = rows /\ rows \subseteq Bots
    BY AskedIs DEF TypeOK
<1> QED BY <1>1, <1>2 DEF BoundBots, ActiveBots

\* Cut jobs hold no bot, and no cache entry is made.
LEMMA BotCut ==
    ASSUME TypeOK, BotInv, CutJobs, UNCHANGED <<db, asked>>,
           \/ UNCHANGED <<cache, kept>>
           \/ /\ cache' = [p \in Platforms |-> NoBot]
              /\ kept' = [p \in Platforms |-> {}]
    PROVE  BotInv'
<1>1. \A i \in Jobs : ~Posting(i)' /\ ~Failing(i)' /\ ~Using(i)' /\ ~At(i, "fallback")'
    BY CutMoves DEF Posting, Failing, Using, At
<1>2. \A p \in Platforms : BoundBots(p)' = BoundBots(p)
    BY DEF BoundBots, ActiveBots, db
<1>3. \A p \in Platforms : kept'[p] \subseteq rows'
    BY DEF BotInv, db
<1>4. \A j \in Jobs : asked'[j] \subseteq rows'
    BY DEF BotInv, db
<1>5. \A p \in Platforms : cache'[p] # NoBot => Right(cache[p], p, kept[p])'
    BY <1>2 DEF BotInv, Right
<1> QED BY <1>1, <1>3, <1>4, <1>5 DEF BotInv

\* A row that is added was in no look-up so far.
LEMMA BotAdded ==
    ASSUME TypeOK, BotInv, NEW b \in Bots, AddBot(b)
    PROVE  BotInv'
<1>1. /\ b \notin rows /\ rows' = rows \cup {b}
      /\ UNCHANGED <<active, job, cache, kept, asked>>
    BY DEF AddBot, choices
<1>2. \A p \in Platforms : \A a \in BoundBots(p)' : a \in BoundBots(p) \/ a = b
    BY <1>1 DEF BoundBots, ActiveBots
<1>3. \A p \in Platforms, c \in Bots, known \in SUBSET rows :
          Right(c, p, known) => BoundTo[c] = p \/ \A a \in BoundBots(p)' : a \notin known
    BY <1>1, <1>2 DEF Right
<1>4. \A i \in Jobs : /\ PlatformOf[i] \in Platforms /\ asked[i] \in SUBSET rows
                      /\ (Posting(i)' <=> Posting(i)) /\ (Failing(i)' <=> Failing(i))
                      /\ (Using(i)' <=> Using(i)) /\ (At(i, "fallback")' <=> At(i, "fallback"))
    BY <1>1, BindingsAssumption DEF Posting, Failing, Using, At, BotInv
<1>5. \A p \in Platforms : cache'[p] # NoBot => Right(cache[p], p, kept[p])'
  <2> SUFFICES ASSUME NEW p \in Platforms, cache[p] # NoBot
               PROVE  BoundTo[cache[p]] = p \/ \A a \in BoundBots(p)' : a \notin kept[p]
      BY <1>1 DEF Right
  <2>1. cache[p] \in Bots /\ kept[p] \in SUBSET rows /\ Right(cache[p], p, kept[p])
      BY DEF TypeOK, BotInv
  <2> QED BY <1>3, <2>1
<1>6. ASSUME NEW i \in Jobs, Posting(i)
      PROVE  Right(job[i].bot, PlatformOf[i], asked[i])'
  <2>1. job[i].bot \in Bots /\ Right(job[i].bot, PlatformOf[i], asked[i])
      BY <1>6 DEF BotInv
  <2>2. BoundTo[job[i].bot] = PlatformOf[i] \/ \A a \in BoundBots(PlatformOf[i])' : a \notin asked[i]
      BY <1>3, <1>4, <2>1
  <2> QED BY <1>1, <2>2 DEF Right
<1>7. \A i \in Jobs : At(i, "fallback") => \A a \in BoundBots(PlatformOf[i])' : a \notin asked'[i]
    BY <1>1, <1>2, <1>4 DEF BotInv
<1>8. /\ \A p \in Platforms : kept'[p] \subseteq rows'
      /\ \A i \in Jobs : asked'[i] \subseteq rows'
      /\ \A i \in Jobs : Posting(i) \/ Failing(i) \/ Using(i) => job'[i].bot \in Bots
    BY <1>1 DEF BotInv
<1> QED BY <1>4, <1>5, <1>6, <1>7, <1>8 DEF BotInv

LEMMA BotStep ==
    ASSUME TypeOK, PoolInv, BotInv, Next
    PROVE  BotInv'
<1>1. CASE ShutdownFlush \/ CloseAll
  <2>1. UNCHANGED <<db, choices, job>>
      BY <1>1 DEF ShutdownFlush, CloseAll
  <2>2. \A q \in Platforms : BoundBots(q)' = BoundBots(q)
      BY <2>1 DEF db, BoundBots, ActiveBots
  <2>3. UNCHANGED <<job, cache, kept, asked, rows>>
      BY <2>1 DEF db, choices
  <2>4. \A i \in Jobs : PlatformOf[i] \in Platforms
      BY BindingsAssumption
  <2>5. \A q \in Platforms : cache'[q] # NoBot => Right(cache[q], q, kept[q])'
      BY <2>2, <2>3 DEF BotInv, Right
  <2>6. ASSUME NEW i \in Jobs
        PROVE  /\ Posting(i)' => Right(job[i].bot, PlatformOf[i], asked[i])'
               /\ At(i, "fallback")' => \A a \in BoundBots(PlatformOf[i])' : a \notin asked'[i]
               /\ Posting(i)' \/ Failing(i)' \/ Using(i)' => job'[i].bot \in Bots
    <3>1. /\ (Posting(i)' <=> Posting(i)) /\ (Failing(i)' <=> Failing(i))
          /\ (Using(i)' <=> Using(i)) /\ (At(i, "fallback")' <=> At(i, "fallback"))
        BY <2>3 DEF Posting, Failing, Using, At
    <3>2. Posting(i) => Right(job[i].bot, PlatformOf[i], asked[i])'
        BY <2>2, <2>3, <2>4 DEF BotInv, Right
    <3>3. At(i, "fallback") => \A a \in BoundBots(PlatformOf[i])' : a \notin asked'[i]
        BY <2>2, <2>3, <2>4 DEF BotInv
    <3> QED BY <2>3, <3>1, <3>2, <3>3 DEF BotInv
  <2>7. ASSUME NEW q \in Platforms  PROVE kept'[q] \subseteq rows'
      BY <2>3 DEF BotInv
  <2>8. ASSUME NEW i \in Jobs  PROVE asked'[i] \subseteq rows'
      BY <2>3 DEF BotInv
  <2> QED BY <2>5, <2>6, <2>7, <2>8 DEF BotInv
<1>3. CASE DrainTimeout \/ MainReturns
    BY <1>3, BotCut DEF DrainTimeout, MainReturns, choices
<1>4. CASE \E b \in Bots : AddBot(b)
    BY <1>4, BotAdded
<1>2. ASSUME NEW j \in Jobs, Step(j)
      PROVE  BotInv'
  <2> DEFINE p == PlatformOf[j]
  <2>0. /\ Moves(j) /\ Follows(j) /\ p \in Platforms
        /\ \A q \in Platforms : BoundBots(q)' \subseteq BoundBots(q)
        /\ \A i \in Jobs : PlatformOf[i] \in Platforms
      BY <1>2, JobMoves, ActiveShrinks, BindingsAssumption
  <2>1. cache[p] # NoBot => cache[p] \in Bots /\ Right(cache[p], p, kept[p])
      BY <2>0 DEF TypeOK, BotInv
  <2>a. /\ rows' = rows
        /\ \A i \in Jobs \ {j} : asked'[i] = asked[i]
        /\ asked'[j] \in {asked[j], kept[p], rows, {}}
        /\ ~Lookup(j) /\ ~Query(j) => asked' = asked
      BY <1>2, AskedIs
  <2>b. \A i \in Jobs : asked'[i] \subseteq rows'
      BY <2>0, <2>a DEF BotInv
  <2>3. Posting(j)' => job'[j].bot \in Bots /\ Right(job'[j].bot, p, asked'[j])
    <3> SUFFICES ASSUME Posting(j)'
                 PROVE  job'[j].bot \in Bots /\ Right(job'[j].bot, p, asked'[j])
        OBVIOUS
    <3>1. job'[j].pc \in {"found", "loading", "loaded", "evicting", "sending"}
        BY DEF Posting
    <3>2. CASE /\ job'[j].pc = "found"
               /\ job'[j].bot \in ActiveBots
               /\ \/ BoundTo[job'[j].bot] = p
                  \/ At(j, "fallback") /\ asked' = asked
      <4>1. job'[j].bot \in Bots
          BY <3>2 DEF ActiveBots, TypeOK
      <4> QED BY <3>2, <4>1 DEF BotInv, Right
    <3>3. CASE job'[j].bot = cache[p] /\ job'[j].bot # NoBot /\ asked'[j] = kept[p]
        BY <2>1, <3>3
    <3>4. CASE job'[j].bot = job[j].bot /\ Posting(j) /\ asked' = asked
        BY <3>4 DEF BotInv
    <3> QED BY <2>0, <3>1, <3>2, <3>3, <3>4 DEF Follows
  <2>4. Failing(j)' \/ Using(j)' => job'[j].bot \in Bots
    <3> SUFFICES ASSUME Failing(j)' \/ Using(j)'  PROVE job'[j].bot \in Bots
        OBVIOUS
    <3>1. job'[j].pc \in {"reading", "counting", "committing", "marking", "flushing"}
        BY DEF Failing, Using
    <3>2. /\ job'[j].bot = job[j].bot
          /\ Posting(j) \/ Failing(j) \/ Using(j)
        BY <2>0, <3>1 DEF Follows, Using, At
    <3> QED BY <3>2 DEF BotInv
  <2>5. At(j, "fallback")' => BoundBots(p) = {}
      BY <2>0 DEF Follows, At
  <2>6. ASSUME NEW i \in Jobs
        PROVE  /\ Posting(i)' => Right(job[i].bot, PlatformOf[i], asked[i])'
               /\ At(i, "fallback")' => \A a \in BoundBots(PlatformOf[i])' : a \notin asked'[i]
               /\ Posting(i)' \/ Failing(i)' \/ Using(i)' => job'[i].bot \in Bots
    <3>1. CASE i = j
      <4>2. Posting(j)' => Right(job[j].bot, p, asked[j])'
          BY <2>0, <2>3 DEF Right
      <4>3. At(j, "fallback")' => \A a \in BoundBots(p)' : a \notin asked'[j]
          BY <2>0, <2>5
      <4> QED BY <2>3, <2>4, <3>1, <4>2, <4>3
    <3>2. CASE i # j
      <4>1. /\ job'[i] = job[i] /\ asked'[i] = asked[i]
            /\ (Posting(i)' <=> Posting(i)) /\ (Failing(i)' <=> Failing(i))
            /\ (Using(i)' <=> Using(i)) /\ (At(i, "fallback")' <=> At(i, "fallback"))
          BY <2>0, <2>a, <3>2 DEF Moves, Posting, Failing, Using, At
      <4>2. Posting(i) => job[i].bot \in Bots /\ Right(job[i].bot, PlatformOf[i], asked[i])
          BY DEF BotInv
      <4>3. Posting(i) => Right(job[i].bot, PlatformOf[i], asked[i])'
          BY <2>0, <4>1, <4>2 DEF Right
      <4>4. At(i, "fallback")' => \A a \in BoundBots(PlatformOf[i])' : a \notin asked'[i]
          BY <2>0, <4>1 DEF BotInv
      <4> QED BY <4>1, <4>3, <4>4 DEF BotInv
    <3> QED BY <3>1, <3>2
  <2>7. ASSUME NEW q \in Platforms
        PROVE  /\ kept'[q] \subseteq rows'
               /\ cache'[q] # NoBot => Right(cache[q], q, kept[q])'
    <3>1. /\ kept'[q] \subseteq rows
          /\ cache'[q] # NoBot => Right(cache'[q], q, kept'[q])
      <4>1. CASE cache'[q] = cache[q] /\ kept'[q] = kept[q]
          BY <4>1 DEF BotInv
      <4>2. CASE cache'[q] = NoBot /\ kept'[q] = {}
          BY <4>2
      <4>3. CASE Lookup(j)
          BY <4>1, <4>2, <4>3 DEF Lookup, TypeOK
      <4>4. CASE Forbidden(j)
          BY <4>1, <4>2, <4>4 DEF Forbidden
      <4>5. CASE Found(j)
        <5>1. asked[j] \subseteq rows /\ Right(job[j].bot, p, asked[j])
            BY <4>5 DEF Found, At, Posting, BotInv
        <5>2. /\ cache' = [cache EXCEPT ![p] = job[j].bot]
              /\ kept' = [kept EXCEPT ![p] = asked[j]]
            BY <4>5 DEF Found
        <5>3. CASE q = p
          <6>1. cache'[q] = job[j].bot /\ kept'[q] = asked[j]
              BY <5>2, <5>3 DEF TypeOK
          <6> QED BY <5>1, <5>3, <6>1
        <5>4. CASE q # p
            BY <4>1, <5>2, <5>4 DEF TypeOK
        <5> QED BY <5>3, <5>4
      <4>6. CASE UNCHANGED <<cache, kept>>
          BY <4>1, <4>6
      <4> QED
          BY <1>2, <4>3, <4>4, <4>5, <4>6
             DEF Step, Acquire, Query, Fallback, Load, Create, Evicted, Sent, Rejected,
                 RetryAfter, ReadRow, Count, CommitRow, MarkUsed, Flushed, choices
    <3> QED BY <2>0, <2>a, <3>1 DEF Right
  <2> QED BY <2>b, <2>6, <2>7 DEF BotInv
<1> QED BY <1>1, <1>2, <1>3, <1>4 DEF Next

---------------------------------------------------------------------------
(* The counts of failures.                                                 *)

LEMMA FailStep ==
    ASSUME TypeOK, TypeOK', PoolInv, BotInv, FailInv, Next
    PROVE  FailInv'
<1>1. CASE ShutdownFlush \/ CloseAll
    BY <1>1 DEF ShutdownFlush, CloseAll, db, FailInv, NoEarlyDeactivation, At
<1>3. CASE \E b \in Bots : AddBot(b)
    BY <1>3 DEF AddBot, FailInv, NoEarlyDeactivation, At
<1>4. CASE DrainTimeout \/ MainReturns
  <2>1. \A i \in Jobs : ~At(i, "counting")' /\ ~At(i, "committing")'
      BY <1>4, CutMoves DEF DrainTimeout, MainReturns, At
  <2> QED BY <1>4, <2>1 DEF DrainTimeout, MainReturns, db, FailInv, NoEarlyDeactivation
<1>2. ASSUME NEW j \in Jobs, Step(j)
      PROVE  FailInv'
  <2>0. /\ Moves(j) /\ Follows(j)
        /\ FailLimit \in Nat
        /\ \A b \in Bots : marks[b] \in Nat /\ fails[b] \in Nat
        /\ \A i \in Jobs : job[i].seen \in Nat
        /\ \A i \in Jobs : At(i, "reading") \/ At(i, "counting") \/ At(i, "committing")
                           => job[i].bot \in Bots
      BY <1>2, JobMoves, LimitsAssumption DEF TypeOK, JobStates, BotInv, Failing, At
  <2>1. CASE UNCHANGED db
    <3>1. ASSUME NEW i \in Jobs, At(i, "counting")' \/ At(i, "committing")'
          PROVE  job'[i].seen <= marks'[job'[i].bot]
      <4>1. CASE i # j
          BY <2>0, <2>1, <3>1, <4>1 DEF Moves, At, FailInv, db
      <4>2. CASE i = j /\ At(i, "committing")'
          BY <2>0, <2>1, <4>2 DEF Follows, At, FailInv, db
      <4>3. CASE i = j /\ At(i, "counting")'
        <5>1. /\ job'[j].bot = job[j].bot /\ job'[j].seen = fails[job[j].bot]
              /\ job[j].bot \in Bots
            BY <2>0, <4>3 DEF Follows, At
        <5> QED BY <2>0, <2>1, <4>3, <5>1 DEF FailInv, db
      <4> QED BY <3>1, <4>1, <4>2, <4>3
    <3> QED BY <2>1, <3>1 DEF FailInv, NoEarlyDeactivation, db
  <2>2. CASE CommitRow(j)
    <3> DEFINE b == job[j].bot
    <3>1. /\ b \in Bots /\ job[j].seen <= marks[b]
          /\ fails' = [fails EXCEPT ![b] = job[j].seen + 1]
          /\ active' = [active EXCEPT ![b] = active[b] /\ ~AtLimit(j)]
          /\ marks' = [marks EXCEPT ![b] = marks[b] + 1]
        BY <2>0, <2>2 DEF CommitRow, FailInv
    <3>2. /\ fails'[b] = job[j].seen + 1 /\ marks'[b] = marks[b] + 1
          /\ (~active'[b] => ~active[b] \/ job[j].seen + 1 >= FailLimit)
          /\ \A a \in Bots \ {b} : fails'[a] = fails[a] /\ marks'[a] = marks[a]
                                   /\ active'[a] = active[a]
        BY <3>1 DEF TypeOK, AtLimit
    <3>3. \A a \in Bots : fails'[a] <= marks'[a] /\ marks[a] <= marks'[a]
        BY <2>0, <3>1, <3>2 DEF FailInv
    <3>4. NoEarlyDeactivation'
      <4> SUFFICES ASSUME NEW a \in Bots, ~active'[a]  PROVE marks'[a] >= FailLimit
          BY DEF NoEarlyDeactivation
      <4>1. CASE a = b
          BY <2>0, <3>1, <3>2, <4>1 DEF FailInv, NoEarlyDeactivation
      <4>2. CASE a # b
          BY <3>2, <4>2 DEF FailInv, NoEarlyDeactivation
      <4> QED BY <4>1, <4>2
    <3>5. ASSUME NEW i \in Jobs, At(i, "counting")' \/ At(i, "committing")'
          PROVE  job'[i].seen <= marks'[job'[i].bot]
      <4>1. i # j
          BY <2>2, <3>5, NextAttemptMoves DEF CommitRow, At
      <4>2. job'[i] = job[i] /\ (At(i, "counting") \/ At(i, "committing"))
          BY <2>0, <3>5, <4>1 DEF Moves, At
      <4>3. job[i].bot \in Bots /\ job[i].seen <= marks[job[i].bot]
          BY <2>0, <4>2 DEF FailInv
      <4>4. marks'[job[i].bot] \in Nat
          BY <4>3 DEF TypeOK
      <4> QED BY <2>0, <3>3, <4>2, <4>3, <4>4
    <3> QED BY <3>3, <3>4, <3>5 DEF FailInv
  <2> QED
      BY <1>2, <2>1, <2>2
         DEF Step, Acquire, Lookup, Query, Fallback, Found, Load, Create, Evicted, Sent,
             Rejected, RetryAfter, Forbidden, ReadRow, Count, MarkUsed, Flushed
<1> QED BY <1>1, <1>2, <1>3, <1>4 DEF Next

---------------------------------------------------------------------------
(* The bots noted as used.                                                 *)

\* A step that leaves `usage` and the lock alone.
LEMMA UseKeeps ==
    ASSUME UseInv, NEW j \in Jobs, Moves(j), UNCHANGED usage,
           ~At(j, "done"), ~At(j, "flushing"), job'[j].pc # "flushing"
    PROVE  UseInv'
<1>1. \A i \in Jobs : At(i, "flushing")' <=> At(i, "flushing")
    BY DEF Moves, At
<1>2. shutdown = "no" /\ shutdown' = "no"
    BY DEF UseInv, usage
<1>3. MarkLockFree' <=> MarkLockFree
    BY <1>1 DEF MarkLockFree
<1>4. UsesAreKept'
    BY DEF UseInv, UsesAreKept, usage
<1> QED BY <1>1, <1>2, <1>3, <1>4 DEF UseInv, usage

LEMMA UseStep ==
    ASSUME TypeOK, PoolInv, BotInv, UseInv, Next
    PROVE  UseInv'
<1>0. 0 < BatchSize /\ Cardinality({}) = 0
    BY LimitsAssumption, FS_EmptySet
<1>1. CASE ShutdownFlush
  <2>1. batch = {} /\ \A j \in Jobs : At(j, "done")
      BY <1>1 DEF ShutdownFlush, UseInv, MarkLockFree, At
  <2>2. /\ batch' = pending /\ pending' = {} /\ shutdown' = "flushing"
        /\ UNCHANGED <<job, owed, lost>>
      BY <1>1 DEF ShutdownFlush
  <2>3. UsesAreKept'
      BY <1>0, <2>1, <2>2 DEF UseInv, UsesAreKept
  <2> QED BY <2>1, <2>2, <2>3 DEF UseInv, At
<1>2. CASE CloseAll
  <2>1. pending = {} /\ \A j \in Jobs : At(j, "done")
      BY <1>2 DEF CloseAll, UseInv
  <2>2. /\ UNCHANGED <<job, pending>> /\ shutdown' = "closed" /\ batch' = {}
        /\ \/ owed' = owed \ batch /\ lost' = lost
           \/ lost' = lost \cup batch /\ owed' = owed
      BY <1>2 DEF CloseAll, WriteBatch
  <2>3. UsesAreKept'
      BY <2>1, <2>2 DEF UseInv, UsesAreKept
  <2> QED BY <2>1, <2>2, <2>3 DEF UseInv, At
<1>4. CASE \E b \in Bots : AddBot(b)
    BY <1>4 DEF AddBot, usage, UseInv, UsesAreKept, MarkLockFree, At
<1>5. CASE DrainTimeout
  <2>1. \A j \in Jobs : At(j, "done")'
      BY <1>5, CutMoves DEF DrainTimeout, At
  <2>2. /\ UNCHANGED <<pending, shutdown>> /\ shutdown = "no" /\ batch' = {}
        /\ \/ owed' = owed \ batch /\ lost' = lost
           \/ lost' = lost \cup batch /\ owed' = owed
      BY <1>5 DEF DrainTimeout, WriteBatch
  <2>3. UsesAreKept'
      BY <2>2 DEF UseInv, UsesAreKept
  <2> QED BY <2>1, <2>2, <2>3 DEF UseInv, At
<1>6. CASE MainReturns
  <2>1. \A j \in Jobs : At(j, "done")'
      BY <1>6, CutMoves DEF MainReturns, At
  <2>2. /\ shutdown' = "cut" /\ batch' = {} /\ pending' = {}
        /\ \/ owed' = owed \ batch /\ lost' = lost \cup pending
           \/ owed' = owed /\ lost' = lost \cup pending \cup batch
      BY <1>6 DEF MainReturns
  <2>3. UsesAreKept'
      BY <1>0, <2>2 DEF UseInv, UsesAreKept
  <2> QED BY <2>1, <2>2, <2>3 DEF UseInv, At
<1>3. ASSUME NEW j \in Jobs, Step(j)
      PROVE  UseInv'
  <2>0. /\ Moves(j) /\ Follows(j)
        /\ \A i \in Jobs : i # j => job'[i] = job[i]
      BY <1>3, JobMoves DEF Moves
  <2>1. ~At(j, "done") /\ shutdown = "no"
    <3>1. ~At(j, "done")
        BY <1>3 DEF Step, Acquire, Lookup, Query, Fallback, Found, Load, Create, Evicted, Sent,
                    Rejected, RetryAfter, Forbidden, ReadRow, Count, CommitRow, MarkUsed,
                    Flushed, At
    <3> QED BY <3>1 DEF UseInv
  <2>2. CASE MarkUsed(j)
    <3> DEFINE b == job[j].bot
               marked == pending \cup {b}
    <3>1. /\ At(j, "marking") /\ MarkLockFree /\ batch = {} /\ b \in Bots
          /\ owed' = owed \cup {b} /\ lost' = lost \ {b} /\ shutdown' = shutdown
        BY <2>1, <2>2 DEF MarkUsed, UseInv, BotInv, Using, At
    <3>0. owed' \subseteq marked \cup lost'
        BY <3>1 DEF UseInv, UsesAreKept
    <3>2. CASE BatchFull(marked)
      <4>1. /\ batch' = marked /\ pending' = {} /\ GoTo(j, "flushing")
          BY <2>2, <3>2 DEF MarkUsed
      <4>2. job'[j].pc = "flushing"
          BY <4>1, GoToMoves DEF Pcs
      <4>3. \A i \in Jobs : At(i, "flushing")' <=> i = j
          BY <2>0, <3>1, <4>2 DEF At, MarkLockFree
      <4>5. UsesAreKept'
          BY <1>0, <2>1, <3>0, <3>1, <4>1 DEF UsesAreKept
      <4>6. ~MarkLockFree'
          BY <4>3 DEF MarkLockFree
      <4> QED BY <2>1, <3>1, <4>3, <4>5, <4>6 DEF UseInv
    <3>3. CASE ~BatchFull(marked)
      <4>1. pending' = marked /\ batch' = batch /\ Finish(j, "sent")
          BY <2>2, <3>3 DEF MarkUsed
      <4>2. job'[j].pc = "done"
          BY <4>1, FinishMoves DEF Verdicts
      <4>3. Cardinality(marked) < BatchSize
        <5>1. IsFiniteSet(marked)
            BY <3>1, BotsAssumption, FS_Subset DEF TypeOK
        <5>2. Cardinality(marked) \in Nat /\ BatchSize \in Nat
            BY <5>1, FS_CardinalityType, LimitsAssumption
        <5> QED BY <3>3, <5>2 DEF BatchFull
      <4>4. \A i \in Jobs : ~At(i, "flushing")'
          BY <2>0, <3>1, <4>2 DEF At, MarkLockFree
      <4>6. UsesAreKept'
          BY <2>1, <3>0, <3>1, <4>1, <4>3 DEF UsesAreKept
      <4> QED BY <2>1, <3>1, <4>1, <4>4, <4>6 DEF UseInv
    <3> QED BY <3>2, <3>3
  <2>3. CASE Flushed(j)
    <3>1. /\ At(j, "flushing")
          /\ UNCHANGED <<pending, shutdown>> /\ batch' = {}
          /\ \/ owed' = owed \ batch /\ lost' = lost
             \/ lost' = lost \cup batch /\ owed' = owed
        BY <2>3 DEF Flushed, WriteBatch
    <3>2. job'[j].pc = "done"
        BY <2>3, FinishMoves DEF Flushed, Verdicts
    <3>3. \A i \in Jobs : ~At(i, "flushing")'
        BY <2>0, <3>1, <3>2 DEF At, UseInv
    <3>5. UsesAreKept'
        BY <2>1, <3>1 DEF UseInv, UsesAreKept
    <3> QED BY <2>1, <3>1, <3>3, <3>5 DEF UseInv
  <2>4. CASE ~MarkUsed(j) /\ ~Flushed(j)
    <3>1. UNCHANGED usage
        BY <1>3, <2>4 DEF Step, Acquire, Lookup, Query, Fallback, Found, Load, Create, Evicted,
                          Sent, Rejected, RetryAfter, Forbidden, ReadRow, Count, CommitRow
    <3>2. ~At(j, "flushing") /\ ~At(j, "marking")
        BY <1>3, <2>4 DEF Step, Acquire, Lookup, Query, Fallback, Found, Load, Create, Evicted,
                          Sent, Rejected, RetryAfter, Forbidden, ReadRow, Count, CommitRow, At
    <3>3. job'[j].pc # "flushing"
        BY <2>0, <3>2 DEF Follows
    <3> QED BY <2>0, <2>1, <3>1, <3>2, <3>3, UseKeeps
  <2> QED BY <2>2, <2>3, <2>4
<1> QED BY <1>1, <1>2, <1>3, <1>4, <1>5, <1>6 DEF Next

---------------------------------------------------------------------------

LEMMA InitInv == Init => IInv
<1> SUFFICES ASSUME Init  PROVE IInv
    OBVIOUS
<1>1. TypeOK
  <2>1. Blank("acquiring", "none") \in JobStates
      BY LimitsAssumption DEF Blank, JobStates, Pcs, Verdicts, Clients
  <2>2. rows \in SUBSET Bots /\ pending \in SUBSET Bots
      BY DEF Init
  <2> QED BY <2>1, <2>2 DEF Init, TypeOK, Clients
<1>2. \A j \in Jobs : job[j].pc = "acquiring" /\ job[j].verdict = "none"
                      /\ job[j].client = 0 /\ job[j].evictee = 0
    BY DEF Init, Blank
<1>3. PoolInv
  <2>1. DOMAIN pool = {} /\ Len(pool) = 0
      BY DEF Init
  <2> QED BY <1>2, <2>1, LimitsAssumption
         DEF Init, PoolInv, Distinct, Apart, Evicting, At, PoolBounded
<1>4. BotInv
    BY <1>2 DEF Init, BotInv, Posting, Failing, Using, At
<1>5. FailInv
    BY <1>2 DEF Init, FailInv, NoEarlyDeactivation, At
<1>6. UseInv
    BY <1>2 DEF Init, UseInv, UsesAreKept, At
<1> QED BY <1>1, <1>3, <1>4, <1>5, <1>6 DEF IInv

LEMMA StepInv == IInv /\ [Next]_vars => IInv'
<1> SUFFICES ASSUME IInv, [Next]_vars  PROVE IInv'
    OBVIOUS
<1>1. CASE Next
    BY <1>1, TypeStep, PoolStep, BotStep, FailStep, UseStep DEF IInv
<1>2. CASE UNCHANGED vars
    BY <1>2 DEF vars, db, choices, usage, IInv, TypeOK, PoolInv, Distinct, Apart, Evicting, At, PoolBounded,
                BotInv, Right, BoundBots, ActiveBots, Posting, Failing, Using, FailInv,
                NoEarlyDeactivation, UseInv, MarkLockFree, UsesAreKept
<1> QED BY <1>1, <1>2

LEMMA Inductive == Spec => []IInv
BY InitInv, StepInv, PTL DEF Spec

\* The types of every variable (bot_pool.py, posting/service.py).
THEOREM BotTypeCorrect == Spec => []TypeOK
<1>1. IInv => TypeOK
    BY DEF IInv
<1> QED BY <1>1, Inductive, PTL

\* The pool never holds more bots than BOT_POOL_MAX_SIZE, however many
\* insertions and evictions overlap (bot_pool.py:61-71).
THEOREM PoolStaysBounded == Spec => []PoolBounded
<1>1. IInv => PoolBounded
    BY DEF IInv, PoolInv
<1> QED BY <1>1, Inductive, PTL

\* No closed bot is in the pool, and none is there twice (bot_pool.py:36-71).
THEOREM PoolStaysUsable == Spec => []PoolIsUsable
<1>1. IInv => PoolIsUsable
    BY DEF IInv, PoolInv, PoolIsUsable, Distinct, Entries
<1> QED BY <1>1, Inductive, PTL

\* A bot of an other platform, or of none, posts only while every active bot of the
\* job's platform is newer than the look-up that chose it (bot_pool.py:73-111).
THEOREM RightBotPosts == Spec => []RightBot
<1>1. IInv => RightBot
    BY DEF IInv, BotInv, RightBot, Right, Posting, At
<1> QED BY <1>1, Inductive, PTL

\* No bot is deactivated before FailLimit of its failures are committed,
\* whatever counts are lost (bot_pool.py:113-132).
THEOREM DeactivatedAtLimit == Spec => []NoEarlyDeactivation
<1>1. IInv => NoEarlyDeactivation
    BY DEF IInv, FailInv
<1> QED BY <1>1, Inductive, PTL

\* A bot used since its last_used_at was written is pending or being written, or
\* that use was lost with a failed write or with the process; the batches stay
\* below their size (service.py:259-289).
THEOREM NoUseForgotten == Spec => []UsesAreKept
<1>1. IInv => UsesAreKept
    BY DEF IInv, UseInv
<1> QED BY <1>1, Inductive, PTL
===========================================================================
