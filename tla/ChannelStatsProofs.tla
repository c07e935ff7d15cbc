------------------------ MODULE ChannelStatsProofs ------------------------
(***************************************************************************)
(* Theorems about ChannelStats, for any channel, calendar and limits.      *)
(***************************************************************************)
EXTENDS ChannelStats, FiniteSums

Read      == {i \in Dated : i <= read}
ReadOn(d) == {i \in Read : channel[i].day = d}
ReadIn(w) == {i \in Read : WeekOf(channel[i].day) = w}

\* What the messages have to add to a counter, a day's bucket, and views.
CountColumn(f) == [i \in DOMAIN channel |-> CountOf(channel[i])[f]]
DayColumn(f)   == [i \in DOMAIN channel |-> DayOf(channel[i])[f]]
ViewColumn     == [i \in DOMAIN channel |-> channel[i].views]

\* The counters and buckets are sums over what has been read in this attempt.
TotalIsSum ==
    total = [f \in DOMAIN NoTotal |-> SumFunctionOnSet(CountColumn(f), Read)]

DailyIsSum ==
    daily = [d \in {channel[i].day : i \in Read} |->
                [f \in DOMAIN NoDaily |-> SumFunctionOnSet(DayColumn(f), ReadOn(d))]]

ViewsAreSum == Views(daily) = SumFunctionOnSet(ViewColumn, Read)

WeeklyIsSum ==
    \A w \in WeekKeys :
        SumFunctionOnSet(ViewColumn, ReadIn(w))
            = IF w \in DOMAIN weekly THEN weekly[w].views ELSE 0

FiniteBuckets ==
    IsFiniteSet(DOMAIN daily) /\ IsFiniteSet(DOMAIN weekly) /\ IsFiniteSet(DOMAIN monthly)

WalkInv ==
    /\ TypeOK
    /\ FiniteBuckets
    /\ TotalIsSum
    /\ DailyIsSum
    /\ ViewsAreSum
    /\ WeeklyIsSum
    /\ ReportIsOfChannel

---------------------------------------------------------------------------
(* Messages and buckets.                                                   *)

CountFields == DOMAIN NoTotal
DayFields   == DOMAIN NoDaily
ViewFields  == DOMAIN NoViews

\* Buckets of all kinds have views.
LEMMA FieldsAre == "views" \in DayFields /\ "views" \in ViewFields
BY DEF DayFields, ViewFields, NoDaily, NoViews

\* What a message has to add is a record of numbers, like what it is added to.
LEMMA CountOfMessage ==
    ASSUME NEW m \in Message
    PROVE  CountOf(m) \in [CountFields -> Nat]
BY DEF CountOf, CountFields, NoTotal, Message

LEMMA DayOfMessage ==
    ASSUME NEW m \in Message
    PROVE  DayOf(m) \in [DayFields -> Nat] /\ DayOf(m)["views"] = m.views /\ m.views \in Nat
BY DEF DayOf, DayFields, NoDaily, Message

LEMMA ViewsOfMessage ==
    ASSUME NEW v \in Nat
    PROVE  [views |-> v, count |-> 1] \in [ViewFields -> Nat]
BY DEF ViewFields, NoViews

LEMMA NothingIsZero ==
    /\ NoTotal \in [CountFields -> Nat] /\ \A f \in CountFields : NoTotal[f] = 0
    /\ NoDaily \in [DayFields -> Nat] /\ \A f \in DayFields : NoDaily[f] = 0
    /\ NoViews \in [ViewFields -> Nat] /\ NoViews.views = 0
BY DEF CountFields, DayFields, ViewFields, NoTotal, NoDaily, NoViews

\* Records are added field by field.
LEMMA PlusFields ==
    ASSUME NEW F, NEW a \in [F -> Nat], NEW b \in [F -> Nat]
    PROVE  /\ Plus(a, b) \in [F -> Nat]
           /\ \A f \in F : Plus(a, b)[f] = a[f] + b[f]
BY DEF Plus

\* The buckets to are those of f, but that of key, which is what it was, or zero,
\* with the new numbers added.
Grown(F, f, key, new, zero, to) ==
    /\ DOMAIN to = DOMAIN f \cup {key}
    /\ \A k \in DOMAIN to : to[k] \in [F -> Nat]
    /\ \A k \in DOMAIN f \ {key} : to[k] = f[k]
    /\ \A x \in F : to[key][x] = (IF key \in DOMAIN f THEN f[key][x] ELSE zero[x]) + new[x]

\* This is what the code does with a bucket, be it there or not.
LEMMA IntoGrows ==
    ASSUME NEW F, NEW f, \A k \in DOMAIN f : f[k] \in [F -> Nat], NEW key,
           NEW new \in [F -> Nat], NEW zero \in [F -> Nat]
    PROVE  Grown(F, f, key, new, zero, Into(f, key, new, zero))
<1> DEFINE old == IF key \in DOMAIN f THEN f[key] ELSE zero
           to == Into(f, key, new, zero)
<1>1. DOMAIN to = DOMAIN f \cup {key}
    BY DEF Into
<1>2. to[key] = Plus(old, new) /\ \A k \in DOMAIN f \ {key} : to[k] = f[k]
    BY DEF Into
<1>3. old \in [F -> Nat]
    OBVIOUS
<1>4. Plus(old, new) \in [F -> Nat] /\ \A x \in F : Plus(old, new)[x] = old[x] + new[x]
    BY <1>3, PlusFields
<1> HIDE DEF to
<1>5. Grown(F, f, key, new, zero, to)
    BY <1>1, <1>2, <1>4 DEF Grown
<1> QED BY <1>5 DEF to

---------------------------------------------------------------------------
(* The medians.                                                            *)

\* The value at a rank, between 0 and the number of buckets, is there.
LEMMA RankHasValue ==
    ASSUME NEW f, IsFiniteSet(DOMAIN f), \A k \in DOMAIN f : f[k].views \in Nat,
           NEW r \in Nat, r < Cardinality(DOMAIN f)
    PROVE  /\ AtRank(f, r) \in {f[k].views : k \in DOMAIN f}
           /\ Cardinality({k \in DOMAIN f : f[k].views < AtRank(f, r)}) <= r
           /\ Cardinality({k \in DOMAIN f : f[k].views <= AtRank(f, r)}) > r
<1> DEFINE D == DOMAIN f
           Values(K) == {f[k].views : k \in K}
           Below(v) == {k \in D : f[k].views < v}
           UpTo(v) == {k \in D : f[k].views <= v}
           High == {v \in Values(D) : Cardinality(UpTo(v)) > r}
<1>1. ASSUME NEW K \in SUBSET D
      PROVE  IsFiniteSet(K) /\ Cardinality(K) \in Nat /\ IsFiniteSet(Values(K)) /\ Values(K) \subseteq Nat
  <2>1. IsFiniteSet(K) /\ Cardinality(K) \in Nat
      BY FS_Subset, FS_CardinalityType
  <2>2. [k \in K |-> f[k].views] \in Surjection(K, Values(K))
      BY DEF Surjection
  <2>3. IsFiniteSet(Values(K))
      BY <2>1, <2>2, FS_Surjection
  <2> QED BY <2>1, <2>3
<1>2. ASSUME NEW K \in SUBSET D, Cardinality(K) > r
      PROVE  \E v \in Values(K) : K \subseteq UpTo(v)
  <2>1. K # {}
      BY <1>2, FS_EmptySet
  <2>2. Values(K) # {}
      BY <2>1
  <2>3. PICK v \in Values(K) : \A w \in Values(K) : w <= v
      BY <1>1, <2>2, GreatestNumber
  <2> QED BY <2>3
<1>3. High # {}
  <2>1. PICK v \in Values(D) : D \subseteq UpTo(v)
      BY <1>2
  <2>2. UpTo(v) = D
      BY <2>1
  <2> QED BY <2>2
<1>4. High \subseteq Nat
    BY <1>1
<1>5. PICK v \in High : \A w \in High : v <= w
    BY <1>3, <1>4, LeastNumber
<1>6. Cardinality(Below(v)) <= r
  <2> SUFFICES ASSUME ~(Cardinality(Below(v)) <= r) PROVE FALSE
      OBVIOUS
  <2>1. Below(v) \in SUBSET D /\ Cardinality(Below(v)) \in Nat /\ Cardinality(Below(v)) > r
    <3>1. Below(v) \in SUBSET D
        OBVIOUS
    <3>2. Cardinality(Below(v)) \in Nat
        BY <1>1, <3>1
    <3> QED BY <3>1, <3>2
  <2>2. PICK w \in Values(Below(v)) : Below(v) \subseteq UpTo(w)
      BY <1>2, <2>1
  <2>3. w \in Values(D) /\ w < v
      BY <2>2
  <2>4. Cardinality(Below(v)) <= Cardinality(UpTo(w)) /\ Cardinality(UpTo(w)) \in Nat
    <3>1. IsFiniteSet(UpTo(w)) /\ Cardinality(UpTo(w)) \in Nat
        BY <1>1
    <3> QED BY <2>2, <3>1, FS_Subset
  <2>5. Cardinality(UpTo(w)) > r
      BY <2>1, <2>4
  <2>6. w \in High
      BY <2>3, <2>5
  <2> QED BY <1>4, <1>5, <2>3, <2>6
<1>7. \E x \in Values(D) : Cardinality(Below(x)) <= r /\ Cardinality(UpTo(x)) > r
    BY <1>5, <1>6
<1> QED BY <1>7 DEF AtRank

\* The median: no more than half of the buckets are below it, nor above it.
LEMMA MedianSplits ==
    ASSUME NEW f, IsFiniteSet(DOMAIN f), \A k \in DOMAIN f : f[k].views \in Nat
    PROVE  Splits(Median(f), f)
<1> DEFINE n == Cardinality(DOMAIN f)
           Below(v) == {k \in DOMAIN f : f[k].views < v}
           UpTo(v) == {k \in DOMAIN f : f[k].views <= v}
           Above(v) == {k \in DOMAIN f : f[k].views > v}
<1>1. \A K \in SUBSET DOMAIN f : IsFiniteSet(K) /\ Cardinality(K) \in Nat /\ Cardinality(K) <= n
    BY FS_Subset, FS_CardinalityType
<1>2. n \in Nat
    BY FS_CardinalityType
<1>3. CASE n = 0
  <2>1. \A K \in SUBSET DOMAIN f : Cardinality(K) = 0
      BY <1>1, <1>3
  <2> QED BY <1>3, <2>1 DEF Splits
<1>4. CASE n # 0
  <2> DEFINE lo == AtRank(f, (n - 1) \div 2)
             hi == AtRank(f, n \div 2)
             m == (lo + hi) \div 2
  <2>1. /\ (n - 1) \div 2 \in Nat /\ (n - 1) \div 2 < n
        /\ n \div 2 \in Nat /\ n \div 2 < n
        /\ 2 * (n \div 2) <= n /\ 2 * ((n - 1) \div 2) >= n - 2
        /\ (n - 1) \div 2 <= n \div 2
      BY <1>2, <1>4
  <2>2. /\ lo \in Nat /\ Cardinality(Below(lo)) <= (n - 1) \div 2
        /\ Cardinality(UpTo(lo)) > (n - 1) \div 2
      BY <2>1, RankHasValue
  <2>3. /\ hi \in Nat /\ Cardinality(Below(hi)) <= n \div 2 /\ Cardinality(UpTo(hi)) > n \div 2
      BY <2>1, RankHasValue
  <2>4. Median(f) = m
      BY <1>4 DEF Median
  <2> HIDE DEF lo, hi, n
  <2>5. lo <= hi
    <3> SUFFICES ASSUME hi < lo PROVE FALSE
        BY <2>2, <2>3
    <3>1. UpTo(hi) \in SUBSET Below(lo)
        BY <2>2, <2>3
    <3>2. Cardinality(UpTo(hi)) <= Cardinality(Below(lo))
        BY <1>1, <3>1, FS_Subset
    <3> QED BY <1>1, <2>1, <2>2, <2>3, <3>2
  <2>6. m \in Nat /\ lo <= m /\ m <= hi
      BY <2>2, <2>3, <2>5
  <2> HIDE DEF m
  <2>7. 2 * Cardinality(Below(m)) <= n
    <3>1. Below(m) \in SUBSET Below(hi)
        BY <2>3, <2>6
    <3>2. Cardinality(Below(m)) <= Cardinality(Below(hi)) /\ Cardinality(Below(m)) \in Nat
          /\ Cardinality(Below(hi)) \in Nat
        BY <1>1, <3>1, FS_Subset
    <3> QED BY <1>2, <2>1, <2>3, <3>2
  <2>8. 2 * Cardinality(Above(m)) <= n
    <3>1. Above(m) \in SUBSET (DOMAIN f \ UpTo(lo))
        BY <2>2, <2>6
    <3>2. /\ IsFiniteSet(DOMAIN f \ UpTo(lo)) /\ Cardinality(UpTo(lo)) \in Nat
          /\ Cardinality(DOMAIN f \ UpTo(lo)) = n - Cardinality(UpTo(lo))
      <4>1. DOMAIN f \cap UpTo(lo) = UpTo(lo) /\ UpTo(lo) \in SUBSET DOMAIN f
          OBVIOUS
      <4>2. /\ IsFiniteSet(DOMAIN f \ UpTo(lo))
            /\ Cardinality(DOMAIN f \ UpTo(lo)) = n - Cardinality(DOMAIN f \cap UpTo(lo))
          BY FS_Difference DEF n
      <4> QED BY <1>1, <4>1, <4>2
    <3>3. Cardinality(Above(m)) <= Cardinality(DOMAIN f \ UpTo(lo)) /\ Cardinality(Above(m)) \in Nat
        BY <1>1, <3>1, <3>2, FS_Subset
    <3> QED BY <1>2, <2>1, <2>2, <3>2, <3>3
  <2> QED BY <2>4, <2>7, <2>8 DEF Splits, n
<1> QED BY <1>3, <1>4

\* The views of the buckets grow with those that are added to one of them.
LEMMA ViewsGrow ==
    ASSUME NEW F, "views" \in F, NEW f, IsFiniteSet(DOMAIN f), \A k \in DOMAIN f : f[k] \in [F -> Nat],
           NEW key, NEW new \in [F -> Nat], NEW zero \in [F -> Nat], zero.views = 0
    PROVE  Views(Into(f, key, new, zero)) = Views(f) + new.views
<1> DEFINE to == Into(f, key, new, zero)
           D == DOMAIN f
           Old == [k \in D |-> f[k].views]
           New == [k \in DOMAIN to |-> to[k].views]
<1>1. Grown(F, f, key, new, zero, to)
    BY IntoGrows
<1> HIDE DEF to
<1>2. /\ DOMAIN Old = D /\ DOMAIN New = D \cup {key}
      /\ \A k \in D : Old[k] \in Nat
      /\ \A k \in D \cup {key} : New[k] \in Nat
      /\ \A k \in D \ {key} : New[k] = Old[k]
      /\ New[key] = (IF key \in D THEN Old[key] ELSE 0) + new.views
      /\ new.views \in Nat
  <2>1. to[key].views = (IF key \in D THEN f[key].views ELSE zero.views) + new.views
      BY <1>1 DEF Grown
  <2> QED BY <1>1, <2>1 DEF Grown
<1>3. Views(f) = SumFunctionOnSet(Old, D) /\ Views(to) = SumFunctionOnSet(New, D \cup {key})
    BY <1>2 DEF Views, SumFunction
<1> HIDE DEF Old, New, D
<1>4. IsFiniteSet(D) /\ SumFunctionOnSet(Old, D) \in Nat
  <2>1. IsFiniteSet(D)
      BY DEF D
  <2> QED BY <1>2, <2>1, SumIsNumber
<1>5. CASE key \in D
  <2>1. D \cup {key} = D
      BY <1>5
  <2>2. SumFunctionOnSet(New, D) = (SumFunctionOnSet(Old, D) - Old[key]) + New[key]
      BY <1>2, <1>4, <1>5, SumWithOneChanged
  <2>3. New[key] = Old[key] + new.views /\ Old[key] \in Nat
      BY <1>2, <1>5
  <2> QED BY <1>2, <1>3, <1>4, <2>1, <2>2, <2>3 DEF to
<1>6. CASE key \notin D
  <2>1. SumFunctionOnSet(New, D \cup {key}) = SumFunctionOnSet(New, D) + New[key]
      BY <1>2, <1>4, <1>6, SumWithOneMore
  <2>2. SumFunctionOnSet(New, D) = SumFunctionOnSet(Old, D)
      BY <1>2, <1>4, <1>6, SumOfEqual
  <2>3. New[key] = new.views
      BY <1>2, <1>6
  <2> QED BY <1>3, <2>1, <2>2, <2>3 DEF to
<1> QED BY <1>5, <1>6

---------------------------------------------------------------------------
(* The walk.                                                               *)

\* The messages there are, and those read.
LEMMA ChannelFacts ==
    ASSUME TypeOK
    PROVE  /\ DOMAIN channel = 1 .. Len(channel) /\ Len(channel) \in Nat /\ read \in Nat
           /\ \A i \in DOMAIN channel : channel[i] \in Message
           /\ \A i \in Dated : channel[i].day \in Days
           /\ Read \subseteq DOMAIN channel
           /\ \A I \in SUBSET DOMAIN channel : IsFiniteSet(I)
           /\ \A i \in DOMAIN channel : /\ \A f \in CountFields : CountColumn(f)[i] \in Nat
                                        /\ \A f \in DayFields : DayColumn(f)[i] \in Nat
                                        /\ ViewColumn[i] \in Nat
<1>1. DOMAIN channel = 1 .. Len(channel) /\ Len(channel) \in Nat /\ read \in Nat
    BY DEF TypeOK
<1>2. \A i \in DOMAIN channel : channel[i] \in Message
    BY MenuAssumption DEF TypeOK
<1>3. \A i \in Dated : channel[i].day \in Days
  <2>1. \A m \in Message : m.day \in Days \cup {NoDay}
      BY DEF Message
  <2> QED BY <1>2, <2>1 DEF Dated
<1>4. Read \subseteq DOMAIN channel
    BY DEF Read, Dated
<1>5. \A I \in SUBSET DOMAIN channel : IsFiniteSet(I)
  <2>1. IsFiniteSet(1 .. Len(channel))
      BY <1>1, FS_Interval
  <2> QED BY <1>1, <2>1, FS_Subset
<1>6. ASSUME NEW i \in DOMAIN channel
      PROVE  /\ \A f \in CountFields : CountColumn(f)[i] \in Nat
             /\ \A f \in DayFields : DayColumn(f)[i] \in Nat
             /\ ViewColumn[i] \in Nat
  <2>1. channel[i] \in Message
      BY <1>2
  <2>2. /\ CountOf(channel[i]) \in [CountFields -> Nat]
        /\ DayOf(channel[i]) \in [DayFields -> Nat] /\ channel[i].views \in Nat
      BY <2>1, CountOfMessage, DayOfMessage
  <2> QED BY <2>2 DEF CountColumn, DayColumn, ViewColumn
<1> QED BY <1>1, <1>2, <1>3, <1>4, <1>5, <1>6

\* With a dated message more, the sums over what is read grow by its numbers.
LEMMA OneMoreMessage ==
    ASSUME TypeOK, NEW I, I \subseteq Read, NEW F,
           \A i \in DOMAIN channel : F[i] \in Nat, read + 1 \in DOMAIN channel
    PROVE  /\ SumFunctionOnSet(F, I) \in Nat
           /\ SumFunctionOnSet(F, I \cup {read + 1}) = SumFunctionOnSet(F, I) + F[read + 1]
<1>1. IsFiniteSet(I) /\ I \subseteq DOMAIN channel /\ read \in Nat
    BY ChannelFacts
<1>2. read + 1 \notin I
    BY <1>1 DEF Read
<1>3. \A y \in I \cup {read + 1} : F[y] \in Nat
    BY <1>1
<1>4. SumFunctionOnSet(F, I) \in Nat
    BY <1>1, SumIsNumber
<1> QED BY <1>1, <1>2, <1>3, <1>4, SumWithOneMore

\* A dated message. Its day's bucket opens or grows ...
LEMMA DatedTotal ==
    ASSUME WalkInv, Take, channel[read + 1].day # NoDay, read + 1 \in DOMAIN channel,
           Read' = Read \cup {read + 1}
    PROVE  TotalIsSum' /\ total' \in [CountFields -> Nat]
<1> DEFINE m == channel[read + 1]
<1>1. total' = Plus(total, CountOf(m)) /\ channel' = channel
    BY DEF Take
<1>2. m \in Message
    BY ChannelFacts DEF WalkInv
<1>3. total \in [CountFields -> Nat] /\ CountOf(m) \in [CountFields -> Nat]
    BY <1>2, CountOfMessage DEF WalkInv, TypeOK, CountFields
<1>4. /\ total' \in [CountFields -> Nat]
      /\ \A f \in CountFields : total'[f] = total[f] + CountOf(m)[f]
    BY <1>1, <1>3, PlusFields
<1>5. ASSUME NEW f \in CountFields
      PROVE  total'[f] = SumFunctionOnSet(CountColumn(f), Read')
  <2>1. \A i \in DOMAIN channel : CountColumn(f)[i] \in Nat
      BY ChannelFacts DEF WalkInv
  <2> DEFINE F == CountColumn(f)
  <2>2. F[read + 1] = CountOf(m)[f]
      BY DEF CountColumn
  <2> HIDE DEF F
  <2>3. SumFunctionOnSet(F, Read \cup {read + 1}) = SumFunctionOnSet(F, Read) + F[read + 1]
      BY <2>1, OneMoreMessage DEF WalkInv, F
  <2>4. total[f] = SumFunctionOnSet(F, Read)
      BY DEF WalkInv, TotalIsSum, CountFields, F
  <2> QED BY <1>4, <2>2, <2>3, <2>4 DEF F
<1>6. \A f \in CountFields : CountColumn(f)' = CountColumn(f)
    BY <1>1 DEF CountColumn
<1>7. total' = [f \in CountFields |-> SumFunctionOnSet(CountColumn(f), Read')]
    BY <1>4, <1>5
<1> QED BY <1>1, <1>4, <1>7 DEF TotalIsSum, CountFields, CountColumn

\* The day's bucket opens or grows.
LEMMA DatedDay ==
    ASSUME WalkInv, Take, channel[read + 1].day # NoDay, read + 1 \in DOMAIN channel,
           Read' = Read \cup {read + 1}
    PROVE  /\ DailyIsSum'
           /\ DOMAIN daily' = DOMAIN daily \cup {channel[read + 1].day}
           /\ \A k \in DOMAIN daily' : daily'[k] \in [DayFields -> Nat]
           /\ Views(daily') = SumFunctionOnSet(ViewColumn, Read')
<1> DEFINE m == channel[read + 1]
           d == m.day
           Known == {channel[i].day : i \in Read}
<1>1. daily' = Into(daily, d, DayOf(m), NoDaily) /\ channel' = channel
    BY DEF Take
<1>2. m \in Message
    BY ChannelFacts DEF WalkInv
<1>3. /\ DayOf(m) \in [DayFields -> Nat] /\ DayOf(m)["views"] = m.views /\ m.views \in Nat
      /\ NoDaily \in [DayFields -> Nat] /\ \A f \in DayFields : NoDaily[f] = 0
      /\ \A k \in DOMAIN daily : daily[k] \in [DayFields -> Nat]
    BY <1>2, DayOfMessage, NothingIsZero DEF WalkInv, TypeOK, DayFields
<1>4. DOMAIN daily = Known
    BY DEF WalkInv, DailyIsSum
<1>5. Grown(DayFields, daily, d, DayOf(m), NoDaily, daily')
    BY <1>1, <1>3, IntoGrows
<1>6. {channel[i].day : i \in Read'} = Known \cup {d}
    OBVIOUS
<1>7. /\ \A k \in Known \ {d} : ReadOn(k)' = ReadOn(k)
      /\ ReadOn(d) \cup {read + 1} = {i \in Read' : channel[i].day = d}
      /\ d \notin Known => ReadOn(d) = {}
    BY <1>1 DEF ReadOn
<1>8. ASSUME NEW k \in Known \cup {d}
      PROVE  daily'[k] = [f \in DayFields |->
                            SumFunctionOnSet(DayColumn(f), {i \in Read' : channel[i].day = k})]
  <2>1. CASE k # d
    <3>1. daily'[k] = daily[k]
        BY <1>4, <1>5, <2>1 DEF Grown
    <3>2. {i \in Read' : channel[i].day = k} = ReadOn(k)
        BY <2>1 DEF ReadOn
    <3>3. daily[k] = [f \in DayFields |-> SumFunctionOnSet(DayColumn(f), ReadOn(k))]
        BY <2>1 DEF WalkInv, DailyIsSum, DayFields
    <3> QED BY <3>1, <3>2, <3>3
  <2>2. CASE k = d
    <3>1. ASSUME NEW f \in DayFields
          PROVE  daily'[d][f] = SumFunctionOnSet(DayColumn(f), ReadOn(d) \cup {read + 1})
      <4> DEFINE F == DayColumn(f)
      <4>1. \A i \in DOMAIN channel : F[i] \in Nat
          BY ChannelFacts DEF WalkInv
      <4>2. F[read + 1] = DayOf(m)[f]
          BY DEF DayColumn
      <4> HIDE DEF F
      <4>3. ReadOn(d) \subseteq Read
          BY DEF ReadOn
      <4>4. SumFunctionOnSet(F, ReadOn(d) \cup {read + 1}) = SumFunctionOnSet(F, ReadOn(d)) + F[read + 1]
          BY <4>1, <4>3, OneMoreMessage DEF WalkInv
      <4>5. SumFunctionOnSet(F, ReadOn(d)) = IF d \in DOMAIN daily THEN daily[d][f] ELSE NoDaily[f]
        <5>1. CASE d \in Known
            BY <1>4, <5>1 DEF WalkInv, DailyIsSum, DayFields, F
        <5>2. CASE d \notin Known
            BY <1>3, <1>4, <1>7, <5>2, SumOfNone
        <5> QED BY <5>1, <5>2
      <4>6. daily'[d][f] = (IF d \in DOMAIN daily THEN daily[d][f] ELSE NoDaily[f]) + DayOf(m)[f]
          BY <1>5 DEF Grown
      <4> QED BY <4>2, <4>4, <4>5, <4>6 DEF F
    <3>2. daily'[d] \in [DayFields -> Nat]
        BY <1>5 DEF Grown
    <3>3. daily'[d] = [f \in DayFields |-> SumFunctionOnSet(DayColumn(f), ReadOn(d) \cup {read + 1})]
        BY <3>1, <3>2
    <3> QED BY <1>7, <2>2, <3>3
  <2> QED BY <2>1, <2>2
<1>9. DailyIsSum'
  <2>1. DOMAIN daily' = Known \cup {d}
      BY <1>4, <1>5 DEF Grown
  <2>2. daily' = [k \in Known \cup {d} |-> daily'[k]]
    <3>1. Into(daily, d, DayOf(m), NoDaily) =
            [k \in DOMAIN Into(daily, d, DayOf(m), NoDaily) |-> Into(daily, d, DayOf(m), NoDaily)[k]]
        BY DEF Into
    <3> QED BY <1>1, <2>1, <3>1
  <2>3. daily' = [k \in Known \cup {d} |-> [f \in DayFields |->
                    SumFunctionOnSet(DayColumn(f), {i \in Read' : channel[i].day = k})]]
      BY <1>8, <2>2
  <2> QED BY <1>1, <1>6, <2>3 DEF DailyIsSum, DayFields, DayColumn, ReadOn
<1>10. Views(daily') = SumFunctionOnSet(ViewColumn, Read')
  <2>1. IsFiniteSet(DOMAIN daily) /\ Views(daily) = SumFunctionOnSet(ViewColumn, Read)
      BY DEF WalkInv, FiniteBuckets, ViewsAreSum
  <2>2. DayOf(m).views = m.views /\ NoDaily.views = 0
      BY <1>3, FieldsAre
  <2>3. Views(daily') = Views(daily) + m.views
      BY <1>1, <1>3, <2>1, <2>2, FieldsAre, ViewsGrow
  <2>4. \A i \in DOMAIN channel : ViewColumn[i] \in Nat
      BY ChannelFacts DEF WalkInv
  <2>5. SumFunctionOnSet(ViewColumn, Read \cup {read + 1})
            = SumFunctionOnSet(ViewColumn, Read) + ViewColumn[read + 1]
      BY <2>4, OneMoreMessage DEF WalkInv
  <2>6. ViewColumn[read + 1] = m.views
      BY DEF ViewColumn
  <2> QED BY <2>1, <2>3, <2>5, <2>6
<1> QED BY <1>5, <1>9, <1>10 DEF Grown

\* The bucket of its week, unless nobody has seen it.
LEMMA DatedWeek ==
    ASSUME WalkInv, Take, channel[read + 1].day # NoDay, read + 1 \in DOMAIN channel,
           Read' = Read \cup {read + 1}
    PROVE  WeeklyIsSum'
<1> DEFINE m == channel[read + 1]
           v == [views |-> m.views, count |-> 1]
           now == WeekOf(m.day)
<1>1. channel' = channel
    BY DEF Take
<1>2. m.views \in Nat /\ m.day \in Days
    BY ChannelFacts, DayOfMessage DEF WalkInv, Dated
<1>3. \A i \in DOMAIN channel : ViewColumn[i] \in Nat
    BY ChannelFacts DEF WalkInv
<1>4. ViewColumn[read + 1] = m.views
    BY DEF ViewColumn
<1>5. ASSUME NEW w \in WeekKeys
      PROVE  SumFunctionOnSet(ViewColumn, {i \in Read' : WeekOf(channel[i].day) = w})
                = IF w \in DOMAIN weekly' THEN weekly'[w].views ELSE 0
  <2> DEFINE old == IF w \in DOMAIN weekly THEN weekly[w].views ELSE 0
  <2>1. SumFunctionOnSet(ViewColumn, ReadIn(w)) = old
      BY DEF WalkInv, WeeklyIsSum
  <2>2. ReadIn(w) \subseteq Read
      BY DEF ReadIn
  <2>3. /\ SumFunctionOnSet(ViewColumn, ReadIn(w)) \in Nat
        /\ SumFunctionOnSet(ViewColumn, ReadIn(w) \cup {read + 1})
              = SumFunctionOnSet(ViewColumn, ReadIn(w)) + ViewColumn[read + 1]
      BY <1>3, <2>2, OneMoreMessage DEF WalkInv
  <2>4. {i \in Read' : WeekOf(channel[i].day) = w} = IF w = now THEN ReadIn(w) \cup {read + 1} ELSE ReadIn(w)
      BY DEF ReadIn
  <2>5. SumFunctionOnSet(ViewColumn, {i \in Read' : WeekOf(channel[i].day) = w})
            = IF w = now THEN old + m.views ELSE old
      BY <1>4, <2>1, <2>3, <2>4
  <2>6. old \in Nat
      BY <2>1, <2>3
  <2>7. CASE m.views = 0
    <3>1. weekly' = weekly
        BY <2>7 DEF Take
    <3>2. old + m.views = old
        BY <2>6, <2>7
    <3> QED BY <2>5, <3>1, <3>2
  <2>8. CASE m.views # 0
    <3>1. weekly' = Into(weekly, now, v, NoViews)
        BY <2>8 DEF Take
    <3>2. /\ v \in [ViewFields -> Nat] /\ NoViews \in [ViewFields -> Nat] /\ NoViews.views = 0
          /\ v.views = m.views
          /\ \A k \in DOMAIN weekly : weekly[k] \in [ViewFields -> Nat]
        BY <1>2, ViewsOfMessage, NothingIsZero DEF WalkInv, TypeOK, ViewFields
    <3> HIDE DEF v
    <3>3. Grown(ViewFields, weekly, now, v, NoViews, weekly')
        BY <3>1, <3>2, IntoGrows
    <3>4. CASE w = now
      <4>1. weekly'[w].views = (IF w \in DOMAIN weekly THEN weekly[w].views ELSE NoViews.views) + v.views
          BY <3>3, <3>4, FieldsAre DEF Grown
      <4>2. w \in DOMAIN weekly'
          BY <3>3, <3>4 DEF Grown
      <4> QED BY <2>5, <3>2, <3>4, <4>1, <4>2
    <3>5. CASE w # now
        BY <2>5, <3>3, <3>5 DEF Grown
    <3> QED BY <3>4, <3>5
  <2> QED BY <2>7, <2>8
<1> QED BY <1>1, <1>5 DEF WeeklyIsSum, ReadIn, ViewColumn

\* One message read.
LEMMA TakeStep ==
    ASSUME WalkInv, Take
    PROVE  WalkInv'
<1> DEFINE m == channel[read + 1]
           v == [views |-> m.views, count |-> 1]
<1>1. /\ pc = "walking" /\ read < Len(channel) /\ read' = read + 1
      /\ UNCHANGED <<channel, attempt, pc, report>>
    BY DEF Take
<1>2. /\ DOMAIN channel = 1 .. Len(channel) /\ Len(channel) \in Nat /\ read \in Nat
      /\ m \in Message /\ read + 1 \in DOMAIN channel
    BY <1>1, ChannelFacts DEF WalkInv
<1>3. /\ channel' \in Seq(Menu) /\ Len(channel') <= Limit /\ read' \in 0 .. Len(channel')
      /\ attempt' \in 1 .. Attempts /\ pc' \in {"walking", "reported", "failed"}
    BY <1>1, <1>2 DEF WalkInv, TypeOK
<1>4. ReportIsOfChannel'
    BY <1>1 DEF ReportIsOfChannel
<1>5. CASE m.day = NoDay
  <2>1. UNCHANGED buckets /\ total' = total
      BY <1>5 DEF Take, buckets
  <2>2. Read' = Read
    <3>1. \A i \in Dated : (i <= read + 1) <=> (i <= read)
        BY <1>2, <1>5 DEF Dated
    <3> QED BY <1>1, <3>1 DEF Read, Dated
  <2>3. TypeOK'
      BY <1>3, <2>1 DEF WalkInv, TypeOK, buckets
  <2>4. FiniteBuckets'
      BY <2>1 DEF WalkInv, FiniteBuckets, buckets
  <2>5. TotalIsSum'
      BY <1>1, <2>1, <2>2 DEF WalkInv, TotalIsSum, CountColumn
  <2>6. DailyIsSum'
      BY <1>1, <2>1, <2>2 DEF WalkInv, DailyIsSum, DayColumn, ReadOn, buckets
  <2>7. ViewsAreSum'
      BY <1>1, <2>1, <2>2 DEF WalkInv, ViewsAreSum, ViewColumn, Views, buckets
  <2>8. WeeklyIsSum'
      BY <1>1, <2>1, <2>2 DEF WalkInv, WeeklyIsSum, ViewColumn, ReadIn, buckets
  <2> QED BY <1>4, <2>3, <2>4, <2>5, <2>6, <2>7, <2>8 DEF WalkInv
<1>6. CASE m.day # NoDay
  <2>1. Read' = Read \cup {read + 1}
    <3>1. read + 1 \in Dated
        BY <1>2, <1>6 DEF Dated
    <3>2. \A i \in Dated : i \in Nat
        BY <1>2 DEF Dated
    <3>3. \A i \in Dated : (i <= read + 1) <=> (i <= read \/ i = read + 1)
        BY <1>2, <3>2
    <3>4. Dated' = Dated
        BY <1>1 DEF Dated
    <3> QED BY <1>1, <3>1, <3>3, <3>4 DEF Read
  <2>2. TotalIsSum' /\ total' \in [CountFields -> Nat]
      BY <1>2, <1>6, <2>1, DatedTotal
  <2>3. /\ DailyIsSum'
        /\ DOMAIN daily' = DOMAIN daily \cup {m.day}
        /\ \A k \in DOMAIN daily' : daily'[k] \in [DayFields -> Nat]
        /\ Views(daily') = SumFunctionOnSet(ViewColumn, Read')
      BY <1>2, <1>6, <2>1, DatedDay
  <2>4. WeeklyIsSum'
      BY <1>2, <1>6, <2>1, DatedWeek
  <2>5. m.day \in Days
      BY <1>2, <1>6 DEF Message
  <2>6. DOMAIN daily' \subseteq DayKeys /\ IsFiniteSet(DOMAIN daily')
    <3>1. DOMAIN daily \subseteq Days /\ IsFiniteSet(DOMAIN daily)
        BY DEF WalkInv, TypeOK, FiniteBuckets, DayKeys
    <3> QED BY <2>3, <2>5, <3>1, FS_AddElement DEF DayKeys
  <2>7. /\ \A k \in DOMAIN weekly : weekly[k] \in [ViewFields -> Nat]
        /\ \A k \in DOMAIN monthly : monthly[k] \in [ViewFields -> Nat]
        /\ DOMAIN weekly \subseteq WeekKeys /\ IsFiniteSet(DOMAIN weekly)
        /\ DOMAIN monthly \subseteq MonthKeys /\ IsFiniteSet(DOMAIN monthly)
      BY DEF WalkInv, TypeOK, FiniteBuckets, ViewFields
  <2>8. /\ DOMAIN weekly' \subseteq WeekKeys /\ IsFiniteSet(DOMAIN weekly')
        /\ \A k \in DOMAIN weekly' : weekly'[k] \in [ViewFields -> Nat]
        /\ DOMAIN monthly' \subseteq MonthKeys /\ IsFiniteSet(DOMAIN monthly')
        /\ \A k \in DOMAIN monthly' : monthly'[k] \in [ViewFields -> Nat]
    <3>1. CASE m.views = 0
        BY <2>7, <3>1 DEF Take
    <3>2. CASE m.views # 0
      <4>1. weekly' = Into(weekly, WeekOf(m.day), v, NoViews)
            /\ monthly' = Into(monthly, MonthOf(m.day), v, NoViews)
          BY <1>6, <3>2 DEF Take
      <4>2. WeekOf(m.day) \in WeekKeys /\ MonthOf(m.day) \in MonthKeys
          BY <2>5 DEF WeekOf, WeekKeys, MonthOf, MonthKeys
      <4>3. v \in [ViewFields -> Nat] /\ NoViews \in [ViewFields -> Nat]
          BY <1>2, DayOfMessage, ViewsOfMessage, NothingIsZero
      <4> HIDE DEF v
      <4>4. Grown(ViewFields, weekly, WeekOf(m.day), v, NoViews, weekly')
          BY <2>7, <4>1, <4>3, IntoGrows
      <4>5. Grown(ViewFields, monthly, MonthOf(m.day), v, NoViews, monthly')
          BY <2>7, <4>1, <4>3, IntoGrows
      <4>6. /\ DOMAIN weekly' \subseteq WeekKeys /\ IsFiniteSet(DOMAIN weekly')
            /\ \A k \in DOMAIN weekly' : weekly'[k] \in [ViewFields -> Nat]
          BY <2>7, <4>2, <4>4, FS_AddElement DEF Grown
      <4>7. /\ DOMAIN monthly' \subseteq MonthKeys /\ IsFiniteSet(DOMAIN monthly')
            /\ \A k \in DOMAIN monthly' : monthly'[k] \in [ViewFields -> Nat]
          BY <2>7, <4>2, <4>5, FS_AddElement DEF Grown
      <4> QED BY <4>6, <4>7
    <3> QED BY <3>1, <3>2
  <2>9. TypeOK'
      BY <1>3, <2>2, <2>3, <2>6, <2>8 DEF TypeOK, CountFields, DayFields, ViewFields,
                                          DayKeys, WeekKeys, MonthKeys
  <2>10. FiniteBuckets'
      BY <2>6, <2>8 DEF FiniteBuckets
  <2>11. ViewsAreSum'
      BY <1>1, <2>3 DEF ViewsAreSum, ViewColumn, Views
  <2> QED BY <1>4, <2>2, <2>3, <2>4, <2>9, <2>10, <2>11 DEF WalkInv
<1> QED BY <1>5, <1>6

\* Nothing read, nothing counted: at the start, and when an attempt breaks off.
NothingRead ==
    read = 0 /\ total = NoTotal /\ daily = <<>> /\ weekly = <<>> /\ monthly = <<>>

\* Nothing adds up to the empty counters.
LEMMA EmptyIsSum ==
    TypeOK /\ NothingRead => /\ FiniteBuckets /\ TotalIsSum /\ DailyIsSum /\ WeeklyIsSum
                            /\ ViewsAreSum
<1> SUFFICES ASSUME TypeOK, read = 0, total = NoTotal, daily = <<>>, weekly = <<>>, monthly = <<>>
             PROVE  /\ FiniteBuckets /\ TotalIsSum /\ DailyIsSum /\ WeeklyIsSum
                    /\ Views(daily) = SumFunctionOnSet(ViewColumn, Read)
    BY DEF NothingRead, ViewsAreSum
<1>1. Read = {}
  <2>1. \A i \in DOMAIN channel : ~(i <= 0)
      BY ChannelFacts
  <2> QED BY <2>1 DEF Read, Dated
<1>2. DOMAIN <<>> = {} /\ IsFiniteSet({})
    BY FS_EmptySet
<1>3. FiniteBuckets
    BY <1>2 DEF FiniteBuckets
<1>4. TotalIsSum
  <2>1. \A f \in CountFields : NoTotal[f] = SumFunctionOnSet(CountColumn(f), Read)
      BY <1>1, SumOfNone, NothingIsZero
  <2>2. NoTotal \in [CountFields -> Nat]
      BY NothingIsZero
  <2>3. NoTotal = [f \in CountFields |-> SumFunctionOnSet(CountColumn(f), Read)]
      BY <2>1, <2>2
  <2> QED BY <2>3 DEF TotalIsSum, CountFields
<1>5. DailyIsSum
  <2> DEFINE known == {channel[i].day : i \in Read}
             Sums(d) == [f \in DOMAIN NoDaily |-> SumFunctionOnSet(DayColumn(f), ReadOn(d))]
  <2>1. known = {}
      BY <1>1
  <2>2. DailyIsSum <=> daily = [d \in known |-> Sums(d)]
      BY DEF DailyIsSum
  <2> HIDE DEF Sums, known
  <2>3. <<>> = [d \in known |-> Sums(d)]
      BY <2>1
  <2> QED BY <2>2, <2>3
<1>6. WeeklyIsSum
  <2>1. \A w : ReadIn(w) = {}
      BY <1>1 DEF ReadIn
  <2> QED BY <1>2, <2>1, SumOfNone DEF WeeklyIsSum
<1>7. Views(daily) = SumFunctionOnSet(ViewColumn, Read)
  <2>1. DOMAIN [k \in DOMAIN daily |-> daily[k].views] = {}
      BY <1>2
  <2>2. Views(daily) = 0
      BY <2>1, SumOfNone DEF Views, SumFunction
  <2> QED BY <1>1, <2>2, SumOfNone
<1> QED BY <1>3, <1>4, <1>5, <1>6, <1>7

\* What a step that reads nothing, and starts nothing anew, leaves as it is.
LEMMA WalkFrame ==
    ASSUME WalkInv, UNCHANGED <<channel, read, total, daily, weekly, monthly, attempt>>,
           pc' \in {"walking", "reported", "failed"}
    PROVE  TypeOK' /\ FiniteBuckets' /\ TotalIsSum' /\ DailyIsSum' /\ ViewsAreSum' /\ WeeklyIsSum'
<1>1. TypeOK'
    BY DEF WalkInv, TypeOK
<1>2. FiniteBuckets'
    BY DEF WalkInv, FiniteBuckets
<1>3. Read' = Read /\ Dated' = Dated
    BY DEF Read, Dated
<1>4. TotalIsSum'
    BY <1>3 DEF WalkInv, TotalIsSum, CountColumn
<1>5. DailyIsSum'
    BY <1>3 DEF WalkInv, DailyIsSum, DayColumn, ReadOn
<1>6. ViewsAreSum'
    BY <1>3 DEF WalkInv, ViewsAreSum, ViewColumn, Views
<1>7. WeeklyIsSum'
    BY <1>3 DEF WalkInv, WeeklyIsSum, ViewColumn, ReadIn
<1> QED BY <1>1, <1>2, <1>4, <1>5, <1>6, <1>7

\* An attempt that breaks off: the next begins with nothing, or the scrape has failed.
LEMMA BreakOffStep ==
    ASSUME WalkInv, BreakOff
    PROVE  WalkInv'
<1>1. UNCHANGED <<channel, report>> /\ pc = "walking"
    BY DEF BreakOff
<1>2. CASE attempt < Attempts
  <2>1. attempt' = attempt + 1 /\ Empty /\ pc' = pc
      BY <1>2 DEF BreakOff
  <2>2. attempt \in 1 .. Attempts /\ Attempts \in Nat
      BY LimitsAssumption DEF WalkInv, TypeOK
  <2>3. attempt' \in 1 .. Attempts
      BY <1>2, <2>1, <2>2
  <2>4. TypeOK'
    <3>1. DOMAIN <<>> = {}
        OBVIOUS
    <3>2. /\ total' \in [CountFields -> Nat] /\ read' = 0 /\ DOMAIN daily' = {}
          /\ DOMAIN weekly' = {} /\ DOMAIN monthly' = {}
        BY <2>1, <3>1, NothingIsZero DEF Empty
    <3>3. /\ channel' \in Seq(Menu) /\ Len(channel') <= Limit /\ Len(channel') \in Nat
          /\ pc' \in {"walking", "reported", "failed"}
        BY <1>1, <2>1, ChannelFacts DEF WalkInv, TypeOK
    <3>4. read' \in 0 .. Len(channel')
        BY <3>2, <3>3
    <3> QED BY <2>3, <3>2, <3>3, <3>4 DEF TypeOK, CountFields
  <2>5. /\ FiniteBuckets' /\ TotalIsSum' /\ DailyIsSum' /\ WeeklyIsSum'
        /\ ViewsAreSum'
    <3>1. NothingRead'
        BY <2>1 DEF Empty, NothingRead
    <3> QED BY <2>4, <3>1, EmptyIsSum, PTL
  <2>6. ReportIsOfChannel'
      BY <1>1, <2>1 DEF ReportIsOfChannel
  <2> QED BY <2>4, <2>5, <2>6 DEF WalkInv
<1>3. CASE ~(attempt < Attempts)
  <2>1. pc' = "failed" /\ UNCHANGED <<attempt, read, total, buckets>>
      BY <1>3 DEF BreakOff
  <2>2. UNCHANGED <<channel, read, total, daily, weekly, monthly, attempt>>
      BY <1>1, <2>1 DEF buckets
  <2>3. TypeOK' /\ FiniteBuckets' /\ TotalIsSum' /\ DailyIsSum' /\ ViewsAreSum' /\ WeeklyIsSum'
      BY <2>1, <2>2, WalkFrame
  <2>4. ReportIsOfChannel'
      BY <2>1 DEF ReportIsOfChannel
  <2> QED BY <2>3, <2>4 DEF WalkInv
<1> QED BY <1>2, <1>3

\* What is reported, once all is read.
LEMMA ReportStep ==
    ASSUME WalkInv, Report
    PROVE  WalkInv'
<1> DEFINE n == Cardinality(DOMAIN daily)
<1>1. /\ read = Len(channel) /\ pc' = "reported"
      /\ UNCHANGED <<channel, read, total, buckets, attempt>>
      /\ report' = [views    |-> <<Average(daily), Average(weekly), Average(monthly)>>,
                    medians  |-> <<Median(daily), Median(weekly), Median(monthly)>>,
                    messages |-> <<Per(total.messages, daily), Per(total.messages, weekly),
                                   Per(total.messages, monthly)>>,
                    total    |-> total,
                    metrics  |-> daily]
    BY DEF Report
<1>2. Read = Dated
    BY <1>1, ChannelFacts DEF Read, Dated, WalkInv
<1>3. /\ report'.total = total /\ report'.metrics = daily
      /\ report'.views[1] = Average(daily)
      /\ report'.medians[1] = Median(daily) /\ report'.medians[2] = Median(weekly)
      /\ report'.medians[3] = Median(monthly)
    BY <1>1
<1>4. total = [f \in DOMAIN NoTotal |-> Sum(Dated, LAMBDA m : CountOf(m)[f])]
    BY <1>2 DEF WalkInv, TotalIsSum, Sum, CountColumn
<1>5. daily = [d \in {channel[i].day : i \in Dated} |->
                 [f \in DOMAIN NoDaily |->
                     Sum({i \in Dated : channel[i].day = d}, LAMBDA m : DayOf(m)[f])]]
    BY <1>2 DEF WalkInv, DailyIsSum, ReadOn, Sum, DayColumn
<1>6. Views(daily) = Sum(Dated, LAMBDA m : m.views)
    BY <1>2 DEF WalkInv, ViewsAreSum, Sum, ViewColumn
<1>7. DOMAIN daily = {channel[i].day : i \in Dated}
    BY <1>5
<1>8. ASSUME Dated # {}
      PROVE  Views(daily) - n * Average(daily) \in 0 .. n - 1
  <2>1. IsFiniteSet(DOMAIN daily) /\ DOMAIN daily # {}
      BY <1>7, <1>8 DEF WalkInv, FiniteBuckets
  <2>2. n \in Nat /\ n # 0
      BY <2>1, FS_EmptySet, FS_CardinalityType
  <2>3. Average(daily) = Views(daily) \div n
      BY <2>1 DEF Average, Per
  <2>4. Views(daily) \in Nat
    <3>1. \A k \in DOMAIN daily : daily[k].views \in Nat
        BY FieldsAre DEF WalkInv, TypeOK, DayFields
    <3> DEFINE F == [k \in DOMAIN daily |-> daily[k].views]
    <3>2. DOMAIN F = DOMAIN daily /\ \A k \in DOMAIN daily : F[k] \in Nat
        BY <3>1
    <3>3. Views(daily) = SumFunctionOnSet(F, DOMAIN daily)
        BY <3>2 DEF Views, SumFunction
    <3> HIDE DEF F
    <3> QED BY <2>1, <3>2, <3>3, SumIsNumber
  <2> DEFINE all == Views(daily)
             q == all \div n
  <2> HIDE DEF all, n
  <2>5. all \in Int /\ n \in Int /\ n > 0
      BY <2>2, <2>4 DEF all
  <2>6. q \in Int /\ all % n \in 0 .. n - 1 /\ all = n * q + (all % n)
      BY <2>5
  <2> HIDE DEF q
  <2>7. all - n * q = all % n
      BY <2>5, <2>6
  <2>8. all - n * q \in 0 .. n - 1
      BY <2>6, <2>7
  <2> QED BY <2>3, <2>8 DEF all, q
<1>9. /\ Splits(Median(daily), daily) /\ Splits(Median(weekly), weekly)
      /\ Splits(Median(monthly), monthly)
  <2>1. /\ \A k \in DOMAIN daily : daily[k].views \in Nat
        /\ \A k \in DOMAIN weekly : weekly[k].views \in Nat
        /\ \A k \in DOMAIN monthly : monthly[k].views \in Nat
      BY FieldsAre DEF WalkInv, TypeOK, DayFields, ViewFields
  <2> QED BY <2>1, MedianSplits DEF WalkInv, FiniteBuckets
<1>10. /\ channel' = channel /\ read' = read /\ total' = total /\ attempt' = attempt
       /\ daily' = daily /\ weekly' = weekly /\ monthly' = monthly
    BY <1>1 DEF buckets
<1>11. ReportIsOfChannel'
  <2>1. (report.total = [f \in DOMAIN NoTotal |-> Sum(Dated, LAMBDA m : CountOf(m)[f])])'
      BY <1>3, <1>4, <1>10 DEF Sum, Dated
  <2>2. (report.metrics = [d \in {channel[i].day : i \in Dated} |->
                             [f \in DOMAIN NoDaily |->
                                Sum({i \in Dated : channel[i].day = d}, LAMBDA m : DayOf(m)[f])]])'
      BY <1>3, <1>5, <1>10 DEF Sum, Dated
  <2>3. (Dated # {} => Sum(Dated, LAMBDA m : m.views)
                          - Cardinality({channel[i].day : i \in Dated}) * report.views[1]
                       \in 0 .. Cardinality({channel[i].day : i \in Dated}) - 1)'
      BY <1>3, <1>6, <1>7, <1>8, <1>10 DEF Sum, Dated
  <2>4. (/\ Splits(report.medians[1], daily) /\ Splits(report.medians[2], weekly)
         /\ Splits(report.medians[3], monthly))'
      BY <1>3, <1>9, <1>10 DEF Splits
  <2> QED BY <2>1, <2>2, <2>3, <2>4 DEF ReportIsOfChannel
<1>12. TypeOK' /\ FiniteBuckets' /\ TotalIsSum' /\ DailyIsSum' /\ ViewsAreSum' /\ WeeklyIsSum'
    BY <1>1, <1>10, WalkFrame
<1> QED BY <1>11, <1>12 DEF WalkInv

\* WalkInv is inductive.
LEMMA InitWalk == Init => WalkInv
<1> SUFFICES ASSUME Init PROVE WalkInv
    OBVIOUS
<1>1. PICK n \in 0 .. Limit : channel \in [1 .. n -> Menu]
    BY DEF Init
<1>2. /\ channel \in Seq(Menu) /\ Len(channel) = n /\ n <= Limit /\ n \in Nat
      /\ Limit \in Nat /\ Attempts \in Nat \ {0}
    BY <1>1, LimitsAssumption
<1>3. TypeOK
  <2>1. /\ read = 0 /\ DOMAIN daily = {} /\ DOMAIN weekly = {} /\ DOMAIN monthly = {}
        /\ attempt = 1 /\ pc = "walking" /\ total = NoTotal
    <3>1. DOMAIN <<>> = {}
        OBVIOUS
    <3> QED BY <3>1 DEF Init
  <2>2. total \in [CountFields -> Nat]
      BY <2>1, NothingIsZero
  <2>3. read \in 0 .. Len(channel) /\ attempt \in 1 .. Attempts
      BY <1>2, <2>1
  <2> QED BY <1>2, <2>1, <2>2, <2>3 DEF TypeOK, CountFields
<1>4. /\ FiniteBuckets /\ TotalIsSum /\ DailyIsSum /\ WeeklyIsSum
      /\ ViewsAreSum
  <2>1. NothingRead
      BY DEF Init, NothingRead
  <2> QED BY <1>3, <2>1, EmptyIsSum
<1>5. ReportIsOfChannel
    BY DEF Init, ReportIsOfChannel
<1> QED BY <1>3, <1>4, <1>5 DEF WalkInv

LEMMA StepWalk == WalkInv /\ [Next]_vars => WalkInv'
<1> SUFFICES ASSUME WalkInv, [Next]_vars PROVE WalkInv'
    OBVIOUS
<1>1. Take => WalkInv'
    BY TakeStep
<1>2. BreakOff => WalkInv'
    BY BreakOffStep
<1>3. Report => WalkInv'
    BY ReportStep
<1>4. CASE UNCHANGED vars
  <2>1. UNCHANGED <<channel, read, total, daily, weekly, monthly, attempt>> /\ pc' = pc /\ report' = report
      BY <1>4 DEF vars, buckets
  <2>2. pc' \in {"walking", "reported", "failed"}
      BY <2>1 DEF WalkInv, TypeOK
  <2>3. ReportIsOfChannel'
      BY <2>1 DEF WalkInv, ReportIsOfChannel, Sum, Dated, Splits
  <2> QED BY <2>1, <2>2, <2>3, WalkFrame DEF WalkInv
<1> QED BY <1>1, <1>2, <1>3, <1>4 DEF Next

LEMMA Invariance == Spec => []WalkInv
BY InitWalk, StepWalk, PTL DEF Spec

---------------------------------------------------------------------------
(* What follows.                                                           *)

\* The counters and buckets are of their types: the buckets are those of days
\* with messages, and of their weeks and months (service.py:187-215).
THEOREM WalkTypeCorrect == Spec => []TypeOK
<1>1. WalkInv => TypeOK
    BY DEF WalkInv
<1> QED BY <1>1, Invariance, PTL

\* Whatever attempts have broken off, the report counts each dated message of
\* the channel once, in the totals and in its day; averages and medians are
\* those of the buckets (service.py:237-283).
THEOREM ReportIsTrue == Spec => []ReportIsOfChannel
<1>1. WalkInv => ReportIsOfChannel
    BY DEF WalkInv
<1> QED BY <1>1, Invariance, PTL

\* A week's bucket holds what was read of one ISO week, but at the ends of a
\* year (service.py:199).
THEOREM WeeksAreOfOneYear == Spec => []WeeksAreWeeks
<1>1. WalkInv => WeeksAreWeeks
  <2> SUFFICES ASSUME WalkInv, NEW key \in DOMAIN weekly, key[2] \in 2 .. 51
               PROVE  weekly[key].views =
                        Sum({i \in Dated : /\ i <= read
                                           /\ Calendar[channel[i].day].isoYear = key[1]
                                           /\ Calendar[channel[i].day].isoWeek = key[2]},
                            LAMBDA m : m.views)
      BY DEF WeeksAreWeeks
  <2>1. key \in WeekKeys
      BY DEF WalkInv, TypeOK
  <2>2. weekly[key].views = SumFunctionOnSet(ViewColumn, ReadIn(key))
      BY <2>1 DEF WalkInv, WeeklyIsSum
  <2>3. PICK e \in Days : key = <<Calendar[e].year, Calendar[e].isoWeek>>
      BY <2>1 DEF WeekKeys
  <2>4. ASSUME NEW d \in Days
        PROVE  WeekOf(d) = key <=> Calendar[d].isoYear = key[1] /\ Calendar[d].isoWeek = key[2]
    <3>1. WeekOf(d) = key <=> Calendar[d].year = key[1] /\ Calendar[d].isoWeek = key[2]
        BY <2>3 DEF WeekOf
    <3>2. Calendar[d].isoWeek = key[2] => Calendar[d].isoYear = Calendar[d].year
        BY WeekAssumption
    <3> QED BY <3>1, <3>2
  <2>5. \A i \in Dated : channel[i].day \in Days
      BY ChannelFacts DEF WalkInv
  <2>6. ReadIn(key) = {i \in Dated : /\ i <= read
                                     /\ Calendar[channel[i].day].isoYear = key[1]
                                     /\ Calendar[channel[i].day].isoWeek = key[2]}
      BY <2>4, <2>5 DEF ReadIn, Read
  <2> QED BY <2>2, <2>6 DEF Sum, ViewColumn
<1> QED BY <1>1, Invariance, PTL

===========================================================================
