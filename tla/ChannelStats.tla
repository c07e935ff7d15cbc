--------------------------- MODULE ChannelStats ---------------------------
(***************************************************************************)
(* The statistics of a channel: _collect_stat_info of                      *)
(* src/modules/scraping/service.py, which walks through the latest         *)
(* messages and sorts them into buckets of days, weeks and months, and the *)
(* attempts of scrape_platform around it, each of which may break off in   *)
(* the middle of the walk and leaves it to the next to start again.        *)
(*                                                                         *)
(* The calendar is a parameter; in ISO 8601 the week of a day may belong   *)
(* to the year before or after the day's own.                              *)
(***************************************************************************)
EXTENDS Integers, Sequences, FiniteSets, Functions

CONSTANTS
    Days,      \* days with messages
    NoDay,     \* the date of a message without one
    Calendar,  \* [Days -> [year, month, isoYear, isoWeek]]
    Menu,      \* messages a channel may hold
    Limit,     \* MAX_MSG_ANALYZE
    Attempts   \* _MAX_SCRAPE_RETRIES

Message == [day : Days \cup {NoDay}, views : Nat, replies : Nat, forwards : Nat,
            reactions : Nat, media : {"none", "photo", "video", "other"}, urls : Nat]

ASSUME MenuAssumption     == Menu \subseteq Message /\ NoDay \notin Days
ASSUME CalendarAssumption ==
    Calendar \in [Days -> [year : Nat, month : 1 .. 12, isoYear : Nat, isoWeek : 1 .. 53]]
\* Weeks are of the year of their Thursday: only those at the ends of a year have
\* days of two years.
ASSUME WeekAssumption     ==
    \A d \in Days : Calendar[d].isoWeek \in 2 .. 51 => Calendar[d].isoYear = Calendar[d].year
ASSUME LimitsAssumption   == {Limit, Attempts} \subseteq Nat \ {0}

VARIABLES
    channel,  \* the latest messages of the channel, at most Limit
    read,     \* how many of them the walk has seen
    total,    \* images_count, videos_count, ... and messages_count
    daily,    \* daily_views: a bucket per day that has one
    weekly,   \* weekly_views
    monthly,  \* monthly_views
    attempt,  \* the attempt of scrape_platform
    pc,       \* "walking", "reported" or "failed"
    report    \* what the attempt returned

buckets == <<daily, weekly, monthly>>
vars    == <<channel, read, total, buckets, attempt, pc, report>>

NoTotal == [messages |-> 0, images |-> 0, videos |-> 0, links |-> 0, reactions |-> 0,
            forwards |-> 0, replies |-> 0]
NoDaily == [views |-> 0, count |-> 0, reactions |-> 0, comments |-> 0, forwards |-> 0]
NoViews == [views |-> 0, count |-> 0]

\* The keys of the buckets: f"{d.year}-{week:02d}" and the like.
DayKeys   == Days
WeekKeys  == {<<Calendar[d].year, Calendar[d].isoWeek>> : d \in Days}
MonthKeys == {<<Calendar[d].year, Calendar[d].month>> : d \in Days}

TypeOK ==
    /\ channel \in Seq(Menu) /\ Len(channel) <= Limit
    /\ read \in 0 .. Len(channel)
    /\ total \in [DOMAIN NoTotal -> Nat]
    /\ DOMAIN daily \subseteq DayKeys
    /\ \A k \in DOMAIN daily : daily[k] \in [DOMAIN NoDaily -> Nat]
    /\ DOMAIN weekly \subseteq WeekKeys
    /\ DOMAIN monthly \subseteq MonthKeys
    /\ \A f \in {weekly, monthly} : \A k \in DOMAIN f : f[k] \in [DOMAIN NoViews -> Nat]
    /\ attempt \in 1 .. Attempts
    /\ pc \in {"walking", "reported", "failed"}

Empty == /\ read' = 0 /\ total' = NoTotal
         /\ daily' = <<>> /\ weekly' = <<>> /\ monthly' = <<>>

Init ==
    /\ \E n \in 0 .. Limit : channel \in [1 .. n -> Menu]
    /\ read = 0 /\ total = NoTotal
    /\ daily = <<>> /\ weekly = <<>> /\ monthly = <<>>
    /\ attempt = 1
    /\ pc = "walking" /\ report = <<>>

---------------------------------------------------------------------------
(* The walk                                                                *)

\* Adding to a bucket of a defaultdict.
Plus(a, b) == [field \in DOMAIN a |-> a[field] + b[field]]
Into(f, key, new, zero) ==
    [k \in DOMAIN f \cup {key} |->
        IF k # key THEN f[k] ELSE Plus(IF key \in DOMAIN f THEN f[key] ELSE zero, new)]

\* Faulty: weeks without their year.
WeekOnly(d) == <<CHOOSE y \in {Calendar[e].year : e \in Days} : TRUE, Calendar[d].isoWeek>>
WeekOf(d)   == <<Calendar[d].year, Calendar[d].isoWeek>>

\* Faulty: months without their year.
MonthOnly(d) == <<Calendar[d].month>>
MonthOf(d)   == <<Calendar[d].year, Calendar[d].month>>

CountOf(m) ==
    [messages |-> 1, images |-> IF m.media = "photo" THEN 1 ELSE 0,
     videos |-> IF m.media = "video" THEN 1 ELSE 0, links |-> m.urls,
     reactions |-> m.reactions, forwards |-> m.forwards, replies |-> m.replies]
DayOf(m) == [views |-> m.views, count |-> 1, reactions |-> m.reactions, comments |-> m.replies,
             forwards |-> m.forwards]

\* One message. One without a date is passed over; one without views opens a
\* bucket for its day only.
Take ==
    LET m == channel[read + 1]
        v == [views |-> m.views, count |-> 1]
    IN /\ pc = "walking"
       /\ read < Len(channel)
       /\ read' = read + 1
       /\ IF m.day = NoDay
          THEN UNCHANGED <<total, daily>>
          ELSE total' = Plus(total, CountOf(m)) /\ daily' = Into(daily, m.day, DayOf(m), NoDaily)
       /\ IF m.day = NoDay \/ m.views = 0
          THEN UNCHANGED <<weekly, monthly>>
          ELSE /\ weekly'  = Into(weekly, WeekOf(m.day), v, NoViews)
               /\ monthly' = Into(monthly, MonthOf(m.day), v, NoViews)
       /\ UNCHANGED <<channel, attempt, pc, report>>

\* The walk raises or times out: the next attempt starts with empty buckets.
\* Faulty: the counters outlive the attempt.
BreakOffAndKeep ==
    /\ pc = "walking"
    /\ IF attempt < Attempts
       THEN attempt' = attempt + 1 /\ read' = 0 /\ UNCHANGED <<pc, total, buckets>>
       ELSE pc' = "failed" /\ UNCHANGED <<attempt, read, total, buckets>>
    /\ UNCHANGED <<channel, report>>

BreakOff ==
    /\ pc = "walking"
    /\ IF attempt < Attempts
       THEN attempt' = attempt + 1 /\ Empty /\ UNCHANGED pc
       ELSE pc' = "failed" /\ UNCHANGED <<attempt, read, total, buckets>>
    /\ UNCHANGED <<channel, report>>

---------------------------------------------------------------------------
(* The report                                                              *)

Views(f)   == SumFunction([k \in DOMAIN f |-> f[k].views])
Per(n, f)  == IF DOMAIN f = {} THEN 0 ELSE n \div Cardinality(DOMAIN f)
Average(f) == Per(Views(f), f)

\* The value at position r (from 0) of the buckets' views in ascending order.
AtRank(f, r) ==
    CHOOSE v \in {f[k].views : k \in DOMAIN f} :
        /\ Cardinality({k \in DOMAIN f : f[k].views < v}) <= r
        /\ Cardinality({k \in DOMAIN f : f[k].views <= v}) > r

\* statistics.median, truncated.
Median(f) ==
    LET n == Cardinality(DOMAIN f)
    IN IF n = 0 THEN 0 ELSE (AtRank(f, (n - 1) \div 2) + AtRank(f, n \div 2)) \div 2

Report ==
    /\ pc = "walking"
    /\ read = Len(channel)
    /\ pc' = "reported"
    /\ report' = [views    |-> <<Average(daily), Average(weekly), Average(monthly)>>,
                  medians  |-> <<Median(daily), Median(weekly), Median(monthly)>>,
                  messages |-> <<Per(total.messages, daily), Per(total.messages, weekly),
                                 Per(total.messages, monthly)>>,
                  total    |-> total,
                  metrics  |-> daily]
    /\ UNCHANGED <<channel, read, total, buckets, attempt>>

Next == Take \/ BreakOff \/ Report

Spec == Init /\ [][Next]_vars

---------------------------------------------------------------------------
(* Properties                                                              *)

Dated         == {i \in DOMAIN channel : channel[i].day # NoDay}
Sum(I, Of(_)) == SumFunctionOnSet([i \in DOMAIN channel |-> Of(channel[i])], I)

\* At most half of the buckets are above the median, and at most half below.
Splits(median, f) ==
    /\ 2 * Cardinality({k \in DOMAIN f : f[k].views < median}) <= Cardinality(DOMAIN f)
    /\ 2 * Cardinality({k \in DOMAIN f : f[k].views > median}) <= Cardinality(DOMAIN f)

\* The report is that of the channel, every dated message counted once, also
\* when earlier attempts have broken off: totals and days are sums over the
\* messages of the channel and of the day, the average is over the days that
\* have messages, the medians split their buckets (service.py:237-283).
ReportIsOfChannel ==
    pc = "reported" =>
        /\ report.total = [f \in DOMAIN NoTotal |-> Sum(Dated, LAMBDA m : CountOf(m)[f])]
        /\ report.metrics =
             [d \in {channel[i].day : i \in Dated} |->
                [f \in DOMAIN NoDaily |->
                    Sum({i \in Dated : channel[i].day = d}, LAMBDA m : DayOf(m)[f])]]
        /\ Dated # {} =>
             LET n == Cardinality({channel[i].day : i \in Dated})
             IN Sum(Dated, LAMBDA m : m.views) - n * report.views[1] \in 0 .. n - 1
        /\ Splits(report.medians[1], daily)
        /\ Splits(report.medians[2], weekly)
        /\ Splits(report.medians[3], monthly)

\* A week's bucket is one week: it holds the views of all messages of an ISO
\* week read so far and of no other, save at the turn of a year, where week 1
\* of the next year and week 52 or 53 of the last go under the day's own year
\* (service.py:199).
WeeksAreWeeks ==
    \A key \in DOMAIN weekly :
        key[2] \in 2 .. 51 =>
            weekly[key].views =
                Sum({i \in Dated : i <= read
                        /\ Calendar[channel[i].day].isoYear = key[1]
                        /\ Calendar[channel[i].day].isoWeek = key[2]},
                    LAMBDA m : m.views)

===========================================================================
