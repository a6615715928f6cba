-------- MODULE MarketViews --------
(***************************************************************************)
(* What market-data shows beside quotes: the volume profile and the order  *)
(* flow footprint of a range of ticks, and an account's watchlist, which   *)
(* devices follow by asking for the changes after their last cursor.       *)
(***************************************************************************)
EXTENDS MarketFeed

CONSTANTS
    CandidateTicks,       \* sequences of ticks a profile is asked for
    BucketSizes, Fractions, FootprintInterval,
    Devices, WatchedSymbols,
    LastMilli, MaxChanges \* bounds

VARIABLES
    profile,              \* the profile a request computed
    watched, changeLog,   \* AccountWatchlistState
    milli,                \* the wall clock of the HTTP server
    device,               \* per device: its copy, its cursor, what it was sent and (history)
                          \* whether a read failed under it since it fetched the list
    unlogged              \* history: symbols of which a change did not reach the log

watchVars == <<watched, changeLog, milli, device, unlogged>>
viewVars == <<profile, watchVars>>

NoProfile == [size |-> 0]

ViewsInit ==
    /\ profile = NoProfile
    /\ watched = {} /\ changeLog = <<>> /\ milli = 1 /\ unlogged = {}
    /\ device = [d \in Devices |-> [copy |-> {}, cursor |-> 0, sent |-> <<>>, read |-> 0,
                                misled |-> FALSE]]
--------------------
bucketStartForPrice(price, size) == price - (price % size)

\* The quantity of the ticks at the given places.
VolumeAt(ticks, places) == FoldSet(LAMBDA n, sum : ticks[n].quantity + sum, 0, places)

volumeByBucket(ticks, size) ==
    [b \in {bucketStartForPrice(ticks[n].price, size) : n \in DOMAIN ticks} |->
        VolumeAt(ticks, {n \in DOMAIN ticks : bucketStartForPrice(ticks[n].price, size) = b})]

VolumeWithin(v, area) ==
    FoldSet(LAMBDA b, sum : v[b] + sum, 0, {b \in DOMAIN v : b \in area.low .. area.high})

\* Ties go to the lower price.
PointOfControl(v) == Min({b \in DOMAIN v : \A c \in DOMAIN v : v[c] <= v[b]})

\* Occupied buckets beyond an edge, reached in steps of the bucket size.
Outward(v, edge, size, up) ==
    {b \in DOMAIN v : (b - edge) % size = 0 /\ (IF up THEN b > edge ELSE b < edge)}

GrowArea(v, area, size) ==
    LET below == Outward(v, area.low, size, FALSE)
        above == Outward(v, area.high, size, TRUE)
        downwards == [area EXCEPT !.low = Max(below)]
        upwards == [area EXCEPT !.high = Min(above)]
    IN CASE below = {} /\ above = {} -> area
         [] above = {} /\ below # {} -> downwards
         [] below = {} /\ above # {} -> upwards
         [] OTHER -> IF v[Max(below)] >= v[Min(above)] THEN downwards ELSE upwards

Target(v, percent) ==
    LET total == FoldFunction(LAMBDA n, sum : n + sum, 0, v) IN (total * percent + 99) \div 100

computeValueAreaRange(v, percent, size) ==
    LET poc == PointOfControl(v)
        grown[n \in 0 .. Cardinality(DOMAIN v)] ==
            IF n = 0 THEN [low |-> poc, high |-> poc]
            ELSE IF VolumeWithin(v, grown[n - 1]) >= Target(v, percent) THEN grown[n - 1]
            ELSE GrowArea(v, grown[n - 1], size)
    IN grown[Cardinality(DOMAIN v)]

\* Per candle and bucket, what buyers and what sellers set off.
computeOrderFlowFootprint(ticks, size) ==
    LET cell(n) == <<ticks[n].second \div FootprintInterval, bucketStartForPrice(ticks[n].price, size)>>
        In(c, buy) == {n \in DOMAIN ticks : cell(n) = c /\ ticks[n].buy = buy}
    IN [c \in {cell(n) : n \in DOMAIN ticks} |->
           [bought |-> VolumeAt(ticks, In(c, TRUE)), sold |-> VolumeAt(ticks, In(c, FALSE))]]

\* Time-price opportunities: in how many intervals a bucket was touched.
tpoCountsByPriceBucket(ticks, size) ==
    LET first == Min({ticks[n].second : n \in DOMAIN ticks})
        touched == {<<(ticks[n].second - first) \div FootprintInterval,
                      bucketStartForPrice(ticks[n].price, size)>> : n \in DOMAIN ticks}
    IN [b \in {t[2] : t \in touched} |-> Cardinality({t \in touched : t[2] = b})]

ViewProfile ==
    /\ profile = NoProfile
    /\ \E ticks \in CandidateTicks, size \in BucketSizes, percent \in Fractions :
          LET v == volumeByBucket(ticks, size) IN
          profile' = [ticks |-> ticks, size |-> size, percent |-> percent, levels |-> v,
                      area |-> computeValueAreaRange(v, percent, size),
                      footprint |-> computeOrderFlowFootprint(ticks, size),
                      counts |-> tpoCountsByPriceBucket(ticks, size)]
    /\ UNCHANGED watchVars
--------------------
(* watchlist: one thread serves every request *)

MilliPasses ==
    /\ milli < LastMilli /\ milli' = milli + 1
    /\ UNCHANGED <<profile, watched, changeLog, device, unlogged>>

\* In Postgres the change is entered by a statement of its own, whose failure is ignored.
LogChange(symbol, added) ==
    \/ /\ changeLog' = Append(changeLog, [milli |-> milli, symbol |-> symbol, added |-> added])
       /\ UNCHANGED unlogged
    \/ Durable /\ unlogged' = unlogged \union {symbol} /\ UNCHANGED changeLog

ChangesLeft == Len(changeLog) + Cardinality(unlogged) < MaxChanges

addSymbol(symbol) ==
    /\ symbol \notin watched /\ ChangesLeft
    /\ watched' = watched \union {symbol}
    /\ LogChange(symbol, TRUE)
    /\ UNCHANGED <<profile, milli, device>>

removeSymbol(symbol) ==
    /\ symbol \in watched /\ ChangesLeft
    /\ watched' = watched \ {symbol}
    /\ LogChange(symbol, FALSE)
    /\ UNCHANGED <<profile, milli, device>>

\* Places in the log, oldest first.
ChangedAfter(cursor) == SetToSortSeq({n \in DOMAIN changeLog : changeLog[n].milli > cursor}, <)
LastModified == Max({0} \union {changeLog[n].milli : n \in DOMAIN changeLog})

ApplyChange(symbols, n) ==
    IF changeLog[n].added THEN symbols \union {changeLog[n].symbol}
    ELSE symbols \ {changeLog[n].symbol}

\* A read of Postgres that fails is answered with nothing, without saying so.
Answers(read, nothing) == {read} \union (IF Durable THEN {nothing} ELSE {})

\* The device enters the changes and keeps the newest stamp as its next cursor.
changesForAccountSince(d) ==
    LET newer == ChangedAfter(device[d].cursor) IN
    /\ \E changes \in Answers(newer, <<>>), stamp \in Answers(LastModified, 0) :
          LET misled == device[d].misled \/ changes # newer \/ stamp # LastModified IN
          device' = [device EXCEPT ![d] =
             [copy |-> FoldLeft(ApplyChange, @.copy, changes), cursor |-> stamp,
              sent |-> IF misled THEN <<>> ELSE @.sent \o changes,
              read |-> Len(changeLog), misled |-> misled]]
    /\ UNCHANGED <<profile, watched, changeLog, milli, unlogged>>

\* GET /watchlist: the whole list and its stamp.
symbolsForAccount(d) ==
    /\ \E symbols \in Answers(watched, {}), stamp \in Answers(LastModified, 0) :
          device' = [device EXCEPT ![d] =
             [copy |-> symbols, cursor |-> stamp,
              sent |-> [n \in DOMAIN changeLog |-> n], read |-> Len(changeLog),
              misled |-> symbols # watched \/ stamp # LastModified]]
    /\ UNCHANGED <<profile, watched, changeLog, milli, unlogged>>

WatchNext ==
    \/ MilliPasses
    \/ \E symbol \in WatchedSymbols : addSymbol(symbol) \/ removeSymbol(symbol)
    \/ \E d \in Devices : changesForAccountSince(d) \/ symbolsForAccount(d)
--------------------
\* volumeProfileAggregator.rs:56-65: the value area is around the point of control, holds
\* the share asked for or everything, and cut at one of its ends it would not (it is grown
\* greedily, so the smallest range, of which :36-39 speaks, may be another one); levels,
\* footprint and counts tell of every tick.
ProfilesShowTheTicks ==
    profile # NoProfile =>
        LET v == profile.levels  a == profile.area
            all == VolumeAt(profile.ticks, DOMAIN profile.ticks)
            inside(low, high) == VolumeWithin(v, [low |-> low, high |-> high])
            enough(low, high) == 100 * inside(low, high) >= profile.percent * all
        IN /\ \A b \in DOMAIN v : v[b] <= v[PointOfControl(v)]
           /\ PointOfControl(v) \in a.low .. a.high
           /\ enough(a.low, a.high) \/ inside(a.low, a.high) = all
           /\ a.low # a.high =>
                 \/ a.low # PointOfControl(v) /\ ~enough(a.low + 1, a.high)
                 \/ a.high # PointOfControl(v) /\ ~enough(a.low, a.high - 1)
           /\ inside(Min(DOMAIN v), Max(DOMAIN v)) = all
           /\ FoldFunction(LAMBDA c, sum : c.bought + c.sold + sum, 0, profile.footprint) = all
           /\ \A b \in DOMAIN v : profile.counts[b] \in 1 .. Cardinality(
                 {n \in DOMAIN profile.ticks : bucketStartForPrice(profile.ticks[n].price, profile.size) = b})

\* watchlist.rs:293-300: no change is sent twice; and a device that follows the changes,
\* no read of Postgres having failed since it fetched the list (a failed one is answered
\* with an empty list), shows the list as it was when it last asked, but for symbols whose change was not
\* entered, or was made in the very millisecond of a change already sent, which the
\* exclusive cursor then passes over (the case watchlist.rs:20-28 speaks of, a thousand
\* times rarer).
DevicesFollowTheList ==
    \A d \in {e \in Devices : ~device[e].misled} :
        LET v == device[d]
            seen == 1 .. v.read
            passed == seen \ Range(v.sent)
        IN /\ IsInjective(v.sent)
           /\ \A n \in passed : \E m \in 1 .. n - 1 : changeLog[m].milli = changeLog[n].milli
           /\ v.read = Len(changeLog) =>
                 \A symbol \in WatchedSymbols \ (unlogged \union {changeLog[n].symbol : n \in passed}) :
                    symbol \in v.copy <=> symbol \in watched
====================
