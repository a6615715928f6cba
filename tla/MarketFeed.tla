-------- MODULE MarketFeed --------
(***************************************************************************)
(* The ingestion pipeline of market-data.  The loop that accepts depth     *)
(* publishes of the matching engine and the thread of the simulated feed   *)
(* each run the whole of ingestDepthPublishMessage, which takes the lock   *)
(* of one store after another: two publishes of one instrument overtake    *)
(* each other between any two of them.                                     *)
(***************************************************************************)
EXTENDS Integers, Sequences, FiniteSets, FiniteSetsExt, SequencesExt, Functions

CONSTANTS
    Feeds,                \* threads that ingest
    Listed,               \* instruments
    Publishes,            \* per feed: the messages it may bring
    CandleInterval,       \* CANDLE_INTERVAL_SECONDS
    RetainedTicks, RetainedCandles, RetainedColumns,
    AlertTerms,           \* what an alert may ask for
    Durable,              \* alerts and watchlists are in Postgres, or in memory
    LastSecond, MaxPublishes, MaxAlerts   \* bounds

VARIABLES
    second,               \* the wall clock
    feed,                 \* per thread: where its publish stands
    recentTicks, candles, \* CandleAggregator
    columns,              \* ColumnarTickStore
    alerts,               \* PriceAlertStore
    quote, quoteSeq,      \* L1QuotePublisher
    deltaSeq,             \* DeltaPublisher
    channel,              \* the broadcast channel of quotes, from its first message
    traded, checks,       \* history: trades as candles and alerts saw them
    quoted, overtaken     \* history: quotes in order; publishes that were not alone

historyVars == <<recentTicks, candles, columns, traded>>
alertVars == <<alerts, checks>>
quoteVars == <<quote, quoteSeq, channel, quoted>>
feedVars == <<second, feed, historyVars, alertVars, quoteVars, deltaSeq, overtaken>>

None == -1            \* no price on that side, or an alert that has not fired
Resting == [at |-> "idle"]
EmptyQuote == [bid |-> None, bidQuantity |-> 0, ask |-> None, askQuantity |-> 0, last |-> None]

FeedInit ==
    /\ second = 0
    /\ feed = [f \in Feeds |-> Resting]
    /\ recentTicks = [i \in Listed |-> <<>>] /\ candles = recentTicks
    /\ columns = recentTicks /\ traded = recentTicks /\ quoted = recentTicks
    /\ alerts = <<>> /\ checks = <<>> /\ channel = <<>>
    /\ quote = [i \in Listed |-> EmptyQuote]
    /\ quoteSeq = [i \in Listed |-> 0] /\ deltaSeq = quoteSeq
    /\ overtaken = {}

Published == FoldFunction(LAMBDA n, sum : n + sum, 0, quoteSeq)
InHand == {f \in Feeds : feed[f] # Resting}

FeedTick ==
    /\ second < LastSecond /\ second' = second + 1
    /\ UNCHANGED <<feed, historyVars, alertVars, quoteVars, deltaSeq, overtaken>>
--------------------
\* The time of all trades of a publish is taken before any lock.
TakePublish(f, p) ==
    /\ feed[f] = Resting
    /\ Published + Cardinality(InHand) < MaxPublishes
    /\ feed' = [feed EXCEPT ![f] =
          [at |-> IF p.trades = <<>> THEN "quote" ELSE "candles",
           publish |-> p, second |-> second, next |-> 1]]
    /\ overtaken' = overtaken \union {i \in {p.symbol} : \E g \in InHand : feed[g].publish.symbol = i}
    /\ UNCHANGED <<second, historyVars, alertVars, quoteVars, deltaSeq>>

AppendRetaining(s, item, retained) ==
    IF Len(s) < retained THEN Append(s, item) ELSE Append(Tail(s), item)

BucketOf(t) == (t \div CandleInterval) * CandleInterval

\* recordTradeWithAggressorSide: only the newest candle is ever added to.
AddToCandles(history, tick) ==
    LET bucket == BucketOf(tick.second)
        price == tick.price
    IN IF history # <<>> /\ Last(history).bucket = bucket
       THEN [history EXCEPT ![Len(history)] =
                [@ EXCEPT !.high = IF price > @ THEN price ELSE @,
                          !.low = IF price < @ THEN price ELSE @,
                          !.close = price, !.volume = @ + tick.quantity]]
       ELSE AppendRetaining(history,
                [bucket |-> bucket, open |-> price, high |-> price, low |-> price,
                 close |-> price, volume |-> tick.quantity], RetainedCandles)

TicksOf(v) ==
    [n \in DOMAIN v.publish.trades |-> [second |-> v.second, price |-> v.publish.trades[n].price,
                                        quantity |-> v.publish.trades[n].quantity]]

RecordTrades(f) ==
    LET v == feed[f]  i == v.publish.symbol IN
    /\ v.at = "candles"
    /\ candles' = [candles EXCEPT ![i] = FoldLeft(AddToCandles, @, TicksOf(v))]
    /\ recentTicks' = [recentTicks EXCEPT ![i] =
          FoldLeft(LAMBDA s, tick : AppendRetaining(s, tick, RetainedTicks), @, TicksOf(v))]
    /\ traded' = [traded EXCEPT ![i] = @ \o TicksOf(v)]
    /\ feed' = [feed EXCEPT ![f].at = "columns"]
    /\ UNCHANGED <<second, columns, alertVars, quoteVars, deltaSeq, overtaken>>

\* The next trade of the publish, or the next store when this one has them all.
Advance(f, store) ==
    feed' = [feed EXCEPT ![f] =
        IF @.next < Len(@.publish.trades) THEN [@ EXCEPT !.next = @ + 1]
        ELSE [@ EXCEPT !.next = 1, !.at = store]]

AppendTick(f) ==
    LET v == feed[f] IN
    /\ v.at = "columns"
    /\ columns' = [columns EXCEPT ![v.publish.symbol] =
                      AppendRetaining(@, TicksOf(v)[v.next], RetainedColumns)]
    /\ Advance(f, "alerts")
    /\ UNCHANGED <<second, recentTicks, candles, traded, alertVars, quoteVars, deltaSeq, overtaken>>

IsCrossed(alert, price) ==
    IF alert.above THEN price >= alert.threshold ELSE price <= alert.threshold

\* An update that does not reach Postgres triggers nothing and is not tried again.
CheckAlerts(f) ==
    LET v == feed[f]  i == v.publish.symbol  price == v.publish.trades[v.next].price IN
    /\ v.at = "alerts"
    /\ \/ /\ alerts' = [n \in DOMAIN alerts |->
                IF /\ alerts[n].triggeredAt = None /\ alerts[n].symbol = i
                   /\ IsCrossed(alerts[n], price)
                THEN [alerts[n] EXCEPT !.triggeredAt = v.second] ELSE alerts[n]]
          /\ checks' = Append(checks, [symbol |-> i, price |-> price, second |-> v.second])
       \/ Durable /\ UNCHANGED alertVars
    /\ Advance(f, "quote")
    /\ UNCHANGED <<second, historyVars, quoteVars, deltaSeq, overtaken>>

CreateAlert(terms) ==
    /\ Len(alerts) < MaxAlerts
    /\ alerts' = Append(alerts, [symbol |-> terms.symbol, above |-> terms.above,
                                 threshold |-> terms.threshold, triggeredAt |-> None,
                                 since |-> Len(checks)])
    /\ UNCHANGED <<second, feed, historyVars, checks, quoteVars, deltaSeq, overtaken>>

\* A publish carries every resting level, so the top of the book is that of the publish;
\* a price at which nothing is left is not part of it.
TopOf(levels, isBid) ==
    LET resting == {l \in levels : l.isBid = isBid /\ l.quantity > 0} IN
    IF resting = {} THEN [price |-> None, quantity |-> 0]
    ELSE CHOOSE l \in resting : \A m \in resting :
            IF isBid THEN m.price <= l.price ELSE l.price <= m.price

QuoteAfter(p, previous) ==
    LET bid == TopOf(p.levels, TRUE)  ask == TopOf(p.levels, FALSE) IN
    [bid |-> bid.price, bidQuantity |-> bid.quantity,
     ask |-> ask.price, askQuantity |-> ask.quantity,
     last |-> IF p.trades = <<>> THEN previous.last ELSE Last(p.trades).price]

\* The sink sends to the channel while the publisher's lock is held.
ApplyDepthPublish(f) ==
    LET v == feed[f]  i == v.publish.symbol
        updated == QuoteAfter(v.publish, quote[i])
    IN /\ v.at = "quote"
       /\ quote' = [quote EXCEPT ![i] = updated]
       /\ quoteSeq' = [quoteSeq EXCEPT ![i] = @ + 1]
       /\ channel' = Append(channel, [symbol |-> i, seq |-> quoteSeq[i] + 1, quote |-> updated])
       /\ quoted' = [quoted EXCEPT ![i] = Append(@, updated)]
       /\ feed' = [feed EXCEPT ![f].at = "deltas"]
       /\ UNCHANGED <<second, historyVars, alertVars, deltaSeq, overtaken>>

PublishDeltas(f) ==
    /\ feed[f].at = "deltas"
    /\ deltaSeq' = [deltaSeq EXCEPT ![feed[f].publish.symbol] = @ + 1]
    /\ feed' = [feed EXCEPT ![f] = Resting]
    /\ UNCHANGED <<second, historyVars, alertVars, quoteVars, overtaken>>

Ingest(f) ==
    \/ RecordTrades(f) \/ AppendTick(f) \/ CheckAlerts(f)
    \/ ApplyDepthPublish(f) \/ PublishDeltas(f)

\* columnarTickStore.rs:137: both bounds are binary searches, which count the ticks in
\* front when the times are in order.
CountBefore(ticks, P(_)) == Cardinality({n \in DOMAIN ticks : P(ticks[n].second)})

RangeQuery(i, from, to) ==
    SubSeq(columns[i], CountBefore(columns[i], LAMBDA t : t < from) + 1,
                       CountBefore(columns[i], LAMBDA t : t <= to))
--------------------
Alone == Listed \ overtaken

\* candleAggregator.rs:78: a bucket has one candle, made of all its trades, and a range of
\* columnarTickStore.rs:137 finds all of its ticks: unless two feeds handled the instrument
\* at once, whose times are then out of order, against columnarTickStore.rs:31-35.
HistoryFollowsTheTrades ==
    \A i \in Alone :
        /\ \A n \in DOMAIN candles[i] :
              LET c == candles[i][n]
                  own == {m \in DOMAIN traded[i] :
                             traded[i][m].second \in c.bucket .. c.bucket + CandleInterval - 1}
                  prices == {traded[i][m].price : m \in own}
              IN /\ c.open = traded[i][Min(own)].price /\ c.close = traded[i][Max(own)].price
                 /\ c.high = Max(prices) /\ c.low = Min(prices)
                 /\ c.volume = FoldSet(LAMBDA m, sum : traded[i][m].quantity + sum, 0, own)
        /\ \A m \in DOMAIN traded[i], n \in DOMAIN candles[i] :
              candles[i][n].bucket <= BucketOf(traded[i][m].second) =>
                  \E k \in DOMAIN candles[i] : candles[i][k].bucket = BucketOf(traded[i][m].second)
        /\ \A from \in 0 .. LastSecond : \A to \in from .. LastSecond :
              RangeQuery(i, from, to) =
                  SelectSeq(columns[i], LAMBDA tick : tick.second \in from .. to)

\* pricealerts.rs:1-6: an alert fires once, at the first trade checked after it was made
\* that crosses its threshold.
AlertsFireAtTheFirstCrossing ==
    \A n \in DOMAIN alerts :
        LET crossing == {m \in alerts[n].since + 1 .. Len(checks) :
                            /\ checks[m].symbol = alerts[n].symbol
                            /\ IF alerts[n].above THEN checks[m].price >= alerts[n].threshold
                               ELSE checks[m].price <= alerts[n].threshold}
        IN alerts[n].triggeredAt =
              IF crossing = {} THEN None ELSE checks[Min(crossing)].second

\* main.rs:324-333: every sink of the pipeline sees every publish once; and when no publish
\* is in hand and none met another, they agree on the last trade.
SinksAgree ==
    InHand = {} =>
        \A i \in Listed :
            /\ quoteSeq[i] = deltaSeq[i]
            /\ Len(columns[i]) = Min({RetainedColumns, Len(traded[i])})
            /\ Len(recentTicks[i]) = Min({RetainedTicks, Len(traded[i])})
            /\ (i \in Alone /\ traded[i] # <<>>) =>
                  /\ quote[i].last = Last(recentTicks[i]).price
                  /\ quote[i].last = Last(columns[i]).price
                  /\ quote[i].last = Last(candles[i]).close
====================
