-------- MODULE OrderBookCore --------
(***************************************************************************)
(* The order book of one instrument: price-time-priority matching and the  *)
(* pool of stop orders that trades arm (orderBookCore.rs).                 *)
(*                                                                         *)
(* One thread owns the book.  A call is split into the iterations of its   *)
(* loops: one fill of the incoming order against the oldest resting order  *)
(* at the best opposite price, and one triggered stop order.  The client   *)
(* account and the trade records are left out; what was filled, and what   *)
(* left the book without being filled, is counted for each order.          *)
(***************************************************************************)
EXTENDS Integers, Sequences, SequencesExt, FiniteSetsExt

CONSTANTS
    LowestPrice, HighestPrice,   \* the range of the i64 prices in minor units
    NoPrice,          \* Option::None where a price may be
    Menu,             \* the order requests clients submit
    MaxSubmissions    \* bound: orders submitted over the behaviour

Prices == LowestPrice .. HighestPrice

Sides == {"Buy", "Sell"}
Types == {"Limit", "Market", "StopLossLimit", "StopLossMarket"}
Requests == [side : Sides, type : Types, limit : Prices,
             trigger : Prices \cup {NoPrice}, quantity : Nat]

ASSUME PricesAssumption ==
    LowestPrice \in Int /\ HighestPrice \in Int /\ NoPrice \notin Prices
ASSUME MenuAssumption == Menu \subseteq Requests /\ Menu # {}
ASSUME BoundAssumption == MaxSubmissions \in Nat

VARIABLES
    resting,          \* side -> price -> FIFO queue of resting orders
    pendingStops,     \* armed stop orders, in submission order
    lastTradedPrice,  \* price of the most recent trade, NoPrice before one
    nextId,           \* the next order sequence number
    incoming,         \* the order being matched
    latestFill,       \* price of the latest fill of the order being matched
    pc,               \* where the matching-core thread is
    requests,         \* the request each id was given to
    filled,           \* quantity of each id traded
    withdrawn,        \* quantity of each id cancelled or dropped
    arrivals          \* how many orders have come to rest

book   == <<resting, pendingStops, lastTradedPrice, nextId>>
thread == <<incoming, latestFill, pc>>
ghosts == <<requests, filled, withdrawn, arrivals>>
bookVars == <<book, thread, ghosts>>

--------------------
Opposite(side) == IF side = "Buy" THEN "Sell" ELSE "Buy"

Resting == [id : Nat, quantity : Nat \ {0}, arrival : Nat]

Order(id, request) == [id |-> id, request |-> request, quantity |-> request.quantity]
NoOrder == [id |-> 0, request |-> CHOOSE r \in Menu : TRUE, quantity |-> 0]
Orders == [id : Nat, request : Requests, quantity : Nat]

PricesWithOrders(side) == {p \in Prices : resting[side][p] # <<>>}

\* Mutant: the first key of the sorted map, whichever the side.
IsFirstKey(side, p) ==
    /\ p \in PricesWithOrders(side)
    /\ \A q \in PricesWithOrders(side) : q >= p

\* The places of the book, and the order at a place.
RestingEntries ==
    UNION {{<<s, p, i>> : i \in 1 .. Len(resting[s][p])} : s \in Sides, p \in Prices}
EntryAt(l) == resting[l[1]][l[2]][l[3]]

IsBest(side, p) ==
    /\ p \in PricesWithOrders(side)
    /\ \A q \in PricesWithOrders(side) : IF side = "Buy" THEN q <= p ELSE q >= p

\* Mutant: equal prices do not trade.
CrossesStrictly(order, p) ==
    \/ order.request.type = "Market"
    \/ IF order.request.side = "Buy" THEN p < order.request.limit
                                     ELSE p > order.request.limit

\* A price on the other side at which the incoming order trades.
Crosses(order, p) ==
    \/ order.request.type = "Market"
    \/ IF order.request.side = "Buy" THEN p <= order.request.limit
                                     ELSE p >= order.request.limit

\* isStopOrderTriggeredAtPrice
IsTriggered(order, price) ==
    IF order.request.side = "Buy" THEN price >= order.request.trigger
                                  ELSE price <= order.request.trigger

\* The scan of the pool stops at the first order that is triggered, or that
\* makes the trigger test panic for want of a trigger price.  Before the first
\* trade there is no scan.
StopsTheScan(order) ==
    /\ lastTradedPrice # NoPrice
    /\ order.request.trigger # NoPrice => IsTriggered(order, lastTradedPrice)

--------------------
BookInit ==
    /\ resting = [side \in Sides |-> [p \in Prices |-> <<>>]]
    /\ pendingStops = <<>> /\ lastTradedPrice = NoPrice /\ nextId = 1
    /\ incoming = NoOrder
    /\ latestFill = NoPrice /\ pc = "idle"
    /\ requests = <<>> /\ filled = <<>> /\ withdrawn = <<>> /\ arrivals = 0

\* submitIncomingOrder takes the next id ...
TakeId(request) ==
    /\ pc = "idle" /\ nextId <= MaxSubmissions
    /\ nextId' = nextId + 1
    /\ requests' = Append(requests, request)
    /\ filled' = Append(filled, 0) /\ withdrawn' = Append(withdrawn, 0)

\* ... and matches a live order,
SubmitLive(request) ==
    /\ request.type \in {"Limit", "Market"}
    /\ TakeId(request)
    /\ incoming' = Order(nextId, request)
    /\ pc' = "matching"
    /\ UNCHANGED <<resting, pendingStops, lastTradedPrice, latestFill, arrivals>>

\* ... or arms a stop order.
SubmitStop(request) ==
    /\ request.type \in {"StopLossLimit", "StopLossMarket"}
    /\ TakeId(request)
    /\ pendingStops' = Append(pendingStops, Order(nextId, request))
    /\ pc' = "triggering"
    /\ UNCHANGED <<resting, lastTradedPrice, incoming, latestFill, arrivals>>

\* Mutant: the whole of the oldest order is executed, whatever is wanted.
FillWhole(side, p) ==
    LET oldest == Head(resting[side][p])
    IN  /\ resting' = [resting EXCEPT ![side][p] = Tail(@)]
        /\ incoming' = [incoming EXCEPT !.quantity = @ - oldest.quantity]
        /\ filled' = [id \in DOMAIN filled |->
              filled[id] + IF id \in {oldest.id, incoming.id} THEN oldest.quantity ELSE 0]
        /\ latestFill' = p
        /\ UNCHANGED <<pendingStops, lastTradedPrice, nextId, pc, requests, withdrawn, arrivals>>

\* One iteration of the inner matching loop, against the oldest order at price p
\* of the given side; an order filled to its end leaves the queue.
Fill(side, p) ==
    LET oldest   == Head(resting[side][p])
        executed == IF incoming.quantity < oldest.quantity
                    THEN incoming.quantity ELSE oldest.quantity
        left     == oldest.quantity - executed
    IN  /\ resting' = [resting EXCEPT ![side][p] =
              IF left = 0 THEN Tail(@) ELSE [@ EXCEPT ![1].quantity = left]]
        /\ incoming' = [incoming EXCEPT !.quantity = @ - executed]
        /\ filled' = [id \in DOMAIN filled |->
              filled[id] + IF id \in {oldest.id, incoming.id} THEN executed ELSE 0]
        /\ latestFill' = p
        /\ UNCHANGED <<pendingStops, lastTradedPrice, nextId, pc, requests, withdrawn, arrivals>>

\* Mutant: the loop goes on with an order that wants nothing more.
CanFillForNothing(p) ==
    /\ pc = "matching"
    /\ IsBest(Opposite(incoming.request.side), p)
    /\ Crosses(incoming, p)

CanFill(p) ==
    /\ pc = "matching" /\ incoming.quantity > 0
    /\ IsBest(Opposite(incoming.request.side), p)
    /\ Crosses(incoming, p)

\* matchIncomingBuyOrderAgainstRestingSellOrders, one iteration
FillAgainstBestSell ==
    /\ incoming.request.side = "Buy"
    /\ \E p \in Prices : CanFill(p) /\ Fill("Sell", p)

\* matchIncomingSellOrderAgainstRestingBuyOrders, one iteration
FillAgainstBestBuy ==
    /\ incoming.request.side = "Sell"
    /\ \E p \in Prices : CanFill(p) /\ Fill("Buy", p)

\* The loops are over: matchAndRecordLastPrice.
MatchingEnds ==
    /\ pc = "matching" /\ ~\E p \in Prices : CanFill(p)
    /\ lastTradedPrice' = IF latestFill = NoPrice THEN lastTradedPrice ELSE latestFill
    /\ incoming' = NoOrder /\ latestFill' = NoPrice
    /\ pc' = "triggering"

\* restRemainingBuyOrderOnBook and restRemainingSellOrderOnBook: the remainder
\* of a limit order joins the end of the queue at its price, under its own id.
RestRemainder ==
    /\ MatchingEnds
    /\ incoming.request.type = "Limit" /\ incoming.quantity > 0
    /\ resting' = [resting EXCEPT ![incoming.request.side][incoming.request.limit] =
          Append(@, [id |-> incoming.id, quantity |-> incoming.quantity, arrival |-> arrivals])]
    /\ arrivals' = arrivals + 1
    /\ UNCHANGED <<pendingStops, nextId, requests, filled, withdrawn>>

\* The remainder of a market order, or nothing, is dropped.
DropRemainder ==
    /\ MatchingEnds
    /\ incoming.request.type # "Limit" \/ incoming.quantity = 0
    /\ withdrawn' = [withdrawn EXCEPT ![incoming.id] = @ + incoming.quantity]
    /\ UNCHANGED <<resting, pendingStops, nextId, requests, filled, arrivals>>

\* Mutant: every triggered order is matched as a market order.
AlwaysMarket(type) == "Market"

\* The type a triggered stop order is matched with.
LiveType(type) == IF type = "StopLossMarket" THEN "Market" ELSE "Limit"

\* triggerAnyEligiblePendingStopOrders, one iteration: the first triggered order
\* of the pool becomes the incoming one.
TriggerFirstEligibleStop ==
    /\ pc = "triggering"
    /\ \E i \in 1 .. Len(pendingStops) :
          /\ StopsTheScan(pendingStops[i])
          /\ \A j \in 1 .. i - 1 : ~StopsTheScan(pendingStops[j])
          /\ pendingStops[i].request.trigger # NoPrice
          /\ pendingStops' = RemoveAt(pendingStops, i)
          /\ incoming' = [pendingStops[i] EXCEPT !.request.type = LiveType(@)]
    /\ pc' = "matching"
    /\ UNCHANGED <<resting, lastTradedPrice, nextId, latestFill, ghosts>>

\* isStopOrderTriggeredAtPrice panics on a stop order without a trigger price.
TriggerTestPanics ==
    /\ pc = "triggering"
    /\ \E i \in 1 .. Len(pendingStops) :
          /\ StopsTheScan(pendingStops[i])
          /\ pendingStops[i].request.trigger = NoPrice
          /\ \A j \in 1 .. i - 1 : ~StopsTheScan(pendingStops[j])
    /\ pc' = "panicked"
    /\ UNCHANGED <<book, incoming, latestFill, ghosts>>

\* Mutant: one pass over the pool, not a loop until nothing triggers.
CallReturnsAfterOnePass ==
    /\ pc = "triggering"
    /\ pc' = "idle"
    /\ UNCHANGED <<book, incoming, latestFill, ghosts>>

\* A scan of the pool finds nothing to trigger: the call returns.
CallReturns ==
    /\ pc = "triggering"
    /\ \A i \in 1 .. Len(pendingStops) : ~StopsTheScan(pendingStops[i])
    /\ pc' = "idle"
    /\ UNCHANGED <<book, incoming, latestFill, ghosts>>

--------------------
\* cancelOrder finds the id in a queue: removeFromRestingMap takes the order out
\* of it, and the others keep their places.
CancelResting(id) ==
    /\ pc = "idle"
    /\ \E side \in Sides, p \in Prices : \E i \in 1 .. Len(resting[side][p]) :
          /\ resting[side][p][i].id = id
          /\ resting' = [resting EXCEPT ![side][p] = RemoveAt(@, i)]
          /\ withdrawn' = [withdrawn EXCEPT ![id] = @ + resting[side][p][i].quantity]
    /\ UNCHANGED <<pendingStops, lastTradedPrice, nextId, thread, requests, filled, arrivals>>

\* Mutant: the cancel is reported and the stop order stays armed.
CancelPendingInName(id) ==
    /\ pc = "idle"
    /\ \E i \in 1 .. Len(pendingStops) :
          /\ pendingStops[i].id = id
          /\ withdrawn' = [withdrawn EXCEPT ![id] = @ + pendingStops[i].quantity]
    /\ UNCHANGED <<book, thread, requests, filled, arrivals>>

\* cancelOrder finds the id in the pool.  (An id found nowhere changes nothing.)
CancelPending(id) ==
    /\ pc = "idle"
    /\ \E i \in 1 .. Len(pendingStops) :
          /\ pendingStops[i].id = id
          /\ pendingStops' = RemoveAt(pendingStops, i)
          /\ withdrawn' = [withdrawn EXCEPT ![id] = @ + pendingStops[i].quantity]
    /\ UNCHANGED <<resting, lastTradedPrice, nextId, thread, requests, filled, arrivals>>

\* queryOrderStatus: the book is searched first, then the pool.
StatusOf(id) ==
    IF \E l \in RestingEntries : EntryAt(l).id = id THEN "RestingLimit"
    ELSE IF \E i \in 1 .. Len(pendingStops) : pendingStops[i].id = id THEN "PendingStop"
    ELSE "NotFound"

Call ==
    \/ \E request \in Menu : SubmitLive(request) \/ SubmitStop(request)
    \/ \E id \in 1 .. MaxSubmissions : CancelResting(id) \/ CancelPending(id)

Step ==
    \/ FillAgainstBestSell \/ FillAgainstBestBuy
    \/ RestRemainder \/ DropRemainder
    \/ TriggerFirstEligibleStop \/ TriggerTestPanics \/ CallReturns

BookNext == Call \/ Step

\* The matching-core thread runs its loops without ever waiting.
BookSpec == BookInit /\ [][BookNext]_bookVars /\ WF_bookVars(Step)

--------------------
(* Properties. *)

\* Every variable holds a value of its kind; a resting order has something left.
BookTypeOK ==
    /\ resting \in [Sides -> [Prices -> Seq(Resting)]]
    /\ pendingStops \in Seq(Orders)
    /\ lastTradedPrice \in Prices \cup {NoPrice}
    /\ nextId \in Nat \ {0}
    /\ incoming \in Orders
    /\ latestFill \in Prices \cup {NoPrice}
    /\ pc \in {"idle", "matching", "triggering", "panicked"}
    /\ requests \in Seq(Requests)
    /\ filled \in Seq(Nat) /\ withdrawn \in Seq(Nat)
    /\ arrivals \in Nat

\* No resting buy order is willing to pay what a resting sell order asks: the
\* matching loops leave nothing to trade, whatever order triggered stops, partial
\* fills and cancels come in.
BookNeverCrossed ==
    \A bid \in PricesWithOrders("Buy"), ask \in PricesWithOrders("Sell") : bid < ask

\* What id has left: on the book, in the pool or in the hands of the thread.
OpenQuantity(id) ==
    MapThenSumSet(LAMBDA l : EntryAt(l).quantity, {l \in RestingEntries : EntryAt(l).id = id})
    + MapThenSumSet(LAMBDA i : pendingStops[i].quantity,
                    {i \in 1 .. Len(pendingStops) : pendingStops[i].id = id})
    + (IF incoming.id = id THEN incoming.quantity ELSE 0)

\* Nothing an order asked for is lost, filled twice or brought back after a
\* cancel: what is filled, withdrawn and still open is what was submitted.
QuantityIsConserved ==
    \A id \in 1 .. Len(requests) :
        filled[id] + withdrawn[id] + OpenQuantity(id) = requests[id].quantity

\* Between calls no armed stop order is one the last price triggers: the sweep
\* of triggerAnyEligiblePendingStopOrders runs to the end of every cascade.
NoEligibleStopIsLeftArmed ==
    (pc = "idle" /\ lastTradedPrice # NoPrice) =>
        \A i \in 1 .. Len(pendingStops) :
            pendingStops[i].request.trigger # NoPrice =>
                ~IsTriggered(pendingStops[i], lastTradedPrice)

\* queryOrderStatus: between calls an order is found exactly as long as it has a
\* quantity neither filled nor withdrawn.  (An order for no quantity is found
\* only while it is an armed stop.)
OrderIsFoundWhileOpen ==
    pc = "idle" => \A id \in 1 .. Len(requests) :
        requests[id].quantity > 0 =>
            (StatusOf(id) # "NotFound" <=> filled[id] + withdrawn[id] < requests[id].quantity)

\* An order is on the books for exactly what it has open.
OrdersAreConserved == QuantityIsConserved /\ OrderIsFoundWhileOpen

\* Every queue is in the order its orders came to rest.
QueuesAreInArrivalOrder ==
    \A side \in Sides, p \in Prices : \A i, j \in 1 .. Len(resting[side][p]) :
        i < j => resting[side][p][i].arrival < resting[side][p][j].arrival

\* The ids a step fills from the book.
FilledFromBook ==
    {l \in RestingEntries : filled'[EntryAt(l).id] > filled[EntryAt(l).id]}

\* Price-time priority: an order is filled only when no order of its side rests
\* at a better price, or came to rest earlier at the same price.
PriceTimePriority ==
    [][\A l \in FilledFromBook, m \in RestingEntries :
          m[1] = l[1] =>
             /\ IF l[1] = "Buy" THEN m[2] <= l[2] ELSE m[2] >= l[2]
             /\ m[2] = l[2] => EntryAt(m).arrival >= EntryAt(l).arrival]_bookVars

\* A limit order, triggered or not, never trades at a price worse than its limit.
NoFillBeyondTheLimit ==
    [][\A id \in 1 .. Len(requests) :
          (filled'[id] > filled[id] /\ requests[id].type \in {"Limit", "StopLossLimit"}) =>
             IF requests[id].side = "Buy" THEN latestFill' <= requests[id].limit
                                          ELSE latestFill' >= requests[id].limit]_bookVars

\* The trigger test has no answer to give: something has traded, and a stop order
\* without a trigger price is armed.
NoTriggerToTest ==
    /\ lastTradedPrice # NoPrice
    /\ \E i \in 1 .. Len(pendingStops) : pendingStops[i].request.trigger = NoPrice

\* Every call returns, however long the cascade it starts; it panics instead only
\* where the trigger test has no answer to give.
EveryCallReturns == pc # "idle" ~> (pc = "idle" \/ (pc = "panicked" /\ NoTriggerToTest))
====================
