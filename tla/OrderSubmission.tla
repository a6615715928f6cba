-------- MODULE OrderSubmission --------
(***************************************************************************)
(* The order path of oms-gateway: processOrderSubmission in main.go, run   *)
(* by any number of HTTP handlers at once over the shared risk engine,     *)
(* exposure registry, pledge book and position book, with the matching     *)
(* engine and the ledger at the other end of calls that can fail.          *)
(*                                                                         *)
(* Every critical section of a shared book is one step; between two of     *)
(* them any other handler may run.  The engine is seen from the gateway:   *)
(* one call executes any trades the limits allow that leave no two resting *)
(* orders crossing (OrderBookCore says which), and its reply carries the   *)
(* trades of the stop orders it triggered as well.  One instrument.        *)
(***************************************************************************)
EXTENDS Integers, Sequences, FiniteSets, FiniteSetsExt, SequencesExt, Functions

CONSTANTS
    Accounts,
    MaxOrders,      \* bound: submissions, numbered in the order they arrive
    Menu,           \* the requests each submission may carry
    MaxQuantity,    \* bound: of the quantity of a request
    NoRequest,
    SeedMargin,     \* what FetchAccountBalance gave each account at startup
    SeedHolding,    \* the net position each account starts with
    ExposureLimit,  \* the configured account limit
    MaxPledges,     \* bound: shares pledged over the whole behaviour
    Faults          \* which calls to the engine and the ledger can fail

AllFaults == {"dial", "timeout", "wal", "rejected", "lost"}
AllRequests == [account : Accounts, side : {"buy", "sell"},
                kind : {"limit", "stop", "paper"}, quantity : Nat \ {0}, limit : Nat \ {0}]

Orders == 1 .. MaxOrders

ASSUME MenuAssumption ==
    /\ DOMAIN Menu = Orders
    /\ \A o \in Orders : Menu[o] \subseteq AllRequests /\ NoRequest \notin Menu[o]
    /\ \A o \in Orders : \A r \in Menu[o] : r.quantity <= MaxQuantity
ASSUME SeedAssumption == SeedMargin \in [Accounts -> Nat] /\ SeedHolding \in [Accounts -> Nat]
ASSUME BoundsAssumption ==
    {MaxOrders, MaxQuantity, ExposureLimit, MaxPledges} \subseteq Nat /\ Faults \subseteq AllFaults

VARIABLES
    request,          \* what each submission asks for
    handler,          \* each processOrderSubmission call
    exposure,         \* exposurelimits: current account exposure
    availableMargin,  \* riskengine: available margin cache
    reservedToSell,   \* marginpledge: reserved for pending sells
    pledged,          \* marginpledge: pledged quantity
    pledging,         \* each account's pledge handler
    position,         \* positions: net quantity
    inEngine,         \* where each order is on the engine's side
    remaining,        \* and its unfilled quantity there
    reply,            \* the engine's response to each order
    trades,           \* every trade the engine has executed
    posted,           \* history: trades the ledger has journalled
    lost              \* history: of those, the ones whose answer was lost

books == <<exposure, availableMargin, reservedToSell, position>>
pledges == <<pledged, pledging>>
engine == <<inEngine, remaining, reply, trades>>
ledger == <<posted, lost>>
vars == <<request, handler, books, pledges, engine, ledger>>

--------------------
Account(o)  == request[o].account
IsSell(o)   == request[o].side = "sell"
Notional(o) == request[o].limit * request[o].quantity

AtLeastZero(n) == IF n < 0 THEN 0 ELSE n
Add(f, key, n) == [f EXCEPT ![key] = @ + n]

NoCall == [at |-> "unsent", netHolding |-> 0, toSettle |-> {},
           executed |-> 0, executedNotional |-> 0]
NotPledging == [at |-> "idle", netHolding |-> 0]

At(o, point)   == handler[o].at = point
Goes(o, point) == handler' = [handler EXCEPT ![o].at = point]

Trade(t)    == trades[t]
Value(t)    == Trade(t).price * Trade(t).quantity
Buyer(t)    == Account(Trade(t).buy)
Seller(t)   == Account(Trade(t).sell)
TradesOf(o) == {t \in DOMAIN trades : Trade(t).caller = o}

Init ==
    /\ request = [o \in Orders |-> NoRequest]
    /\ handler = [o \in Orders |-> NoCall]
    /\ exposure = [a \in Accounts |-> 0]
    /\ availableMargin = SeedMargin
    /\ reservedToSell = [a \in Accounts |-> 0]
    /\ pledged = [a \in Accounts |-> 0]
    /\ pledging = [a \in Accounts |-> NotPledging]
    /\ position = SeedHolding
    /\ inEngine = [o \in Orders |-> "absent"]
    /\ remaining = [o \in Orders |-> 0]
    /\ reply = [o \in Orders |-> "none"]
    /\ trades = <<>> /\ posted = {} /\ lost = {}

--------------------
(* The gates, up to acceptance. *)

\* A request arrives.
Arrives(o, r) ==
    /\ At(o, "unsent") /\ \A earlier \in 1 .. o - 1 : ~At(earlier, "unsent")
    /\ request' = [request EXCEPT ![o] = r]

\* The kill switch, the session rules, the strategy limits or the exposure
\* limit turn the order away before anything is reserved for it.
RejectAtGates(o, r) ==
    /\ Arrives(o, r)
    /\ Goes(o, "rejected")
    /\ UNCHANGED <<books, pledges, engine, ledger>>

CheckAndReserveExposure(o, r) ==
    /\ Arrives(o, r)
    /\ exposure[r.account] + r.limit * r.quantity <= ExposureLimit
    /\ exposure' = Add(exposure, r.account, r.limit * r.quantity)
    /\ Goes(o, "checking")
    /\ UNCHANGED <<availableMargin, reservedToSell, position, pledges, engine, ledger>>

ReleaseExposure(o) ==
    exposure' = [exposure EXCEPT ![Account(o)] = AtLeastZero(@ - Notional(o))]

\* Mutant: a fill in part releases the reservation of the whole order.
ReleaseWholeSellReservation(o, quantity) ==
    reservedToSell' =
        IF IsSell(o)
        THEN [reservedToSell EXCEPT ![Account(o)] = AtLeastZero(@ - request[o].quantity)]
        ELSE reservedToSell

ReleaseSellReservation(o, quantity) ==
    reservedToSell' =
        IF IsSell(o)
        THEN [reservedToSell EXCEPT ![Account(o)] = AtLeastZero(@ - quantity)]
        ELSE reservedToSell

\* Mutant: the deferred release does not give the exposure back.
RejectKeepingExposure(o) ==
    /\ \/ At(o, "checking") \/ At(o, "margin")
       \/ /\ At(o, "reserving")
          /\ request[o].quantity >
                handler[o].netHolding - pledged[Account(o)] - reservedToSell[Account(o)]
    /\ IF At(o, "margin") THEN ReleaseSellReservation(o, request[o].quantity)
                          ELSE UNCHANGED reservedToSell
    /\ Goes(o, "rejected")
    /\ UNCHANGED <<request, exposure, availableMargin, position, pledges, engine, ledger>>

\* KYC, freeze, large-order or disclosure gates, a holding or a margin that does
\* not suffice: the deferred release undoes what was reserved so far.
Reject(o) ==
    /\ \/ At(o, "checking") \/ At(o, "margin")
       \/ /\ At(o, "reserving")
          /\ request[o].quantity >
                handler[o].netHolding - pledged[Account(o)] - reservedToSell[Account(o)]
    /\ ReleaseExposure(o)
    /\ IF At(o, "margin") THEN ReleaseSellReservation(o, request[o].quantity)
                          ELSE UNCHANGED reservedToSell
    /\ Goes(o, "rejected")
    /\ UNCHANGED <<request, availableMargin, position, pledges, engine, ledger>>

\* A sell reads its net holding from the position book, outside any lock of the
\* pledge book.
PassChecks(o) ==
    /\ At(o, "checking")
    /\ handler' = [handler EXCEPT
          ![o].at = IF IsSell(o) THEN "reserving" ELSE "margin",
          ![o].netHolding = IF IsSell(o) THEN position[Account(o)] ELSE 0]
    /\ UNCHANGED <<request, books, pledges, engine, ledger>>

ReserveUnpledgedQuantityForSell(o) ==
    /\ At(o, "reserving")
    /\ request[o].quantity <=
          handler[o].netHolding - pledged[Account(o)] - reservedToSell[Account(o)]
    /\ reservedToSell' = Add(reservedToSell, Account(o), request[o].quantity)
    /\ Goes(o, "margin")
    /\ UNCHANGED <<request, exposure, availableMargin, position, pledges, engine, ledger>>

\* Approval takes the notional from the margin, of a sell as of a buy.
EvaluateOrderAgainstAvailableMargin(o) ==
    /\ At(o, "margin")
    /\ Notional(o) <= availableMargin[Account(o)]
    /\ availableMargin' = Add(availableMargin, Account(o), -Notional(o))
    /\ Goes(o, IF request[o].kind = "paper" THEN "paper" ELSE "sending")
    /\ UNCHANGED <<request, exposure, reservedToSell, position, pledges, engine, ledger>>

\* A paper order gives both reservations back and never reaches the engine.
PaperTrade(o) ==
    /\ At(o, "paper")
    /\ availableMargin' = Add(availableMargin, Account(o), Notional(o))
    /\ ReleaseSellReservation(o, request[o].quantity)
    /\ Goes(o, "done")
    /\ UNCHANGED <<request, exposure, position, pledges, engine, ledger>>

--------------------
(* The hand-off to the matching engine. *)

SendToEngine(o) ==
    /\ At(o, "sending")
    /\ inEngine' = [inEngine EXCEPT ![o] = "inbox"]
    /\ remaining' = [remaining EXCEPT ![o] = request[o].quantity]
    /\ Goes(o, "awaiting")
    /\ UNCHANGED <<request, books, pledges, reply, trades, ledger>>

\* "This order will NEVER settle now": both reservations are given back.
WriteOff(o) ==
    /\ availableMargin' = Add(availableMargin, Account(o), Notional(o))
    /\ ReleaseSellReservation(o, request[o].quantity)
    /\ Goes(o, "writtenOff")
    /\ UNCHANGED <<request, exposure, position, pledges, engine, ledger>>

\* Mutant: the client of the engine waits for the reply without a deadline.
HandoffFailsOnDialOnly(o) ==
    /\ At(o, "sending") /\ "dial" \in Faults
    /\ WriteOff(o)

\* handoffError: nobody answers the dial, or the deadline passes with the
\* request on its way to the engine, or the reply on its way back.
HandoffFails(o) ==
    /\ \/ At(o, "sending") /\ "dial" \in Faults
       \/ At(o, "awaiting") /\ "timeout" \in Faults
    /\ WriteOff(o)

\* matchingEngineResponse.ErrorMessage is set.
ReceiveError(o) ==
    /\ At(o, "awaiting") /\ reply[o] = "error"
    /\ WriteOff(o)

ReceiveTrades(o) ==
    /\ At(o, "awaiting") /\ reply[o] = "trades"
    /\ handler' = [handler EXCEPT ![o].at = "settling", ![o].toSettle = TradesOf(o)]
    /\ UNCHANGED <<request, books, pledges, engine, ledger>>

--------------------
(* The matching engine. *)

InEngine(place) == {o \in Orders : inEngine[o] = place}

Crosses(o, p) ==
    \/ ~IsSell(o) /\ IsSell(p) /\ request[o].limit >= request[p].limit
    \/ IsSell(o) /\ ~IsSell(p) /\ request[p].limit >= request[o].limit

\* Who may take from whom while the call of order o is handled: o itself if it is
\* live, from the resting orders; a stop that o's trades triggered, from these,
\* from o and from the other stops that became live before it.
Encounters(o, live, triggered) ==
    {e \in (live \cup triggered) \X (InEngine("resting") \cup live \cup triggered) :
        /\ Crosses(e[1], e[2])
        /\ e[1] = o => e[2] \in InEngine("resting")}

TradeOf(o, e, quantity) ==
    [buy  |-> IF IsSell(e[1]) THEN e[2] ELSE e[1],
     sell |-> IF IsSell(e[1]) THEN e[1] ELSE e[2],
     price |-> request[e[2]].limit, quantity |-> quantity, caller |-> o]

Filled(fills, o) == SumFunctionOnSet(fills, {e \in DOMAIN fills : o \in {e[1], e[2]}})

\* The engine handles one submission: it matches it, or arms it, triggers the
\* stops its trades reach, and rests what is left.  If the log cannot be written
\* the reply is an error all the same.
EngineHandles(o) ==
    /\ inEngine[o] = "inbox"
    /\ \E live \in IF request[o].kind = "stop" THEN {{}, {o}} ELSE {{o}},
          triggered \in SUBSET InEngine("armed") :
       \E fills \in [Encounters(o, live, triggered) -> 0 .. MaxQuantity] :
          LET left == [p \in Orders |-> remaining[p] - Filled(fills, p)]
              place == [p \in Orders |->
                 IF p \in live \cup triggered \cup InEngine("resting")
                 THEN IF left[p] > 0 THEN "resting" ELSE "gone"
                 ELSE IF p = o THEN "armed" ELSE inEngine[p]]
              executed == {e \in DOMAIN fills : fills[e] > 0}
          IN  /\ \A p \in Orders : left[p] >= 0
              /\ triggered # {} => \E e \in executed : o \in {e[1], e[2]}
              /\ \A e \in executed : <<e[2], e[1]>> \notin executed
              /\ \A p, q \in Orders : place[p] = "resting" /\ place[q] = "resting" => ~Crosses(p, q)
              /\ remaining' = left
              /\ inEngine' = place
              /\ trades' = trades \o SetToSeq({TradeOf(o, e, fills[e]) : e \in executed})
    /\ \E answer \in {"trades"} \cup IF "wal" \in Faults THEN {"error"} ELSE {} :
          reply' = [reply EXCEPT ![o] = answer]
    /\ UNCHANGED <<request, handler, books, pledges, ledger>>

\* The engine refuses the line before it reaches the book.
EngineRejects(o) ==
    /\ inEngine[o] = "inbox"
    /\ inEngine' = [inEngine EXCEPT ![o] = "gone"]
    /\ reply' = [reply EXCEPT ![o] = "error"]
    /\ UNCHANGED <<request, handler, books, pledges, remaining, trades, ledger>>

\* The cancel handler takes the rest of the order off the engine's book and
\* changes nothing in the gateway.
CancelOrder(o) ==
    /\ inEngine[o] \in {"resting", "armed"}
    /\ inEngine' = [inEngine EXCEPT ![o] = "gone"]
    /\ UNCHANGED <<request, handler, books, pledges, remaining, reply, trades, ledger>>

--------------------
(* Settlement of the trades the reply lists. *)

\* The loop takes the trades of the reply in the order they were executed.
Settles(o) == At(o, "settling") /\ handler[o].toSettle # {}
Settled(o) == Min(handler[o].toSettle)

\* The ledger journals the trade.
LedgerPosts(o) ==
    /\ Settles(o)
    /\ posted' = posted \cup {Settled(o)}
    /\ Goes(o, "posted")
    /\ UNCHANGED <<request, books, pledges, engine, lost>>

NextTrade(o) ==
    handler' = [handler EXCEPT ![o].at = "settling", ![o].toSettle = @ \ {Settled(o)}]

\* The entry is rejected, or never reaches the ledger: the position is not
\* applied and the loop goes on.
LedgerRejects(o) ==
    /\ Settles(o) /\ "rejected" \in Faults
    /\ NextTrade(o)
    /\ UNCHANGED <<request, books, pledges, engine, ledger>>

\* The entry is journalled but the answer does not arrive within two seconds.
LedgerAnswerLost(o) ==
    /\ At(o, "posted") /\ "lost" \in Faults
    /\ lost' = lost \cup {Settled(o)}
    /\ NextTrade(o)
    /\ UNCHANGED <<request, books, pledges, engine, posted>>

\* Mutant: both sides of the trade are adjusted, the caller's too.
AdjustBothSides(t, caller) ==
    availableMargin' = Add(Add(availableMargin, Buyer(t), -Value(t)), Seller(t), Value(t))

\* settleTradeAgainstLedgerAndLocalCache: only an account other than the
\* caller's is adjusted here.
AdjustCounterparty(t, caller) ==
    availableMargin' = [a \in Accounts |-> availableMargin[a] +
        (IF a # caller /\ a = Seller(t) THEN Value(t) ELSE 0) -
        (IF a # caller /\ a = Buyer(t) THEN Value(t) ELSE 0)]

\* Mutant: the fill is applied to the buyer's side only.
ApplyFillToBuyer(t) == position' = Add(position, Buyer(t), Trade(t).quantity)

ApplyFill(t) ==
    position' = Add(Add(position, Buyer(t), Trade(t).quantity), Seller(t), -Trade(t).quantity)

\* The ledger said yes: the counterparty's margin, the positions, the totals.
ApplySettledTrade(o) ==
    /\ At(o, "posted")
    /\ AdjustCounterparty(Settled(o), Account(o))
    /\ ApplyFill(Settled(o))
    /\ handler' = [handler EXCEPT
          ![o].at = "settling", ![o].toSettle = @ \ {Settled(o)},
          ![o].executed = @ + Trade(Settled(o)).quantity,
          ![o].executedNotional = @ + Value(Settled(o))]
    /\ UNCHANGED <<request, exposure, reservedToSell, pledges, engine, ledger>>

\* The loop is over: the reserved margin of what was filled is released ...
ReleaseReservedMargin(o) ==
    /\ At(o, "settling") /\ handler[o].toSettle = {}
    /\ availableMargin' = Add(availableMargin, Account(o),
          (Notional(o) * handler[o].executed) \div request[o].quantity)
    /\ Goes(o, IF handler[o].executed > 0 THEN "debiting" ELSE "done")
    /\ UNCHANGED <<request, exposure, reservedToSell, position, pledges, engine, ledger>>

\* ... and only then the executed notional debited or credited, in a critical
\* section of its own.
AdjustAvailableMargin(o) ==
    /\ At(o, "debiting")
    /\ availableMargin' = Add(availableMargin, Account(o),
          IF IsSell(o) THEN handler[o].executedNotional ELSE -handler[o].executedNotional)
    /\ ReleaseSellReservation(o, handler[o].executed)
    /\ Goes(o, "done")
    /\ UNCHANGED <<request, exposure, position, pledges, engine, ledger>>

--------------------
(* Pledging shares as collateral; a pledged share is worth one. *)

ReadHoldingToPledge(a) ==
    /\ pledging[a].at = "idle"
    /\ SumFunction(pledged) < MaxPledges
    /\ pledging' = [pledging EXCEPT ![a] = [at |-> "read", netHolding |-> position[a]]]
    /\ UNCHANGED <<request, handler, books, pledged, engine, ledger>>

\* PledgeHolding of one share: the check knows of other pledges, and not of the
\* quantity reserved for pending sells.
PledgeHolding(a) ==
    /\ pledging[a].at = "read"
    /\ pledging' = [pledging EXCEPT ![a] = NotPledging]
    /\ IF pledging[a].netHolding - pledged[a] >= 1
       THEN /\ pledged' = Add(pledged, a, 1)
            /\ availableMargin' = Add(availableMargin, a, 1)
       ELSE UNCHANGED <<pledged, availableMargin>>
    /\ UNCHANGED <<request, handler, exposure, reservedToSell, position, engine, ledger>>

--------------------
HandlerStep(o) ==
    \/ Reject(o) \/ PassChecks(o) \/ ReserveUnpledgedQuantityForSell(o)
    \/ EvaluateOrderAgainstAvailableMargin(o) \/ PaperTrade(o)
    \/ SendToEngine(o) \/ HandoffFails(o) \/ ReceiveError(o) \/ ReceiveTrades(o)
    \/ LedgerPosts(o) \/ LedgerRejects(o) \/ LedgerAnswerLost(o) \/ ApplySettledTrade(o)
    \/ ReleaseReservedMargin(o) \/ AdjustAvailableMargin(o)

Next ==
    \/ \E o \in Orders :
          \/ \E r \in Menu[o] : RejectAtGates(o, r) \/ CheckAndReserveExposure(o, r)
          \/ HandlerStep(o)
          \/ EngineHandles(o) \/ EngineRejects(o) \/ CancelOrder(o)
    \/ \E a \in Accounts : ReadHoldingToPledge(a) \/ PledgeHolding(a)

Spec == Init /\ [][Next]_vars

\* As long as some handler can go on, one does, and every call a handler makes
\* has a deadline; nothing is assumed of the engine.
FairSpec == Spec /\ WF_vars(\E o \in Orders : HandlerStep(o))

--------------------
(* Properties. *)

Points == {"unsent", "checking", "reserving", "margin", "paper", "sending", "awaiting",
           "settling", "posted", "debiting", "rejected", "writtenOff", "done"}

\* Every variable has its type.
TypeOK ==
    /\ request \in [Orders -> (UNION Range(Menu)) \cup {NoRequest}]
    /\ handler \in [Orders -> [at : Points, netHolding : Int, toSettle : SUBSET DOMAIN trades,
                              executed : Nat, executedNotional : Nat]]
    /\ exposure \in [Accounts -> Nat] /\ availableMargin \in [Accounts -> Int]
    /\ reservedToSell \in [Accounts -> Nat] /\ pledged \in [Accounts -> Nat]
    /\ pledging \in [Accounts -> [at : {"idle", "read"}, netHolding : Int]]
    /\ position \in [Accounts -> Int]
    /\ inEngine \in [Orders -> {"absent", "inbox", "resting", "armed", "gone"}]
    /\ remaining \in [Orders -> Nat]
    /\ reply \in [Orders -> {"none", "trades", "error"}]
    /\ trades \in Seq([buy : Orders, sell : Orders, price : Nat, quantity : Nat, caller : Orders])
    /\ lost \subseteq posted /\ posted \subseteq DOMAIN trades

OrdersOf(a) == {o \in Orders : ~At(o, "unsent") /\ Account(o) = a}

\* Orders that stand: on their way through the gates, in the market, or accepted.
Standing(a) ==
    {o \in OrdersOf(a) : /\ handler[o].at \notin {"rejected", "writtenOff"}
                         /\ At(o, "done") => request[o].kind # "paper"}

\* Orders that "never actually reached the market" and yet were past acceptance: a
\* failed hand-off, a refusal by the engine, and paper.
NeverReleased(a) ==
    {o \in OrdersOf(a) : At(o, "writtenOff") \/ (At(o, "done") /\ request[o].kind = "paper")}

NotionalOf(T) == SumFunction([o \in T |-> Notional(o)])

\* The exposure of an account is that of the orders that stand, however the handlers
\* interleave: a rejection at a gate gives back exactly what it took.  The comments
\* promise the same of "the matching-engine hand-off itself", where reservations would
\* otherwise "leak permanently" (main.go:1060-1075), and say it is "handled explicitly
\* at each specific outcome" (1391-1397).  No outcome does: the code releases margin
\* and shares there (1431, 1567-1597) and never the exposure.  That leak is the second
\* term, so an account carries more than its standing orders for these causes only.
ExposureIsAccountedFor ==
    \A a \in Accounts : exposure[a] = NotionalOf(Standing(a)) + NotionalOf(NeverReleased(a))

QuantityOf(T) == SumFunction([t \in T |-> Trade(t).quantity])
ValueOf(T)    == SumFunction([t \in T |-> Value(t)])

InFlight == {Settled(o) : o \in {p \in Orders : At(p, "posted")}}

\* The position book never drifts from the ledger (settlement's comment): it is
\* the start holding and the journalled trades, but for those whose answer was
\* lost and those being applied.
PositionsFollowTheLedger ==
    \A a \in Accounts : position[a] = SeedHolding[a]
        + QuantityOf({t \in posted \ (lost \cup InFlight) : Buyer(t) = a})
        - QuantityOf({t \in posted \ (lost \cup InFlight) : Seller(t) = a})

\* The reply to an order listed a trade of two other orders (a stop it set off).
GotForeignTrade(o) ==
    \E t \in TradesOf(o) : o \notin {Trade(t).buy, Trade(t).sell}

Working(o) == inEngine[o] \in {"inbox", "resting", "armed"}

\* What a sell order still has to sell in the market stays reserved against a
\* second sale, through fills, failures and cancels of any order: unless it was
\* written off, or a reply to one of the account's orders listed others' trades.
WorkingSellsStayReserved ==
    \A a \in Accounts : (\A o \in OrdersOf(a) : ~GotForeignTrade(o)) =>
        reservedToSell[a] >=
            SumFunctionOnSet(remaining,
                {o \in OrdersOf(a) : IsSell(o) /\ Working(o) /\ ~At(o, "writtenOff")})

Quiescent ==
    \A o \in Orders : handler[o].at \notin {"paper", "settling", "posted", "debiting"}

\* Trades of which the cache is known to keep no track: an account's trade with
\* itself, a lost answer, a reply that listed others' trades.
Untracked(a) ==
    \/ \E t \in posted : Buyer(t) = a /\ Seller(t) = a
    \/ \E t \in lost : a \in {Buyer(t), Seller(t)}
    \/ \E o \in OrdersOf(a) : GotForeignTrade(o)

FillsOf(o) == {t \in DOMAIN trades : o \in {Trade(t).buy, Trade(t).sell}}
Accepted(o) == At(o, "done") /\ request[o].kind # "paper"

\* The reservation that backs an order: of what it is about to have in the market, or
\* still has there.
MarginBacking(o) ==
    IF handler[o].at \in {"sending", "awaiting"} THEN Notional(o)
    ELSE IF Accepted(o) /\ Working(o) THEN request[o].limit * remaining[o]
    ELSE 0

\* The reservation that outlives its order: of what it was filled while it rested, in
\* the replies of others, what the ledger did not take, and what was cancelled.
MarginLeft(o) ==
    IF ~Accepted(o) THEN 0
    ELSE request[o].limit * (QuantityOf(FillsOf(o) \ (TradesOf(o) \cap posted))
                             + IF Working(o) THEN 0 ELSE remaining[o])

\* Between settlements the margin cache is the cash the ledger has for the account and
\* the collateral it pledged, less what backs the orders it has in the market, and less
\* what is left reserved of orders that are filled or gone.  preTradeRiskEngine.go:56-67 has no
\* such last term: "The caller MUST pair every approval" with a release, or with the
\* executed delta "alongside releasing the reservation".  The code does so for what an
\* order's own reply filled, and neither for a resting order's later fills (its owner
\* pays twice) nor in the cancel handler; MarginLeft is what that leaves.
MarginMirrorsTheLedger ==
    Quiescent => \A a \in Accounts : ~Untracked(a) =>
        availableMargin[a] = SeedMargin[a] + pledged[a]
            + ValueOf({t \in posted : Seller(t) = a})
            - ValueOf({t \in posted : Buyer(t) = a})
            - SumFunction([o \in OrdersOf(a) |-> MarginBacking(o)])
            - SumFunction([o \in OrdersOf(a) |-> MarginLeft(o)])

\* Every submission gets its acknowledgement, whatever the engine does: once the
\* last one has arrived the gateway comes to owe none.
EverySubmissionIsAcknowledged ==
    <>[](\A o \in Orders : handler[o].at \in {"unsent", "rejected", "writtenOff", "done"})

====================
