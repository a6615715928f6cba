-------- MODULE PositionActions --------
(***************************************************************************)
(* What changes a client's shares besides trading: corporate actions on    *)
(* the holdings book, the dividend plan that buys shares for the dividend, *)
(* paper positions in thousandths of a share and the followers of a        *)
(* strategy.  The holdings book, the position book, the ledger and the     *)
(* margin each have a lock or a process of their own, so a request is a    *)
(* sequence of steps between which others run.  One account stands for     *)
(* all: no step looks at the holdings of two.                              *)
(***************************************************************************)
EXTENDS Integers, Sequences, FiniteSets, Functions

CONSTANTS
    ActionRequests,       \* requests in progress
    Instruments,
    SeedQuantities, SeedCosts,
    Ratios,               \* num and den, either may be refused
    Dividends,            \* per share
    ReinvestmentPrices,   \* 0: none given
    Fills,                \* signed quantities other orders trade
    MaxPositionCalls,     \* bound on requests and fills
    Traders, MarketMaker, MilliShareUnitsPerWholeShare, MilliQuantities, PaperPrices,
    MaxPaperOrders,
    Followers, Strategies

\* A thousand thousandths in the code: an even number of parts.
ASSUME PositionAssumption ==
    /\ IsFiniteSet(ActionRequests) /\ IsFiniteSet(Instruments) /\ IsFiniteSet(Traders)
    /\ SeedQuantities \subseteq Int /\ SeedCosts \subseteq Int
    /\ \A ratio \in Ratios : ratio.num \in Int /\ ratio.den \in Int
    /\ Dividends \subseteq Int /\ ReinvestmentPrices \subseteq Int /\ Fills \subseteq Int
    /\ MilliQuantities \subseteq Int /\ PaperPrices \subseteq Int
    /\ MilliShareUnitsPerWholeShare \in Nat \ {0} /\ MilliShareUnitsPerWholeShare % 2 = 0

VARIABLES
    holdings,             \* HoldingsBook: quantity and cost, or NotHeld
    actionLog,            \* its processedActionsLog
    seeded,               \* history: cost that seeding put into the book
    mergedIntoItself,     \* history: cost that a merger into its own source removed
    position,             \* PositionBook
    traded,               \* history: fills since the position was last set
    inOrder,              \* history: no write for an older change can follow the latest
    stage,                \* per request: where it stands and what it carries
    cash, margin,         \* credited to the ledger, some of it unheard; added to pre-trade margin
    autoReinvest,         \* the plan's toggle
    events,               \* history: dividend events that ended
    positionCalls,        \* bound
    milli, paperOrders,   \* MilliSharePositionBook, and a bound
    verified, following, followedBy

actionVars == <<holdings, actionLog, seeded, mergedIntoItself, position, traded, inOrder,
                stage, cash, margin, autoReinvest, events, positionCalls>>
paperVars == <<milli, paperOrders>>
followVars == <<verified, following, followedBy>>
positionActionVars == <<actionVars, paperVars, followVars>>

NotHeld == [quantity |-> 0, cost |-> -1]
Idle == [at |-> "idle"]
Held(symbol) == holdings[symbol] # NotHeld

PositionActionsInit ==
    /\ holdings = [s \in Instruments |-> NotHeld] /\ actionLog = <<>>
    /\ seeded = 0 /\ mergedIntoItself = 0
    /\ position = [s \in Instruments |-> 0]
    /\ traded = [s \in Instruments |-> 0] /\ inOrder = [s \in Instruments |-> TRUE]
    /\ stage = [r \in ActionRequests |-> Idle]
    /\ cash = [action |-> 0, event |-> 0, unheard |-> 0] /\ margin = 0
    /\ autoReinvest = FALSE /\ events = {} /\ positionCalls = 0
    /\ milli = [a \in Traders \union {MarketMaker} |-> 0] /\ paperOrders = <<>>
    /\ verified = {} /\ following = [a \in Followers |-> {}] /\ followedBy = [s \in Strategies |-> {}]

--------------------
(* corporateactionsprocessing: each operation is one critical section *)

ChangeHoldings(new, entry) ==
    /\ holdings' = new
    /\ actionLog' = Append(actionLog, entry)

CostOf(symbol) == IF Held(symbol) THEN holdings[symbol].cost ELSE 0

\* Requests between the change of a holding and the write of its position.
Syncing(symbol) ==
    \E r \in ActionRequests : \/ stage[r].at = "sync" /\ symbol \in {stage[r].symbol, stage[r].source}
                              \/ stage[r].at = "zero" /\ symbol = stage[r].source

\* A change made while another's write is outstanding may be written over by it; one
\* made while none is puts the order right again.
ChangeIsOrdered(symbols) ==
    inOrder' = [s \in Instruments |-> IF s \in symbols THEN ~Syncing(s) ELSE inOrder[s]]

SeedHolding(r) ==
    \E symbol \in Instruments, quantity \in SeedQuantities, cost \in SeedCosts :
        LET holding == [quantity |-> quantity, cost |-> cost] IN
        /\ quantity > 0
        /\ holdings' = [holdings EXCEPT ![symbol] = holding]
        /\ seeded' = seeded + cost - CostOf(symbol)
        /\ ChangeIsOrdered({symbol})
        /\ stage' = [stage EXCEPT ![r] = [at |-> "sync", symbol |-> symbol, quantity |-> quantity, source |-> symbol]]
        /\ UNCHANGED <<actionLog, mergedIntoItself>>

applyQuantityMultiplyingAction(r, symbol, num, den) ==
    LET before == holdings[symbol]
        after == [before EXCEPT !.quantity = (before.quantity * num) \div den]
    IN /\ num > 0 /\ den > 0
       /\ Held(symbol)
       /\ (before.quantity * num) % den = 0
       /\ ChangeHoldings([holdings EXCEPT ![symbol] = after],
                         [before |-> before, target |-> symbol, after |-> after, cash |-> 0])
       /\ ChangeIsOrdered({symbol})
       /\ stage' = [stage EXCEPT ![r] = [at |-> "sync", symbol |-> symbol, quantity |-> after.quantity, source |-> symbol]]
       /\ UNCHANGED <<seeded, mergedIntoItself>>

ApplyStockSplit(r, symbol, ratio) == applyQuantityMultiplyingAction(r, symbol, ratio.num, ratio.den)
ApplyBonusIssue(r, symbol, ratio) == applyQuantityMultiplyingAction(r, symbol, ratio.num + ratio.den, ratio.den)

\* The source's key is deleted after the target's was written: a merger of an
\* instrument into itself leaves no holding, and the position it writes stays.
ApplyMerger(r, symbol, target, ratio) ==
    LET before == holdings[symbol]
        old == IF Held(target) THEN holdings[target] ELSE [quantity |-> 0, cost |-> 0]
        after == [quantity |-> old.quantity + (before.quantity * ratio.num) \div ratio.den,
                  cost |-> old.cost + before.cost]
    IN /\ ratio.num > 0 /\ ratio.den > 0
       /\ Held(symbol)
       /\ (before.quantity * ratio.num) % ratio.den = 0
       /\ ChangeHoldings([holdings EXCEPT ![target] = after, ![symbol] = NotHeld],
                         [before |-> before, target |-> target, after |-> after, cash |-> 0])
       /\ mergedIntoItself' = mergedIntoItself + (IF target = symbol THEN before.cost ELSE 0)
       /\ IF target = symbol THEN inOrder' = [inOrder EXCEPT ![symbol] = FALSE]
          ELSE ChangeIsOrdered({symbol, target})
       /\ stage' = [stage EXCEPT ![r] = [at |-> "sync", symbol |-> target, quantity |-> after.quantity, source |-> symbol]]
       /\ UNCHANGED seeded

\* Logged before the ledger is asked; a ledger that refuses leaves the entry.
ComputeCashDividendAmount(r, symbol, perShare) ==
    /\ perShare > 0
    /\ Held(symbol)
    /\ actionLog' = Append(actionLog, [before |-> holdings[symbol], target |-> symbol, after |-> holdings[symbol],
                                       cash |-> holdings[symbol].quantity * perShare])
    /\ stage' = [stage EXCEPT ![r] = [at |-> "credit", amount |-> holdings[symbol].quantity * perShare]]
    /\ UNCHANGED <<holdings, seeded, mergedIntoItself, inOrder>>

Begin(r) == stage[r] = Idle /\ positionCalls < MaxPositionCalls /\ positionCalls' = positionCalls + 1

SeedCorporateActionsHolding(r) ==
    /\ Begin(r)
    /\ SeedHolding(r)
    /\ UNCHANGED <<position, traded, cash, margin, autoReinvest, events>>

ProcessCorporateAction(r) ==
    /\ Begin(r)
    /\ \/ \E symbol \in Instruments, ratio \in Ratios :
             \/ ApplyStockSplit(r, symbol, ratio)
             \/ ApplyBonusIssue(r, symbol, ratio)
             \/ \E target \in Instruments : ApplyMerger(r, symbol, target, ratio)
       \/ \E symbol \in Instruments, perShare \in Dividends : ComputeCashDividendAmount(r, symbol, perShare)
    /\ UNCHANGED <<position, traded, cash, margin, autoReinvest, events>>

\* What was traded since the holding was seeded is written over: trades reach the
\* position book only.
SetPositionDirectly(symbol, quantity) ==
    /\ position' = [position EXCEPT ![symbol] = quantity]
    /\ traded' = [traded EXCEPT ![symbol] = 0]

\* A plausible bug: the source of a merger keeps its position.
SyncTargetOnly(r) ==
    /\ stage[r].at = "sync"
    /\ SetPositionDirectly(stage[r].symbol, stage[r].quantity)
    /\ stage' = [stage EXCEPT ![r] = Idle]
    /\ UNCHANGED <<holdings, actionLog, seeded, mergedIntoItself, inOrder, cash, margin, autoReinvest, events, positionCalls>>

SyncPosition(r) ==
    /\ stage[r].at = "sync"
    /\ SetPositionDirectly(stage[r].symbol, stage[r].quantity)
    /\ stage' = [stage EXCEPT ![r] =
                    IF @.source # @.symbol THEN [at |-> "zero", source |-> @.source] ELSE Idle]
    /\ UNCHANGED <<holdings, actionLog, seeded, mergedIntoItself, inOrder, cash, margin, autoReinvest, events, positionCalls>>

ZeroMergedPosition(r) ==
    /\ stage[r].at = "zero"
    /\ SetPositionDirectly(stage[r].source, 0)
    /\ stage' = [stage EXCEPT ![r] = Idle]
    /\ UNCHANGED <<holdings, actionLog, seeded, mergedIntoItself, inOrder, cash, margin, autoReinvest, events, positionCalls>>

\* The dividend of a corporate action is posted to the ledger and nowhere else.
CreditDividend(r) ==
    /\ stage[r].at = "credit"
    /\ \E posted \in BOOLEAN : cash' = [cash EXCEPT !.action = @ + (IF posted THEN stage[r].amount ELSE 0)]
    /\ stage' = [stage EXCEPT ![r] = Idle]
    /\ UNCHANGED <<holdings, actionLog, seeded, mergedIntoItself, position, traded, inOrder, margin, autoReinvest, events, positionCalls>>

\* The explainer's route writes the position its caller names and not the holding.
RecordAdjustment ==
    /\ positionCalls < MaxPositionCalls
    /\ positionCalls' = positionCalls + 1
    /\ \E symbol \in Instruments, quantity \in SeedQuantities :
          /\ quantity > 0
          /\ SetPositionDirectly(symbol, quantity)
          /\ inOrder' = [inOrder EXCEPT ![symbol] = FALSE]
    /\ UNCHANGED <<holdings, actionLog, seeded, mergedIntoItself, stage, cash, margin, autoReinvest, events>>

\* A settled trade of the account.
ApplyTradedFill ==
    /\ positionCalls < MaxPositionCalls
    /\ positionCalls' = positionCalls + 1
    /\ \E symbol \in Instruments, delta \in Fills :
          /\ position' = [position EXCEPT ![symbol] = @ + delta]
          /\ traded' = [traded EXCEPT ![symbol] = @ + delta]
    /\ UNCHANGED <<holdings, actionLog, seeded, mergedIntoItself, inOrder, stage, cash, margin, autoReinvest, events>>

--------------------
(* drip *)

CalculateReinvestmentQuantity(credit, price) ==
    [quantity |-> credit \div price, spent |-> (credit \div price) * price,
     leftover |-> credit - (credit \div price) * price]

SetAutoReinvest ==
    /\ positionCalls < MaxPositionCalls /\ positionCalls' = positionCalls + 1
    /\ autoReinvest' \in BOOLEAN
    /\ UNCHANGED <<holdings, actionLog, seeded, mergedIntoItself, position, traded, inOrder, stage, cash, margin, events>>

\* The quantity is the trading position's, not the holding's, and is read once.
ProcessDividendEvent(r) ==
    /\ Begin(r)
    /\ \E symbol \in Instruments, perShare \in Dividends, price \in ReinvestmentPrices :
          /\ position[symbol] > 0 /\ perShare > 0
          /\ stage' = [stage EXCEPT ![r] =
                [at |-> "post", symbol |-> symbol, amount |-> position[symbol] * perShare, price |-> price]]
    /\ UNCHANGED <<holdings, actionLog, seeded, mergedIntoItself, position, traded, inOrder, cash, margin, autoReinvest, events>>

\* The ledger posts and answers, posts what its client no longer waits for, or does not
\* post; the handler goes on only when it was answered.
PostDividendEvent(r) ==
    /\ stage[r].at = "post"
    /\ \/ /\ cash' = [cash EXCEPT !.event = @ + stage[r].amount]
          /\ stage' = [stage EXCEPT ![r].at = "margin"]
       \/ /\ cash' = [cash EXCEPT !.event = @ + stage[r].amount, !.unheard = @ + stage[r].amount]
          /\ stage' = [stage EXCEPT ![r] = Idle]
       \/ /\ stage' = [stage EXCEPT ![r] = Idle]
          /\ UNCHANGED cash
    /\ UNCHANGED <<holdings, actionLog, seeded, mergedIntoItself, position, traded, inOrder, margin, autoReinvest, events, positionCalls>>

AdjustMarginForDividend(r) ==
    /\ stage[r].at = "margin"
    /\ margin' = margin + stage[r].amount
    /\ stage' = [stage EXCEPT ![r].at = "reinvest"]
    /\ UNCHANGED <<holdings, actionLog, seeded, mergedIntoItself, position, traded, inOrder, cash, autoReinvest, events, positionCalls>>

\* The order goes the way of every order (it may be refused); it is a limit order at
\* the price of the plan.
Reinvest(r) ==
    LET credit == stage[r].amount
        price == stage[r].price
        none == [quantity |-> 0, spent |-> 0, leftover |-> credit]
        plan == IF autoReinvest /\ price > 0 THEN CalculateReinvestmentQuantity(credit, price) ELSE none
    IN /\ stage[r].at = "reinvest"
       /\ events' = events \union {[credit |-> credit, price |-> price, plan |-> plan, wanted |-> autoReinvest]}
       /\ stage' = [stage EXCEPT ![r] = Idle]
       /\ UNCHANGED <<holdings, actionLog, seeded, mergedIntoItself, position, traded, inOrder, cash, margin, autoReinvest, positionCalls>>

ActionNext ==
    \/ \E r \in ActionRequests :
          \/ SeedCorporateActionsHolding(r) \/ ProcessCorporateAction(r) \/ SyncPosition(r) \/ ZeroMergedPosition(r) \/ CreditDividend(r)
          \/ ProcessDividendEvent(r) \/ PostDividendEvent(r) \/ AdjustMarginForDividend(r) \/ Reinvest(r)
    \/ RecordAdjustment \/ ApplyTradedFill \/ SetAutoReinvest

--------------------
(* fractionalshares and the paper branch of an order's submission *)

half == MilliShareUnitsPerWholeShare \div 2

\* Rounded half away from zero; prices and quantities are not negative here.
NotionalInMinorUnits(price, quantity) ==
    LET n == price * quantity
        q == n \div MilliShareUnitsPerWholeShare
    IN IF n % MilliShareUnitsPerWholeShare >= half THEN q + 1 ELSE q

AbsoluteOf(n) == IF n < 0 THEN -n ELSE n

\* Go's division truncates towards zero; the remainder is shown without its sign.
FormatWholeAndMilliParts(quantity) ==
    LET whole == AbsoluteOf(quantity) \div MilliShareUnitsPerWholeShare IN
    [whole |-> IF quantity < 0 THEN -whole ELSE whole,
     milli |-> AbsoluteOf(quantity) % MilliShareUnitsPerWholeShare]

\* The notional is what margin is asked for, and given back before the simulation.
SimulateFractionalFill ==
    \E a \in Traders, buy \in BOOLEAN, quantity \in MilliQuantities, price \in PaperPrices :
        LET buyer == IF buy THEN a ELSE MarketMaker
            seller == IF buy THEN MarketMaker ELSE a
            bought == [milli EXCEPT ![buyer] = @ + quantity]
        IN /\ Len(paperOrders) < MaxPaperOrders
           /\ quantity > 0 /\ price > 0
           /\ milli' = [bought EXCEPT ![seller] = @ - quantity]
           /\ paperOrders' = Append(paperOrders, [price |-> price, quantity |-> quantity,
                                                  notional |-> NotionalInMinorUnits(price, quantity)])

--------------------
(* strategyfollowing: one lock, two indexes *)

MarkStrategyVerified ==
    /\ \E s \in Strategies : verified' = verified \union {s}
    /\ UNCHANGED <<following, followedBy>>

Follow(a, s) ==
    /\ s \in verified
    /\ following' = [following EXCEPT ![a] = @ \union {s}]
    /\ followedBy' = [followedBy EXCEPT ![s] = @ \union {a}]
    /\ UNCHANGED verified

Unfollow(a, s) ==
    /\ following' = [following EXCEPT ![a] = @ \ {s}]
    /\ followedBy' = [followedBy EXCEPT ![s] = @ \ {a}]
    /\ UNCHANGED verified

FollowNext == MarkStrategyVerified \/ \E a \in Followers, s \in Strategies : Follow(a, s) \/ Unfollow(a, s)

--------------------
(* properties *)

CostHeld == SumFunction([s \in Instruments |-> CostOf(s)])

\* The cost a client's holdings were seeded with is in the book after any sequence of
\* splits, bonuses and mergers, but for what was merged into itself.
CostBasisIsConserved == CostHeld = seeded - mergedIntoItself

AmountAt(at, call) == IF call.at = at THEN call.amount ELSE 0
TotalAt(at) == SumFunction([r \in ActionRequests |-> AmountAt(at, stage[r])])

\* What corporate actions credited to the ledger, and what they are about to, was
\* logged; a credit that failed stays in the log as if it had been made.
DividendsAreLogged ==
    cash.action + TotalAt("credit") <= SumFunction([k \in DOMAIN actionLog |-> actionLog[k].cash])

\* Once the writes of a change have run and none of an older change can follow, the
\* position is the holding and what was traded since, the source of a merger too.
PositionsFollowTheHoldings ==
    \A s \in Instruments :
        (inOrder[s] /\ ~Syncing(s)) => position[s] = holdings[s].quantity + traded[s]

\* A dividend event adds to the margin what it added to the ledger, once, however the
\* events of several requests interleave; what is still to be added is in progress.  The
\* margin never sees a credit whose answer the handler did not wait for (main.go:4403,
\* ledgerClient.go:55): by these amounts, and no other, it stays behind the ledger.
EventsReachTheMargin == cash.event = margin + TotalAt("margin") + cash.unheard

\* A plan never buys for more than the dividend it stands for and leaves less than one
\* share's price.
ReinvestmentsSpendTheDividend ==
    \A e \in events :
        /\ e.plan.spent + e.plan.leftover = e.credit /\ e.plan.leftover >= 0
        /\ (e.wanted /\ e.price > 0) => e.plan.leftover < e.price
        /\ ~e.wanted => e.plan.quantity = 0

\* Paper trades neither make nor lose shares, an order's notional is within half a
\* minor unit, and a long position is its two parts.
PaperPositionsCancelOut ==
    /\ SumFunction(milli) = 0
    /\ \A k \in DOMAIN paperOrders :
          AbsoluteOf(paperOrders[k].notional * MilliShareUnitsPerWholeShare
                       - paperOrders[k].price * paperOrders[k].quantity) <= half
    /\ \A a \in Traders :
          LET parts == FormatWholeAndMilliParts(milli[a]) IN
          milli[a] >= 0 => milli[a] = parts.whole * MilliShareUnitsPerWholeShare + parts.milli

\* Both indexes name the same pairs, of verified strategies only, after any sequence of
\* follows and unfollows.
FollowersAgree ==
    \A a \in Followers, s \in Strategies :
        /\ s \in following[a] <=> a \in followedBy[s]
        /\ s \in following[a] => s \in verified
====================
