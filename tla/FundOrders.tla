-------- MODULE FundOrders --------
(***************************************************************************)
(* Mutual fund orders: the router that holds them until the AMC would have *)
(* confirmed them, the scheduler of instalment plans and the baskets that  *)
(* place orders through it.                                                *)
(*                                                                         *)
(* Amounts are minor units; fund units are counted in parts finer than the *)
(* step they are rounded to, as a client may redeem such parts.  Every     *)
(* request names the time it runs at (or the clock does), so times given   *)
(* to successive requests need not grow; the time of a plan is counted in  *)
(* days of a calendar whose months differ.  A sweep collects what is due   *)
(* under the mutex, releases it, and works through what it collected, so   *)
(* two sweeps may hold one order.                                          *)
(***************************************************************************)
EXTENDS Integers, Sequences, FiniteSets, FiniteSetsExt, SequencesExt

CONSTANTS
    Investors,
    Schemes,           \* 1 .. n, in the order of their ids
    Traded,            \* the schemes that clients order directly
    Navs,              \* net asset values a scheme may take
    UnitScale,         \* parts in a whole fund unit
    StepSize,          \* parts in the step that units are rounded to
    ConfirmationDelay,
    LastAsOf,          \* bound: the latest time a request names
    Sweepers,          \* requests that run a sweep
    Lumpsums,          \* amounts clients invest
    RedeemedUnits,     \* units clients redeem
    Plans,             \* instalment plans clients register: scheme, base, stepUp, start
    MonthLength,       \* days in each month of a year
    LastDay,           \* bound: the latest day a sweep of the plans names
    Weights,           \* target weights clients give a basket
    MaxFundOrders,     \* bound: orders placed
    MaxInstalments,    \* bound: instalments of a plan
    GoalTargets, GoalMonths, GoalContributions,
    MonthlyGrowth      \* assumedMonthlyGrowthRate: numerator, denominator

ASSUME FundAssumption ==
    /\ Schemes = 1 .. Cardinality(Schemes) /\ Traded \subseteq Schemes
    /\ Navs \subseteq Nat \ {0} /\ StepSize \in Nat \ {0} /\ UnitScale \in Nat \ {0}
    /\ MonthLength \in Seq(Nat \ {0}) /\ MonthLength # <<>>

VARIABLES
    nav,               \* FundCatalog: scheme -> current net asset value
    fundOrders,        \* AmcOrderRouter.ordersById, in the order placed
    fundHoldings,      \* holdingsByAccount
    sweep,             \* what each sweep holds
    heldTwice,         \* history: orders and plans two sweeps held at once
    sips,              \* sipsById
    basket,            \* the weights of the basket, once created
    subscribed,        \* history: what was subscribed to the basket, with its orders
    rebalance,         \* a rebalance that has read the holdings, and what the last one traded
    goals              \* goalsById

orderVars == <<nav, fundOrders, fundHoldings, sweep, heldTwice>>
basketVars == <<basket, subscribed, rebalance>>
fundVars == <<orderVars, sips, basketVars, goals>>

\* math.Round of a/b, for b > 0: halves go away from zero.
Rounded(a, b) == IF a < 0 THEN -((b - 2 * a) \div (2 * b)) ELSE (2 * a + b) \div (2 * b)

\* Units to the step they are struck to.
roundUnits(units) == StepSize * Rounded(units, StepSize)
UnitsFor(amount, price) == StepSize * Rounded(amount * UnitScale, price * StepSize)

SumOver(S, f(_)) == MapThenSumSet(f, S)

NoBasket == [s \in {} |-> 0]
IdleSweep == [task |-> "none", due |-> {}, placed |-> {}]
NoRebalance == [account |-> {}, bought |-> 0, sold |-> 0, legs |-> 0]

FundInit ==
    /\ nav \in [Schemes -> {Max(Navs)}]
    /\ fundOrders = <<>>
    /\ fundHoldings = [a \in Investors |-> [s \in Schemes |-> [total |-> 0, reserved |-> 0]]]
    /\ sweep = [w \in Sweepers |-> IdleSweep]
    /\ heldTwice = [orders |-> {}, sips |-> {}]
    /\ sips = <<>>
    /\ basket = NoBasket
    /\ subscribed = <<>>
    /\ rebalance = NoRebalance
    /\ goals = {}

\* An order that is sent out now.  confirms and allotted are histories: how often
\* it was confirmed, and the units of all those times; from tells who placed it.
NewOrder(a, s, type, quantity, asOf, from) ==
    [account |-> a, scheme |-> s, type |-> type, quantity |-> quantity,
     eligibleAt |-> asOf + ConfirmationDelay, status |-> "PENDING",
     confirms |-> 0, allotted |-> 0, from |-> from]

Client == [kind |-> "client", plan |-> 0, due |-> 0]

HasRoom(n) == Len(fundOrders) + n <= MaxFundOrders

UpdateNav ==
    /\ \E s \in Traded, v \in Navs : nav[s] # v /\ nav' = [nav EXCEPT ![s] = v]
    /\ UNCHANGED <<fundOrders, fundHoldings, sweep, heldTwice, sips, basket, subscribed, rebalance, goals>>

LumpsumPurchase ==
    /\ HasRoom(1)
    /\ \E a \in Investors, s \in Traded, amount \in Lumpsums, asOf \in 0 .. LastAsOf :
          fundOrders' = Append(fundOrders, NewOrder(a, s, "PURCHASE", amount, asOf, Client))
    /\ UNCHANGED <<nav, fundHoldings, sweep, heldTwice, sips, basket, subscribed, rebalance, goals>>

AvailableUnits(holding) == holding.total - holding.reserved

\* What is redeemed is reserved at once, so that it cannot be redeemed twice.
PlaceRedemptionOrder(a, s, units, asOf) ==
    /\ units <= AvailableUnits(fundHoldings[a][s])
    /\ fundOrders' = Append(fundOrders, NewOrder(a, s, "REDEMPTION", units, asOf, Client))
    /\ fundHoldings' = [fundHoldings EXCEPT ![a][s].reserved = @ + units]

Redemption ==
    /\ HasRoom(1)
    /\ \E a \in Investors, s \in Traded, units \in RedeemedUnits, asOf \in 0 .. LastAsOf :
          PlaceRedemptionOrder(a, s, units, asOf)
    /\ UNCHANGED <<nav, sweep, heldTwice, sips, basket, subscribed, rebalance, goals>>

Starts(w, task, due) == sweep' = [sweep EXCEPT ![w] = [task |-> task, due |-> due, placed |-> {}]]

HeldBySweep(v) == sweep[v].due \union {fundOrders[o].from.plan : o \in sweep[v].placed}
HeldByOthers(w, task) == UNION {HeldBySweep(v) : v \in {u \in Sweepers \ {w} : sweep[u].task = task}}

ConfirmDueCollects ==
    /\ \E w \in Sweepers, asOf \in 0 .. LastAsOf :
          LET due == {o \in DOMAIN fundOrders :
                         fundOrders[o].status = "PENDING" /\ asOf >= fundOrders[o].eligibleAt}
          IN /\ sweep[w] = IdleSweep /\ due # {}
             /\ Starts(w, "orders", due)
             /\ heldTwice' = [heldTwice EXCEPT !.orders = @ \union (due \intersect HeldByOthers(w, "orders"))]
    /\ UNCHANGED <<nav, fundOrders, fundHoldings, sips, basket, subscribed, rebalance, goals>>

Drop(w, o) ==
    sweep' = [sweep EXCEPT ![w] = IF @.due = {o} THEN IdleSweep ELSE [@ EXCEPT !.due = @ \ {o}]]

AtLeastNone(n) == IF n < 0 THEN 0 ELSE n

\* Mutant: a redemption that is confirmed stays reserved.
ConfirmOrderKeepingReserve(o) ==
    LET order == fundOrders[o]
        units == IF order.type = "PURCHASE" THEN UnitsFor(order.quantity, nav[order.scheme])
                                            ELSE -order.quantity
    IN /\ fundOrders' = [fundOrders EXCEPT ![o] = [@ EXCEPT
             !.status = "CONFIRMED", !.confirms = @ + 1, !.allotted = @ + AtLeastNone(units)]]
       /\ fundHoldings' = [fundHoldings EXCEPT ![order.account][order.scheme].total = roundUnits(@ + units)]

\* Confirmed at the net asset value of this moment, whatever has become of the order since it
\* was collected.  What is left of the holding, and of what it reserves, is rounded.
ConfirmOrder(o) ==
    LET order == fundOrders[o]
        units == IF order.type = "PURCHASE" THEN UnitsFor(order.quantity, nav[order.scheme])
                                            ELSE -order.quantity
    IN /\ fundOrders' = [fundOrders EXCEPT ![o] = [@ EXCEPT
             !.status = "CONFIRMED", !.confirms = @ + 1, !.allotted = @ + AtLeastNone(units)]]
       /\ fundHoldings' = [fundHoldings EXCEPT ![order.account][order.scheme] =
             [total |-> roundUnits(@.total + units),
              reserved |-> IF order.type = "PURCHASE" THEN @.reserved ELSE roundUnits(@.reserved + units)]]

ConfirmDueConfirms ==
    /\ \E w \in Sweepers : sweep[w].task = "orders" /\ \E o \in sweep[w].due : ConfirmOrder(o) /\ Drop(w, o)
    /\ UNCHANGED <<nav, heldTwice, sips, basket, subscribed, rebalance, goals>>

FundOrderNext ==
    UpdateNav \/ LumpsumPurchase \/ Redemption \/ ConfirmDueCollects \/ ConfirmDueConfirms

OrdersOf(a, s) == {o \in DOMAIN fundOrders : fundOrders[o].account = a /\ fundOrders[o].scheme = s}
Purchases(a, s) == {o \in OrdersOf(a, s) : fundOrders[o].type = "PURCHASE"}
Redemptions(a, s) == OrdersOf(a, s) \ Purchases(a, s)

Near(n, m, times) == 2 * (n - m) <= StepSize * times /\ 2 * (m - n) <= StepSize * times

\* A holding is what its orders make it: units allotted less units redeemed, with the
\* pending redemptions reserved.  An order is confirmed more than once only if two sweeps
\* held it at once; but for those, nobody redeems more than they hold.  Units are "struck to
\* 3-4 decimal precision" (amcOrderRouter.go:321-323), which holds of what is allotted: a
\* client redeems any part of a step, so each confirmed redemption may move the holding, and
\* the reserve, by half a step, and one of less than that pays out and leaves the holding
\* as it was.  Without such parts, the books are exact.
HoldingsFollowTheOrders ==
    /\ \A a \in Investors, s \in Schemes :
          LET Units(o) == fundOrders[o].allotted
              Redeemed(o) == fundOrders[o].quantity * fundOrders[o].confirms
              Reserved(o) == fundOrders[o].quantity * (1 - fundOrders[o].confirms)
              Confirms(o) == fundOrders[o].confirms
              inSteps == \A o \in Redemptions(a, s) : (fundOrders[o].quantity % StepSize) = 0
              rounded == IF inSteps THEN 0 ELSE SumOver(Redemptions(a, s), Confirms)
              holding == fundHoldings[a][s]
          IN /\ Near(holding.total, SumOver(Purchases(a, s), Units) - SumOver(Redemptions(a, s), Redeemed), rounded)
             /\ Near(holding.reserved, SumOver(Redemptions(a, s), Reserved), rounded)
             /\ inSteps /\ OrdersOf(a, s) \intersect heldTwice.orders = {} =>
                   0 <= holding.reserved /\ holding.reserved <= holding.total
    /\ \A o \in DOMAIN fundOrders :
          fundOrders[o].confirms > 1 => o \in heldTwice.orders

--------------------
(* sipscheduler *)
MonthsPerYear == Len(MonthLength)
FirstDay(month) == SumOver(0 .. month - 1, LAMBDA m : MonthLength[(m % MonthsPerYear) + 1])
MonthOf(date) == Max({m \in 0 .. date : FirstDay(m) <= date})
DayOf(date) == date - FirstDay(MonthOf(date))

\* time.AddDate: the same day of a later month; one that month does not have is as many
\* days into the month after it.
AddMonths(date, months) == FirstDay(MonthOf(date) + months) + DayOf(date)

fullYearsElapsed(start, due) == Cardinality({y \in 1 .. due : AddMonths(start, y * MonthsPerYear) <= due})

SteppedUp(sip, years) == Rounded(sip.base * (100 + sip.stepUp)^years, 100^years)
stepUpAdjustedInstallmentAmount(sip, due) == SteppedUp(sip, fullYearsElapsed(sip.start, due))

\* stopped and overtaken are histories: the plan was paused or cancelled, and was so
\* while a sweep held it.
RegisterSip ==
    /\ Len(sips) < 2
    /\ \E a \in Investors, p \in Plans :
          sips' = Append(sips, [account |-> a, scheme |-> p.scheme, base |-> p.base, stepUp |-> p.stepUp,
                                start |-> p.start, nextDue |-> p.start, current |-> p.base, executed |-> 0,
                                status |-> "ACTIVE", stopped |-> FALSE, overtaken |-> FALSE])
    /\ UNCHANGED <<nav, fundOrders, fundHoldings, sweep, heldTwice, basket, subscribed, rebalance, goals>>

SipsHeld == UNION {HeldBySweep(w) : w \in {v \in Sweepers : sweep[v].task = "sips"}}

SipMutation(from, to) ==
    /\ \E p \in DOMAIN sips :
          /\ sips[p].status \in from
          /\ sips' = [sips EXCEPT ![p] = [@ EXCEPT
                !.status = to, !.stopped = @ \/ to # "ACTIVE",
                !.overtaken = @ \/ (to # "ACTIVE" /\ p \in SipsHeld)]]
    /\ UNCHANGED <<nav, fundOrders, fundHoldings, sweep, heldTwice, basket, subscribed, rebalance, goals>>

PauseSip == SipMutation({"ACTIVE"}, "PAUSED")

\* The next due date stays where it was: what was missed is caught up, one
\* instalment to a sweep.
ResumeSip == SipMutation({"PAUSED"}, "ACTIVE")
CancelSip == SipMutation({"ACTIVE", "PAUSED"}, "CANCELLED")

SweepDueCollects ==
    /\ \E w \in Sweepers, asOf \in 0 .. LastDay :
          LET due == {p \in DOMAIN sips : sips[p].status = "ACTIVE" /\ asOf >= sips[p].nextDue}
          IN /\ sweep[w] = IdleSweep /\ due # {}
             /\ Starts(w, "sips", due)
             /\ heldTwice' = [heldTwice EXCEPT !.sips = @ \union (due \intersect HeldByOthers(w, "sips"))]
    /\ UNCHANGED <<nav, fundOrders, fundHoldings, sips, basket, subscribed, rebalance, goals>>

\* The order goes out before the plan is advanced, and a plan that was paused or
\* cancelled since it was collected is executed all the same.
SweepDuePlaces ==
    /\ HasRoom(1)
    /\ \E w \in Sweepers :
          /\ sweep[w].task = "sips" /\ sweep[w].placed = {}
          /\ \E p \in sweep[w].due :
                LET sip == sips[p]
                IN /\ sip.executed < MaxInstalments
                   /\ fundOrders' = Append(fundOrders,
                         NewOrder(sip.account, sip.scheme, "PURCHASE",
                                  stepUpAdjustedInstallmentAmount(sip, sip.nextDue), 0,
                                  [kind |-> sip.status, plan |-> p, due |-> sip.nextDue]))
                   /\ sweep' = [sweep EXCEPT ![w] =
                         [@ EXCEPT !.due = @ \ {p}, !.placed = {Len(fundOrders) + 1}]]
    /\ UNCHANGED <<nav, fundHoldings, heldTwice, sips, basket, subscribed, rebalance, goals>>

SweepDueAdvances ==
    /\ \E w \in Sweepers : \E o \in sweep[w].placed :
          /\ sweep[w].task = "sips"
          /\ sips' = [sips EXCEPT ![fundOrders[o].from.plan] = [@ EXCEPT
                !.current = fundOrders[o].quantity, !.executed = @ + 1,
                !.nextDue = AddMonths(@, 1)]]
          /\ sweep' = [sweep EXCEPT ![w] = IF @.due = {} THEN IdleSweep ELSE [@ EXCEPT !.placed = {}]]
    /\ UNCHANGED <<nav, fundOrders, fundHoldings, heldTwice, basket, subscribed, rebalance, goals>>

SipNext ==
    \/ RegisterSip \/ PauseSip \/ ResumeSip \/ CancelSip
    \/ SweepDueCollects \/ SweepDuePlaces \/ SweepDueAdvances

\* A day of the month that no month lacks.
InEveryMonth(date) == \A m \in DOMAIN MonthLength : DayOf(date) < MonthLength[m]

\* Every instalment that went out is counted or about to be.  A plan no two sweeps held at
\* once has one instalment at most in any month, and if it was never stopped and its day is
\* in every month, one in each, of the amount the step-ups make it.  What is excepted, the
\* comments promise: "a second sweep call ... finds nothing due" (sipScheduler.go:243-245)
\* but two at once both place the instalment; NextDueDate moves "by one month" (237), but
\* from 31 January to 2 or 3 March and stays there; "installments that would have fallen
\* while paused are simply skipped" (171-174), but each sweep after ResumeSip places one,
\* so that nothing is demanded of a plan once stopped; and "CANCELLED SIPs are never
\* touched" (241), but for one that a sweep held when it was stopped.
InstalmentsFollowTheCalendar ==
    \A p \in DOMAIN sips :
        LET sip == sips[p]
            placed == {o \in DOMAIN fundOrders : fundOrders[o].from.plan = p}
            open == {w \in Sweepers : sweep[w].task = "sips" /\ placed \intersect sweep[w].placed # {}}
            regular == InEveryMonth(sip.start)
        IN /\ Cardinality(placed) = sip.executed + Cardinality(open)
           /\ \A o \in placed : fundOrders[o].from.kind # "ACTIVE" => sip.overtaken
           /\ regular => sip.nextDue = AddMonths(sip.start, sip.executed)
           /\ p \notin heldTwice.sips =>
                 \A month \in MonthOf(sip.start) .. MonthOf(sip.nextDue) - 1 :
                     LET due == {o \in placed : MonthOf(fundOrders[o].from.due) = month}
                     IN /\ Cardinality(due) <= 1
                        /\ regular /\ ~sip.stopped => Cardinality(due) = 1
                        /\ regular => \A o \in due : fundOrders[o].quantity =
                              SteppedUp(sip, (month - MonthOf(sip.start)) \div MonthsPerYear)

--------------------
(* basketrebalancing *)
CreateBasket ==
    /\ basket = NoBasket
    /\ \E w \in Weights :
          /\ Cardinality(DOMAIN w) >= 2
          /\ \A s \in DOMAIN w : w[s] > 0
          /\ SumOver(DOMAIN w, LAMBDA s : w[s]) = 100
          /\ basket' = w
    /\ UNCHANGED <<nav, fundOrders, fundHoldings, sweep, heldTwice, sips, subscribed, rebalance, goals>>

\* Every constituent but the last has its rounded share; the last takes what is
\* left, which may be nothing or less.
splitProportionally(total, s) ==
    LET share(c) == Rounded(total * basket[c], 100)
    IN IF s = Max(DOMAIN basket)
       THEN total - SumOver(DOMAIN basket \ {s}, share) ELSE share(s)

\* The orders that a function from schemes to amounts asks for, in scheme order.
Buys(a, amounts, asOf) ==
    LET rest == SetToSortSeq({s \in DOMAIN amounts : amounts[s] > 0}, <)
    IN [i \in DOMAIN rest |-> NewOrder(a, rest[i], "PURCHASE", amounts[rest[i]], asOf, Client)]

SubscribeToBasket ==
    /\ basket # NoBasket /\ Len(subscribed) < 2
    /\ HasRoom(Cardinality(DOMAIN basket))
    /\ \E a \in Investors, lumpsum \in Lumpsums, asOf \in {0} :
          LET placed == Buys(a, [s \in DOMAIN basket |-> splitProportionally(lumpsum, s)], asOf)
          IN /\ fundOrders' = fundOrders \o placed
             /\ subscribed' = Append(subscribed,
                   [lumpsum |-> lumpsum,
                    orders |-> {Len(fundOrders) + i : i \in DOMAIN placed}])
    /\ UNCHANGED <<nav, fundHoldings, sweep, heldTwice, sips, basket, rebalance, goals>>

\* A rebalance reads the holdings, reserved units included, ...
RebalanceReadsHoldings ==
    /\ basket # NoBasket /\ rebalance.account = {}
    /\ \E a \in Investors :
          /\ \E s \in DOMAIN basket : fundHoldings[a][s].total > 0
          /\ rebalance' = [account |-> {a}, held |-> fundHoldings[a],
                           bought |-> 0, sold |-> 0, legs |-> 0]
    /\ UNCHANGED <<nav, fundOrders, fundHoldings, sweep, heldTwice, sips, basket, subscribed, goals>>

\* ... values them, and trades the difference to the targets, but for a unit.  A
\* sale of what is no longer available fails alone.
RebalancePlacesOrders ==
    /\ HasRoom(Cardinality(DOMAIN basket))
    /\ \E a \in rebalance.account :
          LET value(s) == Rounded(rebalance.held[s].total * nav[s], UnitScale)
              target(s) == Rounded(SumOver(DOMAIN basket, value) * basket[s], 100)
              excess(s) == value(s) - target(s)
              units(s) == UnitsFor(excess(s), nav[s])
              sells == {s \in DOMAIN basket : excess(s) > 1}
              sold == {s \in sells : units(s) \in 1 .. AvailableUnits(fundHoldings[a][s])}
              ranked == SetToSortSeq(sold, <)
          IN /\ fundOrders' = fundOrders
                   \o Buys(a, [s \in DOMAIN basket |-> IF excess(s) < -1 THEN -excess(s) ELSE 0], 0)
                   \o [i \in DOMAIN ranked |->
                         NewOrder(a, ranked[i], "REDEMPTION", units(ranked[i]), 0, Client)]
             /\ fundHoldings' = [fundHoldings EXCEPT ![a] = [s \in Schemes |->
                   IF s \in sold THEN [@[s] EXCEPT !.reserved = @ + units(s)] ELSE @[s]]]
             /\ rebalance' = [account |-> {}, legs |-> Cardinality(DOMAIN basket),
                   bought |-> SumOver({s \in DOMAIN basket : excess(s) < -1}, LAMBDA s : -excess(s)),
                   sold |-> SumOver(sells, excess)]
    /\ UNCHANGED <<nav, sweep, heldTwice, sips, basket, subscribed, goals>>

BasketNext == CreateBasket \/ SubscribeToBasket \/ RebalanceReadsHoldings \/ RebalancePlacesOrders

\* The shares of all constituents but the last round up to more than the lumpsum, so that
\* what is left for the last is less than nothing.
SharesExceed(lumpsum) == splitProportionally(lumpsum, Max(DOMAIN basket)) < 0

\* The legs of a subscription invest the lumpsum to the unit: "splits ... sum EXACTLY",
\* so as not to "lose or manufacture money" (basketRebalancer.go:216-219).  Where the
\* shares exceed it, the last leg is skipped and more is invested than was given, by less
\* than half a minor unit for each leg.  And a rebalance buys for what it sells, give or
\* take the threshold and the rounding of each leg.
BasketsInvestTheLumpsum ==
    /\ \A n \in DOMAIN subscribed :
          LET given == subscribed[n].lumpsum
              invested == SumOver(subscribed[n].orders, LAMBDA o : fundOrders[o].quantity)
          IN IF SharesExceed(given) THEN given < invested /\ 2 * (invested - given) < Cardinality(DOMAIN basket)
                                    ELSE invested = given
    /\ LET net == rebalance.bought - rebalance.sold
       IN 2 * net <= 3 * rebalance.legs /\ -(2 * net) <= 3 * rebalance.legs

--------------------
(* goalinvesting *)
CreateGoal ==
    /\ goals = {}
    /\ \E a \in Investors, target \in GoalTargets, monthly \in GoalContributions,
         now \in GoalMonths, targetDate \in GoalMonths, linked \in SUBSET Traded :
          /\ now < targetDate /\ target > 0 /\ monthly >= 0 /\ linked # {}
          /\ goals' = {[account |-> a, target |-> target, monthly |-> monthly,
                        date |-> targetDate, linked |-> linked]}
    /\ UNCHANGED <<orderVars, sips, basketVars>>

monthsBetween(start, end) == IF end > start THEN end - start ELSE 0

\* What one unit saved now, and one saved every month, come to after so many
\* months, in the months-th power of the denominator.
GrowthFactor(months) == (MonthlyGrowth.den + MonthlyGrowth.num)^months
AnnuityFactor(months) ==
    SumOver(0 .. months - 1, LAMBDA k : GrowthFactor(k) * MonthlyGrowth.den^(months - k))

projectFutureValue(value, monthly, months) ==
    Rounded(value * GrowthFactor(months) + monthly * AnnuityFactor(months), MonthlyGrowth.den^months)

requiredMonthlyContribution(value, target, months) ==
    LET needed == target * MonthlyGrowth.den^months - value * GrowthFactor(months)
    IN IF months <= 0 \/ needed <= 0 THEN 0
       ELSE (needed + AnnuityFactor(months) - 1) \div AnnuityFactor(months)

CalculateProgress(goal, now) ==
    LET value == SumOver(goal.linked,
                    LAMBDA s : Rounded(fundHoldings[goal.account][s].total * nav[s], UnitScale))
        remaining == monthsBetween(now, goal.date)
        projected == projectFutureValue(value, goal.monthly, remaining)
    IN [value |-> value, remaining |-> remaining, onTrack |-> projected >= goal.target,
        required |-> IF projected < goal.target /\ remaining > 0
                     THEN requiredMonthlyContribution(value, goal.target, remaining) ELSE 0]

\* A goal that is off track is told a contribution that is more than it makes and
\* that does reach the target, whatever the holdings have come to.
GoalsCanBeReached ==
    \A goal \in goals, now \in GoalMonths :
        LET progress == CalculateProgress(goal, now)
        IN ~progress.onTrack /\ progress.remaining > 0 =>
              /\ progress.required > goal.monthly
              /\ projectFutureValue(progress.value, progress.required, progress.remaining) >= goal.target
====================
