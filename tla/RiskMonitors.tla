-------- MODULE RiskMonitors --------
(***************************************************************************)
(* What watches an account of oms-gateway while it trades: the engine that *)
(* sells an over-borrowed account's shares, the cost basis that marks      *)
(* positions to the market, the gate in front of a first F&O order and the *)
(* detector of overtrading.  Each has one lock, and each is given what it  *)
(* decides on by a handler that read it, or the clock, before that lock.   *)
(***************************************************************************)
EXTENDS Integers, Sequences, FiniteSets, FiniteSetsExt, SequencesExt, Functions

CONSTANTS
    Evaluations,          \* calls of /auto-liquidation/evaluate
    Borrowed, PledgedWorth,
    LongPositions,        \* quantity per symbol, 0 or less: none or short
    LastPrices,           \* price per symbol, 0: never pushed
    ExecutionPrices, StrayNotionals,
    TargetPercent,
    Markers, MarkedQuantities, MarkedPrices, MaxMarkedFills,
    FnoOrders, CoolingOff, LastMoment,
    Submissions, RecentWindow, Lookback, MinimumCount, Multiplier, RapidGap, Cooldown,
    MaxHistory

\* Positions and prices of the same symbols; amounts, prices and quantities of fills are
\* not negative in the code.  The thresholds of a detector are positive, and it remembers
\* the orders of a burst (DefaultThresholds: 5 of 500).
ASSUME MonitorAssumption ==
    LET symbols == UNION {DOMAIN positions : positions \in LongPositions} IN
    /\ Borrowed \subseteq Nat /\ PledgedWorth \subseteq Nat /\ TargetPercent \in Nat
    /\ LongPositions \subseteq [symbols -> Int] /\ LastPrices \subseteq [symbols -> Nat]
    /\ ExecutionPrices \subseteq Nat /\ StrayNotionals \subseteq Nat
    /\ IsFiniteSet(Markers) /\ MarkedQuantities \subseteq Nat /\ MarkedPrices \subseteq Nat
    /\ IsFiniteSet(Submissions) /\ CoolingOff \in Nat /\ Cooldown \in Nat \ {0}
    /\ RecentWindow \in Nat \ {0} /\ Lookback \in Nat \ {0} /\ RapidGap \in Nat
    /\ MaxHistory \in Nat /\ MinimumCount \in 1 .. MaxHistory /\ MaxHistory >= 2

VARIABLES
    principal, pledgedWorth,  \* FundingBook and PledgeBook, which selling does not change
    longs, encumbered,    \* PositionBook, and the shares the sell gate holds back
    evaluation,           \* per call: its snapshot, what it must still raise and its sales
    basis,                \* costBasisEntry per account
    cost,                 \* history: fills of a position only added to
    markedFills,          \* bound
    moment,               \* the wall clock
    disclosure,           \* AcknowledgementRecord
    fno,                  \* per F&O order: where it stands and what the gate saw
    submission,           \* per order: the time its handler took, and where it stands
    history, cooldownUntil, nudges,
    takenInOrder          \* history: no submission was recorded behind a later one

liquidationVars == <<principal, pledgedWorth, longs, encumbered, evaluation>>
markVars == <<basis, cost, markedFills>>
disclosureVars == <<disclosure, fno>>
paceVars == <<submission, history, cooldownUntil, nudges, takenInOrder>>
monitorVars == <<liquidationVars, markVars, moment, disclosureVars, paceVars>>

Never == -1
Unstarted == [at |-> "idle"]

MonitorInit ==
    /\ principal \in Borrowed /\ pledgedWorth \in PledgedWorth
    /\ longs \in LongPositions /\ encumbered \in {0, 1}
    /\ evaluation = [e \in Evaluations |-> Unstarted]
    /\ basis = [a \in Markers |-> [net |-> 0, average |-> 0]]
    /\ cost = [a \in Markers |-> [paid |-> 0, additions |-> 0, prices |-> {}]]
    /\ markedFills = 0 /\ moment = 0
    /\ disclosure = [acknowledgedAt |-> Never, placed |-> FALSE]
    /\ fno = [o \in FnoOrders |-> Unstarted]
    /\ submission = [s \in Submissions |-> Unstarted]
    /\ history = <<>> /\ cooldownUntil = Never /\ nudges = {} /\ takenInOrder = TRUE
--------------------
(* autoliquidation *)

Raised(sales) == SumFunction([n \in DOMAIN sales |-> sales[n].executed])
ceilDiv(n, d) == (n + d - 1) \div d

\* The handler reads the books before the engine's lock is asked for.
AssembleLeverageSnapshot(e) ==
    /\ evaluation[e] = Unstarted
    /\ \E prices \in LastPrices :
          evaluation' = [evaluation EXCEPT ![e] =
              [at |-> "snapshot", positions |-> longs, prices |-> prices, shortfall |-> 0,
               untried |-> DOMAIN longs, skipped |-> {}, sales |-> <<>>]]
    /\ UNCHANGED <<principal, pledgedWorth, longs, encumbered>>

\* ClassifyUtilization at 100 percent or more; nothing pledged counts as far beyond it.
IsBreached == principal > 0 /\ principal >= pledgedWorth

Shortfall == principal - ((pledgedWorth * TargetPercent) \div 100)
EngineIsFree == \A e \in Evaluations : evaluation[e].at # "selling"

BeginEvaluation(e) ==
    /\ evaluation[e].at = "snapshot" /\ EngineIsFree
    /\ evaluation' = [evaluation EXCEPT
          ![e].at = IF IsBreached THEN "selling" ELSE "ended",
          ![e].shortfall = IF IsBreached THEN Shortfall ELSE 0]
    /\ UNCHANGED <<principal, pledgedWorth, longs, encumbered>>

Remaining(v) == v.shortfall - Raised(v.sales)

\* sortPositionsByNotionalDescending: equal notionals come in the order of a Go map.
IsNext(v, i) ==
    i \in v.untried /\ \A j \in v.untried :
        v.positions[j] * v.prices[j] <= v.positions[i] * v.prices[i]

SkipPosition(e) ==
    LET v == evaluation[e] IN
    /\ v.at = "selling" /\ Remaining(v) > 0
    /\ \E i \in v.untried :
          /\ IsNext(v, i) /\ (v.positions[i] <= 0 \/ v.prices[i] = 0)
          /\ evaluation' = [evaluation EXCEPT ![e] =
                [v EXCEPT !.untried = @ \ {i},
                          !.skipped = @ \union {x \in {i} : v.positions[x] > 0}]]
    /\ UNCHANGED <<principal, pledgedWorth, longs, encumbered>>

QuantityToSell(v, i) == Min({ceilDiv(Remaining(v), v.prices[i]), v.positions[i]})

\* The market order passes the gates or is refused, fills in part or not at all, and its
\* reply may list trades of stops it set off, which are other accounts'.
SellPosition(e) ==
    LET v == evaluation[e] IN
    /\ v.at = "selling" /\ Remaining(v) > 0
    /\ \E i \in {x \in v.untried : IsNext(v, x) /\ v.positions[x] > 0 /\ v.prices[x] > 0} :
       \E price \in ExecutionPrices, stray \in StrayNotionals,
          filled \in 0 .. QuantityToSell(v, i) :
          /\ QuantityToSell(v, i) > longs[i] - encumbered => filled = 0 /\ stray = 0
          /\ filled = 0 => stray = 0
          /\ longs' = [longs EXCEPT ![i] = @ - filled]
          /\ evaluation' = [evaluation EXCEPT ![e] = [v EXCEPT !.untried = @ \ {i},
                !.sales = Append(@, [symbol |-> i, quantity |-> QuantityToSell(v, i),
                                     filled |-> filled, executed |-> filled * price + stray,
                                     stray |-> stray])]]
    /\ UNCHANGED <<principal, pledgedWorth, encumbered>>

EndEvaluation(e) ==
    LET v == evaluation[e] IN
    /\ v.at = "selling" /\ (Remaining(v) <= 0 \/ v.untried = {})
    /\ evaluation' = [evaluation EXCEPT ![e].at = "ended"]
    /\ UNCHANGED <<principal, pledgedWorth, longs, encumbered>>

LiquidationNext ==
    \E e \in Evaluations :
        \/ AssembleLeverageSnapshot(e) \/ BeginEvaluation(e)
        \/ SkipPosition(e) \/ SellPosition(e) \/ EndEvaluation(e)
--------------------
(* marktomarket *)

Absolute(n) == IF n < 0 THEN -n ELSE n
SameSign(m, n) == (m > 0 /\ n > 0) \/ (m < 0 /\ n < 0)

\* applyFillLocked: averaged when added to, kept when reduced, the fill's own price when
\* opened or turned around.
AfterFill(entry, delta, price) ==
    LET net == entry.net + delta
        total == Absolute(entry.net) + Absolute(delta)
    IN [net |-> net,
        average |->
            IF entry.net = 0 THEN price
            ELSE IF SameSign(entry.net, delta)
                 THEN (entry.average * Absolute(entry.net) + price * Absolute(delta)) \div total
            ELSE IF net = 0 THEN 0
            ELSE IF SameSign(net, entry.net) THEN entry.average
            ELSE price]

\* What the fills that opened and added to a position cost, and their prices; a position
\* reduced since keeps only the prices.
CostAfter(entry, c, delta, price) ==
    LET net == entry.net + delta IN
    IF entry.net # 0 /\ SameSign(entry.net, delta)
    THEN [paid |-> IF c.paid = Never THEN Never ELSE c.paid + price * Absolute(delta),
          additions |-> c.additions + 1, prices |-> c.prices \union {price}]
    ELSE IF net = 0 THEN [paid |-> 0, additions |-> 0, prices |-> {}]
    ELSE IF SameSign(net, entry.net) THEN [c EXCEPT !.paid = Never]
    ELSE [paid |-> price * Absolute(net), additions |-> 1, prices |-> {price}]

\* The buyer's side first, then the seller's, who may be the same account.
ApplyFill ==
    /\ markedFills < MaxMarkedFills
    /\ \E buyer, seller \in Markers, quantity \in MarkedQuantities, price \in MarkedPrices :
          LET bought == [basis EXCEPT ![buyer] = AfterFill(@, quantity, price)]
              paid == [cost EXCEPT ![buyer] = CostAfter(basis[buyer], @, quantity, price)]
          IN /\ basis' = [bought EXCEPT ![seller] = AfterFill(@, -quantity, price)]
             /\ cost' = [paid EXCEPT ![seller] = CostAfter(bought[seller], @, -quantity, price)]
    /\ markedFills' = markedFills + 1
--------------------
(* riskdisclosuregate *)

Tick == moment < LastMoment /\ moment' = moment + 1

Acknowledge ==
    /\ disclosure' = [disclosure EXCEPT !.acknowledgedAt = moment]
    /\ UNCHANGED <<moment, fno>>

DisclosureClears ==
    \/ disclosure.placed
    \/ disclosure.acknowledgedAt # Never /\ moment - disclosure.acknowledgedAt >= CoolingOff

CheckFirstFnoOrderGate(o) ==
    /\ fno[o] = Unstarted
    /\ fno' = [fno EXCEPT ![o] = [at |-> IF DisclosureClears THEN "cleared" ELSE "refused",
                                  acknowledgedAt |-> disclosure.acknowledgedAt,
                                  checkedAt |-> moment,
                                  returning |-> disclosure.placed]]
    /\ UNCHANGED <<moment, disclosure>>

\* A later gate refuses the order, and nothing is recorded.
RejectFnoOrder(o) ==
    /\ fno[o].at = "cleared"
    /\ fno' = [fno EXCEPT ![o].at = "refused"]
    /\ UNCHANGED <<moment, disclosure>>

RecordFirstFnoOrderPlaced(o) ==
    /\ fno[o].at = "cleared"
    /\ fno' = [fno EXCEPT ![o].at = "placed"]
    /\ disclosure' = [disclosure EXCEPT !.placed = TRUE]
    /\ UNCHANGED moment

DisclosureNext ==
    \/ Acknowledge
    \/ Tick /\ UNCHANGED disclosureVars
    \/ \E o \in FnoOrders :
          CheckFirstFnoOrderGate(o) \/ RejectFnoOrder(o) \/ RecordFirstFnoOrderPlaced(o)
--------------------
(* overtradingdetection *)

\* The handler asks for the time once its order was processed, and takes the detector's
\* lock twice after that.
TakeTime(s) ==
    /\ submission[s] = Unstarted
    /\ submission' = [submission EXCEPT ![s] = [at |-> "timed", now |-> moment]]
    /\ UNCHANGED <<moment, history, cooldownUntil, nudges, takenInOrder>>

Newest(h) == SubSeq(h, Max({1, Len(h) - MaxHistory + 1}), Len(h))

RecordSubmission(s) ==
    /\ submission[s].at = "timed"
    /\ submission' = [submission EXCEPT ![s].at = "recorded"]
    /\ history' = Newest(Append(history, submission[s].now))
    /\ takenInOrder' = (takenInOrder /\ (history = <<>> \/ Last(history) <= submission[s].now))
    /\ UNCHANGED <<moment, cooldownUntil, nudges>>

CountWithin(window, now) ==
    Cardinality({i \in DOMAIN history : history[i] > now - window /\ history[i] <= now})

\* Arrivals as close as RapidGap, in the order they were recorded.
IsRapidFire ==
    LET gap == history[Len(history)] - history[Len(history) - 1]
    IN Len(history) >= 2 /\ gap >= 0 /\ gap < RapidGap

IsElevated(now) ==
    CountWithin(RecentWindow, now) * Lookback
        > CountWithin(Lookback, now) * RecentWindow * Multiplier

DeservesNudge(now) ==
    /\ CountWithin(RecentWindow, now) >= MinimumCount
    /\ IsRapidFire \/ IsElevated(now)

EvaluatePace(s) ==
    LET now == submission[s].now
        isNudged == now >= cooldownUntil /\ DeservesNudge(now)
    IN /\ submission[s].at = "recorded"
       /\ submission' = [submission EXCEPT ![s].at = "evaluated"]
       /\ cooldownUntil' = IF isNudged THEN now + Cooldown ELSE cooldownUntil
       /\ nudges' = nudges \union {n \in {now} : isNudged}
       /\ UNCHANGED <<moment, history, takenInOrder>>

PaceNext ==
    \/ Tick /\ UNCHANGED paceVars
    \/ \E s \in Submissions : TakeTime(s) \/ RecordSubmission(s) \/ EvaluatePace(s)
--------------------
\* liquidationEngine.go:12-17 promises sales only past the limit and only until the target:
\* an evaluation sells for nobody else, orders nothing once the gap of its snapshot is
\* closed, tries the largest positions first and gives up only when none is left.
LiquidationsCloseTheGap ==
    \A e \in Evaluations :
        LET v == evaluation[e] IN
        v.at \in {"selling", "ended"} =>
            /\ v.sales # <<>> => principal >= pledgedWorth
            /\ \A n \in DOMAIN v.sales :
                  LET sale == v.sales[n] IN
                  /\ Raised(SubSeq(v.sales, 1, n - 1)) < v.shortfall
                  /\ \A i \in v.untried \union {v.sales[m].symbol : m \in n .. Len(v.sales)} :
                        v.positions[i] * v.prices[i]
                            <= v.positions[sale.symbol] * v.prices[sale.symbol]
            /\ (v.at = "ended" /\ Remaining(v) > 0) =>
                  \A i \in DOMAIN v.positions : v.positions[i] > 0 =>
                      i \in v.skipped \/ \E n \in DOMAIN v.sales : v.sales[n].symbol = i

\* The comment of the engine's mutex (liquidationEngine.go:214-219) denies that two
\* breaches of one account liquidate twice, and they do: a snapshot may be older than the
\* sales of another evaluation, and no sale repays the loan.  What holds is that together
\* they sell no share twice: every sale leaves the account what its working orders hold.
SalesStayInTheHolding ==
    \A e \in Evaluations : evaluation[e] # Unstarted =>
        \A n \in DOMAIN evaluation[e].sales :
            LET sale == evaluation[e].sales[n]
            IN  sale.filled > 0 => longs[sale.symbol] >= encumbered

\* Every fill enters two accounts, so the cost bases hold no share that nobody sold; an
\* average is a price between those paid, and off their mean by less than a unit for
\* every addition.
CostBasisFollowsTheFills ==
    /\ SumFunction([a \in Markers |-> basis[a].net]) = 0
    /\ \A a \in Markers :
          LET held == Absolute(basis[a].net)
              worth == basis[a].average * held
          IN held # 0 =>
                /\ \E low, high \in cost[a].prices : basis[a].average \in low .. high
                /\ cost[a].paid # Never =>
                      worth <= cost[a].paid /\ cost[a].paid - worth < cost[a].additions * held

\* riskDisclosureGate.go:4-9: an account that has placed an F&O order placed its first one
\* a cooling-off period after the acknowledgement that held when it was checked, and one
\* that has placed is never held up again.
FirstOrdersFollowTheDisclosure ==
    disclosure.placed =>
        \E o \in FnoOrders :
            /\ fno[o].at = "placed" /\ ~fno[o].returning
            /\ fno[o].acknowledgedAt # Never
            /\ fno[o].checkedAt - fno[o].acknowledgedAt >= CoolingOff

\* overtradingDetector.go:1-30: two nudges are a cooldown apart, although handlers bring
\* their times late; and once all orders are evaluated a burst has been noticed, unless
\* one was recorded behind a later one, whose count it then does not see.
NudgesAreTimely ==
    LET evaluated == {s \in Submissions : submission[s].at = "evaluated"}
        latest == Max({submission[s].now : s \in evaluated})
        Within(window) == {s \in evaluated : latest - submission[s].now < window}
    IN /\ \A m, n \in nudges : m < n => n - m >= Cooldown
       /\ (takenInOrder /\ evaluated # {}
              /\ \A s \in Submissions : submission[s].at \in {"idle", "evaluated"}
              /\ Cardinality(Within(RecentWindow)) >= MinimumCount
              /\ Cardinality(Within(RapidGap)) >= 2)
          => cooldownUntil > latest
====================
