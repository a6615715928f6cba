-------- MODULE CompositeOrders --------
(***************************************************************************)
(* Orders that oms-gateway makes of several: option strategies, executed   *)
(* leg by leg and undone when a leg is refused, baskets, and cover orders, *)
(* whose stop protects what the entry filled.  Each part goes through the  *)
(* submission of a single order (or to the matching engine), which is seen *)
(* here by its answer: refused, or accepted with some of it filled.  An    *)
(* order stays accepted when the engine could not be reached or refused it *)
(* (main.go:1553), so what is accepted may have gone astray.               *)
(***************************************************************************)
EXTENDS Integers, Sequences, FiniteSets, FiniteSetsExt, SequencesExt, Functions

CONSTANTS
    CandidateLegs,     \* sequences of legs: type, strike, premium, buy, quantity
    SettlementPrices,  \* where the profit of a strategy is looked at
    CandidateBaskets,  \* cash constraint and constituents: buy, quantity, weight, price
    CoverQuantities,
    WordSize           \* of the machine's integers (2^64)

\* Handlers refuse a basket without constituents and a price of 0.
ASSUME CompositeAssumption ==
    /\ WordSize \in Nat \ {0} /\ WordSize % 2 = 0
    /\ CandidateLegs \subseteq Seq([type : {"CALL", "PUT"}, strike : Nat, premium : Nat,
                                   buy : BOOLEAN, quantity : Nat \ {0}]) \ {<<>>}
    /\ SettlementPrices \subseteq Nat /\ CoverQuantities \subseteq Nat
    /\ CandidateBaskets \subseteq
          [cash : Int, constituents : Seq([buy : BOOLEAN, quantity : 0 .. WordSize - 1,
                                           weight : Nat, price : Nat \ {0}])]
    /\ \A request \in CandidateBaskets : request.constituents # <<>>

VARIABLES
    diagram,           \* the last payoff diagram that was asked for
    strategy,          \* the option strategy being executed
    basket,            \* the basket being executed
    cover              \* the cover order being placed

compositeVars == <<diagram, strategy, basket, cover>>

None == [at |-> "none"]

CompositeInit ==
    /\ diagram = None
    /\ strategy = None
    /\ basket = None
    /\ cover = None

Sign(leg) == IF leg.buy THEN 1 ELSE -1

LegTotal(legs, f(_)) == SumFunction([i \in DOMAIN legs |-> f(legs[i])])

--------------------
(* payoffdiagram *)
intrinsicValueAtSpot(leg, spot) ==
    LET gain == IF leg.type = "CALL" THEN spot - leg.strike ELSE leg.strike - spot
    IN IF gain > 0 THEN gain ELSE 0

IntrinsicAtSpot(legs, spot) ==
    LegTotal(legs, LAMBDA leg : Sign(leg) * leg.quantity * intrinsicValueAtSpot(leg, spot))

PayoffAtSpotPrice(legs, spot) ==
    LegTotal(legs, LAMBDA leg : Sign(leg) * leg.quantity * (intrinsicValueAtSpot(leg, spot) - leg.premium))

segmentSlopeAtSpot(legs, spot) ==
    LegTotal(legs, LAMBDA leg : Sign(leg) * leg.quantity *
                 (IF leg.type = "CALL" THEN IF spot > leg.strike THEN 1 ELSE 0
                  ELSE IF spot < leg.strike THEN -1 ELSE 0))

candidateSpotPrices(legs) == {0} \union {legs[i].strike : i \in DOMAIN legs}

\* A breakeven is a fraction.  Between two neighbouring candidates the profit is
\* a straight line, and beyond the highest it follows the slope.
findBreakevens(legs) ==
    LET candidates == candidateSpotPrices(legs)
        payoff == [x \in candidates |-> PayoffAtSpotPrice(legs, x)]
        last == Max(candidates)
        slope == segmentSlopeAtSpot(legs, last + 1)
        neighbours == {p \in candidates \X candidates :
                          p[1] < p[2] /\ \A x \in candidates : x <= p[1] \/ x >= p[2]}
        AtCandidate == {[num |-> x, den |-> 1] : x \in {c \in candidates : payoff[c] = 0 /\ neighbours # {}}}
        Between == {[num |-> p[1] * (payoff[p[1]] - payoff[p[2]]) + payoff[p[1]] * (p[2] - p[1]),
                     den |-> payoff[p[1]] - payoff[p[2]]] :
                        p \in {q \in neighbours : payoff[q[1]] * payoff[q[2]] < 0}}
        Beyond == IF payoff[last] * slope < 0
                  THEN {[num |-> last * slope - payoff[last], den |-> slope]} ELSE {}
    IN AtCandidate \union Between \union Beyond

\* Mutant: the last candidate is left out of the extremes.
DiagramOfInnerSegments(legs) ==
    LET payoffs == {PayoffAtSpotPrice(legs, x) :
                       x \in candidateSpotPrices(legs) \ {Max(candidateSpotPrices(legs))}}
        slope == segmentSlopeAtSpot(legs, Max(candidateSpotPrices(legs)) + 1)
    IN [legs |-> legs, profitUnbounded |-> slope > 0, lossUnbounded |-> slope < 0,
        maxProfit |-> IF payoffs = {} THEN 0 ELSE Max(payoffs),
        maxLoss |-> IF payoffs = {} \/ Min(payoffs) > 0 THEN 0 ELSE -Min(payoffs),
        breakevens |-> findBreakevens(legs)]

ComputePayoffDiagram(legs) ==
    LET payoffs == {PayoffAtSpotPrice(legs, x) : x \in candidateSpotPrices(legs)}
        slope == segmentSlopeAtSpot(legs, Max(candidateSpotPrices(legs)) + 1)
    IN [legs |-> legs, profitUnbounded |-> slope > 0, lossUnbounded |-> slope < 0,
        maxProfit |-> Max(payoffs),
        maxLoss |-> IF Min(payoffs) > 0 THEN 0 ELSE -Min(payoffs),
        breakevens |-> findBreakevens(legs)]

ViewPayoffDiagram ==
    /\ diagram = None
    /\ \E legs \in CandidateLegs : diagram' = ComputePayoffDiagram(legs)
    /\ UNCHANGED <<strategy, basket, cover>>

\* The few prices a diagram looks at speak for all of them: no profit or loss at
\* any settlement price is beyond its extremes, and the profit changes sign only
\* at a breakeven it lists (optionsPayoffDiagram.go:191-229).
DiagramsSpeakForEveryPrice ==
    diagram # None =>
       LET payoff(x) == PayoffAtSpotPrice(diagram.legs, x)
       IN \A spot \in SettlementPrices :
             /\ diagram.profitUnbounded \/ payoff(spot) <= diagram.maxProfit
             /\ diagram.lossUnbounded \/ -payoff(spot) <= diagram.maxLoss
             /\ payoff(spot) * payoff(spot + 1) < 0 =>
                   \E b \in diagram.breakevens :
                      /\ spot * b.den * b.den <= b.num * b.den
                      /\ b.num * b.den <= (spot + 1) * b.den * b.den

--------------------
(* multilegoptions *)
Shapes == {"STRADDLE", "STRANGLE", "BULL_CALL_SPREAD", "BEAR_PUT_SPREAD", "IRON_CONDOR", "BUTTERFLY"}

\* Which legs are of a type.
legsOfType(legs, type) == {i \in DOMAIN legs : legs[i].type = type}

SameQuantity(legs) == \A i, j \in DOMAIN legs : legs[i].quantity = legs[j].quantity

validatePair(legs, strikesFit(_, _)) ==
    /\ Len(legs) = 2
    /\ \E call, put \in DOMAIN legs :
          /\ legsOfType(legs, "CALL") = {call} /\ legsOfType(legs, "PUT") = {put}
          /\ strikesFit(legs[call].strike, legs[put].strike)
          /\ SameQuantity(legs) /\ legs[call].buy = legs[put].buy

validateStraddle(legs) == validatePair(legs, LAMBDA call, put : call = put)
validateStrangle(legs) == validatePair(legs, LAMBDA call, put : call > put)

\* These are the legs of a type, two with distinct strikes, of which one is bought.
IsVertical(legs, type, lower, higher, lowerIsBought) ==
    /\ legsOfType(legs, type) = {lower, higher}
    /\ legs[lower].strike < legs[higher].strike
    /\ legs[lower].buy = lowerIsBought /\ legs[higher].buy = ~lowerIsBought

validateBullCallSpread(legs) ==
    /\ Len(legs) = 2 /\ SameQuantity(legs)
    /\ \E lower, higher \in DOMAIN legs : IsVertical(legs, "CALL", lower, higher, TRUE)

validateBearPutSpread(legs) ==
    /\ Len(legs) = 2 /\ SameQuantity(legs)
    /\ \E lower, higher \in DOMAIN legs : IsVertical(legs, "PUT", lower, higher, FALSE)

validateIronCondor(legs) ==
    /\ Len(legs) = 4 /\ SameQuantity(legs)
    /\ \E putLow, putHigh, callLow, callHigh \in DOMAIN legs :
          /\ IsVertical(legs, "PUT", putLow, putHigh, TRUE)
          /\ IsVertical(legs, "CALL", callLow, callHigh, FALSE)
          /\ legs[putHigh].strike <= legs[callLow].strike

validateButterfly(legs) ==
    /\ Len(legs) = 3
    /\ \E lowWing, body, highWing \in DOMAIN legs :
          /\ legsOfType(legs, "CALL") = {lowWing, body, highWing}
          /\ legs[lowWing].strike < legs[body].strike
          /\ legs[body].strike - legs[lowWing].strike = legs[highWing].strike - legs[body].strike
          /\ legs[lowWing].buy /\ legs[highWing].buy /\ ~legs[body].buy
          /\ legs[body].quantity = 2 * legs[lowWing].quantity
          /\ legs[lowWing].quantity = legs[highWing].quantity

ValidateStrategyShape(shape, legs) ==
    \/ shape = "STRADDLE" /\ validateStraddle(legs)
    \/ shape = "STRANGLE" /\ validateStrangle(legs)
    \/ shape = "BULL_CALL_SPREAD" /\ validateBullCallSpread(legs)
    \/ shape = "BEAR_PUT_SPREAD" /\ validateBearPutSpread(legs)
    \/ shape = "IRON_CONDOR" /\ validateIronCondor(legs)
    \/ shape = "BUTTERFLY" /\ validateButterfly(legs)

Outcome(leg, accepted) ==
    [leg |-> leg, accepted |-> accepted, rolledBack |-> FALSE, rollbackAccepted |-> FALSE]

ExecuteMultiLegOptions ==
    /\ strategy = None
    /\ \E shape \in Shapes, legs \in CandidateLegs :
          /\ ValidateStrategyShape(shape, legs)
          /\ strategy' = [at |-> "submitting", shape |-> shape, legs |-> legs, outcomes |-> <<>>,
                          undone |-> 0, ordered |-> [i \in DOMAIN legs |-> 0], astray |-> {}]
    /\ UNCHANGED <<diagram, basket, cover>>

\* One leg after the other; the first refusal turns to undoing those accepted.
SubmitLeg ==
    LET i == Len(strategy.outcomes) + 1
        leg == strategy.legs[i]
    IN /\ strategy.at = "submitting"
       /\ \/ \E reached \in BOOLEAN : strategy' = [strategy EXCEPT
                !.outcomes = Append(@, Outcome(leg, TRUE)),
                !.ordered[i] = IF reached THEN Sign(leg) * leg.quantity ELSE 0,
                !.astray = IF reached THEN @ ELSE @ \union {i},
                !.at = IF i = Len(strategy.legs) THEN "executed" ELSE "submitting"]
          \/ strategy' = [strategy EXCEPT
                !.outcomes = Append(@, Outcome(leg, FALSE)),
                !.at = IF i = 1 THEN "failed" ELSE "undoing"]
       /\ UNCHANGED <<diagram, basket, cover>>

\* The opposite of an accepted leg is submitted, whether that leg has traded or
\* rests; the answer is kept with the first equal leg that has none.
rollBackAcceptedLegs ==
    LET i == strategy.undone + 1
        leg == strategy.legs[i]
        marked == Min({j \in DOMAIN strategy.outcomes :
                          strategy.outcomes[j].leg = leg /\ ~strategy.outcomes[j].rolledBack})
    IN /\ strategy.at = "undoing"
       /\ \E accepted, reached \in BOOLEAN :
             strategy' = [strategy EXCEPT
                !.undone = i,
                !.ordered[i] = IF accepted /\ reached THEN @ - Sign(leg) * leg.quantity ELSE @,
                !.astray = IF accepted /\ ~reached THEN @ \union {i} ELSE @,
                !.outcomes[marked] = [@ EXCEPT !.rolledBack = TRUE, !.rollbackAccepted = accepted],
                !.at = IF i = Len(strategy.outcomes) - 1 THEN "failed" ELSE "undoing"]
       /\ UNCHANGED <<diagram, basket, cover>>

StrategyNext == ExecuteMultiLegOptions \/ SubmitLeg \/ rollBackAcceptedLegs

\* A strategy that is accepted loses no more than its shape allows at any price: the
\* premium of what is bought, the wider wing of a condor (multiLegOptionsStrategy.go:146).
ShapesLimitTheRisk ==
    strategy # None =>
       LET legs == strategy.legs
       IN \A spot \in SettlementPrices :
             \/ strategy.shape \in {"STRADDLE", "STRANGLE"} /\ ~legs[1].buy
             \/ /\ strategy.shape = "IRON_CONDOR"
                /\ \E i, j \in DOMAIN legs :
                      /\ legs[i].type = legs[j].type
                      /\ IntrinsicAtSpot(legs, spot) >= -(legs[1].quantity * (legs[j].strike - legs[i].strike))
             \/ strategy.shape # "IRON_CONDOR" /\ IntrinsicAtSpot(legs, spot) >= 0

\* A strategy that is executed has ordered each of its legs, and what is left ordered of one
\* that failed is what could not be undone, as the result says for each leg
\* (multiLegOptionsStrategy.go:443, 466), but for the legs of which an accepted order went
\* astray: accepted is taken for "reached matching-engine" (multiLegOptionsStrategy.go:383),
\* and such a leg may be missing, or its undoing leave its opposite.
FailedStrategiesAreUndone ==
    strategy.at \in {"executed", "failed"} => \A i \in DOMAIN strategy.outcomes :
       LET outcome == strategy.outcomes[i]
           all == Sign(outcome.leg) * outcome.leg.quantity
           couldNotUndo == outcome.accepted /\ outcome.rolledBack /\ ~outcome.rollbackAccepted
       IN IF i \in strategy.astray THEN strategy.ordered[i] \in {-all, 0, all}
          ELSE strategy.ordered[i] = IF strategy.at = "executed" \/ couldNotUndo THEN all ELSE 0

--------------------
(* basketorders *)
Truncated(n, d) == IF n < 0 THEN -((-n) \div d) ELSE n \div d

\* Quantities as given, or by weight the shares that its part of the cash buys.  A number
\* below 0 becomes one of the unsigned word, or, on other machines, 0, which is refused.
ResolvedQuantity(request, c) ==
    IF c.quantity > 0 THEN c.quantity
    ELSE Truncated(request.cash * c.weight, 100 * c.price) % WordSize

SignedNotional(request, c) ==
    Sign(c) * ResolvedQuantity(request, c) * c.price

\* What n is in a signed word; sums and products of such are those of the numbers.
Int64(n) == ((n + WordSize \div 2) % WordSize) - WordSize \div 2

NetCash(request, S) ==
    SumFunctionOnSet([i \in DOMAIN request.constituents |->
                         SignedNotional(request, request.constituents[i])], S)

ValidateAndResolveBasket(request) ==
    LET all == request.constituents
    IN /\ \A i \in DOMAIN all :
             /\ (all[i].quantity = 0) = (all[1].quantity = 0)
             /\ all[i].quantity > 0 \/ (all[i].weight > 0 /\ ResolvedQuantity(request, all[i]) > 0)
       /\ Int64(NetCash(request, DOMAIN all)) <= request.cash

ExecuteBasket ==
    /\ basket = None
    /\ \E request \in CandidateBaskets :
          /\ ValidateAndResolveBasket(request)
          /\ basket' = [at |-> "submitting", request |-> request, accepted |-> <<>>, astray |-> {}, status |-> "none"]
    /\ UNCHANGED <<diagram, strategy, cover>>

\* Every constituent is tried, whatever became of those before it.
SubmitConstituent ==
    LET n == Len(basket.request.constituents)
        Status(answers) == LET count == Cardinality({i \in DOMAIN answers : answers[i]})
                           IN IF count = n THEN "ALL_ACCEPTED"
                              ELSE IF count = 0 THEN "NONE_ACCEPTED" ELSE "PARTIALLY_ACCEPTED"
    IN /\ basket.at = "submitting"
       /\ \E wasAccepted, reached \in BOOLEAN :
             LET answers == Append(basket.accepted, wasAccepted)
             IN basket' = [basket EXCEPT
                   !.accepted = answers,
                   !.astray = IF wasAccepted /\ ~reached THEN @ \union {Len(answers)} ELSE @,
                   !.at = IF Len(answers) = n THEN "done" ELSE "submitting",
                   !.status = IF Len(answers) = n THEN Status(answers) ELSE @]
       /\ UNCHANGED <<diagram, strategy, cover>>

BasketOrderNext == ExecuteBasket \/ SubmitConstituent

\* No notional of the basket, nor their sum, is beyond a signed word.
FitsTheWord(request) ==
    SumFunction([i \in DOMAIN request.constituents |->
        ResolvedQuantity(request, request.constituents[i]) * request.constituents[i].price])
       < WordSize \div 2

\* At its reference prices a basket takes no more than its cash once all of it is
\* placed, and in between, or when parts are refused or go astray, no more than its cash
\* and the sales that were not placed (basketOrderExecution.go:166, 228); unless the
\* resolved quantities are beyond the word, as the weights of a negative cash constraint
\* make them: those pass the check that "rejects the whole basket ... if the net cash
\* constraint would be breached" (basketOrderExecution.go:106-107) and order without bound.
BasketsStayInTheirCash ==
    basket # None =>
       LET request == basket.request
           placed == {i \in DOMAIN basket.accepted : basket.accepted[i]} \ basket.astray
           sales == {i \in DOMAIN request.constituents : ~request.constituents[i].buy}
       IN /\ FitsTheWord(request) => NetCash(request, placed) + NetCash(request, sales \ placed) <= request.cash
          /\ FitsTheWord(request) /\ basket.status = "ALL_ACCEPTED" /\ basket.astray = {} =>
                NetCash(request, placed) <= request.cash
          /\ basket.status = "NONE_ACCEPTED" => placed = {}

--------------------
(* cover orders *)
\* The entry's answer lists what filled at once, and the trades of the stops that these
\* trades set off, whosever they are; the stop is sized by all of them.
SubmitCoverOrder ==
    /\ cover = None
    /\ \E quantity \in CoverQuantities : \E filled \in 0 .. quantity, accepted \in BOOLEAN,
          stray \in {0} \union CoverQuantities :
          /\ accepted \/ filled = 0
          /\ filled > 0 \/ stray = 0
          /\ cover' = [at |-> IF filled = 0 THEN "answered" ELSE "protecting",
                       resting |-> IF accepted THEN quantity - filled ELSE 0, filled |-> filled,
                       stray |-> stray, later |-> 0, stop |-> 0, journal |-> "none"]
    /\ UNCHANGED <<diagram, strategy, basket>>

\* The stop goes straight to the engine.  An answer that is lost, or an engine that
\* refuses it, is journaled as a failure; in the first case the stop may stand.
PlaceProtectiveStop ==
    /\ cover.at = "protecting"
    /\ \E stands, answered \in BOOLEAN :
          cover' = [cover EXCEPT
             !.at = "answered",
             !.stop = IF stands THEN cover.filled + cover.stray ELSE 0,
             !.journal = IF stands /\ answered THEN "COVER_PROTECTIVE_LEG_PLACED"
                         ELSE "COVER_PROTECTIVE_LEG_FAILED"]
    /\ UNCHANGED <<diagram, strategy, basket>>

\* What rests of the entry may fill at any time, before the stop is placed too.
EntryFillsLater ==
    /\ cover # None
    /\ cover.resting > 0
    /\ cover' = [cover EXCEPT !.resting = @ - 1, !.later = @ + 1]
    /\ UNCHANGED <<diagram, strategy, basket>>

CoverNext == SubmitCoverOrder \/ PlaceProtectiveStop \/ EntryFillsLater

\* A client is never left with an unprotected fill of the entry's answer that the journal
\* does not report; what fills later has no stop (main.go:2239-2302).  A stop "can only
\* reduce exposure, never increase it" (main.go:2188-2189) but by the trades of other orders
\* that the answer listed: by as much, and no more, it is larger than what it protects.
StopsCoverTheAnsweredFill ==
    cover # None =>
       /\ cover.stop <= cover.filled + cover.later + cover.stray
       /\ cover.at = "answered" /\ cover.stop < cover.filled =>
             cover.journal = "COVER_PROTECTIVE_LEG_FAILED"
       /\ cover.journal = "COVER_PROTECTIVE_LEG_PLACED" => cover.stop = cover.filled + cover.stray
====================
