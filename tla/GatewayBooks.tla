-------- MODULE GatewayBooks --------
(***************************************************************************)
(* The books oms-gateway keeps beside its order path.  Each desk has its   *)
(* own registry and lock and its own routes, and none reads another's, so  *)
(* focus names the desk that the requests of a behaviour go to and the     *)
(* others stay as they started; the collateral desk's pledges and loans do *)
(* meet and share a focus.                                                 *)
(***************************************************************************)
EXTENDS TLC, CollateralBooks, AlgoOrders, CompositeOrders, PositionActions,
        RiskMonitors, DmaSessions

VARIABLE focus       \* the desk this behaviour's requests go to

vars == <<focus, collateralVars, algoVars, compositeVars, positionActionVars, monitorVars, dmaVars>>

Init ==
    /\ focus \in {"credit", "lending desk", "limit", "schedule", "participation",
                  "payoff", "strategy", "basket", "cover", "action", "paper", "follow",
                  "liquidation", "marking", "disclosure", "pace", "dma"}
    /\ CollateralInit /\ AlgoInit /\ CompositeInit /\ PositionActionsInit /\ MonitorInit
    /\ DmaInit
    /\ focus # "liquidation" => /\ principal = CHOOSE p \in Borrowed : TRUE
                                /\ pledgedWorth = CHOOSE w \in PledgedWorth : TRUE
                                /\ longs = CHOOSE l \in LongPositions : TRUE
                                /\ encumbered = 0
    /\ focus # "limit" => limiter.config = CHOOSE config \in LimitConfigs : TRUE

OnlyCollateral ==
    /\ UNCHANGED <<focus, algoVars, compositeVars, positionActionVars, monitorVars, dmaVars>>
    /\ \/ focus = "credit" /\ (PledgeNext \/ LoanNext)
       \/ focus = "lending desk" /\ DeskNext

OnlyAlgo ==
    /\ UNCHANGED <<focus, collateralVars, compositeVars, positionActionVars, monitorVars, dmaVars>>
    /\ \/ focus = "limit" /\ LimiterNext
       \/ focus = "schedule" /\ ScheduleNext
       \/ focus = "participation" /\ PovNext

OnlyComposite ==
    /\ UNCHANGED <<focus, collateralVars, algoVars, positionActionVars, monitorVars, dmaVars>>
    /\ \/ focus = "payoff" /\ ViewPayoffDiagram
       \/ focus = "strategy" /\ StrategyNext
       \/ focus = "basket" /\ BasketOrderNext
       \/ focus = "cover" /\ CoverNext

OnlyPositions ==
    /\ UNCHANGED <<focus, collateralVars, algoVars, compositeVars, monitorVars, dmaVars>>
    /\ \/ focus = "action" /\ ActionNext /\ UNCHANGED <<paperVars, followVars>>
       \/ focus = "paper" /\ SimulateFractionalFill /\ UNCHANGED <<actionVars, followVars>>
       \/ focus = "follow" /\ FollowNext /\ UNCHANGED <<actionVars, paperVars>>

OnlyMonitors ==
    /\ UNCHANGED <<focus, collateralVars, algoVars, compositeVars, positionActionVars, dmaVars>>
    /\ \/ focus = "liquidation" /\ LiquidationNext
             /\ UNCHANGED <<markVars, moment, disclosureVars, paceVars>>
       \/ focus = "marking" /\ ApplyFill
             /\ UNCHANGED <<liquidationVars, moment, disclosureVars, paceVars>>
       \/ focus = "disclosure" /\ DisclosureNext
             /\ UNCHANGED <<liquidationVars, markVars, paceVars>>
       \/ focus = "pace" /\ PaceNext
             /\ UNCHANGED <<liquidationVars, markVars, disclosureVars>>

OnlySessions ==
    /\ focus = "dma" /\ DmaNext
    /\ UNCHANGED <<focus, collateralVars, algoVars, compositeVars, positionActionVars, monitorVars>>

Next == OnlyCollateral \/ OnlyAlgo \/ OnlyComposite \/ OnlyPositions \/ OnlyMonitors
        \/ OnlySessions

Spec == Init /\ [][Next]_vars

\* Pledges, loans and the lending desk: margin is what pledges and loans gave and took,
\* a debt is forgotten by no failed call, credit stays under the collateral it was
\* checked against and a pledge returns what it gave.
CollateralIsSound ==
    /\ MarginMirrorsTheCredit /\ DebtsAreNotForgotten /\ CreditStaysUnderTheCollateral
    /\ PledgesReleaseWhatTheyGave /\ InterestOnlyGrows

\* Orders made of orders, and what an account's earlier orders decide of the next:
\* strategies stay in their rate and their day's notional, schedules release the parent's
\* quantity and no more, payoff diagrams speak for every price, failed strategies are
\* undone, stops cover what their entry filled, first orders follow the disclosure,
\* bursts are noticed and sessions submit their lines.
OrderPatternsAreSound ==
    /\ StrategiesStayInTheirLimits /\ SchedulesReleaseTheParent /\ ParticipationKeepsItsShare
    /\ DiagramsSpeakForEveryPrice /\ ShapesLimitTheRisk /\ FailedStrategiesAreUndone
    /\ BasketsStayInTheirCash /\ StopsCoverTheAnsweredFill
    /\ FirstOrdersFollowTheDisclosure /\ NudgesAreTimely
    /\ SessionsSubmitTheirLines /\ RepeatsWereUnanswered

\* Positions beside the order path: cost survives splits and mergers, positions follow
\* the holdings, dividends reach margin once or their answer was lost, paper trades cancel
\* out, averages follow the fills, a liquidation closes the gap it saw, and two sell no
\* share twice.
PositionsAreSound ==
    /\ CostBasisIsConserved /\ DividendsAreLogged /\ PositionsFollowTheHoldings
    /\ EventsReachTheMargin /\ ReinvestmentsSpendTheDividend /\ PaperPositionsCancelOut
    /\ FollowersAgree /\ CostBasisFollowsTheFills
    /\ LiquidationsCloseTheGap /\ SalesStayInTheHolding

--------------------
(* A small instance for TLC. *)

\* Shares an account starts with, and what a pledge of each is counted down by.
MCHeld == [s \in {"demo", "other"} |-> IF s = "demo" THEN 2 ELSE 1]
MCHaircut == [s \in {"demo", "other"} |-> IF s = "demo" THEN 15 ELSE 20]

\* A rate below and a rate above what a day allows, and no limits.
MCConfigs == {[rate |-> 1, perDay |-> 4], [rate |-> 4, perDay |-> 3], [rate |-> 0, perDay |-> 0]}

\* A window longer than its slices, a short one and an empty one.
MCWindows == {[start |-> 0, end |-> 5], [start |-> 2, end |-> 3], [start |-> 3, end |-> 3]}

\* Curves out of order, without weight, and with a tie of two remainders.
MCCurves == {<<[time |-> 3, weight |-> 1], [time |-> 1, weight |-> 2]>>,
             <<[time |-> 2, weight |-> 0]>>,
             <<[time |-> 1, weight |-> 3], [time |-> 1, weight |-> 1], [time |-> 4, weight |-> 3]>>}

MCPov == {[rate |-> 50, clip |-> 2], [rate |-> 33, clip |-> 3]}

\* Every combination of two legs, of three calls, and of two puts and two calls at three
\* strikes; premiums fall as calls leave the money.
Leg(t, s, b, q) ==
    [type |-> t, strike |-> s, premium |-> IF t = "CALL" THEN 4 - s ELSE s, buy |-> b, quantity |-> q]

LegsOf(T, Q) == {Leg(t, s, b, q) : t \in T, s \in 1 .. 3, b \in BOOLEAN, q \in Q}

MCLegs ==
    {<<a, b>> : a, b \in LegsOf({"CALL", "PUT"}, {1, 2})}
    \union {<<a, b, c>> : a, b, c \in LegsOf({"CALL"}, {1, 2})}
    \union {<<a, b, c, d>> : a, c \in LegsOf({"PUT"}, {1}), b, d \in LegsOf({"CALL"}, {1})}

MCConstituents == [buy : BOOLEAN, quantity : {0, 2}, weight : {0, 60}, price : {1, 3}]

\* Of a cash that is to be spent, and of one that is to be raised.
MCBaskets == {[cash |-> k, constituents |-> <<a, b>>] : k \in {-2, 2, 5}, a, b \in MCConstituents}

\* A split, a consolidation that does not divide every holding and a refused ratio.
MCRatios == {[num |-> 2, den |-> 1], [num |-> 1, den |-> 2], [num |-> 1, den |-> 0]}

\* Two long positions, one of them with a short one beside it; prices of which one may be
\* unknown, so that the larger holding is not always the larger notional.
MCLongs == {("demo" :> 3) @@ ("other" :> 2), ("demo" :> 2) @@ ("other" :> -1)}
MCLastPrices == {("demo" :> 2) @@ ("other" :> 3), ("demo" :> 2) @@ ("other" :> 2),
                 ("demo" :> 0) @@ ("other" :> 1)}
====================
