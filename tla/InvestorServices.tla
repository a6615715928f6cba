-------- MODULE InvestorServices --------
(***************************************************************************)
(* The services an investor looks at and buys from: mutual-funds and       *)
(* market-data.  Fund orders, plans, baskets and goals share the router's  *)
(* orders and holdings, ingestion and quote stream share the feeds; the    *)
(* other desks have a registry each and nothing in common, so focus names  *)
(* the desk that the requests of a behaviour go to and the others stay as  *)
(* they started.                                                           *)
(***************************************************************************)
EXTENDS FundOrders, FundMarkets, QuoteStream, MarketViews

CONSTANTS
    MaxClientOrders,     \* bound: orders of clients or of plans, fewer for a goal
    MaxTradePublishes    \* bound: publishes of a behaviour that looks at histories

VARIABLE focus       \* the desk this behaviour's requests go to

marketVars == <<auctionVars, retirementVars, notes, globalOrders, ladderVars, insuranceVars>>

vars == <<focus, fundVars, marketVars, feedVars, streamVars, viewVars>>

Init ==
    /\ focus \in {"order", "sip", "basket", "goal",
                  "auction", "retirement", "note", "global", "ladder", "insurance",
                  "history", "stream", "profile", "watchlist"}
    /\ FundInit /\ MarketInit /\ FeedInit /\ StreamInit /\ ViewsInit

Confirming == UpdateNav \/ ConfirmDueCollects \/ ConfirmDueConfirms

\* Bound: no two plans alike, and registered in one order.
EachPlanOnce == \A p, q \in DOMAIN sips : p < q => sips[p].base < sips[q].base

OnlyFundOrders ==
    /\ UNCHANGED <<focus, marketVars, feedVars, streamVars, viewVars>>
    /\ \/ focus = "order" /\ FundOrderNext /\ Len(fundOrders') <= MaxClientOrders
       \/ focus = "sip" /\ SipNext /\ Len(fundOrders') <= MaxClientOrders /\ EachPlanOnce'
       \/ focus = "basket" /\ (BasketNext \/ Confirming)
       \/ focus = "goal" /\ (CreateGoal \/ LumpsumPurchase \/ Confirming) /\ Len(fundOrders') < MaxClientOrders

OnlyMarkets ==
    /\ UNCHANGED <<focus, fundVars, feedVars, streamVars, viewVars>>
    /\ \/ /\ focus = "auction" /\ AuctionNext
          /\ UNCHANGED <<retirementVars, notes, globalOrders, ladderVars, insuranceVars>>
       \/ /\ focus = "retirement" /\ RetirementNext
          /\ UNCHANGED <<auctionVars, notes, globalOrders, ladderVars, insuranceVars>>
       \/ /\ focus = "note" /\ NoteNext
          /\ UNCHANGED <<auctionVars, retirementVars, globalOrders, ladderVars, insuranceVars>>
       \/ /\ focus = "global" /\ GlobalNext
          /\ UNCHANGED <<auctionVars, retirementVars, notes, ladderVars, insuranceVars>>
       \/ /\ focus = "ladder" /\ BuildLadder
          /\ UNCHANGED <<auctionVars, retirementVars, notes, globalOrders, insuranceVars>>
       \/ /\ focus = "insurance" /\ InsuranceNext
          /\ UNCHANGED <<auctionVars, retirementVars, notes, globalOrders, ladderVars>>

\* Histories are looked at with the trades of both feeds and nobody connected; the stream
\* with publishes that bring no trade, whose other sinks then have nothing to do.
OnlyFeeds ==
    /\ UNCHANGED <<focus, fundVars, marketVars, viewVars>>
    /\ \/ /\ focus = "history" /\ UNCHANGED streamVars
          /\ \/ FeedTick
             \/ \E terms \in AlertTerms : CreateAlert(terms)
             \/ /\ Published + Cardinality(InHand) < MaxTradePublishes
                /\ \E f \in Feeds : \E p \in Publishes[f] : TakePublish(f, p)
             \/ \E f \in Feeds : Ingest(f)
       \/ /\ focus = "stream" /\ UNCHANGED streamVars
          /\ \/ \E f \in Feeds : \E p \in {q \in Publishes[f] : q.trades = <<>>} : TakePublish(f, p)
             \/ \E f \in Feeds : ApplyDepthPublish(f) \/ PublishDeltas(f)
       \/ focus = "stream" /\ UNCHANGED feedVars /\ StreamNext

OnlyViews ==
    /\ UNCHANGED <<focus, fundVars, marketVars, feedVars, streamVars>>
    /\ \/ focus = "profile" /\ ViewProfile
       \/ focus = "watchlist" /\ WatchNext

Next == OnlyFundOrders \/ OnlyMarkets \/ OnlyFeeds \/ OnlyViews

Spec == Init /\ [][Next]_vars

\* mutual-funds: holdings are what the orders made them although sweeps overlap, plans place
\* their instalments by the calendar, baskets invest what was given and the contribution a goal
\* asks for reaches it; auctions hand out what was notified, retirement accounts keep
\* their rules at any time, notes pay within their terms, foreign units are worth their
\* payment and ladders invest the total.
FundsAreSound ==
    /\ HoldingsFollowTheOrders /\ InstalmentsFollowTheCalendar
    /\ BasketsInvestTheLumpsum /\ GoalsCanBeReached
    /\ AuctionsAllotTheNotifiedAmount /\ RetirementKeepsItsRules /\ NotesPayWithinTheirTerms
    /\ UnitsAreWorthThePayment /\ LaddersInvestTheTotal

\* market-data: histories, alerts and quotes follow the publishes although two feeds
\* overlap, a client of the stream ends up with the current quotes whatever it missed, a
\* profile shows every tick and devices follow the watchlist.
QuotesAreSound ==
    /\ HistoryFollowsTheTrades /\ AlertsFireAtTheFirstCrossing /\ SinksAgree
    /\ ViewsAreQuotes /\ NothingIsSkipped /\ QuietClientsAreCurrent
    /\ ProfilesShowTheTicks /\ DevicesFollowTheList

--------------------
(* A small instance for TLC. *)

\* Two sweeps differ in nothing but their names.
MCSymmetry == Permutations(Sweepers)

\* Long months and short ones, two to a year; a plan that steps up after its first year,
\* and one that starts on a day the short months do not have.
MCMonths == <<3, 2>>
MCPlans == {[scheme |-> 1, base |-> 2, stepUp |-> 100, start |-> 0],
            [scheme |-> 1, base |-> 3, stepUp |-> 0, start |-> 2]}

\* Halves; quarters, of which a lumpsum of 2 rounds up in three legs; and weights
\* that are refused.
MCWeights == {[s \in 1 .. 2 |-> 50], [s \in 1 .. 4 |-> 25], [s \in 1 .. 2 |-> 60]}

MCGrowth == [num |-> 1, den |-> 10]

MCAuctions == [a \in {"first", "second"} |->
                  IF a = "first" THEN [date |-> 1, notified |-> 2] ELSE [date |-> 2, notified |-> 3]]

MCTypes == [t \in {"NPS"} |-> [limit |-> 3, age |-> 2]]

MCNotes == {[protection |-> 100, participation |-> 150, cap |-> 20],
            [protection |-> 90, participation |-> 100, cap |-> 15]}

MCReturns == {-10, 0, 7, 14, 40}

MCSymbols == [s \in {"shareInDollars", "shareInEuros"} |->
                 IF s = "shareInDollars" THEN [quote |-> "USD", price |-> 3]
                 ELSE [quote |-> "EUR", price |-> 2]]

MCRates == [p \in {<<"INR", "USD">>, <<"USD", "INR">>} |->
               IF p[1] = "INR" THEN [num |-> 1, den |-> 83] ELSE [num |-> 83, den |-> 1]]

MCBonds == <<[issue |-> 0, maturity |-> 12, rate |-> 7, perYear |-> 1],
             [issue |-> 0, maturity |-> 18, rate |-> 9, perYear |-> 4],
             [issue |-> 2, maturity |-> 26, rate |-> 5, perYear |-> 2],
             [issue |-> 0, maturity |-> 30, rate |-> 0, perYear |-> 0]>>

MCProducts == [p \in {"TERM_LIFE", "HEALTH"} |->
                  IF p = "HEALTH" THEN [base |-> 1500, loading |-> 20] ELSE [base |-> 150, loading |-> 8]]

\* Depth with an emptied level, a one-sided book and an empty one; trades of the first
\* instrument come from both feeds, those of the second from the simulation alone.
Level(b, p, q) == [isBid |-> b, price |-> p, quantity |-> q]
Publish(i, levels, trades) == [symbol |-> i, levels |-> levels, trades |-> trades]
Trade(p, q) == [price |-> p, quantity |-> q]

MCPublishes == [f \in {"engine", "simulator"} |->
    IF f = "engine"
    THEN {Publish(1, {Level(TRUE, 2, 1), Level(TRUE, 3, 0), Level(FALSE, 5, 2)}, <<>>),
          Publish(1, {Level(TRUE, 1, 1), Level(TRUE, 2, 2)}, <<Trade(5, 1), Trade(2, 1)>>),
          Publish(1, {}, <<Trade(3, 2)>>)}
    ELSE {Publish(1, {Level(TRUE, 3, 1), Level(FALSE, 4, 1)}, <<Trade(4, 1)>>),
          Publish(2, {Level(FALSE, 7, 1), Level(FALSE, 6, 2)}, <<>>)}]

MCAlerts == {[symbol |-> 1, above |-> TRUE, threshold |-> 4],
             [symbol |-> 1, above |-> FALSE, threshold |-> 2]}

\* One trade at each of five prices, with gaps where nothing traded.
MCTicks == {SelectSeq([n \in 1 .. 5 |-> [second |-> n, price |-> n, quantity |-> q[n], buy |-> n % 2 = 0]],
                      LAMBDA tick : tick.quantity > 0) : q \in [1 .. 5 -> 0 .. 3]} \ {<<>>}
====================
