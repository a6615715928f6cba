-------- MODULE FundMarkets --------
(***************************************************************************)
(* The other desks of the mutual-funds service, each a registry with a     *)
(* mutex of its own: primary bond auctions, bond ladders and their coupon  *)
(* calendar, retirement accounts, structured notes, orders on foreign      *)
(* markets and insurance leads.  A request may name the time it runs at,   *)
(* so the times of successive requests need not grow.                      *)
(***************************************************************************)
EXTENDS Integers, Sequences, FiniteSets, FiniteSetsExt, SequencesExt

CONSTANTS
    Auctions,          \* function: auction -> date, notified amount
    BidQuantities, Yields, MaxBids,
    RetirementTypes,   \* function: account type -> limit of a year, minimum age
    Births, Years,     \* the years clients are born in, and requests run in
    Contributions, MaxPensions, MaxMovements,
    Notes,             \* protection, participation and cap, in percent
    Principals, IndexReturns, MaxNotes,
    Symbols,           \* function: foreign symbol -> quote currency, price
    Currencies,        \* what clients say they pay in
    FxRates,           \* function: <<from, to>> -> numerator, denominator
    FundingAmounts, FractionScale, MaxGlobalOrders,
    Bonds,             \* sequence, by maturity: issue and maturity month, rate, payments a year
    Holders, LadderTotals, MaxLadders,
    Products,          \* function: insurance product -> base rate and loading per year of age
    ApplicantAges, Coverages, MaxQuotes

ASSUME MarketAssumption ==
    /\ \A y \in Yields \union BidQuantities : y \in Nat \ {0}
    /\ \A i \in DOMAIN Bonds : Bonds[i].perYear \in {0, 1, 2, 3, 4, 6, 12}

VARIABLES
    auctions,          \* Engine.auctionsById: auction -> status
    bids,              \* bidsByAuctionId, all in the order submitted
    retirement,        \* RulesEngine.accountsById
    withdrawals,       \* history: what was withdrawn, and when
    notes,             \* Desk.subscriptionsById
    globalOrders,      \* Router.ordersById
    ladders,           \* Builder.laddersByAccount, all in the order built
    ladderHoldings,    \* Builder.holdingsByAccount
    quotes, leads      \* Service.quotesById, leadsById

auctionVars == <<auctions, bids>>
retirementVars == <<retirement, withdrawals>>
ladderVars == <<ladders, ladderHoldings>>
insuranceVars == <<quotes, leads>>

\* math.Round of a/b, for a >= 0 and b > 0.
Nearest(a, b) == (2 * a + b) \div (2 * b)

Total(S, f(_)) == MapThenSumSet(f, S)

--------------------
(* primarymarketbidding *)
AuctionInit ==
    /\ auctions = [a \in DOMAIN Auctions |-> "SCHEDULED"]
    /\ bids = <<>>

OpenDueAuctions ==
    /\ \E now \in {Auctions[a].date : a \in DOMAIN Auctions} :
          auctions' = [a \in DOMAIN Auctions |->
             IF auctions[a] = "SCHEDULED" /\ now >= Auctions[a].date THEN "OPEN" ELSE auctions[a]]
    /\ UNCHANGED bids

SubmitBid ==
    /\ Len(bids) < MaxBids
    /\ \E a \in DOMAIN Auctions, quantity \in BidQuantities, yield \in Yields :
          /\ auctions[a] = "OPEN"
          /\ bids' = Append(bids, [auction |-> a, quantity |-> quantity, yield |-> yield,
                                   status |-> "SUBMITTED", allotted |-> 0])
    /\ UNCHANGED auctions

BidsForAuction(a) == {b \in DOMAIN bids : bids[b].auction = a}

Requested(B) == Total(B, LAMBDA b : bids[b].quantity)

\* What is left of the notified amount for the bids at the yield of b.
remainingCapacity(b) ==
    Auctions[bids[b].auction].notified
        - Requested({c \in BidsForAuction(bids[b].auction) : bids[c].yield < bids[b].yield})

Group(b) == {c \in BidsForAuction(bids[b].auction) : bids[c].yield = bids[b].yield}

\* The group at the cutoff asks for more than is left.
Marginal(a) ==
    {b \in BidsForAuction(a) : 0 < remainingCapacity(b) /\ remainingCapacity(b) < Requested(Group(b))}

\* The one of the group whose random id sorts last takes what rounding leaves.
Allotment(b, last) ==
    LET floor(c) == (bids[c].quantity * remainingCapacity(b)) \div Requested(Group(b))
    IN IF Requested(Group(b)) <= remainingCapacity(b) THEN bids[b].quantity
       ELSE IF b \notin Marginal(bids[b].auction) THEN 0
       ELSE IF b = last THEN remainingCapacity(b) - Total(Group(b) \ {b}, floor)
       ELSE floor(b)

CloseAuction ==
    /\ \E a \in DOMAIN Auctions :
          /\ auctions[a] # "CLOSED"
          /\ auctions' = [auctions EXCEPT ![a] = "CLOSED"]
          /\ \E last \in IF Marginal(a) = {} THEN {0} ELSE Marginal(a) :
                bids' = [b \in DOMAIN bids |->
                   IF bids[b].auction # a THEN bids[b]
                   ELSE [bids[b] EXCEPT
                      !.allotted = Allotment(b, last),
                      !.status = IF Allotment(b, last) = 0 THEN "REJECTED"
                                 ELSE IF Allotment(b, last) < bids[b].quantity THEN "PARTIALLY_ALLOTTED"
                                 ELSE "ALLOTTED"]]

AuctionNext == OpenDueAuctions \/ SubmitBid \/ CloseAuction

\* A closed auction hands out the notified amount, or all that was bid for; nobody
\* is served at a higher yield while a lower one waits; and a bid is never given
\* more than it asked for, but for what rounding leaves to one bid of a group.
AuctionsAllotTheNotifiedAmount ==
    \A a \in DOMAIN Auctions : auctions[a] = "CLOSED" =>
        LET allotted(b) == bids[b].allotted
            mine == BidsForAuction(a)
            demand == Requested(mine)
        IN /\ Total(mine, allotted) =
                 IF demand < Auctions[a].notified THEN demand ELSE Auctions[a].notified
           /\ \A b, c \in mine : bids[b].yield < bids[c].yield /\ allotted(c) > 0 =>
                 allotted(b) = bids[b].quantity
           /\ \A b \in mine : allotted(b) - bids[b].quantity < Cardinality(Group(b))

--------------------
(* retirementaccounts *)
RetirementInit ==
    /\ retirement = <<>>
    /\ withdrawals = <<>>

OpenRetirementAccount ==
    /\ Len(retirement) < MaxPensions
    /\ \E type \in DOMAIN RetirementTypes, born \in Births, now \in Years :
          /\ born < now
          /\ retirement' = Append(retirement,
                [type |-> type, born |-> born, balance |-> 0, contributions |-> <<>>])
    /\ UNCHANGED withdrawals

ContributedIn(account, year) ==
    FoldLeft(LAMBDA sum, c : sum + (IF c.year = year THEN c.amount ELSE 0), 0, account.contributions)

Contribute ==
    /\ \E r \in DOMAIN retirement, amount \in Contributions, now \in Years :
          /\ Len(retirement[r].contributions) < MaxMovements
          /\ ContributedIn(retirement[r], now) + amount <= RetirementTypes[retirement[r].type].limit
          /\ retirement' = [retirement EXCEPT ![r] = [@ EXCEPT
                !.contributions = Append(@, [amount |-> amount, year |-> now]),
                !.balance = @ + amount]]
    /\ UNCHANGED withdrawals

Withdraw ==
    \E r \in DOMAIN retirement, amount \in Contributions, now \in Years :
        /\ now >= retirement[r].born + RetirementTypes[retirement[r].type].age
        /\ amount <= retirement[r].balance
        /\ retirement' = [retirement EXCEPT ![r].balance = @ - amount]
        /\ withdrawals' = Append(withdrawals, [account |-> r, amount |-> amount, year |-> now])

RetirementNext == OpenRetirementAccount \/ Contribute \/ Withdraw

\* However the times of the requests jump, no year takes in more than its limit,
\* nothing leaves before the age is reached and what is there is what came in less
\* what left.
RetirementKeepsItsRules ==
    \A r \in DOMAIN retirement :
        LET account == retirement[r]
            mine == {w \in DOMAIN withdrawals : withdrawals[w].account = r}
        IN /\ \A year \in Years : ContributedIn(account, year) <= RetirementTypes[account.type].limit
           /\ \A w \in mine : withdrawals[w].year - account.born >= RetirementTypes[account.type].age
           /\ account.balance >= 0
           /\ account.balance = Total(Years, LAMBDA y : ContributedIn(account, y))
                                   - Total(mine, LAMBDA w : withdrawals[w].amount)

--------------------
(* structuredproducts *)
\* In percent of percents: the index's return times participation, up to the cap.
effectiveReturn(note, index) ==
    IF index <= 0 THEN 0
    ELSE IF index * note.participation > note.cap * 100 THEN note.cap * 100
    ELSE index * note.participation

CalculatePayoff(note, principal, index) ==
    IF index <= 0 THEN Nearest(principal * note.protection, 100)
    ELSE Nearest(principal * (10000 + effectiveReturn(note, index)), 10000)

SubscribeToNote ==
    /\ Len(notes) < MaxNotes
    /\ \E note \in Notes, principal \in Principals :
          notes' = Append(notes, [note |-> note, principal |-> principal,
                                  status |-> "SUBSCRIBED", index |-> 0, payout |-> 0])

MatureSubscription ==
    \E n \in DOMAIN notes, index \in IndexReturns :
        /\ notes[n].status # "MATURED"
        /\ notes' = [notes EXCEPT ![n] = [@ EXCEPT !.status = "MATURED", !.index = index,
                        !.payout = CalculatePayoff(notes[n].note, notes[n].principal, index)]]

NoteNext == SubscribeToNote \/ MatureSubscription

\* A matured note pays at least what it protects and at most its cap, and of two
\* alike the one whose index did better pays no less.
NotesPayWithinTheirTerms ==
    \A n \in DOMAIN notes : notes[n].status = "MATURED" =>
        /\ notes[n].payout >= Nearest(notes[n].principal * notes[n].note.protection, 100)
        /\ notes[n].payout <= Nearest(notes[n].principal * (100 + notes[n].note.cap), 100)
        /\ \A m \in DOMAIN notes :
              notes[m].status = "MATURED" /\ notes[m].note = notes[n].note
              /\ notes[m].principal = notes[n].principal /\ notes[m].index <= notes[n].index
                  => notes[m].payout <= notes[n].payout

--------------------
(* globalmarketsaccess *)
PlaceGlobalOrder ==
    /\ Len(globalOrders) < MaxGlobalOrders
    /\ \E s \in DOMAIN Symbols, amount \in FundingAmounts, c \in Currencies :
          globalOrders' = Append(globalOrders,
             [symbol |-> s, amount |-> amount, from |-> c, quoted |-> 0, units |-> 0,
              status |-> "PENDING"])

\* A pair that has no rate leaves the order pending.
Rate(from, to) == IF from = to THEN [num |-> 1, den |-> 1] ELSE FxRates[from, to]

RouteGlobalOrder ==
    \E o \in DOMAIN globalOrders :
        LET order == globalOrders[o]
            to == Symbols[order.symbol].quote
        IN /\ order.status = "PENDING"
           /\ order.from = to \/ <<order.from, to>> \in DOMAIN FxRates
           /\ globalOrders' = [globalOrders EXCEPT ![o] = [@ EXCEPT
                 !.quoted = Nearest(order.amount * Rate(order.from, to).num, Rate(order.from, to).den),
                 !.status = "ROUTED"]]

ConfirmGlobalOrder ==
    \E o \in DOMAIN globalOrders :
        LET order == globalOrders[o]
        IN /\ order.status = "ROUTED"
           /\ globalOrders' = [globalOrders EXCEPT ![o] = [@ EXCEPT
                 !.units = Nearest(order.quoted * FractionScale, Symbols[order.symbol].price),
                 !.status = "CONFIRMED"]]

GlobalNext == PlaceGlobalOrder \/ RouteGlobalOrder \/ ConfirmGlobalOrder

\* The units of a confirmed order are worth what was paid in, to the rounding of
\* the conversion and of the units.
UnitsAreWorthThePayment ==
    \A o \in DOMAIN globalOrders : globalOrders[o].status = "CONFIRMED" =>
        LET order == globalOrders[o]
            rate == Rate(order.from, Symbols[order.symbol].quote)
            price == Symbols[order.symbol].price
            off == 2 * (order.units * price * rate.den - order.amount * rate.num * FractionScale)
        IN off <= rate.den * (price + FractionScale) /\ -off <= rate.den * (price + FractionScale)

--------------------
(* bondladderbuilder *)
LadderInit ==
    /\ ladders = <<>>
    /\ ladderHoldings = [a \in Holders |-> [i \in DOMAIN Bonds |-> 0]]

\* The i-th of the bonds picked, spread evenly over the catalogue by maturity.
selectStaggeredBonds(rungs) ==
    [i \in 1 .. rungs |->
        IF rungs = 1 THEN 1 ELSE 1 + Nearest((i - 1) * (Len(Bonds) - 1), rungs - 1)]

BuildLadder ==
    /\ Len(ladders) < MaxLadders
    /\ \E a \in Holders, total \in LadderTotals, rungs \in 1 .. Len(Bonds) :
          LET amounts == [i \in 1 .. rungs |->
                  IF i = rungs THEN total - (rungs - 1) * (total \div rungs) ELSE total \div rungs]
              picked == selectStaggeredBonds(rungs)
              added(bond) == Total({i \in 1 .. rungs : picked[i] = bond}, LAMBDA i : amounts[i])
          IN /\ ladders' = Append(ladders, [account |-> a, total |-> total, picked |-> picked])
             /\ ladderHoldings' = [ladderHoldings EXCEPT ![a] = [b \in DOMAIN Bonds |-> @[b] + added(b)]]

\* The coupons still to come on what an account holds of a bond: their dates and
\* the amount of each.
UpcomingCoupons(a, b, asOf) ==
    LET bond == Bonds[b]
        period == 12 \div bond.perYear
        due == {bond.issue + k * period : k \in 1 .. (bond.maturity - bond.issue) \div period}
    IN IF ladderHoldings[a][b] <= 0 \/ bond.perYear <= 0 \/ bond.rate <= 0
       THEN [dates |-> {}, amount |-> 0]
       ELSE [dates |-> {month \in due : month > asOf},
             amount |-> Nearest(ladderHoldings[a][b] * bond.rate, 100 * bond.perYear)]

\* An account's holdings are what its ladders put in, each on different bonds from
\* the shortest to the longest; and the coupons of a year, whenever it starts, pay
\* the rate of the holding to half a minor unit a coupon.
LaddersInvestTheTotal ==
    /\ \A a \in Holders :
          Total(DOMAIN Bonds, LAMBDA b : ladderHoldings[a][b])
              = Total({n \in DOMAIN ladders : ladders[n].account = a}, LAMBDA n : ladders[n].total)
    /\ \A n \in DOMAIN ladders :
          LET picked == ladders[n].picked
          IN /\ Cardinality({picked[i] : i \in DOMAIN picked}) = Len(picked)
             /\ picked[1] = 1 /\ (Len(picked) > 1 => picked[Len(picked)] = Len(Bonds))
    /\ \A a \in Holders, b \in DOMAIN Bonds :
          \A asOf \in Bonds[b].issue .. Bonds[b].maturity - 12 :
              LET upcoming == UpcomingCoupons(a, b, asOf)
                  year == {month \in upcoming.dates : month <= asOf + 12}
                  off == 2 * (100 * Cardinality(year) * upcoming.amount
                                - ladderHoldings[a][b] * Bonds[b].rate)
              IN Bonds[b].perYear > 0 =>
                    off <= 100 * Bonds[b].perYear /\ -off <= 100 * Bonds[b].perYear

--------------------
(* insurancecrosssell *)
InsuranceInit ==
    /\ quotes = <<>>
    /\ leads = <<>>

\* In thousandths of a percent of the coverage, cut to a minor unit.
Premium(product, age, coverage) ==
    (coverage * (Products[product].base + Products[product].loading * age)) \div 100000

RequestQuote ==
    /\ Len(quotes) < MaxQuotes
    /\ \E p \in DOMAIN Products, age \in ApplicantAges, coverage \in Coverages :
          /\ age \in 1 .. 120 /\ coverage > 0
          /\ quotes' = Append(quotes, [product |-> p, age |-> age, coverage |-> coverage,
                                       premium |-> Premium(p, age, coverage)])
    /\ UNCHANGED leads

\* Any account may register on any quote, as often as it likes.
RegisterInterest ==
    /\ Len(leads) < MaxQuotes
    /\ \E a \in Holders, q \in DOMAIN quotes : leads' = Append(leads, [account |-> a, quote |-> q])
    /\ UNCHANGED quotes

InsuranceNext == RequestQuote \/ RegisterInterest

MarketInit ==
    /\ AuctionInit /\ RetirementInit /\ notes = <<>> /\ globalOrders = <<>>
    /\ LadderInit /\ InsuranceInit
====================
