-------- MODULE OrderSubmissionProofs --------
(***************************************************************************)
(* The order path keeps its books for any number of accounts, orders and   *)
(* trades, whatever fails: exposure, positions, reservations and margin.   *)
(***************************************************************************)
EXTENDS OrderSubmission, SumTheorems, SequenceTheorems

\* The handler is between two calls of its settlement, or past it.
Settlement == {"settling", "posted", "debiting"}
Early == {"unsent", "checking", "reserving", "margin", "paper", "sending", "rejected"}

\* The engine has taken the order off its inbox, for better or worse.
Handled(o) == inEngine[o] \notin {"absent", "inbox"}

\* What the point a handler has reached says of its request and of the engine.
StageOf(o) ==
  /\ At(o, "unsent") => request[o] = NoRequest
  /\ ~At(o, "unsent") => request[o] \in Menu[o]
  /\ handler[o].at \in Early => inEngine[o] = "absent"
  /\ At(o, "awaiting") => inEngine[o] # "absent"
  /\ At(o, "reserving") => request[o].side = "sell"
  /\ At(o, "paper") => request[o].kind = "paper"
  /\ handler[o].at \in {"sending", "awaiting"} \cup Settlement => request[o].kind # "paper"
  /\ At(o, "done") =>
        IF request[o].kind = "paper" THEN inEngine[o] = "absent" ELSE Handled(o)
  /\ handler[o].at \in Settlement => Handled(o)
  /\ reply[o] # "none" => Handled(o)
StageInv == \A o \in Orders : StageOf(o)

\* A trade is between a buy and a sell that the engine has handled, and so is the order
\* whose reply lists it.
TradesInv ==
  \A t \in DOMAIN trades :
      /\ Handled(Trade(t).buy) /\ ~IsSell(Trade(t).buy)
      /\ Handled(Trade(t).sell) /\ IsSell(Trade(t).sell)
      /\ Handled(Trade(t).caller)
      /\ Trade(t).quantity > 0

ControlInv == TypeOK /\ StageInv /\ TradesInv

\* The trades whose journal entry the books have followed.
Applied == posted \ (lost \cup InFlight)

Quantities == [t \in DOMAIN trades |-> Trade(t).quantity]
Values     == [t \in DOMAIN trades |-> Value(t)]
Quantity(T) == SumFunctionOnSet(Quantities, T)
Worth(T)    == SumFunctionOnSet(Values, T)
BoughtBy(a, T) == {t \in T : Buyer(t) = a}
SoldBy(a, T)   == {t \in T : Seller(t) = a}

\* A handler settles the trades of its own reply, each once, and knows what it has settled.
SettleOf(o) ==
  /\ handler[o].toSettle \subseteq TradesOf(o)
  /\ At(o, "settling") => handler[o].toSettle \cap posted = {}
  /\ At(o, "posted") =>
        /\ handler[o].toSettle # {}
        /\ handler[o].toSettle \cap posted = {Settled(o)} /\ Settled(o) \notin lost
  /\ handler[o].at \notin {"settling", "posted"} => handler[o].toSettle = {}
  /\ handler[o].at \notin Settlement \cup {"done"} => TradesOf(o) \cap posted = {}
  /\ handler[o].executed = Quantity(TradesOf(o) \cap Applied)
  /\ handler[o].executedNotional = Worth(TradesOf(o) \cap Applied)
SettleInv == \A o \in Orders : SettleOf(o)

\* The positions are the start holdings and the trades applied.
PositionsInv ==
  \A a \in Accounts : position[a] =
      SeedHolding[a] + Quantity(BoughtBy(a, Applied)) - Quantity(SoldBy(a, Applied))

\* What an order of the account takes of a limit or a book.
ExposureOf(o, a) ==
  IF handler[o].at \notin {"unsent", "rejected"} /\ Account(o) = a THEN Notional(o) ELSE 0
Exposures(a) == [o \in Orders |-> ExposureOf(o, a)]
ExposureInv == \A a \in Accounts : exposure[a] = SumFunctionOnSet(Exposures(a), Orders)

\* Every order of a reply that does not list the trades of others is filled by its own.
InvolvedIn(o) == {t \in DOMAIN trades : o \in {Trade(t).buy, Trade(t).sell}}
FilledInv ==
  \A o \in Orders : inEngine[o] # "absent" =>
      remaining[o] + Quantity(InvolvedIn(o)) = request[o].quantity

OwnReplies(a) == \A o \in OrdersOf(a) : ~GotForeignTrade(o)

\* What of a sell order stays reserved.
KeptOf(o, a) ==
  IF At(o, "unsent") \/ ~(Account(o) = a /\ IsSell(o)) THEN 0
  ELSE IF handler[o].at \in {"margin", "paper", "sending", "awaiting"} \cup Settlement
       THEN request[o].quantity
  ELSE IF At(o, "done") /\ request[o].kind # "paper"
       THEN request[o].quantity - handler[o].executed
  ELSE 0
KeptBy(a) == [o \in Orders |-> KeptOf(o, a)]
ReservedInv ==
  \A a \in Accounts : OwnReplies(a) =>
      reservedToSell[a] = SumFunctionOnSet(KeptBy(a), Orders)

\* What of the margin an order has reserved it still holds, inside a settlement too.
HeldOf(o, a) ==
  IF At(o, "unsent") \/ Account(o) # a THEN 0
  ELSE IF handler[o].at \in {"paper", "sending", "awaiting", "settling", "posted"}
       THEN Notional(o)
  ELSE IF At(o, "debiting") \/ (At(o, "done") /\ request[o].kind # "paper")
       THEN request[o].limit * (request[o].quantity - handler[o].executed)
  ELSE 0

HeldBy(a) == [o \in Orders |-> HeldOf(o, a)]

\* The trades whose value the margin of an account has followed: the caller's own when its
\* handler is done, the counterparty's as they are applied.
Reckoned(a) ==
  {t \in posted : IF Account(Trade(t).caller) = a THEN At(Trade(t).caller, "done")
                                                  ELSE t \in Applied}
Cash(a, T) == Worth(SoldBy(a, T)) - Worth(BoughtBy(a, T))
MarginKept(a) ==
  availableMargin[a] = SeedMargin[a] + pledged[a] + Cash(a, Reckoned(a))
                          - SumFunctionOnSet(HeldBy(a), Orders)
MarginInv == \A a \in Accounts : ~Untracked(a) => MarginKept(a)

--------------------
(* The handlers, the requests and the engine. *)

\* The orders are finitely many numbers.
LEMMA OrdersAreFinite == IsFiniteSet(Orders) /\ Orders \subseteq Nat
<1>1. MaxOrders \in Nat BY BoundsAssumption
<1> QED BY <1>1, FS_Interval DEF Orders

\* What an order may ask for.
LEMMA MenusAreRequests ==
  ASSUME NEW o \in Orders, NEW r \in Menu[o]
  PROVE  /\ r.account \in Accounts /\ r.side \in {"buy", "sell"}
         /\ r.kind \in {"limit", "stop", "paper"}
         /\ r.quantity \in Nat \ {0} /\ r.limit \in Nat \ {0}
         /\ r.quantity * r.limit \in Nat /\ r.limit * r.quantity \in Nat
         /\ r # NoRequest /\ r \in UNION Range(Menu)
<1>1. r \in AllRequests /\ r # NoRequest BY MenuAssumption
<1>2. /\ r.account \in Accounts /\ r.side \in {"buy", "sell"}
      /\ r.kind \in {"limit", "stop", "paper"}
      /\ r.quantity \in Nat \ {0} /\ r.limit \in Nat \ {0} BY <1>1 DEF AllRequests
<1>3. \A m, n \in Nat : m * n \in Nat OBVIOUS
<1>4. r \in UNION Range(Menu) BY MenuAssumption DEF Range
<1> QED BY <1>1, <1>2, <1>3, <1>4

\* So what an order that was sent asks for.
LEMMA AskedFor ==
  ASSUME StageInv, NEW o \in Orders, ~At(o, "unsent")
  PROVE  /\ request[o] \in Menu[o] /\ Account(o) \in Accounts
         /\ request[o].side \in {"buy", "sell"}
         /\ request[o].quantity \in Nat \ {0} /\ request[o].limit \in Nat \ {0}
         /\ Notional(o) \in Nat
<1>1. request[o] \in Menu[o] BY DEF StageInv, StageOf
<1> QED BY <1>1, MenusAreRequests DEF Account, Notional

\* The trades of the engine, and the numbers they have.
LEMMA TradesAreTyped ==
  ASSUME TypeOK
  PROVE  /\ DOMAIN trades = 1 .. Len(trades) /\ Len(trades) \in Nat /\ DOMAIN trades \subseteq Nat
         /\ IsFiniteSet(DOMAIN trades)
         /\ \A t \in DOMAIN trades :
               /\ Trade(t).buy \in Orders /\ Trade(t).sell \in Orders /\ Trade(t).caller \in Orders
               /\ Trade(t).quantity \in Nat /\ Trade(t).price \in Nat /\ Value(t) \in Nat
<1> DEFINE T == [buy : Orders, sell : Orders, price : Nat, quantity : Nat, caller : Orders]
<1>1. trades \in Seq(T) BY DEF TypeOK
<1>2. DOMAIN trades = 1 .. Len(trades) /\ Len(trades) \in Nat
  <2> HIDE DEF T
  <2> QED BY <1>1, LenProperties
<1>3. IsFiniteSet(DOMAIN trades) /\ DOMAIN trades \subseteq Nat BY <1>2, FS_Interval
<1>4. ASSUME NEW t \in DOMAIN trades  PROVE Trade(t) \in T
  <2> HIDE DEF T
  <2> QED BY <1>1, <1>2, <1>4, ElementOfSeq DEF Trade
<1>5. \A m, n \in Nat : m * n \in Nat OBVIOUS
<1>6. ASSUME NEW t \in DOMAIN trades
      PROVE  /\ Trade(t).buy \in Orders /\ Trade(t).sell \in Orders /\ Trade(t).caller \in Orders
             /\ Trade(t).quantity \in Nat /\ Trade(t).price \in Nat BY <1>4
<1>7. \A t \in DOMAIN trades : Value(t) \in Nat BY <1>5, <1>6 DEF Value
<1> QED BY <1>2, <1>3, <1>6, <1>7

\* Before the first request no handler has been reached and nothing has been traded.
LEMMA InitiallyInControl == Init => ControlInv
<1> SUFFICES ASSUME Init  PROVE ControlInv OBVIOUS
<1> USE DEF Init
<1>1. TypeOK
  <2>1. NoCall \in [at : Points, netHolding : Int, toSettle : SUBSET DOMAIN trades,
                    executed : Nat, executedNotional : Nat] BY DEF NoCall, Points
  <2>2. NotPledging \in [at : {"idle", "read"}, netHolding : Int] BY DEF NotPledging
  <2>3. trades \in Seq([buy : Orders, sell : Orders, price : Nat, quantity : Nat, caller : Orders]) OBVIOUS
  <2>4. \A a \in Accounts : SeedMargin[a] \in Int /\ SeedHolding[a] \in Int BY SeedAssumption
  <2>5. availableMargin \in [Accounts -> Int] /\ position \in [Accounts -> Int] BY <2>4, SeedAssumption
  <2>6. /\ request \in [Orders -> (UNION Range(Menu)) \cup {NoRequest}]
        /\ handler \in [Orders -> [at : Points, netHolding : Int, toSettle : SUBSET DOMAIN trades,
                                  executed : Nat, executedNotional : Nat]] BY <2>1
  <2>7. /\ exposure \in [Accounts -> Nat] /\ reservedToSell \in [Accounts -> Nat]
        /\ pledged \in [Accounts -> Nat]
        /\ pledging \in [Accounts -> [at : {"idle", "read"}, netHolding : Int]] BY <2>2
  <2>8. /\ inEngine \in [Orders -> {"absent", "inbox", "resting", "armed", "gone"}]
        /\ remaining \in [Orders -> Nat]
        /\ reply \in [Orders -> {"none", "trades", "error"}]
        /\ lost \subseteq posted /\ posted \subseteq DOMAIN trades OBVIOUS
  <2> HIDE DEF Init
  <2> QED BY <2>3, <2>5, <2>6, <2>7, <2>8 DEF TypeOK
<1>2. StageInv BY DEF StageInv, StageOf, NoCall, At, Early, Settlement
<1>3. TradesInv BY DEF TradesInv
<1> QED BY <1>1, <1>2, <1>3 DEF ControlInv

\* The shape every handler's step has: one handler moves to a point, with a record of its own.
Calls == [at : Points, netHolding : Int, toSettle : SUBSET DOMAIN trades,
          executed : Nat, executedNotional : Nat]
Moves(o, point) ==
  /\ \A p \in Orders : p # o => handler'[p] = handler[p]
  /\ handler'[o].at = point

\* Moving on, the rest of the call's record stays.
LEMMA GoingOn ==
  ASSUME TypeOK, NEW o \in Orders, NEW point \in Points, Goes(o, point)
  PROVE  /\ Moves(o, point) /\ handler' \in [Orders -> Calls]
         /\ handler'[o].toSettle = handler[o].toSettle
         /\ handler'[o].executed = handler[o].executed
         /\ handler'[o].executedNotional = handler[o].executedNotional
         /\ handler'[o].netHolding = handler[o].netHolding
<1>1. handler \in [Orders -> Calls] BY DEF TypeOK, Calls
<1>2. handler' = [handler EXCEPT ![o].at = point] BY DEF Goes
<1>3. handler'[o] = [handler[o] EXCEPT !.at = point] /\ handler[o] \in Calls BY <1>1, <1>2
<1>4. handler'[o] \in Calls BY <1>3 DEF Calls
<1>5. /\ handler'[o].at = point
      /\ handler'[o].toSettle = handler[o].toSettle
      /\ handler'[o].executed = handler[o].executed
      /\ handler'[o].executedNotional = handler[o].executedNotional
      /\ handler'[o].netHolding = handler[o].netHolding BY <1>3 DEF Calls
<1>6. \A p \in Orders : p # o => handler'[p] = handler[p] BY <1>1, <1>2
<1>7. handler' \in [Orders -> Calls] BY <1>1, <1>2, <1>4, <1>6
<1> QED BY <1>5, <1>6, <1>7 DEF Moves

\* The points of a settlement, and those before the engine, are points of the handler.
LEMMA PointsOfTheCode ==
  /\ Settlement \subseteq Points /\ Early \subseteq Points
  /\ {"unsent", "checking", "reserving", "margin", "paper", "sending", "awaiting", "settling",
      "posted", "debiting", "rejected", "writtenOff", "done"} = Points BY DEF Points, Settlement, Early

\* A step in which one handler moves and the engine stays as it is keeps control.
LEMMA OneHandlerMoves ==
  ASSUME ControlInv, NEW o \in Orders, UNCHANGED <<request, engine>>,
         \A p \in Orders : p # o => handler'[p] = handler[p],
         StageOf(o)', TypeOK'
  PROVE  ControlInv'
<1>1. UNCHANGED <<request, inEngine, reply, trades>> BY DEF engine
<1>2. ASSUME NEW p \in Orders, p # o  PROVE StageOf(p)'
  BY <1>2, <1>1 DEF ControlInv, StageInv, StageOf, At, Handled
<1>3. StageInv' BY <1>2 DEF StageInv
<1>4. TradesInv' BY <1>1 DEF ControlInv, TradesInv, Trade, Handled, IsSell
<1> QED BY <1>3, <1>4 DEF ControlInv

\* What is released from a book leaves a number.
LEMMA AtLeastZeroIsNat == \A n \in Int : AtLeastZero(n) \in Nat BY DEF AtLeastZero

\* What a release leaves of a reservation is a natural number, of whichever account.
LEMMA ReleasesAreTyped ==
  ASSUME ControlInv, NEW o \in Orders, ~At(o, "unsent"), NEW q \in Int
  PROVE  /\ ReleaseSellReservation(o, q) => reservedToSell' \in [Accounts -> Nat]
         /\ ReleaseExposure(o) => exposure' \in [Accounts -> Nat]
         /\ availableMargin' = Add(availableMargin, Account(o), q)
               => availableMargin' \in [Accounts -> Int]
<1>1. /\ Account(o) \in Accounts /\ Notional(o) \in Nat
      /\ exposure \in [Accounts -> Nat] /\ availableMargin \in [Accounts -> Int]
      /\ reservedToSell \in [Accounts -> Nat] BY AskedFor DEF ControlInv, TypeOK
<1>2. /\ AtLeastZero(reservedToSell[Account(o)] - q) \in Nat
      /\ AtLeastZero(exposure[Account(o)] - Notional(o)) \in Nat
      /\ availableMargin[Account(o)] + q \in Int BY <1>1, AtLeastZeroIsNat
<1>3. ReleaseSellReservation(o, q) => reservedToSell' \in [Accounts -> Nat]
  BY <1>1, <1>2 DEF ReleaseSellReservation
<1>4. ReleaseExposure(o) => exposure' \in [Accounts -> Nat] BY <1>1, <1>2 DEF ReleaseExposure
<1>5. availableMargin' = Add(availableMargin, Account(o), q)
          => availableMargin' \in [Accounts -> Int] BY <1>1, <1>2 DEF Add
<1> QED BY <1>3, <1>4, <1>5

\* The types of everything but the handlers are those of the step before.
RestTyped ==
  /\ request \in [Orders -> (UNION Range(Menu)) \cup {NoRequest}]
  /\ exposure \in [Accounts -> Nat] /\ availableMargin \in [Accounts -> Int]
  /\ reservedToSell \in [Accounts -> Nat] /\ pledged \in [Accounts -> Nat]
  /\ pledging \in [Accounts -> [at : {"idle", "read"}, netHolding : Int]]
  /\ position \in [Accounts -> Int]
  /\ inEngine \in [Orders -> {"absent", "inbox", "resting", "armed", "gone"}]
  /\ remaining \in [Orders -> Nat]
  /\ reply \in [Orders -> {"none", "trades", "error"}]
  /\ trades \in Seq([buy : Orders, sell : Orders, price : Nat, quantity : Nat, caller : Orders])
  /\ lost \subseteq posted /\ posted \subseteq DOMAIN trades

\* The types of the variables, the handlers' apart from the others'.
LEMMA TypesOfTheRest == TypeOK <=> RestTyped /\ handler \in [Orders -> Calls] BY DEF TypeOK, RestTyped, Calls

\* The actions up to the hand-off.
LEMMA ArrivalKeepsControl ==
  ASSUME ControlInv, NEW o \in Orders, NEW r \in Menu[o],
         RejectAtGates(o, r) \/ CheckAndReserveExposure(o, r)
  PROVE  ControlInv'
<1>1. PICK point \in {"rejected", "checking"} : Goes(o, point) BY DEF RejectAtGates, CheckAndReserveExposure
<1>2. /\ At(o, "unsent") /\ request' = [request EXCEPT ![o] = r]
      /\ UNCHANGED <<availableMargin, reservedToSell, position, pledges, engine, ledger>>
  BY DEF RejectAtGates, CheckAndReserveExposure, Arrives, books
<1>3. Moves(o, point) /\ handler' \in [Orders -> Calls] BY <1>1, GoingOn, PointsOfTheCode DEF ControlInv
<1>4. /\ r.limit * r.quantity \in Nat /\ r.account \in Accounts /\ r \in UNION Range(Menu) BY MenusAreRequests
<1>5. exposure' \in [Accounts -> Nat]
  <2>1. exposure \in [Accounts -> Nat] BY DEF ControlInv, TypeOK
  <2>2. CASE UNCHANGED exposure BY <2>1, <2>2
  <2>3. CASE exposure' = Add(exposure, r.account, r.limit * r.quantity) BY <1>4, <2>1, <2>3 DEF Add
  <2> QED BY <2>2, <2>3 DEF RejectAtGates, CheckAndReserveExposure, books
<1>6. request \in [Orders -> (UNION Range(Menu)) \cup {NoRequest}] BY DEF ControlInv, TypeOK
<1>7. request' \in [Orders -> (UNION Range(Menu)) \cup {NoRequest}] BY <1>2, <1>4, <1>6
<1>8. TypeOK'
  BY <1>2, <1>5, <1>7, TypesOfTheRest, <1>3 DEF ControlInv, RestTyped, pledges, engine, ledger,
     TypeOK, Calls
<1>9. inEngine[o] = "absent" /\ reply[o] = "none"
  BY <1>2 DEF ControlInv, StageInv, TypeOK, StageOf, At, Handled, Early
<1>10. UNCHANGED <<inEngine, reply, trades>> BY <1>2 DEF engine
<1>11. ASSUME NEW p \in Orders  PROVE StageOf(p)'
  <2>1. CASE p = o
    BY <1>2, <1>6, <1>1, <1>3, <1>9, <1>10, <2>1 DEF StageOf, Moves, At, Handled, Early, Settlement
  <2>2. CASE p # o BY <1>2, <1>3, <1>6, <2>2, <1>10 DEF ControlInv, StageInv, Moves, StageOf, At, Handled
  <2> QED BY <2>1, <2>2
<1>12. TradesInv' BY <1>2, <1>6, <1>9, TradesAreTyped, <1>10 DEF Handled, ControlInv, TradesInv, Trade, IsSell
<1> QED BY <1>8, <1>11, <1>12 DEF ControlInv, StageInv

\* The gates after the arrival: the handler's call is the order's own affair.
LEMMA GatesKeepControl ==
  ASSUME ControlInv, NEW o \in Orders,
         \/ Reject(o) \/ PassChecks(o) \/ ReserveUnpledgedQuantityForSell(o)
         \/ EvaluateOrderAgainstAvailableMargin(o) \/ PaperTrade(o)
  PROVE  ControlInv'
<1>1. /\ UNCHANGED <<request, position, pledges, engine, ledger>>
      /\ handler[o].at \in {"checking", "reserving", "margin", "paper"}
  BY DEF Reject, PassChecks, ReserveUnpledgedQuantityForSell, EvaluateOrderAgainstAvailableMargin,
         PaperTrade, At, books
<1>2. /\ inEngine[o] = "absent" /\ reply[o] = "none" /\ ~At(o, "unsent") /\ request[o] \in Menu[o]
      /\ At(o, "paper") => request[o].kind = "paper"
  BY <1>1 DEF ControlInv, StageInv, TypeOK, StageOf, At, Handled, Early
<1>3. /\ Account(o) \in Accounts /\ Notional(o) \in Nat /\ request[o].quantity \in Nat
  BY <1>2, AskedFor DEF ControlInv
<1>4. UNCHANGED <<inEngine, reply, trades>> BY <1>1 DEF engine
<1>5. /\ exposure' \in [Accounts -> Nat] /\ availableMargin' \in [Accounts -> Int]
      /\ reservedToSell' \in [Accounts -> Nat]
  <2>1. /\ exposure \in [Accounts -> Nat] /\ availableMargin \in [Accounts -> Int]
        /\ reservedToSell \in [Accounts -> Nat] BY DEF ControlInv, TypeOK
  <2>2. CASE Reject(o) BY <1>2, <1>3, <2>1, <2>2, ReleasesAreTyped DEF Reject
  <2>3. CASE PassChecks(o) BY <2>1, <2>3 DEF PassChecks, books
  <2>4. CASE ReserveUnpledgedQuantityForSell(o) BY <1>3, <2>1, <2>4 DEF ReserveUnpledgedQuantityForSell, Add
  <2>5. CASE EvaluateOrderAgainstAvailableMargin(o)
    BY <1>3, <1>2, <2>1, <2>5, ReleasesAreTyped DEF EvaluateOrderAgainstAvailableMargin
  <2>6. CASE PaperTrade(o) BY <1>2, <1>3, <2>1, <2>6, ReleasesAreTyped DEF PaperTrade
  <2> QED BY <2>2, <2>3, <2>4, <2>5, <2>6
<1>6. RestTyped' BY <1>1, <1>5, TypesOfTheRest DEF ControlInv, RestTyped, pledges, engine, ledger
<1>7. PICK point \in Points :
         /\ Moves(o, point) /\ handler' \in [Orders -> Calls]
         /\ point \in {"rejected", "reserving", "margin", "paper", "sending", "done"}
         /\ point = "reserving" => request[o].side = "sell"
         /\ point = "paper" => request[o].kind = "paper"
         /\ point = "sending" => request[o].kind # "paper"
         /\ point = "done" => request[o].kind = "paper"
  <2>1. CASE PassChecks(o)
    <3> DEFINE point == IF IsSell(o) THEN "reserving" ELSE "margin"
               held == IF IsSell(o) THEN position[Account(o)] ELSE 0
    <3>1. handler \in [Orders -> Calls] /\ held \in Int BY <1>3 DEF ControlInv, TypeOK, Calls
    <3>2. handler' = [handler EXCEPT ![o] = [handler[o] EXCEPT !.at = point, !.netHolding = held]]
      BY <2>1, <3>1 DEF PassChecks
    <3> HIDE DEF held
    <3>3. [handler[o] EXCEPT !.at = point, !.netHolding = held] \in Calls BY <3>1 DEF Calls, Points
    <3>4. [handler[o] EXCEPT !.at = point, !.netHolding = held].at = point BY <3>1 DEF Calls
    <3>5. Moves(o, point) /\ handler' \in [Orders -> Calls]
      <4> HIDE DEF point
      <4> QED BY <3>1, <3>2, <3>3, <3>4 DEF Moves
    <3>6. /\ point \in Points /\ point \in {"reserving", "margin"}
          /\ point = "reserving" => request[o].side = "sell" BY DEF Points, IsSell
    <3> QED BY <3>5, <3>6
  <2>2. CASE ~PassChecks(o)
    <3>1. PICK point \in {"rejected", "margin", "paper", "sending", "done"} :
             /\ Goes(o, point)
             /\ point = "paper" => request[o].kind = "paper"
             /\ point = "sending" => request[o].kind # "paper"
             /\ point = "done" => request[o].kind = "paper"
      BY <1>2, <2>2 DEF Reject, ReserveUnpledgedQuantityForSell,
             EvaluateOrderAgainstAvailableMargin, PaperTrade
    <3>2. point \in Points BY DEF Points
    <3> QED BY <3>1, <3>2, GoingOn DEF ControlInv
  <2> QED BY <2>1, <2>2
<1>8. TypeOK' BY <1>4, <1>6, <1>7 DEF RestTyped, TypeOK, Calls
<1>9. StageOf(o)' BY <1>1, <1>2, <1>4, <1>7 DEF StageOf, Moves, At, Handled, Early, Settlement
<1> QED BY <1>1, <1>7, <1>8, <1>9, OneHandlerMoves DEF Moves

\* Giving up on an order leaves the engine to itself.
LEMMA WriteOffKeepsControl ==
  ASSUME ControlInv, NEW o \in Orders, HandoffFails(o) \/ ReceiveError(o) PROVE ControlInv'
<1>1. /\ UNCHANGED <<request, exposure, position, pledges, engine, ledger>>
      /\ WriteOff(o) /\ Goes(o, "writtenOff") /\ handler[o].at \in {"sending", "awaiting"}
  BY DEF HandoffFails, ReceiveError, WriteOff, At
<1>2. StageOf(o) /\ ~At(o, "unsent") /\ request[o] \in Menu[o] BY <1>1 DEF ControlInv, StageInv, StageOf, At
<1>3. /\ Account(o) \in Accounts /\ Notional(o) \in Nat /\ request[o].quantity \in Nat
  BY <1>2, AskedFor DEF ControlInv
<1>4. availableMargin' \in [Accounts -> Int] /\ reservedToSell' \in [Accounts -> Nat]
  BY <1>1, <1>2, <1>3, ReleasesAreTyped DEF WriteOff
<1>5. RestTyped' BY <1>1, <1>4, TypesOfTheRest DEF ControlInv, RestTyped, pledges, engine, ledger
<1>6. Moves(o, "writtenOff") /\ handler' \in [Orders -> Calls]
  BY <1>1, GoingOn, PointsOfTheCode DEF ControlInv
<1>7. UNCHANGED <<inEngine, reply, trades>> BY <1>1 DEF engine
<1>8. TypeOK' BY <1>5, <1>6, <1>7 DEF RestTyped, TypeOK, Calls
<1>9. StageOf(o)' BY <1>1, <1>2, <1>6, <1>7 DEF StageOf, Moves, At, Handled, Early, Settlement
<1> QED BY <1>1, <1>6, <1>8, <1>9, OneHandlerMoves DEF Moves

\* The trade a handler settles next is one of those it has left.
LEMMA SettledIsLeft ==
  ASSUME TypeOK, NEW o \in Orders, handler[o].toSettle # {}
  PROVE  Settled(o) \in handler[o].toSettle /\ Settled(o) \in DOMAIN trades
<1>1. handler[o].toSettle \subseteq DOMAIN trades BY DEF TypeOK
<1>2. handler[o].toSettle \subseteq Nat BY <1>1, TradesAreTyped
<1>3. \E t \in handler[o].toSettle : \A u \in handler[o].toSettle : t <= u BY <1>2, LeastNumber
<1>4. Settled(o) \in handler[o].toSettle BY <1>3 DEF Settled, Min
<1> QED BY <1>1, <1>4

\* What a handler with a trade in hand knows of it.
LEMMA InHand ==
  ASSUME TypeOK, SettleInv, NEW o \in Orders, Settles(o) \/ At(o, "posted")
  PROVE  /\ Settled(o) \in handler[o].toSettle /\ Settled(o) \in DOMAIN trades
         /\ Settled(o) \in TradesOf(o) /\ handler[o].at \in {"settling", "posted"}
         /\ At(o, "posted") => Settled(o) \in posted /\ Settled(o) \notin lost
         /\ At(o, "settling") => Settled(o) \notin posted
<1>1. handler[o].toSettle # {} /\ handler[o].at \in {"settling", "posted"}
  BY DEF Settles, SettleInv, SettleOf, At
<1>2. Settled(o) \in handler[o].toSettle /\ Settled(o) \in DOMAIN trades BY <1>1, SettledIsLeft
<1> QED BY <1>1, <1>2 DEF SettleInv, SettleOf

\* The parties to a trade are accounts, and their orders orders of a menu.
LEMMA PartiesOfTrades ==
  ASSUME ControlInv, NEW t \in DOMAIN trades
  PROVE  /\ Buyer(t) \in Accounts /\ Seller(t) \in Accounts /\ Account(Trade(t).caller) \in Accounts
         /\ ~At(Trade(t).buy, "unsent") /\ ~At(Trade(t).sell, "unsent")
         /\ ~At(Trade(t).caller, "unsent") /\ Trade(t).buy # Trade(t).sell
<1>1. Trade(t).buy \in Orders /\ Trade(t).sell \in Orders /\ Trade(t).caller \in Orders
  BY TradesAreTyped DEF ControlInv
<1>2. /\ Handled(Trade(t).buy) /\ Handled(Trade(t).sell) /\ Handled(Trade(t).caller)
      /\ Trade(t).buy # Trade(t).sell BY DEF ControlInv, TradesInv
<1>3. \A o \in Orders : Handled(o) => ~At(o, "unsent")
  BY DEF ControlInv, StageInv, StageOf, Handled, At, Early
<1> QED BY <1>1, <1>2, <1>3, AskedFor DEF ControlInv, Buyer, Seller

SettlementStep(o) ==
  \/ LedgerPosts(o) \/ LedgerRejects(o) \/ LedgerAnswerLost(o) \/ ApplySettledTrade(o)
  \/ ReleaseReservedMargin(o) \/ AdjustAvailableMargin(o)

\* Where a step of the settlement leads.
LEMMA SettlementMoves ==
  ASSUME ControlInv, SettleInv, NEW o \in Orders, SettlementStep(o)
  PROVE  /\ UNCHANGED <<request, exposure, pledges, engine>>
         /\ handler[o].at \in Settlement /\ Handled(o) /\ ~At(o, "unsent")
         /\ request[o].kind # "paper" /\ request[o] \in Menu[o]
         /\ \E point \in Settlement \cup {"done"} : Moves(o, point)
         /\ handler' \in [Orders -> Calls]
<1>1. UNCHANGED <<request, exposure, pledges, engine>> /\ handler[o].at \in Settlement
  BY DEF SettlementStep, LedgerPosts, LedgerRejects, LedgerAnswerLost, ApplySettledTrade,
         ReleaseReservedMargin, AdjustAvailableMargin, Settles, At, Settlement, books
<1>2. Handled(o) /\ ~At(o, "unsent") /\ request[o].kind # "paper" /\ request[o] \in Menu[o]
  BY <1>1 DEF ControlInv, StageInv, StageOf, At, Settlement
<1>3. TypeOK /\ handler \in [Orders -> Calls] BY DEF ControlInv, TypeOK, Calls
<1>4. (\E point \in Settlement \cup {"done"} : Moves(o, point)) /\ handler' \in [Orders -> Calls]
  <2>1. CASE \E point \in Settlement \cup {"done"} : Goes(o, point)
    <3>1. PICK point \in Settlement \cup {"done"} : Goes(o, point) BY <2>1
    <3>2. point \in Points BY DEF Points, Settlement
    <3> QED BY <1>3, <3>1, <3>2, GoingOn
  <2>2. CASE NextTrade(o)
    <3> DEFINE left == handler[o].toSettle \ {Settled(o)}
    <3>1. handler' = [handler EXCEPT ![o] = [handler[o] EXCEPT !.at = "settling", !.toSettle = left]]
      BY <1>3, <2>2 DEF NextTrade
    <3>2. left \subseteq DOMAIN trades BY <1>3 DEF Calls
    <3> HIDE DEF left
    <3>3. [handler[o] EXCEPT !.at = "settling", !.toSettle = left] \in Calls BY <1>3, <3>2 DEF Calls, Points
    <3>4. [handler[o] EXCEPT !.at = "settling", !.toSettle = left].at = "settling" BY <1>3 DEF Calls
    <3>5. Moves(o, "settling") /\ handler' \in [Orders -> Calls] BY <1>3, <3>1, <3>3, <3>4 DEF Moves
    <3> QED BY <3>5 DEF Settlement
  <2>3. CASE ApplySettledTrade(o)
    <3> DEFINE t == Settled(o)
               left == handler[o].toSettle \ {Settled(o)}
               quantity == handler[o].executed + Trade(t).quantity
               value == handler[o].executedNotional + Value(t)
               call == [handler[o] EXCEPT !.at = "settling", !.toSettle = left,
                                          !.executed = quantity, !.executedNotional = value]
    <3>1. handler' = [handler EXCEPT ![o] = call] BY <1>3, <2>3 DEF ApplySettledTrade
    <3>2. t \in DOMAIN trades BY <1>3, <2>3, InHand DEF ApplySettledTrade
    <3>3. left \subseteq DOMAIN trades /\ quantity \in Nat /\ value \in Nat
      BY <1>3, <3>2, TradesAreTyped DEF Calls
    <3> HIDE DEF left, quantity, value, t
    <3>4. call \in Calls /\ call.at = "settling" BY <1>3, <3>3 DEF Calls, Points
    <3>5. Moves(o, "settling") /\ handler' \in [Orders -> Calls]
      <4> HIDE DEF call
      <4> QED BY <1>3, <3>1, <3>4 DEF Moves
    <3> QED BY <3>5 DEF Settlement
  <2> QED BY <2>1, <2>2, <2>3 DEF SettlementStep, LedgerPosts, LedgerRejects, LedgerAnswerLost,
                ReleaseReservedMargin, AdjustAvailableMargin, Settlement
<1> QED BY <1>1, <1>2, <1>4

\* A step of the settlement leaves every handler at a point its order allows.
LEMMA SettlementKeepsControl ==
  ASSUME ControlInv, SettleInv, NEW o \in Orders, SettlementStep(o) PROVE ControlInv'
<1>1. /\ UNCHANGED <<request, exposure, pledges, engine>>
      /\ handler[o].at \in Settlement /\ Handled(o) /\ ~At(o, "unsent")
      /\ request[o].kind # "paper" /\ request[o] \in Menu[o]
      /\ handler' \in [Orders -> Calls] BY SettlementMoves
<1>2. PICK point \in Settlement \cup {"done"} : Moves(o, point) BY SettlementMoves
<1>3. /\ Account(o) \in Accounts /\ Notional(o) \in Nat /\ request[o].quantity \in Nat \ {0}
  BY <1>1, AskedFor DEF ControlInv
<1>4. TypeOK /\ RestTyped /\ handler \in [Orders -> Calls] /\ handler[o].executed \in Nat
      /\ handler[o].executedNotional \in Nat BY TypesOfTheRest DEF ControlInv, Calls
<1>5. lost' \subseteq posted' /\ posted' \subseteq DOMAIN trades
  BY <1>4, InHand DEF SettlementStep, LedgerPosts, LedgerRejects, LedgerAnswerLost, ApplySettledTrade,
         ReleaseReservedMargin, AdjustAvailableMargin, ledger, RestTyped
<1>6. reservedToSell' \in [Accounts -> Nat]
  <2>1. CASE AdjustAvailableMargin(o) BY <1>1, <1>4, <2>1, ReleasesAreTyped DEF AdjustAvailableMargin
  <2>2. CASE ~AdjustAvailableMargin(o)
    BY <1>4, <2>2 DEF SettlementStep, LedgerPosts, LedgerRejects, LedgerAnswerLost, ApplySettledTrade,
           ReleaseReservedMargin, books, RestTyped
  <2> QED BY <2>1, <2>2
<1>7. position' \in [Accounts -> Int]
  <2>1. CASE ApplySettledTrade(o)
    <3>1. PICK t \in DOMAIN trades : t = Settled(o) BY <1>4, <2>1, InHand DEF ApplySettledTrade
    <3>2. Trade(t).quantity \in Int BY <1>4, TradesAreTyped
    <3>3. position \in [Accounts -> Int] BY <1>4 DEF RestTyped
    <3>4. position' = Add(Add(position, Buyer(t), Trade(t).quantity), Seller(t), -Trade(t).quantity)
      BY <2>1, <3>1 DEF ApplySettledTrade, ApplyFill
    <3>5. Buyer(t) \in Accounts /\ Seller(t) \in Accounts BY PartiesOfTrades
    <3>6. \A f \in [Accounts -> Int], a \in Accounts, n \in Int : Add(f, a, n) \in [Accounts -> Int]
      BY DEF Add
    <3>7. PICK q \in Int : q = Trade(t).quantity BY <3>2
    <3>8. PICK added \in [Accounts -> Int] : added = Add(position, Buyer(t), q) BY <3>3, <3>5, <3>6
    <3>9. -q \in Int /\ position' = Add(added, Seller(t), -q) BY <3>4, <3>7, <3>8
    <3> QED BY <3>5, <3>6, <3>9
  <2>2. CASE ~ApplySettledTrade(o)
    BY <1>4, <2>2 DEF SettlementStep, LedgerPosts, LedgerRejects, LedgerAnswerLost,
           AdjustAvailableMargin, ReleaseReservedMargin, books, RestTyped
  <2> QED BY <2>1, <2>2
<1>8. availableMargin' \in [Accounts -> Int]
  <2>1. CASE ApplySettledTrade(o)
    <3>1. PICK t \in DOMAIN trades : t = Settled(o) BY <1>4, <2>1, InHand DEF ApplySettledTrade
    <3>2. Value(t) \in Int BY <1>4, TradesAreTyped
    <3>5. PICK v \in Int : v = Value(t) BY <3>2
    <3> DEFINE margin(a) == availableMargin[a]
                     + (IF a # Account(o) /\ a = Seller(t) THEN v ELSE 0)
                     - (IF a # Account(o) /\ a = Buyer(t) THEN v ELSE 0)
    <3>3. \A a \in Accounts : margin(a) \in Int BY <1>4 DEF RestTyped
    <3>4. availableMargin' = [a \in Accounts |-> margin(a)]
      BY <2>1, <3>1, <3>5 DEF ApplySettledTrade, AdjustCounterparty
    <3> HIDE DEF margin
    <3> QED BY <3>3, <3>4
  <2>2. CASE ReleaseReservedMargin(o)
    <3>1. (Notional(o) * handler[o].executed) \div request[o].quantity \in Int BY <1>3, <1>4
    <3> QED BY <1>1, <2>2, <3>1, ReleasesAreTyped DEF ReleaseReservedMargin
  <2>3. CASE AdjustAvailableMargin(o) BY <1>4, <1>1, <2>3, ReleasesAreTyped DEF AdjustAvailableMargin
  <2>4. CASE LedgerPosts(o) \/ LedgerRejects(o) \/ LedgerAnswerLost(o)
    BY <1>4, <2>4 DEF LedgerPosts, LedgerRejects, LedgerAnswerLost, books, RestTyped
  <2> QED BY <2>1, <2>2, <2>3, <2>4 DEF SettlementStep
<1>9. UNCHANGED <<inEngine, remaining, reply, trades>> BY <1>1 DEF engine
<1>10. RestTyped' BY <1>1, <1>4, <1>5, <1>6, <1>7, <1>8, <1>9 DEF RestTyped, pledges
<1>11. TypeOK' BY <1>1, <1>9, <1>10 DEF RestTyped, TypeOK, Calls
<1>12. StageOf(o)'
  BY <1>1, <1>2, <1>9 DEF ControlInv, StageInv, StageOf, Moves, At, Handled, Early, Settlement
<1> QED BY <1>1, <1>2, <1>11, <1>12, OneHandlerMoves DEF Moves

\* So does the hand-over to the engine, and the reply it brings.
LEMMA HandOverKeepsControl ==
  ASSUME ControlInv, SettleInv, NEW o \in Orders, SendToEngine(o) \/ ReceiveTrades(o) PROVE ControlInv'
<1>1. TypeOK /\ RestTyped /\ handler \in [Orders -> Calls] BY TypesOfTheRest DEF ControlInv
<1>2. StageOf(o) /\ ~At(o, "unsent") BY DEF ControlInv, StageInv, SendToEngine, ReceiveTrades, At
<1>3. /\ request[o] \in Menu[o] /\ request[o].quantity \in Nat BY <1>2, AskedFor DEF ControlInv
<1>4. CASE SendToEngine(o)
  <2>1. Moves(o, "awaiting") /\ handler' \in [Orders -> Calls]
    BY <1>1, <1>4, GoingOn, PointsOfTheCode DEF SendToEngine
  <2>2. /\ UNCHANGED <<request, exposure, availableMargin, reservedToSell, position, pledged, pledging,
                       reply, trades, posted, lost>>
        /\ inEngine' = [inEngine EXCEPT ![o] = "inbox"]
        /\ remaining' = [remaining EXCEPT ![o] = request[o].quantity]
    BY <1>4 DEF SendToEngine, books, pledges, ledger
  <2>3. TypeOK' BY <1>1, <1>3, <2>2, <2>1 DEF RestTyped, TypeOK, Calls
  <2>4. inEngine[o] = "absent" BY <1>2, <1>4 DEF SendToEngine, StageOf, At, Early
  <2>5. \A p \in Orders : p # o => inEngine'[p] = inEngine[p] BY <1>1, <2>2 DEF RestTyped
  <2>6. inEngine'[o] = "inbox" BY <1>1, <2>2 DEF RestTyped
  <2>7. reply[o] = "none" BY <1>1, <1>2, <2>4 DEF StageOf, Handled, RestTyped
  <2>8. ASSUME NEW p \in Orders  PROVE StageOf(p)'
    <3>1. CASE p = o
      BY <1>2, <1>4, <2>1, <2>2, <2>6, <2>7, <3>1
         DEF StageOf, Moves, At, Handled, Early, Settlement, SendToEngine
    <3>2. CASE p # o BY <2>1, <2>5, <3>2, <2>2 DEF ControlInv, StageInv, Moves, StageOf, At, Handled
    <3> QED BY <3>1, <3>2
  <2>9. TradesInv' BY <2>4, <2>5, <1>1, <2>2, TradesAreTyped DEF Handled, ControlInv, TradesInv, Trade, IsSell
  <2> QED BY <2>3, <2>8, <2>9 DEF ControlInv, StageInv
<1>5. CASE ReceiveTrades(o)
  <2> DEFINE left == TradesOf(o)
  <2>1. left \subseteq DOMAIN trades BY DEF TradesOf
  <2>2. handler' = [handler EXCEPT ![o] = [handler[o] EXCEPT !.at = "settling", !.toSettle = left]]
    BY <1>1, <1>5 DEF ReceiveTrades
  <2> HIDE DEF left
  <2>3. /\ [handler[o] EXCEPT !.at = "settling", !.toSettle = left] \in Calls
        /\ [handler[o] EXCEPT !.at = "settling", !.toSettle = left].at = "settling"
    BY <1>1, <2>1 DEF Calls, Points
  <2>4. Moves(o, "settling") /\ handler' \in [Orders -> Calls] BY <1>1, <2>2, <2>3 DEF Moves
  <2>5. UNCHANGED <<request, books, pledges, engine, ledger>> BY <1>5 DEF ReceiveTrades
  <2>6. TypeOK' BY <1>1, <2>5, <2>4 DEF RestTyped, books, pledges, engine, ledger, TypeOK, Calls
  <2>7. StageOf(o)'
    BY <1>5, <2>5, <1>2, <2>4 DEF ReceiveTrades, engine, StageOf, Moves, At, Handled, Early,
       Settlement
  <2> QED BY <2>4, <2>5, <2>6, <2>7, OneHandlerMoves DEF Moves
<1> QED BY <1>4, <1>5

\* A pledge touches no handler and no order.
LEMMA PledgingKeepsControl ==
  ASSUME ControlInv, NEW a \in Accounts, ReadHoldingToPledge(a) \/ PledgeHolding(a) PROVE ControlInv'
<1>1. TypeOK /\ RestTyped /\ handler \in [Orders -> Calls] BY TypesOfTheRest DEF ControlInv
<1>2. /\ UNCHANGED <<request, handler, exposure, reservedToSell, position, engine, ledger>>
      /\ \/ UNCHANGED <<pledged, availableMargin>>
         \/ pledged' = Add(pledged, a, 1) /\ availableMargin' = Add(availableMargin, a, 1)
      /\ \/ pledging' = [pledging EXCEPT ![a] = NotPledging]
         \/ pledging' = [pledging EXCEPT ![a] = [at |-> "read", netHolding |-> position[a]]]
  BY DEF ReadHoldingToPledge, PledgeHolding, books
<1>3. pledged' \in [Accounts -> Nat] /\ availableMargin' \in [Accounts -> Int]
  BY <1>1, <1>2 DEF RestTyped, Add
<1>4. pledging' \in [Accounts -> [at : {"idle", "read"}, netHolding : Int]]
  <2>1. position[a] \in Int /\ pledging \in [Accounts -> [at : {"idle", "read"}, netHolding : Int]]
    BY <1>1 DEF RestTyped
  <2>2. /\ [at |-> "read", netHolding |-> position[a]] \in [at : {"idle", "read"}, netHolding : Int]
        /\ NotPledging \in [at : {"idle", "read"}, netHolding : Int] BY <2>1 DEF NotPledging
  <2> QED BY <1>2, <2>1, <2>2
<1>5. RestTyped' BY <1>1, <1>2, <1>3, <1>4 DEF RestTyped, engine, ledger
<1>6. UNCHANGED <<request, handler, inEngine, reply, trades>> BY <1>2 DEF engine
<1>7. TypeOK' BY <1>1, <1>5, <1>6 DEF RestTyped, TypeOK, Calls
<1>8. StageInv' /\ TradesInv' BY <1>6 DEF ControlInv, StageInv, StageOf, TradesInv, At, Handled, Trade, IsSell
<1> QED BY <1>7, <1>8 DEF ControlInv

--------------------
(* The engine: what one call executes. *)

\* SetToSeq lists a finite set, each element once.
LEMMA SetInSequence ==
  ASSUME NEW S, IsFiniteSet(S)
  PROVE  /\ SetToSeq(S) \in [1 .. Cardinality(S) -> S] /\ Cardinality(S) \in Nat
         /\ \A i, j \in 1 .. Cardinality(S) : SetToSeq(S)[i] = SetToSeq(S)[j] => i = j
         /\ \A x \in S : \E i \in 1 .. Cardinality(S) : SetToSeq(S)[i] = x
<1> DEFINE n == Cardinality(S)
           s == SetToSeq(S)
<1>1. n \in Nat /\ ExistsBijection(1 .. n, S) BY FS_CardinalityType
<1>2. PICK f : f \in Bijection(1 .. n, S) BY <1>1 DEF ExistsBijection
<1>3. f \in [1 .. n -> S] /\ IsInjective(f) BY <1>2 DEF Bijection, Injection
<1>4. s \in [1 .. n -> S] /\ IsInjective(s) BY <1>3 DEF SetToSeq
<1>5. s \in Injection(1 .. n, S) BY <1>4 DEF Injection
<1>6. IsFiniteSet(1 .. n) /\ Cardinality(1 .. n) = Cardinality(S) BY <1>1, FS_Interval
<1>7. s \in Surjection(1 .. n, S)
  <2> HIDE DEF s
  <2> QED BY <1>5, <1>6, FS_Injection
<1>8. \A i, j \in 1 .. n : s[i] = s[j] => i = j BY <1>4 DEF IsInjective
<1>9. \A x \in S : \E i \in 1 .. n : s[i] = x BY <1>7 DEF Surjection
<1> QED BY <1>1, <1>4, <1>8, <1>9

\* What a call of the engine executes, pair by pair: the taker and the order it takes from,
\* by how much, and which of the new trades it is.
Matched(o, pairs, fills, number) ==
  /\ pairs \subseteq DOMAIN fills /\ IsFiniteSet(DOMAIN fills)
  /\ \A e \in DOMAIN fills : e[1] \in Orders /\ e[2] \in Orders /\ fills[e] \in Nat
  /\ \A e \in DOMAIN fills \ pairs : fills[e] = 0
  /\ \A e \in pairs : /\ Crosses(e[1], e[2]) /\ fills[e] > 0
                      /\ inEngine'[e[1]] \in {"resting", "gone"}
                      /\ inEngine'[e[2]] \in {"resting", "gone"}
                      /\ number[e] \in DOMAIN trades' \ DOMAIN trades
                      /\ trades'[number[e]] = TradeOf(o, e, fills[e])
  /\ \A e, f \in pairs : number[e] = number[f] => e = f
  /\ \A t \in DOMAIN trades' \ DOMAIN trades : \E e \in pairs : number[e] = t
  /\ \A p \in Orders : remaining'[p] = remaining[p] - Filled(fills, p)

\* A buy crosses a sell only.
LEMMA CrossesOtherSide ==
  ASSUME NEW o, NEW e, NEW q, Crosses(e[1], e[2])
  PROVE  /\ (IsSell(e[1]) <=> ~IsSell(e[2])) /\ e[1] # e[2]
         /\ ~IsSell(TradeOf(o, e, q).buy) /\ IsSell(TradeOf(o, e, q).sell)
         /\ {TradeOf(o, e, q).buy, TradeOf(o, e, q).sell} = {e[1], e[2]}
         /\ TradeOf(o, e, q).quantity = q /\ TradeOf(o, e, q).caller = o
         /\ TradeOf(o, e, q).price = request[e[2]].limit
<1>1. (IsSell(e[1]) <=> ~IsSell(e[2])) /\ e[1] # e[2] BY DEF Crosses, IsSell
<1>2. CASE IsSell(e[1]) BY <1>1, <1>2 DEF TradeOf
<1>3. CASE ~IsSell(e[1]) BY <1>1, <1>3 DEF TradeOf
<1> QED BY <1>2, <1>3

\* What the engine adds to the trades: each is one fill of a buy against a sell, at most one for
\* two orders, and what it takes from an order is what the order has less of.
LEMMA EngineMatches ==
  ASSUME TypeOK, NEW o \in Orders, EngineHandles(o)
  PROVE  /\ \E pairs, fills, number : Matched(o, pairs, fills, number)
         /\ DOMAIN trades \subseteq DOMAIN trades'
         /\ \A t \in DOMAIN trades : trades'[t] = trades[t]
         /\ IsFiniteSet(DOMAIN trades') /\ trades' \in Seq(Range(trades'))
         /\ remaining' \in [Orders -> Nat]
         /\ inEngine' \in [Orders -> {"absent", "inbox", "resting", "armed", "gone"}]
         /\ \A p \in Orders : inEngine'[p] = "absent" <=> inEngine[p] = "absent"
         /\ \A p \in Orders : Handled(p) => inEngine'[p] \in {"resting", "armed", "gone"}
         /\ inEngine'[o] \in {"resting", "armed", "gone"}
         /\ \A p \in Orders : inEngine'[p] = "inbox" => inEngine[p] = "inbox"
         /\ \A p \in Orders : inEngine'[p] \in {"resting", "armed"} =>
               inEngine[p] \in {"inbox", "resting", "armed"}
<1>1. PICK live \in IF request[o].kind = "stop" THEN {{}, {o}} ELSE {{o}},
           triggered \in SUBSET InEngine("armed") :
      \E fills \in [Encounters(o, live, triggered) -> 0 .. MaxQuantity] :
          LET left == [p \in Orders |-> remaining[p] - Filled(fills, p)]
              place == [p \in Orders |->
                 IF p \in live \cup triggered \cup InEngine("resting")
                 THEN IF left[p] > 0 THEN "resting" ELSE "gone"
                 ELSE IF p = o THEN "armed" ELSE inEngine[p]]
              executed == {e \in DOMAIN fills : fills[e] > 0}
          IN  /\ \A p \in Orders : left[p] >= 0
              /\ triggered # {} => \E e \in executed : o \in {e[1], e[2]}
              /\ \A e \in executed : <<e[2], e[1]>> \notin executed
              /\ \A p, q \in Orders : place[p] = "resting" /\ place[q] = "resting" => ~Crosses(p, q)
              /\ remaining' = left
              /\ inEngine' = place
              /\ trades' = trades \o SetToSeq({TradeOf(o, e, fills[e]) : e \in executed}) BY DEF EngineHandles
<1> DEFINE E == Encounters(o, live, triggered)
           Left(fills) == [p \in Orders |-> remaining[p] - Filled(fills, p)]
           Place(fills) == [p \in Orders |->
                 IF p \in live \cup triggered \cup InEngine("resting")
                 THEN IF Left(fills)[p] > 0 THEN "resting" ELSE "gone"
                 ELSE IF p = o THEN "armed" ELSE inEngine[p]]
<1>2. PICK fills \in [E -> 0 .. MaxQuantity] :
          /\ \A p \in Orders : Left(fills)[p] >= 0
          /\ \A e \in {d \in DOMAIN fills : fills[d] > 0} :
                <<e[2], e[1]>> \notin {d \in DOMAIN fills : fills[d] > 0}
          /\ remaining' = Left(fills)
          /\ inEngine' = Place(fills)
          /\ trades' = trades \o SetToSeq({TradeOf(o, e, fills[e]) :
                                             e \in {d \in DOMAIN fills : fills[d] > 0}}) BY <1>1
<1> DEFINE pairs == {d \in DOMAIN fills : fills[d] > 0}
           new == {TradeOf(o, e, fills[e]) : e \in pairs}
           s == SetToSeq(new)
           n == Len(trades)
           number == [e \in pairs |-> n + CHOOSE i \in 1 .. Cardinality(new) :
                                             s[i] = TradeOf(o, e, fills[e])]
<1>3. /\ live \subseteq {o} /\ triggered \subseteq InEngine("armed")
      /\ inEngine[o] = "inbox" /\ (request[o].kind # "stop" => live = {o}) BY <1>1 DEF EngineHandles
<1>4. E \subseteq Orders \X Orders /\ IsFiniteSet(E) /\ DOMAIN fills = E
  <2>1. E \subseteq Orders \X Orders BY <1>3 DEF Encounters, InEngine
  <2>2. IsFiniteSet(Orders \X Orders) BY OrdersAreFinite, FS_Product
  <2>3. DOMAIN fills = E BY <1>2
  <2> HIDE DEF E
  <2> QED BY <2>1, <2>2, <2>3, FS_Subset
<1>5. \A e \in DOMAIN fills : fills[e] \in 0 .. MaxQuantity /\ fills[e] \in Nat
  BY <1>2, <1>4, BoundsAssumption
<1>6. \A e \in E : Crosses(e[1], e[2]) /\ e[1] \in live \cup triggered
                   /\ e[2] \in InEngine("resting") \cup live \cup triggered BY DEF Encounters
<1>7. \A e \in E : e[1] \in Orders /\ e[2] \in Orders /\ e = <<e[1], e[2]>>
  <2> HIDE DEF E
  <2> QED BY <1>4
<1> HIDE DEF E
<1>8. ASSUME NEW e \in pairs, NEW f \in pairs, TradeOf(o, e, fills[e]) = TradeOf(o, f, fills[f]) PROVE e = f
  <2>1. e \in E /\ f \in E /\ Crosses(e[1], e[2]) /\ Crosses(f[1], f[2]) BY <1>4, <1>6
  <2>2. <<e[2], e[1]>> \notin pairs /\ <<f[2], f[1]>> \notin pairs BY <1>2
  <2>3. {e[1], e[2]} = {f[1], f[2]} BY <1>8, <2>1, CrossesOtherSide
  <2>4. CASE e[1] = f[1] BY <1>7, <2>1, <2>3, <2>4, CrossesOtherSide
  <2>5. CASE e[1] # f[1] BY <2>1, <2>3, <2>5, CrossesOtherSide, <1>7, <2>2
  <2> QED BY <2>4, <2>5
<1>9. IsFiniteSet(new)
  <2>1. IsFiniteSet(pairs) BY <1>4, FS_Subset
  <2>2. [e \in pairs |-> TradeOf(o, e, fills[e])] \in Surjection(pairs, new) BY DEF Surjection
  <2> HIDE DEF pairs, new
  <2> QED BY <2>1, <2>2, FS_Surjection
<1>10. /\ s \in [1 .. Cardinality(new) -> new] /\ Cardinality(new) \in Nat
       /\ \A i, j \in 1 .. Cardinality(new) : s[i] = s[j] => i = j
       /\ \A x \in new : \E i \in 1 .. Cardinality(new) : s[i] = x
  <2> HIDE DEF new
  <2> QED BY <1>9, SetInSequence
<1>11. n \in Nat /\ DOMAIN trades = 1 .. n /\ trades \in Seq(Range(trades))
  <2>1. trades \in Seq([buy : Orders, sell : Orders, price : Nat, quantity : Nat, caller : Orders])
    BY DEF TypeOK
  <2>2. n \in Nat /\ DOMAIN trades = 1 .. n BY TradesAreTyped
  <2> QED BY <2>1, <2>2, SeqDef DEF Range
<1> DEFINE k == Cardinality(new)
<1>12. /\ trades' = trades \o s /\ Len(s) = k /\ k \in Nat
       /\ DOMAIN trades' = 1 .. n + k
       /\ \A i \in 1 .. n : trades'[i] = trades[i]
       /\ \A i \in 1 .. k : n + i \in 1 .. n + k /\ n + i \notin 1 .. n /\ trades'[n + i] = s[i]
  <2>1. s \in Seq(new)
    <3> HIDE DEF s, new
    <3> QED BY <1>10, SeqDef
  <2>2. Len(s) = k
    <3> HIDE DEF s, new
    <3> QED BY <1>10, <2>1, LenProperties
  <2>3. trades' = trades \o s BY <1>2
  <2> HIDE DEF s, new, k
  <2>4. k \in Nat BY <1>10 DEF k
  <2>5. trades \in Seq(Range(trades) \cup new) /\ s \in Seq(Range(trades) \cup new) BY <1>11, <2>1, SeqDef
  <2>6. /\ trades \o s \in Seq(Range(trades) \cup new)
        /\ Len(trades \o s) = n + k
        /\ \A i \in 1 .. n + k : (trades \o s)[i] = IF i <= n THEN trades[i] ELSE s[i - n]
    BY <2>2, <2>5, ConcatProperties
  <2>7. DOMAIN trades' = 1 .. n + k BY <2>3, <2>6, LenProperties
  <2>8. \A i \in 1 .. n : trades'[i] = trades[i] BY <1>11, <2>3, <2>4, <2>6
  <2>9. ASSUME NEW i \in 1 .. k PROVE n + i \in 1 .. n + k /\ n + i \notin 1 .. n /\ trades'[n + i] = s[i]
    BY <1>11, <2>4, <2>3, <2>6
  <2> QED BY <2>2, <2>3, <2>4, <2>7, <2>8, <2>9
<1>13. ASSUME NEW e \in pairs PROVE \E i \in 1 .. k : number[e] = n + i /\ s[i] = TradeOf(o, e, fills[e])
  <2>1. TradeOf(o, e, fills[e]) \in new OBVIOUS
  <2>2. \E i \in 1 .. k : s[i] = TradeOf(o, e, fills[e]) BY <1>10, <2>1
  <2>3. number[e] = n + CHOOSE i \in 1 .. k : s[i] = TradeOf(o, e, fills[e]) OBVIOUS
  <2> HIDE DEF number, s, k
  <2> QED BY <2>2, <2>3
<1>14. \A e \in pairs : /\ number[e] \in DOMAIN trades' \ DOMAIN trades
                        /\ trades'[number[e]] = TradeOf(o, e, fills[e])
  <2> HIDE DEF number, s, k, pairs
  <2> QED BY <1>11, <1>12, <1>13
<1>15. \A e, f \in pairs : number[e] = number[f] => e = f
  <2> HIDE DEF number
  <2> QED BY <1>8, <1>14
<1>16. ASSUME NEW t \in DOMAIN trades' \ DOMAIN trades  PROVE \E e \in pairs : number[e] = t
  <2>1. PICK i \in 1 .. k : t = n + i
    <3>1. t \in 1 .. n + k /\ t \notin 1 .. n BY <1>11, <1>12
    <3>2. t - n \in 1 .. k /\ t = n + (t - n)
      <4> HIDE DEF k, n
      <4> QED BY <1>11, <1>12, <3>1 DEF n
    <3> QED BY <3>2
  <2>2. s[i] \in new
    <3> HIDE DEF s, new
    <3> QED BY <1>10, <2>1 DEF k
  <2>3. PICK e \in pairs : s[i] = TradeOf(o, e, fills[e]) BY <2>2
  <2>4. PICK j \in 1 .. k : number[e] = n + j /\ s[j] = TradeOf(o, e, fills[e]) BY <1>13
  <2>5. i = j
    <3> HIDE DEF s, new
    <3> QED BY <1>10, <2>3, <2>4 DEF k
  <2> QED BY <2>1, <2>4, <2>5
<1>17. \A p \in Orders : Filled(fills, p) \in Nat
  <2>1. ASSUME NEW p \in Orders  PROVE Filled(fills, p) \in Nat
    <3> DEFINE T == {e \in DOMAIN fills : p \in {e[1], e[2]}}
    <3>1. IsFiniteSet(T) /\ T \subseteq DOMAIN fills /\ NatOn(fills, DOMAIN fills)
          /\ IsFiniteSet(DOMAIN fills) BY <1>4, <1>5, FS_Subset DEF NatOn
    <3> HIDE DEF T
    <3>2. SumFunctionOnSet(fills, T) \in Nat BY <3>1, SumAtLeastPart
    <3> QED BY <3>2 DEF Filled, T
  <2> QED BY <2>1
<1>18. ASSUME NEW p \in Orders PROVE remaining'[p] = remaining[p] - Filled(fills, p) /\ remaining'[p] \in Nat
  BY <1>2, <1>17 DEF TypeOK
<1>19. ASSUME NEW p \in Orders
       PROVE  inEngine'[p] = IF p \in live \cup triggered \cup InEngine("resting")
                             THEN IF remaining'[p] > 0 THEN "resting" ELSE "gone"
                             ELSE IF p = o THEN "armed" ELSE inEngine[p] BY <1>2
<1>20. inEngine \in [Orders -> {"absent", "inbox", "resting", "armed", "gone"}] BY DEF TypeOK
<1>21. \A p \in live \cup triggered \cup InEngine("resting") :
          p \in Orders /\ inEngine[p] \in {"inbox", "resting", "armed"}
             /\ inEngine'[p] \in {"resting", "gone"} BY <1>3, <1>19 DEF InEngine
<1>22. inEngine' \in [Orders -> {"absent", "inbox", "resting", "armed", "gone"}] BY <1>2, <1>19, <1>20
<1>23. remaining' \in [Orders -> Nat] BY <1>2, <1>18
<1>24. Matched(o, pairs, fills, number)
  <2>1. \A e \in pairs : Crosses(e[1], e[2]) /\ fills[e] > 0
                         /\ inEngine'[e[1]] \in {"resting", "gone"}
                         /\ inEngine'[e[2]] \in {"resting", "gone"} BY <1>4, <1>6, <1>21
  <2>2. \A e \in DOMAIN fills : e[1] \in Orders /\ e[2] \in Orders /\ fills[e] \in Nat BY <1>4, <1>5, <1>7
  <2>3. \A e \in DOMAIN fills \ pairs : fills[e] = 0 BY <1>5
  <2>4. pairs \subseteq DOMAIN fills /\ IsFiniteSet(DOMAIN fills) BY <1>4
  <2> HIDE DEF pairs, number
  <2> QED BY <1>14, <1>15, <1>16, <1>18, <2>1, <2>2, <2>3, <2>4 DEF Matched
<1>25. /\ DOMAIN trades \subseteq DOMAIN trades'
       /\ \A t \in DOMAIN trades : trades'[t] = trades[t]
       /\ IsFiniteSet(DOMAIN trades') /\ trades' \in Seq(Range(trades'))
  <2>1. n + k \in Nat BY <1>11, <1>12
  <2>2. IsFiniteSet(1 .. n + k) BY <2>1, FS_Interval
  <2>3. trades' \in Seq(Range(trades'))
    <3>1. trades \in Seq(Range(trades) \cup new) /\ s \in Seq(Range(trades) \cup new)
      <4> HIDE DEF s, new
      <4> QED BY <1>10, <1>11, SeqDef
    <3>2. trades' \in Seq(Range(trades) \cup new)
      <4> HIDE DEF s, new
      <4> QED BY <1>12, <3>1, ConcatProperties
    <3>3. DOMAIN trades' = 1 .. n + k /\ trades' = [i \in 1 .. n + k |-> trades'[i]]
      <4>1. \E m \in Nat : trades' \in [1 .. m -> Range(trades) \cup new]
        <5> HIDE DEF new
        <5> QED BY <3>2, SeqDef
      <4> HIDE DEF new, k
      <4> QED BY <1>12, <4>1
    <3>4. trades' \in [1 .. n + k -> Range(trades')]
      <4> HIDE DEF k
      <4> QED BY <3>3 DEF Range
    <3> HIDE DEF new, k
    <3> QED BY <2>1, <3>4, SeqDef
  <2> HIDE DEF k
  <2> QED BY <1>11, <1>12, <2>1, <2>2, <2>3
<1>26. /\ \A p \in Orders : inEngine'[p] = "absent" <=> inEngine[p] = "absent"
       /\ \A p \in Orders : Handled(p) => inEngine'[p] \in {"resting", "armed", "gone"}
       /\ inEngine'[o] \in {"resting", "armed", "gone"}
       /\ \A p \in Orders : inEngine'[p] = "inbox" => inEngine[p] = "inbox"
       /\ \A p \in Orders : inEngine'[p] \in {"resting", "armed"} =>
                 inEngine[p] \in {"inbox", "resting", "armed"} BY <1>3, <1>19, <1>20, <1>21 DEF Handled
<1> QED BY <1>22, <1>23, <1>24, <1>25, <1>26

\* An order the engine knows was sent by its handler.
LEMMA InEngineIsSent ==
  ASSUME StageInv, NEW o \in Orders, inEngine[o] # "absent"
  PROVE  /\ ~At(o, "unsent") /\ handler[o].at \notin Early /\ request[o] \in Menu[o]
         /\ Account(o) \in Accounts /\ request[o].side \in {"buy", "sell"}
         /\ request[o].quantity \in Nat \ {0} /\ request[o].limit \in Nat \ {0}
<1>1. handler[o].at \notin Early BY DEF StageInv, StageOf
<1>2. ~At(o, "unsent") BY <1>1 DEF At, Early
<1> QED BY <1>1, <1>2, AskedFor

\* The trades a call of the engine adds.
LEMMA NewTrades ==
  ASSUME ControlInv, NEW o \in Orders, EngineHandles(o),
         NEW t \in DOMAIN trades' \ DOMAIN trades
  PROVE  /\ trades'[t] \in [buy : Orders, sell : Orders, price : Nat, quantity : Nat, caller : Orders]
         /\ trades'[t].caller = o /\ trades'[t].quantity > 0
         /\ inEngine'[trades'[t].buy] \in {"resting", "gone"}
         /\ inEngine'[trades'[t].sell] \in {"resting", "gone"}
         /\ ~IsSell(trades'[t].buy) /\ IsSell(trades'[t].sell)
<1>1. \E pairs, fills, number : Matched(o, pairs, fills, number) BY EngineMatches DEF ControlInv
<1>2. PICK pairs, fills, number : Matched(o, pairs, fills, number) BY <1>1
<1>3. PICK e \in pairs : number[e] = t BY <1>2 DEF Matched
<1>4. /\ Crosses(e[1], e[2]) /\ fills[e] > 0 /\ trades'[t] = TradeOf(o, e, fills[e])
      /\ inEngine'[e[1]] \in {"resting", "gone"} /\ inEngine'[e[2]] \in {"resting", "gone"}
      /\ e[1] \in Orders /\ e[2] \in Orders /\ fills[e] \in Nat BY <1>2, <1>3 DEF Matched
<1>5. request[e[2]].limit \in Nat BY <1>4, EngineMatches, InEngineIsSent DEF ControlInv
<1> DEFINE tr == TradeOf(o, e, fills[e])
<1>6. /\ ~IsSell(tr.buy) /\ IsSell(tr.sell) /\ {tr.buy, tr.sell} = {e[1], e[2]}
      /\ tr.quantity = fills[e] /\ tr.caller = o /\ tr.price = request[e[2]].limit BY <1>4, CrossesOtherSide
<1>7. tr.buy \in {e[1], e[2]} /\ tr.sell \in {e[1], e[2]} BY <1>6
<1>8. tr = [buy |-> tr.buy, sell |-> tr.sell, price |-> tr.price, quantity |-> tr.quantity,
            caller |-> tr.caller] BY DEF TradeOf
<1> HIDE DEF tr
<1>9. tr \in [buy : Orders, sell : Orders, price : Nat, quantity : Nat, caller : Orders]
  BY <1>4, <1>5, <1>6, <1>7, <1>8
<1> QED BY <1>4, <1>6, <1>7, <1>9 DEF tr

\* The engine keeps the types of its own variables.
LEMMA EngineKeepsTypes == ASSUME ControlInv, NEW o \in Orders, EngineHandles(o) PROVE TypeOK'
<1> DEFINE T == [buy : Orders, sell : Orders, price : Nat, quantity : Nat, caller : Orders]
<1>1. /\ DOMAIN trades \subseteq DOMAIN trades'
      /\ \A t \in DOMAIN trades : trades'[t] = trades[t]
      /\ trades' \in Seq(Range(trades'))
      /\ remaining' \in [Orders -> Nat]
      /\ inEngine' \in [Orders -> {"absent", "inbox", "resting", "armed", "gone"}]
  BY EngineMatches DEF ControlInv
<1>2. trades \in Seq(T) /\ RestTyped /\ handler \in [Orders -> Calls] /\ TypeOK
  BY TypesOfTheRest DEF ControlInv, RestTyped
<1>3. ASSUME NEW t \in DOMAIN trades'  PROVE trades'[t] \in T
  <2>1. CASE t \in DOMAIN trades
    <3>1. trades[t] \in T
      <4> HIDE DEF T
      <4>1. t \in 1 .. Len(trades) BY <1>2, <2>1, TradesAreTyped
      <4> QED BY <1>2, <4>1, ElementOfSeq
    <3> QED BY <1>1, <2>1, <3>1
  <2>2. CASE t \notin DOMAIN trades BY <1>3, <2>2, NewTrades
  <2> QED BY <2>1, <2>2
<1>4. trades' \in Seq(T)
  <2> HIDE DEF T
  <2>1. PICK m \in Nat : trades' \in [1 .. m -> Range(trades')] BY <1>1, SeqDef
  <2>2. trades' \in [1 .. m -> T] BY <1>3, <2>1
  <2> QED BY <2>2, SeqDef
<1>5. UNCHANGED <<request, handler, books, pledges, ledger>> BY DEF EngineHandles
<1>6. reply' \in [Orders -> {"none", "trades", "error"}]
  <2>1. PICK answer \in {"trades", "error"} : reply' = [reply EXCEPT ![o] = answer] BY DEF EngineHandles
  <2> QED BY <1>2, <2>1 DEF RestTyped
<1>7. RestTyped' BY <1>1, <1>2, <1>4, <1>5, <1>6 DEF RestTyped, books, pledges, ledger
<1>8. handler' \in [Orders -> [at : Points, netHolding : Int, toSettle : SUBSET DOMAIN trades',
                               executed : Nat, executedNotional : Nat]] BY <1>5, <1>1, <1>2 DEF Calls
<1> QED BY <1>7, <1>8 DEF RestTyped, TypeOK

\* The engine only moves orders on, and what it answers it has handled.
LEMMA EngineKeepsControl ==
  ASSUME ControlInv, NEW o \in Orders, EngineHandles(o) \/ EngineRejects(o) \/ CancelOrder(o)
  PROVE  /\ ControlInv'
         /\ UNCHANGED <<request, handler, books, pledges, ledger>>
         /\ \A p \in Orders : Handled(p) => Handled(p)'
         /\ \A p \in Orders : inEngine'[p] = "absent" <=> inEngine[p] = "absent"
<1>1. UNCHANGED <<request, handler, books, pledges, ledger>> BY DEF EngineHandles, EngineRejects, CancelOrder
<1>2. TypeOK /\ RestTyped /\ handler \in [Orders -> Calls] BY TypesOfTheRest DEF ControlInv
<1>3. TypeOK'
  <2>1. CASE EngineHandles(o) BY <2>1, EngineKeepsTypes
  <2>2. CASE EngineRejects(o) \/ CancelOrder(o)
    BY <2>2, <1>1, <1>2 DEF EngineRejects, CancelOrder, RestTyped, books, pledges, ledger, TypeOK,
       Calls
  <2> QED BY <2>1, <2>2
<1>4. /\ \A p \in Orders : inEngine'[p] = "absent" <=> inEngine[p] = "absent"
      /\ \A p \in Orders : Handled(p) => Handled(p)'
      /\ Handled(o)'
  <2>1. CASE EngineHandles(o) BY <1>2, <2>1, EngineMatches DEF Handled
  <2>2. CASE EngineRejects(o) \/ CancelOrder(o)
    BY <2>2, <1>2 DEF EngineRejects, CancelOrder, RestTyped, Handled
  <2> QED BY <2>1, <2>2
<1>5. \A p \in Orders : reply'[p] # "none" => reply[p] # "none" \/ p = o
  BY <1>2 DEF RestTyped, EngineHandles, EngineRejects, CancelOrder
<1>6. ASSUME NEW p \in Orders  PROVE StageOf(p)' BY <1>1, <1>4, <1>5 DEF ControlInv, StageInv, StageOf, At
<1>7. TradesInv'
  <2> DEFINE Known(p) == inEngine'[p] \notin {"absent", "inbox"}
  <2> SUFFICES ASSUME NEW t \in DOMAIN trades'
               PROVE  /\ Known(trades'[t].buy) /\ ~IsSell(trades'[t].buy)
                      /\ Known(trades'[t].sell) /\ IsSell(trades'[t].sell)
                      /\ Known(trades'[t].caller) /\ trades'[t].quantity > 0
    BY <1>1 DEF TradesInv, Trade, IsSell, Handled
  <2>0. \A p \in Orders : Handled(p) => Known(p) BY <1>4 DEF Handled
  <2>1. CASE t \in DOMAIN trades /\ trades'[t] = trades[t]
    <3>1. /\ Trade(t).buy \in Orders /\ Trade(t).sell \in Orders /\ Trade(t).caller \in Orders
      BY <1>2, <2>1, TradesAreTyped
    <3>2. /\ Handled(Trade(t).buy) /\ ~IsSell(Trade(t).buy)
          /\ Handled(Trade(t).sell) /\ IsSell(Trade(t).sell)
          /\ Handled(Trade(t).caller) /\ Trade(t).quantity > 0 BY <2>1 DEF ControlInv, TradesInv
    <3> HIDE DEF Known
    <3> QED BY <2>0, <2>1, <3>1, <3>2 DEF Trade
  <2>2. CASE EngineHandles(o) /\ t \notin DOMAIN trades BY <2>2, NewTrades, <1>4 DEF Handled
  <2>3. t \in DOMAIN trades => trades'[t] = trades[t] BY <1>2, EngineMatches DEF EngineRejects, CancelOrder
  <2>4. EngineHandles(o) \/ t \in DOMAIN trades BY DEF EngineRejects, CancelOrder
  <2> QED BY <2>1, <2>2, <2>3, <2>4
<1> QED BY <1>1, <1>3, <1>4, <1>6, <1>7 DEF ControlInv, StageInv

--------------------
(* Settling: what the books have followed. *)

\* The record of a handler that takes the next trade of its reply.
LEMMA TakingTheNext ==
  ASSUME TypeOK, NEW o \in Orders, NextTrade(o)
  PROVE  /\ Moves(o, "settling")
         /\ handler'[o].toSettle = handler[o].toSettle \ {Settled(o)}
         /\ handler'[o].executed = handler[o].executed
         /\ handler'[o].executedNotional = handler[o].executedNotional
<1> DEFINE left == handler[o].toSettle \ {Settled(o)}
<1>1. handler \in [Orders -> Calls] BY DEF TypeOK, Calls
<1>2. handler' = [handler EXCEPT ![o] = [handler[o] EXCEPT !.at = "settling", !.toSettle = left]]
  BY <1>1 DEF NextTrade
<1> HIDE DEF left
<1>3. handler'[o] = [handler[o] EXCEPT !.at = "settling", !.toSettle = left] BY <1>1, <1>2
<1>4. \A p \in Orders : p # o => handler'[p] = handler[p] BY <1>1, <1>2
<1>5. /\ handler'[o].at = "settling" /\ handler'[o].toSettle = left
      /\ handler'[o].executed = handler[o].executed
      /\ handler'[o].executedNotional = handler[o].executedNotional BY <1>1, <1>3 DEF Calls
<1> QED BY <1>4, <1>5 DEF Moves, left

\* The record of a handler that applies the trade in its hand.
LEMMA ApplyingTheTrade ==
  ASSUME TypeOK, NEW o \in Orders, ApplySettledTrade(o)
  PROVE  /\ Moves(o, "settling")
         /\ handler'[o].toSettle = handler[o].toSettle \ {Settled(o)}
         /\ handler'[o].executed = handler[o].executed + Trade(Settled(o)).quantity
         /\ handler'[o].executedNotional = handler[o].executedNotional + Value(Settled(o))
<1> DEFINE left == handler[o].toSettle \ {Settled(o)}
           quantity == handler[o].executed + Trade(Settled(o)).quantity
           value == handler[o].executedNotional + Value(Settled(o))
<1>1. handler \in [Orders -> Calls] BY DEF TypeOK, Calls
<1>2. handler' = [handler EXCEPT ![o] = [handler[o] EXCEPT !.at = "settling", !.toSettle = left,
                                          !.executed = quantity, !.executedNotional = value]]
  BY <1>1 DEF ApplySettledTrade
<1> HIDE DEF left, quantity, value
<1>3. handler'[o] = [handler[o] EXCEPT !.at = "settling", !.toSettle = left,
                                       !.executed = quantity, !.executedNotional = value] BY <1>1, <1>2
<1>4. \A p \in Orders : p # o => handler'[p] = handler[p] BY <1>1, <1>2
<1>5. /\ handler'[o].at = "settling" /\ handler'[o].toSettle = left
      /\ handler'[o].executed = quantity /\ handler'[o].executedNotional = value BY <1>1, <1>3 DEF Calls
<1> QED BY <1>4, <1>5 DEF Moves, left, quantity, value

\* When one handler moves, only its own trade in flight can change.
LEMMA OneTradeInFlight ==
  ASSUME TypeOK, SettleInv, NEW o \in Orders,
         \A p \in Orders : p # o => handler'[p] = handler[p]
  PROVE  \E others :
            /\ InFlight = others \cup (IF At(o, "posted") THEN {Settled(o)} ELSE {})
            /\ InFlight' = others \cup (IF At(o, "posted")' THEN {Settled(o)'} ELSE {})
            /\ Settles(o) \/ At(o, "posted") => Settled(o) \notin others
<1> DEFINE others == {Settled(p) : p \in {q \in Orders : q # o /\ At(q, "posted")}}
<1>1. InFlight = others \cup (IF At(o, "posted") THEN {Settled(o)} ELSE {}) BY DEF InFlight
<1>2. \A p \in Orders : p # o => (At(p, "posted")' <=> At(p, "posted")) /\ Settled(p)' = Settled(p)
  BY DEF At, Settled
<1>3. InFlight' = others \cup (IF At(o, "posted")' THEN {Settled(o)'} ELSE {})
  <2>1. InFlight' = {Settled(p)' : p \in {q \in Orders : At(q, "posted")'}} BY DEF InFlight
  <2>2. {Settled(p)' : p \in {q \in Orders : q # o /\ At(q, "posted")'}} = others BY <1>2
  <2> HIDE DEF others
  <2> QED BY <2>1, <2>2
<1>4. ASSUME Settles(o) \/ At(o, "posted"), NEW p \in Orders, p # o, At(p, "posted")
      PROVE  Settled(p) # Settled(o) BY <1>4, InHand DEF TradesOf
<1>5. Settles(o) \/ At(o, "posted") => Settled(o) \notin others BY <1>4
<1> HIDE DEF others
<1> QED BY <1>1, <1>3, <1>5

\* The trades the books have followed change only when one is applied.
LEMMA AppliedBySettlement ==
  ASSUME ControlInv, SettleInv, NEW o \in Orders, SettlementStep(o)
  PROVE  /\ Applied' = IF ApplySettledTrade(o) THEN Applied \cup {Settled(o)} ELSE Applied
         /\ ApplySettledTrade(o) => Settled(o) \notin Applied /\ Settled(o) \in DOMAIN trades
<1>1. TypeOK /\ \A p \in Orders : p # o => handler'[p] = handler[p] BY SettlementMoves DEF ControlInv, Moves
<1>2. PICK others :
         /\ InFlight = others \cup (IF At(o, "posted") THEN {Settled(o)} ELSE {})
         /\ InFlight' = others \cup (IF At(o, "posted")' THEN {Settled(o)'} ELSE {})
         /\ Settles(o) \/ At(o, "posted") => Settled(o) \notin others BY <1>1, OneTradeInFlight
<1>3. CASE LedgerPosts(o)
  <2>1. Settles(o) /\ posted' = posted \cup {Settled(o)} /\ UNCHANGED lost /\ Goes(o, "posted")
    BY <1>3 DEF LedgerPosts
  <2>2. At(o, "posted")' /\ handler'[o].toSettle = handler[o].toSettle /\ ~At(o, "posted")
    BY <1>1, <2>1, GoingOn, PointsOfTheCode DEF At, Moves, Settles
  <2>3. Settled(o)' = Settled(o) BY <2>2 DEF Settled
  <2>4. Settled(o) \notin posted BY <1>1, <2>1, InHand DEF Settles
  <2>5. ~ApplySettledTrade(o) BY <2>2 DEF ApplySettledTrade
  <2> QED BY <1>2, <2>1, <2>2, <2>3, <2>4, <2>5 DEF Applied
<1>4. CASE LedgerRejects(o)
  BY <1>4, <1>1, TakingTheNext, <1>2 DEF LedgerRejects, ledger, Settles, At, Moves,
     ApplySettledTrade, Applied
<1>5. CASE LedgerAnswerLost(o)
  <2>1. /\ NextTrade(o) /\ UNCHANGED posted /\ At(o, "posted") /\ lost' = lost \cup {Settled(o)}
    BY <1>5 DEF LedgerAnswerLost
  <2>2. ~At(o, "posted")' BY <1>1, <2>1, TakingTheNext DEF At, Moves
  <2>3. ~ApplySettledTrade(o) BY <1>1, <2>1, InHand DEF ApplySettledTrade, ledger
  <2> QED BY <1>2, <2>1, <2>2, <2>3 DEF Applied
<1>6. CASE ApplySettledTrade(o)
  <2>1. UNCHANGED <<posted, lost>> /\ At(o, "posted") BY <1>6 DEF ApplySettledTrade, ledger
  <2>2. ~At(o, "posted")' BY <1>1, <1>6, ApplyingTheTrade DEF At, Moves
  <2>3. Settled(o) \in posted /\ Settled(o) \notin lost /\ Settled(o) \in DOMAIN trades BY <1>1, <2>1, InHand
  <2> QED BY <1>2, <1>6, <2>1, <2>2, <2>3 DEF Applied
<1>7. CASE ReleaseReservedMargin(o) \/ AdjustAvailableMargin(o)
  <2>1. UNCHANGED <<posted, lost>> /\ ~At(o, "posted")
    BY <1>7 DEF ReleaseReservedMargin, AdjustAvailableMargin, ledger, At
  <2>2. PICK point \in {"debiting", "done"} : Goes(o, point)
    BY <1>7 DEF ReleaseReservedMargin, AdjustAvailableMargin
  <2>3. ~At(o, "posted")' BY <1>1, <2>2, GoingOn, PointsOfTheCode DEF At, Moves
  <2>4. ~ApplySettledTrade(o) BY <2>1 DEF ApplySettledTrade
  <2> QED BY <1>2, <2>1, <2>3, <2>4 DEF Applied
<1> QED BY <1>3, <1>4, <1>5, <1>6, <1>7 DEF SettlementStep

\* The quantities and values of the trades are numbers, and stay what they are.
LEMMA SumsOfTrades ==
  ASSUME TypeOK, NEW T \in SUBSET DOMAIN trades
  PROVE  /\ IsFiniteSet(T) /\ NatOn(Quantities, T) /\ NatOn(Values, T)
         /\ IntOn(Quantities, T) /\ IntOn(Values, T)
         /\ Quantity(T) \in Nat /\ Worth(T) \in Nat
<1>1. IsFiniteSet(DOMAIN trades) /\ IsFiniteSet(T) BY TradesAreTyped, FS_Subset
<1>2. \A t \in DOMAIN trades : Trade(t).quantity \in Nat /\ Value(t) \in Nat BY TradesAreTyped
<1>3. /\ NatOn(Quantities, T) /\ NatOn(Values, T) /\ IntOn(Quantities, T) /\ IntOn(Values, T)
  BY <1>2 DEF Quantities, Values, NatOn, IntOn
<1> QED BY <1>1, <1>3, SumAtLeastPart DEF Quantity, Worth

\* A sum over one more trade.
LEMMA OneMoreTrade ==
  ASSUME TypeOK, NEW T \in SUBSET DOMAIN trades, NEW t \in DOMAIN trades \ T
  PROVE  Quantity(T \cup {t}) = Quantity(T) + Trade(t).quantity /\ Worth(T \cup {t}) = Worth(T) + Value(t)
<1>1. IsFiniteSet(T) /\ IntOn(Quantities, T) /\ IntOn(Values, T) BY SumsOfTrades
<1>2. /\ Trade(t).quantity \in Int /\ Value(t) \in Int
      /\ Quantities[t] = Trade(t).quantity /\ Values[t] = Value(t) BY TradesAreTyped DEF Quantities, Values
<1>3. t \notin T /\ Quantities[t] \in Int /\ Values[t] \in Int BY <1>2
<1>4. SumFunctionOnSet(Quantities, T \cup {t}) = SumFunctionOnSet(Quantities, T) + Quantities[t]
  BY <1>1, <1>3, SumWith
<1>5. SumFunctionOnSet(Values, T \cup {t}) = SumFunctionOnSet(Values, T) + Values[t] BY <1>1, <1>3, SumWith
<1> QED BY <1>2, <1>4, <1>5 DEF Quantity, Worth

\* A handler whose trades nobody else settles stays as settled as it is.
LEMMA SettlingOfAnother ==
  ASSUME NEW p \in Orders, SettleOf(p), handler'[p] = handler[p], UNCHANGED trades,
         TradesOf(p) \cap posted' = TradesOf(p) \cap posted,
         TradesOf(p) \cap lost' = TradesOf(p) \cap lost,
         TradesOf(p) \cap Applied' = TradesOf(p) \cap Applied
  PROVE  SettleOf(p)'
<1>1. TradesOf(p)' = TradesOf(p) /\ Settled(p)' = Settled(p) BY DEF TradesOf, Trade, Settled
<1>2. Quantities' = Quantities /\ Values' = Values BY DEF Quantities, Values, Value, Trade
<1>3. /\ Quantity(TradesOf(p) \cap Applied)' = Quantity(TradesOf(p) \cap Applied)
      /\ Worth(TradesOf(p) \cap Applied)' = Worth(TradesOf(p) \cap Applied) BY <1>1, <1>2 DEF Quantity, Worth
<1>4. handler[p].toSettle \subseteq TradesOf(p) BY DEF SettleOf
<1>5. handler[p].toSettle \cap posted' = handler[p].toSettle \cap posted BY <1>4
<1>6. Settled(p) \in TradesOf(p) /\ Settled(p) \notin lost => Settled(p) \notin lost' OBVIOUS
<1>7. At(p, "posted") => Settled(p) \in TradesOf(p) BY <1>4 DEF SettleOf
<1> QED BY <1>1, <1>3, <1>5, <1>6, <1>7 DEF SettleOf, At

\* A handler that comes to its settlement has all the trades of the reply before it; the
\* others have none, and the books follow what they followed.
LEMMA SettlementLeftAlone ==
  ASSUME TypeOK, SettleInv, NEW o \in Orders,
         \A p \in Orders : p # o => handler'[p] = handler[p],
         UNCHANGED <<trades, posted, lost>>,
         handler[o].at \notin Settlement \cup {"done"}, handler'[o].at # "posted",
         handler'[o].executed = handler[o].executed,
         handler'[o].executedNotional = handler[o].executedNotional,
         \/ handler'[o].toSettle = {}
         \/ handler'[o].at = "settling" /\ handler'[o].toSettle = TradesOf(o)
  PROVE  SettleInv' /\ Applied' = Applied
<1>1. PICK others :
         /\ InFlight = others \cup (IF At(o, "posted") THEN {Settled(o)} ELSE {})
         /\ InFlight' = others \cup (IF At(o, "posted")' THEN {Settled(o)'} ELSE {}) BY OneTradeInFlight
<1>2. ~At(o, "posted") /\ ~At(o, "posted")' BY DEF At, Settlement
<1>3. Applied' = Applied BY <1>1, <1>2 DEF Applied
<1>4. TradesOf(o)' = TradesOf(o) /\ Quantities' = Quantities /\ Values' = Values
  BY DEF TradesOf, Trade, Quantities, Values, Value
<1>5. SettleOf(o) BY DEF SettleInv
<1>6. /\ Quantity(TradesOf(o) \cap Applied)' = Quantity(TradesOf(o) \cap Applied)
      /\ Worth(TradesOf(o) \cap Applied)' = Worth(TradesOf(o) \cap Applied) BY <1>3, <1>4 DEF Quantity, Worth
<1>7. SettleOf(o)' BY <1>2, <1>4, <1>5, <1>6 DEF SettleOf, At
<1>8. ASSUME NEW p \in Orders, p # o  PROVE SettleOf(p)' BY <1>3, <1>8, SettlingOfAnother DEF SettleInv
<1> QED BY <1>3, <1>7, <1>8 DEF SettleInv

\* So do the handlers while the engine adds trades to replies nobody has yet.
LEMMA EngineKeepsSettling ==
  ASSUME ControlInv, SettleInv, NEW o \in Orders,
         EngineHandles(o) \/ EngineRejects(o) \/ CancelOrder(o)
  PROVE  /\ SettleInv' /\ Applied' = Applied /\ InFlight' = InFlight
         /\ \A p \in Orders : TradesOf(p)' \cap DOMAIN trades = TradesOf(p)
         /\ \A T \in SUBSET DOMAIN trades :
               /\ SumFunctionOnSet(Quantities', T) = Quantity(T)
               /\ SumFunctionOnSet(Values', T) = Worth(T)
<1>1. UNCHANGED <<handler, posted, lost>> /\ TypeOK BY EngineKeepsControl DEF ledger, ControlInv
<1>2. /\ DOMAIN trades \subseteq DOMAIN trades'
      /\ \A t \in DOMAIN trades : trades'[t] = trades[t]
  <2>1. CASE EngineHandles(o) BY <1>1, <2>1, EngineMatches
  <2>2. CASE EngineRejects(o) \/ CancelOrder(o) BY <2>2 DEF EngineRejects, CancelOrder
  <2> QED BY <2>1, <2>2
<1>3. Applied' = Applied /\ InFlight' = InFlight /\ \A p \in Orders : Settled(p)' = Settled(p)
  BY <1>1 DEF Settled, InFlight, At, Applied
<1>4. \A p \in Orders : TradesOf(p)' \cap DOMAIN trades = TradesOf(p) BY <1>2 DEF TradesOf, Trade
<1>5. ASSUME NEW T \in SUBSET DOMAIN trades
      PROVE  SumFunctionOnSet(Quantities', T) = Quantity(T) /\ SumFunctionOnSet(Values', T) = Worth(T)
  BY <1>2, <1>1, SumsOfTrades, SumSame DEF Quantities, Values, Value, Trade, Quantity, Worth
<1>6. Applied \subseteq DOMAIN trades /\ posted \subseteq DOMAIN trades BY <1>1 DEF TypeOK, Applied
<1>7. ASSUME NEW p \in Orders  PROVE SettleOf(p)'
  <2>1. SettleOf(p) /\ handler'[p] = handler[p] BY <1>1 DEF SettleInv
  <2>2. /\ TradesOf(p)' \cap Applied' = TradesOf(p) \cap Applied
        /\ TradesOf(p)' \cap posted' = TradesOf(p) \cap posted
        /\ TradesOf(p) \subseteq TradesOf(p)' BY <1>1, <1>3, <1>4, <1>6
  <2> DEFINE mine == TradesOf(p) \cap Applied
  <2>3. mine \in SUBSET DOMAIN trades BY <1>6
  <2>4. Quantity(TradesOf(p) \cap Applied)' = Quantity(mine) /\ Worth(TradesOf(p) \cap Applied)' = Worth(mine)
    <3>1. /\ Quantity(TradesOf(p) \cap Applied)' = SumFunctionOnSet(Quantities', mine)
          /\ Worth(TradesOf(p) \cap Applied)' = SumFunctionOnSet(Values', mine) BY <2>2 DEF Quantity, Worth
    <3> HIDE DEF mine
    <3> QED BY <1>5, <2>3, <3>1
  <2> QED BY <1>1, <1>3, <2>1, <2>2, <2>4 DEF SettleOf, At
<1> QED BY <1>3, <1>4, <1>5, <1>7 DEF SettleInv

\* A step of the settlement keeps what is settled: a trade is journalled once, and the totals of a
\* handler are those of its trades applied.
LEMMA SettlementKeepsSettling ==
  ASSUME ControlInv, SettleInv, NEW o \in Orders, SettlementStep(o) PROVE SettleInv'
<1>1. /\ TypeOK /\ \A p \in Orders : p # o => handler'[p] = handler[p]
      /\ UNCHANGED trades /\ SettleOf(o) BY SettlementMoves DEF ControlInv, Moves, engine, SettleInv
<1>2. /\ Applied' = IF ApplySettledTrade(o) THEN Applied \cup {Settled(o)} ELSE Applied
      /\ ApplySettledTrade(o) => Settled(o) \notin Applied /\ Settled(o) \in DOMAIN trades
  BY AppliedBySettlement
<1>3. /\ posted' \in {posted, posted \cup {Settled(o)}} /\ lost' \in {lost, lost \cup {Settled(o)}}
      /\ posted' # posted \/ lost' # lost \/ ApplySettledTrade(o) => Settles(o) \/ At(o, "posted")
  BY DEF SettlementStep, LedgerPosts, LedgerRejects, LedgerAnswerLost, ApplySettledTrade,
         ReleaseReservedMargin, AdjustAvailableMargin, ledger
<1>4. ASSUME NEW p \in Orders, p # o  PROVE SettleOf(p)'
  <2>1. SettleOf(p) /\ handler'[p] = handler[p] BY <1>1, <1>4 DEF SettleInv
  <2>2. CASE posted' # posted \/ lost' # lost \/ ApplySettledTrade(o)
    BY <1>1, <1>3, <2>2, InHand, <1>4, <1>2, <2>1, SettlingOfAnother DEF TradesOf
  <2>3. CASE posted' = posted /\ lost' = lost /\ ~ApplySettledTrade(o)
    BY <1>2, <2>3, <1>1, <2>1, SettlingOfAnother
  <2> QED BY <2>2, <2>3
<1>5. /\ TradesOf(o)' = TradesOf(o) /\ Quantities' = Quantities /\ Values' = Values
  BY <1>1 DEF TradesOf, Trade, Quantities, Values, Value
<1> DEFINE mine == TradesOf(o) \cap Applied
<1>6. mine \in SUBSET DOMAIN trades BY DEF TradesOf
<1>7. ~ApplySettledTrade(o) =>
          /\ Quantity(TradesOf(o) \cap Applied)' = Quantity(TradesOf(o) \cap Applied)
          /\ Worth(TradesOf(o) \cap Applied)' = Worth(TradesOf(o) \cap Applied)
  BY <1>2, <1>5 DEF Quantity, Worth
<1>8. SettleOf(o)'
  <2>1. CASE LedgerPosts(o)
    <3>1. Settles(o) /\ posted' = posted \cup {Settled(o)} /\ UNCHANGED lost /\ Goes(o, "posted")
      BY <2>1 DEF LedgerPosts
    <3>2. /\ handler'[o].at = "posted" /\ handler'[o].toSettle = handler[o].toSettle
          /\ handler'[o].executed = handler[o].executed
          /\ handler'[o].executedNotional = handler[o].executedNotional
      BY <1>1, <3>1, GoingOn, PointsOfTheCode DEF Moves
    <3>3. Settled(o)' = Settled(o) BY <3>2 DEF Settled
    <3>4. /\ Settled(o) \notin posted /\ Settled(o) \in handler[o].toSettle
          /\ handler[o].toSettle \cap posted = {} /\ lost \subseteq posted
      BY <1>1, <3>1, InHand DEF Settles, SettleOf, TypeOK
    <3>5. ~ApplySettledTrade(o) BY <3>1 DEF ApplySettledTrade, Settles, At
    <3> QED BY <1>1, <1>5, <1>7, <3>1, <3>2, <3>3, <3>4, <3>5 DEF SettleOf, At, Settlement
  <2>2. CASE LedgerRejects(o) \/ LedgerAnswerLost(o)
    <3>1. NextTrade(o) /\ UNCHANGED posted /\ (Settles(o) \/ At(o, "posted"))
      BY <2>2 DEF LedgerRejects, LedgerAnswerLost, ledger
    <3>2. /\ handler'[o].at = "settling"
          /\ handler'[o].toSettle = handler[o].toSettle \ {Settled(o)}
          /\ handler'[o].executed = handler[o].executed
          /\ handler'[o].executedNotional = handler[o].executedNotional BY <1>1, <3>1, TakingTheNext DEF Moves
    <3>3. handler[o].toSettle \cap posted \subseteq {Settled(o)} BY <1>1, <3>1 DEF SettleOf, Settles
    <3>4. ~ApplySettledTrade(o)
      BY <1>1, <2>2 DEF LedgerAnswerLost, LedgerRejects, Settles, At, SettleOf, ApplySettledTrade,
         ledger
    <3>5. handler[o].toSettle \subseteq TradesOf(o) BY <1>1 DEF SettleOf
    <3> QED BY <1>1, <1>5, <1>7, <3>1, <3>2, <3>3, <3>4, <3>5 DEF SettleOf, At, Settlement
  <2>3. CASE ApplySettledTrade(o)
    <3>1. /\ handler'[o].at = "settling"
          /\ handler'[o].toSettle = handler[o].toSettle \ {Settled(o)}
          /\ handler'[o].executed = handler[o].executed + Trade(Settled(o)).quantity
          /\ handler'[o].executedNotional = handler[o].executedNotional + Value(Settled(o))
      BY <1>1, <2>3, ApplyingTheTrade DEF Moves
    <3>2. UNCHANGED <<posted, lost>> /\ At(o, "posted") BY <2>3 DEF ApplySettledTrade, ledger
    <3>3. PICK t \in DOMAIN trades : t = Settled(o) BY <1>2, <2>3
    <3>4. Settled(o) \in TradesOf(o) /\ Settled(o) \notin Applied BY <1>1, <1>2, <2>3, <3>2, InHand
    <3>5. /\ Quantity(mine \cup {t}) = Quantity(mine) + Trade(t).quantity
          /\ Worth(mine \cup {t}) = Worth(mine) + Value(t)
      <4>1. t \in DOMAIN trades \ mine BY <3>3, <3>4
      <4> HIDE DEF mine
      <4> QED BY <1>1, <1>6, <4>1, OneMoreTrade
    <3>6. TradesOf(o)' \cap Applied' = mine \cup {t} BY <1>2, <1>5, <2>3, <3>3, <3>4
    <3>7. /\ Quantity(TradesOf(o) \cap Applied)' = Quantity(mine \cup {t})
          /\ Worth(TradesOf(o) \cap Applied)' = Worth(mine \cup {t}) BY <1>5, <3>6 DEF Quantity, Worth
    <3>8. /\ handler[o].executed = Quantity(mine) /\ handler[o].executedNotional = Worth(mine)
          /\ handler[o].toSettle \cap posted = {Settled(o)}
          /\ handler[o].toSettle \subseteq TradesOf(o) BY <1>1, <3>2 DEF SettleOf
    <3>9. /\ handler'[o].executed = Quantity(TradesOf(o) \cap Applied)'
          /\ handler'[o].executedNotional = Worth(TradesOf(o) \cap Applied)' BY <3>1, <3>3, <3>5, <3>7, <3>8
    <3>10. handler'[o].toSettle \subseteq TradesOf(o)' /\ handler'[o].toSettle \cap posted' = {}
      BY <1>5, <3>1, <3>2, <3>8
    <3> HIDE DEF mine
    <3> QED BY <3>1, <3>9, <3>10 DEF SettleOf, At, Settlement
  <2>4. CASE ReleaseReservedMargin(o) \/ AdjustAvailableMargin(o)
    <3>1. UNCHANGED <<posted, lost>> /\ handler[o].toSettle = {} /\ ~At(o, "posted")
      BY <1>1, <2>4 DEF ReleaseReservedMargin, AdjustAvailableMargin, ledger, At, SettleOf, Settlement
    <3>2. PICK point \in {"debiting", "done"} : Goes(o, point)
      BY <2>4 DEF ReleaseReservedMargin, AdjustAvailableMargin
    <3>3. /\ handler'[o].at \in {"debiting", "done"} /\ handler'[o].toSettle = handler[o].toSettle
          /\ handler'[o].executed = handler[o].executed
          /\ handler'[o].executedNotional = handler[o].executedNotional
      BY <1>1, <3>2, GoingOn, PointsOfTheCode DEF Moves
    <3>4. ~ApplySettledTrade(o) BY <3>1 DEF ApplySettledTrade
    <3> QED BY <1>1, <1>5, <1>7, <3>1, <3>3, <3>4 DEF SettleOf, At, Settlement
  <2> QED BY <2>1, <2>2, <2>3, <2>4 DEF SettlementStep
<1> QED BY <1>4, <1>8 DEF SettleInv

\* The steps before and beside the settlement.
GateStep(o) ==
  \/ Reject(o) \/ PassChecks(o) \/ ReserveUnpledgedQuantityForSell(o)
  \/ EvaluateOrderAgainstAvailableMargin(o) \/ PaperTrade(o)
  \/ SendToEngine(o) \/ HandoffFails(o) \/ ReceiveError(o) \/ ReceiveTrades(o)
ArrivalStep(o) == \E r \in Menu[o] : RejectAtGates(o, r) \/ CheckAndReserveExposure(o, r)
EngineStep(o) == EngineHandles(o) \/ EngineRejects(o) \/ CancelOrder(o)
PledgeStep(a) == ReadHoldingToPledge(a) \/ PledgeHolding(a)

\* Where a step before the settlement leads, and what it knows.
LEMMA GatesMove ==
  ASSUME ControlInv, SettleInv, NEW o \in Orders, ArrivalStep(o) \/ GateStep(o)
  PROVE  /\ \A p \in Orders : p # o => handler'[p] = handler[p]
         /\ UNCHANGED <<trades, posted, lost, pledged, position, reply>>
         /\ handler[o].at \notin Settlement \cup {"done", "rejected", "writtenOff"}
         /\ handler'[o].at \notin {"posted", "debiting", "unsent"}
         /\ handler[o].toSettle = {} /\ handler[o].executed = 0 /\ handler[o].executedNotional = 0
         /\ handler'[o].executed = 0 /\ handler'[o].executedNotional = 0
         /\ \/ handler'[o].toSettle = {}
            \/ handler'[o].at = "settling" /\ handler'[o].toSettle = TradesOf(o)
<1>1. TypeOK /\ SettleOf(o) /\ handler \in [Orders -> Calls] BY DEF ControlInv, SettleInv, TypeOK, Calls
<1>2. /\ UNCHANGED <<trades, posted, lost, pledged, position, reply>>
      /\ handler[o].at \in {"unsent", "checking", "reserving", "margin", "paper", "sending", "awaiting"}
  BY DEF ArrivalStep, GateStep, RejectAtGates, CheckAndReserveExposure, Arrives, Reject, PassChecks,
         ReserveUnpledgedQuantityForSell, EvaluateOrderAgainstAvailableMargin, PaperTrade,
         SendToEngine, HandoffFails, ReceiveError, ReceiveTrades, WriteOff, At,
         books, pledges, engine, ledger
<1>3. handler[o].at \notin Settlement \cup {"done", "rejected", "writtenOff"} BY <1>2 DEF Settlement
<1>4. handler[o].toSettle = {} /\ handler[o].executed = 0 /\ handler[o].executedNotional = 0
  BY <1>1, <1>3, SumOfNone DEF SettleOf, Applied, Settlement, Quantity, Worth
<1>5. CASE PassChecks(o)
  <2> DEFINE point == IF IsSell(o) THEN "reserving" ELSE "margin"
             held == IF IsSell(o) THEN position[Account(o)] ELSE 0
  <2>1. handler' = [handler EXCEPT ![o] = [handler[o] EXCEPT !.at = point, !.netHolding = held]]
    BY <1>1, <1>5 DEF PassChecks
  <2>2. point \in {"reserving", "margin"} OBVIOUS
  <2> HIDE DEF held, point
  <2>3. handler'[o] = [handler[o] EXCEPT !.at = point, !.netHolding = held] BY <1>1, <2>1
  <2>4. \A p \in Orders : p # o => handler'[p] = handler[p] BY <1>1, <2>1
  <2>5. /\ handler'[o].at = point /\ handler'[o].toSettle = handler[o].toSettle
        /\ handler'[o].executed = handler[o].executed
        /\ handler'[o].executedNotional = handler[o].executedNotional BY <1>1, <2>3 DEF Calls
  <2> QED BY <1>2, <1>3, <1>4, <2>2, <2>4, <2>5
<1>6. CASE ReceiveTrades(o)
  <2> DEFINE left == TradesOf(o)
  <2>1. handler' = [handler EXCEPT ![o] = [handler[o] EXCEPT !.at = "settling", !.toSettle = left]]
    BY <1>1, <1>6 DEF ReceiveTrades
  <2> HIDE DEF left
  <2>2. handler'[o] = [handler[o] EXCEPT !.at = "settling", !.toSettle = left] BY <1>1, <2>1
  <2>3. \A p \in Orders : p # o => handler'[p] = handler[p] BY <1>1, <2>1
  <2>4. /\ handler'[o].at = "settling" /\ handler'[o].toSettle = left
        /\ handler'[o].executed = handler[o].executed
        /\ handler'[o].executedNotional = handler[o].executedNotional BY <1>1, <2>2 DEF Calls
  <2> QED BY <1>2, <1>3, <1>4, <2>3, <2>4 DEF left
<1>7. CASE ~PassChecks(o) /\ ~ReceiveTrades(o)
  <2>1. PICK point \in {"rejected", "checking", "margin", "paper", "sending", "done", "awaiting",
                        "writtenOff"} : Goes(o, point)
    BY <1>7 DEF ArrivalStep, GateStep, RejectAtGates, CheckAndReserveExposure, Reject,
         ReserveUnpledgedQuantityForSell, EvaluateOrderAgainstAvailableMargin, PaperTrade,
         SendToEngine, HandoffFails, ReceiveError, WriteOff
  <2>2. point \in Points BY DEF Points
  <2>3. /\ Moves(o, point) /\ handler'[o].toSettle = handler[o].toSettle
        /\ handler'[o].executed = handler[o].executed
        /\ handler'[o].executedNotional = handler[o].executedNotional BY <1>1, <2>1, <2>2, GoingOn
  <2> QED BY <1>2, <1>3, <1>4, <2>1, <2>3 DEF Moves
<1> QED BY <1>5, <1>6, <1>7

--------------------
(* Any step. *)

Core == ControlInv /\ SettleInv

\* Every step is an arrival, a gate, a settlement, the engine's, a pledge, or a stutter.
LEMMA KindsOfSteps ==
  ASSUME [Next]_vars
  PROVE  \/ \E o \in Orders : ArrivalStep(o) \/ GateStep(o) \/ SettlementStep(o) \/ EngineStep(o)
         \/ \E a \in Accounts : PledgeStep(a)
         \/ UNCHANGED vars
BY DEF Next, HandlerStep, ArrivalStep, GateStep, SettlementStep, EngineStep, PledgeStep

\* A step that leaves the handlers and the ledger alone leaves the settlement alone.
LEMMA NothingSettled ==
  ASSUME SettleInv, UNCHANGED <<handler, trades, posted, lost>> PROVE SettleInv' /\ Applied' = Applied
<1>1. Applied' = Applied BY DEF Applied, InFlight, Settled, At
<1>2. ASSUME NEW p \in Orders  PROVE SettleOf(p)' BY <1>1, SettlingOfAnother DEF SettleInv
<1> QED BY <1>1, <1>2 DEF SettleInv

\* Every step keeps the control and the settlement; only ApplySettledTrade has the books follow.
LEMMA StepsKeepCore ==
  ASSUME Core, [Next]_vars
  PROVE  /\ Core'
         /\ Applied' = Applied \/ \E o \in Orders : ApplySettledTrade(o)
<1>1. ControlInv /\ SettleInv /\ TypeOK BY DEF Core, ControlInv
<1>2. ASSUME NEW o \in Orders, ArrivalStep(o) \/ GateStep(o) PROVE Core' /\ Applied' = Applied
  <2>1. ControlInv'
    BY <1>1, <1>2, ArrivalKeepsControl, GatesKeepControl, WriteOffKeepsControl, HandOverKeepsControl
       DEF ArrivalStep, GateStep
  <2>2. SettleInv' /\ Applied' = Applied BY <1>1, <1>2, GatesMove, SettlementLeftAlone
  <2> QED BY <2>1, <2>2 DEF Core
<1>3. ASSUME NEW o \in Orders, SettlementStep(o) PROVE Core' /\ (Applied' = Applied \/ ApplySettledTrade(o))
  BY <1>1, <1>3, SettlementKeepsControl, SettlementKeepsSettling, AppliedBySettlement DEF Core
<1>4. ASSUME NEW o \in Orders, EngineStep(o)  PROVE Core' /\ Applied' = Applied
  BY <1>1, <1>4, EngineKeepsControl, EngineKeepsSettling DEF Core, EngineStep
<1>5. ASSUME NEW a \in Accounts, PledgeStep(a)  PROVE Core' /\ Applied' = Applied
  BY <1>5, <1>1, PledgingKeepsControl, NothingSettled DEF PledgeStep, ReadHoldingToPledge,
     PledgeHolding, engine, ledger, Core
<1>6. CASE UNCHANGED vars
  <2>1. ControlInv'
    BY <1>6, <1>1 DEF vars, books, pledges, engine, ledger, TypeOK, ControlInv, StageInv, StageOf,
       TradesInv, At, Handled, Trade, IsSell
  <2>2. UNCHANGED <<handler, trades, posted, lost>> BY <1>6 DEF vars, engine, ledger
  <2> QED BY <1>1, <2>1, <2>2, NothingSettled DEF Core
<1> QED BY <1>2, <1>3, <1>4, <1>5, <1>6, KindsOfSteps

\* An order that was sent keeps its request, a trade its parties and its sums.
LEMMA WhatStays ==
  ASSUME Core, [Next]_vars
  PROVE  /\ \A o \in Orders : ~At(o, "unsent") => request'[o] = request[o] /\ ~At(o, "unsent")'
         /\ \A t \in DOMAIN trades :
               /\ t \in DOMAIN trades' /\ trades'[t] = trades[t]
               /\ Buyer(t)' = Buyer(t) /\ Seller(t)' = Seller(t)
               /\ Account(Trade(t).caller)' = Account(Trade(t).caller)
         /\ \A T \in SUBSET DOMAIN trades :
               /\ SumFunctionOnSet(Quantities', T) = Quantity(T)
               /\ SumFunctionOnSet(Values', T) = Worth(T)
<1>1. ControlInv /\ SettleInv /\ TypeOK BY DEF Core, ControlInv
<1>2. \A o \in Orders : ~At(o, "unsent") => request'[o] = request[o] /\ handler'[o].at # "unsent"
  <2>1. ASSUME NEW o \in Orders, ArrivalStep(o) \/ GateStep(o)
        PROVE  \A p \in Orders : ~At(p, "unsent") => request'[p] = request[p] /\ handler'[p].at # "unsent"
    <3>1. /\ \A p \in Orders : p # o => handler'[p] = handler[p]
          /\ handler'[o].at # "unsent" BY <1>1, <2>1, GatesMove
    <3>2. \A p \in Orders : ~At(p, "unsent") => request'[p] = request[p]
      <4>1. CASE GateStep(o)
        BY <4>1 DEF GateStep, Reject, PassChecks,
         ReserveUnpledgedQuantityForSell, EvaluateOrderAgainstAvailableMargin, PaperTrade,
         SendToEngine, HandoffFails, ReceiveError, ReceiveTrades, WriteOff
      <4>2. CASE ArrivalStep(o)
        <5>1. PICK r \in Menu[o] : request' = [request EXCEPT ![o] = r] /\ At(o, "unsent")
          BY <4>2 DEF ArrivalStep, RejectAtGates, CheckAndReserveExposure, Arrives
        <5> QED BY <1>1, <5>1 DEF TypeOK
      <4> QED BY <2>1, <4>1, <4>2
    <3> QED BY <3>1, <3>2 DEF At
  <2>2. ASSUME NEW o \in Orders, SettlementStep(o)
        PROVE  \A p \in Orders : ~At(p, "unsent") => request'[p] = request[p] /\ handler'[p].at # "unsent"
    BY <1>1, <2>2, SettlementMoves DEF At, Moves, Settlement
  <2>3. ASSUME NEW o \in Orders, EngineStep(o)  PROVE UNCHANGED <<request, handler>>
    BY <1>1, <2>3, EngineKeepsControl DEF EngineStep
  <2>4. ASSUME NEW a \in Accounts, PledgeStep(a)  PROVE UNCHANGED <<request, handler>>
    BY <2>4 DEF PledgeStep, ReadHoldingToPledge, PledgeHolding
  <2>5. UNCHANGED vars => UNCHANGED <<request, handler>> BY DEF vars
  <2>6. UNCHANGED <<request, handler>> =>
           \A p \in Orders : ~At(p, "unsent") => request'[p] = request[p] /\ handler'[p].at # "unsent"
    BY DEF At
  <2> QED BY <2>1, <2>2, <2>3, <2>4, <2>5, <2>6, KindsOfSteps
<1>3. \A t \in DOMAIN trades : t \in DOMAIN trades' /\ trades'[t] = trades[t]
  <2>1. CASE \E o \in Orders : EngineHandles(o) BY <1>1, <2>1, EngineMatches
  <2>2. CASE ~\E o \in Orders : EngineHandles(o)
    <3>1. ASSUME NEW o \in Orders, ArrivalStep(o) \/ GateStep(o)  PROVE UNCHANGED trades
      BY <1>1, <3>1, GatesMove
    <3>2. ASSUME NEW o \in Orders, SettlementStep(o)  PROVE UNCHANGED trades
      BY <1>1, <3>2, SettlementMoves DEF engine
    <3>3. ASSUME NEW o \in Orders, EngineStep(o)  PROVE UNCHANGED trades
      BY <2>2, <3>3 DEF EngineStep, EngineRejects, CancelOrder
    <3>4. ASSUME NEW a \in Accounts, PledgeStep(a)  PROVE UNCHANGED trades
      BY <3>4 DEF PledgeStep, ReadHoldingToPledge, PledgeHolding, engine
    <3>5. UNCHANGED vars => UNCHANGED trades BY DEF vars, engine
    <3> QED BY <3>1, <3>2, <3>3, <3>4, <3>5, KindsOfSteps
  <2> QED BY <2>1, <2>2
<1>4. ASSUME NEW t \in DOMAIN trades
      PROVE  /\ Buyer(t)' = Buyer(t) /\ Seller(t)' = Seller(t)
             /\ Account(Trade(t).caller)' = Account(Trade(t).caller)
  BY <1>1, PartiesOfTrades, TradesAreTyped, <1>2, <1>3 DEF Buyer, Seller, Account, Trade
<1>5. ASSUME NEW T \in SUBSET DOMAIN trades
      PROVE  SumFunctionOnSet(Quantities', T) = Quantity(T) /\ SumFunctionOnSet(Values', T) = Worth(T)
  BY <1>3, <1>1, SumsOfTrades, SumSame DEF Quantities, Values, Value, Trade, Quantity, Worth
<1> QED BY <1>2, <1>3, <1>4, <1>5 DEF At

\* One more trade counts for its buyer and for its seller.
LEMMA OneMoreForItsParties ==
  ASSUME TypeOK, NEW T \in SUBSET DOMAIN trades, NEW t \in DOMAIN trades \ T, NEW a
  PROVE  /\ Quantity(BoughtBy(a, T \cup {t})) =
               Quantity(BoughtBy(a, T)) + IF Buyer(t) = a THEN Trade(t).quantity ELSE 0
         /\ Quantity(SoldBy(a, T \cup {t})) =
               Quantity(SoldBy(a, T)) + IF Seller(t) = a THEN Trade(t).quantity ELSE 0
         /\ Worth(BoughtBy(a, T \cup {t})) =
               Worth(BoughtBy(a, T)) + IF Buyer(t) = a THEN Value(t) ELSE 0
         /\ Worth(SoldBy(a, T \cup {t})) =
               Worth(SoldBy(a, T)) + IF Seller(t) = a THEN Value(t) ELSE 0
<1> DEFINE bought == BoughtBy(a, T)
           sold == SoldBy(a, T)
           boughtNow == BoughtBy(a, T \cup {t})
           soldNow == SoldBy(a, T \cup {t})
<1>1. /\ bought \in SUBSET DOMAIN trades /\ t \in DOMAIN trades \ bought
      /\ sold \in SUBSET DOMAIN trades /\ t \in DOMAIN trades \ sold BY DEF BoughtBy, SoldBy
<1>2. /\ boughtNow = IF Buyer(t) = a THEN bought \cup {t} ELSE bought
      /\ soldNow = IF Seller(t) = a THEN sold \cup {t} ELSE sold BY DEF BoughtBy, SoldBy
<1> HIDE DEF bought, sold, boughtNow, soldNow
<1>3. /\ Quantity(bought \cup {t}) = Quantity(bought) + Trade(t).quantity
      /\ Worth(bought \cup {t}) = Worth(bought) + Value(t)
      /\ Quantity(bought) \in Nat /\ Worth(bought) \in Nat BY <1>1, OneMoreTrade, SumsOfTrades
<1>4. /\ Quantity(sold \cup {t}) = Quantity(sold) + Trade(t).quantity
      /\ Worth(sold \cup {t}) = Worth(sold) + Value(t)
      /\ Quantity(sold) \in Nat /\ Worth(sold) \in Nat BY <1>1, OneMoreTrade, SumsOfTrades
<1>5. /\ Quantity(boughtNow) = Quantity(bought) + IF Buyer(t) = a THEN Trade(t).quantity ELSE 0
      /\ Worth(boughtNow) = Worth(bought) + IF Buyer(t) = a THEN Value(t) ELSE 0 BY <1>2, <1>3
<1>6. /\ Quantity(soldNow) = Quantity(sold) + IF Seller(t) = a THEN Trade(t).quantity ELSE 0
      /\ Worth(soldNow) = Worth(sold) + IF Seller(t) = a THEN Value(t) ELSE 0 BY <1>2, <1>4
<1> QED BY <1>5, <1>6 DEF bought, sold, boughtNow, soldNow

--------------------
(* The positions. *)

\* Every step keeps the positions: they move by the trade that is applied, and by no other.
LEMMA StepsKeepPositions == ASSUME Core, Core', PositionsInv, [Next]_vars PROVE PositionsInv'
<1>1. ControlInv /\ SettleInv /\ TypeOK /\ Applied \in SUBSET DOMAIN trades
  BY DEF Core, ControlInv, TypeOK, Applied
<1>2. /\ \A t \in DOMAIN trades : Buyer(t)' = Buyer(t) /\ Seller(t)' = Seller(t)
      /\ \A T \in SUBSET DOMAIN trades : SumFunctionOnSet(Quantities', T) = Quantity(T) BY WhatStays
<1> SUFFICES ASSUME NEW a \in Accounts
             PROVE  position'[a] = SeedHolding[a]
                       + Quantity(BoughtBy(a, Applied))' - Quantity(SoldBy(a, Applied))' BY DEF PositionsInv
<1> DEFINE bought(T) == BoughtBy(a, T)
           sold(T) == SoldBy(a, T)
<1>3. ASSUME NEW T \in SUBSET DOMAIN trades, Applied' = T
      PROVE  /\ Quantity(BoughtBy(a, Applied))' = Quantity(bought(T))
             /\ Quantity(SoldBy(a, Applied))' = Quantity(sold(T))
  <2>1. BoughtBy(a, Applied)' = bought(T) /\ SoldBy(a, Applied)' = sold(T) BY <1>2, <1>3 DEF BoughtBy, SoldBy
  <2>2. bought(T) \in SUBSET DOMAIN trades /\ sold(T) \in SUBSET DOMAIN trades BY DEF BoughtBy, SoldBy
  <2> HIDE DEF bought, sold
  <2> QED BY <1>2, <2>1, <2>2 DEF Quantity
<1>4. position[a] = SeedHolding[a] + Quantity(bought(Applied)) - Quantity(sold(Applied)) BY DEF PositionsInv
<1>5. CASE \E o \in Orders : ApplySettledTrade(o)
  <2>1. PICK o \in Orders : ApplySettledTrade(o) BY <1>5
  <2>2. Applied' = Applied \cup {Settled(o)} /\ Settled(o) \notin Applied /\ Settled(o) \in DOMAIN trades
    BY <1>1, <2>1, AppliedBySettlement DEF SettlementStep
  <2>3. PICK t \in DOMAIN trades : t = Settled(o) BY <2>2
  <2>4. /\ Quantity(bought(Applied \cup {t})) =
              Quantity(bought(Applied)) + IF Buyer(t) = a THEN Trade(t).quantity ELSE 0
        /\ Quantity(sold(Applied \cup {t})) =
              Quantity(sold(Applied)) + IF Seller(t) = a THEN Trade(t).quantity ELSE 0
    <3>1. PICK T \in SUBSET DOMAIN trades : T = Applied BY <1>1
    <3>2. t \in DOMAIN trades \ T BY <2>2, <2>3, <3>1
    <3>3. /\ Quantity(bought(T \cup {t})) =
                Quantity(bought(T)) + IF Buyer(t) = a THEN Trade(t).quantity ELSE 0
          /\ Quantity(sold(T \cup {t})) =
                Quantity(sold(T)) + IF Seller(t) = a THEN Trade(t).quantity ELSE 0
      BY <1>1, <3>2, OneMoreForItsParties
    <3> QED BY <3>1, <3>3
  <2>5. /\ Quantity(BoughtBy(a, Applied))' = Quantity(bought(Applied \cup {t}))
        /\ Quantity(SoldBy(a, Applied))' = Quantity(sold(Applied \cup {t}))
    <3> HIDE DEF bought, sold
    <3> QED BY <1>1, <1>3, <2>2, <2>3
  <2>6. PICK q \in Nat : q = Trade(t).quantity BY <1>1, TradesAreTyped
  <2>7. position'[a] = position[a] + (IF Buyer(t) = a THEN q ELSE 0) - (IF Seller(t) = a THEN q ELSE 0)
    <3>1. position' = Add(Add(position, Buyer(t), q), Seller(t), -q)
      BY <2>1, <2>3, <2>6 DEF ApplySettledTrade, ApplyFill
    <3>2. Buyer(t) \in Accounts /\ Seller(t) \in Accounts BY <1>1, PartiesOfTrades
    <3>3. position \in [Accounts -> Int] /\ -q \in Int BY <1>1 DEF TypeOK
    <3>4. PICK f \in [Accounts -> Int], b \in Accounts, s \in Accounts :
             f = position /\ b = Buyer(t) /\ s = Seller(t) BY <3>2, <3>3
    <3>5. /\ Add(f, b, q) \in [Accounts -> Int]
          /\ Add(f, b, q)[a] = f[a] + IF b = a THEN q ELSE 0 BY DEF Add
    <3>6. PICK added \in [Accounts -> Int] : added = Add(f, b, q) BY <3>5
    <3>7. Add(added, s, -q)[a] = added[a] + IF s = a THEN -q ELSE 0 BY <3>3 DEF Add
    <3>8. position'[a] = Add(added, s, -q)[a] /\ f[a] \in Int BY <3>1, <3>4, <3>6
    <3> QED BY <3>4, <3>5, <3>6, <3>7, <3>8
  <2>8. Quantity(bought(Applied)) \in Nat /\ Quantity(sold(Applied)) \in Nat /\ SeedHolding[a] \in Nat
    <3>1. bought(Applied) \in SUBSET DOMAIN trades /\ sold(Applied) \in SUBSET DOMAIN trades
      BY <1>1 DEF BoughtBy, SoldBy
    <3> HIDE DEF bought, sold
    <3> QED BY <1>1, <3>1, SumsOfTrades, SeedAssumption
  <2> HIDE DEF bought, sold
  <2> QED BY <1>4, <2>4, <2>5, <2>6, <2>7, <2>8
<1>6. CASE ~\E o \in Orders : ApplySettledTrade(o)
  <2>1. Applied' = Applied BY <1>6, StepsKeepCore
  <2>2. UNCHANGED position
    <3>1. ASSUME NEW o \in Orders, ArrivalStep(o) \/ GateStep(o)  PROVE UNCHANGED position
      BY <1>1, <3>1, GatesMove
    <3>2. ASSUME NEW o \in Orders, SettlementStep(o)  PROVE UNCHANGED position
      BY <1>6, <3>2 DEF SettlementStep, LedgerPosts, LedgerRejects, LedgerAnswerLost,
         ReleaseReservedMargin, AdjustAvailableMargin, books
    <3>3. ASSUME NEW o \in Orders, EngineStep(o)  PROVE UNCHANGED position
      BY <3>3 DEF EngineStep, EngineHandles, EngineRejects, CancelOrder, books
    <3>4. ASSUME NEW b \in Accounts, PledgeStep(b)  PROVE UNCHANGED position
      BY <3>4 DEF PledgeStep, ReadHoldingToPledge, PledgeHolding, books
    <3>5. UNCHANGED vars => UNCHANGED position BY DEF vars, books
    <3> QED BY <3>1, <3>2, <3>3, <3>4, <3>5, KindsOfSteps
  <2>3. /\ Quantity(BoughtBy(a, Applied))' = Quantity(bought(Applied))
        /\ Quantity(SoldBy(a, Applied))' = Quantity(sold(Applied))
    <3> HIDE DEF bought, sold
    <3> QED BY <1>1, <1>3, <2>1
  <2> HIDE DEF bought, sold
  <2> QED BY <1>4, <2>2, <2>3
<1> QED BY <1>5, <1>6

--------------------
(* The exposure. *)

\* What each order takes of it is a number, in a state and in the next one.
ExposuresAreNat == \A a \in Accounts : NatOn(Exposures(a), Orders)

\* So it is of every state the core invariant holds in, and of the one a step reaches.
LEMMA ExposureIsNat == (Core => ExposuresAreNat) /\ (Core => ExposuresAreNat)'
<1>1. Core => ExposuresAreNat
  <2> SUFFICES ASSUME Core, NEW a \in Accounts PROVE NatOn(Exposures(a), Orders) BY DEF ExposuresAreNat
  <2>1. ASSUME NEW o \in Orders  PROVE ExposureOf(o, a) \in Nat
    BY AskedFor DEF Core, ControlInv, At, ExposureOf
  <2> QED BY <2>1 DEF NatOn, Exposures
<1>2. (Core => ExposuresAreNat)' BY <1>1, PTL
<1> QED BY <1>1, <1>2

\* What one order takes of the exposure changes by what its handler did.
LEMMA ExposureOfOne ==
  ASSUME Core, Core', [Next]_vars, NEW a \in Accounts, NEW o \in Orders,
         \A p \in Orders : p # o => handler'[p] = handler[p]
  PROVE  /\ SumFunctionOnSet(Exposures(a), Orders)' =
               SumFunctionOnSet(Exposures(a), Orders)
                  - ExposureOf(o, a) + ExposureOf(o, a)'
         /\ SumFunctionOnSet(Exposures(a), Orders) \in Nat
         /\ ExposureOf(o, a) <= SumFunctionOnSet(Exposures(a), Orders)
         /\ ExposureOf(o, a) \in Nat /\ ExposureOf(o, a)' \in Nat
<1> DEFINE f == Exposures(a)
           g == [p \in Orders |-> ExposureOf(p, a)']
<1>1. NatOn(f, Orders) /\ NatOn(g, Orders) /\ IsFiniteSet(Orders)
  BY ExposureIsNat, OrdersAreFinite DEF ExposuresAreNat, NatOn, Exposures
<1>2. \A p \in Orders \ {o} : g[p] = f[p]
  <2>1. ASSUME NEW p \in Orders \ {o}  PROVE ExposureOf(p, a)' = ExposureOf(p, a)
    BY WhatStays DEF At, ExposureOf, Account, Notional
  <2> QED BY <2>1 DEF Exposures
<1>3. f[o] = ExposureOf(o, a) /\ g[o] = ExposureOf(o, a)' BY DEF Exposures
<1>4. SumFunctionOnSet(Exposures(a), Orders)' = SumFunctionOnSet(g, Orders) BY DEF Exposures
<1>5. IntOn(f, Orders) /\ IntOn(g, Orders) /\ f[o] \in Nat /\ g[o] \in Nat
  <2> HIDE DEF f, g
  <2> QED BY <1>1 DEF NatOn, IntOn
<1> HIDE DEF f, g
<1>6. SumFunctionOnSet(g, Orders) = SumFunctionOnSet(f, Orders) - f[o] + g[o] BY <1>1, <1>2, <1>5, SumChanged
<1>7. f[o] <= SumFunctionOnSet(f, Orders) /\ SumFunctionOnSet(f, Orders) \in Nat BY <1>1, SumAtLeastOne
<1> QED BY <1>3, <1>4, <1>5, <1>6, <1>7 DEF f

\* Every step keeps the exposure: it moves by the notional of the one order that is checked or
\* rejected.
LEMMA StepsKeepExposure == ASSUME Core, Core', ExposureInv, [Next]_vars PROVE ExposureInv'
<1>1. ControlInv /\ SettleInv /\ TypeOK BY DEF Core, ControlInv
<1> SUFFICES ASSUME NEW a \in Accounts PROVE exposure'[a] = SumFunctionOnSet(Exposures(a), Orders)'
  BY DEF ExposureInv
<1>2. exposure[a] = SumFunctionOnSet(Exposures(a), Orders) BY DEF ExposureInv
<1>3. ASSUME NEW o \in Orders, \A p \in Orders : p # o => handler'[p] = handler[p],
             exposure'[a] = exposure[a] - ExposureOf(o, a) + ExposureOf(o, a)'
      PROVE  exposure'[a] = SumFunctionOnSet(Exposures(a), Orders)' BY <1>2, <1>3, ExposureOfOne
<1>4. exposure \in [Accounts -> Nat] /\ exposure[a] \in Nat BY <1>1 DEF TypeOK
<1>5. ASSUME NEW o \in Orders, ArrivalStep(o) PROVE exposure'[a] = SumFunctionOnSet(Exposures(a), Orders)'
  <2>1. \A p \in Orders : p # o => handler'[p] = handler[p] BY <1>1, <1>5, GatesMove
  <2>2. PICK r \in Menu[o] : RejectAtGates(o, r) \/ CheckAndReserveExposure(o, r) BY <1>5 DEF ArrivalStep
  <2>3. At(o, "unsent") /\ request'[o] = r
    BY <1>1, <2>2 DEF RejectAtGates, CheckAndReserveExposure, Arrives, TypeOK
  <2>4. ExposureOf(o, a) = 0 BY <2>3 DEF ExposureOf, At
  <2>5. CASE RejectAtGates(o, r)
    BY <1>1, <2>5, GoingOn, PointsOfTheCode, <1>3, <1>4, <2>1, <2>4 DEF RejectAtGates, books,
       Moves, ExposureOf
  <2>6. CASE CheckAndReserveExposure(o, r)
    <3>1. exposure' = Add(exposure, r.account, r.limit * r.quantity) /\ handler'[o].at = "checking"
      BY <1>1, <2>6, GoingOn, PointsOfTheCode DEF CheckAndReserveExposure, Moves
    <3>2. ExposureOf(o, a)' = IF r.account = a THEN r.limit * r.quantity ELSE 0
      BY <2>3, <3>1 DEF ExposureOf, Account, Notional
    <3>3. r.limit * r.quantity \in Nat BY MenusAreRequests
    <3>4. PICK n \in Nat : n = r.limit * r.quantity BY <3>3
    <3>5. exposure'[a] = exposure[a] + IF r.account = a THEN n ELSE 0 BY <1>4, <3>1, <3>4 DEF Add
    <3> QED BY <1>3, <1>4, <2>1, <2>4, <3>2, <3>4, <3>5
  <2> QED BY <2>2, <2>5, <2>6
<1>6. ASSUME NEW o \in Orders, Reject(o) PROVE exposure'[a] = SumFunctionOnSet(Exposures(a), Orders)'
  <2>1. /\ \A p \in Orders : p # o => handler'[p] = handler[p]
        /\ handler[o].at \notin {"rejected", "unsent"} BY <1>1, <1>6, GatesMove DEF GateStep, Reject, At
  <2>2. handler'[o].at = "rejected" /\ ReleaseExposure(o)
    BY <1>1, <1>6, GoingOn, PointsOfTheCode DEF Reject, Moves
  <2>3. ExposureOf(o, a)' = 0 /\ ExposureOf(o, a) = IF Account(o) = a THEN Notional(o) ELSE 0
    BY <2>1, <2>2 DEF ExposureOf
  <2>4. ExposureOf(o, a) <= exposure[a] /\ ExposureOf(o, a) \in Nat BY <1>2, <2>1, ExposureOfOne
  <2>5. exposure'[a] = exposure[a] - ExposureOf(o, a)
    <3>1. CASE Account(o) = a BY <1>4, <2>2, <3>1, <2>3, <2>4 DEF ReleaseExposure, AtLeastZero
    <3>2. CASE Account(o) # a BY <1>4, <2>2, <2>3, <3>2 DEF ReleaseExposure
    <3> QED BY <3>1, <3>2
  <2> QED BY <1>3, <1>4, <2>1, <2>3, <2>4, <2>5
<1>7. ASSUME UNCHANGED exposure, NEW o \in Orders, \A p \in Orders : p # o => handler'[p] = handler[p],
             handler[o].at \notin {"rejected", "unsent"}, handler'[o].at \notin {"rejected", "unsent"}
      PROVE  exposure'[a] = SumFunctionOnSet(Exposures(a), Orders)'
  BY <1>7, WhatStays, ExposureOfOne, <1>3, <1>4 DEF At, ExposureOf, Account, Notional
<1>8. ASSUME NEW o \in Orders, GateStep(o), ~Reject(o)
      PROVE  exposure'[a] = SumFunctionOnSet(Exposures(a), Orders)'
  <2>1. /\ \A p \in Orders : p # o => handler'[p] = handler[p]
        /\ handler[o].at # "rejected" /\ handler'[o].at # "unsent" BY <1>1, <1>8, GatesMove
  <2>2. UNCHANGED exposure /\ handler[o].at # "unsent"
    BY <1>8 DEF GateStep, PassChecks,
         ReserveUnpledgedQuantityForSell, EvaluateOrderAgainstAvailableMargin, PaperTrade,
         SendToEngine, HandoffFails, ReceiveError, ReceiveTrades, WriteOff, At, books
  <2>3. handler'[o].at # "rejected"
    <3>1. CASE PassChecks(o) \/ ReceiveTrades(o)
      <4>1. handler \in [Orders -> Calls] BY <1>1 DEF TypeOK, Calls
      <4>2. PICK point \in {"reserving", "margin", "settling"} : handler'[o].at = point
        BY <3>1, <4>1 DEF PassChecks, ReceiveTrades, Calls
      <4> QED BY <4>2
    <3>2. CASE ~PassChecks(o) /\ ~ReceiveTrades(o)
      <4>1. PICK point \in {"margin", "paper", "sending", "done", "awaiting", "writtenOff"} : Goes(o, point)
        BY <1>8, <3>2 DEF GateStep,
         ReserveUnpledgedQuantityForSell, EvaluateOrderAgainstAvailableMargin, PaperTrade,
         SendToEngine, HandoffFails, ReceiveError, WriteOff
      <4>2. point \in Points BY DEF Points
      <4> QED BY <1>1, <4>1, <4>2, GoingOn DEF Moves
    <3> QED BY <3>1, <3>2
  <2> QED BY <1>7, <2>1, <2>2, <2>3
<1>9. ASSUME NEW o \in Orders, SettlementStep(o) PROVE exposure'[a] = SumFunctionOnSet(Exposures(a), Orders)'
  BY <1>1, <1>9, SettlementMoves, <1>7 DEF Moves, Settlement
<1>10. ASSUME UNCHANGED <<request, handler, exposure>>
       PROVE  exposure'[a] = SumFunctionOnSet(Exposures(a), Orders)'
  BY <1>2, <1>10 DEF Exposures, ExposureOf, Account, Notional
<1>11. ASSUME NEW o \in Orders, EngineStep(o)  PROVE UNCHANGED <<request, handler, exposure>>
  BY <1>1, <1>11, EngineKeepsControl DEF EngineStep, books
<1>12. ASSUME NEW b \in Accounts, PledgeStep(b)  PROVE UNCHANGED <<request, handler, exposure>>
  BY <1>12 DEF PledgeStep, ReadHoldingToPledge, PledgeHolding, books
<1>13. UNCHANGED vars => UNCHANGED <<request, handler, exposure>> BY DEF vars, books
<1> QED BY <1>5, <1>6, <1>8, <1>9, <1>10, <1>11, <1>12, <1>13, KindsOfSteps

--------------------
(* What is filled. *)

\* The trades of an order before a call of the engine, and the ones that call adds.
LEMMA EngineFills ==
  ASSUME Core, Core', NEW o \in Orders, EngineHandles(o), NEW p \in Orders
  PROVE  /\ SumFunctionOnSet(Quantities', InvolvedIn(p)')
               = Quantity(InvolvedIn(p)) + (remaining[p] - remaining'[p])
         /\ Quantity(InvolvedIn(p)) \in Nat /\ remaining[p] \in Nat /\ remaining'[p] \in Nat
<1>1. ControlInv /\ SettleInv /\ TypeOK BY DEF Core, ControlInv
<1>2. \E pairs, fills, number : Matched(o, pairs, fills, number) BY <1>1, EngineMatches
<1>3. PICK pairs, fills, number : Matched(o, pairs, fills, number) BY <1>2
<1>4. /\ DOMAIN trades \subseteq DOMAIN trades' /\ IsFiniteSet(DOMAIN trades')
      /\ \A t \in DOMAIN trades : trades'[t] = trades[t]
      /\ remaining' \in [Orders -> Nat] BY <1>1, EngineMatches
<1> DEFINE Q == [t \in DOMAIN trades' |-> trades'[t].quantity]
           before == InvolvedIn(p)
           after == {t \in DOMAIN trades' : p \in {trades'[t].buy, trades'[t].sell}}
           all == {e \in DOMAIN fills : p \in {e[1], e[2]}}
           some == {e \in pairs : p \in {e[1], e[2]}}
<1>5. Quantities' = Q /\ InvolvedIn(p)' = after BY DEF Quantities, InvolvedIn, Trade
<1>6. before \subseteq after /\ after \subseteq DOMAIN trades' /\ before \in SUBSET DOMAIN trades
  BY <1>4 DEF InvolvedIn, Trade
<1>7. \A t \in DOMAIN trades' : Q[t] \in Nat
  <2>1. ASSUME NEW t \in DOMAIN trades'  PROVE trades'[t].quantity \in Nat
    <3>1. CASE t \in DOMAIN trades BY <1>1, <1>4, <3>1, TradesAreTyped DEF Trade
    <3>2. CASE t \notin DOMAIN trades BY <1>1, <3>2, NewTrades
    <3> QED BY <3>1, <3>2
  <2> QED BY <2>1
<1>8. IsFiniteSet(after) /\ IntOn(Q, after) BY <1>4, <1>6, FS_Subset, <1>7 DEF IntOn
<1>9. /\ SumFunctionOnSet(Q, after) = SumFunctionOnSet(Q, before) + SumFunctionOnSet(Q, after \ before)
      /\ SumFunctionOnSet(Q, before) \in Int /\ SumFunctionOnSet(Q, after \ before) \in Int
  <2> HIDE DEF Q, after, before
  <2> QED BY <1>6, <1>8, SumSplit
<1>10. SumFunctionOnSet(Q, before) = Quantity(before) /\ Quantity(before) \in Nat
  <2>1. \A t \in before : Q[t] = Quantities[t] BY <1>4, <1>6 DEF Quantities, Trade
  <2>2. IsFiniteSet(before) /\ Quantity(before) \in Nat
    <3> HIDE DEF before
    <3> QED BY <1>1, <1>6, SumsOfTrades
  <2> HIDE DEF Q, before
  <2> QED BY <2>1, <2>2, SumSame DEF Quantity
<1>11. after \ before = {number[e] : e \in some}
  <2>1. ASSUME NEW t \in after \ before  PROVE \E e \in some : t = number[e]
    <3>1. t \in DOMAIN trades' \ DOMAIN trades /\ p \in {trades'[t].buy, trades'[t].sell}
      BY <1>4 DEF InvolvedIn, Trade
    <3>2. PICK e \in pairs : number[e] = t BY <1>3, <3>1 DEF Matched
    <3>3. Crosses(e[1], e[2]) /\ trades'[t] = TradeOf(o, e, fills[e]) BY <1>3, <3>2 DEF Matched
    <3>4. p \in {e[1], e[2]} BY <3>1, <3>3, CrossesOtherSide
    <3> QED BY <3>2, <3>4
  <2>2. ASSUME NEW e \in some  PROVE number[e] \in after \ before
    <3>1. /\ Crosses(e[1], e[2]) /\ number[e] \in DOMAIN trades' \ DOMAIN trades
          /\ trades'[number[e]] = TradeOf(o, e, fills[e]) BY <1>3 DEF Matched
    <3>2. p \in {trades'[number[e]].buy, trades'[number[e]].sell} BY <3>1, CrossesOtherSide
    <3> QED BY <1>6, <3>1, <3>2
  <2> HIDE DEF after, before, some
  <2> QED BY <2>1, <2>2
<1>12. /\ IsFiniteSet(all) /\ IsFiniteSet(some) /\ some \subseteq all
       /\ IntOn(fills, all) /\ IntOn(fills, some)
       /\ \A e \in all \ some : fills[e] = 0
  <2>1. pairs \subseteq DOMAIN fills /\ IsFiniteSet(DOMAIN fills)
        /\ (\A e \in DOMAIN fills : fills[e] \in Nat) /\ \A e \in DOMAIN fills \ pairs : fills[e] = 0
    BY <1>3 DEF Matched
  <2>2. all \subseteq DOMAIN fills /\ some \subseteq all BY <2>1
  <2>3. IsFiniteSet(all) /\ IsFiniteSet(some)
    <3> HIDE DEF all, some
    <3>1. IsFiniteSet(all) BY <2>1, <2>2, FS_Subset
    <3> QED BY <2>2, <3>1, FS_Subset
  <2>4. IntOn(fills, all) /\ IntOn(fills, some) BY <2>1 DEF IntOn
  <2>5. \A e \in all \ some : fills[e] = 0 BY <2>1
  <2> QED BY <2>2, <2>3, <2>4, <2>5
<1>13. SumFunctionOnSet(Q, {number[e] : e \in some}) = SumFunctionOnSet(fills, some)
  <2>1. \A e, f \in some : number[e] = number[f] => e = f BY <1>3 DEF Matched
  <2>2. \A e \in some : Q[number[e]] = fills[e]
    <3>1. ASSUME NEW e \in some  PROVE Q[number[e]] = fills[e]
      <4>1. /\ Crosses(e[1], e[2]) /\ number[e] \in DOMAIN trades'
            /\ trades'[number[e]] = TradeOf(o, e, fills[e]) BY <1>3 DEF Matched
      <4> QED BY <4>1 DEF TradeOf
    <3> QED BY <3>1
  <2> HIDE DEF Q, some
  <2> QED BY <1>12, <2>1, <2>2, SumRenamed
<1>14. SumFunctionOnSet(fills, all) = SumFunctionOnSet(fills, some)
  <2> HIDE DEF all, some
  <2> QED BY <1>12, SumSkipping
<1>15. remaining'[p] = remaining[p] - SumFunctionOnSet(fills, all) BY <1>3 DEF Matched, Filled
<1>16. SumFunctionOnSet(fills, all) \in Int /\ remaining[p] \in Nat /\ remaining'[p] \in Nat
  <2>1. SumFunctionOnSet(fills, all) \in Int
    <3> HIDE DEF all
    <3> QED BY <1>12, SumIsInt
  <2> QED BY <1>1, <1>4, <2>1 DEF TypeOK
<1> HIDE DEF Q, before, after, all, some
<1>17. SumFunctionOnSet(Q, after) = Quantity(before) + (remaining[p] - remaining'[p])
  <2>1. SumFunctionOnSet(Q, after \ before) = SumFunctionOnSet(fills, all) BY <1>11, <1>13, <1>14
  <2>2. PICK filled \in Int : filled = SumFunctionOnSet(fills, all) BY <1>16
  <2>3. SumFunctionOnSet(Q, after) = Quantity(before) + filled BY <1>9, <1>10, <2>1, <2>2
  <2> QED BY <1>10, <1>15, <1>16, <2>2, <2>3
<1>18. SumFunctionOnSet(Quantities', InvolvedIn(p)') = SumFunctionOnSet(Q, after) BY <1>5
<1> QED BY <1>10, <1>16, <1>17, <1>18 DEF before

\* Every step keeps what is filled: the engine takes from an order what its new trades say.
LEMMA StepsKeepFilled == ASSUME Core, Core', FilledInv, [Next]_vars PROVE FilledInv'
<1>1. ControlInv /\ SettleInv /\ TypeOK BY DEF Core, ControlInv
<1> SUFFICES ASSUME NEW p \in Orders, inEngine'[p] # "absent"
             PROVE  remaining'[p] + Quantity(InvolvedIn(p))' = request'[p].quantity BY DEF FilledInv
<1>2. inEngine[p] # "absent" => request'[p] = request[p] BY <1>1, InEngineIsSent, WhatStays DEF ControlInv
<1>3. inEngine[p] # "absent" => remaining[p] + Quantity(InvolvedIn(p)) = request[p].quantity BY DEF FilledInv
<1>4. UNCHANGED trades => Quantity(InvolvedIn(p))' = Quantity(InvolvedIn(p))
  BY DEF Quantity, Quantities, InvolvedIn, Trade
<1>5. ASSUME NEW o \in Orders, EngineHandles(o)
      PROVE  remaining'[p] + Quantity(InvolvedIn(p))' = request'[p].quantity
  BY <1>1, <1>5, EngineMatches, EngineFills, <1>2, <1>3 DEF Quantity
<1>6. ASSUME NEW o \in Orders, SendToEngine(o)
      PROVE  remaining'[p] + Quantity(InvolvedIn(p))' = request'[p].quantity
  <2>1. /\ UNCHANGED trades /\ UNCHANGED request /\ inEngine' = [inEngine EXCEPT ![o] = "inbox"]
        /\ remaining' = [remaining EXCEPT ![o] = request[o].quantity]
        /\ inEngine[o] = "absent" BY <1>1, <1>6 DEF SendToEngine, ControlInv, StageInv, StageOf, At, Early
  <2>2. CASE p = o
    <3>1. InvolvedIn(p) = {} BY <1>1, <2>1, <2>2 DEF InvolvedIn, ControlInv, TradesInv, Handled
    <3>2. Quantity(InvolvedIn(p)) = 0 BY <3>1, SumOfNone DEF Quantity
    <3>3. request[o].quantity \in Nat BY <1>6, <1>1, AskedFor DEF SendToEngine, At, ControlInv
    <3> QED BY <1>1, <1>4, <2>1, <2>2, <3>2, <3>3 DEF TypeOK
  <2>3. CASE p # o BY <1>1, <1>3, <1>4, <2>1, <2>3 DEF TypeOK
  <2> QED BY <2>2, <2>3
<1>7. ASSUME UNCHANGED <<remaining, trades>>, inEngine[p] # "absent"
      PROVE  remaining'[p] + Quantity(InvolvedIn(p))' = request'[p].quantity BY <1>2, <1>3, <1>4, <1>7
<1>8. ASSUME NEW o \in Orders, ArrivalStep(o) \/ GateStep(o), ~SendToEngine(o)
      PROVE  UNCHANGED <<remaining, trades, inEngine>>
  BY <1>8 DEF ArrivalStep, GateStep, RejectAtGates, CheckAndReserveExposure, Arrives, Reject, PassChecks,
         ReserveUnpledgedQuantityForSell, EvaluateOrderAgainstAvailableMargin, PaperTrade,
         HandoffFails, ReceiveError, ReceiveTrades, WriteOff, engine
<1>9. ASSUME NEW o \in Orders, SettlementStep(o)  PROVE UNCHANGED <<remaining, trades, inEngine>>
  BY <1>1, <1>9, SettlementMoves DEF engine
<1>10. ASSUME NEW o \in Orders, EngineStep(o), ~EngineHandles(o)
       PROVE  UNCHANGED <<remaining, trades>> /\ inEngine[p] # "absent"
  BY <1>1, <1>10, EngineKeepsControl DEF EngineStep, EngineRejects, CancelOrder
<1>11. ASSUME NEW b \in Accounts, PledgeStep(b)  PROVE UNCHANGED <<remaining, trades, inEngine>>
  BY <1>11 DEF PledgeStep, ReadHoldingToPledge, PledgeHolding, engine
<1>12. UNCHANGED vars => UNCHANGED <<remaining, trades, inEngine>> BY DEF vars, engine
<1>13. UNCHANGED <<remaining, trades, inEngine>> =>
          remaining'[p] + Quantity(InvolvedIn(p))' = request'[p].quantity BY <1>7
<1> QED
  <2>1. CASE \E o \in Orders : EngineHandles(o) \/ SendToEngine(o) BY <1>5, <1>6, <2>1
  <2>2. CASE ~\E o \in Orders : EngineHandles(o) \/ SendToEngine(o)
    BY <1>7, <1>8, <1>9, <1>10, <1>11, <1>12, <1>13, <2>2, KindsOfSteps
  <2> QED BY <2>1, <2>2

--------------------
(* What is reserved for sale. *)

\* An account whose replies list its own trades only had none but such before.
LEMMA OwnRepliesBefore == ASSUME Core, [Next]_vars, NEW a \in Accounts, OwnReplies(a)' PROVE OwnReplies(a)
<1> SUFFICES ASSUME NEW o \in Orders, ~At(o, "unsent"), Account(o) = a, GotForeignTrade(o) PROVE FALSE
  BY DEF OwnReplies, OrdersOf
<1>1. /\ request'[o] = request[o] /\ ~At(o, "unsent")'
      /\ \A t \in DOMAIN trades : t \in DOMAIN trades' /\ trades'[t] = trades[t] BY WhatStays
<1>2. GotForeignTrade(o)' BY <1>1 DEF GotForeignTrade, TradesOf, Trade
<1>3. o \in OrdersOf(a)' BY <1>1 DEF OrdersOf, Account
<1> QED BY <1>2, <1>3 DEF OwnReplies

\* An order whose reply lists its own trades has executed no more than it asked for.
LEMMA ExecutedIsFilled ==
  ASSUME Core, FilledInv, NEW o \in Orders, ~At(o, "unsent"), ~GotForeignTrade(o)
  PROVE  /\ handler[o].executed <= request[o].quantity
         /\ handler[o].executed \in Nat /\ request[o].quantity \in Nat \ {0}
<1>1. ControlInv /\ TypeOK /\ SettleOf(o) BY DEF Core, ControlInv, SettleInv
<1>2. request[o].quantity \in Nat \ {0} /\ remaining[o] \in Nat BY <1>1, AskedFor DEF ControlInv, TypeOK
<1> DEFINE mine == TradesOf(o) \cap Applied
           all == InvolvedIn(o)
<1>3. handler[o].executed = Quantity(mine) BY <1>1 DEF SettleOf
<1>4. mine \subseteq all /\ all \in SUBSET DOMAIN trades /\ mine \in SUBSET DOMAIN trades
  BY DEF GotForeignTrade, TradesOf, InvolvedIn
<1>5. CASE inEngine[o] = "absent"
  <2>1. mine = {} BY <1>1, <1>5 DEF ControlInv, TradesInv, TradesOf, Handled
  <2>2. Quantity(mine) = 0 BY <2>1, SumOfNone DEF Quantity
  <2> HIDE DEF mine
  <2> QED BY <1>2, <1>3, <2>2
<1>6. CASE inEngine[o] # "absent"
  <2>1. remaining[o] + Quantity(all) = request[o].quantity BY <1>6 DEF FilledInv
  <2> HIDE DEF mine, all
  <2>2. Quantity(mine) <= Quantity(all) /\ Quantity(mine) \in Nat /\ Quantity(all) \in Nat
    BY <1>1, <1>4, SumsOfTrades, SumAtLeastPart DEF Quantity
  <2> QED BY <1>2, <1>3, <2>1, <2>2
<1> QED BY <1>5, <1>6

\* What each order keeps reserved is a number.
KeptIsNat == \A a \in Accounts : OwnReplies(a) => NatOn(KeptBy(a), Orders)

\* An order of such a reply keeps no less than nothing, in a state and in the next one.
LEMMA KeptIsANumber == (Core /\ FilledInv => KeptIsNat) /\ (Core /\ FilledInv => KeptIsNat)'
<1>1. Core /\ FilledInv => KeptIsNat
  <2> SUFFICES ASSUME Core, FilledInv, NEW a \in Accounts, OwnReplies(a), NEW o \in Orders
               PROVE  KeptOf(o, a) \in Nat BY DEF KeptIsNat, NatOn, KeptBy
  <2>1. CASE At(o, "unsent") \/ Account(o) # a BY <2>1 DEF KeptOf
  <2>2. CASE ~At(o, "unsent") /\ Account(o) = a BY <2>2, ExecutedIsFilled DEF OwnReplies, OrdersOf, KeptOf
  <2> QED BY <2>1, <2>2
<1>2. (Core /\ FilledInv => KeptIsNat)' BY <1>1, PTL
<1> QED BY <1>1, <1>2

\* What one order keeps reserved changes by what its handler did.
LEMMA KeptOfOne ==
  ASSUME Core, Core', FilledInv, FilledInv', [Next]_vars, NEW a \in Accounts, NEW o \in Orders,
         OwnReplies(a), OwnReplies(a)', \A p \in Orders : p # o => handler'[p] = handler[p]
  PROVE  /\ SumFunctionOnSet(KeptBy(a), Orders)' =
               SumFunctionOnSet(KeptBy(a), Orders) - KeptOf(o, a) + KeptOf(o, a)'
         /\ SumFunctionOnSet(KeptBy(a), Orders) \in Nat
         /\ KeptOf(o, a) <= SumFunctionOnSet(KeptBy(a), Orders)
         /\ KeptOf(o, a) \in Nat /\ KeptOf(o, a)' \in Nat
<1> DEFINE f == KeptBy(a)
           g == [p \in Orders |-> KeptOf(p, a)']
<1>1. NatOn(f, Orders) /\ NatOn(g, Orders) /\ IsFiniteSet(Orders)
  BY KeptIsANumber, OrdersAreFinite DEF KeptIsNat, NatOn, KeptBy
<1>2. \A p \in Orders \ {o} : g[p] = f[p]
  <2>1. ASSUME NEW p \in Orders \ {o}  PROVE KeptOf(p, a)' = KeptOf(p, a)
    BY WhatStays DEF KeptOf, Account, IsSell, At
  <2> QED BY <2>1 DEF KeptBy
<1>3. f[o] = KeptOf(o, a) /\ g[o] = KeptOf(o, a)' BY DEF KeptBy
<1>4. SumFunctionOnSet(KeptBy(a), Orders)' = SumFunctionOnSet(g, Orders) BY DEF KeptBy
<1>5. IntOn(f, Orders) /\ IntOn(g, Orders) /\ f[o] \in Nat /\ g[o] \in Nat
  <2> HIDE DEF f, g
  <2> QED BY <1>1 DEF NatOn, IntOn
<1> HIDE DEF f, g
<1>6. SumFunctionOnSet(g, Orders) = SumFunctionOnSet(f, Orders) - f[o] + g[o] BY <1>1, <1>2, <1>5, SumChanged
<1>7. f[o] <= SumFunctionOnSet(f, Orders) /\ SumFunctionOnSet(f, Orders) \in Nat BY <1>1, SumAtLeastOne
<1> QED BY <1>3, <1>4, <1>5, <1>6, <1>7 DEF f

\* The point a handler moves to.
LEMMA GatesLead ==
  ASSUME TypeOK, NEW o \in Orders, GateStep(o)
  PROVE  /\ UNCHANGED request
         /\ Reject(o) => handler'[o].at = "rejected"
         /\ PassChecks(o) => handler'[o].at = IF IsSell(o) THEN "reserving" ELSE "margin"
         /\ ReserveUnpledgedQuantityForSell(o) => handler'[o].at = "margin"
         /\ EvaluateOrderAgainstAvailableMargin(o) =>
               handler'[o].at = IF request[o].kind = "paper" THEN "paper" ELSE "sending"
         /\ PaperTrade(o) => handler'[o].at = "done"
         /\ SendToEngine(o) => handler'[o].at = "awaiting"
         /\ HandoffFails(o) \/ ReceiveError(o) => handler'[o].at = "writtenOff"
         /\ ReceiveTrades(o) => handler'[o].at = "settling"
<1>1. handler \in [Orders -> Calls] BY DEF TypeOK, Calls
<1>2. UNCHANGED request
  BY DEF GateStep, Reject, PassChecks, ReserveUnpledgedQuantityForSell,
         EvaluateOrderAgainstAvailableMargin, PaperTrade, SendToEngine, HandoffFails, ReceiveError,
         ReceiveTrades, WriteOff
<1>3. PassChecks(o) => handler'[o].at = IF IsSell(o) THEN "reserving" ELSE "margin"
  BY <1>1 DEF PassChecks, Calls
<1>4. ReceiveTrades(o) => handler'[o].at = "settling" BY <1>1 DEF ReceiveTrades, Calls
<1>5. ASSUME NEW point \in Points, Goes(o, point)  PROVE handler'[o].at = point BY <1>5, GoingOn DEF Moves
<1>6. /\ Reject(o) => handler'[o].at = "rejected"
      /\ ReserveUnpledgedQuantityForSell(o) => handler'[o].at = "margin"
      /\ PaperTrade(o) => handler'[o].at = "done"
      /\ SendToEngine(o) => handler'[o].at = "awaiting"
      /\ HandoffFails(o) \/ ReceiveError(o) => handler'[o].at = "writtenOff"
  BY <1>5, PointsOfTheCode DEF Reject, ReserveUnpledgedQuantityForSell, PaperTrade, SendToEngine,
         HandoffFails, ReceiveError, WriteOff
<1>7. EvaluateOrderAgainstAvailableMargin(o) =>
         handler'[o].at = IF request[o].kind = "paper" THEN "paper" ELSE "sending"
  BY <1>5 DEF Points, EvaluateOrderAgainstAvailableMargin
<1> QED BY <1>2, <1>3, <1>4, <1>6, <1>7

\* The point a step of the settlement leads to.
LEMMA SettlementLeads ==
  ASSUME TypeOK, NEW o \in Orders, SettlementStep(o)
  PROVE  /\ LedgerPosts(o) => handler'[o].at = "posted"
         /\ LedgerRejects(o) \/ LedgerAnswerLost(o) => handler'[o].at = "settling"
         /\ ApplySettledTrade(o) => handler'[o].at = "settling"
         /\ ReleaseReservedMargin(o) =>
               /\ handler'[o].at = IF handler[o].executed > 0 THEN "debiting" ELSE "done"
               /\ handler'[o].executed = handler[o].executed
               /\ handler'[o].executedNotional = handler[o].executedNotional
         /\ AdjustAvailableMargin(o) =>
               /\ handler'[o].at = "done" /\ handler'[o].executed = handler[o].executed
               /\ handler'[o].executedNotional = handler[o].executedNotional
<1>1. ASSUME NEW point \in Points, Goes(o, point)
      PROVE  /\ handler'[o].at = point /\ handler'[o].executed = handler[o].executed
             /\ handler'[o].executedNotional = handler[o].executedNotional BY <1>1, GoingOn DEF Moves
<1>2. /\ LedgerPosts(o) => handler'[o].at = "posted"
      /\ AdjustAvailableMargin(o) =>
            /\ handler'[o].at = "done" /\ handler'[o].executed = handler[o].executed
            /\ handler'[o].executedNotional = handler[o].executedNotional
  BY <1>1, PointsOfTheCode DEF LedgerPosts, AdjustAvailableMargin
<1>3. LedgerRejects(o) \/ LedgerAnswerLost(o) => handler'[o].at = "settling"
  BY TakingTheNext DEF LedgerRejects, LedgerAnswerLost, Moves
<1>4. ApplySettledTrade(o) => handler'[o].at = "settling" BY ApplyingTheTrade DEF Moves
<1>5. ReleaseReservedMargin(o) =>
         /\ handler'[o].at = IF handler[o].executed > 0 THEN "debiting" ELSE "done"
         /\ handler'[o].executed = handler[o].executed
         /\ handler'[o].executedNotional = handler[o].executedNotional
  BY <1>1 DEF Points, ReleaseReservedMargin
<1> QED BY <1>2, <1>3, <1>4, <1>5

\* Every step keeps what is reserved for sale, as long as the replies list their own trades.
LEMMA StepsKeepReserved ==
  ASSUME Core, Core', FilledInv, FilledInv', ReservedInv, [Next]_vars PROVE ReservedInv'
<1>1. ControlInv /\ SettleInv /\ TypeOK BY DEF Core, ControlInv
<1> SUFFICES ASSUME NEW a \in Accounts, OwnReplies(a)'
             PROVE  reservedToSell'[a] = SumFunctionOnSet(KeptBy(a), Orders)' BY DEF ReservedInv
<1>2. OwnReplies(a) /\ reservedToSell[a] = SumFunctionOnSet(KeptBy(a), Orders)
  BY OwnRepliesBefore DEF ReservedInv
<1>3. ASSUME NEW o \in Orders, \A p \in Orders : p # o => handler'[p] = handler[p],
             reservedToSell'[a] = reservedToSell[a] - KeptOf(o, a) + KeptOf(o, a)'
      PROVE  reservedToSell'[a] = SumFunctionOnSet(KeptBy(a), Orders)' BY <1>2, <1>3, KeptOfOne
<1>4. reservedToSell \in [Accounts -> Nat] /\ reservedToSell[a] \in Nat BY <1>1 DEF TypeOK
<1> DEFINE Mine(o) == Account(o) = a /\ IsSell(o)
           Keeping == {"margin", "paper", "sending", "awaiting"} \cup Settlement
<1>5. ASSUME NEW o \in Orders, \A p \in Orders : p # o => handler'[p] = handler[p], NEW q \in Nat,
             Mine(o) => q <= KeptOf(o, a), ReleaseSellReservation(o, q)
      PROVE  reservedToSell'[a] = reservedToSell[a] - IF Mine(o) THEN q ELSE 0
  <2>1. KeptOf(o, a) <= reservedToSell[a] /\ KeptOf(o, a) \in Nat BY <1>2, <1>5, KeptOfOne
  <2>2. CASE Mine(o) BY <1>4, <1>5, <2>2, <2>1 DEF ReleaseSellReservation, AtLeastZero
  <2>3. CASE ~Mine(o) BY <1>4, <1>5, <2>3 DEF ReleaseSellReservation
  <2> QED BY <2>2, <2>3
<1>6. ASSUME NEW o \in Orders, ~At(o, "unsent"), \A p \in Orders : p # o => handler'[p] = handler[p]
      PROVE  /\ request'[o] = request[o]
             /\ KeptOf(o, a) \in Nat /\ KeptOf(o, a)' \in Nat
             /\ handler[o].at \in Keeping => KeptOf(o, a) = IF Mine(o) THEN request[o].quantity ELSE 0
             /\ handler'[o].at \in Keeping => KeptOf(o, a)' = IF Mine(o) THEN request[o].quantity ELSE 0
             /\ handler[o].at \in {"checking", "reserving", "rejected", "writtenOff"} => KeptOf(o, a) = 0
             /\ handler'[o].at \in {"checking", "reserving", "rejected", "writtenOff"} => KeptOf(o, a)' = 0
             /\ handler'[o].at = "done" => KeptOf(o, a)' =
                   IF Mine(o) /\ request[o].kind # "paper"
                   THEN request[o].quantity - handler'[o].executed ELSE 0
             /\ ~Mine(o) => KeptOf(o, a) = 0 /\ KeptOf(o, a)' = 0
             /\ request[o].quantity \in Nat
  <2>1. request'[o] = request[o] /\ ~At(o, "unsent")' BY <1>6, WhatStays
  <2>2. KeptOf(o, a) \in Nat /\ KeptOf(o, a)' \in Nat BY <1>2, <1>6, KeptOfOne
  <2>3. request[o].quantity \in Nat BY <1>1, <1>6, AskedFor DEF ControlInv
  <2>4. /\ handler[o].at \in Keeping => KeptOf(o, a) = IF Mine(o) THEN request[o].quantity ELSE 0
        /\ handler[o].at \in {"checking", "reserving", "rejected", "writtenOff"} => KeptOf(o, a) = 0
        /\ ~Mine(o) => KeptOf(o, a) = 0 BY <1>6 DEF KeptOf, At, Settlement
  <2>5. /\ handler'[o].at \in Keeping => KeptOf(o, a)' = IF Mine(o) THEN request[o].quantity ELSE 0
        /\ handler'[o].at \in {"checking", "reserving", "rejected", "writtenOff"} => KeptOf(o, a)' = 0
        /\ handler'[o].at = "done" => KeptOf(o, a)' =
                   IF Mine(o) /\ request[o].kind # "paper"
                   THEN request[o].quantity - handler'[o].executed ELSE 0
        /\ ~Mine(o) => KeptOf(o, a)' = 0 BY <2>1 DEF KeptOf, At, Settlement, Account, IsSell
  <2> QED BY <2>1, <2>2, <2>3, <2>4, <2>5
<1> HIDE DEF Mine
<1>7. ASSUME NEW o \in Orders, ArrivalStep(o) PROVE reservedToSell'[a] = SumFunctionOnSet(KeptBy(a), Orders)'
  <2>1. \A p \in Orders : p # o => handler'[p] = handler[p] BY <1>1, <1>7, GatesMove
  <2>2. PICK point \in {"rejected", "checking"} : Goes(o, point) /\ UNCHANGED reservedToSell
    BY <1>7 DEF ArrivalStep, RejectAtGates, CheckAndReserveExposure, books
  <2>3. handler'[o].at \in {"rejected", "checking"} /\ At(o, "unsent")
    BY <1>1, <1>7, <2>2, GoingOn, PointsOfTheCode
       DEF Moves, ArrivalStep, RejectAtGates, CheckAndReserveExposure, Arrives
  <2>4. KeptOf(o, a) = 0 /\ KeptOf(o, a)' = 0 BY <2>3 DEF KeptOf, At, Settlement
  <2> QED BY <1>3, <1>4, <2>1, <2>2, <2>4
<1>8. ASSUME NEW o \in Orders, GateStep(o) PROVE reservedToSell'[a] = SumFunctionOnSet(KeptBy(a), Orders)'
  <2>1. \A p \in Orders : p # o => handler'[p] = handler[p] BY <1>1, <1>8, GatesMove
  <2>2. ~At(o, "unsent")
    BY <1>8 DEF GateStep, Reject, PassChecks,
         ReserveUnpledgedQuantityForSell, EvaluateOrderAgainstAvailableMargin, PaperTrade,
         SendToEngine, HandoffFails, ReceiveError, ReceiveTrades, At
  <2>3. StageOf(o) BY <1>1 DEF ControlInv, StageInv
  <2>4. CASE PassChecks(o)
    <3>1. /\ UNCHANGED reservedToSell /\ handler[o].at = "checking"
          /\ handler'[o].at = IF IsSell(o) THEN "reserving" ELSE "margin"
      BY <1>1, <1>8, <2>4, GatesLead DEF PassChecks, books, At
    <3>2. KeptOf(o, a) = 0 BY <1>6, <2>1, <2>2, <3>1
    <3>3. KeptOf(o, a)' = 0
      <4>1. CASE IsSell(o) BY <1>6, <2>1, <2>2, <3>1, <4>1
      <4>2. CASE ~IsSell(o) BY <1>6, <2>1, <2>2, <4>2 DEF Mine
      <4> QED BY <4>1, <4>2
    <3> QED BY <1>3, <1>4, <2>1, <3>1, <3>2, <3>3
  <2>5. CASE ReserveUnpledgedQuantityForSell(o)
    <3>1. /\ reservedToSell' = Add(reservedToSell, Account(o), request[o].quantity)
          /\ handler[o].at = "reserving" /\ handler'[o].at = "margin"
      BY <1>1, <1>8, <2>5, GatesLead DEF ReserveUnpledgedQuantityForSell, At
    <3>2. KeptOf(o, a) = 0 /\ KeptOf(o, a)' = IF Mine(o) THEN request[o].quantity ELSE 0
      BY <1>6, <2>1, <2>2, <3>1
    <3>3. request[o].quantity \in Nat BY <1>6, <2>1, <2>2
    <3>4. reservedToSell'[a] = reservedToSell[a] + IF Account(o) = a THEN request[o].quantity ELSE 0
      BY <1>4, <3>1, <3>3 DEF Add
    <3>5. IsSell(o) BY <2>3, <3>1 DEF StageOf, At, IsSell
    <3> QED BY <1>3, <1>4, <2>1, <3>2, <3>3, <3>4, <3>5 DEF Mine
  <2>6. CASE Reject(o)
    <3>1. /\ handler'[o].at = "rejected" /\ handler[o].at \in {"checking", "reserving", "margin"}
          /\ IF At(o, "margin") THEN ReleaseSellReservation(o, request[o].quantity)
                                ELSE UNCHANGED reservedToSell BY <1>1, <1>8, <2>6, GatesLead DEF Reject, At
    <3>2. KeptOf(o, a)' = 0 /\ request[o].quantity \in Nat BY <1>6, <2>1, <2>2, <3>1
    <3>3. CASE At(o, "margin") BY <1>6, <2>1, <2>2, <3>3, <1>5, <3>1, <3>2, <1>3, <1>4 DEF At
    <3>4. CASE ~At(o, "margin") BY <1>6, <2>1, <2>2, <3>1, <3>4, <1>3, <1>4, <3>2 DEF At
    <3> QED BY <3>3, <3>4
  <2>7. CASE EvaluateOrderAgainstAvailableMargin(o) \/ SendToEngine(o) \/ ReceiveTrades(o)
    BY <1>1, <1>8, <2>7, GatesLead, <1>6, <2>1, <2>2, <1>3, <1>4 DEF
       EvaluateOrderAgainstAvailableMargin, SendToEngine, ReceiveTrades, books, At, Settlement
  <2>8. CASE PaperTrade(o) \/ HandoffFails(o) \/ ReceiveError(o)
    <3>1. /\ ReleaseSellReservation(o, request[o].quantity) /\ handler[o].at \in Keeping
          /\ handler'[o].at = "writtenOff" \/ (handler'[o].at = "done" /\ request[o].kind = "paper")
      BY <2>3, <1>1, <1>8, <2>8, GatesLead DEF PaperTrade, StageOf, HandoffFails, ReceiveError,
         WriteOff, At
    <3>2. /\ KeptOf(o, a)' = 0 /\ request[o].quantity \in Nat
          /\ KeptOf(o, a) = IF Mine(o) THEN request[o].quantity ELSE 0 BY <1>6, <2>1, <2>2, <3>1
    <3>3. reservedToSell'[a] = reservedToSell[a] - IF Mine(o) THEN request[o].quantity ELSE 0
      BY <1>5, <2>1, <3>1, <3>2
    <3> QED BY <1>3, <1>4, <2>1, <3>2, <3>3
  <2> QED BY <1>8, <2>4, <2>5, <2>6, <2>7, <2>8 DEF GateStep
<1>9. ASSUME NEW o \in Orders, SettlementStep(o)
      PROVE  reservedToSell'[a] = SumFunctionOnSet(KeptBy(a), Orders)'
  <2>1. /\ \A p \in Orders : p # o => handler'[p] = handler[p]
        /\ ~At(o, "unsent") /\ handler[o].at \in Keeping /\ request[o].kind # "paper"
    BY <1>1, <1>9, SettlementMoves DEF Moves
  <2>2. /\ KeptOf(o, a) = IF Mine(o) THEN request[o].quantity ELSE 0
        /\ request[o].quantity \in Nat /\ KeptOf(o, a)' \in Nat
        /\ handler'[o].at \in Keeping => KeptOf(o, a)' = IF Mine(o) THEN request[o].quantity ELSE 0
        /\ handler'[o].at = "done" =>
              KeptOf(o, a)' = IF Mine(o) THEN request[o].quantity - handler'[o].executed ELSE 0 BY <1>6, <2>1
  <2>3. CASE LedgerPosts(o) \/ LedgerRejects(o) \/ LedgerAnswerLost(o) \/ ApplySettledTrade(o)
    <3>1. UNCHANGED reservedToSell /\ handler'[o].at \in Keeping
      BY <1>1, <1>9, <2>3, SettlementLeads
         DEF LedgerPosts, LedgerRejects, LedgerAnswerLost, ApplySettledTrade, books, Settlement
    <3> QED BY <1>3, <1>4, <2>1, <2>2, <3>1
  <2>4. CASE ReleaseReservedMargin(o)
    <3>1. /\ UNCHANGED reservedToSell /\ handler'[o].executed = handler[o].executed
          /\ handler'[o].at = IF handler[o].executed > 0 THEN "debiting" ELSE "done"
      BY <1>1, <1>9, <2>4, SettlementLeads DEF ReleaseReservedMargin
    <3>2. handler[o].executed \in Nat BY <1>1 DEF TypeOK
    <3>3. CASE handler[o].executed > 0 BY <1>3, <1>4, <2>1, <2>2, <3>1, <3>3 DEF Settlement
    <3>4. CASE handler[o].executed = 0 BY <1>3, <1>4, <2>1, <2>2, <3>1, <3>4
    <3> QED BY <3>2, <3>3, <3>4
  <2>5. CASE AdjustAvailableMargin(o)
    <3>1. /\ handler'[o].at = "done" /\ handler'[o].executed = handler[o].executed
          /\ ReleaseSellReservation(o, handler[o].executed)
      BY <1>1, <1>9, <2>5, SettlementLeads DEF AdjustAvailableMargin
    <3>2. handler[o].executed \in Nat BY <1>1 DEF TypeOK
    <3>3. Mine(o) => handler[o].executed <= request[o].quantity
      BY <1>2, <2>1, ExecutedIsFilled DEF Mine, OwnReplies, OrdersOf
    <3>4. reservedToSell'[a] = reservedToSell[a] - IF Mine(o) THEN handler[o].executed ELSE 0
      BY <1>5, <2>1, <2>2, <3>1, <3>2, <3>3
    <3> QED BY <1>3, <1>4, <2>1, <2>2, <3>1, <3>2, <3>4
  <2> QED BY <1>9, <2>3, <2>4, <2>5 DEF SettlementStep
<1>10. ASSUME UNCHANGED <<request, handler, reservedToSell>>
       PROVE  reservedToSell'[a] = SumFunctionOnSet(KeptBy(a), Orders)'
  BY <1>2, <1>10 DEF KeptBy, KeptOf, Account, IsSell, At
<1>11. ASSUME NEW o \in Orders, EngineStep(o)  PROVE UNCHANGED <<request, handler, reservedToSell>>
  BY <1>1, <1>11, EngineKeepsControl DEF EngineStep, books
<1>12. ASSUME NEW b \in Accounts, PledgeStep(b)  PROVE UNCHANGED <<request, handler, reservedToSell>>
  BY <1>12 DEF PledgeStep, ReadHoldingToPledge, PledgeHolding, books
<1>13. UNCHANGED vars => UNCHANGED <<request, handler, reservedToSell>> BY DEF vars, books
<1> QED BY <1>7, <1>8, <1>9, <1>10, <1>11, <1>12, <1>13, KindsOfSteps

--------------------
(* The margin. *)

\* What the cache keeps track of it kept track of before.
LEMMA TrackedBefore ==
  ASSUME Core, [Next]_vars, NEW a \in Accounts, ~Untracked(a)'
  PROVE  ~Untracked(a) /\ OwnReplies(a) /\ OwnReplies(a)'
<1>1. ControlInv /\ SettleInv /\ TypeOK BY DEF Core, ControlInv
<1>2. OwnReplies(a)' /\ OwnReplies(a) BY OwnRepliesBefore DEF Untracked, OwnReplies
<1>3. posted \subseteq posted' /\ lost \subseteq lost'
  <2>1. ASSUME NEW o \in Orders, ArrivalStep(o) \/ GateStep(o)  PROVE UNCHANGED <<posted, lost>>
    BY <1>1, <2>1, GatesMove
  <2>2. ASSUME NEW o \in Orders, SettlementStep(o)  PROVE posted \subseteq posted' /\ lost \subseteq lost'
    BY <2>2 DEF SettlementStep, LedgerPosts, LedgerRejects, LedgerAnswerLost, ApplySettledTrade,
         ReleaseReservedMargin, AdjustAvailableMargin, ledger
  <2>3. ASSUME NEW o \in Orders, EngineStep(o)  PROVE UNCHANGED <<posted, lost>>
    BY <1>1, <2>3, EngineKeepsControl DEF EngineStep, ledger
  <2>4. ASSUME NEW b \in Accounts, PledgeStep(b)  PROVE UNCHANGED <<posted, lost>>
    BY <2>4 DEF PledgeStep, ReadHoldingToPledge, PledgeHolding, ledger
  <2>5. UNCHANGED vars => UNCHANGED <<posted, lost>> BY DEF vars, ledger
  <2> QED BY <2>1, <2>2, <2>3, <2>4, <2>5, KindsOfSteps
<1>4. \A t \in posted : t \in DOMAIN trades BY <1>1 DEF TypeOK
<1>5. \A t \in DOMAIN trades : Buyer(t)' = Buyer(t) /\ Seller(t)' = Seller(t) BY WhatStays
<1>6. ~\E t \in posted : Buyer(t) = a /\ Seller(t) = a BY <1>3, <1>4, <1>5 DEF Untracked
<1>7. ~\E t \in lost : a \in {Buyer(t), Seller(t)} BY <1>1, <1>3, <1>4, <1>5 DEF TypeOK, Untracked
<1> QED BY <1>2, <1>6, <1>7 DEF Untracked, OwnReplies

\* What each order holds of a margin is a number.
HeldIsInt == \A a \in Accounts : IntOn(HeldBy(a), Orders)

\* So it is of every state the core invariant holds in, and of the one a step reaches.
LEMMA HeldIsANumber == (Core => HeldIsInt) /\ (Core => HeldIsInt)'
<1>1. Core => HeldIsInt
  <2> SUFFICES ASSUME Core, NEW a \in Accounts, NEW o \in Orders PROVE HeldOf(o, a) \in Int
    BY DEF HeldIsInt, IntOn, HeldBy
  <2>1. CASE At(o, "unsent") BY <2>1 DEF HeldOf
  <2>2. CASE ~At(o, "unsent")
    <3>1. /\ Notional(o) \in Nat /\ request[o].limit \in Nat /\ request[o].quantity \in Nat
          /\ handler[o].executed \in Nat BY <2>2, AskedFor DEF Core, ControlInv, TypeOK
    <3>2. \A l, q, e \in Nat : l * (q - e) \in Int OBVIOUS
    <3>3. request[o].limit * (request[o].quantity - handler[o].executed) \in Int BY <3>1, <3>2
    <3> QED BY <3>1, <3>3 DEF HeldOf
  <2> QED BY <2>1, <2>2
<1>2. (Core => HeldIsInt)' BY <1>1, PTL
<1> QED BY <1>1, <1>2

\* What one order holds changes by what its handler did.
LEMMA HeldOfOne ==
  ASSUME Core, Core', [Next]_vars, NEW a \in Accounts, NEW o \in Orders,
         \A p \in Orders : p # o => handler'[p] = handler[p]
  PROVE  /\ SumFunctionOnSet(HeldBy(a), Orders)' =
               SumFunctionOnSet(HeldBy(a), Orders) - HeldOf(o, a) + HeldOf(o, a)'
         /\ SumFunctionOnSet(HeldBy(a), Orders) \in Int
         /\ HeldOf(o, a) \in Int /\ HeldOf(o, a)' \in Int
<1> DEFINE f == HeldBy(a)
           g == [p \in Orders |-> HeldOf(p, a)']
<1>1. IntOn(f, Orders) /\ IntOn(g, Orders) /\ IsFiniteSet(Orders)
  BY HeldIsANumber, OrdersAreFinite DEF HeldIsInt, IntOn, HeldBy
<1>2. \A p \in Orders \ {o} : g[p] = f[p]
  <2>1. ASSUME NEW p \in Orders \ {o}  PROVE HeldOf(p, a)' = HeldOf(p, a)
    BY WhatStays DEF HeldOf, Account, Notional, At
  <2> QED BY <2>1 DEF HeldBy
<1>3. f[o] = HeldOf(o, a) /\ g[o] = HeldOf(o, a)' BY DEF HeldBy
<1>4. SumFunctionOnSet(HeldBy(a), Orders)' = SumFunctionOnSet(g, Orders) BY DEF HeldBy
<1>5. f[o] \in Int /\ g[o] \in Int
  <2> HIDE DEF f, g
  <2> QED BY <1>1 DEF IntOn
<1> HIDE DEF f, g
<1>6. /\ SumFunctionOnSet(g, Orders) = SumFunctionOnSet(f, Orders) - f[o] + g[o]
      /\ SumFunctionOnSet(f, Orders) \in Int BY <1>1, <1>2, SumChanged
<1> QED BY <1>3, <1>4, <1>5, <1>6 DEF f

\* The cash that trades bring stays what it is.
LEMMA CashStays ==
  ASSUME Core, [Next]_vars, NEW a \in Accounts, NEW T \in SUBSET DOMAIN trades
  PROVE  /\ Reckoned(a)' = T => Cash(a, Reckoned(a))' = Cash(a, T)
         /\ Cash(a, T) \in Int /\ Worth(SoldBy(a, T)) \in Nat /\ Worth(BoughtBy(a, T)) \in Nat
<1> DEFINE bought == BoughtBy(a, T)
           sold == SoldBy(a, T)
<1>1. bought \in SUBSET DOMAIN trades /\ sold \in SUBSET DOMAIN trades BY DEF BoughtBy, SoldBy
<1>2. /\ \A t \in DOMAIN trades : Buyer(t)' = Buyer(t) /\ Seller(t)' = Seller(t)
      /\ \A W \in SUBSET DOMAIN trades : SumFunctionOnSet(Values', W) = Worth(W) BY WhatStays
<1>3. ASSUME Reckoned(a)' = T  PROVE Cash(a, Reckoned(a))' = Cash(a, T)
  <2>1. BoughtBy(a, Reckoned(a))' = bought /\ SoldBy(a, Reckoned(a))' = sold
    BY <1>2, <1>3 DEF BoughtBy, SoldBy
  <2>2. /\ Worth(BoughtBy(a, Reckoned(a)))' = SumFunctionOnSet(Values', bought)
        /\ Worth(SoldBy(a, Reckoned(a)))' = SumFunctionOnSet(Values', sold)
    <3> HIDE DEF bought, sold
    <3> QED BY <2>1 DEF Worth
  <2>3. Cash(a, Reckoned(a))' = Worth(SoldBy(a, Reckoned(a)))' - Worth(BoughtBy(a, Reckoned(a)))' BY DEF Cash
  <2>4. Cash(a, T) = Worth(sold) - Worth(bought) BY DEF Cash
  <2> HIDE DEF bought, sold
  <2> QED BY <1>1, <1>2, <2>2, <2>3, <2>4
<1>4. Worth(bought) \in Nat /\ Worth(sold) \in Nat
  <2> HIDE DEF bought, sold
  <2> QED BY <1>1, SumsOfTrades DEF Core, ControlInv
<1> QED BY <1>3, <1>4 DEF Cash

\* The trades reckoned with change when one is posted, applied, or its caller is done.
LEMMA ReckonedAlike ==
  ASSUME Core, [Next]_vars, NEW a \in Accounts, UNCHANGED posted, Applied' = Applied,
         \A t \in posted : Account(Trade(t).caller) = a =>
                              (At(Trade(t).caller, "done")' <=> At(Trade(t).caller, "done"))
  PROVE  Reckoned(a)' = Reckoned(a)
<1>1. posted \subseteq DOMAIN trades BY DEF Core, ControlInv, TypeOK
<1>2. \A t \in posted : /\ trades'[t] = trades[t]
                        /\ Account(Trade(t).caller)' = Account(Trade(t).caller) BY <1>1, WhatStays
<1>3. \A t \in posted : At(Trade(t).caller, "done")' <=> handler'[Trade(t).caller].at = "done"
  BY <1>2 DEF At, Trade
<1>4. Reckoned(a)' = {t \in posted' : IF Account(Trade(t).caller)' = a THEN At(Trade(t).caller, "done")'
                                                                   ELSE t \in Applied'} BY DEF Reckoned
<1> QED BY <1>2, <1>4 DEF Reckoned

\* A quantity times a limit, a part of it at a time.
LEMMA PartsOfANotional ==
  ASSUME NEW l \in Nat, NEW q \in Nat \ {0}, NEW e \in Nat
  PROVE  ((l * q) * e) \div q = l * e /\ l * (q - e) = l * q - l * e /\ l * q \in Nat /\ l * e \in Nat
<1>1. l * q \in Nat /\ l * e \in Nat OBVIOUS
<1>2. (l * q) * e = q * (l * e) OBVIOUS
<1>3. \A m \in Nat : (q * m) \div q = m OBVIOUS
<1>4. l * (q - e) = l * q - l * e OBVIOUS
<1> QED BY <1>1, <1>2, <1>3, <1>4

\* So they do not when the handler that moves has nothing posted, is another's, or is not done.
LEMMA ReckonedWithOneMove ==
  ASSUME Core, [Next]_vars, NEW a \in Accounts, NEW o \in Orders,
         \A p \in Orders : p # o => handler'[p] = handler[p],
         UNCHANGED posted, Applied' = Applied,
         \/ TradesOf(o) \cap posted = {}
         \/ Account(o) # a
         \/ handler[o].at # "done" /\ handler'[o].at # "done"
  PROVE  Reckoned(a)' = Reckoned(a)
<1>1. posted \subseteq DOMAIN trades /\ TypeOK BY DEF Core, ControlInv, TypeOK
<1>2. ASSUME NEW t \in posted, Account(Trade(t).caller) = a
      PROVE  At(Trade(t).caller, "done")' <=> At(Trade(t).caller, "done")
  <2>1. Trade(t).caller \in Orders /\ trades'[t] = trades[t] /\ t \in DOMAIN trades
    BY <1>1, TradesAreTyped, WhatStays
  <2>2. PICK c \in Orders : c = trades[t].caller BY <2>1 DEF Trade
  <2>3. At(Trade(t).caller, "done")' <=> handler'[c].at = "done" BY <2>1, <2>2 DEF At, Trade
  <2>4. At(Trade(t).caller, "done") <=> handler[c].at = "done" BY <2>2 DEF At, Trade
  <2>5. CASE c # o BY <2>2, <2>3, <2>4, <2>5
  <2>6. CASE c = o BY <1>2, <2>1, <2>2, <2>6, <2>3, <2>4 DEF TradesOf, Trade
  <2> QED BY <2>5, <2>6
<1> QED BY <1>2, ReckonedAlike

\* The trades of an order whose account the cache keeps track of: once its reply is settled, all
\* that were posted are applied, and they sell for a sell and buy for a buy.
LEMMA SettledTrades ==
  ASSUME Core, NEW o \in Orders, ~At(o, "unsent"), ~Untracked(Account(o))
  PROVE  /\ \A t \in TradesOf(o) \cap posted :
               IF IsSell(o) THEN Seller(t) = Account(o) /\ Buyer(t) # Account(o)
                            ELSE Buyer(t) = Account(o) /\ Seller(t) # Account(o)
         /\ handler[o].at # "posted" => TradesOf(o) \cap posted = TradesOf(o) \cap Applied
<1>1. ControlInv /\ SettleInv /\ TypeOK BY DEF Core, ControlInv
<1>2. ASSUME NEW t \in TradesOf(o) \cap posted
      PROVE  /\ IF IsSell(o) THEN Seller(t) = Account(o) /\ Buyer(t) # Account(o)
                              ELSE Buyer(t) = Account(o) /\ Seller(t) # Account(o)
             /\ t \notin lost
  <2>1. t \in DOMAIN trades /\ t \in posted BY DEF TradesOf
  <2>2. o \in {Trade(t).buy, Trade(t).sell} BY DEF Untracked, OrdersOf, GotForeignTrade
  <2>3. ~IsSell(Trade(t).buy) /\ IsSell(Trade(t).sell) BY <1>1, <2>1 DEF ControlInv, TradesInv
  <2>4. Account(o) \in {Buyer(t), Seller(t)} BY <2>2 DEF Buyer, Seller
  <2>5. ~(Buyer(t) = Account(o) /\ Seller(t) = Account(o)) /\ t \notin lost BY <2>1, <2>4 DEF Untracked
  <2>6. CASE o = Trade(t).sell BY <2>3, <2>5, <2>6 DEF Seller
  <2>7. CASE o = Trade(t).buy BY <2>3, <2>5, <2>7 DEF Buyer
  <2> QED BY <2>2, <2>5, <2>6, <2>7
<1>3. ASSUME handler[o].at # "posted"  PROVE TradesOf(o) \cap InFlight = {}
  <2>1. SUFFICES ASSUME NEW p \in Orders, At(p, "posted"), Settled(p) \in TradesOf(o) PROVE FALSE
    BY DEF InFlight
  <2>2. Settled(p) \in TradesOf(p) BY <1>1, <2>1, InHand
  <2>3. p = o BY <2>1, <2>2 DEF TradesOf
  <2> QED BY <1>3, <2>1, <2>3 DEF At
<1>4. handler[o].at # "posted" => TradesOf(o) \cap posted = TradesOf(o) \cap Applied BY <1>2, <1>3 DEF Applied
<1> QED BY <1>2, <1>4

\* A handler with nothing executed has no trade applied.
LEMMA NothingExecuted ==
  ASSUME Core, NEW o \in Orders, handler[o].executed = 0 PROVE TradesOf(o) \cap Applied = {}
<1>1. ControlInv /\ TypeOK /\ SettleOf(o) BY DEF Core, ControlInv, SettleInv
<1> DEFINE mine == TradesOf(o) \cap Applied
<1>2. Quantity(mine) = 0 BY <1>1 DEF SettleOf
<1>3. mine \in SUBSET DOMAIN trades BY DEF TradesOf
<1>4. ASSUME NEW t \in mine  PROVE FALSE
  <2>1. t \in DOMAIN trades /\ Trade(t).quantity > 0 /\ Trade(t).quantity \in Nat
    BY <1>1, <1>3, TradesAreTyped DEF ControlInv, TradesInv
  <2>2. Quantities[t] = Trade(t).quantity BY <2>1 DEF Quantities
  <2> HIDE DEF mine
  <2>3. IsFiniteSet(mine) /\ NatOn(Quantities, mine) BY <1>1, <1>3, SumsOfTrades
  <2>4. Quantities[t] <= SumFunctionOnSet(Quantities, mine) BY <1>4, <2>3, SumAtLeastOne
  <2> QED BY <1>2, <2>1, <2>2, <2>4 DEF Quantity
<1> QED BY <1>4

\* Whether a trade is reckoned with, by the point its caller has reached.
LEMMA ReckonedWith ==
  ASSUME Core, [Next]_vars, NEW a \in Accounts, NEW t \in DOMAIN trades
  PROVE  \E c \in Orders :
            /\ c = Trade(t).caller /\ t \in TradesOf(c)
            /\ \A o \in Orders : t \in TradesOf(o) => o = c
            /\ t \in posted' => (t \in Reckoned(a)' <=>
                  IF Account(c) = a THEN handler'[c].at = "done" ELSE t \in Applied')
            /\ t \in posted => (t \in Reckoned(a) <=>
                  IF Account(c) = a THEN handler[c].at = "done" ELSE t \in Applied)
<1>1. Trade(t).caller \in Orders /\ trades'[t] = trades[t] BY TradesAreTyped, WhatStays DEF Core, ControlInv
<1>2. PICK c \in Orders : c = trades[t].caller BY <1>1 DEF Trade
<1>3. Account(Trade(t).caller)' = Account(c) BY <1>2, WhatStays DEF Trade
<1>4. At(Trade(t).caller, "done")' <=> handler'[c].at = "done" BY <1>1, <1>2 DEF At, Trade
<1>5. t \in posted' => (t \in Reckoned(a)' <=>
         IF Account(c) = a THEN handler'[c].at = "done" ELSE t \in Applied') BY <1>3, <1>4 DEF Reckoned
<1>6. t \in posted => (t \in Reckoned(a) <=>
         IF Account(c) = a THEN handler[c].at = "done" ELSE t \in Applied) BY <1>2 DEF Reckoned, At, Trade
<1>7. t \in TradesOf(c) /\ \A o \in Orders : t \in TradesOf(o) => o = c BY <1>2 DEF TradesOf, Trade
<1> QED BY <1>2, <1>5, <1>6, <1>7 DEF Trade

\* Nothing is reckoned with that the ledger did not journal.
LEMMA ReckonedArePosted ==
  ASSUME Core, Core', UNCHANGED trades, NEW a \in Accounts
  PROVE  /\ Reckoned(a) \subseteq posted /\ Reckoned(a)' \subseteq posted'
         /\ posted \subseteq DOMAIN trades /\ posted' \subseteq DOMAIN trades
         /\ Reckoned(a) \in SUBSET DOMAIN trades /\ Reckoned(a)' \in SUBSET DOMAIN trades
<1>1. posted \subseteq DOMAIN trades BY DEF Core, ControlInv, TypeOK
<1>2. posted' \subseteq DOMAIN trades BY DEF Core, ControlInv, TypeOK
<1>3. Reckoned(a) \subseteq posted BY DEF Reckoned
<1>4. Reckoned(a)' \subseteq posted' BY DEF Reckoned
<1> QED BY <1>1, <1>2, <1>3, <1>4

\* When one handler moves, the margin of an account is kept if it follows the trades that come to
\* be reckoned with and what the order comes to hold.
LEMMA MarginFollows ==
  ASSUME Core, Core', MarginInv, [Next]_vars, NEW a \in Accounts, ~Untracked(a)',
         NEW o \in Orders, \A p \in Orders : p # o => handler'[p] = handler[p],
         UNCHANGED pledged, NEW T \in SUBSET DOMAIN trades, Reckoned(a)' = T,
         availableMargin'[a] = availableMargin[a]
              + (Cash(a, T) - Cash(a, Reckoned(a))) - (HeldOf(o, a)' - HeldOf(o, a))
  PROVE  MarginKept(a)'
<1>1. TypeOK /\ SeedMargin[a] \in Int /\ pledged[a] \in Int
  <2>1. TypeOK BY DEF Core, ControlInv
  <2>2. pledged \in [Accounts -> Nat] /\ SeedMargin \in [Accounts -> Nat] BY <2>1, SeedAssumption DEF TypeOK
  <2> QED BY <2>1, <2>2
<1>2. Reckoned(a) \in SUBSET DOMAIN trades BY <1>1 DEF Reckoned, TypeOK
<1>3. PICK R \in SUBSET DOMAIN trades : R = Reckoned(a) BY <1>2
<1>4. Cash(a, R) \in Int /\ Cash(a, T) \in Int /\ Cash(a, Reckoned(a))' = Cash(a, T) BY CashStays
<1>5. MarginKept(a) BY TrackedBefore DEF MarginInv
<1>6. /\ SumFunctionOnSet(HeldBy(a), Orders)' =
            SumFunctionOnSet(HeldBy(a), Orders) - HeldOf(o, a) + HeldOf(o, a)'
      /\ SumFunctionOnSet(HeldBy(a), Orders) \in Int
      /\ HeldOf(o, a) \in Int /\ HeldOf(o, a)' \in Int BY HeldOfOne
<1>7. availableMargin[a] = SeedMargin[a] + pledged[a] + Cash(a, R) - SumFunctionOnSet(HeldBy(a), Orders)
  BY <1>3, <1>5 DEF MarginKept
<1>8. MarginKept(a)' <=>
         availableMargin'[a] = SeedMargin[a] + pledged[a] + Cash(a, T) - SumFunctionOnSet(HeldBy(a), Orders)'
  BY <1>4 DEF MarginKept
<1>9. availableMargin'[a] = availableMargin[a] + (Cash(a, T) - Cash(a, R)) - (HeldOf(o, a)' - HeldOf(o, a))
  BY <1>3
<1> QED BY <1>1, <1>4, <1>6, <1>7, <1>8, <1>9

\* What an order holds of the margin of an account, by the point its handler has reached.
LEMMA HeldAtAPoint ==
  ASSUME Core, [Next]_vars, NEW a \in Accounts, NEW o \in Orders, ~At(o, "unsent")
  PROVE  /\ Notional(o) \in Nat /\ request'[o] = request[o]
         /\ Account(o) # a => HeldOf(o, a) = 0 /\ HeldOf(o, a)' = 0
         /\ handler[o].at \in {"checking", "reserving", "margin"} => HeldOf(o, a) = 0
         /\ handler'[o].at \in {"reserving", "margin", "rejected", "writtenOff"} => HeldOf(o, a)' = 0
         /\ handler'[o].at = "done" /\ request[o].kind = "paper" => HeldOf(o, a)' = 0
         /\ Account(o) = a =>
               /\ handler[o].at \in {"paper", "sending", "awaiting", "settling", "posted"} =>
                     HeldOf(o, a) = Notional(o)
               /\ handler'[o].at \in {"paper", "sending", "awaiting", "settling", "posted"} =>
                     HeldOf(o, a)' = Notional(o)
               /\ handler[o].at = "debiting" => HeldOf(o, a) =
                     request[o].limit * (request[o].quantity - handler[o].executed)
               /\ handler'[o].at = "debiting" \/ (handler'[o].at = "done" /\ request[o].kind # "paper")
                     => HeldOf(o, a)' = request[o].limit * (request[o].quantity - handler'[o].executed)
<1>1. request'[o] = request[o] /\ ~At(o, "unsent")' /\ Notional(o) \in Nat
  BY WhatStays, AskedFor DEF Core, ControlInv
<1>2. Account(o)' = Account(o) /\ Notional(o)' = Notional(o) BY <1>1 DEF Account, Notional
<1>3. HeldOf(o, a) =
         IF Account(o) # a THEN 0
         ELSE IF handler[o].at \in {"paper", "sending", "awaiting", "settling", "posted"}
              THEN Notional(o)
         ELSE IF handler[o].at = "debiting" \/ (handler[o].at = "done" /\ request[o].kind # "paper")
              THEN request[o].limit * (request[o].quantity - handler[o].executed)
         ELSE 0 BY DEF HeldOf, At
<1>4. HeldOf(o, a)' =
         IF Account(o) # a THEN 0
         ELSE IF handler'[o].at \in {"paper", "sending", "awaiting", "settling", "posted"}
              THEN Notional(o)
         ELSE IF handler'[o].at = "debiting" \/ (handler'[o].at = "done" /\ request[o].kind # "paper")
              THEN request[o].limit * (request[o].quantity - handler'[o].executed)
         ELSE 0 BY <1>1, <1>2 DEF HeldOf, At
<1> QED BY <1>1, <1>3, <1>4

\* A step before the settlement leaves the trades reckoned with alone.
LEMMA GatesReckonAlike ==
  ASSUME Core, [Next]_vars, NEW a \in Accounts, NEW o \in Orders, ArrivalStep(o) \/ GateStep(o)
  PROVE  /\ Reckoned(a)' = Reckoned(a) /\ UNCHANGED <<pledged, trades>>
         /\ \A p \in Orders : p # o => handler'[p] = handler[p]
         /\ Reckoned(a) \in SUBSET DOMAIN trades
<1>1. ControlInv /\ SettleInv /\ TypeOK /\ SettleOf(o) BY DEF Core, ControlInv, SettleInv
<1>2. /\ \A p \in Orders : p # o => handler'[p] = handler[p]
      /\ UNCHANGED <<trades, posted, lost, pledged>>
      /\ handler[o].at \notin Settlement \cup {"done"} /\ handler'[o].at # "posted"
      /\ handler'[o].executed = handler[o].executed
      /\ handler'[o].executedNotional = handler[o].executedNotional
      /\ \/ handler'[o].toSettle = {}
         \/ handler'[o].at = "settling" /\ handler'[o].toSettle = TradesOf(o) BY <1>1, GatesMove
<1>3. Applied' = Applied BY <1>1, <1>2, SettlementLeftAlone
<1>4. TradesOf(o) \cap posted = {} BY <1>1, <1>2 DEF SettleOf
<1>5. Reckoned(a) \in SUBSET DOMAIN trades BY <1>1 DEF Reckoned, TypeOK
<1> QED BY <1>2, <1>3, <1>4, <1>5, ReckonedWithOneMove

\* What one step does to the margin of one account.
LEMMA MarginOfOne ==
  ASSUME TypeOK, NEW a \in Accounts, NEW b, NEW n \in Int
  PROVE  /\ availableMargin[a] \in Int
         /\ Add(availableMargin, b, n)[a] = availableMargin[a] + IF b = a THEN n ELSE 0 BY DEF TypeOK, Add

\* A gate takes from the margin what it reserves, and gives back what it held.
LEMMA GatesKeepMargin ==
  ASSUME Core, Core', MarginInv, [Next]_vars, NEW a \in Accounts, ~Untracked(a)',
         NEW o \in Orders, ArrivalStep(o) \/ GateStep(o)
  PROVE  MarginKept(a)'
<1>1. ControlInv /\ SettleInv /\ TypeOK /\ StageOf(o) /\ availableMargin[a] \in Int
  BY MarginOfOne DEF Core, ControlInv, StageInv
<1>2. /\ Reckoned(a)' = Reckoned(a) /\ UNCHANGED <<pledged, trades>>
      /\ \A p \in Orders : p # o => handler'[p] = handler[p]
      /\ Reckoned(a) \in SUBSET DOMAIN trades BY GatesReckonAlike
<1>3. PICK R \in SUBSET DOMAIN trades : R = Reckoned(a) /\ Reckoned(a)' = R BY <1>2
<1>4. Cash(a, R) \in Int /\ Cash(a, R) - Cash(a, R) = 0 BY CashStays
<1>5. ASSUME NEW n \in Int, HeldOf(o, a)' - HeldOf(o, a) = n,
             availableMargin'[a] = availableMargin[a] - n
      PROVE  MarginKept(a)' BY <1>1, <1>3, <1>4, <1>5, <1>2, MarginFollows
<1>6. CASE ArrivalStep(o)
  BY <1>6, <1>1, GoingOn, PointsOfTheCode, <1>5 DEF ArrivalStep, RejectAtGates,
     CheckAndReserveExposure, Arrives, books, Moves, HeldOf, At
<1>7. ASSUME GateStep(o)  PROVE MarginKept(a)'
  <2>1. ~At(o, "unsent")
    BY <1>7 DEF GateStep, Reject, PassChecks,
         ReserveUnpledgedQuantityForSell, EvaluateOrderAgainstAvailableMargin, PaperTrade,
         SendToEngine, HandoffFails, ReceiveError, ReceiveTrades, At
  <2>2. Notional(o) \in Nat BY <2>1, HeldAtAPoint
  <2>3. CASE Reject(o) \/ PassChecks(o) \/ ReserveUnpledgedQuantityForSell(o)
    BY <1>1, <1>7, <2>3, GatesLead, <2>1, HeldAtAPoint, <1>5 DEF Reject, PassChecks,
       ReserveUnpledgedQuantityForSell, books, At
  <2>4. CASE EvaluateOrderAgainstAvailableMargin(o)
    <3>1. /\ availableMargin' = Add(availableMargin, Account(o), -Notional(o))
          /\ handler[o].at = "margin" /\ handler'[o].at \in {"paper", "sending"}
      BY <1>1, <1>7, <2>4, GatesLead DEF EvaluateOrderAgainstAvailableMargin, At
    <3>2. HeldOf(o, a) = 0 /\ HeldOf(o, a)' = IF Account(o) = a THEN Notional(o) ELSE 0
      BY <2>1, <3>1, HeldAtAPoint
    <3>3. availableMargin'[a] = availableMargin[a] - IF Account(o) = a THEN Notional(o) ELSE 0
      <4>1. PICK n \in Int : n = -Notional(o) /\ Notional(o) = -n BY <2>2
      <4> QED BY <1>1, <3>1, <4>1, MarginOfOne
    <3> QED BY <1>5, <2>2, <3>2, <3>3
  <2>5. CASE SendToEngine(o) \/ ReceiveTrades(o)
    BY <1>1, <1>7, <2>5, GatesLead, <2>1, <2>2, HeldAtAPoint, <1>5 DEF SendToEngine,
       ReceiveTrades, books, At
  <2>6. CASE PaperTrade(o) \/ HandoffFails(o) \/ ReceiveError(o)
    <3>1. /\ availableMargin' = Add(availableMargin, Account(o), Notional(o))
          /\ handler[o].at \in {"paper", "sending", "awaiting"}
          /\ handler'[o].at = "writtenOff" \/ (handler'[o].at = "done" /\ request[o].kind = "paper")
      BY <1>1, <1>7, <2>6, GatesLead DEF PaperTrade, StageOf, HandoffFails, ReceiveError,
         WriteOff, At
    <3>2. HeldOf(o, a)' = 0 /\ HeldOf(o, a) = IF Account(o) = a THEN Notional(o) ELSE 0
      BY <2>1, <3>1, HeldAtAPoint
    <3>3. availableMargin'[a] = availableMargin[a] + IF Account(o) = a THEN Notional(o) ELSE 0
      BY <1>1, <2>2, <3>1, MarginOfOne
    <3>4. PICK n \in Int : n = -(IF Account(o) = a THEN Notional(o) ELSE 0) BY <2>2
    <3>5. HeldOf(o, a)' - HeldOf(o, a) = n /\ availableMargin'[a] = availableMargin[a] - n
      BY <1>1, <2>2, <3>2, <3>3, <3>4
    <3> QED BY <1>5, <3>5
  <2> QED BY <1>7, <2>3, <2>4, <2>5, <2>6 DEF GateStep
<1> QED BY <1>6, <1>7

\* The ledger journals a trade of a reply, or the answer is bad: nothing is reckoned with yet.
LEMMA PostingReckonsNothing ==
  ASSUME Core, Core', [Next]_vars, NEW a \in Accounts, NEW o \in Orders,
         LedgerPosts(o) \/ LedgerRejects(o) \/ LedgerAnswerLost(o)
  PROVE  Reckoned(a)' = Reckoned(a)
<1>1. ControlInv /\ SettleInv /\ TypeOK /\ SettlementStep(o) BY DEF Core, ControlInv, SettlementStep
<1>2. /\ \A p \in Orders : p # o => handler'[p] = handler[p]
      /\ UNCHANGED trades /\ handler[o].at \in Settlement BY <1>1, SettlementMoves DEF Moves, engine
<1>3. handler[o].at # "done" /\ handler'[o].at # "done" BY <1>1, <1>2, SettlementLeads DEF Settlement
<1>4. ~ApplySettledTrade(o) => Applied' = Applied BY <1>1, AppliedBySettlement
<1>5. CASE LedgerRejects(o) \/ LedgerAnswerLost(o)
  <2>1. UNCHANGED posted BY <1>5 DEF LedgerRejects, LedgerAnswerLost, ledger
  <2>2. ~ApplySettledTrade(o)
    <3>1. LedgerRejects(o) => ~At(o, "posted") BY DEF LedgerRejects, Settles, At
    <3>2. LedgerAnswerLost(o) => lost' # lost BY <1>1, InHand DEF LedgerAnswerLost
    <3> QED BY <1>5, <3>1, <3>2 DEF ApplySettledTrade, ledger
  <2> QED BY <1>2, <1>3, <1>4, <2>1, <2>2, ReckonedWithOneMove
<1>6. CASE LedgerPosts(o)
  <2>1. Settles(o) /\ posted' = posted \cup {Settled(o)} BY <1>6 DEF LedgerPosts
  <2>2. Settled(o) \notin posted /\ Settled(o) \in TradesOf(o) /\ Settled(o) \in DOMAIN trades
    BY <1>1, <2>1, InHand DEF Settles
  <2>3. Applied' = Applied BY <2>1, <1>4 DEF ApplySettledTrade, Settles, At
  <2>4. PICK t \in DOMAIN trades : t = Settled(o) BY <2>2
  <2>5. t \notin Applied BY <2>2, <2>4 DEF Applied
  <2>6. ASSUME NEW u \in DOMAIN trades  PROVE u \in Reckoned(a)' <=> u \in Reckoned(a)
    <3>1. PICK c \in Orders :
              /\ u \in TradesOf(c)
              /\ \A p \in Orders : u \in TradesOf(p) => p = c
              /\ u \in posted' => (u \in Reckoned(a)' <=>
                    IF Account(c) = a THEN handler'[c].at = "done" ELSE u \in Applied')
              /\ u \in posted => (u \in Reckoned(a) <=>
                    IF Account(c) = a THEN handler[c].at = "done" ELSE u \in Applied) BY ReckonedWith
    <3>2. u \in Reckoned(a) => u \in posted BY DEF Reckoned
    <3>3. u \in Reckoned(a)' => u \in posted' BY <1>2, ReckonedArePosted
    <3>4. CASE u = t BY <2>2, <2>4, <3>1, <3>4, <3>2, <1>3, <2>3, <2>5, <3>3
    <3>5. CASE u # t BY <2>1, <2>4, <3>5, <1>2, <1>3, <2>3, <3>1, <3>2, <3>3
    <3> QED BY <3>4, <3>5
  <2>7. Reckoned(a) \subseteq DOMAIN trades /\ Reckoned(a)' \subseteq DOMAIN trades BY <1>2, ReckonedArePosted
  <2> QED BY <2>6, <2>7
<1> QED BY <1>5, <1>6

\* A trade applied is reckoned with by every account but its caller's.
LEMMA ApplyingReckons ==
  ASSUME Core, Core', [Next]_vars, NEW a \in Accounts, NEW o \in Orders, ApplySettledTrade(o)
  PROVE  /\ Settled(o) \in DOMAIN trades
         /\ Reckoned(a)' = Reckoned(a) \cup IF Account(o) = a THEN {} ELSE {Settled(o)}
         /\ Account(o) # a => Settled(o) \notin Reckoned(a)
<1>1. ControlInv /\ SettleInv /\ TypeOK /\ SettlementStep(o) BY DEF Core, ControlInv, SettlementStep
<1>2. /\ \A p \in Orders : p # o => handler'[p] = handler[p]
      /\ UNCHANGED trades /\ handler[o].at \in Settlement BY <1>1, SettlementMoves DEF Moves, engine
<1>3. handler[o].at # "done" /\ handler'[o].at # "done" BY <1>1, <1>2, SettlementLeads DEF Settlement
<1>4. Applied' = Applied \cup {Settled(o)} /\ Settled(o) \notin Applied /\ Settled(o) \in DOMAIN trades
  BY <1>1, AppliedBySettlement
<1>5. UNCHANGED posted /\ Settled(o) \in TradesOf(o) /\ Settled(o) \in posted
  BY <1>1, InHand DEF ApplySettledTrade, ledger
<1>6. PICK t \in DOMAIN trades : t = Settled(o) BY <1>4
<1>7. ASSUME NEW u \in DOMAIN trades
      PROVE  /\ u \in Reckoned(a)' <=> u \in Reckoned(a) \/ (u = t /\ Account(o) # a)
             /\ u = t /\ Account(o) # a => u \notin Reckoned(a)
  <2>1. PICK c \in Orders :
            /\ u \in TradesOf(c)
            /\ \A p \in Orders : u \in TradesOf(p) => p = c
            /\ u \in posted' => (u \in Reckoned(a)' <=>
                  IF Account(c) = a THEN handler'[c].at = "done" ELSE u \in Applied')
            /\ u \in posted => (u \in Reckoned(a) <=>
                  IF Account(c) = a THEN handler[c].at = "done" ELSE u \in Applied) BY ReckonedWith
  <2>2. u \in Reckoned(a) => u \in posted BY DEF Reckoned
  <2>3. u \in Reckoned(a)' => u \in posted' BY <1>2, ReckonedArePosted
  <2>4. u = t => c = o BY <1>5, <1>6, <2>1
  <2>5. (handler'[c].at = "done") <=> (handler[c].at = "done") BY <1>2, <1>3
  <2>6. u \in Applied' <=> u \in Applied \/ u = t BY <1>4, <1>6
  <2>7. CASE u \notin posted BY <1>5, <1>6, <2>2, <2>3, <2>7
  <2>8. CASE u \in posted /\ u # t BY <1>5, <2>1, <2>5, <2>6, <2>8
  <2>9. CASE u \in posted /\ u = t BY <1>3, <1>4, <1>5, <1>6, <2>1, <2>4, <2>5, <2>6, <2>9
  <2> QED BY <2>7, <2>8, <2>9
<1>8. Reckoned(a) \subseteq DOMAIN trades /\ Reckoned(a)' \subseteq DOMAIN trades BY <1>2, ReckonedArePosted
<1>9. Reckoned(a)' = Reckoned(a) \cup IF Account(o) = a THEN {} ELSE {t}
  <2>1. CASE Account(o) = a BY <1>7, <1>8, <2>1
  <2>2. CASE Account(o) # a BY <1>7, <1>8, <2>2
  <2> QED BY <2>1, <2>2
<1>10. Account(o) # a => t \notin Reckoned(a) BY <1>7
<1> QED BY <1>4, <1>6, <1>9, <1>10

\* A handler that is done has its account reckon with the trades of its reply.
LEMMA DebitingReckons ==
  ASSUME Core, Core', [Next]_vars, NEW a \in Accounts, NEW o \in Orders, AdjustAvailableMargin(o),
         Account(o) = a
  PROVE  /\ Reckoned(a)' = Reckoned(a) \cup (TradesOf(o) \cap posted)
         /\ Reckoned(a) \cap (TradesOf(o) \cap posted) = {}
<1>1. ControlInv /\ SettleInv /\ TypeOK /\ SettlementStep(o) BY DEF Core, ControlInv, SettlementStep
<1>2. /\ \A p \in Orders : p # o => handler'[p] = handler[p]
      /\ UNCHANGED trades BY <1>1, SettlementMoves DEF Moves, engine
<1>3. handler[o].at = "debiting" /\ handler'[o].at = "done" /\ UNCHANGED posted
  BY <1>1, SettlementLeads DEF AdjustAvailableMargin, At, ledger
<1>4. Applied' = Applied BY <1>3, <1>1, AppliedBySettlement DEF ApplySettledTrade, At
<1> DEFINE mine == TradesOf(o) \cap posted
<1>5. ASSUME NEW u \in DOMAIN trades
      PROVE  /\ u \in Reckoned(a)' <=> u \in Reckoned(a) \/ u \in mine
             /\ u \in mine => u \notin Reckoned(a)
  <2>1. PICK c \in Orders :
            /\ u \in TradesOf(c)
            /\ \A p \in Orders : u \in TradesOf(p) => p = c
            /\ u \in posted' => (u \in Reckoned(a)' <=>
                  IF Account(c) = a THEN handler'[c].at = "done" ELSE u \in Applied')
            /\ u \in posted => (u \in Reckoned(a) <=>
                  IF Account(c) = a THEN handler[c].at = "done" ELSE u \in Applied) BY ReckonedWith
  <2>2. u \in Reckoned(a) => u \in posted BY DEF Reckoned
  <2>3. u \in Reckoned(a)' => u \in posted' BY <1>2, ReckonedArePosted
  <2>4. u \in TradesOf(o) <=> c = o BY <2>1
  <2>5. c # o => ((handler'[c].at = "done") <=> (handler[c].at = "done")) BY <1>2
  <2>6. CASE u \notin posted BY <1>3, <2>2, <2>3, <2>6
  <2>7. CASE u \in posted /\ c # o BY <1>3, <1>4, <2>1, <2>4, <2>5, <2>7
  <2>8. CASE u \in posted /\ c = o BY <1>3, <2>1, <2>4, <2>8
  <2> QED BY <2>6, <2>7, <2>8
<1>6. /\ Reckoned(a) \subseteq DOMAIN trades /\ Reckoned(a)' \subseteq DOMAIN trades
      /\ mine \subseteq DOMAIN trades BY <1>2, ReckonedArePosted DEF TradesOf
<1> HIDE DEF mine
<1>7. Reckoned(a)' = Reckoned(a) \cup mine /\ Reckoned(a) \cap mine = {} BY <1>5, <1>6
<1> QED BY <1>7 DEF mine

\* The cash of trades that all sell for the account, or all buy for it, is added as a whole.
LEMMA CashOfMore ==
  ASSUME TypeOK, NEW R \in SUBSET DOMAIN trades, NEW P \in SUBSET DOMAIN trades, R \cap P = {},
         NEW a, NEW sells \in BOOLEAN,
         \A t \in P : IF sells THEN Seller(t) = a /\ Buyer(t) # a
                               ELSE Buyer(t) = a /\ Seller(t) # a
  PROVE  /\ Cash(a, R \cup P) = Cash(a, R) + IF sells THEN Worth(P) ELSE -Worth(P)
         /\ Cash(a, R) \in Int /\ Worth(P) \in Nat
<1>1. ASSUME NEW Q \in SUBSET DOMAIN trades, Q \cap P = {} PROVE Worth(Q \cup P) = Worth(Q) + Worth(P)
  <2>1. PICK W \in SUBSET DOMAIN trades : W = Q \cup P OBVIOUS
  <2>2. IsFiniteSet(W) /\ IntOn(Values, W) /\ P \subseteq W /\ W \ P = Q BY <1>1, <2>1, SumsOfTrades
  <2>3. Worth(W) = Worth(P) + Worth(Q) BY <2>2, SumSplit DEF Worth
  <2>4. Worth(P) \in Nat /\ Worth(Q) \in Nat BY SumsOfTrades
  <2> QED BY <2>1, <2>3, <2>4
<1> DEFINE sold == SoldBy(a, R)
           bought == BoughtBy(a, R)
<1>2. sold \in SUBSET DOMAIN trades /\ bought \in SUBSET DOMAIN trades /\ sold \cap P = {} /\ bought \cap P = {}
  BY DEF SoldBy, BoughtBy
<1>3. /\ SoldBy(a, R \cup P) = IF sells THEN sold \cup P ELSE sold
      /\ BoughtBy(a, R \cup P) = IF sells THEN bought ELSE bought \cup P BY DEF SoldBy, BoughtBy
<1>4. /\ Cash(a, R) = Worth(sold) - Worth(bought)
      /\ Cash(a, R \cup P) = Worth(SoldBy(a, R \cup P)) - Worth(BoughtBy(a, R \cup P)) BY DEF Cash
<1> HIDE DEF sold, bought
<1>5. Worth(sold) \in Nat /\ Worth(bought) \in Nat /\ Worth(P) \in Nat BY <1>2, SumsOfTrades
<1>6. Worth(sold \cup P) = Worth(sold) + Worth(P) /\ Worth(bought \cup P) = Worth(bought) + Worth(P)
  BY <1>1, <1>2
<1>7. CASE sells
  <2>1. SoldBy(a, R \cup P) = sold \cup P /\ BoughtBy(a, R \cup P) = bought BY <1>3, <1>7
  <2>2. Cash(a, R \cup P) = Worth(sold \cup P) - Worth(bought) BY <1>4, <2>1
  <2> QED BY <1>4, <1>5, <1>6, <1>7, <2>2
<1>8. CASE ~sells
  <2>1. SoldBy(a, R \cup P) = sold /\ BoughtBy(a, R \cup P) = bought \cup P BY <1>3, <1>8
  <2>2. Cash(a, R \cup P) = Worth(sold) - Worth(bought \cup P) BY <1>4, <2>1
  <2> QED BY <1>4, <1>5, <1>6, <1>8, <2>2
<1> QED BY <1>7, <1>8

\* The release of what a handler held gives the margin all but what is filled.
LEMMA ReleaseKeepsMargin ==
  ASSUME Core, Core', MarginInv, [Next]_vars, NEW a \in Accounts, ~Untracked(a)',
         NEW o \in Orders, ReleaseReservedMargin(o)
  PROVE  MarginKept(a)'
<1>1. ControlInv /\ SettleInv /\ TypeOK /\ SettlementStep(o) /\ SettleOf(o)
  BY DEF Core, ControlInv, SettlementStep, SettleInv
<1>2. /\ \A p \in Orders : p # o => handler'[p] = handler[p]
      /\ UNCHANGED <<trades, pledged>> /\ ~At(o, "unsent") /\ request[o].kind # "paper"
  BY <1>1, SettlementMoves DEF Moves, engine, pledges
<1>3. /\ handler[o].at = "settling" /\ UNCHANGED <<posted, lost>>
      /\ handler'[o].at = IF handler[o].executed > 0 THEN "debiting" ELSE "done"
      /\ handler'[o].executed = handler[o].executed
  BY <1>1, SettlementLeads DEF ReleaseReservedMargin, At, ledger
<1>4. Applied' = Applied BY <1>3, <1>1, AppliedBySettlement DEF ApplySettledTrade, At
<1>5. /\ request[o].limit \in Nat /\ request[o].quantity \in Nat \ {0}
      /\ handler[o].executed \in Nat /\ availableMargin[a] \in Int
  BY <1>1, <1>2, AskedFor, MarginOfOne DEF ControlInv, TypeOK
<1>6. PICK l \in Nat, q \in Nat \ {0}, e \in Nat :
         l = request[o].limit /\ q = request[o].quantity /\ e = handler[o].executed BY <1>5
<1>7. ((l * q) * e) \div q = l * e /\ l * (q - e) = l * q - l * e /\ l * q \in Nat /\ l * e \in Nat
  BY PartsOfANotional
<1>8. Notional(o) = l * q BY <1>6 DEF Notional
<1>9. availableMargin' = Add(availableMargin, Account(o), ((l * q) * e) \div q)
  BY <1>6, <1>8 DEF ReleaseReservedMargin
<1>10. PICK n \in Int : n = l * e BY <1>7
<1>11. availableMargin'[a] = availableMargin[a] + IF Account(o) = a THEN n ELSE 0
  BY <1>1, <1>7, <1>9, <1>10, MarginOfOne
<1>12. Reckoned(a)' = Reckoned(a)
  <2>1. CASE Account(o) # a BY <1>2, <1>3, <1>4, <2>1, ReckonedWithOneMove
  <2>2. CASE e > 0 BY <1>3, <1>6, <2>2, <1>2, <1>4, ReckonedWithOneMove
  <2>3. CASE Account(o) = a /\ e = 0
    BY <2>3, TrackedBefore, <1>2, <1>3, SettledTrades, <1>6, NothingExecuted, <1>4,
       ReckonedWithOneMove
  <2> QED BY <2>1, <2>2, <2>3
<1>13. /\ Account(o) # a => HeldOf(o, a)' - HeldOf(o, a) = 0
       /\ Account(o) = a => HeldOf(o, a)' - HeldOf(o, a) = -n
  <2>1. CASE Account(o) # a BY <1>2, <2>1, HeldAtAPoint
  <2>2. CASE Account(o) = a
    <3>1. HeldOf(o, a) = l * q BY <1>2, <1>3, <1>8, <2>2, HeldAtAPoint
    <3>2. HeldOf(o, a)' = l * (q - e) BY <1>2, <1>3, <1>6, <2>2, HeldAtAPoint
    <3>3. PICK m \in Int : m = l * q BY <1>7
    <3>4. HeldOf(o, a) = m /\ HeldOf(o, a)' = m - n BY <1>7, <1>10, <3>1, <3>2, <3>3
    <3>5. HeldOf(o, a)' - HeldOf(o, a) = -n BY <3>4
    <3> QED BY <2>2, <3>5
  <2> QED BY <2>1, <2>2
<1>14. PICK R \in SUBSET DOMAIN trades : R = Reckoned(a) /\ Reckoned(a)' = R BY <1>2, <1>12, ReckonedArePosted
<1>15. Cash(a, R) \in Int BY CashStays
<1>16. availableMargin'[a] = availableMargin[a]
            + (Cash(a, R) - Cash(a, Reckoned(a))) - (HeldOf(o, a)' - HeldOf(o, a))
  BY <1>5, <1>11, <1>13, <1>14, <1>15
<1> QED BY <1>2, <1>14, <1>16, MarginFollows

\* The debit or credit of what was executed reckons with the trades of the reply.
LEMMA DebitKeepsMargin ==
  ASSUME Core, Core', MarginInv, [Next]_vars, NEW a \in Accounts, ~Untracked(a)',
         NEW o \in Orders, AdjustAvailableMargin(o)
  PROVE  MarginKept(a)'
<1>1. ControlInv /\ SettleInv /\ TypeOK /\ SettlementStep(o) /\ SettleOf(o)
  BY DEF Core, ControlInv, SettlementStep, SettleInv
<1>2. /\ \A p \in Orders : p # o => handler'[p] = handler[p]
      /\ UNCHANGED <<trades, pledged>> /\ ~At(o, "unsent") /\ request[o].kind # "paper"
  BY <1>1, SettlementMoves DEF Moves, engine, pledges
<1>3. /\ handler[o].at = "debiting" /\ UNCHANGED <<posted, lost>> /\ handler'[o].at = "done"
      /\ handler'[o].executed = handler[o].executed
  BY <1>1, SettlementLeads DEF AdjustAvailableMargin, At, ledger
<1>4. Applied' = Applied BY <1>3, <1>1, AppliedBySettlement DEF ApplySettledTrade, At
<1>5. availableMargin[a] \in Int BY <1>1, MarginOfOne
<1>6. HeldOf(o, a) \in Int /\ HeldOf(o, a)' = HeldOf(o, a)
  <2>1. HeldOf(o, a) \in Int BY <1>2, HeldOfOne
  <2>2. HeldOf(o, a)' = HeldOf(o, a)
    <3>1. CASE Account(o) # a BY <1>2, <3>1, HeldAtAPoint
    <3>2. CASE Account(o) = a BY <1>2, <1>3, <3>2, HeldAtAPoint
    <3> QED BY <3>1, <3>2
  <2> QED BY <2>1, <2>2
<1>7. CASE Account(o) # a
  <2>1. Reckoned(a)' = Reckoned(a) BY <1>2, <1>3, <1>4, <1>7, ReckonedWithOneMove
  <2>2. PICK R \in SUBSET DOMAIN trades : R = Reckoned(a) /\ Reckoned(a)' = R BY <1>2, <2>1, ReckonedArePosted
  <2>3. Cash(a, R) \in Int BY CashStays
  <2>4. availableMargin'[a] = availableMargin[a] BY <1>1, <1>7 DEF AdjustAvailableMargin, Add, TypeOK
  <2>5. availableMargin'[a] = availableMargin[a]
            + (Cash(a, R) - Cash(a, Reckoned(a))) - (HeldOf(o, a)' - HeldOf(o, a))
    BY <1>5, <1>6, <2>2, <2>3, <2>4
  <2> QED BY <1>2, <2>2, <2>5, MarginFollows
<1>8. CASE Account(o) = a
  <2>1. ~Untracked(Account(o)) BY <1>8, TrackedBefore
  <2>2. /\ \A t \in TradesOf(o) \cap posted :
              IF IsSell(o) THEN Seller(t) = a /\ Buyer(t) # a ELSE Buyer(t) = a /\ Seller(t) # a
        /\ TradesOf(o) \cap posted = TradesOf(o) \cap Applied BY <1>2, <1>3, <1>8, <2>1, SettledTrades
  <2>3. PICK P \in SUBSET DOMAIN trades : P = TradesOf(o) \cap posted BY DEF TradesOf
  <2>4. PICK R \in SUBSET DOMAIN trades : R = Reckoned(a) BY <1>2, ReckonedArePosted
  <2>5. Reckoned(a)' = R \cup P /\ R \cap P = {} BY <1>8, <2>3, <2>4, DebitingReckons
  <2>6. PICK sells \in BOOLEAN : sells <=> IsSell(o) OBVIOUS
  <2>7. \A t \in P : IF sells THEN Seller(t) = a /\ Buyer(t) # a ELSE Buyer(t) = a /\ Seller(t) # a
    BY <2>2, <2>3, <2>6
  <2>8. /\ Cash(a, R \cup P) = Cash(a, R) + IF sells THEN Worth(P) ELSE -Worth(P)
        /\ Cash(a, R) \in Int /\ Worth(P) \in Nat BY <1>1, <2>5, <2>7, CashOfMore
  <2>9. handler[o].executedNotional = Worth(P) BY <1>1, <2>2, <2>3 DEF SettleOf
  <2>10. PICK n \in Int : n = IF sells THEN Worth(P) ELSE -Worth(P) BY <2>8
  <2>11. availableMargin' = Add(availableMargin, Account(o), n) BY <2>6, <2>9, <2>10 DEF AdjustAvailableMargin
  <2>12. availableMargin'[a] = availableMargin[a] + n BY <1>1, <1>8, <2>11, MarginOfOne
  <2>13. PICK T \in SUBSET DOMAIN trades : T = R \cup P OBVIOUS
  <2>14. availableMargin'[a] = availableMargin[a]
            + (Cash(a, T) - Cash(a, Reckoned(a))) - (HeldOf(o, a)' - HeldOf(o, a))
    BY <1>5, <1>6, <2>4, <2>8, <2>10, <2>12, <2>13
  <2>15. Reckoned(a)' = T BY <2>5, <2>13
  <2> QED BY <1>2, <2>14, <2>15, MarginFollows
<1> QED BY <1>7, <1>8

\* The ledger's answers leave the margin alone.
LEMMA PostingKeepsMargin ==
  ASSUME Core, Core', MarginInv, [Next]_vars, NEW a \in Accounts, ~Untracked(a)',
         NEW o \in Orders, LedgerPosts(o) \/ LedgerRejects(o) \/ LedgerAnswerLost(o)
  PROVE  MarginKept(a)'
<1>1. ControlInv /\ SettleInv /\ TypeOK /\ SettlementStep(o) BY DEF Core, ControlInv, SettlementStep
<1>2. /\ \A p \in Orders : p # o => handler'[p] = handler[p]
      /\ UNCHANGED <<trades, pledged>> /\ ~At(o, "unsent") BY <1>1, SettlementMoves DEF Moves, engine, pledges
<1>3. /\ handler[o].at \in {"settling", "posted"} /\ handler'[o].at \in {"settling", "posted"}
      /\ UNCHANGED availableMargin
  BY <1>1, SettlementLeads DEF LedgerPosts, LedgerRejects, LedgerAnswerLost, Settles, At, books
<1>4. HeldOf(o, a)' = HeldOf(o, a) /\ HeldOf(o, a) \in Int
  <2>1. CASE Account(o) # a BY <1>2, <2>1, HeldAtAPoint
  <2>2. CASE Account(o) = a BY <1>2, <1>3, <2>2, HeldAtAPoint
  <2> QED BY <2>1, <2>2
<1>5. PICK R \in SUBSET DOMAIN trades : R = Reckoned(a) /\ Reckoned(a)' = R
  BY <1>2, PostingReckonsNothing, ReckonedArePosted
<1>6. Cash(a, R) \in Int /\ availableMargin[a] \in Int BY <1>1, CashStays, MarginOfOne
<1>7. availableMargin'[a] = availableMargin[a]
          + (Cash(a, R) - Cash(a, Reckoned(a))) - (HeldOf(o, a)' - HeldOf(o, a)) BY <1>3, <1>4, <1>5, <1>6
<1> QED BY <1>2, <1>5, <1>7, MarginFollows

\* A trade applied moves the margin of its counterparty by its value.
LEMMA ApplyingKeepsMargin ==
  ASSUME Core, Core', MarginInv, [Next]_vars, NEW a \in Accounts, ~Untracked(a)',
         NEW o \in Orders, ApplySettledTrade(o)
  PROVE  MarginKept(a)'
<1>1. ControlInv /\ SettleInv /\ TypeOK /\ SettlementStep(o) BY DEF Core, ControlInv, SettlementStep
<1>2. /\ \A p \in Orders : p # o => handler'[p] = handler[p]
      /\ UNCHANGED <<trades, pledged>> /\ ~At(o, "unsent") BY <1>1, SettlementMoves DEF Moves, engine, pledges
<1>3. handler[o].at = "posted" /\ handler'[o].at = "settling" /\ AdjustCounterparty(Settled(o), Account(o))
  BY <1>1, SettlementLeads DEF ApplySettledTrade, At
<1>4. HeldOf(o, a)' = HeldOf(o, a) /\ HeldOf(o, a) \in Int
  <2>1. CASE Account(o) # a BY <1>2, <2>1, HeldAtAPoint
  <2>2. CASE Account(o) = a BY <1>2, <1>3, <2>2, HeldAtAPoint
  <2> QED BY <2>1, <2>2
<1>5. PICK R \in SUBSET DOMAIN trades : R = Reckoned(a) BY <1>2, ReckonedArePosted
<1>6. Settled(o) \in DOMAIN trades BY ApplyingReckons
<1>7. PICK t \in DOMAIN trades : t = Settled(o) BY <1>6
<1>8. Cash(a, R) \in Int /\ availableMargin[a] \in Int /\ Value(t) \in Nat
  BY <1>1, CashStays, MarginOfOne, TradesAreTyped
<1>9. availableMargin'[a] = availableMargin[a]
          + (IF a # Account(o) /\ a = Seller(t) THEN Value(t) ELSE 0)
          - (IF a # Account(o) /\ a = Buyer(t) THEN Value(t) ELSE 0) BY <1>3, <1>7 DEF AdjustCounterparty
<1>10. CASE Account(o) = a
  <2>1. Reckoned(a)' = R BY <1>5, <1>10, ApplyingReckons
  <2>2. availableMargin'[a] = availableMargin[a]
            + (Cash(a, R) - Cash(a, Reckoned(a))) - (HeldOf(o, a)' - HeldOf(o, a))
    BY <1>4, <1>5, <1>8, <1>9, <1>10
  <2> QED BY <1>2, <2>1, <2>2, MarginFollows
<1>11. CASE Account(o) # a
  <2>1. Reckoned(a)' = R \cup {t} /\ t \notin R BY <1>5, <1>7, <1>11, ApplyingReckons
  <2>2. /\ Worth(BoughtBy(a, R \cup {t})) =
              Worth(BoughtBy(a, R)) + IF Buyer(t) = a THEN Value(t) ELSE 0
        /\ Worth(SoldBy(a, R \cup {t})) =
              Worth(SoldBy(a, R)) + IF Seller(t) = a THEN Value(t) ELSE 0 BY <1>1, <2>1, OneMoreForItsParties
  <2>3. Worth(SoldBy(a, R)) \in Nat /\ Worth(BoughtBy(a, R)) \in Nat BY CashStays
  <2>4. PICK T \in SUBSET DOMAIN trades : T = R \cup {t} OBVIOUS
  <2>5. /\ Cash(a, R) = Worth(SoldBy(a, R)) - Worth(BoughtBy(a, R))
        /\ Cash(a, T) = Worth(SoldBy(a, T)) - Worth(BoughtBy(a, T)) BY DEF Cash
  <2>6. PICK gain \in Nat, loss \in Nat :
           /\ gain = IF Seller(t) = a THEN Value(t) ELSE 0
           /\ loss = IF Buyer(t) = a THEN Value(t) ELSE 0 BY <1>8
  <2>7. Cash(a, T) = Cash(a, R) + gain - loss BY <2>2, <2>3, <2>4, <2>5, <2>6
  <2>8. availableMargin'[a] = availableMargin[a] + gain - loss BY <1>9, <1>11, <2>6
  <2>9. availableMargin'[a] = availableMargin[a]
            + (Cash(a, T) - Cash(a, Reckoned(a))) - (HeldOf(o, a)' - HeldOf(o, a))
    BY <1>4, <1>5, <1>8, <2>7, <2>8
  <2>10. Reckoned(a)' = T BY <2>1, <2>4
  <2> QED BY <1>2, <2>9, <2>10, MarginFollows
<1> QED BY <1>10, <1>11

\* A share pledged adds to the margin what it adds to the collateral; else nothing moves.
LEMMA OthersKeepMargin ==
  ASSUME Core, Core', MarginInv, [Next]_vars, NEW a \in Accounts, ~Untracked(a)',
         UNCHANGED <<handler, posted, lost>>, Applied' = Applied,
         NEW n \in Int, pledged'[a] = pledged[a] + n, availableMargin'[a] = availableMargin[a] + n
  PROVE  MarginKept(a)'
<1>1. TypeOK /\ posted \subseteq DOMAIN trades BY DEF Core, ControlInv, TypeOK
<1>2. SeedMargin[a] \in Int /\ pledged[a] \in Int /\ availableMargin[a] \in Int
  BY <1>1, SeedAssumption DEF TypeOK
<1>3. Reckoned(a)' = Reckoned(a)
  <2>1. ASSUME NEW t \in posted, Account(Trade(t).caller) = a
        PROVE  At(Trade(t).caller, "done")' <=> At(Trade(t).caller, "done") BY <1>1, WhatStays DEF At, Trade
  <2> QED BY <2>1, ReckonedAlike
<1>4. PICK R \in SUBSET DOMAIN trades : R = Reckoned(a) /\ Reckoned(a)' = R BY <1>1, <1>3 DEF Reckoned
<1>5. Cash(a, R) \in Int /\ Cash(a, Reckoned(a))' = Cash(a, R) BY <1>4, CashStays
<1>6. /\ SumFunctionOnSet(HeldBy(a), Orders)' = SumFunctionOnSet(HeldBy(a), Orders)
      /\ SumFunctionOnSet(HeldBy(a), Orders) \in Int
  <2>1. HeldBy(a)' = HeldBy(a)
    <3>1. ASSUME NEW o \in Orders  PROVE HeldOf(o, a)' = HeldOf(o, a)
      BY WhatStays DEF HeldOf, Account, Notional, At
    <3> QED BY <3>1 DEF HeldBy
  <2>2. IntOn(HeldBy(a), Orders) BY HeldIsANumber DEF HeldIsInt
  <2>3. SumFunctionOnSet(HeldBy(a), Orders) \in Int BY <2>2, OrdersAreFinite, SumIsInt
  <2> QED BY <2>1, <2>3
<1>7. MarginKept(a) BY TrackedBefore DEF MarginInv
<1>8. availableMargin[a] = SeedMargin[a] + pledged[a] + Cash(a, R) - SumFunctionOnSet(HeldBy(a), Orders)
  BY <1>4, <1>7 DEF MarginKept
<1>9. MarginKept(a)' <=>
         availableMargin'[a] = SeedMargin[a] + pledged'[a] + Cash(a, R) - SumFunctionOnSet(HeldBy(a), Orders)'
  BY <1>5 DEF MarginKept
<1> QED BY <1>2, <1>5, <1>6, <1>8, <1>9

\* Every step keeps the margin of the accounts the cache keeps track of.
LEMMA StepsKeepMargin == ASSUME Core, Core', MarginInv, [Next]_vars PROVE MarginInv'
<1>1. ControlInv /\ SettleInv /\ TypeOK BY DEF Core, ControlInv
<1> SUFFICES ASSUME NEW a \in Accounts, ~Untracked(a)' PROVE MarginKept(a)' BY DEF MarginInv
<1>2. ASSUME NEW o \in Orders, ArrivalStep(o) \/ GateStep(o)  PROVE MarginKept(a)' BY <1>2, GatesKeepMargin
<1>3. ASSUME NEW o \in Orders, SettlementStep(o)  PROVE MarginKept(a)'
  BY <1>3, PostingKeepsMargin, ApplyingKeepsMargin, ReleaseKeepsMargin, DebitKeepsMargin
     DEF SettlementStep
<1>4. availableMargin[a] \in Int /\ pledged[a] \in Nat BY <1>1, MarginOfOne DEF TypeOK
<1>5. ASSUME UNCHANGED <<handler, posted, lost, pledged, availableMargin>>, Applied' = Applied
      PROVE  MarginKept(a)'
  <2>1. PICK n \in Int : n = 0 OBVIOUS
  <2>2. pledged'[a] = pledged[a] + n /\ availableMargin'[a] = availableMargin[a] + n BY <1>4, <1>5, <2>1
  <2>3. UNCHANGED <<handler, posted, lost>> BY <1>5
  <2> QED BY <1>5, <2>2, <2>3, OthersKeepMargin
<1>6. ASSUME NEW o \in Orders, EngineStep(o)  PROVE MarginKept(a)'
  BY <1>1, <1>6, EngineKeepsControl, EngineKeepsSettling, <1>5 DEF EngineStep, books, pledges,
     ledger
<1>7. ASSUME NEW b \in Accounts, PledgeStep(b)  PROVE MarginKept(a)'
  <2>1. UNCHANGED <<handler, posted, lost, trades>>
    BY <1>7 DEF PledgeStep, ReadHoldingToPledge, PledgeHolding, engine, ledger
  <2>2. Applied' = Applied BY <1>1, <2>1, NothingSettled
  <2>3. CASE UNCHANGED <<pledged, availableMargin>> BY <1>5, <2>1, <2>2, <2>3
  <2>4. CASE ~UNCHANGED <<pledged, availableMargin>>
    <3>1. pledged' = Add(pledged, b, 1) /\ availableMargin' = Add(availableMargin, b, 1)
      BY <1>7, <2>4 DEF PledgeStep, ReadHoldingToPledge, PledgeHolding, books
    <3>2. PICK n \in Int : n = IF b = a THEN 1 ELSE 0 OBVIOUS
    <3>3. availableMargin'[a] = availableMargin[a] + n BY <1>1, <3>1, <3>2, MarginOfOne
    <3>4. pledged'[a] = pledged[a] + n BY <1>1, <3>1, <3>2 DEF TypeOK, Add
    <3>5. UNCHANGED <<handler, posted, lost>> BY <2>1
    <3> QED BY <2>2, <3>3, <3>4, <3>5, OthersKeepMargin
  <2> QED BY <2>3, <2>4
<1>8. ASSUME UNCHANGED vars  PROVE MarginKept(a)'
  BY <1>8, <1>1, NothingSettled, <1>5 DEF vars, books, pledges, engine, ledger
<1> QED BY <1>2, <1>3, <1>6, <1>7, <1>8, KindsOfSteps

--------------------
(* The inductive invariant. *)

OrderPathInv ==
  Core /\ PositionsInv /\ ExposureInv /\ FilledInv /\ ReservedInv /\ MarginInv

\* It holds before the first order.
LEMMA InitiallyInOrder == Init => OrderPathInv
<1> SUFFICES ASSUME Init  PROVE OrderPathInv OBVIOUS
<1>1. ControlInv /\ TypeOK BY InitiallyInControl DEF ControlInv
<1>2. /\ trades = <<>> /\ DOMAIN trades = {} /\ posted = {} /\ lost = {}
      /\ \A o \in Orders : handler[o] = NoCall /\ inEngine[o] = "absent"
      /\ \A a \in Accounts : /\ exposure[a] = 0 /\ reservedToSell[a] = 0 /\ pledged[a] = 0
                             /\ availableMargin[a] = SeedMargin[a] /\ position[a] = SeedHolding[a] BY DEF Init
<1>3. /\ Applied = {} /\ \A o \in Orders : TradesOf(o) = {} /\ At(o, "unsent")
  BY <1>2 DEF Applied, TradesOf, At, NoCall
<1>4. Quantity({}) = 0 /\ Worth({}) = 0 BY SumOfNone DEF Quantity, Worth
<1>5. SettleInv
  <2>1. ASSUME NEW o \in Orders  PROVE SettleOf(o) BY <1>2, <1>3, <1>4 DEF SettleOf, NoCall, At
  <2> QED BY <2>1 DEF SettleInv
<1>6. PositionsInv
  <2>1. ASSUME NEW a \in Accounts  PROVE BoughtBy(a, Applied) = {} /\ SoldBy(a, Applied) = {}
    BY <1>3 DEF BoughtBy, SoldBy
  <2>2. ASSUME NEW a \in Accounts
        PROVE  position[a] =
                  SeedHolding[a] + Quantity(BoughtBy(a, Applied)) - Quantity(SoldBy(a, Applied))
    <3>1. SeedHolding[a] \in Nat /\ position[a] = SeedHolding[a] BY <1>2, SeedAssumption
    <3>2. Quantity(BoughtBy(a, Applied)) = 0 /\ Quantity(SoldBy(a, Applied)) = 0 BY <1>4, <2>1
    <3> QED BY <3>1, <3>2
  <2> QED BY <2>2 DEF PositionsInv
<1>7. ASSUME NEW a \in Accounts
      PROVE  /\ SumFunctionOnSet(Exposures(a), Orders) = 0
             /\ SumFunctionOnSet(KeptBy(a), Orders) = 0
             /\ SumFunctionOnSet(HeldBy(a), Orders) = 0
  BY <1>3, OrdersAreFinite, SumOfZeros DEF ExposureOf, KeptOf, HeldOf, At, Exposures, KeptBy, HeldBy
<1>8. ExposureInv /\ ReservedInv BY <1>2, <1>7 DEF ExposureInv, ReservedInv
<1>9. FilledInv BY <1>2 DEF FilledInv
<1>10. MarginInv
  <2>1. ASSUME NEW a \in Accounts  PROVE MarginKept(a)
    BY <1>2, <1>4, SeedAssumption, <1>7 DEF Reckoned, SoldBy, BoughtBy, Cash, MarginKept
  <2> QED BY <2>1 DEF MarginInv
<1> QED BY <1>1, <1>5, <1>6, <1>8, <1>9, <1>10 DEF OrderPathInv, Core

\* And every step keeps it.
LEMMA StepsKeepTheOrderPath == OrderPathInv /\ [Next]_vars => OrderPathInv'
<1> SUFFICES ASSUME OrderPathInv, [Next]_vars  PROVE OrderPathInv' OBVIOUS
<1>1. Core /\ PositionsInv /\ ExposureInv /\ FilledInv /\ ReservedInv /\ MarginInv BY DEF OrderPathInv
<1>2. Core' BY <1>1, StepsKeepCore
<1>3. PositionsInv' /\ ExposureInv' /\ FilledInv' /\ MarginInv'
  BY <1>1, <1>2, StepsKeepPositions, StepsKeepExposure, StepsKeepFilled, StepsKeepMargin
<1>4. ReservedInv' BY <1>1, <1>2, <1>3, StepsKeepReserved
<1> QED BY <1>2, <1>3, <1>4 DEF OrderPathInv

\* So it holds however the handlers, the engine and the ledger interleave, and whatever fails.
THEOREM OrderPathInvariance == Spec => []OrderPathInv BY InitiallyInOrder, StepsKeepTheOrderPath, PTL DEF Spec

--------------------
(* What it says of the books. *)

\* Every variable of the order path keeps its type.
THEOREM OrderPathTypeCorrect == Spec => []TypeOK
<1>1. OrderPathInv => TypeOK BY DEF OrderPathInv, Core, ControlInv
<1> QED BY <1>1, OrderPathInvariance, PTL

\* The exposure of an account is that of its orders that stand, and of those that were
\* accepted and then never reached the market: nothing else leaks, after whatever gate an
\* order is rejected (CheckAndReserveExposure, and the deferred release in main.go).
THEOREM ExposureAccountedFor == Spec => []ExposureIsAccountedFor
<1>1. OrderPathInv => ExposureIsAccountedFor
  <2> SUFFICES ASSUME OrderPathInv, NEW a \in Accounts
               PROVE  exposure[a] = NotionalOf(Standing(a)) + NotionalOf(NeverReleased(a))
    BY DEF ExposureIsAccountedFor
  <2>1. PICK f, counted, kept, leaked :
          /\ f = Exposures(a) /\ counted = {p \in OrdersOf(a) : ~At(p, "rejected")}
          /\ kept = Standing(a) /\ leaked = NeverReleased(a) OBVIOUS
  <2>2. exposure[a] = SumFunctionOnSet(f, Orders) BY <2>1 DEF OrderPathInv, ExposureInv
  <2>3. IntOn(f, Orders) /\ IsFiniteSet(Orders)
    BY <2>1, ExposureIsNat, OrdersAreFinite DEF ExposuresAreNat, OrderPathInv, NatOn, IntOn
  <2>4. /\ counted \subseteq Orders /\ kept \subseteq counted /\ leaked = counted \ kept
        /\ \A o \in Orders \ counted : f[o] = 0
        /\ \A o \in counted : f[o] = Notional(o)
    <3>1. counted \subseteq Orders /\ kept \subseteq counted BY <2>1 DEF Standing, OrdersOf, At
    <3>2. leaked = counted \ kept
      <4>1. leaked \subseteq counted \ kept BY <2>1 DEF Standing, NeverReleased, OrdersOf, At
      <4>2. counted \ kept \subseteq leaked BY <2>1 DEF Standing, NeverReleased, OrdersOf, At
      <4> QED BY <4>1, <4>2
    <3>3. \A o \in Orders : f[o] = IF o \in counted THEN Notional(o) ELSE 0
      BY <2>1 DEF OrdersOf, Exposures, ExposureOf, At
    <3> QED BY <3>1, <3>2, <3>3
  <2>5. IntOn(f, counted) /\ IsFiniteSet(counted) BY <2>3, <2>4, FS_Subset DEF IntOn
  <2>6. SumFunctionOnSet(f, Orders) = SumFunctionOnSet(f, kept) + SumFunctionOnSet(f, leaked)
    BY <2>3, <2>4, <2>5, SumSkipping, SumSplit
  <2>7. ASSUME NEW T \in SUBSET counted  PROVE NotionalOf(T) = SumFunctionOnSet(f, T)
    <3>1. PICK g : g = [o \in T |-> Notional(o)] OBVIOUS
    <3>2. DOMAIN g = T /\ \A o \in T : g[o] = f[o] BY <2>4, <3>1
    <3>3. IsFiniteSet(T) /\ IntOn(f, T) BY <2>5, FS_Subset DEF IntOn
    <3>4. SumFunction(g) = SumFunctionOnSet(f, T) BY <3>2, <3>3, SumOfFunction
    <3> QED BY <3>1, <3>4 DEF NotionalOf
  <2> QED BY <2>1, <2>2, <2>4, <2>6, <2>7
<1> QED BY <1>1, OrderPathInvariance, PTL

\* The sums of the properties are the sums of the invariant.
LEMMA SumsOfTheBooks ==
  ASSUME TypeOK, NEW T \in SUBSET DOMAIN trades PROVE QuantityOf(T) = Quantity(T) /\ ValueOf(T) = Worth(T)
<1> DEFINE q == [t \in T |-> Trade(t).quantity]
           v == [t \in T |-> Value(t)]
<1>1. /\ DOMAIN q = T /\ \A t \in T : q[t] = Quantities[t]
      /\ DOMAIN v = T /\ \A t \in T : v[t] = Values[t] BY DEF Quantities, Values
<1>2. IsFiniteSet(T) BY SumsOfTrades
<1>3. QuantityOf(T) = SumFunctionOnSet(q, T) /\ ValueOf(T) = SumFunctionOnSet(v, T)
  BY DEF QuantityOf, ValueOf, SumFunction
<1> HIDE DEF q, v
<1>4. /\ SumFunctionOnSet(q, T) = SumFunctionOnSet(Quantities, T)
      /\ SumFunctionOnSet(v, T) = SumFunctionOnSet(Values, T) BY <1>1, <1>2, SumSame
<1> QED BY <1>3, <1>4 DEF Quantity, Worth

\* The position book is the start holding and the trades the ledger journalled, but for those whose
\* answer was lost and those being applied (settleTradeAgainstLedgerAndLocalCache).
THEOREM PositionsAreTheLedgers == Spec => []PositionsFollowTheLedger
<1>1. OrderPathInv => PositionsFollowTheLedger
  <2> SUFFICES ASSUME OrderPathInv, NEW a \in Accounts
               PROVE  position[a] = SeedHolding[a]
                         + QuantityOf({t \in posted \ (lost \cup InFlight) : Buyer(t) = a})
                         - QuantityOf({t \in posted \ (lost \cup InFlight) : Seller(t) = a})
    BY DEF PositionsFollowTheLedger
  <2>1. /\ {t \in posted \ (lost \cup InFlight) : Buyer(t) = a} = BoughtBy(a, Applied)
        /\ {t \in posted \ (lost \cup InFlight) : Seller(t) = a} = SoldBy(a, Applied)
    BY DEF BoughtBy, SoldBy, Applied
  <2>2. TypeOK BY DEF OrderPathInv, Core, ControlInv
  <2>3. BoughtBy(a, Applied) \in SUBSET DOMAIN trades /\ SoldBy(a, Applied) \in SUBSET DOMAIN trades
    BY <2>2 DEF TypeOK, BoughtBy, SoldBy, Applied
  <2>4. /\ QuantityOf(BoughtBy(a, Applied)) = Quantity(BoughtBy(a, Applied))
        /\ QuantityOf(SoldBy(a, Applied)) = Quantity(SoldBy(a, Applied)) BY <2>2, <2>3, SumsOfTheBooks
  <2>5. position[a] =
           SeedHolding[a] + Quantity(BoughtBy(a, Applied)) - Quantity(SoldBy(a, Applied))
    BY DEF OrderPathInv, PositionsInv
  <2> QED BY <2>1, <2>4, <2>5
<1> QED BY <1>1, OrderPathInvariance, PTL

\* What a sell order has left in the market is no more than it keeps reserved.
LEMMA RemainingIsKept ==
  ASSUME OrderPathInv, NEW a \in Accounts, OwnReplies(a), NEW o \in OrdersOf(a),
         IsSell(o), Working(o), ~At(o, "writtenOff")
  PROVE  remaining[o] \in Nat /\ remaining[o] <= KeptOf(o, a)
<1>1. Core /\ FilledInv /\ ControlInv /\ SettleInv /\ TypeOK BY DEF OrderPathInv, Core, ControlInv
<1>2. o \in Orders /\ ~At(o, "unsent") /\ Account(o) = a /\ ~GotForeignTrade(o) BY DEF OrdersOf, OwnReplies
<1>3. StageOf(o) /\ SettleOf(o) BY <1>1, <1>2 DEF ControlInv, StageInv, SettleInv
<1>4. inEngine[o] # "absent" BY DEF Working
<1>5. request[o].quantity \in Nat /\ remaining[o] \in Nat BY <1>1, <1>2, AskedFor DEF ControlInv, TypeOK
<1> DEFINE mine == TradesOf(o) \cap Applied
           all == InvolvedIn(o)
<1>6. mine \subseteq all /\ all \in SUBSET DOMAIN trades /\ mine \in SUBSET DOMAIN trades
  BY <1>2 DEF GotForeignTrade, TradesOf, InvolvedIn
<1>7. remaining[o] + Quantity(all) = request[o].quantity /\ handler[o].executed = Quantity(mine)
  BY <1>1, <1>2, <1>3, <1>4 DEF FilledInv, SettleOf
<1>8. handler[o].at \in {"awaiting", "done"} \cup Settlement
  BY <1>1, <1>2, <1>3, <1>4 DEF TypeOK, StageOf, Points, Early, Settlement, At
<1>9. At(o, "done") => request[o].kind # "paper" BY <1>3, <1>4 DEF StageOf
<1>10. KeptOf(o, a) = IF At(o, "done") THEN request[o].quantity - handler[o].executed
                                       ELSE request[o].quantity BY <1>2, <1>8, <1>9 DEF KeptOf, At, Settlement
<1> HIDE DEF mine, all
<1>11. Quantity(mine) <= Quantity(all) /\ Quantity(mine) \in Nat /\ Quantity(all) \in Nat
  BY <1>1, <1>6, SumsOfTrades, SumAtLeastPart DEF Quantity
<1>12. CASE At(o, "done") BY <1>5, <1>7, <1>10, <1>11, <1>12
<1>13. CASE ~At(o, "done") BY <1>5, <1>7, <1>10, <1>11, <1>13
<1> QED BY <1>12, <1>13

\* What an account still has to sell in the market stays reserved against a second sale, unless an
\* order was written off or a reply listed the trades of others.
THEOREM SellsStayReserved == Spec => []WorkingSellsStayReserved
<1>1. OrderPathInv => WorkingSellsStayReserved
  <2> SUFFICES ASSUME OrderPathInv, NEW a \in Accounts, OwnReplies(a)
               PROVE  reservedToSell[a] >= SumFunctionOnSet(remaining,
                         {o \in OrdersOf(a) : IsSell(o) /\ Working(o) /\ ~At(o, "writtenOff")})
    BY DEF WorkingSellsStayReserved, OwnReplies
  <2> DEFINE working == {o \in OrdersOf(a) : IsSell(o) /\ Working(o) /\ ~At(o, "writtenOff")}
  <2>1. working \subseteq Orders /\ IsFiniteSet(Orders) /\ IsFiniteSet(working)
    BY OrdersAreFinite, FS_Subset DEF OrdersOf
  <2>2. NatOn(KeptBy(a), Orders) BY KeptIsANumber DEF KeptIsNat, OrderPathInv
  <2>3. \A o \in working : remaining[o] \in Nat /\ remaining[o] <= KeptBy(a)[o]
    <3>1. ASSUME NEW o \in working  PROVE remaining[o] \in Nat /\ remaining[o] <= KeptOf(o, a)
      BY RemainingIsKept
    <3> QED BY <2>1, <3>1 DEF KeptBy
  <2>4. reservedToSell[a] = SumFunctionOnSet(KeptBy(a), Orders) BY DEF OrderPathInv, ReservedInv
  <2> HIDE DEF working
  <2>5. IntOn(KeptBy(a), working) /\ IntOn(remaining, working) BY <2>1, <2>2, <2>3 DEF IntOn, NatOn
  <2>6. SumFunctionOnSet(remaining, working) <= SumFunctionOnSet(KeptBy(a), working)
    BY <2>1, <2>3, <2>5, SumLeq
  <2>7. /\ SumFunctionOnSet(KeptBy(a), working) <= SumFunctionOnSet(KeptBy(a), Orders)
        /\ SumFunctionOnSet(KeptBy(a), working) \in Nat
        /\ SumFunctionOnSet(KeptBy(a), Orders) \in Nat BY <2>1, <2>2, SumAtLeastPart
  <2>8. SumFunctionOnSet(remaining, working) \in Int BY <2>1, <2>5, SumIsInt
  <2>9. SumFunctionOnSet(remaining, working) <= reservedToSell[a] BY <2>4, <2>6, <2>7, <2>8
  <2>10. reservedToSell[a] >= SumFunctionOnSet(remaining, working) BY <2>4, <2>7, <2>8, <2>9
  <2> QED BY <2>10 DEF working
<1> QED BY <1>1, OrderPathInvariance, PTL

\* Between settlements an account the cache keeps track of has reckoned with all its trades.
LEMMA AllIsReckonedWith ==
  ASSUME Core, Quiescent, NEW a \in Accounts, ~Untracked(a)
  PROVE  /\ SoldBy(a, Reckoned(a)) = {t \in posted : Seller(t) = a}
         /\ BoughtBy(a, Reckoned(a)) = {t \in posted : Buyer(t) = a}
<1>1. ControlInv /\ SettleInv /\ TypeOK BY DEF Core, ControlInv
<1>2. InFlight = {} BY DEF InFlight, Quiescent, At
<1>3. ASSUME NEW t \in posted, a \in {Buyer(t), Seller(t)} PROVE t \in Reckoned(a)
  <2>1. t \in DOMAIN trades BY <1>1 DEF TypeOK
  <2>2. PICK c \in Orders : c = Trade(t).caller BY <1>1, <2>1, TradesAreTyped
  <2>3. t \in TradesOf(c) \cap posted BY <2>1, <2>2 DEF TradesOf
  <2>4. SettleOf(c) BY <1>1 DEF SettleInv
  <2>5. handler[c].at \in Settlement \cup {"done"} BY <2>3, <2>4 DEF SettleOf
  <2>6. At(c, "done") BY <2>5 DEF Quiescent, Settlement, At
  <2>7. t \in Applied BY <1>2, <1>3 DEF Applied, Untracked
  <2> QED BY <2>2, <2>6, <2>7 DEF Reckoned
<1>4. SoldBy(a, Reckoned(a)) \subseteq {t \in posted : Seller(t) = a} BY DEF SoldBy, Reckoned
<1>5. BoughtBy(a, Reckoned(a)) \subseteq {t \in posted : Buyer(t) = a} BY DEF BoughtBy, Reckoned
<1>6. {t \in posted : Seller(t) = a} \subseteq SoldBy(a, Reckoned(a)) BY <1>3 DEF SoldBy
<1>7. {t \in posted : Buyer(t) = a} \subseteq BoughtBy(a, Reckoned(a)) BY <1>3 DEF BoughtBy
<1> QED BY <1>4, <1>5, <1>6, <1>7

\* An accepted order that has only seen its own trades in its reply: what they filled is
\* released, and the rest is in the market, filled by others, or gone.
LEMMA PartsOfTheReservation ==
  ASSUME Core, FilledInv, NEW o \in Orders, ~At(o, "unsent"), ~GotForeignTrade(o), Accepted(o),
         TradesOf(o) \cap posted = TradesOf(o) \cap Applied
  PROVE  /\ request[o].limit * (request[o].quantity - handler[o].executed)
                = MarginBacking(o) + MarginLeft(o)
         /\ MarginBacking(o) \in Int /\ MarginLeft(o) \in Int
<1>1. ControlInv /\ TypeOK /\ SettleOf(o) /\ StageOf(o) BY DEF Core, ControlInv, SettleInv, StageInv
<1>2. PICK l, q, r \in Nat : l = request[o].limit /\ q = request[o].quantity /\ r = remaining[o]
  BY <1>1, AskedFor DEF ControlInv, TypeOK
<1>3. PICK mine, all : mine = TradesOf(o) \cap posted /\ all = FillsOf(o) OBVIOUS
<1>4. mine \subseteq all /\ all \in SUBSET DOMAIN trades /\ all = InvolvedIn(o)
  BY <1>3 DEF GotForeignTrade, TradesOf, FillsOf, InvolvedIn
<1>5. PICK x, y \in Nat : x = Quantity(mine) /\ y = Quantity(all \ mine) /\ Quantity(all) = x + y
  <2>1. IsFiniteSet(all) /\ NatOn(Quantities, all) /\ IntOn(Quantities, all)
    BY <1>1, <1>4, SumsOfTrades DEF NatOn, IntOn
  <2>2. Quantity(mine) \in Nat /\ Quantity(all \ mine) \in Nat BY <1>4, <2>1, SumAtLeastPart DEF Quantity
  <2> QED BY <1>4, <2>1, <2>2, SumSplit DEF Quantity
<1>6. QuantityOf(FillsOf(o) \ (TradesOf(o) \cap posted)) = y
  <2>1. all \ mine \in SUBSET DOMAIN trades BY <1>4
  <2> QED BY <1>1, <1>3, <1>5, <2>1, SumsOfTheBooks
<1>7. inEngine[o] # "absent" /\ inEngine[o] # "inbox" BY <1>1 DEF StageOf, Accepted, Handled
<1>8. r + (x + y) = q BY <1>2, <1>4, <1>5, <1>7 DEF FilledInv
<1>9. handler[o].executed = x BY <1>1, <1>3, <1>5 DEF SettleOf
<1>10. At(o, "done") /\ handler[o].at \notin {"sending", "awaiting"} BY DEF Accepted, At
<1>11. MarginBacking(o) = IF Working(o) THEN l * r ELSE 0 BY <1>2, <1>10 DEF MarginBacking
<1>12. MarginLeft(o) = l * (y + IF Working(o) THEN 0 ELSE r) BY <1>2, <1>6 DEF MarginLeft
<1>13. request[o].limit * (request[o].quantity - handler[o].executed) = l * (r + y) BY <1>2, <1>5, <1>8, <1>9
<1>14. l * (r + y) = l * r + l * y /\ l * y \in Nat /\ l * r \in Nat /\ l * (y + r) = l * y + l * r
  BY <1>2, <1>5
<1>15. CASE Working(o) BY <1>2, <1>5, <1>11, <1>12, <1>13, <1>14, <1>15
<1>16. CASE ~Working(o) BY <1>2, <1>5, <1>11, <1>12, <1>13, <1>14, <1>16
<1> QED BY <1>15, <1>16

\* What its orders hold is what backs them and what is left of them.
LEMMA HeldBetweenSettlements ==
  ASSUME Core, FilledInv, Quiescent, NEW a \in Accounts, ~Untracked(a), NEW o \in OrdersOf(a)
  PROVE  HeldOf(o, a) = MarginBacking(o) + MarginLeft(o) /\ MarginBacking(o) \in Int /\ MarginLeft(o) \in Int
<1>1. ControlInv /\ TypeOK BY DEF Core, ControlInv
<1>2. o \in Orders /\ ~At(o, "unsent") /\ Account(o) = a /\ ~GotForeignTrade(o) BY DEF OrdersOf, Untracked
<1>3. handler[o].at \notin {"paper", "settling", "posted", "debiting"} BY <1>2 DEF Quiescent
<1>4. CASE Accepted(o)
  <2>1. TradesOf(o) \cap posted = TradesOf(o) \cap Applied BY <1>2, <1>3, <1>4, SettledTrades DEF Accepted
  <2>2. HeldOf(o, a) = request[o].limit * (request[o].quantity - handler[o].executed)
    BY <1>2, <1>4 DEF HeldOf, At, Accepted
  <2> QED BY <1>2, <1>4, <2>1, <2>2, PartsOfTheReservation
<1>5. CASE ~Accepted(o)
  <2>1. MarginLeft(o) = 0 BY <1>5 DEF MarginLeft
  <2>2. Notional(o) \in Int
    <3>1. StageInv BY <1>1 DEF ControlInv
    <3>2. Notional(o) \in Nat BY <1>2, <3>1, AskedFor
    <3> QED BY <3>2
  <2>3. CASE handler[o].at \in {"sending", "awaiting"}
    <3>1. HeldOf(o, a) = Notional(o) /\ MarginBacking(o) = Notional(o)
      BY <1>2, <2>3 DEF MarginBacking, HeldOf, At
    <3> QED BY <2>1, <2>2, <3>1
  <2>4. CASE handler[o].at \notin {"sending", "awaiting"}
    <3>1. HeldOf(o, a) = 0 /\ MarginBacking(o) = 0
      BY <1>2, <1>3, <1>5, <2>4 DEF MarginBacking, HeldOf, At, Accepted
    <3> QED BY <2>1, <3>1
  <2> QED BY <2>3, <2>4
<1> QED BY <1>4, <1>5

\* Between settlements the margin cache is the ledger's cash and the collateral, less what backs
\* the account's orders in the market and what is left reserved of those filled while they rested
\* or cancelled: for every account whose trades the gateway can follow.
THEOREM MarginFollowsTheLedger == Spec => []MarginMirrorsTheLedger
<1>1. OrderPathInv => MarginMirrorsTheLedger
  <2> SUFFICES ASSUME OrderPathInv, Quiescent, NEW a \in Accounts, ~Untracked(a)
               PROVE  availableMargin[a] = SeedMargin[a] + pledged[a]
                         + ValueOf({t \in posted : Seller(t) = a})
                         - ValueOf({t \in posted : Buyer(t) = a})
                         - SumFunction([o \in OrdersOf(a) |-> MarginBacking(o)])
                         - SumFunction([o \in OrdersOf(a) |-> MarginLeft(o)]) BY DEF MarginMirrorsTheLedger
  <2>1. Core /\ FilledInv /\ TypeOK /\ MarginKept(a) BY DEF OrderPathInv, Core, ControlInv, MarginInv
  <2>2. PICK sold \in SUBSET DOMAIN trades, bought \in SUBSET DOMAIN trades :
           /\ sold = {t \in posted : Seller(t) = a} /\ sold = SoldBy(a, Reckoned(a))
           /\ bought = {t \in posted : Buyer(t) = a} /\ bought = BoughtBy(a, Reckoned(a))
    <3>1. posted \subseteq DOMAIN trades BY <2>1 DEF TypeOK
    <3>2. /\ {t \in posted : Seller(t) = a} \in SUBSET DOMAIN trades
          /\ {t \in posted : Buyer(t) = a} \in SUBSET DOMAIN trades BY <3>1
    <3> QED BY <2>1, <3>2, AllIsReckonedWith
  <2>3. /\ ValueOf(sold) = Worth(sold) /\ ValueOf(bought) = Worth(bought)
        /\ Worth(sold) \in Nat /\ Worth(bought) \in Nat BY <2>1, SumsOfTheBooks, SumsOfTrades
  <2>4. Cash(a, Reckoned(a)) = Worth(sold) - Worth(bought) BY <2>2 DEF Cash
  <2>5. PICK back, left \in Int :
          /\ SumFunction([o \in OrdersOf(a) |-> MarginBacking(o)]) = back
          /\ SumFunction([o \in OrdersOf(a) |-> MarginLeft(o)]) = left
          /\ SumFunctionOnSet(HeldBy(a), Orders) = back + left
    <3>1. PICK f, g, h, T :
            /\ f = [o \in OrdersOf(a) |-> MarginBacking(o)] /\ g = [o \in OrdersOf(a) |-> MarginLeft(o)]
            /\ h = HeldBy(a) /\ T = OrdersOf(a) OBVIOUS
    <3>2. IntOn(h, Orders) /\ IsFiniteSet(Orders) /\ T \subseteq Orders
      BY <2>1, <3>1, HeldIsANumber, OrdersAreFinite DEF HeldIsInt, OrdersOf
    <3>3. \A o \in Orders \ T : h[o] = 0 BY <3>1 DEF OrdersOf, HeldBy, HeldOf
    <3>4. \A o \in T : h[o] = f[o] + g[o] /\ f[o] \in Int /\ g[o] \in Int
      <4>1. ASSUME NEW o \in OrdersOf(a)
            PROVE  /\ HeldOf(o, a) = MarginBacking(o) + MarginLeft(o)
                   /\ MarginBacking(o) \in Int /\ MarginLeft(o) \in Int BY <2>1, HeldBetweenSettlements
      <4> QED BY <3>1, <3>2, <4>1 DEF HeldBy
    <3>5. IsFiniteSet(T) /\ IntOn(f, T) /\ IntOn(g, T) /\ DOMAIN f = T /\ DOMAIN g = T
      BY <3>1, <3>2, <3>4, FS_Subset DEF IntOn
    <3>6. SumFunctionOnSet(h, Orders) = SumFunctionOnSet(h, T) BY <3>2, <3>3, SumSkipping
    <3>7. /\ SumFunctionOnSet(h, T) = SumFunctionOnSet(f, T) + SumFunctionOnSet(g, T)
          /\ SumFunctionOnSet(f, T) \in Int /\ SumFunctionOnSet(g, T) \in Int BY <3>4, <3>5, SumAdded
    <3>8. SumFunction(f) = SumFunctionOnSet(f, T) /\ SumFunction(g) = SumFunctionOnSet(g, T)
      BY <3>5, SumOverDomain
    <3> QED BY <3>1, <3>6, <3>7, <3>8
  <2>6. availableMargin[a] = SeedMargin[a] + pledged[a] + Cash(a, Reckoned(a))
                                - SumFunctionOnSet(HeldBy(a), Orders) BY <2>1 DEF MarginKept
  <2>7. SeedMargin[a] \in Nat /\ pledged[a] \in Nat BY <2>1, SeedAssumption DEF TypeOK
  <2>8. availableMargin[a] = SeedMargin[a] + pledged[a] + Worth(sold) - Worth(bought) - back - left
    BY <2>3, <2>4, <2>5, <2>6, <2>7
  <2>9. /\ Worth(sold) = ValueOf({t \in posted : Seller(t) = a})
        /\ Worth(bought) = ValueOf({t \in posted : Buyer(t) = a}) BY <2>2, <2>3
  <2> QED BY <2>5, <2>8, <2>9
<1> QED BY <1>1, OrderPathInvariance, PTL
====================
