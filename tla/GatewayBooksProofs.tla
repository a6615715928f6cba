-------- MODULE GatewayBooksProofs --------
(***************************************************************************)
(* Proofs about the books of oms-gateway beside its order path.            *)
(***************************************************************************)
EXTENDS GatewayBooks, SumTheorems, SequenceTheorems

--------------------
(* Pledges, funding and loans.                                             *)

Shares == DOMAIN HeldShares

CallStates ==
  {NoRequest}
  \cup [at : {"crediting"}, amount : Int]
  \cup [at : {"read", "disbursing", "disbursed", "refused"}, book : Books, amount : Nat, value : Nat]
  \cup [at : {"repaying", "repaid", "unrepaid"}, book : {"loan"}, amount : Nat]

CollateralTypes ==
  /\ pledges \in [Shares -> [quantity : Nat, value : Nat]]
  /\ utilized \in Nat /\ peak \in Nat /\ restored \in Nat /\ accountMargin \in Int
  /\ outstanding \in [Books -> Nat]
  /\ paidOut \in [Books -> Int] /\ unnoticed \in [Books -> Int]
  /\ accruing \in BOOLEAN
  /\ collateralCall \in [CollateralRequests -> CallStates]
  /\ lent \in [Shares -> Nat]

\* What the calls under way have still to do to the margin, and hold in a book.
Due == SumFunction([r \in CollateralRequests |-> MarginDue(collateralCall[r])])
ReservedOf(b) == SumFunction([r \in CollateralRequests |-> ReservedIn(b, collateralCall[r])])

\* What a request has read of the pledges was once pledged.
PeakIsPassed ==
  /\ TotalPledgedMarginValue <= peak
  /\ \A r \in CollateralRequests :
        collateralCall[r].at = "read" => collateralCall[r].value <= peak

CollateralInv ==
  /\ CollateralTypes /\ PeakIsPassed
  /\ MarginMirrorsTheCredit /\ DebtsAreNotForgotten /\ CreditStaysUnderTheCollateral
  /\ PledgesReleaseWhatTheyGave

\* What a call has due and reserved are integers.
LEMMA CallNumbers ==
  ASSUME NEW c \in CallStates PROVE MarginDue(c) \in Int /\ \A b \in Books : ReservedIn(b, c) \in Int
<1>1. c = NoRequest \/ c.amount \in Int BY DEF CallStates
<1>2. NoRequest.at = "idle" BY DEF NoRequest
<1> QED BY <1>1, <1>2 DEF MarginDue, ReservedIn

\* When one call moves on, the sums over the calls change by what it does.
LEMMA OneCallMoves ==
  ASSUME CollateralTypes, NEW r \in CollateralRequests, NEW c \in CallStates,
         collateralCall' = [collateralCall EXCEPT ![r] = c]
  PROVE  /\ collateralCall' \in [CollateralRequests -> CallStates]
         /\ Due \in Int /\ Due' \in Int
         /\ Due' = Due - MarginDue(collateralCall[r]) + MarginDue(c)
         /\ \A b \in Books :
               /\ ReservedOf(b) \in Int /\ ReservedOf(b)' \in Int
               /\ ReservedOf(b)' = ReservedOf(b) - ReservedIn(b, collateralCall[r]) + ReservedIn(b, c)
<1>1. /\ collateralCall' \in [CollateralRequests -> CallStates]
      /\ collateralCall \in [CollateralRequests -> CallStates]
      /\ collateralCall'[r] = c
      /\ \A q \in CollateralRequests \ {r} : collateralCall'[q] = collateralCall[q] BY DEF CollateralTypes
<1>2. IsFiniteSet(CollateralRequests) BY CollateralAssumption
<1>3. Due \in Int /\ Due' \in Int /\ Due' = Due - MarginDue(collateralCall[r]) + MarginDue(c)
  <2> DEFINE f == [q \in CollateralRequests |-> MarginDue(collateralCall[q])]
             g == [q \in CollateralRequests |-> MarginDue(collateralCall'[q])]
  <2>1. IntOn(f, CollateralRequests) /\ IntOn(g, CollateralRequests) BY <1>1, CallNumbers DEF IntOn
  <2>2. /\ f[r] = MarginDue(collateralCall[r]) /\ g[r] = MarginDue(c)
        /\ \A q \in CollateralRequests \ {r} : g[q] = f[q] BY <1>1
  <2>3. Due = SumFunctionOnSet(f, CollateralRequests) /\ Due' = SumFunctionOnSet(g, CollateralRequests)
    BY DEF Due, SumFunction
  <2> HIDE DEF f, g
  <2> QED BY <1>2, <2>1, <2>2, <2>3, SumChanged
<1>4. ASSUME NEW b \in Books
      PROVE  /\ ReservedOf(b) \in Int /\ ReservedOf(b)' \in Int
             /\ ReservedOf(b)' = ReservedOf(b) - ReservedIn(b, collateralCall[r]) + ReservedIn(b, c)
  <2> DEFINE f == [q \in CollateralRequests |-> ReservedIn(b, collateralCall[q])]
             g == [q \in CollateralRequests |-> ReservedIn(b, collateralCall'[q])]
  <2>1. IntOn(f, CollateralRequests) /\ IntOn(g, CollateralRequests) BY <1>1, CallNumbers DEF IntOn
  <2>2. /\ f[r] = ReservedIn(b, collateralCall[r]) /\ g[r] = ReservedIn(b, c)
        /\ \A q \in CollateralRequests \ {r} : g[q] = f[q] BY <1>1
  <2>3. /\ ReservedOf(b) = SumFunctionOnSet(f, CollateralRequests)
        /\ ReservedOf(b)' = SumFunctionOnSet(g, CollateralRequests) BY DEF ReservedOf, SumFunction
  <2> HIDE DEF f, g
  <2> QED BY <1>2, <2>1, <2>2, <2>3, SumChanged
<1> QED BY <1>1, <1>3, <1>4

\* Rounding keeps the order of what it rounds.
LEMMA RoundingIsMonotone ==
  ASSUME NEW a \in Int, NEW b \in Int, NEW d \in Nat \ {0}, a <= b
  PROVE  /\ roundToNearestMinorUnit(a, d) \in Int /\ roundToNearestMinorUnit(b, d) \in Int
         /\ roundToNearestMinorUnit(a, d) <= roundToNearestMinorUnit(b, d)
         /\ 0 <= a => 0 <= roundToNearestMinorUnit(a, d)
<1>1. PICK x \in Int, y \in Int, e \in Nat : x = 2 * a + d /\ y = 2 * b + d /\ e = 2 * d /\ e > 0 /\ x <= y
  <2>1. 2 * a + d \in Int /\ 2 * b + d \in Int /\ 2 * d \in Nat /\ 2 * d > 0 OBVIOUS
  <2>2. 2 * a + d <= 2 * b + d OBVIOUS
  <2> QED BY <2>1, <2>2
<1>2. roundToNearestMinorUnit(a, d) = x \div e /\ roundToNearestMinorUnit(b, d) = y \div e
  BY <1>1 DEF roundToNearestMinorUnit
<1>3. x \div e \in Int /\ y \div e \in Int /\ x \div e <= y \div e /\ (0 <= x => 0 <= x \div e)
  <2>1. x \div e \in Int /\ y \div e \in Int BY <1>1
  <2>2. PICK p \in Int, q \in Int : p = x \div e /\ q = y \div e BY <2>1
  <2>3. e * p <= x /\ x < e * (p + 1) /\ e * q <= y /\ y < e * (q + 1) BY <1>1, <2>2
  <2>4. p <= q
    <3> SUFFICES ASSUME q + 1 <= p PROVE FALSE BY <2>2
    <3>1. e * (q + 1) <= e * p BY <1>1
    <3>2. e * (q + 1) \in Int /\ e * p \in Int BY <1>1
    <3> QED BY <1>1, <2>3, <3>1, <3>2
  <2>5. 0 <= x => 0 <= p
    <3> SUFFICES ASSUME 0 <= x, p + 1 <= 0 PROVE FALSE BY <2>2
    <3>1. e * (p + 1) <= 0 /\ e * (p + 1) \in Int BY <1>1
    <3> QED BY <1>1, <2>3, <3>1
  <2> QED BY <2>1, <2>2, <2>4, <2>5
<1>4. 0 <= a => 0 <= x BY <1>1
<1> QED BY <1>2, <1>3, <1>4

\* More collateral is no less a cap.
LEMMA CapIsMonotone ==
  ASSUME NEW b \in Books, NEW v \in Nat, NEW w \in Nat, v <= w
  PROVE  CapFor(b, v) \in Nat /\ CapFor(b, w) \in Nat /\ CapFor(b, v) <= CapFor(b, w)
<1>1. LoanToValue \in Nat BY CollateralAssumption
<1>2. PICK x \in Nat, y \in Nat : x = v * LoanToValue /\ y = w * LoanToValue BY <1>1
<1>3. x <= y BY <1>1, <1>2
<1>4. /\ roundToNearestMinorUnit(x, 100) \in Int /\ roundToNearestMinorUnit(y, 100) \in Int
      /\ roundToNearestMinorUnit(x, 100) <= roundToNearestMinorUnit(y, 100)
      /\ 0 <= roundToNearestMinorUnit(x, 100) BY <1>3, RoundingIsMonotone
<1>5. /\ CapFor(b, v) = IF b = "funding" THEN v ELSE roundToNearestMinorUnit(x, 100)
      /\ CapFor(b, w) = IF b = "funding" THEN w ELSE roundToNearestMinorUnit(y, 100)
  BY <1>2 DEF CapFor, CalculateLoanToValueCap
<1> QED BY <1>4, <1>5

\* What is pledged is a natural number.
LEMMA TotalIsNat == ASSUME CollateralTypes PROVE TotalPledgedMarginValue \in Nat
<1> DEFINE f == [s \in DOMAIN pledges |-> pledges[s].value]
<1>1. IsFiniteSet(Shares) /\ DOMAIN pledges = Shares BY CollateralAssumption DEF CollateralTypes, Shares
<1>2. NatOn(f, Shares) /\ DOMAIN f = Shares BY <1>1 DEF NatOn, CollateralTypes
<1>3. TotalPledgedMarginValue = SumFunctionOnSet(f, Shares) BY <1>2 DEF TotalPledgedMarginValue, SumFunction
<1> HIDE DEF f
<1>4. SumFunctionOnSet(f, Shares) \in Nat BY <1>1, <1>2, SumAtLeastPart
<1> QED BY <1>3, <1>4

\* A step of a loan or of its repayment: call r becomes c, the principal of book b becomes
\* principal1 and the ledger is noticed to have paid that much more out of it; what the
\* step does to the margin and to the principal goes with what the call has due and
\* reserved.
LoanStep(r, c, b, principal1, noticed) ==
  /\ collateralCall' = [collateralCall EXCEPT ![r] = c]
  /\ c.at = "read" => c.value <= peak
  /\ UNCHANGED <<pledges, utilized, peak, lent, borrowed>> /\ accruing' \in BOOLEAN
  /\ principal1 \in Nat /\ noticed \in Int
  /\ outstanding' = [outstanding EXCEPT ![b] = principal1]
  /\ paidOut' \in [Books -> Int] /\ unnoticed' \in [Books -> Int]
  /\ \A x \in Books : paidOut'[x] - unnoticed'[x] =
                         paidOut[x] - unnoticed[x] + (IF x = b THEN noticed ELSE 0)
  /\ accountMargin' = accountMargin + noticed + MarginDue(collateralCall[r]) - MarginDue(c)
  /\ \A x \in Books \ {b} : ReservedIn(x, c) = 0 /\ ReservedIn(x, collateralCall[r]) = 0
  /\ principal1 >= outstanding[b] + noticed + ReservedIn(b, c) - ReservedIn(b, collateralCall[r])
  /\ restored' \in Nat /\ restored <= restored'
  /\ principal1 <= CapFor(b, peak) + (IF b = "loan" THEN restored' ELSE 0)

\* Such a step keeps the books straight.
LEMMA LoanStepKeepsInv ==
  ASSUME CollateralInv, NEW r \in CollateralRequests, NEW c \in CallStates, NEW b \in Books,
         NEW principal1, NEW noticed, LoanStep(r, c, b, principal1, noticed)
  PROVE  CollateralInv'
<1> USE DEF LoanStep
<1>1. /\ collateralCall' \in [CollateralRequests -> CallStates]
      /\ Due \in Int /\ Due' \in Int
      /\ Due' = Due - MarginDue(collateralCall[r]) + MarginDue(c)
      /\ \A x \in Books :
            /\ ReservedOf(x) \in Int /\ ReservedOf(x)' \in Int
            /\ ReservedOf(x)' = ReservedOf(x) - ReservedIn(x, collateralCall[r]) + ReservedIn(x, c)
  BY OneCallMoves DEF CollateralInv
<1>2. UNCHANGED <<pledges, utilized, peak, lent, borrowed>> /\ noticed \in Int /\ principal1 \in Nat OBVIOUS
<1>3. collateralCall[r] \in CallStates BY DEF CollateralInv, CollateralTypes
<1>4. /\ MarginDue(c) \in Int /\ MarginDue(collateralCall[r]) \in Int
      /\ \A x \in Books : ReservedIn(x, c) \in Int /\ ReservedIn(x, collateralCall[r]) \in Int
  BY <1>3, CallNumbers
<1>5. CollateralTypes' BY <1>4, <1>1, <1>2 DEF CollateralInv, CollateralTypes
<1>6. TotalPledgedMarginValue' = TotalPledgedMarginValue /\ TotalPledgedMarginValue \in Nat
  BY <1>2, TotalIsNat DEF TotalPledgedMarginValue, CollateralInv
<1>7. PeakIsPassed'
  <2>1. ASSUME NEW q \in CollateralRequests, collateralCall'[q].at = "read"
        PROVE  collateralCall'[q].value <= peak'
    <3>1. CASE q = r BY <1>2, <2>1, <3>1 DEF CollateralInv, CollateralTypes
    <3>2. CASE q # r BY <1>2, <2>1, <3>2 DEF CollateralInv, CollateralTypes, PeakIsPassed
    <3> QED BY <3>1, <3>2
  <2> QED BY <1>2, <1>6, <2>1 DEF PeakIsPassed, CollateralInv
<1>8. MarginMirrorsTheCredit'
  <2>1. PICK a \in Int, m \in Int, mm1 \in Int :
           a = Due /\ m = MarginDue(c) /\ mm1 = MarginDue(collateralCall[r]) BY <1>1, <1>4
  <2>2. accountMargin + a = TotalPledgedMarginValue + (paidOut["funding"] - unnoticed["funding"])
                               + (paidOut["loan"] - unnoticed["loan"])
    BY <2>1 DEF CollateralInv, MarginMirrorsTheCredit, Due
  <2>3. Due' = a - mm1 + m /\ accountMargin' = accountMargin + noticed + mm1 - m BY <1>1, <2>1
  <2>4. /\ "funding" \in Books /\ "loan" \in Books /\ (b = "funding" \/ b = "loan")
        /\ accountMargin \in Int /\ TotalPledgedMarginValue \in Int
        /\ \A x \in Books : paidOut[x] \in Int /\ unnoticed[x] \in Int /\ paidOut'[x] \in Int /\ unnoticed'[x] \in Int
    BY <1>6 DEF Books, CollateralInv, CollateralTypes
  <2>5. accountMargin' + Due' = TotalPledgedMarginValue + (paidOut'["funding"] - unnoticed'["funding"])
                               + (paidOut'["loan"] - unnoticed'["loan"])
    <3>0. /\ paidOut["funding"] - unnoticed["funding"] \in Int
          /\ paidOut["loan"] - unnoticed["loan"] \in Int
          /\ paidOut'["funding"] - unnoticed'["funding"] \in Int
          /\ paidOut'["loan"] - unnoticed'["loan"] \in Int BY <2>4
    <3>1. PICK f \in Int, g \in Int, f1 \in Int, g1 \in Int :
             /\ f = paidOut["funding"] - unnoticed["funding"] /\ g = paidOut["loan"] - unnoticed["loan"]
             /\ f1 = paidOut'["funding"] - unnoticed'["funding"] /\ g1 = paidOut'["loan"] - unnoticed'["loan"]
      BY <3>0, Zenon
    <3>2. f1 + g1 = f + g + noticed BY <2>4, <3>1
    <3> QED BY <2>1, <2>2, <2>3, <2>4, <3>1, <3>2
  <2> QED BY <1>6, <2>5 DEF MarginMirrorsTheCredit, Due
<1>9. DebtsAreNotForgotten'
  <2> SUFFICES ASSUME NEW x \in Books PROVE outstanding'[x] >= paidOut'[x] - unnoticed'[x] + ReservedOf(x)'
    BY DEF DebtsAreNotForgotten, ReservedOf
  <2>1. outstanding[x] >= paidOut[x] - unnoticed[x] + ReservedOf(x)
    BY DEF CollateralInv, DebtsAreNotForgotten, ReservedOf
  <2>2. /\ outstanding[x] \in Nat /\ paidOut[x] \in Int /\ unnoticed[x] \in Int
        /\ paidOut'[x] \in Int /\ unnoticed'[x] \in Int
        /\ outstanding'[x] = IF x = b THEN principal1 ELSE outstanding[x]
    BY DEF CollateralInv, CollateralTypes
  <2>3. PICK s \in Int, s1 \in Int, o \in Int, n \in Int :
           s = ReservedOf(x) /\ s1 = ReservedOf(x)' /\ o = ReservedIn(x, collateralCall[r]) /\ n = ReservedIn(x, c)
    BY <1>1, <1>4
  <2>4. s1 = s - o + n BY <1>1, <2>3
  <2>5. CASE x = b BY <2>3, <2>5, <2>1, <2>2, <2>4
  <2>6. CASE x # b BY <2>3, <2>6, <2>2, <2>1, <2>4
  <2> QED BY <2>5, <2>6
<1>10. CreditStaysUnderTheCollateral'
  <2> SUFFICES ASSUME NEW x \in Books
               PROVE  outstanding'[x] <= CapFor(x, peak) + (IF x = "loan" THEN restored' ELSE 0)
    BY <1>2 DEF CreditStaysUnderTheCollateral, CapFor, CalculateLoanToValueCap
  <2>1. outstanding[x] <= CapFor(x, peak) + (IF x = "loan" THEN restored ELSE 0)
    BY DEF CollateralInv, CreditStaysUnderTheCollateral
  <2>2. CapFor(x, peak) \in Nat /\ outstanding[x] \in Nat /\ restored \in Nat
    BY CapIsMonotone DEF CollateralInv, CollateralTypes
  <2>3. outstanding'[x] = IF x = b THEN principal1 ELSE outstanding[x] BY DEF CollateralInv, CollateralTypes
  <2> QED BY <2>1, <2>2, <2>3
<1>11. PledgesReleaseWhatTheyGave' BY <1>2 DEF CollateralInv, PledgesReleaseWhatTheyGave
<1> QED BY <1>5, <1>7, <1>8, <1>9, <1>10, <1>11 DEF CollateralInv

\* What a call of each kind has due and reserved.
LEMMA WhatCallsHold ==
  ASSUME NEW c
  PROVE  /\ c.at \in {"crediting", "disbursed"} => MarginDue(c) = c.amount
         /\ c.at = "repaid" => MarginDue(c) = -c.amount
         /\ c.at \in {"idle", "read", "disbursing", "refused", "repaying", "unrepaid"} => MarginDue(c) = 0
         /\ \A b : c.at \in {"idle", "crediting", "read", "disbursed", "repaid"} => ReservedIn(b, c) = 0
         /\ \A b : c.at \in {"disbursing", "refused"} =>
                      ReservedIn(b, c) = IF c.book = b THEN c.amount ELSE 0
         /\ \A b : c.at \in {"repaying", "unrepaid"} =>
                      ReservedIn(b, c) = IF c.book = b THEN -c.amount ELSE 0 BY DEF MarginDue, ReservedIn

\* A call that is at a stage of a loan, or of a repayment.
LEMMA CallShapes ==
  ASSUME NEW c \in CallStates
  PROVE  /\ c.at \in {"read", "disbursing", "disbursed", "refused"} =>
               /\ c.book \in Books /\ c.amount \in Nat /\ c.value \in Nat
               /\ \A s \in {"read", "disbursing", "disbursed", "refused"} :
                     LET d == [c EXCEPT !.at = s]
                     IN  /\ d \in CallStates
                         /\ d.at = s /\ d.book = c.book /\ d.amount = c.amount /\ d.value = c.value
         /\ c.at \in {"repaying", "repaid", "unrepaid"} =>
               /\ c.book = "loan" /\ c.amount \in Nat
               /\ \A s \in {"repaying", "repaid", "unrepaid"} :
                     LET d == [c EXCEPT !.at = s]
                     IN  d \in CallStates /\ d.at = s /\ d.book = "loan" /\ d.amount = c.amount
         /\ c.at = "crediting" => c.amount \in Int
<1>1. NoRequest.at = "idle" BY DEF NoRequest
<1>2. CASE c.at \in {"read", "disbursing", "disbursed", "refused"}
  <2>1. c \in [at : {"read", "disbursing", "disbursed", "refused"}, book : Books, amount : Nat, value : Nat]
    BY <1>1, <1>2 DEF CallStates
  <2>2. ASSUME NEW s \in {"read", "disbursing", "disbursed", "refused"}
        PROVE  LET d == [c EXCEPT !.at = s]
               IN  /\ d \in CallStates
                   /\ d.at = s /\ d.book = c.book /\ d.amount = c.amount /\ d.value = c.value
    BY <2>1 DEF CallStates
  <2> QED BY <1>2, <2>1, <2>2
<1>3. CASE c.at \in {"repaying", "repaid", "unrepaid"}
  <2>1. c \in [at : {"repaying", "repaid", "unrepaid"}, book : {"loan"}, amount : Nat]
    BY <1>1, <1>3 DEF CallStates
  <2>2. ASSUME NEW s \in {"repaying", "repaid", "unrepaid"}
        PROVE  LET d == [c EXCEPT !.at = s]
               IN  d \in CallStates /\ d.at = s /\ d.book = "loan" /\ d.amount = c.amount
    BY <2>1 DEF CallStates
  <2> QED BY <1>3, <2>1, <2>2
<1>4. CASE c.at = "crediting" BY <1>1, <1>4 DEF CallStates
<1> QED BY <1>2, <1>3, <1>4

\* A request reads the value of the pledges, which the peak has passed.
LEMMA RequestReadsPledgesKeepsInv ==
  ASSUME CollateralInv, NEW r \in CollateralRequests, RequestReadsPledges(r),
         UNCHANGED <<pledgeVars, deskVars>>
  PROVE  CollateralInv'
<1>1. PICK b \in Books, amount \in LoanAmounts :
         Calls(r, [at |-> "read", book |-> b, amount |-> amount, value |-> TotalPledgedMarginValue])
  BY DEF RequestReadsPledges
<1> DEFINE c == [at |-> "read", book |-> b, amount |-> amount, value |-> TotalPledgedMarginValue]
<1>2. collateralCall[r] = NoRequest /\ collateralCall' = [collateralCall EXCEPT ![r] = c] BY <1>1 DEF Calls
<1>3. UNCHANGED <<outstanding, accruing, paidOut, unnoticed, restored, accountMargin>>
  BY DEF RequestReadsPledges, loanVars
<1>4. c \in CallStates /\ c.at = "read" /\ c.value = TotalPledgedMarginValue
  BY TotalIsNat, CollateralAssumption DEF CallStates, CollateralInv
<1>5. NoRequest.at = "idle" BY DEF NoRequest
<1> HIDE DEF c
<1>6. /\ MarginDue(c) = 0 /\ MarginDue(NoRequest) = 0
      /\ \A x : ReservedIn(x, c) = 0 /\ ReservedIn(x, NoRequest) = 0 BY <1>4, <1>5, WhatCallsHold
<1>7. /\ outstanding[b] \in Nat /\ accountMargin \in Int /\ restored \in Nat
      /\ outstanding' = [outstanding EXCEPT ![b] = outstanding[b]]
      /\ paidOut' \in [Books -> Int] /\ unnoticed' \in [Books -> Int] /\ accruing' \in BOOLEAN
  BY <1>3 DEF CollateralInv, CollateralTypes
<1>8. \A x \in Books : paidOut'[x] - unnoticed'[x] = paidOut[x] - unnoticed[x] + (IF x = b THEN 0 ELSE 0)
  BY <1>3 DEF CollateralInv, CollateralTypes
<1>9. outstanding[b] <= CapFor(b, peak) + (IF b = "loan" THEN restored' ELSE 0)
  BY <1>3 DEF CollateralInv, CreditStaysUnderTheCollateral
<1>10. c.value <= peak BY <1>4 DEF CollateralInv, PeakIsPassed
<1>11. accountMargin' = accountMargin + 0 + MarginDue(collateralCall[r]) - MarginDue(c)
  BY <1>2, <1>3, <1>6, <1>7
<1>12. outstanding[b] >= outstanding[b] + 0 + ReservedIn(b, c) - ReservedIn(b, collateralCall[r])
  BY <1>2, <1>6, <1>7
<1>13. 0 \in Int /\ restored <= restored' /\ restored' \in Nat BY <1>3, <1>7
<1>14. LoanStep(r, c, b, outstanding[b], 0)
  BY <1>2, <1>4, <1>6, <1>7, <1>8, <1>9, <1>10, <1>11, <1>12, <1>13 DEF LoanStep, pledgeVars, deskVars
<1> QED BY <1>4, <1>14, LoanStepKeepsInv

\* What fits under the cap is reserved, and the call goes to the ledger with it.
LEMMA ReserveKeepsInv ==
  ASSUME CollateralInv, NEW r \in CollateralRequests, NEW b \in Books, Reserve(r, b),
         UNCHANGED <<pledgeVars, deskVars>>
  PROVE  CollateralInv'
<1> DEFINE request == collateralCall[r]
<1>1. /\ request \in CallStates /\ request.at = "read" /\ request.book = b
      /\ UNCHANGED <<accruing, paidOut, unnoticed, restored>> BY DEF Reserve, CollateralInv, CollateralTypes
<1>2. request.amount \in Nat /\ request.value \in Nat /\ request.value <= peak
  BY <1>1, CallShapes DEF CollateralInv, PeakIsPassed
<1>3. /\ outstanding \in [Books -> Nat] /\ peak \in Nat /\ restored \in Nat /\ accountMargin \in Int
      /\ paidOut' \in [Books -> Int] /\ unnoticed' \in [Books -> Int] /\ accruing' \in BOOLEAN
      /\ \A x \in Books : paidOut'[x] - unnoticed'[x] = paidOut[x] - unnoticed[x] + (IF x = b THEN 0 ELSE 0)
      /\ restored' \in Nat /\ restored <= restored' BY <1>1 DEF CollateralInv, CollateralTypes
<1>4. CASE request.amount <= CapFor(b, request.value) - outstanding[b] /\ Proceeds(r, "disbursing")
           /\ outstanding' = [outstanding EXCEPT ![b] = @ + request.amount]
  <2> DEFINE c == [request EXCEPT !.at = "disbursing"]
             principal1 == outstanding[b] + request.amount
  <2>1. c \in CallStates /\ c.at = "disbursing" /\ c.book = b /\ c.amount = request.amount BY <1>1, CallShapes
  <2>2. collateralCall' = [collateralCall EXCEPT ![r] = c] /\ accountMargin' = accountMargin
    BY <1>4 DEF Proceeds
  <2>3. principal1 \in Nat /\ outstanding' = [outstanding EXCEPT ![b] = principal1] BY <1>2, <1>3, <1>4
  <2>4. principal1 <= CapFor(b, peak) + (IF b = "loan" THEN restored' ELSE 0)
    <3>1. CapFor(b, request.value) \in Nat /\ CapFor(b, peak) \in Nat /\ CapFor(b, request.value) <= CapFor(b, peak)
      BY <1>2, <1>3, CapIsMonotone
    <3> QED BY <1>2, <1>3, <1>4, <3>1
  <2> HIDE DEF c, request
  <2>5. /\ MarginDue(c) = 0 /\ MarginDue(request) = 0
        /\ \A x : ReservedIn(x, c) = (IF b = x THEN request.amount ELSE 0) /\ ReservedIn(x, request) = 0
    BY <1>1, <2>1, WhatCallsHold
  <2>6. /\ accountMargin' = accountMargin + 0 + MarginDue(request) - MarginDue(c)
        /\ principal1 >= outstanding[b] + 0 + ReservedIn(b, c) - ReservedIn(b, request)
        /\ \A x \in Books \ {b} : ReservedIn(x, c) = 0 /\ ReservedIn(x, request) = 0 BY <1>2, <1>3, <2>2, <2>5
  <2> HIDE DEF principal1
  <2>7. LoanStep(r, c, b, principal1, 0)
    BY <1>3, <2>1, <2>2, <2>3, <2>4, <2>6 DEF LoanStep, pledgeVars, deskVars, request
  <2> QED BY <2>1, <2>7, LoanStepKeepsInv
<1>5. CASE Replies(r, 0) /\ UNCHANGED outstanding
  <2> DEFINE c == NoRequest
  <2>1. c \in CallStates /\ c.at = "idle" BY DEF CallStates, NoRequest
  <2>2. collateralCall' = [collateralCall EXCEPT ![r] = c] /\ accountMargin' = accountMargin + 0
    BY <1>5 DEF Replies
  <2>3. outstanding[b] \in Nat /\ outstanding' = [outstanding EXCEPT ![b] = outstanding[b]] BY <1>3, <1>5
  <2>4. outstanding[b] <= CapFor(b, peak) + (IF b = "loan" THEN restored' ELSE 0)
    BY <1>1 DEF CollateralInv, CreditStaysUnderTheCollateral
  <2> HIDE DEF c, request
  <2>5. /\ MarginDue(c) = 0 /\ MarginDue(request) = 0
        /\ \A x : ReservedIn(x, c) = 0 /\ ReservedIn(x, request) = 0 BY <1>1, <2>1, WhatCallsHold
  <2>6. /\ accountMargin' = accountMargin + 0 + MarginDue(request) - MarginDue(c)
        /\ outstanding[b] >= outstanding[b] + 0 + ReservedIn(b, c) - ReservedIn(b, request)
        /\ \A x \in Books \ {b} : ReservedIn(x, c) = 0 /\ ReservedIn(x, request) = 0 BY <1>3, <2>2, <2>3, <2>5
  <2>7. LoanStep(r, c, b, outstanding[b], 0)
    BY <1>3, <2>1, <2>2, <2>3, <2>4, <2>6 DEF LoanStep, pledgeVars, deskVars, request
  <2> QED BY <2>1, <2>7, LoanStepKeepsInv
<1> QED BY <1>4, <1>5 DEF Reserve

\* What is repaid is deducted before the ledger is asked, and held by the call.
LEMMA RepayLoanKeepsInv ==
  ASSUME CollateralInv, NEW r \in CollateralRequests, RepayLoan(r),
         UNCHANGED <<pledgeVars, deskVars>>
  PROVE  CollateralInv'
<1>1. PICK amount \in LoanAmounts :
         /\ amount <= outstanding["loan"]
         /\ Calls(r, [at |-> "repaying", book |-> "loan", amount |-> amount])
         /\ outstanding' = [outstanding EXCEPT !["loan"] = @ - amount] BY DEF RepayLoan
<1> DEFINE b == "loan"
           c == [at |-> "repaying", book |-> "loan", amount |-> amount]
           principal1 == outstanding[b] - amount
<1>2. collateralCall[r] = NoRequest /\ collateralCall' = [collateralCall EXCEPT ![r] = c] BY <1>1 DEF Calls
<1>3. UNCHANGED <<accruing, paidOut, unnoticed, restored, accountMargin>> BY DEF RepayLoan
<1>4. c \in CallStates /\ c.at = "repaying" /\ c.book = b /\ c.amount = amount /\ amount \in Nat /\ b \in Books
  BY CollateralAssumption DEF CallStates, Books
<1>5. NoRequest.at = "idle" BY DEF NoRequest
<1>6. /\ outstanding \in [Books -> Nat] /\ peak \in Nat /\ restored \in Nat /\ accountMargin \in Int
      /\ paidOut' \in [Books -> Int] /\ unnoticed' \in [Books -> Int] /\ accruing' \in BOOLEAN
      /\ \A x \in Books : paidOut'[x] - unnoticed'[x] = paidOut[x] - unnoticed[x] + (IF x = b THEN 0 ELSE 0)
      /\ restored' \in Nat /\ restored <= restored' BY <1>3 DEF CollateralInv, CollateralTypes
<1>7. principal1 \in Nat /\ outstanding' = [outstanding EXCEPT ![b] = principal1] /\ principal1 <= outstanding[b]
  BY <1>1, <1>4, <1>6
<1>8. principal1 <= CapFor(b, peak) + (IF b = "loan" THEN restored' ELSE 0)
  BY <1>4, <1>6, CapIsMonotone, <1>3, <1>7 DEF CollateralInv, CreditStaysUnderTheCollateral
<1> HIDE DEF c
<1>9. /\ MarginDue(c) = 0 /\ MarginDue(NoRequest) = 0
      /\ \A x : ReservedIn(x, c) = (IF b = x THEN -amount ELSE 0) /\ ReservedIn(x, NoRequest) = 0
  BY <1>4, <1>5, WhatCallsHold
<1>10. /\ accountMargin' = accountMargin + 0 + MarginDue(collateralCall[r]) - MarginDue(c)
       /\ principal1 >= outstanding[b] + 0 + ReservedIn(b, c) - ReservedIn(b, collateralCall[r])
       /\ \A x \in Books \ {b} : ReservedIn(x, c) = 0 /\ ReservedIn(x, collateralCall[r]) = 0
  BY <1>2, <1>3, <1>4, <1>6, <1>9
<1> HIDE DEF principal1, b
<1>11. LoanStep(r, c, b, principal1, 0)
  BY <1>2, <1>4, <1>6, <1>7, <1>8, <1>10 DEF LoanStep, pledgeVars, deskVars
<1> QED BY <1>4, <1>11, LoanStepKeepsInv

\* A step that leaves the principal alone stays under the cap.
LEMMA SamePrincipal ==
  ASSUME CollateralInv, NEW b \in Books, UNCHANGED <<outstanding, restored>>
  PROVE  /\ outstanding[b] \in Nat /\ outstanding' = [outstanding EXCEPT ![b] = outstanding[b]]
         /\ outstanding[b] <= CapFor(b, peak) + (IF b = "loan" THEN restored' ELSE 0)
         /\ restored' \in Nat /\ restored <= restored' /\ accountMargin \in Int
  BY DEF CollateralInv, CollateralTypes, CreditStaysUnderTheCollateral

\* A call of a loan, or of a repayment, at another of its stages.
At(c, s) == [c EXCEPT !.at = s]

LoanStages == {"read", "disbursing", "disbursed", "refused"}
RepaymentStages == {"repaying", "repaid", "unrepaid"}

\* Such a call is still one, of the same book and amount.
LEMMA MovedCall ==
  ASSUME NEW c \in CallStates, NEW s,
         (c.at \in LoanStages /\ s \in LoanStages) \/ (c.at \in RepaymentStages /\ s \in RepaymentStages)
  PROVE  /\ At(c, s) \in CallStates /\ At(c, s).at = s
         /\ At(c, s).book = c.book /\ At(c, s).amount = c.amount
         /\ c.book \in Books /\ c.amount \in Nat
<1>1. CASE c.at \in LoanStages /\ s \in LoanStages BY <1>1 DEF CallStates, NoRequest, LoanStages, At
<1>2. CASE c.at \in RepaymentStages /\ s \in RepaymentStages
  BY <1>2 DEF CallStates, NoRequest, RepaymentStages, At, Books
<1> QED BY <1>1, <1>2

\* What is paid more in one book is paid less what is not noticed of it.
LEMMA PaidMore ==
  ASSUME NEW f \in [Books -> Int], NEW g \in [Books -> Int], NEW b \in Books, NEW n \in Int
  PROVE  LET more(h) == [h EXCEPT ![b] = @ + n]
         IN  /\ more(f) \in [Books -> Int] /\ more(g) \in [Books -> Int]
             /\ \A x \in Books : more(f)[x] - g[x] = f[x] - g[x] + (IF x = b THEN n ELSE 0)
             /\ \A x \in Books : more(f)[x] - more(g)[x] = f[x] - g[x] OBVIOUS

\* The ledger's answer moves what the call holds in the book to what it has due to the
\* margin; an answer that is lost moves nothing that is noticed.
LEMMA LedgerAnswersKeepsInv ==
  ASSUME CollateralInv, NEW r \in CollateralRequests,
         NEW from, NEW done, NEW failed, NEW sign \in Int,
         \/ from = "disbursing" /\ done = "disbursed" /\ failed = "refused" /\ sign = 1
         \/ from = "repaying" /\ done = "repaid" /\ failed = "unrepaid" /\ sign = -1,
         LedgerAnswers(r, from, done, failed, sign),
         UNCHANGED <<pledgeVars, deskVars>>
  PROVE  CollateralInv'
<1> DEFINE request == collateralCall[r]
           b == request.book
           c1 == At(request, done)
           c2 == At(request, failed)
<1>1. request \in CallStates /\ request.at = from BY DEF LedgerAnswers, CollateralInv, CollateralTypes
<1>2. /\ b \in Books /\ request.amount \in Nat
      /\ c1 \in CallStates /\ c1.at = done /\ c1.book = b /\ c1.amount = request.amount
      /\ c2 \in CallStates /\ c2.at = failed /\ c2.book = b /\ c2.amount = request.amount
  <2>1. \/ from \in LoanStages /\ done \in LoanStages /\ failed \in LoanStages
        \/ from \in RepaymentStages /\ done \in RepaymentStages /\ failed \in RepaymentStages
    BY DEF LoanStages, RepaymentStages
  <2> HIDE DEF request
  <2> QED BY <1>1, <2>1, MovedCall
<1>3. PICK a \in Nat, n \in Int : a = request.amount /\ n = sign * request.amount /\ n = (IF sign = 1 THEN a ELSE -a)
  <2>1. sign = 1 \/ sign = -1 OBVIOUS
  <2>2. sign * request.amount = IF sign = 1 THEN request.amount ELSE -request.amount BY <1>2, <2>1
  <2> QED BY <1>2, <2>2
<1>4. /\ MarginDue(request) = 0
      /\ \A x : ReservedIn(x, request) = (IF b = x THEN n ELSE 0)
  <2> HIDE DEF request
  <2> QED BY <1>1, <1>3, WhatCallsHold
<1>5. MarginDue(c1) = n /\ \A x : ReservedIn(x, c1) = 0
  <2> HIDE DEF request, c1
  <2> QED BY <1>2, <1>3, WhatCallsHold
<1>6. MarginDue(c2) = 0 /\ \A x : ReservedIn(x, c2) = (IF b = x THEN n ELSE 0)
  <2> HIDE DEF request, c2, b
  <2> QED BY <1>2, <1>3, WhatCallsHold
<1>7. UNCHANGED <<outstanding, accruing, restored>> /\ accruing \in BOOLEAN
  BY DEF LedgerAnswers, CollateralInv, CollateralTypes
<1>8. /\ outstanding[b] \in Nat /\ outstanding' = [outstanding EXCEPT ![b] = outstanding[b]]
      /\ outstanding[b] <= CapFor(b, peak) + (IF b = "loan" THEN restored' ELSE 0)
      /\ restored' \in Nat /\ restored <= restored' /\ accountMargin \in Int BY <1>2, <1>7, SamePrincipal
<1>9. paidOut \in [Books -> Int] /\ unnoticed \in [Books -> Int] BY DEF CollateralInv, CollateralTypes
<1>10. c1.at # "read" /\ c2.at # "read" BY <1>2
<1>11. UNCHANGED <<pledges, utilized, peak, lent, borrowed>> BY DEF pledgeVars, deskVars
<1> DEFINE more(h) == [h EXCEPT ![b] = @ + n]
<1>12. \/ Proceeds(r, done) /\ paidOut' = more(paidOut) /\ UNCHANGED unnoticed
       \/ Proceeds(r, failed) /\ UNCHANGED <<paidOut, unnoticed>>
       \/ Proceeds(r, failed) /\ paidOut' = more(paidOut) /\ unnoticed' = more(unnoticed)
  BY <1>3 DEF LedgerAnswers
<1>13. /\ more(paidOut) \in [Books -> Int] /\ more(unnoticed) \in [Books -> Int]
       /\ \A x \in Books : more(paidOut)[x] - unnoticed[x] = paidOut[x] - unnoticed[x] + (IF x = b THEN n ELSE 0)
       /\ \A x \in Books : more(paidOut)[x] - more(unnoticed)[x] = paidOut[x] - unnoticed[x]
  <2> HIDE DEF b
  <2> QED BY <1>2, <1>9, PaidMore
<1>14. /\ Proceeds(r, done) => collateralCall' = [collateralCall EXCEPT ![r] = c1] /\ accountMargin' = accountMargin
       /\ Proceeds(r, failed) => collateralCall' = [collateralCall EXCEPT ![r] = c2] /\ accountMargin' = accountMargin
  BY DEF Proceeds, At
<1> HIDE DEF request, b, c1, c2, more
<1>15. CASE Proceeds(r, done) /\ paidOut' = more(paidOut) /\ UNCHANGED unnoticed
  <2>1. /\ paidOut' \in [Books -> Int] /\ unnoticed' \in [Books -> Int]
        /\ \A x \in Books : paidOut'[x] - unnoticed'[x] = paidOut[x] - unnoticed[x] + (IF x = b THEN n ELSE 0)
    BY <1>9, <1>13, <1>15
  <2>2. /\ accountMargin' = accountMargin + n + MarginDue(request) - MarginDue(c1)
        /\ outstanding[b] >= outstanding[b] + n + ReservedIn(b, c1) - ReservedIn(b, request)
        /\ \A x \in Books \ {b} : ReservedIn(x, c1) = 0 /\ ReservedIn(x, request) = 0
    BY <1>4, <1>5, <1>8, <1>14, <1>15
  <2>3. LoanStep(r, c1, b, outstanding[b], n)
    BY <1>2, <1>7, <1>8, <1>10, <1>11, <1>14, <1>15, <2>1, <2>2 DEF LoanStep, request
  <2> QED BY <1>2, <2>3, LoanStepKeepsInv
<1>16. ASSUME /\ Proceeds(r, failed) /\ paidOut' \in [Books -> Int] /\ unnoticed' \in [Books -> Int]
              /\ \A x \in Books : paidOut'[x] - unnoticed'[x] = paidOut[x] - unnoticed[x]
       PROVE  CollateralInv'
  <2>1. \A x \in Books : paidOut'[x] - unnoticed'[x] = paidOut[x] - unnoticed[x] + (IF x = b THEN 0 ELSE 0)
    BY <1>9, <1>16
  <2>2. /\ accountMargin' = accountMargin + 0 + MarginDue(request) - MarginDue(c2)
        /\ outstanding[b] >= outstanding[b] + 0 + ReservedIn(b, c2) - ReservedIn(b, request)
        /\ \A x \in Books \ {b} : ReservedIn(x, c2) = 0 /\ ReservedIn(x, request) = 0
    BY <1>4, <1>6, <1>8, <1>14, <1>16
  <2>3. 0 \in Int /\ collateralCall' = [collateralCall EXCEPT ![r] = c2] BY <1>14, <1>16
  <2>4. accountMargin' = accountMargin + 0 + MarginDue(collateralCall[r]) - MarginDue(c2) BY <2>2 DEF request
  <2>5. LoanStep(r, c2, b, outstanding[b], 0)
    BY <1>2, <1>7, <1>8, <1>10, <1>11, <1>16, <2>1, <2>2, <2>3, <2>4 DEF LoanStep, request
  <2> QED BY <1>2, <2>5, LoanStepKeepsInv
<1>17. CASE Proceeds(r, failed) /\ UNCHANGED <<paidOut, unnoticed>> BY <1>9, <1>17, <1>16
<1>18. CASE Proceeds(r, failed) /\ paidOut' = more(paidOut) /\ unnoticed' = more(unnoticed)
  BY <1>13, <1>16, <1>18
<1> QED BY <1>12, <1>15, <1>17, <1>18

\* A call that ends replies, and with it the margin changes by what it had due.
ReplyStep(r, b, principal1) ==
  /\ collateralCall[r].at \in {"disbursed", "refused", "repaid", "unrepaid"}
  /\ collateralCall[r].book = b
  /\ Replies(r, MarginDue(collateralCall[r]))
  /\ UNCHANGED <<paidOut, unnoticed, pledgeVars, deskVars>> /\ accruing' \in BOOLEAN
  /\ principal1 \in Nat /\ outstanding' = [outstanding EXCEPT ![b] = principal1]
  /\ principal1 >= outstanding[b] - ReservedIn(b, collateralCall[r])
  /\ restored' \in Nat /\ restored <= restored'
  /\ principal1 <= CapFor(b, peak) + (IF b = "loan" THEN restored' ELSE 0)

\* Such a reply keeps the books straight.
LEMMA ReplyKeepsInv ==
  ASSUME CollateralInv, NEW r \in CollateralRequests, NEW b \in Books, NEW principal1,
         ReplyStep(r, b, principal1)
  PROVE  CollateralInv'
<1> USE DEF ReplyStep
<1> DEFINE request == collateralCall[r]
           c == NoRequest
<1>1. request \in CallStates /\ c \in CallStates /\ c.at = "idle"
  BY DEF CollateralInv, CollateralTypes, CallStates, NoRequest
<1>2. collateralCall' = [collateralCall EXCEPT ![r] = c] /\ accountMargin' = accountMargin + MarginDue(request)
  BY DEF Replies
<1>3. UNCHANGED <<pledges, utilized, peak, lent, borrowed>> BY DEF pledgeVars, deskVars
<1>4. /\ paidOut' \in [Books -> Int] /\ unnoticed' \in [Books -> Int]
      /\ \A x \in Books : paidOut'[x] - unnoticed'[x] = paidOut[x] - unnoticed[x] + (IF x = b THEN 0 ELSE 0)
      /\ outstanding[b] \in Nat /\ accountMargin \in Int BY DEF CollateralInv, CollateralTypes
<1>5. \A x \in Books \ {b} : ReservedIn(x, request) = 0
  <2> HIDE DEF request
  <2> QED BY WhatCallsHold DEF request
<1> HIDE DEF c
<1>6. MarginDue(c) = 0 /\ \A x : ReservedIn(x, c) = 0 BY <1>1, WhatCallsHold
<1>7. MarginDue(request) \in Int /\ ReservedIn(b, request) \in Int BY <1>1, CallNumbers
<1>8. /\ accountMargin' = accountMargin + 0 + MarginDue(request) - MarginDue(c)
      /\ principal1 >= outstanding[b] + 0 + ReservedIn(b, c) - ReservedIn(b, request)
  BY <1>2, <1>4, <1>6, <1>7
<1>9. LoanStep(r, c, b, principal1, 0) BY <1>1, <1>2, <1>3, <1>4, <1>5, <1>6, <1>8 DEF LoanStep
<1> QED BY <1>1, <1>9, LoanStepKeepsInv

\* A reservation the ledger refused is taken back, or as much of it as is still owed.
LEMMA RollbackKeepsInv ==
  ASSUME CollateralInv, NEW r \in CollateralRequests, RollbackReservation(r),
         UNCHANGED <<pledgeVars, deskVars>>
  PROVE  CollateralInv'
<1> DEFINE request == collateralCall[r]
           b == request.book
           principal1 == IF outstanding[b] > request.amount THEN outstanding[b] - request.amount ELSE 0
<1>1. /\ request \in CallStates /\ request.at = "refused" /\ Replies(r, 0)
      /\ outstanding' = [outstanding EXCEPT ![b] = principal1]
      /\ UNCHANGED <<accruing, paidOut, unnoticed, restored>>
  BY DEF RollbackReservation, CollateralInv, CollateralTypes
<1>2. b \in Books /\ request.amount \in Nat BY <1>1, CallShapes
<1>3. outstanding[b] \in Nat /\ restored \in Nat /\ accruing \in BOOLEAN
  BY <1>2 DEF CollateralInv, CollateralTypes
<1>4. principal1 \in Nat /\ principal1 <= outstanding[b] /\ principal1 >= outstanding[b] - request.amount
  BY <1>2, <1>3
<1>5. outstanding[b] <= CapFor(b, peak) + (IF b = "loan" THEN restored ELSE 0) /\ CapFor(b, peak) \in Nat
  BY <1>2, CapIsMonotone DEF CollateralInv, CollateralTypes, CreditStaysUnderTheCollateral
<1> HIDE DEF principal1, request, b
<1>6. MarginDue(request) = 0 /\ ReservedIn(b, request) = request.amount BY <1>1, WhatCallsHold DEF b
<1>7. Replies(r, MarginDue(request)) /\ principal1 >= outstanding[b] - ReservedIn(b, request)
  BY <1>1, <1>4, <1>6
<1>8. /\ principal1 <= CapFor(b, peak) + (IF b = "loan" THEN restored' ELSE 0)
      /\ restored' \in Nat /\ restored <= restored' /\ accruing' \in BOOLEAN BY <1>1, <1>3, <1>4, <1>5
<1>9. ReplyStep(r, b, principal1) BY <1>1, <1>2, <1>4, <1>7, <1>8 DEF ReplyStep, request, b
<1> QED BY <1>2, <1>9, ReplyKeepsInv

\* What was paid out is credited, and for funding the interest begins.
LEMMA CreditedKeepsInv ==
  ASSUME CollateralInv, NEW r \in CollateralRequests, DisbursementIsCredited(r),
         UNCHANGED <<pledgeVars, deskVars>>
  PROVE  CollateralInv'
<1> DEFINE request == collateralCall[r]
           b == request.book
<1>1. /\ request \in CallStates /\ request.at = "disbursed" /\ Replies(r, request.amount)
      /\ UNCHANGED <<outstanding, paidOut, unnoticed, restored>>
      /\ accruing' = (accruing \/ b = "funding") BY DEF DisbursementIsCredited, CollateralInv, CollateralTypes
<1>2. b \in Books BY <1>1, CallShapes
<1>3. /\ outstanding[b] \in Nat /\ outstanding' = [outstanding EXCEPT ![b] = outstanding[b]]
      /\ outstanding[b] <= CapFor(b, peak) + (IF b = "loan" THEN restored' ELSE 0)
      /\ restored' \in Nat /\ restored <= restored' /\ accruing' \in BOOLEAN BY <1>1, <1>2, SamePrincipal
<1> HIDE DEF request, b
<1>4. MarginDue(request) = request.amount /\ ReservedIn(b, request) = 0 BY <1>1, WhatCallsHold
<1>5. outstanding[b] >= outstanding[b] - ReservedIn(b, request) BY <1>3, <1>4
<1>6. ReplyStep(r, b, outstanding[b]) BY <1>1, <1>2, <1>3, <1>4, <1>5 DEF ReplyStep, request, b
<1> QED BY <1>2, <1>6, ReplyKeepsInv

\* What was repaid and not posted is owed again.
LEMMA RestoreKeepsInv ==
  ASSUME CollateralInv, NEW r \in CollateralRequests, RestorePrincipalAfterFailedRepayment(r),
         UNCHANGED <<pledgeVars, deskVars>>
  PROVE  CollateralInv'
<1> DEFINE request == collateralCall[r]
           b == "loan"
           principal1 == outstanding[b] + request.amount
<1>1. /\ request \in CallStates /\ request.at = "unrepaid" /\ Replies(r, 0)
      /\ outstanding' = [outstanding EXCEPT ![b] = principal1]
      /\ restored' = restored + request.amount
      /\ UNCHANGED <<accruing, paidOut, unnoticed>>
  BY DEF RestorePrincipalAfterFailedRepayment, CollateralInv, CollateralTypes
<1>2. b \in Books /\ request.amount \in Nat /\ request.book = b BY <1>1, CallShapes DEF Books
<1>3. outstanding[b] \in Nat /\ restored \in Nat /\ accruing \in BOOLEAN
  BY <1>2 DEF CollateralInv, CollateralTypes
<1>4. outstanding[b] <= CapFor(b, peak) + restored /\ CapFor(b, peak) \in Nat
  BY <1>2, CapIsMonotone DEF CollateralInv, CollateralTypes, CreditStaysUnderTheCollateral
<1>5. /\ principal1 \in Nat /\ principal1 <= CapFor(b, peak) + restored'
      /\ restored' \in Nat /\ restored <= restored' BY <1>1, <1>2, <1>3, <1>4
<1>6. MarginDue(request) = 0 /\ ReservedIn(b, request) = -request.amount
  <2> HIDE DEF request
  <2> QED BY <1>1, <1>2, WhatCallsHold
<1>7. principal1 >= outstanding[b] - ReservedIn(b, request) BY <1>2, <1>3, <1>6
<1> HIDE DEF principal1, request
<1>8. ReplyStep(r, b, principal1) BY <1>1, <1>2, <1>3, <1>5, <1>6, <1>7 DEF ReplyStep, request
<1> QED BY <1>2, <1>8, ReplyKeepsInv

\* What was repaid leaves the margin.
LEMMA DebitedKeepsInv ==
  ASSUME CollateralInv, NEW r \in CollateralRequests, RepaymentIsDebited(r),
         UNCHANGED <<pledgeVars, deskVars>>
  PROVE  CollateralInv'
<1> DEFINE request == collateralCall[r]
           b == "loan"
<1>1. /\ request \in CallStates /\ request.at = "repaid" /\ Replies(r, -request.amount)
      /\ UNCHANGED <<outstanding, accruing, paidOut, unnoticed, restored>>
  BY DEF RepaymentIsDebited, CollateralInv, CollateralTypes, loanVars
<1>2. b \in Books /\ request.book = b BY <1>1, CallShapes DEF Books
<1>3. /\ outstanding[b] \in Nat /\ outstanding' = [outstanding EXCEPT ![b] = outstanding[b]]
      /\ outstanding[b] <= CapFor(b, peak) + (IF b = "loan" THEN restored' ELSE 0)
      /\ restored' \in Nat /\ restored <= restored' /\ accruing' \in BOOLEAN
  BY <1>1, <1>2, SamePrincipal DEF CollateralInv, CollateralTypes
<1> HIDE DEF request
<1>4. MarginDue(request) = -request.amount /\ ReservedIn(b, request) = 0 BY <1>1, WhatCallsHold
<1>5. outstanding[b] >= outstanding[b] - ReservedIn(b, request) BY <1>3, <1>4
<1>6. ReplyStep(r, b, outstanding[b]) BY <1>1, <1>2, <1>3, <1>4, <1>5 DEF ReplyStep, request
<1> QED BY <1>2, <1>6, ReplyKeepsInv

\* Every step of a loan.
LEMMA LoanNextKeepsInv == ASSUME CollateralInv, LoanNext PROVE CollateralInv'
<1>1. PICK r \in CollateralRequests :
          \/ RequestReadsPledges(r) \/ RequestFunding(r) \/ RequestLoan(r) \/ RepayLoan(r)
          \/ PostDisbursementJournalEntry(r) \/ PostRepaymentJournalEntry(r)
          \/ RollbackReservation(r) \/ DisbursementIsCredited(r)
          \/ RestorePrincipalAfterFailedRepayment(r) \/ RepaymentIsDebited(r) BY DEF LoanNext
<1>2. UNCHANGED <<pledgeVars, deskVars>> /\ {"funding", "loan"} \subseteq Books BY DEF LoanNext, Books
<1>3. CASE RequestFunding(r) \/ RequestLoan(r) BY <1>2, <1>3, ReserveKeepsInv DEF RequestFunding, RequestLoan
<1>4. CASE PostDisbursementJournalEntry(r)
  BY <1>2, <1>4, LedgerAnswersKeepsInv DEF PostDisbursementJournalEntry
<1>5. CASE PostRepaymentJournalEntry(r) BY <1>2, <1>5, LedgerAnswersKeepsInv DEF PostRepaymentJournalEntry
<1> QED BY <1>1, <1>2, <1>3, <1>4, <1>5, RequestReadsPledgesKeepsInv, RepayLoanKeepsInv, RollbackKeepsInv,
           CreditedKeepsInv, RestoreKeepsInv, DebitedKeepsInv

--------------------
\* A step that touches no book but the margin set aside for orders keeps them straight.
LEMMA BooksUntouched ==
  ASSUME CollateralInv, utilized' \in Nat,
         UNCHANGED <<pledges, peak, accountMargin, collateralCall, outstanding, accruing,
                     paidOut, unnoticed, restored, lent>>
  PROVE  CollateralInv'
<1>1. CollateralTypes' BY DEF CollateralInv, CollateralTypes
<1>2. PeakIsPassed' /\ MarginMirrorsTheCredit' /\ DebtsAreNotForgotten' /\ CreditStaysUnderTheCollateral'
  BY DEF CollateralInv, PeakIsPassed, TotalPledgedMarginValue, MarginMirrorsTheCredit,
         DebtsAreNotForgotten, CreditStaysUnderTheCollateral, CapFor, CalculateLoanToValueCap
<1>3. PledgesReleaseWhatTheyGave' BY DEF CollateralInv, PledgesReleaseWhatTheyGave
<1> QED BY <1>1, <1>2, <1>3 DEF CollateralInv

\* A step of the pledge book: what is pledged of s becomes quantity1 and value1, and call
\* r is to credit the difference.
PledgeStep(r, s, quantity1, value1) ==
  /\ collateralCall[r] = NoRequest
  /\ collateralCall' = [collateralCall EXCEPT
           ![r] = [at |-> "crediting", amount |-> value1 - pledges[s].value]]
  /\ pledges' \in [Shares -> [quantity : Nat, value : Nat]]
  /\ pledges'[s].quantity = quantity1 /\ pledges'[s].value = value1
  /\ \A x \in Shares \ {s} : pledges'[x] = pledges[x]
  /\ quantity1 \in Nat /\ value1 \in Nat /\ quantity1 <= HeldShares[s]
  /\ quantity1 = 0 => value1 = 0
  /\ peak' \in Nat /\ peak <= peak'
  /\ TotalPledgedMarginValue + value1 - pledges[s].value <= peak'
  /\ UNCHANGED <<utilized, accountMargin, outstanding, accruing, paidOut, unnoticed, restored, lent, borrowed>>

\* Such a step keeps the books straight.
LEMMA PledgeStepKeepsInv ==
  ASSUME CollateralInv, NEW r \in CollateralRequests, NEW s \in Shares, NEW quantity1, NEW value1,
         PledgeStep(r, s, quantity1, value1)
  PROVE  CollateralInv'
<1> USE DEF PledgeStep
<1> DEFINE c == [at |-> "crediting", amount |-> value1 - pledges[s].value]
<1>1. /\ pledges \in [Shares -> [quantity : Nat, value : Nat]] /\ IsFiniteSet(Shares)
      /\ peak \in Nat /\ restored \in Nat /\ pledges[s].value \in Nat
      /\ accountMargin \in Int BY CollateralAssumption DEF CollateralInv, CollateralTypes, Shares
<1>2. c \in CallStates /\ c.at = "crediting" /\ c.amount = value1 - pledges[s].value BY <1>1 DEF CallStates
<1>3. NoRequest.at = "idle" BY DEF NoRequest
<1>4. pledges' \in [Shares -> [quantity : Nat, value : Nat]] /\ DOMAIN pledges = Shares /\ DOMAIN pledges' = Shares
  BY <1>1
<1>5. /\ TotalPledgedMarginValue \in Nat
      /\ TotalPledgedMarginValue' = TotalPledgedMarginValue + value1 - pledges[s].value
  <2> DEFINE f == [x \in Shares |-> pledges[x].value]
             g == [x \in Shares |-> pledges'[x].value]
  <2>1. IntOn(f, Shares) /\ IntOn(g, Shares) BY <1>1, <1>4 DEF IntOn
  <2>2. f[s] = pledges[s].value /\ g[s] = value1 /\ \A x \in Shares \ {s} : g[x] = f[x] BY <1>1
  <2>3. TotalPledgedMarginValue = SumFunctionOnSet(f, Shares) BY <1>4 DEF TotalPledgedMarginValue, SumFunction
  <2>4. TotalPledgedMarginValue' = SumFunctionOnSet(g, Shares)
    BY <1>4 DEF TotalPledgedMarginValue, SumFunction
  <2> HIDE DEF f, g
  <2>5. /\ SumFunctionOnSet(g, Shares) = SumFunctionOnSet(f, Shares) - f[s] + g[s]
        /\ SumFunctionOnSet(f, Shares) \in Int BY <1>1, <2>1, <2>2, SumChanged
  <2>6. TotalPledgedMarginValue \in Nat BY TotalIsNat DEF CollateralInv
  <2> QED BY <1>1, <2>2, <2>3, <2>4, <2>5, <2>6
<1> DEFINE idle == collateralCall[r]
<1>6. collateralCall' = [collateralCall EXCEPT ![r] = c] /\ idle.at = "idle" BY <1>3
<1> HIDE DEF c, idle
<1>7. /\ MarginDue(c) = value1 - pledges[s].value /\ MarginDue(idle) = 0
      /\ \A x : ReservedIn(x, c) = 0 /\ ReservedIn(x, idle) = 0 BY <1>2, <1>6, WhatCallsHold
<1>8. /\ collateralCall' \in [CollateralRequests -> CallStates]
      /\ Due \in Int /\ Due' = Due + (value1 - pledges[s].value)
      /\ \A x \in Books : ReservedOf(x)' = ReservedOf(x)
  <2>1. /\ collateralCall' \in [CollateralRequests -> CallStates]
        /\ Due \in Int /\ Due' \in Int
        /\ Due' = Due - MarginDue(idle) + MarginDue(c)
        /\ \A b \in Books :
              /\ ReservedOf(b) \in Int /\ ReservedOf(b)' \in Int
              /\ ReservedOf(b)' = ReservedOf(b) - ReservedIn(b, idle) + ReservedIn(b, c)
    BY <1>2, <1>6, OneCallMoves DEF CollateralInv, idle
  <2> QED BY <1>1, <1>7, <2>1
<1>9. CollateralTypes' BY <1>4, <1>8 DEF CollateralInv, CollateralTypes
<1>10. PeakIsPassed'
  <2>1. ASSUME NEW q \in CollateralRequests, collateralCall'[q].at = "read"
        PROVE  collateralCall'[q].value <= peak'
    <3>1. q # r /\ collateralCall'[q] = collateralCall[q]
      BY <1>2, <1>6, <2>1 DEF CollateralInv, CollateralTypes
    <3>2. collateralCall[q].value <= peak /\ collateralCall[q] \in CallStates
      BY <2>1, <3>1 DEF CollateralInv, CollateralTypes, PeakIsPassed
    <3>3. collateralCall[q].value \in Nat BY <2>1, <3>1, <3>2, CallShapes
    <3> QED BY <1>1, <3>1, <3>2, <3>3
  <2>2. TotalPledgedMarginValue' <= peak' BY <1>5
  <2> QED BY <2>1, <2>2 DEF PeakIsPassed
<1>11. MarginMirrorsTheCredit'
  <2>1. /\ accountMargin + Due = TotalPledgedMarginValue + (paidOut["funding"] - unnoticed["funding"])
                                   + (paidOut["loan"] - unnoticed["loan"])
        /\ paidOut["funding"] \in Int /\ unnoticed["funding"] \in Int
        /\ paidOut["loan"] \in Int /\ unnoticed["loan"] \in Int
    BY DEF CollateralInv, CollateralTypes, MarginMirrorsTheCredit, Due, Books
  <2>2. accountMargin + Due' = TotalPledgedMarginValue' + (paidOut["funding"] - unnoticed["funding"])
                                   + (paidOut["loan"] - unnoticed["loan"])
    <3>1. PICK f \in Int, g \in Int :
             f = paidOut["funding"] - unnoticed["funding"] /\ g = paidOut["loan"] - unnoticed["loan"] BY <2>1
    <3>2. accountMargin + Due = TotalPledgedMarginValue + f + g BY <2>1, <3>1
    <3>3. value1 \in Nat OBVIOUS
    <3>4. accountMargin + Due' = TotalPledgedMarginValue' + f + g BY <1>1, <1>5, <1>8, <3>1, <3>2, <3>3
    <3> QED BY <3>1, <3>4
  <2> QED BY <2>2 DEF MarginMirrorsTheCredit, Due
<1>12. DebtsAreNotForgotten' BY <1>8 DEF CollateralInv, DebtsAreNotForgotten, ReservedOf
<1>13. CreditStaysUnderTheCollateral'
  <2> SUFFICES ASSUME NEW b \in Books
               PROVE  outstanding[b] <= CapFor(b, peak') + (IF b = "loan" THEN restored ELSE 0)
    BY DEF CreditStaysUnderTheCollateral, CapFor, CalculateLoanToValueCap
  <2>1. outstanding[b] <= CapFor(b, peak) + (IF b = "loan" THEN restored ELSE 0) /\ outstanding[b] \in Nat
    BY DEF CollateralInv, CollateralTypes, CreditStaysUnderTheCollateral
  <2>2. CapFor(b, peak) \in Nat /\ CapFor(b, peak') \in Nat /\ CapFor(b, peak) <= CapFor(b, peak')
    BY <1>1, CapIsMonotone
  <2> QED BY <1>1, <2>1, <2>2
<1>14. PledgesReleaseWhatTheyGave'
  <2> SUFFICES ASSUME NEW x \in Shares
               PROVE  /\ pledges'[x].quantity <= HeldShares[x] /\ lent[x] <= HeldShares[x]
                      /\ pledges'[x].value >= 0
                      /\ pledges'[x].quantity = 0 => pledges'[x].value = 0
    BY <1>4 DEF PledgesReleaseWhatTheyGave
  <2>1. /\ pledges[x].quantity <= HeldShares[x] /\ lent[x] <= HeldShares[x]
        /\ pledges[x].value >= 0 /\ pledges[x].quantity = 0 => pledges[x].value = 0
    BY <1>4 DEF CollateralInv, PledgesReleaseWhatTheyGave
  <2> QED BY <1>1, <2>1
<1> QED BY <1>9, <1>10, <1>11, <1>12, <1>13, <1>14 DEF CollateralInv

\* A pledge that gets another quantity and another value.
Repledged(f, s, a, b) == [f EXCEPT ![s].quantity = a, ![s].value = b]

\* It is a book of pledges, and the others are as they were.
LEMMA PledgeChanged ==
  ASSUME NEW f \in [Shares -> [quantity : Nat, value : Nat]], NEW s \in Shares, NEW a \in Nat, NEW b \in Nat
  PROVE  /\ Repledged(f, s, a, b) \in [Shares -> [quantity : Nat, value : Nat]]
         /\ Repledged(f, s, a, b)[s].quantity = a /\ Repledged(f, s, a, b)[s].value = b
         /\ \A x \in Shares \ {s} : Repledged(f, s, a, b)[x] = f[x]
<1> DEFINE h == Repledged(f, s, a, b)
<1> DEFINE g == [f EXCEPT ![s].quantity = a]
<1>1. DOMAIN g = Shares /\ g[s] = [f[s] EXCEPT !.quantity = a] /\ \A x \in Shares \ {s} : g[x] = f[x] OBVIOUS
<1>2. f[s] \in [quantity : Nat, value : Nat] OBVIOUS
<1>3. g[s] \in [quantity : Nat, value : Nat] /\ g[s].quantity = a BY <1>1, <1>2
<1>4. h = [g EXCEPT ![s].value = b] BY DEF Repledged
<1> HIDE DEF g, h
<1>5. DOMAIN h = Shares /\ h[s] = [g[s] EXCEPT !.value = b] /\ \A x \in Shares \ {s} : h[x] = f[x]
  BY <1>1, <1>4
<1>6. h[s] \in [quantity : Nat, value : Nat] /\ h[s].quantity = a /\ h[s].value = b BY <1>3, <1>5
<1>7. \A x \in Shares : h[x] \in [quantity : Nat, value : Nat] BY <1>5, <1>6
<1>8. h = [x \in Shares |-> h[x]] BY <1>4, <1>1
<1> QED BY <1>5, <1>6, <1>7, <1>8 DEF h

\* A pledge adds what the price of that call makes it worth.
LEMMA PledgeHoldingKeepsInv ==
  ASSUME CollateralInv, NEW r \in CollateralRequests, PledgeHolding(r), UNCHANGED <<loanVars, deskVars>>
  PROVE  CollateralInv'
<1>1. PICK s \in Shares, quantity \in Quantities, price \in ReferencePrices :
         LET value == roundToNearestMinorUnit(price * quantity * (100 - Haircut[s]), 100)
         IN /\ quantity <= HeldShares[s] - pledges[s].quantity
            /\ Calls(r, [at |-> "crediting", amount |-> value])
            /\ pledges' = [pledges EXCEPT ![s].quantity = @ + quantity, ![s].value = @ + value]
            /\ peak' = IF TotalPledgedMarginValue + value > peak
                       THEN TotalPledgedMarginValue + value ELSE peak
            /\ UNCHANGED <<utilized, accountMargin>> BY DEF PledgeHolding, CollateralInv, CollateralTypes
<1> DEFINE value == roundToNearestMinorUnit(price * quantity * (100 - Haircut[s]), 100)
           quantity1 == pledges[s].quantity + quantity
           value1 == pledges[s].value + value
<1>2. /\ quantity \in Nat \ {0} /\ price \in Nat /\ HeldShares[s] \in Nat /\ Haircut[s] \in 0 .. 100
      /\ pledges[s].quantity \in Nat /\ pledges[s].value \in Nat
      /\ pledges \in [Shares -> [quantity : Nat, value : Nat]]
  BY CollateralAssumption DEF CollateralInv, CollateralTypes, Shares
<1>3. value \in Nat
  <2>1. price * quantity * (100 - Haircut[s]) \in Nat BY <1>2
  <2>2. PICK n \in Nat : n = price * quantity * (100 - Haircut[s]) BY <2>1
  <2>3. roundToNearestMinorUnit(n, 100) \in Int /\ 0 <= roundToNearestMinorUnit(n, 100) BY RoundingIsMonotone
  <2> QED BY <2>2, <2>3
<1>4. /\ quantity <= HeldShares[s] - pledges[s].quantity
      /\ Calls(r, [at |-> "crediting", amount |-> value])
      /\ pledges' = [pledges EXCEPT ![s].quantity = @ + quantity, ![s].value = @ + value]
      /\ peak' = IF TotalPledgedMarginValue + value > peak THEN TotalPledgedMarginValue + value ELSE peak
      /\ UNCHANGED <<utilized, accountMargin>> BY <1>1
<1> HIDE DEF value
<1>5. value1 - pledges[s].value = value /\ value1 \in Nat /\ quantity1 \in Nat
      /\ quantity1 <= HeldShares[s] /\ (quantity1 = 0 => value1 = 0) BY <1>2, <1>3, <1>4
<1>6. /\ pledges' \in [Shares -> [quantity : Nat, value : Nat]]
      /\ pledges'[s].quantity = quantity1 /\ pledges'[s].value = value1
      /\ \A x \in Shares \ {s} : pledges'[x] = pledges[x]
  <2>1. pledges' = Repledged(pledges, s, quantity1, value1) BY <1>2, <1>4 DEF Repledged
  <2> HIDE DEF quantity1, value1
  <2>2. quantity1 \in Nat /\ value1 \in Nat /\ pledges \in [Shares -> [quantity : Nat, value : Nat]]
    BY <1>2, <1>5
  <2> QED BY <2>1, <2>2, PledgeChanged
<1>7. TotalPledgedMarginValue \in Nat /\ peak \in Nat BY TotalIsNat DEF CollateralInv, CollateralTypes
<1>8. peak' \in Nat /\ peak <= peak' /\ TotalPledgedMarginValue + value1 - pledges[s].value <= peak'
  BY <1>2, <1>3, <1>4, <1>5, <1>7
<1>9. /\ collateralCall[r] = NoRequest
      /\ collateralCall' = [collateralCall EXCEPT ![r] = [at |-> "crediting", amount |-> value1 - pledges[s].value]]
  BY <1>4, <1>5 DEF Calls
<1> HIDE DEF quantity1, value1
<1>10. PledgeStep(r, s, quantity1, value1) BY <1>4, <1>5, <1>6, <1>8, <1>9 DEF PledgeStep, loanVars, deskVars
<1> QED BY <1>10, PledgeStepKeepsInv

\* A part of a value is at most all of it, and all of it is all of it.
LEMMA ShareOfValue ==
  ASSUME NEW q \in Nat, NEW n \in Nat, NEW v \in Nat, n > 0, q <= n
  PROVE  (q * v) \div n \in Nat /\ (q * v) \div n <= v /\ (q = n => (q * v) \div n = v)
<1>1. PICK x \in Nat, m \in Nat : x = q * v /\ m = n * v OBVIOUS
<1>2. x <= m BY <1>1
<1>3. x \div n \in Nat BY <1>1
<1>4. PICK d \in Nat : d = x \div n BY <1>3
<1>5. n * d <= x /\ x < n * (d + 1) BY <1>4
<1>6. d <= v
  <2> SUFFICES ASSUME v + 1 <= d PROVE FALSE BY <1>4
  <2>1. n * (v + 1) <= n * d /\ n * d \in Nat /\ n * (v + 1) = m + n BY <1>1
  <2> QED BY <1>1, <1>2, <1>5, <2>1
<1>7. ASSUME q = n PROVE d = v
  <2>1. x = m BY <1>1, <1>7
  <2> SUFFICES ASSUME d + 1 <= v PROVE FALSE BY <1>4, <1>6
  <2>2. n * (d + 1) <= n * v /\ n * (d + 1) \in Nat OBVIOUS
  <2> QED BY <1>1, <1>5, <2>1, <2>2
<1> QED BY <1>1, <1>4, <1>6, <1>7

\* An unpledge releases the share of the value that its quantity is.
LEMMA UnpledgeHoldingKeepsInv ==
  ASSUME CollateralInv, NEW r \in CollateralRequests, UnpledgeHolding(r), UNCHANGED <<loanVars, deskVars>>
  PROVE  CollateralInv'
<1>1. PICK s \in Shares, quantity \in Quantities :
         LET freed == (quantity * pledges[s].value) \div pledges[s].quantity
         IN /\ pledges[s].quantity > 0 /\ quantity <= pledges[s].quantity
            /\ Calls(r, [at |-> "crediting", amount |-> -freed])
            /\ pledges' = [pledges EXCEPT ![s].quantity = @ - quantity, ![s].value = @ - freed]
            /\ UNCHANGED <<utilized, peak, accountMargin>>
  BY DEF UnpledgeHolding, CollateralInv, CollateralTypes
<1> DEFINE freed == (quantity * pledges[s].value) \div pledges[s].quantity
           quantity1 == pledges[s].quantity - quantity
           value1 == pledges[s].value - freed
<1>2. /\ quantity \in Nat \ {0} /\ HeldShares[s] \in Nat
      /\ pledges[s].quantity \in Nat /\ pledges[s].value \in Nat
      /\ pledges \in [Shares -> [quantity : Nat, value : Nat]]
      /\ pledges[s].quantity <= HeldShares[s]
  BY CollateralAssumption DEF CollateralInv, CollateralTypes, Shares, PledgesReleaseWhatTheyGave
<1>3. /\ pledges[s].quantity > 0 /\ quantity <= pledges[s].quantity
      /\ Calls(r, [at |-> "crediting", amount |-> -freed])
      /\ pledges' = [pledges EXCEPT ![s].quantity = @ - quantity, ![s].value = @ - freed]
      /\ UNCHANGED <<utilized, peak, accountMargin>> BY <1>1
<1>4. freed \in Nat /\ freed <= pledges[s].value /\ (quantity = pledges[s].quantity => freed = pledges[s].value)
  <2>1. PICK n \in Nat, v \in Nat : n = pledges[s].quantity /\ v = pledges[s].value BY <1>2
  <2>2. (quantity * v) \div n \in Nat /\ (quantity * v) \div n <= v /\ (quantity = n => (quantity * v) \div n = v)
    BY <1>2, <1>3, <2>1, ShareOfValue
  <2> QED BY <2>1, <2>2
<1> HIDE DEF freed
<1>5. /\ value1 - pledges[s].value = -freed /\ value1 \in Nat /\ quantity1 \in Nat
      /\ quantity1 <= HeldShares[s] /\ (quantity1 = 0 => value1 = 0) BY <1>2, <1>3, <1>4
<1>6. /\ pledges' \in [Shares -> [quantity : Nat, value : Nat]]
      /\ pledges'[s].quantity = quantity1 /\ pledges'[s].value = value1
      /\ \A x \in Shares \ {s} : pledges'[x] = pledges[x]
  <2>1. pledges' = Repledged(pledges, s, quantity1, value1) BY <1>2, <1>3 DEF Repledged
  <2> HIDE DEF quantity1, value1
  <2>2. quantity1 \in Nat /\ value1 \in Nat /\ pledges \in [Shares -> [quantity : Nat, value : Nat]]
    BY <1>2, <1>5
  <2> QED BY <2>1, <2>2, PledgeChanged
<1>7. TotalPledgedMarginValue \in Nat /\ peak \in Nat /\ TotalPledgedMarginValue <= peak
  BY TotalIsNat DEF CollateralInv, CollateralTypes, PeakIsPassed
<1>8. peak' \in Nat /\ peak <= peak' /\ TotalPledgedMarginValue + value1 - pledges[s].value <= peak'
  BY <1>2, <1>3, <1>4, <1>5, <1>7
<1>9. /\ collateralCall[r] = NoRequest
      /\ collateralCall' = [collateralCall EXCEPT ![r] = [at |-> "crediting", amount |-> value1 - pledges[s].value]]
  BY <1>3, <1>5 DEF Calls
<1> HIDE DEF quantity1, value1
<1>10. PledgeStep(r, s, quantity1, value1) BY <1>3, <1>5, <1>6, <1>8, <1>9 DEF PledgeStep, loanVars, deskVars
<1> QED BY <1>10, PledgeStepKeepsInv

\* What a call was to credit reaches the margin when it ends.
LEMMA CreditPledgedMarginKeepsInv ==
  ASSUME CollateralInv, NEW r \in CollateralRequests, CreditPledgedMargin(r), UNCHANGED <<loanVars, deskVars>>
  PROVE  CollateralInv'
<1> DEFINE request == collateralCall[r]
           c == NoRequest
           b == "loan"
<1>1. /\ request \in CallStates /\ request.at = "crediting" /\ b \in Books
      /\ collateralCall' = [collateralCall EXCEPT ![r] = c] /\ accountMargin' = accountMargin + request.amount
  BY DEF CreditPledgedMargin, Replies, CollateralInv, CollateralTypes, Books
<1>2. UNCHANGED <<pledges, utilized, peak, lent, borrowed, outstanding, accruing, paidOut, unnoticed, restored>>
  BY DEF CreditPledgedMargin, pledgeVars, loanVars, deskVars
<1>3. c \in CallStates /\ c.at = "idle" BY DEF CallStates, NoRequest
<1>4. request.amount \in Int BY <1>1, CallShapes
<1> HIDE DEF request, c
<1>5. /\ MarginDue(request) = request.amount /\ MarginDue(c) = 0
      /\ \A x : ReservedIn(x, c) = 0 /\ ReservedIn(x, request) = 0 BY <1>1, <1>3, WhatCallsHold
<1>6. /\ outstanding[b] \in Nat /\ outstanding' = [outstanding EXCEPT ![b] = outstanding[b]]
      /\ outstanding[b] <= CapFor(b, peak) + (IF b = "loan" THEN restored' ELSE 0)
      /\ restored' \in Nat /\ restored <= restored' /\ accountMargin \in Int BY <1>1, <1>2, SamePrincipal
<1>7. /\ paidOut' \in [Books -> Int] /\ unnoticed' \in [Books -> Int] /\ accruing' \in BOOLEAN
      /\ \A x \in Books : paidOut'[x] - unnoticed'[x] = paidOut[x] - unnoticed[x] + (IF x = b THEN 0 ELSE 0)
  BY <1>2 DEF CollateralInv, CollateralTypes
<1>8. /\ accountMargin' = accountMargin + 0 + MarginDue(request) - MarginDue(c)
      /\ outstanding[b] >= outstanding[b] + 0 + ReservedIn(b, c) - ReservedIn(b, request)
      /\ \A x \in Books \ {b} : ReservedIn(x, c) = 0 /\ ReservedIn(x, request) = 0
      /\ 0 \in Int BY <1>1, <1>4, <1>5, <1>6
<1> HIDE DEF b
<1>9. LoanStep(r, c, b, outstanding[b], 0) BY <1>1, <1>2, <1>3, <1>6, <1>7, <1>8 DEF LoanStep, request
<1> QED BY <1>1, <1>3, <1>9, LoanStepKeepsInv

\* Every step of a pledge.
LEMMA PledgeNextKeepsInv == ASSUME CollateralInv, PledgeNext PROVE CollateralInv'
<1>1. UNCHANGED <<loanVars, deskVars>> BY DEF PledgeNext
<1>2. CASE SetUtilizedMargin
  BY <1>1, <1>2, CollateralAssumption, BooksUntouched DEF SetUtilizedMargin, callVars, loanVars,
     deskVars
<1> QED BY <1>1, <1>2, PledgeHoldingKeepsInv, UnpledgeHoldingKeepsInv, CreditPledgedMarginKeepsInv DEF PledgeNext

\* The lending desk lends what is held and takes back what it lent.
LEMMA DeskNextKeepsInv == ASSUME CollateralInv, DeskNext PROVE CollateralInv'
<1>1. /\ UNCHANGED <<pledges, utilized, peak, outstanding, accruing, paidOut, unnoticed, restored>>
      /\ UNCHANGED <<accountMargin, collateralCall>> BY DEF DeskNext, pledgeVars, loanVars, callVars
<1>2. lent' \in [Shares -> Nat] /\ \A s \in Shares : lent'[s] <= HeldShares[s]
  <2>1. lent \in [Shares -> Nat] /\ \A s \in Shares : lent[s] <= HeldShares[s] /\ HeldShares[s] \in Nat
    BY CollateralAssumption DEF CollateralInv, CollateralTypes, PledgesReleaseWhatTheyGave, Shares
  <2>2. Quantities \subseteq Nat BY CollateralAssumption
  <2>3. CASE LendSecurity BY <2>1, <2>2, <2>3 DEF LendSecurity
  <2>4. CASE RecallLending BY <2>1, <2>2, <2>4 DEF RecallLending
  <2>5. CASE UNCHANGED lent BY <2>1, <2>5
  <2> QED BY <2>3, <2>4, <2>5 DEF DeskNext, BorrowSecurity, ReturnBorrowing
<1>3. CollateralTypes' BY <1>1, <1>2 DEF CollateralInv, CollateralTypes
<1>4. PeakIsPassed' /\ MarginMirrorsTheCredit' /\ DebtsAreNotForgotten' /\ CreditStaysUnderTheCollateral'
  BY <1>1 DEF CollateralInv, PeakIsPassed, TotalPledgedMarginValue, MarginMirrorsTheCredit,
              DebtsAreNotForgotten, CreditStaysUnderTheCollateral, CapFor, CalculateLoanToValueCap
<1>5. PledgesReleaseWhatTheyGave' BY <1>1, <1>2 DEF CollateralInv, CollateralTypes, PledgesReleaseWhatTheyGave
<1> QED BY <1>3, <1>4, <1>5 DEF CollateralInv

\* Nothing is pledged and nothing lent to begin with.
LEMMA CollateralInitInv == ASSUME CollateralInit PROVE CollateralInv
<1> USE DEF CollateralInit
<1>1. IsFiniteSet(Shares) /\ IsFiniteSet(CollateralRequests) /\ \A s \in Shares : HeldShares[s] \in Nat
  BY CollateralAssumption DEF Shares
<1>2. CollateralTypes
  <2>1. pledges \in [Shares -> [quantity : Nat, value : Nat]] /\ lent \in [Shares -> Nat] BY DEF Shares
  <2>2. NoRequest \in CallStates BY DEF CallStates
  <2>3. collateralCall \in [CollateralRequests -> CallStates]
    <3> HIDE DEF CollateralInit
    <3> QED BY <2>2 DEF CollateralInit
  <2>4. outstanding \in [Books -> Nat] /\ paidOut \in [Books -> Int] /\ unnoticed \in [Books -> Int] OBVIOUS
  <2>5. utilized \in Nat /\ peak \in Nat /\ restored \in Nat /\ accountMargin \in Int OBVIOUS
  <2>6. accruing \in BOOLEAN BY Zenon
  <2> HIDE DEF CollateralInit
  <2> QED BY <2>1, <2>3, <2>4, <2>5, <2>6 DEF CollateralTypes
<1>3. TotalPledgedMarginValue = 0
  <2> DEFINE f == [s \in Shares |-> pledges[s].value]
  <2>1. \A s \in Shares : f[s] = 0 BY DEF Shares
  <2>2. TotalPledgedMarginValue = SumFunctionOnSet(f, Shares)
    BY DEF TotalPledgedMarginValue, SumFunction, Shares
  <2> HIDE DEF f
  <2> QED BY <1>1, <2>1, <2>2, SumOfZeros
<1>4. NoRequest.at = "idle" BY DEF NoRequest
<1>5. \A r \in CollateralRequests : /\ MarginDue(collateralCall[r]) = 0
                                    /\ \A b : ReservedIn(b, collateralCall[r]) = 0 BY <1>4, WhatCallsHold
<1>6. Due = 0
  <2> DEFINE f == [r \in CollateralRequests |-> MarginDue(collateralCall[r])]
  <2>1. \A r \in CollateralRequests : f[r] = 0 BY <1>5
  <2>2. Due = SumFunctionOnSet(f, CollateralRequests) BY DEF Due, SumFunction
  <2> HIDE DEF f
  <2> QED BY <1>1, <2>1, <2>2, SumOfZeros
<1>7. ASSUME NEW b \in Books PROVE ReservedOf(b) = 0
  <2> DEFINE f == [r \in CollateralRequests |-> ReservedIn(b, collateralCall[r])]
  <2>1. \A r \in CollateralRequests : f[r] = 0 BY <1>5
  <2>2. ReservedOf(b) = SumFunctionOnSet(f, CollateralRequests) BY DEF ReservedOf, SumFunction
  <2> HIDE DEF f
  <2> QED BY <1>1, <2>1, <2>2, SumOfZeros
<1>8. PeakIsPassed BY <1>3, <1>4 DEF PeakIsPassed
<1>9. MarginMirrorsTheCredit BY <1>3, <1>6 DEF MarginMirrorsTheCredit, Due, Books
<1>10. DebtsAreNotForgotten BY <1>7 DEF DebtsAreNotForgotten, ReservedOf
<1>11. CreditStaysUnderTheCollateral
  <2> SUFFICES ASSUME NEW b \in Books PROVE 0 <= CapFor(b, 0) + (IF b = "loan" THEN 0 ELSE 0)
    BY DEF CreditStaysUnderTheCollateral
  <2> QED BY CapIsMonotone
<1>12. PledgesReleaseWhatTheyGave BY <1>1 DEF PledgesReleaseWhatTheyGave, Shares
<1> QED BY <1>2, <1>8, <1>9, <1>10, <1>11, <1>12 DEF CollateralInv

\* More days accrue no less interest.
LEMMA InterestIsMonotone ==
  ASSUME NEW p \in Nat, NEW d \in Int, NEW e \in Int, d <= e
  PROVE  /\ CalculateAccruedInterest(p, d) \in Int /\ CalculateAccruedInterest(p, e) \in Int
         /\ CalculateAccruedInterest(p, d) <= CalculateAccruedInterest(p, e)
<1>1. PICK x \in Int, y \in Int : x = p * 12 * d /\ y = p * 12 * e OBVIOUS
<1>2. x <= y /\ (e > 0 => 0 <= y)
  <2>1. PICK q \in Nat : q = p * 12 OBVIOUS
  <2>2. q * d <= q * e /\ (e > 0 => 0 <= q * e) OBVIOUS
  <2> QED BY <1>1, <2>1, <2>2
<1>3. /\ roundToNearestMinorUnit(x, 36500) \in Int /\ roundToNearestMinorUnit(y, 36500) \in Int
      /\ roundToNearestMinorUnit(x, 36500) <= roundToNearestMinorUnit(y, 36500) BY <1>2, RoundingIsMonotone
<1>4. 0 <= y => 0 <= roundToNearestMinorUnit(y, 36500) BY RoundingIsMonotone
<1>5. /\ CalculateAccruedInterest(p, d) = IF p <= 0 \/ d <= 0 THEN 0 ELSE roundToNearestMinorUnit(x, 36500)
      /\ CalculateAccruedInterest(p, e) = IF p <= 0 \/ e <= 0 THEN 0 ELSE roundToNearestMinorUnit(y, 36500)
  BY <1>1 DEF CalculateAccruedInterest
<1> QED BY <1>2, <1>3, <1>4, <1>5

\* So a projection never undercuts what has accrued, whatever the principal.
LEMMA InterestGrows == ASSUME CollateralTypes PROVE InterestOnlyGrows
<1> SUFFICES ASSUME NEW days \in {0, 365, 730}, NEW more \in {-1, 0, 365}
             PROVE  LiveInterestCost(days, more).incremental >= 0 BY DEF InterestOnlyGrows
<1> DEFINE p == outstanding["funding"]
           d == days + (IF more < 0 THEN 0 ELSE more)
<1>1. p \in Nat /\ days \in Int /\ d \in Int /\ days <= d BY DEF CollateralTypes, Books
<1>2. LiveInterestCost(days, more).incremental =
         (IF accruing THEN CalculateAccruedInterest(p, d) ELSE 0)
         - (IF accruing THEN CalculateAccruedInterest(p, days) ELSE 0) BY DEF LiveInterestCost
<1> HIDE DEF p, d
<1>3. /\ CalculateAccruedInterest(p, days) \in Int /\ CalculateAccruedInterest(p, d) \in Int
      /\ CalculateAccruedInterest(p, days) <= CalculateAccruedInterest(p, d) BY <1>1, InterestIsMonotone
<1>4. CASE accruing BY <1>2, <1>3, <1>4
<1>5. CASE ~accruing BY <1>2, <1>5
<1> QED BY <1>4, <1>5

\* Every step of the gateway's books keeps the collateral books straight: the others do
\* not touch them.
LEMMA CollateralIsInductive == ASSUME CollateralInv, [Next]_vars PROVE CollateralInv'
<1>1. CASE OnlyCollateral BY <1>1, PledgeNextKeepsInv, LoanNextKeepsInv, DeskNextKeepsInv DEF OnlyCollateral
<1>2. CASE UNCHANGED collateralVars
  BY <1>2, BooksUntouched DEF collateralVars, pledgeVars, loanVars, callVars, deskVars,
     CollateralInv, CollateralTypes
<1>3. OnlyAlgo \/ OnlyComposite \/ OnlyPositions \/ OnlyMonitors \/ OnlySessions \/ UNCHANGED vars
         => UNCHANGED collateralVars
  BY DEF OnlyAlgo, OnlyComposite, OnlyPositions, OnlyMonitors, OnlySessions, vars
<1> QED BY <1>1, <1>2, <1>3 DEF Next

\* Margin is what pledges and credit gave and took, no debt is forgotten, credit stays
\* under the collateral that was ever pledged, a pledge returns what it gave and interest
\* only grows, however requests interleave and whatever answers of the ledger are lost.
THEOREM CollateralBooksAreSound == Spec => []CollateralIsSound
<1>1. Init => CollateralInv BY CollateralInitInv DEF Init
<1>2. CollateralInv /\ [Next]_vars => CollateralInv' BY CollateralIsInductive
<1>3. CollateralInv => CollateralIsSound BY InterestGrows DEF CollateralInv, CollateralIsSound
<1> QED BY <1>1, <1>2, <1>3, PTL DEF Spec

--------------------
(* Positions: corporate actions and the dividend plan.                     *)

Holdings == {NotHeld} \cup [quantity : Nat \ {0}, cost : Int]
ActionEntries == [before : Holdings, target : Instruments, after : Holdings, cash : Nat]

ActionStages ==
  {Idle}
  \cup [at : {"sync"}, symbol : Instruments, quantity : Int, source : Instruments]
  \cup [at : {"zero"}, source : Instruments]
  \cup [at : {"credit"}, amount : Nat]
  \cup [at : {"post", "margin", "reinvest"}, symbol : Instruments, amount : Nat, price : Int]

ActionTypes ==
  /\ holdings \in [Instruments -> Holdings]
  /\ actionLog \in Seq(ActionEntries)
  /\ seeded \in Int /\ mergedIntoItself \in Int
  /\ position \in [Instruments -> Int] /\ traded \in [Instruments -> Int]
  /\ inOrder \in [Instruments -> BOOLEAN]
  /\ stage \in [ActionRequests -> ActionStages]
  /\ cash \in [action : Nat, event : Int, unheard : Int] /\ margin \in Int
  /\ autoReinvest \in BOOLEAN

\* A call that is yet to write the position of s, and what it writes is the holding.
Writes(call, s) ==
  \/ call.at = "sync" /\ s \in {call.symbol, call.source}
  \/ call.at = "zero" /\ s = call.source

WritesTheHolding(call, s) ==
  /\ call.at = "sync" /\ call.symbol = s => call.quantity = holdings[s].quantity
  /\ (call.at = "sync" /\ call.symbol # s /\ call.source = s) \/ (call.at = "zero" /\ call.source = s)
        => holdings[s].quantity = 0

\* While the changes of an instrument are in order there is at most one such call, and it
\* brings the position to the holding; when there is none the position is there.
WritesAreInOrder ==
  \A s \in Instruments : inOrder[s] =>
      /\ \A r, q \in ActionRequests : Writes(stage[r], s) /\ Writes(stage[q], s) => r = q
      /\ \A r \in ActionRequests : WritesTheHolding(stage[r], s)
      /\ (\A r \in ActionRequests : ~Writes(stage[r], s)) => position[s] = holdings[s].quantity + traded[s]

ActionInv ==
  /\ ActionTypes /\ WritesAreInOrder
  /\ CostBasisIsConserved /\ DividendsAreLogged /\ EventsReachTheMargin /\ ReinvestmentsSpendTheDividend

\* What is in order is what the run checks.
LEMMA InOrderFollows == ASSUME ActionTypes, WritesAreInOrder PROVE PositionsFollowTheHoldings
<1> SUFFICES ASSUME NEW s \in Instruments, inOrder[s], ~Syncing(s)
             PROVE  position[s] = holdings[s].quantity + traded[s] BY DEF PositionsFollowTheHoldings
<1>1. \A r \in ActionRequests : ~Writes(stage[r], s) BY DEF Syncing, Writes
<1> QED BY <1>1 DEF WritesAreInOrder

\* When one request moves on, the amounts at a stage change by what it brings and takes.
LEMMA OneStageMoves ==
  ASSUME ActionTypes, NEW r \in ActionRequests, NEW c \in ActionStages, NEW at \in {"credit", "margin"},
         stage' = [stage EXCEPT ![r] = c]
  PROVE  /\ TotalAt(at) \in Int /\ TotalAt(at)' \in Int
         /\ TotalAt(at)' = TotalAt(at) - AmountAt(at, stage[r]) + AmountAt(at, c)
         /\ AmountAt(at, stage[r]) \in Nat /\ AmountAt(at, c) \in Nat
<1>1. \A x \in ActionStages : AmountAt(at, x) \in Nat
  <2> SUFFICES ASSUME NEW x \in ActionStages, x.at = at PROVE x.amount \in Nat BY DEF AmountAt
  <2>1. Idle.at = "idle" BY DEF Idle
  <2> QED BY <2>1 DEF ActionStages
<1>2. /\ stage' \in [ActionRequests -> ActionStages] /\ stage \in [ActionRequests -> ActionStages]
      /\ stage'[r] = c /\ \A q \in ActionRequests \ {r} : stage'[q] = stage[q] BY DEF ActionTypes
<1> DEFINE f == [q \in ActionRequests |-> AmountAt(at, stage[q])]
           g == [q \in ActionRequests |-> AmountAt(at, stage'[q])]
<1>3. IntOn(f, ActionRequests) /\ IntOn(g, ActionRequests) BY <1>1, <1>2 DEF IntOn
<1>4. /\ f[r] = AmountAt(at, stage[r]) /\ g[r] = AmountAt(at, c)
      /\ \A q \in ActionRequests \ {r} : g[q] = f[q] BY <1>2
<1>5. TotalAt(at) = SumFunctionOnSet(f, ActionRequests) /\ TotalAt(at)' = SumFunctionOnSet(g, ActionRequests)
  BY DEF TotalAt, SumFunction
<1>6. IsFiniteSet(ActionRequests) BY PositionAssumption
<1>7. AmountAt(at, stage[r]) \in Nat /\ AmountAt(at, c) \in Nat BY <1>1, <1>2
<1> HIDE DEF f, g
<1> QED BY <1>3, <1>4, <1>5, <1>6, <1>7, SumChanged

\* The cost in the book changes by what one holding gains.
LEMMA OneHoldingMoves ==
  ASSUME ActionTypes, NEW s \in Instruments, NEW h \in Holdings,
         holdings' = [holdings EXCEPT ![s] = h]
  PROVE  /\ CostHeld \in Int /\ CostOf(s) \in Int /\ CostOf(s)' \in Int
         /\ CostHeld' = CostHeld - CostOf(s) + CostOf(s)'
         /\ CostOf(s)' = (IF h = NotHeld THEN 0 ELSE h.cost)
<1>1. \A x \in Holdings : x # NotHeld => x.cost \in Int BY DEF Holdings
<1>2. /\ holdings' \in [Instruments -> Holdings] /\ holdings \in [Instruments -> Holdings]
      /\ holdings'[s] = h /\ \A x \in Instruments \ {s} : holdings'[x] = holdings[x] BY DEF ActionTypes
<1> DEFINE f == [x \in Instruments |-> CostOf(x)]
           g == [x \in Instruments |-> IF holdings'[x] # NotHeld THEN holdings'[x].cost ELSE 0]
<1>3. IntOn(f, Instruments) /\ IntOn(g, Instruments) BY <1>1, <1>2 DEF IntOn, CostOf, Held
<1>4. /\ f[s] = CostOf(s) /\ g[s] = CostOf(s)' /\ CostOf(s)' = (IF h = NotHeld THEN 0 ELSE h.cost)
      /\ \A x \in Instruments \ {s} : g[x] = f[x] BY <1>2 DEF CostOf, Held
<1>5. CostHeld = SumFunctionOnSet(f, Instruments) BY DEF CostHeld, SumFunction
<1>6. CostHeld' = SumFunctionOnSet(g, Instruments) BY DEF CostHeld, SumFunction, CostOf, Held
<1>7. IsFiniteSet(Instruments) BY PositionAssumption
<1>8. f[s] \in Int /\ g[s] \in Int BY <1>3 DEF IntOn
<1> HIDE DEF f, g
<1> QED BY <1>3, <1>4, <1>5, <1>6, <1>7, <1>8, SumChanged

\* A request that neither was nor is about to write a position disturbs no order.
LEMMA QuietMove ==
  ASSUME ActionTypes, WritesAreInOrder, NEW r \in ActionRequests, NEW c \in ActionStages,
         stage[r].at \notin {"sync", "zero"}, c.at \notin {"sync", "zero"},
         stage' = [stage EXCEPT ![r] = c], UNCHANGED <<holdings, position, traded, inOrder>>
  PROVE  WritesAreInOrder'
<1>1. /\ stage'[r] = c /\ \A q \in ActionRequests \ {r} : stage'[q] = stage[q] BY DEF ActionTypes
<1>2. \A s : ~Writes(c, s) /\ ~Writes(stage[r], s) BY DEF Writes
<1>3. \A q \in ActionRequests : \A s : Writes(stage[q], s)' <=> Writes(stage[q], s) BY <1>1, <1>2
<1>4. \A q \in ActionRequests : \A s : WritesTheHolding(stage[q], s) => WritesTheHolding(stage[q], s)'
  <2> SUFFICES ASSUME NEW q \in ActionRequests, NEW s, WritesTheHolding(stage[q], s)
               PROVE  WritesTheHolding(stage[q], s)' OBVIOUS
  <2>1. CASE q = r BY <1>1, <2>1 DEF WritesTheHolding
  <2>2. CASE q # r BY <1>1, <2>2 DEF WritesTheHolding
  <2> QED BY <2>1, <2>2
<1> QED BY <1>3, <1>4 DEF WritesAreInOrder

\* A request that was idle changes the holdings of some instruments and is to write their
\* positions: the order is right from there, unless another write was outstanding.
ChangeStep(r, c, symbols) ==
  /\ stage[r] = Idle /\ stage' = [stage EXCEPT ![r] = c]
  /\ c.at = "sync" /\ symbols = {c.symbol, c.source}
  /\ holdings' \in [Instruments -> Holdings]
  /\ \A s \in Instruments \ symbols : holdings'[s] = holdings[s]
  /\ ChangeIsOrdered(symbols)
  /\ c.quantity = holdings'[c.symbol].quantity
  /\ c.source # c.symbol => holdings'[c.source].quantity = 0
  /\ UNCHANGED <<position, traded>>

\* Such a change is in order.
LEMMA ChangeKeepsOrder ==
  ASSUME ActionTypes, WritesAreInOrder, NEW r \in ActionRequests, NEW c \in ActionStages, NEW symbols,
         ChangeStep(r, c, symbols)
  PROVE  WritesAreInOrder' /\ inOrder' \in [Instruments -> BOOLEAN]
<1> USE DEF ChangeStep
<1>1. /\ stage'[r] = c /\ \A q \in ActionRequests \ {r} : stage'[q] = stage[q] BY DEF ActionTypes
<1>2. Idle.at = "idle" BY DEF Idle
<1>3. /\ \A s : ~Writes(stage[r], s)
      /\ \A s : Writes(c, s) <=> s \in symbols BY <1>2 DEF Writes
<1>4. \A s : Syncing(s) <=> \E q \in ActionRequests : Writes(stage[q], s) BY DEF Syncing, Writes
<1>5. inOrder' \in [Instruments -> BOOLEAN] BY DEF ChangeIsOrdered, ActionTypes
<1>6. ASSUME NEW s \in Instruments, inOrder'[s], s \in symbols
      PROVE  \A q \in ActionRequests : ~Writes(stage[q], s) BY <1>4, <1>6 DEF ChangeIsOrdered
<1>7. ASSUME NEW s \in Instruments, inOrder'[s], s \notin symbols
      PROVE  inOrder[s] /\ holdings'[s] = holdings[s] /\ ~Writes(c, s) BY <1>3, <1>7 DEF ChangeIsOrdered
<1> SUFFICES ASSUME NEW s \in Instruments, inOrder'[s]
             PROVE  /\ \A x, q \in ActionRequests : Writes(stage[x], s)' /\ Writes(stage[q], s)' => x = q
                    /\ \A q \in ActionRequests : WritesTheHolding(stage[q], s)'
                    /\ (\A q \in ActionRequests : ~Writes(stage[q], s)')
                          => position'[s] = holdings'[s].quantity + traded'[s] BY <1>5 DEF WritesAreInOrder
<1>8. CASE s \in symbols
  <2>1. \A q \in ActionRequests : Writes(stage[q], s)' <=> q = r BY <1>1, <1>3, <1>6, <1>8
  <2>2. ASSUME NEW q \in ActionRequests PROVE WritesTheHolding(stage[q], s)'
    <3>1. CASE q = r BY <1>1, <1>8, <3>1 DEF WritesTheHolding
    <3>2. CASE q # r BY <2>1, <3>2 DEF Writes, WritesTheHolding
    <3> QED BY <3>1, <3>2
  <2> QED BY <2>1, <2>2
<1>9. CASE s \notin symbols
  <2>1. \A q \in ActionRequests : Writes(stage[q], s)' <=> Writes(stage[q], s) BY <1>1, <1>3, <1>9
  <2>2. inOrder[s] /\ holdings'[s] = holdings[s] /\ ~Writes(c, s) BY <1>7, <1>9
  <2>3. ASSUME NEW q \in ActionRequests PROVE WritesTheHolding(stage[q], s)'
    <3>1. CASE q = r BY <1>1, <2>2, <3>1 DEF WritesTheHolding, Writes
    <3>2. CASE q # r BY <1>1, <2>2, <3>2 DEF WritesTheHolding, WritesAreInOrder
    <3> QED BY <3>1, <3>2
  <2> QED BY <2>1, <2>2, <2>3 DEF WritesAreInOrder
<1> QED BY <1>8, <1>9

\* What the log says corporate actions paid.
Logged == SumFunction([k \in DOMAIN actionLog |-> actionLog[k].cash])

\* An entry adds its cash to it.
LEMMA LogGrows ==
  ASSUME ActionTypes, NEW e \in ActionEntries, actionLog' = Append(actionLog, e)
  PROVE  actionLog' \in Seq(ActionEntries) /\ Logged \in Int /\ Logged' = Logged + e.cash /\ e.cash \in Nat
<1>1. actionLog' \in Seq(ActionEntries) /\ actionLog \in Seq(ActionEntries) BY DEF ActionTypes
<1>2. PICK n \in Nat : n = Len(actionLog) BY <1>1
<1>3. /\ DOMAIN actionLog = 1 .. n /\ DOMAIN actionLog' = 1 .. n + 1
      /\ actionLog'[n + 1] = e /\ \A k \in 1 .. n : actionLog'[k] = actionLog[k]
      /\ \A k \in 1 .. n : actionLog[k] \in ActionEntries BY <1>1, <1>2
<1>4. \A x \in ActionEntries : x.cash \in Nat BY DEF ActionEntries
<1> DEFINE f == [k \in 1 .. n |-> actionLog[k].cash]
           g == [k \in 1 .. n + 1 |-> actionLog'[k].cash]
<1>5. Logged = SumFunctionOnSet(f, 1 .. n) /\ Logged' = SumFunctionOnSet(g, 1 .. n + 1)
  BY <1>3 DEF Logged, SumFunction
<1>6. \A k \in 1 .. n : k \in 1 .. n + 1 OBVIOUS
<1>7. IntOn(f, 1 .. n) /\ IntOn(g, 1 .. n) /\ g[n + 1] = e.cash /\ e.cash \in Nat /\ \A k \in 1 .. n : f[k] = g[k]
  BY <1>3, <1>4, <1>6 DEF IntOn
<1>8. 1 .. n + 1 = (1 .. n) \cup {n + 1} /\ n + 1 \notin 1 .. n /\ IsFiniteSet(1 .. n)
  <2>1. 1 .. n + 1 = (1 .. n) \cup {n + 1} /\ n + 1 \notin 1 .. n OBVIOUS
  <2> QED BY <2>1, FS_Interval
<1> HIDE DEF f, g
<1>9. SumFunctionOnSet(f, 1 .. n) = SumFunctionOnSet(g, 1 .. n) /\ SumFunctionOnSet(f, 1 .. n) \in Int
  BY <1>7, <1>8, SumSame, SumIsInt
<1>10. SumFunctionOnSet(g, (1 .. n) \cup {n + 1}) = SumFunctionOnSet(g, 1 .. n) + g[n + 1]
  <2>1. PICK T, y : T = 1 .. n /\ y = n + 1 OBVIOUS
  <2>2. IsFiniteSet(T) /\ IntOn(g, T) /\ y \notin T /\ g[y] \in Int BY <1>7, <1>8, <2>1
  <2>3. SumFunctionOnSet(g, T \cup {y}) = SumFunctionOnSet(g, T) + g[y] BY <2>2, SumWith
  <2> QED BY <2>1, <2>3
<1> QED BY <1>1, <1>5, <1>7, <1>8, <1>9, <1>10

\* The target takes the cost of the source, whose holding goes.
Merged(symbol, target, after) ==
  /\ Held(symbol) /\ after # NotHeld /\ after.cost = CostOf(target) + holdings[symbol].cost
  /\ holdings' = [holdings EXCEPT ![target] = after, ![symbol] = NotHeld]

\* A merger moves the cost of its source to its target, and into itself removes it.
LEMMA MergerMovesCost ==
  ASSUME ActionTypes, NEW symbol \in Instruments, NEW target \in Instruments,
         NEW after \in Holdings, Merged(symbol, target, after)
  PROVE  /\ CostHeld \in Int /\ holdings[symbol].cost \in Int
         /\ CostHeld' = CostHeld - (IF target = symbol THEN holdings[symbol].cost ELSE 0)
<1> USE DEF Merged
<1>1. \A x \in Holdings : x # NotHeld => x.cost \in Int BY DEF Holdings
<1>2. /\ holdings \in [Instruments -> Holdings] /\ holdings' \in [Instruments -> Holdings]
      /\ holdings'[symbol] = NotHeld /\ (target # symbol => holdings'[target] = after)
      /\ \A x \in Instruments \ {symbol, target} : holdings'[x] = holdings[x] BY DEF ActionTypes, Holdings
<1> DEFINE f == [x \in Instruments |-> CostOf(x)]
           m == [x \in Instruments |-> IF x = target /\ target # symbol THEN f[target] + f[symbol] ELSE f[x]]
           g == [x \in Instruments |-> IF holdings'[x] # NotHeld THEN holdings'[x].cost ELSE 0]
<1>3. IntOn(f, Instruments) /\ IntOn(g, Instruments) BY <1>1, <1>2 DEF IntOn, CostOf, Held
<1>4. IntOn(m, Instruments) /\ \A x \in Instruments \ {target} : m[x] = f[x]
  <2>1. f[target] \in Int /\ f[symbol] \in Int BY <1>3 DEF IntOn
  <2> HIDE DEF f
  <2> QED BY <1>3, <2>1 DEF IntOn
<1>5. /\ f[symbol] = holdings[symbol].cost /\ f[target] = CostOf(target)
      /\ g[symbol] = 0 /\ (target # symbol => g[target] = after.cost)
      /\ \A x \in Instruments \ {symbol, target} : g[x] = f[x] BY <1>2 DEF CostOf, Held
<1>6. \A x \in Instruments \ {symbol} : g[x] = m[x] BY <1>5
<1>7. m[symbol] = f[symbol] /\ m[target] = IF target # symbol THEN f[target] + f[symbol] ELSE f[target]
  OBVIOUS
<1>8. CostHeld = SumFunctionOnSet(f, Instruments) BY DEF CostHeld, SumFunction
<1>9. CostHeld' = SumFunctionOnSet(g, Instruments) BY DEF CostHeld, SumFunction, CostOf, Held
<1>10. IsFiniteSet(Instruments) BY PositionAssumption
<1>11. f[symbol] \in Int /\ f[target] \in Int BY <1>3 DEF IntOn
<1> HIDE DEF f, g, m
<1>12. /\ SumFunctionOnSet(m, Instruments) = SumFunctionOnSet(f, Instruments) - f[target] + m[target]
       /\ SumFunctionOnSet(f, Instruments) \in Int /\ SumFunctionOnSet(m, Instruments) \in Int
  BY <1>3, <1>4, <1>10, SumChanged
<1>13. SumFunctionOnSet(g, Instruments) = SumFunctionOnSet(m, Instruments) - m[symbol] + g[symbol]
  BY <1>3, <1>4, <1>6, <1>10, SumChanged
<1> QED BY <1>5, <1>7, <1>8, <1>9, <1>11, <1>12, <1>13

\* A request that neither had nor has an amount to post or to add leaves those totals.
LEMMA TotalsStay ==
  ASSUME ActionTypes, NEW r \in ActionRequests, NEW c \in ActionStages,
         stage[r].at \notin {"credit", "margin"}, c.at \notin {"credit", "margin"},
         stage' = [stage EXCEPT ![r] = c]
  PROVE  /\ TotalAt("credit") \in Int /\ TotalAt("margin") \in Int
         /\ TotalAt("credit")' = TotalAt("credit") /\ TotalAt("margin")' = TotalAt("margin")
<1>1. \A at \in {"credit", "margin"} : AmountAt(at, stage[r]) = 0 /\ AmountAt(at, c) = 0 BY DEF AmountAt
<1>2. \A at \in {"credit", "margin"} :
         /\ TotalAt(at) \in Int /\ TotalAt(at)' \in Int
         /\ TotalAt(at)' = TotalAt(at) - AmountAt(at, stage[r]) + AmountAt(at, c) BY OneStageMoves
<1> QED BY <1>1, <1>2

\* A change of holdings whose cost adds up keeps the books of the account straight.
LEMMA ChangeKeepsInv ==
  ASSUME ActionInv, NEW r \in ActionRequests, NEW c \in ActionStages, NEW symbols,
         ChangeStep(r, c, symbols),
         actionLog' = actionLog \/ \E e \in ActionEntries : actionLog' = Append(actionLog, e),
         seeded' \in Int, mergedIntoItself' \in Int, CostHeld' = seeded' - mergedIntoItself',
         UNCHANGED <<cash, margin, autoReinvest, events>>
  PROVE  ActionInv'
<1>1. ActionTypes /\ WritesAreInOrder BY DEF ActionInv
<1>2. WritesAreInOrder' /\ inOrder' \in [Instruments -> BOOLEAN] BY <1>1, ChangeKeepsOrder
<1>3. /\ stage[r] = Idle /\ stage' = [stage EXCEPT ![r] = c] /\ c.at = "sync"
      /\ holdings' \in [Instruments -> Holdings] /\ UNCHANGED <<position, traded>> BY DEF ChangeStep
<1>4. Idle.at = "idle" BY DEF Idle
<1>5. /\ TotalAt("credit") \in Int /\ TotalAt("margin") \in Int
      /\ TotalAt("credit")' = TotalAt("credit") /\ TotalAt("margin")' = TotalAt("margin")
  BY <1>1, <1>3, <1>4, TotalsStay
<1>6. actionLog' \in Seq(ActionEntries) /\ cash.action + TotalAt("credit") <= Logged'
  <2>1. cash.action + TotalAt("credit") <= Logged /\ cash.action \in Nat
    BY DEF ActionInv, ActionTypes, DividendsAreLogged, Logged
  <2>2. CASE actionLog' = actionLog BY <1>1, <2>1, <2>2 DEF Logged, ActionTypes
  <2>3. CASE \E e \in ActionEntries : actionLog' = Append(actionLog, e)
    <3>1. PICK e \in ActionEntries : actionLog' = Append(actionLog, e) BY <2>3
    <3>2. actionLog' \in Seq(ActionEntries) /\ Logged \in Int /\ Logged' = Logged + e.cash /\ e.cash \in Nat
      BY <1>1, <3>1, LogGrows
    <3> QED BY <1>5, <2>1, <3>2
  <2> QED BY <2>2, <2>3
<1>7. ActionTypes' BY <1>1, <1>2, <1>3, <1>6 DEF ActionTypes
<1>8. CostBasisIsConserved' BY DEF CostBasisIsConserved
<1>9. DividendsAreLogged' /\ EventsReachTheMargin' /\ ReinvestmentsSpendTheDividend'
  BY <1>5, <1>6 DEF ActionInv, DividendsAreLogged, EventsReachTheMargin, ReinvestmentsSpendTheDividend, Logged
<1> QED BY <1>2, <1>7, <1>8, <1>9 DEF ActionInv

\* Seeding puts a cost into the book and takes what it replaces.
LEMMA SeedKeepsInv ==
  ASSUME ActionInv, NEW r \in ActionRequests, SeedCorporateActionsHolding(r) PROVE ActionInv'
<1>1. PICK symbol \in Instruments, quantity \in SeedQuantities, cst \in SeedCosts :
         LET holding == [quantity |-> quantity, cost |-> cst] IN
         /\ quantity > 0
         /\ holdings' = [holdings EXCEPT ![symbol] = holding]
         /\ seeded' = seeded + cst - CostOf(symbol)
         /\ ChangeIsOrdered({symbol})
         /\ stage' = [stage EXCEPT ![r] = [at |-> "sync", symbol |-> symbol, quantity |-> quantity, source |-> symbol]]
         /\ UNCHANGED <<actionLog, mergedIntoItself>> BY DEF SeedCorporateActionsHolding, SeedHolding
<1> DEFINE h == [quantity |-> quantity, cost |-> cst]
           c == [at |-> "sync", symbol |-> symbol, quantity |-> quantity, source |-> symbol]
<1>2. /\ stage[r] = Idle /\ UNCHANGED <<position, traded, cash, margin, autoReinvest, events>>
      /\ ActionTypes /\ seeded \in Int /\ mergedIntoItself \in Int
  BY DEF SeedCorporateActionsHolding, Begin, ActionInv, ActionTypes
<1>3. quantity \in Nat \ {0} /\ cst \in Int BY <1>1, PositionAssumption
<1>4. h \in Holdings /\ h # NotHeld /\ h.cost = cst /\ h.quantity = quantity BY <1>3 DEF Holdings, NotHeld
<1>5. c \in ActionStages /\ c.at = "sync" /\ c.symbol = symbol /\ c.source = symbol /\ c.quantity = quantity
  BY <1>3 DEF ActionStages
<1>6. holdings' \in [Instruments -> Holdings] /\ holdings'[symbol] = h
      /\ \A s \in Instruments \ {symbol} : holdings'[s] = holdings[s] BY <1>1, <1>2, <1>4 DEF ActionTypes
<1>7. CostHeld' = seeded' - mergedIntoItself' /\ seeded' \in Int /\ mergedIntoItself' \in Int
  <2>1. holdings' = [holdings EXCEPT ![symbol] = h] BY <1>1
  <2> HIDE DEF h
  <2>2. /\ CostHeld \in Int /\ CostOf(symbol) \in Int
        /\ CostHeld' = CostHeld - CostOf(symbol) + CostOf(symbol)'
        /\ CostOf(symbol)' = cst BY <1>2, <1>4, <2>1, OneHoldingMoves
  <2>3. CostHeld = seeded - mergedIntoItself BY DEF ActionInv, CostBasisIsConserved
  <2> QED BY <1>1, <1>2, <1>3, <2>2, <2>3
<1> HIDE DEF h, c
<1>8. ChangeStep(r, c, {symbol}) BY <1>1, <1>2, <1>4, <1>5, <1>6 DEF ChangeStep, c
<1> QED BY <1>1, <1>2, <1>5, <1>7, <1>8, ChangeKeepsInv

\* A split or a bonus changes a quantity and no cost.
LEMMA MultiplyingKeepsInv ==
  ASSUME ActionInv, NEW r \in ActionRequests, NEW symbol \in Instruments, NEW num \in Int, NEW den \in Int,
         stage[r] = Idle, applyQuantityMultiplyingAction(r, symbol, num, den),
         UNCHANGED <<position, traded, cash, margin, autoReinvest, events>>
  PROVE  ActionInv'
<1> DEFINE before == holdings[symbol]
           quantity == (before.quantity * num) \div den
           after == [before EXCEPT !.quantity = quantity]
           c == [at |-> "sync", symbol |-> symbol, quantity |-> after.quantity, source |-> symbol]
           e == [before |-> before, target |-> symbol, after |-> after, cash |-> 0]
<1>1. /\ num > 0 /\ den > 0 /\ Held(symbol) /\ (before.quantity * num) % den = 0
      /\ holdings' = [holdings EXCEPT ![symbol] = after] /\ actionLog' = Append(actionLog, e)
      /\ ChangeIsOrdered({symbol}) /\ stage' = [stage EXCEPT ![r] = c]
      /\ UNCHANGED <<seeded, mergedIntoItself>> BY DEF applyQuantityMultiplyingAction, ChangeHoldings
<1>2. ActionTypes /\ seeded \in Int /\ mergedIntoItself \in Int /\ holdings \in [Instruments -> Holdings]
  BY DEF ActionInv, ActionTypes
<1>3. before \in [quantity : Nat \ {0}, cost : Int] BY <1>1, <1>2 DEF Held, Holdings
<1>4. quantity \in Nat \ {0}
  <2>1. PICK n \in Nat \ {0}, k \in Nat \ {0}, d \in Nat \ {0} : n = before.quantity /\ k = num /\ d = den
    BY <1>1, <1>3
  <2>2. n * k \in Nat \ {0} /\ (n * k) % d = 0
    <3>1. n * k \in Nat \ {0} OBVIOUS
    <3>2. (before.quantity * num) % den = 0 BY <1>1
    <3> HIDE DEF before, quantity
    <3>3. (n * k) % d = 0 BY <2>1, <3>2, Zenon
    <3> QED BY <3>1, <3>3
  <2>3. PICK m \in Nat \ {0} : m = n * k BY <2>2
  <2>4. m % d = 0 BY <2>2, <2>3
  <2>5. m \div d \in Nat \ {0}
    <3>1. m = d * (m \div d) + (m % d) /\ m \div d \in Int OBVIOUS
    <3>2. PICK q \in Int : q = m \div d BY <3>1
    <3>3. m = d * q BY <2>4, <3>1, <3>2
    <3>4. q > 0
      <4> SUFFICES ASSUME q <= 0 PROVE FALSE OBVIOUS
      <4>1. d * q <= 0 OBVIOUS
      <4> QED BY <3>3, <4>1
    <3> QED BY <3>2, <3>4
  <2> QED BY <2>1, <2>3, <2>5
<1> HIDE DEF quantity
<1>5. after \in [quantity : Nat \ {0}, cost : Int] /\ after.quantity = quantity /\ after.cost = before.cost
  BY <1>3, <1>4
<1>6. after \in Holdings /\ before \in Holdings /\ after # NotHeld BY <1>2, <1>4, <1>5 DEF NotHeld, Holdings
<1> HIDE DEF after
<1>7. c \in ActionStages /\ c.at = "sync" /\ c.symbol = symbol /\ c.source = symbol /\ c.quantity = after.quantity
  BY <1>4, <1>5 DEF ActionStages
<1>8. holdings' \in [Instruments -> Holdings] /\ holdings'[symbol] = after
      /\ \A s \in Instruments \ {symbol} : holdings'[s] = holdings[s] BY <1>1, <1>2, <1>6
<1>9. CostHeld' = seeded' - mergedIntoItself' /\ seeded' \in Int /\ mergedIntoItself' \in Int
  <2>1. /\ CostHeld \in Int /\ CostOf(symbol) \in Int
        /\ CostHeld' = CostHeld - CostOf(symbol) + CostOf(symbol)'
        /\ CostOf(symbol)' = before.cost BY <1>1, <1>2, <1>5, <1>6, OneHoldingMoves
  <2>2. CostOf(symbol) = before.cost BY <1>1 DEF CostOf
  <2>3. CostHeld = seeded - mergedIntoItself BY DEF ActionInv, CostBasisIsConserved
  <2> QED BY <1>1, <1>2, <2>1, <2>2, <2>3
<1>10. e \in ActionEntries BY <1>6 DEF ActionEntries
<1> HIDE DEF c, e, before
<1>11. ChangeStep(r, c, {symbol}) BY <1>1, <1>7, <1>8 DEF ChangeStep
<1> QED BY <1>1, <1>7, <1>9, <1>10, <1>11, ChangeKeepsInv

\* A merger moves a holding and its cost to the target.
LEMMA MergerKeepsInv ==
  ASSUME ActionInv, NEW r \in ActionRequests, NEW symbol \in Instruments, NEW target \in Instruments,
         NEW ratio, ratio.num \in Int, ratio.den \in Int,
         stage[r] = Idle, ApplyMerger(r, symbol, target, ratio),
         UNCHANGED <<position, traded, cash, margin, autoReinvest, events>>
  PROVE  ActionInv'
<1> DEFINE before == holdings[symbol]
           old == IF Held(target) THEN holdings[target] ELSE [quantity |-> 0, cost |-> 0]
           brought == (before.quantity * ratio.num) \div ratio.den
           after == [quantity |-> old.quantity + brought, cost |-> old.cost + before.cost]
           c == [at |-> "sync", symbol |-> target, quantity |-> after.quantity, source |-> symbol]
           e == [before |-> before, target |-> target, after |-> after, cash |-> 0]
<1>1. /\ ratio.num > 0 /\ ratio.den > 0 /\ Held(symbol) /\ (before.quantity * ratio.num) % ratio.den = 0
      /\ holdings' = [holdings EXCEPT ![target] = after, ![symbol] = NotHeld] /\ actionLog' = Append(actionLog, e)
      /\ mergedIntoItself' = mergedIntoItself + (IF target = symbol THEN before.cost ELSE 0)
      /\ IF target = symbol THEN inOrder' = [inOrder EXCEPT ![symbol] = FALSE]
         ELSE ChangeIsOrdered({symbol, target})
      /\ stage' = [stage EXCEPT ![r] = c] /\ UNCHANGED seeded BY DEF ApplyMerger, ChangeHoldings
<1>2. ActionTypes /\ seeded \in Int /\ mergedIntoItself \in Int /\ holdings \in [Instruments -> Holdings]
  BY DEF ActionInv, ActionTypes
<1>3. before \in [quantity : Nat \ {0}, cost : Int] BY <1>1, <1>2 DEF Held, Holdings
<1>4. old.quantity \in Nat /\ old.cost \in Int /\ old.cost = CostOf(target) BY <1>2 DEF Held, Holdings, CostOf
<1>5. brought \in Nat
  <2>1. PICK n \in Nat, d \in Nat \ {0} : n = before.quantity * ratio.num /\ d = ratio.den
    <3>1. before.quantity * ratio.num \in Nat BY <1>1, <1>3
    <3> QED BY <1>1, <3>1
  <2>2. n \div d \in Nat OBVIOUS
  <2> QED BY <2>1, <2>2
<1>6. brought > 0
  <2>1. PICK n \in Nat \ {0}, k \in Nat \ {0}, d \in Nat \ {0} : n = before.quantity /\ k = ratio.num /\ d = ratio.den
    <3>1. before.quantity \in Nat \ {0} BY <1>3
    <3> HIDE DEF before
    <3>2. ratio.num \in Nat \ {0} /\ ratio.den \in Nat \ {0} BY <1>1
    <3> QED BY <3>1, <3>2, Zenon
  <2>2. n * k \in Nat \ {0} /\ (n * k) % d = 0
    <3>1. n * k \in Nat \ {0} OBVIOUS
    <3>2. (before.quantity * ratio.num) % ratio.den = 0 BY <1>1
    <3> HIDE DEF before
    <3>3. (n * k) % d = 0 BY <2>1, <3>2, Zenon
    <3> QED BY <3>1, <3>3
  <2>3. PICK m \in Nat \ {0} : m = n * k BY <2>2
  <2>4. m % d = 0 /\ m = d * (m \div d) + (m % d) /\ m \div d \in Int BY <2>2, <2>3
  <2>5. m \div d # 0
    <3> SUFFICES ASSUME m \div d = 0 PROVE FALSE OBVIOUS
    <3> QED BY <2>4
  <2> QED BY <1>5, <2>1, <2>3, <2>5
<1> HIDE DEF brought, old
<1>7. after \in [quantity : Nat \ {0}, cost : Int] /\ after.cost = CostOf(target) + holdings[symbol].cost
  BY <1>3, <1>4, <1>5, <1>6
<1>8. after \in Holdings /\ before \in Holdings /\ after # NotHeld /\ NotHeld \in Holdings /\ NotHeld.quantity = 0
  BY <1>2, <1>7 DEF NotHeld, Holdings
<1> HIDE DEF after
<1>9. /\ c \in ActionStages /\ c.at = "sync" /\ c.symbol = target /\ c.source = symbol /\ c.quantity = after.quantity
      /\ after.quantity \in Int BY <1>7 DEF ActionStages
<1>10. /\ holdings' \in [Instruments -> Holdings] /\ holdings'[symbol] = NotHeld
       /\ target # symbol => holdings'[target] = after
       /\ \A s \in Instruments \ {symbol, target} : holdings'[s] = holdings[s] BY <1>1, <1>2, <1>8
<1>11. /\ CostHeld' = seeded' - mergedIntoItself' /\ seeded' \in Int /\ mergedIntoItself' \in Int
  <2>1. /\ CostHeld \in Int /\ holdings[symbol].cost \in Int
        /\ CostHeld' = CostHeld - (IF target = symbol THEN holdings[symbol].cost ELSE 0)
    <3>1. Merged(symbol, target, after) BY <1>1, <1>7, <1>8 DEF Merged
    <3> HIDE DEF before
    <3>2. CostHeld \in Int /\ holdings[symbol].cost \in Int BY <1>2, <1>8, <3>1, MergerMovesCost
    <3>3. CostHeld' = CostHeld - (IF target = symbol THEN holdings[symbol].cost ELSE 0)
      BY <1>2, <1>8, <3>1, MergerMovesCost
    <3> QED BY <3>2, <3>3
  <2>2. CostHeld = seeded - mergedIntoItself BY DEF ActionInv, CostBasisIsConserved
  <2> QED BY <1>1, <1>2, <2>1, <2>2
<1>12. e \in ActionEntries BY <1>8 DEF ActionEntries
<1> HIDE DEF c, e, before
<1>13. CASE target # symbol
  <2>1. ChangeStep(r, c, {symbol, target}) BY <1>1, <1>8, <1>9, <1>10, <1>13 DEF ChangeStep
  <2> QED BY <1>1, <1>9, <1>11, <1>12, <2>1, ChangeKeepsInv
<1>14. CASE target = symbol
  <2>1. WritesAreInOrder' /\ inOrder' \in [Instruments -> BOOLEAN]
    <3>1. /\ inOrder' = [inOrder EXCEPT ![symbol] = FALSE] /\ inOrder \in [Instruments -> BOOLEAN]
          /\ UNCHANGED <<position, traded>> BY <1>1, <1>2, <1>14 DEF ActionTypes
    <3>2. /\ stage'[r] = c /\ \A q \in ActionRequests \ {r} : stage'[q] = stage[q]
      BY <1>1, <1>2 DEF ActionTypes
    <3> SUFFICES ASSUME NEW s \in Instruments, inOrder'[s]
             PROVE  /\ \A x, q \in ActionRequests : Writes(stage[x], s)' /\ Writes(stage[q], s)' => x = q
                    /\ \A q \in ActionRequests : WritesTheHolding(stage[q], s)'
                    /\ (\A q \in ActionRequests : ~Writes(stage[q], s)')
                          => position'[s] = holdings'[s].quantity + traded'[s] BY <3>1 DEF WritesAreInOrder
    <3>3. s # symbol /\ inOrder[s] /\ holdings'[s] = holdings[s] BY <1>10, <1>14, <3>1
    <3>4. Idle.at = "idle" BY DEF Idle
    <3>5. ~Writes(c, s) /\ ~Writes(stage[r], s) BY <1>9, <1>14, <3>3, <3>4 DEF Writes
    <3>6. \A q \in ActionRequests : Writes(stage[q], s)' <=> Writes(stage[q], s) BY <3>2, <3>5
    <3>7. ASSUME NEW q \in ActionRequests PROVE WritesTheHolding(stage[q], s)'
      <4>1. CASE q = r BY <3>2, <3>5, <4>1 DEF Writes, WritesTheHolding
      <4>2. CASE q # r BY <1>2, <3>2, <3>3, <4>2 DEF WritesTheHolding, WritesAreInOrder, ActionInv
      <4> QED BY <4>1, <4>2
    <3> QED BY <3>1, <3>3, <3>6, <3>7 DEF WritesAreInOrder, ActionInv
  <2>2. Idle.at = "idle" BY DEF Idle
  <2>3. /\ TotalAt("credit") \in Int /\ TotalAt("margin") \in Int
        /\ TotalAt("credit")' = TotalAt("credit") /\ TotalAt("margin")' = TotalAt("margin")
    BY <1>1, <1>2, <1>9, <2>2, TotalsStay
  <2>4. actionLog' \in Seq(ActionEntries) /\ Logged \in Int /\ Logged' = Logged + e.cash /\ e.cash \in Nat
    BY <1>1, <1>2, <1>12, LogGrows
  <2>5. cash.action + TotalAt("credit") <= Logged /\ cash.action \in Nat
    BY <1>2 DEF ActionInv, ActionTypes, DividendsAreLogged, Logged
  <2>6. stage' \in [ActionRequests -> ActionStages] BY <1>1, <1>2, <1>9 DEF ActionTypes
  <2>7. ActionTypes' BY <1>2, <1>10, <1>11, <2>1, <2>4, <2>6 DEF ActionTypes
  <2>8. DividendsAreLogged' BY <2>3, <2>4, <2>5 DEF DividendsAreLogged, Logged
  <2>9. CostBasisIsConserved' /\ EventsReachTheMargin' /\ ReinvestmentsSpendTheDividend'
    BY <1>11, <2>3 DEF ActionInv, CostBasisIsConserved, EventsReachTheMargin, ReinvestmentsSpendTheDividend
  <2> QED BY <2>1, <2>7, <2>8, <2>9 DEF ActionInv
<1> QED BY <1>13, <1>14

\* What any such log holds is a number.
LEMMA LoggedIsInt ==
  ASSUME NEW log \in Seq(ActionEntries) PROVE SumFunction([k \in DOMAIN log |-> log[k].cash]) \in Int
<1>1. PICK n \in Nat : DOMAIN log = 1 .. n /\ \A k \in 1 .. n : log[k] \in ActionEntries
  <2>1. Len(log) \in Nat OBVIOUS
  <2> QED BY <2>1
<1> DEFINE f == [k \in 1 .. n |-> log[k].cash]
<1>2. IntOn(f, 1 .. n) BY <1>1 DEF IntOn, ActionEntries
<1>3. IsFiniteSet(1 .. n) BY FS_Interval
<1>4. [k \in DOMAIN log |-> log[k].cash] = f /\ DOMAIN f = 1 .. n BY <1>1
<1> HIDE DEF f
<1>5. SumFunction(f) = SumFunctionOnSet(f, 1 .. n) BY <1>4 DEF SumFunction
<1> QED BY <1>2, <1>3, <1>4, <1>5, SumIsInt

\* A request that touches no holding and no position moves on: what it takes to the ledger
\* was logged and what it takes to the ledger for an event it takes to the margin.
QuietStep(r, c) ==
  /\ stage[r].at \notin {"sync", "zero"} /\ c.at \notin {"sync", "zero"}
  /\ stage' = [stage EXCEPT ![r] = c]
  /\ UNCHANGED <<holdings, position, traded, inOrder, seeded, mergedIntoItself, autoReinvest>>
  /\ actionLog' \in Seq(ActionEntries) /\ cash' \in [action : Nat, event : Int, unheard : Int] /\ margin' \in Int
  /\ Logged' - cash'.action - AmountAt("credit", c) >= Logged - cash.action - AmountAt("credit", stage[r])
  /\ cash'.event - cash'.unheard - margin' - AmountAt("margin", c) = cash.event - cash.unheard - margin - AmountAt("margin", stage[r])
  /\ ReinvestmentsSpendTheDividend'

\* Such a step keeps the books straight.
LEMMA QuietKeepsInv ==
  ASSUME ActionInv, NEW r \in ActionRequests, NEW c \in ActionStages, QuietStep(r, c) PROVE ActionInv'
<1>1. ActionTypes /\ WritesAreInOrder BY DEF ActionInv
<1>2. /\ stage[r].at \notin {"sync", "zero"} /\ c.at \notin {"sync", "zero"}
      /\ stage' = [stage EXCEPT ![r] = c]
      /\ UNCHANGED <<holdings, position, traded, inOrder>> BY DEF QuietStep
<1>3. WritesAreInOrder' BY <1>1, <1>2, QuietMove
<1>4. ActionTypes' BY <1>1, <1>2 DEF QuietStep, ActionTypes
<1>5. CostBasisIsConserved' BY DEF QuietStep, CostHeld, CostOf, Held, ActionInv, CostBasisIsConserved
<1>6. DividendsAreLogged'
  <2>1. /\ TotalAt("credit") \in Int
        /\ TotalAt("credit")' = TotalAt("credit") - AmountAt("credit", stage[r]) + AmountAt("credit", c)
        /\ AmountAt("credit", stage[r]) \in Nat /\ AmountAt("credit", c) \in Nat BY <1>1, <1>2, OneStageMoves
  <2>2. Logged \in Int /\ Logged' \in Int BY <1>1, <1>4, LoggedIsInt DEF ActionTypes, Logged
  <2>3. cash.action \in Nat /\ cash'.action \in Nat BY <1>1 DEF ActionTypes, QuietStep
  <2>4. cash.action + TotalAt("credit") <= Logged BY DEF ActionInv, DividendsAreLogged, Logged
  <2>5. Logged' - cash'.action - AmountAt("credit", c) >= Logged - cash.action - AmountAt("credit", stage[r])
    BY DEF QuietStep
  <2>6. cash'.action + TotalAt("credit")' <= Logged' BY <2>1, <2>2, <2>3, <2>4, <2>5
  <2> QED BY <2>6 DEF DividendsAreLogged, Logged
<1>7. EventsReachTheMargin'
  <2>1. /\ TotalAt("margin") \in Int
        /\ TotalAt("margin")' = TotalAt("margin") - AmountAt("margin", stage[r]) + AmountAt("margin", c)
        /\ AmountAt("margin", stage[r]) \in Nat /\ AmountAt("margin", c) \in Nat BY <1>1, <1>2, OneStageMoves
  <2>2. cash.event \in Int /\ cash.unheard \in Int /\ cash'.event \in Int /\ cash'.unheard \in Int /\ margin \in Int /\ margin' \in Int
    BY <1>1 DEF ActionTypes, QuietStep
  <2>3. cash.event = margin + TotalAt("margin") + cash.unheard BY DEF ActionInv, EventsReachTheMargin
  <2>4. cash'.event - cash'.unheard - margin' - AmountAt("margin", c) = cash.event - cash.unheard - margin - AmountAt("margin", stage[r])
    BY DEF QuietStep
  <2>5. cash'.event = margin' + TotalAt("margin")' + cash'.unheard BY <2>1, <2>2, <2>3, <2>4
  <2> QED BY <2>5 DEF EventsReachTheMargin
<1>8. ReinvestmentsSpendTheDividend' BY DEF QuietStep
<1> QED BY <1>3, <1>4, <1>5, <1>6, <1>7, <1>8 DEF ActionInv

\* A cash dividend is logged before it is carried to the ledger.
LEMMA DividendKeepsInv ==
  ASSUME ActionInv, NEW r \in ActionRequests, NEW symbol \in Instruments, NEW perShare \in Int,
         stage[r] = Idle, ComputeCashDividendAmount(r, symbol, perShare),
         UNCHANGED <<position, traded, cash, margin, autoReinvest, events>>
  PROVE  ActionInv'
<1> DEFINE paid == holdings[symbol].quantity * perShare
           e == [before |-> holdings[symbol], target |-> symbol, after |-> holdings[symbol], cash |-> paid]
           c == [at |-> "credit", amount |-> paid]
<1>1. /\ perShare > 0 /\ Held(symbol) /\ actionLog' = Append(actionLog, e)
      /\ stage' = [stage EXCEPT ![r] = c] /\ UNCHANGED <<holdings, seeded, mergedIntoItself, inOrder>>
  BY DEF ComputeCashDividendAmount
<1>2. ActionTypes BY DEF ActionInv
<1>3. paid \in Nat /\ holdings[symbol] \in Holdings
  <2>1. holdings[symbol] \in [quantity : Nat \ {0}, cost : Int] /\ holdings[symbol] \in Holdings
    BY <1>1, <1>2 DEF ActionTypes, Held, Holdings
  <2>2. PICK n \in Nat, k \in Nat : n = holdings[symbol].quantity /\ k = perShare BY <1>1, <2>1
  <2>3. n * k \in Nat OBVIOUS
  <2> QED BY <2>1, <2>2, <2>3
<1> HIDE DEF paid
<1>4. e \in ActionEntries /\ e.cash = paid /\ c \in ActionStages /\ c.at = "credit" /\ c.amount = paid
  BY <1>3 DEF ActionEntries, ActionStages
<1> HIDE DEF e, c
<1>5. actionLog' \in Seq(ActionEntries) /\ Logged \in Int /\ Logged' = Logged + paid
  BY <1>1, <1>2, <1>4, LogGrows
<1>6. stage[r].at = "idle" BY DEF Idle
<1>7. /\ AmountAt("credit", c) = paid /\ AmountAt("credit", stage[r]) = 0
      /\ AmountAt("margin", c) = 0 /\ AmountAt("margin", stage[r]) = 0 BY <1>4, <1>6 DEF AmountAt
<1>8. /\ cash' = cash /\ margin' = margin /\ events' = events /\ cash \in [action : Nat, event : Int, unheard : Int] /\ margin \in Int
      /\ cash.action \in Nat BY <1>2 DEF ActionTypes
<1>9. ReinvestmentsSpendTheDividend' BY <1>8 DEF ReinvestmentsSpendTheDividend, ActionInv
<1>10. Logged' - cash'.action - AmountAt("credit", c) >= Logged - cash.action - AmountAt("credit", stage[r])
  BY <1>3, <1>5, <1>7, <1>8
<1>11. QuietStep(r, c) BY <1>1, <1>4, <1>5, <1>6, <1>7, <1>8, <1>9, <1>10 DEF QuietStep
<1> QED BY <1>4, <1>11, QuietKeepsInv

\* Every operation of the corporate actions desk.
LEMMA ProcessKeepsInv ==
  ASSUME ActionInv, NEW r \in ActionRequests, ProcessCorporateAction(r) PROVE ActionInv'
<1>1. stage[r] = Idle /\ UNCHANGED <<position, traded, cash, margin, autoReinvest, events>>
  BY DEF ProcessCorporateAction, Begin
<1>2. ASSUME NEW symbol \in Instruments, NEW ratio \in Ratios, ApplyStockSplit(r, symbol, ratio)
      PROVE  ActionInv' BY PositionAssumption, <1>1, <1>2, MultiplyingKeepsInv DEF ApplyStockSplit
<1>3. ASSUME NEW symbol \in Instruments, NEW ratio \in Ratios, ApplyBonusIssue(r, symbol, ratio)
      PROVE  ActionInv'
  <2>1. ratio.num \in Int /\ ratio.den \in Int BY PositionAssumption
  <2>2. PICK num \in Int : num = ratio.num + ratio.den BY <2>1
  <2>3. applyQuantityMultiplyingAction(r, symbol, num, ratio.den) BY <1>3, <2>2 DEF ApplyBonusIssue
  <2> QED BY <1>1, <2>1, <2>3, MultiplyingKeepsInv
<1>4. ASSUME NEW symbol \in Instruments, NEW ratio \in Ratios, NEW target \in Instruments,
             ApplyMerger(r, symbol, target, ratio)
      PROVE  ActionInv' BY PositionAssumption, <1>1, <1>4, MergerKeepsInv
<1>5. ASSUME NEW symbol \in Instruments, NEW perShare \in Dividends, ComputeCashDividendAmount(r, symbol, perShare)
      PROVE  ActionInv' BY PositionAssumption, <1>1, <1>5, DividendKeepsInv
<1> QED BY <1>2, <1>3, <1>4, <1>5 DEF ProcessCorporateAction

\* A step that writes positions and touches neither the holdings nor any amount.
PositionStep ==
  /\ UNCHANGED <<holdings, actionLog, seeded, mergedIntoItself, cash, margin, events>>
  /\ position' \in [Instruments -> Int] /\ traded' \in [Instruments -> Int]
  /\ inOrder' \in [Instruments -> BOOLEAN] /\ stage' \in [ActionRequests -> ActionStages]
  /\ autoReinvest' \in BOOLEAN
  /\ TotalAt("credit")' = TotalAt("credit") /\ TotalAt("margin")' = TotalAt("margin")
  /\ WritesAreInOrder'

\* Such a step keeps the books straight.
LEMMA PositionStepKeepsInv == ASSUME ActionInv, PositionStep PROVE ActionInv'
<1>1. /\ holdings' = holdings /\ actionLog' = actionLog /\ seeded' = seeded /\ events' = events
      /\ mergedIntoItself' = mergedIntoItself /\ cash' = cash /\ margin' = margin BY DEF PositionStep
<1>2. ActionTypes' BY <1>1 DEF PositionStep, ActionInv, ActionTypes
<1>3. CostBasisIsConserved' BY <1>1 DEF CostHeld, CostOf, Held, ActionInv, CostBasisIsConserved
<1>4. DividendsAreLogged' /\ EventsReachTheMargin' /\ ReinvestmentsSpendTheDividend'
  BY <1>1 DEF PositionStep, ActionInv, DividendsAreLogged, EventsReachTheMargin, ReinvestmentsSpendTheDividend
<1> QED BY <1>2, <1>3, <1>4 DEF ActionInv, PositionStep

\* The position of a changed holding is written; a merger's source is still to come.
LEMMA SyncKeepsInv == ASSUME ActionInv, NEW r \in ActionRequests, SyncPosition(r) PROVE ActionInv'
<1> DEFINE b == stage[r]
           c == IF b.source # b.symbol THEN [at |-> "zero", source |-> b.source] ELSE Idle
<1>1. /\ b.at = "sync" /\ stage' = [stage EXCEPT ![r] = c]
      /\ position' = [position EXCEPT ![b.symbol] = b.quantity] /\ traded' = [traded EXCEPT ![b.symbol] = 0]
      /\ inOrder' = inOrder /\ holdings' = holdings /\ autoReinvest' = autoReinvest
      /\ UNCHANGED <<holdings, actionLog, seeded, mergedIntoItself, cash, margin, events>>
  BY DEF ActionInv, SyncPosition, SetPositionDirectly, ActionTypes
<1>2. ActionTypes /\ WritesAreInOrder BY DEF ActionInv
<1>3. b.symbol \in Instruments /\ b.quantity \in Int /\ b.source \in Instruments
  <2>1. b \in ActionStages BY <1>2 DEF ActionTypes
  <2> HIDE DEF b, c
  <2> QED BY <1>1, <2>1 DEF ActionStages, Idle
<1>4. c \in ActionStages /\ c.at \notin {"credit", "margin", "sync"}
      /\ (b.source # b.symbol => c.at = "zero" /\ c.source = b.source)
      /\ (b.source = b.symbol => c.at = "idle")
  <2> HIDE DEF b
  <2> QED BY <1>3 DEF ActionStages, Idle
<1> HIDE DEF c
<1>5. stage'[r] = c /\ (\A q \in ActionRequests \ {r} : stage'[q] = stage[q]) /\ stage' \in [ActionRequests -> ActionStages]
  BY <1>1, <1>2, <1>4 DEF ActionTypes
<1>6. /\ TotalAt("credit")' = TotalAt("credit") /\ TotalAt("margin")' = TotalAt("margin")
  BY <1>1, <1>2, <1>4, TotalsStay
<1>7. /\ \A s : Writes(stage[r], s) <=> s \in {b.symbol, b.source}
      /\ \A s : Writes(c, s) <=> s = b.source /\ b.source # b.symbol BY <1>1, <1>4 DEF Writes
<1>8. /\ position' \in [Instruments -> Int] /\ traded' \in [Instruments -> Int]
      /\ position'[b.symbol] = b.quantity /\ traded'[b.symbol] = 0
      /\ \A s \in Instruments \ {b.symbol} : position'[s] = position[s] /\ traded'[s] = traded[s]
  BY <1>1, <1>2, <1>3 DEF ActionTypes
<1>9. WritesAreInOrder'
  <2> SUFFICES ASSUME NEW s \in Instruments, inOrder[s]
               PROVE  /\ \A x, q \in ActionRequests : Writes(stage[x], s)' /\ Writes(stage[q], s)' => x = q
                      /\ \A q \in ActionRequests : WritesTheHolding(stage[q], s)'
                      /\ (\A q \in ActionRequests : ~Writes(stage[q], s)')
                            => position'[s] = holdings'[s].quantity + traded'[s] BY <1>1 DEF WritesAreInOrder
  <2>1. /\ \A x, q \in ActionRequests : Writes(stage[x], s) /\ Writes(stage[q], s) => x = q
        /\ \A q \in ActionRequests : WritesTheHolding(stage[q], s)
        /\ (\A q \in ActionRequests : ~Writes(stage[q], s)) => position[s] = holdings[s].quantity + traded[s]
    BY <1>2 DEF WritesAreInOrder
  <2>2. \A q \in ActionRequests \ {r} : Writes(stage[q], s)' <=> Writes(stage[q], s) BY <1>5
  <2>3. Writes(stage[r], s)' <=> s = b.source /\ b.source # b.symbol BY <1>5, <1>7
  <2>4. \A q \in ActionRequests : WritesTheHolding(stage[q], s)'
    <3> SUFFICES ASSUME NEW q \in ActionRequests PROVE WritesTheHolding(stage[q], s)' OBVIOUS
    <3>1. CASE q = r BY <1>1, <1>4, <1>5, <2>1, <3>1 DEF WritesTheHolding
    <3>2. CASE q # r BY <2>1, <1>1, <1>5, <3>2 DEF WritesTheHolding
    <3> QED BY <3>1, <3>2
  <2>5. \A x, q \in ActionRequests : Writes(stage[x], s)' /\ Writes(stage[q], s)' => x = q
    BY <1>7, <2>3, <2>1, <2>2
  <2>6. ASSUME \A q \in ActionRequests : ~Writes(stage[q], s)'
        PROVE  position'[s] = holdings'[s].quantity + traded'[s]
    <3>1. CASE s = b.symbol
      <4>1. b.quantity = holdings[s].quantity BY <1>1, <2>1, <3>1 DEF WritesTheHolding
      <4>2. position'[s] = b.quantity /\ traded'[s] = 0 /\ holdings'[s].quantity = holdings[s].quantity
        BY <1>1, <1>8, <3>1
      <4> HIDE DEF b
      <4> QED BY <1>3, <4>1, <4>2
    <3>2. CASE s # b.symbol BY <1>7, <2>3, <2>6, <3>2, <2>2, <1>1, <1>8, <2>1
    <3> QED BY <3>1, <3>2
  <2> QED BY <2>4, <2>5, <2>6
<1>10. PositionStep BY <1>1, <1>2, <1>5, <1>6, <1>8, <1>9 DEF ActionTypes, PositionStep
<1> QED BY <1>10, PositionStepKeepsInv

\* The source of a merger has no position left.
LEMMA ZeroKeepsInv == ASSUME ActionInv, NEW r \in ActionRequests, ZeroMergedPosition(r) PROVE ActionInv'
<1> DEFINE b == stage[r]
<1>1. /\ b.at = "zero" /\ stage' = [stage EXCEPT ![r] = Idle]
      /\ position' = [position EXCEPT ![b.source] = 0] /\ traded' = [traded EXCEPT ![b.source] = 0]
      /\ inOrder' = inOrder /\ holdings' = holdings /\ autoReinvest' = autoReinvest
      /\ UNCHANGED <<holdings, actionLog, seeded, mergedIntoItself, cash, margin, events>>
  BY DEF ZeroMergedPosition, SetPositionDirectly
<1>2. ActionTypes /\ WritesAreInOrder BY DEF ActionInv
<1>3. b.source \in Instruments
  <2>1. b \in ActionStages BY <1>2 DEF ActionTypes
  <2> HIDE DEF b
  <2> QED BY <1>1, <2>1 DEF ActionStages, Idle
<1>4. Idle \in ActionStages /\ Idle.at = "idle" BY DEF ActionStages, Idle
<1>5. stage'[r] = Idle /\ (\A q \in ActionRequests \ {r} : stage'[q] = stage[q]) /\ stage' \in [ActionRequests -> ActionStages]
  BY <1>1, <1>2, <1>4 DEF ActionTypes
<1>6. /\ TotalAt("credit")' = TotalAt("credit") /\ TotalAt("margin")' = TotalAt("margin")
  BY <1>1, <1>2, <1>4, TotalsStay
<1>7. /\ \A s : Writes(stage[r], s) <=> s = b.source
      /\ \A s : ~Writes(Idle, s) BY <1>1, <1>4 DEF Writes
<1>8. /\ position' \in [Instruments -> Int] /\ traded' \in [Instruments -> Int]
      /\ position'[b.source] = 0 /\ traded'[b.source] = 0
      /\ \A s \in Instruments \ {b.source} : position'[s] = position[s] /\ traded'[s] = traded[s]
  BY <1>1, <1>2, <1>3 DEF ActionTypes
<1>9. WritesAreInOrder'
  <2> SUFFICES ASSUME NEW s \in Instruments, inOrder[s]
               PROVE  /\ \A x, q \in ActionRequests : Writes(stage[x], s)' /\ Writes(stage[q], s)' => x = q
                      /\ \A q \in ActionRequests : WritesTheHolding(stage[q], s)'
                      /\ (\A q \in ActionRequests : ~Writes(stage[q], s)')
                            => position'[s] = holdings'[s].quantity + traded'[s] BY <1>1 DEF WritesAreInOrder
  <2>1. /\ \A x, q \in ActionRequests : Writes(stage[x], s) /\ Writes(stage[q], s) => x = q
        /\ \A q \in ActionRequests : WritesTheHolding(stage[q], s)
        /\ (\A q \in ActionRequests : ~Writes(stage[q], s)) => position[s] = holdings[s].quantity + traded[s]
    BY <1>2 DEF WritesAreInOrder
  <2>2. \A q \in ActionRequests \ {r} : Writes(stage[q], s)' <=> Writes(stage[q], s) BY <1>5
  <2>3. ~Writes(stage[r], s)' BY <1>5, <1>7
  <2>4. \A q \in ActionRequests : WritesTheHolding(stage[q], s)'
    <3> SUFFICES ASSUME NEW q \in ActionRequests PROVE WritesTheHolding(stage[q], s)' OBVIOUS
    <3>1. CASE q = r BY <1>4, <1>5, <3>1 DEF WritesTheHolding
    <3>2. CASE q # r BY <2>1, <1>1, <1>5, <3>2 DEF WritesTheHolding
    <3> QED BY <3>1, <3>2
  <2>5. \A x, q \in ActionRequests : Writes(stage[x], s)' /\ Writes(stage[q], s)' => x = q BY <2>1, <2>2, <2>3
  <2>6. ASSUME \A q \in ActionRequests : ~Writes(stage[q], s)'
        PROVE  position'[s] = holdings'[s].quantity + traded'[s]
    <3>1. CASE s = b.source BY <1>1, <2>1, <3>1, <1>8 DEF WritesTheHolding
    <3>2. CASE s # b.source BY <1>7, <2>2, <2>6, <3>2, <1>1, <1>8, <2>1
    <3> QED BY <3>1, <3>2
  <2> QED BY <2>4, <2>5, <2>6
<1>10. PositionStep BY <1>1, <1>2, <1>5, <1>6, <1>8, <1>9 DEF ActionTypes, PositionStep
<1> QED BY <1>10, PositionStepKeepsInv

\* A dividend is credited, or is refused and forgotten.
LEMMA CreditKeepsInv == ASSUME ActionInv, NEW r \in ActionRequests, CreditDividend(r) PROVE ActionInv'
<1> DEFINE b == stage[r]
<1>1. ActionTypes /\ b \in ActionStages /\ cash \in [action : Nat, event : Int, unheard : Int]
  BY DEF ActionInv, ActionTypes
<1>2. /\ b.at = "credit" /\ stage' = [stage EXCEPT ![r] = Idle]
      /\ UNCHANGED <<holdings, actionLog, seeded, mergedIntoItself, position, traded, inOrder, margin, autoReinvest, events>>
      /\ \E posted \in BOOLEAN : cash' = [cash EXCEPT !.action = @ + (IF posted THEN b.amount ELSE 0)]
  BY DEF CreditDividend
<1> HIDE DEF b
<1>3. b.amount \in Nat BY <1>1, <1>2 DEF ActionStages, Idle
<1>4. PICK k \in Nat : cash' = [cash EXCEPT !.action = @ + k] /\ k <= b.amount BY <1>2, <1>3
<1>5. cash' \in [action : Nat, event : Int, unheard : Int] /\ cash'.action = cash.action + k /\ cash'.event = cash.event
      /\ cash.action \in Nat /\ cash.event \in Int /\ cash.unheard \in Int BY <1>1, <1>4
<1>6. Idle \in ActionStages /\ Idle.at = "idle" BY DEF ActionStages, Idle
<1>7. /\ AmountAt("credit", b) = b.amount /\ AmountAt("credit", Idle) = 0
      /\ AmountAt("margin", b) = 0 /\ AmountAt("margin", Idle) = 0 BY <1>2, <1>6 DEF AmountAt
<1>8. actionLog \in Seq(ActionEntries) /\ Logged \in Int /\ Logged' = Logged /\ margin \in Int
  BY <1>1, <1>2, LoggedIsInt DEF ActionTypes, Logged
<1>9. ReinvestmentsSpendTheDividend' BY <1>2 DEF ActionInv, ReinvestmentsSpendTheDividend
<1>10. Logged' - cash'.action - AmountAt("credit", Idle) >= Logged - cash.action - AmountAt("credit", b)
  BY <1>3, <1>4, <1>5, <1>7, <1>8
<1>11. cash'.event - cash'.unheard - margin' - AmountAt("margin", Idle) = cash.event - cash.unheard - margin - AmountAt("margin", b)
  BY <1>2, <1>5, <1>7
<1>12. QuietStep(r, Idle) BY <1>2, <1>5, <1>6, <1>8, <1>9, <1>10, <1>11 DEF QuietStep, b
<1> QED BY <1>6, <1>12, QuietKeepsInv

\* A dividend event is posted, and is then to be added to the margin, or is refused.
LEMMA PostKeepsInv == ASSUME ActionInv, NEW r \in ActionRequests, PostDividendEvent(r) PROVE ActionInv'
<1> DEFINE b == stage[r]
<1>1. ActionTypes /\ b \in ActionStages /\ cash \in [action : Nat, event : Int, unheard : Int]
  BY DEF ActionInv, ActionTypes
<1>2. /\ b.at = "post"
      /\ UNCHANGED <<holdings, actionLog, seeded, mergedIntoItself, position, traded, inOrder, margin, autoReinvest, events>>
      /\ \/ cash' = [cash EXCEPT !.event = @ + b.amount] /\ stage' = [stage EXCEPT ![r].at = "margin"]
         \/ /\ cash' = [cash EXCEPT !.event = @ + b.amount, !.unheard = @ + b.amount]
            /\ stage' = [stage EXCEPT ![r] = Idle]
         \/ stage' = [stage EXCEPT ![r] = Idle] /\ cash' = cash BY DEF PostDividendEvent
<1>3. b \in [at : {"post", "margin", "reinvest"}, symbol : Instruments, amount : Nat, price : Int]
  <2> HIDE DEF b
  <2> QED BY <1>1, <1>2 DEF ActionStages, Idle
<1>4. Logged \in Int /\ Logged' = Logged /\ margin \in Int /\ actionLog' = actionLog /\ margin' = margin
      /\ actionLog \in Seq(ActionEntries) /\ cash.action \in Nat /\ cash.event \in Int /\ cash.unheard \in Int
  BY <1>1, <1>2, LoggedIsInt DEF ActionTypes, Logged
<1>5. ReinvestmentsSpendTheDividend' BY <1>2 DEF ActionInv, ReinvestmentsSpendTheDividend
<1>6. CASE cash' = [cash EXCEPT !.event = @ + b.amount] /\ stage' = [stage EXCEPT ![r].at = "margin"]
  <2> DEFINE c == [b EXCEPT !.at = "margin"]
  <2>1. stage' = [stage EXCEPT ![r] = c] BY <1>1, <1>6 DEF ActionTypes
  <2>2. c \in ActionStages /\ c.at = "margin" /\ c.amount = b.amount
    <3> HIDE DEF b
    <3> QED BY <1>3 DEF ActionStages
  <2>3. cash' \in [action : Nat, event : Int, unheard : Int] /\ cash'.action = cash.action /\ cash'.event = cash.event + b.amount
      /\ cash'.unheard = cash.unheard
    <3> HIDE DEF b
    <3>1. b.amount \in Nat BY <1>3
    <3> QED BY <1>1, <1>6, <3>1 DEF b
  <2> HIDE DEF b, c
  <2>4. /\ AmountAt("credit", b) = 0 /\ AmountAt("credit", c) = 0
        /\ AmountAt("margin", b) = 0 /\ AmountAt("margin", c) = b.amount /\ b.amount \in Nat
    BY <1>2, <1>3, <2>2 DEF AmountAt
  <2>5. Logged' - cash'.action - AmountAt("credit", c) >= Logged - cash.action - AmountAt("credit", b)
    BY <1>4, <2>3, <2>4
  <2>6. cash'.event - cash'.unheard - margin' - AmountAt("margin", c) = cash.event - cash.unheard - margin - AmountAt("margin", b)
    BY <1>4, <2>3, <2>4
  <2>7. QuietStep(r, c) BY <1>2, <1>4, <1>5, <2>1, <2>2, <2>3, <2>5, <2>6 DEF QuietStep, b
  <2> QED BY <2>2, <2>7, QuietKeepsInv
<1>7. CASE /\ stage' = [stage EXCEPT ![r] = Idle]
           /\ \/ cash' = cash
              \/ cash' = [cash EXCEPT !.event = @ + b.amount, !.unheard = @ + b.amount]
  <2>1. Idle \in ActionStages /\ Idle.at = "idle" BY DEF ActionStages, Idle
  <2>6. /\ cash' \in [action : Nat, event : Int, unheard : Int] /\ cash'.action = cash.action
        /\ cash'.event - cash'.unheard = cash.event - cash.unheard
    <3> HIDE DEF b
    <3>1. b.amount \in Nat BY <1>3
    <3>2. CASE cash' = cash BY <1>1, <3>2
    <3>3. CASE cash' = [cash EXCEPT !.event = @ + b.amount, !.unheard = @ + b.amount]
      <4>1. PICK e \in Int, u \in Int : e = cash.event + b.amount /\ u = cash.unheard + b.amount BY <1>1, <3>1
      <4>2. cash' = [cash EXCEPT !.event = e, !.unheard = u] BY <3>3, <4>1
      <4>3. cash' \in [action : Nat, event : Int, unheard : Int] /\ cash'.action = cash.action
            /\ cash'.event = e /\ cash'.unheard = u BY <1>1, <4>2
      <4> QED BY <1>4, <3>1, <4>1, <4>3
    <3> QED BY <1>7, <3>2, <3>3
  <2> HIDE DEF b
  <2>2. /\ AmountAt("credit", b) = 0 /\ AmountAt("credit", Idle) = 0
        /\ AmountAt("margin", b) = 0 /\ AmountAt("margin", Idle) = 0 BY <1>2, <2>1 DEF AmountAt
  <2>3. Logged' - cash'.action - AmountAt("credit", Idle) >= Logged - cash.action - AmountAt("credit", b)
    BY <1>1, <1>4, <2>2, <2>6
  <2>4. cash'.event - cash'.unheard - margin' - AmountAt("margin", Idle) = cash.event - cash.unheard - margin - AmountAt("margin", b)
    BY <1>1, <1>4, <2>2, <2>6
  <2>5. QuietStep(r, Idle) BY <1>1, <1>2, <1>4, <1>5, <1>7, <2>1, <2>3, <2>4, <2>6 DEF QuietStep, b
  <2> QED BY <2>1, <2>5, QuietKeepsInv
<1> QED BY <1>2, <1>6, <1>7

\* What an event put into the ledger it adds to the margin.
LEMMA MarginKeepsInv ==
  ASSUME ActionInv, NEW r \in ActionRequests, AdjustMarginForDividend(r) PROVE ActionInv'
<1> DEFINE b == stage[r]
           c == [b EXCEPT !.at = "reinvest"]
<1>1. ActionTypes /\ b \in ActionStages /\ cash \in [action : Nat, event : Int, unheard : Int]
  BY DEF ActionInv, ActionTypes
<1>2. /\ b.at = "margin" /\ margin' = margin + b.amount /\ stage' = [stage EXCEPT ![r] = c]
      /\ UNCHANGED <<holdings, actionLog, seeded, mergedIntoItself, position, traded, inOrder, cash, autoReinvest, events>>
  BY <1>1 DEF AdjustMarginForDividend, ActionTypes
<1>3. /\ b \in [at : {"post", "margin", "reinvest"}, symbol : Instruments, amount : Nat, price : Int]
      /\ c \in ActionStages /\ c.at = "reinvest"
  <2> HIDE DEF b
  <2> QED BY <1>1, <1>2 DEF ActionStages, Idle
<1> HIDE DEF b, c
<1>4. Logged \in Int /\ Logged' = Logged /\ margin \in Int /\ actionLog' = actionLog /\ cash' = cash
      /\ actionLog \in Seq(ActionEntries) /\ cash.action \in Nat /\ cash.event \in Int /\ cash.unheard \in Int
  BY <1>1, <1>2, LoggedIsInt DEF ActionTypes, Logged
<1>5. ReinvestmentsSpendTheDividend' BY <1>2 DEF ActionInv, ReinvestmentsSpendTheDividend
<1>6. /\ AmountAt("credit", b) = 0 /\ AmountAt("credit", c) = 0
      /\ AmountAt("margin", b) = b.amount /\ AmountAt("margin", c) = 0 /\ b.amount \in Nat
  BY <1>2, <1>3 DEF AmountAt
<1>7. Logged' - cash'.action - AmountAt("credit", c) >= Logged - cash.action - AmountAt("credit", b)
  BY <1>4, <1>6
<1>8. margin' \in Int /\ cash'.event - cash'.unheard - margin' - AmountAt("margin", c) = cash.event - cash.unheard - margin - AmountAt("margin", b)
  BY <1>2, <1>4, <1>6
<1>9. QuietStep(r, c) BY <1>1, <1>2, <1>3, <1>4, <1>5, <1>7, <1>8 DEF QuietStep, b
<1> QED BY <1>3, <1>9, QuietKeepsInv

\* What a whole number of shares costs leaves less than the price of one.
LEMMA SharesOfTheDividend ==
  ASSUME NEW credit \in Nat, NEW price \in Nat \ {0}
  PROVE  LET plan == CalculateReinvestmentQuantity(credit, price) IN
         /\ plan.spent + plan.leftover = credit /\ plan.leftover >= 0 /\ plan.leftover < price
<1>1. credit \div price \in Int /\ credit = price * (credit \div price) + (credit % price) /\ credit % price \in 0 .. price - 1
  OBVIOUS
<1>2. PICK q \in Int : q = credit \div price BY <1>1
<1>3. PICK p \in Int : p = q * price /\ p = price * q
  <2>1. q * price \in Int /\ q * price = price * q OBVIOUS
  <2> QED BY <2>1
<1>4. PICK m \in 0 .. price - 1 : credit = p + m BY <1>1, <1>2, <1>3
<1> QED BY <1>2, <1>3, <1>4 DEF CalculateReinvestmentQuantity

\* The plan of an event spends no more than the event credited.
LEMMA ReinvestKeepsInv == ASSUME ActionInv, NEW r \in ActionRequests, Reinvest(r) PROVE ActionInv'
<1> DEFINE b == stage[r]
           none == [quantity |-> 0, spent |-> 0, leftover |-> b.amount]
           plan == IF autoReinvest /\ b.price > 0 THEN CalculateReinvestmentQuantity(b.amount, b.price) ELSE none
           event == [credit |-> b.amount, price |-> b.price, plan |-> plan, wanted |-> autoReinvest]
<1>1. ActionTypes /\ b \in ActionStages /\ cash \in [action : Nat, event : Int, unheard : Int]
  BY DEF ActionInv, ActionTypes
<1>2. /\ b.at = "reinvest" /\ events' = events \cup {event} /\ stage' = [stage EXCEPT ![r] = Idle]
      /\ UNCHANGED <<holdings, actionLog, seeded, mergedIntoItself, position, traded, inOrder, cash, margin, autoReinvest>>
  BY DEF Reinvest
<1>3. b.amount \in Nat /\ b.price \in Int
  <2> HIDE DEF b
  <2> QED BY <1>1, <1>2 DEF ActionStages, Idle
<1> HIDE DEF b
<1>4. /\ plan.spent + plan.leftover = b.amount /\ plan.leftover >= 0
      /\ (autoReinvest /\ b.price > 0) => plan.leftover < b.price
      /\ ~autoReinvest => plan.quantity = 0
  <2>1. CASE autoReinvest /\ b.price > 0
    <3>1. b.price \in Nat \ {0} BY <1>3, <2>1
    <3>2. plan = CalculateReinvestmentQuantity(b.amount, b.price) BY <2>1
    <3> HIDE DEF plan
    <3> QED BY <1>3, <2>1, <3>1, <3>2, SharesOfTheDividend
  <2>2. CASE ~(autoReinvest /\ b.price > 0)
    <3>1. plan = none /\ none.quantity = 0 /\ none.spent = 0 /\ none.leftover = b.amount BY <2>2
    <3> HIDE DEF plan, none
    <3> QED BY <1>3, <2>2, <3>1
  <2> QED BY <2>1, <2>2
<1> HIDE DEF plan, none
<1>5. ReinvestmentsSpendTheDividend'
  <2>1. event.credit = b.amount /\ event.price = b.price /\ event.plan = plan /\ event.wanted = autoReinvest
    OBVIOUS
  <2> HIDE DEF event
  <2> QED BY <1>2, <1>4, <2>1 DEF ActionInv, ReinvestmentsSpendTheDividend
<1>6. Idle \in ActionStages /\ Idle.at = "idle" BY DEF ActionStages, Idle
<1>7. /\ AmountAt("credit", b) = 0 /\ AmountAt("credit", Idle) = 0
      /\ AmountAt("margin", b) = 0 /\ AmountAt("margin", Idle) = 0 BY <1>2, <1>6 DEF AmountAt
<1>8. Logged \in Int /\ Logged' = Logged /\ margin \in Int /\ actionLog' = actionLog /\ cash' = cash /\ margin' = margin
      /\ actionLog \in Seq(ActionEntries) /\ cash.action \in Nat /\ cash.event \in Int /\ cash.unheard \in Int
  BY <1>1, <1>2, LoggedIsInt DEF ActionTypes, Logged
<1>9. Logged' - cash'.action - AmountAt("credit", Idle) >= Logged - cash.action - AmountAt("credit", b)
  BY <1>7, <1>8
<1>10. cash'.event - cash'.unheard - margin' - AmountAt("margin", Idle) = cash.event - cash.unheard - margin - AmountAt("margin", b)
  BY <1>7, <1>8
<1>11. QuietStep(r, Idle) BY <1>1, <1>2, <1>5, <1>6, <1>8, <1>9, <1>10 DEF QuietStep, b
<1> QED BY <1>6, <1>11, QuietKeepsInv

\* An event carries what the trading position earns.
LEMMA EventKeepsInv == ASSUME ActionInv, NEW r \in ActionRequests, ProcessDividendEvent(r) PROVE ActionInv'
<1>1. PICK symbol \in Instruments, perShare \in Dividends, price \in ReinvestmentPrices :
         /\ position[symbol] > 0 /\ perShare > 0
         /\ stage' = [stage EXCEPT ![r] =
               [at |-> "post", symbol |-> symbol, amount |-> position[symbol] * perShare, price |-> price]]
  BY DEF ProcessDividendEvent
<1>2. /\ stage[r] = Idle /\ ActionTypes
      /\ UNCHANGED <<holdings, actionLog, seeded, mergedIntoItself, position, traded, inOrder, cash, margin, autoReinvest, events>>
  BY DEF ProcessDividendEvent, Begin, ActionInv
<1> DEFINE amount == position[symbol] * perShare
           c == [at |-> "post", symbol |-> symbol, amount |-> amount, price |-> price]
<1>3. amount \in Nat /\ price \in Int
  <2>1. position[symbol] \in Int /\ perShare \in Int /\ price \in Int
    BY <1>2, PositionAssumption DEF ActionTypes
  <2>2. PICK n \in Nat, k \in Nat : n = position[symbol] /\ k = perShare BY <1>1, <2>1
  <2>3. n * k \in Nat OBVIOUS
  <2> QED BY <2>1, <2>2, <2>3
<1>4. stage' = [stage EXCEPT ![r] = c] BY <1>1
<1> HIDE DEF amount
<1>5. c \in ActionStages /\ c.at = "post" BY <1>3 DEF ActionStages
<1> HIDE DEF c
<1>6. stage[r].at = "idle" BY <1>2 DEF Idle
<1>7. /\ AmountAt("credit", c) = 0 /\ AmountAt("credit", stage[r]) = 0
      /\ AmountAt("margin", c) = 0 /\ AmountAt("margin", stage[r]) = 0 BY <1>5, <1>6 DEF AmountAt
<1>8. Logged \in Int /\ Logged' = Logged /\ margin \in Int /\ actionLog' = actionLog /\ cash' = cash /\ margin' = margin
      /\ actionLog \in Seq(ActionEntries) /\ cash.action \in Nat /\ cash.event \in Int /\ cash.unheard \in Int /\ cash \in [action : Nat, event : Int, unheard : Int]
  BY <1>2, LoggedIsInt DEF ActionTypes, Logged
<1>9. ReinvestmentsSpendTheDividend' BY <1>2 DEF ActionInv, ReinvestmentsSpendTheDividend
<1>10. /\ Logged' - cash'.action - AmountAt("credit", c) >= Logged - cash.action - AmountAt("credit", stage[r])
       /\ cash'.event - cash'.unheard - margin' - AmountAt("margin", c) = cash.event - cash.unheard - margin - AmountAt("margin", stage[r])
  BY <1>7, <1>8
<1>11. QuietStep(r, c) BY <1>2, <1>4, <1>5, <1>6, <1>8, <1>9, <1>10 DEF QuietStep
<1> QED BY <1>5, <1>11, QuietKeepsInv

\* Steps outside the requests: a position its caller names puts the instrument out of
\* order; a fill moves the position and what was traded alike.
LEMMA OutsideKeepsInv ==
  ASSUME ActionInv, RecordAdjustment \/ ApplyTradedFill \/ SetAutoReinvest PROVE ActionInv'
<1>1. /\ stage' = stage /\ holdings' = holdings /\ ActionTypes /\ WritesAreInOrder
      /\ UNCHANGED <<holdings, actionLog, seeded, mergedIntoItself, cash, margin, events>>
  BY DEF RecordAdjustment, ApplyTradedFill, SetAutoReinvest, ActionInv
<1>2. /\ TotalAt("credit")' = TotalAt("credit") /\ TotalAt("margin")' = TotalAt("margin")
      /\ stage' \in [ActionRequests -> ActionStages] BY <1>1 DEF TotalAt, ActionTypes
<1>3. /\ position \in [Instruments -> Int] /\ traded \in [Instruments -> Int]
      /\ inOrder \in [Instruments -> BOOLEAN] /\ autoReinvest \in BOOLEAN BY <1>1 DEF ActionTypes
<1>4. \A s \in Instruments :
         /\ \A q \in ActionRequests : Writes(stage[q], s)' <=> Writes(stage[q], s)
         /\ \A q \in ActionRequests : WritesTheHolding(stage[q], s)' <=> WritesTheHolding(stage[q], s)
  BY <1>1 DEF WritesTheHolding
<1>5. CASE RecordAdjustment
  <2>1. PICK symbol \in Instruments, quantity \in SeedQuantities :
           /\ position' = [position EXCEPT ![symbol] = quantity]
           /\ traded' = [traded EXCEPT ![symbol] = 0]
           /\ inOrder' = [inOrder EXCEPT ![symbol] = FALSE] BY <1>5 DEF RecordAdjustment, SetPositionDirectly
  <2>2. quantity \in Int BY PositionAssumption
  <2>3. \A s \in Instruments : inOrder'[s] =>
           inOrder[s] /\ s # symbol /\ position'[s] = position[s] /\ traded'[s] = traded[s] BY <1>3, <2>1
  <2>4. WritesAreInOrder' BY <1>1, <1>4, <2>3 DEF WritesAreInOrder
  <2>5. /\ position' \in [Instruments -> Int] /\ traded' \in [Instruments -> Int]
        /\ inOrder' \in [Instruments -> BOOLEAN] /\ autoReinvest' \in BOOLEAN
    BY <1>3, <1>5, <2>1, <2>2 DEF RecordAdjustment
  <2>6. PositionStep BY <1>1, <1>2, <2>4, <2>5 DEF PositionStep
  <2> QED BY <2>6, PositionStepKeepsInv
<1>6. CASE ApplyTradedFill
  <2>1. PICK symbol \in Instruments, delta \in Fills :
           /\ position' = [position EXCEPT ![symbol] = @ + delta]
           /\ traded' = [traded EXCEPT ![symbol] = @ + delta] BY <1>6 DEF ApplyTradedFill
  <2>2. delta \in Int /\ inOrder' = inOrder /\ autoReinvest' = autoReinvest
    BY <1>6, PositionAssumption DEF ApplyTradedFill
  <2>3. ASSUME NEW s \in Instruments, position[s] = holdings[s].quantity + traded[s]
        PROVE  position'[s] = holdings'[s].quantity + traded'[s]
    <3>1. holdings[s].quantity \in Int /\ traded[s] \in Int BY <1>1, <1>3 DEF ActionTypes, NotHeld, Holdings
    <3>2. CASE s = symbol BY <1>3, <2>1, <3>2, <1>1, <2>2, <2>3, <3>1
    <3>3. CASE s # symbol BY <1>1, <1>3, <2>1, <2>3, <3>3
    <3> QED BY <3>2, <3>3
  <2>4. WritesAreInOrder' BY <1>1, <1>4, <2>2, <2>3 DEF WritesAreInOrder
  <2>5. /\ position' \in [Instruments -> Int] /\ traded' \in [Instruments -> Int]
        /\ inOrder' \in [Instruments -> BOOLEAN] /\ autoReinvest' \in BOOLEAN BY <1>3, <2>1, <2>2
  <2>6. PositionStep BY <1>1, <1>2, <2>4, <2>5 DEF PositionStep
  <2> QED BY <2>6, PositionStepKeepsInv
<1>7. CASE SetAutoReinvest
  BY <1>7, <1>1, <1>4, <1>2, <1>3, PositionStepKeepsInv DEF SetAutoReinvest, WritesAreInOrder,
     PositionStep
<1> QED BY <1>5, <1>6, <1>7

\* Every step of the corporate actions and of the dividend plan.
LEMMA ActionsKeepInv == ASSUME ActionInv, ActionNext PROVE ActionInv'
<1>1. ASSUME NEW r \in ActionRequests,
             \/ SeedCorporateActionsHolding(r) \/ ProcessCorporateAction(r) \/ SyncPosition(r)
             \/ ZeroMergedPosition(r) \/ CreditDividend(r) \/ ProcessDividendEvent(r)
             \/ PostDividendEvent(r) \/ AdjustMarginForDividend(r) \/ Reinvest(r)
      PROVE  ActionInv'
  BY <1>1, SeedKeepsInv, ProcessKeepsInv, SyncKeepsInv, ZeroKeepsInv, CreditKeepsInv, EventKeepsInv,
     PostKeepsInv, MarginKeepsInv, ReinvestKeepsInv
<1> QED BY <1>1, OutsideKeepsInv DEF ActionNext

\* Nothing is held and no request is in progress at the start.
LEMMA ActionsStartSound == ASSUME PositionActionsInit PROVE ActionInv
<1> USE DEF PositionActionsInit
<1>1. Idle \in ActionStages /\ Idle.at = "idle" /\ NotHeld \in Holdings /\ NotHeld.quantity = 0
  BY DEF Idle, ActionStages, Holdings, NotHeld
<1>2. ActionTypes
  <2>1. <<>> \in Seq(ActionEntries) OBVIOUS
  <2>2. holdings \in [Instruments -> Holdings] /\ stage \in [ActionRequests -> ActionStages] BY <1>1
  <2>3. position \in [Instruments -> Int] /\ traded \in [Instruments -> Int] /\ inOrder \in [Instruments -> BOOLEAN]
    OBVIOUS
  <2>4. /\ seeded \in Int /\ mergedIntoItself \in Int /\ cash \in [action : Nat, event : Int, unheard : Int] /\ margin \in Int
        /\ actionLog \in Seq(ActionEntries) BY <2>1
  <2>5. autoReinvest \in BOOLEAN BY Zenon
  <2> QED BY <2>2, <2>3, <2>4, <2>5 DEF ActionTypes
<1>3. \A r \in ActionRequests : stage[r] = Idle OBVIOUS
<1>4. WritesAreInOrder BY <1>1, <1>3 DEF Writes, WritesTheHolding, WritesAreInOrder
<1>5. \A S : IsFiniteSet(S) => \A f : (\A x \in S : f[x] = 0) => SumFunctionOnSet(f, S) = 0 BY SumOfZeros
<1>6. CostBasisIsConserved
  <2> DEFINE f == [s \in Instruments |-> CostOf(s)]
  <2>1. \A s \in Instruments : f[s] = 0 BY DEF CostOf, Held
  <2>2. CostHeld = SumFunctionOnSet(f, Instruments) BY DEF CostHeld, SumFunction
  <2> HIDE DEF f
  <2>3. CostHeld = 0 BY <1>5, <2>1, <2>2, PositionAssumption
  <2> QED BY <2>3 DEF CostBasisIsConserved
<1>7. \A at \in {"credit", "margin"} : TotalAt(at) = 0
  <2> SUFFICES ASSUME NEW at \in {"credit", "margin"} PROVE TotalAt(at) = 0 OBVIOUS
  <2> DEFINE f == [r \in ActionRequests |-> AmountAt(at, stage[r])]
  <2>1. \A r \in ActionRequests : f[r] = 0 BY <1>1, <1>3 DEF AmountAt
  <2>2. TotalAt(at) = SumFunctionOnSet(f, ActionRequests) BY DEF TotalAt, SumFunction
  <2> HIDE DEF f
  <2> QED BY <1>5, <2>1, <2>2, PositionAssumption
<1>8. SumFunction([k \in DOMAIN actionLog |-> actionLog[k].cash]) = 0
  <2> DEFINE f == [k \in DOMAIN actionLog |-> actionLog[k].cash]
  <2>1. DOMAIN actionLog = {} /\ IsFiniteSet({}) BY FS_EmptySet
  <2>2. SumFunction(f) = SumFunctionOnSet(f, {}) /\ \A k \in {} : f[k] = 0 BY <2>1 DEF SumFunction
  <2> HIDE DEF f
  <2>3. SumFunctionOnSet(f, {}) = 0 BY <1>5, <2>1
  <2> QED BY <2>2, <2>3 DEF f
<1>9. DividendsAreLogged /\ EventsReachTheMargin /\ ReinvestmentsSpendTheDividend
  BY <1>7, <1>8 DEF DividendsAreLogged, EventsReachTheMargin, ReinvestmentsSpendTheDividend
<1> QED BY <1>2, <1>4, <1>6, <1>9 DEF ActionInv

\* A step of another desk leaves the books of this one.
LEMMA OthersKeepActions == ASSUME ActionInv, UNCHANGED actionVars PROVE ActionInv'
<1>1. /\ stage' = stage /\ position' = position /\ traded' = traded /\ inOrder' = inOrder
      /\ UNCHANGED <<holdings, actionLog, seeded, mergedIntoItself, cash, margin, events>>
      /\ autoReinvest' = autoReinvest /\ holdings' = holdings /\ ActionTypes /\ WritesAreInOrder
  BY DEF actionVars, ActionInv
<1>2. /\ TotalAt("credit")' = TotalAt("credit") /\ TotalAt("margin")' = TotalAt("margin") BY <1>1 DEF TotalAt
<1>3. \A s \in Instruments :
         /\ \A q \in ActionRequests : Writes(stage[q], s)' <=> Writes(stage[q], s)
         /\ \A q \in ActionRequests : WritesTheHolding(stage[q], s)' <=> WritesTheHolding(stage[q], s)
  BY <1>1 DEF WritesTheHolding
<1>4. WritesAreInOrder' BY <1>1, <1>3 DEF WritesAreInOrder
<1>5. PositionStep BY <1>1, <1>2, <1>4 DEF PositionStep, ActionTypes
<1> QED BY <1>5, PositionStepKeepsInv

--------------------
(* Positions: paper trades and the followers of a strategy.                *)

PaperAccounts == Traders \cup {MarketMaker}
PaperTickets == [price : Nat, quantity : Nat, notional : Int]

PaperInv ==
  /\ milli \in [PaperAccounts -> Int] /\ paperOrders \in Seq(PaperTickets)
  /\ PaperPositionsCancelOut

\* The notional of an order is its price in whole shares to the nearest minor unit.
NotionalIsNear(ticket) ==
  AbsoluteOf(ticket.notional * MilliShareUnitsPerWholeShare - ticket.price * ticket.quantity) <= half

\* Rounding up or down moves by half a unit at most, whatever is to be rounded.
LEMMA RoundingIsNear ==
  ASSUME NEW price \in Nat, NEW quantity \in Nat
  PROVE  LET ticket == [price |-> price, quantity |-> quantity, notional |-> NotionalInMinorUnits(price, quantity)] IN
         ticket \in PaperTickets /\ NotionalIsNear(ticket)
<1>1. PICK n \in Nat : n = price * quantity
  <2>1. price * quantity \in Nat OBVIOUS
  <2> QED BY <2>1
<1>2. PICK M \in Nat \ {0} : M = MilliShareUnitsPerWholeShare /\ M % 2 = 0 BY PositionAssumption
<1>3. n = M * (n \div M) + (n % M) /\ n \div M \in Int /\ n % M \in 0 .. M - 1 OBVIOUS
<1>4. PICK q \in Int, r \in 0 .. M - 1 : q = n \div M /\ r = n % M BY <1>3
<1>5. PICK h \in Nat : h = half /\ M = 2 * h
  <2>1. M = 2 * (M \div 2) + (M % 2) /\ M \div 2 \in Nat OBVIOUS
  <2> QED BY <1>2, <2>1 DEF half
<1>6. PICK p \in Int : p = M * q /\ p = q * M /\ n = p + r /\ (q + 1) * M = p + M
  <2>1. M * q \in Int /\ M * q = q * M /\ (q + 1) * M = M * q + M OBVIOUS
  <2> QED BY <1>3, <1>4, <2>1
<1>7. PICK v \in Int : v = NotionalInMinorUnits(price, quantity) /\ v = IF r >= h THEN q + 1 ELSE q
  <2>1. NotionalInMinorUnits(price, quantity) = IF r >= h THEN q + 1 ELSE q
    BY <1>1, <1>2, <1>4, <1>5 DEF NotionalInMinorUnits
  <2>2. (IF r >= h THEN q + 1 ELSE q) \in Int OBVIOUS
  <2> QED BY <2>1, <2>2
<1>8. AbsoluteOf(v * M - n) <= h
  <2>1. CASE r >= h
    <3>1. v * M = p + M BY <1>6, <1>7, <2>1
    <3> HIDE <1>7
    <3> QED BY <1>5, <1>6, <2>1, <3>1 DEF AbsoluteOf
  <2>2. CASE ~(r >= h)
    <3>1. v * M = p BY <1>6, <1>7, <2>2
    <3> HIDE <1>7
    <3> QED BY <1>5, <1>6, <2>2, <3>1 DEF AbsoluteOf
  <2> QED BY <2>1, <2>2
<1> QED BY <1>1, <1>2, <1>5, <1>7, <1>8 DEF PaperTickets, NotionalIsNear

\* A long position is its whole shares and what is over.
LEMMA LongPositionsAreTheirParts ==
  ASSUME NEW m \in Nat
  PROVE  LET parts == FormatWholeAndMilliParts(m) IN
         m = parts.whole * MilliShareUnitsPerWholeShare + parts.milli
<1>1. PICK M \in Nat \ {0} : M = MilliShareUnitsPerWholeShare BY PositionAssumption
<1>2. AbsoluteOf(m) = m BY DEF AbsoluteOf
<1>3. m = M * (m \div M) + (m % M) /\ m \div M \in Int /\ M * (m \div M) = (m \div M) * M OBVIOUS
<1>4. FormatWholeAndMilliParts(m).whole = m \div M /\ FormatWholeAndMilliParts(m).milli = m % M
  BY <1>1, <1>2 DEF FormatWholeAndMilliParts
<1> QED BY <1>1, <1>3, <1>4

\* One account's shares become another's, or the same one's again.
PaperTrade(buyer, seller, quantity, price) ==
  LET bought == [milli EXCEPT ![buyer] = @ + quantity] IN
  /\ quantity > 0 /\ price > 0
  /\ milli' = [bought EXCEPT ![seller] = @ - quantity]
  /\ paperOrders' = Append(paperOrders, [price |-> price, quantity |-> quantity,
                                         notional |-> NotionalInMinorUnits(price, quantity)])

\* A paper trade gives to one account what it takes from the other.
LEMMA PaperKeepsInv == ASSUME PaperInv, SimulateFractionalFill PROVE PaperInv'
<1>1. PICK buyer \in PaperAccounts, seller \in PaperAccounts, quantity \in MilliQuantities, price \in PaperPrices :
         PaperTrade(buyer, seller, quantity, price)
  <2>1. PICK a \in Traders, buy \in BOOLEAN, quantity \in MilliQuantities, price \in PaperPrices :
           PaperTrade(IF buy THEN a ELSE MarketMaker, IF buy THEN MarketMaker ELSE a, quantity, price)
    BY ZenonT(40) DEF SimulateFractionalFill, PaperTrade
  <2>2. a \in PaperAccounts /\ MarketMaker \in PaperAccounts BY DEF PaperAccounts
  <2>3. CASE buy BY <2>1, <2>3, <2>2
  <2>4. CASE ~buy BY <2>1, <2>4, <2>2
  <2> QED BY <2>3, <2>4
<1> USE DEF PaperTrade
<1>2. quantity \in Nat /\ price \in Nat BY <1>1, PositionAssumption
<1> DEFINE bought == [milli EXCEPT ![buyer] = @ + quantity]
           ticket == [price |-> price, quantity |-> quantity, notional |-> NotionalInMinorUnits(price, quantity)]
<1>3. /\ milli \in [PaperAccounts -> Int] /\ bought \in [PaperAccounts -> Int] /\ milli' \in [PaperAccounts -> Int]
      /\ bought[buyer] = milli[buyer] + quantity /\ \A a \in PaperAccounts \ {buyer} : bought[a] = milli[a]
      /\ milli'[seller] = bought[seller] - quantity /\ \A a \in PaperAccounts \ {seller} : milli'[a] = bought[a]
  BY <1>1, <1>2 DEF PaperInv
<1>4. ticket \in PaperTickets /\ NotionalIsNear(ticket) BY <1>2, RoundingIsNear
<1> HIDE DEF bought
<1>5. SumFunction(milli') = 0
  <2>1. SumFunctionOnSet(milli, PaperAccounts) = 0 BY <1>3 DEF PaperInv, PaperPositionsCancelOut, SumFunction
  <2>2. IsFiniteSet(PaperAccounts) BY PositionAssumption, FS_AddElement DEF PaperAccounts
  <2>3. PICK m : m = milli' OBVIOUS
  <2>4. IntOn(milli, PaperAccounts) /\ IntOn(bought, PaperAccounts) /\ IntOn(m, PaperAccounts)
    BY <1>3, <2>3 DEF IntOn
  <2>5. SumFunctionOnSet(bought, PaperAccounts) = SumFunctionOnSet(milli, PaperAccounts) - milli[buyer] + bought[buyer]
    BY <1>3, <2>2, <2>4, SumChanged
  <2>6. SumFunctionOnSet(m, PaperAccounts) = SumFunctionOnSet(bought, PaperAccounts) - bought[seller] + m[seller]
    BY <1>3, <2>2, <2>3, <2>4, SumChanged
  <2>7. SumFunctionOnSet(m, PaperAccounts) = 0
    <3>1. PICK a \in Int, b \in Int : a = milli[buyer] /\ b = bought[seller] BY <1>3
    <3> QED BY <1>2, <1>3, <2>1, <2>3, <2>5, <2>6, <3>1
  <2> QED BY <1>3, <2>3, <2>7 DEF SumFunction
<1>6. /\ paperOrders' \in Seq(PaperTickets)
      /\ \A k \in DOMAIN paperOrders' : NotionalIsNear(paperOrders'[k])
  <2> HIDE DEF ticket
  <2>1. paperOrders \in Seq(PaperTickets) /\ \A k \in DOMAIN paperOrders : NotionalIsNear(paperOrders[k])
    BY DEF PaperInv, PaperPositionsCancelOut, NotionalIsNear
  <2>2. paperOrders' = Append(paperOrders, ticket) BY <1>1 DEF ticket
  <2>3. PICK n \in Nat : n = Len(paperOrders) BY <2>1
  <2>4. /\ paperOrders' \in Seq(PaperTickets) /\ DOMAIN paperOrders' = 1 .. n + 1 /\ DOMAIN paperOrders = 1 .. n
        /\ paperOrders'[n + 1] = ticket /\ \A k \in 1 .. n : paperOrders'[k] = paperOrders[k]
    BY <1>4, <2>1, <2>2, <2>3
  <2>5. \A k \in 1 .. n + 1 : k = n + 1 \/ k \in 1 .. n OBVIOUS
  <2> QED BY <1>4, <2>1, <2>4, <2>5
<1>7. \A a \in Traders :
         LET parts == FormatWholeAndMilliParts(milli'[a]) IN
         milli'[a] >= 0 => milli'[a] = parts.whole * MilliShareUnitsPerWholeShare + parts.milli
  <2> SUFFICES ASSUME NEW a \in Traders, milli'[a] >= 0
               PROVE  milli'[a] = FormatWholeAndMilliParts(milli'[a]).whole * MilliShareUnitsPerWholeShare
                                    + FormatWholeAndMilliParts(milli'[a]).milli OBVIOUS
  <2>1. PICK m \in Nat : m = milli'[a] BY <1>3 DEF PaperAccounts
  <2>2. m = FormatWholeAndMilliParts(m).whole * MilliShareUnitsPerWholeShare + FormatWholeAndMilliParts(m).milli
    BY LongPositionsAreTheirParts
  <2> QED BY <2>1, <2>2
<1>8. PaperPositionsCancelOut' BY <1>5, <1>6, <1>7 DEF PaperPositionsCancelOut, NotionalIsNear
<1> QED BY <1>3, <1>6, <1>8 DEF PaperInv

\* Nobody holds paper shares at the start.
LEMMA PaperStartsSound == ASSUME PositionActionsInit PROVE PaperInv
<1>1. /\ milli = [a \in PaperAccounts |-> 0] /\ paperOrders = <<>> BY DEF PositionActionsInit, PaperAccounts
<1>2. SumFunction(milli) = 0
  BY PositionAssumption, FS_AddElement, <1>1, SumOfZeros DEF PaperAccounts, SumFunction
<1>3. \A a \in Traders : milli[a] = 0 BY <1>1 DEF PaperAccounts
<1>4. \A a \in Traders :
         LET parts == FormatWholeAndMilliParts(milli[a]) IN
         milli[a] >= 0 => milli[a] = parts.whole * MilliShareUnitsPerWholeShare + parts.milli
  BY LongPositionsAreTheirParts, <1>3
<1>5. paperOrders \in Seq(PaperTickets) /\ DOMAIN paperOrders = {} BY <1>1
<1> QED BY <1>1, <1>2, <1>4, <1>5 DEF PaperInv, PaperPositionsCancelOut

\* A step of another desk leaves the paper positions.
LEMMA OthersKeepPaper == ASSUME PaperInv, UNCHANGED paperVars PROVE PaperInv'
<1>1. milli' = milli /\ paperOrders' = paperOrders BY DEF paperVars
<1> QED BY <1>1 DEF PaperInv, PaperPositionsCancelOut

FollowInv ==
  /\ following \in [Followers -> SUBSET Strategies] /\ followedBy \in [Strategies -> SUBSET Followers]
  /\ FollowersAgree

\* Both indexes change together.
LEMMA FollowersKeepInv == ASSUME FollowInv, FollowNext PROVE FollowInv'
<1>1. CASE MarkStrategyVerified BY <1>1 DEF MarkStrategyVerified, FollowInv, FollowersAgree
<1>2. ASSUME NEW a \in Followers, NEW s \in Strategies, Follow(a, s) PROVE FollowInv'
  BY <1>2 DEF Follow, FollowInv, FollowersAgree
<1>3. ASSUME NEW a \in Followers, NEW s \in Strategies, Unfollow(a, s) PROVE FollowInv'
  BY <1>3 DEF Unfollow, FollowInv, FollowersAgree
<1> QED BY <1>1, <1>2, <1>3 DEF FollowNext

\* Nobody follows anything at the start, and no other desk changes who does.
LEMMA FollowersStay ==
  /\ PositionActionsInit => FollowInv
  /\ FollowInv /\ UNCHANGED followVars => FollowInv'
<1>1. PositionActionsInit => FollowInv BY DEF PositionActionsInit, FollowInv, FollowersAgree
<1>2. FollowInv /\ UNCHANGED followVars => FollowInv' BY DEF followVars, FollowInv, FollowersAgree
<1> QED BY <1>1, <1>2

--------------------
(* Positions: the cost basis that marks them to the market.                *)

\* What a position cost, its prices, and what its average makes of them.
Priced(entry, c) ==
  LET held == Absolute(entry.net)
      worth == entry.average * held
  IN held # 0 =>
        /\ \E low, high \in c.prices : entry.average \in low .. high
        /\ c.paid # Never => worth <= c.paid /\ c.paid - worth < c.additions * held

MarkTypes ==
  /\ basis \in [Markers -> [net : Int, average : Int]]
  /\ cost \in [Markers -> [paid : Int, additions : Nat, prices : SUBSET Int]]

MarkInv ==
  /\ MarkTypes
  /\ SumFunction([a \in Markers |-> basis[a].net]) = 0
  /\ \A a \in Markers : Priced(basis[a], cost[a])

\* The mean of what was held and what is added lies between their prices, and rounding it
\* loses less than a unit for every share.
LEMMA MeanIsBetween ==
  ASSUME NEW average \in Int, NEW E \in Nat \ {0}, NEW price \in Int, NEW D \in Nat \ {0},
         NEW low \in Int, NEW high \in Int, low <= average, average <= high, low <= price, price <= high
  PROVE  LET total == E + D
             paid == average * E + price * D
             mean == paid \div total
         IN mean \in Int /\ mean \in low .. high /\ mean * total <= paid /\ paid < mean * total + total
<1>1. PICK T \in Nat \ {0} : T = E + D OBVIOUS
<1>2. PICK x \in Int, y \in Int : x = average * E /\ y = price * D
  <2>1. average * E \in Int /\ price * D \in Int OBVIOUS
  <2> QED BY <2>1
<1>3. PICK lE \in Int, lD \in Int, hE \in Int, hD \in Int : lE = low * E /\ lD = low * D /\ hE = high * E /\ hD = high * D
  <2>1. low * E \in Int /\ low * D \in Int /\ high * E \in Int /\ high * D \in Int OBVIOUS
  <2> QED BY <2>1
<1>4. lE <= x /\ x <= hE /\ lD <= y /\ y <= hD BY <1>2, <1>3
<1>5. low * T = lE + lD /\ high * T = hE + hD BY <1>1, <1>3
<1>6. PICK p \in Int : p = x + y OBVIOUS
<1>7. p = T * (p \div T) + (p % T) /\ p \div T \in Int /\ p % T \in 0 .. T - 1 OBVIOUS
<1>8. PICK q \in Int, r \in 0 .. T - 1 : q = p \div T /\ p = T * q + r BY <1>7
<1>9. PICK m \in Int : m = T * q /\ m = q * T
  <2>1. T * q \in Int /\ T * q = q * T OBVIOUS
  <2> QED BY <2>1
<1>10. m <= p /\ p < m + T BY <1>8, <1>9
<1>11. q <= high
  <2> SUFFICES ASSUME q >= high + 1 PROVE FALSE OBVIOUS
  <2>1. q * T >= (high + 1) * T /\ (high + 1) * T = high * T + T OBVIOUS
  <2>2. m >= hE + hD + T BY <1>5, <1>9, <2>1
  <2> QED BY <1>4, <1>6, <1>10, <2>2
<1>12. low <= q
  <2> SUFFICES ASSUME q + 1 <= low PROVE FALSE OBVIOUS
  <2>1. (q + 1) * T <= low * T /\ (q + 1) * T = q * T + T OBVIOUS
  <2>2. m + T <= lE + lD BY <1>5, <1>9, <2>1
  <2> QED BY <1>4, <1>6, <1>10, <2>2
<1> QED BY <1>1, <1>2, <1>6, <1>8, <1>9, <1>10, <1>11, <1>12

\* A position opened or turned around costs its own fill.
LEMMA OpenedIsPriced ==
  ASSUME NEW net \in Int, NEW price \in Int
  PROVE  Priced([net |-> net, average |-> price], [paid |-> price * Absolute(net), additions |-> 1, prices |-> {price}])
<1>1. PICK h \in Nat : h = Absolute(net) BY DEF Absolute
<1>2. PICK w \in Int : w = price * h
  <2>1. price * h \in Int OBVIOUS
  <2> QED BY <2>1
<1>3. \E low, high \in {price} : price \in low .. high OBVIOUS
<1>4. h # 0 => w <= w /\ w - w < 1 * h OBVIOUS
<1> QED BY <1>1, <1>2, <1>3, <1>4 DEF Priced

\* A position added to.
LEMMA AddedToIsPriced ==
  ASSUME NEW entry \in [net : Int, average : Int], NEW c \in [paid : Int, additions : Nat, prices : SUBSET Int],
         NEW delta \in Int, NEW price \in Int, Priced(entry, c), entry.net # 0, SameSign(entry.net, delta)
  PROVE  /\ AfterFill(entry, delta, price).average \in Int
         /\ Priced(AfterFill(entry, delta, price), CostAfter(entry, c, delta, price))
<1>1. PICK E \in Nat \ {0}, D \in Nat \ {0}, T \in Nat \ {0} :
         E = Absolute(entry.net) /\ D = Absolute(delta) /\ T = Absolute(entry.net + delta) /\ T = E + D
  BY DEF Absolute, SameSign
<1>2. PICK average \in Int, paid \in Int, n \in Nat : average = entry.average /\ paid = c.paid /\ n = c.additions
  OBVIOUS
<1>3. PICK first \in c.prices, last \in c.prices : first <= average /\ average <= last
  <2>1. c.prices \subseteq Int OBVIOUS
  <2> QED BY <1>1, <1>2, <2>1 DEF Priced
<1>4. first \in Int /\ last \in Int /\ c.prices \subseteq Int OBVIOUS
<1>5. PICK low \in c.prices \cup {price}, high \in c.prices \cup {price} :
         low \in Int /\ high \in Int /\ low <= average /\ average <= high /\ low <= price /\ price <= high
  <2>1. PICK low \in c.prices \cup {price} : low \in Int /\ low <= average /\ low <= price BY <1>3, <1>4
  <2>2. PICK high \in c.prices \cup {price} : high \in Int /\ average <= high /\ price <= high BY <1>3, <1>4
  <2> QED BY <2>1, <2>2
<1>6. PICK x \in Int, y \in Int : x = average * E /\ y = price * D
  <2>1. average * E \in Int /\ price * D \in Int OBVIOUS
  <2> QED BY <2>1
<1>7. PICK mean : mean = (x + y) \div T OBVIOUS
<1>8. mean \in Int /\ mean \in low .. high /\ mean * T <= x + y /\ x + y < mean * T + T
  <2>1. LET total == E + D
            paidFor == average * E + price * D
            middle == paidFor \div total
        IN middle \in Int /\ middle \in low .. high /\ middle * total <= paidFor /\ paidFor < middle * total + total
    BY <1>5, MeanIsBetween
  <2>2. E + D = T /\ average * E + price * D = x + y BY <1>1, <1>6
  <2>3. /\ (x + y) \div T \in Int /\ (x + y) \div T \in low .. high
        /\ ((x + y) \div T) * T <= x + y /\ x + y < ((x + y) \div T) * T + T BY <2>1, <2>2, Zenon
  <2> QED BY <1>7, <2>3
<1>9. PICK m \in Int : m = mean * T
  <2>1. mean * T \in Int BY <1>8
  <2> QED BY <2>1
<1> DEFINE new == AfterFill(entry, delta, price)
           spent == CostAfter(entry, c, delta, price)
<1>10. new.net = entry.net + delta /\ new.average = mean BY <1>1, <1>2, <1>6, <1>7 DEF AfterFill
<1>11. /\ spent.prices = c.prices \cup {price} /\ spent.additions = n + 1
       /\ spent.paid = IF paid = Never THEN Never ELSE paid + y BY <1>1, <1>2, <1>6 DEF CostAfter
<1>12. paid # Never => x <= paid /\ paid - x < n * E BY <1>1, <1>2, <1>6 DEF Priced
<1>13. PICK nE \in Int, nT \in Int : nE = n * E /\ nT = (n + 1) * T /\ nE + T <= nT
  <2>1. n * E \in Int /\ (n + 1) * T \in Int /\ (n + 1) * T = n * T + T OBVIOUS
  <2>2. n * E <= n * T BY <1>1, <2>1
  <2>3. n * T \in Int OBVIOUS
  <2> QED BY <2>1, <2>2, <2>3
<1> HIDE DEF new, spent
<1>14. Absolute(new.net) = T BY <1>1, <1>10
<1>15. \E l, h \in spent.prices : new.average \in l .. h BY <1>5, <1>8, <1>10, <1>11
<1>16. spent.paid # Never => m <= spent.paid /\ spent.paid - m < nT
  <2> SUFFICES ASSUME spent.paid # Never PROVE m <= spent.paid /\ spent.paid - m < nT OBVIOUS
  <2>1. paid # Never /\ spent.paid = paid + y BY <1>11
  <2>2. x <= paid /\ paid - x < nE BY <1>12, <1>13, <2>1
  <2>3. m <= x + y /\ x + y < m + T BY <1>8, <1>9
  <2> QED BY <1>13, <2>1, <2>2, <2>3
<1>17. new.average * T = m /\ spent.additions * T = nT BY <1>9, <1>10, <1>11, <1>13
<1>18. Priced(new, spent) BY <1>14, <1>15, <1>16, <1>17 DEF Priced
<1> QED BY <1>8, <1>10, <1>18 DEF new, spent

\* Every fill leaves a position priced.
LEMMA FillKeepsPriced ==
  ASSUME NEW entry \in [net : Int, average : Int], NEW c \in [paid : Int, additions : Nat, prices : SUBSET Int],
         NEW delta \in Int, NEW price \in Int, Priced(entry, c)
  PROVE  /\ AfterFill(entry, delta, price) \in [net : Int, average : Int]
         /\ AfterFill(entry, delta, price).net = entry.net + delta
         /\ CostAfter(entry, c, delta, price) \in [paid : Int, additions : Nat, prices : SUBSET Int]
         /\ Priced(AfterFill(entry, delta, price), CostAfter(entry, c, delta, price))
<1>1. /\ entry.net \in Int /\ entry.average \in Int /\ entry.net + delta \in Int
      /\ c.paid \in Int /\ c.additions \in Nat /\ c.prices \in SUBSET Int OBVIOUS
<1>2. AfterFill(entry, delta, price).net = entry.net + delta BY DEF AfterFill
<1>3. Absolute(delta) \in Nat /\ Absolute(entry.net + delta) \in Nat BY <1>1 DEF Absolute
<1>4. price * Absolute(delta) \in Int /\ price * Absolute(entry.net + delta) \in Int BY <1>3
<1>5. CostAfter(entry, c, delta, price) \in [paid : Int, additions : Nat, prices : SUBSET Int]
  <2>1. PICK x \in Int, y \in Int : x = price * Absolute(delta) /\ y = price * Absolute(entry.net + delta)
    BY <1>4
  <2>2. Never \in Int BY DEF Never
  <2>3. /\ [paid |-> IF c.paid = Never THEN Never ELSE c.paid + x, additions |-> c.additions + 1, prices |-> c.prices \cup {price}]
              \in [paid : Int, additions : Nat, prices : SUBSET Int]
        /\ [paid |-> 0, additions |-> 0, prices |-> {}] \in [paid : Int, additions : Nat, prices : SUBSET Int]
        /\ [c EXCEPT !.paid = Never] \in [paid : Int, additions : Nat, prices : SUBSET Int]
        /\ [paid |-> y, additions |-> 1, prices |-> {price}] \in [paid : Int, additions : Nat, prices : SUBSET Int]
    BY <1>1, <2>2
  <2> QED BY <2>1, <2>3 DEF CostAfter
<1>6. CASE entry.net # 0 /\ SameSign(entry.net, delta)
  BY <1>6, AddedToIsPriced, <1>1, <1>2, <1>5 DEF AfterFill
<1>7. CASE ~(entry.net # 0 /\ SameSign(entry.net, delta))
  <2>1. AfterFill(entry, delta, price) \in [net : Int, average : Int] BY <1>1, <1>7 DEF AfterFill
  <2>2. CASE entry.net + delta = 0 BY <1>2, <1>5, <2>1, <2>2 DEF Priced, Absolute
  <2>3. CASE entry.net + delta # 0 /\ SameSign(entry.net + delta, entry.net)
    <3>1. AfterFill(entry, delta, price) = [net |-> entry.net + delta, average |-> entry.average]
      BY <1>1, <1>7, <2>3 DEF AfterFill, SameSign
    <3>2. CostAfter(entry, c, delta, price) = [c EXCEPT !.paid = Never] BY <1>7, <2>3 DEF CostAfter
    <3>3. [c EXCEPT !.paid = Never].paid = Never /\ [c EXCEPT !.paid = Never].prices = c.prices OBVIOUS
    <3>4. Absolute(entry.net) # 0 BY <1>1, <2>3 DEF Absolute, SameSign
    <3>5. \E low, high \in c.prices : entry.average \in low .. high BY <3>4 DEF Priced
    <3>6. Priced(AfterFill(entry, delta, price), CostAfter(entry, c, delta, price))
      BY <3>1, <3>2, <3>3, <3>5 DEF Priced
    <3> QED BY <1>2, <1>5, <2>1, <3>6
  <2>4. CASE entry.net + delta # 0 /\ ~SameSign(entry.net + delta, entry.net)
    BY <1>1, <1>7, <2>4, OpenedIsPriced, <1>2, <1>5, <2>1 DEF AfterFill, CostAfter
  <2> QED BY <2>2, <2>3, <2>4
<1> QED BY <1>6, <1>7

\* One account's basis takes one side of a fill.
SideOfAFill(b, k, newBasis, newCost, a, delta, price) ==
  /\ newBasis = [b EXCEPT ![a] = AfterFill(b[a], delta, price)]
  /\ newCost = [k EXCEPT ![a] = CostAfter(b[a], k[a], delta, price)]

AreBases(b, k) ==
  /\ b \in [Markers -> [net : Int, average : Int]]
  /\ k \in [Markers -> [paid : Int, additions : Nat, prices : SUBSET Int]]
  /\ \A a \in Markers : Priced(b[a], k[a])

\* What the accounts hold together.
NetOf(b) == SumFunction([x \in Markers |-> b[x].net])

\* The accounts stay priced, and together they hold what the side brings.
LEMMA SideKeepsBases ==
  ASSUME NEW b, NEW k, NEW nb, NEW nk, NEW a \in Markers, NEW delta \in Int, NEW price \in Int,
         AreBases(b, k), SideOfAFill(b, k, nb, nk, a, delta, price)
  PROVE  AreBases(nb, nk) /\ NetOf(b) \in Int /\ NetOf(nb) = NetOf(b) + delta
<1> DEFINE e == AfterFill(b[a], delta, price)
           c == CostAfter(b[a], k[a], delta, price)
<1>1. /\ b \in [Markers -> [net : Int, average : Int]]
      /\ k \in [Markers -> [paid : Int, additions : Nat, prices : SUBSET Int]]
      /\ \A x \in Markers : Priced(b[x], k[x])
      /\ nb = [b EXCEPT ![a] = e] /\ nk = [k EXCEPT ![a] = c] BY DEF AreBases, SideOfAFill
<1>2. /\ e \in [net : Int, average : Int] /\ e.net = b[a].net + delta
      /\ c \in [paid : Int, additions : Nat, prices : SUBSET Int] /\ Priced(e, c)
  <2>1. PICK entry \in [net : Int, average : Int], spent \in [paid : Int, additions : Nat, prices : SUBSET Int] :
           entry = b[a] /\ spent = k[a] BY <1>1
  <2>2. Priced(entry, spent) BY <1>1, <2>1
  <2> QED BY <2>1, <2>2, FillKeepsPriced
<1> HIDE DEF e, c
<1>3. /\ nb \in [Markers -> [net : Int, average : Int]]
      /\ nk \in [Markers -> [paid : Int, additions : Nat, prices : SUBSET Int]]
      /\ nb[a] = e /\ nk[a] = c
      /\ \A x \in Markers \ {a} : nb[x] = b[x] /\ nk[x] = k[x] BY <1>1, <1>2
<1>4. \A x \in Markers : Priced(nb[x], nk[x])
  <2> SUFFICES ASSUME NEW x \in Markers PROVE Priced(nb[x], nk[x]) OBVIOUS
  <2>1. CASE x = a BY <1>2, <1>3, <2>1
  <2>2. CASE x # a BY <1>1, <1>3, <2>2
  <2> QED BY <2>1, <2>2
<1>5. AreBases(nb, nk) BY <1>3, <1>4 DEF AreBases
<1> DEFINE f == [x \in Markers |-> b[x].net]
           g == [x \in Markers |-> nb[x].net]
<1>6. SumFunction(f) = SumFunctionOnSet(f, Markers) /\ SumFunction(g) = SumFunctionOnSet(g, Markers)
  BY DEF SumFunction
<1>7. IntOn(f, Markers) /\ IntOn(g, Markers) /\ f[a] = b[a].net /\ g[a] = e.net
      /\ \A x \in Markers \ {a} : g[x] = f[x] BY <1>1, <1>3 DEF IntOn
<1>8. f[a] \in Int /\ g[a] = f[a] + delta BY <1>1, <1>2, <1>7
<1> HIDE DEF f, g
<1>9. IsFiniteSet(Markers) BY MonitorAssumption
<1>10. /\ SumFunctionOnSet(g, Markers) = SumFunctionOnSet(f, Markers) - f[a] + g[a]
       /\ SumFunctionOnSet(f, Markers) \in Int BY <1>7, <1>9, SumChanged
<1>11. SumFunction(g) = SumFunction(f) + delta /\ SumFunction(f) \in Int BY <1>6, <1>8, <1>10
<1> QED BY <1>5, <1>11 DEF f, g, NetOf

\* Both sides of a fill.
LEMMA FillsKeepInv == ASSUME MarkInv, ApplyFill PROVE MarkInv'
<1>1. PICK buyer \in Markers, seller \in Markers, quantity \in MarkedQuantities, price \in MarkedPrices :
         LET bought == [basis EXCEPT ![buyer] = AfterFill(@, quantity, price)]
             paid == [cost EXCEPT ![buyer] = CostAfter(basis[buyer], @, quantity, price)]
         IN /\ basis' = [bought EXCEPT ![seller] = AfterFill(@, -quantity, price)]
            /\ cost' = [paid EXCEPT ![seller] = CostAfter(bought[seller], @, -quantity, price)]
  BY DEF ApplyFill
<1> DEFINE bought == [basis EXCEPT ![buyer] = AfterFill(@, quantity, price)]
           paid == [cost EXCEPT ![buyer] = CostAfter(basis[buyer], @, quantity, price)]
<1>2. quantity \in Int /\ -quantity \in Int /\ price \in Int BY MonitorAssumption
<1>3. AreBases(basis, cost) /\ NetOf(basis) = 0 BY DEF MarkInv, MarkTypes, AreBases, NetOf
<1>4. SideOfAFill(basis, cost, bought, paid, buyer, quantity, price) BY DEF SideOfAFill
<1>5. PICK newBasis, newCost, sold : newBasis = basis' /\ newCost = cost' /\ sold = -quantity OBVIOUS
<1>6. SideOfAFill(bought, paid, newBasis, newCost, seller, sold, price) BY <1>1, <1>5 DEF SideOfAFill
<1> HIDE DEF bought, paid
<1>7. AreBases(bought, paid) /\ NetOf(basis) \in Int /\ NetOf(bought) = NetOf(basis) + quantity
  BY <1>2, <1>3, <1>4, SideKeepsBases
<1>8. sold \in Int BY <1>2, <1>5
<1>9. AreBases(newBasis, newCost) /\ NetOf(newBasis) = NetOf(bought) + sold
  <2>1. PICK b, k : b = bought /\ k = paid OBVIOUS
  <2>2. SideOfAFill(b, k, newBasis, newCost, seller, sold, price) /\ AreBases(b, k) BY <1>6, <1>7, <2>1
  <2>3. AreBases(newBasis, newCost) /\ NetOf(newBasis) = NetOf(b) + sold BY <1>2, <1>8, <2>2, SideKeepsBases
  <2> QED BY <2>1, <2>3
<1>10. NetOf(newBasis) = 0 BY <1>2, <1>3, <1>5, <1>7, <1>9
<1> QED BY <1>5, <1>9, <1>10 DEF MarkInv, MarkTypes, AreBases, NetOf

\* Nobody holds anything at the start.
LEMMA MarksStartSound == ASSUME MonitorInit PROVE MarkInv
<1>1. /\ basis = [a \in Markers |-> [net |-> 0, average |-> 0]]
      /\ cost = [a \in Markers |-> [paid |-> 0, additions |-> 0, prices |-> {}]] BY DEF MonitorInit
<1>2. MarkTypes BY <1>1 DEF MarkTypes
<1>3. \A a \in Markers : Priced(basis[a], cost[a]) BY <1>1 DEF Priced, Absolute
<1>4. SumFunction([a \in Markers |-> basis[a].net]) = 0
  <2> DEFINE f == [a \in Markers |-> basis[a].net]
  <2>1. (\A a \in Markers : f[a] = 0) /\ DOMAIN f = Markers /\ IsFiniteSet(Markers) BY <1>1, MonitorAssumption
  <2> HIDE DEF f
  <2>2. SumFunctionOnSet(f, Markers) = 0 BY <2>1, SumOfZeros
  <2>3. SumFunction(f) = 0 BY <2>1, <2>2 DEF SumFunction
  <2> QED BY <2>3 DEF f
<1> QED BY <1>2, <1>3, <1>4 DEF MarkInv

\* A step of another monitor leaves the bases.
LEMMA OthersKeepMarks == ASSUME MarkInv, UNCHANGED markVars PROVE MarkInv'
<1>1. basis' = basis /\ cost' = cost BY DEF markVars
<1> QED BY <1>1 DEF MarkInv, MarkTypes

\* The bases are what the run checks.
LEMMA MarksFollowTheFills == ASSUME MarkInv PROVE CostBasisFollowsTheFills
BY DEF MarkInv, Priced, CostBasisFollowsTheFills

--------------------
(* Positions: the engine that sells an over-borrowed account's shares.     *)

Tracked == UNION {DOMAIN positions : positions \in LongPositions}

Sales == [symbol : Tracked, quantity : Int, filled : Int, executed : Int, stray : Int]

Runs == [at : {"snapshot", "selling", "ended"}, positions : [Tracked -> Int],
         prices : [Tracked -> Nat], shortfall : Int, untried : SUBSET Tracked,
         skipped : SUBSET Tracked, sales : Seq(Sales)]

Worth(v, i) == v.positions[i] * v.prices[i]
Sold(v) == {v.sales[n].symbol : n \in DOMAIN v.sales}

\* An evaluation sells past the limit only, the largest of what it has not tried, while a
\* gap is left; and a holding it lets go untried it has not come to yet.
RunIsOrderly(v) ==
  /\ v.at = "snapshot" => v.sales = <<>>
  /\ (v.at = "selling" \/ v.sales # <<>>) => IsBreached
  /\ \A n \in DOMAIN v.sales :
        /\ Raised(SubSeq(v.sales, 1, n - 1)) < v.shortfall
        /\ \A i \in v.untried : Worth(v, i) <= Worth(v, v.sales[n].symbol)
        /\ \A m \in n .. Len(v.sales) : Worth(v, v.sales[m].symbol) <= Worth(v, v.sales[n].symbol)
  /\ (v.at # "ended" \/ Remaining(v) > 0) =>
        \A i \in Tracked : v.positions[i] > 0 =>
            i \in v.skipped \cup Sold(v) \cup (IF v.at = "ended" THEN {} ELSE v.untried)

LiquidationInv ==
  /\ principal \in Nat /\ pledgedWorth \in Nat /\ longs \in [Tracked -> Int]
  /\ evaluation \in [Evaluations -> {Unstarted} \cup Runs]
  /\ \A e \in Evaluations : evaluation[e] # Unstarted => RunIsOrderly(evaluation[e])

\* What sales raise is an integer.
LEMMA RaisedIsInt ==
  ASSUME NEW sales \in Seq(Sales) PROVE Raised(sales) \in Int /\ (sales = <<>> => Raised(sales) = 0)
<1>1. PICK n \in Nat : n = Len(sales) OBVIOUS
<1>2. DOMAIN sales = 1 .. n /\ \A k \in 1 .. n : sales[k] \in Sales BY <1>1
<1>3. \A x \in Sales : x.executed \in Int BY DEF Sales
<1> DEFINE f == [k \in 1 .. n |-> sales[k].executed]
<1>4. Raised(sales) = SumFunctionOnSet(f, 1 .. n) BY <1>2 DEF Raised, SumFunction
<1>5. IntOn(f, 1 .. n) /\ IsFiniteSet(1 .. n) BY <1>2, <1>3, FS_Interval DEF IntOn
<1> HIDE DEF f
<1>6. SumFunctionOnSet(f, 1 .. n) \in Int BY <1>5, SumIsInt
<1>7. ASSUME sales = <<>> PROVE SumFunctionOnSet(f, 1 .. n) = 0 BY <1>1, <1>7, SumOfNone
<1> QED BY <1>4, <1>6, <1>7

\* Of two integers the smaller is one of them.
LEMMA SmallerOfTwo ==
  ASSUME NEW a \in Int, NEW b \in Int PROVE Min({a, b}) \in {a, b} /\ Min({a, b}) <= a /\ Min({a, b}) <= b
<1>1. \E x \in {a, b} : \A y \in {a, b} : x <= y OBVIOUS
<1> QED BY <1>1 DEF Min

\* What the run checks of one evaluation.
ClosesTheGap(v) ==
  /\ v.sales # <<>> => principal >= pledgedWorth
  /\ \A n \in DOMAIN v.sales :
        /\ Raised(SubSeq(v.sales, 1, n - 1)) < v.shortfall
        /\ \A i \in v.untried \union {v.sales[m].symbol : m \in n .. Len(v.sales)} :
              v.positions[i] * v.prices[i]
                  <= v.positions[v.sales[n].symbol] * v.prices[v.sales[n].symbol]
  /\ (v.at = "ended" /\ Remaining(v) > 0) =>
        \A i \in DOMAIN v.positions : v.positions[i] > 0 =>
            i \in v.skipped \/ \E n \in DOMAIN v.sales : v.sales[n].symbol = i

\* Orderly evaluations close the gap of their snapshot.
LEMMA OrderlyRunsCloseTheGap == ASSUME LiquidationInv PROVE LiquidationsCloseTheGap
<1> SUFFICES ASSUME NEW e \in Evaluations, evaluation[e].at \in {"selling", "ended"}
             PROVE  ClosesTheGap(evaluation[e]) BY DEF LiquidationsCloseTheGap, ClosesTheGap
<1>1. PICK v : v = evaluation[e] OBVIOUS
<1>2. v \in Runs /\ RunIsOrderly(v) BY <1>1 DEF LiquidationInv, Unstarted
<1>3. v.sales # <<>> => principal >= pledgedWorth BY <1>2 DEF RunIsOrderly, IsBreached
<1>4. ASSUME NEW n \in DOMAIN v.sales
      PROVE  /\ Raised(SubSeq(v.sales, 1, n - 1)) < v.shortfall
             /\ \A i \in v.untried \union {v.sales[m].symbol : m \in n .. Len(v.sales)} :
                   v.positions[i] * v.prices[i]
                       <= v.positions[v.sales[n].symbol] * v.prices[v.sales[n].symbol]
  BY <1>2 DEF RunIsOrderly, Worth
<1>5. ASSUME v.at = "ended", Remaining(v) > 0, NEW i \in DOMAIN v.positions, v.positions[i] > 0
      PROVE  i \in v.skipped \/ \E n \in DOMAIN v.sales : v.sales[n].symbol = i
  BY <1>2, <1>5 DEF Runs, RunIsOrderly, Sold
<1> QED BY <1>1, <1>3, <1>4, <1>5 DEF ClosesTheGap

\* When one evaluation moves on in good order, all are in good order.
LEMMA OneRunMoves ==
  ASSUME LiquidationInv, NEW e \in Evaluations, NEW w \in Runs, RunIsOrderly(w),
         evaluation' = [evaluation EXCEPT ![e] = w], UNCHANGED <<principal, pledgedWorth>>,
         longs' \in [Tracked -> Int]
  PROVE  LiquidationInv'
<1>1. evaluation' \in [Evaluations -> {Unstarted} \cup Runs] BY DEF LiquidationInv
<1>2. IsBreached' <=> IsBreached BY DEF IsBreached
<1>3. ASSUME NEW f \in Evaluations, evaluation'[f] # Unstarted PROVE RunIsOrderly(evaluation[f])'
  <2>1. RunIsOrderly(evaluation'[f]) BY <1>3 DEF LiquidationInv
  <2> QED BY <1>2, <2>1 DEF RunIsOrderly, Worth, Sold, Remaining, Raised
<1> QED BY <1>1, <1>3 DEF LiquidationInv

\* What the parts of an evaluation are.
LEMMA RunTypes ==
  ASSUME NEW v \in Runs
  PROVE  /\ v.at \in {"snapshot", "selling", "ended"} /\ v.positions \in [Tracked -> Int]
         /\ v.prices \in [Tracked -> Nat] /\ v.shortfall \in Int
         /\ v.untried \in SUBSET Tracked /\ v.skipped \in SUBSET Tracked /\ v.sales \in Seq(Sales)
         /\ Raised(v.sales) \in Int /\ Remaining(v) = v.shortfall - Raised(v.sales)
         /\ Remaining(v) \in Int
<1>1. /\ v.at \in {"snapshot", "selling", "ended"} /\ v.positions \in [Tracked -> Int]
      /\ v.prices \in [Tracked -> Nat] /\ v.shortfall \in Int
      /\ v.untried \in SUBSET Tracked /\ v.skipped \in SUBSET Tracked /\ v.sales \in Seq(Sales) BY DEF Runs
<1>2. Raised(v.sales) \in Int BY <1>1, RaisedIsInt
<1>3. Remaining(v) = v.shortfall - Raised(v.sales) BY DEF Remaining
<1> QED BY <1>1, <1>2, <1>3

\* A snapshot holds nothing yet.
LEMMA AssembleKeepsInv ==
  ASSUME LiquidationInv, NEW e \in Evaluations, AssembleLeverageSnapshot(e) PROVE LiquidationInv'
<1>1. /\ \E prices \in LastPrices :
            evaluation' = [evaluation EXCEPT ![e] =
                [at |-> "snapshot", positions |-> longs, prices |-> prices, shortfall |-> 0,
                 untried |-> DOMAIN longs, skipped |-> {}, sales |-> <<>>]]
      /\ UNCHANGED <<principal, pledgedWorth, longs, encumbered>> BY DEF AssembleLeverageSnapshot
<1>2. PICK prices \in LastPrices :
         evaluation' = [evaluation EXCEPT ![e] =
             [at |-> "snapshot", positions |-> longs, prices |-> prices, shortfall |-> 0,
              untried |-> DOMAIN longs, skipped |-> {}, sales |-> <<>>]] BY <1>1
<1> DEFINE w == [at |-> "snapshot", positions |-> longs, prices |-> prices, shortfall |-> 0,
                 untried |-> DOMAIN longs, skipped |-> {}, sales |-> <<>>]
<1>3. longs \in [Tracked -> Int] /\ DOMAIN longs = Tracked BY DEF LiquidationInv
<1>4. prices \in [Tracked -> Nat] BY MonitorAssumption DEF Tracked
<1>5. <<>> \in Seq(Sales) /\ 0 \in Int OBVIOUS
<1>6. w.at = "snapshot" /\ w.sales = <<>> /\ w.untried = Tracked /\ w \in Runs BY <1>3, <1>4, <1>5 DEF Runs
<1>7. evaluation' = [evaluation EXCEPT ![e] = w] /\ longs' = longs BY <1>1, <1>2
<1> HIDE DEF w
<1>8. RunIsOrderly(w) BY <1>6 DEF RunIsOrderly
<1> QED BY <1>1, <1>3, <1>6, <1>7, <1>8, OneRunMoves

\* The engine looks at the books when its turn comes.
LEMMA BeginKeepsInv == ASSUME LiquidationInv, NEW e \in Evaluations, BeginEvaluation(e) PROVE LiquidationInv'
<1> DEFINE v == evaluation[e]
<1>1. /\ v \in Runs /\ RunIsOrderly(v) /\ v.at = "snapshot"
      /\ principal \in Nat /\ pledgedWorth \in Nat /\ longs \in [Tracked -> Int]
      /\ evaluation' = [evaluation EXCEPT
            ![e].at = IF IsBreached THEN "selling" ELSE "ended",
            ![e].shortfall = IF IsBreached THEN Shortfall ELSE 0]
      /\ evaluation \in [Evaluations -> {Unstarted} \cup Runs]
      /\ UNCHANGED <<principal, pledgedWorth, longs, encumbered>>
  BY DEF BeginEvaluation, LiquidationInv, Unstarted
<1>2. Shortfall \in Int
  <2>1. PICK x \in Nat : x = pledgedWorth * TargetPercent
    <3>1. pledgedWorth * TargetPercent \in Nat BY <1>1, MonitorAssumption
    <3> QED BY <3>1
  <2>2. x \div 100 \in Int OBVIOUS
  <2>3. Shortfall = principal - (x \div 100) BY <2>1 DEF Shortfall
  <2> QED BY <1>1, <2>2, <2>3
<1>3. PICK at \in {"selling", "ended"}, gap \in Int :
         /\ at = IF IsBreached THEN "selling" ELSE "ended"
         /\ gap = IF IsBreached THEN Shortfall ELSE 0
  <2>1. CASE IsBreached BY <1>2, <2>1
  <2>2. CASE ~IsBreached BY <2>2
  <2> QED BY <2>1, <2>2
<1> DEFINE w == [v EXCEPT !.at = at, !.shortfall = gap]
<1>4. evaluation' = [evaluation EXCEPT ![e] = w] BY <1>1, <1>3
<1>5. v.sales = <<>> BY <1>1 DEF RunIsOrderly
<1> HIDE DEF v
<1>6. /\ w \in Runs /\ w.at = at /\ w.sales = v.sales /\ w.untried = v.untried
      /\ w.skipped = v.skipped /\ w.positions = v.positions /\ w.prices = v.prices
      /\ w.shortfall = gap BY <1>1, <1>3 DEF Runs
<1> HIDE DEF w
<1>7. RunIsOrderly(w)
  <2>1. DOMAIN w.sales = {} /\ w.sales = <<>> BY <1>5, <1>6
  <2>2. Remaining(w) = gap BY <1>6, <2>1, RaisedIsInt, RunTypes
  <2>3. w.at = "selling" => IsBreached BY <1>3, <1>6
  <2>4. ~IsBreached => gap = 0 BY <1>3
  <2>5. w.at = "ended" => ~IsBreached BY <1>3, <1>6
  <2>6. w.at # "snapshot" /\ w.at \in {"selling", "ended"} BY <1>3, <1>6
  <2>7. ASSUME w.at # "ended" \/ Remaining(w) > 0, NEW i \in Tracked, w.positions[i] > 0
        PROVE  i \in w.skipped \cup Sold(w) \cup (IF w.at = "ended" THEN {} ELSE w.untried)
    BY <2>2, <2>4, <2>5, <2>6, <2>7, <1>6, <1>1 DEF Sold, RunIsOrderly
  <2> QED BY <2>1, <2>3, <2>6, <2>7 DEF RunIsOrderly
<1>8. longs' \in [Tracked -> Int] BY <1>1
<1> QED BY <1>1, <1>4, <1>6, <1>7, <1>8, OneRunMoves

\* A holding without a price or of none is passed over for good.
LEMMA SkipKeepsInv == ASSUME LiquidationInv, NEW e \in Evaluations, SkipPosition(e) PROVE LiquidationInv'
<1> DEFINE v == evaluation[e]
<1>1. /\ v \in Runs /\ RunIsOrderly(v) /\ v.at = "selling" /\ longs \in [Tracked -> Int]
      /\ \E i \in v.untried :
            evaluation' = [evaluation EXCEPT ![e] =
                [v EXCEPT !.untried = @ \ {i},
                          !.skipped = @ \union {x \in {i} : v.positions[x] > 0}]]
      /\ UNCHANGED <<principal, pledgedWorth, longs, encumbered>>
  <2>1. /\ v.at = "selling" /\ UNCHANGED <<principal, pledgedWorth, longs, encumbered>>
        /\ \E i \in v.untried :
              evaluation' = [evaluation EXCEPT ![e] =
                  [v EXCEPT !.untried = @ \ {i},
                            !.skipped = @ \union {x \in {i} : v.positions[x] > 0}]] BY Zenon DEF SkipPosition
  <2>2. v \in Runs /\ RunIsOrderly(v) /\ longs \in [Tracked -> Int] BY <2>1 DEF LiquidationInv, Unstarted
  <2> QED BY <2>1, <2>2
<1>2. PICK i \in v.untried :
         evaluation' = [evaluation EXCEPT ![e] =
             [v EXCEPT !.untried = @ \ {i},
                       !.skipped = @ \union {x \in {i} : v.positions[x] > 0}]] BY <1>1
<1> DEFINE w == [v EXCEPT !.untried = @ \ {i},
                          !.skipped = @ \union {x \in {i} : v.positions[x] > 0}]
<1>3. evaluation' = [evaluation EXCEPT ![e] = w] BY <1>2
<1> HIDE DEF v
<1>4. /\ w.at = v.at /\ w.sales = v.sales /\ w.untried = v.untried \ {i}
      /\ w.skipped = v.skipped \cup {x \in {i} : v.positions[x] > 0}
      /\ w.positions = v.positions /\ w.prices = v.prices /\ w.shortfall = v.shortfall BY <1>1 DEF Runs
<1>5. w \in Runs BY <1>1 DEF Runs
<1> HIDE DEF w
<1>6. RunIsOrderly(w)
  <2>1. Sold(w) = Sold(v) /\ \A j : Worth(w, j) = Worth(v, j) BY <1>4 DEF Sold, Worth
  <2>2. IsBreached /\ w.at = "selling" BY <1>1, <1>4 DEF RunIsOrderly
  <2>3. ASSUME NEW n \in DOMAIN w.sales
        PROVE  /\ Raised(SubSeq(w.sales, 1, n - 1)) < w.shortfall
               /\ \A j \in w.untried : Worth(w, j) <= Worth(w, w.sales[n].symbol)
               /\ \A m \in n .. Len(w.sales) : Worth(w, w.sales[m].symbol) <= Worth(w, w.sales[n].symbol)
    BY <1>1, <1>4, <2>1 DEF RunIsOrderly
  <2>4. ASSUME NEW j \in Tracked, w.positions[j] > 0 PROVE j \in w.skipped \cup Sold(w) \cup w.untried
    BY <1>1, <1>4, <2>4, <2>1 DEF RunIsOrderly
  <2> QED BY <2>2, <2>3, <2>4 DEF RunIsOrderly
<1>7. longs' \in [Tracked -> Int] BY <1>1
<1> QED BY <1>1, <1>3, <1>5, <1>6, <1>7, OneRunMoves

\* An evaluation ends with its gap closed or nothing left to try.
LEMMA EndKeepsInv == ASSUME LiquidationInv, NEW e \in Evaluations, EndEvaluation(e) PROVE LiquidationInv'
<1> DEFINE v == evaluation[e]
<1>1. /\ v \in Runs /\ RunIsOrderly(v) /\ v.at = "selling" /\ longs \in [Tracked -> Int]
      /\ Remaining(v) <= 0 \/ v.untried = {}
      /\ evaluation' = [evaluation EXCEPT ![e].at = "ended"]
      /\ evaluation \in [Evaluations -> {Unstarted} \cup Runs]
      /\ UNCHANGED <<principal, pledgedWorth, longs, encumbered>>
  BY DEF EndEvaluation, LiquidationInv, Unstarted
<1> DEFINE w == [v EXCEPT !.at = "ended"]
<1>2. evaluation' = [evaluation EXCEPT ![e] = w] BY <1>1
<1> HIDE DEF v
<1>3. /\ w.at = "ended" /\ w.sales = v.sales /\ w.untried = v.untried /\ w.skipped = v.skipped
      /\ w.positions = v.positions /\ w.prices = v.prices /\ w.shortfall = v.shortfall BY <1>1 DEF Runs
<1>4. w \in Runs BY <1>1 DEF Runs
<1> HIDE DEF w
<1>5. RunIsOrderly(w)
  <2>1. Sold(w) = Sold(v) /\ Remaining(w) = Remaining(v) /\ \A j : Worth(w, j) = Worth(v, j)
    BY <1>3 DEF Sold, Worth, Remaining
  <2>2. IsBreached BY <1>1 DEF RunIsOrderly
  <2>3. ASSUME NEW n \in DOMAIN w.sales
        PROVE  /\ Raised(SubSeq(w.sales, 1, n - 1)) < w.shortfall
               /\ \A j \in w.untried : Worth(w, j) <= Worth(w, w.sales[n].symbol)
               /\ \A m \in n .. Len(w.sales) : Worth(w, w.sales[m].symbol) <= Worth(w, w.sales[n].symbol)
    BY <1>1, <1>3, <2>1 DEF RunIsOrderly
  <2>4. ASSUME Remaining(w) > 0, NEW j \in Tracked, w.positions[j] > 0 PROVE j \in w.skipped \cup Sold(w)
    <3>1. v.untried = {} BY <1>1, RunTypes, <2>1, <2>4
    <3>2. j \in v.skipped \cup Sold(v) \cup v.untried BY <1>1, <1>3, <2>4 DEF RunIsOrderly
    <3> QED BY <1>3, <2>1, <3>1, <3>2
  <2> QED BY <1>3, <2>2, <2>3, <2>4 DEF RunIsOrderly
<1>6. longs' \in [Tracked -> Int] BY <1>1
<1> QED BY <1>1, <1>2, <1>4, <1>5, <1>6, OneRunMoves

\* The start of a longer sequence is the sequence.
LEMMA StartOfAppended ==
  ASSUME NEW S, NEW s \in Seq(S), NEW x \in S, NEW n \in 1 .. Len(s) + 1
  PROVE  SubSeq(Append(s, x), 1, n - 1) = SubSeq(s, 1, n - 1)
<1> DEFINE t == Append(s, x)
<1>1. t \in Seq(S) /\ Len(t) = Len(s) + 1 /\ \A k \in 1 .. Len(s) : t[k] = s[k] BY AppendProperties
<1>2. PICK l \in Nat : l = Len(s) OBVIOUS
<1> HIDE DEF t
<1>3. PICK m \in Nat : m = n - 1 BY <1>2
<1>4. m <= l /\ \A k \in 1 .. m : t[k] = s[k] /\ s[k] \in S /\ t[k] \in S BY <1>1, <1>2, <1>3
<1>5. /\ SubSeq(t, 1, m) \in Seq(S) /\ Len(SubSeq(t, 1, m)) = IF 1 <= m THEN m - 1 + 1 ELSE 0
      /\ \A k \in 1 .. m - 1 + 1 : SubSeq(t, 1, m)[k] = t[1 + k - 1] BY <1>3, <1>4, SubSeqProperties
<1>6. /\ SubSeq(s, 1, m) \in Seq(S) /\ Len(SubSeq(s, 1, m)) = IF 1 <= m THEN m - 1 + 1 ELSE 0
      /\ \A k \in 1 .. m - 1 + 1 : SubSeq(s, 1, m)[k] = s[1 + k - 1] BY <1>3, <1>4, SubSeqProperties
<1>7. \A k \in 1 .. m : k \in 1 .. m - 1 + 1 /\ 1 + k - 1 = k BY <1>3
<1>8. \A k \in 1 .. m : SubSeq(t, 1, m)[k] = SubSeq(s, 1, m)[k] BY <1>4, <1>5, <1>6, <1>7
<1>9. Len(SubSeq(t, 1, m)) = m /\ Len(SubSeq(s, 1, m)) = m BY <1>3, <1>5, <1>6
<1>10. SubSeq(t, 1, m) = SubSeq(s, 1, m) BY <1>5, <1>6, <1>8, <1>9, SeqEqual
<1> QED BY <1>3, <1>10 DEF t

\* The evaluation w is v after an order for the symbol i.
SoldNext(v, w, i, x) ==
  /\ v.at = "selling" /\ w.at = "selling" /\ Remaining(v) > 0
  /\ i \in v.untried /\ IsNext(v, i) /\ x \in Sales /\ x.symbol = i
  /\ w.sales = Append(v.sales, x) /\ w.untried = v.untried \ {i}
  /\ w.skipped = v.skipped /\ w.positions = v.positions /\ w.prices = v.prices
  /\ w.shortfall = v.shortfall

\* An order for the largest holding left, while a gap is left, keeps the order.
LEMMA SaleIsOrderly ==
  ASSUME NEW v \in Runs, NEW w \in Runs, NEW i, NEW x, RunIsOrderly(v), SoldNext(v, w, i, x)
  PROVE  RunIsOrderly(w)
<1>1. /\ v.at = "selling" /\ w.at = "selling" /\ Remaining(v) > 0 /\ IsBreached
      /\ i \in v.untried /\ i \in Tracked /\ x \in Sales /\ x.symbol = i
      /\ w.sales = Append(v.sales, x) /\ w.untried = v.untried \ {i}
      /\ w.skipped = v.skipped /\ w.positions = v.positions /\ w.shortfall = v.shortfall
      /\ \A j : Worth(w, j) = Worth(v, j) BY RunTypes DEF SoldNext, RunIsOrderly, Worth
<1>2. \A j \in v.untried : Worth(v, j) <= Worth(v, i) BY DEF SoldNext, IsNext, Worth
<1>3. v.sales \in Seq(Sales) /\ v.shortfall \in Int /\ Raised(v.sales) \in Int BY RunTypes
<1>4. Raised(v.sales) < v.shortfall BY <1>1, <1>3, RunTypes
<1>5. PICK l \in Nat : l = Len(v.sales) /\ DOMAIN v.sales = 1 .. l BY <1>3
<1>6. /\ DOMAIN w.sales = 1 .. l + 1 /\ Len(w.sales) = l + 1 /\ w.sales[l + 1] = x
      /\ \A k \in 1 .. l : w.sales[k] = v.sales[k] BY <1>1, <1>3, <1>5
<1>7. \A n \in 1 .. l + 1 : SubSeq(w.sales, 1, n - 1) = SubSeq(v.sales, 1, n - 1)
  BY <1>1, <1>3, <1>5, StartOfAppended
<1>8. Worth(v, i) <= Worth(v, i) BY <1>1, <1>2
<1>9. ASSUME NEW n \in 1 .. l + 1
      PROVE  /\ Raised(SubSeq(w.sales, 1, n - 1)) < w.shortfall
             /\ \A j \in w.untried : Worth(w, j) <= Worth(w, w.sales[n].symbol)
             /\ \A m \in n .. l + 1 : Worth(w, w.sales[m].symbol) <= Worth(w, w.sales[n].symbol)
  <2>1. CASE n = l + 1
    <3>1. SubSeq(w.sales, 1, n - 1) = v.sales BY <1>5, <2>1, <1>3, SubSeqFull, <1>7
    <3>2. \A m \in n .. l + 1 : m = l + 1 BY <2>1
    <3>3. w.sales[n].symbol = i BY <1>1, <1>6, <2>1
    <3>4. \A m \in n .. l + 1 : w.sales[m].symbol = i BY <1>1, <1>6, <3>2
    <3>5. Raised(SubSeq(w.sales, 1, n - 1)) < w.shortfall BY <1>1, <1>4, <3>1
    <3>6. \A j \in w.untried : Worth(w, j) <= Worth(w, w.sales[n].symbol) BY <1>1, <1>2, <3>3
    <3>7. \A m \in n .. l + 1 : Worth(w, w.sales[m].symbol) <= Worth(w, w.sales[n].symbol)
      BY <1>1, <1>8, <3>3, <3>4
    <3> QED BY <3>5, <3>6, <3>7
  <2>2. CASE n \in 1 .. l
    <3>1. /\ Raised(SubSeq(v.sales, 1, n - 1)) < v.shortfall
          /\ \A j \in v.untried : Worth(v, j) <= Worth(v, v.sales[n].symbol)
          /\ \A m \in n .. l : Worth(v, v.sales[m].symbol) <= Worth(v, v.sales[n].symbol)
      BY <1>5, <2>2 DEF RunIsOrderly
    <3>2. ASSUME NEW m \in n .. l + 1 PROVE Worth(w, w.sales[m].symbol) <= Worth(w, w.sales[n].symbol)
      <4>1. CASE m = l + 1 BY <1>1, <1>6, <2>2, <3>1, <4>1
      <4>2. CASE m \in n .. l BY <2>2, <4>2, <1>1, <1>6, <3>1
      <4>3. m = l + 1 \/ m \in n .. l OBVIOUS
      <4> QED BY <4>1, <4>2, <4>3
    <3>3. Raised(SubSeq(w.sales, 1, n - 1)) < w.shortfall BY <1>1, <1>7, <3>1
    <3>4. w.sales[n] = v.sales[n] BY <1>6, <2>2
    <3>5. \A j \in w.untried : Worth(w, j) <= Worth(w, w.sales[n].symbol) BY <1>1, <3>1, <3>4
    <3> QED BY <3>2, <3>3, <3>5
  <2> QED BY <2>1, <2>2
<1>10. ASSUME NEW j \in Tracked, w.positions[j] > 0 PROVE j \in w.skipped \cup Sold(w) \cup w.untried
  <2>1. j \in v.skipped \cup Sold(v) \cup v.untried BY <1>1, <1>10 DEF RunIsOrderly
  <2>2. Sold(v) \subseteq Sold(w) /\ i \in Sold(w) BY <1>6, <1>1, <1>5 DEF Sold
  <2> QED BY <1>1, <2>1, <2>2
<1> QED BY <1>1, <1>6, <1>9, <1>10 DEF RunIsOrderly

\* An order is for a whole number of shares.
LEMMA QuantityToSellIsInt ==
  ASSUME NEW v \in Runs, NEW i \in Tracked, v.prices[i] > 0 PROVE QuantityToSell(v, i) \in Int
<1>1. v.positions[i] \in Int /\ v.prices[i] \in Nat /\ Remaining(v) \in Int BY RunTypes
<1>2. ceilDiv(Remaining(v), v.prices[i]) \in Int
  <2>1. PICK n \in Int, d \in Nat \ {0} : n = Remaining(v) + v.prices[i] - 1 /\ d = v.prices[i] BY <1>1
  <2>2. n \div d \in Int OBVIOUS
  <2> QED BY <2>1, <2>2 DEF ceilDiv
<1> QED BY <1>1, <1>2, SmallerOfTwo DEF QuantityToSell

\* The order of an evaluation, with what was filled of it.
SalesOf(v, i, price, stray, filled) ==
  [symbol |-> i, quantity |-> QuantityToSell(v, i), filled |-> filled,
   executed |-> filled * price + stray, stray |-> stray]

\* A sale changes the holding and one evaluation.
LEMMA SellKeepsInv == ASSUME LiquidationInv, NEW e \in Evaluations, SellPosition(e) PROVE LiquidationInv'
<1> DEFINE v == evaluation[e]
<1>1. /\ v.at = "selling" /\ Remaining(v) > 0 /\ UNCHANGED <<principal, pledgedWorth>>
      /\ \E i \in {x \in v.untried : IsNext(v, x) /\ v.positions[x] > 0 /\ v.prices[x] > 0} :
         \E price \in ExecutionPrices, stray \in StrayNotionals,
            filled \in 0 .. QuantityToSell(v, i) :
            /\ longs' = [longs EXCEPT ![i] = @ - filled]
            /\ evaluation' = [evaluation EXCEPT ![e] = [v EXCEPT !.untried = @ \ {i},
                  !.sales = Append(@, SalesOf(v, i, price, stray, filled))]]
  BY Zenon DEF SellPosition, SalesOf
<1>2. v \in Runs /\ RunIsOrderly(v) /\ longs \in [Tracked -> Int] BY <1>1 DEF LiquidationInv, Unstarted
<1>3. PICK i \in {x \in v.untried : IsNext(v, x) /\ v.positions[x] > 0 /\ v.prices[x] > 0} :
         \E price \in ExecutionPrices, stray \in StrayNotionals,
            filled \in 0 .. QuantityToSell(v, i) :
            /\ longs' = [longs EXCEPT ![i] = @ - filled]
            /\ evaluation' = [evaluation EXCEPT ![e] = [v EXCEPT !.untried = @ \ {i},
                  !.sales = Append(@, SalesOf(v, i, price, stray, filled))]] BY <1>1, Zenon
<1>4. PICK price \in ExecutionPrices, stray \in StrayNotionals, filled \in 0 .. QuantityToSell(v, i) :
         /\ longs' = [longs EXCEPT ![i] = @ - filled]
         /\ evaluation' = [evaluation EXCEPT ![e] = [v EXCEPT !.untried = @ \ {i},
               !.sales = Append(@, SalesOf(v, i, price, stray, filled))]] BY <1>3, Zenon
<1> DEFINE x == SalesOf(v, i, price, stray, filled)
           w == [v EXCEPT !.untried = @ \ {i}, !.sales = Append(@, x)]
<1>5. evaluation' = [evaluation EXCEPT ![e] = w] BY <1>4
<1> HIDE DEF v
<1>6. i \in v.untried /\ i \in Tracked /\ IsNext(v, i) /\ v.prices[i] > 0 BY <1>2, RunTypes
<1>7. QuantityToSell(v, i) \in Int BY <1>2, <1>6, QuantityToSellIsInt
<1>8. filled \in Int /\ price \in Nat /\ stray \in Nat BY <1>7, MonitorAssumption
<1>9. x \in Sales /\ x.symbol = i
  <2>1. PICK p \in Int : p = filled * price BY <1>8
  <2>2. filled * price + stray \in Int BY <1>8, <2>1
  <2> QED BY <1>6, <1>7, <1>8, <2>2 DEF SalesOf, Sales
<1> HIDE DEF x
<1>10. Append(v.sales, x) \in Seq(Sales) BY <1>2, <1>9, RunTypes
<1>11. /\ w.at = v.at /\ w.sales = Append(v.sales, x) /\ w.untried = v.untried \ {i}
       /\ w.skipped = v.skipped /\ w.positions = v.positions /\ w.prices = v.prices
       /\ w.shortfall = v.shortfall BY <1>2 DEF Runs
<1>12. w \in Runs BY <1>2, <1>10 DEF Runs
<1> HIDE DEF w
<1>13. SoldNext(v, w, i, x) BY <1>1, <1>6, <1>9, <1>11 DEF SoldNext
<1>14. RunIsOrderly(w) BY <1>2, <1>12, <1>13, SaleIsOrderly
<1>15. longs' \in [Tracked -> Int]
  <2>1. PICK m \in Int : m = longs[i] - filled BY <1>2, <1>6, <1>8
  <2>2. longs' = [longs EXCEPT ![i] = m] BY <1>4, <2>1
  <2> QED BY <1>2, <2>2
<1> QED BY <1>1, <1>5, <1>12, <1>14, <1>15, OneRunMoves

\* Every step of the engine.
LEMMA LiquidationsKeepInv == ASSUME LiquidationInv, LiquidationNext PROVE LiquidationInv'
BY AssembleKeepsInv, BeginKeepsInv, SkipKeepsInv, SellKeepsInv, EndKeepsInv DEF LiquidationNext

\* At the start nothing is evaluated.
LEMMA LiquidationsStartSound == ASSUME MonitorInit PROVE LiquidationInv
<1>1. longs \in LongPositions /\ LongPositions \subseteq [Tracked -> Int]
  BY MonitorAssumption DEF MonitorInit, Tracked
<1>2. principal \in Nat /\ pledgedWorth \in Nat BY MonitorAssumption DEF MonitorInit
<1>3. evaluation = [e \in Evaluations |-> Unstarted] BY DEF MonitorInit
<1> QED BY <1>1, <1>2, <1>3 DEF LiquidationInv

\* A step of another monitor leaves the evaluations and what they look at.
LEMMA OthersKeepLiquidations == ASSUME LiquidationInv, UNCHANGED liquidationVars PROVE LiquidationInv'
<1>1. principal' = principal /\ pledgedWorth' = pledgedWorth /\ longs' = longs /\ evaluation' = evaluation
  BY DEF liquidationVars
<1>2. IsBreached' <=> IsBreached BY <1>1 DEF IsBreached
<1>3. ASSUME NEW e \in Evaluations, evaluation'[e] # Unstarted PROVE RunIsOrderly(evaluation[e])'
  BY <1>1, <1>3, <1>2 DEF LiquidationInv, RunIsOrderly, Worth, Sold, Remaining, Raised
<1> QED BY <1>1, <1>3 DEF LiquidationInv

\* What was sold left the account what is held back.
HeldInv == encumbered \in Int /\ SalesStayInTheHolding

\* An evaluation that moves on without a sale leaves the holding as it was.
LEMMA UnsoldStaysHeld ==
  ASSUME LiquidationInv, HeldInv, NEW e \in Evaluations, NEW w \in Runs,
         evaluation' = [evaluation EXCEPT ![e] = w], UNCHANGED <<longs, encumbered>>,
         w.sales = <<>> \/ (evaluation[e] # Unstarted /\ w.sales = evaluation[e].sales)
  PROVE  HeldInv'
<1> SUFFICES ASSUME NEW f \in Evaluations, evaluation'[f] # Unstarted,
                    NEW n \in DOMAIN evaluation'[f].sales, evaluation'[f].sales[n].filled > 0
             PROVE  longs[evaluation'[f].sales[n].symbol] >= encumbered BY DEF HeldInv, SalesStayInTheHolding
<1>1. CASE f = e BY <1>1 DEF LiquidationInv, HeldInv, SalesStayInTheHolding
<1>2. CASE f # e BY <1>2 DEF LiquidationInv, HeldInv, SalesStayInTheHolding
<1> QED BY <1>1, <1>2

\* A sale passes the gate that holds back what working orders may still sell.
LEMMA SoldStaysHeld == ASSUME LiquidationInv, HeldInv, NEW e \in Evaluations, SellPosition(e) PROVE HeldInv'
<1> DEFINE v == evaluation[e]
<1>1. PICK i \in {x \in v.untried : IsNext(v, x) /\ v.positions[x] > 0 /\ v.prices[x] > 0} :
         \E price \in ExecutionPrices, stray \in StrayNotionals,
            filled \in 0 .. QuantityToSell(v, i) :
            /\ QuantityToSell(v, i) > longs[i] - encumbered => filled = 0
            /\ longs' = [longs EXCEPT ![i] = @ - filled]
            /\ evaluation' = [evaluation EXCEPT ![e] = [v EXCEPT !.untried = @ \ {i},
                  !.sales = Append(@, SalesOf(v, i, price, stray, filled))]]
  BY Zenon DEF SellPosition, SalesOf
<1>2. PICK price \in ExecutionPrices, stray \in StrayNotionals, filled \in 0 .. QuantityToSell(v, i) :
         /\ QuantityToSell(v, i) > longs[i] - encumbered => filled = 0
         /\ longs' = [longs EXCEPT ![i] = @ - filled]
         /\ evaluation' = [evaluation EXCEPT ![e] = [v EXCEPT !.untried = @ \ {i},
               !.sales = Append(@, SalesOf(v, i, price, stray, filled))]] BY <1>1, Zenon
<1>3. v.at = "selling" /\ encumbered' = encumbered /\ encumbered \in Int BY DEF SellPosition, HeldInv
<1>4. v \in Runs /\ longs \in [Tracked -> Int] /\ v # Unstarted BY <1>3 DEF LiquidationInv, Unstarted
<1> DEFINE x == SalesOf(v, i, price, stray, filled)
           w == [v EXCEPT !.untried = @ \ {i}, !.sales = Append(@, x)]
<1>5. evaluation' = [evaluation EXCEPT ![e] = w] BY <1>2
<1>6. x.symbol = i /\ x.filled = filled BY DEF SalesOf
<1>7. \A f \in Evaluations : evaluation[f] # Unstarted =>
          \A n \in DOMAIN evaluation[f].sales :
              /\ evaluation[f].sales[n].symbol \in Tracked
              /\ evaluation[f].sales[n].filled > 0 => longs[evaluation[f].sales[n].symbol] >= encumbered
  <2> SUFFICES ASSUME NEW f \in Evaluations, evaluation[f] # Unstarted,
                      NEW n \in DOMAIN evaluation[f].sales
               PROVE  evaluation[f].sales[n].symbol \in Tracked BY DEF HeldInv, SalesStayInTheHolding
  <2>1. PICK u \in Runs : u = evaluation[f] BY DEF LiquidationInv
  <2>2. u.sales \in Seq(Sales) /\ n \in DOMAIN u.sales BY <2>1, RunTypes
  <2>3. u.sales[n] \in Sales BY <2>2
  <2>4. u.sales[n].symbol \in Tracked BY <2>3 DEF Sales
  <2> QED BY <2>1, <2>4
<1> HIDE DEF v
<1>8. i \in Tracked /\ QuantityToSell(v, i) \in Int /\ i \in v.untried /\ v.sales \in Seq(Sales)
  <2>1. i \in v.untried /\ v.prices[i] > 0 BY <1>1
  <2>2. v.sales \in Seq(Sales) /\ i \in Tracked BY <1>4, <2>1, RunTypes
  <2> QED BY <1>4, <2>1, <2>2, QuantityToSellIsInt
<1>9. filled \in Int /\ filled >= 0 /\ filled <= QuantityToSell(v, i) BY <1>8
<1>10. /\ \A j \in Tracked : longs[j] >= encumbered => longs'[j] >= encumbered
       /\ filled > 0 => longs'[i] >= encumbered
  <2> HIDE DEF x, w
  <2>1. PICK q \in Int : q = QuantityToSell(v, i) BY <1>8
  <2>2. q > longs[i] - encumbered => filled = 0 BY <1>2, <2>1
  <2>3. filled <= q BY <1>9, <2>1
  <2>4. longs[i] \in Int BY <1>4, <1>8
  <2>5. longs'[i] = longs[i] - filled /\ \A j \in Tracked \ {i} : longs'[j] = longs[j] BY <1>2, <1>4, <1>8
  <2>6. filled > 0 => longs'[i] >= encumbered BY <1>3, <1>9, <2>2, <2>3, <2>4, <2>5
  <2>7. filled = 0 => longs'[i] = longs[i] BY <2>4, <2>5
  <2> QED BY <1>9, <2>5, <2>6, <2>7
<1>11. w.sales = Append(v.sales, x) BY <1>4 DEF Runs
<1> HIDE DEF w, x
<1> SUFFICES ASSUME NEW f \in Evaluations, evaluation'[f] # Unstarted,
                    NEW n \in DOMAIN evaluation'[f].sales, evaluation'[f].sales[n].filled > 0
             PROVE  longs'[evaluation'[f].sales[n].symbol] >= encumbered
  BY <1>3 DEF HeldInv, SalesStayInTheHolding
<1>12. CASE f # e
  <2>1. evaluation'[f] = evaluation[f] BY <1>5, <1>12
  <2> QED BY <1>7, <1>10, <2>1
<1>13. CASE f = e
  <2>1. evaluation'[f] = w BY <1>5, <1>13 DEF LiquidationInv
  <2>2. n \in 1 .. Len(v.sales) + 1 BY <1>8, <1>11, <2>1
  <2>3. CASE n = Len(v.sales) + 1
    <3>1. w.sales[n] = x BY <1>8, <1>11, <2>3
    <3> QED BY <1>6, <1>10, <2>1, <3>1
  <2>4. CASE n # Len(v.sales) + 1
    <3>1. n \in DOMAIN v.sales /\ w.sales[n] = v.sales[n] BY <1>8, <1>11, <2>2, <2>4
    <3>2. v.sales[n].symbol \in Tracked
          /\ (v.sales[n].filled > 0 => longs[v.sales[n].symbol] >= encumbered) BY <1>4, <1>7, <3>1 DEF v
    <3> QED BY <1>10, <2>1, <3>1, <3>2
  <2> QED BY <2>3, <2>4
<1> QED BY <1>12, <1>13

\* No step of the engine sells a share twice.
LEMMA SalesKeepHeld == ASSUME LiquidationInv, HeldInv, LiquidationNext PROVE HeldInv'
<1>1. PICK e \in Evaluations :
         \/ AssembleLeverageSnapshot(e) \/ BeginEvaluation(e)
         \/ SkipPosition(e) \/ SellPosition(e) \/ EndEvaluation(e) BY DEF LiquidationNext
<1> DEFINE v == evaluation[e]
<1>2. v.at \in {"snapshot", "selling"} => v \in Runs /\ v # Unstarted BY DEF LiquidationInv, Unstarted
<1>3. LiquidationInv' BY LiquidationsKeepInv
<1>4. CASE AssembleLeverageSnapshot(e)
  <2>1. PICK prices \in LastPrices :
           evaluation' = [evaluation EXCEPT ![e] =
               [at |-> "snapshot", positions |-> longs, prices |-> prices, shortfall |-> 0,
                untried |-> DOMAIN longs, skipped |-> {}, sales |-> <<>>]]
    BY <1>4 DEF AssembleLeverageSnapshot
  <2> DEFINE w == [at |-> "snapshot", positions |-> longs, prices |-> prices, shortfall |-> 0,
                   untried |-> DOMAIN longs, skipped |-> {}, sales |-> <<>>]
  <2>2. evaluation' = [evaluation EXCEPT ![e] = w] /\ w.sales = <<>> /\ w # Unstarted
        /\ UNCHANGED <<longs, encumbered>> BY <1>4, <2>1 DEF Unstarted, AssembleLeverageSnapshot
  <2> HIDE DEF w
  <2>3. w \in Runs BY <1>3, <2>2 DEF LiquidationInv
  <2> QED BY <2>2, <2>3, UnsoldStaysHeld
<1>5. CASE BeginEvaluation(e)
  <2> DEFINE w == [v EXCEPT !.at = IF IsBreached THEN "selling" ELSE "ended",
                            !.shortfall = IF IsBreached THEN Shortfall ELSE 0]
  <2>1. v.at = "snapshot" /\ UNCHANGED <<longs, encumbered>> /\ evaluation' = [evaluation EXCEPT ![e] = w]
    BY <1>5, Zenon DEF BeginEvaluation
  <2>2. w.sales = v.sales /\ w # Unstarted BY <1>2, <2>1 DEF Runs, Unstarted
  <2> HIDE DEF w
  <2>3. w \in Runs BY <1>3, <2>1, <2>2 DEF LiquidationInv
  <2> QED BY <1>2, <2>1, <2>2, <2>3, UnsoldStaysHeld
<1>6. CASE SkipPosition(e)
  <2>1. v.at = "selling" /\ UNCHANGED <<longs, encumbered>>
        /\ \E i \in v.untried : evaluation' = [evaluation EXCEPT ![e] =
               [v EXCEPT !.untried = @ \ {i}, !.skipped = @ \union {x \in {i} : v.positions[x] > 0}]]
    BY <1>6, Zenon DEF SkipPosition
  <2>2. PICK i \in v.untried : evaluation' = [evaluation EXCEPT ![e] =
            [v EXCEPT !.untried = @ \ {i}, !.skipped = @ \union {x \in {i} : v.positions[x] > 0}]] BY <2>1
  <2> DEFINE w == [v EXCEPT !.untried = @ \ {i},
                            !.skipped = @ \union {x \in {i} : v.positions[x] > 0}]
  <2>3. evaluation' = [evaluation EXCEPT ![e] = w] /\ w.sales = v.sales /\ w # Unstarted
    BY <1>2, <2>1, <2>2 DEF Runs, Unstarted
  <2> HIDE DEF w
  <2>4. w \in Runs BY <1>3, <2>3 DEF LiquidationInv
  <2> QED BY <1>2, <2>1, <2>3, <2>4, UnsoldStaysHeld
<1>7. CASE EndEvaluation(e)
  <2> DEFINE w == [v EXCEPT !.at = "ended"]
  <2>1. v.at = "selling" /\ UNCHANGED <<longs, encumbered>> /\ evaluation' = [evaluation EXCEPT ![e] = w]
    BY <1>2, <1>7 DEF EndEvaluation, LiquidationInv
  <2>2. w.sales = v.sales /\ w # Unstarted BY <1>2, <2>1 DEF Runs, Unstarted
  <2> HIDE DEF w
  <2>3. w \in Runs BY <1>3, <2>1, <2>2 DEF LiquidationInv
  <2> QED BY <1>2, <2>1, <2>2, <2>3, UnsoldStaysHeld
<1> QED BY <1>1, <1>4, <1>5, <1>6, <1>7, SoldStaysHeld

\* A step of another monitor leaves what was sold.
LEMMA OthersKeepHeld == ASSUME HeldInv, UNCHANGED liquidationVars PROVE HeldInv'
<1>1. longs' = longs /\ evaluation' = evaluation /\ encumbered' = encumbered BY DEF liquidationVars
<1> QED BY <1>1 DEF HeldInv, SalesStayInTheHolding

--------------------
(* Positions: all of them together.                                        *)

PositionsInv == ActionInv /\ PaperInv /\ FollowInv /\ MarkInv /\ LiquidationInv /\ HeldInv

\* A step of the desks for corporate actions, paper trades and followed strategies.
LEMMA PositionDesksKeepInv == ASSUME PositionsInv, OnlyPositions PROVE PositionsInv'
<1>1. UNCHANGED markVars /\ UNCHANGED liquidationVars BY DEF OnlyPositions, monitorVars
<1>2. MarkInv' /\ LiquidationInv' /\ HeldInv'
  BY <1>1, OthersKeepMarks, OthersKeepLiquidations, OthersKeepHeld DEF PositionsInv
<1>3. \/ ActionNext /\ UNCHANGED <<paperVars, followVars>>
      \/ SimulateFractionalFill /\ UNCHANGED <<actionVars, followVars>>
      \/ FollowNext /\ UNCHANGED <<actionVars, paperVars>> BY DEF OnlyPositions
<1>4. ActionInv' BY <1>3, ActionsKeepInv, OthersKeepActions DEF PositionsInv
<1>5. PaperInv' BY <1>3, PaperKeepsInv, OthersKeepPaper DEF PositionsInv
<1>6. FollowInv' BY <1>3, FollowersKeepInv, FollowersStay DEF PositionsInv
<1> QED BY <1>2, <1>4, <1>5, <1>6 DEF PositionsInv

\* A step of the monitors.
LEMMA MonitorsKeepInv == ASSUME PositionsInv, OnlyMonitors PROVE PositionsInv'
<1>1. UNCHANGED actionVars /\ UNCHANGED paperVars /\ UNCHANGED followVars
  BY DEF OnlyMonitors, positionActionVars
<1>2. ActionInv' /\ PaperInv' /\ FollowInv'
  BY <1>1, OthersKeepActions, OthersKeepPaper, FollowersStay DEF PositionsInv
<1>3. \/ LiquidationNext /\ UNCHANGED markVars
      \/ ApplyFill /\ UNCHANGED liquidationVars
      \/ UNCHANGED markVars /\ UNCHANGED liquidationVars BY DEF OnlyMonitors
<1>4. MarkInv' BY <1>3, FillsKeepInv, OthersKeepMarks DEF PositionsInv
<1>5. LiquidationInv' /\ HeldInv'
  BY <1>3, LiquidationsKeepInv, OthersKeepLiquidations, SalesKeepHeld, OthersKeepHeld DEF PositionsInv
<1> QED BY <1>2, <1>4, <1>5 DEF PositionsInv

\* Every step of the gateway's books: the other desks do not touch positions.
LEMMA PositionsAreInductive == ASSUME PositionsInv, [Next]_vars PROVE PositionsInv'
<1>1. CASE UNCHANGED positionActionVars /\ UNCHANGED monitorVars
  BY <1>1, OthersKeepActions, OthersKeepPaper, FollowersStay, OthersKeepMarks,
     OthersKeepLiquidations, OthersKeepHeld DEF positionActionVars, monitorVars, PositionsInv
<1>2. OnlyCollateral \/ OnlyAlgo \/ OnlyComposite \/ OnlySessions \/ UNCHANGED vars
         => UNCHANGED positionActionVars /\ UNCHANGED monitorVars
  BY DEF OnlyCollateral, OnlyAlgo, OnlyComposite, OnlySessions, vars
<1> QED BY <1>1, <1>2, PositionDesksKeepInv, MonitorsKeepInv DEF Next

\* Cost survives splits and mergers, a position is its holding once the writes of its last
\* change have run in order, the ledger and the margin take a dividend alike, paper trades
\* cancel out, both indexes of a strategy's followers agree, averages follow the fills and
\* a liquidation closes the gap it saw, however calls interleave and whatever fails.
THEOREM PositionBooksAreSound == Spec => []PositionsAreSound
<1>1. Init => PositionsInv
  <2>1. MonitorInit => HeldInv BY DEF MonitorInit, HeldInv, SalesStayInTheHolding
  <2> QED BY <2>1, ActionsStartSound, PaperStartsSound, FollowersStay, MarksStartSound,
             LiquidationsStartSound DEF Init, PositionsInv
<1>2. PositionsInv /\ [Next]_vars => PositionsInv' BY PositionsAreInductive
<1>3. PositionsInv => PositionsAreSound
  <2> SUFFICES ASSUME PositionsInv PROVE PositionsAreSound OBVIOUS
  <2>1. CostBasisIsConserved /\ DividendsAreLogged /\ EventsReachTheMargin /\ ReinvestmentsSpendTheDividend
    BY DEF PositionsInv, ActionInv
  <2>2. PositionsFollowTheHoldings BY InOrderFollows DEF PositionsInv, ActionInv
  <2>3. PaperPositionsCancelOut /\ FollowersAgree BY DEF PositionsInv, PaperInv, FollowInv
  <2>4. CostBasisFollowsTheFills BY MarksFollowTheFills DEF PositionsInv
  <2>5. LiquidationsCloseTheGap BY OrderlyRunsCloseTheGap DEF PositionsInv
  <2>6. SalesStayInTheHolding BY DEF PositionsInv, HeldInv
  <2> QED BY <2>1, <2>2, <2>3, <2>4, <2>5, <2>6 DEF PositionsAreSound
<1> QED BY <1>1, <1>2, <1>3, PTL DEF Spec
====================
