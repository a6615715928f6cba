-------- MODULE CollateralBooks --------
(***************************************************************************)
(* What oms-gateway lends an account against the shares it holds: the      *)
(* pledge book, margin funding, loans against securities, and the desk     *)
(* that lends and borrows the shares themselves.  Each book has a mutex of *)
(* its own and a handler takes several of them in turn, with a call to the *)
(* ledger in between, so the steps of two requests interleave.  Accounts   *)
(* share nothing here: one account is modelled.                            *)
(***************************************************************************)
EXTENDS Integers, FiniteSets, Functions

CONSTANTS
    CollateralRequests, \* the requests being served at a time
    HeldShares,         \* function: symbol -> the account's net position in it
    Haircut,            \* function: symbol -> percent of the price that does not count
    ReferencePrices, Quantities, LoanAmounts, UtilizedMargins,
    LoanToValue,        \* percent of the pledged value a loan may reach
    MaxCollateralCalls  \* bound: calls of a behaviour

ASSUME CollateralAssumption ==
    /\ LoanToValue \in 0 .. 100
    /\ IsFiniteSet(CollateralRequests) /\ IsFiniteSet(DOMAIN HeldShares)
    /\ \A s \in DOMAIN HeldShares : Haircut[s] \in 0 .. 100 /\ HeldShares[s] \in Nat
    /\ ReferencePrices \subseteq Nat /\ Quantities \subseteq Nat \ {0}
    /\ LoanAmounts \subseteq Nat \ {0} /\ UtilizedMargins \subseteq Nat

VARIABLES
    pledges,            \* PledgeBook.pledgesByAccountAndSymbol: quantity and margin value
    utilized,           \* PledgeBook.utilizedMarginByAccount
    outstanding,        \* FundingBook and LoanBook: the principal owed
    accruing,           \* FundingBook.disbursementStartTimeByAccount has the account
    accountMargin,      \* what these calls added to the risk engine's margin
    collateralCall,     \* where each request is
    collateralCalls,    \* bound
    paidOut,            \* the ledger: what each book paid out, less repayments
    unnoticed,          \* history: of that, what the handler was told had failed
    peak,               \* history: the greatest value that was ever pledged
    restored,           \* history: repayments that were put back
    lent, borrowed      \* Desk.lendingRecords, borrowingRecords

pledgeVars == <<pledges, utilized, peak>>
loanVars == <<outstanding, accruing, paidOut, unnoticed, restored>>
callVars == <<accountMargin, collateralCall, collateralCalls>>
deskVars == <<lent, borrowed>>
collateralVars == <<pledgeVars, loanVars, callVars, deskVars>>

Books == {"funding", "loan"}
NoRequest == [at |-> "idle"]

CollateralInit ==
    /\ pledges = [s \in DOMAIN HeldShares |-> [quantity |-> 0, value |-> 0]]
    /\ utilized = 0
    /\ peak = 0
    /\ outstanding = [b \in Books |-> 0]
    /\ accruing = FALSE
    /\ paidOut = [b \in Books |-> 0]
    /\ unnoticed = [b \in Books |-> 0]
    /\ restored = 0
    /\ accountMargin = 0
    /\ collateralCall = [r \in CollateralRequests |-> NoRequest]
    /\ collateralCalls = 0
    /\ lent = [s \in DOMAIN HeldShares |-> 0]
    /\ borrowed = [s \in DOMAIN HeldShares |-> 0]

Calls(r, call) ==
    /\ collateralCall[r] = NoRequest /\ collateralCalls < MaxCollateralCalls
    /\ collateralCall' = [collateralCall EXCEPT ![r] = call]
    /\ collateralCalls' = collateralCalls + 1

Proceeds(r, at) ==
    /\ collateralCall' = [collateralCall EXCEPT ![r].at = at]
    /\ UNCHANGED <<accountMargin, collateralCalls>>

Replies(r, marginChange) ==
    /\ collateralCall' = [collateralCall EXCEPT ![r] = NoRequest]
    /\ accountMargin' = accountMargin + marginChange
    /\ UNCHANGED collateralCalls

--------------------
(* marginpledge *)
roundToNearestMinorUnit(numerator, denominator) == (2 * numerator + denominator) \div (2 * denominator)

TotalPledgedMarginValue == SumFunction([s \in DOMAIN pledges |-> pledges[s].value])

\* What a pledge adds is fixed at the price of that call; the handler credits it
\* to the risk engine afterwards.
PledgeHolding(r) ==
    \E s \in DOMAIN pledges, quantity \in Quantities, price \in ReferencePrices :
       LET value == roundToNearestMinorUnit(price * quantity * (100 - Haircut[s]), 100)
       IN /\ quantity <= HeldShares[s] - pledges[s].quantity
          /\ Calls(r, [at |-> "crediting", amount |-> value])
          /\ pledges' = [pledges EXCEPT ![s].quantity = @ + quantity, ![s].value = @ + value]
          /\ peak' = IF TotalPledgedMarginValue + value > peak
                     THEN TotalPledgedMarginValue + value ELSE peak
          /\ UNCHANGED <<utilized, accountMargin>>

\* The value released is the share of it the quantity is, rounded down.
UnpledgeHolding(r) ==
    \E s \in DOMAIN pledges, quantity \in Quantities :
       LET released == (quantity * pledges[s].value) \div pledges[s].quantity
       IN /\ pledges[s].quantity > 0 /\ quantity <= pledges[s].quantity
          /\ TotalPledgedMarginValue - released >= utilized
          /\ Calls(r, [at |-> "crediting", amount |-> -released])
          /\ pledges' = [pledges EXCEPT ![s].quantity = @ - quantity, ![s].value = @ - released]
          /\ UNCHANGED <<utilized, peak, accountMargin>>

CreditPledgedMargin(r) ==
    /\ collateralCall[r].at = "crediting"
    /\ Replies(r, collateralCall[r].amount)
    /\ UNCHANGED pledgeVars

SetUtilizedMargin ==
    /\ utilized' \in UtilizedMargins \ {utilized}
    /\ UNCHANGED <<pledges, peak, callVars>>

PledgeNext ==
    /\ \/ \E r \in CollateralRequests : PledgeHolding(r) \/ UnpledgeHolding(r) \/ CreditPledgedMargin(r)
       \/ SetUtilizedMargin
    /\ UNCHANGED <<loanVars, deskVars>>

--------------------
(* marginfunding and loanagainstsecurities *)
CalculateLoanToValueCap(value) == roundToNearestMinorUnit(value * LoanToValue, 100)

CapFor(b, value) == IF b = "funding" THEN value ELSE CalculateLoanToValueCap(value)

\* The handlers read the pledged value before they enter the book.
RequestReadsPledges(r) ==
    /\ \E b \in Books, amount \in LoanAmounts :
          Calls(r, [at |-> "read", book |-> b, amount |-> amount, value |-> TotalPledgedMarginValue])
    /\ UNCHANGED <<loanVars, accountMargin>>

Reserve(r, b) ==
    LET request == collateralCall[r]
        fits == request.amount <= CapFor(b, request.value) - outstanding[b]
    IN /\ request.at = "read" /\ request.book = b
       /\ \/ /\ fits
             /\ Proceeds(r, "disbursing")
             /\ outstanding' = [outstanding EXCEPT ![b] = @ + request.amount]
          \/ /\ ~fits
             /\ Replies(r, 0)
             /\ UNCHANGED outstanding
       /\ UNCHANGED <<accruing, paidOut, unnoticed, restored>>

RequestFunding(r) == Reserve(r, "funding")
RequestLoan(r) == Reserve(r, "loan")

RepayLoan(r) ==
    /\ \E amount \in LoanAmounts :
          /\ amount <= outstanding["loan"]
          /\ Calls(r, [at |-> "repaying", book |-> "loan", amount |-> amount])
          /\ outstanding' = [outstanding EXCEPT !["loan"] = @ - amount]
    /\ UNCHANGED <<accountMargin, accruing, paidOut, unnoticed, restored>>

\* The ledger posts the entry or does not, and a posted one whose answer is lost
\* looks like one that was not.
LedgerAnswers(r, from, done, failed, sign) ==
    LET request == collateralCall[r]
        paid == [paidOut EXCEPT ![request.book] = @ + sign * request.amount]
    IN /\ request.at = from
       /\ \/ Proceeds(r, done) /\ paidOut' = paid /\ UNCHANGED unnoticed
          \/ Proceeds(r, failed) /\ UNCHANGED <<paidOut, unnoticed>>
          \/ /\ Proceeds(r, failed) /\ paidOut' = paid
             /\ unnoticed' = [unnoticed EXCEPT ![request.book] = @ + sign * request.amount]
       /\ UNCHANGED <<outstanding, accruing, restored>>

PostDisbursementJournalEntry(r) == LedgerAnswers(r, "disbursing", "disbursed", "refused", 1)
PostRepaymentJournalEntry(r) == LedgerAnswers(r, "repaying", "repaid", "unrepaid", -1)

\* What a rollback finds missing, because it was repaid meanwhile, is forgotten.
RollbackReservation(r) ==
    LET request == collateralCall[r]
    IN /\ request.at = "refused"
       /\ Replies(r, 0)
       /\ outstanding' = [outstanding EXCEPT
             ![request.book] = IF @ > request.amount THEN @ - request.amount ELSE 0]
       /\ UNCHANGED <<accruing, paidOut, unnoticed, restored>>

DisbursementIsCredited(r) ==
    LET request == collateralCall[r]
    IN /\ request.at = "disbursed"
       /\ Replies(r, request.amount)
       /\ accruing' = (accruing \/ request.book = "funding")
       /\ UNCHANGED <<outstanding, paidOut, unnoticed, restored>>

\* Mutant: a repayment that could not be posted stays deducted.
LeavePrincipalAfterFailedRepayment(r) ==
    /\ collateralCall[r].at = "unrepaid"
    /\ Replies(r, 0)
    /\ UNCHANGED loanVars

RestorePrincipalAfterFailedRepayment(r) ==
    LET request == collateralCall[r]
    IN /\ request.at = "unrepaid"
       /\ Replies(r, 0)
       /\ outstanding' = [outstanding EXCEPT !["loan"] = @ + request.amount]
       /\ restored' = restored + request.amount
       /\ UNCHANGED <<accruing, paidOut, unnoticed>>

RepaymentIsDebited(r) ==
    /\ collateralCall[r].at = "repaid"
    /\ Replies(r, -collateralCall[r].amount)
    /\ UNCHANGED loanVars

LoanNext ==
    /\ \E r \in CollateralRequests :
          \/ RequestReadsPledges(r) \/ RequestFunding(r) \/ RequestLoan(r) \/ RepayLoan(r)
          \/ PostDisbursementJournalEntry(r) \/ PostRepaymentJournalEntry(r)
          \/ RollbackReservation(r) \/ DisbursementIsCredited(r)
          \/ RestorePrincipalAfterFailedRepayment(r) \/ RepaymentIsDebited(r)
    /\ UNCHANGED <<pledgeVars, deskVars>>

\* Interest of 12 percent a year, by the day, at once rounded.
CalculateAccruedInterest(principal, days) ==
    IF principal <= 0 \/ days <= 0 THEN 0 ELSE roundToNearestMinorUnit(principal * 12 * days, 36500)

LiveInterestCost(days, more) ==
    LET cost(d) == IF accruing THEN CalculateAccruedInterest(outstanding["funding"], d) ELSE 0
        projected == IF more < 0 THEN 0 ELSE more
    IN [soFar |-> cost(days), total |-> cost(days + projected),
        incremental |-> cost(days + projected) - cost(days)]

--------------------
(* securitieslendingborrowing *)
LendSecurity ==
    /\ \E s \in DOMAIN lent, quantity \in Quantities :
          /\ quantity <= HeldShares[s] - lent[s]
          /\ lent' = [lent EXCEPT ![s] = @ + quantity]
    /\ UNCHANGED borrowed

RecallLending ==
    /\ \E s \in DOMAIN lent, quantity \in Quantities :
          /\ quantity <= lent[s]
          /\ lent' = [lent EXCEPT ![s] = @ - quantity]
    /\ UNCHANGED borrowed

BorrowSecurity ==
    /\ collateralCalls < MaxCollateralCalls
    /\ \E s \in DOMAIN borrowed, quantity \in Quantities :
          borrowed' = [borrowed EXCEPT ![s] = @ + quantity]
    /\ UNCHANGED lent

ReturnBorrowing ==
    /\ \E s \in DOMAIN borrowed, quantity \in Quantities :
          /\ quantity <= borrowed[s]
          /\ borrowed' = [borrowed EXCEPT ![s] = @ - quantity]
    /\ UNCHANGED lent

DeskNext ==
    /\ \/ (LendSecurity \/ RecallLending \/ ReturnBorrowing) /\ UNCHANGED callVars
       \/ /\ BorrowSecurity
          /\ collateralCalls' = collateralCalls + 1
          /\ UNCHANGED <<accountMargin, collateralCall>>
    /\ UNCHANGED <<pledgeVars, loanVars>>

--------------------
\* What a call has still to add to the margin, or to take from it.
MarginDue(call) ==
    CASE call.at \in {"crediting", "disbursed"} -> call.amount
      [] call.at = "repaid" -> -call.amount
      [] OTHER -> 0

\* What a call has reserved in book b before the ledger has answered, or deducted.
ReservedIn(b, call) ==
    CASE call.at \in {"disbursing", "refused"} /\ call.book = b -> call.amount
      [] call.at \in {"repaying", "unrepaid"} /\ call.book = b -> -call.amount
      [] OTHER -> 0

\* The margin an account trades on is what its pledges and its credit are worth:
\* whatever calls overlap, only what is being credited at the moment, and what the
\* ledger did without saying so, is missing from it (main.go:2839, 3111, 3354).
MarginMirrorsTheCredit ==
    LET noticed(b) == paidOut[b] - unnoticed[b]
        due == SumFunction([r \in CollateralRequests |-> MarginDue(collateralCall[r])])
    IN accountMargin + due = TotalPledgedMarginValue + noticed("funding") + noticed("loan")

\* A book never shows less than the client owes, however a rollback, a repayment
\* and a restored principal overlap, but for payments whose answer was lost
\* (marginFundingBook.go:203, loanAgainstSecuritiesBook.go:158).
DebtsAreNotForgotten ==
    \A b \in Books :
       outstanding[b] >= paidOut[b] - unnoticed[b]
          + SumFunction([r \in CollateralRequests |-> ReservedIn(b, collateralCall[r])])

\* No more is lent than collateral ever backed, but for repayments put back after
\* their room was lent again (loanAgainstSecuritiesBook.go:194).
CreditStaysUnderTheCollateral ==
    \A b \in Books : outstanding[b] <= CapFor(b, peak) + (IF b = "loan" THEN restored ELSE 0)

\* A pledge that is taken back leaves no margin behind, and a part of it releases
\* no more than its share (marginPledgeBook.go:233).
PledgesReleaseWhatTheyGave ==
    \A s \in DOMAIN pledges :
       /\ pledges[s].quantity <= HeldShares[s] /\ lent[s] <= HeldShares[s]
       /\ pledges[s].value >= 0
       /\ pledges[s].quantity = 0 => pledges[s].value = 0

\* Interest grows with every day and a projection never undercuts what has accrued.
InterestOnlyGrows ==
    \A days \in {0, 365, 730}, more \in {-1, 0, 365} :
       LiveInterestCost(days, more).incremental >= 0
====================
