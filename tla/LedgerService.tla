-------- MODULE LedgerService --------
(***************************************************************************)
(* The ledger process: the accounting core with the withdrawal workflow,   *)
(* the deposit rail and the payment mandates in front of it, the entries   *)
(* other services and transfers between clients post, and an operator who  *)
(* saves and restores the book.  All the HTTP handlers interleave.  desk   *)
(* bounds what a behaviour is about: the funding desks together, the same  *)
(* with commits whose answer is lost in place of the operator, the wallets *)
(* in several currencies among withdrawals and outside entries, or the     *)
(* wallets by themselves with commits whose answer is lost.                *)
(***************************************************************************)
EXTENDS WithdrawalWorkflow, DepositRail, PaymentMandates, MultiCurrencyWallet

CONSTANTS
    OutsideEntries,   \* trade settlements and transfers between clients
    OutsideLines,     \* the effect of each on every account
    Desks             \* bound: what behaviours are about

\* What other services post names accounts of clients, of the firm and of the outside world.
ASSUME OutsideAssumption ==
    /\ OutsideEntries \subseteq Entries
    /\ \A x \in OutsideEntries :
          /\ OutsideLines[x] \in [Accounts -> Int]
          /\ \A a \in {CustodyPool} \union OtherAccounts : OutsideLines[x][a] = 0
    /\ LastDay = MaxDay

\* An entry is named by what it is posted for: one request, or the wallets.
ASSUME EntriesAssumption ==
    /\ WithdrawalIds \intersect (DepositIds \union MandateIds \union OutsideEntries) = {}
    /\ DepositIds \intersect (MandateIds \union OutsideEntries) = {}
    /\ MandateIds \intersect OutsideEntries = {}
    /\ WalletEntry \in Entries \ (WithdrawalIds \union DepositIds \union MandateIds \union OutsideEntries)

VARIABLE desk

vars == <<book, backups, today, withdrawals, deposits, mandates, wallets, desk>>

\* Every variable keeps its type; in particular a mandate that fails too often
\* in a row is suspended before it can fail again.
TypeOK == LedgerTypeOK /\ WithdrawalTypeOK /\ DepositTypeOK /\ MandateTypeOK

Init == desk \in Desks /\ LedgerInit /\ WithdrawalInit /\ DepositInit /\ MandateInit /\ WalletInit

NextDay ==
    /\ today < MaxDay
    /\ today' = today + 1
    /\ UNCHANGED <<book, backups, withdrawals, deposits, mandates>>

\* Each outside entry is posted at most once, a bound.
PostOutsideEntry(x) ==
    /\ journal[x] = 0
    /\ PostJournalEntry(x, OutsideLines[x])
    /\ UNCHANGED <<today, withdrawals, deposits, mandates>>

Operator ==
    /\ CaptureSnapshot \/ RestoreFromSnapshot
    /\ UNCHANGED <<today, withdrawals, deposits, mandates>>

Funding ==
    /\ desk \in {"funding", "commits"}
    /\ \/ DepositStep /\ UNCHANGED <<today, withdrawals, mandates>>
       \/ MandateStep(today) /\ UNCHANGED <<today, withdrawals, deposits>>
       \/ desk = "funding" /\ Operator
    /\ UNCHANGED wallets

Common ==
    /\ desk # "wallet commits"
    /\ \/ NextDay
       \/ WithdrawalStep /\ UNCHANGED <<deposits, mandates>>
       \/ \E x \in OutsideEntries : PostOutsideEntry(x)
    /\ UNCHANGED wallets

Wallets ==
    /\ desk \in {"wallets", "wallet commits"}
    /\ WalletStep
    /\ UNCHANGED <<today, withdrawals, deposits, mandates>>

Next ==
    /\ Funding \/ Common \/ Wallets
    /\ desk \in {"funding", "wallets"} => UNCHANGED lost
    /\ UNCHANGED desk

Spec == Init /\ [][Next]_vars

--------------------
LossToOutside(client, x) ==
    IF OutsideLines[x][client] < 0 THEN -(journal[x] * OutsideLines[x][client]) ELSE 0

\* What a client's account has lost to debits that ask for no balance, or, like those of
\* a wallet, for the balance without what is on hold.
UncheckedDebits(client) ==
    LET OfMandate == [m \in MandateIds |-> IF MandateOf[m].account = client
                                           THEN journal[m] * MandateOf[m].amount ELSE 0]
        OfOutside == [x \in OutsideEntries |-> LossToOutside(client, x)]
    IN SumOver(MandateIds, OfMandate) + SumOver(OutsideEntries, OfOutside)
       + (IF client \in WalletOwners THEN taken[client] ELSE 0)

PaidBySomeSweep(w) == \E s \in WithdrawalSweeps : withdrawalSweep[s].paid = w
ClaimedBySome(d) == \E h \in Confirmations : confirming[h] = d
DebitedBySomeSweep(m) == \E s \in MandateSweeps : mandateSweep[s].debited = m
OneIf(condition) == IF condition THEN 1 ELSE 0

\* The custody pool is what the clients own, but for the money that left or
\* reached client accounts by entries the guard never saw: payouts of
\* withdrawals and entries posted from outside.  (fundsegregation: "a single
\* designated custody-pool account's balance must always equal the sum of every
\* CLIENT account's balance", for the movements that go through it, and also
\* after a restore.)
CustodyPoolMirrorsClientMoney ==
    LET PaidOut == [w \in WithdrawalIds |-> journal[w] * AmountOf(w)]
        ClientSide == [x \in OutsideEntries |-> journal[x] * SumOver(Clients, OutsideLines[x])]
    IN balance[CustodyPool] = SumOver(Clients, balance) + SumOver(WithdrawalIds, PaidOut)
                              - SumOver(OutsideEntries, ClientSide)

\* A confirmed deposit is in the ledger exactly once and an unconfirmed one not
\* at all, however many callbacks arrive and however often the post fails, but for
\* one more of each post that took place and was reported failed: the claim is given
\* back and the next callback posts again (pgLedgerBook.go:188).
\* (ConfirmDeposit: "money must never be posted twice for the same deposit".)
DepositsArePostedOnce ==
    restores = 0 => \A d \in DepositIds :
        journal[d] = OneIf(deposit[d] = "CONFIRMED" /\ ~ClaimedBySome(d)) + lost[d]

\* With one sweep at a time, a withdrawal has left the ledger once if it is
\* completed (or the sweep is about to say so), and otherwise not at all, and
\* never before its hold is over.  In particular one cancelled before a sweep
\* collected it is never paid.  A payout that was reported failed and took place is
\* paid once more, or stands although the request is cancelled.  (ProcessDueWithdrawals.)
PayoutsMatchStatuses ==
    restores = 0 => \A w \in WithdrawalIds :
        /\ journal[w] = OneIf(Status(w) = "COMPLETED" \/ PaidBySomeSweep(w)) + lost[w]
        /\ journal[w] > 0 => Status(w) # "none" /\ withdrawal[w].eligibleAt <= today

\* Money on hold is still in the account, short of what mandates, outside entries
\* and payouts reported failed took without asking, as long as no withdrawal was cancelled under a
\* sweep that went on to pay it.  (RequestWithdrawal: the check and the hold are
\* atomic so that two requests never overdraw the account.)
HeldMoneyIsCovered ==
    restores = 0 /\ cancelledLate = {} => \A c \in Clients :
        LET Unpaid == {w \in Held(c) : journal[w] = lost[w]}
            Unnoticed == [w \in WithdrawalIds |->
                             IF AccountOf(w) = c THEN lost[w] * AmountOf(w) ELSE 0]
        IN balance[c] + UncheckedDebits(c) + SumOver(WithdrawalIds, Unnoticed)
              >= SumOver(Unpaid, Amounts)

\* With one sweep at a time, a mandate is debited once per date, each date after
\* the one before, none ahead of time, and the ledger has one debit per date
\* passed, and one more of each that was reported failed and took place.  (SweepDueMandates: "NextDebitDate only advances on a SUCCESSFUL
\* sweep".)
MandateDebitsFollowTheSchedule ==
    restores = 0 => \A m \in MandateIds :
        /\ journal[m] = mandate[m].debits + OneIf(DebitedBySomeSweep(m)) + lost[m]
        /\ mandate[m].nextDebit = mandate[m].registeredOn + Period * mandate[m].debits
        /\ journal[m] > lost[m] =>
              mandate[m].registeredOn + Period * (journal[m] - lost[m] - 1) <= today

\* Held money is covered and so is every wallet in another currency, whichever of the
\* ledger's handlers run between the check of a balance and its entry.
BalancesAreCovered == HeldMoneyIsCovered /\ (restores = 0 => WalletsAreNotOverdrawn)

\* A withdrawal is paid at most once.  (WithdrawalWorkflow "is safe for
\* concurrent use": two calls of ProcessDueWithdrawals that overlap.)
WithdrawalsArePaidOnce == restores = 0 => \A w \in WithdrawalIds : journal[w] <= 1
====================
