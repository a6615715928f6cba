-------- MODULE MultiCurrencyWallet --------
(***************************************************************************)
(* Wallets in several currencies over the same book                        *)
(* (internal/multicurrencywallet).  The wallet in the native currency is   *)
(* the account itself, so everything else the ledger posts moves it too;   *)
(* any other wallet is a ledger account of its own.  A withdrawal or a     *)
(* conversion checks and posts under a mutex that keeps out other wallet   *)
(* calls and nobody else.                                                  *)
(***************************************************************************)
EXTENDS DoubleEntryLedger

CONSTANTS
    WalletRequests,
    WalletOwners,       \* clients and accounts that are no clients
    ForeignWallet,      \* function: <<owner, currency>> -> ledger account
    Native,
    WalletRates,        \* function: <<from, to>> -> scaled rate
    RateScale,
    WalletCash,         \* wallet-external-cash-suspense
    Clearing,           \* fx-conversion-clearing
    WalletAmounts,
    WalletEntry,        \* the name of the entries the wallets post
    NoWalletCall,
    MaxWalletCalls      \* bound

\* A wallet in another currency is an account of its own, which no customer has.
ASSUME WalletAssumption ==
    /\ {WalletCash, Clearing} \subseteq OtherAccounts
    /\ WalletOwners \subseteq Accounts \ ({CustodyPool} \union OtherAccounts)
    /\ \A w \in DOMAIN ForeignWallet :
          /\ w = <<w[1], w[2]>> /\ w[1] \in WalletOwners /\ w[2] # Native
          /\ ForeignWallet[w] \in OtherAccounts \ {WalletCash, Clearing}
    /\ \A v, w \in DOMAIN ForeignWallet : ForeignWallet[v] = ForeignWallet[w] => v = w
    /\ \A p \in DOMAIN WalletRates : WalletRates[p] \in Nat
    /\ RateScale \in Nat \ {0} /\ WalletAmounts \subseteq Nat \ {0}
    /\ NoWalletCall \notin [at : {"posted"}, owner : WalletOwners,
                            currency : {Native} \union {w[2] : w \in DOMAIN ForeignWallet}]

VARIABLES
    walletCall,   \* per request: what was checked and is about to be posted or listed
    opened,       \* openedCurrenciesByAccount
    taken,        \* history: what wallet calls took out of each native wallet
    walletCalls   \* bound

wallets == <<walletCall, opened, taken, walletCalls>>

CurrenciesOf(o) == {Native} \union {w[2] : w \in {w \in DOMAIN ForeignWallet : w[1] = o}}

WalletInit ==
    /\ walletCall = [r \in WalletRequests |-> NoWalletCall]
    /\ opened = [o \in WalletOwners |-> {}]
    /\ taken = [o \in WalletOwners |-> 0]
    /\ walletCalls = 0

ledgerAccountIdentifierFor(o, currency) == IF currency = Native THEN o ELSE ForeignWallet[<<o, currency>>]

convertMinorUnitsRoundHalfUp(amount, rate) == (amount * rate + RateScale \div 2) \div RateScale

isClientAccount(o) == o \in Clients

\* Client money in the native currency goes through the guard, other money against the
\* wallets' own suspense account.
WalletMovement(o, currency, amount) ==
    IF currency = Native /\ isClientAccount(o) THEN ClientMoneyMovement(o, amount)
    ELSE Moves(WalletCash, ledgerAccountIdentifierFor(o, currency), amount)

BalanceMutationsLocked == \E r \in WalletRequests : walletCall[r] # NoWalletCall /\ walletCall[r].at = "checked"

Starts(r) ==
    /\ walletCall[r] = NoWalletCall
    /\ walletCalls < MaxWalletCalls
    /\ walletCalls' = walletCalls + 1

\* Posted without a lock; the wallet is listed by a step of its own, unless the handler
\* was told that the post had failed.
DepositIntoCurrencyWallet(r) ==
    /\ Starts(r)
    /\ \E o \in WalletOwners, amount \in WalletAmounts : \E currency \in CurrenciesOf(o) :
          \/ /\ PostJournalEntry(WalletEntry, WalletMovement(o, currency, amount))
             /\ walletCall' = [walletCall EXCEPT ![r] =
                                  [at |-> "posted", owner |-> o, currency |-> currency]]
          \/ /\ CommitLosesItsAnswer(WalletEntry, WalletMovement(o, currency, amount))
             /\ UNCHANGED walletCall
    /\ UNCHANGED <<opened, taken>>

CheckForWithdrawal(r) ==
    /\ Starts(r)
    /\ \E o \in WalletOwners, amount \in WalletAmounts : \E currency \in CurrenciesOf(o) :
          /\ balance[ledgerAccountIdentifierFor(o, currency)] >= amount
          /\ walletCall' = [walletCall EXCEPT ![r] =
                [at |-> "checked", owner |-> o, currency |-> currency, amount |-> amount,
                 lines |-> WalletMovement(o, currency, -amount), opens |-> FALSE]]
    /\ UNCHANGED <<book, backups, opened, taken>>

WithdrawFromCurrencyWallet(r) == ~BalanceMutationsLocked /\ CheckForWithdrawal(r)

\* The two wallets of a conversion, and what they lack to balance.
ConversionLines(o, from, to, amount, converted) ==
    LET lines == [a \in Accounts |->
                     IF a = ledgerAccountIdentifierFor(o, from) THEN -amount
                     ELSE IF a = ledgerAccountIdentifierFor(o, to) THEN converted ELSE 0]
    IN [lines EXCEPT ![Clearing] = amount - converted]

\* The custody pool mirrors the native leg of a client, and what the lines lack to
\* balance goes through the clearing account.
MirroredConversionLines(o, from, to, amount, converted) ==
    LET mirrored == IF ~isClientAccount(o) THEN 0
                    ELSE IF from = Native THEN -amount ELSE IF to = Native THEN converted ELSE 0
        lines == ConversionLines(o, from, to, amount, converted)
    IN [lines EXCEPT ![CustodyPool] = @ + mirrored, ![Clearing] = @ - mirrored]

ConvertBetweenCurrencyWallets(r) ==
    /\ Starts(r)
    /\ ~BalanceMutationsLocked
    /\ \E o \in WalletOwners, amount \in WalletAmounts : \E from, to \in CurrenciesOf(o) :
          LET converted == convertMinorUnitsRoundHalfUp(amount, WalletRates[<<from, to>>]) IN
          /\ from # to
          /\ <<from, to>> \in DOMAIN WalletRates
          /\ balance[ledgerAccountIdentifierFor(o, from)] >= amount
          /\ converted > 0
          /\ walletCall' = [walletCall EXCEPT ![r] =
                [at |-> "checked", owner |-> o, currency |-> from, amount |-> amount, to |-> to,
                 lines |-> MirroredConversionLines(o, from, to, amount, converted), opens |-> TRUE]]
    /\ UNCHANGED <<book, backups, opened, taken>>

PostWalletEntry(r) ==
    LET call == walletCall[r] IN
    /\ call # NoWalletCall /\ call.at = "checked"
    /\ \/ /\ PostJournalEntry(WalletEntry, call.lines)
          /\ walletCall' = [walletCall EXCEPT ![r] =
                IF call.opens THEN [at |-> "posted", owner |-> call.owner, currency |-> call.to]
                ELSE NoWalletCall]
       \/ /\ CommitLosesItsAnswer(WalletEntry, call.lines)
          /\ walletCall' = [walletCall EXCEPT ![r] = NoWalletCall]
    /\ taken' = IF call.currency = Native THEN [taken EXCEPT ![call.owner] = @ + call.amount] ELSE taken
    /\ UNCHANGED <<opened, walletCalls>>

markWalletOpened(r) ==
    LET call == walletCall[r] IN
    /\ call # NoWalletCall /\ call.at = "posted"
    /\ opened' = [opened EXCEPT ![call.owner] = @ \union {call.currency}]
    /\ walletCall' = [walletCall EXCEPT ![r] = NoWalletCall]
    /\ UNCHANGED <<book, backups, taken, walletCalls>>

WalletStep ==
    \E r \in WalletRequests :
        \/ DepositIntoCurrencyWallet(r) \/ WithdrawFromCurrencyWallet(r)
        \/ ConvertBetweenCurrencyWallets(r) \/ PostWalletEntry(r) \/ markWalletOpened(r)

--------------------
\* However wallet calls overlap, none takes more out of a wallet in another currency
\* than is in it, and every such wallet with money is listed once its deposit or
\* conversion has returned, if no answer to a commit was lost.
WalletsAreNotOverdrawn ==
    \A w \in DOMAIN ForeignWallet :
        LET Listing == \E r \in WalletRequests :
                           /\ walletCall[r] # NoWalletCall
                           /\ walletCall[r].at = "posted" /\ <<walletCall[r].owner, walletCall[r].currency>> = w
        IN /\ balance[ForeignWallet[w]] >= 0
           /\ (lost[WalletEntry] = 0 /\ balance[ForeignWallet[w]] > 0) => w[2] \in opened[w[1]] \/ Listing
====================
