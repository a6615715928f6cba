-------- MODULE DoubleEntryLedger --------
(***************************************************************************)
(* The ledger's accounting core (internal/doubleentry) and the client-fund *)
(* guard in front of it (internal/fundsegregation).  Each call on the book *)
(* is one step under its mutex.  The lines of an entry are its net effect  *)
(* on every account: a debit increases, a credit decreases.  The journal   *)
(* is kept as the number of times each entry was posted, because nothing   *)
(* in the service reads the order of the entries.                          *)
(***************************************************************************)
EXTENDS Integers, FiniteSets, Functions

CONSTANTS
    Clients,      \* accounts classified CLIENT
    Firm,         \* firm-clearing-acct
    CustodyPool,  \* client-money-custody-pool
    Suspense,     \* external-cash-suspense
    OtherAccounts,\* wallets in other currencies and the accounts behind them
    Entries,      \* names of every entry the service may post
    NoSnapshot,
    MaxRestores,  \* bound: restores from a snapshot
    MaxLostAnswers\* bound: commits whose answer is lost

Accounts == Clients \union {Firm, CustodyPool, Suspense} \union OtherAccounts

ASSUME AccountsAssumption ==
    /\ Firm \notin Clients /\ CustodyPool \notin Clients \union {Firm}
    /\ Suspense \notin Clients \union {Firm, CustodyPool}
    /\ OtherAccounts \cap (Clients \union {Firm, CustodyPool, Suspense}) = {}
ASSUME FiniteAssumption == IsFiniteSet(Accounts) /\ IsFiniteSet(Entries)
ASSUME RestoresAssumption == MaxRestores \in Nat /\ MaxLostAnswers \in Nat

VARIABLES
    balance,   \* accountBalanceInMinorUnitsByAccountId
    journal,   \* postedJournalEntriesInPostOrder, as a bag
    snapshot,  \* the snapshot an operator has saved
    restores,  \* history: restores so far
    lost       \* history: posts that took place and were reported failed, per entry

book == <<balance, journal, lost>>
backups == <<snapshot, restores>>

Books == [balance : [Accounts -> Int], journal : [Entries -> Nat]]

LedgerTypeOK ==
    /\ balance \in [Accounts -> Int]
    /\ journal \in [Entries -> Nat]
    /\ snapshot = NoSnapshot \/ snapshot \in Books
    /\ restores \in 0 .. MaxRestores
    /\ lost \in [Entries -> 0 .. MaxLostAnswers]

LedgerInit ==
    /\ balance = [a \in Accounts |-> 0]
    /\ journal = [e \in Entries |-> 0]
    /\ snapshot = NoSnapshot
    /\ restores = 0
    /\ lost = [e \in Entries |-> 0]

SumOver(set, f) == SumFunctionOnSet(f, set)

Balanced(lines) == SumOver(Accounts, lines) = 0

\* An entry that does not balance is refused: the step is not taken.
Enters(entry, lines) ==
    /\ Balanced(lines)
    /\ balance' = [a \in Accounts |-> balance[a] + lines[a]]
    /\ journal' = [journal EXCEPT ![entry] = @ + 1]
    /\ UNCHANGED backups

PostJournalEntry(entry, lines) == Enters(entry, lines) /\ UNCHANGED lost

AnswersLost == SumOver(Entries, lost)

\* The Postgres book commits and the answer to the commit is lost on the way.
CommitLosesItsAnswer(entry, lines) ==
    /\ AnswersLost < MaxLostAnswers
    /\ Enters(entry, lines)
    /\ lost' = [lost EXCEPT ![entry] = @ + 1]

\* What the caller is told has failed did not take place, or did.
PostIsReportedFailed(entry, lines) ==
    \/ UNCHANGED <<book, backups>>
    \/ CommitLosesItsAnswer(entry, lines)

Moves(from, to, amount) ==
    [a \in Accounts |-> IF a = from THEN -amount ELSE IF a = to THEN amount ELSE 0]

\* The client account and the custody pool move together; the outside world
\* takes twice the amount.  A negative amount is a payout.
ClientMoneyMovement(client, amount) ==
    [a \in Accounts |-> IF a \in {client, CustodyPool} THEN amount
                        ELSE IF a = Suspense THEN -2 * amount ELSE 0]

CaptureSnapshot ==
    /\ restores < MaxRestores
    /\ snapshot' = [balance |-> balance, journal |-> journal]
    /\ UNCHANGED <<book, restores>>

\* A mutant: the balances come back, the journal does not.
RestoreBalancesOnly ==
    /\ snapshot # NoSnapshot
    /\ restores < MaxRestores
    /\ balance' = snapshot.balance
    /\ restores' = restores + 1
    /\ UNCHANGED <<journal, snapshot, lost>>

\* The whole book is replaced; nothing else in the service is.
RestoreFromSnapshot ==
    /\ snapshot # NoSnapshot
    /\ restores < MaxRestores
    /\ balance' = snapshot.balance
    /\ journal' = snapshot.journal
    /\ restores' = restores + 1
    /\ UNCHANGED <<snapshot, lost>>
====================
