-------- MODULE DepositRail --------
(***************************************************************************)
(* internal/depositrail: a deposit is initiated, and confirmed by a bank   *)
(* callback that may arrive any number of times, also at once.  A          *)
(* confirmation claims the deposit under the mutex, posts the money        *)
(* outside it, and gives the claim back when the post fails.               *)
(***************************************************************************)
EXTENDS DoubleEntryLedger

CONSTANTS
    DepositIds,
    DepositOf,       \* the account and amount of each deposit
    Confirmations,   \* calls of ConfirmDeposit that may overlap
    NoDeposit

ASSUME DepositAssumption ==
    /\ DepositIds \subseteq Entries /\ NoDeposit \notin DepositIds
    /\ DepositOf \in [DepositIds -> [account : Clients, amount : Nat \ {0}]]

VARIABLES
    deposit,       \* depositsById: the status of each deposit
    confirming     \* the deposit each confirmation has claimed

deposits == <<deposit, confirming>>

DepositTypeOK ==
    /\ deposit \in [DepositIds -> {"none", "PENDING", "CONFIRMED"}]
    /\ confirming \in [Confirmations -> DepositIds \union {NoDeposit}]

DepositInit ==
    /\ deposit = [d \in DepositIds |-> "none"]
    /\ confirming = [h \in Confirmations |-> NoDeposit]

InitiateDeposit(d) ==
    /\ deposit[d] = "none"
    /\ deposit' = [deposit EXCEPT ![d] = "PENDING"]
    /\ UNCHANGED <<book, backups, confirming>>

\* A mutant: the deposit is only marked once the money is posted.
ClaimWithoutMarking(h, d) ==
    /\ confirming[h] = NoDeposit
    /\ deposit[d] = "PENDING"
    /\ confirming' = [confirming EXCEPT ![h] = d]
    /\ UNCHANGED <<book, backups, deposit>>

ClaimDeposit(h, d) ==
    /\ confirming[h] = NoDeposit
    /\ deposit[d] = "PENDING"
    /\ deposit' = [deposit EXCEPT ![d] = "CONFIRMED"]
    /\ confirming' = [confirming EXCEPT ![h] = d]
    /\ UNCHANGED <<book, backups>>

DepositLines(d) == ClientMoneyMovement(DepositOf[d].account, DepositOf[d].amount)

PostDeposit(h) ==
    LET d == confirming[h] IN
    /\ d # NoDeposit
    /\ PostJournalEntry(d, DepositLines(d))
    /\ deposit' = [deposit EXCEPT ![d] = "CONFIRMED"]
    /\ confirming' = [confirming EXCEPT ![h] = NoDeposit]

DepositFails(h) ==
    LET d == confirming[h] IN
    /\ d # NoDeposit
    /\ PostIsReportedFailed(d, DepositLines(d))
    /\ deposit' = [deposit EXCEPT ![d] = "PENDING"]
    /\ confirming' = [confirming EXCEPT ![h] = NoDeposit]

DepositStep ==
    \/ \E d \in DepositIds : InitiateDeposit(d)
    \/ \E h \in Confirmations :
          \/ \E d \in DepositIds : ClaimDeposit(h, d)
          \/ PostDeposit(h)
          \/ DepositFails(h)
====================
