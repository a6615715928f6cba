-------- MODULE WithdrawalWorkflow --------
(***************************************************************************)
(* internal/withdrawalworkflow: a request places a hold, a sweep pays what *)
(* is due.  RequestWithdrawal and CancelWithdrawal are one critical        *)
(* section each.  ProcessDueWithdrawals is not: it collects the due        *)
(* requests, lets go of the mutex, and posts and marks them one by one.    *)
(* Identifiers are random, so the order of a sweep is any order.           *)
(***************************************************************************)
EXTENDS DoubleEntryLedger

CONSTANTS
    WithdrawalIds,
    WithdrawalOf,        \* the account and amount of each request
    WithdrawalSweeps,    \* calls of ProcessDueWithdrawals that may overlap
    SettlementHold,      \* settlementHoldDuration, in days
    MaxDay,              \* bound: the last day
    Nothing

ASSUME WithdrawalAssumption ==
    /\ WithdrawalIds \subseteq Entries
    /\ WithdrawalOf \in [WithdrawalIds -> [account : Clients, amount : Nat \ {0}]]
    /\ SettlementHold \in Nat /\ MaxDay \in Nat
    /\ Nothing \notin WithdrawalIds

VARIABLES
    today,
    withdrawal,        \* requestsById: status and day of eligibility
    withdrawalSweep,   \* each sweep: what it collected, what it has just paid
    cancelledLate      \* history: cancelled while a sweep held them

withdrawals == <<withdrawal, withdrawalSweep, cancelledLate>>

IdleSweep == [due |-> {}, paid |-> Nothing]
NotRequested == [status |-> "none", eligibleAt |-> 0]

WithdrawalTypeOK ==
    /\ today \in 0 .. MaxDay
    /\ withdrawal \in [WithdrawalIds ->
          [status : {"none", "PENDING_HOLD", "COMPLETED", "CANCELLED"},
           eligibleAt : 0 .. MaxDay + SettlementHold]]
    /\ withdrawalSweep \in [WithdrawalSweeps ->
          [due : SUBSET WithdrawalIds, paid : WithdrawalIds \union {Nothing}]]
    /\ cancelledLate \subseteq WithdrawalIds

WithdrawalInit ==
    /\ today = 0
    /\ withdrawal = [w \in WithdrawalIds |-> NotRequested]
    /\ withdrawalSweep = [s \in WithdrawalSweeps |-> IdleSweep]
    /\ cancelledLate = {}

AccountOf(w) == WithdrawalOf[w].account
AmountOf(w) == WithdrawalOf[w].amount
Status(w) == withdrawal[w].status

Held(client) == {w \in WithdrawalIds : AccountOf(w) = client /\ Status(w) = "PENDING_HOLD"}
Amounts == [w \in WithdrawalIds |-> AmountOf(w)]
heldAmount(client) == SumOver(Held(client), Amounts)

AvailableBalance(client) == balance[client] - heldAmount(client)

PlaceHold(w) ==
    /\ Status(w) = "none"
    /\ withdrawal' = [withdrawal EXCEPT
          ![w] = [status |-> "PENDING_HOLD", eligibleAt |-> today + SettlementHold]]
    /\ UNCHANGED <<book, backups, today, withdrawalSweep, cancelledLate>>

RequestWithdrawal(w) ==
    /\ AmountOf(w) <= AvailableBalance(AccountOf(w))
    /\ PlaceHold(w)

CollectedBySomeSweep(w) == \E s \in WithdrawalSweeps : w \in withdrawalSweep[s].due

CancelWithdrawal(w) ==
    /\ Status(w) = "PENDING_HOLD"
    /\ withdrawal' = [withdrawal EXCEPT ![w].status = "CANCELLED"]
    /\ cancelledLate' = cancelledLate \union {x \in {w} : CollectedBySomeSweep(x)}
    /\ UNCHANGED <<book, backups, today, withdrawalSweep>>

\* A mutant: a request is due whatever its status.
DueByDateAlone(w) == Status(w) # "none" /\ withdrawal[w].eligibleAt <= today

Due(w) == Status(w) = "PENDING_HOLD" /\ withdrawal[w].eligibleAt <= today

CollectDueWithdrawals(s) ==
    /\ withdrawalSweep[s].due = {}
    /\ \E w \in WithdrawalIds : Due(w)
    /\ withdrawalSweep' = [withdrawalSweep EXCEPT ![s].due = {w \in WithdrawalIds : Due(w)}]
    /\ UNCHANGED <<book, backups, today, withdrawal, cancelledLate>>

Payout(w) == Moves(AccountOf(w), Firm, AmountOf(w))

PostPayout(s, w) ==
    /\ w \in withdrawalSweep[s].due
    /\ withdrawalSweep[s].paid = Nothing
    /\ PostJournalEntry(w, Payout(w))
    /\ withdrawalSweep' = [withdrawalSweep EXCEPT ![s].paid = w]
    /\ UNCHANGED <<today, withdrawal, cancelledLate>>

\* The post is reported failed: the request is skipped and stays as it is.
PayoutFails(s, w) ==
    /\ w \in withdrawalSweep[s].due
    /\ withdrawalSweep[s].paid = Nothing
    /\ PostIsReportedFailed(w, Payout(w))
    /\ withdrawalSweep' = [withdrawalSweep EXCEPT ![s].due = @ \ {w}]
    /\ UNCHANGED <<today, withdrawal, cancelledLate>>

\* The status is set without looking at what it has become since it was collected.
MarkCompleted(s) ==
    LET w == withdrawalSweep[s].paid IN
    /\ w # Nothing
    /\ withdrawal' = [withdrawal EXCEPT ![w].status = "COMPLETED"]
    /\ withdrawalSweep' = [withdrawalSweep EXCEPT ![s] = [due |-> @.due \ {w}, paid |-> Nothing]]
    /\ UNCHANGED <<book, backups, today, cancelledLate>>

WithdrawalStep ==
    \/ \E w \in WithdrawalIds : RequestWithdrawal(w) \/ CancelWithdrawal(w)
    \/ \E s \in WithdrawalSweeps :
          \/ CollectDueWithdrawals(s)
          \/ MarkCompleted(s)
          \/ \E w \in WithdrawalIds : PostPayout(s, w) \/ PayoutFails(s, w)
====================
