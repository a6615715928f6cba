-------- MODULE PaymentMandates --------
(***************************************************************************)
(* internal/paymentmandate: standing instructions that a sweep debits on   *)
(* their dates.  Like the withdrawal sweep, SweepDueMandates collects the  *)
(* due mandates under the mutex and posts each one outside it.  The debit  *)
(* asks for no balance, and no withdrawal hold stops it.                   *)
(***************************************************************************)
EXTENDS DoubleEntryLedger

CONSTANTS
    MandateIds,
    MandateOf,       \* the account and amount of each mandate
    MandateSweeps,   \* calls of SweepDueMandates that may overlap
    Period,          \* Frequency.advance, in days
    MaxFailures,     \* maxConsecutiveFailuresBeforeSuspension
    LastDay,         \* bound: the last day
    NoMandate

ASSUME MandateAssumption ==
    /\ MandateIds \subseteq Entries /\ NoMandate \notin MandateIds
    /\ MandateOf \in [MandateIds -> [account : Clients, amount : Nat \ {0}]]
    /\ Period \in Nat \ {0} /\ MaxFailures \in Nat \ {0} /\ LastDay \in Nat

VARIABLES
    mandate,        \* mandatesById
    mandateSweep    \* each sweep: what it collected, what it has just debited

mandates == <<mandate, mandateSweep>>

Unregistered == [status |-> "none", registeredOn |-> 0, nextDebit |-> 0,
                 debits |-> 0, failures |-> 0]

MandateTypeOK ==
    /\ mandate \in [MandateIds ->
          [status : {"none", "ACTIVE", "PAUSED", "CANCELLED", "SUSPENDED"},
           registeredOn : 0 .. LastDay, nextDebit : Nat, debits : Nat,
           failures : 0 .. MaxFailures]]
    /\ mandateSweep \in [MandateSweeps ->
          [due : SUBSET MandateIds, debited : MandateIds \union {NoMandate}]]

MandateInit ==
    /\ mandate = [m \in MandateIds |-> Unregistered]
    /\ mandateSweep = [s \in MandateSweeps |-> [due |-> {}, debited |-> NoMandate]]

SetStatus(m, status) ==
    /\ mandate' = [mandate EXCEPT ![m].status = status]
    /\ UNCHANGED <<book, backups, mandateSweep>>

RegisterMandate(m, day) ==
    /\ mandate[m].status = "none"
    /\ mandate' = [mandate EXCEPT
          ![m].status = "ACTIVE", ![m].registeredOn = day, ![m].nextDebit = day]
    /\ UNCHANGED <<book, backups, mandateSweep>>

PauseMandate(m)  == mandate[m].status = "ACTIVE" /\ SetStatus(m, "PAUSED")
ResumeMandate(m) == mandate[m].status = "PAUSED" /\ SetStatus(m, "ACTIVE")
CancelMandate(m) == mandate[m].status \notin {"none", "CANCELLED"} /\ SetStatus(m, "CANCELLED")

DueMandates(day) ==
    {m \in MandateIds : mandate[m].status = "ACTIVE" /\ mandate[m].nextDebit <= day}

CollectDueMandates(s, day) ==
    /\ mandateSweep[s].due = {}
    /\ DueMandates(day) # {}
    /\ mandateSweep' = [mandateSweep EXCEPT ![s].due = DueMandates(day)]
    /\ UNCHANGED <<book, backups, mandate>>

DebitLines(m) == ClientMoneyMovement(MandateOf[m].account, -MandateOf[m].amount)

PostDebit(s, m) ==
    /\ m \in mandateSweep[s].due
    /\ mandateSweep[s].debited = NoMandate
    /\ PostJournalEntry(m, DebitLines(m))
    /\ mandateSweep' = [mandateSweep EXCEPT ![s].debited = m]
    /\ UNCHANGED mandate

\* A mutant: the next debit date stays where it was.
RecordDebitWithoutAdvancing(s) ==
    LET m == mandateSweep[s].debited IN
    /\ m # NoMandate
    /\ mandate' = [mandate EXCEPT ![m].debits = @ + 1, ![m].failures = 0]
    /\ mandateSweep' = [mandateSweep EXCEPT ![s] = [due |-> @.due \ {m}, debited |-> NoMandate]]
    /\ UNCHANGED <<book, backups>>

RecordDebit(s) ==
    LET m == mandateSweep[s].debited IN
    /\ m # NoMandate
    /\ mandate' = [mandate EXCEPT
          ![m].debits = @ + 1, ![m].failures = 0, ![m].nextDebit = @ + Period]
    /\ mandateSweep' = [mandateSweep EXCEPT ![s] = [due |-> @.due \ {m}, debited |-> NoMandate]]
    /\ UNCHANGED <<book, backups>>

\* A failed post advances no date; enough of them in a row suspend the mandate,
\* whatever its status has become since it was collected.
DebitFails(s, m) ==
    /\ m \in mandateSweep[s].due
    /\ mandateSweep[s].debited = NoMandate
    /\ PostIsReportedFailed(m, DebitLines(m))
    /\ LET failures == mandate[m].failures + 1
           status == IF failures >= MaxFailures THEN "SUSPENDED" ELSE mandate[m].status
       IN mandate' = [mandate EXCEPT ![m].status = status, ![m].failures = failures]
    /\ mandateSweep' = [mandateSweep EXCEPT ![s].due = @ \ {m}]

MandateStep(day) ==
    \/ \E m \in MandateIds :
          RegisterMandate(m, day) \/ PauseMandate(m) \/ ResumeMandate(m) \/ CancelMandate(m)
    \/ \E s \in MandateSweeps :
          \/ CollectDueMandates(s, day)
          \/ RecordDebit(s)
          \/ \E m \in MandateIds : PostDebit(s, m) \/ DebitFails(s, m)
====================
