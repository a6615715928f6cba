-------- MODULE KillSwitch --------
(***************************************************************************)
(* internal/connectivitykillswitch: two independent reasons to halt        *)
(* trading.  The manual flag is an admin's; the auto flag follows the      *)
(* results of calls to the matching engine, in the order in which they are *)
(* recorded.                                                               *)
(***************************************************************************)
EXTENDS Integers

CONSTANT FailureThreshold   \* 3 in main.go; a threshold of 0 disables the auto flag

ASSUME ThresholdAssumption == FailureThreshold \in Nat

VARIABLES isManuallyEngaged, isAutoEngaged, consecutiveFailures

killSwitch == <<isManuallyEngaged, isAutoEngaged, consecutiveFailures>>

KillSwitchTypeOK ==
    /\ isManuallyEngaged \in BOOLEAN
    /\ isAutoEngaged \in BOOLEAN
    /\ consecutiveFailures \in 0 .. FailureThreshold

KillSwitchInit ==
    /\ isManuallyEngaged = FALSE
    /\ isAutoEngaged = FALSE
    /\ consecutiveFailures = 0

EngageManually ==
    isManuallyEngaged' = TRUE /\ UNCHANGED <<isAutoEngaged, consecutiveFailures>>

DisengageManually ==
    isManuallyEngaged' = FALSE /\ UNCHANGED <<isAutoEngaged, consecutiveFailures>>

\* A mutant: a success resets the counter and forgets the flag.
RecordWithoutClearing(succeeded) ==
    LET failures == IF succeeded THEN 0
                    ELSE IF consecutiveFailures < FailureThreshold
                    THEN consecutiveFailures + 1 ELSE FailureThreshold
    IN /\ consecutiveFailures' = failures
       /\ isAutoEngaged' = (isAutoEngaged \/ (FailureThreshold > 0 /\ failures = FailureThreshold))
       /\ UNCHANGED isManuallyEngaged

\* The count stops at the threshold: nothing tells larger counts apart.
RecordConnectivityCheckResult(succeeded) ==
    LET failures == IF succeeded THEN 0
                    ELSE IF consecutiveFailures < FailureThreshold
                    THEN consecutiveFailures + 1 ELSE FailureThreshold
    IN /\ consecutiveFailures' = failures
       /\ isAutoEngaged' = (~succeeded /\ (isAutoEngaged
                              \/ (FailureThreshold > 0 /\ failures = FailureThreshold)))
       /\ UNCHANGED isManuallyEngaged

IsTradingHalted == isManuallyEngaged \/ isAutoEngaged
====================
