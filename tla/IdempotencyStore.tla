-------- MODULE IdempotencyStore --------
(***************************************************************************)
(* internal/idempotency with its Postgres table: the first request that    *)
(* carries a key owns it and does the work, the others wait for its        *)
(* answer, at most maximumClaimWaitDuration.  The claims live in memory;   *)
(* completed answers are also written to Postgres, after the waiters have  *)
(* been woken.  The 24 hours after which a row expires are not modelled.   *)
(***************************************************************************)
EXTENDS Integers

CONSTANTS Keys, NoAnswer

VARIABLES
    claimed,     \* entriesByKey: keys with an entry in memory
    answerOf,    \* its response, NoAnswer until doneChannel is closed
    persisted    \* idempotency_responses

store == <<claimed, answerOf, persisted>>

StoreInit ==
    /\ claimed = {}
    /\ answerOf = [k \in Keys |-> NoAnswer]
    /\ persisted = [k \in Keys |-> NoAnswer]

\* A mutant: the key is only entered once its request is complete.
ClaimWithoutEntry(key) == key \notin claimed /\ UNCHANGED store

Claim(key) ==
    /\ key \notin claimed
    /\ claimed' = claimed \union {key}
    /\ UNCHANGED <<answerOf, persisted>>

\* The owner closes the entry with the answer an earlier process persisted.
AdoptPersistedAnswer(key) ==
    /\ persisted[key] # NoAnswer
    /\ answerOf' = [answerOf EXCEPT ![key] = persisted[key]]
    /\ UNCHANGED <<claimed, persisted>>

\* A key that nobody has claimed is left alone.
CompleteClaimedKey(key, answer) ==
    /\ answerOf' = [k \in Keys |-> IF k = key /\ k \in claimed THEN answer ELSE answerOf[k]]
    /\ UNCHANGED <<claimed, persisted>>

PersistCompletedResponse(key) ==
    /\ persisted' = [persisted EXCEPT ![key] = answerOf[key]]
    /\ UNCHANGED <<claimed, answerOf>>

\* A restart keeps the table alone.
StoreRestarts ==
    /\ claimed' = {}
    /\ answerOf' = [k \in Keys |-> NoAnswer]
    /\ UNCHANGED persisted
====================
