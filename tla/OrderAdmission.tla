-------- MODULE OrderAdmission --------
(***************************************************************************)
(* What stands between a client's order and the matching engine in         *)
(* oms-gateway: the after-market queue and the call that opens the market, *)
(* the idempotency store, the kill switch and its prober, and the restarts *)
(* of the process.  The checks and books between the kill switch and the   *)
(* engine are OrderSubmission's; here they accept or reject.               *)
(***************************************************************************)
EXTENDS KillSwitch, IdempotencyStore, Sequences, FiniteSets, SequencesExt

CONSTANTS
    Submissions,   \* requests to /orders/submit, retries included
    KeyOf,         \* the idempotency key of each
    IsAfterMarket, \* the submissions that are after-market orders
    NoKey,
    MaxEvents      \* bound: restarts, panics, admin calls, changes of the engine

ASSUME AdmissionAssumption ==
    /\ KeyOf \in [Submissions -> Keys \union {NoKey}] /\ NoKey \notin Keys
    /\ NoAnswer \notin Submissions
    /\ IsAfterMarket \subseteq Submissions
    /\ MaxEvents \in Nat

VARIABLES
    handler,       \* where each submission is, and its answer so far
    isMarketOpen,  \* marketsession
    amoQueue,      \* amoqueue: queuedRequests
    opening,       \* the handler of /market-session/open: its point, its drained orders
    probe,         \* the prober: idle, or the result it is about to record
    engineIsUp,    \* whether the engine answers
    placed,        \* history: the orders the engine has been given
    blind,         \* history: keys whose lookup in Postgres failed
    late,          \* history: orders queued after the market had opened
    restarted,     \* history: whether the process has restarted
    events         \* how many of the bounded events there have been

session == <<isMarketOpen, amoQueue, opening>>
counters == <<restarted, events>>
others == <<placed, blind, late>>
vars == <<killSwitch, store, handler, session, probe, engineIsUp, others, counters>>

\* An answer is named by the submission whose processing produced it.
Answers == Submissions
Running == {"gate", "handoff", "reachable", "unreachable"}
Points == {"unsent", "enqueue", "claim", "lookup", "wait", "complete", "persist"} \union Running
Settled == {"unsent", "queued", "answered", "timedOut", "processed", "gone"}

Unsent == [at |-> "unsent", answer |-> NoAnswer]
Gone == [at |-> "gone", answer |-> NoAnswer]
NotOpening == [at |-> "idle", drained |-> <<>>]
At(s, point) == handler[s].at = point
Goes(s, point) == handler' = [handler EXCEPT ![s].at = point]
GoesWith(s, point, answer) == handler' = [handler EXCEPT ![s] = [at |-> point, answer |-> answer]]

\* Every variable keeps its type.
TypeOK ==
    /\ KillSwitchTypeOK
    /\ claimed \subseteq Keys
    /\ answerOf \in [Keys -> Answers \union {NoAnswer}]
    /\ persisted \in [Keys -> Answers \union {NoAnswer}]
    /\ handler \in [Submissions -> [at : Points \union Settled, answer : Answers \union {NoAnswer}]]
    /\ isMarketOpen \in BOOLEAN
    /\ ToSet(amoQueue) \subseteq IsAfterMarket
    /\ opening.at \in {"idle", "opened", "draining"} /\ ToSet(opening.drained) \subseteq IsAfterMarket
    /\ probe \in {"idle", "reachable", "unreachable"}
    /\ engineIsUp \in BOOLEAN
    /\ placed \subseteq Submissions /\ blind \subseteq Keys /\ late \subseteq IsAfterMarket
    /\ restarted \in BOOLEAN /\ events \in 0 .. MaxEvents

Init ==
    /\ KillSwitchInit /\ StoreInit
    /\ handler = [s \in Submissions |-> Unsent]
    /\ isMarketOpen = FALSE
    /\ amoQueue = <<>>
    /\ opening = NotOpening
    /\ probe = "idle"
    /\ engineIsUp \in BOOLEAN
    /\ placed = {} /\ blind = {} /\ late = {}
    /\ restarted = FALSE /\ events = 0

\* Something the handlers do not do by themselves.
Event == events < MaxEvents /\ events' = events + 1

--------------------
(* buildSubmitOrderHandler *)

\* The market session is read here and the order queued later.
Arrive(s) ==
    /\ At(s, "unsent")
    /\ Goes(s, IF s \in IsAfterMarket /\ ~isMarketOpen THEN "enqueue" ELSE "claim")
    /\ UNCHANGED <<killSwitch, store, session, probe, engineIsUp, others, counters>>

Enqueue(s) ==
    /\ At(s, "enqueue")
    /\ amoQueue' = Append(amoQueue, s)
    /\ late' = late \union {x \in {s} : isMarketOpen}
    /\ Goes(s, "queued")
    /\ UNCHANGED <<killSwitch, store, isMarketOpen, opening, probe, engineIsUp,
                   placed, blind, counters>>

ClaimKey(s) ==
    /\ At(s, "claim")
    /\ \/ KeyOf[s] = NoKey /\ Goes(s, "gate") /\ UNCHANGED store
       \/ KeyOf[s] # NoKey /\ Claim(KeyOf[s]) /\ Goes(s, "lookup")
       \/ KeyOf[s] \in claimed /\ Goes(s, "wait") /\ UNCHANGED store
    /\ UNCHANGED <<killSwitch, session, probe, engineIsUp, others, counters>>

\* A mutant: the table is not consulted.
LookUpNothing(s) ==
    /\ At(s, "lookup")
    /\ Goes(s, "gate")
    /\ UNCHANGED <<killSwitch, store, session, probe, engineIsUp, others, counters>>

LookUp(s) ==
    /\ At(s, "lookup")
    /\ \/ /\ AdoptPersistedAnswer(KeyOf[s])
          /\ GoesWith(s, "answered", persisted[KeyOf[s]])
       \/ persisted[KeyOf[s]] = NoAnswer /\ Goes(s, "gate") /\ UNCHANGED store
    /\ UNCHANGED <<killSwitch, session, probe, engineIsUp, others, counters>>

\* A failed read is logged and taken for an absent row.
LookUpFails(s) ==
    /\ At(s, "lookup")
    /\ blind' = blind \union {KeyOf[s]}
    /\ Goes(s, "gate")
    /\ UNCHANGED <<killSwitch, store, session, probe, engineIsUp, placed, late, counters>>

\* A mutant: the wait has no timeout.
AwaitForever(s) ==
    /\ At(s, "wait")
    /\ answerOf[KeyOf[s]] # NoAnswer /\ GoesWith(s, "answered", answerOf[KeyOf[s]])
    /\ UNCHANGED <<killSwitch, store, session, probe, engineIsUp, others, counters>>

Await(s) ==
    /\ At(s, "wait")
    /\ \/ answerOf[KeyOf[s]] # NoAnswer /\ GoesWith(s, "answered", answerOf[KeyOf[s]])
       \/ answerOf[KeyOf[s]] = NoAnswer /\ Goes(s, "timedOut")
    /\ UNCHANGED <<killSwitch, store, session, probe, engineIsUp, others, counters>>

--------------------
(* processOrderSubmission, for a submission or for a drained order *)

IsDrained(s) == opening.at = "draining" /\ opening.drained # <<>> /\ Head(opening.drained) = s

AfterProcessing(s) ==
    IF IsDrained(s) THEN "processed" ELSE IF KeyOf[s] = NoKey THEN "answered" ELSE "complete"

\* When the order came from the queue, the opening handler takes its next one.
Finish(s) ==
    /\ GoesWith(s, AfterProcessing(s), s)
    /\ opening' = IF IsDrained(s) THEN [opening EXCEPT !.drained = Tail(@)] ELSE opening
    /\ UNCHANGED <<isMarketOpen, amoQueue>>

\* A halted market rejects; so may any of the checks after the kill switch.
Gate(s) ==
    /\ At(s, "gate")
    /\ \/ Finish(s)
       \/ ~IsTradingHalted /\ Goes(s, "handoff") /\ UNCHANGED session
    /\ UNCHANGED <<killSwitch, store, probe, engineIsUp, others, counters>>

\* An engine that is down refuses the connection; one that is up takes the
\* order, and may still be too late with its answer.
HandOff(s) ==
    /\ At(s, "handoff")
    /\ placed' = IF engineIsUp THEN placed \union {s} ELSE placed
    /\ \/ engineIsUp /\ Goes(s, "reachable")
       \/ Goes(s, "unreachable")
    /\ UNCHANGED <<killSwitch, store, session, probe, engineIsUp, blind, late, counters>>

\* Whatever became of the hand-off, the order is acknowledged as accepted.
RecordHandOff(s) ==
    /\ handler[s].at \in {"reachable", "unreachable"}
    /\ RecordConnectivityCheckResult(At(s, "reachable"))
    /\ Finish(s)
    /\ UNCHANGED <<store, probe, engineIsUp, others, counters>>

Complete(s) ==
    /\ At(s, "complete")
    /\ CompleteClaimedKey(KeyOf[s], handler[s].answer)
    /\ Goes(s, "persist")
    /\ UNCHANGED <<killSwitch, session, probe, engineIsUp, others, counters>>

\* The client is answered whether or not the write succeeded.
Persist(s) ==
    /\ At(s, "persist")
    /\ Goes(s, "answered")
    /\ PersistCompletedResponse(KeyOf[s]) \/ UNCHANGED store
    /\ UNCHANGED <<killSwitch, session, probe, engineIsUp, others, counters>>

\* net/http recovers the panic and drops the request; its claim stays open.
\* Under the opening handler the drained orders go with it.
Panic(s) ==
    /\ Event
    /\ handler[s].at \in Running
    /\ LET lost == IF IsDrained(s) THEN ToSet(opening.drained) ELSE {s}
       IN handler' = [x \in Submissions |->
                         IF x \in lost THEN Gone ELSE handler[x]]
    /\ opening' = IF IsDrained(s) THEN NotOpening ELSE opening
    /\ UNCHANGED <<killSwitch, store, isMarketOpen, amoQueue, probe, engineIsUp, others, restarted>>

--------------------
(* buildMarketSessionOpenHandler and buildMarketSessionCloseHandler *)

OpenMarket ==
    /\ Event /\ opening.at = "idle"
    /\ isMarketOpen' = TRUE
    /\ opening' = [opening EXCEPT !.at = "opened"]
    /\ UNCHANGED <<killSwitch, store, handler, amoQueue, probe, engineIsUp, others, restarted>>

CloseMarket ==
    /\ Event /\ isMarketOpen
    /\ isMarketOpen' = FALSE
    /\ UNCHANGED <<killSwitch, store, handler, amoQueue, opening, probe, engineIsUp, others, restarted>>

\* A mutant: the drained requests stay in the queue.
DrainACopy ==
    /\ opening.at = "opened"
    /\ opening' = [at |-> "draining", drained |-> amoQueue]
    /\ UNCHANGED <<killSwitch, store, handler, isMarketOpen, amoQueue, probe, engineIsUp,
                   others, counters>>

DrainAll ==
    /\ opening.at = "opened"
    /\ opening' = [at |-> "draining", drained |-> amoQueue]
    /\ amoQueue' = <<>>
    /\ UNCHANGED <<killSwitch, store, handler, isMarketOpen, probe, engineIsUp, others, counters>>

ProcessDrained ==
    /\ opening.at = "draining"
    /\ \/ /\ opening.drained # <<>>
          /\ At(Head(opening.drained), "queued")
          /\ Goes(Head(opening.drained), "gate")
          /\ UNCHANGED opening
       \/ /\ opening.drained = <<>>
          /\ opening' = NotOpening
          /\ UNCHANGED handler
    /\ UNCHANGED <<killSwitch, store, isMarketOpen, amoQueue, probe, engineIsUp, others, counters>>

--------------------
(* The prober, the admins, the engine and the process *)

ProbeEngine ==
    /\ probe = "idle"
    /\ probe' = IF engineIsUp THEN "reachable" ELSE "unreachable"
    /\ UNCHANGED <<killSwitch, store, handler, session, engineIsUp, others, counters>>

RecordProbe ==
    /\ probe # "idle"
    /\ RecordConnectivityCheckResult(probe = "reachable")
    /\ probe' = "idle"
    /\ UNCHANGED <<store, handler, session, engineIsUp, others, counters>>

ToggleManually ==
    /\ Event
    /\ \/ ~isManuallyEngaged /\ EngageManually
       \/ isManuallyEngaged /\ DisengageManually
    /\ UNCHANGED <<store, handler, session, probe, engineIsUp, others, restarted>>

EngineChanges ==
    /\ Event
    /\ engineIsUp' = ~engineIsUp
    /\ UNCHANGED <<killSwitch, store, handler, session, probe, others, restarted>>

\* Clients whose answer was not sent are left without one.
Restart ==
    /\ Event
    /\ restarted' = TRUE
    /\ handler' = [s \in Submissions |->
          IF handler[s].at \in Settled \ {"queued"} THEN handler[s]
          ELSE Gone]
    /\ isMarketOpen' = FALSE
    /\ amoQueue' = <<>>
    /\ opening' = NotOpening
    /\ probe' = "idle"
    /\ StoreRestarts
    /\ isManuallyEngaged' = FALSE /\ isAutoEngaged' = FALSE /\ consecutiveFailures' = 0
    /\ UNCHANGED <<engineIsUp, others>>

HandlerStep(s) ==
    \/ Arrive(s) \/ Enqueue(s) \/ ClaimKey(s) \/ LookUp(s) \/ LookUpFails(s) \/ Await(s)
    \/ Gate(s) \/ HandOff(s) \/ RecordHandOff(s) \/ Complete(s) \/ Persist(s)

Opening == DrainAll \/ ProcessDrained
Probing == ProbeEngine \/ RecordProbe

Next ==
    \/ \E s \in Submissions : HandlerStep(s) \/ Panic(s)
    \/ OpenMarket \/ CloseMarket \/ Opening
    \/ Probing \/ ToggleManually \/ EngineChanges \/ Restart

Spec == Init /\ [][Next]_vars

\* The handlers keep running: their calls to other services have deadlines, and
\* Postgres is assumed to answer or to fail.  The ticker fires every two seconds.  Nothing is assumed of admins and clients:
\* the first step of a submission is no handler's.
Served(s) == ~At(s, "unsent") /\ HandlerStep(s)
Fairness ==
    /\ WF_vars(Opening \/ \E s \in Submissions : Served(s))
    /\ WF_vars(Probing)
FairSpec == Spec /\ Fairness

--------------------
Placements(key) == {s \in placed : KeyOf[s] = key}
Answered(key) == {s \in Submissions : KeyOf[s] = key /\ At(s, "answered")}

\* Once the answer of a key is in the table, no retry of it reaches the engine,
\* restart or not, unless the table could not be read.  (postgresBacking.go: "a
\* replayed request after an oms-gateway restart now gets back the SAME cached
\* response".)
PersistedKeysAreNotPlacedAgain ==
    [][\A k \in Keys :
          persisted[k] # NoAnswer /\ k \notin blind => Placements(k)' = Placements(k)]_vars

\* What the package of the idempotency store promises of retries: no key is ever
\* placed twice.  (idempotencyStore.go: "retrying with the same key must never
\* place it twice".)
RetriesAreNeverPlacedTwice == \A k \in Keys : Cardinality(Placements(k)) <= 1

\* Within one life of the process all the requests of a key that are answered
\* get the answer of one submission, and only that one was placed.
\* (ClaimKeyOrAwaitExistingResponse: "return the SAME response".)
OneAnswerPerKey ==
    ~restarted => \A k \in Keys :
        /\ \A s, t \in Answered(k) : handler[s].answer = handler[t].answer
        /\ \A s \in Placements(k), t \in Submissions :
              KeyOf[t] = k /\ t # s => t \notin placed

Occurrences(s) ==
    LET held == amoQueue \o opening.drained
    IN Cardinality({i \in 1 .. Len(held) : held[i] = s})

\* An order that was told it is queued is in the queue or in the list being
\* drained exactly once, and the one being processed heads that list.  While the
\* market is open and no drain is under way, only orders that were queued after
\* the market opened are left.  (DrainAll; orderTypes.go: replayed "the moment
\* the market opens".)
QueuedOrdersAreHeldOnce ==
    /\ \A s \in IsAfterMarket :
          /\ At(s, "queued") => Occurrences(s) = 1
          /\ Occurrences(s) > 0 => At(s, "queued") \/ (IsDrained(s) /\ handler[s].at \in Running)
    /\ isMarketOpen /\ opening.at = "idle" => ToSet(amoQueue) \subseteq late

\* Once the engine stays reachable the auto flag clears and stays clear, however
\* late failures are recorded.  (The prober of main.go: without it "the
\* auto-engaged AUTO flag could never self-clear".)
TradingResumes == <>[](engineIsUp => ~isAutoEngaged)

\* Every request ends: answered, timed out, queued, or dropped by a panic or a
\* restart; none waits for an owner that is gone.  (maximumClaimWaitDuration.)
EveryRequestEnds == <>[](\A s \in Submissions : handler[s].at \in Settled)
====================
