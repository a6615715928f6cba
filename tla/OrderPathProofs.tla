-------- MODULE OrderPathProofs --------
(***************************************************************************)
(* Proofs about the two ends of an order's path: its admission by the      *)
(* gateway (OrderAdmission) and the book it comes to (OrderBookCore).      *)
(***************************************************************************)
EXTENDS OrderAdmission, OrderBookCore, SequenceTheorems, FiniteSetTheorems,
        WellFoundedInduction, TLAPS

--------------------
(***************************************************************************)
(* Proofs about the admission of orders: one answer and at most one        *)
(* placement per key in a life of the process, no second placement of an   *)
(* order whose answer is in the table, and each queued order held once.    *)
(***************************************************************************)

\* The points at which a submission owns its key, the claim having been its own.
OwnerPoints == {"lookup", "complete", "persist"} \union Running
Owns(s) == handler[s].at \in OwnerPoints

\* No after-market order carries the key: those are queued before the claim, "a known,
\* accepted gap: idempotency simply doesn't cover AMOs yet" (main.go:748).
IsPlain(k) == \A s \in IsAfterMarket : KeyOf[s] # k
Carriers(k) == {s \in Submissions : KeyOf[s] = k}

\* The queue and the list that is drained hold after-market orders.
QueuesAreTyped ==
  /\ amoQueue \in Seq(IsAfterMarket)
  /\ opening \in [at : {"idle", "opened", "draining"}, drained : Seq(IsAfterMarket)]
  /\ opening.at # "draining" => opening.drained = <<>>

\* Only an after-market order is on its way to the queue, and only a submission with a key
\* deals with the store.
PointsFitTheOrder ==
  \A s \in Submissions :
      /\ handler[s].at = "enqueue" => s \in IsAfterMarket
      /\ handler[s].at \in {"lookup", "wait", "complete", "persist"} => KeyOf[s] \in Keys

\* A key has one owner, which has entered it; while there is an answer in the table that
\* was looked up, none of its owners is on its way to the engine.
OneOwner(k) ==
  /\ \A s, t \in Carriers(k) : Owns(s) /\ Owns(t) => s = t
  /\ \A s \in Carriers(k) : Owns(s) => k \in claimed
  /\ persisted[k] # NoAnswer /\ k \notin blind =>
        \A s \in Carriers(k) : handler[s].at \notin {"gate", "handoff"}

\* In one life of the process the entry of a key tells how far its owner came.
EntryTells(k) ==
  /\ k \notin claimed =>
        /\ answerOf[k] = NoAnswer
        /\ \A s \in Carriers(k) : handler[s].at \in {"unsent", "claim"} /\ s \notin placed
  /\ persisted[k] # NoAnswer => answerOf[k] # NoAnswer
  /\ \A s \in Carriers(k) :
        /\ Owns(s) /\ handler[s].at # "persist" => answerOf[k] = NoAnswer
        /\ handler[s].at = "complete" => handler[s].answer # NoAnswer
        /\ handler[s].at \in {"persist", "answered"} =>
              answerOf[k] # NoAnswer /\ handler[s].answer = answerOf[k]
  /\ \A s, t \in Carriers(k) :
        s # t => ~(Owns(s) /\ t \in placed) /\ ~(s \in placed /\ t \in placed)

KeyInv(k) == IsPlain(k) => OneOwner(k) /\ (~restarted => EntryTells(k))
KeysAreSound == \A k \in Keys : KeyInv(k)

\* Each queued order is in one place, and only the one being processed is not waiting.
QueuesHoldTheQueued ==
  /\ \A i, j \in 1 .. Len(amoQueue) : amoQueue[i] = amoQueue[j] => i = j
  /\ \A i, j \in 1 .. Len(opening.drained) : opening.drained[i] = opening.drained[j] => i = j
  /\ \A i \in 1 .. Len(amoQueue) : \A j \in 1 .. Len(opening.drained) :
        amoQueue[i] # opening.drained[j]
  /\ \A i \in 1 .. Len(amoQueue) : handler[amoQueue[i]].at = "queued"
  /\ \A i \in 1 .. Len(opening.drained) :
        \/ handler[opening.drained[i]].at = "queued"
        \/ i = 1 /\ handler[opening.drained[i]].at \in Running
  /\ \A s \in Submissions : handler[s].at = "queued" =>
        \/ \E i \in 1 .. Len(amoQueue) : amoQueue[i] = s
        \/ \E i \in 1 .. Len(opening.drained) : opening.drained[i] = s

\* What is in the queue of an open market came too late to be drained.
StragglersAreLate ==
  isMarketOpen /\ opening.at # "opened" => \A i \in 1 .. Len(amoQueue) : amoQueue[i] \in late

AdmissionInv ==
  /\ TypeOK
  /\ QueuesAreTyped
  /\ PointsFitTheOrder
  /\ KeysAreSound
  /\ QueuesHoldTheQueued
  /\ StragglersAreLate

--------------------
(* HandlerTypes *)

HandlerRecords == [at : Points \union Settled, answer : Answers \union {NoAnswer}]

\* Moving a submission to a point leaves the others where they are.
LEMMA GoesEffect ==
  ASSUME handler \in [Submissions -> HandlerRecords],
         NEW s \in Submissions, NEW p \in Points \union Settled, Goes(s, p)
  PROVE  /\ handler' \in [Submissions -> HandlerRecords]
         /\ handler'[s].at = p /\ handler'[s].answer = handler[s].answer
         /\ \A x \in Submissions : x # s => handler'[x] = handler[x] BY DEF Goes, HandlerRecords

\* A handler that goes on with an answer: where it is, what it answers, and nobody else moves.
LEMMA GoesWithEffect ==
  ASSUME handler \in [Submissions -> HandlerRecords],
         NEW s \in Submissions, NEW p \in Points \union Settled,
         NEW a \in Answers \union {NoAnswer}, GoesWith(s, p, a)
  PROVE  /\ handler' \in [Submissions -> HandlerRecords]
         /\ handler'[s].at = p /\ handler'[s].answer = a
         /\ \A x \in Submissions : x # s => handler'[x] = handler[x] BY DEF GoesWith, HandlerRecords

\* The types in the form the proofs use.
LEMMA HandlerTypes ==
  ASSUME AdmissionInv
  PROVE  /\ handler \in [Submissions -> HandlerRecords]
         /\ claimed \subseteq Keys
         /\ answerOf \in [Keys -> Answers \union {NoAnswer}]
         /\ persisted \in [Keys -> Answers \union {NoAnswer}]
         /\ KeyOf \in [Submissions -> Keys \union {NoKey}] /\ NoKey \notin Keys
         /\ NoAnswer \notin Submissions /\ IsAfterMarket \subseteq Submissions
         /\ amoQueue \in Seq(IsAfterMarket) /\ opening.drained \in Seq(IsAfterMarket)
BY AdmissionAssumption DEF AdmissionInv, TypeOK, HandlerRecords, QueuesAreTyped

\* A list that is drained belongs to an opening under way; its head is an after-market order.
LEMMA DrainedHead ==
  ASSUME AdmissionInv, NEW s, IsDrained(s)
  PROVE  /\ s \in IsAfterMarket /\ opening.at = "draining" /\ Len(opening.drained) >= 1
         /\ opening.drained[1] = s
         /\ Tail(opening.drained) \in Seq(IsAfterMarket)
         /\ Len(Tail(opening.drained)) = Len(opening.drained) - 1
         /\ \A i \in 1 .. Len(Tail(opening.drained)) :
               Tail(opening.drained)[i] = opening.drained[i + 1]
<1>1. PICK q \in Seq(IsAfterMarket) : q = opening.drained BY DEF AdmissionInv, QueuesAreTyped
<1>2. q # <<>> /\ Head(q) = s BY <1>1 DEF IsDrained
<1>3. /\ Head(q) \in IsAfterMarket /\ Tail(q) \in Seq(IsAfterMarket)
      /\ Len(Tail(q)) = Len(q) - 1
      /\ \A i \in 1 .. Len(Tail(q)) : Tail(q)[i] = q[i + 1] BY <1>2, HeadTailProperties
<1>4. Len(q) # 0 /\ Len(q) \in Nat /\ Head(q) = q[1] BY <1>2, EmptySeq, LenProperties, HeadTailProperties
<1>5. opening.at = "draining" BY DEF IsDrained
<1> QED BY <1>1, <1>2, <1>3, <1>4, <1>5

\* What processing a drained order, or any other, ends with.
LEMMA FinishEffect ==
  ASSUME AdmissionInv, NEW s \in Submissions, Finish(s)
  PROVE  /\ handler' \in [Submissions -> HandlerRecords]
         /\ handler'[s].at = AfterProcessing(s) /\ handler'[s].answer = s
         /\ handler'[s].at \in {"processed", "answered", "complete"}
         /\ \A x \in Submissions : x # s => handler'[x] = handler[x]
<1>1. AfterProcessing(s) \in {"processed", "answered", "complete"} BY DEF AfterProcessing
<1>2. AfterProcessing(s) \in Points \union Settled BY <1>1 DEF Points, Settled
<1>3. GoesWith(s, AfterProcessing(s), s) /\ s \in Answers \union {NoAnswer} BY DEF Finish, Answers
<1> QED BY <1>1, <1>2, <1>3, HandlerTypes, GoesWithEffect

\* What a restart and a panic leave of a submission.
LEMMA DropEffect ==
  ASSUME AdmissionInv, NEW lost,
         handler' = [x \in Submissions |-> IF x \in lost THEN Gone ELSE handler[x]]
  PROVE  /\ handler' \in [Submissions -> HandlerRecords]
         /\ \A x \in Submissions : x \in lost => handler'[x].at = "gone"
         /\ \A x \in Submissions : x \notin lost => handler'[x] = handler[x]
<1>1. Gone \in HandlerRecords /\ Gone.at = "gone" BY DEF Gone, HandlerRecords, Settled
<1> QED BY <1>1, HandlerTypes

\* A probe's result keeps the failure count within the threshold.
LEMMA KillSwitchTypes ==
  ASSUME KillSwitchTypeOK, NEW ok \in BOOLEAN, RecordConnectivityCheckResult(ok) PROVE KillSwitchTypeOK'
<1>1. consecutiveFailures' \in 0 .. FailureThreshold
  BY ThresholdAssumption DEF KillSwitchTypeOK, RecordConnectivityCheckResult
<1>2. isAutoEngaged' \in BOOLEAN /\ isManuallyEngaged' \in BOOLEAN
  BY DEF KillSwitchTypeOK, RecordConnectivityCheckResult
<1> QED BY <1>1, <1>2 DEF KillSwitchTypeOK


--------------------
(* What each action does to its submission *)

\* The submission whose handler takes a step is at the point the action names, its record
\* is well-typed afterwards, and the other submissions stay where they are.
LEMMA HandlersMove ==
  ASSUME AdmissionInv, NEW s \in Submissions, HandlerStep(s)
  PROVE  /\ handler' \in [Submissions -> HandlerRecords]
         /\ \A x \in Submissions : x # s => handler'[x] = handler[x]
         /\ handler'[s].at = "enqueue" => s \in IsAfterMarket
         /\ handler'[s].at \in {"lookup", "wait", "complete", "persist"} => KeyOf[s] \in Keys
<1>1. CASE Arrive(s)
  <2>1. PICK p \in {"enqueue", "claim"} : Goes(s, p) /\ (p = "enqueue" => s \in IsAfterMarket)
    BY <1>1 DEF Arrive
  <2>2. p \in Points \union Settled BY DEF Points
  <2> QED BY <2>1, <2>2, HandlerTypes, GoesEffect
<1>2. CASE Enqueue(s) \/ LookUpFails(s) \/ HandOff(s) \/ Complete(s) \/ Persist(s)
  <2>1. PICK p \in {"queued", "gate", "reachable", "unreachable", "persist", "answered"} :
            Goes(s, p) /\ (p = "persist" => At(s, "complete"))
    BY <1>2 DEF Enqueue, LookUpFails, HandOff, Complete, Persist
  <2>2. p \in Points \union Settled /\ p # "enqueue" /\ p \notin {"lookup", "wait", "complete"}
    BY DEF Points, Settled, Running
  <2>4. p = "persist" => KeyOf[s] \in Keys BY <2>1 DEF AdmissionInv, PointsFitTheOrder, At
  <2> QED BY <2>1, <2>2, <2>4, HandlerTypes, GoesEffect
<1>3. CASE ClaimKey(s)
  <2>1. PICK p \in {"gate", "lookup", "wait"} :
            Goes(s, p) /\ (p # "gate" => KeyOf[s] \in Keys) BY <1>3, HandlerTypes DEF ClaimKey
  <2>2. p \in Points \union Settled /\ p # "enqueue" BY DEF Points, Running
  <2> QED BY <2>1, <2>2, HandlerTypes, GoesEffect
<1>4. CASE LookUp(s)
  <2>1. CASE Goes(s, "gate") BY <2>1, HandlerTypes, GoesEffect DEF Points, Running
  <2>2. CASE AdoptPersistedAnswer(KeyOf[s]) /\ GoesWith(s, "answered", persisted[KeyOf[s]])
    BY HandlerTypes, <1>4, <2>2, GoesWithEffect DEF LookUp, AdmissionInv, PointsFitTheOrder, At,
       Settled
  <2> QED BY <1>4, <2>1, <2>2 DEF LookUp
<1>5. CASE Await(s)
  <2>1. CASE Goes(s, "timedOut") BY <2>1, HandlerTypes, GoesEffect DEF Settled
  <2>2. CASE GoesWith(s, "answered", answerOf[KeyOf[s]])
    BY <1>5, HandlerTypes, <2>2, GoesWithEffect DEF AdmissionInv, PointsFitTheOrder, At, Await,
       Settled
  <2> QED BY <1>5, <2>1, <2>2 DEF Await
<1>6. CASE Gate(s)
  <2>1. CASE Finish(s) BY <2>1, FinishEffect, HandlerTypes DEF AfterProcessing
  <2>2. CASE Goes(s, "handoff") BY <2>2, HandlerTypes, GoesEffect DEF Points, Running
  <2> QED BY <1>6, <2>1, <2>2 DEF Gate
<1>7. CASE RecordHandOff(s) BY <1>7, FinishEffect, HandlerTypes DEF RecordHandOff, AfterProcessing
<1> QED BY <1>1, <1>2, <1>3, <1>4, <1>5, <1>6, <1>7 DEF HandlerStep

\* The records of the handlers stay typed, and each submission stays at points that fit it.
LEMMA HandlersStayTyped ==
  ASSUME AdmissionInv, Next PROVE handler' \in [Submissions -> HandlerRecords] /\ PointsFitTheOrder'
<1>1. handler \in [Submissions -> HandlerRecords] /\ PointsFitTheOrder BY HandlerTypes DEF AdmissionInv
<1>2. ASSUME NEW s \in Submissions, HandlerStep(s)
      PROVE  handler' \in [Submissions -> HandlerRecords] /\ PointsFitTheOrder'
  BY <1>1, <1>2, HandlersMove DEF PointsFitTheOrder
<1>3. ASSUME NEW lost, handler' = [x \in Submissions |-> IF x \in lost THEN Gone ELSE handler[x]]
      PROVE  handler' \in [Submissions -> HandlerRecords] /\ PointsFitTheOrder'
  BY <1>1, <1>3, DropEffect DEF PointsFitTheOrder
<1>4. ASSUME NEW s \in Submissions, Panic(s)
      PROVE  handler' \in [Submissions -> HandlerRecords] /\ PointsFitTheOrder' BY <1>3, <1>4 DEF Panic
<1>5. CASE Restart
  <2> DEFINE lost == {x \in Submissions : handler[x].at \notin Settled \ {"queued"}}
  <2>1. handler' = [x \in Submissions |-> IF x \in lost THEN Gone ELSE handler[x]] BY <1>5 DEF Restart
  <2> HIDE DEF lost
  <2> QED BY <1>3, <2>1
<1>6. CASE ProcessDrained
  <2>1. CASE UNCHANGED handler BY <1>1, <2>1 DEF PointsFitTheOrder
  <2>2. CASE opening.drained # <<>> /\ opening.at = "draining" /\ Goes(Head(opening.drained), "gate")
    <3>1. Head(opening.drained) \in Submissions BY <2>2, DrainedHead, HandlerTypes DEF IsDrained
    <3>2. "gate" \in Points \union Settled BY DEF Points, Running
    <3> QED BY <1>1, <2>2, <3>1, <3>2, GoesEffect DEF PointsFitTheOrder
  <2> QED BY <1>6, <2>1, <2>2 DEF ProcessDrained
<1>7. CASE OpenMarket \/ CloseMarket \/ DrainAll \/ ProbeEngine \/ RecordProbe \/ ToggleManually
           \/ EngineChanges
  BY <1>7, <1>1 DEF OpenMarket, CloseMarket, DrainAll, ProbeEngine, RecordProbe, ToggleManually,
     EngineChanges, PointsFitTheOrder
<1> QED BY <1>2, <1>4, <1>5, <1>6, <1>7 DEF Next, Opening, Probing

\* Typed queues hold after-market orders, in the form of the type invariant.
LEMMA TypedQueues == ASSUME NEW q, NEW S, q \in Seq(S)  PROVE  ToSet(q) \subseteq S BY ElementOfSeq DEF ToSet

\* The queue and the drained list stay typed.
LEMMA QueuesStayTyped ==
  ASSUME AdmissionInv, Next
  PROVE  QueuesAreTyped' /\ ToSet(amoQueue)' \subseteq IsAfterMarket
         /\ ToSet(opening.drained)' \subseteq IsAfterMarket
<1> DEFINE Openings == [at : {"idle", "opened", "draining"}, drained : Seq(IsAfterMarket)]
<1>1. /\ amoQueue \in Seq(IsAfterMarket) /\ opening \in Openings
      /\ opening.at # "draining" => opening.drained = <<>> BY DEF AdmissionInv, QueuesAreTyped
<1>2. SUFFICES /\ amoQueue' \in Seq(IsAfterMarket) /\ opening' \in Openings
               /\ opening'.at # "draining" => opening'.drained = <<>>
  <2>1. QueuesAreTyped' BY <1>2 DEF QueuesAreTyped
  <2>2. ToSet(amoQueue') \subseteq IsAfterMarket /\ ToSet(opening'.drained) \subseteq IsAfterMarket
    BY <1>2, TypedQueues
  <2> QED BY <2>1, <2>2 DEF ToSet
<1>3. <<>> \in Seq(IsAfterMarket) BY EmptySeq
<1>4. CASE UNCHANGED <<amoQueue, opening>> BY <1>1, <1>4
<1>5. ASSUME NEW s \in Submissions, Finish(s)
      PROVE  /\ amoQueue' \in Seq(IsAfterMarket) /\ opening' \in Openings
             /\ opening'.at # "draining" => opening'.drained = <<>>
  <2>1. CASE IsDrained(s) BY <1>1, <1>5, <2>1, DrainedHead DEF Finish
  <2>2. CASE ~IsDrained(s) BY <1>1, <1>5, <2>2 DEF Finish
  <2> QED BY <2>1, <2>2
<1>6. ASSUME NEW s \in Submissions, HandlerStep(s)
      PROVE  /\ amoQueue' \in Seq(IsAfterMarket) /\ opening' \in Openings
             /\ opening'.at # "draining" => opening'.drained = <<>>
  <2>1. CASE Enqueue(s) BY <2>1, <1>1, AppendProperties DEF Enqueue, At, AdmissionInv, PointsFitTheOrder
  <2>2. CASE Finish(s) BY <1>5, <2>2
  <2>3. CASE UNCHANGED session BY <1>4, <2>3 DEF session
  <2> QED BY <1>6, <2>1, <2>2, <2>3 DEF HandlerStep, Arrive, ClaimKey, LookUp, LookUpFails, Await,
                Gate, HandOff, RecordHandOff, Complete, Persist
<1>7. ASSUME NEW s \in Submissions, Panic(s)
      PROVE  /\ amoQueue' \in Seq(IsAfterMarket) /\ opening' \in Openings
             /\ opening'.at # "draining" => opening'.drained = <<>> BY <1>1, <1>3, <1>7 DEF Panic, NotOpening
<1>8. CASE OpenMarket \/ Restart \/ DrainAll \/ ProcessDrained
  <2>1. CASE OpenMarket BY <1>1, <2>1 DEF OpenMarket
  <2>2. CASE Restart BY <1>3, <2>2 DEF Restart, NotOpening
  <2>3. CASE DrainAll BY <1>1, <1>3, <2>3 DEF DrainAll
  <2>4. CASE ProcessDrained BY <1>1, <1>3, <2>4 DEF ProcessDrained, NotOpening
  <2> QED BY <1>8, <2>1, <2>2, <2>3, <2>4
<1>9. CASE CloseMarket \/ ProbeEngine \/ RecordProbe \/ ToggleManually \/ EngineChanges
  BY <1>4, <1>9 DEF CloseMarket, ProbeEngine, RecordProbe, ToggleManually, EngineChanges, session
<1> QED BY <1>6, <1>7, <1>8, <1>9 DEF Next, Opening, Probing

\* The flags of the kill switch and of the session, the store and the histories stay typed.
LEMMA TheRestStaysTyped ==
  ASSUME AdmissionInv, Next
  PROVE  /\ KillSwitchTypeOK' /\ isMarketOpen' \in BOOLEAN
         /\ probe' \in {"idle", "reachable", "unreachable"} /\ engineIsUp' \in BOOLEAN
         /\ restarted' \in BOOLEAN /\ events' \in 0 .. MaxEvents
<1>1. /\ KillSwitchTypeOK /\ isMarketOpen \in BOOLEAN
      /\ probe \in {"idle", "reachable", "unreachable"} /\ engineIsUp \in BOOLEAN
      /\ restarted \in BOOLEAN /\ events \in 0 .. MaxEvents /\ MaxEvents \in Nat
  BY AdmissionAssumption DEF AdmissionInv, TypeOK
<1>2. KillSwitchTypeOK'
  <2>1. CASE UNCHANGED killSwitch BY <1>1, <2>1 DEF KillSwitchTypeOK, killSwitch
  <2>2. CASE EngageManually \/ DisengageManually
    BY <1>1, <2>2 DEF KillSwitchTypeOK, EngageManually, DisengageManually
  <2>3. ASSUME NEW ok \in BOOLEAN, RecordConnectivityCheckResult(ok)  PROVE KillSwitchTypeOK'
    BY <1>1, <2>3, KillSwitchTypes
  <2>4. CASE Restart
    <3>1. isManuallyEngaged' = FALSE /\ isAutoEngaged' = FALSE /\ consecutiveFailures' = 0 BY <2>4 DEF Restart
    <3>2. FailureThreshold \in Nat BY ThresholdAssumption
    <3>3. 0 \in 0 .. FailureThreshold BY <3>2
    <3> QED BY <3>1, <3>3 DEF KillSwitchTypeOK
  <2>5. CASE RecordProbe BY <2>3, <2>5 DEF RecordProbe
  <2>6. ASSUME NEW s \in Submissions, RecordHandOff(s)  PROVE KillSwitchTypeOK'
    BY <2>3, <2>6 DEF RecordHandOff, At
  <2>7. CASE ToggleManually BY <2>2, <2>7 DEF ToggleManually
  <2>8. ASSUME NEW s \in Submissions, HandlerStep(s)  PROVE KillSwitchTypeOK'
    BY <2>1, <2>6, <2>8 DEF HandlerStep, Arrive, Enqueue, ClaimKey, LookUp, LookUpFails, Await,
                Gate, HandOff, Complete, Persist
  <2>9. ASSUME NEW s \in Submissions, Panic(s)  PROVE KillSwitchTypeOK' BY <2>1, <2>9 DEF Panic
  <2>10. CASE OpenMarket \/ CloseMarket \/ DrainAll \/ ProcessDrained \/ ProbeEngine \/ EngineChanges
    BY <2>1, <2>10 DEF OpenMarket, CloseMarket, DrainAll, ProcessDrained, ProbeEngine, EngineChanges
  <2> QED BY <2>4, <2>5, <2>7, <2>8, <2>9, <2>10 DEF Next, Opening, Probing
<1>3. ASSUME NEW s \in Submissions, HandlerStep(s)
      PROVE  UNCHANGED <<isMarketOpen, probe, engineIsUp, restarted, events>>
  BY <1>3 DEF HandlerStep, Arrive, Enqueue, ClaimKey, LookUp, LookUpFails, Await,
              Gate, HandOff, RecordHandOff, Complete, Persist, Finish, session, counters
<1>4. events' = events \/ Event
  BY <1>3 DEF Next, Opening, Probing, Panic, OpenMarket, CloseMarket, DrainAll, ProcessDrained,
              ProbeEngine, RecordProbe, ToggleManually, EngineChanges, Restart, counters
<1>5. events' \in 0 .. MaxEvents BY <1>1, <1>4 DEF Event
<1>6. isMarketOpen' \in BOOLEAN /\ probe' \in {"idle", "reachable", "unreachable"}
  BY <1>1, <1>3 DEF Next, Opening, Probing, Panic, OpenMarket, CloseMarket, DrainAll, ProcessDrained,
              ProbeEngine, RecordProbe, ToggleManually, EngineChanges, Restart, session
<1>7. engineIsUp' \in BOOLEAN /\ restarted' \in BOOLEAN
  BY <1>1, <1>3 DEF Next, Opening, Probing, Panic, OpenMarket, CloseMarket, DrainAll, ProcessDrained,
              ProbeEngine, RecordProbe, ToggleManually, EngineChanges, Restart, counters
<1> QED BY <1>2, <1>5, <1>6, <1>7

\* The entries, the table and the histories stay typed.
LEMMA TheStoreStaysTyped ==
  ASSUME AdmissionInv, Next
  PROVE  /\ claimed' \subseteq Keys
         /\ answerOf' \in [Keys -> Answers \union {NoAnswer}]
         /\ persisted' \in [Keys -> Answers \union {NoAnswer}]
         /\ placed' \subseteq Submissions /\ blind' \subseteq Keys /\ late' \subseteq IsAfterMarket
<1> DEFINE StoreTyped == /\ claimed \subseteq Keys
                         /\ answerOf \in [Keys -> Answers \union {NoAnswer}]
                         /\ persisted \in [Keys -> Answers \union {NoAnswer}]
           HistoriesTyped == /\ placed \subseteq Submissions /\ blind \subseteq Keys
                             /\ late \subseteq IsAfterMarket
<1>1. StoreTyped /\ HistoriesTyped /\ PointsFitTheOrder BY DEF AdmissionInv, TypeOK
<1>2. ASSUME NEW s \in Submissions, HandlerStep(s)  PROVE StoreTyped' /\ HistoriesTyped'
  <2>1. CASE ClaimKey(s) BY <2>1, HandlerTypes, <1>1 DEF ClaimKey, Claim, store, others
  <2>2. CASE LookUp(s)
    <3>1. KeyOf[s] \in Keys /\ UNCHANGED others BY <1>1, <2>2 DEF LookUp, At, PointsFitTheOrder
    <3>2. CASE UNCHANGED store BY <1>1, <3>1, <3>2 DEF store, others
    <3>3. CASE AdoptPersistedAnswer(KeyOf[s]) BY <1>1, <3>1, <3>3 DEF AdoptPersistedAnswer, others
    <3> QED BY <2>2, <3>2, <3>3 DEF LookUp
  <2>3. CASE Complete(s) BY HandlerTypes, <2>3, <1>1 DEF HandlerRecords, Complete, CompleteClaimedKey, others
  <2>4. CASE Persist(s)
    <3>1. KeyOf[s] \in Keys /\ UNCHANGED others BY <1>1, <2>4 DEF Persist, At, PointsFitTheOrder
    <3>2. CASE UNCHANGED store BY <1>1, <3>1, <3>2 DEF store, others
    <3>3. CASE PersistCompletedResponse(KeyOf[s]) BY <1>1, <3>1, <3>3 DEF PersistCompletedResponse, others
    <3> QED BY <2>4, <3>2, <3>3 DEF Persist
  <2>5. CASE LookUpFails(s) BY <1>1, <2>5 DEF LookUpFails, At, PointsFitTheOrder, store
  <2>6. CASE Enqueue(s) BY <1>1, <2>6 DEF Enqueue, At, PointsFitTheOrder, store
  <2>7. CASE HandOff(s) BY <1>1, <2>7 DEF HandOff, store
  <2>8. CASE UNCHANGED <<store, others>> BY <1>1, <2>8 DEF store, others
  <2> QED BY <1>2, <2>1, <2>2, <2>3, <2>4, <2>5, <2>6, <2>7, <2>8 DEF HandlerStep, Arrive, Await,
                Gate, RecordHandOff
<1>3. CASE Restart BY <1>1, <1>3 DEF Restart, StoreRestarts, others
<1>4. CASE UNCHANGED <<store, others>> BY <1>1, <1>4 DEF store, others
<1> QED BY <1>2, <1>3, <1>4 DEF Next, Opening, Probing, Panic, OpenMarket, CloseMarket, DrainAll,
            ProcessDrained, ProbeEngine, RecordProbe, ToggleManually, EngineChanges

\* All of it together.
LEMMA TypesHold == ASSUME AdmissionInv, Next PROVE TypeOK' /\ QueuesAreTyped' /\ PointsFitTheOrder'
<1>1. opening'.at \in {"idle", "opened", "draining"} BY QueuesStayTyped DEF QueuesAreTyped
<1> QED BY <1>1, HandlersStayTyped, QueuesStayTyped, TheRestStaysTyped, TheStoreStaysTyped
         DEF TypeOK, HandlerRecords

\* The initial states satisfy the invariant.
LEMMA AdmissionInit == ASSUME Init  PROVE AdmissionInv
<1>1. /\ handler = [s \in Submissions |-> Unsent] /\ Unsent \in HandlerRecords
      /\ \A s \in Submissions : handler[s].at = "unsent" BY DEF Init, Unsent, HandlerRecords, Points
<1>2. amoQueue = <<>> /\ opening = [at |-> "idle", drained |-> <<>>] /\ <<>> \in Seq(IsAfterMarket)
  BY EmptySeq DEF Init, NotOpening
<1>3. Len(amoQueue) = 0 /\ Len(opening.drained) = 0 BY <1>2
<1>4. QueuesAreTyped BY <1>2 DEF QueuesAreTyped
<1>5. TypeOK
  <2>1. KillSwitchTypeOK /\ events \in 0 .. MaxEvents
    <3>1. FailureThreshold \in Nat /\ MaxEvents \in Nat BY ThresholdAssumption, AdmissionAssumption
    <3>2. 0 \in 0 .. FailureThreshold /\ 0 \in 0 .. MaxEvents BY <3>1
    <3> QED BY <3>2 DEF Init, KillSwitchInit, KillSwitchTypeOK
  <2>2. ToSet(amoQueue) \subseteq IsAfterMarket /\ ToSet(opening.drained) \subseteq IsAfterMarket
    BY <1>2, TypedQueues
  <2>3. handler \in [Submissions -> HandlerRecords] BY <1>1
  <2>4. /\ claimed \subseteq Keys /\ answerOf \in [Keys -> Answers \union {NoAnswer}]
        /\ persisted \in [Keys -> Answers \union {NoAnswer}] BY DEF Init, StoreInit
  <2>5. /\ isMarketOpen \in BOOLEAN /\ opening.at \in {"idle", "opened", "draining"}
        /\ probe \in {"idle", "reachable", "unreachable"} /\ engineIsUp \in BOOLEAN
        /\ placed \subseteq Submissions /\ blind \subseteq Keys /\ late \subseteq IsAfterMarket
        /\ restarted \in BOOLEAN
    <3>1. isMarketOpen = FALSE /\ restarted = FALSE /\ engineIsUp \in BOOLEAN BY DEF Init
    <3>2. probe = "idle" /\ placed = {} /\ blind = {} /\ late = {} BY DEF Init
    <3>3. opening.at = "idle" BY <1>2
    <3> QED BY <3>1, <3>2, <3>3
  <2> QED BY <2>1, <2>2, <2>3, <2>4, <2>5 DEF TypeOK, HandlerRecords
<1>6. PointsFitTheOrder BY <1>1 DEF PointsFitTheOrder
<1>7. KeysAreSound
  BY <1>1 DEF KeysAreSound, KeyInv, OneOwner, EntryTells, Owns, OwnerPoints, Running, Carriers,
              Init, StoreInit
<1>8. QueuesHoldTheQueued BY <1>1, <1>3 DEF QueuesHoldTheQueued
<1>9. StragglersAreLate BY DEF StragglersAreLate, Init
<1> QED BY <1>4, <1>5, <1>6, <1>7, <1>8, <1>9 DEF AdmissionInv

--------------------
(* Keys *)

\* A key keeps its invariant when its submissions, its entry and its row stay as they are.
LEMMA KeyUntouched ==
  ASSUME NEW k \in Keys, KeyInv(k),
         \A x \in Carriers(k) : handler'[x] = handler[x] /\ (x \in placed' <=> x \in placed),
         k \in claimed' <=> k \in claimed, answerOf'[k] = answerOf[k],
         persisted'[k] = persisted[k], restarted' = restarted, blind \subseteq blind'
  PROVE  KeyInv(k)'
<1> SUFFICES ASSUME IsPlain(k)  PROVE OneOwner(k)' /\ (~restarted' => EntryTells(k)') BY DEF KeyInv, IsPlain
<1>1. OneOwner(k) /\ (~restarted => EntryTells(k)) BY DEF KeyInv
<1>2. \A x \in Carriers(k) : Owns(x)' <=> Owns(x) BY DEF Owns
<1>3. OneOwner(k)' BY <1>1, <1>2 DEF OneOwner, Carriers
<1>4. ~restarted' => EntryTells(k)' BY <1>1, <1>2 DEF EntryTells, Carriers
<1> QED BY <1>3, <1>4

\* The submissions of a plain key are not after-market orders, so none is being drained.
LEMMA PlainCarriers ==
  ASSUME AdmissionInv, NEW k \in Keys, IsPlain(k), NEW s \in Carriers(k)
  PROVE  s \in Submissions /\ KeyOf[s] = k /\ k # NoKey /\ s \notin IsAfterMarket /\ ~IsDrained(s)
BY DrainedHead, HandlerTypes DEF IsPlain, Carriers

\* The step of a submission leaves the keys of the other submissions alone.
LEMMA OtherKeys ==
  ASSUME AdmissionInv, NEW s \in Submissions, HandlerStep(s), NEW k \in Keys, KeyOf[s] # k PROVE KeyInv(k)'
<1>1. KeyInv(k) BY DEF AdmissionInv, KeysAreSound
<1>2. answerOf \in [Keys -> Answers \union {NoAnswer}] /\ persisted \in [Keys -> Answers \union {NoAnswer}]
  BY HandlerTypes
<1>3. \A x \in Carriers(k) : x # s /\ x \in Submissions BY DEF Carriers
<1>4. \A x \in Carriers(k) : handler'[x] = handler[x] BY <1>3, HandlersMove
<1>5. \A x \in Carriers(k) : x \in placed' <=> x \in placed
  BY <1>3 DEF HandlerStep, Arrive, Enqueue, ClaimKey, LookUp, LookUpFails, Await, Gate, HandOff,
              RecordHandOff, Complete, Persist, others
<1>6. restarted' = restarted /\ blind \subseteq blind'
  BY DEF HandlerStep, Arrive, Enqueue, ClaimKey, LookUp, LookUpFails, Await, Gate, HandOff,
         RecordHandOff, Complete, Persist, others, counters
<1>7. (k \in claimed' <=> k \in claimed) /\ answerOf'[k] = answerOf[k] /\ persisted'[k] = persisted[k]
  <2>1. CASE UNCHANGED store BY <2>1 DEF store
  <2>2. CASE ClaimKey(s) BY <2>1, <2>2 DEF ClaimKey, Claim
  <2>3. CASE LookUp(s) BY <2>1, <2>3, <1>2 DEF LookUp, AdoptPersistedAnswer
  <2>4. CASE Complete(s) BY <2>4, <1>2 DEF Complete, CompleteClaimedKey
  <2>5. CASE Persist(s) BY <2>1, <2>5, <1>2 DEF Persist, PersistCompletedResponse
  <2> QED BY <2>1, <2>2, <2>3, <2>4, <2>5 DEF HandlerStep, Arrive, Enqueue, LookUpFails, Await,
              Gate, HandOff, RecordHandOff
<1> QED BY <1>1, <1>4, <1>5, <1>6, <1>7, KeyUntouched

\* A submission that arrives goes on to claim its key.
LEMMA ArriveKeepsKey ==
  ASSUME AdmissionInv, NEW k \in Keys, IsPlain(k), NEW s \in Carriers(k), Arrive(s)
  PROVE  OneOwner(k)' /\ (~restarted' => EntryTells(k)')
<1>1. s \in Submissions /\ s \notin IsAfterMarket /\ handler[s].at = "unsent" BY PlainCarriers DEF Arrive, At
<1>2. Goes(s, "claim") /\ "claim" \in Points \union Settled BY <1>1 DEF Arrive, Points
<1>3. handler'[s].at = "claim" /\ \A x \in Submissions : x # s => handler'[x] = handler[x]
  BY <1>1, <1>2, HandlerTypes, GoesEffect
<1>4. UNCHANGED <<claimed, answerOf, persisted, placed, blind, restarted>>
  BY DEF Arrive, store, others, counters
<1>5. OneOwner(k) /\ (~restarted => EntryTells(k)) BY DEF AdmissionInv, KeysAreSound, KeyInv
<1>6. ~Owns(s)' /\ \A x \in Carriers(k) : x # s => (Owns(x)' <=> Owns(x))
  BY <1>3 DEF Owns, OwnerPoints, Running, Carriers
<1>7. OneOwner(k)' BY <1>3, <1>4, <1>5, <1>6 DEF OneOwner, Carriers
<1>8. ~restarted' => EntryTells(k)' BY <1>3, <1>4, <1>5, <1>6 DEF EntryTells, Carriers
<1> QED BY <1>7, <1>8

\* The claim makes an owner of a key that had none, or a waiter.
LEMMA ClaimKeepsKey ==
  ASSUME AdmissionInv, NEW k \in Keys, IsPlain(k), NEW s \in Carriers(k), ClaimKey(s)
  PROVE  OneOwner(k)' /\ (~restarted' => EntryTells(k)')
<1>1. s \in Submissions /\ KeyOf[s] = k /\ k # NoKey /\ handler[s].at = "claim"
  BY PlainCarriers DEF ClaimKey, At
<1>2. UNCHANGED <<placed, blind, restarted>> BY DEF ClaimKey, others, counters
<1>3. OneOwner(k) /\ (~restarted => EntryTells(k)) BY DEF AdmissionInv, KeysAreSound, KeyInv
<1>4. CASE Claim(k) /\ Goes(s, "lookup")
  <2>1. "lookup" \in Points \union Settled BY DEF Points
  <2>2. handler'[s].at = "lookup" /\ \A x \in Submissions : x # s => handler'[x] = handler[x]
    BY <1>1, <1>4, <2>1, HandlerTypes, GoesEffect
  <2>3. k \notin claimed /\ k \in claimed' /\ UNCHANGED <<answerOf, persisted>> BY <1>4 DEF Claim
  <2>4. \A x \in Carriers(k) : ~Owns(x) BY <1>3, <2>3 DEF OneOwner
  <2>5. \A x \in Carriers(k) : x # s => ~Owns(x)' BY <2>2, <2>4 DEF Owns, Carriers
  <2>6. OneOwner(k)' BY <1>2, <1>3, <2>2, <2>3, <2>5 DEF OneOwner, Carriers
  <2>7. ~restarted' => EntryTells(k)' BY <1>2, <1>3, <2>2, <2>3, <2>5 DEF EntryTells, Carriers
  <2> QED BY <2>6, <2>7
<1>5. CASE k \in claimed /\ Goes(s, "wait") /\ UNCHANGED store
  <2>1. "wait" \in Points \union Settled BY DEF Points
  <2>2. handler'[s].at = "wait" /\ \A x \in Submissions : x # s => handler'[x] = handler[x]
    BY <1>1, <1>5, <2>1, HandlerTypes, GoesEffect
  <2>3. UNCHANGED <<claimed, answerOf, persisted>> BY <1>5 DEF store
  <2>4. ~Owns(s)' /\ \A x \in Carriers(k) : x # s => (Owns(x)' <=> Owns(x))
    BY <2>2 DEF Owns, OwnerPoints, Running, Carriers
  <2>5. OneOwner(k)' BY <1>2, <1>3, <2>2, <2>3, <2>4 DEF OneOwner, Carriers
  <2>6. ~restarted' => EntryTells(k)' BY <1>2, <1>3, <1>5, <2>2, <2>3, <2>4 DEF EntryTells, Carriers
  <2> QED BY <2>5, <2>6
<1> QED BY <1>1, <1>4, <1>5 DEF ClaimKey

\* Only an earlier process can have left a row that the owner of the claim finds; when the read
\* fails the key counts as blind.
LEMMA LookUpKeepsKey ==
  ASSUME AdmissionInv, NEW k \in Keys, IsPlain(k), NEW s \in Carriers(k),
         LookUp(s) \/ LookUpFails(s)
  PROVE  OneOwner(k)' /\ (~restarted' => EntryTells(k)')
<1>1. s \in Submissions /\ KeyOf[s] = k /\ handler[s].at = "lookup"
  BY PlainCarriers DEF LookUp, LookUpFails, At
<1>2. Owns(s) /\ handler[s].at # "persist" BY <1>1 DEF Owns, OwnerPoints
<1>3. OneOwner(k) /\ (~restarted => EntryTells(k)) BY DEF AdmissionInv, KeysAreSound, KeyInv
<1>4. k \in claimed /\ \A x \in Carriers(k) : x # s => ~Owns(x) BY <1>2, <1>3 DEF OneOwner
<1>5. UNCHANGED <<claimed, persisted, placed, restarted>>
  BY DEF LookUp, LookUpFails, AdoptPersistedAnswer, store, others, counters
<1>6. CASE AdoptPersistedAnswer(k) /\ GoesWith(s, "answered", persisted[k]) /\ UNCHANGED others
  <2>1. "answered" \in Points \union Settled /\ persisted[k] \in Answers \union {NoAnswer}
    BY HandlerTypes DEF Settled
  <2>2. handler'[s].at = "answered" /\ \A x \in Submissions : x # s => handler'[x] = handler[x]
    BY <1>1, <1>6, <2>1, HandlerTypes, GoesWithEffect
  <2>3. restarted BY <1>6, <1>2, <1>3 DEF AdoptPersistedAnswer, EntryTells
  <2>4. \A x \in Carriers(k) : ~Owns(x)' BY <1>4, <2>2 DEF Owns, OwnerPoints, Running, Carriers
  <2>5. OneOwner(k)' BY <1>3, <1>5, <1>6, <2>2, <2>4 DEF OneOwner, Carriers, others
  <2> QED BY <2>3, <2>5, <1>5
<1>7. CASE /\ Goes(s, "gate") /\ UNCHANGED answerOf
           /\ (persisted[k] = NoAnswer /\ UNCHANGED blind) \/ (k \in blind')
  <2>1. "gate" \in Points \union Settled BY DEF Points, Running
  <2>2. handler'[s].at = "gate" /\ \A x \in Submissions : x # s => handler'[x] = handler[x]
    BY <1>1, <1>7, <2>1, HandlerTypes, GoesEffect
  <2>3. \A x \in Carriers(k) : x # s => ~Owns(x)' BY <1>4, <2>2 DEF Owns, Carriers
  <2>4. OneOwner(k)' BY <1>3, <1>4, <1>5, <1>7, <2>2, <2>3 DEF OneOwner, Carriers
  <2>5. ~restarted' => EntryTells(k)' BY <1>2, <1>3, <1>4, <1>5, <1>7, <2>2, <2>3 DEF EntryTells, Carriers
  <2> QED BY <2>4, <2>5
<1> QED BY <1>1, <1>6, <1>7 DEF LookUp, LookUpFails, store, others

\* A waiter takes the answer of the entry or gives up.
LEMMA AwaitKeepsKey ==
  ASSUME AdmissionInv, NEW k \in Keys, IsPlain(k), NEW s \in Carriers(k), Await(s)
  PROVE  OneOwner(k)' /\ (~restarted' => EntryTells(k)')
<1>1. s \in Submissions /\ KeyOf[s] = k /\ handler[s].at = "wait" BY PlainCarriers DEF Await, At
<1>2. UNCHANGED <<claimed, answerOf, persisted, placed, blind, restarted>>
  BY DEF Await, store, others, counters
<1>3. OneOwner(k) /\ (~restarted => EntryTells(k)) BY DEF AdmissionInv, KeysAreSound, KeyInv
<1>4. PICK p \in {"answered", "timedOut"} :
          /\ handler'[s].at = p
          /\ p = "answered" => answerOf[k] # NoAnswer /\ handler'[s].answer = answerOf[k]
          /\ \A x \in Submissions : x # s => handler'[x] = handler[x]
  <2>1. "answered" \in Points \union Settled /\ "timedOut" \in Points \union Settled BY DEF Settled
  <2>2. answerOf[k] \in Answers \union {NoAnswer} BY HandlerTypes
  <2>3. CASE answerOf[k] # NoAnswer /\ GoesWith(s, "answered", answerOf[k])
    BY <1>1, <2>1, <2>2, <2>3, HandlerTypes, GoesWithEffect
  <2>4. CASE Goes(s, "timedOut") BY <1>1, <2>1, <2>4, HandlerTypes, GoesEffect
  <2> QED BY <1>1, <2>3, <2>4 DEF Await
<1>5. ~Owns(s)' /\ \A x \in Carriers(k) : x # s => (Owns(x)' <=> Owns(x))
  BY <1>4 DEF Owns, OwnerPoints, Running, Carriers
<1>6. OneOwner(k)' BY <1>2, <1>3, <1>4, <1>5 DEF OneOwner, Carriers
<1>7. ~restarted' => EntryTells(k)'
  <2> SUFFICES ASSUME ~restarted  PROVE EntryTells(k)' BY <1>2
  <2>1. k \in claimed BY <1>1, <1>3 DEF EntryTells
  <2> QED BY <1>2, <1>3, <1>4, <1>5, <2>1 DEF EntryTells, Carriers
<1> QED BY <1>6, <1>7

\* An owner whose processing has ended goes on to complete its key with an answer of its own.
LEMMA FinishKeepsKey ==
  ASSUME AdmissionInv, NEW k \in Keys, IsPlain(k), NEW s \in Carriers(k), Finish(s),
         handler[s].at \in Running,
         UNCHANGED <<claimed, answerOf, persisted, placed, blind, restarted>>
  PROVE  OneOwner(k)' /\ (~restarted' => EntryTells(k)')
<1>1. s \in Submissions /\ KeyOf[s] = k /\ k # NoKey /\ ~IsDrained(s) BY PlainCarriers
<1>2. AfterProcessing(s) = "complete" BY <1>1 DEF AfterProcessing
<1>3. /\ handler'[s].at = "complete" /\ handler'[s].answer = s /\ s # NoAnswer
      /\ \A x \in Submissions : x # s => handler'[x] = handler[x] BY <1>1, <1>2, HandlerTypes, FinishEffect
<1>4. OneOwner(k) /\ (~restarted => EntryTells(k)) BY DEF AdmissionInv, KeysAreSound, KeyInv
<1>5. Owns(s) /\ handler[s].at # "persist" /\ Owns(s)' BY <1>3 DEF Owns, OwnerPoints, Running
<1>6. \A x \in Carriers(k) : x # s => (Owns(x)' <=> Owns(x)) BY <1>3 DEF Owns, Carriers
<1>7. OneOwner(k)' BY <1>3, <1>4, <1>5, <1>6 DEF OneOwner, Carriers
<1>8. ~restarted' => EntryTells(k)' BY <1>3, <1>4, <1>5, <1>6 DEF EntryTells, OneOwner, Carriers
<1> QED BY <1>7, <1>8

\* The kill switch lets the owner go on, or the processing ends here.
LEMMA GateKeepsKey ==
  ASSUME AdmissionInv, NEW k \in Keys, IsPlain(k), NEW s \in Carriers(k), Gate(s)
  PROVE  OneOwner(k)' /\ (~restarted' => EntryTells(k)')
<1>1. s \in Submissions /\ KeyOf[s] = k /\ handler[s].at = "gate" BY PlainCarriers DEF Gate, At
<1>2. UNCHANGED <<claimed, answerOf, persisted, placed, blind, restarted>>
  BY DEF Gate, store, others, counters
<1>3. CASE Finish(s) BY <1>1, <1>2, <1>3, FinishKeepsKey DEF Running
<1>4. CASE Goes(s, "handoff")
  <2>1. "handoff" \in Points \union Settled BY DEF Points, Running
  <2>2. handler'[s].at = "handoff" /\ \A x \in Submissions : x # s => handler'[x] = handler[x]
    BY <1>1, <1>4, <2>1, HandlerTypes, GoesEffect
  <2>3. OneOwner(k) /\ (~restarted => EntryTells(k)) BY DEF AdmissionInv, KeysAreSound, KeyInv
  <2>4. Owns(s) /\ Owns(s)' /\ \A x \in Carriers(k) : x # s => (Owns(x)' <=> Owns(x))
    BY <1>1, <2>2 DEF Owns, OwnerPoints, Running, Carriers
  <2>5. OneOwner(k)' BY <1>1, <1>2, <2>2, <2>3, <2>4 DEF OneOwner, Carriers
  <2>6. ~restarted' => EntryTells(k)' BY <1>1, <1>2, <2>2, <2>3, <2>4 DEF EntryTells, OneOwner, Carriers
  <2> QED BY <2>5, <2>6
<1> QED BY <1>3, <1>4 DEF Gate

\* Only the owner of a key hands an order over, and no other submission of the key had.
LEMMA HandOffKeepsKey ==
  ASSUME AdmissionInv, NEW k \in Keys, IsPlain(k), NEW s \in Carriers(k), HandOff(s)
  PROVE  OneOwner(k)' /\ (~restarted' => EntryTells(k)')
<1>1. s \in Submissions /\ handler[s].at = "handoff" BY PlainCarriers DEF HandOff, At
<1>2. /\ UNCHANGED <<claimed, answerOf, persisted, blind, restarted>>
      /\ \A x \in Submissions : x # s => (x \in placed' <=> x \in placed) BY DEF HandOff, store, counters
<1>3. PICK p \in {"reachable", "unreachable"} : Goes(s, p) BY DEF HandOff
<1>4. p \in Points \union Settled BY DEF Points, Running
<1>5. handler'[s].at = p /\ \A x \in Submissions : x # s => handler'[x] = handler[x]
  BY <1>1, <1>3, <1>4, HandlerTypes, GoesEffect
<1>6. OneOwner(k) /\ (~restarted => EntryTells(k)) BY DEF AdmissionInv, KeysAreSound, KeyInv
<1>7. Owns(s) /\ Owns(s)' /\ \A x \in Carriers(k) : x # s => (Owns(x)' <=> Owns(x))
  BY <1>1, <1>5 DEF Owns, OwnerPoints, Running, Carriers
<1>8. k \in claimed /\ \A x \in Carriers(k) : x # s => ~Owns(x) /\ ~Owns(x)' BY <1>6, <1>7 DEF OneOwner
<1>9. OneOwner(k)' BY <1>1, <1>2, <1>5, <1>6, <1>7, <1>8 DEF OneOwner, Carriers
<1>10. ~restarted' => EntryTells(k)'
  <2> SUFFICES ASSUME ~restarted  PROVE EntryTells(k)' BY <1>2
  <2>1. EntryTells(k) /\ answerOf[k] = NoAnswer /\ persisted[k] = NoAnswer BY <1>1, <1>6, <1>7 DEF EntryTells
  <2>2. \A x \in Carriers(k) : x # s => x \notin placed /\ x \notin placed'
    BY <1>2, <1>7, <2>1 DEF EntryTells, Carriers
  <2>3. \A x \in Carriers(k) :
          /\ Owns(x)' /\ handler'[x].at # "persist" => answerOf'[k] = NoAnswer
          /\ handler'[x].at = "complete" => handler'[x].answer # NoAnswer
          /\ handler'[x].at \in {"persist", "answered"} =>
                answerOf'[k] # NoAnswer /\ handler'[x].answer = answerOf'[k]
    BY <1>2, <1>5, <1>7, <2>1 DEF EntryTells, Carriers
  <2> QED BY <1>2, <1>8, <2>1, <2>2, <2>3 DEF EntryTells, Carriers
<1> QED BY <1>9, <1>10

\* The answer of the owner becomes the answer of the entry, which had none.
LEMMA CompleteKeepsKey ==
  ASSUME AdmissionInv, NEW k \in Keys, IsPlain(k), NEW s \in Carriers(k), Complete(s)
  PROVE  OneOwner(k)' /\ (~restarted' => EntryTells(k)')
<1>1. s \in Submissions /\ KeyOf[s] = k /\ handler[s].at = "complete" BY PlainCarriers DEF Complete, At
<1>2. UNCHANGED <<claimed, persisted, placed, blind, restarted>>
  BY DEF Complete, CompleteClaimedKey, others, counters
<1>3. Goes(s, "persist") /\ "persist" \in Points \union Settled BY DEF Complete, Points
<1>4. /\ handler'[s].at = "persist" /\ handler'[s].answer = handler[s].answer
      /\ \A x \in Submissions : x # s => handler'[x] = handler[x] BY <1>1, <1>3, HandlerTypes, GoesEffect
<1>5. OneOwner(k) /\ (~restarted => EntryTells(k)) BY DEF AdmissionInv, KeysAreSound, KeyInv
<1>6. Owns(s) /\ Owns(s)' /\ \A x \in Carriers(k) : x # s => (Owns(x)' <=> Owns(x))
  BY <1>1, <1>4 DEF Owns, OwnerPoints, Running, Carriers
<1>7. k \in claimed /\ \A x \in Carriers(k) : x # s => ~Owns(x) /\ ~Owns(x)' BY <1>5, <1>6 DEF OneOwner
<1>8. answerOf'[k] = handler[s].answer BY <1>1, <1>7 DEF Complete, CompleteClaimedKey
<1>9. OneOwner(k)' BY <1>1, <1>2, <1>4, <1>5, <1>6, <1>7 DEF OneOwner, Carriers
<1>10. ~restarted' => EntryTells(k)'
  <2> SUFFICES ASSUME ~restarted  PROVE EntryTells(k)' BY <1>2
  <2>1. EntryTells(k) /\ answerOf[k] = NoAnswer /\ answerOf'[k] # NoAnswer
    BY <1>1, <1>5, <1>6, <1>8 DEF EntryTells
  <2>2. \A x \in Carriers(k) : x # s => handler'[x].at \notin {"complete", "persist", "answered"}
    BY <1>4, <1>7, <2>1 DEF EntryTells, Carriers, Owns, OwnerPoints
  <2> QED BY <1>2, <1>4, <1>6, <1>7, <1>8, <2>1, <2>2 DEF EntryTells, Carriers
<1> QED BY <1>9, <1>10

\* The row gets the answer of the entry; its submission is answered and owns nothing any more.
LEMMA PersistKeepsKey ==
  ASSUME AdmissionInv, NEW k \in Keys, IsPlain(k), NEW s \in Carriers(k), Persist(s)
  PROVE  OneOwner(k)' /\ (~restarted' => EntryTells(k)')
<1>1. s \in Submissions /\ KeyOf[s] = k /\ handler[s].at = "persist" BY PlainCarriers DEF Persist, At
<1>2. UNCHANGED <<claimed, answerOf, placed, blind, restarted>>
  BY DEF Persist, PersistCompletedResponse, store, others, counters
<1>3. Goes(s, "answered") /\ "answered" \in Points \union Settled BY DEF Persist, Settled
<1>4. /\ handler'[s].at = "answered" /\ handler'[s].answer = handler[s].answer
      /\ \A x \in Submissions : x # s => handler'[x] = handler[x] BY <1>1, <1>3, HandlerTypes, GoesEffect
<1>5. OneOwner(k) /\ (~restarted => EntryTells(k)) BY DEF AdmissionInv, KeysAreSound, KeyInv
<1>6. Owns(s) /\ ~Owns(s)' /\ \A x \in Carriers(k) : x # s => (Owns(x)' <=> Owns(x))
  BY <1>1, <1>4 DEF Owns, OwnerPoints, Running, Carriers
<1>7. k \in claimed /\ \A x \in Carriers(k) : x # s => ~Owns(x) /\ ~Owns(x)' BY <1>5, <1>6 DEF OneOwner
<1>8. \A x \in Carriers(k) : handler'[x].at \notin {"gate", "handoff"}
  BY <1>4, <1>7 DEF Owns, OwnerPoints, Running, Carriers
<1>9. OneOwner(k)' BY <1>5, <1>6, <1>7, <1>8 DEF OneOwner
<1>10. ~restarted' => EntryTells(k)'
  <2> SUFFICES ASSUME ~restarted  PROVE EntryTells(k)' BY <1>2
  <2>1. EntryTells(k) /\ answerOf[k] # NoAnswer BY <1>1, <1>5 DEF EntryTells
  <2>2. \A x \in Carriers(k) :
          /\ Owns(x)' /\ handler'[x].at # "persist" => answerOf'[k] = NoAnswer
          /\ handler'[x].at = "complete" => handler'[x].answer # NoAnswer
          /\ handler'[x].at \in {"persist", "answered"} =>
                answerOf'[k] # NoAnswer /\ handler'[x].answer = answerOf'[k]
    BY <1>1, <1>2, <1>4, <1>6, <1>7, <2>1 DEF EntryTells, Carriers
  <2> QED BY <1>2, <1>6, <1>7, <2>1, <2>2 DEF EntryTells, Carriers
<1> QED BY <1>9, <1>10

\* A submission with a plain key is an owner when it panics, so its entry stays claimed by nobody
\* else; the drained orders that go with an after-market order have no plain key.
LEMMA PanicKeepsKeys == ASSUME AdmissionInv, NEW s \in Submissions, Panic(s), NEW k \in Keys PROVE KeyInv(k)'
<1> SUFFICES ASSUME IsPlain(k)  PROVE OneOwner(k)' /\ (~restarted' => EntryTells(k)') BY DEF KeyInv, IsPlain
<1>1. PICK lost : /\ lost = IF IsDrained(s) THEN ToSet(opening.drained) ELSE {s}
                  /\ handler' = [x \in Submissions |-> IF x \in lost THEN Gone ELSE handler[x]] BY DEF Panic
<1>2. UNCHANGED <<claimed, answerOf, persisted, placed, blind, restarted>> BY DEF Panic, store, others
<1>3. OneOwner(k) /\ (~restarted => EntryTells(k)) BY DEF AdmissionInv, KeysAreSound, KeyInv
<1>4. \A x \in Submissions : IF x \in lost THEN handler'[x].at = "gone" ELSE handler'[x] = handler[x]
  BY <1>1, DropEffect
<1>5. \A x \in Carriers(k) : x \in lost => Owns(x)
  <2> SUFFICES ASSUME NEW x \in Carriers(k), x \in lost  PROVE Owns(x) OBVIOUS
  <2>1. ToSet(opening.drained) \subseteq IsAfterMarket BY HandlerTypes, TypedQueues
  <2>2. x = s BY <1>1, <2>1, PlainCarriers
  <2>3. handler[s].at \in Running BY DEF Panic
  <2> QED BY <2>2, <2>3 DEF Owns, OwnerPoints
<1>6. \A x \in Carriers(k) : Owns(x)' => x \notin lost /\ Owns(x) /\ handler'[x] = handler[x]
  BY <1>4 DEF Owns, OwnerPoints, Running, Carriers
<1>7. OneOwner(k)' BY <1>2, <1>3, <1>4, <1>6 DEF OneOwner, Carriers
<1>8. ~restarted' => EntryTells(k)'
  <2> SUFFICES ASSUME ~restarted  PROVE EntryTells(k)' BY <1>2
  <2>1. k \notin claimed' => \A x \in Carriers(k) : x \notin lost BY <1>2, <1>3, <1>5 DEF OneOwner
  <2>2. \A x \in Carriers(k) : handler'[x].at # "gone" => x \notin lost /\ handler'[x] = handler[x]
    BY <1>4 DEF Carriers
  <2>3. k \notin claimed' =>
            /\ answerOf'[k] = NoAnswer
            /\ \A x \in Carriers(k) : handler'[x].at \in {"unsent", "claim"} /\ x \notin placed'
    BY <1>2, <1>3, <1>4, <2>1 DEF EntryTells, Carriers
  <2>4. \A x \in Carriers(k) :
          /\ Owns(x)' /\ handler'[x].at # "persist" => answerOf'[k] = NoAnswer
          /\ handler'[x].at = "complete" => handler'[x].answer # NoAnswer
          /\ handler'[x].at \in {"persist", "answered"} =>
                answerOf'[k] # NoAnswer /\ handler'[x].answer = answerOf'[k]
    BY <1>2, <1>3, <1>6, <2>2 DEF EntryTells
  <2>5. \A x, t \in Carriers(k) :
          x # t => ~(Owns(x)' /\ t \in placed') /\ ~(x \in placed' /\ t \in placed')
    BY <1>2, <1>3, <1>6 DEF EntryTells
  <2> QED BY <1>2, <1>3, <2>3, <2>4, <2>5 DEF EntryTells
<1> QED BY <1>7, <1>8

\* A restart leaves no owners.
LEMMA RestartKeepsKeys == ASSUME AdmissionInv, Restart, NEW k \in Keys PROVE KeyInv(k)'
<1>1. \A x \in Submissions : handler'[x].at \notin OwnerPoints
  BY DEF Restart, Gone, Settled, OwnerPoints, Running
<1>2. \A x \in Carriers(k) : ~Owns(x)' /\ handler'[x].at \notin {"gate", "handoff"}
  BY <1>1 DEF Owns, Carriers, OwnerPoints, Running
<1>3. restarted' = TRUE /\ UNCHANGED persisted /\ UNCHANGED blind BY DEF Restart, StoreRestarts, others
<1>4. OneOwner(k)' BY <1>2 DEF OneOwner
<1> QED BY <1>3, <1>4 DEF KeyInv

\* The submissions of a key move, the entry and the row with them, so that the key stays sound.
LEMMA KeysStaySound == ASSUME AdmissionInv, Next PROVE KeysAreSound'
<1> SUFFICES ASSUME NEW k \in Keys  PROVE KeyInv(k)' BY DEF KeysAreSound
<1>1. KeyInv(k) BY DEF AdmissionInv, KeysAreSound
<1>2. ASSUME NEW s \in Submissions, HandlerStep(s)  PROVE KeyInv(k)'
  <2>1. CASE KeyOf[s] # k BY <1>2, <2>1, OtherKeys
  <2>2. CASE KeyOf[s] = k
    <3> SUFFICES ASSUME IsPlain(k)  PROVE OneOwner(k)' /\ (~restarted' => EntryTells(k)')
      BY DEF KeyInv, IsPlain
    <3>1. s \in Carriers(k) BY <2>2 DEF Carriers
    <3>2. ~Enqueue(s) BY <3>1, PlainCarriers DEF Enqueue, At, AdmissionInv, PointsFitTheOrder
    <3>3. CASE RecordHandOff(s)
      BY <3>3, <3>1, FinishKeepsKey DEF RecordHandOff, store, others, counters, Running
    <3> QED BY <1>2, <3>1, <3>2, <3>3, ArriveKeepsKey, ClaimKeepsKey, LookUpKeepsKey, AwaitKeepsKey,
                GateKeepsKey, HandOffKeepsKey, CompleteKeepsKey, PersistKeepsKey DEF HandlerStep
  <2> QED BY <2>1, <2>2
<1>3. CASE ProcessDrained
  <2> SUFFICES ASSUME IsPlain(k)  PROVE KeyInv(k)' BY DEF KeyInv, IsPlain
  <2>1. UNCHANGED <<claimed, answerOf, persisted, placed, blind, restarted>>
    BY <1>3 DEF ProcessDrained, store, others, counters
  <2>2. \A x \in Carriers(k) : handler'[x] = handler[x]
    <3>1. CASE UNCHANGED handler BY <3>1
    <3>2. CASE opening.drained # <<>> /\ opening.at = "draining" /\ Goes(Head(opening.drained), "gate")
      BY <3>2, DrainedHead, HandlerTypes, GoesEffect, PlainCarriers DEF IsDrained, Points, Running
    <3> QED BY <1>3, <3>1, <3>2 DEF ProcessDrained
  <2> QED BY <1>1, <2>1, <2>2, KeyUntouched
<1>4. CASE UNCHANGED <<handler, store, others, restarted>> BY <1>4, <1>1, KeyUntouched DEF store, others
<1> QED BY <1>2, <1>3, <1>4, PanicKeepsKeys, RestartKeepsKeys DEF Next, Opening, Probing, OpenMarket,
            CloseMarket, DrainAll, ProbeEngine, RecordProbe, ToggleManually, EngineChanges, counters

--------------------
(* The queue of after-market orders *)

\* Each queued order stays in its place when no order enters or leaves the points "queued" and,
\* being drained, the points of its processing.
LEMMA QueuesUntouched ==
  ASSUME AdmissionInv, amoQueue' = amoQueue, opening'.drained = opening.drained,
         \A x \in Submissions : handler'[x].at = "queued" <=> handler[x].at = "queued",
         \A x \in Submissions : (\E i \in 1 .. Len(opening.drained) : opening.drained[i] = x)
              /\ handler[x].at \in Running => handler'[x].at \in Running
  PROVE  QueuesHoldTheQueued'
<1>1. QueuesHoldTheQueued BY DEF AdmissionInv
<1>2. \A i \in 1 .. Len(amoQueue) : amoQueue[i] \in Submissions BY HandlerTypes, ElementOfSeq
<1>3. \A i \in 1 .. Len(opening.drained) : opening.drained[i] \in Submissions BY HandlerTypes, ElementOfSeq
<1> QED BY <1>1, <1>2, <1>3 DEF QueuesHoldTheQueued

\* A submission that is being processed and not drained is in neither queue; nor is one at a
\* point where it is neither queued nor processed.
LEMMA NotHeld ==
  ASSUME AdmissionInv, NEW s \in Submissions, handler[s].at # "queued",
         ~IsDrained(s) \/ handler[s].at \notin Running
  PROVE  /\ \A i \in 1 .. Len(amoQueue) : amoQueue[i] # s
         /\ \A i \in 1 .. Len(opening.drained) : opening.drained[i] # s
<1>1. QueuesHoldTheQueued BY DEF AdmissionInv
<1>2. \A i \in 1 .. Len(amoQueue) : amoQueue[i] # s BY <1>1 DEF QueuesHoldTheQueued
<1>3. ASSUME NEW i \in 1 .. Len(opening.drained), opening.drained[i] = s  PROVE FALSE
  <2>1. i = 1 /\ handler[s].at \in Running BY <1>1, <1>3 DEF QueuesHoldTheQueued
  <2>2. PICK q \in Seq(IsAfterMarket) : q = opening.drained BY HandlerTypes
  <2>3. q # <<>> BY <1>3, <2>2, EmptySeq
  <2>4. Head(q) = s BY <1>3, <2>1, <2>2, <2>3, HeadTailProperties
  <2>5. opening.at = "draining" BY <2>2, <2>3 DEF AdmissionInv, QueuesAreTyped
  <2>6. IsDrained(s) BY <2>2, <2>3, <2>4, <2>5 DEF IsDrained
  <2> QED BY <2>1, <2>6
<1> QED BY <1>2, <1>3

\* A finished order that was drained is dropped from the head of its list.
LEMMA FinishKeepsQueues ==
  ASSUME AdmissionInv, NEW s \in Submissions, handler[s].at \in Running, Finish(s) PROVE QueuesHoldTheQueued'
<1>1. QueuesHoldTheQueued /\ handler[s].at # "queued" BY DEF AdmissionInv, Running
<1>2. /\ handler'[s].at \in {"processed", "answered", "complete"}
      /\ \A x \in Submissions : x # s => handler'[x] = handler[x] BY FinishEffect
<1>3. amoQueue' = amoQueue BY DEF Finish
<1>4. \A i \in 1 .. Len(amoQueue) : amoQueue[i] \in Submissions BY HandlerTypes, ElementOfSeq
<1>5. \A i \in 1 .. Len(opening.drained) : opening.drained[i] \in Submissions BY HandlerTypes, ElementOfSeq
<1>6. CASE ~IsDrained(s) BY <1>6, <1>1, NotHeld, <1>2, <1>3, QueuesUntouched DEF Finish
<1>7. CASE IsDrained(s)
  <2> DEFINE d == opening.drained
  <2>1. /\ Len(d) \in Nat /\ Len(d) >= 1 /\ d[1] = s
        /\ Len(Tail(d)) = Len(d) - 1
        /\ \A i \in 1 .. Len(Tail(d)) : Tail(d)[i] = d[i + 1]
    BY <1>7, DrainedHead, HandlerTypes, LenProperties
  <2>2. opening'.drained = Tail(d) BY <1>7, HandlerTypes DEF Finish, AdmissionInv, QueuesAreTyped
  <2>3. PICK e : e = Tail(d) OBVIOUS
  <2>4. \A i \in 1 .. Len(e) : i + 1 \in 1 .. Len(d) /\ e[i] = d[i + 1] /\ d[i + 1] # s
    BY <2>1, <2>3, <1>1 DEF QueuesHoldTheQueued
  <2> HIDE DEF d
  <2>5. \A i, j \in 1 .. Len(e) : e[i] = e[j] => i = j
    <3> SUFFICES ASSUME NEW i \in 1 .. Len(e), NEW j \in 1 .. Len(e), e[i] = e[j]  PROVE i = j OBVIOUS
    <3>1. i + 1 = j + 1 BY <1>1, <2>4 DEF QueuesHoldTheQueued, d
    <3>2. i \in Int /\ j \in Int OBVIOUS
    <3> QED BY <3>1, <3>2
  <2>6. \A i \in 1 .. Len(amoQueue) : \A j \in 1 .. Len(e) : amoQueue[i] # e[j]
    BY <1>1, <2>4 DEF QueuesHoldTheQueued, d
  <2>7. \A i \in 1 .. Len(amoQueue) : handler'[amoQueue[i]].at = "queued"
    BY <1>1, <1>2, <1>4 DEF QueuesHoldTheQueued
  <2>8. \A i \in 1 .. Len(e) : handler'[e[i]].at = "queued"
    <3> SUFFICES ASSUME NEW i \in 1 .. Len(e)  PROVE handler'[e[i]].at = "queued" OBVIOUS
    <3>1. i + 1 \in 1 .. Len(d) /\ i + 1 # 1 /\ e[i] = d[i + 1] /\ d[i + 1] # s BY <2>1, <2>4
    <3>2. d[i + 1] \in Submissions /\ handler[d[i + 1]].at = "queued"
      BY <1>1, <1>5, <3>1 DEF QueuesHoldTheQueued, d
    <3> QED BY <1>2, <3>1, <3>2
  <2>9. \A x \in Submissions : handler'[x].at = "queued" =>
            \/ \E i \in 1 .. Len(amoQueue) : amoQueue[i] = x
            \/ \E i \in 1 .. Len(e) : e[i] = x
    <3> SUFFICES ASSUME NEW x \in Submissions, handler'[x].at = "queued",
                        ~ \E i \in 1 .. Len(amoQueue) : amoQueue[i] = x
                 PROVE  \E i \in 1 .. Len(e) : e[i] = x OBVIOUS
    <3>1. x # s /\ handler[x].at = "queued" BY <1>2
    <3>2. PICK j \in 1 .. Len(d) : d[j] = x BY <1>1, <3>1 DEF QueuesHoldTheQueued, d
    <3>3. j # 1 BY <2>1, <3>1, <3>2
    <3>4. j - 1 \in 1 .. Len(e) /\ (j - 1) + 1 = j BY <2>1, <2>3, <3>3 DEF d
    <3>5. e[j - 1] = x BY <2>4, <3>2, <3>4
    <3> QED BY <3>4, <3>5
  <2> QED BY <1>1, <1>3, <2>2, <2>3, <2>5, <2>6, <2>7, <2>8, <2>9 DEF QueuesHoldTheQueued, d
<1> QED BY <1>6, <1>7

\* An order that arrives in the queue was in no queue before.
LEMMA EnqueueKeepsQueues == ASSUME AdmissionInv, NEW s \in Submissions, Enqueue(s) PROVE QueuesHoldTheQueued'
<1>1. QueuesHoldTheQueued /\ handler[s].at = "enqueue" /\ s \in IsAfterMarket
  BY DEF AdmissionInv, Enqueue, At, PointsFitTheOrder
<1>2. "queued" \in Points \union Settled /\ Goes(s, "queued") BY DEF Settled, Enqueue
<1>3. handler'[s].at = "queued" /\ \A x \in Submissions : x # s => handler'[x] = handler[x]
  BY <1>2, HandlerTypes, GoesEffect
<1>4. opening' = opening BY DEF Enqueue
<1>5. PICK q \in Seq(IsAfterMarket) : q = amoQueue BY HandlerTypes
<1>6. PICK r : r = Append(q, s) OBVIOUS
<1>7. /\ amoQueue' = r /\ Len(q) \in Nat /\ Len(r) = Len(q) + 1 /\ r[Len(q) + 1] = s
      /\ \A i \in 1 .. Len(q) : r[i] = q[i] BY <1>1, <1>5, <1>6, AppendProperties, LenProperties DEF Enqueue
<1>8. \A i \in 1 .. Len(r) : i \in 1 .. Len(q) \/ i = Len(q) + 1 BY <1>7
<1>9. /\ \A i \in 1 .. Len(q) : q[i] # s /\ q[i] \in Submissions
      /\ \A i \in 1 .. Len(opening.drained) : opening.drained[i] # s /\ opening.drained[i] \in Submissions
  BY <1>1, <1>5, NotHeld, HandlerTypes, ElementOfSeq DEF Running
<1>10. \A i, j \in 1 .. Len(r) : r[i] = r[j] => i = j BY <1>1, <1>5, <1>7, <1>8, <1>9 DEF QueuesHoldTheQueued
<1>11. \A i \in 1 .. Len(r) : \A j \in 1 .. Len(opening.drained) : r[i] # opening.drained[j]
  BY <1>1, <1>5, <1>7, <1>8, <1>9 DEF QueuesHoldTheQueued
<1>12. \A i \in 1 .. Len(r) : handler'[r[i]].at = "queued"
  BY <1>1, <1>3, <1>5, <1>7, <1>8, <1>9 DEF QueuesHoldTheQueued
<1>13. \A i \in 1 .. Len(opening.drained) : handler'[opening.drained[i]] = handler[opening.drained[i]]
  BY <1>3, <1>9
<1>14. \A x \in Submissions : handler'[x].at = "queued" =>
           \/ \E i \in 1 .. Len(r) : r[i] = x
           \/ \E i \in 1 .. Len(opening.drained) : opening.drained[i] = x
  <2> SUFFICES ASSUME NEW x \in Submissions, handler'[x].at = "queued",
                      ~ \E i \in 1 .. Len(opening.drained) : opening.drained[i] = x
               PROVE  \E i \in 1 .. Len(r) : r[i] = x OBVIOUS
  <2>1. CASE x = s BY <1>7, <2>1
  <2>2. CASE x # s
    <3>1. PICK i \in 1 .. Len(q) : q[i] = x BY <1>1, <1>3, <1>5, <2>2 DEF QueuesHoldTheQueued
    <3>2. i \in 1 .. Len(r) BY <1>7
    <3> QED BY <1>7, <3>1, <3>2
  <2> QED BY <2>1, <2>2
<1> QED BY <1>1, <1>4, <1>7, <1>10, <1>11, <1>12, <1>13, <1>14 DEF QueuesHoldTheQueued

\* The steps of a submission keep the queues: most concern a point outside of them.
LEMMA StepsKeepQueues == ASSUME AdmissionInv, NEW s \in Submissions, HandlerStep(s) PROVE QueuesHoldTheQueued'
<1>1. /\ handler \in [Submissions -> HandlerRecords]
      /\ \A x \in Submissions : x # s => handler'[x] = handler[x] BY HandlerTypes, HandlersMove
<1>2. CASE RecordHandOff(s) \/ (Gate(s) /\ Finish(s))
  BY <1>2, FinishKeepsQueues DEF RecordHandOff, Gate, At, Running
<1>3. CASE HandOff(s) \/ (Gate(s) /\ Goes(s, "handoff") /\ UNCHANGED session)
  <2>1. PICK p \in {"handoff", "reachable", "unreachable"} : Goes(s, p) BY <1>3 DEF HandOff
  <2>2. p \in Points \union Settled /\ p \in Running /\ p # "queued" BY DEF Points, Running
  <2>3. handler'[s].at = p /\ handler[s].at # "queued"
    BY <1>3, <2>1, <2>2, HandlerTypes, GoesEffect DEF HandOff, Gate, At
  <2>4. amoQueue' = amoQueue /\ opening' = opening BY <1>3 DEF HandOff, session
  <2> QED BY <1>1, <2>2, <2>3, <2>4, QueuesUntouched
<1>4. CASE Arrive(s) \/ ClaimKey(s) \/ LookUp(s) \/ LookUpFails(s) \/ Await(s) \/ Complete(s)
           \/ Persist(s)
  <2>1. handler[s].at \notin Running /\ handler[s].at # "queued"
    BY <1>4 DEF Arrive, ClaimKey, LookUp, LookUpFails, Await, Complete, Persist, At, Running
  <2>2. handler'[s].at # "queued"
    <3>1. ASSUME NEW p \in {"enqueue", "claim", "gate", "lookup", "wait", "timedOut", "persist",
                            "answered"}, Goes(s, p)
          PROVE  handler'[s].at # "queued" BY <1>1, <3>1 DEF Goes, HandlerRecords
    <3>2. ASSUME NEW a, GoesWith(s, "answered", a)  PROVE handler'[s].at # "queued" BY <1>1, <3>2 DEF GoesWith
    <3> QED BY <1>4, <3>1, <3>2 DEF Arrive, ClaimKey, LookUp, LookUpFails, Await, Complete, Persist
  <2>3. amoQueue' = amoQueue /\ opening' = opening
    BY <1>4 DEF Arrive, ClaimKey, LookUp, LookUpFails, Await, Complete, Persist, session
  <2> QED BY <1>1, <2>1, <2>2, <2>3, QueuesUntouched
<1> QED BY <1>2, <1>3, <1>4, EnqueueKeepsQueues DEF HandlerStep, Gate

\* The whole queue becomes the list that is drained.
LEMMA DrainKeepsQueues == ASSUME AdmissionInv, DrainAll PROVE QueuesHoldTheQueued'
<1>1. QueuesHoldTheQueued BY DEF AdmissionInv
<1>2. opening'.drained = amoQueue /\ amoQueue' = <<>> /\ handler' = handler /\ opening.drained = <<>>
  BY DEF DrainAll, AdmissionInv, QueuesAreTyped
<1>3. Len(amoQueue') = 0 /\ Len(opening.drained) = 0 BY <1>2
<1> QED BY <1>1, <1>2, <1>3 DEF QueuesHoldTheQueued

\* The head of the drained list starts to be processed, or an empty list ends the opening.
LEMMA ProcessingKeepsQueues == ASSUME AdmissionInv, ProcessDrained PROVE QueuesHoldTheQueued'
<1>1. QueuesHoldTheQueued /\ amoQueue' = amoQueue BY DEF AdmissionInv, ProcessDrained
<1>2. CASE opening.drained = <<>> /\ opening' = NotOpening /\ UNCHANGED handler
  BY <1>2, <1>1, QueuesUntouched DEF NotOpening
<1>3. CASE /\ opening.drained # <<>> /\ opening.at = "draining" /\ UNCHANGED opening
           /\ Goes(Head(opening.drained), "gate")
  <2>1. PICK s : s = Head(opening.drained) OBVIOUS
  <2>2. IsDrained(s) BY <1>3, <2>1 DEF IsDrained
  <2>3. s \in Submissions /\ opening.drained[1] = s /\ Len(opening.drained) >= 1
    BY <2>2, DrainedHead, HandlerTypes
  <2>4. "gate" \in Points \union Settled BY DEF Points, Running
  <2>5. handler'[s].at = "gate" /\ \A x \in Submissions : x # s => handler'[x] = handler[x]
    BY <1>3, <2>1, <2>3, <2>4, HandlerTypes, GoesEffect
  <2>6. 1 \in 1 .. Len(opening.drained) BY <2>3, HandlerTypes, LenProperties
  <2>7. \A i \in 1 .. Len(opening.drained) :
            opening.drained[i] \in Submissions /\ (i # 1 => opening.drained[i] # s)
    BY HandlerTypes, ElementOfSeq, <1>1, <2>3, <2>6 DEF QueuesHoldTheQueued
  <2>8. \A i \in 1 .. Len(amoQueue) : amoQueue[i] \in Submissions /\ amoQueue[i] # s
    BY HandlerTypes, ElementOfSeq, <1>1, <2>3, <2>6 DEF QueuesHoldTheQueued
  <2>9. \A i \in 1 .. Len(opening.drained) :
            \/ handler'[opening.drained[i]].at = "queued"
            \/ i = 1 /\ handler'[opening.drained[i]].at \in Running
    <3> SUFFICES ASSUME NEW i \in 1 .. Len(opening.drained)
                 PROVE  \/ handler'[opening.drained[i]].at = "queued"
                        \/ i = 1 /\ handler'[opening.drained[i]].at \in Running OBVIOUS
    <3>1. CASE i = 1 BY <2>3, <2>5, <3>1 DEF Running
    <3>2. CASE i # 1 BY <1>1, <2>5, <2>7, <3>2 DEF QueuesHoldTheQueued
    <3> QED BY <3>1, <3>2
  <2>10. \A x \in Submissions : handler'[x].at = "queued" => x # s /\ handler[x].at = "queued" BY <2>5
  <2>11. \A i \in 1 .. Len(amoQueue) : handler'[amoQueue[i]].at = "queued"
    BY <1>1, <2>5, <2>8 DEF QueuesHoldTheQueued
  <2>12. opening'.drained = opening.drained BY <1>3
  <2> QED BY <1>1, <2>9, <2>10, <2>11, <2>12 DEF QueuesHoldTheQueued
<1> QED BY <1>2, <1>3 DEF ProcessDrained

\* A panic of a drained order takes the rest of the drained list with it.
LEMMA PanicKeepsQueues == ASSUME AdmissionInv, NEW s \in Submissions, Panic(s) PROVE QueuesHoldTheQueued'
<1>1. QueuesHoldTheQueued /\ amoQueue' = amoQueue /\ handler[s].at \in Running BY DEF AdmissionInv, Panic
<1>2. \A i \in 1 .. Len(amoQueue) : amoQueue[i] \in Submissions BY HandlerTypes, ElementOfSeq
<1>3. CASE ~IsDrained(s) BY <1>3, DropEffect, <1>1, NotHeld, QueuesUntouched DEF Panic, Running
<1>4. CASE IsDrained(s)
  <2> DEFINE lost == ToSet(opening.drained)
  <2>1. /\ opening'.drained = <<>>
        /\ handler' = [x \in Submissions |-> IF x \in lost THEN Gone ELSE handler[x]]
    BY <1>4 DEF Panic, NotOpening
  <2>2. \A x \in Submissions : x \in lost <=> \E i \in 1 .. Len(opening.drained) : opening.drained[i] = x
    BY HandlerTypes, LenProperties DEF ToSet
  <2> HIDE DEF lost
  <2>3. \A x \in Submissions : IF x \in lost THEN handler'[x].at = "gone" ELSE handler'[x] = handler[x]
    BY <2>1, DropEffect
  <2>4. \A i \in 1 .. Len(amoQueue) : amoQueue[i] \notin lost BY <1>1, <1>2, <2>2 DEF QueuesHoldTheQueued
  <2>5. Len(opening'.drained) = 0 BY <2>1
  <2>6. \A i \in 1 .. Len(amoQueue) : handler'[amoQueue[i]].at = "queued"
    BY <1>1, <1>2, <2>3, <2>4 DEF QueuesHoldTheQueued
  <2>7. \A x \in Submissions : handler'[x].at = "queued" => \E i \in 1 .. Len(amoQueue) : amoQueue[i] = x
    <3> SUFFICES ASSUME NEW x \in Submissions, handler'[x].at = "queued"
                 PROVE  \E i \in 1 .. Len(amoQueue) : amoQueue[i] = x OBVIOUS
    <3>1. x \notin lost /\ handler[x].at = "queued" BY <2>3
    <3> QED BY <1>1, <2>2, <3>1 DEF QueuesHoldTheQueued
  <2> QED BY <1>1, <2>5, <2>6, <2>7 DEF QueuesHoldTheQueued
<1> QED BY <1>3, <1>4

\* A restart forgets the queued orders with the queue.
LEMMA RestartKeepsQueues == ASSUME AdmissionInv, Restart PROVE QueuesHoldTheQueued'
<1>1. amoQueue' = <<>> /\ opening'.drained = <<>> BY DEF Restart, NotOpening
<1>2. Len(amoQueue') = 0 /\ Len(opening'.drained) = 0 BY <1>1
<1>3. \A x \in Submissions : handler'[x].at # "queued" BY DEF Restart, Gone, Settled
<1> QED BY <1>2, <1>3 DEF QueuesHoldTheQueued

\* The queues hold what is queued after every step.
LEMMA QueuesStaySound == ASSUME AdmissionInv, Next PROVE QueuesHoldTheQueued'
<1>1. CASE OpenMarket BY <1>1, QueuesUntouched DEF OpenMarket, AdmissionInv, QueuesAreTyped
<1>2. CASE UNCHANGED <<amoQueue, opening, handler>> BY <1>2, QueuesUntouched
<1> QED BY <1>1, <1>2, StepsKeepQueues, DrainKeepsQueues, ProcessingKeepsQueues, PanicKeepsQueues,
            RestartKeepsQueues DEF Next, Opening, Probing, CloseMarket, ProbeEngine, RecordProbe,
            ToggleManually, EngineChanges, session

\* Only a late order joins the queue of a market that is open and not about to be drained.
LEMMA StragglersStayLate == ASSUME AdmissionInv, Next PROVE StragglersAreLate'
<1>1. StragglersAreLate BY DEF AdmissionInv
<1>2. ASSUME amoQueue' = amoQueue, late \subseteq late', isMarketOpen' => isMarketOpen,
             opening.at = "opened" => opening'.at = "opened"
      PROVE  StragglersAreLate' BY <1>1, <1>2 DEF StragglersAreLate
<1>3. ASSUME NEW s \in Submissions, Finish(s), late' = late  PROVE StragglersAreLate'
  BY <1>3, <1>2 DEF Finish, AdmissionInv, QueuesAreTyped
<1>4. ASSUME NEW s \in Submissions, Enqueue(s)  PROVE StragglersAreLate'
  <2> SUFFICES ASSUME isMarketOpen, opening.at # "opened", NEW i \in 1 .. Len(amoQueue')
               PROVE  amoQueue'[i] \in late' BY <1>4 DEF Enqueue, StragglersAreLate
  <2>1. PICK q \in Seq(IsAfterMarket) : q = amoQueue BY HandlerTypes
  <2>2. s \in IsAfterMarket BY <1>4 DEF Enqueue, At, AdmissionInv, PointsFitTheOrder
  <2>3. PICK r : r = Append(q, s) OBVIOUS
  <2>4. /\ amoQueue' = r /\ Len(q) \in Nat /\ Len(r) = Len(q) + 1 /\ r[Len(q) + 1] = s
        /\ \A j \in 1 .. Len(q) : r[j] = q[j]
    BY <1>4, <2>1, <2>2, <2>3, AppendProperties, LenProperties DEF Enqueue
  <2>5. late \subseteq late' /\ s \in late' BY <1>4 DEF Enqueue
  <2>6. \A j \in 1 .. Len(q) : q[j] \in late BY <1>1, <2>1 DEF StragglersAreLate
  <2>7. i \in 1 .. Len(q) \/ i = Len(q) + 1 BY <2>4
  <2> QED BY <2>4, <2>5, <2>6, <2>7
<1>5. ASSUME NEW s \in Submissions, HandlerStep(s)  PROVE StragglersAreLate'
  <2>1. CASE UNCHANGED <<session, late>> BY <1>2, <2>1 DEF session
  <2> QED BY <1>3, <1>4, <1>5, <2>1 DEF HandlerStep, Arrive, ClaimKey, LookUp, LookUpFails, Await,
              Gate, HandOff, RecordHandOff, Complete, Persist, others
<1>6. ASSUME NEW s \in Submissions, Panic(s)  PROVE StragglersAreLate'
  BY <1>6, <1>2 DEF Panic, others, IsDrained
<1>7. CASE OpenMarket BY <1>7 DEF OpenMarket, AdmissionInv, QueuesAreTyped, StragglersAreLate
<1>8. CASE CloseMarket \/ Restart BY <1>8 DEF CloseMarket, Restart, StragglersAreLate
<1>9. CASE DrainAll BY <1>9 DEF DrainAll, StragglersAreLate
<1>10. CASE ProcessDrained BY <1>10, <1>2 DEF ProcessDrained, others
<1>11. CASE UNCHANGED <<session, late>> BY <1>2, <1>11 DEF session
<1> QED BY <1>5, <1>6, <1>7, <1>8, <1>9, <1>10, <1>11 DEF Next, Opening, Probing, ProbeEngine,
            RecordProbe, ToggleManually, EngineChanges, others

--------------------
(* The theorems *)

\* The invariant is inductive.
LEMMA AdmissionStep == ASSUME AdmissionInv, [Next]_vars PROVE AdmissionInv'
<1>1. CASE Next BY <1>1, TypesHold, KeysStaySound, QueuesStaySound, StragglersStayLate DEF AdmissionInv
<1>2. CASE UNCHANGED vars
  BY <1>2, QueuesUntouched, KeyUntouched DEF vars, killSwitch, store, session, others, counters,
     AdmissionInv, TypeOK, KillSwitchTypeOK, QueuesAreTyped, PointsFitTheOrder, StragglersAreLate,
     KeysAreSound
<1> QED BY <1>1, <1>2

\* Every state satisfies the invariant.
THEOREM AdmissionInvariance == Spec => []AdmissionInv BY AdmissionInit, AdmissionStep, PTL DEF Spec

\* Every variable of the admission of orders keeps its type.
THEOREM AdmissionTypeCorrect == Spec => []TypeOK
<1>1. AdmissionInv => TypeOK BY DEF AdmissionInv
<1> QED BY <1>1, AdmissionInvariance, PTL

\* What OneAnswerPerKey says of one key.
OneAnswer(k) ==
  /\ \A s, t \in Answered(k) : handler[s].answer = handler[t].answer
  /\ \A s \in Placements(k), t \in Submissions : KeyOf[t] = k /\ t # s => t \notin placed

\* A key that no after-market order carries has one answer and one placement.
LEMMA PlainKeysHaveOneAnswer == ASSUME AdmissionInv, ~restarted, NEW k \in Keys, IsPlain(k) PROVE OneAnswer(k)
<1>1. EntryTells(k) BY DEF AdmissionInv, KeysAreSound, KeyInv
<1>2. placed \subseteq Submissions BY DEF AdmissionInv, TypeOK
<1>3. \A s, t \in Answered(k) : handler[s].answer = handler[t].answer
  BY <1>1 DEF EntryTells, Carriers, Answered, At
<1>4. \A s \in Placements(k), t \in Submissions : KeyOf[t] = k /\ t # s => t \notin placed
  BY <1>1, <1>2 DEF EntryTells, Carriers, Placements
<1> QED BY <1>3, <1>4 DEF OneAnswer

\* Whatever the after-market orders carry, within one life of the process the keys that none of
\* them carries get one answer each and at most one placement.
THEOREM PlainKeysAreAnsweredOnce == Spec => [](~restarted => \A k \in Keys : IsPlain(k) => OneAnswer(k))
<1>1. AdmissionInv => (~restarted => \A k \in Keys : IsPlain(k) => OneAnswer(k)) BY PlainKeysHaveOneAnswer
<1> QED BY <1>1, AdmissionInvariance, PTL

\* When after-market orders carry no key, which is what the code leaves out of the idempotency
\* of submissions ("a known, accepted gap", main.go:748), no key gets two answers or placements.
THEOREM AnsweredOnce == ASSUME \A s \in IsAfterMarket : KeyOf[s] = NoKey PROVE Spec => []OneAnswerPerKey
<1>1. \A k \in Keys : IsPlain(k) BY AdmissionAssumption DEF IsPlain
<1>2. AdmissionInv => OneAnswerPerKey
  <2> SUFFICES ASSUME AdmissionInv  PROVE OneAnswerPerKey OBVIOUS
  <2>1. ~restarted => \A k \in Keys : OneAnswer(k) BY <1>1, PlainKeysHaveOneAnswer
  <2> QED BY <2>1 DEF OneAnswerPerKey, OneAnswer
<1> QED BY <1>2, AdmissionInvariance, PTL

\* A step leaves the placements of a plain key with an answer in the table, which was looked up
\* whenever it was claimed.
LEMMA PersistedKeyIsNotPlaced ==
  ASSUME AdmissionInv, [Next]_vars, NEW k \in Keys, IsPlain(k),
         persisted[k] # NoAnswer, k \notin blind
  PROVE  Placements(k)' = Placements(k)
<1>1. \A s \in Carriers(k) : ~HandOff(s) BY DEF AdmissionInv, KeysAreSound, KeyInv, OneOwner, HandOff, At
<1>2. ASSUME NEW s \in Submissions, HandOff(s)  PROVE Placements(k)' = Placements(k)
  BY <1>1, <1>2 DEF Carriers, HandOff, Placements
<1>3. CASE UNCHANGED placed BY <1>3 DEF Placements
<1>4. ASSUME NEW s \in Submissions, HandlerStep(s), ~HandOff(s)  PROVE UNCHANGED placed
  BY <1>4 DEF HandlerStep, Arrive, Enqueue, ClaimKey, LookUp, LookUpFails, Await, Gate,
              RecordHandOff, Complete, Persist, others
<1>5. CASE UNCHANGED vars BY <1>3, <1>5 DEF vars, others
<1>6. CASE Next
  BY <1>2, <1>3, <1>4, <1>6 DEF Next, Opening, Probing, Panic, OpenMarket, CloseMarket, DrainAll,
              ProcessDrained, ProbeEngine, RecordProbe, ToggleManually, EngineChanges, Restart, others
<1> QED BY <1>5, <1>6

\* With the same reservation for after-market orders, an answer in the table keeps the retries
\* of its key away from the engine, over any number of restarts.
THEOREM NotPlacedAgain ==
  ASSUME \A s \in IsAfterMarket : KeyOf[s] = NoKey PROVE Spec => PersistedKeysAreNotPlacedAgain
<1>1. \A k \in Keys : IsPlain(k) BY AdmissionAssumption DEF IsPlain
<1>2. AdmissionInv /\ [Next]_vars =>
          [\A k \in Keys : persisted[k] # NoAnswer /\ k \notin blind =>
               Placements(k)' = Placements(k)]_vars BY <1>1, PersistedKeyIsNotPlaced
<1> QED BY <1>2, AdmissionInvariance, PTL DEF Spec, PersistedKeysAreNotPlacedAgain

\* An order is in one place of the two lists exactly when it is queued or being processed.
LEMMA HeldOnce ==
  ASSUME AdmissionInv, NEW s \in IsAfterMarket
  PROVE  /\ At(s, "queued") => Occurrences(s) = 1
         /\ Occurrences(s) > 0 => At(s, "queued") \/ (IsDrained(s) /\ handler[s].at \in Running)
<1>1. QueuesHoldTheQueued /\ s \in Submissions BY HandlerTypes DEF AdmissionInv
<1>2. PICK q \in Seq(IsAfterMarket) : q = amoQueue BY HandlerTypes
<1>3. PICK d \in Seq(IsAfterMarket) : d = opening.drained BY HandlerTypes
<1>4. PICK held : held = q \o d OBVIOUS
<1>5. /\ Len(q) \in Nat /\ Len(d) \in Nat /\ Len(held) = Len(q) + Len(d)
      /\ \A i \in 1 .. Len(held) : held[i] = IF i <= Len(q) THEN q[i] ELSE d[i - Len(q)]
  BY <1>4, ConcatProperties, LenProperties
<1> DEFINE places == {i \in 1 .. Len(held) : held[i] = s}
<1>6. Occurrences(s) = Cardinality(places) BY <1>2, <1>3, <1>4 DEF Occurrences
<1> HIDE DEF places
<1>7. \A i \in 1 .. Len(held) :
          \/ i \in 1 .. Len(q) /\ held[i] = q[i]
          \/ i \notin 1 .. Len(q) /\ i - Len(q) \in 1 .. Len(d) /\ held[i] = d[i - Len(q)] BY <1>5
<1>8. \A i, j \in places : i = j
  <2> SUFFICES ASSUME NEW i \in places, NEW j \in places  PROVE i = j OBVIOUS
  <2>1. i \in 1 .. Len(held) /\ j \in 1 .. Len(held) /\ held[i] = s /\ held[j] = s BY DEF places
  <2>2. CASE i \in 1 .. Len(q) /\ j \in 1 .. Len(q) BY <1>1, <1>2, <1>7, <2>1, <2>2 DEF QueuesHoldTheQueued
  <2>3. CASE i \notin 1 .. Len(q) /\ j \notin 1 .. Len(q)
    <3>1. i - Len(q) \in 1 .. Len(d) /\ j - Len(q) \in 1 .. Len(d) /\ d[i - Len(q)] = d[j - Len(q)]
      BY <1>7, <2>1, <2>3
    <3>2. \A m, n \in 1 .. Len(d) : d[m] = d[n] => m = n BY <1>1, <1>3 DEF QueuesHoldTheQueued
    <3>3. i - Len(q) = j - Len(q) BY <3>1, <3>2
    <3> QED BY <1>5, <2>1, <3>3
  <2>4. CASE i \in 1 .. Len(q) /\ j \notin 1 .. Len(q)
    BY <1>1, <1>2, <1>3, <1>7, <2>1, <2>4 DEF QueuesHoldTheQueued
  <2>5. CASE i \notin 1 .. Len(q) /\ j \in 1 .. Len(q)
    BY <1>1, <1>2, <1>3, <1>7, <2>1, <2>5 DEF QueuesHoldTheQueued
  <2> QED BY <2>2, <2>3, <2>4, <2>5
<1>9. ASSUME At(s, "queued")  PROVE Occurrences(s) = 1
  <2>1. PICK i \in 1 .. Len(held) : held[i] = s
    <3>1. \/ \E i \in 1 .. Len(q) : q[i] = s
          \/ \E i \in 1 .. Len(d) : d[i] = s BY <1>1, <1>2, <1>3, <1>9 DEF QueuesHoldTheQueued, At
    <3>2. ASSUME NEW i \in 1 .. Len(q), q[i] = s  PROVE i \in 1 .. Len(held) /\ held[i] = s BY <1>5, <3>2
    <3>3. ASSUME NEW i \in 1 .. Len(d), d[i] = s PROVE i + Len(q) \in 1 .. Len(held) /\ held[i + Len(q)] = s
      BY <1>5, <3>3
    <3> QED BY <3>1, <3>2, <3>3
  <2>2. places = {i} BY <1>8, <2>1 DEF places
  <2> QED BY <1>6, <2>2, FS_Singleton
<1>10. ASSUME Occurrences(s) > 0 PROVE At(s, "queued") \/ (IsDrained(s) /\ handler[s].at \in Running)
  <2>1. places # {}
    <3>1. Cardinality({}) = 0 BY FS_EmptySet
    <3>2. Cardinality(places) # 0 BY <1>6, <1>10
    <3> QED BY <3>1, <3>2
  <2>2. PICK i \in places : TRUE BY <2>1
  <2>3. \/ \E j \in 1 .. Len(amoQueue) : amoQueue[j] = s
        \/ \E j \in 1 .. Len(opening.drained) : opening.drained[j] = s BY <1>2, <1>3, <1>7, <2>2 DEF places
  <2> QED BY <1>1, <2>3, NotHeld DEF At
<1> QED BY <1>9, <1>10

\* Every queued order is held once, and what an open market finds in the queue came late.
THEOREM QueuedOrdersHeldOnce == Spec => []QueuedOrdersAreHeldOnce
<1>1. AdmissionInv => QueuedOrdersAreHeldOnce
  <2> SUFFICES ASSUME AdmissionInv  PROVE QueuedOrdersAreHeldOnce OBVIOUS
  <2>1. isMarketOpen /\ opening.at = "idle" => ToSet(amoQueue) \subseteq late
    BY HandlerTypes, LenProperties DEF AdmissionInv, StragglersAreLate, ToSet
  <2> QED BY <2>1, HeldOnce DEF QueuedOrdersAreHeldOnce
<1> QED BY <1>1, AdmissionInvariance, PTL

--------------------
(***************************************************************************)
(* Theorems about the order book, for every set of prices, every menu of   *)
(* requests and every number of submissions.                               *)
(*                                                                         *)
(* The book never crosses because an order comes to rest only when no      *)
(* opposite price trades with it, and every other step only takes orders   *)
(* out of queues.  A queue stays in arrival order because an order joins   *)
(* it at the end with the next arrival number (which is why the inductive  *)
(* invariant also bounds the arrival numbers on the book), and the steps   *)
(* that take orders out keep the places of the others.                     *)
(*                                                                         *)
(* That orders are conserved, that fills keep price-time priority and      *)
(* that limits are respected rest on one fact: an id is in one place at    *)
(* most, a queue, the pool or the hands of the thread, and there for       *)
(* exactly what it has left (OrdersInv).  So the sums of OpenQuantity have *)
(* one term at most, and a fill can only be of the front of the best queue *)
(* and of the incoming order.                                              *)
(***************************************************************************)

InOrder(queue) ==
  \A i, j \in 1 .. Len(queue) : i < j => queue[i].arrival < queue[j].arrival

ArrivedBefore(queue, n) == \A i \in 1 .. Len(queue) : queue[i].arrival < n

QueuesInv ==
  \A side \in Sides, p \in Prices :
      InOrder(resting[side][p]) /\ ArrivedBefore(resting[side][p], arrivals)

IInv == BookTypeOK /\ BookNeverCrossed /\ QueuesInv

\* What a step that takes from a queue makes of it.
TakenFrom(new, old) ==
  /\ new \in Seq(Resting)
  /\ old = <<>> => new = <<>>
  /\ InOrder(old) => InOrder(new)
  /\ \A n \in Nat : ArrivedBefore(old, n) => ArrivedBefore(new, n)

--------------------
\* A set of natural numbers that is not empty has a least element.
LEMMA LeastNatural == ASSUME NEW S, S \subseteq Nat, S # {} PROVE \E x \in S : \A y \in S : x <= y
<1> DEFINE R == OpToRel(<, Nat)
<1>1. \A x, y \in S : y < x => <<y, x>> \in R BY DEF OpToRel
<1>2. IsWellFoundedOn(R, Nat) BY NatLessThanWellFounded
<1> HIDE DEF R
<1>3. PICK x \in S : \A y \in S : ~(<<y, x>> \in R) BY <1>2, WFMin
<1>4. \A y \in S : ~(y < x) BY <1>1, <1>3
<1> QED BY <1>4

\* A side that has orders has a best price, no worse than any of its prices.
LEMMA BestPriceExists ==
  ASSUME NEW side \in Sides, NEW q \in PricesWithOrders(side)
  PROVE  \E p \in Prices : /\ IsBest(side, p)
                           /\ IF side = "Buy" THEN q <= p ELSE q >= p
<1> DEFINE S == PricesWithOrders(side)
<1>1. S \subseteq Prices /\ q \in S BY DEF PricesWithOrders
<1>2. \A p \in S : p \in Int /\ LowestPrice <= p /\ p <= HighestPrice BY <1>1, PricesAssumption DEF Prices
<1> HIDE DEF S
<1>3. CASE side = "Sell"
  <2> DEFINE T == {p - LowestPrice : p \in S}
  <2>1. T \subseteq Nat /\ T # {} BY <1>1, <1>2, PricesAssumption
  <2>2. PICK x \in T : \A y \in T : x <= y BY <2>1, LeastNatural
  <2>3. PICK p \in S : x = p - LowestPrice BY <2>2
  <2>4. \A r \in S : r - LowestPrice \in T OBVIOUS
  <2> HIDE DEF T
  <2>5. ASSUME NEW r \in S PROVE r >= p BY <2>2, <2>3, <2>4, <1>2, PricesAssumption
  <2>6. IsBest(side, p) BY <1>3, <2>5 DEF IsBest, S
  <2> QED BY <1>1, <1>3, <2>5, <2>6
<1>4. CASE side = "Buy"
  <2> DEFINE T == {HighestPrice - p : p \in S}
  <2>1. T \subseteq Nat /\ T # {} BY <1>1, <1>2, PricesAssumption
  <2>2. PICK x \in T : \A y \in T : x <= y BY <2>1, LeastNatural
  <2>3. PICK p \in S : x = HighestPrice - p BY <2>2
  <2>4. \A r \in S : HighestPrice - r \in T OBVIOUS
  <2> HIDE DEF T
  <2>5. ASSUME NEW r \in S PROVE r <= p BY <2>2, <2>3, <2>4, <1>2, PricesAssumption
  <2>6. IsBest(side, p) BY <1>4, <2>5 DEF IsBest, S
  <2> QED BY <1>1, <1>4, <2>5, <2>6
<1> QED BY <1>3, <1>4 DEF Sides

--------------------
\* Removing one element keeps the others, in their order.
LEMMA RemoveAtProperties ==
  ASSUME NEW S, NEW seq \in Seq(S), NEW k \in 1 .. Len(seq)
  PROVE  /\ RemoveAt(seq, k) \in Seq(S)
         /\ Len(RemoveAt(seq, k)) = Len(seq) - 1
         /\ \A i \in 1 .. Len(seq) - 1 :
               RemoveAt(seq, k)[i] = seq[IF i < k THEN i ELSE i + 1]
<1> DEFINE front == SubSeq(seq, 1, k - 1)
           back  == SubSeq(seq, k + 1, Len(seq))
<1>1. front \in Seq(S) /\ Len(front) = k - 1 /\ \A i \in 1 .. k - 1 : front[i] = seq[i] BY SubSeqProperties
<1>2. /\ back \in Seq(S) /\ Len(back) = Len(seq) - k
      /\ \A i \in 1 .. Len(seq) - k : back[i] = seq[k + i] BY SubSeqProperties
<1>3. RemoveAt(seq, k) = front \o back BY DEF RemoveAt
<1> HIDE DEF front, back
<1>4. front \o back \in Seq(S) /\ Len(front \o back) = Len(seq) - 1
  BY <1>1, <1>2, ConcatProperties, LenProperties
<1>5. ASSUME NEW i \in 1 .. Len(seq) - 1 PROVE (front \o back)[i] = seq[IF i < k THEN i ELSE i + 1]
  <2>1. CASE i < k BY <1>1, <1>2, <2>1, ConcatProperties
  <2>2. CASE ~(i < k)
    <3>1. i - (k - 1) \in 1 .. Len(back) BY <1>2, <2>2
    <3>2. (front \o back)[i] = back[i - (k - 1)] BY <1>1, <1>2, <2>2, <3>1, ConcatProperties
    <3>3. k + (i - (k - 1)) = i + 1 OBVIOUS
    <3> QED BY <1>2, <2>2, <3>1, <3>2, <3>3
  <2> QED BY <2>1, <2>2
<1> QED BY <1>3, <1>4, <1>5

\* The oldest order leaves the queue,
LEMMA TailIsTaken == ASSUME NEW queue \in Seq(Resting), queue # <<>> PROVE TakenFrom(Tail(queue), queue)
<1>1. /\ Tail(queue) \in Seq(Resting) /\ Len(Tail(queue)) = Len(queue) - 1
      /\ \A i \in 1 .. Len(queue) - 1 : Tail(queue)[i] = queue[i + 1] BY HeadTailProperties
<1> QED BY <1>1 DEF TakenFrom, InOrder, ArrivedBefore

\* or is filled in part,
LEMMA PartialFillIsTaken ==
  ASSUME NEW queue \in Seq(Resting), queue # <<>>, NEW left \in Nat \ {0}
  PROVE  TakenFrom([queue EXCEPT ![1].quantity = left], queue)
<1> DEFINE new == [queue EXCEPT ![1].quantity = left]
<1>1. 1 \in 1 .. Len(queue) /\ queue[1] \in Resting OBVIOUS
<1>2. /\ [queue[1] EXCEPT !.quantity = left] \in Resting
      /\ [queue[1] EXCEPT !.quantity = left].arrival = queue[1].arrival BY <1>1 DEF Resting
<1>3. /\ new \in Seq(Resting) /\ Len(new) = Len(queue)
      /\ \A i \in 1 .. Len(queue) : new[i].arrival = queue[i].arrival BY <1>1, <1>2
<1> HIDE DEF new
<1>4. TakenFrom(new, queue) BY <1>1, <1>3 DEF TakenFrom, InOrder, ArrivedBefore
<1> QED BY <1>4 DEF new

\* or an order anywhere in the queue is cancelled.
LEMMA CancelIsTaken ==
  ASSUME NEW queue \in Seq(Resting), NEW k \in 1 .. Len(queue) PROVE TakenFrom(RemoveAt(queue, k), queue)
<1> DEFINE new == RemoveAt(queue, k)
           from(i) == IF i < k THEN i ELSE i + 1
<1>1. /\ new \in Seq(Resting) /\ Len(new) = Len(queue) - 1
      /\ \A i \in 1 .. Len(new) : from(i) \in 1 .. Len(queue) /\ new[i] = queue[from(i)] BY RemoveAtProperties
<1>2. \A i, j \in 1 .. Len(new) : i < j => from(i) < from(j) BY <1>1
<1>3. queue # <<>> OBVIOUS
<1> HIDE DEF new, from
<1>4. TakenFrom(new, queue) BY <1>1, <1>2, <1>3 DEF TakenFrom, InOrder, ArrivedBefore
<1> QED BY <1>4 DEF new

\* The arrivals of a queue are numbers.
LEMMA ArrivalsAreNumbers ==
  ASSUME NEW queue \in Seq(Resting) PROVE \A i \in 1 .. Len(queue) : queue[i].arrival \in Nat
<1>1. \A i \in 1 .. Len(queue) : queue[i] \in Resting BY ElementOfSeq
<1> QED BY <1>1 DEF Resting

--------------------
\* What becomes of the queues when one of them is replaced.
LEMMA ReplacedQueue ==
  ASSUME resting \in [Sides -> [Prices -> Seq(Resting)]],
         NEW side \in Sides, NEW p \in Prices, NEW new \in Seq(Resting),
         resting' = [resting EXCEPT ![side][p] = new]
  PROVE  /\ resting' \in [Sides -> [Prices -> Seq(Resting)]]
         /\ \A s \in Sides, q \in Prices :
               resting'[s][q] = IF s = side /\ q = p THEN new ELSE resting[s][q] OBVIOUS

\* A step that only takes orders out of one queue keeps the book uncrossed and
\* the queues in order.
LEMMA TakingKeepsTheBook ==
  ASSUME IInv, NEW side \in Sides, NEW p \in Prices, NEW new,
         TakenFrom(new, resting[side][p]),
         resting' = [resting EXCEPT ![side][p] = new],
         arrivals' = arrivals
  PROVE  resting' \in [Sides -> [Prices -> Seq(Resting)]] /\ BookNeverCrossed' /\ QueuesInv'
<1>1. new \in Seq(Resting) BY DEF TakenFrom
<1>2. /\ resting' \in [Sides -> [Prices -> Seq(Resting)]]
      /\ \A s \in Sides, q \in Prices :
            resting'[s][q] = IF s = side /\ q = p THEN new ELSE resting[s][q]
  BY <1>1, ReplacedQueue DEF IInv, BookTypeOK
<1>3. \A s \in Sides : PricesWithOrders(s)' \subseteq PricesWithOrders(s)
  BY <1>2 DEF PricesWithOrders, TakenFrom
<1>4. BookNeverCrossed' BY <1>3 DEF IInv, BookNeverCrossed, Sides
<1>5. QueuesInv' BY <1>2 DEF IInv, BookTypeOK, QueuesInv, TakenFrom
<1> QED BY <1>2, <1>4, <1>5

\* Counting one id's quantity up keeps a sequence of quantities.
LEMMA CountUp ==
  ASSUME NEW counts \in Seq(Nat), NEW id \in Nat, NEW n \in Nat
  PROVE  [counts EXCEPT ![id] = @ + n] \in Seq(Nat)
<1>1. CASE id \in 1 .. Len(counts) BY <1>1, ExceptSeq
<1>2. CASE id \notin 1 .. Len(counts)
  <2>1. [counts EXCEPT ![id] = @ + n] = counts BY <1>2
  <2> QED BY <2>1
<1> QED BY <1>1, <1>2

\* The order that stands for none is an order.
LEMMA NoOrderIsAnOrder == NoOrder \in Orders BY MenuAssumption DEF NoOrder, Orders

\* An empty book is not crossed and has its queues in order.
LEMMA InitEstablishesIInv == BookInit => IInv
<1> SUFFICES ASSUME BookInit PROVE IInv OBVIOUS
<1>1. BookTypeOK BY NoOrderIsAnOrder DEF BookInit, BookTypeOK
<1>2. \A side \in Sides, p \in Prices : resting[side][p] = <<>> BY DEF BookInit
<1>3. BookNeverCrossed BY <1>2 DEF BookNeverCrossed, PricesWithOrders, Sides
<1>4. QueuesInv BY <1>2 DEF QueuesInv, InOrder, ArrivedBefore
<1> QED BY <1>1, <1>3, <1>4 DEF IInv

\* The invariant does not depend on what the thread is doing.
LEMMA SubmitLivePreservesIInv == ASSUME IInv, NEW request \in Menu, SubmitLive(request) PROVE IInv'
<1>1. request \in Requests /\ Order(nextId, request) \in Orders
  BY MenuAssumption DEF IInv, BookTypeOK, Orders, Order, Requests
<1>2. BookTypeOK' BY <1>1 DEF IInv, BookTypeOK, SubmitLive, TakeId
<1>3. BookNeverCrossed' /\ QueuesInv' BY DEF IInv, SubmitLive, BookNeverCrossed, PricesWithOrders, QueuesInv
<1> QED BY <1>2, <1>3 DEF IInv

\* A stop that is armed touches no queue.
LEMMA SubmitStopPreservesIInv == ASSUME IInv, NEW request \in Menu, SubmitStop(request) PROVE IInv'
<1>1. request \in Requests /\ Order(nextId, request) \in Orders
  BY MenuAssumption DEF IInv, BookTypeOK, Orders, Order, Requests
<1>2. BookTypeOK' BY <1>1 DEF IInv, BookTypeOK, SubmitStop, TakeId
<1>3. BookNeverCrossed' /\ QueuesInv' BY DEF IInv, SubmitStop, BookNeverCrossed, PricesWithOrders, QueuesInv
<1> QED BY <1>2, <1>3 DEF IInv

\* A fill takes from the queue at p, whole order or part of it.
LEMMA FillPreservesIInv ==
  ASSUME IInv, NEW side \in Sides, NEW p \in Prices, resting[side][p] # <<>>, Fill(side, p) PROVE IInv'
<1> DEFINE queue    == resting[side][p]
           oldest   == Head(queue)
           executed == IF incoming.quantity < oldest.quantity
                       THEN incoming.quantity ELSE oldest.quantity
           left     == oldest.quantity - executed
           new      == IF left = 0 THEN Tail(queue) ELSE [queue EXCEPT ![1].quantity = left]
<1>1. queue \in Seq(Resting) /\ queue # <<>> BY DEF IInv, BookTypeOK
<1>2. oldest \in Resting /\ oldest.id \in Nat /\ oldest.quantity \in Nat \ {0}
  <2>1. oldest \in Resting BY <1>1, HeadTailProperties
  <2> QED BY <2>1 DEF Resting
<1>3. incoming \in Orders /\ incoming.id \in Nat /\ incoming.quantity \in Nat BY DEF IInv, BookTypeOK, Orders
<1>4. executed \in Nat /\ left \in Nat /\ incoming.quantity - executed \in Nat BY <1>2, <1>3
<1>5. /\ resting' = [resting EXCEPT ![side][p] = new]
      /\ incoming' = [incoming EXCEPT !.quantity = @ - executed]
      /\ filled' = [id \in DOMAIN filled |->
            filled[id] + IF id \in {oldest.id, incoming.id} THEN executed ELSE 0]
      /\ latestFill' = p
      /\ UNCHANGED <<pendingStops, lastTradedPrice, nextId, pc, requests, withdrawn, arrivals>>
  BY <1>1 DEF Fill, IInv, BookTypeOK
<1>6. TakenFrom(new, queue)
  <2>1. CASE left = 0 BY <1>1, <2>1, TailIsTaken
  <2>2. CASE left # 0 BY <1>1, <1>4, <2>2, PartialFillIsTaken
  <2> QED BY <2>1, <2>2
<1>7. filled' \in Seq(Nat)
  <2> HIDE DEF executed, oldest
  <2>1. filled \in [1 .. Len(filled) -> Nat] /\ Len(filled) \in Nat BY DEF IInv, BookTypeOK
  <2>2. filled' \in [1 .. Len(filled) -> Nat] BY <1>4, <1>5, <2>1
  <2> QED BY <2>1, <2>2
<1>8. incoming' \in Orders BY <1>3, <1>4, <1>5 DEF Orders
<1> HIDE DEF new, queue
<1>9. resting' \in [Sides -> [Prices -> Seq(Resting)]] /\ BookNeverCrossed' /\ QueuesInv'
  BY <1>5, <1>6, TakingKeepsTheBook DEF queue
<1> QED BY <1>5, <1>7, <1>8, <1>9 DEF IInv, BookTypeOK

\* A remainder comes to rest only when nothing opposite trades with it, and at
\* the end of its queue.
LEMMA RestPreservesIInv == ASSUME IInv, RestRemainder PROVE IInv'
<1>0. PICK side \in Sides, limit \in Prices :
         side = incoming.request.side /\ limit = incoming.request.limit
  BY DEF IInv, BookTypeOK, Orders, Requests
<1> DEFINE queue == resting[side][limit]
           order == [id |-> incoming.id, quantity |-> incoming.quantity, arrival |-> arrivals]
           new   == Append(queue, order)
<1>1. incoming.request.type = "Limit" BY DEF RestRemainder
<1>2. order \in Resting /\ queue \in Seq(Resting) /\ arrivals \in Nat
  BY DEF RestRemainder, IInv, BookTypeOK, Orders, Resting
<1>3. /\ new \in Seq(Resting) /\ Len(new) = Len(queue) + 1
      /\ new[Len(queue) + 1] = order
      /\ \A i \in 1 .. Len(queue) : new[i] = queue[i]
  <2> HIDE DEF queue, order
  <2> QED BY <1>2, AppendProperties
<1>4. resting' = [resting EXCEPT ![side][limit] = new] /\ arrivals' = arrivals + 1 BY <1>0 DEF RestRemainder
<1>5. order.arrival = arrivals OBVIOUS
<1> HIDE DEF new, queue, order
<1>6. /\ resting' \in [Sides -> [Prices -> Seq(Resting)]]
      /\ \A s \in Sides, q \in Prices :
            resting'[s][q] = IF s = side /\ q = limit THEN new ELSE resting[s][q]
  BY <1>3, <1>4, ReplacedQueue DEF IInv, BookTypeOK
<1>7. BookTypeOK' BY <1>2, <1>6, NoOrderIsAnOrder DEF RestRemainder, MatchingEnds, IInv, BookTypeOK
<1>8. QueuesInv'
  <2>1. InOrder(queue) /\ ArrivedBefore(queue, arrivals) BY DEF queue, IInv, QueuesInv
  <2>2. InOrder(new) /\ ArrivedBefore(new, arrivals + 1)
    <3>1. \A i \in 1 .. Len(queue) : queue[i].arrival \in Nat BY <1>2, ArrivalsAreNumbers
    <3> QED BY <1>2, <1>3, <1>5, <2>1, <3>1 DEF InOrder, ArrivedBefore
  <2>3. ASSUME NEW s \in Sides, NEW q \in Prices, ArrivedBefore(resting[s][q], arrivals)
        PROVE  ArrivedBefore(resting[s][q], arrivals + 1)
    <3>1. resting[s][q] \in Seq(Resting) BY DEF IInv, BookTypeOK
    <3>2. \A i \in 1 .. Len(resting[s][q]) : resting[s][q][i].arrival \in Nat BY <3>1, ArrivalsAreNumbers
    <3> QED BY <1>2, <2>3, <3>2 DEF ArrivedBefore
  <2> QED BY <1>4, <1>6, <2>2, <2>3 DEF QueuesInv, IInv
<1>9. BookNeverCrossed'
  <2>1. \A q \in PricesWithOrders(Opposite(side)) : ~Crosses(incoming, q)
    <3> SUFFICES ASSUME NEW q \in PricesWithOrders(Opposite(side)), Crosses(incoming, q) PROVE FALSE OBVIOUS
    <3>1. Opposite(side) \in Sides BY DEF Opposite, Sides
    <3>2. PICK p \in Prices : /\ IsBest(Opposite(side), p)
                              /\ IF Opposite(side) = "Buy" THEN q <= p ELSE q >= p BY <3>1, BestPriceExists
    <3>3. q \in Int /\ p \in Int /\ limit \in Int BY PricesAssumption DEF PricesWithOrders, Prices
    <3>4. Crosses(incoming, p) BY <1>0, <1>1, <3>2, <3>3 DEF Crosses, Opposite, Sides
    <3> QED BY <1>0, <3>2, <3>4 DEF RestRemainder, MatchingEnds, CanFill
  <2>2. \A q \in PricesWithOrders(Opposite(side)) :
           IF side = "Buy" THEN limit < q ELSE q < limit
    BY <1>0, <1>1, <2>1, PricesAssumption DEF Crosses, PricesWithOrders, Prices
  <2>3. PricesWithOrders(Opposite(side))' = PricesWithOrders(Opposite(side))
    BY <1>6 DEF PricesWithOrders, Opposite, Sides
  <2>4. PricesWithOrders(side)' \subseteq PricesWithOrders(side) \cup {limit}
    BY <1>6 DEF PricesWithOrders, Sides
  <2>5. CASE side = "Buy" BY <2>2, <2>3, <2>4, <2>5 DEF BookNeverCrossed, IInv, Opposite
  <2>6. CASE side = "Sell" BY <2>2, <2>3, <2>4, <2>6 DEF BookNeverCrossed, IInv, Opposite
  <2> QED BY <2>5, <2>6 DEF Sides
<1> QED BY <1>7, <1>8, <1>9 DEF IInv

\* What is dropped is counted.
LEMMA DropPreservesIInv == ASSUME IInv, DropRemainder PROVE IInv'
<1>1. withdrawn' \in Seq(Nat) BY CountUp DEF IInv, BookTypeOK, Orders, DropRemainder
<1>2. BookTypeOK' BY <1>1, NoOrderIsAnOrder DEF DropRemainder, MatchingEnds, IInv, BookTypeOK
<1>3. BookNeverCrossed' /\ QueuesInv'
  BY DEF DropRemainder, IInv, BookNeverCrossed, PricesWithOrders, QueuesInv
<1> QED BY <1>2, <1>3 DEF IInv

\* A triggered order goes from the pool to the thread; the book waits.
LEMMA TriggerPreservesIInv == ASSUME IInv, TriggerFirstEligibleStop PROVE IInv'
<1>1. PICK i \in 1 .. Len(pendingStops) :
         /\ pendingStops' = RemoveAt(pendingStops, i)
         /\ incoming' = [pendingStops[i] EXCEPT !.request.type = LiveType(@)] BY DEF TriggerFirstEligibleStop
<1>2. pendingStops' \in Seq(Orders) BY <1>1, RemoveAtProperties DEF IInv, BookTypeOK
<1>3. incoming' \in Orders
  <2>1. pendingStops[i] \in Orders BY ElementOfSeq DEF IInv, BookTypeOK
  <2>2. \A t : LiveType(t) \in Types BY DEF LiveType, Types
  <2> QED BY <1>1, <2>1, <2>2 DEF Orders, Requests
<1>4. BookTypeOK' BY <1>2, <1>3 DEF TriggerFirstEligibleStop, IInv, BookTypeOK, ghosts
<1>5. BookNeverCrossed' /\ QueuesInv'
  BY DEF TriggerFirstEligibleStop, IInv, BookNeverCrossed, PricesWithOrders, QueuesInv, ghosts
<1> QED BY <1>4, <1>5 DEF IInv

\* The end of a call, or of the thread, leaves the book alone.
LEMMA EndPreservesIInv == ASSUME IInv, CallReturns \/ TriggerTestPanics \/ UNCHANGED bookVars PROVE IInv'
<1>1. BookTypeOK' BY DEF CallReturns, TriggerTestPanics, IInv, BookTypeOK, book, thread, ghosts, bookVars
<1>2. BookNeverCrossed' /\ QueuesInv'
  BY DEF CallReturns, TriggerTestPanics, IInv, BookNeverCrossed, PricesWithOrders, QueuesInv,
         book, ghosts, bookVars
<1> QED BY <1>1, <1>2 DEF IInv

\* A cancel takes from one queue,
LEMMA CancelRestingPreservesIInv == ASSUME IInv, NEW id \in 1 .. MaxSubmissions, CancelResting(id) PROVE IInv'
<1>1. PICK side \in Sides, p \in Prices : \E i \in 1 .. Len(resting[side][p]) :
         /\ resting' = [resting EXCEPT ![side][p] = RemoveAt(@, i)]
         /\ withdrawn' = [withdrawn EXCEPT ![id] = @ + resting[side][p][i].quantity] BY DEF CancelResting
<1> DEFINE queue == resting[side][p]
<1>2. queue \in Seq(Resting) BY DEF IInv, BookTypeOK
<1>3. PICK i \in 1 .. Len(queue) :
         /\ resting' = [resting EXCEPT ![side][p] = RemoveAt(queue, i)]
         /\ withdrawn' = [withdrawn EXCEPT ![id] = @ + queue[i].quantity] BY <1>1 DEF IInv, BookTypeOK
<1>4. resting' \in [Sides -> [Prices -> Seq(Resting)]] /\ BookNeverCrossed' /\ QueuesInv'
  BY <1>2, <1>3, CancelIsTaken, TakingKeepsTheBook DEF CancelResting
<1>5. withdrawn' \in Seq(Nat)
  <2>1. queue[i] \in Resting BY <1>2, ElementOfSeq
  <2>2. queue[i].quantity \in Nat BY <2>1 DEF Resting
  <2>3. id \in Nat /\ withdrawn \in Seq(Nat) BY BoundAssumption DEF IInv, BookTypeOK
  <2> QED BY <1>3, <2>2, <2>3, CountUp
<1> QED BY <1>4, <1>5 DEF CancelResting, IInv, BookTypeOK, thread

\* or from the pool.
LEMMA CancelPendingPreservesIInv == ASSUME IInv, NEW id \in 1 .. MaxSubmissions, CancelPending(id) PROVE IInv'
<1>1. PICK i \in 1 .. Len(pendingStops) :
         /\ pendingStops' = RemoveAt(pendingStops, i)
         /\ withdrawn' = [withdrawn EXCEPT ![id] = @ + pendingStops[i].quantity] BY DEF CancelPending
<1>2. pendingStops' \in Seq(Orders) BY <1>1, RemoveAtProperties DEF IInv, BookTypeOK
<1>3. withdrawn' \in Seq(Nat) BY ElementOfSeq, BoundAssumption, <1>1, CountUp DEF IInv, BookTypeOK, Orders
<1>4. BookNeverCrossed' /\ QueuesInv'
  BY DEF CancelPending, IInv, BookNeverCrossed, PricesWithOrders, QueuesInv
<1> QED BY <1>2, <1>3, <1>4 DEF CancelPending, IInv, BookTypeOK, thread

\* Every step of a call, and every call, keeps the invariant of the book.
LEMMA NextPreservesIInv == IInv /\ [BookNext]_bookVars => IInv'
<1> SUFFICES ASSUME IInv, [BookNext]_bookVars PROVE IInv' OBVIOUS
<1>1. ASSUME NEW request \in Menu, SubmitLive(request) \/ SubmitStop(request) PROVE IInv'
  BY <1>1, SubmitLivePreservesIInv, SubmitStopPreservesIInv
<1>2. ASSUME NEW id \in 1 .. MaxSubmissions, CancelResting(id) \/ CancelPending(id) PROVE IInv'
  BY <1>2, CancelRestingPreservesIInv, CancelPendingPreservesIInv
<1>3. CASE FillAgainstBestSell
  BY <1>3, FillPreservesIInv
     DEF FillAgainstBestSell, CanFill, IsBest, PricesWithOrders, Opposite, Sides
<1>4. CASE FillAgainstBestBuy
  BY <1>4, FillPreservesIInv
     DEF FillAgainstBestBuy, CanFill, IsBest, PricesWithOrders, Opposite, Sides
<1>5. CASE RestRemainder BY <1>5, RestPreservesIInv
<1>6. CASE DropRemainder BY <1>6, DropPreservesIInv
<1>7. CASE TriggerFirstEligibleStop BY <1>7, TriggerPreservesIInv
<1>8. CASE CallReturns \/ TriggerTestPanics \/ UNCHANGED bookVars BY <1>8, EndPreservesIInv
<1> QED BY <1>1, <1>2, <1>3, <1>4, <1>5, <1>6, <1>7, <1>8 DEF BookNext, Call, Step

--------------------
\* Every variable keeps to its type; no resting order is ever empty.
THEOREM TypeCorrect == BookSpec => []BookTypeOK
<1>1. IInv => BookTypeOK BY DEF IInv
<1> QED BY <1>1, InitEstablishesIInv, NextPreservesIInv, PTL DEF BookSpec

\* The book never crosses, whatever is submitted, cancelled and triggered.
THEOREM NeverCrossed == BookSpec => []BookNeverCrossed
<1>1. IInv => BookNeverCrossed BY DEF IInv
<1> QED BY <1>1, InitEstablishesIInv, NextPreservesIInv, PTL DEF BookSpec

\* Every queue stays in the order its orders came to rest.
THEOREM TimePriority == BookSpec => []QueuesAreInArrivalOrder
<1>1. IInv => QueuesAreInArrivalOrder BY DEF IInv, QueuesInv, InOrder, QueuesAreInArrivalOrder
<1> QED BY <1>1, InitEstablishesIInv, NextPreservesIInv, PTL DEF BookSpec

--------------------
(* Where each order is, and what it has left.                              *)

\* What id asked for and has neither got nor given up.
Left(id) == requests[id].quantity - filled[id] - withdrawn[id]

InQueue(id) ==
  \E side \in Sides, p \in Prices : \E i \in 1 .. Len(resting[side][p]) :
      resting[side][p][i].id = id
InPool(id) == \E i \in 1 .. Len(pendingStops) : pendingStops[i].id = id
InHand(id) == incoming.id = id

\* One id, one place in a queue or in the pool.
Apart(orders) == \A i, j \in 1 .. Len(orders) : orders[i].id = orders[j].id => i = j

\* The logs have an entry for every id given out.
LogsInv ==
  /\ nextId = Len(requests) + 1
  /\ Len(filled) = Len(requests) /\ Len(withdrawn) = Len(requests)

\* An order rests on the side and at the limit it was submitted with, for what it has left.
RestsAt(order, side, p) ==
  /\ order.id \in 1 .. Len(requests)
  /\ requests[order.id].side = side /\ requests[order.id].limit = p
  /\ Left(order.id) = order.quantity

BookInv ==
  \A side \in Sides, p \in Prices :
      /\ Apart(resting[side][p])
      /\ \A i \in 1 .. Len(resting[side][p]) : RestsAt(resting[side][p][i], side, p)

\* An armed stop is as it was submitted.
IsArmed(order) ==
  /\ order.id \in 1 .. Len(requests)
  /\ order.request = requests[order.id]
  /\ order.request.type \in {"StopLossLimit", "StopLossMarket"}
  /\ order.quantity = order.request.quantity
  /\ Left(order.id) = order.quantity

PoolInv ==
  /\ Apart(pendingStops)
  /\ \A i \in 1 .. Len(pendingStops) : IsArmed(pendingStops[i])

\* The order in the hands of the thread, if any, keeps its side and its limit.
HandInv ==
  IF pc = "matching"
  THEN /\ incoming.id \in 1 .. Len(requests)
       /\ incoming.request.side = requests[incoming.id].side
       /\ incoming.request.limit = requests[incoming.id].limit
       /\ requests[incoming.id].type \in {"Limit", "StopLossLimit"} =>
              incoming.request.type = "Limit"
       /\ Left(incoming.id) = incoming.quantity
  ELSE incoming = NoOrder

\* An order is in one place at most, and in one as long as it has something left.
PlacesInv ==
  \A id \in 1 .. Len(requests) :
      /\ ~(InQueue(id) /\ InPool(id))
      /\ ~(InQueue(id) /\ InHand(id))
      /\ ~(InPool(id) /\ InHand(id))
      /\ InQueue(id) \/ InPool(id) \/ InHand(id) \/ Left(id) = 0

OrdersInv == LogsInv /\ BookInv /\ PoolInv /\ HandInv /\ PlacesInv

\* What a step leaves of the ids it does not count for.
Untouched(ids) ==
  \A id \in (1 .. Len(requests)) \ ids :
      /\ id \in 1 .. Len(requests')
      /\ requests'[id] = requests[id] /\ Left(id)' = Left(id)

--------------------
\* An order on the book is a record with an id and something left.
LEMMA RestingOrder ==
  ASSUME IInv, NEW side \in Sides, NEW p \in Prices, NEW i \in 1 .. Len(resting[side][p])
  PROVE  /\ resting[side][p] \in Seq(Resting)
         /\ resting[side][p][i] \in Resting
         /\ resting[side][p][i].id \in Nat
         /\ resting[side][p][i].quantity \in Nat \ {0}
         /\ resting[side][p][i].arrival \in Nat
<1>1. resting[side][p] \in Seq(Resting) BY DEF IInv, BookTypeOK
<1>2. resting[side][p][i] \in Resting BY <1>1, ElementOfSeq
<1> QED BY <1>1, <1>2 DEF Resting

\* An armed stop is an order.
LEMMA ArmedOrder ==
  ASSUME IInv, NEW i \in 1 .. Len(pendingStops)
  PROVE  /\ pendingStops[i] \in Orders
         /\ pendingStops[i].id \in Nat /\ pendingStops[i].quantity \in Nat
         /\ pendingStops[i].request \in Requests
<1>1. pendingStops[i] \in Orders BY ElementOfSeq DEF IInv, BookTypeOK
<1> QED BY <1>1 DEF Orders

\* The quantities of a known id are numbers.
LEMMA CountsAreNumbers ==
  ASSUME IInv, LogsInv, NEW id \in 1 .. Len(requests)
  PROVE  /\ filled[id] \in Nat /\ withdrawn[id] \in Nat
         /\ requests[id] \in Requests /\ requests[id].quantity \in Nat
         /\ Left(id) \in Int
<1>1. filled[id] \in Nat /\ withdrawn[id] \in Nat /\ requests[id] \in Requests
  BY ElementOfSeq DEF IInv, BookTypeOK, LogsInv
<1>2. requests[id].quantity \in Nat BY <1>1 DEF Requests
<1> QED BY <1>1, <1>2 DEF Left

\* Only ids that were given out are anywhere.
LEMMA PlacedIdsAreKnown ==
  ASSUME IInv, OrdersInv, NEW id, InQueue(id) \/ InPool(id) \/ (InHand(id) /\ pc = "matching")
  PROVE  id \in 1 .. Len(requests)
  BY DEF OrdersInv, BookInv, RestsAt, PoolInv, IsArmed, HandInv, InQueue, InPool, InHand

\* An id rests at the place its request names.
LEMMA RestingPlace ==
  ASSUME OrdersInv, NEW side \in Sides, NEW p \in Prices, NEW i \in 1 .. Len(resting[side][p]),
         NEW s \in Sides, NEW q \in Prices, NEW j \in 1 .. Len(resting[s][q]),
         resting[side][p][i].id = resting[s][q][j].id
  PROVE  s = side /\ q = p /\ j = i
<1>1. RestsAt(resting[side][p][i], side, p) /\ RestsAt(resting[s][q][j], s, q) /\ Apart(resting[side][p])
  BY DEF OrdersInv, BookInv
<1>2. s = side /\ q = p BY <1>1 DEF RestsAt
<1> QED BY <1>1, <1>2 DEF Apart

--------------------
\* A queue none of whose ids a step counts for stays as it should be.
LEMMA QueueKept ==
  ASSUME OrdersInv, NEW ids, Untouched(ids), NEW side \in Sides, NEW p \in Prices,
         \A i \in 1 .. Len(resting[side][p]) : resting[side][p][i].id \notin ids,
         resting'[side][p] = resting[side][p]
  PROVE  /\ Apart(resting'[side][p])
         /\ \A i \in 1 .. Len(resting'[side][p]) : RestsAt(resting[side][p][i], side, p)'
<1>1. Apart(resting'[side][p]) BY DEF OrdersInv, BookInv, Apart
<1>2. ASSUME NEW i \in 1 .. Len(resting[side][p]) PROVE RestsAt(resting[side][p][i], side, p)'
  BY DEF OrdersInv, BookInv, RestsAt, Untouched
<1> QED BY <1>1, <1>2

\* So does the book,
LEMMA BookKept ==
  ASSUME OrdersInv, NEW ids, Untouched(ids), \A id \in ids : ~InQueue(id), resting' = resting
  PROVE  BookInv' /\ \A id : InQueue(id)' = InQueue(id)
<1>1. ASSUME NEW side \in Sides, NEW p \in Prices
      PROVE  /\ Apart(resting'[side][p])
             /\ \A i \in 1 .. Len(resting'[side][p]) : RestsAt(resting[side][p][i], side, p)'
  BY QueueKept DEF InQueue
<1>2. BookInv' BY <1>1 DEF BookInv
<1> QED BY <1>2 DEF InQueue

\* and the pool.
LEMMA PoolKept ==
  ASSUME OrdersInv, NEW ids, Untouched(ids), \A id \in ids : ~InPool(id),
         pendingStops' = pendingStops
  PROVE  PoolInv' /\ \A id : InPool(id)' = InPool(id)
<1>1. ASSUME NEW i \in 1 .. Len(pendingStops) PROVE IsArmed(pendingStops[i])'
  BY DEF OrdersInv, PoolInv, InPool, IsArmed, Untouched
<1>2. PoolInv' BY <1>1 DEF PoolInv, OrdersInv, Apart
<1> QED BY <1>2 DEF InPool

\* The pool with one order less.
LEMMA PoolShrinks ==
  ASSUME IInv, OrdersInv, NEW k \in 1 .. Len(pendingStops), Untouched({pendingStops[k].id}),
         pendingStops' = RemoveAt(pendingStops, k)
  PROVE  /\ PoolInv'
         /\ \A id : InPool(id)' <=> InPool(id) /\ id # pendingStops[k].id
<1> DEFINE from(i) == IF i < k THEN i ELSE i + 1
<1>1. /\ Len(pendingStops') = Len(pendingStops) - 1
      /\ \A i \in 1 .. Len(pendingStops') : from(i) \in 1 .. Len(pendingStops)
            /\ from(i) # k /\ pendingStops'[i] = pendingStops[from(i)]
  <2>1. pendingStops \in Seq(Orders) BY DEF IInv, BookTypeOK
  <2>2. /\ Len(pendingStops') = Len(pendingStops) - 1
        /\ \A i \in 1 .. Len(pendingStops) - 1 : pendingStops'[i] = pendingStops[from(i)]
    BY <2>1, RemoveAtProperties
  <2>3. Len(pendingStops) \in Nat BY <2>1, LenProperties
  <2> QED BY <2>2, <2>3
<1>2. \A i, j \in 1 .. Len(pendingStops') : from(i) = from(j) => i = j BY <1>1
<1>3. \A j \in 1 .. Len(pendingStops) :
         j # k => \E i \in 1 .. Len(pendingStops') : from(i) = j
  <2> SUFFICES ASSUME NEW j \in 1 .. Len(pendingStops), j # k
               PROVE  \E i \in 1 .. Len(pendingStops') : from(i) = j OBVIOUS
  <2>1. CASE j < k
    <3>1. j \in 1 .. Len(pendingStops') /\ from(j) = j BY <1>1, <2>1
    <3> QED BY <3>1
  <2>2. CASE j > k
    <3>1. j - 1 \in 1 .. Len(pendingStops') /\ from(j - 1) = j BY <1>1, <2>2
    <3> QED BY <3>1
  <2> QED BY <2>1, <2>2
<1> HIDE DEF from
<1>4. Apart(pendingStops) BY DEF OrdersInv, PoolInv
<1>5. Apart(pendingStops') BY <1>1, <1>2, <1>4 DEF Apart
<1>6. ASSUME NEW i \in 1 .. Len(pendingStops') PROVE IsArmed(pendingStops[i])'
  <2>1. IsArmed(pendingStops[from(i)]) /\ pendingStops[from(i)].id # pendingStops[k].id
    BY <1>1, <1>4 DEF OrdersInv, PoolInv, Apart
  <2>2. pendingStops'[i] = pendingStops[from(i)] BY <1>1
  <2> QED BY <2>1, <2>2 DEF IsArmed, Untouched
<1>7. PoolInv' BY <1>5, <1>6 DEF PoolInv
<1>8. ASSUME NEW id PROVE InPool(id)' <=> InPool(id) /\ id # pendingStops[k].id
  <2>1. InPool(id)' => InPool(id) /\ id # pendingStops[k].id BY <1>1, <1>4 DEF InPool, Apart
  <2>2. ASSUME InPool(id), id # pendingStops[k].id PROVE InPool(id)'
    <3>1. PICK j \in 1 .. Len(pendingStops) : pendingStops[j].id = id BY <2>2 DEF InPool
    <3>2. PICK i \in 1 .. Len(pendingStops') : from(i) = j BY <1>3, <2>2, <3>1
    <3>3. pendingStops'[i].id = id BY <1>1, <3>1, <3>2
    <3> QED BY <3>3 DEF InPool
  <2> QED BY <2>1, <2>2
<1> QED BY <1>7, <1>8

--------------------
\* The order in hand has left what it has left: nothing but a fill or a drop counts for it.
LEMMA OrdersInvInitially == BookInit => OrdersInv
<1> SUFFICES ASSUME BookInit PROVE OrdersInv OBVIOUS
<1>1. LogsInv BY DEF BookInit, LogsInv
<1>2. BookInv BY DEF BookInit, BookInv, Apart
<1>3. PoolInv /\ HandInv BY DEF BookInit, PoolInv, HandInv, Apart
<1>4. PlacesInv BY DEF BookInit, PlacesInv
<1> QED BY <1>1, <1>2, <1>3, <1>4 DEF OrdersInv

\* A new id comes with all it asked for, and disturbs no other.
LEMMA TakenId ==
  ASSUME IInv, OrdersInv, NEW request \in Requests, TakeId(request), NEW n, n = nextId
  PROVE  /\ LogsInv' /\ Untouched({})
         /\ n \in 1 .. Len(requests') /\ n \notin 1 .. Len(requests)
         /\ 1 .. Len(requests') = (1 .. Len(requests)) \union {n}
         /\ requests'[n] = request /\ Left(n)' = request.quantity
<1>1. /\ requests \in Seq(Requests) /\ filled \in Seq(Nat) /\ withdrawn \in Seq(Nat)
      /\ nextId = Len(requests) + 1 /\ Len(filled) = Len(requests)
      /\ Len(withdrawn) = Len(requests) /\ Len(requests) \in Nat BY DEF IInv, BookTypeOK, OrdersInv, LogsInv
<1>2. /\ Len(requests') = Len(requests) + 1 /\ requests'[Len(requests) + 1] = request
      /\ \A i \in 1 .. Len(requests) : requests'[i] = requests[i] BY <1>1, AppendProperties DEF TakeId
<1>3. /\ Len(filled') = Len(requests) + 1 /\ filled'[Len(requests) + 1] = 0
      /\ \A i \in 1 .. Len(requests) : filled'[i] = filled[i] BY <1>1, AppendProperties DEF TakeId
<1>4. /\ Len(withdrawn') = Len(requests) + 1 /\ withdrawn'[Len(requests) + 1] = 0
      /\ \A i \in 1 .. Len(requests) : withdrawn'[i] = withdrawn[i] BY <1>1, AppendProperties DEF TakeId
<1>5. request.quantity \in Nat BY DEF Requests
<1>6. LogsInv' BY <1>1, <1>2, <1>3, <1>4 DEF LogsInv, TakeId
<1>7. Untouched({}) BY <1>1, <1>2, <1>3, <1>4 DEF Untouched, Left
<1>8. requests'[n] = request /\ Left(n)' = request.quantity BY <1>1, <1>2, <1>3, <1>4, <1>5 DEF TakeId, Left
<1> QED BY <1>1, <1>2, <1>6, <1>7, <1>8

\* An order that enters is in hand for the whole of what it asked.
LEMMA SubmitLiveKeepsOrders ==
  ASSUME IInv, OrdersInv, NEW request \in Menu, SubmitLive(request) PROVE OrdersInv'
<1>0. PICK n : n = nextId OBVIOUS
<1>1. request \in Requests BY MenuAssumption
<1>2. /\ LogsInv' /\ Untouched({})
      /\ n \in 1 .. Len(requests') /\ n \notin 1 .. Len(requests)
      /\ 1 .. Len(requests') = (1 .. Len(requests)) \union {n}
      /\ requests'[n] = request /\ Left(n)' = request.quantity BY <1>0, <1>1, TakenId DEF SubmitLive
<1>3. BookInv' /\ \A id : InQueue(id)' = InQueue(id) BY <1>2, BookKept DEF SubmitLive
<1>4. PoolInv' /\ \A id : InPool(id)' = InPool(id) BY <1>2, PoolKept DEF SubmitLive
<1>5. /\ incoming' = [id |-> n, request |-> request, quantity |-> request.quantity]
      /\ pc' = "matching" /\ pc = "idle" /\ incoming = NoOrder
  BY <1>0 DEF SubmitLive, TakeId, Order, OrdersInv, HandInv
<1>6. HandInv' BY <1>5, <1>2 DEF Left, SubmitLive, HandInv
<1>7. PlacesInv'
  <2>1. ~InQueue(n) /\ ~InPool(n) BY <1>2, PlacedIdsAreKnown
  <2>2. \A id : InHand(id)' <=> id = n BY <1>5 DEF InHand
  <2>3. \A id \in 1 .. Len(requests) : ~InHand(id) BY <1>5 DEF InHand, NoOrder
  <2>4. ASSUME NEW id \in 1 .. Len(requests')
        PROVE  /\ ~(InQueue(id) /\ InPool(id))' /\ ~(InQueue(id) /\ InHand(id))'
               /\ ~(InPool(id) /\ InHand(id))'
               /\ (InQueue(id) \/ InPool(id) \/ InHand(id) \/ Left(id) = 0)'
    <3>1. CASE id = n BY <1>3, <1>4, <2>1, <2>2, <3>1
    <3>2. CASE id \in 1 .. Len(requests)
      BY <1>2, <1>3, <1>4, <2>2, <2>3, <3>2 DEF OrdersInv, PlacesInv, Untouched
    <3> QED BY <1>2, <3>1, <3>2
  <2> QED BY <2>4 DEF PlacesInv
<1> QED BY <1>2, <1>3, <1>4, <1>6, <1>7 DEF OrdersInv

\* A stop that is armed is in the pool for the whole of what it asked.
LEMMA SubmitStopKeepsOrders ==
  ASSUME IInv, OrdersInv, NEW request \in Menu, SubmitStop(request) PROVE OrdersInv'
<1>0. PICK n : n = nextId OBVIOUS
<1>1. request \in Requests BY MenuAssumption
<1>2. /\ LogsInv' /\ Untouched({})
      /\ n \in 1 .. Len(requests') /\ n \notin 1 .. Len(requests)
      /\ 1 .. Len(requests') = (1 .. Len(requests)) \union {n}
      /\ requests'[n] = request /\ Left(n)' = request.quantity BY <1>0, <1>1, TakenId DEF SubmitStop
<1>3. BookInv' /\ \A id : InQueue(id)' = InQueue(id) BY <1>2, BookKept DEF SubmitStop
<1>4. ~InQueue(n) /\ ~InPool(n) BY <1>2, PlacedIdsAreKnown
<1> DEFINE order == [id |-> n, request |-> request, quantity |-> request.quantity]
<1>5. /\ Len(pendingStops') = Len(pendingStops) + 1
      /\ pendingStops'[Len(pendingStops) + 1] = order
      /\ \A i \in 1 .. Len(pendingStops) : pendingStops'[i] = pendingStops[i]
      /\ Len(pendingStops) \in Nat
  <2>1. pendingStops \in Seq(Orders) /\ order \in Orders BY <1>0, <1>1 DEF IInv, BookTypeOK, Orders, Requests
  <2>2. pendingStops' = Append(pendingStops, order) BY <1>0 DEF SubmitStop, Order
  <2> HIDE DEF order
  <2> QED BY <2>1, <2>2, AppendProperties
<1>6. /\ order.id = n /\ order.request = request /\ order.quantity = request.quantity
      /\ request.type \in {"StopLossLimit", "StopLossMarket"} BY DEF SubmitStop
<1> HIDE DEF order
<1>7. \A id : InPool(id)' <=> InPool(id) \/ id = n
  <2> SUFFICES ASSUME NEW id PROVE InPool(id)' <=> InPool(id) \/ id = n OBVIOUS
  <2>1. Len(pendingStops) + 1 \in 1 .. Len(pendingStops') BY <1>5
  <2>2. \A i \in 1 .. Len(pendingStops') :
           i \in 1 .. Len(pendingStops) \/ i = Len(pendingStops) + 1 BY <1>5
  <2>3. \A i \in 1 .. Len(pendingStops) : i \in 1 .. Len(pendingStops') BY <1>5
  <2>4. InPool(id)' => InPool(id) \/ id = n BY <1>5, <1>6, <2>2 DEF InPool
  <2>5. InPool(id) => InPool(id)' BY <1>5, <2>3 DEF InPool
  <2>6. InPool(n)' BY <1>5, <1>6, <2>1 DEF InPool
  <2> QED BY <2>4, <2>5, <2>6
<1>8. PoolInv'
  <2>1. ASSUME NEW i \in 1 .. Len(pendingStops') PROVE IsArmed(pendingStops[i])'
    <3>1. CASE i \in 1 .. Len(pendingStops) BY <3>1, <1>2, <1>5 DEF OrdersInv, PoolInv, IsArmed, Untouched
    <3>2. CASE i = Len(pendingStops) + 1 BY <1>2, <1>5, <1>6, <3>2 DEF IsArmed
    <3> QED BY <1>5, <3>1, <3>2
  <2>2. Apart(pendingStops') BY <1>4, <1>5, <1>6 DEF OrdersInv, PoolInv, InPool, Apart
  <2> QED BY <2>1, <2>2 DEF PoolInv
<1>9. HandInv' BY DEF SubmitStop, TakeId, OrdersInv, HandInv
<1>10. PlacesInv'
  <2>1. \A id : InHand(id)' = InHand(id) BY DEF SubmitStop, InHand
  <2>2. ~InHand(n) BY <1>2 DEF SubmitStop, TakeId, OrdersInv, HandInv, NoOrder, InHand
  <2>3. ASSUME NEW id \in 1 .. Len(requests')
        PROVE  /\ ~(InQueue(id) /\ InPool(id))' /\ ~(InQueue(id) /\ InHand(id))'
               /\ ~(InPool(id) /\ InHand(id))'
               /\ (InQueue(id) \/ InPool(id) \/ InHand(id) \/ Left(id) = 0)'
    <3>1. CASE id = n BY <1>3, <1>4, <1>7, <2>1, <2>2, <3>1
    <3>2. CASE id \in 1 .. Len(requests) BY <1>2, <1>3, <1>7, <2>1, <3>2 DEF OrdersInv, PlacesInv, Untouched
    <3> QED BY <1>2, <3>1, <3>2
  <2> QED BY <2>3 DEF PlacesInv
<1> QED BY <1>2, <1>3, <1>8, <1>9, <1>10 DEF OrdersInv

--------------------
\* What a queue becomes when the order at place k leaves it.
LosesOne(new, queue, k) ==
  /\ new \in Seq(Resting) /\ Apart(new)
  /\ \A i \in 1 .. Len(new) : \E j \in 1 .. Len(queue) : j # k /\ new[i] = queue[j]
  /\ \A j \in 1 .. Len(queue) : j # k => \E i \in 1 .. Len(new) : new[i] = queue[j]

\* A cancel takes an order out anywhere,
LEMMA CancelLosesOne ==
  ASSUME NEW queue \in Seq(Resting), NEW k \in 1 .. Len(queue), Apart(queue)
  PROVE  LosesOne(RemoveAt(queue, k), queue, k)
<1> DEFINE new == RemoveAt(queue, k)
           from(i) == IF i < k THEN i ELSE i + 1
<1>0. Len(queue) \in Nat BY LenProperties
<1>1. /\ new \in Seq(Resting) /\ Len(new) = Len(queue) - 1
      /\ \A i \in 1 .. Len(queue) - 1 : new[i] = queue[from(i)] BY RemoveAtProperties
<1> HIDE DEF new
<1>2. \A i \in 1 .. Len(new) :
         from(i) \in 1 .. Len(queue) /\ from(i) # k /\ new[i] = queue[from(i)] BY <1>0, <1>1
<1>3. \A i, j \in 1 .. Len(new) : from(i) = from(j) => i = j BY <1>0, <1>1
<1>4. ASSUME NEW j \in 1 .. Len(queue), j # k PROVE \E i \in 1 .. Len(new) : from(i) = j
  <2>1. CASE j < k
    <3>1. j \in 1 .. Len(new) /\ from(j) = j BY <1>0, <1>1, <2>1
    <3> QED BY <3>1
  <2>2. CASE j > k
    <3>1. j - 1 \in 1 .. Len(new) /\ from(j - 1) = j BY <1>0, <1>1, <2>2
    <3> QED BY <3>1
  <2> QED BY <1>0, <1>4, <2>1, <2>2
<1> HIDE DEF from
<1>5. Apart(new)
  <2> SUFFICES ASSUME NEW i \in 1 .. Len(new), NEW j \in 1 .. Len(new), new[i].id = new[j].id PROVE i = j
    BY DEF Apart
  <2>1. queue[from(i)].id = queue[from(j)].id /\ from(i) \in 1 .. Len(queue) /\ from(j) \in 1 .. Len(queue)
    BY <1>2
  <2>2. from(i) = from(j) BY <2>1 DEF Apart
  <2> QED BY <1>3, <2>2
<1>6. ASSUME NEW j \in 1 .. Len(queue), j # k PROVE \E i \in 1 .. Len(new) : new[i] = queue[j]
  <2>1. PICK i \in 1 .. Len(new) : from(i) = j BY <1>4, <1>6
  <2> QED BY <1>2, <2>1
<1>7. LosesOne(new, queue, k) BY <1>1, <1>2, <1>5, <1>6 DEF LosesOne
<1> QED BY <1>7 DEF new

\* and the oldest order leaves from the front.
LEMMA OldestLeaves ==
  ASSUME NEW queue \in Seq(Resting), queue # <<>>, Apart(queue) PROVE LosesOne(Tail(queue), queue, 1)
<1> DEFINE new == Tail(queue)
<1>0. Len(queue) \in Nat BY LenProperties
<1>1. /\ new \in Seq(Resting) /\ Len(new) = Len(queue) - 1
      /\ \A i \in 1 .. Len(queue) - 1 : new[i] = queue[i + 1] BY HeadTailProperties
<1> HIDE DEF new
<1>2. \A i \in 1 .. Len(new) : i + 1 \in 1 .. Len(queue) /\ i + 1 # 1 /\ new[i] = queue[i + 1] BY <1>0, <1>1
<1>3. ASSUME NEW j \in 1 .. Len(queue), j # 1 PROVE \E i \in 1 .. Len(new) : new[i] = queue[j]
  <2>1. j - 1 \in 1 .. Len(new) /\ (j - 1) + 1 = j BY <1>0, <1>1, <1>3
  <2> QED BY <1>2, <2>1
<1>4. Apart(new) BY <1>2 DEF Apart
<1>5. \A i \in 1 .. Len(new) : \E j \in 1 .. Len(queue) : j # 1 /\ new[i] = queue[j] BY <1>2
<1>6. LosesOne(new, queue, 1) BY <1>1, <1>3, <1>4, <1>5 DEF LosesOne
<1> QED BY <1>6 DEF new

\* The oldest order, filled in part, stays at the front with what is left of it.
FilledInPart(new, queue, left) ==
  /\ new \in Seq(Resting) /\ Len(new) = Len(queue) /\ Apart(new)
  /\ \A i \in 1 .. Len(queue) : new[i].id = queue[i].id
  /\ \A i \in 1 .. Len(queue) : new[i].quantity = IF i = 1 THEN left ELSE queue[i].quantity

\* A fill that leaves something of the oldest order does so.
LEMMA OldestStays ==
  ASSUME NEW queue \in Seq(Resting), queue # <<>>, Apart(queue), NEW left \in Nat \ {0}
  PROVE  FilledInPart([queue EXCEPT ![1].quantity = left], queue, left)
<1> DEFINE new == [queue EXCEPT ![1].quantity = left]
<1>1. 1 \in 1 .. Len(queue) /\ queue[1] \in Resting OBVIOUS
<1>2. /\ [queue[1] EXCEPT !.quantity = left] \in Resting
      /\ [queue[1] EXCEPT !.quantity = left].id = queue[1].id
      /\ [queue[1] EXCEPT !.quantity = left].quantity = left BY <1>1 DEF Resting
<1>3. /\ new \in Seq(Resting) /\ Len(new) = Len(queue)
      /\ \A i \in 1 .. Len(queue) : new[i].id = queue[i].id
      /\ \A i \in 1 .. Len(queue) : new[i].quantity = IF i = 1 THEN left ELSE queue[i].quantity BY <1>1, <1>2
<1> HIDE DEF new
<1>4. Apart(new) BY <1>3 DEF Apart
<1>5. FilledInPart(new, queue, left) BY <1>3, <1>4 DEF FilledInPart
<1> QED BY <1>5 DEF new

\* RestsAt in the next state, for an order given now.
WillRestAt(order, side, p) ==
  /\ order.id \in 1 .. Len(requests')
  /\ requests'[order.id].side = side /\ requests'[order.id].limit = p
  /\ requests'[order.id].quantity - filled'[order.id] - withdrawn'[order.id] = order.quantity

\* When a step counts for ids of one queue only, the others stay as they should be.
LEMMA BookWithNewQueue ==
  ASSUME IInv, OrdersInv, NEW ids, Untouched(ids), NEW side \in Sides, NEW p \in Prices,
         NEW new \in Seq(Resting), resting' = [resting EXCEPT ![side][p] = new],
         \A s \in Sides, q \in Prices : \A i \in 1 .. Len(resting[s][q]) :
             resting[s][q][i].id \in ids => s = side /\ q = p,
         Apart(new), \A i \in 1 .. Len(new) : WillRestAt(new[i], side, p)
  PROVE  BookInv'
<1>1. \A s \in Sides, q \in Prices :
         resting'[s][q] = IF s = side /\ q = p THEN new ELSE resting[s][q]
  BY ReplacedQueue DEF IInv, BookTypeOK
<1>2. ASSUME NEW s \in Sides, NEW q \in Prices
      PROVE  (/\ Apart(resting[s][q])
              /\ \A i \in 1 .. Len(resting[s][q]) : RestsAt(resting[s][q][i], s, q))'
  <2>1. CASE s = side /\ q = p BY <1>1, <2>1 DEF RestsAt, WillRestAt, Left
  <2>2. CASE ~(s = side /\ q = p) BY <1>1, <2>2, QueueKept
  <2> QED BY <2>1, <2>2
<1> QED BY <1>2 DEF BookInv

\* The queue that replaces one has its ids, but for that at k, which is not this one.
KeepsTheId(side, p, new, k, id) ==
  /\ new \in Seq(Resting) /\ k \in 1 .. Len(resting[side][p]) /\ id # resting[side][p][k].id
  /\ \A i \in 1 .. Len(new) : new[i].id = id =>
         \E j \in 1 .. Len(resting[side][p]) : resting[side][p][j].id = id
  /\ \A j \in 1 .. Len(resting[side][p]) : j # k =>
         \E i \in 1 .. Len(new) : new[i].id = resting[side][p][j].id

\* Which ids are in queues when one queue is replaced.
LEMMA InQueueWithNewQueue ==
  ASSUME IInv, OrdersInv, NEW side \in Sides, NEW p \in Prices, NEW new,
         resting' = [resting EXCEPT ![side][p] = new], NEW k, NEW id,
         KeepsTheId(side, p, new, k, id)
  PROVE  InQueue(id)' <=> InQueue(id)
<1> USE DEF KeepsTheId
<1>1. \A s \in Sides, q \in Prices :
         resting'[s][q] = IF s = side /\ q = p THEN new ELSE resting[s][q]
  BY ReplacedQueue DEF IInv, BookTypeOK
<1>2. ASSUME NEW s \in Sides, NEW q \in Prices
      PROVE  (\E i \in 1 .. Len(resting'[s][q]) : resting'[s][q][i].id = id)
             <=> (\E i \in 1 .. Len(resting[s][q]) : resting[s][q][i].id = id)
  <2>1. CASE s = side /\ q = p BY <1>1, <2>1
  <2>2. CASE ~(s = side /\ q = p) BY <1>1, <2>2
  <2> QED BY <2>1, <2>2
<1> QED BY <1>2 DEF InQueue

--------------------
\* What a fill of the oldest order n by the incoming order k does.
TakesFromBoth(side, p, n, k, executed, left) ==
  /\ left = resting[side][p][1].quantity - executed
  /\ Left(n)' = left /\ requests'[n] = requests[n]
  /\ Left(k)' = incoming.quantity - executed /\ requests'[k] = requests[k]
  /\ incoming' = [incoming EXCEPT !.quantity = @ - executed]
  /\ left = 0 => resting' = [resting EXCEPT ![side][p] = Tail(resting[side][p])]
  /\ left # 0 => resting' = [resting EXCEPT ![side][p] =
                     [resting[side][p] EXCEPT ![1].quantity = left]]

\* It takes the same from both.
LEMMA FillCounts ==
  ASSUME IInv, OrdersInv, NEW side \in Sides, NEW p \in Prices, resting[side][p] # <<>>,
         Fill(side, p), pc = "matching",
         NEW n, n = resting[side][p][1].id, NEW k, k = incoming.id
  PROVE  /\ LogsInv' /\ n # k /\ n \in 1 .. Len(requests) /\ k \in 1 .. Len(requests)
         /\ InQueue(n) /\ InHand(k) /\ Untouched({n, k})
         /\ \E executed \in Nat, left \in Nat : TakesFromBoth(side, p, n, k, executed, left)
<1> DEFINE queue == resting[side][p]
<1>0. queue \in Seq(Resting) /\ 1 \in 1 .. Len(queue) /\ Head(queue) = queue[1] BY DEF IInv, BookTypeOK
<1>1. /\ queue[1].id = n /\ n \in Nat /\ queue[1].quantity \in Nat \ {0}
      /\ incoming.id = k /\ k \in Nat /\ incoming.quantity \in Nat
  BY <1>0, RestingOrder DEF IInv, BookTypeOK, Orders
<1>2. PICK executed \in Nat : executed = IF incoming.quantity < queue[1].quantity
                                         THEN incoming.quantity ELSE queue[1].quantity BY <1>1
<1>3. PICK left \in Nat : left = queue[1].quantity - executed BY <1>1, <1>2
<1>4. /\ left = 0 => resting' = [resting EXCEPT ![side][p] = Tail(queue)]
      /\ left # 0 => resting' = [resting EXCEPT ![side][p] = [queue EXCEPT ![1].quantity = left]]
      /\ incoming' = [incoming EXCEPT !.quantity = @ - executed]
      /\ filled' = [id \in DOMAIN filled |->
              filled[id] + IF id \in {n, k} THEN executed ELSE 0]
  BY <1>0, <1>1, <1>2, <1>3 DEF Fill, IInv, BookTypeOK
<1>5. InQueue(n) /\ InHand(k) BY <1>0, <1>1 DEF InQueue, InHand
<1>6. n \in 1 .. Len(requests) /\ k \in 1 .. Len(requests) BY <1>5, PlacedIdsAreKnown
<1>7. n # k BY <1>5, <1>6 DEF OrdersInv, PlacesInv
<1>8. requests' = requests /\ withdrawn' = withdrawn /\ nextId' = nextId /\ pc' = pc BY DEF Fill
<1>9. DOMAIN filled = 1 .. Len(requests) /\ filled \in Seq(Nat) BY DEF IInv, BookTypeOK, OrdersInv, LogsInv
<1>10. LogsInv' BY <1>9, <1>4, <1>8 DEF OrdersInv, LogsInv
<1>11. \A id \in 1 .. Len(requests) : /\ filled[id] \in Nat
          /\ filled'[id] = filled[id] + IF id \in {n, k} THEN executed ELSE 0 BY <1>4, <1>9
<1>12. \A id \in 1 .. Len(requests) : /\ requests[id].quantity \in Nat /\ withdrawn[id] \in Nat
  BY CountsAreNumbers DEF OrdersInv
<1>13. Untouched({n, k}) BY <1>8, <1>11 DEF Untouched, Left
<1>14. Left(n) = queue[1].quantity /\ Left(k) = incoming.quantity
  BY <1>0, <1>1 DEF OrdersInv, BookInv, RestsAt, HandInv
<1>15. Left(n)' = left /\ Left(k)' = incoming.quantity - executed
  <2>1. /\ requests[n].quantity - filled[n] - withdrawn[n] = queue[1].quantity
        /\ requests[k].quantity - filled[k] - withdrawn[k] = incoming.quantity BY <1>14 DEF Left
  <2>2. /\ requests'[n].quantity - filled'[n] - withdrawn'[n] = left
        /\ requests'[k].quantity - filled'[k] - withdrawn'[k] = incoming.quantity - executed
    <3>1. filled'[n] = filled[n] + executed /\ filled'[k] = filled[k] + executed BY <1>6, <1>11
    <3>2. /\ requests[n].quantity \in Nat /\ filled[n] \in Nat /\ withdrawn[n] \in Nat
          /\ requests[k].quantity \in Nat /\ filled[k] \in Nat /\ withdrawn[k] \in Nat BY <1>6, <1>11, <1>12
    <3>3. (requests[n].quantity - filled[n]) - withdrawn[n] - executed = left BY <1>1, <1>3, <2>1
    <3>4. requests[n].quantity - filled'[n] - withdrawn[n] = left
      <4>1. PICK q \in Nat, f \in Nat, w \in Nat :
               q = requests[n].quantity /\ f = filled[n] /\ w = withdrawn[n] BY <3>2
      <4>2. q - f - w - executed = left BY <3>3, <4>1
      <4>3. q - (f + executed) - w = left BY <4>2
      <4> QED BY <3>1, <4>1, <4>3
    <3>5. requests[k].quantity - filled'[k] - withdrawn[k] = incoming.quantity - executed
      <4>1. PICK q \in Nat, f \in Nat, w \in Nat, m \in Nat :
               /\ q = requests[k].quantity /\ f = filled[k] /\ w = withdrawn[k]
               /\ m = incoming.quantity BY <1>1, <3>2
      <4>2. q - f - w = m BY <2>1, <4>1
      <4>3. q - (f + executed) - w = m - executed BY <4>2
      <4> QED BY <3>1, <4>1, <4>3
    <3> QED BY <1>8, <3>4, <3>5
  <2> QED BY <2>2 DEF Left
<1> HIDE DEF queue
<1>16. TakesFromBoth(side, p, n, k, executed, left) BY <1>3, <1>4, <1>8, <1>15 DEF TakesFromBoth, queue
<1> QED BY <1>5, <1>6, <1>7, <1>10, <1>13, <1>16

\* A fill moves the same quantity from open to filled, for both of its orders.
LEMMA FillKeepsOrders ==
  ASSUME IInv, OrdersInv, NEW side \in Sides, NEW p \in Prices, resting[side][p] # <<>>,
         Fill(side, p), pc = "matching"
  PROVE  OrdersInv'
<1>0. PICK queue, n, k : queue = resting[side][p] /\ n = resting[side][p][1].id /\ k = incoming.id OBVIOUS
<1>1. /\ LogsInv' /\ n # k /\ n \in 1 .. Len(requests) /\ k \in 1 .. Len(requests)
      /\ InQueue(n) /\ InHand(k) /\ Untouched({n, k}) BY <1>0, FillCounts
<1>2a. PICK executed \in Nat, left \in Nat : TakesFromBoth(side, p, n, k, executed, left) BY <1>0, FillCounts
<1>2. /\ left = queue[1].quantity - executed
      /\ Left(n)' = left /\ requests'[n] = requests[n]
      /\ Left(k)' = incoming.quantity - executed /\ requests'[k] = requests[k]
      /\ incoming' = [incoming EXCEPT !.quantity = @ - executed]
      /\ left = 0 => resting' = [resting EXCEPT ![side][p] = Tail(queue)]
      /\ left # 0 => resting' = [resting EXCEPT ![side][p] = [queue EXCEPT ![1].quantity = left]]
  BY <1>0, <1>2a DEF TakesFromBoth
<1>3. queue \in Seq(Resting) /\ 1 \in 1 .. Len(queue) /\ queue # <<>> /\ Apart(queue)
  BY <1>0 DEF IInv, BookTypeOK, OrdersInv, BookInv
<1>4. PICK new : new = IF left = 0 THEN Tail(queue) ELSE [queue EXCEPT ![1].quantity = left] OBVIOUS
<1>5. /\ pendingStops' = pendingStops /\ pc' = pc /\ requests' = requests BY DEF Fill
<1>6. \A s \in Sides, q \in Prices : \A i \in 1 .. Len(resting[s][q]) :
         resting[s][q][i].id \in {n, k} => s = side /\ q = p /\ i = 1
  <2> SUFFICES ASSUME NEW s \in Sides, NEW q \in Prices, NEW i \in 1 .. Len(resting[s][q]),
                      resting[s][q][i].id \in {n, k}
               PROVE  s = side /\ q = p /\ i = 1 OBVIOUS
  <2>1. resting[s][q][i].id # k BY <1>1 DEF OrdersInv, PlacesInv, InQueue
  <2>2. resting[s][q][i].id = resting[side][p][1].id BY <1>0, <2>1
  <2> QED BY <1>0, <1>3, <2>2, RestingPlace
<1>7. /\ new \in Seq(Resting) /\ Apart(new)
      /\ \A i \in 1 .. Len(new) : \E j \in 1 .. Len(queue) :
            /\ new[i].id = queue[j].id
            /\ new[i].quantity = IF j = 1 THEN left ELSE queue[j].quantity
      /\ \A j \in 1 .. Len(queue) : j # 1 => \E i \in 1 .. Len(new) : new[i].id = queue[j].id
      /\ left # 0 => \E i \in 1 .. Len(new) : new[i].id = n
      /\ left = 0 => \A i \in 1 .. Len(new) : new[i].id # n
  <2>1. CASE left = 0
    <3>1. new = Tail(queue) BY <1>4, <2>1
    <3>0. LosesOne(new, queue, 1) BY <1>3, <3>1, OldestLeaves
    <3>2. /\ new \in Seq(Resting) /\ Apart(new)
          /\ \A i \in 1 .. Len(new) : \E j \in 1 .. Len(queue) : j # 1 /\ new[i] = queue[j]
          /\ \A j \in 1 .. Len(queue) : j # 1 => \E i \in 1 .. Len(new) : new[i] = queue[j]
      BY <3>0 DEF LosesOne
    <3>3. \A j \in 1 .. Len(queue) : j # 1 => queue[j].id # n BY <1>0, <1>3 DEF Apart
    <3>4. \A i \in 1 .. Len(new) : \E j \in 1 .. Len(queue) :
            /\ new[i].id = queue[j].id
            /\ new[i].quantity = IF j = 1 THEN left ELSE queue[j].quantity BY <3>2
    <3>5. \A i \in 1 .. Len(new) : new[i].id # n
      <4> TAKE i \in 1 .. Len(new)
      <4>1. PICK j \in 1 .. Len(queue) : j # 1 /\ new[i] = queue[j] BY <3>2
      <4> QED BY <3>3, <4>1
    <3> QED BY <2>1, <3>2, <3>4, <3>5
  <2>2. CASE left # 0
    <3>1. new = [queue EXCEPT ![1].quantity = left] BY <1>4, <2>2
    <3>0. FilledInPart(new, queue, left) BY <1>3, <2>2, <3>1, OldestStays
    <3>2. /\ new \in Seq(Resting) /\ Len(new) = Len(queue) /\ Apart(new)
          /\ \A i \in 1 .. Len(queue) : new[i].id = queue[i].id
          /\ \A i \in 1 .. Len(queue) : new[i].quantity = IF i = 1 THEN left ELSE queue[i].quantity
      BY <3>0 DEF FilledInPart
    <3>3. new[1].id = n BY <1>0, <1>3, <3>2
    <3> QED BY <1>3, <2>2, <3>2, <3>3
  <2> QED BY <2>1, <2>2
<1>8. resting' = [resting EXCEPT ![side][p] = new] BY <1>0, <1>2, <1>4
<1>9. ASSUME NEW i \in 1 .. Len(new) PROVE WillRestAt(new[i], side, p)
  <2>1. PICK j \in 1 .. Len(queue) :
           /\ new[i].id = queue[j].id
           /\ new[i].quantity = IF j = 1 THEN left ELSE queue[j].quantity BY <1>7
  <2>2. RestsAt(queue[j], side, p) BY <1>0 DEF OrdersInv, BookInv
  <2>3. CASE j = 1 BY <1>0, <1>1, <1>2, <1>5, <2>1, <2>2, <2>3 DEF RestsAt, WillRestAt, Left
  <2>4. CASE j # 1
    <3>1. queue[j].id \notin {n, k} BY <1>0, <1>6, <2>4
    <3>2. new[i].id = queue[j].id /\ new[i].quantity = queue[j].quantity BY <2>1, <2>4
    <3>3. PICK x : x = queue[j].id OBVIOUS
    <3>4. /\ x \in 1 .. Len(requests') /\ requests'[x] = requests[x] /\ Left(x)' = Left(x)
      BY <1>1, <2>2, <3>1, <3>3 DEF Untouched, RestsAt
    <3> QED BY <2>2, <3>2, <3>3, <3>4 DEF RestsAt, WillRestAt, Left
  <2> QED BY <2>3, <2>4
<1>10. BookInv'
  <2>0. PICK ids : ids = {n, k} OBVIOUS
  <2>1. \A s \in Sides, q \in Prices : \A i \in 1 .. Len(resting[s][q]) :
           resting[s][q][i].id \in ids => s = side /\ q = p BY <1>6, <2>0
  <2>2. new \in Seq(Resting) /\ Apart(new) /\ Untouched(ids) BY <1>1, <1>7, <2>0
  <2> QED BY <1>8, <1>9, <2>1, <2>2, BookWithNewQueue
<1>11. PoolInv' /\ \A id : InPool(id)' = InPool(id) BY <1>1, <1>5, PoolKept DEF OrdersInv, PlacesInv
<1>12. /\ incoming'.id = incoming.id /\ incoming'.request = incoming.request
       /\ incoming'.quantity = incoming.quantity - executed BY <1>2 DEF IInv, BookTypeOK, Orders
<1>13. HandInv' BY <1>0, <1>2, <1>12, <1>5 DEF Left, OrdersInv, HandInv
<1>14. \A id : InHand(id)' = InHand(id) BY <1>12 DEF InHand
<1>15. \A id : id # n => (InQueue(id)' <=> InQueue(id))
  <2> SUFFICES ASSUME NEW id, id # n PROVE InQueue(id)' <=> InQueue(id) OBVIOUS
  <2>1. 1 \in 1 .. Len(resting[side][p]) /\ id # resting[side][p][1].id /\ new \in Seq(Resting)
    BY <1>0, <1>3, <1>7
  <2>2. \A i \in 1 .. Len(new) : new[i].id = id =>
           \E j \in 1 .. Len(resting[side][p]) : resting[side][p][j].id = id
    <3>1. \A i \in 1 .. Len(new) : \E j \in 1 .. Len(queue) : new[i].id = queue[j].id BY <1>7
    <3> QED BY <1>0, <3>1
  <2>3. \A j \in 1 .. Len(resting[side][p]) : j # 1 =>
           \E i \in 1 .. Len(new) : new[i].id = resting[side][p][j].id BY <1>0, <1>7
  <2>4. KeepsTheId(side, p, new, 1, id) BY <2>1, <2>2, <2>3 DEF KeepsTheId
  <2> QED BY <1>8, <2>4, InQueueWithNewQueue
<1>16. ASSUME left # 0 PROVE InQueue(n)' BY <1>7, <1>8, ReplacedQueue, <1>16 DEF IInv, BookTypeOK, InQueue
<1>17. PlacesInv'
  <2>1. ASSUME NEW id \in 1 .. Len(requests')
        PROVE  /\ ~(InQueue(id) /\ InPool(id))' /\ ~(InQueue(id) /\ InHand(id))'
               /\ ~(InPool(id) /\ InHand(id))'
               /\ (InQueue(id) \/ InPool(id) \/ InHand(id) \/ Left(id) = 0)'
    <3>0. id \in 1 .. Len(requests) BY <1>5
    <3>1. CASE id = n BY <1>1, <1>2, <1>16, <1>11, <1>14, <3>1 DEF OrdersInv, PlacesInv
    <3>2. CASE id = k BY <1>1, <1>11, <1>14, <1>15, <3>2 DEF OrdersInv, PlacesInv
    <3>3. CASE id \notin {n, k} BY <1>1, <1>11, <1>14, <1>15, <3>0, <3>3 DEF OrdersInv, PlacesInv, Untouched
    <3> QED BY <3>1, <3>2, <3>3
  <2> QED BY <2>1 DEF PlacesInv
<1> QED BY <1>1, <1>10, <1>11, <1>13, <1>17 DEF OrdersInv

--------------------
\* Steps that count nothing for any id,
LEMMA NothingCounted ==
  ASSUME IInv, OrdersInv, UNCHANGED <<nextId, requests, filled, withdrawn>>
  PROVE  LogsInv' /\ \A ids : Untouched(ids) BY DEF OrdersInv, LogsInv, Untouched, Left

\* and steps that withdraw all an order has left.
LEMMA AllWithdrawn ==
  ASSUME IInv, OrdersInv, NEW id \in 1 .. Len(requests), NEW n, n = Left(id),
         UNCHANGED <<nextId, requests, filled>>,
         withdrawn' = [withdrawn EXCEPT ![id] = @ + n]
  PROVE  LogsInv' /\ Untouched({id}) /\ Left(id)' = 0
<1>1. DOMAIN withdrawn = 1 .. Len(requests) /\ withdrawn \in Seq(Nat) /\ Len(withdrawn) = Len(requests)
  BY DEF IInv, BookTypeOK, OrdersInv, LogsInv
<1>2. /\ DOMAIN withdrawn' = 1 .. Len(requests) /\ withdrawn'[id] = withdrawn[id] + n
      /\ \A i \in 1 .. Len(requests) : i # id => withdrawn'[i] = withdrawn[i] BY <1>1
<1>3. Len(withdrawn') = Len(withdrawn) BY <1>1, LenProperties, <1>2
<1>4. LogsInv' BY <1>3 DEF OrdersInv, LogsInv
<1>5. Untouched({id}) BY <1>2 DEF Untouched, Left
<1>6. Left(id)' = 0 BY CountsAreNumbers, <1>2 DEF OrdersInv, Left
<1> QED BY <1>4, <1>5, <1>6

\* The remainder goes from the hand to the end of its queue, for what it has left.
LEMMA RestKeepsOrders == ASSUME IInv, OrdersInv, RestRemainder PROVE OrdersInv'
<1>a. PICK side \in Sides, limit \in Prices :
         side = incoming.request.side /\ limit = incoming.request.limit
  BY DEF IInv, BookTypeOK, Orders, Requests, RestRemainder
<1>0. PICK k, queue :
         /\ side = incoming.request.side /\ limit = incoming.request.limit
         /\ k = incoming.id /\ queue = resting[side][limit] BY <1>a
<1>1. PICK order : order = [id |-> k, quantity |-> incoming.quantity, arrival |-> arrivals] OBVIOUS
<1>2. /\ order \in Resting /\ order.id = k /\ order.quantity = incoming.quantity
      /\ queue \in Seq(Resting) /\ Apart(queue)
  <2>1. k \in Nat /\ incoming.quantity \in Nat \ {0} /\ arrivals \in Nat
    BY <1>0 DEF RestRemainder, IInv, BookTypeOK, Orders
  <2>2. order \in Resting /\ order.id = k /\ order.quantity = incoming.quantity BY <1>1, <2>1 DEF Resting
  <2>3. queue \in Seq(Resting) BY <1>0 DEF IInv, BookTypeOK
  <2>4. Apart(queue) BY <1>0 DEF OrdersInv, BookInv
  <2> QED BY <2>2, <2>3, <2>4
<1>3. PICK new : new = Append(queue, order) OBVIOUS
<1>4. /\ new \in Seq(Resting) /\ Len(new) = Len(queue) + 1 /\ Len(queue) \in Nat
      /\ new[Len(queue) + 1] = order
      /\ \A i \in 1 .. Len(queue) : new[i] = queue[i] BY <1>2, <1>3, AppendProperties, LenProperties
<1>5. /\ resting' = [resting EXCEPT ![side][limit] = new]
      /\ pendingStops' = pendingStops /\ incoming' = NoOrder /\ pc = "matching" /\ pc' # "matching"
  BY <1>0, <1>1, <1>3 DEF RestRemainder, MatchingEnds
<1>6. LogsInv' /\ \A ids : Untouched(ids) BY NothingCounted DEF RestRemainder
<1>7. /\ k \in 1 .. Len(requests) /\ requests[k].side = side /\ requests[k].limit = limit
      /\ Left(k) = order.quantity /\ InHand(k) /\ ~InQueue(k) /\ ~InPool(k)
  BY <1>0, <1>2, <1>5 DEF OrdersInv, HandInv, PlacesInv, InHand
<1>8. \A i \in 1 .. Len(queue) : queue[i].id # k BY <1>0, <1>7 DEF InQueue
<1>9. \A i \in 1 .. Len(new) : i \in 1 .. Len(queue) \/ i = Len(queue) + 1 BY <1>4
<1>10. Apart(new) BY <1>2, <1>4, <1>8, <1>9 DEF Apart
<1>11. ASSUME NEW i \in 1 .. Len(new) PROVE WillRestAt(new[i], side, limit)
  <2>0. requests' = requests /\ filled' = filled /\ withdrawn' = withdrawn BY DEF RestRemainder
  <2>1. CASE i \in 1 .. Len(queue)
    <3>1. RestsAt(queue[i], side, limit) BY <1>0, <2>1 DEF OrdersInv, BookInv
    <3> QED BY <1>4, <2>0, <2>1, <3>1 DEF RestsAt, WillRestAt, Left
  <2>2. CASE i = Len(queue) + 1 BY <1>2, <1>4, <1>7, <2>0, <2>2 DEF WillRestAt, Left
  <2> QED BY <1>9, <2>1, <2>2
<1>12. BookInv'
  <2>1. PICK ids : ids = {} OBVIOUS
  <2>2. \A s \in Sides, q \in Prices : \A i \in 1 .. Len(resting[s][q]) :
           resting[s][q][i].id \in ids => s = side /\ q = limit BY <2>1
  <2>3. new \in Seq(Resting) /\ Untouched(ids) BY <1>4, <1>6
  <2>4. resting' = [resting EXCEPT ![side][limit] = new] BY <1>5
  <2> QED BY <1>10, <1>11, <2>2, <2>3, <2>4, BookWithNewQueue
<1>13. PoolInv' /\ \A id : InPool(id)' = InPool(id)
  <2>1. Untouched({}) BY <1>6
  <2> QED BY <1>5, <2>1, PoolKept
<1>14. HandInv' BY <1>5 DEF HandInv
<1>15. \A id : InQueue(id)' <=> InQueue(id) \/ id = k
  <2>1. \A s \in Sides, q \in Prices :
           resting'[s][q] = IF s = side /\ q = limit THEN new ELSE resting[s][q]
    BY <1>4, <1>5, ReplacedQueue DEF IInv, BookTypeOK
  <2>2. \A i \in 1 .. Len(queue) : i \in 1 .. Len(new) BY <1>4
  <2>3. Len(queue) + 1 \in 1 .. Len(new) BY <1>4
  <2> SUFFICES ASSUME NEW id PROVE InQueue(id)' <=> InQueue(id) \/ id = k OBVIOUS
  <2>4. ASSUME NEW s \in Sides, NEW q \in Prices, NEW i \in 1 .. Len(resting'[s][q]),
               resting'[s][q][i].id = id
        PROVE  InQueue(id) \/ id = k
    <3>1. CASE s = side /\ q = limit
      <4>1. i \in 1 .. Len(new) /\ new[i].id = id BY <2>1, <2>4, <3>1
      <4>2. CASE i \in 1 .. Len(queue) BY <1>0, <1>4, <4>1, <4>2 DEF InQueue
      <4>3. CASE i = Len(queue) + 1 BY <1>2, <1>4, <4>1, <4>3
      <4> QED BY <1>9, <4>1, <4>2, <4>3
    <3>2. CASE ~(s = side /\ q = limit) BY <2>1, <2>4, <3>2 DEF InQueue
    <3> QED BY <3>1, <3>2
  <2>5. ASSUME NEW s \in Sides, NEW q \in Prices, NEW i \in 1 .. Len(resting[s][q]),
               resting[s][q][i].id = id
        PROVE  InQueue(id)'
    <3>1. CASE s = side /\ q = limit
      <4>1. i \in 1 .. Len(new) /\ new[i].id = id BY <1>0, <1>4, <2>2, <2>5, <3>1
      <4> QED BY <2>1, <3>1, <4>1 DEF InQueue
    <3>2. CASE ~(s = side /\ q = limit) BY <2>1, <2>5, <3>2 DEF InQueue
    <3> QED BY <3>1, <3>2
  <2>6. InQueue(k)' BY <1>2, <1>4, <2>1, <2>3 DEF InQueue
  <2>7. InQueue(id)' => InQueue(id) \/ id = k BY <2>4 DEF InQueue
  <2>8. InQueue(id) => InQueue(id)' BY <2>5 DEF InQueue
  <2> QED BY <2>6, <2>7, <2>8
<1>16. PlacesInv'
  <2>1. ASSUME NEW id \in 1 .. Len(requests')
        PROVE  /\ ~(InQueue(id) /\ InPool(id))' /\ ~(InQueue(id) /\ InHand(id))'
               /\ ~(InPool(id) /\ InHand(id))'
               /\ (InQueue(id) \/ InPool(id) \/ InHand(id) \/ Left(id) = 0)'
    <3>0. id \in 1 .. Len(requests) /\ Left(id)' = Left(id) BY <1>6 DEF RestRemainder, Untouched
    <3>1. ~InHand(id)' BY <1>5, <3>0 DEF InHand, NoOrder
    <3>2. CASE id = k BY <1>7, <1>13, <1>15, <3>1, <3>2
    <3>3. CASE id # k BY <1>0, <3>3, <1>13, <1>15, <3>0, <3>1 DEF InHand, OrdersInv, PlacesInv
    <3> QED BY <3>2, <3>3
  <2> QED BY <2>1 DEF PlacesInv
<1> QED BY <1>6, <1>12, <1>13, <1>14, <1>16 DEF OrdersInv

\* What is dropped is withdrawn, so nothing is left of it.
LEMMA DropKeepsOrders == ASSUME IInv, OrdersInv, DropRemainder PROVE OrdersInv'
<1>0. PICK k : k = incoming.id OBVIOUS
<1>1. /\ pc = "matching" /\ pc' # "matching" /\ incoming' = NoOrder /\ resting' = resting
      /\ pendingStops' = pendingStops /\ requests' = requests BY DEF DropRemainder, MatchingEnds
<1>2. /\ k \in 1 .. Len(requests) /\ Left(k) = incoming.quantity
      /\ InHand(k) /\ ~InQueue(k) /\ ~InPool(k) BY <1>0, <1>1 DEF OrdersInv, HandInv, PlacesInv, InHand
<1>3. LogsInv' /\ Untouched({k}) /\ Left(k)' = 0
  <2>1. PICK n : n = Left(k) OBVIOUS
  <2>2. withdrawn' = [withdrawn EXCEPT ![k] = @ + n] BY <1>0, <1>2, <2>1 DEF DropRemainder
  <2>3. UNCHANGED <<nextId, requests, filled>> BY DEF DropRemainder
  <2> QED BY <1>2, <2>1, <2>2, <2>3, AllWithdrawn
<1>4. BookInv' /\ \A id : InQueue(id)' = InQueue(id) BY <1>1, <1>2, <1>3, BookKept
<1>5. PoolInv' /\ \A id : InPool(id)' = InPool(id) BY <1>1, <1>2, <1>3, PoolKept
<1>6. HandInv' BY <1>1 DEF HandInv
<1>7. PlacesInv'
  <2>1. ASSUME NEW id \in 1 .. Len(requests')
        PROVE  /\ ~(InQueue(id) /\ InPool(id))' /\ ~(InQueue(id) /\ InHand(id))'
               /\ ~(InPool(id) /\ InHand(id))'
               /\ (InQueue(id) \/ InPool(id) \/ InHand(id) \/ Left(id) = 0)'
    <3>0. id \in 1 .. Len(requests) BY <1>1
    <3>1. ~InHand(id)' BY <1>1, <3>0 DEF InHand, NoOrder
    <3>2. CASE id = k BY <1>2, <1>3, <1>4, <1>5, <3>1, <3>2
    <3>3. CASE id # k BY <1>0, <1>3, <3>0, <3>3, <1>4, <1>5, <3>1 DEF InHand, Untouched, OrdersInv, PlacesInv
    <3> QED BY <3>2, <3>3
  <2> QED BY <2>1 DEF PlacesInv
<1> QED BY <1>3, <1>4, <1>5, <1>6, <1>7 DEF OrdersInv

\* The triggered order goes from the pool to the hand, as a live order.
LEMMA TriggerKeepsOrders == ASSUME IInv, OrdersInv, TriggerFirstEligibleStop PROVE OrdersInv'
<1>0. PICK i \in 1 .. Len(pendingStops) :
         /\ pendingStops' = RemoveAt(pendingStops, i)
         /\ incoming' = [pendingStops[i] EXCEPT !.request.type = LiveType(@)] BY DEF TriggerFirstEligibleStop
<1>1. PICK stop, k : stop = pendingStops[i] /\ k = stop.id OBVIOUS
<1>2. /\ pc = "triggering" /\ pc' = "matching" /\ resting' = resting
      /\ UNCHANGED <<nextId, requests, filled, withdrawn>> BY DEF TriggerFirstEligibleStop, ghosts
<1>3. LogsInv' /\ \A ids : Untouched(ids) BY <1>2, NothingCounted
<1>4. PoolInv' /\ \A id : InPool(id)' <=> InPool(id) /\ id # k BY <1>3, <1>0, <1>1, PoolShrinks
<1>5. BookInv' /\ \A id : InQueue(id)' = InQueue(id) BY <1>3, <1>2, BookKept
<1>6. /\ k \in 1 .. Len(requests) /\ stop.request = requests[k] /\ stop.quantity = Left(k)
      /\ requests[k].type \in {"StopLossLimit", "StopLossMarket"}
      /\ InPool(k) /\ ~InQueue(k) BY <1>1 DEF OrdersInv, PoolInv, InPool, IsArmed, PlacesInv
<1>7. /\ incoming'.id = k /\ incoming'.quantity = stop.quantity
      /\ incoming'.request.side = requests[k].side /\ incoming'.request.limit = requests[k].limit
      /\ incoming'.request.type = LiveType(requests[k].type)
  BY <1>1, ArmedOrder, <1>0, <1>6 DEF Orders, Requests
<1>8. HandInv'
  <2>1. Left(incoming.id)' = incoming'.quantity BY <1>2, <1>6, <1>7 DEF Left
  <2>2. requests' = requests /\ k \in 1 .. Len(requests') BY <1>2, <1>6
  <2>3. requests[k].type = "StopLossLimit" => incoming'.request.type = "Limit" BY <1>7 DEF LiveType
  <2>4. requests[k].type # "Limit" BY <1>6
  <2> QED BY <1>2, <1>7, <2>1, <2>2, <2>3, <2>4 DEF HandInv
<1>9. PlacesInv'
  <2>0. incoming.id = 0 BY <1>2 DEF OrdersInv, HandInv, NoOrder
  <2>1. ASSUME NEW id \in 1 .. Len(requests')
        PROVE  /\ ~(InQueue(id) /\ InPool(id))' /\ ~(InQueue(id) /\ InHand(id))'
               /\ ~(InPool(id) /\ InHand(id))'
               /\ (InQueue(id) \/ InPool(id) \/ InHand(id) \/ Left(id) = 0)'
    <3>0. id \in 1 .. Len(requests) /\ Left(id)' = Left(id) BY <1>2 DEF Left
    <3>1. ~InHand(id) BY <2>0, <3>0 DEF InHand
    <3>2. CASE id = k BY <1>7, <3>2, <1>4, <1>5, <1>6 DEF InHand
    <3>3. CASE id # k BY <1>7, <3>3, <1>4, <1>5, <3>0, <3>1 DEF InHand, OrdersInv, PlacesInv
    <3> QED BY <3>2, <3>3
  <2> QED BY <2>1 DEF PlacesInv
<1> QED BY <1>3, <1>4, <1>5, <1>8, <1>9 DEF OrdersInv

\* The end of a call moves no order.
LEMMA EndKeepsOrders ==
  ASSUME IInv, OrdersInv, CallReturns \/ TriggerTestPanics \/ UNCHANGED bookVars PROVE OrdersInv'
<1>1. /\ UNCHANGED <<resting, pendingStops, incoming, nextId, requests, filled, withdrawn>>
      /\ pc' = pc \/ (pc = "triggering" /\ pc' \in {"idle", "panicked"})
  BY DEF CallReturns, TriggerTestPanics, book, thread, ghosts, bookVars
<1>2. LogsInv' /\ Untouched({}) BY <1>1, NothingCounted
<1>3. BookInv' /\ \A id : InQueue(id)' = InQueue(id) BY <1>1, <1>2, BookKept
<1>4. PoolInv' /\ \A id : InPool(id)' = InPool(id) BY <1>1, <1>2, PoolKept
<1>5. HandInv' BY <1>1 DEF OrdersInv, HandInv, Left, NoOrder
<1>6. PlacesInv' BY <1>1, <1>3, <1>4 DEF InHand, Left, OrdersInv, PlacesInv
<1> QED BY <1>2, <1>3, <1>4, <1>5, <1>6 DEF OrdersInv

\* A cancel takes the order from its queue,
LEMMA CancelRestingKeepsOrders ==
  ASSUME IInv, OrdersInv, NEW id \in 1 .. MaxSubmissions, CancelResting(id) PROVE OrdersInv'
<1>0. PICK side \in Sides, p \in Prices : \E i \in 1 .. Len(resting[side][p]) :
         /\ resting[side][p][i].id = id
         /\ resting' = [resting EXCEPT ![side][p] = RemoveAt(@, i)]
         /\ withdrawn' = [withdrawn EXCEPT ![id] = @ + resting[side][p][i].quantity] BY DEF CancelResting
<1>1. PICK queue : queue = resting[side][p] OBVIOUS
<1>2. PICK i \in 1 .. Len(queue) :
         /\ queue[i].id = id
         /\ resting' = [resting EXCEPT ![side][p] = RemoveAt(queue, i)]
         /\ withdrawn' = [withdrawn EXCEPT ![id] = @ + queue[i].quantity] BY <1>0, <1>1 DEF IInv, BookTypeOK
<1>3. PICK new : new = RemoveAt(queue, i) OBVIOUS
<1>4. queue \in Seq(Resting) /\ Apart(queue) BY <1>1 DEF IInv, BookTypeOK, OrdersInv, BookInv
<1>5. /\ new \in Seq(Resting) /\ Apart(new)
      /\ \A m \in 1 .. Len(new) : \E j \in 1 .. Len(queue) : j # i /\ new[m] = queue[j]
      /\ \A j \in 1 .. Len(queue) : j # i => \E m \in 1 .. Len(new) : new[m] = queue[j]
  BY <1>3, <1>4, CancelLosesOne DEF LosesOne
<1>6. /\ pc = "idle" /\ pc' = "idle" /\ incoming' = incoming /\ pendingStops' = pendingStops
      /\ UNCHANGED <<nextId, requests, filled>> BY DEF CancelResting, thread
<1>7. /\ id \in 1 .. Len(requests) /\ Left(id) = queue[i].quantity
      /\ InQueue(id) /\ ~InPool(id) /\ ~InHand(id)
  BY <1>1, <1>2 DEF OrdersInv, BookInv, InQueue, RestsAt, PlacesInv
<1>8. LogsInv' /\ Untouched({id}) /\ Left(id)' = 0
  <2>1. PICK n : n = Left(id) OBVIOUS
  <2> QED BY <1>2, <1>6, <1>7, <2>1, AllWithdrawn
<1>9. \A s \in Sides, q \in Prices : \A j \in 1 .. Len(resting[s][q]) :
         resting[s][q][j].id = id => s = side /\ q = p /\ j = i
  <2> SUFFICES ASSUME NEW s \in Sides, NEW q \in Prices, NEW j \in 1 .. Len(resting[s][q]),
                      resting[s][q][j].id = id
               PROVE  s = side /\ q = p /\ j = i OBVIOUS
  <2>1. i \in 1 .. Len(resting[side][p]) /\ resting[side][p][i].id = resting[s][q][j].id BY <1>1, <1>2
  <2>2. OrdersInv OBVIOUS
  <2> HIDE <1>4, <1>5, <1>6, <1>7, <1>8
  <2> QED BY <2>1, <2>2, RestingPlace
<1>10. resting' = [resting EXCEPT ![side][p] = new] BY <1>2, <1>3
<1>11. BookInv'
  <2>1. PICK ids : ids = {id} OBVIOUS
  <2>2. \A s \in Sides, q \in Prices : \A j \in 1 .. Len(resting[s][q]) :
           resting[s][q][j].id \in ids => s = side /\ q = p BY <1>9, <2>1
  <2>3. ASSUME NEW m \in 1 .. Len(new) PROVE WillRestAt(new[m], side, p)
    <3>1. PICK j \in 1 .. Len(queue) : j # i /\ new[m] = queue[j] BY <1>5
    <3>2. RestsAt(queue[j], side, p) BY <1>1 DEF OrdersInv, BookInv
    <3>3. PICK x : x = queue[j].id OBVIOUS
    <3>4. x # id BY <1>1, <1>9, <3>1, <3>3
    <3>5. /\ x \in 1 .. Len(requests') /\ requests'[x] = requests[x] /\ Left(x)' = Left(x)
      BY <1>8, <3>2, <3>3, <3>4 DEF Untouched, RestsAt
    <3> QED BY <3>1, <3>2, <3>3, <3>5 DEF RestsAt, WillRestAt, Left
  <2>4. Untouched(ids) BY <1>8, <2>1
  <2>5. new \in Seq(Resting) /\ Apart(new) BY <1>5
  <2> QED BY <1>10, <2>2, <2>3, <2>4, <2>5, BookWithNewQueue
<1>12. PoolInv' /\ \A o : InPool(o)' = InPool(o) BY <1>6, <1>7, <1>8, PoolKept
<1>13. HandInv' BY <1>6 DEF OrdersInv, HandInv, NoOrder
<1>14. \A o : o # id => (InQueue(o)' <=> InQueue(o))
  <2> SUFFICES ASSUME NEW o, o # id PROVE InQueue(o)' <=> InQueue(o) OBVIOUS
  <2>1. i \in 1 .. Len(resting[side][p]) /\ o # resting[side][p][i].id BY <1>1, <1>2
  <2>2. \A m \in 1 .. Len(new) : new[m].id = o =>
           \E j \in 1 .. Len(resting[side][p]) : resting[side][p][j].id = o
    <3>1. \A m \in 1 .. Len(new) : \E j \in 1 .. Len(queue) : new[m].id = queue[j].id BY <1>5
    <3> QED BY <1>1, <3>1
  <2>3. \A j \in 1 .. Len(resting[side][p]) : j # i =>
           \E m \in 1 .. Len(new) : new[m].id = resting[side][p][j].id BY <1>1, <1>5
  <2>4. new \in Seq(Resting) BY <1>5
  <2>5. KeepsTheId(side, p, new, i, o) BY <2>1, <2>2, <2>3, <2>4 DEF KeepsTheId
  <2> QED BY <1>10, <2>5, InQueueWithNewQueue
<1>15. PlacesInv'
  <2>0. \A o : InHand(o)' = InHand(o) BY <1>6 DEF InHand
  <2>1. ASSUME NEW o \in 1 .. Len(requests')
        PROVE  /\ ~(InQueue(o) /\ InPool(o))' /\ ~(InQueue(o) /\ InHand(o))'
               /\ ~(InPool(o) /\ InHand(o))'
               /\ (InQueue(o) \/ InPool(o) \/ InHand(o) \/ Left(o) = 0)'
    <3>0. o \in 1 .. Len(requests) BY <1>6
    <3>1. CASE o = id BY <1>7, <1>8, <1>12, <2>0, <3>1
    <3>2. CASE o # id BY <1>8, <1>12, <1>14, <2>0, <3>0, <3>2 DEF OrdersInv, PlacesInv, Untouched
    <3> QED BY <3>1, <3>2
  <2> QED BY <2>1 DEF PlacesInv
<1> QED BY <1>8, <1>11, <1>12, <1>13, <1>15 DEF OrdersInv

\* or from the pool, and nothing is left of it.
LEMMA CancelPendingKeepsOrders ==
  ASSUME IInv, OrdersInv, NEW id \in 1 .. MaxSubmissions, CancelPending(id) PROVE OrdersInv'
<1>1. PICK i \in 1 .. Len(pendingStops) :
         /\ pendingStops[i].id = id
         /\ pendingStops' = RemoveAt(pendingStops, i)
         /\ withdrawn' = [withdrawn EXCEPT ![id] = @ + pendingStops[i].quantity] BY DEF CancelPending
<1>2. /\ pc = "idle" /\ pc' = "idle" /\ incoming' = incoming /\ resting' = resting
      /\ UNCHANGED <<nextId, requests, filled>> BY DEF CancelPending, thread
<1>3. /\ id \in 1 .. Len(requests) /\ Left(id) = pendingStops[i].quantity
      /\ InPool(id) /\ ~InQueue(id) /\ ~InHand(id) BY <1>1 DEF OrdersInv, PoolInv, InPool, IsArmed, PlacesInv
<1>4. LogsInv' /\ Untouched({id}) /\ Left(id)' = 0
  <2>1. PICK n : n = Left(id) OBVIOUS
  <2> QED BY <1>1, <1>2, <1>3, <2>1, AllWithdrawn
<1>5. PoolInv' /\ \A o : InPool(o)' <=> InPool(o) /\ o # id BY <1>1, <1>4, PoolShrinks
<1>6. BookInv' /\ \A o : InQueue(o)' = InQueue(o) BY <1>2, <1>3, <1>4, BookKept
<1>7. HandInv' BY <1>2 DEF OrdersInv, HandInv, NoOrder
<1>8. PlacesInv'
  <2>0. \A o : InHand(o)' = InHand(o) BY <1>2 DEF InHand
  <2>1. ASSUME NEW o \in 1 .. Len(requests')
        PROVE  /\ ~(InQueue(o) /\ InPool(o))' /\ ~(InQueue(o) /\ InHand(o))'
               /\ ~(InPool(o) /\ InHand(o))'
               /\ (InQueue(o) \/ InPool(o) \/ InHand(o) \/ Left(o) = 0)'
    <3>0. o \in 1 .. Len(requests) BY <1>2
    <3>1. CASE o = id BY <1>3, <1>4, <1>5, <1>6, <2>0, <3>1
    <3>2. CASE o # id BY <1>4, <1>5, <1>6, <2>0, <3>0, <3>2 DEF OrdersInv, PlacesInv, Untouched
    <3> QED BY <3>1, <3>2
  <2> QED BY <2>1 DEF PlacesInv
<1> QED BY <1>4, <1>5, <1>6, <1>7, <1>8 DEF OrdersInv

\* Every step keeps each order in one place and its quantities in agreement.
LEMMA NextKeepsOrders == IInv /\ OrdersInv /\ [BookNext]_bookVars => OrdersInv'
<1> SUFFICES ASSUME IInv, OrdersInv, [BookNext]_bookVars PROVE OrdersInv' OBVIOUS
<1>1. ASSUME NEW request \in Menu, SubmitLive(request) \/ SubmitStop(request) PROVE OrdersInv'
  BY <1>1, SubmitLiveKeepsOrders, SubmitStopKeepsOrders
<1>2. ASSUME NEW id \in 1 .. MaxSubmissions, CancelResting(id) \/ CancelPending(id) PROVE OrdersInv'
  BY <1>2, CancelRestingKeepsOrders, CancelPendingKeepsOrders
<1>3. CASE FillAgainstBestSell
  BY <1>3, FillKeepsOrders
     DEF FillAgainstBestSell, CanFill, IsBest, PricesWithOrders, Opposite, Sides
<1>4. CASE FillAgainstBestBuy
  BY <1>4, FillKeepsOrders
     DEF FillAgainstBestBuy, CanFill, IsBest, PricesWithOrders, Opposite, Sides
<1>5. CASE RestRemainder BY <1>5, RestKeepsOrders
<1>6. CASE DropRemainder BY <1>6, DropKeepsOrders
<1>7. CASE TriggerFirstEligibleStop BY <1>7, TriggerKeepsOrders
<1>8. CASE CallReturns \/ TriggerTestPanics \/ UNCHANGED bookVars BY <1>8, EndKeepsOrders
<1> QED BY <1>1, <1>2, <1>3, <1>4, <1>5, <1>6, <1>7, <1>8 DEF BookNext, Call, Step

--------------------
\* The places of the book are those of its queues.
LEMMA EntriesOfTheBook ==
  /\ \A l : l \in RestingEntries <=>
        \E side \in Sides, p \in Prices : \E i \in 1 .. Len(resting[side][p]) :
            l = <<side, p, i>>
  /\ \A side, p, i : EntryAt(<<side, p, i>>) = resting[side][p][i]
<1> DEFINE places(side, p) == {<<side, p, i>> : i \in 1 .. Len(resting[side][p])}
<1>1. RestingEntries = UNION {places(side, p) : side \in Sides, p \in Prices} BY DEF RestingEntries
<1>2. \A side, p, l : l \in places(side, p) <=>
         \E i \in 1 .. Len(resting[side][p]) : l = <<side, p, i>> OBVIOUS
<1> HIDE DEF places
<1>3. \A l : l \in RestingEntries <=>
         \E side \in Sides, p \in Prices : l \in places(side, p) BY <1>1
<1>4. \A side, p, i : EntryAt(<<side, p, i>>) = resting[side][p][i] BY DEF EntryAt
<1> QED BY <1>2, <1>3, <1>4

\* What the queues hold of an id: it has one place there at most.
LEMMA SumOnTheBook ==
  ASSUME IInv, OrdersInv, NEW id \in 1 .. Len(requests)
  PROVE  MapThenSumSet(LAMBDA l : EntryAt(l).quantity, {l \in RestingEntries : EntryAt(l).id = id})
           = IF InQueue(id) THEN Left(id) ELSE 0
<1> DEFINE places == {l \in RestingEntries : EntryAt(l).id = id}
<1>1. CASE ~InQueue(id)
  <2>1. places = {} BY <1>1, EntriesOfTheBook DEF InQueue
  <2>2. SUBSET places = {{}} BY <2>1
  <2> QED BY <1>1, <2>1, <2>2 DEF MapThenSumSet, MapThenFoldSet
<1>2. CASE InQueue(id)
  <2>1. PICK side \in Sides, p \in Prices : \E i \in 1 .. Len(resting[side][p]) :
           resting[side][p][i].id = id BY <1>2 DEF InQueue
  <2>2. PICK i \in 1 .. Len(resting[side][p]) : resting[side][p][i].id = id BY <2>1
  <2>3. PICK a : a = <<side, p, i>> OBVIOUS
  <2>4. a \in RestingEntries /\ EntryAt(a) = resting[side][p][i] BY <2>3, EntriesOfTheBook
  <2>5. ASSUME NEW l \in places PROVE l = a
    <3>1. PICK s \in Sides, q \in Prices : \E j \in 1 .. Len(resting[s][q]) : l = <<s, q, j>>
      BY <2>5, EntriesOfTheBook
    <3>2. PICK j \in 1 .. Len(resting[s][q]) : l = <<s, q, j>> BY <3>1
    <3>3. resting[s][q][j].id = resting[side][p][i].id BY <2>2, <2>5, <3>2, EntriesOfTheBook
    <3>4. side = s /\ p = q /\ i = j BY <3>3, RestingPlace
    <3> QED BY <2>3, <3>2, <3>4
  <2>6. places = {a} BY <2>2, <2>4, <2>5
  <2>7. EntryAt(a).quantity = Left(id) /\ EntryAt(a).quantity \in Nat
    BY <2>2, <2>4, RestingOrder DEF OrdersInv, BookInv, RestsAt
  <2> DEFINE body(h) == [s \in SUBSET places |->
                  IF s = {} THEN 0
                  ELSE EntryAt(CHOOSE x \in s : TRUE).quantity + h[s \ {CHOOSE x \in s : TRUE}]]
             sums == [s \in SUBSET places |-> IF s = {} THEN 0 ELSE EntryAt(a).quantity]
             sum  == CHOOSE h : h = body(h)
  <2>8. SUBSET places = {{}, {a}} /\ (CHOOSE x \in {a} : TRUE) = a BY <2>6
  <2>9. sums = body(sums)
    <3>1. ASSUME NEW s \in SUBSET places PROVE sums[s] = body(sums)[s]
      <4>1. CASE s = {} BY <4>1
      <4>2. CASE s = {a} BY <2>7, <2>8, <4>2
      <4> QED BY <2>8, <4>1, <4>2
    <3> QED BY <3>1
  <2>10. sum = body(sum)
    <3> HIDE DEF body, sums
    <3> QED BY <2>9
  <2>11. body(sum)[{a}] = EntryAt(a).quantity + sum[{}] /\ body(sum)[{}] = 0 BY <2>8
  <2>12. sum[places] = EntryAt(a).quantity
    <3> HIDE DEF body, sum, places
    <3> QED BY <2>6, <2>7, <2>10, <2>11
  <2>13. MapThenSumSet(LAMBDA l : EntryAt(l).quantity, {l \in RestingEntries : EntryAt(l).id = id})
           = sum[places] BY DEF MapThenSumSet, MapThenFoldSet
  <2> QED BY <1>2, <2>7, <2>12, <2>13
<1> QED BY <1>1, <1>2

\* What the pool holds of an id, likewise.
LEMMA SumInThePool ==
  ASSUME IInv, OrdersInv, NEW id \in 1 .. Len(requests)
  PROVE  MapThenSumSet(LAMBDA i : pendingStops[i].quantity,
                       {i \in 1 .. Len(pendingStops) : pendingStops[i].id = id})
           = IF InPool(id) THEN Left(id) ELSE 0
<1> DEFINE places == {i \in 1 .. Len(pendingStops) : pendingStops[i].id = id}
<1>1. CASE ~InPool(id)
  <2>1. places = {} BY <1>1 DEF InPool
  <2>2. SUBSET places = {{}} BY <2>1
  <2> QED BY <1>1, <2>1, <2>2 DEF MapThenSumSet, MapThenFoldSet
<1>2. CASE InPool(id)
  <2>1. PICK a \in 1 .. Len(pendingStops) : pendingStops[a].id = id BY <1>2 DEF InPool
  <2>2. places = {a} BY <2>1 DEF OrdersInv, PoolInv, Apart
  <2>3. pendingStops[a].quantity = Left(id) /\ pendingStops[a].quantity \in Nat
    BY <2>1, ArmedOrder DEF OrdersInv, PoolInv, IsArmed
  <2> DEFINE body(h) == [s \in SUBSET places |->
                  IF s = {} THEN 0
                  ELSE pendingStops[CHOOSE x \in s : TRUE].quantity
                       + h[s \ {CHOOSE x \in s : TRUE}]]
             sums == [s \in SUBSET places |-> IF s = {} THEN 0 ELSE pendingStops[a].quantity]
             sum  == CHOOSE h : h = body(h)
  <2>4. SUBSET places = {{}, {a}} /\ (CHOOSE x \in {a} : TRUE) = a BY <2>2
  <2>5. sums = body(sums)
    <3>1. ASSUME NEW s \in SUBSET places PROVE sums[s] = body(sums)[s]
      <4>1. CASE s = {} BY <4>1
      <4>2. CASE s = {a} BY <2>3, <2>4, <4>2
      <4> QED BY <2>4, <4>1, <4>2
    <3> QED BY <3>1
  <2>6. sum = body(sum)
    <3> HIDE DEF body, sums
    <3> QED BY <2>5
  <2>7. body(sum)[{a}] = pendingStops[a].quantity + sum[{}] /\ body(sum)[{}] = 0 BY <2>4
  <2>8. sum[places] = pendingStops[a].quantity
    <3> HIDE DEF body, sum, places
    <3> QED BY <2>2, <2>3, <2>6, <2>7
  <2>9. MapThenSumSet(LAMBDA i : pendingStops[i].quantity,
                      {i \in 1 .. Len(pendingStops) : pendingStops[i].id = id}) = sum[places]
    BY DEF MapThenSumSet, MapThenFoldSet
  <2> QED BY <1>2, <2>3, <2>8, <2>9
<1> QED BY <1>1, <1>2

\* So what is open of an order is what it has left.
LEMMA OpenIsLeft == ASSUME IInv, OrdersInv, NEW id \in 1 .. Len(requests) PROVE OpenQuantity(id) = Left(id)
<1> DEFINE onTheBook == MapThenSumSet(LAMBDA l : EntryAt(l).quantity,
                                      {l \in RestingEntries : EntryAt(l).id = id})
           inThePool == MapThenSumSet(LAMBDA i : pendingStops[i].quantity,
                                      {i \in 1 .. Len(pendingStops) : pendingStops[i].id = id})
           inTheHand == IF incoming.id = id THEN incoming.quantity ELSE 0
<1>1. OpenQuantity(id) = onTheBook + inThePool + inTheHand BY DEF OpenQuantity
<1>2. onTheBook = IF InQueue(id) THEN Left(id) ELSE 0 BY SumOnTheBook
<1>3. inThePool = IF InPool(id) THEN Left(id) ELSE 0 BY SumInThePool
<1> HIDE DEF onTheBook, inThePool
<1>4. inTheHand = IF InHand(id) THEN Left(id) ELSE 0
  <2>1. CASE pc = "matching" BY <2>1 DEF OrdersInv, HandInv, InHand
  <2>2. CASE pc # "matching" BY <2>2 DEF OrdersInv, HandInv, NoOrder, InHand
  <2> QED BY <2>1, <2>2
<1> HIDE DEF inTheHand
<1>5. Left(id) \in Int BY CountsAreNumbers DEF OrdersInv
<1> QED BY <1>1, <1>2, <1>3, <1>4, <1>5 DEF OrdersInv, PlacesInv

\* The books agree with the requests.
LEMMA OrdersAgree == IInv /\ OrdersInv => OrdersAreConserved
<1> SUFFICES ASSUME IInv, OrdersInv PROVE OrdersAreConserved OBVIOUS
<1>1. QuantityIsConserved
  <2>1. ASSUME NEW id \in 1 .. Len(requests)
        PROVE  filled[id] + withdrawn[id] + OpenQuantity(id) = requests[id].quantity
    BY OpenIsLeft, CountsAreNumbers DEF OrdersInv, Left
  <2> QED BY <2>1 DEF QuantityIsConserved
<1>2. OrderIsFoundWhileOpen
  <2> SUFFICES ASSUME pc = "idle", NEW id \in 1 .. Len(requests), requests[id].quantity > 0
               PROVE  StatusOf(id) # "NotFound"
                      <=> filled[id] + withdrawn[id] < requests[id].quantity BY DEF OrderIsFoundWhileOpen
  <2>1. filled[id] \in Nat /\ withdrawn[id] \in Nat /\ requests[id].quantity \in Nat
    BY CountsAreNumbers DEF OrdersInv
  <2>2. filled[id] + withdrawn[id] < requests[id].quantity <=> Left(id) > 0 BY <2>1 DEF Left
  <2>3. (\E l \in RestingEntries : EntryAt(l).id = id) <=> InQueue(id)
    <3>1. ASSUME NEW l \in RestingEntries, EntryAt(l).id = id PROVE InQueue(id)
      <4>1. PICK side \in Sides, p \in Prices : \E i \in 1 .. Len(resting[side][p]) :
               l = <<side, p, i>> BY EntriesOfTheBook
      <4>2. PICK i \in 1 .. Len(resting[side][p]) : l = <<side, p, i>> BY <4>1
      <4>3. resting[side][p][i].id = id BY <3>1, <4>2, EntriesOfTheBook
      <4> QED BY <4>3 DEF InQueue
    <3>2. ASSUME NEW side \in Sides, NEW p \in Prices, NEW i \in 1 .. Len(resting[side][p]),
                 resting[side][p][i].id = id
          PROVE  \E l \in RestingEntries : EntryAt(l).id = id
      <4>1. PICK l : l = <<side, p, i>> OBVIOUS
      <4>2. l \in RestingEntries /\ EntryAt(l).id = id BY <3>2, <4>1, EntriesOfTheBook
      <4> QED BY <4>2
    <3> QED BY <3>1, <3>2 DEF InQueue
  <2>4. StatusOf(id) # "NotFound" <=> InQueue(id) \/ InPool(id) BY <2>3 DEF StatusOf, InPool
  <2>5. InQueue(id) => Left(id) > 0
    <3> SUFFICES ASSUME NEW side \in Sides, NEW p \in Prices,
                        NEW i \in 1 .. Len(resting[side][p]), resting[side][p][i].id = id
                 PROVE  Left(id) > 0 BY DEF InQueue
    <3>1. Left(id) = resting[side][p][i].quantity BY DEF OrdersInv, BookInv, RestsAt
    <3> QED BY <3>1, RestingOrder
  <2>6. InPool(id) => Left(id) > 0 BY DEF InPool, OrdersInv, PoolInv, IsArmed
  <2>7. ~InHand(id) BY DEF OrdersInv, HandInv, NoOrder, InHand
  <2>8. Left(id) > 0 => InQueue(id) \/ InPool(id) BY <2>7 DEF OrdersInv, PlacesInv
  <2> QED BY <2>2, <2>4, <2>5, <2>6, <2>8
<1> QED BY <1>1, <1>2 DEF OrdersAreConserved

--------------------
\* The scan that ends a call has looked at every armed stop.
LEMMA StopsSwept ==
  ASSUME IInv, NoEligibleStopIsLeftArmed, [BookNext]_bookVars PROVE NoEligibleStopIsLeftArmed'
<1>1. CASE pc' # "idle" BY <1>1 DEF NoEligibleStopIsLeftArmed
<1>2. CASE CallReturns BY <1>2 DEF CallReturns, NoEligibleStopIsLeftArmed, StopsTheScan, IsTriggered, book
<1>3. ASSUME NEW id \in 1 .. MaxSubmissions, CancelPending(id) PROVE NoEligibleStopIsLeftArmed'
  <2>1. PICK k \in 1 .. Len(pendingStops) : pendingStops' = RemoveAt(pendingStops, k)
    BY <1>3 DEF CancelPending
  <2>2. pendingStops \in Seq(Orders) /\ Len(pendingStops) \in Nat BY LenProperties DEF IInv, BookTypeOK
  <2>3. \A i \in 1 .. Len(pendingStops') : \E j \in 1 .. Len(pendingStops) :
           pendingStops'[i] = pendingStops[j]
    <3> DEFINE from(i) == IF i < k THEN i ELSE i + 1
    <3>1. /\ Len(pendingStops') = Len(pendingStops) - 1
          /\ \A i \in 1 .. Len(pendingStops) - 1 : pendingStops'[i] = pendingStops[from(i)]
      BY <2>1, <2>2, RemoveAtProperties
    <3>2. \A i \in 1 .. Len(pendingStops') : from(i) \in 1 .. Len(pendingStops) BY <2>2, <3>1
    <3> QED BY <3>1, <3>2
  <2>4. pc = "idle" /\ lastTradedPrice' = lastTradedPrice BY <1>3 DEF CancelPending
  <2> QED BY <2>3, <2>4 DEF NoEligibleStopIsLeftArmed, IsTriggered
<1>4. CASE pc = "idle" /\ UNCHANGED <<pendingStops, lastTradedPrice>>
  BY <1>4 DEF NoEligibleStopIsLeftArmed, IsTriggered
<1>5. CASE UNCHANGED bookVars BY <1>5 DEF bookVars, book, thread, NoEligibleStopIsLeftArmed, IsTriggered
<1>6. CASE BookNext
  <2>1. ASSUME NEW id \in 1 .. MaxSubmissions, CancelResting(id)
        PROVE  pc = "idle" /\ UNCHANGED <<pendingStops, lastTradedPrice>> BY <2>1 DEF CancelResting
  <2>2. ASSUME NEW request \in Menu, SubmitLive(request) \/ SubmitStop(request) PROVE pc' # "idle"
    BY <2>2 DEF SubmitLive, SubmitStop
  <2>3. FillAgainstBestSell \/ FillAgainstBestBuy => pc' # "idle"
    BY DEF FillAgainstBestSell, FillAgainstBestBuy, CanFill, Fill
  <2>4. RestRemainder \/ DropRemainder \/ TriggerFirstEligibleStop \/ TriggerTestPanics
           => pc' # "idle"
    BY DEF RestRemainder, DropRemainder, MatchingEnds, TriggerFirstEligibleStop,
           TriggerTestPanics
  <2> QED BY <1>1, <1>2, <1>3, <1>4, <1>6, <2>1, <2>2, <2>3, <2>4 DEF BookNext, Call, Step
<1> QED BY <1>5, <1>6

--------------------
\* Only a fill fills, and only the oldest order at the best price and the incoming one.
LEMMA OnlyFillsFill ==
  ASSUME IInv, OrdersInv, [BookNext]_bookVars,
         NEW id \in 1 .. Len(requests), filled'[id] > filled[id]
  PROVE  \E side \in Sides, p \in Prices :
            /\ Fill(side, p) /\ CanFill(p) /\ side = Opposite(incoming.request.side)
            /\ resting[side][p] # <<>>
            /\ id = resting[side][p][1].id \/ id = incoming.id
<1>0. filled \in Seq(Nat) /\ Len(filled) = Len(requests) /\ filled[id] \in Nat
      /\ DOMAIN filled = 1 .. Len(requests) BY CountsAreNumbers DEF IInv, BookTypeOK, OrdersInv, LogsInv
<1>1. filled' # filled BY <1>0
<1>2. ASSUME NEW request \in Menu PROVE ~(SubmitLive(request) \/ SubmitStop(request))
  <2>1. SUFFICES ASSUME TakeId(request) PROVE FALSE BY DEF SubmitLive, SubmitStop
  <2>2. filled' = Append(filled, 0) BY <2>1 DEF TakeId
  <2>3. id \in 1 .. Len(filled) BY <1>0
  <2>4. filled'[id] = filled[id] BY <1>0, <2>2, <2>3, AppendProperties
  <2> QED BY <1>0, <2>4
<1>3. ASSUME NEW i \in 1 .. MaxSubmissions PROVE ~(CancelResting(i) \/ CancelPending(i))
  BY <1>1 DEF CancelResting, CancelPending
<1>4. ~(RestRemainder \/ DropRemainder \/ TriggerFirstEligibleStop \/ TriggerTestPanics
        \/ CallReturns \/ UNCHANGED bookVars)
  BY <1>1 DEF RestRemainder, DropRemainder, TriggerFirstEligibleStop, TriggerTestPanics,
              CallReturns, bookVars, ghosts
<1>5. FillAgainstBestSell \/ FillAgainstBestBuy BY <1>2, <1>3, <1>4 DEF BookNext, Call, Step
<1>6. PICK side \in Sides, p \in Prices :
         Fill(side, p) /\ CanFill(p) /\ side = Opposite(incoming.request.side)
  BY <1>5 DEF FillAgainstBestSell, FillAgainstBestBuy, Opposite, Sides
<1>7. resting[side][p] # <<>> BY <1>6 DEF CanFill, IsBest, PricesWithOrders
<1>8. id = resting[side][p][1].id \/ id = incoming.id
  <2> SUFFICES ASSUME id # resting[side][p][1].id, id # incoming.id PROVE FALSE OBVIOUS
  <2>1. Head(resting[side][p]) = resting[side][p][1] BY <1>7 DEF IInv, BookTypeOK
  <2> DEFINE oldest   == Head(resting[side][p])
             executed == IF incoming.quantity < oldest.quantity
                         THEN incoming.quantity ELSE oldest.quantity
  <2>2. filled' = [o \in DOMAIN filled |->
                      filled[o] + IF o \in {oldest.id, incoming.id} THEN executed ELSE 0] BY <1>6 DEF Fill
  <2>3. filled'[id] = filled[id] + 0
    <3> HIDE DEF executed
    <3> QED BY <1>0, <2>1, <2>2
  <2> QED BY <1>0, <2>3
<1> QED BY <1>6, <1>7, <1>8

\* A fill on the book is of the front of the best queue.
LEMMA FilledAtTheFront ==
  ASSUME IInv, OrdersInv, [BookNext]_bookVars
  PROVE  \A l \in FilledFromBook, m \in RestingEntries :
            m[1] = l[1] =>
               /\ IF l[1] = "Buy" THEN m[2] <= l[2] ELSE m[2] >= l[2]
               /\ m[2] = l[2] => EntryAt(m).arrival >= EntryAt(l).arrival
<1> SUFFICES ASSUME NEW l \in FilledFromBook, NEW m \in RestingEntries, m[1] = l[1]
             PROVE  /\ IF l[1] = "Buy" THEN m[2] <= l[2] ELSE m[2] >= l[2]
                    /\ m[2] = l[2] => EntryAt(m).arrival >= EntryAt(l).arrival OBVIOUS
<1>1. l \in RestingEntries /\ filled'[EntryAt(l).id] > filled[EntryAt(l).id] BY DEF FilledFromBook
<1>2. PICK s \in Sides, q \in Prices : \E i \in 1 .. Len(resting[s][q]) : l = <<s, q, i>>
  BY <1>1, EntriesOfTheBook
<1>3. PICK i \in 1 .. Len(resting[s][q]) : l = <<s, q, i>> BY <1>2
<1>4. PICK t \in Sides, r \in Prices : \E j \in 1 .. Len(resting[t][r]) : m = <<t, r, j>> BY EntriesOfTheBook
<1>5. PICK j \in 1 .. Len(resting[t][r]) : m = <<t, r, j>> BY <1>4
<1>6. PICK id : id = resting[s][q][i].id OBVIOUS
<1>7. EntryAt(l) = resting[s][q][i] /\ EntryAt(m) = resting[t][r][j] /\ t = s BY <1>3, <1>5, EntriesOfTheBook
<1>8. InQueue(id) /\ filled'[id] > filled[id] BY <1>1, <1>6, <1>7 DEF InQueue
<1>9. id \in 1 .. Len(requests) /\ id # incoming.id
  BY <1>8, PlacedIdsAreKnown DEF OrdersInv, PlacesInv, InHand
<1>10. PICK side \in Sides, p \in Prices :
          /\ CanFill(p) /\ side = Opposite(incoming.request.side) /\ resting[side][p] # <<>>
          /\ id = resting[side][p][1].id BY <1>8, <1>9, OnlyFillsFill
<1>11. 1 \in 1 .. Len(resting[side][p]) /\ resting[side][p] \in Seq(Resting) BY <1>10 DEF IInv, BookTypeOK
<1>12. s = side /\ q = p /\ i = 1
  <2>1. resting[side][p][1].id = resting[s][q][i].id BY <1>6, <1>10
  <2> QED BY <1>11, <2>1, RestingPlace
<1>13. r \in PricesWithOrders(side) BY <1>5, <1>7, <1>12 DEF PricesWithOrders
<1>14. IF side = "Buy" THEN r <= p ELSE r >= p BY <1>10, <1>13 DEF CanFill, IsBest
<1>15. r = q => resting[t][r][j].arrival >= resting[s][q][i].arrival
  <2> SUFFICES ASSUME r = q PROVE resting[s][q][j].arrival >= resting[s][q][1].arrival BY <1>7, <1>12
  <2>1. j \in 1 .. Len(resting[s][q]) /\ 1 \in 1 .. Len(resting[s][q]) BY <1>7, <1>11, <1>12
  <2>2. InOrder(resting[s][q]) BY DEF IInv, QueuesInv
  <2>3. resting[s][q][j].arrival \in Nat /\ resting[s][q][1].arrival \in Nat BY <2>1, RestingOrder
  <2>4. j = 1 \/ 1 < j BY <2>1
  <2> QED BY <2>1, <2>2, <2>3, <2>4 DEF InOrder
<1> QED BY <1>3, <1>5, <1>7, <1>12, <1>14, <1>15

\* Both sides of a fill trade within their limits.
LEMMA FilledWithinTheLimit ==
  ASSUME IInv, OrdersInv, [BookNext]_bookVars
  PROVE  \A id \in 1 .. Len(requests) :
            (filled'[id] > filled[id] /\ requests[id].type \in {"Limit", "StopLossLimit"}) =>
               IF requests[id].side = "Buy" THEN latestFill' <= requests[id].limit
                                            ELSE latestFill' >= requests[id].limit
<1> SUFFICES ASSUME NEW id \in 1 .. Len(requests), filled'[id] > filled[id],
                    requests[id].type \in {"Limit", "StopLossLimit"}
             PROVE  IF requests[id].side = "Buy" THEN latestFill' <= requests[id].limit
                                                 ELSE latestFill' >= requests[id].limit OBVIOUS
<1>1. PICK side \in Sides, p \in Prices :
         /\ Fill(side, p) /\ CanFill(p) /\ resting[side][p] # <<>>
         /\ id = resting[side][p][1].id \/ id = incoming.id BY OnlyFillsFill
<1>2. latestFill' = p /\ p \in Int /\ pc = "matching" BY <1>1, PricesAssumption DEF Fill, CanFill, Prices
<1>3. CASE id = resting[side][p][1].id
  <2>1. 1 \in 1 .. Len(resting[side][p]) BY <1>1 DEF IInv, BookTypeOK
  <2>2. requests[id].limit = p BY <1>3, <2>1 DEF OrdersInv, BookInv, RestsAt
  <2> QED BY <1>2, <2>2
<1>4. CASE id = incoming.id BY <1>2, <1>4, <1>1 DEF OrdersInv, HandInv, CanFill, Crosses
<1> QED BY <1>1, <1>3, <1>4

--------------------
\* Every state satisfies both invariants.
LEMMA OrdersInvariance == BookSpec => [](IInv /\ OrdersInv)
<1>1. BookInit => IInv /\ OrdersInv BY InitEstablishesIInv, OrdersInvInitially
<1>2. (IInv /\ OrdersInv) /\ [BookNext]_bookVars => (IInv /\ OrdersInv)' BY NextPreservesIInv, NextKeepsOrders
<1> QED BY <1>1, <1>2, PTL DEF BookSpec

\* Nothing an order asked for is lost, filled twice or brought back, and between calls an
\* order is found exactly as long as it has something left, for any menu and any cascade.
THEOREM OrdersConserved == BookSpec => []OrdersAreConserved BY OrdersInvariance, OrdersAgree, PTL

\* Between calls no armed stop is one the last price triggers.
THEOREM StopsAreSwept == BookSpec => []NoEligibleStopIsLeftArmed
<1>1. BookInit => NoEligibleStopIsLeftArmed BY DEF BookInit, NoEligibleStopIsLeftArmed
<1>2. (IInv /\ NoEligibleStopIsLeftArmed) /\ [BookNext]_bookVars => NoEligibleStopIsLeftArmed' BY StopsSwept
<1> QED BY <1>1, <1>2, InitEstablishesIInv, NextPreservesIInv, PTL DEF BookSpec

\* An order is filled only when none of its side rests at a better price or came to rest
\* earlier at the same price.
THEOREM PricePriority == BookSpec => PriceTimePriority
<1>1. IInv /\ OrdersInv /\ [BookNext]_bookVars =>
         [\A l \in FilledFromBook, m \in RestingEntries :
             m[1] = l[1] =>
                /\ IF l[1] = "Buy" THEN m[2] <= l[2] ELSE m[2] >= l[2]
                /\ m[2] = l[2] => EntryAt(m).arrival >= EntryAt(l).arrival]_bookVars BY FilledAtTheFront
<1>2. BookSpec => [][BookNext]_bookVars BY PTL DEF BookSpec
<1> QED BY <1>1, <1>2, OrdersInvariance, PTL DEF PriceTimePriority

\* A limit order, triggered or not, never trades at a price worse than its limit.
THEOREM LimitsRespected == BookSpec => NoFillBeyondTheLimit
<1>1. IInv /\ OrdersInv /\ [BookNext]_bookVars =>
         [\A id \in 1 .. Len(requests) :
             (filled'[id] > filled[id] /\ requests[id].type \in {"Limit", "StopLossLimit"}) =>
                IF requests[id].side = "Buy" THEN latestFill' <= requests[id].limit
                                             ELSE latestFill' >= requests[id].limit]_bookVars
  BY FilledWithinTheLimit
<1>2. BookSpec => [][BookNext]_bookVars BY PTL DEF BookSpec
<1> QED BY <1>1, <1>2, OrdersInvariance, PTL DEF NoFillBeyondTheLimit
====================
