-------- MODULE SpscRingBuffer --------
(***************************************************************************)
(* lockFreeSpscRingBuffer.rs: the bounded single-producer single-consumer  *)
(* queue that carries requests and responses between the network thread    *)
(* and the matching-core thread.                                           *)
(*                                                                         *)
(* The two shared indices count pushes and pops modulo IndexModulus (2^64  *)
(* for a usize); a slot is found by masking.  An atomic load may return    *)
(* any value stored since the last one this thread saw, and it makes       *)
(* visible what the store that wrote that value published: readsSeen and   *)
(* writesSeen count the slot accesses of the other thread that happen      *)
(* before this thread's next step.                                         *)
(***************************************************************************)
EXTENDS Integers, Sequences

CONSTANTS
    Items,         \* values pushed
    NoItem,        \* what an uninitialised slot, or an empty hand, holds
    Capacity,      \* slots; a nonzero power of two
    IndexModulus,  \* indices wrap around at this power of two
    MaxPushes      \* bound: pushes that complete

ASSUME NoItemAssumption == NoItem \notin Items
ASSUME CapacityAssumption == Capacity \in Nat \ {0}
ASSUME IndexModulusAssumption ==
    /\ IndexModulus \in Nat
    /\ IndexModulus > Capacity
    /\ IndexModulus % Capacity = 0
ASSUME MaxPushesAssumption == MaxPushes \in Nat

VARIABLES
    slots,            \* the backing array
    headIndex,        \* shared: items popped, written by the consumer
    tailIndex,        \* shared: items pushed, written by the producer
    localTailIndex, cachedHeadIndex,   \* the producer handle
    localHeadIndex, cachedTailIndex,   \* the consumer handle
    producer,         \* where the producer's call is: [at, value, blocking]
    consumer,         \* where the consumer's call is: [at, value, blocking]
    readsSeen,        \* slot reads that happen before the producer's next step
    writesSeen,       \* slot writes that happen before the consumer's next step
    pushed,           \* history: items whose push has returned Ok
    popped,           \* history: items whose pop has returned
    dropped           \* history: items destroyed by Drop

producerVars == <<localTailIndex, cachedHeadIndex, producer, readsSeen, pushed>>
consumerVars == <<localHeadIndex, cachedTailIndex, consumer, writesSeen, popped>>
vars == <<slots, headIndex, tailIndex, producerVars, consumerVars, dropped>>

--------------------
Indices == 0 .. IndexModulus - 1

\* index.wrapping_add(by) and later.wrapping_sub(earlier) of a usize.
WrappingAdd(index, by) == (index + by) % IndexModulus
WrappingSub(later, earlier) == (later - earlier) % IndexModulus

\* index & capacityMask, Capacity being a power of two.
SlotOf(index) == index % Capacity

LooksFull(tail, head) == WrappingSub(tail, head) = Capacity

\* How many stores an atomic load may skip ahead of the value last seen.
LoadsOf(shared, cached) == 0 .. WrappingSub(shared, cached)

Idle == [at |-> "idle", value |-> NoItem, blocking |-> FALSE]
Gone == [Idle EXCEPT !.at = "gone"]

\* splitIntoSpscProducerConsumerHandles
Init ==
    /\ slots = [s \in 0 .. Capacity - 1 |-> NoItem]
    /\ headIndex = 0 /\ tailIndex = 0
    /\ localTailIndex = 0 /\ cachedHeadIndex = 0
    /\ localHeadIndex = 0 /\ cachedTailIndex = 0
    /\ producer = Idle /\ consumer = Idle
    /\ readsSeen = 0 /\ writesSeen = 0
    /\ pushed = <<>> /\ popped = <<>> /\ dropped = <<>>

--------------------
(* The producer: tryPush, and push, which calls it until it succeeds. *)

CallPush(item, blocking) ==
    /\ producer.at = "idle" /\ Len(pushed) < MaxPushes
    /\ producer' = [at |-> "check", value |-> item, blocking |-> blocking]
    /\ UNCHANGED <<slots, headIndex, tailIndex, localTailIndex, cachedHeadIndex,
                   readsSeen, pushed, consumerVars, dropped>>

FindsRoomInCache ==
    /\ producer.at = "check"
    /\ ~LooksFull(localTailIndex, cachedHeadIndex)
    /\ producer' = [producer EXCEPT !.at = "write"]
    /\ UNCHANGED <<slots, headIndex, tailIndex, localTailIndex, cachedHeadIndex,
                   readsSeen, pushed, consumerVars, dropped>>

\* headIndex.load(Acquire)
LoadHead(ahead) ==
    /\ cachedHeadIndex' = WrappingAdd(cachedHeadIndex, ahead)
    /\ readsSeen' = readsSeen + ahead

\* The cache says full: the refreshed value decides.  A push that still finds
\* no room spins; a tryPush hands the value back.
RefreshHead(ahead) ==
    /\ producer.at = "check"
    /\ LooksFull(localTailIndex, cachedHeadIndex)
    /\ ahead \in LoadsOf(headIndex, cachedHeadIndex)
    /\ LoadHead(ahead)
    /\ producer' =
          IF ~LooksFull(localTailIndex, cachedHeadIndex')
          THEN [producer EXCEPT !.at = "write"]
          ELSE IF producer.blocking THEN producer ELSE Idle
    /\ UNCHANGED <<slots, headIndex, tailIndex, localTailIndex, pushed,
                   consumerVars, dropped>>

WriteSlot ==
    /\ producer.at = "write"
    /\ slots' = [slots EXCEPT ![SlotOf(localTailIndex)] = producer.value]
    /\ producer' = [producer EXCEPT !.at = "publish"]
    /\ UNCHANGED <<headIndex, tailIndex, localTailIndex, cachedHeadIndex,
                   readsSeen, pushed, consumerVars, dropped>>

\* tailIndex.store(Release)
PublishTail ==
    /\ producer.at = "publish"
    /\ localTailIndex' = WrappingAdd(localTailIndex, 1)
    /\ tailIndex' = localTailIndex'
    /\ pushed' = Append(pushed, producer.value)
    /\ producer' = Idle
    /\ UNCHANGED <<slots, headIndex, cachedHeadIndex, readsSeen, consumerVars, dropped>>

--------------------
(* The consumer: tryPop, and pop, which calls it until it succeeds. *)

CallPop(blocking) ==
    /\ consumer.at = "idle"
    /\ consumer' = [at |-> "check", value |-> NoItem, blocking |-> blocking]
    /\ UNCHANGED <<slots, headIndex, tailIndex, localHeadIndex, cachedTailIndex,
                   writesSeen, popped, producerVars, dropped>>

FindsItemInCache ==
    /\ consumer.at = "check"
    /\ localHeadIndex # cachedTailIndex
    /\ consumer' = [consumer EXCEPT !.at = "read"]
    /\ UNCHANGED <<slots, headIndex, tailIndex, localHeadIndex, cachedTailIndex,
                   writesSeen, popped, producerVars, dropped>>

\* Mutant: the cached tail is not refreshed.
KeepCachedTail(ahead) == UNCHANGED <<cachedTailIndex, writesSeen>>

\* tailIndex.load(Acquire)
LoadTail(ahead) ==
    /\ cachedTailIndex' = WrappingAdd(cachedTailIndex, ahead)
    /\ writesSeen' = writesSeen + ahead

RefreshTail(ahead) ==
    /\ consumer.at = "check"
    /\ localHeadIndex = cachedTailIndex
    /\ ahead \in LoadsOf(tailIndex, cachedTailIndex)
    /\ LoadTail(ahead)
    /\ consumer' =
          IF localHeadIndex # cachedTailIndex'
          THEN [consumer EXCEPT !.at = "read"]
          ELSE IF consumer.blocking THEN consumer ELSE Idle
    /\ UNCHANGED <<slots, headIndex, tailIndex, localHeadIndex, popped,
                   producerVars, dropped>>

\* assume_init_read moves the value out; the slot's bits are never read again.
ReadSlot ==
    /\ consumer.at = "read"
    /\ consumer' = [consumer EXCEPT !.at = "publish",
                                    !.value = slots[SlotOf(localHeadIndex)]]
    /\ UNCHANGED <<slots, headIndex, tailIndex, localHeadIndex, cachedTailIndex,
                   writesSeen, popped, producerVars, dropped>>

\* headIndex.store(Release)
PublishHead ==
    /\ consumer.at = "publish"
    /\ localHeadIndex' = WrappingAdd(localHeadIndex, 1)
    /\ headIndex' = localHeadIndex'
    /\ popped' = Append(popped, consumer.value)
    /\ consumer' = Idle
    /\ UNCHANGED <<slots, tailIndex, cachedTailIndex, writesSeen, producerVars, dropped>>

--------------------
(* The handles are dropped in either order; the last one frees the buffer. *)

\* The items a drop of the shared buffer walks over, from head to tail.
ItemsBetweenIndices ==
    [i \in 1 .. WrappingSub(tailIndex, headIndex) |->
        slots[SlotOf(WrappingAdd(headIndex, i - 1))]]

\* Mutant: the walk over the leftover items compares without wrapping around.
LastHandleLeavesUnwrapped(otherHandle) ==
    dropped' = IF otherHandle # Gone THEN dropped
               ELSE [i \in 1 .. tailIndex - headIndex |->
                        slots[SlotOf(WrappingAdd(headIndex, i - 1))]]

LastHandleLeaves(otherHandle) ==
    dropped' = IF otherHandle = Gone THEN ItemsBetweenIndices ELSE dropped

DropProducerHandle ==
    /\ producer.at = "idle"
    /\ producer' = Gone
    /\ LastHandleLeaves(consumer)
    /\ UNCHANGED <<slots, headIndex, tailIndex, localTailIndex, cachedHeadIndex,
                   readsSeen, pushed, consumerVars>>

DropConsumerHandle ==
    /\ consumer.at = "idle"
    /\ consumer' = Gone
    /\ LastHandleLeaves(producer)
    /\ UNCHANGED <<slots, headIndex, tailIndex, localHeadIndex, cachedTailIndex,
                   writesSeen, popped, producerVars>>

--------------------
ProducerStep ==
    \/ FindsRoomInCache
    \/ \E ahead \in Indices : RefreshHead(ahead)
    \/ WriteSlot
    \/ PublishTail

ConsumerStep ==
    \/ FindsItemInCache
    \/ \E ahead \in Indices : RefreshTail(ahead)
    \/ ReadSlot
    \/ PublishHead

Next ==
    \/ \E item \in Items, blocking \in BOOLEAN : CallPush(item, blocking)
    \/ ProducerStep
    \/ \E blocking \in BOOLEAN : CallPop(blocking)
    \/ ConsumerStep
    \/ DropProducerHandle
    \/ DropConsumerHandle

Spec == Init /\ [][Next]_vars

\* Both threads keep running, and a store becomes visible in finite time: a
\* load repeated for ever returns the newest value again and again.
Fairness ==
    /\ WF_vars(ProducerStep)
    /\ WF_vars(ConsumerStep)
    /\ SF_vars(RefreshHead(WrappingSub(headIndex, cachedHeadIndex)))
    /\ SF_vars(RefreshTail(WrappingSub(tailIndex, cachedTailIndex)))

FairSpec == Spec /\ Fairness

--------------------
(* Properties *)

CallPoints == {"idle", "check", "write", "read", "publish", "gone"}
Calls == [at : CallPoints, value : Items \cup {NoItem}, blocking : BOOLEAN]

\* Every variable has its type: the indices stay within a usize.
TypeOK ==
    /\ slots \in [0 .. Capacity - 1 -> Items \cup {NoItem}]
    /\ {headIndex, tailIndex, localTailIndex, cachedHeadIndex,
        localHeadIndex, cachedTailIndex} \subseteq Indices
    /\ producer \in Calls /\ consumer \in Calls
    /\ readsSeen \in Nat /\ writesSeen \in Nat
    /\ pushed \in Seq(Items)
    /\ popped \in Seq(Items \cup {NoItem})
    /\ dropped \in Seq(Items \cup {NoItem})

\* The SAFETY MODEL of the module header: a slot is written only after the read
\* that emptied it happened before the write, and read only after the write that
\* filled it happened before the read; so no slot access is a data race.
NoSlotIsRacedOn ==
    /\ producer.at = "write" => Len(pushed) < readsSeen + Capacity
    /\ consumer.at = "read"  => Len(popped) < writesSeen

\* The buffer is a bounded first-in first-out queue: each tryPush that returns
\* Ok is one Push, each tryPop that returns an item one Pop, and the Drop of
\* the shared buffer destroys exactly what was left in it.
Fifo == INSTANCE BoundedFifo WITH
    queue <- IF producer = Gone /\ consumer = Gone THEN <<>> ELSE ItemsBetweenIndices,
    delivered <- popped,
    discarded <- dropped
ImplementsBoundedFifo == Fifo!Spec

\* pop() returns once something was pushed for it, and push() once a pop made
\* room: neither spins for ever on a stale cached index.
SpinsEnd ==
    /\ (consumer.at = "check" /\ Len(pushed) > Len(popped)) ~> (consumer.at # "check")
    /\ (producer.at = "check" /\ Len(pushed) - Len(popped) < Capacity)
          ~> (producer.at # "check")
====================
