-------- MODULE EngineProcessProofs --------
(***************************************************************************)
(* Proofs about the process of the matching engine around its book: what   *)
(* its threads hand to each other, and what it writes to its log.          *)
(*                                                                         *)
(* A ring (for every capacity and index width): the indices are the        *)
(* numbers of pushes and pops, reduced; an index a side has cached is a    *)
(* number the other side had passed, so what the cache leaves room for can *)
(* only become more; and as the modulus is a multiple of the capacity and  *)
(* larger, distances and slots can be told from the reduced numbers.       *)
(* The request loop: the network thread has at most one line out, and      *)
(* where it stands says what the rings and the core hold.                  *)
(* The log (for every set of orders, every bound and every way an append   *)
(* may end): an append never touches a line that has its newline, so a     *)
(* command on such a line stays there; between applying a command and      *)
(* sending the response its record is either the first of those to append  *)
(* (NotYetLogged) or in the log (AlreadyLogged).  And the book is what the *)
(* log replays to, or ahead of it by the one command (BookIsLogged,        *)
(* BookIsAhead), which is what makes a restart faithful.                   *)
(***************************************************************************)
EXTENDS EngineThreads, WriteAheadLog, SumTheorems, SequenceTheorems

--------------------
(* Arithmetic modulo a positive number.                                    *)

\* An integer is a multiple of the modulus and its remainder.
LEMMA DivMod ==
  ASSUME NEW a \in Int, NEW M \in Nat \ {0} PROVE \E q \in Int, m \in Int : m = M * q /\ a = m + (a % M)
<1>1. a \div M \in Int /\ M * (a \div M) \in Int OBVIOUS
<1>2. a = M * (a \div M) + (a % M) OBVIOUS
<1> QED BY <1>1, <1>2

\* A remainder lies below the modulus.
LEMMA ModRange == ASSUME NEW a \in Int, NEW M \in Nat \ {0} PROVE a % M \in 0 .. M - 1 OBVIOUS

\* A number below the modulus, moved by a multiple of it, is the remainder.
LEMMA ModUnique == ASSUME NEW M \in Nat \ {0}, NEW q \in Int, NEW r \in 0 .. M - 1 PROVE (M * q + r) % M = r
OBVIOUS

\* Moving a number by a multiple of the modulus keeps its remainder.
LEMMA ModShift ==
  ASSUME NEW M \in Nat \ {0}, NEW a \in Int, NEW b \in Int, NEW q \in Int,
         b = a + M * q
  PROVE  b % M = a % M
<1>1. PICK p \in Int, mp \in Int : mp = M * p /\ a = mp + (a % M) BY DivMod
<1>2. a % M \in 0 .. M - 1 BY ModRange
<1>3. PICK r \in 0 .. M - 1 : r = a % M BY <1>2
<1>4. PICK mq \in Int : mq = M * q OBVIOUS
<1>5. M * (p + q) = mp + mq BY <1>1, <1>4
<1>6. b = (mp + mq) + r BY <1>1, <1>3, <1>4
<1>7. b = M * (p + q) + r BY <1>5, <1>6
<1>8. (M * (p + q) + r) % M = r BY ModUnique
<1> QED BY <1>3, <1>7, <1>8

\* Two numbers less than the modulus apart: their difference is that of their remainders.
LEMMA ModDiff ==
  ASSUME NEW M \in Nat \ {0}, NEW x \in Int, NEW y \in Int, x <= y, y - x < M
  PROVE  ((y % M) - (x % M)) % M = y - x
<1>1. PICK p \in Int, mp \in Int : mp = M * p /\ x = mp + (x % M) BY DivMod
<1>2. PICK q \in Int, mq \in Int : mq = M * q /\ y = mq + (y % M) BY DivMod
<1>3. PICK rx \in Int : rx = x % M BY ModRange
<1>4. PICK ry \in Int : ry = y % M BY ModRange
<1>5. M * (p - q) = mp - mq BY <1>1, <1>2
<1>6. ry - rx = (mp - mq) + (y - x) BY <1>1, <1>2, <1>3, <1>4
<1>7. y - x \in 0 .. M - 1 OBVIOUS
<1>8. (M * (p - q) + (y - x)) % M = y - x BY <1>7, ModUnique
<1> QED BY <1>3, <1>4, <1>5, <1>6, <1>8

\* Adding to the remainder or to the number leaves the same remainder.
LEMMA ModAdd == ASSUME NEW M \in Nat \ {0}, NEW x \in Int, NEW y \in Int PROVE ((x % M) + y) % M = (x + y) % M
<1>1. PICK p \in Int, mp \in Int : mp = M * p /\ x = mp + (x % M) BY DivMod
<1>2. PICK r \in Int : r = x % M BY ModRange
<1>3. x + y = (r + y) + mp BY <1>1, <1>2
<1>4. (x + y) % M = (r + y) % M
  <2>1. x + y \in Int /\ r + y \in Int /\ x + y = (r + y) + M * p BY <1>1, <1>3
  <2> QED BY <2>1, ModShift
<1> QED BY <1>2, <1>4

\* Reducing by a multiple of the second modulus first makes no difference.
LEMMA ModMod ==
  ASSUME NEW M \in Nat \ {0}, NEW K \in Nat \ {0}, M % K = 0, NEW x \in Int PROVE (x % M) % K = x % K
<1>1. PICK p \in Int, mp \in Int : mp = M * p /\ x = mp + (x % M) BY DivMod
<1>2. PICK d \in Int : M = K * d
  <2>1. PICK d \in Int, md \in Int : md = K * d /\ M = md + (M % K) BY DivMod
  <2> QED BY <2>1
<1>3. PICK r \in Int : r = x % M BY ModRange
<1>4. mp = K * (d * p) BY <1>1, <1>2
<1>5. d * p \in Int OBVIOUS
<1>6. x = r + K * (d * p) BY <1>1, <1>3, <1>4
<1>7. x % K = r % K BY <1>5, <1>6, ModShift
<1> QED BY <1>3, <1>7

\* Different numbers less than the modulus apart have different remainders.
LEMMA ModInjective ==
  ASSUME NEW K \in Nat \ {0}, NEW x \in Int, NEW y \in Int,
         x < y, y - x < K
  PROVE  x % K # y % K
<1>1. SUFFICES ASSUME x % K = y % K  PROVE FALSE OBVIOUS
<1>2. PICK r \in Int : r = x % K BY ModRange
<1>3. (r - r) % K = y - x
  <2>1. ((y % K) - (x % K)) % K = y - x BY ModDiff, x <= y
  <2> QED BY <1>1, <1>2, <2>1
<1>4. r - r = 0 /\ 0 % K = 0 OBVIOUS
<1> QED BY <1>3, <1>4

--------------------
(* The ring.  Its two indices are the numbers of pushes and pops modulo    *)
(* IndexModulus, and what each side has cached is one of the numbers the   *)
(* other side has passed.                                                  *)

Pushes == Len(pushed)
Pops == Len(popped)

\* Each index is a count of pushes or pops, reduced.
IndicesCount ==
  /\ tailIndex = Pushes % IndexModulus /\ localTailIndex = tailIndex
  /\ headIndex = Pops % IndexModulus /\ localHeadIndex = headIndex
  /\ cachedHeadIndex = readsSeen % IndexModulus
  /\ cachedTailIndex = writesSeen % IndexModulus

\* What a side has seen of the other is behind it, and never too far.
CountsFit ==
  /\ readsSeen <= Pops /\ Pops <= writesSeen
  /\ writesSeen <= Pushes /\ Pushes <= readsSeen + Capacity

\* A call that is past its test has room, or an item, that nobody can take away.
CallsKeepTheirTurn ==
  /\ producer.at \in {"check", "write", "publish"} => producer.value \in Items
  /\ producer.at \in {"write", "publish"} => Pushes < readsSeen + Capacity
  /\ producer.at = "publish" => slots[Pushes % Capacity] = producer.value
  /\ consumer.at \in {"read", "publish"} => Pops < writesSeen
  /\ consumer.at = "publish" => consumer.value = pushed[Pops + 1]

\* What was pushed and not popped is in its slot; what was popped was pushed, in order.
ItemsAreInPlace ==
  /\ \A n \in 1 .. Pushes : n > Pops => slots[(n - 1) % Capacity] = pushed[n]
  /\ \A n \in 1 .. Pops : popped[n] = pushed[n]

\* The leftover items are destroyed by the handle that goes last.
DroppedAtTheEnd ==
  /\ producer.at = "gone" => producer = Gone
  /\ consumer.at = "gone" => consumer = Gone
  /\ producer # Gone \/ consumer # Gone => dropped = <<>>

RingInv ==
  /\ TypeOK
  /\ IndicesCount
  /\ CountsFit
  /\ CallsKeepTheirTurn
  /\ ItemsAreInPlace
  /\ DroppedAtTheEnd

\* What the code does with the indices, in terms of the counts they stand for.
LEMMA IndexArithmetic ==
  ASSUME NEW n \in Nat
  PROVE  /\ n % IndexModulus \in Indices
         /\ SlotOf(n % IndexModulus) = n % Capacity
         /\ n % Capacity \in 0 .. Capacity - 1
         /\ \A k \in Int : WrappingAdd(n % IndexModulus, k) = (n + k) % IndexModulus
<1>1. IndexModulus \in Nat \ {0} /\ Capacity \in Nat \ {0} /\ IndexModulus % Capacity = 0 /\ n \in Int
  BY IndexModulusAssumption, CapacityAssumption
<1>2. n % IndexModulus \in 0 .. IndexModulus - 1 /\ n % Capacity \in 0 .. Capacity - 1 BY <1>1, ModRange
<1>3. (n % IndexModulus) % Capacity = n % Capacity BY <1>1, ModMod
<1>4. \A k \in Int : ((n % IndexModulus) + k) % IndexModulus = (n + k) % IndexModulus BY <1>1, ModAdd
<1> QED BY <1>2, <1>3, <1>4 DEF Indices, SlotOf, WrappingAdd

\* The distance of two counts, and whether they are equal, can be told from their indices.
LEMMA IndexDistance ==
  ASSUME NEW n \in Nat, NEW m \in Nat, n <= m, m <= n + Capacity
  PROVE  /\ WrappingSub(m % IndexModulus, n % IndexModulus) = m - n
         /\ n % IndexModulus = m % IndexModulus => n = m
         /\ LooksFull(m % IndexModulus, n % IndexModulus) <=> m = n + Capacity
<1>1. /\ IndexModulus \in Nat \ {0} /\ Capacity \in Nat \ {0}
      /\ IndexModulus > Capacity /\ n \in Int /\ m \in Int BY IndexModulusAssumption, CapacityAssumption
<1>2. m - n < IndexModulus BY <1>1
<1>3. WrappingSub(m % IndexModulus, n % IndexModulus) = m - n BY <1>1, <1>2, ModDiff DEF WrappingSub
<1>4. n < m => n % IndexModulus # m % IndexModulus BY <1>1, <1>2, ModInjective
<1>5. LooksFull(m % IndexModulus, n % IndexModulus) <=> m - n = Capacity BY <1>3 DEF LooksFull
<1>6. m - n = Capacity <=> m = n + Capacity BY <1>1
<1>7. n = m \/ n < m BY <1>1
<1> QED BY <1>3, <1>4, <1>5, <1>6, <1>7

\* The slots of a range of counts no longer than the buffer are different.
LEMMA SlotsDiffer ==
  ASSUME NEW n \in Nat, NEW m \in Nat, n < m, m < n + Capacity PROVE n % Capacity # m % Capacity
<1>1. Capacity \in Nat \ {0} /\ n \in Int /\ m \in Int /\ m - n < Capacity BY CapacityAssumption
<1> QED BY <1>1, ModInjective

\* The counts are numbers, and what is waiting lies in the queue's range.
LEMMA CountTypes ==
  ASSUME RingInv
  PROVE  /\ Pushes \in Nat /\ Pops \in Nat /\ readsSeen \in Nat /\ writesSeen \in Nat
         /\ Capacity \in Nat \ {0}
         /\ Pops <= Pushes /\ Pushes <= Pops + Capacity
<1>1. Pushes \in Nat /\ Pops \in Nat /\ readsSeen \in Nat /\ writesSeen \in Nat
  BY LenProperties DEF RingInv, TypeOK, Pushes, Pops
<1> QED BY <1>1, CapacityAssumption DEF RingInv, CountsFit

\* An empty ring: all counts are zero.
LEMMA RingInit == Init => RingInv
<1> SUFFICES ASSUME Init PROVE RingInv OBVIOUS
<1>1. /\ 0 % IndexModulus = 0 /\ 0 \in Indices BY IndexModulusAssumption, CapacityAssumption DEF Indices
<1>2. TypeOK BY <1>1 DEF Init, TypeOK, Idle, Calls, CallPoints
<1>3. Pushes = 0 /\ Pops = 0 BY DEF Init, Pushes, Pops
<1>4. IndicesCount BY <1>1, <1>3 DEF Init, IndicesCount
<1>5. CountsFit BY <1>3, CapacityAssumption DEF Init, CountsFit
<1>6. CallsKeepTheirTurn /\ DroppedAtTheEnd BY DEF Init, CallsKeepTheirTurn, DroppedAtTheEnd, Idle
<1>7. ItemsAreInPlace BY <1>3 DEF ItemsAreInPlace
<1> QED BY <1>2, <1>4, <1>5, <1>6, <1>7 DEF RingInv

\* Steps that only move a call along: no index, slot or history changes.
LEMMA CallsBegin ==
  ASSUME RingInv,
         \/ \E item \in Items, blocking \in BOOLEAN : CallPush(item, blocking)
         \/ \E blocking \in BOOLEAN : CallPop(blocking)
  PROVE  RingInv'
<1> USE DEF RingInv, Pushes, Pops
<1>1. CASE \E item \in Items, blocking \in BOOLEAN : CallPush(item, blocking)
  <2> PICK item \in Items, blocking \in BOOLEAN : CallPush(item, blocking) BY <1>1
  <2> USE DEF CallPush, consumerVars
  <2>1. TypeOK' BY DEF TypeOK, Calls, CallPoints
  <2>2. IndicesCount' /\ CountsFit' /\ ItemsAreInPlace' BY DEF IndicesCount, CountsFit, ItemsAreInPlace
  <2>3. CallsKeepTheirTurn' BY DEF CallsKeepTheirTurn
  <2>4. producer.at # producer'.at /\ producer' # Gone /\ producer # Gone BY DEF Gone, Idle
  <2>5. DroppedAtTheEnd' BY <2>4 DEF DroppedAtTheEnd
  <2> QED BY <2>1, <2>2, <2>3, <2>5
<1>2. CASE \E blocking \in BOOLEAN : CallPop(blocking)
  <2> PICK blocking \in BOOLEAN : CallPop(blocking) BY <1>2
  <2> USE DEF CallPop, producerVars
  <2>1. TypeOK' BY DEF TypeOK, Calls, CallPoints
  <2>2. IndicesCount' /\ CountsFit' /\ ItemsAreInPlace' BY DEF IndicesCount, CountsFit, ItemsAreInPlace
  <2>3. CallsKeepTheirTurn' BY DEF CallsKeepTheirTurn
  <2>4. consumer' # Gone /\ consumer # Gone BY DEF Gone, Idle
  <2>5. DroppedAtTheEnd' BY <2>4 DEF DroppedAtTheEnd
  <2> QED BY <2>1, <2>2, <2>3, <2>5
<1> QED BY <1>1, <1>2

\* The producer finds room: a cached head never makes a full ring look otherwise.
LEMMA ProducerFindsRoom ==
  ASSUME RingInv,
         FindsRoomInCache \/ \E ahead \in Indices : RefreshHead(ahead)
  PROVE  RingInv'
<1> USE DEF RingInv
<1>1. Pushes \in Nat /\ Pops \in Nat /\ readsSeen \in Nat /\ writesSeen \in Nat /\ Capacity \in Nat \ {0}
  BY CountTypes
<1>2. CASE FindsRoomInCache
  <2> USE <1>2 DEF FindsRoomInCache, consumerVars
  <2>1. TypeOK' BY DEF TypeOK, Calls, CallPoints
  <2>2. IndicesCount' /\ CountsFit' /\ ItemsAreInPlace'
    BY DEF IndicesCount, CountsFit, ItemsAreInPlace, Pushes, Pops
  <2>3. Pushes # readsSeen + Capacity BY <1>1, IndexDistance DEF IndicesCount, CountsFit
  <2>4. Pushes < readsSeen + Capacity BY <1>1, <2>3 DEF CountsFit
  <2>5. producer' = [producer EXCEPT !.at = "write"] /\ producer \in Calls BY DEF TypeOK
  <2>6. CallsKeepTheirTurn' BY <2>4, <2>5 DEF CallsKeepTheirTurn, Calls, Pushes, Pops
  <2>7. DroppedAtTheEnd' BY <2>5 DEF DroppedAtTheEnd, Gone, Idle, Calls
  <2> QED BY <2>1, <2>2, <2>6, <2>7
<1>3. CASE \E ahead \in Indices : RefreshHead(ahead)
  <2> PICK ahead \in Indices : RefreshHead(ahead) BY <1>3
  <2> USE DEF RefreshHead, LoadHead, consumerVars
  <2>1. ahead \in 0 .. Pops - readsSeen BY <1>1, IndexDistance DEF CountsFit, IndicesCount, LoadsOf
  <2>2. /\ readsSeen' = readsSeen + ahead /\ readsSeen' \in Nat
        /\ readsSeen' <= Pops /\ Pushes <= readsSeen' + Capacity BY <1>1, <2>1 DEF CountsFit
  <2>3. cachedHeadIndex' = readsSeen' % IndexModulus /\ cachedHeadIndex' \in Indices
    BY <1>1, <2>1, <2>2, IndexArithmetic DEF IndicesCount
  <2>4. /\ UNCHANGED <<pushed, popped, slots, tailIndex, headIndex, localTailIndex, localHeadIndex>>
        /\ UNCHANGED <<cachedTailIndex, writesSeen, consumer, dropped>>
        /\ Pushes' = Pushes /\ Pops' = Pops BY DEF Pushes, Pops
  <2>5. IndicesCount' /\ CountsFit' /\ ItemsAreInPlace'
    BY <2>2, <2>3, <2>4 DEF IndicesCount, CountsFit, ItemsAreInPlace
  <2>6. /\ producer' \in {producer, Idle} \/ producer' = [producer EXCEPT !.at = "write"]
        /\ producer \in Calls /\ producer'.at \in {"write", "check", "idle"}
        /\ producer' \in Calls BY DEF TypeOK, Calls, CallPoints, Idle
  <2>7. TypeOK' BY <2>2, <2>3, <2>4, <2>6 DEF TypeOK
  <2>8. producer'.at = "write" => Pushes < readsSeen' + Capacity
    <3> HAVE producer'.at = "write"
    <3>1. ~LooksFull(localTailIndex, cachedHeadIndex') BY DEF Idle
    <3>2. readsSeen' <= Pushes BY <1>1, <2>2, CountTypes
    <3>3. Pushes # readsSeen' + Capacity BY <1>1, <2>2, <2>3, <3>1, <3>2, IndexDistance DEF IndicesCount
    <3> QED BY <1>1, <2>2, <3>3
  <2>9. producer'.at \in {"check", "write"} => producer'.value = producer.value BY <2>6 DEF Calls, Idle
  <2>10. CallsKeepTheirTurn' BY <2>4, <2>6, <2>8, <2>9 DEF CallsKeepTheirTurn
  <2>11. DroppedAtTheEnd' BY <2>4, <2>6 DEF DroppedAtTheEnd, Gone, Idle
  <2> QED BY <2>5, <2>7, <2>10, <2>11
<1> QED BY <1>2, <1>3

\* The slot that is written is none of those that hold an item.
LEMMA WriteTouchesNoItem ==
  ASSUME RingInv, WriteSlot
  PROVE  /\ slots' = [slots EXCEPT ![Pushes % Capacity] = producer.value]
         /\ Pushes % Capacity \in 0 .. Capacity - 1
         /\ \A n \in 1 .. Pushes : n > Pops => (n - 1) % Capacity # Pushes % Capacity
<1>1. /\ Pushes \in Nat /\ Pops \in Nat /\ readsSeen \in Nat /\ Capacity \in Nat \ {0} BY CountTypes
<1>2. SlotOf(localTailIndex) = Pushes % Capacity /\ Pushes % Capacity \in 0 .. Capacity - 1
  BY <1>1, IndexArithmetic DEF RingInv, IndicesCount
<1>3. Pushes < Pops + Capacity BY <1>1 DEF RingInv, CallsKeepTheirTurn, CountsFit, WriteSlot
<1>4. ASSUME NEW n \in 1 .. Pushes, n > Pops PROVE (n - 1) % Capacity # Pushes % Capacity
  <2>1. n - 1 \in Nat /\ n - 1 < Pushes /\ Pushes < (n - 1) + Capacity BY <1>1, <1>3, <1>4
  <2> QED BY <1>1, <2>1, SlotsDiffer
<1> QED BY <1>2, <1>4 DEF WriteSlot

\* slots[..].write: the item is in its slot, and the others stay in theirs.
LEMMA ProducerWrites == ASSUME RingInv, WriteSlot PROVE RingInv'
<1> USE DEF RingInv, WriteSlot, consumerVars
<1>1. /\ slots' = [slots EXCEPT ![Pushes % Capacity] = producer.value]
      /\ Pushes % Capacity \in 0 .. Capacity - 1
      /\ \A n \in 1 .. Pushes : n > Pops => (n - 1) % Capacity # Pushes % Capacity BY WriteTouchesNoItem
<1>2. /\ Pushes' = Pushes /\ Pops' = Pops
      /\ producer \in Calls /\ producer.value \in Items
      /\ producer' = [producer EXCEPT !.at = "publish"] BY DEF Pushes, Pops, TypeOK, CallsKeepTheirTurn
<1>3. slots \in [0 .. Capacity - 1 -> Items \cup {NoItem}] BY DEF TypeOK
<1>4. slots' \in [0 .. Capacity - 1 -> Items \cup {NoItem}] BY <1>1, <1>2, <1>3
<1>5. TypeOK' BY <1>2, <1>4 DEF TypeOK, Calls, CallPoints
<1>6. IndicesCount' /\ CountsFit' BY <1>2 DEF IndicesCount, CountsFit
<1>7. /\ Pushes \in Nat /\ Pops \in Nat /\ Capacity \in Nat \ {0} BY CountTypes
<1>8. ASSUME NEW n \in 1 .. Pushes, n > Pops PROVE slots'[(n - 1) % Capacity] = pushed[n]
  <2>1. (n - 1) % Capacity \in 0 .. Capacity - 1 BY <1>7, IndexArithmetic
  <2>2. slots'[(n - 1) % Capacity] = slots[(n - 1) % Capacity] BY <1>1, <1>3, <1>8, <2>1
  <2> QED BY <1>8, <2>2 DEF ItemsAreInPlace
<1>9. ItemsAreInPlace' BY <1>2, <1>8 DEF ItemsAreInPlace
<1>10. slots'[Pushes % Capacity] = producer.value BY <1>1, <1>3
<1>11. CallsKeepTheirTurn' BY <1>2, <1>10 DEF CallsKeepTheirTurn, Calls
<1>12. DroppedAtTheEnd' BY <1>2 DEF DroppedAtTheEnd, Gone, Idle, Calls
<1> QED BY <1>5, <1>6, <1>9, <1>11, <1>12

\* tailIndex.store: one more push, whose item is in its slot already.
LEMMA ProducerPublishes == ASSUME RingInv, PublishTail PROVE RingInv'
<1> USE DEF RingInv, PublishTail, consumerVars
<1>1. /\ Pushes \in Nat /\ Pops \in Nat /\ readsSeen \in Nat /\ writesSeen \in Nat
      /\ Capacity \in Nat \ {0} /\ Pops <= Pushes BY CountTypes
<1>2. producer.value \in Items /\ pushed \in Seq(Items) /\ pushed' = Append(pushed, producer.value)
  BY DEF CallsKeepTheirTurn, TypeOK
<1>3. /\ pushed' \in Seq(Items) /\ Pushes' = Pushes + 1 /\ Pops' = Pops
      /\ \A n \in 1 .. Pushes : pushed'[n] = pushed[n]
      /\ pushed'[Pushes + 1] = producer.value BY <1>2, AppendProperties DEF Pushes, Pops
<1>4. localTailIndex' = Pushes' % IndexModulus /\ localTailIndex' \in Indices
  <2>1. localTailIndex' = WrappingAdd(Pushes % IndexModulus, 1) BY DEF IndicesCount
  <2>2. WrappingAdd(Pushes % IndexModulus, 1) = (Pushes + 1) % IndexModulus BY <1>1, IndexArithmetic
  <2>3. Pushes + 1 \in Nat BY <1>1
  <2>4. (Pushes + 1) % IndexModulus \in Indices BY <2>3, IndexArithmetic
  <2> QED BY <1>3, <2>1, <2>2, <2>4
<1>5. IndicesCount' BY <1>3, <1>4 DEF IndicesCount
<1>6. Idle \in Calls BY DEF Idle, Calls, CallPoints
<1>7. TypeOK' BY <1>3, <1>4, <1>6 DEF TypeOK
<1>8. CountsFit' BY <1>1, <1>3 DEF CountsFit, CallsKeepTheirTurn
<1>9. slots' = slots /\ slots[Pushes % Capacity] = producer.value BY DEF CallsKeepTheirTurn
<1>10. ASSUME NEW n \in 1 .. Pushes', n > Pops PROVE slots'[(n - 1) % Capacity] = pushed'[n]
  <2>1. CASE n \in 1 .. Pushes BY <1>3, <1>9, <1>10, <2>1 DEF ItemsAreInPlace
  <2>2. CASE n = Pushes + 1
    <3>1. n - 1 = Pushes BY <1>1, <2>2
    <3> QED BY <1>3, <1>9, <2>2, <3>1
  <2>3. n \in 1 .. Pushes + 1 BY <1>3, <1>10
  <2>4. n \in 1 .. Pushes \/ n = Pushes + 1 BY <1>1, <2>3
  <2> QED BY <2>1, <2>2, <2>4
<1>11. \A n \in 1 .. Pops : popped'[n] = pushed'[n]
  <2> TAKE n \in 1 .. Pops
  <2>1. n \in 1 .. Pushes BY <1>1
  <2>2. popped' = popped /\ popped[n] = pushed[n] BY DEF ItemsAreInPlace
  <2> QED BY <1>3, <2>1, <2>2
<1>12. ItemsAreInPlace' BY <1>3, <1>10, <1>11 DEF ItemsAreInPlace
<1>13. consumer.at = "publish" => pushed'[Pops + 1] = pushed[Pops + 1]
  <2> HAVE consumer.at = "publish"
  <2>1. Pops < writesSeen BY DEF CallsKeepTheirTurn
  <2>2. Pops + 1 \in 1 .. Pushes BY <1>1, <2>1 DEF CountsFit
  <2> QED BY <1>3, <2>2
<1>14. CallsKeepTheirTurn' BY <1>3, <1>13 DEF CallsKeepTheirTurn, Idle
<1>15. DroppedAtTheEnd' BY DEF DroppedAtTheEnd, Gone, Idle
<1> QED BY <1>5, <1>7, <1>8, <1>12, <1>14, <1>15

\* The consumer finds an item: a cached tail never makes an empty ring look otherwise.
LEMMA ConsumerFindsItem ==
  ASSUME RingInv,
         FindsItemInCache \/ \E ahead \in Indices : RefreshTail(ahead)
  PROVE  RingInv'
<1> USE DEF RingInv
<1>1. /\ Pushes \in Nat /\ Pops \in Nat /\ readsSeen \in Nat /\ writesSeen \in Nat
      /\ Capacity \in Nat \ {0} /\ Pushes <= Pops + Capacity BY CountTypes
<1>2. CASE FindsItemInCache
  <2> USE <1>2 DEF FindsItemInCache, producerVars
  <2>1. TypeOK' BY DEF TypeOK, Calls, CallPoints
  <2>2. IndicesCount' /\ CountsFit' /\ ItemsAreInPlace'
    BY DEF IndicesCount, CountsFit, ItemsAreInPlace, Pushes, Pops
  <2>3. Pops # writesSeen BY DEF IndicesCount
  <2>4. Pops < writesSeen BY <1>1, <2>3 DEF CountsFit
  <2>5. consumer' = [consumer EXCEPT !.at = "read"] /\ consumer \in Calls BY DEF TypeOK
  <2>6. CallsKeepTheirTurn' BY <2>4, <2>5 DEF CallsKeepTheirTurn, Calls, Pushes, Pops
  <2>7. DroppedAtTheEnd' BY <2>5 DEF DroppedAtTheEnd, Gone, Idle, Calls
  <2> QED BY <2>1, <2>2, <2>6, <2>7
<1>3. CASE \E ahead \in Indices : RefreshTail(ahead)
  <2> PICK ahead \in Indices : RefreshTail(ahead) BY <1>3
  <2> USE DEF RefreshTail, LoadTail, producerVars
  <2>1. ahead \in 0 .. Pushes - writesSeen BY <1>1, IndexDistance DEF CountsFit, IndicesCount, LoadsOf
  <2>2. /\ writesSeen' = writesSeen + ahead /\ writesSeen' \in Nat
        /\ Pops <= writesSeen' /\ writesSeen' <= Pushes BY <1>1, <2>1 DEF CountsFit
  <2>3. cachedTailIndex' = writesSeen' % IndexModulus /\ cachedTailIndex' \in Indices
    BY <1>1, <2>1, <2>2, IndexArithmetic DEF IndicesCount
  <2>4. /\ UNCHANGED <<pushed, popped, slots, tailIndex, headIndex, localTailIndex, localHeadIndex>>
        /\ UNCHANGED <<cachedHeadIndex, readsSeen, producer, dropped>>
        /\ Pushes' = Pushes /\ Pops' = Pops BY DEF Pushes, Pops
  <2>5. IndicesCount' /\ CountsFit' /\ ItemsAreInPlace'
    BY <2>2, <2>3, <2>4 DEF IndicesCount, CountsFit, ItemsAreInPlace
  <2>6. /\ consumer' \in {consumer, Idle} \/ consumer' = [consumer EXCEPT !.at = "read"]
        /\ consumer \in Calls /\ consumer'.at \in {"read", "check", "idle"}
        /\ consumer' \in Calls BY DEF TypeOK, Calls, CallPoints, Idle
  <2>7. TypeOK' BY <2>2, <2>3, <2>4, <2>6 DEF TypeOK
  <2>8. consumer'.at = "read" => Pops < writesSeen'
    <3> HAVE consumer'.at = "read"
    <3>1. localHeadIndex # cachedTailIndex' BY DEF Idle
    <3>2. Pops # writesSeen' BY <2>3, <3>1 DEF IndicesCount
    <3> QED BY <1>1, <2>2, <3>2
  <2>9. CallsKeepTheirTurn' BY <2>4, <2>6, <2>8 DEF CallsKeepTheirTurn
  <2>10. DroppedAtTheEnd' BY <2>4, <2>6 DEF DroppedAtTheEnd, Gone, Idle
  <2> QED BY <2>5, <2>7, <2>9, <2>10
<1> QED BY <1>2, <1>3

\* The item that is read is the oldest one not yet popped.
LEMMA ReadTakesTheOldest ==
  ASSUME RingInv, consumer.at \in {"read", "publish"}
  PROVE  /\ slots[SlotOf(localHeadIndex)] = pushed[Pops + 1]
         /\ Pops + 1 \in 1 .. Pushes
         /\ pushed[Pops + 1] \in Items
<1>1. /\ Pushes \in Nat /\ Pops \in Nat /\ writesSeen \in Nat BY CountTypes
<1>2. SlotOf(localHeadIndex) = Pops % Capacity BY <1>1, IndexArithmetic DEF RingInv, IndicesCount
<1>3. Pops < writesSeen /\ writesSeen <= Pushes BY DEF RingInv, CallsKeepTheirTurn, CountsFit
<1>4. Pops + 1 \in 1 .. Pushes /\ Pops + 1 > Pops /\ (Pops + 1) - 1 = Pops BY <1>1, <1>3
<1>5. slots[((Pops + 1) - 1) % Capacity] = pushed[Pops + 1] BY <1>4 DEF RingInv, ItemsAreInPlace
<1>6. pushed[Pops + 1] \in Items BY <1>4, ElementOfSeq DEF RingInv, TypeOK, Pushes
<1> QED BY <1>2, <1>4, <1>5, <1>6

\* assume_init_read: the consumer holds the oldest item.
LEMMA ConsumerReads == ASSUME RingInv, ReadSlot PROVE RingInv'
<1> USE DEF RingInv, ReadSlot, producerVars
<1>1. slots[SlotOf(localHeadIndex)] = pushed[Pops + 1] /\ pushed[Pops + 1] \in Items BY ReadTakesTheOldest
<1>2. /\ consumer \in Calls
      /\ consumer' = [consumer EXCEPT !.at = "publish", !.value = pushed[Pops + 1]]
      /\ Pushes' = Pushes /\ Pops' = Pops BY <1>1 DEF TypeOK, Pushes, Pops
<1>3. consumer' \in Calls /\ consumer'.at = "publish" /\ consumer'.value = pushed[Pops + 1]
  BY <1>1, <1>2 DEF Calls, CallPoints
<1>4. TypeOK' BY <1>3 DEF TypeOK
<1>5. IndicesCount' /\ CountsFit' /\ ItemsAreInPlace' BY <1>2 DEF IndicesCount, CountsFit, ItemsAreInPlace
<1>6. CallsKeepTheirTurn' BY <1>2, <1>3 DEF CallsKeepTheirTurn
<1>7. DroppedAtTheEnd' BY <1>3 DEF DroppedAtTheEnd, Gone, Idle
<1> QED BY <1>4, <1>5, <1>6, <1>7

\* headIndex.store: one more pop, of what was pushed at that place.
LEMMA ConsumerPublishes == ASSUME RingInv, PublishHead PROVE RingInv'
<1> USE DEF RingInv, PublishHead, producerVars
<1>1. /\ Pushes \in Nat /\ Pops \in Nat /\ readsSeen \in Nat /\ writesSeen \in Nat
      /\ Capacity \in Nat \ {0} /\ Pops <= Pushes BY CountTypes
<1>2. /\ consumer.value = pushed[Pops + 1] /\ pushed[Pops + 1] \in Items
      /\ popped \in Seq(Items \cup {NoItem}) /\ popped' = Append(popped, consumer.value)
  BY ReadTakesTheOldest DEF CallsKeepTheirTurn, TypeOK
<1>3. /\ popped' \in Seq(Items \cup {NoItem}) /\ Pops' = Pops + 1 /\ Pushes' = Pushes
      /\ \A n \in 1 .. Pops : popped'[n] = popped[n]
      /\ popped'[Pops + 1] = pushed[Pops + 1] BY <1>2, AppendProperties DEF Pushes, Pops
<1>4. localHeadIndex' = Pops' % IndexModulus /\ localHeadIndex' \in Indices
  <2>1. localHeadIndex' = (Pops + 1) % IndexModulus BY <1>1, IndexArithmetic DEF IndicesCount
  <2>2. Pops' \in Nat BY <1>1, <1>3
  <2>3. Pops' % IndexModulus \in Indices BY <2>2, IndexArithmetic
  <2> QED BY <1>3, <2>1, <2>3
<1>5. IndicesCount' BY <1>3, <1>4 DEF IndicesCount
<1>6. Idle \in Calls BY DEF Idle, Calls, CallPoints
<1>7. TypeOK' BY <1>3, <1>4, <1>6 DEF TypeOK
<1>8. CountsFit' BY <1>1, <1>3 DEF CountsFit, CallsKeepTheirTurn
<1>9. \A n \in 1 .. Pushes : n > Pops' => slots[(n - 1) % Capacity] = pushed[n]
  BY <1>1, <1>3 DEF ItemsAreInPlace
<1>10. ASSUME NEW n \in 1 .. Pops' PROVE popped'[n] = pushed[n]
  <2>1. n \in 1 .. Pops \/ n = Pops + 1 BY <1>1, <1>3
  <2>2. \A k \in 1 .. Pops : popped[k] = pushed[k] BY DEF ItemsAreInPlace
  <2> QED BY <1>3, <2>1, <2>2
<1>11. ItemsAreInPlace' BY <1>3, <1>9, <1>10 DEF ItemsAreInPlace
<1>12. CallsKeepTheirTurn' BY <1>3 DEF CallsKeepTheirTurn, Idle
<1>13. DroppedAtTheEnd' BY DEF DroppedAtTheEnd, Gone, Idle
<1> QED BY <1>5, <1>7, <1>8, <1>11, <1>12, <1>13

\* What the drop of the buffer walks over: what was pushed and not popped.
LEMMA QueueContents ==
  ASSUME RingInv
  PROVE  /\ ItemsBetweenIndices = [i \in 1 .. Pushes - Pops |-> slots[((Pops + i) - 1) % Capacity]]
         /\ ItemsBetweenIndices \in Seq(Items)
         /\ Len(ItemsBetweenIndices) = Pushes - Pops
         /\ \A i \in 1 .. Pushes - Pops : ItemsBetweenIndices[i] = pushed[Pops + i]
<1>1. Pushes \in Nat /\ Pops \in Nat /\ Capacity \in Nat \ {0} /\ Pops <= Pushes /\ Pushes <= Pops + Capacity
  BY CountTypes
<1>2. WrappingSub(tailIndex, headIndex) = Pushes - Pops BY <1>1, IndexDistance DEF RingInv, IndicesCount
<1>3. ASSUME NEW i \in 1 .. Pushes - Pops
      PROVE  SlotOf(WrappingAdd(headIndex, i - 1)) = ((Pops + i) - 1) % Capacity
  <2>1. i - 1 \in Int /\ (Pops + i) - 1 \in Nat /\ Pops + (i - 1) = (Pops + i) - 1 BY <1>1
  <2>2. WrappingAdd(headIndex, i - 1) = ((Pops + i) - 1) % IndexModulus
    BY <1>1, <2>1, IndexArithmetic DEF RingInv, IndicesCount
  <2> QED BY <2>1, <2>2, IndexArithmetic
<1>4. ItemsBetweenIndices = [i \in 1 .. Pushes - Pops |-> slots[((Pops + i) - 1) % Capacity]]
  BY <1>2, <1>3 DEF ItemsBetweenIndices
<1>5. ASSUME NEW i \in 1 .. Pushes - Pops
      PROVE  slots[((Pops + i) - 1) % Capacity] = pushed[Pops + i] /\ pushed[Pops + i] \in Items
  <2>1. Pops + i \in 1 .. Pushes /\ Pops + i > Pops BY <1>1
  <2>2. pushed[Pops + i] \in Items BY <2>1, ElementOfSeq DEF RingInv, TypeOK, Pushes
  <2> QED BY <2>1, <2>2 DEF RingInv, ItemsAreInPlace
<1>6. Pushes - Pops \in Nat BY <1>1
<1>7. ItemsBetweenIndices \in [1 .. Pushes - Pops -> Items] BY <1>4, <1>5
<1>8. ItemsBetweenIndices \in Seq(Items) /\ Len(ItemsBetweenIndices) = Pushes - Pops
  BY <1>6, <1>7, SeqDef, LenProperties
<1> QED BY <1>4, <1>5, <1>8

\* A handle goes between two calls; the last one destroys what is left.
LEMMA HandlesGo == ASSUME RingInv, DropProducerHandle \/ DropConsumerHandle PROVE RingInv'
<1> USE DEF RingInv, Pushes, Pops
<1>1. Gone \in Calls /\ Gone.at = "gone" BY DEF Gone, Idle, Calls, CallPoints
<1>2. dropped' = dropped \/ dropped' = ItemsBetweenIndices
  BY DEF DropProducerHandle, DropConsumerHandle, LastHandleLeaves
<1>3. ItemsBetweenIndices \in Seq(Items \cup {NoItem}) BY QueueContents, SeqMonotonic
<1>4. dropped' \in Seq(Items \cup {NoItem}) BY <1>2, <1>3 DEF TypeOK
<1>5. CASE DropProducerHandle
  <2> USE <1>5 DEF DropProducerHandle, consumerVars
  <2>1. TypeOK' BY <1>1, <1>4 DEF TypeOK
  <2>2. IndicesCount' /\ CountsFit' /\ ItemsAreInPlace' BY DEF IndicesCount, CountsFit, ItemsAreInPlace
  <2>3. CallsKeepTheirTurn' BY <1>1 DEF CallsKeepTheirTurn
  <2>4. producer # Gone BY <1>1
  <2>5. DroppedAtTheEnd' BY <2>4 DEF DroppedAtTheEnd, LastHandleLeaves
  <2> QED BY <2>1, <2>2, <2>3, <2>5
<1>6. CASE DropConsumerHandle
  <2> USE <1>6 DEF DropConsumerHandle, producerVars
  <2>1. TypeOK' BY <1>1, <1>4 DEF TypeOK
  <2>2. IndicesCount' /\ CountsFit' /\ ItemsAreInPlace' BY DEF IndicesCount, CountsFit, ItemsAreInPlace
  <2>3. CallsKeepTheirTurn' BY <1>1 DEF CallsKeepTheirTurn
  <2>4. consumer # Gone BY <1>1
  <2>5. DroppedAtTheEnd' BY <2>4 DEF DroppedAtTheEnd, LastHandleLeaves
  <2> QED BY <2>1, <2>2, <2>3, <2>5
<1> QED BY <1>5, <1>6

\* Every step of the ring, and every step that leaves it alone, keeps the invariant.
LEMMA RingStep == ASSUME RingInv, [Next]_vars PROVE RingInv'
<1>1. CASE UNCHANGED vars
  <2> USE <1>1 DEF vars, producerVars, consumerVars
  <2>1. TypeOK' BY DEF RingInv, TypeOK
  <2>2. IndicesCount' /\ CountsFit' /\ ItemsAreInPlace'
    BY DEF RingInv, IndicesCount, CountsFit, ItemsAreInPlace, Pushes, Pops
  <2>3. CallsKeepTheirTurn' /\ DroppedAtTheEnd'
    BY DEF RingInv, CallsKeepTheirTurn, DroppedAtTheEnd, Pushes, Pops
  <2> QED BY <2>1, <2>2, <2>3 DEF RingInv
<1>2. CASE ProducerStep BY <1>2, ProducerFindsRoom, ProducerWrites, ProducerPublishes DEF ProducerStep
<1>3. CASE ConsumerStep BY <1>3, ConsumerFindsItem, ConsumerReads, ConsumerPublishes DEF ConsumerStep
<1> QED BY <1>1, <1>2, <1>3, CallsBegin, HandlesGo DEF Next

--------------------
(* The refinement.  The queue is what lies between the two indices, and an *)
(* item enters it when the tail is published and leaves it when the head   *)
(* is.                                                                     *)

FifoQueue == IF producer = Gone /\ consumer = Gone THEN <<>> ELSE ItemsBetweenIndices

QueueIsWhatIsLeft ==
  /\ ItemsBetweenIndices \in Seq(Items)
  /\ Len(ItemsBetweenIndices) = Pushes - Pops
  /\ \A i \in 1 .. Pushes - Pops : ItemsBetweenIndices[i] = pushed[Pops + i]

\* QueueContents, in a state and in the next one.
LEMMA QueueIsLeft == (RingInv => QueueIsWhatIsLeft) /\ (RingInv => QueueIsWhatIsLeft)'
<1>1. RingInv => QueueIsWhatIsLeft BY QueueContents DEF QueueIsWhatIsLeft
<1>2. (RingInv => QueueIsWhatIsLeft)' BY <1>1, PTL
<1> QED BY <1>1, <1>2

\* A step that publishes nothing leaves the queue as it is.
LEMMA QuietSteps ==
  ASSUME RingInv, RingInv', UNCHANGED <<pushed, popped>> PROVE ItemsBetweenIndices' = ItemsBetweenIndices
<1>1. QueueIsWhatIsLeft /\ QueueIsWhatIsLeft' BY QueueIsLeft
<1>2. Pushes' = Pushes /\ Pops' = Pops BY DEF Pushes, Pops
<1>3. PICK q \in Seq(Items) : q = ItemsBetweenIndices BY <1>1 DEF QueueIsWhatIsLeft
<1>4. PICK r \in Seq(Items) : r = ItemsBetweenIndices' BY <1>1 DEF QueueIsWhatIsLeft
<1>5. Len(q) = Pushes - Pops /\ \A i \in 1 .. Len(q) : q[i] = pushed[Pops + i]
  BY <1>1, <1>3 DEF QueueIsWhatIsLeft
<1>6. Len(r) = Pushes - Pops /\ \A i \in 1 .. Len(r) : r[i] = pushed[Pops + i]
  BY <1>1, <1>2, <1>4 DEF QueueIsWhatIsLeft
<1>7. q = r BY <1>5, <1>6, SeqEqual
<1> QED BY <1>3, <1>4, <1>7

\* tailIndex.store: the item is in the queue.
LEMMA PublishTailPushes ==
  ASSUME RingInv, RingInv', PublishTail
  PROVE  /\ ItemsBetweenIndices' = Append(ItemsBetweenIndices, producer.value)
         /\ Len(ItemsBetweenIndices) < Capacity
         /\ producer.value \in Items
<1>1. QueueIsWhatIsLeft /\ QueueIsWhatIsLeft' BY QueueIsLeft
<1>2. PICK q \in Seq(Items) : q = ItemsBetweenIndices BY <1>1 DEF QueueIsWhatIsLeft
<1>3. PICK r \in Seq(Items) : r = ItemsBetweenIndices' BY <1>1 DEF QueueIsWhatIsLeft
<1>4. PICK v \in Items : v = producer.value BY DEF RingInv, CallsKeepTheirTurn, PublishTail
<1>5. Pushes \in Nat /\ Pops \in Nat /\ readsSeen \in Nat /\ Capacity \in Nat \ {0} /\ Pops <= Pushes
  BY CountTypes
<1>6. /\ Pushes' = Pushes + 1 /\ Pops' = Pops
      /\ \A n \in 1 .. Pushes : pushed'[n] = pushed[n]
      /\ pushed'[Pushes + 1] = v
  BY <1>4, AppendProperties DEF RingInv, TypeOK, PublishTail, consumerVars, Pushes, Pops
<1>7. Len(q) = Pushes - Pops /\ \A i \in 1 .. Len(q) : q[i] = pushed[Pops + i]
  BY <1>1, <1>2 DEF QueueIsWhatIsLeft
<1>8. /\ Len(r) = (Pushes + 1) - Pops
      /\ \A i \in 1 .. Len(r) : r[i] = pushed'[Pops + i] BY <1>1, <1>3, <1>6 DEF QueueIsWhatIsLeft
<1>9. PICK s \in Seq(Items) : s = Append(q, v) BY AppendProperties
<1>10. /\ Len(s) = Len(q) + 1
       /\ \A i \in 1 .. Len(q) : s[i] = q[i]
       /\ s[Len(q) + 1] = v BY <1>9, AppendProperties
<1>11. Len(r) = Len(s) BY <1>5, <1>7, <1>8, <1>10
<1>12. ASSUME NEW i \in 1 .. Len(r) PROVE r[i] = s[i]
  <2>1. r[i] = pushed'[Pops + i] BY <1>8
  <2>2. CASE i \in 1 .. Len(q) BY <1>5, <1>7, <2>2, <1>10, <1>6, <2>1
  <2>3. CASE i = Len(q) + 1 BY <1>5, <1>7, <2>3, <1>6, <1>10, <2>1
  <2>4. i \in 1 .. Len(q) \/ i = Len(q) + 1 BY <1>5, <1>7, <1>8
  <2> QED BY <2>2, <2>3, <2>4
<1>13. r = s BY <1>11, <1>12, SeqEqual
<1>14. Pushes < Pops + Capacity BY <1>5 DEF RingInv, CallsKeepTheirTurn, CountsFit, PublishTail
<1>15. Len(q) < Capacity BY <1>5, <1>7, <1>14
<1> QED BY <1>2, <1>3, <1>4, <1>9, <1>13, <1>15

\* headIndex.store: the oldest item has left the queue.
LEMMA PublishHeadPops ==
  ASSUME RingInv, RingInv', PublishHead
  PROVE  /\ ItemsBetweenIndices # <<>>
         /\ ItemsBetweenIndices' = Tail(ItemsBetweenIndices)
         /\ consumer.value = Head(ItemsBetweenIndices)
<1>1. QueueIsWhatIsLeft /\ QueueIsWhatIsLeft' BY QueueIsLeft
<1>2. PICK q \in Seq(Items) : q = ItemsBetweenIndices BY <1>1 DEF QueueIsWhatIsLeft
<1>3. PICK r \in Seq(Items) : r = ItemsBetweenIndices' BY <1>1 DEF QueueIsWhatIsLeft
<1>4. Pushes \in Nat /\ Pops \in Nat /\ Pops <= Pushes BY CountTypes
<1>5. Pushes' = Pushes /\ Pops' = Pops + 1 /\ pushed' = pushed
  BY AppendProperties DEF RingInv, TypeOK, Calls, PublishHead, producerVars, Pushes, Pops
<1>6. Len(q) = Pushes - Pops /\ \A i \in 1 .. Len(q) : q[i] = pushed[Pops + i]
  BY <1>1, <1>2 DEF QueueIsWhatIsLeft
<1>7. /\ Len(r) = Pushes - (Pops + 1)
      /\ \A i \in 1 .. Len(r) : r[i] = pushed[(Pops + 1) + i] BY <1>1, <1>3, <1>5 DEF QueueIsWhatIsLeft
<1>8. Pops + 1 \in 1 .. Pushes /\ consumer.value = pushed[Pops + 1]
  BY ReadTakesTheOldest DEF RingInv, CallsKeepTheirTurn, PublishHead
<1>9. Len(q) >= 1 BY <1>4, <1>6, <1>8
<1>10. q # <<>> BY <1>9, EmptySeq
<1>11. /\ Head(q) = q[1] /\ Tail(q) \in Seq(Items) /\ Len(Tail(q)) = Len(q) - 1
       /\ \A i \in 1 .. Len(Tail(q)) : Tail(q)[i] = q[i + 1] BY <1>10, HeadTailProperties
<1>12. Head(q) = consumer.value BY <1>6, <1>8, <1>9, <1>11
<1>13. Len(r) = Len(Tail(q)) BY <1>4, <1>6, <1>7, <1>11
<1>14. ASSUME NEW i \in 1 .. Len(r) PROVE r[i] = Tail(q)[i]
  <2>1. i + 1 \in 1 .. Len(q) /\ Pops + (i + 1) = (Pops + 1) + i BY <1>4, <1>6, <1>7
  <2>2. q[i + 1] = pushed[Pops + (i + 1)] BY <1>6, <2>1
  <2> QED BY <1>7, <1>11, <1>13, <2>1, <2>2
<1>15. r = Tail(q) BY <1>11, <1>13, <1>14, SeqEqual
<1> QED BY <1>2, <1>3, <1>10, <1>12, <1>15

\* A new ring is an empty queue.
LEMMA FifoInit == Init => Fifo!Init
<1> SUFFICES ASSUME Init PROVE Fifo!Init OBVIOUS
<1>1. QueueIsWhatIsLeft BY RingInit, QueueIsLeft
<1>2. Len(ItemsBetweenIndices) = 0 BY <1>1 DEF QueueIsWhatIsLeft, Init, Pushes, Pops
<1>3. ItemsBetweenIndices = <<>> BY <1>1, <1>2, EmptySeq DEF QueueIsWhatIsLeft
<1> QED BY <1>3 DEF Init, Fifo!Init

\* Dropping a handle discards what is left if the other handle is gone already.
LEMMA DropDestroys ==
  ASSUME RingInv, RingInv', DropProducerHandle \/ DropConsumerHandle
  PROVE  Fifo!Destroy \/ UNCHANGED <<FifoQueue, popped, dropped>>
<1>1. Gone.at = "gone" BY DEF Gone, Idle
<1>2. UNCHANGED <<pushed, popped>> BY DEF DropProducerHandle, DropConsumerHandle, producerVars, consumerVars
<1>3. ItemsBetweenIndices' = ItemsBetweenIndices BY <1>2, QuietSteps
<1>4. FifoQueue = ItemsBetweenIndices /\ dropped = <<>>
  BY <1>1 DEF FifoQueue, RingInv, DroppedAtTheEnd, DropProducerHandle, DropConsumerHandle
<1>5. CASE producer' = Gone /\ consumer' = Gone
  <2>1. FifoQueue' = <<>> BY <1>5 DEF FifoQueue
  <2>2. dropped' = ItemsBetweenIndices
    BY <1>1, <1>5 DEF DropProducerHandle, DropConsumerHandle, LastHandleLeaves,
                      producerVars, consumerVars
  <2>3. CASE ItemsBetweenIndices = <<>> BY <1>2, <1>4, <2>1, <2>2, <2>3
  <2>4. CASE ItemsBetweenIndices # <<>> BY <1>2, <1>4, <2>1, <2>2, <2>4 DEF Fifo!Destroy, FifoQueue
  <2> QED BY <2>3, <2>4
<1>6. CASE ~(producer' = Gone /\ consumer' = Gone)
  BY <1>3, <1>6, <1>2, <1>4 DEF FifoQueue, DropProducerHandle, DropConsumerHandle,
     LastHandleLeaves, producerVars, consumerVars
<1> QED BY <1>5, <1>6

\* Every step of the ring is a Push, a Pop or a Destroy of the queue, or none.
LEMMA FifoStep == ASSUME RingInv, RingInv', [Next]_vars PROVE [Fifo!Next]_(Fifo!vars)
<1> USE DEF Fifo!vars
<1>1. Gone.at = "gone" /\ Idle.at = "idle" BY DEF Gone, Idle
<1>2. CASE PublishTail BY <1>2, PublishTailPushes, <1>1 DEF PublishTail, consumerVars, Fifo!Push, Fifo!Next
<1>3. CASE PublishHead BY <1>3, PublishHeadPops, <1>1 DEF PublishHead, producerVars, Fifo!Pop, Fifo!Next
<1>4. CASE DropProducerHandle \/ DropConsumerHandle BY <1>4, DropDestroys DEF Fifo!Next, FifoQueue
<1>5. ASSUME UNCHANGED <<pushed, popped, dropped>>,
             \/ UNCHANGED <<producer, consumer>>
             \/ producer # Gone /\ producer' # Gone
             \/ consumer # Gone /\ consumer' # Gone
      PROVE  UNCHANGED Fifo!vars BY <1>5, QuietSteps
<1>6. CASE UNCHANGED vars BY <1>6, <1>5 DEF vars, producerVars, consumerVars
<1>7. CASE \E item \in Items, blocking \in BOOLEAN : CallPush(item, blocking)
  BY <1>7, <1>1, <1>5 DEF CallPush, consumerVars
<1>8. CASE \E blocking \in BOOLEAN : CallPop(blocking) BY <1>8, <1>1, <1>5 DEF CallPop, producerVars
<1>9. CASE \/ FindsRoomInCache \/ WriteSlot
           \/ \E ahead \in Indices : RefreshHead(ahead)
  BY <1>1, <1>9, <1>5 DEF RingInv, TypeOK, FindsRoomInCache, WriteSlot, RefreshHead, consumerVars,
     Calls
<1>10. CASE \/ FindsItemInCache \/ ReadSlot
            \/ \E ahead \in Indices : RefreshTail(ahead)
  BY <1>1, <1>10, <1>5 DEF RingInv, TypeOK, FindsItemInCache, ReadSlot, RefreshTail, producerVars,
     Calls
<1> QED BY <1>2, <1>3, <1>4, <1>6, <1>7, <1>8, <1>9, <1>10
         DEF Next, ProducerStep, ConsumerStep

\* The turns that calls keep are what the SAFETY MODEL asks for.
LEMMA RaceFree == RingInv => NoSlotIsRacedOn BY DEF RingInv, CallsKeepTheirTurn, NoSlotIsRacedOn, Pushes, Pops

--------------------
(* The request loop.  The network thread has at most one line out, so      *)
(* where it stands says what the rings, the core and the histories hold.   *)

ClientStates == {"new", "connected", "waiting", "answered", "left"}
Requests == [at : {"request"}, id : Nat, from : Clients, line : AllLineKinds \cup {"none"}]
Answers == [at : {"answer"}, id : Nat, to : Clients, changes : Nat]
ClientRecords == [at : ClientStates, line : AllLineKinds \cup {"none"},
                  answer : Answers \cup {Nobody}]
NetworkRecords == [at : {"accept", "read", "push", "await", "write", "publish"},
                   serving : SUBSET Clients, id : Nat, item : Answers \cup {Nobody}]
CoreRecords == [at : {"pop", "handle", "answer", "dead"}, item : Requests \cup {Nobody}]
EngineRecords == [changes : Nat, unpriced : BOOLEAN, priced : BOOLEAN]

ServerTypeOK ==
  /\ client \in [Clients -> ClientRecords]
  /\ backlog \in Seq(Clients)
  /\ network \in NetworkRecords
  /\ nextRequestId \in Nat
  /\ ingress \in Seq(Requests) /\ egress \in Seq(Answers)
  /\ core \in CoreRecords
  /\ engine \in EngineRecords
  /\ handled \in Seq(Requests)
  /\ published \in Nat

\* Between accepting a connection and being done with it, one client is served.
OneIsServed ==
  IF network.at = "accept" THEN network.serving = {}
  ELSE \E c \in Clients : network.serving = {c}

\* The rings and the core hold nothing but what the network thread waits for: its
\* request, the core's work on it, or the answer.
OnlyOneInFlight ==
  /\ network.at # "await" => ingress = <<>> /\ egress = <<>> /\ core.at = "pop"
  /\ network.at = "await" =>
        \/ /\ egress = <<>> /\ core.at = "pop" /\ Len(ingress) = 1
           /\ ingress[1].id = network.id /\ ingress[1].from \in network.serving
        \/ /\ egress = <<>> /\ ingress = <<>> /\ core.at \in {"handle", "answer", "dead"}
           /\ core.item \in Requests
           /\ core.item.id = network.id /\ core.item.from \in network.serving
        \/ /\ ingress = <<>> /\ core.at = "pop" /\ Len(egress) = 1
           /\ egress[1].to \in network.serving /\ egress[1].changes = engine.changes

\* The line that was taken is not handled yet.
LineIsOwed ==
  \/ network.at = "push"
  \/ network.at = "await" /\ (Len(ingress) = 1 \/ core.at \in {"handle", "dead"})

HasBeenHandled(c) == \E n \in 1 .. Len(handled) : handled[n].from = c

\* Lines are handled in the order of their ids, one by one.
IdsAreInOrder ==
  /\ LineIsOwed => Len(handled) = network.id /\ nextRequestId = network.id + 1
  /\ ~LineIsOwed => Len(handled) = nextRequestId
  /\ \A n \in 1 .. Len(handled) : handled[n].id = n - 1

\* A call waits in the backlog, is served and is handled, each once and in this order.
CallsComeOnce ==
  /\ \A i, j \in 1 .. Len(backlog) : backlog[i] = backlog[j] => i = j
  /\ \A i \in 1 .. Len(backlog) :
        /\ backlog[i] \notin network.serving
        /\ ~HasBeenHandled(backlog[i])
        /\ client[backlog[i]].at # "new"
  /\ \A c \in network.serving :
        /\ client[c].at # "new"
        /\ LineIsOwed \/ network.at = "read" => ~HasBeenHandled(c)
        /\ ~LineIsOwed /\ network.at # "read" => HasBeenHandled(c)
  /\ \A m, n \in 1 .. Len(handled) : handled[m].from = handled[n].from => m = n
  /\ \A n \in 1 .. Len(handled) : client[handled[n].from].at # "new"

\* An answer goes to the call it is for, with the depth of the book as it still is.
AnswersAreDelivered ==
  /\ \A c \in Clients : client[c].answer # Nobody =>
        client[c].answer.to = c /\ HasBeenHandled(c)
  /\ network.at \in {"write", "publish"} =>
        /\ network.item \in Answers
        /\ network.item.to \in network.serving /\ network.item.changes = engine.changes
  /\ published <= engine.changes

ServerInv ==
  /\ ServerTypeOK
  /\ OneIsServed
  /\ OnlyOneInFlight
  /\ IdsAreInOrder
  /\ CallsComeOnce
  /\ AnswersAreDelivered

\* Nobody has connected: nothing is in flight and nothing handled.
LEMMA ServerInitially == ServerInit => ServerInv
<1> SUFFICES ASSUME ServerInit PROVE ServerInv OBVIOUS
<1> USE DEF ServerInit
<1>1. ServerTypeOK
  BY EmptySeq DEF ServerTypeOK, ClientRecords, ClientStates, NetworkRecords, CoreRecords,
     EngineRecords
<1>2. Len(backlog) = 0 /\ Len(ingress) = 0 /\ Len(egress) = 0 /\ Len(handled) = 0 OBVIOUS
<1>3. OneIsServed /\ OnlyOneInFlight BY DEF OneIsServed, OnlyOneInFlight
<1>4. IdsAreInOrder BY <1>2 DEF IdsAreInOrder, LineIsOwed
<1>5. CallsComeOnce BY <1>2 DEF CallsComeOnce
<1>6. AnswersAreDelivered BY DEF AnswersAreDelivered
<1> QED BY <1>1, <1>3, <1>4, <1>5, <1>6 DEF ServerInv

\* A call that connects is new: nobody knows it yet.
LEMMA ClientConnects == ASSUME ServerInv, NEW c \in Clients, Connect(c) PROVE ServerInv'
<1> USE DEF ServerInv, Connect, clientUnchanged
<1>1. client \in [Clients -> ClientRecords] /\ client[c] \in ClientRecords BY DEF ServerTypeOK
<1>2. /\ client' \in [Clients -> ClientRecords]
      /\ \A d \in Clients : client'[d].answer = client[d].answer
      /\ \A d \in Clients : client[d].at # "new" => client'[d].at # "new"
      /\ client'[c].at # "new" BY <1>1 DEF ClientRecords, ClientStates
<1>3. /\ backlog \in Seq(Clients) /\ backlog' \in Seq(Clients)
      /\ Len(backlog) \in Nat /\ Len(backlog') = Len(backlog) + 1
      /\ \A i \in 1 .. Len(backlog) : backlog'[i] = backlog[i]
      /\ backlog'[Len(backlog) + 1] = c BY AppendProperties, LenProperties DEF ServerTypeOK
<1>4. ServerTypeOK' BY <1>2, <1>3 DEF ServerTypeOK
<1>5. OneIsServed' /\ OnlyOneInFlight' BY DEF OneIsServed, OnlyOneInFlight
<1>6. LineIsOwed' <=> LineIsOwed BY DEF LineIsOwed
<1>7. \A d : HasBeenHandled(d)' <=> HasBeenHandled(d) BY DEF HasBeenHandled
<1>8. IdsAreInOrder' BY <1>6 DEF IdsAreInOrder
<1>9. /\ \A i \in 1 .. Len(backlog) : backlog[i] \in Clients
      /\ \A n \in 1 .. Len(handled) : handled[n] \in Requests
      /\ network.serving \subseteq Clients BY ElementOfSeq DEF ServerTypeOK, NetworkRecords
<1>10. /\ c \notin network.serving /\ ~HasBeenHandled(c)
       /\ \A i \in 1 .. Len(backlog) : backlog[i] # c BY DEF CallsComeOnce, HasBeenHandled
<1>11. ASSUME NEW i \in 1 .. Len(backlog') PROVE i \in 1 .. Len(backlog) \/ i = Len(backlog) + 1 BY <1>3
<1>12. CallsComeOnce'
  <2>1. ASSUME NEW i \in 1 .. Len(backlog'), NEW j \in 1 .. Len(backlog'),
               backlog'[i] = backlog'[j]
        PROVE  i = j BY <1>3, <1>10, <1>11, <2>1 DEF CallsComeOnce
  <2>2. ASSUME NEW i \in 1 .. Len(backlog')
        PROVE  /\ backlog'[i] \notin network.serving
               /\ ~HasBeenHandled(backlog'[i])
               /\ client'[backlog'[i]].at # "new"
    <3>1. CASE i \in 1 .. Len(backlog) BY <1>2, <1>3, <1>9, <3>1 DEF CallsComeOnce
    <3>2. CASE i = Len(backlog) + 1 BY <1>2, <1>3, <1>10, <3>2
    <3> QED BY <1>11, <3>1, <3>2
  <2>3. \A n \in 1 .. Len(handled) : handled[n].from \in Clients BY <1>9 DEF Requests
  <2>4. network' = network /\ handled' = handled OBVIOUS
  <2> HIDE DEF Connect
  <2> QED BY <1>2, <1>6, <1>7, <1>9, <2>1, <2>2, <2>3, <2>4 DEF CallsComeOnce
<1>13. AnswersAreDelivered' BY <1>2, <1>7 DEF AnswersAreDelivered
<1> QED BY <1>4, <1>5, <1>8, <1>12, <1>13

\* Sending, reading the answer and leaving concern nobody but the call.
LEMMA ClientMoves == ASSUME ServerInv, NEW c \in Clients, Send(c) \/ Receive(c) \/ Leave(c) PROVE ServerInv'
<1> USE DEF ServerInv
<1>1. client \in [Clients -> ClientRecords] /\ client[c] \in ClientRecords BY DEF ServerTypeOK
<1>2. /\ client' \in [Clients -> ClientRecords]
      /\ \A d \in Clients : client'[d].answer = client[d].answer
      /\ \A d \in Clients : client[d].at # "new" => client'[d].at # "new"
  BY <1>1, LineKindsAssumption DEF ClientRecords, ClientStates, Send, Receive, Leave
<1>3. UNCHANGED <<backlog, network, nextRequestId, ingress, egress, core, engine,
                  handled, published>> BY DEF Send, Receive, Leave, clientUnchanged
<1>4. ServerTypeOK' BY <1>2, <1>3 DEF ServerTypeOK
<1>5. OneIsServed' /\ OnlyOneInFlight' BY <1>3 DEF OneIsServed, OnlyOneInFlight
<1>6. LineIsOwed' <=> LineIsOwed BY <1>3 DEF LineIsOwed
<1>7. \A d : HasBeenHandled(d)' <=> HasBeenHandled(d) BY <1>3 DEF HasBeenHandled
<1>8. IdsAreInOrder' BY <1>3, <1>6 DEF IdsAreInOrder
<1>9. /\ \A i \in 1 .. Len(backlog) : backlog[i] \in Clients
      /\ \A n \in 1 .. Len(handled) : handled[n].from \in Clients
      /\ network.serving \subseteq Clients
  <2>1. \A n \in 1 .. Len(handled) : handled[n] \in Requests BY ElementOfSeq DEF ServerTypeOK
  <2>2. \A i \in 1 .. Len(backlog) : backlog[i] \in Clients BY ElementOfSeq DEF ServerTypeOK
  <2>3. network.serving \subseteq Clients BY DEF ServerTypeOK, NetworkRecords
  <2> QED BY <2>1, <2>2, <2>3 DEF Requests
<1>10. CallsComeOnce' BY <1>2, <1>3, <1>6, <1>7, <1>9 DEF CallsComeOnce
<1>11. AnswersAreDelivered' BY <1>2, <1>3, <1>7 DEF AnswersAreDelivered
<1> QED BY <1>4, <1>5, <1>8, <1>10, <1>11

\* The oldest connection leaves the backlog and is the one served.
LEMMA NetworkAccepts == ASSUME ServerInv, Accept PROVE ServerInv'
<1> USE DEF ServerInv, Accept
<1>1. PICK c \in Clients : c = Head(backlog) BY HeadTailProperties DEF ServerTypeOK
<1>2. /\ backlog \in Seq(Clients) /\ Len(backlog) \in Nat /\ Len(backlog) >= 1
      /\ backlog' \in Seq(Clients) /\ Len(backlog') = Len(backlog) - 1
      /\ \A i \in 1 .. Len(backlog') : backlog'[i] = backlog[i + 1]
      /\ backlog[1] = c BY <1>1, HeadTailProperties, LenProperties, EmptySeq DEF ServerTypeOK
<1>3. network \in NetworkRecords /\ network' = [network EXCEPT !.at = "read", !.serving = {c}]
  BY <1>1 DEF ServerTypeOK
<1>4. network' \in NetworkRecords /\ network'.at = "read" /\ network'.serving = {c}
  <2> HIDE DEF ServerInv, Accept
  <2>1. {c} \in SUBSET Clients BY <1>1
  <2> QED BY <1>3, <2>1 DEF NetworkRecords
<1>5. ServerTypeOK' BY <1>2, <1>4 DEF ServerTypeOK
<1>6. OneIsServed' /\ OnlyOneInFlight' BY <1>4 DEF OneIsServed, OnlyOneInFlight
<1>7. ~LineIsOwed /\ ~LineIsOwed' BY <1>4 DEF LineIsOwed
<1>8. IdsAreInOrder' BY <1>7 DEF IdsAreInOrder
<1>9. \A d : HasBeenHandled(d)' <=> HasBeenHandled(d) BY DEF HasBeenHandled
<1>10. 1 \in 1 .. Len(backlog) BY <1>2
<1>11. ~HasBeenHandled(c) /\ client[c].at # "new" BY <1>2, <1>10 DEF CallsComeOnce
<1>12. ASSUME NEW i \in 1 .. Len(backlog')
       PROVE  i + 1 \in 1 .. Len(backlog) /\ i + 1 # 1 /\ backlog'[i] = backlog[i + 1] BY <1>2
<1>13. CallsComeOnce'
  <2>1. ASSUME NEW i \in 1 .. Len(backlog'), NEW j \in 1 .. Len(backlog'),
               backlog'[i] = backlog'[j]
        PROVE  i = j BY <1>12, <2>1 DEF CallsComeOnce
  <2>2. ASSUME NEW i \in 1 .. Len(backlog')
        PROVE  /\ backlog'[i] \notin {c}
               /\ ~HasBeenHandled(backlog'[i])
               /\ client[backlog'[i]].at # "new" BY <1>2, <1>10, <1>12 DEF CallsComeOnce
  <2> QED BY <1>4, <1>7, <1>9, <1>11, <2>1, <2>2 DEF CallsComeOnce
<1>14. AnswersAreDelivered' BY <1>4, <1>9 DEF AnswersAreDelivered
<1> QED BY <1>5, <1>6, <1>8, <1>13, <1>14

\* What the steps between two clients have in common: the one that is served.
LEMMA TheServedOne ==
  ASSUME ServerInv, network.at # "accept"
  PROVE  \E c \in Clients : network.serving = {c} /\ client[c] \in ClientRecords
BY DEF ServerInv, ServerTypeOK, OneIsServed

\* Nothing that CallsComeOnce or AnswersAreDelivered depends on has changed.
LEMMA CallsUntouched ==
  ASSUME ServerInv, UNCHANGED <<client, backlog, handled>>, network'.serving = network.serving,
         LineIsOwed' <=> LineIsOwed, network'.at = "read" <=> network.at = "read"
  PROVE  CallsComeOnce' BY DEF ServerInv, CallsComeOnce, HasBeenHandled

\* The line gets the next id; a client that left, or sent a blank line, gets none.
LEMMA NetworkReads == ASSUME ServerInv, ReadLine PROVE ServerInv'
<1> USE DEF ServerInv
<1>1. /\ network.at = "read" /\ network.at # "accept"
      /\ UNCHANGED <<client, backlog, ingress, egress, core, engine, handled, published>>
      /\ network \in NetworkRecords /\ nextRequestId \in Nat BY DEF ReadLine, ServerTypeOK
<1>2. ingress = <<>> /\ egress = <<>> /\ core.at = "pop" BY <1>1 DEF OnlyOneInFlight
<1>3. ~LineIsOwed BY <1>1 DEF LineIsOwed
<1>4. \A d : HasBeenHandled(d)' <=> HasBeenHandled(d) BY <1>1 DEF HasBeenHandled
<1>5. PICK c \in Clients : network.serving = {c} BY <1>1, TheServedOne
<1>6. ~HasBeenHandled(c) /\ client[c].at # "new" BY <1>1, <1>5 DEF CallsComeOnce
<1>7. CASE /\ network' = [network EXCEPT !.at = "accept", !.serving = {}]
           /\ nextRequestId' = nextRequestId
  <2>1. network' \in NetworkRecords /\ network'.at = "accept" /\ network'.serving = {}
    BY <1>1, <1>7 DEF NetworkRecords
  <2>2. ServerTypeOK' BY <1>1, <1>7, <2>1 DEF ServerTypeOK
  <2>3. OneIsServed' /\ OnlyOneInFlight' BY <1>1, <1>2, <2>1 DEF OneIsServed, OnlyOneInFlight
  <2>4. ~LineIsOwed' BY <2>1 DEF LineIsOwed
  <2>5. IdsAreInOrder' BY <1>1, <1>3, <1>7, <2>4 DEF IdsAreInOrder
  <2>6. CallsComeOnce' BY <1>1, <1>4, <2>1 DEF CallsComeOnce
  <2>7. AnswersAreDelivered' BY <1>1, <1>4, <2>1 DEF AnswersAreDelivered
  <2> QED BY <2>2, <2>3, <2>5, <2>6, <2>7
<1>8. CASE /\ network' = [network EXCEPT !.at = "push", !.id = nextRequestId]
           /\ nextRequestId' = nextRequestId + 1
  <2>1. /\ network' \in NetworkRecords /\ network'.at = "push"
        /\ network'.serving = network.serving /\ network'.id = nextRequestId BY <1>1, <1>8 DEF NetworkRecords
  <2>2. ServerTypeOK' BY <1>1, <1>8, <2>1 DEF ServerTypeOK
  <2>3. OneIsServed' /\ OnlyOneInFlight' BY <1>1, <1>2, <1>5, <2>1 DEF OneIsServed, OnlyOneInFlight
  <2>4. LineIsOwed' BY <2>1 DEF LineIsOwed
  <2>5. IdsAreInOrder' BY <1>1, <1>3, <1>8, <2>1, <2>4 DEF IdsAreInOrder
  <2>6. CallsComeOnce' BY <1>1, <1>4, <1>5, <1>6, <2>1, <2>4 DEF CallsComeOnce
  <2>7. AnswersAreDelivered' BY <1>1, <1>4, <2>1 DEF AnswersAreDelivered
  <2> QED BY <2>2, <2>3, <2>5, <2>6, <2>7
<1> QED BY <1>7, <1>8 DEF ReadLine

\* The rings are empty before, and hold the one request after.
LEMMA NetworkPushes == ASSUME ServerInv, PushRequest PROVE ServerInv'
<1> USE DEF ServerInv
<1>1. /\ network.at = "push" /\ network.at # "accept"
      /\ UNCHANGED <<client, backlog, nextRequestId, egress, core, engine, handled, published>>
      /\ network' = [network EXCEPT !.at = "await"]
      /\ network \in NetworkRecords BY DEF PushRequest, ServerTypeOK
<1>2. ingress = <<>> /\ egress = <<>> /\ core.at = "pop" BY <1>1 DEF OnlyOneInFlight
<1>3. PICK c \in Clients : network.serving = {c} /\ client[c] \in ClientRecords BY <1>1, TheServedOne
<1>4. PICK request \in Requests :
         /\ request = [at |-> "request", id |-> network.id, from |-> c, line |-> client[c].line]
         /\ request.id = network.id /\ request.from = c
  <2>1. network.id \in Nat /\ client[c].line \in AllLineKinds \cup {"none"}
    BY <1>1, <1>3 DEF ClientRecords, NetworkRecords
  <2>2. PICK k \in Nat, l \in AllLineKinds \cup {"none"} : k = network.id /\ l = client[c].line BY <2>1
  <2> DEFINE r == [at |-> "request", id |-> k, from |-> c, line |-> l]
  <2>3. r \in Requests /\ r.id = k /\ r.from = c BY DEF Requests
  <2> QED BY <2>2, <2>3
<1>5. ingress' = Append(<<>>, request) BY <1>2, <1>3, <1>4 DEF PushRequest
<1>6. ingress' \in Seq(Requests) /\ Len(ingress') = 1 /\ ingress'[1] = request
  BY EmptySeq, <1>5, AppendProperties
<1>7. /\ network' \in NetworkRecords /\ network'.at = "await"
      /\ network'.serving = network.serving /\ network'.id = network.id BY <1>1 DEF NetworkRecords
<1>8. ServerTypeOK' BY <1>1, <1>6, <1>7 DEF ServerTypeOK
<1>9. OneIsServed' BY <1>3, <1>7 DEF OneIsServed
<1>10. OnlyOneInFlight' BY <1>1, <1>2, <1>3, <1>4, <1>6, <1>7 DEF OnlyOneInFlight
<1>11. LineIsOwed /\ LineIsOwed' BY <1>1, <1>6, <1>7 DEF LineIsOwed
<1>12. IdsAreInOrder' BY <1>1, <1>7, <1>11 DEF IdsAreInOrder
<1>13. CallsComeOnce' BY <1>1, <1>7, <1>11, CallsUntouched
<1>14. AnswersAreDelivered' BY <1>1, <1>7 DEF AnswersAreDelivered, HasBeenHandled
<1> QED BY <1>8, <1>9, <1>10, <1>12, <1>13, <1>14

\* What is at the answer ring is for the one that is served.
LEMMA NetworkGetsTheAnswer == ASSUME ServerInv, AwaitAnswer PROVE ServerInv'
<1> USE DEF ServerInv
<1>1. /\ network.at = "await" /\ network.at # "accept" /\ egress # <<>>
      /\ UNCHANGED <<client, backlog, nextRequestId, ingress, core, engine, handled, published>>
      /\ network' = [network EXCEPT !.at = "write", !.item = Head(egress)]
      /\ egress' = Tail(egress)
      /\ network \in NetworkRecords /\ egress \in Seq(Answers) BY DEF AwaitAnswer, ServerTypeOK
<1>2. /\ ingress = <<>> /\ core.at = "pop" /\ Len(egress) = 1
      /\ egress[1].to \in network.serving /\ egress[1].changes = engine.changes BY <1>1 DEF OnlyOneInFlight
<1>3. Head(egress) = egress[1] /\ Head(egress) \in Answers /\ egress' \in Seq(Answers) /\ Len(egress') = 0
  BY <1>1, <1>2, HeadTailProperties
<1>4. egress' = <<>> BY <1>3, EmptySeq
<1>5. /\ network' \in NetworkRecords /\ network'.at = "write"
      /\ network'.serving = network.serving /\ network'.item = egress[1]
      /\ network'.item \in Answers BY <1>1, <1>3 DEF NetworkRecords
<1>6. PICK c \in Clients : network.serving = {c} BY <1>1, TheServedOne
<1>7. ServerTypeOK' BY <1>1, <1>3, <1>5 DEF ServerTypeOK
<1>8. OneIsServed' /\ OnlyOneInFlight' BY <1>1, <1>2, <1>4, <1>5, <1>6 DEF OneIsServed, OnlyOneInFlight
<1>9. ~LineIsOwed /\ ~LineIsOwed' BY <1>2, <1>1, <1>5 DEF LineIsOwed
<1>10. IdsAreInOrder' BY <1>1, <1>9 DEF IdsAreInOrder
<1>11. CallsComeOnce' BY <1>1, <1>5, <1>9, CallsUntouched
<1>12. AnswersAreDelivered' BY <1>1, <1>2, <1>5 DEF AnswersAreDelivered, HasBeenHandled
<1> QED BY <1>7, <1>8, <1>10, <1>11, <1>12

\* The answer is written to the one that is served, for whom it is, and who was handled.
LEMMA NetworkWrites == ASSUME ServerInv, WriteAnswer PROVE ServerInv'
<1> USE DEF ServerInv
<1>1. /\ network.at = "write" /\ network.at # "accept"
      /\ UNCHANGED <<backlog, nextRequestId, ingress, egress, core, engine, handled, published>>
      /\ network' = [network EXCEPT !.at = "publish"]
      /\ network \in NetworkRecords
      /\ client \in [Clients -> ClientRecords] BY DEF WriteAnswer, ServerTypeOK
<1>2. /\ network' \in NetworkRecords /\ network'.at = "publish"
      /\ network'.serving = network.serving /\ network'.item = network.item BY <1>1 DEF NetworkRecords
<1>3. PICK c \in Clients : network.serving = {c} BY <1>1, TheServedOne
<1>4. network.item \in Answers /\ network.item.to = c /\ network.item.changes = engine.changes
  BY <1>1, <1>3 DEF AnswersAreDelivered
<1>5. ~LineIsOwed /\ ~LineIsOwed' BY <1>1, <1>2 DEF LineIsOwed
<1>6. HasBeenHandled(c) BY <1>1, <1>3, <1>5 DEF CallsComeOnce
<1>7. ASSUME NEW d \in Clients
      PROVE  /\ client'[d] \in ClientRecords
             /\ client'[d].at = client[d].at
             /\ client'[d].answer = client[d].answer \/ (d = c /\ client'[d].answer = network.item)
  BY <1>1, <1>3, <1>4 DEF WriteAnswer, ClientRecords
<1>8. client' \in [Clients -> ClientRecords] BY <1>7 DEF WriteAnswer
<1>9. ServerTypeOK' BY <1>1, <1>2, <1>8 DEF ServerTypeOK
<1>10. OneIsServed' /\ OnlyOneInFlight' BY <1>1, <1>2, <1>3 DEF OneIsServed, OnlyOneInFlight
<1>11. IdsAreInOrder' BY <1>1, <1>5 DEF IdsAreInOrder
<1>12. \A d : HasBeenHandled(d)' <=> HasBeenHandled(d) BY <1>1 DEF HasBeenHandled
<1>13. /\ \A i \in 1 .. Len(backlog) : backlog[i] \in Clients
       /\ \A n \in 1 .. Len(handled) : handled[n].from \in Clients
  <2>1. \A n \in 1 .. Len(handled) : handled[n] \in Requests BY ElementOfSeq DEF ServerTypeOK
  <2>2. \A i \in 1 .. Len(backlog) : backlog[i] \in Clients BY ElementOfSeq DEF ServerTypeOK
  <2> QED BY <2>1, <2>2 DEF Requests
<1>14. CallsComeOnce' BY <1>1, <1>2, <1>3, <1>5, <1>7, <1>12, <1>13 DEF CallsComeOnce
<1>15. AnswersAreDelivered'
  <2>1. ASSUME NEW d \in Clients, client'[d].answer # Nobody
        PROVE  client'[d].answer.to = d /\ HasBeenHandled(d) BY <1>4, <1>6, <1>7, <2>1 DEF AnswersAreDelivered
  <2> QED BY <1>1, <1>2, <1>3, <1>4, <1>12, <2>1 DEF AnswersAreDelivered
<1> QED BY <1>9, <1>10, <1>11, <1>14, <1>15

\* The depth that is sent is of the book as it still is.
LEMMA NetworkPublishes == ASSUME ServerInv, PublishDepth PROVE ServerInv'
<1> USE DEF ServerInv
<1>1. /\ network.at = "publish"
      /\ UNCHANGED <<client, backlog, nextRequestId, ingress, egress, core, engine, handled>>
      /\ network' = [network EXCEPT !.at = "accept", !.serving = {}, !.item = Nobody]
      /\ published' \in {published, network.item.changes}
      /\ network \in NetworkRecords /\ engine \in EngineRecords /\ published \in Nat
  BY DEF PublishDepth, ServerTypeOK
<1>2. network' \in NetworkRecords /\ network'.at = "accept" /\ network'.serving = {}
  BY <1>1 DEF NetworkRecords
<1>3. published' \in Nat /\ published' <= engine.changes BY <1>1 DEF AnswersAreDelivered, EngineRecords
<1>4. ServerTypeOK' BY <1>1, <1>2, <1>3 DEF ServerTypeOK
<1>5. OneIsServed' /\ OnlyOneInFlight' BY <1>1, <1>2 DEF OneIsServed, OnlyOneInFlight
<1>6. ~LineIsOwed /\ ~LineIsOwed' BY <1>1, <1>2 DEF LineIsOwed
<1>7. IdsAreInOrder' BY <1>1, <1>6 DEF IdsAreInOrder
<1>8. CallsComeOnce' BY <1>1, <1>2 DEF CallsComeOnce, HasBeenHandled
<1>9. AnswersAreDelivered' BY <1>1, <1>2, <1>3 DEF AnswersAreDelivered, HasBeenHandled
<1> QED BY <1>4, <1>5, <1>7, <1>8, <1>9

\* Only while the network thread waits does the core have anything to do.
LEMMA CoreWorksForTheServed ==
  ASSUME ServerInv, ingress # <<>> \/ core.at \in {"handle", "answer"}
  PROVE  network.at = "await" /\ egress = <<>> BY EmptySeq DEF ServerInv, OnlyOneInFlight

\* The request moves from the ring into the core's hand.
LEMMA CorePops == ASSUME ServerInv, PopRequest PROVE ServerInv'
<1> USE DEF ServerInv
<1>1. /\ core.at = "pop" /\ ingress # <<>>
      /\ core' = [at |-> "handle", item |-> Head(ingress)]
      /\ ingress' = Tail(ingress)
      /\ UNCHANGED <<client, backlog, network, nextRequestId, egress, engine, handled, published>>
      /\ ingress \in Seq(Requests) BY DEF PopRequest, ServerTypeOK
<1>2. network.at = "await" /\ egress = <<>> BY <1>1, CoreWorksForTheServed
<1>3. Len(ingress) = 1 /\ ingress[1].id = network.id /\ ingress[1].from \in network.serving
  BY <1>1, <1>2 DEF OnlyOneInFlight
<1>4. /\ Head(ingress) = ingress[1] /\ Head(ingress) \in Requests
      /\ ingress' \in Seq(Requests) /\ Len(ingress') = 0 BY <1>1, <1>3, HeadTailProperties
<1>5. ingress' = <<>> BY <1>4, EmptySeq
<1>6. core' \in CoreRecords /\ core'.at = "handle" /\ core'.item = ingress[1]
      /\ core'.item \in Requests BY <1>1, <1>4 DEF CoreRecords
<1>7. ServerTypeOK' BY <1>1, <1>4, <1>6 DEF ServerTypeOK
<1>8. OneIsServed' /\ OnlyOneInFlight' BY <1>1, <1>2, <1>3, <1>5, <1>6 DEF OneIsServed, OnlyOneInFlight
<1>9. LineIsOwed /\ LineIsOwed' BY <1>1, <1>2, <1>3, <1>6 DEF LineIsOwed
<1>10. IdsAreInOrder' BY <1>1, <1>9 DEF IdsAreInOrder
<1>11. CallsComeOnce' BY <1>1, <1>9, CallsUntouched
<1>12. AnswersAreDelivered' BY <1>1 DEF AnswersAreDelivered, HasBeenHandled
<1> QED BY <1>7, <1>8, <1>10, <1>11, <1>12

\* What a line does to the book never takes a change back.
LEMMA ChangesOnlyGrow ==
  ASSUME engine \in EngineRecords, NEW line, NEW after \in Outcomes(line),
         line \in AllLineKinds \cup {"none"}
  PROVE  after \in EngineRecords /\ after.changes >= engine.changes
<1>1. engine.changes \in Nat /\ engine.changes + 1 \in Nat /\ engine.changes + 1 >= engine.changes
  BY DEF EngineRecords
<1>2. ASSUME NEW u \in BOOLEAN, NEW p \in BOOLEAN
      PROVE  /\ [engine EXCEPT !.changes = @ + 1, !.priced = p] \in EngineRecords
             /\ [engine EXCEPT !.changes = @ + 1, !.priced = p].changes = engine.changes + 1
             /\ [engine EXCEPT !.changes = @ + 1, !.unpriced = u] \in EngineRecords
             /\ [engine EXCEPT !.changes = @ + 1, !.unpriced = u].changes = engine.changes + 1
             /\ [engine EXCEPT !.changes = @ + 1] \in EngineRecords
             /\ [engine EXCEPT !.changes = @ + 1].changes = engine.changes + 1 BY <1>1 DEF EngineRecords
<1>3. CASE line = "order"
  <2>1. PICK trades \in BOOLEAN :
           after = [engine EXCEPT !.changes = @ + 1, !.priced = @ \/ trades] BY <1>3 DEF Outcomes
  <2>2. PICK p \in BOOLEAN : p = (engine.priced \/ trades) OBVIOUS
  <2>3. after = [engine EXCEPT !.changes = @ + 1, !.priced = p] BY <2>1, <2>2
  <2> QED BY <1>1, <1>2, <2>3
<1>4. CASE line = "unpriced stop" BY <1>4, <1>1, <1>2 DEF Outcomes
<1>5. CASE line = "cancel"
  <2>1. \/ after = engine
        \/ after = [engine EXCEPT !.changes = @ + 1]
        \/ after = [engine EXCEPT !.changes = @ + 1, !.unpriced = FALSE] BY <1>5 DEF Outcomes
  <2>2. CASE after = engine BY <1>1, <2>2
  <2>3. CASE after = [engine EXCEPT !.changes = @ + 1] BY <1>1, <1>2, <2>3, FALSE \in BOOLEAN
  <2>4. CASE after = [engine EXCEPT !.changes = @ + 1, !.unpriced = FALSE] BY <1>1, <1>2, <2>4
  <2> QED BY <2>1, <2>2, <2>3, <2>4
<1>6. CASE line \in {"query", "malformed", "blank", "none"}
  <2>1. after = engine BY <1>6 DEF Outcomes
  <2> QED BY <1>1, <2>1
<1> QED BY <1>3, <1>4, <1>5, <1>6 DEF AllLineKinds

\* The core handles the line that is owed; its client was not handled before.
LEMMA CoreHandles == ASSUME ServerInv, HandleLine PROVE ServerInv'
<1> USE DEF ServerInv
<1>1. /\ core.at = "handle" /\ core \in CoreRecords /\ engine \in EngineRecords
      /\ core' = [core EXCEPT !.at = "answer"]
      /\ handled' = Append(handled, core.item)
      /\ UNCHANGED <<client, backlog, network, nextRequestId, ingress, egress, published>>
      /\ handled \in Seq(Requests) /\ published \in Nat /\ nextRequestId \in Nat
  BY DEF HandleLine, ServerTypeOK
<1>2. network.at = "await" /\ egress = <<>> BY <1>1, CoreWorksForTheServed
<1>3. /\ ingress = <<>> /\ core.item \in Requests
      /\ core.item.id = network.id /\ core.item.from \in network.serving BY <1>1, <1>2 DEF OnlyOneInFlight
<1>4. PICK c \in Clients : network.serving = {c} /\ core.item.from = c BY <1>2, <1>3, TheServedOne
<1>5. engine' \in EngineRecords /\ engine'.changes >= engine.changes
  <2>1. PICK after \in Outcomes(core.item.line) : engine' = after BY DEF HandleLine
  <2>2. core.item.line \in AllLineKinds \cup {"none"} BY <1>3 DEF Requests
  <2> QED BY <1>1, <2>1, <2>2, ChangesOnlyGrow
<1>6. core' \in CoreRecords /\ core'.at = "answer" /\ core'.item = core.item BY <1>1 DEF CoreRecords
<1>7. /\ Len(handled) \in Nat
      /\ handled' \in Seq(Requests) /\ Len(handled') = Len(handled) + 1
      /\ \A n \in 1 .. Len(handled) : handled'[n] = handled[n]
      /\ handled'[Len(handled) + 1] = core.item BY <1>1, <1>3, AppendProperties, LenProperties
<1>8. ServerTypeOK' BY <1>1, <1>5, <1>6, <1>7 DEF ServerTypeOK
<1>9. OneIsServed' /\ OnlyOneInFlight' BY <1>1, <1>2, <1>3, <1>6 DEF OneIsServed, OnlyOneInFlight
<1>10. LineIsOwed /\ ~LineIsOwed' BY <1>1, <1>3, <1>2, <1>6 DEF LineIsOwed
<1>11. \A n \in 1 .. Len(handled') : n \in 1 .. Len(handled) \/ n = Len(handled) + 1 BY <1>7
<1>12. IdsAreInOrder'
  <2>1. Len(handled) = network.id /\ nextRequestId = network.id + 1 BY <1>10 DEF IdsAreInOrder
  <2>2. Len(handled') = nextRequestId' BY <1>1, <1>7, <2>1
  <2>3. ASSUME NEW n \in 1 .. Len(handled') PROVE handled'[n].id = n - 1
    <3>1. CASE n \in 1 .. Len(handled) BY <1>7, <3>1 DEF IdsAreInOrder
    <3>2. CASE n = Len(handled) + 1 BY <1>3, <1>7, <2>1, <3>2
    <3> QED BY <1>11, <3>1, <3>2
  <2> QED BY <1>10, <2>2, <2>3 DEF IdsAreInOrder
<1>13. \A d : HasBeenHandled(d)' <=> HasBeenHandled(d) \/ d = c
  <2> TAKE d
  <2>1. ASSUME HasBeenHandled(d)' PROVE HasBeenHandled(d) \/ d = c
    <3>1. PICK n \in 1 .. Len(handled') : handled'[n].from = d BY <2>1 DEF HasBeenHandled
    <3> QED BY <1>4, <1>7, <1>11, <3>1 DEF HasBeenHandled
  <2>2. ASSUME HasBeenHandled(d) PROVE HasBeenHandled(d)'
    <3>1. PICK n \in 1 .. Len(handled) : handled[n].from = d BY <2>2 DEF HasBeenHandled
    <3>2. n \in 1 .. Len(handled') /\ handled'[n].from = d BY <1>7, <3>1
    <3> QED BY <3>2 DEF HasBeenHandled
  <2>3. HasBeenHandled(c)' BY <1>4, <1>7 DEF HasBeenHandled
  <2> QED BY <2>1, <2>2, <2>3
<1>14. /\ client[c].at # "new" /\ ~HasBeenHandled(c)
       /\ \A i \in 1 .. Len(backlog) : backlog[i] # c BY <1>4, <1>10 DEF CallsComeOnce
<1>15. CallsComeOnce'
  <2>1. ASSUME NEW m \in 1 .. Len(handled'), NEW n \in 1 .. Len(handled'),
               handled'[m].from = handled'[n].from
        PROVE  m = n
    <3>1. \A k \in 1 .. Len(handled) : handled[k].from # c BY <1>14 DEF HasBeenHandled
    <3>2. CASE m \in 1 .. Len(handled) /\ n \in 1 .. Len(handled) BY <1>7, <2>1, <3>2 DEF CallsComeOnce
    <3>3. CASE m = Len(handled) + 1 \/ n = Len(handled) + 1 BY <1>4, <1>7, <1>11, <2>1, <3>1, <3>3
    <3> QED BY <1>11, <3>2, <3>3
  <2>2. ASSUME NEW n \in 1 .. Len(handled') PROVE client[handled'[n].from].at # "new"
    BY <1>4, <1>7, <1>11, <1>14 DEF CallsComeOnce
  <2> QED BY <1>1, <1>2, <1>4, <1>10, <1>13, <1>14, <2>1, <2>2 DEF CallsComeOnce
<1>16. AnswersAreDelivered' BY <1>1, <1>5, <1>2, <1>13 DEF AnswersAreDelivered, EngineRecords
<1> QED BY <1>8, <1>9, <1>12, <1>15, <1>16

\* The core is gone: the line stays owed, and the network thread waits.
LEMMA CorePanics == ASSUME ServerInv, HandlerPanics PROVE ServerInv'
<1> USE DEF ServerInv
<1>1. /\ core.at = "handle" /\ core \in CoreRecords
      /\ core' = [core EXCEPT !.at = "dead"]
      /\ UNCHANGED <<client, backlog, network, nextRequestId, ingress, egress, engine,
                     handled, published>> BY DEF HandlerPanics, ServerTypeOK
<1>2. network.at = "await" /\ egress = <<>> BY <1>1, CoreWorksForTheServed
<1>3. core' \in CoreRecords /\ core'.at = "dead" /\ core'.item = core.item BY <1>1 DEF CoreRecords
<1>4. ServerTypeOK' BY <1>1, <1>3 DEF ServerTypeOK
<1>5. OneIsServed' /\ OnlyOneInFlight' BY <1>1, <1>2, <1>3 DEF OneIsServed, OnlyOneInFlight
<1>6. LineIsOwed /\ LineIsOwed' BY <1>1, <1>2, <1>3 DEF LineIsOwed
<1>7. IdsAreInOrder' BY <1>1, <1>6 DEF IdsAreInOrder
<1>8. CallsComeOnce' BY <1>1, <1>6, CallsUntouched
<1>9. AnswersAreDelivered' BY <1>1 DEF AnswersAreDelivered, HasBeenHandled
<1> QED BY <1>4, <1>5, <1>7, <1>8, <1>9

\* The answer is the only thing in flight, and carries the book's changes.
LEMMA CoreAnswers == ASSUME ServerInv, PushAnswer PROVE ServerInv'
<1> USE DEF ServerInv
<1>1. /\ core.at = "answer" /\ core \in CoreRecords /\ engine \in EngineRecords
      /\ core' = [at |-> "pop", item |-> Nobody]
      /\ UNCHANGED <<client, backlog, network, nextRequestId, ingress, engine, handled, published>>
  BY DEF PushAnswer, ServerTypeOK
<1>2. network.at = "await" /\ egress = <<>> BY <1>1, CoreWorksForTheServed
<1>3. /\ ingress = <<>> /\ core.item \in Requests
      /\ core.item.id = network.id /\ core.item.from \in network.serving BY <1>1, <1>2 DEF OnlyOneInFlight
<1>4. PICK answer \in Answers :
         /\ answer = [at |-> "answer", id |-> core.item.id,
                      to |-> core.item.from, changes |-> engine.changes]
         /\ answer.to = core.item.from /\ answer.changes = engine.changes
  <2>1. PICK k \in Nat, d \in Clients, n \in Nat :
           k = core.item.id /\ d = core.item.from /\ n = engine.changes
    BY <1>1, <1>3 DEF Requests, EngineRecords
  <2> DEFINE a == [at |-> "answer", id |-> k, to |-> d, changes |-> n]
  <2>2. a \in Answers /\ a.to = d /\ a.changes = n BY DEF Answers
  <2> QED BY <2>1, <2>2
<1>5. egress' = Append(<<>>, answer) BY <1>2, <1>4 DEF PushAnswer
<1>6. egress' \in Seq(Answers) /\ Len(egress') = 1 /\ egress'[1] = answer BY EmptySeq, <1>5, AppendProperties
<1>7. core' \in CoreRecords /\ core'.at = "pop" BY <1>1 DEF CoreRecords
<1>8. ServerTypeOK' BY <1>1, <1>6, <1>7 DEF ServerTypeOK
<1>9. OneIsServed' /\ OnlyOneInFlight' BY <1>1, <1>2, <1>3, <1>4, <1>6, <1>7 DEF OneIsServed, OnlyOneInFlight
<1>10. ~LineIsOwed /\ ~LineIsOwed' BY <1>1, <1>3, <1>2, <1>7 DEF LineIsOwed
<1>11. IdsAreInOrder' BY <1>1, <1>10 DEF IdsAreInOrder
<1>12. CallsComeOnce' BY <1>1, <1>10, CallsUntouched
<1>13. AnswersAreDelivered' BY <1>1 DEF AnswersAreDelivered, HasBeenHandled
<1> QED BY <1>8, <1>9, <1>11, <1>12, <1>13

\* Every step of the request loop, and every step that leaves it alone, keeps the invariant.
LEMMA ServerStep == ASSUME ServerInv, [ServerNext]_serverVars PROVE ServerInv'
<1>1. CASE UNCHANGED serverVars
  <2> USE <1>1 DEF serverVars, ServerInv
  <2>1. ServerTypeOK' /\ OneIsServed' /\ OnlyOneInFlight' BY DEF ServerTypeOK, OneIsServed, OnlyOneInFlight
  <2>2. LineIsOwed' <=> LineIsOwed BY DEF LineIsOwed
  <2>3. IdsAreInOrder' /\ AnswersAreDelivered' BY <2>2 DEF IdsAreInOrder, AnswersAreDelivered, HasBeenHandled
  <2>4. CallsComeOnce' BY <2>2, CallsUntouched
  <2> QED BY <2>1, <2>3, <2>4
<1>2. CASE \E c \in Clients : Connect(c) \/ Send(c) \/ Receive(c) \/ Leave(c)
  BY <1>2, ClientConnects, ClientMoves
<1>3. CASE Accept \/ ReadLine \/ PushRequest \/ AwaitAnswer \/ WriteAnswer \/ PublishDepth
  BY <1>3, NetworkAccepts, NetworkReads, NetworkPushes, NetworkGetsTheAnswer, NetworkWrites,
     NetworkPublishes
<1>4. CASE PopRequest \/ HandleLine \/ HandlerPanics \/ PushAnswer
  BY <1>4, CorePops, CoreHandles, CorePanics, CoreAnswers
<1> QED BY <1>1, <1>2, <1>3, <1>4 DEF ServerNext

\* The invariant gives what the run checks.
LEMMA ServerSafety == ServerInv => AnswersBelongToTheirRequests /\ DepthsArriveInOrder
<1> SUFFICES ASSUME ServerInv PROVE AnswersBelongToTheirRequests /\ DepthsArriveInOrder OBVIOUS
<1> USE DEF ServerInv
<1>1. Len(<<>>) = 0 OBVIOUS
<1>2. InFlight <= 1
  <2> DEFINE atWork == IF core.at \in {"handle", "answer"} THEN 1 ELSE 0
  <2>3. atWork \in {0, 1} /\ (core.at = "pop" => atWork = 0) OBVIOUS
  <2>4. InFlight = Len(ingress) + Len(egress) + atWork BY DEF InFlight
  <2> HIDE DEF atWork
  <2>1. CASE network.at # "await" BY <1>1, <2>1, <2>3, <2>4 DEF OnlyOneInFlight
  <2>2. CASE network.at = "await"
    <3>1. \/ Len(ingress) = 1 /\ Len(egress) = 0 /\ core.at = "pop"
          \/ Len(ingress) = 0 /\ Len(egress) = 0
          \/ Len(ingress) = 0 /\ Len(egress) = 1 /\ core.at = "pop" BY <1>1, <2>2 DEF OnlyOneInFlight
    <3>2. CASE Len(ingress) = 1 /\ Len(egress) = 0 /\ core.at = "pop" BY <2>3, <2>4, <3>2
    <3>3. CASE Len(ingress) = 0 /\ Len(egress) = 0 BY <2>3, <2>4, <3>3
    <3>4. CASE Len(ingress) = 0 /\ Len(egress) = 1 /\ core.at = "pop" BY <2>3, <2>4, <3>4
    <3> QED BY <3>1, <3>2, <3>3, <3>4
  <2> QED BY <2>1, <2>2
<1>3. /\ handled \in Seq(Requests) /\ DOMAIN handled = 1 .. Len(handled) /\ Len(handled) \in Nat
  BY LenProperties DEF ServerTypeOK
<1>4. ASSUME NEW c \in Clients PROVE Cardinality(HandledFrom(c)) <= 1
  <2>1. CASE HandledFrom(c) = {} BY <2>1, FS_EmptySet
  <2>2. CASE HandledFrom(c) # {}
    <3>1. PICK n \in HandledFrom(c) : TRUE BY <2>2
    <3>2. \A m \in HandledFrom(c) : m = n BY <1>3, <3>1 DEF HandledFrom, CallsComeOnce
    <3>3. HandledFrom(c) = {n} BY <3>1, <3>2
    <3> QED BY <3>3, FS_Singleton
  <2> QED BY <2>1, <2>2
<1>5. ASSUME NEW c \in Clients, client[c].answer # Nobody PROVE client[c].answer.to = c /\ HandledFrom(c) # {}
  BY <1>3, <1>5 DEF AnswersAreDelivered, HasBeenHandled, HandledFrom
<1>6. \A n \in DOMAIN handled : handled[n].id = n - 1 BY <1>3 DEF IdsAreInOrder
<1>7. AnswersBelongToTheirRequests BY <1>2, <1>4, <1>5, <1>6 DEF AnswersBelongToTheirRequests
<1>8. DepthsArriveInOrder BY DEF AnswersAreDelivered, DepthsArriveInOrder
<1> QED BY <1>7, <1>8

--------------------
(* Theorems *)

EngineInv == RingInv /\ ServerInv

\* The two parts share no state: each invariant is kept by the steps of its own part.
LEMMA EngineInvariant == EngineSpec => []EngineInv
<1>1. EngineInit => EngineInv BY RingInit, ServerInitially DEF EngineInit, EngineInv
<1>2. EngineInv /\ [EngineNext]_engineVars => EngineInv'
  <2> SUFFICES ASSUME EngineInv, [EngineNext]_engineVars PROVE EngineInv' OBVIOUS
  <2>1. [Next]_vars /\ [ServerNext]_serverVars BY DEF EngineNext, engineVars
  <2> QED BY <2>1, RingStep, ServerStep DEF EngineInv
<1> QED BY <1>1, <1>2, PTL DEF EngineSpec

\* Every index stays within a usize and every slot, call and history within its type,
\* whatever the capacity and the width of the indices.
THEOREM RingTypeCorrect == Spec => []TypeOK
<1>1. Init => RingInv BY RingInit
<1>2. RingInv /\ [Next]_vars => RingInv' BY RingStep
<1>3. RingInv => TypeOK BY DEF RingInv
<1> QED BY <1>1, <1>2, <1>3, PTL DEF Spec

\* No two threads access a slot at once, no line is handled twice, each answer goes to the
\* client that sent the line, and no depth is older than the one sent before it.
THEOREM HandOffSafety == EngineSpec => []HandOffsAreSound
<1>1. EngineInv => HandOffsAreSound BY RaceFree, ServerSafety DEF EngineInv, HandOffsAreSound
<1> QED BY <1>1, EngineInvariant, PTL

\* The ring buffer is a bounded first-in first-out queue: tryPush and tryPop with their
\* stale caches and wrapping indices implement Push and Pop, and Drop destroys what is left.
THEOREM RingImplementsFifo == EngineSpec => ImplementsBoundedFifo
<1>1. EngineInit => Fifo!Init BY FifoInit DEF EngineInit
<1>2. EngineInv /\ EngineInv' /\ [EngineNext]_engineVars => [Fifo!Next]_(Fifo!vars)
  <2> SUFFICES ASSUME EngineInv, EngineInv', [EngineNext]_engineVars PROVE [Fifo!Next]_(Fifo!vars) OBVIOUS
  <2>1. [Next]_vars BY DEF EngineNext, engineVars
  <2> QED BY <2>1, FifoStep DEF EngineInv
<1> QED BY <1>1, <1>2, EngineInvariant, PTL DEF EngineSpec, ImplementsBoundedFifo, Fifo!Spec

\* What has been popped is what was pushed first, in order and nothing else.
THEOREM PoppedInPushOrder == Spec => [](popped = SubSeq(pushed, 1, Len(popped)))
<1>1. RingInv => popped = SubSeq(pushed, 1, Len(popped))
  <2> SUFFICES ASSUME RingInv PROVE popped = SubSeq(pushed, 1, Len(popped)) OBVIOUS
  <2>1. /\ popped \in Seq(Items \cup {NoItem}) /\ pushed \in Seq(Items)
        /\ Pops = Len(popped) /\ Pushes = Len(pushed) BY DEF RingInv, TypeOK, Pops, Pushes
  <2>2. Pops \in Nat /\ Pushes \in Nat /\ Pops <= Pushes BY CountTypes
  <2>3. \A i \in 1 .. Pops : pushed[i] \in Items BY <2>1, <2>2, ElementOfSeq
  <2>4. PICK s \in Seq(Items) :
           /\ s = SubSeq(pushed, 1, Pops)
           /\ Len(s) = Pops /\ \A i \in 1 .. Pops : s[i] = pushed[i]
    <3>1. /\ SubSeq(pushed, 1, Pops) \in Seq(Items)
          /\ Len(SubSeq(pushed, 1, Pops)) = (IF 1 <= Pops THEN (Pops - 1) + 1 ELSE 0)
          /\ \A i \in 1 .. (Pops - 1) + 1 :
                SubSeq(pushed, 1, Pops)[i] = pushed[(1 + i) - 1] BY <2>2, <2>3, SubSeqProperties
    <3>2. \A i \in 1 .. Pops : i \in 1 .. (Pops - 1) + 1 /\ (1 + i) - 1 = i BY <2>2
    <3>3. Len(SubSeq(pushed, 1, Pops)) = Pops BY <2>2, <3>1
    <3> QED BY <3>1, <3>2, <3>3
  <2>5. \A i \in 1 .. Pops : popped[i] = s[i] BY <2>4 DEF RingInv, ItemsAreInPlace
  <2>6. s \in Seq(Items \cup {NoItem}) BY SeqMonotonic
  <2>7. popped = s BY <2>1, <2>4, <2>5, <2>6, SeqEqual
  <2> QED BY <2>1, <2>4, <2>7
<1>2. Init => RingInv BY RingInit
<1>3. RingInv /\ [Next]_vars => RingInv' BY RingStep
<1> QED BY <1>1, <1>2, <1>3, PTL DEF Spec

--------------------
(* The write-ahead log. *)

\* The calling thread still has to append the record of its command, first.
NotYetLogged ==
  /\ pending # <<>>
  /\ Head(pending) = call.command /\ IsCommand(call.command)
  /\ \A i \in 2 .. Len(pending) : ~IsCommand(pending[i])

\* The record of the command is in the log; only trade records are left.
AlreadyLogged ==
  /\ \A i \in 1 .. Len(pending) : ~IsCommand(pending[i])
  /\ call.fresh => Durable(call)

CallInv == pc = "logging" => NotYetLogged \/ AlreadyLogged

LogInv == LogTypeOK /\ FreshlyLoggedAcksAreDurable /\ CallInv

--------------------
\* The records the module builds are records.
LEMMA RecordTypes ==
  /\ Unparseable \in Records
  /\ TradeExecuted \in Records
  /\ \A id \in Nat : OrderCancelled(id) \in Records
  /\ \A id \in Nat, order \in Orders : OrderAccepted(id, order) \in Records
  BY DEF Records, Kinds, Unparseable, TradeExecuted, OrderCancelled, OrderAccepted

\* appendEvent, interrupted or not, leaves lines of records, and leaves every
\* line that has its newline where and as it was.
LEMMA WrittenKeepsEndedLines ==
  ASSUME NEW log \in Seq(Lines), NEW record \in Records, NEW how \in AllPartialWrites
  PROVE  /\ Written(log, record, how) \in Seq(Lines)
         /\ \A i \in 1 .. Len(log) : log[i].ended =>
               /\ i <= Len(Written(log, record, how))
               /\ Written(log, record, how)[i] = log[i]
<1> DEFINE Kept(new) == /\ new \in Seq(Lines)
                        /\ \A i \in 1 .. Len(log) : log[i].ended =>
                              i <= Len(new) /\ new[i] = log[i]
<1>1. ASSUME NEW r \in Records, NEW e \in BOOLEAN PROVE Kept(AppendBytes(log, r, e))
  <2> DEFINE line == [record |-> r, ended |-> e]
  <2>1. line \in Lines /\ [record |-> Unparseable, ended |-> e] \in Lines BY RecordTypes DEF Lines
  <2>2. CASE EndsWithNewline(log) BY <2>2, <2>1, AppendProperties DEF AppendBytes
  <2>3. CASE ~EndsWithNewline(log) BY <2>3, <2>1 DEF EndsWithNewline, AppendBytes
  <2> QED BY <2>2, <2>3
<1>2. Kept(log) OBVIOUS
<1>3. Kept(Written(log, record, how)) BY <1>1, <1>2, RecordTypes DEF Written, AllPartialWrites
<1> QED BY <1>3

\* A record appended to its end from a file that ends with a newline is on the
\* last line, by itself.
LEMMA WrittenOnAFreshLine ==
  ASSUME NEW log \in Seq(Lines), NEW record \in Records, EndsWithNewline(log)
  PROVE  LET new == Written(log, record, "whole")
         IN  Len(new) \in 1 .. Len(new) /\ new[Len(new)] = [record |-> record, ended |-> TRUE]
<1> DEFINE line == [record |-> record, ended |-> TRUE]
<1>1. line \in Lines BY DEF Lines
<1>2. Written(log, record, "whole") = Append(log, line) BY DEF Written, AppendBytes
<1> QED BY <1>1, <1>2, AppendProperties

\* Counting the submissions a log tells of gives a natural number.
LEMMA SubmissionsInNat == ASSUME NEW log \in Seq(Lines) PROVE SubmissionsIn(RecordsOf(log)) \in Nat
<1>1. RecordsOf(log) \in Seq(Records)
  <2>1. \A i \in 1 .. Len(log) : log[i] \in Lines BY ElementOfSeq
  <2>2. [i \in 1 .. Len(log) |-> log[i].record] \in [1 .. Len(log) -> Records] BY <2>1 DEF Lines
  <2> QED BY <2>2, IsASeq DEF RecordsOf
<1> DEFINE accepted == {i \in 1 .. Len(RecordsOf(log)) : RecordsOf(log)[i].kind = "OrderAccepted"}
<1>2. IsFiniteSet(1 .. Len(RecordsOf(log))) BY <1>1, FS_Interval
<1>3. IsFiniteSet(accepted) BY <1>2, FS_Subset
<1> QED BY <1>3, FS_CardinalityType DEF SubmissionsIn

--------------------
\* The invariant holds of an empty log.
LEMMA InitEstablishesLogInv == LogInit => LogInv
  BY RecordTypes DEF LogInit, LogInv, LogTypeOK, LoggedCalls, Call, CallInv, FreshlyLoggedAcksAreDurable

\* A durable command stays durable through any append.
LEMMA DurableThroughWrite ==
  ASSUME wal \in Seq(Lines),
         NEW record \in Records, NEW how \in AllPartialWrites,
         wal' = Written(wal, record, how),
         NEW ack \in LoggedCalls, Durable(ack)
  PROVE  Durable(ack)' BY WrittenKeepsEndedLines DEF Durable

\* Applying a command puts its record first among those to append.
LEMMA SubmitPreservesLogInv == ASSUME LogInv, NEW order \in Orders, SubmitIncomingOrder(order) PROVE LogInv'
<1> USE DEF SubmitIncomingOrder
<1> DEFINE record == OrderAccepted(nextId, order)
<1>1. record \in Records BY RecordTypes DEF LogInv, LogTypeOK
<1>2. PICK trades \in 0 .. MaxTrades :
         pending' = <<record>> \o [t \in 1 .. trades |-> TradeExecuted] OBVIOUS
<1> DEFINE reports == [t \in 1 .. trades |-> TradeExecuted]
<1>3. reports \in Seq(Records) /\ Len(reports) = trades BY RecordTypes, IsASeq, BoundsAssumption
<1>4. /\ pending' \in Seq(Records)
      /\ Len(pending') = 1 + trades
      /\ pending'[1] = record
      /\ \A i \in 2 .. Len(pending') : pending'[i] = TradeExecuted
  <2>1. <<record>> \in Seq(Records) /\ Len(<<record>>) = 1 /\ <<record>>[1] = record BY <1>1
  <2>2. \A i \in 1 .. trades : reports[i] = TradeExecuted OBVIOUS
  <2> HIDE DEF reports, record
  <2> QED BY <1>2, <1>3, <2>1, <2>2, ConcatProperties
<1>5. LogTypeOK' BY <1>1, <1>4 DEF LogInv, LogTypeOK, LoggedCalls, Call
<1>6. FreshlyLoggedAcksAreDurable' BY DEF LogInv, FreshlyLoggedAcksAreDurable, Durable
<1>7. NotYetLogged' BY <1>4, BoundsAssumption DEF IsCommand, TradeExecuted, OrderAccepted, NotYetLogged, Call
<1> QED BY <1>5, <1>6, <1>7 DEF LogInv, CallInv

\* The same for a cancel, whose record is the only one.
LEMMA CancelPreservesLogInv == ASSUME LogInv, NEW id \in 1 .. MaxCommands, CancelOrder(id) PROVE LogInv'
<1> USE DEF CancelOrder
<1>1. OrderCancelled(id) \in Records BY RecordTypes, BoundsAssumption
<1>2. LogTypeOK' BY <1>1 DEF LogInv, LogTypeOK, LoggedCalls, Call
<1>3. FreshlyLoggedAcksAreDurable' BY DEF LogInv, FreshlyLoggedAcksAreDurable, Durable
<1>4. NotYetLogged' BY DEF NotYetLogged, Call, IsCommand, OrderCancelled
<1> QED BY <1>2, <1>3, <1>4 DEF LogInv, CallInv

\* An append that returned Ok logs the first pending record: the command's own,
\* or a trade's, which leaves the command's line alone.
LEMMA AppendPreservesLogInv == ASSUME LogInv, AppendEvent PROVE LogInv'
<1> USE DEF AppendEvent
<1>1. /\ Head(pending) \in Records
      /\ pending' \in Seq(Records)
      /\ \A i \in 1 .. Len(pending') : pending'[i] = pending[i + 1] /\ i + 1 \in 2 .. Len(pending)
  BY HeadTailProperties DEF LogInv, LogTypeOK
<1>2. wal' \in Seq(Lines) BY <1>1, WrittenKeepsEndedLines DEF LogInv, LogTypeOK, AllPartialWrites
<1>3. LogTypeOK'
  <2>1. EndsWithNewline(wal) \in BOOLEAN BY DEF EndsWithNewline, LogInv, LogTypeOK, Lines
  <2>2. Len(wal') \in Nat BY <1>2
  <2>3. call' \in LoggedCalls BY <2>1, <2>2 DEF LogInv, LogTypeOK, LoggedCalls
  <2> QED BY <1>1, <1>2, <2>3 DEF LogInv, LogTypeOK, counters
<1>4. ASSUME NEW ack \in LoggedCalls, Durable(ack) PROVE Durable(ack)'
  BY <1>1, <1>4, DurableThroughWrite DEF LogInv, LogTypeOK, AllPartialWrites
<1>5. FreshlyLoggedAcksAreDurable' BY <1>4 DEF LogInv, LogTypeOK, FreshlyLoggedAcksAreDurable
<1>6. CASE NotYetLogged
  <2>1. \A i \in 1 .. Len(pending') : ~IsCommand(pending'[i]) BY <1>1, <1>6 DEF NotYetLogged
  <2>2. call'.fresh => Durable(call)'
    BY <1>6, <1>1, WrittenOnAFreshLine DEF NotYetLogged, LogInv, LogTypeOK, LoggedCalls, Durable
  <2> QED BY <1>3, <1>5, <2>1, <2>2 DEF LogInv, CallInv, AlreadyLogged
<1>7. CASE AlreadyLogged
  <2>1. ~IsCommand(Head(pending)) /\ call' = call
    BY <1>7, HeadTailProperties DEF AlreadyLogged, LogInv, LogTypeOK
  <2>2. \A i \in 1 .. Len(pending') : ~IsCommand(pending'[i]) BY <1>1, <1>7 DEF AlreadyLogged
  <2>3. call'.fresh => Durable(call)'
    BY <1>4, <1>7, <2>1 DEF Durable, LoggedCalls, AlreadyLogged, LogInv, LogTypeOK
  <2> QED BY <1>3, <1>5, <2>1, <2>2, <2>3 DEF LogInv, CallInv, AlreadyLogged
<1> QED BY <1>6, <1>7 DEF LogInv, CallInv

\* The response is sent when nothing is left to append, so the command that
\* joins the acknowledged ones is already in the log.
LEMMA AcknowledgePreservesLogInv == ASSUME LogInv, Acknowledge PROVE LogInv'
<1> USE DEF Acknowledge
<1>1. LogTypeOK' BY DEF LogInv, LogTypeOK, counters
<1>2. AlreadyLogged BY DEF LogInv, CallInv, NotYetLogged
<1>3. FreshlyLoggedAcksAreDurable'
  <2> SUFFICES ASSUME NEW n \in 1 .. Len(acked'), acked'[n].fresh PROVE Durable(acked'[n])
    BY DEF FreshlyLoggedAcksAreDurable, Durable
  <2>1. CASE n = Len(acked) + 1 BY <2>1, AppendProperties, <1>2 DEF LogInv, LogTypeOK, AlreadyLogged
  <2>2. CASE n # Len(acked) + 1 BY <2>2, AppendProperties DEF LogInv, LogTypeOK, FreshlyLoggedAcksAreDurable
  <2> QED BY <2>1, <2>2
<1> QED BY <1>1, <1>3 DEF LogInv, CallInv

\* A failed append, as a torn one, keeps the lines that are whole.
LEMMA AppendFailsPreservesLogInv == ASSUME LogInv, NEW how \in PartialWrites, AppendFails(how) PROVE LogInv'
<1> USE DEF AppendFails
<1>1. Head(pending) \in Records /\ how \in AllPartialWrites
  BY HeadTailProperties, PartialWritesAssumption DEF LogInv, LogTypeOK
<1>2. wal' \in Seq(Lines) BY <1>1, WrittenKeepsEndedLines DEF LogInv, LogTypeOK
<1>3. LogTypeOK' BY <1>2 DEF LogInv, LogTypeOK
<1>4. FreshlyLoggedAcksAreDurable'
  BY <1>1, DurableThroughWrite DEF LogInv, LogTypeOK, FreshlyLoggedAcksAreDurable
<1> QED BY <1>3, <1>4 DEF LogInv, CallInv

\* So does a crash, whether or not it interrupts an append.
LEMMA CrashPreservesLogInv == ASSUME LogInv, NEW how \in PartialWrites, Crash(how) PROVE LogInv'
<1> USE DEF Crash
<1>1. CASE pending # <<>>
  <2>1. Head(pending) \in Records /\ how \in AllPartialWrites
    BY <1>1, HeadTailProperties, PartialWritesAssumption DEF LogInv, LogTypeOK
  <2>2. wal' = Written(wal, Head(pending), how) BY <1>1
  <2>3. wal' \in Seq(Lines) BY <2>1, <2>2, WrittenKeepsEndedLines DEF LogInv, LogTypeOK
  <2>4. LogTypeOK' BY <2>3 DEF LogInv, LogTypeOK
  <2>5. FreshlyLoggedAcksAreDurable'
    BY <2>1, <2>2, DurableThroughWrite DEF LogInv, LogTypeOK, FreshlyLoggedAcksAreDurable
  <2> QED BY <2>4, <2>5 DEF LogInv, CallInv
<1>2. CASE pending = <<>> BY <1>2 DEF LogInv, CallInv, LogTypeOK, FreshlyLoggedAcksAreDurable, Durable
<1> QED BY <1>1, <1>2

\* Recovery reads the log and writes nothing.
LEMMA RecoveryPreservesLogInv == ASSUME LogInv, OpenRecovering \/ RecoveryRefused PROVE LogInv'
<1>1. CASE OpenRecovering
  <2>1. nextId' \in Nat BY <1>1, SubmissionsInNat DEF OpenRecovering, LogInv, LogTypeOK
  <2> QED BY <1>1, <2>1 DEF OpenRecovering, LogInv, LogTypeOK, CallInv,
                            FreshlyLoggedAcksAreDurable, Durable, counters
<1>2. CASE RecoveryRefused
  BY <1>2 DEF RecoveryRefused, LogInv, LogTypeOK, CallInv,
              FreshlyLoggedAcksAreDurable, Durable, counters
<1> QED BY <1>1, <1>2

\* Every step of the log and its process keeps the invariant of the log.
LEMMA NextPreservesLogInv == LogInv /\ [LogNext]_logVars => LogInv'
<1> SUFFICES ASSUME LogInv, [LogNext]_logVars PROVE LogInv' OBVIOUS
<1>1. ASSUME NEW order \in Orders, SubmitIncomingOrder(order) PROVE LogInv' BY <1>1, SubmitPreservesLogInv
<1>2. ASSUME NEW id \in 1 .. MaxCommands, CancelOrder(id) PROVE LogInv' BY <1>2, CancelPreservesLogInv
<1>3. CASE AppendEvent BY <1>3, AppendPreservesLogInv
<1>4. CASE Acknowledge BY <1>4, AcknowledgePreservesLogInv
<1>5. ASSUME NEW how \in PartialWrites, AppendFails(how) PROVE LogInv' BY <1>5, AppendFailsPreservesLogInv
<1>6. ASSUME NEW how \in PartialWrites, Crash(how) PROVE LogInv' BY <1>6, CrashPreservesLogInv
<1>7. CASE OpenRecovering \/ RecoveryRefused BY <1>7, RecoveryPreservesLogInv
<1>8. CASE UNCHANGED logVars
  BY <1>8 DEF logVars, counters, LogInv, LogTypeOK, CallInv, NotYetLogged, AlreadyLogged,
              FreshlyLoggedAcksAreDurable, Durable
<1> QED BY <1>1, <1>2, <1>3, <1>4, <1>5, <1>6, <1>7, <1>8 DEF LogNext

--------------------
\* Every variable keeps to its type.
THEOREM LogTypeCorrect == LogSpec => []LogTypeOK
<1>1. LogInv => LogTypeOK BY DEF LogInv
<1> QED BY <1>1, InitEstablishesLogInv, NextPreservesLogInv, PTL DEF LogSpec

\* Whatever crashes, torn appends and failed appends happen, an acknowledged
\* command logged from a fresh line is in the log for ever.
THEOREM FreshDurability == LogSpec => []FreshlyLoggedAcksAreDurable
<1>1. LogInv => FreshlyLoggedAcksAreDurable BY DEF LogInv
<1> QED BY <1>1, InitEstablishesLogInv, NextPreservesLogInv, PTL DEF LogSpec

\* The log is appended only: no step changes a line that has its newline.
THEOREM AppendOnly == LogSpec => EndedLinesNeverChange
<1> DEFINE Kept == \A i \in 1 .. Len(wal) : wal[i].ended => i <= Len(wal') /\ wal'[i] = wal[i]
<1>1. ASSUME LogTypeOK, [LogNext]_logVars PROVE [Kept]_wal
  <2>0. ASSUME pending # <<>>, NEW how \in AllPartialWrites, wal' = Written(wal, Head(pending), how)
        PROVE  Kept
    <3>1. wal \in Seq(Lines) /\ Head(pending) \in Records BY <1>1, <2>0, HeadTailProperties DEF LogTypeOK
    <3>2. PICK record \in Records : record = Head(pending) BY <3>1
    <3>3. \A i \in 1 .. Len(wal) : wal[i].ended =>
             i <= Len(Written(wal, record, how)) /\ Written(wal, record, how)[i] = wal[i]
      BY <3>1, WrittenKeepsEndedLines
    <3> QED BY <2>0, <3>2, <3>3
  <2>1. CASE AppendEvent BY <2>0, <2>1 DEF AppendEvent, AllPartialWrites
  <2>2. ASSUME NEW how \in PartialWrites, AppendFails(how) PROVE [Kept]_wal
    BY PartialWritesAssumption, <2>0, <2>2 DEF AppendFails
  <2>3. ASSUME NEW how \in PartialWrites, Crash(how) PROVE [Kept]_wal
    BY PartialWritesAssumption, <2>0, <2>3 DEF Crash
  <2>4. ASSUME NEW order \in Orders, SubmitIncomingOrder(order) PROVE UNCHANGED wal
    BY <2>4 DEF SubmitIncomingOrder
  <2>5. ASSUME NEW id \in 1 .. MaxCommands, CancelOrder(id) PROVE UNCHANGED wal BY <2>5 DEF CancelOrder
  <2>6. CASE Acknowledge \/ OpenRecovering \/ RecoveryRefused \/ UNCHANGED logVars
    BY <2>6 DEF Acknowledge, OpenRecovering, RecoveryRefused, logVars
  <2> QED BY <1>1, <2>1, <2>2, <2>3, <2>4, <2>5, <2>6 DEF LogNext
<1> QED BY <1>1, LogTypeCorrect, PTL DEF LogSpec, EndedLinesNeverChange

--------------------
\* An append keeps what an earlier torn one left behind: if the log is clean
\* after it, it was clean before, and what it appended began on a fresh line.
LEMMA CleanAfterWriteIsCleanBefore ==
  ASSUME wal \in Seq(Lines), NEW record \in Records, NEW how \in AllPartialWrites,
         wal' = Written(wal, record, how), LogIsClean'
  PROVE  LogIsClean /\ EndsWithNewline(wal)
<1>1. ASSUME NEW r \in Records, NEW e \in BOOLEAN, wal' = AppendBytes(wal, r, e) PROVE LogIsClean
  <2> DEFINE line == [record |-> r, ended |-> e]
  <2>1. CASE EndsWithNewline(wal)
    <3>1. line \in Lines BY DEF Lines
    <3>2. wal' = Append(wal, line) BY <1>1, <2>1 DEF AppendBytes
    <3> HIDE DEF line
    <3> QED BY <3>1, <3>2, AppendProperties DEF LogIsClean
  <2>2. CASE ~EndsWithNewline(wal) BY <2>2, <1>1 DEF EndsWithNewline, AppendBytes, LogIsClean, Unparseable
  <2> QED BY <2>1, <2>2
<1>2. LogIsClean
  <2>1. CASE how = "nothing" BY <2>1 DEF Written, LogIsClean
  <2>2. CASE how = "fragment" BY <1>1, <2>2, RecordTypes DEF Written
  <2>3. CASE how \in {"unterminated", "whole"} BY <2>3, <1>1 DEF Written
  <2> QED BY <2>1, <2>2, <2>3 DEF AllPartialWrites
<1>3. EndsWithNewline(wal) BY <1>2 DEF EndsWithNewline, LogIsClean
<1> QED BY <1>2, <1>3

\* In a log that is still clean every command was logged from a fresh line.
AllFresh == LogIsClean => call.fresh /\ \A n \in 1 .. Len(acked) : acked[n].fresh

\* As long as no append has left part of a line in the file, no crash and no
\* failed append has lost an acknowledged command.
THEOREM CleanLogDurability == LogSpec => []AckedCommandsAreDurableInACleanLog
<1>1. LogInit => AllFresh BY DEF LogInit, AllFresh, Call
<1>2. ASSUME LogInv, AllFresh, [LogNext]_logVars PROVE AllFresh'
  <2>1. CASE AppendEvent
    BY <1>2, <2>1, HeadTailProperties, CleanAfterWriteIsCleanBefore DEF AppendEvent, LogInv,
       LogTypeOK, AllPartialWrites, AllFresh, LoggedCalls
  <2>2. ASSUME NEW how \in PartialWrites, AppendFails(how) PROVE AllFresh'
    BY <1>2, <2>2, HeadTailProperties, CleanAfterWriteIsCleanBefore, PartialWritesAssumption DEF
       AppendFails, LogInv, LogTypeOK, AllFresh
  <2>3. ASSUME NEW how \in PartialWrites, Crash(how) PROVE AllFresh'
    <3>1. LogIsClean' => LogIsClean
      <4>1. CASE pending # <<>>
        BY <1>2, <2>3, <4>1, HeadTailProperties, CleanAfterWriteIsCleanBefore,
           PartialWritesAssumption DEF Crash, LogInv, LogTypeOK
      <4>2. CASE pending = <<>> BY <2>3, <4>2 DEF Crash, LogIsClean
      <4> QED BY <4>1, <4>2
    <3> QED BY <1>2, <2>3, <3>1 DEF Crash, AllFresh
  <2>4. ASSUME NEW order \in Orders, SubmitIncomingOrder(order) PROVE AllFresh'
    BY <1>2, <2>4 DEF SubmitIncomingOrder, AllFresh, LogIsClean, Call
  <2>5. ASSUME NEW id \in 1 .. MaxCommands, CancelOrder(id) PROVE AllFresh'
    BY <1>2, <2>5 DEF CancelOrder, AllFresh, LogIsClean, Call
  <2>6. CASE Acknowledge
    BY <1>2, <2>6, AppendProperties DEF Acknowledge, AllFresh, LogIsClean, LogInv, LogTypeOK
  <2>7. CASE OpenRecovering \/ RecoveryRefused \/ UNCHANGED logVars
    BY <1>2, <2>7 DEF OpenRecovering, RecoveryRefused, AllFresh, LogIsClean, logVars
  <2> QED BY <1>2, <2>1, <2>2, <2>3, <2>4, <2>5, <2>6, <2>7 DEF LogNext
<1>3. LogInv /\ AllFresh => AckedCommandsAreDurableInACleanLog
  BY DEF LogInv, AllFresh, FreshlyLoggedAcksAreDurable, AckedCommandsAreDurableInACleanLog,
         AckedCommandsAreDurable
<1> QED BY <1>1, <1>2, <1>3, InitEstablishesLogInv, NextPreservesLogInv, PTL DEF LogSpec
--------------------
(* Replay, record by record. *)

\* The recursion by which Replay handles the records, for the first n of them.
Reissues(issued, records, n) ==
  issued = [i \in 0 .. n |-> IF i = 0 THEN <<>> ELSE Reissue(issued[i - 1], records[i])]

\* However many records there are, the loop of the replay handles them all.
LEMMA ReissuesExist == ASSUME NEW records, NEW n \in Nat PROVE \E issued : Reissues(issued, records, n)
<1> DEFINE endless == {m \in Nat : ~\E issued : Reissues(issued, records, m)}
<1>1. SUFFICES endless = {} OBVIOUS
<1>2. SUFFICES ASSUME endless # {} PROVE FALSE BY <1>1
<1>3. PICK m \in endless : \A k \in endless : m <= k BY <1>2, LeastNumber
<1>4. CASE m = 0
  <2>1. Reissues([i \in 0 .. 0 |-> <<>>], records, 0) BY DEF Reissues
  <2> QED BY <1>3, <1>4, <2>1
<1>5. CASE m # 0
  <2>1. m - 1 \in Nat /\ m - 1 \notin endless /\ m \in Nat BY <1>3, <1>5
  <2>2. PICK before : Reissues(before, records, m - 1) BY <2>1
  <2> DEFINE issued == [i \in 0 .. m |-> IF i = m THEN Reissue(before[m - 1], records[m]) ELSE before[i]]
  <2>3. \A i \in 0 .. m : i # m => i \in 0 .. (m - 1) BY <2>1
  <2>4. \A i \in 0 .. m : issued[i] = IF i = 0 THEN <<>> ELSE Reissue(issued[i - 1], records[i])
    <3> SUFFICES ASSUME NEW i \in 0 .. m
                 PROVE  issued[i] = IF i = 0 THEN <<>> ELSE Reissue(issued[i - 1], records[i]) OBVIOUS
    <3>1. CASE i = m BY <2>1, <1>5, <3>1
    <3>2. CASE i # m BY <2>3, <3>2, <2>1, <2>2 DEF Reissues
    <3> QED BY <3>1, <3>2
  <2>5. issued = [i \in 0 .. m |-> IF i = 0 THEN <<>> ELSE Reissue(issued[i - 1], records[i])]
    <3> DEFINE other == [i \in 0 .. m |-> IF i = 0 THEN <<>> ELSE Reissue(issued[i - 1], records[i])]
    <3>1. \A i \in 0 .. m : issued[i] = other[i] BY <2>4
    <3>2. issued = [i \in 0 .. m |-> issued[i]] OBVIOUS
    <3>3. other = [i \in 0 .. m |-> other[i]] OBVIOUS
    <3> HIDE DEF issued, other
    <3>4. issued = other BY <3>1, <3>2, <3>3
    <3> QED BY <3>4 DEF other
  <2>6. Reissues(issued, records, m) BY <2>5 DEF Reissues
  <2> QED BY <1>3, <2>6
<1> QED BY <1>4, <1>5

\* The function Replay defines is such a recursion.
LEMMA ReplayReissues ==
  ASSUME NEW records, Len(records) \in Nat
  PROVE  \E issued : Reissues(issued, records, Len(records)) /\ Replay(records) = issued[Len(records)]
<1> DEFINE issued == CHOOSE f : Reissues(f, records, Len(records))
<1>1. Reissues(issued, records, Len(records)) BY ReissuesExist
<1>2. Replay(records) = issued[Len(records)] BY DEF Replay, Reissues
<1> QED BY <1>1, <1>2

\* What is issued for the first records does not depend on the ones after them.
LEMMA ReissuesAgree ==
  ASSUME NEW f, NEW g, NEW r, NEW s, NEW n \in Nat, NEW m \in Nat, n <= m,
         Reissues(f, r, n), Reissues(g, s, m), \A i \in 1 .. n : r[i] = s[i]
  PROVE  \A i \in 0 .. n : f[i] = g[i]
<1> DEFINE differ == {i \in 0 .. n : f[i] # g[i]}
<1>1. SUFFICES ASSUME differ # {} PROVE FALSE OBVIOUS
<1>2. differ \subseteq Nat OBVIOUS
<1>3. PICK i \in differ : \A k \in differ : i <= k
  <2> HIDE DEF differ
  <2> QED BY <1>1, <1>2, LeastNumber
<1>4. i \in 0 .. n /\ i \in 0 .. m /\ i \in Int OBVIOUS
<1>5. /\ f[i] = IF i = 0 THEN <<>> ELSE Reissue(f[i - 1], r[i])
      /\ g[i] = IF i = 0 THEN <<>> ELSE Reissue(g[i - 1], s[i]) BY <1>4 DEF Reissues
<1>6. CASE i # 0 BY <1>3, <1>4, <1>6, <1>5
<1>7. CASE i = 0 BY <1>5, <1>7
<1> QED BY <1>6, <1>7

\* One more record is one more round of the loop.
LEMMA ReplayOneMore ==
  ASSUME NEW records \in Seq(Records), NEW record \in Records
  PROVE  Replay(Append(records, record)) = Reissue(Replay(records), record)
<1> DEFINE more == Append(records, record)
           n == Len(records)
<1>1. /\ n \in Nat /\ Len(more) = n + 1 /\ more[n + 1] = record
      /\ \A i \in 1 .. n : records[i] = more[i] BY AppendProperties
<1> HIDE DEF more, n
<1>2. PICK f : Reissues(f, records, n) /\ Replay(records) = f[n] BY <1>1, ReplayReissues DEF n
<1>3. PICK g : Reissues(g, more, n + 1) /\ Replay(more) = g[n + 1] BY <1>1, ReplayReissues
<1>4. f[n] = g[n] BY <1>1, <1>2, <1>3, ReissuesAgree
<1>5. g[n + 1] = Reissue(g[n], record) BY <1>1, <1>3 DEF Reissues
<1> QED BY <1>2, <1>3, <1>4, <1>5 DEF more

\* An empty log replays to an empty book.
LEMMA ReplayNothing == Replay(<<>>) = <<>>
<1>1. Len(<<>>) = 0 OBVIOUS
<1>2. PICK f : Reissues(f, <<>>, 0) /\ Replay(<<>>) = f[0] BY <1>1, ReplayReissues
<1> QED BY <1>2 DEF Reissues

\* One more record is one more submission, or none.
LEMMA SubmissionsInOneMore ==
  ASSUME NEW T, NEW records \in Seq(T), NEW record \in T
  PROVE  /\ SubmissionsIn(records) \in Nat
         /\ SubmissionsIn(Append(records, record)) =
              SubmissionsIn(records) + (IF record.kind = "OrderAccepted" THEN 1 ELSE 0)
<1> DEFINE more == Append(records, record)
           n == Len(records)
           before == {i \in 1 .. n : records[i].kind = "OrderAccepted"}
           after == {i \in 1 .. Len(more) : more[i].kind = "OrderAccepted"}
<1>1. /\ n \in Nat /\ Len(more) = n + 1 /\ more[n + 1] = record
      /\ \A i \in 1 .. n : records[i] = more[i] BY AppendProperties
<1>2. IsFiniteSet(before) /\ Cardinality(before) \in Nat
  <2>1. IsFiniteSet(1 .. n) BY <1>1, FS_Interval
  <2> QED BY <2>1, FS_Subset, FS_CardinalityType
<1>3. SubmissionsIn(records) = Cardinality(before) /\ SubmissionsIn(more) = Cardinality(after)
  BY DEF SubmissionsIn
<1>4. n + 1 \notin before BY <1>1
<1>5. after = IF record.kind = "OrderAccepted" THEN before \cup {n + 1} ELSE before
  <2> HIDE DEF more, n
  <2> QED BY <1>1
<1>6. Cardinality(before \cup {n + 1}) = Cardinality(before) + 1 BY <1>2, <1>4, FS_AddElement
<1> HIDE DEF before, after, more
<1>7. SubmissionsIn(more) = SubmissionsIn(records) + (IF record.kind = "OrderAccepted" THEN 1 ELSE 0)
  BY <1>2, <1>3, <1>5, <1>6
<1> QED BY <1>2, <1>3, <1>7 DEF more
--------------------
(* What a clean log says of the book. *)

\* The record of a submission carries the number replay gives that submission.
LoggedIds(log) ==
  \A i \in 1 .. Len(log) : log[i].record.kind = "OrderAccepted" =>
      SubmissionsIn(RecordsOf(SubSeq(log, 1, i))) = log[i].record.id

\* Replay issues as many submissions as the log tells of.
Counted(log) ==
  /\ Replay(RecordsOf(log)) \in Seq(Records)
  /\ SubmissionsIn(Replay(RecordsOf(log))) = SubmissionsIn(RecordsOf(log))

\* The log was extended by one whole line that holds a record.
OneMoreLine(log, new, record) ==
  new = Append(log, [record |-> record, ended |-> TRUE])

\* The book is what the log replays to.
BookIsLogged ==
  /\ book = Replay(RecordsOf(wal))
  /\ nextId = SubmissionsIn(RecordsOf(wal)) + 1

\* The book is ahead of the log by the command of the call.
BookIsAhead ==
  LET command == call.command
  IN  /\ book = Reissue(Replay(RecordsOf(wal)), command)
      /\ IF command.kind = "OrderAccepted"
         THEN /\ command.id = SubmissionsIn(RecordsOf(wal)) + 1
              /\ nextId = SubmissionsIn(RecordsOf(wal)) + 2
         ELSE nextId = SubmissionsIn(RecordsOf(wal)) + 1

\* Nothing waits to be appended but while a call logs its records.
NothingPending == pc # "logging" => pending = <<>>

ReplayInv ==
  LogIsComplete =>
      /\ LoggedIds(wal) /\ Counted(wal)
      /\ pc = "idle" => BookIsLogged
      /\ pc = "logging" =>
            \/ NotYetLogged /\ BookIsAhead
            \/ (\A i \in 1 .. Len(pending) : ~IsCommand(pending[i])) /\ BookIsLogged

FaithfulInv == NothingPending /\ ReplayInv

\* The records of a longer log.
LEMMA RecordsOfOneMore ==
  ASSUME NEW log \in Seq(Lines), NEW line \in Lines
  PROVE  RecordsOf(log) \in Seq(Records) /\ RecordsOf(Append(log, line)) = Append(RecordsOf(log), line.record)
<1>1. RecordsOf(log) \in Seq(Records)
  <2>1. \A i \in 1 .. Len(log) : log[i] \in Lines BY ElementOfSeq
  <2>2. [i \in 1 .. Len(log) |-> log[i].record] \in [1 .. Len(log) -> Records] BY <2>1 DEF Lines
  <2> QED BY <2>2, IsASeq DEF RecordsOf
<1>2. line.record \in Records BY DEF Lines
<1> DEFINE more == Append(log, line)
<1>3. /\ Len(log) \in Nat /\ Len(more) = Len(log) + 1 /\ more[Len(log) + 1] = line
      /\ \A i \in 1 .. Len(log) : more[i] = log[i] BY AppendProperties
<1> DEFINE records == RecordsOf(log)
           longer == Append(records, line.record)
<1>4. Len(records) = Len(log) /\ \A i \in 1 .. Len(log) : records[i] = log[i].record BY DEF RecordsOf
<1>5. /\ longer \in Seq(Records)
      /\ Len(longer) = Len(log) + 1 /\ longer[Len(log) + 1] = line.record
      /\ \A i \in 1 .. Len(log) : longer[i] = log[i].record
  <2> HIDE DEF records
  <2> QED BY <1>1, <1>2, <1>4, AppendProperties DEF records
<1>6. longer = [i \in 1 .. Len(log) + 1 |-> longer[i]]
  <2> HIDE DEF longer
  <2> QED BY <1>5
<1>7. \A i \in 1 .. Len(log) + 1 : longer[i] = more[i].record
  <2> HIDE DEF longer, more
  <2> QED BY <1>3, <1>5
<1>8. RecordsOf(more) = [i \in 1 .. Len(log) + 1 |-> more[i].record] BY <1>3 DEF RecordsOf
<1> HIDE DEF longer, more
<1>9. RecordsOf(more) = longer BY <1>6, <1>7, <1>8
<1> QED BY <1>1, <1>9 DEF longer, more

\* The first lines of a longer log are the first lines of the shorter one.
LEMMA FirstLines ==
  ASSUME NEW log \in Seq(Lines), NEW line \in Lines
  PROVE  /\ \A i \in 1 .. Len(log) : SubSeq(Append(log, line), 1, i) = SubSeq(log, 1, i)
         /\ SubSeq(Append(log, line), 1, Len(log) + 1) = Append(log, line)
<1> DEFINE more == Append(log, line)
<1>1. /\ Len(log) \in Nat /\ Len(more) = Len(log) + 1 /\ more \in Seq(Lines)
      /\ \A i \in 1 .. Len(log) : more[i] = log[i] BY AppendProperties
<1> HIDE DEF more
<1>2. ASSUME NEW i \in 1 .. Len(log) PROVE SubSeq(more, 1, i) = SubSeq(log, 1, i) BY <1>1
<1>3. SubSeq(more, 1, Len(log) + 1) = more BY <1>1
<1> QED BY <1>2, <1>3 DEF more

\* A whole line more in the log is a record more to replay; what the log says
\* of the ids and of the count stays true if the record carries the next id.
LEMMA OneMoreLineKeepsCount ==
  ASSUME NEW log \in Seq(Lines), NEW new, NEW record \in Records,
         OneMoreLine(log, new, record),
         LoggedIds(log), Counted(log),
         record.kind = "OrderAccepted" => record.id = SubmissionsIn(RecordsOf(log)) + 1
  PROVE  /\ LoggedIds(new) /\ Counted(new)
         /\ Replay(RecordsOf(new)) = Reissue(Replay(RecordsOf(log)), record)
         /\ SubmissionsIn(RecordsOf(new)) =
              SubmissionsIn(RecordsOf(log)) + (IF record.kind = "OrderAccepted" THEN 1 ELSE 0)
<1> DEFINE line == [record |-> record, ended |-> TRUE]
           old == RecordsOf(log)
           issued == Replay(old)
<1>1. line \in Lines /\ line.record = record /\ new = Append(log, line) BY DEF Lines, OneMoreLine
<1>2. old \in Seq(Records) /\ RecordsOf(new) = Append(old, record) BY <1>1, RecordsOfOneMore
<1>3. Replay(RecordsOf(new)) = Reissue(issued, record) BY <1>2, ReplayOneMore
<1>4. /\ SubmissionsIn(old) \in Nat
      /\ SubmissionsIn(RecordsOf(new)) =
           SubmissionsIn(old) + (IF record.kind = "OrderAccepted" THEN 1 ELSE 0) BY <1>2, SubmissionsInOneMore
<1>5. Counted(new)
  <2>1. issued \in Seq(Records) /\ SubmissionsIn(issued) = SubmissionsIn(old) BY DEF Counted
  <2> HIDE DEF issued, old
  <2>2. CASE record.kind = "OrderAccepted"
    <3> DEFINE fresh == OrderAccepted(SubmissionsIn(issued) + 1, record.order)
    <3>1. fresh \in Records /\ fresh.kind = "OrderAccepted" BY <1>4, <2>1 DEF Records, Kinds, OrderAccepted
    <3>2. Reissue(issued, record) = Append(issued, fresh) BY <2>2 DEF Reissue
    <3> HIDE DEF fresh
    <3>3. SubmissionsIn(Append(issued, fresh)) = SubmissionsIn(issued) + 1 BY <2>1, <3>1, SubmissionsInOneMore
    <3>4. Append(issued, fresh) \in Seq(Records) BY <2>1, <3>1, AppendProperties
    <3> QED BY <1>3, <1>4, <2>1, <2>2, <3>2, <3>3, <3>4 DEF Counted
  <2>3. CASE record.kind # "OrderAccepted" /\ IsCommand(record)
    BY <2>3, <2>1, SubmissionsInOneMore, AppendProperties, <1>3, <1>4 DEF Reissue, Counted
  <2>4. CASE record.kind # "OrderAccepted" /\ ~IsCommand(record)
    BY <2>4, <1>3, <1>4, <2>1 DEF Reissue, Counted
  <2> QED BY <2>2, <2>3, <2>4
<1>6. LoggedIds(new)
  <2> SUFFICES ASSUME NEW i \in 1 .. Len(new), new[i].record.kind = "OrderAccepted"
               PROVE  SubmissionsIn(RecordsOf(SubSeq(new, 1, i))) = new[i].record.id BY DEF LoggedIds
  <2>1. /\ Len(log) \in Nat /\ Len(new) = Len(log) + 1 /\ new[Len(log) + 1] = line
        /\ \A j \in 1 .. Len(log) : new[j] = log[j] BY <1>1, AppendProperties
  <2>2. CASE i \in 1 .. Len(log) BY <1>1, <2>2, FirstLines, <2>1 DEF LoggedIds
  <2>3. CASE i = Len(log) + 1 BY <1>1, <2>3, FirstLines, <2>1, <1>4
  <2> QED BY <2>1, <2>2, <2>3
<1> QED BY <1>3, <1>4, <1>5, <1>6

\* An append to a log that is clean afterwards left nothing, or one whole line.
LEMMA CleanWrite ==
  ASSUME wal \in Seq(Lines), NEW record \in Records, NEW how \in AllPartialWrites,
         wal' = Written(wal, record, how), LogIsClean'
  PROVE  /\ LogIsClean
         /\ wal' = wal \/ OneMoreLine(wal, wal', record)
         /\ how = "whole" => OneMoreLine(wal, wal', record)
<1>1. LogIsClean /\ EndsWithNewline(wal) BY CleanAfterWriteIsCleanBefore
<1>2. ASSUME NEW r \in Records, wal' = AppendBytes(wal, r, FALSE) PROVE FALSE
  <2> DEFINE line == [record |-> r, ended |-> FALSE]
  <2>1. line \in Lines /\ line.ended = FALSE /\ wal' = Append(wal, line) BY <1>1, <1>2 DEF AppendBytes, Lines
  <2> HIDE DEF line
  <2>2. Len(wal') \in 1 .. Len(wal') /\ wal'[Len(wal')] = line BY <2>1, AppendProperties
  <2> QED BY <2>1, <2>2 DEF LogIsClean
<1>3. AppendBytes(wal, record, TRUE) = Append(wal, [record |-> record, ended |-> TRUE])
  BY <1>1 DEF AppendBytes
<1>4. how \notin {"fragment", "unterminated"} BY <1>2, RecordTypes DEF Written
<1> QED BY <1>1, <1>3, <1>4 DEF Written, AllPartialWrites, OneMoreLine

\* A clean log is a log of records, to the last line.
LEMMA CleanEventRecords == ASSUME LogIsClean, wal \in Seq(Lines) PROVE EventRecords(wal) = RecordsOf(wal)
<1>1. wal # <<>> => Len(wal) \in 1 .. Len(wal) OBVIOUS
<1> QED BY <1>1 DEF LogIsClean, EventRecords

--------------------
\* The empty log is the log of the empty book.
LEMMA InitFaithful == LogInit => FaithfulInv
<1> SUFFICES ASSUME LogInit PROVE FaithfulInv OBVIOUS
<1>1. RecordsOf(<<>>) = <<>> BY DEF RecordsOf
<1>2. SubmissionsIn(<<>>) = 0 BY FS_EmptySet DEF SubmissionsIn
<1>3. LoggedIds(wal) BY DEF LogInit, LoggedIds
<1>4. Counted(wal)
  <2>1. wal = <<>> /\ <<>> \in Seq(Records) BY DEF LogInit
  <2>2. RecordsOf(wal) = <<>> /\ Replay(RecordsOf(wal)) = <<>> BY <1>1, <2>1, ReplayNothing
  <2> QED BY <2>1, <2>2 DEF Counted
<1>5. BookIsLogged BY <1>1, <1>2, ReplayNothing DEF LogInit, BookIsLogged
<1>6. NothingPending /\ pc = "idle" BY DEF LogInit, NothingPending
<1> QED BY <1>3, <1>4, <1>5, <1>6 DEF FaithfulInv, ReplayInv

\* A command applied to the book puts it one command ahead of the log.
LEMMA ApplyPreservesFaithful ==
  ASSUME LogInv, LogInv', FaithfulInv, NEW command \in Records,
         pc = "idle", pc' = "logging", wal' = wal, appendErrors' = appendErrors,
         call' = Call(command), NotYetLogged',
         book' = Append(book, command),
         \/ command.kind = "OrderAccepted" /\ command.id = nextId /\ nextId' = nextId + 1
         \/ command.kind = "OrderCancelled" /\ nextId' = nextId
  PROVE  FaithfulInv'
<1> SUFFICES ASSUME LogIsComplete PROVE ReplayInv'
  BY DEF FaithfulInv, NothingPending, ReplayInv, LogIsComplete, LogIsClean
<1>1. LoggedIds(wal) /\ Counted(wal) /\ BookIsLogged BY DEF FaithfulInv, ReplayInv
<1>2. Reissue(book, command) = Append(book, command)
  <2>1. CASE command.kind = "OrderAccepted"
    BY <1>1, <2>1 DEF Counted, BookIsLogged, Records, OrderAccepted, Reissue
  <2>2. CASE command.kind = "OrderCancelled" BY <2>2 DEF Reissue, IsCommand
  <2> QED BY <2>1, <2>2
<1>3. SubmissionsIn(RecordsOf(wal)) \in Nat BY SubmissionsInNat DEF LogInv, LogTypeOK
<1>4. call'.command = command BY DEF Call
<1>5. BookIsAhead' BY <1>1, <1>2, <1>3, <1>4 DEF BookIsAhead, BookIsLogged
<1> QED BY <1>1, <1>5 DEF ReplayInv

\* A submission is numbered with the next id of the book.
LEMMA SubmitPreservesFaithful ==
  ASSUME LogInv, LogInv', FaithfulInv, NEW order \in Orders, SubmitIncomingOrder(order) PROVE FaithfulInv'
<1> USE DEF SubmitIncomingOrder
<1> DEFINE command == OrderAccepted(nextId, order)
<1>1. command \in Records /\ command.kind = "OrderAccepted" /\ command.id = nextId /\ IsCommand(command)
  BY RecordTypes DEF LogInv, LogTypeOK, OrderAccepted, IsCommand
<1>2. PICK trades \in 0 .. MaxTrades :
         pending' = <<command>> \o [t \in 1 .. trades |-> TradeExecuted] OBVIOUS
<1>3. NotYetLogged'
  <2>1. CallInv' /\ pc' = "logging" BY DEF LogInv
  <2>2. ~AlreadyLogged'
    <3>1. trades \in Nat /\ Len([t \in 1 .. trades |-> TradeExecuted]) = trades BY BoundsAssumption
    <3>2. <<command>> \in Seq(Records) /\ [t \in 1 .. trades |-> TradeExecuted] \in Seq(Records)
      BY <1>1, <3>1, RecordTypes, IsASeq
    <3> HIDE DEF command
    <3>3. pending'[1] = command /\ Len(pending') = 1 + trades BY <1>2, <3>1, <3>2, ConcatProperties
    <3>4. 1 \in 1 .. Len(pending') /\ IsCommand(pending'[1]) BY <1>1, <3>1, <3>3
    <3>5. AlreadyLogged' => \A i \in 1 .. Len(pending') : ~IsCommand(pending'[i]) BY DEF AlreadyLogged
    <3> QED BY <3>4, <3>5
  <2> QED BY <2>1, <2>2 DEF CallInv
<1>4. book' = Append(book, command) /\ call' = Call(command) /\ pc' = "logging" /\ pc = "idle" OBVIOUS
<1>5. wal' = wal /\ appendErrors' = appendErrors /\ nextId' = nextId + 1 OBVIOUS
<1> HIDE DEF SubmitIncomingOrder, command
<1> QED BY <1>1, <1>3, <1>4, <1>5, ApplyPreservesFaithful

\* A cancel takes no number.
LEMMA CancelPreservesFaithful ==
  ASSUME LogInv, LogInv', FaithfulInv, NEW id \in 1 .. MaxCommands, CancelOrder(id) PROVE FaithfulInv'
<1> USE DEF CancelOrder
<1> DEFINE command == OrderCancelled(id)
<1>1. command \in Records /\ command.kind = "OrderCancelled" /\ IsCommand(command)
  BY RecordTypes, BoundsAssumption DEF OrderCancelled, IsCommand
<1>2. pending' = <<command>> /\ call'.command = command BY DEF Call
<1>3. book' = Append(book, command) /\ call' = Call(command) /\ pc' = "logging" /\ pc = "idle" OBVIOUS
<1>4. wal' = wal /\ appendErrors' = appendErrors /\ nextId' = nextId BY DEF counters
<1> HIDE DEF CancelOrder, command
<1>5. NotYetLogged' BY <1>1, <1>2 DEF NotYetLogged
<1> QED BY <1>1, <1>3, <1>4, <1>5, ApplyPreservesFaithful

\* An append lets the log catch up with the book, or tells of a trade.
LEMMA AppendPreservesFaithful == ASSUME LogInv, LogInv', FaithfulInv, AppendEvent PROVE FaithfulInv'
<1> DEFINE record == Head(pending)
<1>1. /\ record \in Records /\ record = pending[1] /\ pending \in Seq(Records)
      /\ pending' = Tail(pending)
      /\ \A i \in 1 .. Len(pending') : pending'[i] = pending[i + 1] /\ i + 1 \in 2 .. Len(pending)
  <2>1. pending \in Seq(Records) /\ pending # <<>> /\ pending' = Tail(pending)
    BY DEF LogInv, LogTypeOK, AppendEvent
  <2>2. /\ record \in Records /\ Len(pending') = Len(pending) - 1
        /\ \A i \in 1 .. Len(pending') : pending'[i] = pending[i + 1] BY <2>1, HeadTailProperties
  <2>3. PICK n \in Nat : n = Len(pending) BY <2>1
  <2>4. \A i \in 1 .. n - 1 : i + 1 \in 2 .. n BY <2>3
  <2>5. record = pending[1] BY <2>1
  <2> QED BY <2>1, <2>2, <2>3, <2>4, <2>5
<1>2. wal' = Written(wal, record, "whole") /\ "whole" \in AllPartialWrites /\ wal \in Seq(Lines)
  BY DEF AppendEvent, AllPartialWrites, LogInv, LogTypeOK
<1>3. UNCHANGED <<book, nextId, pc, appendErrors>> /\ pc = "logging" BY DEF AppendEvent, counters
<1> SUFFICES ASSUME LogIsComplete' PROVE ReplayInv' BY <1>3 DEF FaithfulInv, NothingPending, ReplayInv
<1> HIDE DEF record
<1>4. LogIsComplete /\ OneMoreLine(wal, wal', record) BY <1>1, <1>2, <1>3, CleanWrite DEF LogIsComplete
<1>5. LoggedIds(wal) /\ Counted(wal) BY <1>4 DEF FaithfulInv, ReplayInv
<1>6. SubmissionsIn(RecordsOf(wal)) \in Nat BY SubmissionsInNat DEF LogInv, LogTypeOK
<1>7. CASE NotYetLogged /\ BookIsAhead
  BY <1>1, <1>7, <1>2, <1>4, <1>5, OneMoreLineKeepsCount, <1>3, <1>6 DEF NotYetLogged, record,
     BookIsAhead, BookIsLogged, ReplayInv
<1>8. CASE (\A i \in 1 .. Len(pending) : ~IsCommand(pending[i])) /\ BookIsLogged
  <2>1. ~IsCommand(record) /\ \A i \in 1 .. Len(pending') : ~IsCommand(pending'[i])
    BY <1>1, <1>8 DEF AppendEvent
  <2>2. record.kind # "OrderAccepted" BY <2>1 DEF IsCommand
  <2>3. /\ LoggedIds(wal') /\ Counted(wal')
        /\ Replay(RecordsOf(wal')) = Reissue(Replay(RecordsOf(wal)), record)
        /\ SubmissionsIn(RecordsOf(wal')) =
             SubmissionsIn(RecordsOf(wal)) + (IF record.kind = "OrderAccepted" THEN 1 ELSE 0)
    BY <1>1, <1>2, <1>4, <1>5, <2>2, OneMoreLineKeepsCount
  <2>4. BookIsLogged' BY <1>3, <1>6, <1>8, <2>1, <2>2, <2>3 DEF BookIsLogged, Reissue
  <2> QED BY <1>3, <2>1, <2>3, <2>4 DEF ReplayInv
<1> QED BY <1>3, <1>4, <1>7, <1>8 DEF FaithfulInv, ReplayInv

\* A crash that leaves the log clean leaves it as it was or whole to its end.
LEMMA CrashPreservesFaithful ==
  ASSUME LogInv, LogInv', FaithfulInv, NEW how \in PartialWrites, Crash(how) PROVE FaithfulInv'
<1>1. pc' = "down" /\ pending' = <<>> /\ appendErrors' = appendErrors BY DEF Crash
<1> SUFFICES ASSUME LogIsComplete' PROVE LoggedIds(wal') /\ Counted(wal')
  BY <1>1 DEF FaithfulInv, NothingPending, ReplayInv
<1>2. CASE pending = <<>> BY <1>2, <1>1 DEF Crash, FaithfulInv, ReplayInv, LogIsComplete, LogIsClean
<1>3. CASE pending # <<>>
  <2> DEFINE record == Head(pending)
  <2>1. record \in Records /\ record = pending[1] /\ 1 \in 1 .. Len(pending)
    BY <1>3, HeadTailProperties DEF LogInv, LogTypeOK
  <2>2. wal' = Written(wal, record, how) /\ how \in AllPartialWrites /\ wal \in Seq(Lines)
    BY <1>3, PartialWritesAssumption DEF Crash, LogInv, LogTypeOK
  <2>3. pc = "logging" BY <1>3 DEF FaithfulInv, NothingPending
  <2> HIDE DEF record
  <2>4. LogIsComplete /\ (wal' = wal \/ OneMoreLine(wal, wal', record))
    BY <1>1, <2>1, <2>2, CleanWrite DEF LogIsComplete
  <2>5. LoggedIds(wal) /\ Counted(wal) BY <2>4 DEF FaithfulInv, ReplayInv
  <2>6. record.kind = "OrderAccepted" => record.id = SubmissionsIn(RecordsOf(wal)) + 1
    <3>1. CASE NotYetLogged /\ BookIsAhead BY <3>1 DEF NotYetLogged, BookIsAhead, record
    <3>2. CASE \A i \in 1 .. Len(pending) : ~IsCommand(pending[i]) BY <2>1, <3>2 DEF IsCommand
    <3> QED BY <2>3, <2>4, <3>1, <3>2 DEF FaithfulInv, ReplayInv
  <2>7. CASE wal' = wal BY <2>5, <2>7
  <2>8. CASE OneMoreLine(wal, wal', record) BY <2>1, <2>2, <2>5, <2>6, <2>8, OneMoreLineKeepsCount
  <2> QED BY <2>4, <2>7, <2>8
<1> QED BY <1>2, <1>3

\* Recovery rebuilds the book of the log and goes on with the next number.
LEMMA RecoveryPreservesFaithful == ASSUME LogInv, LogInv', FaithfulInv, OpenRecovering PROVE FaithfulInv'
<1>1. /\ pc' = "idle" /\ pc = "down" /\ pending' = pending /\ wal' = wal /\ appendErrors' = appendErrors
      /\ book' = Replay(EventRecords(wal)) /\ nextId' = SubmissionsIn(RecordsOf(wal)) + 1
  BY DEF OpenRecovering, counters
<1>2. LogIsClean => EventRecords(wal) = RecordsOf(wal) BY CleanEventRecords DEF LogInv, LogTypeOK
<1> QED BY <1>1, <1>2 DEF FaithfulInv, NothingPending, ReplayInv, LogIsComplete, LogIsClean, BookIsLogged

\* Every step keeps the live book the one a replay of the log makes.
LEMMA NextFaithful == ASSUME LogInv, LogInv', FaithfulInv, [LogNext]_logVars PROVE FaithfulInv'
<1>1. ASSUME NEW order \in Orders, SubmitIncomingOrder(order) PROVE FaithfulInv'
  BY <1>1, SubmitPreservesFaithful
<1>2. ASSUME NEW id \in 1 .. MaxCommands, CancelOrder(id) PROVE FaithfulInv' BY <1>2, CancelPreservesFaithful
<1>3. CASE AppendEvent BY <1>3, AppendPreservesFaithful
<1>4. CASE Acknowledge
  BY <1>4 DEF Acknowledge, counters, FaithfulInv, NothingPending, ReplayInv, LogIsComplete,
     LogIsClean, BookIsLogged, NotYetLogged
<1>5. ASSUME NEW how \in PartialWrites, AppendFails(how) PROVE FaithfulInv'
  BY <1>5 DEF AppendFails, FaithfulInv, NothingPending, ReplayInv, LogIsComplete, LogInv, LogTypeOK
<1>6. ASSUME NEW how \in PartialWrites, Crash(how) PROVE FaithfulInv' BY <1>6, CrashPreservesFaithful
<1>7. CASE OpenRecovering BY <1>7, RecoveryPreservesFaithful
<1>8. CASE RecoveryRefused
  BY <1>8 DEF RecoveryRefused, FaithfulInv, NothingPending, ReplayInv, LogIsComplete, LogIsClean, counters
<1>9. CASE UNCHANGED logVars
  BY <1>9 DEF logVars, counters, FaithfulInv, NothingPending, ReplayInv, LogIsComplete, LogIsClean,
              BookIsLogged, BookIsAhead, NotYetLogged
<1> QED BY <1>1, <1>2, <1>3, <1>4, <1>5, <1>6, <1>7, <1>8, <1>9 DEF LogNext
--------------------
\* Only records wait to be appended.  Until something has crashed or failed the
\* log is clean and the process is up;
\* what the first crash leaves behind still holds all that was acknowledged.
FirstCrashInv ==
  /\ \A i \in 1 .. Len(pending) : pending[i].kind # "Unparseable"
  /\ crashes = 0 => pc \in {"idle", "logging"} /\ (appendErrors = 0 => LogIsClean)
  /\ FirstCrashLosesNoAcknowledgedCommand

\* A step into the first crash starts from a clean log, and an append, torn or
\* not, keeps what was logged.
LEMMA NextKeepsFirstCrash ==
  ASSUME LogInv, AckedCommandsAreDurableInACleanLog, FirstCrashInv, [LogNext]_logVars PROVE FirstCrashInv'
<1> USE DEF FirstCrashInv, FirstCrashLosesNoAcknowledgedCommand
<1>1. ASSUME NEW order \in Orders, SubmitIncomingOrder(order) PROVE FirstCrashInv'
  <2> DEFINE command == OrderAccepted(nextId, order)
  <2>1. PICK trades \in 0 .. MaxTrades :
           pending' = <<command>> \o [t \in 1 .. trades |-> TradeExecuted] BY <1>1 DEF SubmitIncomingOrder
  <2> DEFINE reports == [t \in 1 .. trades |-> TradeExecuted]
  <2>2. /\ reports \in Seq(Records) /\ Len(reports) = trades /\ trades \in Nat
        /\ \A t \in 1 .. trades : reports[t] = TradeExecuted BY RecordTypes, IsASeq, BoundsAssumption
  <2>3. command \in Records /\ command.kind # "Unparseable" /\ TradeExecuted.kind # "Unparseable"
    BY RecordTypes DEF LogInv, LogTypeOK, OrderAccepted, TradeExecuted
  <2> HIDE DEF command, reports
  <2>4. <<command>> \in Seq(Records) /\ Len(<<command>>) = 1 /\ <<command>>[1] = command BY <2>3
  <2>5. \A i \in 1 .. Len(pending') : pending'[i].kind # "Unparseable"
    BY <2>1, <2>2, <2>3, <2>4, ConcatProperties DEF reports
  <2> QED BY <1>1, <2>5 DEF SubmitIncomingOrder, LogIsClean
<1>2. ASSUME NEW id \in 1 .. MaxCommands, CancelOrder(id) PROVE FirstCrashInv'
  BY <1>2 DEF CancelOrder, OrderCancelled, LogIsClean
<1>3. CASE AppendEvent
  <2>1. Head(pending) \in Records /\ wal \in Seq(Lines) /\ "whole" \in AllPartialWrites
    BY <1>3, HeadTailProperties DEF AppendEvent, LogInv, LogTypeOK, AllPartialWrites
  <2>2. LogIsClean => LogIsClean'
    <3> SUFFICES ASSUME LogIsClean PROVE LogIsClean' OBVIOUS
    <3>1. EndsWithNewline(wal) BY <2>1 DEF EndsWithNewline, LogIsClean
    <3>2. wal' = Append(wal, [record |-> Head(pending), ended |-> TRUE])
      BY <1>3, <3>1 DEF AppendEvent, Written, AppendBytes
    <3>3. Head(pending).kind # "Unparseable" BY <1>3, HeadTailProperties DEF AppendEvent, LogInv, LogTypeOK
    <3> QED BY <2>1, <3>2, <3>3, AppendProperties DEF LogIsClean, Lines
  <2>3. /\ pending' = Tail(pending)
        /\ \A i \in 1 .. Len(pending') : pending'[i] = pending[i + 1] /\ i + 1 \in 1 .. Len(pending)
    BY <1>3, HeadTailProperties DEF AppendEvent, LogInv, LogTypeOK
  <2> QED BY <1>3, <2>2, <2>3 DEF AppendEvent, counters
<1>4. CASE Acknowledge BY <1>4 DEF Acknowledge, counters, LogIsClean
<1>5. ASSUME NEW how \in PartialWrites, AppendFails(how) PROVE FirstCrashInv'
  BY <1>5 DEF AppendFails, LogInv, LogTypeOK
<1>6. ASSUME NEW how \in PartialWrites, Crash(how) PROVE FirstCrashInv'
  <2>1. /\ crashes' = crashes + 1 /\ crashes \in Nat
        /\ appendErrors' = appendErrors /\ acked' = acked /\ pending' = <<>>
    BY <1>6 DEF Crash, LogInv, LogTypeOK
  <2>2. ASSUME crashes' = 1, appendErrors' = 0 PROVE AckedCommandsAreDurable'
    <3>1. AckedCommandsAreDurable BY <2>1, <2>2 DEF AckedCommandsAreDurableInACleanLog, LogInv, LogTypeOK
    <3>2. ASSUME NEW ack \in LoggedCalls, Durable(ack) PROVE Durable(ack)'
      <4>1. CASE pending = <<>> BY <1>6, <3>2, <4>1 DEF Crash, Durable
      <4>2. CASE pending # <<>>
        BY <4>2, HeadTailProperties, PartialWritesAssumption, <1>6, <3>2, DurableThroughWrite DEF
           LogInv, LogTypeOK, Crash
      <4> QED BY <4>1, <4>2
    <3>3. \A n \in 1 .. Len(acked) : acked[n] \in LoggedCalls BY DEF LogInv, LogTypeOK
    <3> QED BY <2>1, <3>1, <3>2, <3>3 DEF AckedCommandsAreDurable
  <2> QED BY <2>1, <2>2
<1>7. CASE OpenRecovering BY <1>7 DEF OpenRecovering, counters
<1>8. CASE RecoveryRefused BY <1>8 DEF RecoveryRefused, counters
<1>9. CASE UNCHANGED logVars BY <1>9 DEF logVars, counters, LogIsClean, AckedCommandsAreDurable, Durable
<1> QED BY <1>1, <1>2, <1>3, <1>4, <1>5, <1>6, <1>7, <1>8, <1>9 DEF LogNext

\* What the parts of the invariant say together.
LEMMA InvariantsImplyFaithfulReplay ==
  ASSUME LogInv, FaithfulInv, FirstCrashInv, AckedCommandsAreDurableInACleanLog PROVE ReplayIsFaithful
<1>1. FirstCrashLosesNoAcknowledgedCommand BY DEF FirstCrashInv
<1>2. ReplayDerivesTheAcknowledgedIds
  <2> SUFFICES ASSUME LogIsComplete, NEW n \in 1 .. Len(acked),
                      acked[n].command.kind = "OrderAccepted"
               PROVE  /\ Durable(acked[n])
                      /\ SubmissionsIn(RecordsOf(SubSeq(wal, 1, acked[n].line))) = acked[n].command.id
    BY DEF ReplayDerivesTheAcknowledgedIds
  <2>1. Durable(acked[n]) BY DEF LogIsComplete, AckedCommandsAreDurableInACleanLog, AckedCommandsAreDurable
  <2>2. LoggedIds(wal) BY DEF FaithfulInv, ReplayInv
  <2> QED BY <2>1, <2>2 DEF Durable, LoggedIds
<1>3. BookIsTheReplayedLog
  <2> SUFFICES ASSUME pc = "idle", LogIsComplete PROVE book = Replay(EventRecords(wal))
    BY DEF BookIsTheReplayedLog
  <2>1. EventRecords(wal) = RecordsOf(wal) BY CleanEventRecords DEF LogIsComplete, LogInv, LogTypeOK
  <2> QED BY <2>1 DEF FaithfulInv, ReplayInv, BookIsLogged
<1> QED BY <1>1, <1>2, <1>3 DEF ReplayIsFaithful

\* What the log says is what was acknowledged and what a restart rebuilds: the
\* first crash loses nothing, replay gives an acknowledged order the id its
\* client holds, and between calls the book is the one a restart rebuilds.
THEOREM ReplayFaithful == LogSpec => []ReplayIsFaithful
<1>1. LogInit => FirstCrashInv BY DEF LogInit, FirstCrashInv, FirstCrashLosesNoAcknowledgedCommand, LogIsClean
<1>2. ASSUME LogInv, AckedCommandsAreDurableInACleanLog, FirstCrashInv, [LogNext]_logVars PROVE FirstCrashInv'
  BY <1>2, NextKeepsFirstCrash
<1>3. ASSUME LogInv, LogInv', FaithfulInv, [LogNext]_logVars PROVE FaithfulInv' BY <1>3, NextFaithful
<1>4. LogInv /\ FaithfulInv /\ FirstCrashInv /\ AckedCommandsAreDurableInACleanLog => ReplayIsFaithful
  BY InvariantsImplyFaithfulReplay
<1> QED BY <1>1, <1>2, <1>3, <1>4, InitFaithful, InitEstablishesLogInv, NextPreservesLogInv,
           CleanLogDurability, PTL DEF LogSpec

--------------------
\* What one append does to what a readable log tells: it adds nothing, or the
\* record, or it takes back a record that had no newline.
LEMMA AppendedHistory ==
  ASSUME NEW log \in Seq(Lines), NEW record \in Records, NEW how \in AllPartialWrites,
         NEW new, new = Written(log, record, how), new # log, Readable(new)
  PROVE  /\ EventRecords(log) \in Seq(Records)
         /\ IF EndsInATornRecord(log)
            THEN EventRecords(new) = RecordsOf(SubSeq(log, 1, Len(log) - 1))
            ELSE \/ EventRecords(new) = EventRecords(log)
                 \/ EventRecords(new) = Append(EventRecords(log), record)
<1> DEFINE last  == log[Len(log)]
           front == SubSeq(log, 1, Len(log) - 1)
           Told(told) == IF EndsInATornRecord(log) THEN told = RecordsOf(front)
                         ELSE told = EventRecords(log) \/ told = Append(EventRecords(log), record)
<1>1. ASSUME NEW lines \in Seq(Lines) PROVE RecordsOf(lines) \in Seq(Records)
  <2>1. PICK n \in Nat : n = Len(lines) /\ \A i \in 1 .. n : lines[i] \in Lines OBVIOUS
  <2>2. \A line \in Lines : line.record \in Records BY DEF Lines
  <2>3. \A i \in 1 .. n : lines[i].record \in Records BY <2>1, <2>2
  <2>4. RecordsOf(lines) = [i \in 1 .. n |-> lines[i].record] BY <2>1 DEF RecordsOf
  <2> QED BY <2>1, <2>3, <2>4
<1>2. log # <<>> => front \in Seq(Lines) /\ Len(log) \in Nat \ {0} /\ last \in Lines OBVIOUS
<1>3. EventRecords(log) \in Seq(Records) BY <1>1, <1>2 DEF EventRecords
<1>4. ASSUME NEW r \in Records, NEW e \in BOOLEAN, new = AppendBytes(log, r, e),
             r = record \/ r.kind = "Unparseable"
      PROVE  Told(EventRecords(new))
  <2> DEFINE line == [record |-> r, ended |-> e]
  <2>1. CASE EndsWithNewline(log)
    <3>1. line \in Lines /\ line.record = r /\ new = Append(log, line) BY <1>4, <2>1 DEF AppendBytes, Lines
    <3> HIDE DEF line
    <3>2. /\ Len(log) \in Nat /\ Len(new) = Len(log) + 1 /\ new[Len(new)] = line
          /\ new # <<>> /\ new \in Seq(Lines)
          /\ \A i \in 1 .. Len(log) : new[i] = log[i] BY <3>1, AppendProperties
    <3>3. \A i \in 1 .. Len(log) : log[i].record.kind # "Unparseable" BY <3>2 DEF Readable
    <3>4. EventRecords(log) = RecordsOf(log) /\ ~EndsInATornRecord(log)
      BY <2>1, <3>2, <3>3 DEF EventRecords, EndsInATornRecord
    <3>5. CASE r.kind = "Unparseable"
      <4>1. EventRecords(new) = RecordsOf(SubSeq(new, 1, Len(log))) BY <3>1, <3>2, <3>5 DEF EventRecords
      <4>2. SubSeq(new, 1, Len(log)) = log BY <3>2
      <4> QED BY <3>4, <4>1, <4>2
    <3>6. CASE r.kind # "Unparseable" BY <1>4, <3>1, <3>2, <3>4, <3>6, RecordsOfOneMore DEF EventRecords
    <3> QED BY <3>5, <3>6
  <2>2. CASE ~EndsWithNewline(log)
    <3>1. /\ log # <<>> /\ new = [log EXCEPT ![Len(log)] = [record |-> Unparseable, ended |-> e]]
          /\ Len(log) \in Nat \ {0} BY <1>2, <1>4, <2>2 DEF AppendBytes, EndsWithNewline
    <3>2. /\ Len(new) = Len(log) /\ new # <<>> /\ new[Len(new)].record.kind = "Unparseable"
          /\ \A i \in 1 .. Len(log) - 1 : new[i] = log[i] BY <3>1 DEF Unparseable
    <3>3. SubSeq(new, 1, Len(new) - 1) = front
      <4>1. PICK n \in Nat : n = Len(log) - 1 BY <3>1
      <4>2. \A i \in 1 .. n : new[i] = log[i] BY <3>2, <4>1
      <4>3. SubSeq(new, 1, n) = [i \in 1 .. n |-> new[i]] /\ front = [i \in 1 .. n |-> log[i]] BY <4>1
      <4> QED BY <3>2, <4>1, <4>2, <4>3
    <3>4. EventRecords(new) = RecordsOf(front) BY <3>2, <3>3 DEF EventRecords
    <3>5. ~EndsInATornRecord(log) => EventRecords(log) = RecordsOf(front)
      BY <2>2, <3>1 DEF EndsInATornRecord, EventRecords
    <3> QED BY <3>4, <3>5
  <2> QED BY <2>1, <2>2
<1>5. CASE how = "nothing" BY <1>5 DEF Written
<1> HIDE DEF Told
<1>6. CASE how = "fragment"
  <2>1. new = AppendBytes(log, Unparseable, FALSE) BY <1>6 DEF Written
  <2>2. Unparseable \in Records /\ Unparseable.kind = "Unparseable" BY RecordTypes DEF Unparseable
  <2>3. Told(EventRecords(new)) BY <1>4, <2>1, <2>2
  <2> QED BY <1>3, <2>3 DEF Told
<1>7. CASE how \in {"unterminated", "whole"}
  <2>1. \E e \in BOOLEAN : new = AppendBytes(log, record, e) BY <1>7 DEF Written
  <2>2. Told(EventRecords(new)) BY <1>4, <2>1
  <2> QED BY <1>3, <2>2 DEF Told
<1> QED BY <1>3, <1>5, <1>6, <1>7 DEF AllPartialWrites, Told

\* A round of the replay only adds to the commands issued before it.
LEMMA ReissueExtends ==
  ASSUME NEW records \in Seq(Records), NEW record \in Records
  PROVE  /\ Reissue(records, record) \in Seq(Records)
         /\ IsPrefix(records, Reissue(records, record))
         /\ IsPrefix(records, records)
<1>1. ASSUME NEW r \in Records PROVE IsPrefix(records, Append(records, r)) /\ Append(records, r) \in Seq(Records)
  <2> DEFINE more == Append(records, r)
  <2>1. /\ Len(records) \in Nat /\ Len(more) = Len(records) + 1 /\ more \in Seq(Records)
        /\ \A i \in 1 .. Len(records) : more[i] = records[i] BY AppendProperties
  <2> HIDE DEF more
  <2>2. SubSeq(records, 1, Len(records)) = [i \in 1 .. Len(records) |-> records[i]] BY <2>1
  <2>3. SubSeq(more, 1, Len(records)) = [i \in 1 .. Len(records) |-> more[i]] BY <2>1
  <2> QED BY <2>1, <2>2, <2>3 DEF IsPrefix, more
<1>2. IsPrefix(records, records) BY DEF IsPrefix
<1>3. CASE record.kind = "OrderAccepted"
  <2> DEFINE fresh == OrderAccepted(SubmissionsIn(records) + 1, record.order)
  <2>1. SubmissionsIn(records) \in Nat BY SubmissionsInOneMore
  <2>2. fresh \in Records /\ Reissue(records, record) = Append(records, fresh)
    BY <1>3, <2>1 DEF Reissue, Records, Kinds, OrderAccepted
  <2> HIDE DEF fresh
  <2> QED BY <1>1, <1>2, <2>2
<1>4. CASE record.kind # "OrderAccepted" /\ IsCommand(record) BY <1>4, <1>1, <1>2 DEF Reissue
<1>5. CASE record.kind # "OrderAccepted" /\ ~IsCommand(record) BY <1>5, <1>2 DEF Reissue
<1> QED BY <1>3, <1>4, <1>5

\* What a log replays to is a sequence of commands, whatever the log holds.
LEMMA ReplayIsASequence == ASSUME NEW records \in Seq(Records) PROVE Replay(records) \in Seq(Records)
<1> DEFINE n == Len(records)
<1>1. n \in Nat /\ \A i \in 1 .. n : records[i] \in Records OBVIOUS
<1>2. PICK f : Reissues(f, records, n) /\ Replay(records) = f[n] BY ReplayReissues
<1> HIDE DEF n
<1> DEFINE wrong == {i \in 0 .. n : f[i] \notin Seq(Records)}
<1>3. SUFFICES ASSUME wrong # {} PROVE FALSE BY <1>1, <1>2
<1>4. PICK i \in wrong : \A k \in wrong : i <= k
  <2>1. wrong \subseteq Nat BY <1>1
  <2> HIDE DEF wrong
  <2> QED BY <1>3, <2>1, LeastNumber
<1>5. i \in 0 .. n /\ f[i] = IF i = 0 THEN <<>> ELSE Reissue(f[i - 1], records[i]) BY <1>2 DEF Reissues
<1>6. CASE i # 0
  <2>1. i - 1 \in 0 .. n /\ i - 1 \notin wrong /\ i \in 1 .. n BY <1>1, <1>4, <1>5, <1>6
  <2>2. f[i - 1] \in Seq(Records) /\ records[i] \in Records BY <1>1, <2>1
  <2>3. Reissue(f[i - 1], records[i]) \in Seq(Records) BY <2>2, ReissueExtends
  <2> QED BY <1>4, <1>5, <1>6, <2>3
<1>7. CASE i = 0
  <2>1. <<>> \in Seq(Records) OBVIOUS
  <2> QED BY <1>4, <1>5, <1>7, <2>1
<1> QED BY <1>6, <1>7

\* A reader of the live log never sees the history it would replay change: no
\* append, torn or whole, no crash and no recovery takes a command from it, except
\* the one a torn record at the end of the log told of.
THEOREM HistoryIsKept == LogSpec => ReplayedHistoryIsKept
<1> DEFINE Kept == Readable(wal') =>
              IF EndsInATornRecord(wal)
              THEN History(wal') = Replay(RecordsOf(SubSeq(wal, 1, Len(wal) - 1)))
              ELSE IsPrefix(History(wal), History(wal'))
<1>1. ASSUME LogTypeOK, NEW record \in Records, NEW how \in AllPartialWrites,
             wal' = Written(wal, record, how)
      PROVE  [Kept]_wal
  <2> SUFFICES ASSUME wal' # wal, Readable(wal') PROVE Kept OBVIOUS
  <2> DEFINE told == EventRecords(wal)
  <2>1. /\ told \in Seq(Records)
        /\ IF EndsInATornRecord(wal)
           THEN EventRecords(wal') = RecordsOf(SubSeq(wal, 1, Len(wal) - 1))
           ELSE EventRecords(wal') = told \/ EventRecords(wal') = Append(told, record)
    BY <1>1, AppendedHistory DEF LogTypeOK
  <2>2. Replay(told) \in Seq(Records) BY <2>1, ReplayIsASequence
  <2>3. IsPrefix(Replay(told), Replay(told)) /\ IsPrefix(Replay(told), Reissue(Replay(told), record))
    BY <1>1, <2>2, ReissueExtends
  <2>4. Replay(Append(told, record)) = Reissue(Replay(told), record) BY <1>1, <2>1, ReplayOneMore
  <2> QED BY <2>1, <2>3, <2>4 DEF History
<1>2. ASSUME LogTypeOK, [LogNext]_logVars PROVE [Kept]_wal
  <2>1. CASE AppendEvent BY <1>2, <2>1, HeadTailProperties, <1>1 DEF AppendEvent, LogTypeOK, AllPartialWrites
  <2>2. ASSUME NEW how \in PartialWrites, AppendFails(how) PROVE [Kept]_wal
    BY <1>2, <2>2, HeadTailProperties, <1>1, PartialWritesAssumption DEF AppendFails, LogTypeOK
  <2>3. ASSUME NEW how \in PartialWrites, Crash(how) PROVE [Kept]_wal
    <3>1. CASE pending # <<>>
      BY <1>2, <2>3, <3>1, HeadTailProperties, <1>1, PartialWritesAssumption DEF Crash, LogTypeOK
    <3>2. CASE pending = <<>> BY <2>3, <3>2 DEF Crash
    <3> QED BY <3>1, <3>2
  <2>4. ASSUME NEW order \in Orders, SubmitIncomingOrder(order) PROVE UNCHANGED wal
    BY <2>4 DEF SubmitIncomingOrder
  <2>5. ASSUME NEW id \in 1 .. MaxCommands, CancelOrder(id) PROVE UNCHANGED wal BY <2>5 DEF CancelOrder
  <2>6. CASE Acknowledge \/ OpenRecovering \/ RecoveryRefused \/ UNCHANGED logVars
    BY <2>6 DEF Acknowledge, OpenRecovering, RecoveryRefused, logVars
  <2> QED BY <1>2, <2>1, <2>2, <2>3, <2>4, <2>5, <2>6 DEF LogNext
<1> QED BY <1>2, LogTypeCorrect, PTL DEF LogSpec, ReplayedHistoryIsKept
====================
