-------- MODULE OrderPatternProofs --------
(***************************************************************************)
(* Proofs about the gateway's books of orders: strategies and schedules,   *)
(* orders of several legs, and what an account's earlier orders decide of  *)
(* the next.                                                               *)
(***************************************************************************)
EXTENDS GatewayBooks, SumTheorems, SequenceTheorems

--------------------
(* The limits of a strategy.                                               *)

LimiterStates ==
  [config : LimitConfigs, exists : BOOLEAN, tokens : Nat, refilled : Nat, day : Nat, used : Nat]

ReservationRecords == [amount : Nat, at : Nat, made : Nat, back : Nat \cup {-1}, after : Nat]

DayOf(i) == truncateToDay(reservations[i].at)

LimitTypes ==
  /\ second \in Nat /\ limitsSince \in Int /\ limitsSince <= second
  /\ limiter \in LimiterStates /\ limiter.refilled <= second /\ limiter.day <= truncateToDay(second)
  /\ ~limiter.exists => reservations = <<>> /\ limiter.used = 0
  /\ reservations \in Seq(ReservationRecords)

\* No order brought a time that was still to come, and none that is kept is of a day the
\* state has not reached, unless the day was opened again.
ReservationsAreOrdered ==
  \A i \in DOMAIN reservations :
     /\ reservations[i].at <= reservations[i].made /\ reservations[i].made <= second
     /\ reservations[i].back <= second /\ (reservations[i].back = -1 => reservations[i].after = 0)
     /\ DayOf(i) <= limiter.day \/ DayOf(i) \in reopened

\* The reservations kept of a day, and those of earlier days that were given back in it.
KeptOf(d) == {i \in DOMAIN reservations : reservations[i].back = -1 /\ DayOf(i) = d}
StraysOf(d) ==
  {i \in DOMAIN reservations : reservations[i].back # -1 /\ truncateToDay(reservations[i].back) = d /\ DayOf(i) < d}

\* What is used covers what is kept, but for what earlier days gave back, unless the day was
\* opened again, and stays under the cap of the day unless the limits were changed in it.
NotionalIsCovered ==
  /\ limiter.day \notin reopened =>
        AmountsOf(KeptOf(limiter.day)) <= limiter.used + AmountsOf(StraysOf(limiter.day))
  /\ limiter.config.perDay > 0 /\ limitsSince < limiter.day * SecondsPerDay => limiter.used <= limiter.config.perDay

BackAfter(i) == {j \in DOMAIN reservations : reservations[j].after >= i}

\* What went through since a reservation, together with the tokens left, is at most the
\* bucket, what has flowed in since and what was given back.
TokensAreCounted ==
  LET rate == limiter.config.rate
      capacity == bucketCapacity(limiter.config)
  IN rate > 0 =>
       /\ limiter.exists /\ limiter.refilled > limitsSince => limiter.tokens <= capacity
       /\ \A i \in DOMAIN reservations : reservations[i].at > limitsSince =>
             /\ reservations[i].at <= limiter.refilled
             /\ (Len(reservations) - i + 1) * TokenUnits + limiter.tokens + rate * reservations[i].at
                   <= capacity + rate * limiter.refilled + Cardinality(BackAfter(i)) * TokenUnits

LimitInv == LimitTypes /\ ReservationsAreOrdered /\ NotionalIsCovered /\ TokensAreCounted

\* A day begins at or before its seconds, and days follow the seconds.
LEMMA DaysFollowTheClock ==
  ASSUME NEW s \in Nat, NEW t \in Nat, s <= t
  PROVE  /\ truncateToDay(s) \in Nat /\ truncateToDay(t) \in Nat
         /\ truncateToDay(s) <= truncateToDay(t)
         /\ truncateToDay(t) * SecondsPerDay <= t
<1>1. PICK d \in Nat \ {0} : d = SecondsPerDay BY AlgoAssumption
<1>2. /\ s = d * (s \div d) + (s % d) /\ s \div d \in Int /\ s % d \in 0 .. d - 1
      /\ t = d * (t \div d) + (t % d) /\ t \div d \in Int /\ t % d \in 0 .. d - 1 OBVIOUS
<1>3. PICK p \in Int, q \in Int, m \in 0 .. d - 1, n \in 0 .. d - 1 :
         p = s \div d /\ q = t \div d /\ s = d * p + m /\ t = d * q + n BY <1>2
<1>4. truncateToDay(s) = p /\ truncateToDay(t) = q BY <1>1, <1>3 DEF truncateToDay
<1>5. p >= 0
  <2> SUFFICES ASSUME p <= -1 PROVE FALSE OBVIOUS
  <2>1. d * p <= -d OBVIOUS
  <2> QED BY <1>3, <2>1
<1>6. q >= 0
  <2> SUFFICES ASSUME q <= -1 PROVE FALSE OBVIOUS
  <2>1. d * q <= -d OBVIOUS
  <2> QED BY <1>3, <2>1
<1>7. p <= q
  <2> SUFFICES ASSUME p >= q + 1 PROVE FALSE OBVIOUS
  <2>1. d * p >= d * q + d OBVIOUS
  <2> QED BY <1>3, <2>1
<1>8. q * d <= t BY <1>3
<1> QED BY <1>1, <1>4, <1>5, <1>6, <1>7, <1>8

\* The reservations are numbered.
LEMMA ReservationShapes ==
  ASSUME LimitTypes
  PROVE  \E n \in Nat : /\ Len(reservations) = n /\ DOMAIN reservations = 1 .. n /\ IsFiniteSet(1 .. n)
                        /\ \A i \in 1 .. n : reservations[i] \in ReservationRecords
<1>1. PICK n \in Nat : n = Len(reservations) BY DEF LimitTypes
<1>2. DOMAIN reservations = 1 .. n /\ \A i \in 1 .. n : reservations[i] \in ReservationRecords
  <2> HIDE DEF ReservationRecords
  <2> QED BY <1>1 DEF LimitTypes
<1> QED BY <1>1, <1>2, FS_Interval

\* What reservations amount to is a number, more for more of them.
LEMMA AmountsAreNat ==
  ASSUME LimitTypes, NEW S, S \subseteq DOMAIN reservations, NEW T, T \subseteq S
  PROVE  AmountsOf(S) \in Nat /\ AmountsOf(T) \in Nat /\ AmountsOf(T) <= AmountsOf(S)
<1>1. PICK n \in Nat : /\ DOMAIN reservations = 1 .. n /\ IsFiniteSet(1 .. n)
                       /\ \A i \in 1 .. n : reservations[i] \in ReservationRecords BY ReservationShapes
<1> DEFINE f == [i \in DOMAIN reservations |-> reservations[i].amount]
<1>2. NatOn(f, S) BY <1>1 DEF NatOn, ReservationRecords
<1>3. IsFiniteSet(S) BY <1>1, FS_Subset
<1>4. AmountsOf(S) = SumFunctionOnSet(f, S) /\ AmountsOf(T) = SumFunctionOnSet(f, T) BY DEF AmountsOf
<1> HIDE DEF f
<1> QED BY <1>2, <1>3, <1>4, SumAtLeastPart

\* A reservation is given back with a time that is not before it was made.
GivesBack(i, now) ==
  /\ i \in DOMAIN reservations /\ now \in 0 .. second
  /\ reservations[i].back = -1 /\ reservations[i].made <= now
  /\ reservations' = [reservations EXCEPT ![i].back = now, ![i].after = Len(reservations)]

\* Giving a reservation back changes nothing of it but that.
LEMMA GivenBack ==
  ASSUME LimitTypes, NEW i, NEW now, GivesBack(i, now)
  PROVE  /\ reservations' \in Seq(ReservationRecords) /\ Len(reservations') = Len(reservations)
         /\ DOMAIN reservations' = DOMAIN reservations
         /\ \A j \in DOMAIN reservations :
               /\ reservations'[j].amount = reservations[j].amount /\ reservations'[j].at = reservations[j].at
               /\ reservations'[j].made = reservations[j].made
               /\ reservations'[j].back = IF j = i THEN now ELSE reservations[j].back
               /\ reservations'[j].after = IF j = i THEN Len(reservations) ELSE reservations[j].after
<1>1. PICK n \in Nat : /\ Len(reservations) = n /\ DOMAIN reservations = 1 .. n
                       /\ \A j \in 1 .. n : reservations[j] \in ReservationRecords BY ReservationShapes
<1>2. PICK x : x = [reservations[i] EXCEPT !.back = now, !.after = n] OBVIOUS
<1>3. /\ x \in ReservationRecords /\ x.amount = reservations[i].amount /\ x.at = reservations[i].at
      /\ x.made = reservations[i].made /\ x.back = now /\ x.after = n
  <2>1. now \in Nat /\ reservations[i] \in ReservationRecords BY <1>1 DEF LimitTypes, GivesBack
  <2> QED BY <1>2, <2>1 DEF ReservationRecords
<1>4. reservations' = [reservations EXCEPT ![i] = x] /\ i \in 1 .. n BY <1>1, <1>2 DEF GivesBack
<1>5. reservations \in Seq(ReservationRecords) BY DEF LimitTypes
<1> HIDE DEF ReservationRecords
<1>6. reservations' \in Seq(ReservationRecords) /\ Len(reservations') = n /\ DOMAIN reservations' = 1 .. n
  BY <1>1, <1>3, <1>4, <1>5
<1>7. \A j \in 1 .. n : reservations'[j] = IF j = i THEN x ELSE reservations[j] BY <1>1, <1>4
<1> QED BY <1>1, <1>3, <1>6, <1>7

\* One more reservation.
LEMMA OneMoreReservation ==
  ASSUME LimitTypes, NEW r \in ReservationRecords, reservations' = Append(reservations, r)
  PROVE  /\ reservations' \in Seq(ReservationRecords) /\ Len(reservations') = Len(reservations) + 1
         /\ DOMAIN reservations' = DOMAIN reservations \cup {Len(reservations) + 1}
         /\ Len(reservations) + 1 \notin DOMAIN reservations
         /\ reservations'[Len(reservations) + 1] = r
         /\ \A j \in DOMAIN reservations : reservations'[j] = reservations[j]
<1> HIDE DEF ReservationRecords
<1>1. reservations \in Seq(ReservationRecords) /\ Len(reservations) \in Nat BY DEF LimitTypes
<1> QED BY <1>1

\* What goes back to the limiter with a reservation.
ReleasedTo(new, now, tokens, used, amount) ==
  /\ new = [limiter EXCEPT !.tokens = tokens, !.used = used]
  /\ tokens \in Nat /\ used \in Nat /\ used <= limiter.used
  /\ tokens <= limiter.tokens + TokenUnits
  /\ limiter.config.rate > 0 => tokens <= bucketCapacity(limiter.config)
  /\ IF truncateToDay(now) = limiter.day THEN used >= limiter.used - amount ELSE used = limiter.used

\* A release takes from the day what it may and at most a token's worth to the bucket.
LEMMA WhatARelease ==
  ASSUME LimitInv, Release
  PROVE  \E i \in DOMAIN reservations, now \in 0 .. second, tokens \in Nat, used \in Nat :
            /\ GivesBack(i, now)
            /\ ReleasedTo(limiter', now, tokens, used, reservations[i].amount)
<1>1. PICK i \in DOMAIN reservations, now \in 0 .. second :
          /\ GivesBack(i, now)
          /\ limiter' = [limiter EXCEPT
                !.tokens = IF limiter.config.rate = 0 THEN @
                           ELSE Capped(@ + TokenUnits, bucketCapacity(limiter.config)),
                !.used = IF truncateToDay(now) # limiter.day THEN @
                         ELSE IF @ > reservations[i].amount THEN @ - reservations[i].amount ELSE 0]
  BY DEF Release, GivesBack
<1>2. reservations[i].amount \in Nat BY ReservationShapes DEF LimitInv, ReservationRecords
<1>3. limiter.tokens \in Nat /\ limiter.used \in Nat /\ limiter.config.rate \in Nat
  BY AlgoAssumption DEF LimitInv, LimitTypes, LimiterStates
<1>4. PICK T \in Nat \ {0} : T = TokenUnits BY AlgoAssumption
<1>5. PICK C \in Nat : C = bucketCapacity(limiter.config) BY <1>3, <1>4 DEF bucketCapacity
<1>6. PICK tokens \in Nat : tokens = IF limiter.config.rate = 0 THEN limiter.tokens ELSE Capped(limiter.tokens + T, C)
  BY <1>3 DEF Capped
<1>7. PICK used \in Nat : used = IF truncateToDay(now) # limiter.day THEN limiter.used
                         ELSE IF limiter.used > reservations[i].amount THEN limiter.used - reservations[i].amount ELSE 0
  BY <1>2, <1>3
<1>8. limiter' = [limiter EXCEPT !.tokens = tokens, !.used = used] BY <1>1, <1>4, <1>5, <1>6, <1>7
<1>9. tokens <= limiter.tokens + T /\ (limiter.config.rate > 0 => tokens <= C) BY <1>3, <1>6 DEF Capped
<1>10. used <= limiter.used /\ IF truncateToDay(now) = limiter.day THEN used >= limiter.used - reservations[i].amount ELSE used = limiter.used
  BY <1>2, <1>3, <1>7
<1> QED BY <1>1, <1>4, <1>5, <1>8, <1>9, <1>10 DEF ReleasedTo

\* A release keeps what is used over what is kept.
LEMMA ReleaseKeepsNotional ==
  ASSUME LimitInv, NEW i \in DOMAIN reservations, NEW now \in 0 .. second, NEW tokens \in Nat, NEW used \in Nat,
         GivesBack(i, now),
         ReleasedTo(limiter', now, tokens, used, reservations[i].amount), UNCHANGED <<second, limitsSince, reopened>>
  PROVE  NotionalIsCovered'
<1>1. PICK n \in Nat : /\ DOMAIN reservations = 1 .. n /\ IsFiniteSet(1 .. n)
                       /\ \A j \in 1 .. n : reservations[j] \in ReservationRecords
  BY ReservationShapes DEF LimitInv
<1> DEFINE f == [j \in DOMAIN reservations |-> reservations[j].amount]
           D == limiter.day
           K == KeptOf(D)
           S == StraysOf(D)
           sum(U) == SumFunctionOnSet(f, U)
<1>2. limiter.day \in Nat /\ limiter.used \in Nat /\ limiter \in LimiterStates /\ second \in Nat
  BY DEF LimitInv, LimitTypes, LimiterStates
<1>3. limiter'.day = D /\ limiter'.used = used /\ limiter'.config = limiter.config
  BY <1>2 DEF ReleasedTo, LimiterStates
<1>4. /\ DOMAIN reservations' = 1 .. n
      /\ \A j \in 1 .. n :
            /\ reservations'[j].amount = reservations[j].amount /\ reservations'[j].at = reservations[j].at
            /\ reservations'[j].back = IF j = i THEN now ELSE reservations[j].back
  BY <1>1, GivenBack DEF LimitInv
<1>5. [j \in DOMAIN reservations' |-> reservations'[j].amount] = f BY <1>1, <1>4
<1>6. KeptOf(limiter.day)' = K \ {i} BY <1>1, <1>2, <1>3, <1>4 DEF KeptOf, DayOf, truncateToDay
<1>7. StraysOf(limiter.day)' = IF truncateToDay(now) = D /\ DayOf(i) < D THEN S \cup {i} ELSE S
  <2>1. now # -1 /\ reservations[i].back = -1 /\ DOMAIN reservations = 1 .. n /\ i \in 1 .. n
    BY <1>1, <1>2 DEF GivesBack
  <2> QED BY <1>3, <1>4, <2>1 DEF StraysOf, DayOf, truncateToDay
<1>8. i \notin S /\ (i \in K <=> DayOf(i) = D) /\ K \subseteq 1 .. n /\ S \subseteq 1 .. n
  BY <1>1 DEF KeptOf, StraysOf, GivesBack
<1>9. DayOf(i) <= truncateToDay(now) /\ DayOf(i) \in Nat /\ truncateToDay(now) \in Nat
  <2>1. /\ reservations[i].at \in Nat /\ reservations[i].made \in Nat /\ now \in Nat
        /\ reservations[i].at <= reservations[i].made /\ reservations[i].made <= now
    BY <1>1, <1>2 DEF ReservationRecords, LimitInv, ReservationsAreOrdered, GivesBack
  <2> QED BY <2>1, DaysFollowTheClock DEF DayOf
<1>10. IntOn(f, 1 .. n) /\ NatOn(f, 1 .. n) /\ f[i] = reservations[i].amount
  <2>1. \A j \in 1 .. n : f[j] = reservations[j].amount /\ f[j] \in Nat BY <1>1 DEF ReservationRecords
  <2> QED BY <2>1, <1>1 DEF IntOn, NatOn
<1>11. D \notin reopened => sum(K) <= limiter.used + sum(S) BY DEF LimitInv, NotionalIsCovered, AmountsOf
<1>12. /\ AmountsOf(KeptOf(limiter.day))' = sum(K \ {i})
       /\ AmountsOf(StraysOf(limiter.day))' = sum(IF truncateToDay(now) = D /\ DayOf(i) < D THEN S \cup {i} ELSE S)
  BY <1>5, <1>6, <1>7 DEF AmountsOf
<1>13. IsFiniteSet(K) /\ IsFiniteSet(S) /\ IntOn(f, K) /\ IntOn(f, S) /\ IntOn(f, K \ {i}) /\ IsFiniteSet(K \ {i})
  BY <1>1, <1>8, <1>10, FS_Subset DEF IntOn
<1>14. PICK k \in Int, s \in Int, m \in Int, a \in Nat : k = sum(K) /\ s = sum(S) /\ m = sum(K \ {i}) /\ a = f[i]
  <2> HIDE DEF f, K, S
  <2> QED BY <1>1, <1>10, <1>13, SumIsInt DEF NatOn
<1>15. i \in K => k = a + m
  <2> HIDE DEF f, K, S
  <2> QED BY <1>13, <1>14, SumWithout
<1>16. i \notin K => m = k BY <1>14
<1>17. sum(S \cup {i}) = s + a
  <2> HIDE DEF f, K, S
  <2>1. i \notin S /\ f[i] \in Int BY <1>8, <1>14
  <2> QED BY <2>1, <1>13, <1>14, SumWith
<1>18. ASSUME D \notin reopened
       PROVE  m <= used + sum(IF truncateToDay(now) = D /\ DayOf(i) < D THEN S \cup {i} ELSE S)
  <2>1. used <= limiter.used /\ IF truncateToDay(now) = D THEN used >= limiter.used - a ELSE used = limiter.used
    BY <1>10, <1>14 DEF ReleasedTo
  <2>2. k <= limiter.used + s BY <1>11, <1>14, <1>18
  <2>3. PICK z : z = sum(S \cup {i}) OBVIOUS
  <2>4. i \in K <=> DayOf(i) = D BY <1>8
  <2>5. s = sum(S) BY <1>14
  <2> HIDE DEF f, K, S, sum, D
  <2>6. CASE truncateToDay(now) = D /\ DayOf(i) < D BY <2>4, <2>6, <1>9, <1>16, <2>1, <2>2, <1>2, <1>14, <1>17
  <2>7. CASE ~(truncateToDay(now) = D /\ DayOf(i) < D)
    <3>1. CASE truncateToDay(now) = D BY <2>7, <3>1, <1>2, <1>9, <2>1, <2>2, <2>4, <2>5, <1>14, <1>15 DEF D
    <3>2. CASE truncateToDay(now) # D BY <1>14, <1>15, <1>16, <2>1, <2>2, <2>5, <2>7, <3>2, <1>2
    <3> QED BY <3>1, <3>2
  <2> QED BY <2>6, <2>7
<1>19. limiter.config.perDay > 0 /\ limitsSince < D * SecondsPerDay => used <= limiter.config.perDay
  <2>1. limiter.config.perDay \in Nat BY <1>2, AlgoAssumption DEF LimiterStates
  <2> QED BY <2>1, <1>2 DEF LimitInv, NotionalIsCovered, ReleasedTo
<1> HIDE DEF f, K, S, sum
<1>20. (limiter.day \notin reopened)' => D \notin reopened BY <1>3
<1> QED BY <1>3, <1>12, <1>14, <1>18, <1>19, <1>20 DEF NotionalIsCovered

\* A release keeps the count of tokens: what comes back is counted among what was given back.
LEMMA ReleaseKeepsTokens ==
  ASSUME LimitInv, NEW i \in DOMAIN reservations, NEW now \in 0 .. second, NEW tokens \in Nat, NEW used \in Nat,
         GivesBack(i, now),
         ReleasedTo(limiter', now, tokens, used, reservations[i].amount), UNCHANGED <<second, limitsSince, reopened>>
  PROVE  TokensAreCounted'
<1>1. PICK n \in Nat : /\ DOMAIN reservations = 1 .. n /\ IsFiniteSet(1 .. n) /\ Len(reservations) = n
                       /\ \A j \in 1 .. n : reservations[j] \in ReservationRecords
  BY ReservationShapes DEF LimitInv
<1>2. limiter \in LimiterStates /\ second \in Nat /\ limiter.config.rate \in Nat /\ limiter.refilled \in Nat
      /\ limiter.tokens \in Nat BY AlgoAssumption DEF LimitInv, LimitTypes, LimiterStates
<1>3. /\ limiter'.tokens = tokens /\ limiter'.config = limiter.config /\ limiter'.refilled = limiter.refilled
      /\ limiter'.exists = limiter.exists BY <1>2 DEF ReleasedTo, LimiterStates
<1>4. /\ DOMAIN reservations' = 1 .. n /\ Len(reservations') = n
      /\ \A j \in 1 .. n :
            /\ reservations'[j].at = reservations[j].at
            /\ reservations'[j].after = IF j = i THEN n ELSE reservations[j].after
  BY <1>1, GivenBack DEF LimitInv
<1>5. PICK C \in Nat, T \in Nat \ {0}, r \in Nat : C = bucketCapacity(limiter.config) /\ T = TokenUnits /\ r = limiter.config.rate
  BY <1>2, AlgoAssumption DEF bucketCapacity
<1> SUFFICES ASSUME r > 0
             PROVE  /\ limiter.exists /\ limiter.refilled > limitsSince => tokens <= C
                    /\ \A j \in 1 .. n : reservations[j].at > limitsSince =>
                          /\ reservations[j].at <= limiter.refilled
                          /\ (n - j + 1) * T + tokens + r * reservations[j].at
                                <= C + r * limiter.refilled + Cardinality(BackAfter(j)') * T
  BY <1>3, <1>4, <1>5 DEF TokensAreCounted
<1>6. tokens <= C /\ tokens <= limiter.tokens + T BY <1>5 DEF ReleasedTo
<1>7. ASSUME NEW j \in 1 .. n, reservations[j].at > limitsSince
      PROVE  /\ reservations[j].at <= limiter.refilled
             /\ (n - j + 1) * T + tokens + r * reservations[j].at
                   <= C + r * limiter.refilled + Cardinality(BackAfter(j)') * T
  <2> DEFINE t == reservations[j].at
             B == BackAfter(j)
  <2>1. t \in Nat /\ reservations[i].after = 0
    BY <1>1, <1>7 DEF ReservationRecords, LimitInv, ReservationsAreOrdered, GivesBack
  <2>2. BackAfter(j)' = B \cup {i} /\ i \notin B /\ B \subseteq 1 .. n BY <1>1, <1>2, <1>4, <2>1 DEF BackAfter
  <2>3. PICK b \in Nat : b = Cardinality(B) /\ Cardinality(B \cup {i}) = b + 1
    <3>1. IsFiniteSet(B) BY <1>1, <2>2, FS_Subset
    <3> HIDE DEF B
    <3> QED BY <2>2, <3>1, FS_AddElement, FS_CardinalityType
  <2>4. t <= limiter.refilled /\ (n - j + 1) * T + limiter.tokens + r * t <= C + r * limiter.refilled + b * T
    BY <1>1, <1>5, <1>7, <2>3 DEF LimitInv, TokensAreCounted
  <2>5. PICK x \in Int, y \in Int, z \in Int : x = (n - j + 1) * T /\ y = r * t /\ z = r * limiter.refilled
    BY <1>2, <2>1
  <2>6. (b + 1) * T = b * T + T OBVIOUS
  <2>7. PICK w \in Int : w = b * T OBVIOUS
  <2>8. Cardinality(BackAfter(j)') * T = w + T BY <2>2, <2>3, <2>6, <2>7
  <2> HIDE DEF B
  <2>9. x + tokens + y <= C + z + (w + T) BY <1>2, <1>6, <2>4, <2>5, <2>7
  <2> QED BY <2>4, <2>5, <2>8, <2>9
<1> QED BY <1>6, <1>7

\* A release keeps the invariant.
LEMMA ReleaseKeepsInv == ASSUME LimitInv, Release PROVE LimitInv'
<1>1. PICK i \in DOMAIN reservations, now \in 0 .. second, tokens \in Nat, used \in Nat :
         /\ GivesBack(i, now)
         /\ ReleasedTo(limiter', now, tokens, used, reservations[i].amount) BY WhatARelease
<1>2. UNCHANGED <<second, limitsSince, reopened>> BY DEF Release
<1>3. NotionalIsCovered' /\ TokensAreCounted' BY <1>1, <1>2, ReleaseKeepsNotional, ReleaseKeepsTokens
<1>4. /\ reservations' \in Seq(ReservationRecords) /\ DOMAIN reservations' = DOMAIN reservations
      /\ \A j \in DOMAIN reservations :
            /\ reservations'[j].at = reservations[j].at /\ reservations'[j].made = reservations[j].made
            /\ reservations'[j].back = IF j = i THEN now ELSE reservations[j].back
            /\ j # i => reservations'[j].after = reservations[j].after BY <1>1, GivenBack DEF LimitInv
<1>5. limiter \in LimiterStates /\ second \in Nat /\ now \in Nat /\ now <= second BY DEF LimitInv, LimitTypes
<1>6. /\ limiter' \in LimiterStates /\ limiter'.exists = limiter.exists /\ limiter'.day = limiter.day
      /\ limiter'.refilled = limiter.refilled BY <1>1, <1>5 DEF ReleasedTo, LimiterStates
<1>7. limiter.exists BY <1>1 DEF LimitInv, LimitTypes, GivesBack
<1> HIDE DEF LimiterStates, ReservationRecords
<1>8. LimitTypes' BY <1>2, <1>4, <1>6, <1>7 DEF LimitInv, LimitTypes, truncateToDay
<1>9. ReservationsAreOrdered'
  BY <1>2, <1>4, <1>5, <1>6 DEF LimitInv, ReservationsAreOrdered, DayOf, truncateToDay
<1> QED BY <1>3, <1>8, <1>9 DEF LimitInv

\* The clock moves on and the limits change without a reservation.
LEMMA ClockAndLimitsKeepInv == ASSUME LimitInv, LimiterTick \/ SetStrategyLimits PROVE LimitInv'
<1>1. second \in Nat /\ limiter \in LimiterStates /\ limiter.day \in Nat /\ limitsSince \in Int
  BY DEF LimitInv, LimitTypes, LimiterStates
<1>2. CASE LimiterTick
  <2>1. second' = second + 1 /\ UNCHANGED <<limiter, reservations, reopened, limitsSince, limitChanges>>
    BY <1>2 DEF LimiterTick
  <2>2. truncateToDay(second) <= truncateToDay(second + 1) /\ truncateToDay(second) \in Nat /\ truncateToDay(second + 1) \in Nat
    BY <1>1, DaysFollowTheClock
  <2>3. LimitTypes' BY <2>1, <1>1, <2>2 DEF truncateToDay, LimitInv, LimitTypes, LimiterStates
  <2>4. ReservationsAreOrdered'
    BY ReservationShapes, <1>1, <2>1 DEF LimitInv, ReservationRecords, ReservationsAreOrdered,
       DayOf, truncateToDay
  <2>5. NotionalIsCovered' /\ TokensAreCounted'
    BY <2>1 DEF LimitInv, NotionalIsCovered, TokensAreCounted, KeptOf, StraysOf, BackAfter, AmountsOf, DayOf, truncateToDay, bucketCapacity
  <2> QED BY <2>3, <2>4, <2>5 DEF LimitInv
<1>3. CASE SetStrategyLimits
  <2>1. PICK config \in LimitConfigs : limiter' = [limiter EXCEPT !.config = config]
    BY <1>3 DEF SetStrategyLimits
  <2>2. limitsSince' = second /\ UNCHANGED <<second, reservations, reopened>> BY <1>3 DEF SetStrategyLimits
  <2>3. /\ limiter' \in LimiterStates /\ limiter'.exists = limiter.exists /\ limiter'.day = limiter.day
        /\ limiter'.refilled = limiter.refilled /\ limiter'.used = limiter.used /\ limiter'.config = config
        /\ limiter'.tokens = limiter.tokens BY <1>1, <2>1 DEF LimiterStates
  <2>4. LimitTypes' BY <1>1, <2>2, <2>3 DEF LimitInv, LimitTypes, truncateToDay
  <2>5. ReservationsAreOrdered' BY <2>2, <2>3 DEF LimitInv, ReservationsAreOrdered, DayOf, truncateToDay
  <2>6. NotionalIsCovered'
    <3>1. limiter.day * SecondsPerDay <= second
      <4>1. PICK d \in Nat \ {0}, t \in Nat : d = SecondsPerDay /\ t = truncateToDay(second) /\ t * d <= second
        <5>1. truncateToDay(second) \in Nat /\ truncateToDay(second) * SecondsPerDay <= second
          BY <1>1, DaysFollowTheClock
        <5>2. SecondsPerDay \in Nat \ {0} BY AlgoAssumption
        <5> QED BY <5>1, <5>2
      <4>2. limiter.day <= t BY <4>1 DEF LimitInv, LimitTypes
      <4>3. limiter.day * d <= t * d BY <1>1, <4>2
      <4> QED BY <1>1, <4>1, <4>3
    <3>2. limiter.day * SecondsPerDay \in Int BY <1>1, AlgoAssumption
    <3>3. ~(limitsSince < limiter.day * SecondsPerDay)' BY <1>1, <2>2, <2>3, <3>1, <3>2
    <3>4. (limiter.day \notin reopened => AmountsOf(KeptOf(limiter.day)) <= limiter.used + AmountsOf(StraysOf(limiter.day)))'
      BY <2>2, <2>3 DEF LimitInv, NotionalIsCovered, KeptOf, StraysOf, AmountsOf, DayOf, truncateToDay
    <3> QED BY <3>3, <3>4 DEF NotionalIsCovered
  <2>7. TokensAreCounted'
    <3>1. ~(limiter'.refilled > limitsSince') /\ \A i \in DOMAIN reservations' : ~(reservations'[i].at > limitsSince')
      <4>1. \A i \in DOMAIN reservations : reservations[i].at \in Int /\ reservations[i].at <= second
        <5> TAKE i \in DOMAIN reservations
        <5>1. reservations[i].at \in Nat /\ reservations[i].made \in Nat
          BY ReservationShapes DEF LimitInv, ReservationRecords
        <5>2. reservations[i].at <= reservations[i].made /\ reservations[i].made <= second
          BY DEF LimitInv, ReservationsAreOrdered
        <5> QED BY <1>1, <5>1, <5>2
      <4>2. limiter.refilled \in Nat /\ limiter.refilled <= second BY DEF LimitInv, LimitTypes, LimiterStates
      <4> QED BY <1>1, <2>2, <2>3, <4>1, <4>2
    <3> QED BY <3>1 DEF TokensAreCounted
  <2> QED BY <2>4, <2>5, <2>6, <2>7 DEF LimitInv
<1> QED BY <1>2, <1>3

\* What the state is after the bucket was filled for an order that comes now.
LEMMA RefillFacts ==
  ASSUME LimitInv, NEW now \in 0 .. second, NEW R, R = Refilled(stateForStrategy(now), now)
  PROVE  /\ R \in LimiterStates /\ R.exists /\ R.config = limiter.config /\ R.used = limiter.used
         /\ R.refilled <= second /\ R.day <= truncateToDay(second)
         /\ R.day = limiter.day \/ (~limiter.exists /\ R.day = truncateToDay(now))
         /\ R.config.rate > 0 =>
               /\ R.refilled >= now
               /\ R.refilled > limitsSince => R.tokens <= bucketCapacity(limiter.config)
               /\ limiter.exists =>
                     /\ R.refilled >= limiter.refilled
                     /\ R.tokens <= limiter.tokens + (R.refilled - limiter.refilled) * limiter.config.rate
<1>1. /\ limiter \in LimiterStates /\ limiter.config \in LimitConfigs /\ limiter.config.rate \in Nat
      /\ limiter.tokens \in Nat /\ limiter.refilled \in Nat /\ limiter.day \in Nat /\ limiter.used \in Nat
      /\ second \in Nat /\ limiter.refilled <= second /\ limiter.day <= truncateToDay(second)
      /\ limiter.exists \in BOOLEAN /\ limitsSince \in Int
  BY AlgoAssumption DEF LimitInv, LimitTypes, LimiterStates
<1>2. /\ now \in Nat /\ now <= second /\ truncateToDay(now) \in Nat /\ truncateToDay(second) \in Nat
      /\ truncateToDay(now) <= truncateToDay(second) BY <1>1, DaysFollowTheClock
<1>3. PICK r \in Nat, C \in Nat, D \in Nat : r = limiter.config.rate /\ C = bucketCapacity(limiter.config) /\ D = truncateToDay(now)
  BY <1>1, <1>2, AlgoAssumption DEF bucketCapacity
<1>4. CASE ~limiter.exists
  <2>1. stateForStrategy(now) = [limiter EXCEPT !.exists = TRUE, !.tokens = C, !.refilled = now, !.day = D]
    BY <1>3, <1>4 DEF stateForStrategy
  <2>2. R = stateForStrategy(now) BY <1>1, <2>1 DEF Refilled, LimiterStates
  <2>3. /\ R \in LimiterStates /\ R.exists /\ R.config = limiter.config /\ R.used = limiter.used
        /\ R.refilled = now /\ R.day = D /\ R.tokens = C
    <3>1. R = [limiter EXCEPT !.exists = TRUE, !.tokens = C, !.refilled = now, !.day = D] BY <2>1, <2>2
    <3>2. C \in Nat /\ D \in Nat /\ now \in Nat /\ limiter \in LimiterStates BY <1>1, <1>2
    <3> QED BY <3>1, <3>2 DEF LimiterStates
  <2> HIDE DEF LimiterStates
  <2> QED BY <1>1, <1>2, <1>3, <1>4, <2>3
<1>5. CASE limiter.exists
  <2>1. stateForStrategy(now) = limiter BY <1>5 DEF stateForStrategy
  <2>2. CASE r = 0 \/ now <= limiter.refilled
    <3>1. R = limiter BY <1>3, <2>1, <2>2 DEF Refilled
    <3>2. r > 0 => now <= limiter.refilled BY <1>1, <2>2
    <3>3. r > 0 /\ limiter.refilled > limitsSince => limiter.tokens <= C
      BY <1>3, <1>5 DEF LimitInv, TokensAreCounted
    <3>4. limiter.tokens <= limiter.tokens + (limiter.refilled - limiter.refilled) * r
      <4>1. limiter.refilled - limiter.refilled = 0 /\ 0 * r = 0 BY <1>1
      <4> QED BY <1>1, <4>1
    <3> HIDE DEF LimiterStates
    <3> QED BY <1>1, <1>2, <1>3, <1>5, <3>1, <3>2, <3>3, <3>4
  <2>3. CASE r # 0 /\ now > limiter.refilled
    <3>1. PICK flow \in Nat : flow = (now - limiter.refilled) * r BY <1>1, <1>2, <2>3
    <3>2. PICK t \in Nat : t = Capped(limiter.tokens + flow, C) BY <1>1 DEF Capped
    <3>3. R = [limiter EXCEPT !.refilled = now, !.tokens = t]
      BY <1>1, <1>3, <2>1, <2>3, <3>1, <3>2 DEF Refilled
    <3>4. t <= C /\ t <= limiter.tokens + flow BY <1>1, <3>2 DEF Capped
    <3>5. /\ R \in LimiterStates /\ R.exists /\ R.config = limiter.config /\ R.used = limiter.used
          /\ R.refilled = now /\ R.day = limiter.day /\ R.tokens = t
      BY <1>1, <1>2, <1>5, <3>3 DEF LimiterStates
    <3> HIDE DEF LimiterStates
    <3> QED BY <1>1, <1>2, <1>3, <1>5, <2>3, <3>1, <3>4, <3>5
  <2> QED BY <1>1, <2>2, <2>3
<1> QED BY <1>1, <1>4, <1>5

\* What an order leaves of the state R that the bucket was filled in: it may spend a token,
\* open the day, and, when it is let through, use some of the day.
AfterCheck(new, R, now, opens, amount) ==
  /\ new \in LimiterStates /\ new.exists /\ new.config = R.config /\ new.refilled = R.refilled
  /\ new.tokens <= R.tokens
  /\ new.day = IF opens THEN truncateToDay(now) ELSE R.day
  /\ new.used = (IF opens /\ R.day # truncateToDay(now) THEN 0 ELSE R.used) + amount
  /\ reopened' = IF opens THEN reopened \cup DaysReopened(R, now) ELSE reopened

LetThrough(new, R, now, amount) ==
  /\ AfterCheck(new, R, now, TRUE, amount)
  /\ R.config.rate > 0 => new.tokens = R.tokens - TokenUnits
  /\ new.config.perDay > 0 => new.used <= new.config.perDay
  /\ reservations' = Append(reservations,
                       [amount |-> amount, at |-> now, made |-> second, back |-> -1, after |-> 0])

\* What a check does with the time it brings, and the state it finds then.
CheckedWith(now, R) ==
  /\ now \in 0 .. second /\ R = Refilled(stateForStrategy(now), now)
  /\ \/ UNCHANGED reservations /\ \E opens \in BOOLEAN : AfterCheck(limiter', R, now, opens, 0)
     \/ \E amount \in Nat : LetThrough(limiter', R, now, amount)

\* What a check does is one of three things.
LEMMA WhatACheck == ASSUME LimitInv, CheckAndReserve PROVE \E now, R : CheckedWith(now, R)
<1>0. PICK now \in 0 .. second, amount \in Notionals :
          LET refilled == Refilled(stateForStrategy(now), now)
              spent == [refilled EXCEPT !.tokens = IF refilled.config.rate = 0 THEN @ ELSE @ - TokenUnits]
              today == Today(spent, now)
          IN \/ ~RateAllows(refilled) /\ limiter' = refilled /\ UNCHANGED <<reservations, reopened>>
             \/ /\ RateAllows(refilled)
                /\ reopened' = reopened \union DaysReopened(refilled, now)
                /\ \/ ~NotionalAllows(today, amount) /\ limiter' = today /\ UNCHANGED reservations
                   \/ /\ NotionalAllows(today, amount)
                      /\ limiter' = [today EXCEPT !.used = @ + amount]
                      /\ reservations' = Append(reservations,
                            [amount |-> amount, at |-> now, made |-> second, back |-> -1, after |-> 0])
  BY Zenon DEF CheckAndReserve
<1>00. PICK R : R = Refilled(stateForStrategy(now), now) OBVIOUS
<1> DEFINE Done == \/ UNCHANGED reservations /\ \E opens \in BOOLEAN : AfterCheck(limiter', R, now, opens, 0)
                   \/ \E n \in Nat : LetThrough(limiter', R, now, n)
<1>1. /\ R \in LimiterStates /\ R.exists /\ R.config = limiter.config /\ R.used = limiter.used
      /\ R.used \in Nat /\ R.config.rate \in Nat /\ R.config.perDay \in Nat /\ R.tokens \in Nat /\ R.day \in Nat
      /\ second \in Nat /\ now \in Nat
  <2>1. R \in LimiterStates /\ R.exists /\ R.config = limiter.config /\ R.used = limiter.used
    BY <1>00, RefillFacts
  <2>2. second \in Nat BY DEF LimitInv, LimitTypes
  <2> QED BY <2>1, <2>2, AlgoAssumption DEF LimiterStates
<1>2. PICK T \in Nat \ {0}, D \in Nat : T = TokenUnits /\ D = truncateToDay(now)
  <2>1. truncateToDay(now) \in Nat BY <1>1, DaysFollowTheClock
  <2>2. TokenUnits \in Nat \ {0} BY AlgoAssumption
  <2> QED BY <2>1, <2>2
<1>3. PICK spent : spent = [R EXCEPT !.tokens = IF R.config.rate = 0 THEN @ ELSE @ - TokenUnits] OBVIOUS
<1>4. PICK today : today = Today(spent, now) OBVIOUS
<1> DEFINE NoToken == ~RateAllows(R) /\ limiter' = R /\ UNCHANGED <<reservations, reopened>>
           NoNotional == /\ RateAllows(R) /\ reopened' = reopened \union DaysReopened(R, now)
                         /\ ~NotionalAllows(today, amount) /\ limiter' = today /\ UNCHANGED reservations
           Passed == /\ RateAllows(R) /\ reopened' = reopened \union DaysReopened(R, now)
                     /\ NotionalAllows(today, amount)
                     /\ limiter' = [today EXCEPT !.used = @ + amount]
                     /\ reservations' = Append(reservations,
                           [amount |-> amount, at |-> now, made |-> second, back |-> -1, after |-> 0])
<1>5. NoToken \/ NoNotional \/ Passed BY <1>0, <1>00, <1>3, <1>4, Zenon
<1>6. amount \in Nat BY AlgoAssumption
<1>7. ASSUME NoToken PROVE Done
  <2>1. AfterCheck(limiter', R, now, FALSE, 0) BY <1>1, <1>7 DEF AfterCheck
  <2> QED BY <2>1, <1>7
<1>8. ASSUME RateAllows(R), reopened' = reopened \union DaysReopened(R, now)
      PROVE  /\ AfterCheck(today, R, now, TRUE, 0) /\ (R.config.rate > 0 => today.tokens = R.tokens - T)
             /\ [today EXCEPT !.used = @ + amount] \in LimiterStates
  <2>1. R.config.rate = 0 \/ R.tokens >= T BY <1>2, <1>8 DEF RateAllows
  <2>2. PICK t \in Nat : t = (IF R.config.rate = 0 THEN R.tokens ELSE R.tokens - T) BY <1>1, <2>1
  <2>3. spent = [R EXCEPT !.tokens = t] BY <1>2, <1>3, <2>2
  <2>4. /\ spent \in LimiterStates /\ spent.tokens = t /\ spent.exists /\ spent.config = R.config
        /\ spent.refilled = R.refilled /\ spent.day = R.day /\ spent.used = R.used
    BY <1>1, <2>3 DEF LimiterStates
  <2>5. CASE R.day = D BY <1>2, <1>4, <2>4, <2>5, <1>1, <1>6, <1>8, <2>2 DEF Today, AfterCheck, LimiterStates
  <2>6. CASE R.day # D
    <3>1. today = [spent EXCEPT !.day = D, !.used = 0] BY <1>2, <1>4, <2>4, <2>6 DEF Today
    <3>2. /\ today \in LimiterStates /\ today.tokens = t /\ today.exists /\ today.config = R.config
          /\ today.refilled = R.refilled /\ today.day = D /\ today.used = 0
      BY <1>2, <2>4, <3>1 DEF LimiterStates
    <3> QED BY <1>1, <1>2, <1>6, <1>8, <2>2, <2>6, <3>2 DEF AfterCheck, LimiterStates
  <2> QED BY <2>5, <2>6
<1>9. ASSUME NoNotional PROVE Done
  <2>1. AfterCheck(limiter', R, now, TRUE, 0) BY <1>8, <1>9
  <2> QED BY <2>1, <1>9
<1>10. ASSUME Passed PROVE Done
  <2>1. PICK u \in Nat : u = today.used /\ today \in LimiterStates
    BY <1>8, <1>10 DEF AfterCheck, LimiterStates
  <2>2. /\ limiter'.used = u + amount /\ limiter'.exists = today.exists /\ limiter'.config = today.config
        /\ limiter'.refilled = today.refilled /\ limiter'.day = today.day /\ limiter'.tokens = today.tokens
    BY <1>10, <2>1 DEF LimiterStates
  <2>3. limiter' \in LimiterStates BY <1>8, <1>10
  <2>4. today.config.perDay > 0 => u + amount <= today.config.perDay
    BY <1>1, <1>8, <1>10, <2>1 DEF NotionalAllows, AfterCheck
  <2>5. u = IF R.day # truncateToDay(now) THEN 0 ELSE R.used BY <1>1, <1>8, <1>10, <2>1 DEF AfterCheck
  <2> HIDE DEF LimiterStates
  <2>6. AfterCheck(limiter', R, now, TRUE, amount) BY <1>8, <1>10, <2>2, <2>3, <2>5 DEF AfterCheck
  <2>7. LetThrough(limiter', R, now, amount) BY <1>2, <1>8, <1>10, <2>2, <2>4, <2>6 DEF LetThrough
  <2> QED BY <1>6, <2>7
<1> HIDE DEF NoToken, NoNotional, Passed, Done
<1>11. Done BY <1>5, <1>7, <1>9, <1>10
<1> QED BY <1>00, <1>11 DEF CheckedWith, Done

\* Before an order is counted, what the state says is used of its day covers what is kept,
\* unless the day was opened again.
LEMMA CoveredBefore ==
  ASSUME LimitInv, NEW now \in 0 .. second, NEW R, R = Refilled(stateForStrategy(now), now), NEW opens \in BOOLEAN,
         NEW d, d = IF opens THEN truncateToDay(now) ELSE R.day,
         NEW u, u = IF opens /\ R.day # truncateToDay(now) THEN 0 ELSE R.used,
         NEW again, again = IF opens THEN reopened \cup DaysReopened(R, now) ELSE reopened
  PROVE  /\ d \in Nat /\ u \in Nat
         /\ d \notin again => AmountsOf(KeptOf(d)) <= u + AmountsOf(StraysOf(d))
         /\ limiter.config.perDay > 0 /\ limitsSince < d * SecondsPerDay => u <= limiter.config.perDay
<1>1. /\ R.used = limiter.used
      /\ R.day = limiter.day \/ (~limiter.exists /\ R.day = truncateToDay(now)) BY RefillFacts
<1>2. /\ limiter.day \in Nat /\ limiter.used \in Nat /\ limiter.config.perDay \in Nat /\ now \in Nat
  BY AlgoAssumption DEF LimitInv, LimitTypes, LimiterStates
<1>3. truncateToDay(now) \in Nat BY <1>2, DaysFollowTheClock
<1>4. PICK n \in Nat : /\ DOMAIN reservations = 1 .. n
                       /\ \A j \in 1 .. n : reservations[j] \in ReservationRecords
  BY ReservationShapes DEF LimitInv
<1>5. /\ AmountsOf(KeptOf(d)) \in Nat /\ AmountsOf(StraysOf(d)) \in Nat
  BY AmountsAreNat DEF LimitInv, KeptOf, StraysOf
<1>6. CASE d = limiter.day /\ u = limiter.used BY <1>1, <1>2, <1>3, <1>6 DEF LimitInv, NotionalIsCovered
<1>7. CASE ~(d = limiter.day /\ u = limiter.used)
  <2>1. d \in Nat /\ u = 0 BY <1>1, <1>2, <1>3, <1>7 DEF LimitInv, LimitTypes
  <2>2. d \notin again => KeptOf(d) = {}
    <3>1. CASE ~limiter.exists BY <1>4, <3>1 DEF LimitInv, LimitTypes, KeptOf
    <3>2. ASSUME limiter.exists, d \notin again PROVE KeptOf(d) = {}
      <4>1. opens /\ d = truncateToDay(now) /\ R.day = limiter.day /\ R.day # d BY <1>1, <3>2, <1>7
      <4>2. limiter.day < d BY <4>1, <3>2, <1>2, <1>3 DEF DaysReopened
      <4>3. \A j \in 1 .. n : DayOf(j) \in Nat /\ DayOf(j) # d
        <5> TAKE j \in 1 .. n
        <5>1. reservations[j].at \in Nat BY <1>4 DEF ReservationRecords
        <5>2. truncateToDay(reservations[j].at) \in Nat BY <5>1, DaysFollowTheClock
        <5>3. DayOf(j) <= limiter.day \/ DayOf(j) \in reopened BY <1>4 DEF LimitInv, ReservationsAreOrdered
        <5> QED BY <5>2, <5>3, <4>1, <4>2, <3>2, <1>2, <1>3 DEF DayOf
      <4> QED BY <1>4, <4>3 DEF KeptOf
    <3> QED BY <3>1, <3>2
  <2>3. d \notin again => AmountsOf(KeptOf(d)) = 0 BY <2>2, SumOfNone DEF AmountsOf
  <2> QED BY <1>2, <1>3, <1>5, <2>1, <2>3
<1> QED BY <1>6, <1>7

\* A check keeps what is used over what is kept.
LEMMA CheckKeepsNotional == ASSUME LimitInv, CheckAndReserve PROVE NotionalIsCovered'
<1>0a. PICK now \in 0 .. second : \E R : CheckedWith(now, R) BY WhatACheck DEF CheckedWith
<1>0. PICK R : CheckedWith(now, R) BY <1>0a
<1>00. R = Refilled(stateForStrategy(now), now) BY <1>0 DEF CheckedWith
<1>1. UNCHANGED <<second, limitsSince>> /\ second \in Nat /\ now \in Nat /\ limiter.config.perDay \in Nat
  BY AlgoAssumption DEF CheckAndReserve, LimitInv, LimitTypes, LimiterStates
<1>2. R.config = limiter.config BY <1>00, RefillFacts
<1>3. PICK n \in Nat : /\ DOMAIN reservations = 1 .. n /\ IsFiniteSet(1 .. n) /\ Len(reservations) = n
                       /\ \A j \in 1 .. n : reservations[j] \in ReservationRecords
  BY ReservationShapes DEF LimitInv
<1>4. CASE UNCHANGED reservations /\ \E opens \in BOOLEAN : AfterCheck(limiter', R, now, opens, 0)
  <2>1. PICK opens \in BOOLEAN : AfterCheck(limiter', R, now, opens, 0) BY <1>4
  <2>2. PICK d, u : /\ d = IF opens THEN truncateToDay(now) ELSE R.day
                    /\ u = IF opens /\ R.day # truncateToDay(now) THEN 0 ELSE R.used OBVIOUS
  <2>3. /\ d \in Nat /\ u \in Nat /\ reopened' = IF opens THEN reopened \cup DaysReopened(R, now) ELSE reopened
        /\ d \notin reopened' => AmountsOf(KeptOf(d)) <= u + AmountsOf(StraysOf(d))
        /\ limiter.config.perDay > 0 /\ limitsSince < d * SecondsPerDay => u <= limiter.config.perDay
    BY <1>00, <2>1, <2>2, CoveredBefore DEF AfterCheck
  <2>4. limiter'.day = d /\ limiter'.used = u /\ limiter'.config = limiter.config
    BY <1>2, <2>1, <2>2, <2>3 DEF AfterCheck
  <2>5. /\ AmountsOf(KeptOf(limiter.day))' = AmountsOf(KeptOf(d))
        /\ AmountsOf(StraysOf(limiter.day))' = AmountsOf(StraysOf(d))
    BY <1>4, <2>4 DEF AmountsOf, KeptOf, StraysOf, DayOf, truncateToDay
  <2> QED BY <1>1, <2>3, <2>4, <2>5 DEF NotionalIsCovered
<1>5. CASE \E amount \in Nat : LetThrough(limiter', R, now, amount)
  <2>1. PICK amount \in Nat : LetThrough(limiter', R, now, amount) BY <1>5
  <2>2. PICK d, u : d = truncateToDay(now) /\ u = IF R.day # truncateToDay(now) THEN 0 ELSE R.used OBVIOUS
  <2>3. /\ d \in Nat /\ u \in Nat
        /\ d \notin reopened' => AmountsOf(KeptOf(d)) <= u + AmountsOf(StraysOf(d))
    BY <2>1, <2>2, <1>00, CoveredBefore DEF AfterCheck, LetThrough
  <2>4. /\ limiter'.day = d /\ limiter'.used = u + amount /\ limiter'.config = limiter.config
        /\ limiter.config.perDay > 0 => limiter'.used <= limiter.config.perDay
    BY <1>2, <2>1, <2>2 DEF AfterCheck, LetThrough
  <2>5. PICK x : x = [amount |-> amount, at |-> now, made |-> second, back |-> -1, after |-> 0] OBVIOUS
  <2>6. x \in ReservationRecords /\ x.amount = amount /\ x.at = now /\ x.back = -1
    BY <1>1, <2>5 DEF ReservationRecords
  <2>7. reservations' = Append(reservations, x) BY <2>1, <2>5 DEF LetThrough
  <2>8. /\ DOMAIN reservations' = 1 .. n \cup {n + 1} /\ n + 1 \notin 1 .. n
        /\ reservations'[n + 1] = x /\ \A j \in 1 .. n : reservations'[j] = reservations[j]
    BY <1>3, <2>6, <2>7, OneMoreReservation DEF LimitInv
  <2> DEFINE f == [j \in DOMAIN reservations |-> reservations[j].amount]
             g == [j \in DOMAIN reservations' |-> reservations'[j].amount]
             K == KeptOf(d)
             S == StraysOf(d)
  <2>9. KeptOf(limiter.day)' = K \cup {n + 1}
    BY <1>1, <1>3, <2>2, <2>4, <2>6, <2>8 DEF KeptOf, DayOf, truncateToDay
  <2>10. StraysOf(limiter.day)' = S BY <1>1, <1>3, <2>2, <2>4, <2>6, <2>8 DEF StraysOf, DayOf, truncateToDay
  <2>11. K \subseteq 1 .. n /\ S \subseteq 1 .. n BY <1>3 DEF KeptOf, StraysOf
  <2>12. IsFiniteSet(K) /\ IsFiniteSet(S)
    <3> HIDE DEF K, S
    <3> QED BY <1>3, <2>11, FS_Subset
  <2>13. \A j \in 1 .. n : g[j] = f[j] /\ f[j] \in Int BY <1>3, <2>8 DEF ReservationRecords
  <2>14. g[n + 1] = amount BY <2>6, <2>8
  <2>15. /\ AmountsOf(KeptOf(limiter.day))' = SumFunctionOnSet(g, K \cup {n + 1})
         /\ AmountsOf(StraysOf(limiter.day))' = SumFunctionOnSet(g, S)
         /\ AmountsOf(K) = SumFunctionOnSet(f, K) /\ AmountsOf(S) = SumFunctionOnSet(f, S)
    BY <2>9, <2>10 DEF AmountsOf
  <2> HIDE DEF f, g, K, S
  <2>16. SumFunctionOnSet(g, K) = SumFunctionOnSet(f, K) /\ SumFunctionOnSet(g, S) = SumFunctionOnSet(f, S)
    BY <2>11, <2>12, <2>13, SumSame
  <2>17. n + 1 \notin K /\ IntOn(g, K) /\ IntOn(f, K) /\ IntOn(f, S) BY <2>8, <2>11, <2>13 DEF IntOn
  <2>18. PICK k \in Int, s \in Int : k = SumFunctionOnSet(f, K) /\ s = SumFunctionOnSet(f, S)
    BY <2>12, <2>17, SumIsInt
  <2>19. SumFunctionOnSet(g, K \cup {n + 1}) = k + amount
    <3>1. g[n + 1] \in Int BY <2>14
    <3>2. PICK m : m = n + 1 OBVIOUS
    <3>3. m \notin K /\ g[m] \in Int BY <3>1, <3>2, <2>17
    <3>4. SumFunctionOnSet(g, K \cup {m}) = SumFunctionOnSet(g, K) + g[m] BY <3>3, <2>12, <2>17, SumWith
    <3> QED BY <3>2, <3>4, <2>14, <2>16, <2>18
  <2>20. d \notin reopened' => k <= u + s BY <2>3, <2>15, <2>18 DEF K, S
  <2>21. d \notin reopened' => k + amount <= (u + amount) + s BY <2>3, <2>18, <2>20
  <2> QED BY <1>1, <2>4, <2>15, <2>16, <2>18, <2>19, <2>21 DEF NotionalIsCovered
<1> QED BY <1>0, <1>4, <1>5 DEF CheckedWith

\* A check keeps the count of tokens: the bucket takes in what flowed since it was last
\* filled, and an order that is let through takes out a token.
LEMMA CheckKeepsTokens == ASSUME LimitInv, CheckAndReserve PROVE TokensAreCounted'
<1>0a. PICK now \in 0 .. second : \E R : CheckedWith(now, R) BY WhatACheck DEF CheckedWith
<1>0. PICK R : CheckedWith(now, R) BY <1>0a
<1>00. R = Refilled(stateForStrategy(now), now) BY <1>0 DEF CheckedWith
<1>1. /\ UNCHANGED <<second, limitsSince>> /\ second \in Nat /\ now \in Nat /\ limiter.config.rate \in Nat
      /\ limiter.refilled \in Nat /\ limiter.tokens \in Nat /\ limitsSince \in Int
  BY AlgoAssumption DEF CheckAndReserve, LimitInv, LimitTypes, LimiterStates
<1>2. R.config = limiter.config /\ R.tokens \in Nat /\ R.refilled \in Nat
  BY <1>00, RefillFacts DEF LimiterStates
<1>3. PICK n \in Nat : /\ DOMAIN reservations = 1 .. n /\ IsFiniteSet(1 .. n) /\ Len(reservations) = n
                       /\ \A j \in 1 .. n : reservations[j] \in ReservationRecords
  BY ReservationShapes DEF LimitInv
<1>4. PICK C \in Nat, T \in Nat \ {0}, r \in Nat : C = bucketCapacity(limiter.config) /\ T = TokenUnits /\ r = limiter.config.rate
  BY <1>1, AlgoAssumption DEF bucketCapacity
<1>5. /\ limiter'.config = limiter.config /\ limiter'.refilled = R.refilled /\ limiter'.tokens \in Nat
      /\ limiter'.tokens <= R.tokens BY <1>0, <1>2 DEF CheckedWith, AfterCheck, LetThrough, LimiterStates
<1>6. CASE r = 0 BY <1>4, <1>5, <1>6 DEF TokensAreCounted
<1>7. CASE r > 0
  <2>0. PICK f \in Nat : f = R.refilled BY <1>2
  <2>1. /\ f >= now
        /\ f > limitsSince => R.tokens <= C
        /\ limiter.exists => f >= limiter.refilled /\ R.tokens <= limiter.tokens + (f - limiter.refilled) * r
    BY <1>00, <1>2, <1>4, <1>7, <2>0, RefillFacts
  <2>2. limiter'.refilled > limitsSince' => limiter'.tokens <= C BY <1>1, <1>2, <1>4, <1>5, <2>0, <2>1
  <2>3. ASSUME NEW i \in 1 .. n, reservations[i].at > limitsSince
        PROVE  /\ reservations[i].at <= f /\ f > limitsSince
               /\ (n - i + 1) * T + R.tokens + r * reservations[i].at
                     <= C + r * f + Cardinality(BackAfter(i)) * T
    <3>1. reservations[i].at \in Nat BY <1>3 DEF ReservationRecords
    <3>2. limiter.exists BY <1>3, <2>3 DEF LimitInv, LimitTypes
    <3>3. /\ reservations[i].at <= limiter.refilled
          /\ (n - i + 1) * T + limiter.tokens + r * reservations[i].at
                <= C + r * limiter.refilled + Cardinality(BackAfter(i)) * T
      BY <1>3, <1>4, <1>7, <2>3 DEF LimitInv, TokensAreCounted
    <3>4. Cardinality(BackAfter(i)) \in Nat BY <1>3, FS_Subset, FS_CardinalityType DEF BackAfter
    <3>5. (f - limiter.refilled) * r = r * f - r * limiter.refilled BY <1>1
    <3>6. PICK x \in Int, y \in Int, z \in Int, w \in Int, s \in Int :
             /\ x = (n - i + 1) * T /\ y = r * reservations[i].at /\ z = r * limiter.refilled
             /\ w = Cardinality(BackAfter(i)) * T /\ s = r * f
      <4>1. PICK b \in Nat : b = Cardinality(BackAfter(i)) BY <3>4
      <4> QED BY <1>1, <3>1, <4>1
    <3>7. x + limiter.tokens + y <= C + z + w /\ R.tokens <= limiter.tokens + (s - z)
      BY <2>1, <3>2, <3>3, <3>5, <3>6
    <3>8. x + R.tokens + y <= C + s + w BY <1>1, <1>2, <3>7
    <3> QED BY <1>1, <2>1, <2>3, <3>1, <3>2, <3>3, <3>6, <3>8
  <2>4. CASE UNCHANGED reservations
    <3>1. ASSUME NEW i \in 1 .. n, reservations[i].at > limitsSince
          PROVE  /\ reservations[i].at <= f
                 /\ (n - i + 1) * T + limiter'.tokens + r * reservations[i].at
                       <= C + r * f + Cardinality(BackAfter(i)) * T
      <4>1. /\ reservations[i].at <= f
            /\ (n - i + 1) * T + R.tokens + r * reservations[i].at
                     <= C + r * f + Cardinality(BackAfter(i)) * T BY <2>3, <3>1
      <4>2. reservations[i].at \in Nat BY <1>3 DEF ReservationRecords
      <4>3. Cardinality(BackAfter(i)) \in Nat BY <1>3, FS_Subset, FS_CardinalityType DEF BackAfter
      <4>4. PICK x \in Int, y \in Int, s \in Int :
               /\ x = (n - i + 1) * T /\ y = r * reservations[i].at
               /\ s = C + r * f + Cardinality(BackAfter(i)) * T BY <1>1, <4>2, <4>3
      <4>5. x + R.tokens + y <= s BY <4>1, <4>4
      <4>6. x + limiter'.tokens + y <= s BY <1>2, <1>5, <4>5
      <4> QED BY <4>1, <4>4, <4>6
    <3>3. \A i \in 1 .. n : BackAfter(i)' = BackAfter(i) BY <2>4 DEF BackAfter
    <3> QED BY <1>1, <1>3, <1>4, <1>5, <2>0, <2>1, <2>2, <2>4, <3>1, <3>3 DEF TokensAreCounted
  <2>5. CASE \E amount \in Nat : LetThrough(limiter', R, now, amount)
    <3>1. PICK amount \in Nat : LetThrough(limiter', R, now, amount) BY <2>5
    <3>2. PICK x : x = [amount |-> amount, at |-> now, made |-> second, back |-> -1, after |-> 0] OBVIOUS
    <3>3. x \in ReservationRecords /\ x.at = now /\ x.after = 0 BY <1>1, <3>2 DEF ReservationRecords
    <3>4. reservations' = Append(reservations, x) BY <3>1, <3>2 DEF LetThrough
    <3>5. /\ DOMAIN reservations' = 1 .. n \cup {n + 1} /\ Len(reservations') = n + 1 /\ n + 1 \notin 1 .. n
          /\ reservations'[n + 1] = x /\ \A j \in 1 .. n : reservations'[j] = reservations[j]
      BY <1>3, <3>3, <3>4, OneMoreReservation DEF LimitInv
    <3>6. limiter'.tokens = R.tokens - T BY <1>2, <1>4, <1>7, <3>1 DEF LetThrough
    <3>7. ASSUME NEW i \in 1 .. n PROVE BackAfter(i)' = BackAfter(i)
      <4>1. reservations[i].at \in Nat BY <1>3 DEF ReservationRecords
      <4> QED BY <1>3, <3>3, <3>5, <4>1 DEF BackAfter
    <3>8. ASSUME NEW i \in 1 .. n, reservations[i].at > limitsSince
          PROVE  /\ reservations[i].at <= f
                 /\ (n + 1 - i + 1) * T + limiter'.tokens + r * reservations[i].at
                       <= C + r * f + Cardinality(BackAfter(i)) * T
      <4>1. /\ reservations[i].at <= f
            /\ (n - i + 1) * T + R.tokens + r * reservations[i].at
                     <= C + r * f + Cardinality(BackAfter(i)) * T BY <2>3, <3>8
      <4>4. reservations[i].at \in Nat BY <1>3 DEF ReservationRecords
      <4>2. PICK m \in Int, y \in Int : m = n - i + 1 /\ y = r * reservations[i].at BY <4>4
      <4>3. (m + 1) * T = m * T + T /\ n + 1 - i + 1 = m + 1 BY <4>2
      <4>6. PICK z \in Int : z = m * T OBVIOUS
      <4>7. (m + 1) * T + limiter'.tokens + y = z + R.tokens + y BY <1>2, <3>6, <4>3, <4>6
      <4> QED BY <4>1, <4>2, <4>3, <4>6, <4>7
    <3>9. now > limitsSince =>
             (n + 1 - (n + 1) + 1) * T + limiter'.tokens + r * now
                <= C + r * f + Cardinality(BackAfter(n + 1)') * T
      <4>1. BackAfter(n + 1)' \subseteq 1 .. n + 1 BY <3>5 DEF BackAfter
      <4>2. Cardinality(BackAfter(n + 1)') \in Nat
        <5>1. IsFiniteSet(1 .. n + 1) BY FS_Interval
        <5> QED BY <4>1, <5>1, FS_Subset, FS_CardinalityType
      <4>3. PICK b \in Nat, s \in Int, q \in Int : b = Cardinality(BackAfter(n + 1)') * T /\ s = r * f /\ q = r * now
        BY <1>1, <4>2
      <4>4. (n + 1 - (n + 1) + 1) * T = T OBVIOUS
      <4>5. r * now <= r * f BY <1>1, <2>1
      <4>6. now > limitsSince => T + (R.tokens - T) + q <= C + s + b BY <1>1, <1>2, <2>1, <4>3, <4>5
      <4> QED BY <3>6, <4>3, <4>4, <4>6
    <3>10. reservations'[n + 1].at = now BY <3>3, <3>5
    <3>11. \A i \in 1 .. n \cup {n + 1} : reservations'[i].at > limitsSince =>
              /\ reservations'[i].at <= f
              /\ (n + 1 - i + 1) * T + limiter'.tokens + r * reservations'[i].at
                    <= C + r * f + Cardinality(BackAfter(i)') * T
      <4> SUFFICES ASSUME NEW i \in 1 .. n \cup {n + 1}, reservations'[i].at > limitsSince
                   PROVE  /\ reservations'[i].at <= f
                          /\ (n + 1 - i + 1) * T + limiter'.tokens + r * reservations'[i].at
                                <= C + r * f + Cardinality(BackAfter(i)') * T OBVIOUS
      <4>1. CASE i \in 1 .. n BY <3>5, <3>7, <3>8, <4>1
      <4>2. CASE i = n + 1 BY <1>1, <2>1, <3>9, <3>10, <4>2
      <4> QED BY <4>1, <4>2
    <3>12. /\ limiter'.config.rate = r /\ bucketCapacity(limiter.config)' = C /\ limiter'.refilled = f
           /\ limitsSince' = limitsSince /\ TokenUnits = T /\ DOMAIN reservations' = 1 .. n \cup {n + 1}
           /\ Len(reservations') = n + 1 BY <1>1, <1>4, <1>5, <2>0, <3>5 DEF bucketCapacity
    <3>13. limiter'.exists /\ limiter'.refilled > limitsSince' => limiter'.tokens <= C BY <2>2
    <3>14. ASSUME NEW i \in DOMAIN reservations', reservations'[i].at > limitsSince'
           PROVE  /\ reservations'[i].at <= limiter'.refilled
                  /\ (Len(reservations') - i + 1) * TokenUnits + limiter'.tokens + limiter'.config.rate * reservations'[i].at
                        <= bucketCapacity(limiter.config)' + limiter'.config.rate * limiter'.refilled
                             + Cardinality(BackAfter(i)') * TokenUnits
      <4>1. i \in 1 .. n \cup {n + 1} /\ reservations'[i].at > limitsSince BY <3>12, <3>14
      <4>2. PICK B : B = Cardinality(BackAfter(i)') OBVIOUS
      <4>3. /\ reservations'[i].at <= f
            /\ (n + 1 - i + 1) * T + limiter'.tokens + r * reservations'[i].at <= C + r * f + B * T
        BY <3>11, <4>1, <4>2
      <4> HIDE <3>11, <3>14
      <4> QED BY <3>12, <4>2, <4>3
    <3> HIDE <3>11
    <3> QED BY <3>12, <3>13, <3>14 DEF TokensAreCounted
  <2> QED BY <1>0, <2>4, <2>5 DEF CheckedWith
<1> QED BY <1>6, <1>7

\* A check keeps the invariant.
LEMMA CheckKeepsInv == ASSUME LimitInv, CheckAndReserve PROVE LimitInv'
<1>0a. PICK now \in 0 .. second : \E R : CheckedWith(now, R) BY WhatACheck DEF CheckedWith
<1>0. PICK R : CheckedWith(now, R) BY <1>0a
<1>1. R = Refilled(stateForStrategy(now), now) BY <1>0 DEF CheckedWith
<1>2. UNCHANGED <<second, limitsSince>> /\ second \in Nat /\ now \in Nat /\ now <= second /\ limitsSince \in Int /\ limitsSince <= second
  BY DEF CheckAndReserve, LimitInv, LimitTypes
<1>3. /\ R \in LimiterStates /\ R.refilled <= second /\ R.day <= truncateToDay(second) /\ R.day \in Nat
      /\ R.day = limiter.day \/ (~limiter.exists /\ R.day = truncateToDay(now))
  BY <1>1, RefillFacts DEF LimiterStates
<1>4. /\ truncateToDay(second) \in Nat /\ truncateToDay(now) \in Nat /\ limiter.day \in Nat
      /\ limiter.day <= truncateToDay(second) /\ truncateToDay(now) <= truncateToDay(second)
  BY <1>2, DaysFollowTheClock DEF LimitInv, LimitTypes, LimiterStates
<1>5. /\ limiter' \in LimiterStates /\ limiter'.exists /\ limiter'.refilled = R.refilled
      /\ \/ limiter'.day = R.day /\ reopened' = reopened
         \/ limiter'.day = truncateToDay(now) /\ reopened' = reopened \cup DaysReopened(R, now)
  BY <1>0 DEF CheckedWith, AfterCheck, LetThrough
<1>6. limiter'.day \in Nat /\ limiter'.day <= truncateToDay(second) BY <1>3, <1>4, <1>5
<1>7. PICK n \in Nat : /\ DOMAIN reservations = 1 .. n /\ Len(reservations) = n
                       /\ \A i \in 1 .. n : reservations[i] \in ReservationRecords
  BY ReservationShapes DEF LimitInv
<1>8. ASSUME NEW i \in 1 .. n
      PROVE  /\ reservations[i].at \in Nat /\ reservations[i].back \in Int /\ DayOf(i) \in Nat
             /\ reservations[i].at <= reservations[i].made /\ reservations[i].made <= second
             /\ reservations[i].back <= second /\ (reservations[i].back = -1 => reservations[i].after = 0)
             /\ DayOf(i) <= limiter'.day \/ DayOf(i) \in reopened'
  <2>1. reservations[i].at \in Nat /\ reservations[i].back \in Int BY <1>7 DEF ReservationRecords
  <2>2. DayOf(i) \in Nat BY <2>1, DaysFollowTheClock DEF DayOf
  <2>3. /\ reservations[i].at <= reservations[i].made /\ reservations[i].made <= second
        /\ reservations[i].back <= second /\ (reservations[i].back = -1 => reservations[i].after = 0)
        /\ DayOf(i) <= limiter.day \/ DayOf(i) \in reopened BY <1>7 DEF LimitInv, ReservationsAreOrdered
  <2>4. DayOf(i) <= limiter'.day \/ DayOf(i) \in reopened'
    <3>1. CASE DayOf(i) \in reopened BY <1>5, <3>1
    <3>2. CASE DayOf(i) <= limiter.day
      <4>1. limiter.exists BY <1>7 DEF LimitInv, LimitTypes
      <4>2. R.day = limiter.day BY <1>3, <4>1
      <4>3. CASE truncateToDay(now) < R.day BY <1>4, <1>5, <2>2, <3>2, <4>2, <4>3 DEF DaysReopened
      <4>4. CASE ~(truncateToDay(now) < R.day) BY <1>3, <1>4, <1>5, <2>2, <3>2, <4>2, <4>4
      <4> QED BY <4>3, <4>4
    <3> QED BY <2>3, <3>1, <3>2
  <2> QED BY <2>1, <2>2, <2>3, <2>4
<1> HIDE DEF LimiterStates
<1>9. CASE UNCHANGED reservations
  BY <1>2, <1>3, <1>5, <1>6, <1>9, <1>7, <1>8, CheckKeepsNotional, CheckKeepsTokens DEF LimitInv,
     LimitTypes, truncateToDay, ReservationsAreOrdered, DayOf
<1>10. CASE \E amount \in Nat : LetThrough(limiter', R, now, amount)
  <2>1. PICK amount \in Nat : LetThrough(limiter', R, now, amount) BY <1>10
  <2>2. PICK x : x = [amount |-> amount, at |-> now, made |-> second, back |-> -1, after |-> 0] OBVIOUS
  <2>3. x \in ReservationRecords /\ x.at = now /\ x.made = second /\ x.back = -1 /\ x.after = 0
    BY <1>2, <2>2 DEF ReservationRecords
  <2>4. reservations' = Append(reservations, x) BY <2>1, <2>2 DEF LetThrough
  <2>5. /\ reservations' \in Seq(ReservationRecords) /\ DOMAIN reservations' = 1 .. n \cup {n + 1}
        /\ reservations'[n + 1] = x /\ \A j \in 1 .. n : reservations'[j] = reservations[j]
    BY <1>7, <2>3, <2>4, OneMoreReservation DEF LimitInv
  <2>6. limiter'.day = truncateToDay(now) BY <2>1 DEF LetThrough, AfterCheck
  <2>7. LimitTypes'
    <3> HIDE DEF ReservationRecords
    <3> QED BY <1>2, <1>3, <1>5, <1>6, <2>5 DEF LimitInv, LimitTypes, truncateToDay
  <2>8. ASSUME NEW i \in DOMAIN reservations'
        PROVE  /\ reservations'[i].at <= reservations'[i].made /\ reservations'[i].made <= second'
               /\ reservations'[i].back <= second' /\ (reservations'[i].back = -1 => reservations'[i].after = 0)
               /\ DayOf(i)' <= limiter'.day \/ DayOf(i)' \in reopened'
    <3>1. CASE i \in 1 .. n BY <1>2, <1>8, <2>5, <3>1 DEF DayOf, truncateToDay
    <3>2. CASE i = n + 1 BY <1>2, <1>4, <2>3, <2>5, <2>6, <3>2 DEF DayOf, truncateToDay
    <3> QED BY <2>5, <3>1, <3>2
  <2>9. ReservationsAreOrdered' BY <2>8 DEF ReservationsAreOrdered
  <2> QED BY <2>7, <2>9, CheckKeepsNotional, CheckKeepsTokens DEF LimitInv
<1> QED BY <1>0, <1>9, <1>10 DEF CheckedWith

\* A strategy starts with no reservation.
LEMMA LimitsStart == ASSUME AlgoInit PROVE LimitInv
<1>1. /\ second = 0 /\ reservations = <<>> /\ limitsSince = -1
      /\ \E config \in LimitConfigs :
            limiter = [config |-> config, exists |-> FALSE, tokens |-> 0, refilled |-> 0, day |-> 0, used |-> 0]
  BY DEF AlgoInit
<1>2. /\ limiter \in LimiterStates /\ limiter.refilled = 0 /\ limiter.day = 0 /\ limiter.used = 0
      /\ ~limiter.exists /\ limiter.tokens = 0 /\ limiter.config.perDay \in Nat
  BY <1>1, AlgoAssumption DEF LimiterStates
<1>3. truncateToDay(second) \in Nat BY <1>1, DaysFollowTheClock
<1>4. LimitTypes BY <1>1, <1>2, <1>3 DEF LimitTypes
<1>5. KeptOf(limiter.day) = {} /\ StraysOf(limiter.day) = {} BY <1>1 DEF KeptOf, StraysOf
<1>6. AmountsOf({}) = 0 BY SumOfNone DEF AmountsOf
<1>7. ReservationsAreOrdered /\ TokensAreCounted BY <1>1, <1>2 DEF ReservationsAreOrdered, TokensAreCounted
<1>8. NotionalIsCovered BY <1>5, <1>6, <1>2 DEF NotionalIsCovered
<1> QED BY <1>4, <1>7, <1>8 DEF LimitInv

\* The invariant is what the limits promise.
LEMMA InvKeepsTheLimits == ASSUME LimitInv PROVE StrategiesStayInTheirLimits
<1> DEFINE kept == {i \in DOMAIN reservations : reservations[i].back = -1}
           D == truncateToDay(second)
           config == limiter.config
<1>1. PICK n \in Nat : /\ DOMAIN reservations = 1 .. n /\ Len(reservations) = n /\ IsFiniteSet(1 .. n)
                       /\ \A i \in 1 .. n : reservations[i] \in ReservationRecords
  BY ReservationShapes DEF LimitInv
<1>2. /\ second \in Nat /\ limiter.exists \in BOOLEAN /\ limiter.used \in Nat /\ limiter.day \in Nat
      /\ limiter.tokens \in Nat /\ limiter.refilled \in Nat /\ limiter.refilled <= second
      /\ config.rate \in Nat /\ config.perDay \in Nat /\ limitsSince \in Int /\ limiter.day <= D
  BY AlgoAssumption DEF LimitInv, LimitTypes, LimiterStates
<1>3. D \in Nat BY <1>2, DaysFollowTheClock
<1>4. {i \in kept : truncateToDay(reservations[i].at) = D} = KeptOf(D) BY DEF KeptOf, DayOf
<1>5. {i \in DOMAIN reservations \ kept :
          truncateToDay(reservations[i].back) = D /\ truncateToDay(reservations[i].at) < D} = StraysOf(D)
  BY DEF StraysOf, DayOf
<1>6. ASSUME D \notin reopened PROVE AmountsOf(KeptOf(D)) <= NotionalUsedToday + AmountsOf(StraysOf(D))
  <2>1. AmountsOf(StraysOf(D)) \in Nat BY AmountsAreNat DEF LimitInv, StraysOf
  <2>2. CASE limiter.exists /\ D = limiter.day
    BY <1>6, <2>2 DEF LimitInv, NotionalIsCovered, NotionalUsedToday
  <2>3. CASE ~(limiter.exists /\ D = limiter.day)
    <3>1. KeptOf(D) = {}
      <4>1. CASE ~limiter.exists BY <1>1, <4>1 DEF LimitInv, LimitTypes, KeptOf
      <4>2. CASE limiter.exists
        <5>1. limiter.day < D BY <1>2, <1>3, <2>3, <4>2
        <5>2. ASSUME NEW i \in 1 .. n PROVE DayOf(i) \in Nat /\ (DayOf(i) <= limiter.day \/ DayOf(i) \in reopened)
          <6>1. reservations[i].at \in Nat BY <1>1 DEF ReservationRecords
          <6>2. truncateToDay(reservations[i].at) \in Nat BY <6>1, DaysFollowTheClock
          <6> QED BY <6>2, <1>1 DEF LimitInv, ReservationsAreOrdered, DayOf
        <5> HIDE DEF D
        <5> QED BY <1>1, <1>2, <1>3, <1>6, <5>1, <5>2 DEF KeptOf
      <4> QED BY <1>2, <4>1, <4>2
    <3>2. AmountsOf(KeptOf(D)) = 0 BY <3>1, SumOfNone DEF AmountsOf
    <3>3. NotionalUsedToday = 0 BY <2>3 DEF NotionalUsedToday
    <3> QED BY <2>1, <3>2, <3>3
  <2> QED BY <2>2, <2>3
<1>7. config.perDay > 0 /\ limitsSince < D * SecondsPerDay => NotionalUsedToday <= config.perDay
  BY <1>2 DEF LimitInv, NotionalIsCovered, NotionalUsedToday
<1>8. ASSUME config.rate > 0, NEW i \in DOMAIN reservations, reservations[i].at > limitsSince
      PROVE  (Len(reservations) - i + 1) * TokenUnits
                <= bucketCapacity(config) + config.rate * (second - reservations[i].at)
                      + Cardinality(BackAfter(i)) * TokenUnits
  <2>1. PICK t \in Nat : t = reservations[i].at /\ i \in 1 .. n BY <1>1, <1>8 DEF ReservationRecords
  <2>4. PICK T \in Nat, C \in Nat, r \in Nat : T = TokenUnits /\ C = bucketCapacity(config) /\ r = config.rate
    BY <1>2, AlgoAssumption DEF bucketCapacity
  <2>5. PICK b \in Nat : b = Cardinality(BackAfter(i))
    <3>1. BackAfter(i) \subseteq 1 .. n BY <1>1 DEF BackAfter
    <3> QED BY <1>1, <3>1, FS_Subset, FS_CardinalityType
  <2>6. t <= limiter.refilled /\ (n - i + 1) * T + limiter.tokens + r * t <= C + r * limiter.refilled + b * T
    BY <1>1, <1>8, <2>1, <2>4, <2>5 DEF LimitInv, TokensAreCounted
  <2>7. r * limiter.refilled <= r * second /\ r * (second - t) = r * second - r * t BY <1>2
  <2>8. PICK x \in Int, y \in Int, z \in Int, w \in Int, s \in Int :
           x = (n - i + 1) * T /\ y = r * t /\ z = r * limiter.refilled /\ w = b * T /\ s = r * second
    BY <1>2, <2>1
  <2>9. x + limiter.tokens + y <= C + z + w /\ z <= s BY <2>6, <2>7, <2>8
  <2>10. x <= C + (s - y) + w BY <1>2, <2>9
  <2>11. (n - i + 1) * T <= C + r * (second - t) + b * T BY <2>7, <2>8, <2>10
  <2> QED BY <1>1, <2>1, <2>4, <2>5, <2>11
<1> HIDE DEF D, kept
<1> QED BY <1>4, <1>5, <1>6, <1>7, <1>8 DEF StrategiesStayInTheirLimits, D, kept, BackAfter

\* Nothing but the limiter's own steps touches what the limits are about.
LEMMA LimitInvStutters == ASSUME LimitInv, UNCHANGED limiterVars PROVE LimitInv'
BY DEF LimitInv, limiterVars, LimitTypes, ReservationsAreOrdered, NotionalIsCovered, TokensAreCounted, KeptOf,
       StraysOf, BackAfter, AmountsOf, DayOf, truncateToDay, bucketCapacity

\* A step of the limiter keeps the invariant.
LEMMA LimiterKeepsInv == ASSUME LimitInv, LimiterNext PROVE LimitInv'
BY ClockAndLimitsKeepInv, CheckKeepsInv, ReleaseKeepsInv DEF LimiterNext

--------------------
(* Participation in the volume.                                            *)

PovStates == [parent : Nat, remaining : Nat, rate : Nat, clip : Nat, last : Nat \cup {-1}, slices : Seq(Nat)]

PovInv ==
  /\ pov \in PovStates /\ volumes \in Seq(Nat)
  /\ SumFunction(pov.slices) \in Nat /\ SumFunction(pov.slices) + pov.remaining = pov.parent
  /\ \A i \in DOMAIN pov.slices : pov.slices[i] <= pov.clip
  /\ pov = NoPov => volumes = <<>>
  /\ volumes = <<>> => pov.last = -1 /\ SumFunction(pov.slices) = 0
  /\ volumes # <<>> =>
        /\ pov.last = volumes[Len(volumes)]
        /\ 100 * SumFunction(pov.slices) <= pov.rate * (volumes[Len(volumes)] - volumes[1])

\* A number appended to a sequence is added to its sum.
LEMMA SumOfAppended ==
  ASSUME NEW s \in Seq(Nat), NEW x \in Nat
  PROVE  SumFunction(Append(s, x)) = SumFunction(s) + x /\ SumFunction(s) \in Nat
<1> DEFINE t == Append(s, x)
           n == Len(s) + 1
           D == 1 .. Len(s)
<1>1. /\ t \in Seq(Nat) /\ DOMAIN t = D \cup {n} /\ n \notin D /\ t[n] = x
      /\ \A k \in D : t[k] = s[k] /\ t[k] \in Nat
      /\ DOMAIN s = D /\ IsFiniteSet(D)
  <2>1. t \in Seq(Nat) /\ Len(t) = n /\ t[n] = x /\ \A k \in D : t[k] = s[k] /\ s[k] \in Nat
    BY AppendProperties
  <2>2. DOMAIN t = 1 .. n /\ 1 .. n = D \cup {n} /\ n \notin D BY <2>1
  <2>3. DOMAIN s = D /\ IsFiniteSet(D) BY FS_Interval
  <2> HIDE DEF t, D
  <2>4. DOMAIN t = D \cup {n} BY <2>2
  <2> QED BY <2>1, <2>2, <2>3, <2>4
<1> HIDE DEF t, n, D
<1>2. IntOn(t, D) /\ NatOn(t, D) /\ t[n] \in Int BY <1>1 DEF IntOn, NatOn
<1>3. /\ IsFiniteSet(D \cup {n}) /\ IntOn(t, D \cup {n})
      /\ SumFunctionOnSet(t, D \cup {n}) = SumFunctionOnSet(t, D) + t[n]
  <2>1. IsFiniteSet(D) /\ n \notin D /\ IntOn(t, D) /\ t[n] \in Int BY <1>1, <1>2
  <2> QED BY <2>1, SumWith
<1>4. SumFunction(t) = SumFunctionOnSet(t, D \cup {n}) BY <1>1, <1>3, SumOfFunction
<1>5. SumFunction(s) = SumFunctionOnSet(t, D) BY <1>1, <1>2, SumOfFunction
<1>6. SumFunctionOnSet(t, D) \in Nat BY <1>1, <1>2, SumAtLeastPart
<1> QED BY <1>1, <1>3, <1>4, <1>5, <1>6 DEF t

\* No numbers add up to nothing.
LEMMA SumOfNoSequence == SumFunction(<<>>) = 0
<1> DEFINE zero == [x \in {} |-> 0]
<1>1. SumFunctionOnSet(zero, {}) = 0 /\ IntOn(zero, {}) /\ IsFiniteSet({}) BY SumOfNone, FS_EmptySet DEF IntOn
<1>2. DOMAIN <<>> = {} OBVIOUS
<1> HIDE DEF zero
<1>3. SumFunction(<<>>) = SumFunctionOnSet(zero, {}) BY <1>1, <1>2, SumOfFunction
<1> QED BY <1>1, <1>3

\* An order to participate has traded nothing yet.
LEMMA PovCreatedKeepsInv == ASSUME PovInv, CreatePov PROVE PovInv'
<1>1. PICK total \in ParentQuantities, config \in PovConfigs :
          pov' = [NoPov EXCEPT !.parent = total, !.remaining = total, !.rate = config.rate, !.clip = config.clip]
  BY DEF CreatePov
<1>2. /\ volumes' = <<>> /\ total \in Nat \ {0} /\ config.rate \in Nat \ {0} /\ config.clip \in Nat \ {0}
      /\ volumes = <<>> BY AlgoAssumption DEF CreatePov, PovInv
<1>3. /\ pov' = [parent |-> total, remaining |-> total, rate |-> config.rate, clip |-> config.clip,
                 last |-> -1, slices |-> <<>>] BY <1>1 DEF NoPov
<1>4. pov' \in PovStates /\ pov'.slices = <<>> /\ pov'.last = -1 /\ pov'.remaining = pov'.parent /\ pov' # NoPov
  BY <1>2, <1>3 DEF PovStates, NoPov
<1>5. SumFunction(pov'.slices) = 0 /\ pov'.parent \in Nat BY <1>2, <1>3, <1>4, SumOfNoSequence
<1> QED BY <1>2, <1>4, <1>5 DEF PovInv

\* An observation releases no more than its share of what it adds, the clip and the rest.
LEMMA ObservationKeepsInv == ASSUME PovInv, OnVolumeObservation PROVE PovInv'
<1> DEFINE raw(volume) == IF pov.last = -1 THEN 0 ELSE ((volume - pov.last) * pov.rate) \div 100
           share(volume) == Capped(Capped(raw(volume), pov.clip), pov.remaining)
<1>1. PICK volume \in Volumes :
          /\ volume >= pov.last /\ volumes' = Append(volumes, volume)
          /\ pov' = [pov EXCEPT !.last = volume, !.remaining = @ - share(volume),
                        !.slices = IF share(volume) = 0 THEN @ ELSE Append(@, share(volume))]
  BY Zenon DEF OnVolumeObservation
<1>2. /\ pov \in PovStates /\ volumes \in Seq(Nat) /\ volume \in Nat /\ SumFunction(pov.slices) \in Nat
  BY AlgoAssumption DEF PovInv
<1>3. PICK rate \in Nat, clip \in Nat, rest \in Nat, last \in Nat \cup {-1}, gone \in Nat :
          /\ rate = pov.rate /\ clip = pov.clip /\ rest = pov.remaining /\ last = pov.last
          /\ gone = SumFunction(pov.slices) BY <1>2 DEF PovStates
<1>4. PICK more \in Nat : more = IF last = -1 THEN 0 ELSE (volume - last) * rate
  <2>1. CASE last = -1 BY <2>1
  <2>2. CASE last # -1 BY <1>1, <1>2, <1>3, <2>2
  <2> QED BY <2>1, <2>2
<1>5. PICK r \in Nat : r = raw(volume) /\ 100 * r <= more
  <2>1. CASE last = -1 BY <1>3, <1>4, <2>1
  <2>2. CASE last # -1 BY <1>3, <1>4, <2>2
  <2> QED BY <2>1, <2>2
<1>6. PICK x \in Nat : x = share(volume) /\ x <= r /\ x <= clip /\ x <= rest
  <2>1. share(volume) = Capped(Capped(r, clip), rest) BY <1>3, <1>5
  <2>2. \A m, n \in Nat : Capped(m, n) \in Nat /\ Capped(m, n) <= m /\ Capped(m, n) <= n BY DEF Capped
  <2>3. Capped(r, clip) \in Nat /\ Capped(r, clip) <= r /\ Capped(r, clip) <= clip BY <2>2
  <2>4. PICK c \in Nat : c = Capped(r, clip) BY <2>3
  <2>5. Capped(c, rest) \in Nat /\ Capped(c, rest) <= c /\ Capped(c, rest) <= rest BY <2>2
  <2> QED BY <2>1, <2>3, <2>4, <2>5
<1>7. PICK slices : slices = IF x = 0 THEN pov.slices ELSE Append(pov.slices, x) OBVIOUS
<1> HIDE DEF raw, share
<1>8. /\ pov' = [pov EXCEPT !.last = volume, !.remaining = rest - x, !.slices = slices]
  BY <1>1, <1>3, <1>6, <1>7
<1>9. /\ slices \in Seq(Nat) /\ SumFunction(slices) = gone + x
      /\ \A i \in DOMAIN slices : slices[i] <= clip
  <2>1. pov.slices \in Seq(Nat) /\ \A i \in DOMAIN pov.slices : pov.slices[i] <= clip
    BY <1>2, <1>3 DEF PovInv, PovStates
  <2>2. CASE x = 0 BY <1>3, <1>7, <2>1, <2>2
  <2>3. CASE x # 0
    <3>1. slices = Append(pov.slices, x) BY <1>7, <2>3
    <3>2. SumFunction(slices) = gone + x BY <1>3, <2>1, <3>1, SumOfAppended
    <3>3. slices \in Seq(Nat) /\ \A i \in DOMAIN slices : 
            (i \in DOMAIN pov.slices /\ slices[i] = pov.slices[i]) \/ slices[i] = x
      BY <2>1, <3>1, AppendProperties
    <3> QED BY <1>6, <2>1, <3>2, <3>3
  <2> QED BY <2>2, <2>3
<1>10. /\ pov' \in PovStates /\ pov'.slices = slices /\ pov'.last = volume /\ pov'.remaining = rest - x
       /\ pov'.clip = clip /\ pov'.rate = rate /\ pov'.parent = pov.parent
  <2>1. PICK y : y = [parent |-> pov.parent, remaining |-> rest - x, rate |-> rate, clip |-> clip,
                      last |-> volume, slices |-> slices] OBVIOUS
  <2>2. rest - x \in Nat /\ pov.parent \in Nat BY <1>2, <1>6 DEF PovStates
  <2>3. PICK d \in Nat : d = rest - x BY <2>2
  <2>4. y \in PovStates BY <1>2, <1>9, <2>1, <2>2 DEF PovStates
  <2>5. /\ y.parent = pov.parent /\ y.remaining = d /\ y.rate = pov.rate /\ y.clip = pov.clip
        /\ y.last = volume /\ y.slices = slices BY <1>3, <2>1, <2>3
  <2>6. pov' = [pov EXCEPT !.last = volume, !.remaining = d, !.slices = slices] BY <1>8, <2>3
  <2>7. pov' = y BY <1>2, <1>9, <2>4, <2>5, <2>6 DEF PovStates
  <2> QED BY <2>1, <2>4, <2>7
<1>11. pov' # NoPov BY <1>2, <1>10 DEF NoPov
<1>12. /\ volumes' \in Seq(Nat) /\ volumes' # <<>> /\ Len(volumes') = Len(volumes) + 1
       /\ volumes'[Len(volumes')] = volume /\ (volumes # <<>> => volumes'[1] = volumes[1])
  <2>1. PICK w \in Seq(Nat) : /\ w = Append(volumes, volume) /\ Len(w) = Len(volumes) + 1
                              /\ w[Len(volumes) + 1] = volume /\ \A k \in 1 .. Len(volumes) : w[k] = volumes[k]
    <3>1. PICK w \in Seq(Nat) : w = Append(volumes, volume) BY <1>2, AppendProperties
    <3>2. Len(w) = Len(volumes) + 1 /\ w[Len(volumes) + 1] = volume BY <1>2, <3>1, AppendProperties
    <3>3. \A k \in 1 .. Len(volumes) : w[k] = volumes[k] BY <1>2, <3>1, AppendProperties
    <3> QED BY <3>1, <3>2, <3>3
  <2>2. Len(volumes) \in Nat /\ (volumes # <<>> => 1 \in 1 .. Len(volumes)) BY <1>2
  <2>3. w # <<>> BY <2>1, <2>2
  <2> QED BY <1>1, <2>1, <2>2, <2>3
<1>13. SumFunction(pov'.slices) + pov'.remaining = pov'.parent BY <1>3, <1>9, <1>10 DEF PovInv
<1>14. 100 * (gone + x) <= rate * (volume - volumes'[1])
  <2>1. CASE volumes = <<>>
    <3>1. volumes'[1] = volume /\ last = -1 /\ gone = 0 /\ more = 0 BY <1>3, <1>4, <1>12, <2>1 DEF PovInv
    <3>2. x = 0 BY <1>5, <1>6, <3>1
    <3> QED BY <1>2, <3>1, <3>2
  <2>2. CASE volumes # <<>>
    <3>1. PICK first \in Nat : first = volumes[1] BY <1>2, <2>2
    <3>2. last = volumes[Len(volumes)] /\ last \in Nat
      <4>1. last = volumes[Len(volumes)] BY <1>3, <2>2 DEF PovInv
      <4>2. Len(volumes) \in DOMAIN volumes BY <1>2, <2>2
      <4>3. volumes[Len(volumes)] \in Nat BY <1>2, <4>2
      <4> QED BY <4>1, <4>3
    <3>3. 100 * gone <= rate * (last - first) BY <1>3, <2>2, <3>1, <3>2 DEF PovInv
    <3>4. more = (volume - last) * rate BY <1>4, <3>2
    <3>5. rate * (volume - first) = rate * (last - first) + (volume - last) * rate BY <1>2, <3>2
    <3>6. rate * (last - first) \in Int /\ rate * (volume - first) \in Int BY <1>2, <3>2
    <3>7. 100 * (gone + x) <= rate * (volume - first) BY <1>5, <1>6, <3>3, <3>4, <3>5, <3>6
    <3> QED BY <1>12, <2>2, <3>1, <3>7
  <2> QED BY <2>1, <2>2
<1>15. gone + x \in Nat OBVIOUS
<1> QED BY <1>9, <1>10, <1>11, <1>12, <1>13, <1>14, <1>15 DEF PovInv

\* Every step of participation.
LEMMA PovKeepsInv == ASSUME PovInv, PovNext PROVE PovInv'
BY PovCreatedKeepsInv, ObservationKeepsInv DEF PovNext

\* A step of another desk leaves participation.
LEMMA OthersKeepPov == ASSUME PovInv, UNCHANGED povVars PROVE PovInv' BY DEF PovInv, povVars

\* At the start nobody participates.
LEMMA PovStarts == ASSUME AlgoInit PROVE PovInv
<1>1. pov = NoPov /\ volumes = <<>> BY DEF AlgoInit
<1>2. pov \in PovStates /\ pov.slices = <<>> /\ pov.remaining = pov.parent /\ pov.last = -1 /\ pov.parent = 0
  BY <1>1 DEF NoPov, PovStates
<1> QED BY <1>1, <1>2, SumOfNoSequence DEF PovInv

\* The invariant is what participation promises.
LEMMA InvKeepsItsShare == ASSUME PovInv PROVE ParticipationKeepsItsShare
<1>1. volumes \in Seq(Nat) BY DEF PovInv
<1>2. Len(volumes) > 0 => volumes # <<>> BY <1>1
<1> QED BY <1>2 DEF PovInv, ParticipationKeepsItsShare

--------------------
(* Cover orders and baskets.                                               *)

CoverTypes ==
  [at : {"answered", "protecting"}, resting : Nat, filled : Nat, stray : Nat, later : Nat, stop : Nat,
   journal : {"none", "COVER_PROTECTIVE_LEG_PLACED", "COVER_PROTECTIVE_LEG_FAILED"}]

\* The stop is of all that the answer listed or is none, and an answered order whose stop
\* is none filled nothing or said so.
CoverInv ==
  cover # None =>
     /\ cover \in CoverTypes
     /\ cover.stop \in {0, cover.filled + cover.stray}
     /\ cover.at = "protecting" => cover.journal = "none"
     /\ cover.at = "answered" /\ cover.journal = "none" => cover.filled = 0
     /\ cover.journal = "COVER_PROTECTIVE_LEG_PLACED" => cover.stop = cover.filled + cover.stray

\* A cover order starts with nothing, and each of its steps keeps the invariant.
LEMMA CoversKeepInv == ASSUME CoverInv, CoverNext PROVE CoverInv'
<1>1. CASE SubmitCoverOrder
  <2>1. PICK quantity \in CoverQuantities : \E filled \in 0 .. quantity, accepted \in BOOLEAN,
              stray \in {0} \union CoverQuantities :
           cover' = [at |-> IF filled = 0 THEN "answered" ELSE "protecting",
                     resting |-> IF accepted THEN quantity - filled ELSE 0,
                     filled |-> filled, stray |-> stray, later |-> 0, stop |-> 0, journal |-> "none"]
    BY <1>1 DEF SubmitCoverOrder
  <2>2. quantity \in Nat /\ {0} \union CoverQuantities \subseteq Nat BY CompositeAssumption
  <2> QED BY <2>1, <2>2 DEF CoverInv, CoverTypes
<1>2. CASE PlaceProtectiveStop
  <2>1. cover # None /\ cover \in CoverTypes /\ cover.at = "protecting"
    BY <1>2 DEF PlaceProtectiveStop, CoverInv, None
  <2>2. PICK stands \in BOOLEAN, ok \in BOOLEAN :
           cover' = [cover EXCEPT
             !.at = "answered",
             !.stop = IF stands THEN cover.filled + cover.stray ELSE 0,
             !.journal = IF stands /\ ok THEN "COVER_PROTECTIVE_LEG_PLACED"
                         ELSE "COVER_PROTECTIVE_LEG_FAILED"] BY <1>2 DEF PlaceProtectiveStop
  <2>3. PICK stop \in Nat : stop = IF stands THEN cover.filled + cover.stray ELSE 0 BY <2>1 DEF CoverTypes
  <2>4. PICK journal : journal = IF stands /\ ok THEN "COVER_PROTECTIVE_LEG_PLACED" ELSE "COVER_PROTECTIVE_LEG_FAILED"
    OBVIOUS
  <2>5. cover' = [cover EXCEPT !.at = "answered", !.stop = stop, !.journal = journal] BY <2>2, <2>3, <2>4
  <2>6. /\ cover' \in CoverTypes /\ cover'.at = "answered" /\ cover'.stop = stop /\ cover'.journal = journal
        /\ cover'.filled = cover.filled /\ cover'.stray = cover.stray BY <2>1, <2>3, <2>4, <2>5 DEF CoverTypes
  <2> QED BY <2>3, <2>4, <2>6 DEF CoverInv
<1>3. CASE EntryFillsLater
  <2>1. cover # None /\ cover \in CoverTypes /\ cover.resting > 0 BY <1>3 DEF EntryFillsLater, CoverInv
  <2>2. PICK r \in Nat, l \in Nat : r = cover.resting - 1 /\ l = cover.later + 1 BY <2>1 DEF CoverTypes
  <2>3. cover' = [cover EXCEPT !.resting = r, !.later = l] BY <1>3, <2>2 DEF EntryFillsLater
  <2> QED BY <2>1, <2>2, <2>3 DEF CoverInv, CoverTypes
<1> QED BY <1>1, <1>2, <1>3 DEF CoverNext

\* The invariant is what a cover order promises.
LEMMA InvCoversTheFill == ASSUME CoverInv PROVE StopsCoverTheAnsweredFill
BY DEF CoverInv, CoverTypes, StopsCoverTheAnsweredFill

Constituents == [buy : BOOLEAN, quantity : 0 .. WordSize - 1, weight : Nat, price : Nat \ {0}]

BasketTypes ==
  [at : {"submitting", "done"}, request : CandidateBaskets, accepted : Seq(BOOLEAN), astray : SUBSET Nat,
   status : {"none", "ALL_ACCEPTED", "PARTIALLY_ACCEPTED", "NONE_ACCEPTED"}]

\* How many answers accepted their constituent.
Yeses(answers) == Cardinality({i \in DOMAIN answers : answers[i]})

\* A basket was within its cash as a whole, and its status counts the answers.
BasketInv ==
  basket # None =>
     /\ basket \in BasketTypes /\ ValidateAndResolveBasket(basket.request)
     /\ Len(basket.accepted) <= Len(basket.request.constituents)
     /\ basket.at = "submitting" =>
           Len(basket.accepted) < Len(basket.request.constituents) /\ basket.status = "none"
     /\ basket.status = "ALL_ACCEPTED" => Yeses(basket.accepted) = Len(basket.request.constituents)
     /\ basket.status = "NONE_ACCEPTED" => Yeses(basket.accepted) = 0

\* Each step of a basket keeps the invariant.
LEMMA BasketsKeepInv == ASSUME BasketInv, BasketOrderNext PROVE BasketInv'
<1>1. CASE ExecuteBasket
  <2>1. PICK request \in CandidateBaskets :
           /\ ValidateAndResolveBasket(request)
           /\ basket' = [at |-> "submitting", request |-> request, accepted |-> <<>>, astray |-> {}, status |-> "none"]
    BY <1>1 DEF ExecuteBasket
  <2>2. request.constituents \in Seq(Constituents) /\ request.constituents # <<>>
    BY CompositeAssumption DEF Constituents
  <2>3. Len(request.constituents) \in Nat /\ Len(request.constituents) > 0
    <3> HIDE DEF Constituents
    <3> QED BY <2>2
  <2> QED BY <2>1, <2>3 DEF BasketInv, BasketTypes
<1>2. CASE SubmitConstituent
  <2>1. basket # None /\ basket \in BasketTypes /\ basket.at = "submitting"
    BY <1>2 DEF SubmitConstituent, BasketInv, None
  <2>2. PICK n \in Nat : n = Len(basket.request.constituents)
    <3>1. basket.request \in CandidateBaskets BY <2>1 DEF BasketTypes
    <3>2. basket.request.constituents \in Seq(Constituents) BY <3>1, CompositeAssumption DEF Constituents
    <3> HIDE DEF Constituents
    <3> QED BY <3>2
  <2>3. PICK wasAccepted \in BOOLEAN, reached \in BOOLEAN : \E answers, status, astray :
           /\ answers = Append(basket.accepted, wasAccepted)
           /\ status = IF Len(answers) # n THEN basket.status
                       ELSE IF Yeses(answers) = n THEN "ALL_ACCEPTED"
                       ELSE IF Yeses(answers) = 0 THEN "NONE_ACCEPTED" ELSE "PARTIALLY_ACCEPTED"
           /\ astray = IF wasAccepted /\ ~reached THEN basket.astray \union {Len(answers)} ELSE basket.astray
           /\ basket' = [basket EXCEPT !.accepted = answers, !.astray = astray,
                            !.at = IF Len(answers) = n THEN "done" ELSE "submitting", !.status = status]
    <3>1. PICK wasAccepted \in BOOLEAN, reached \in BOOLEAN :
             LET answers == Append(basket.accepted, wasAccepted)
                 Status(a) == LET count == Cardinality({i \in DOMAIN a : a[i]})
                              IN IF count = n THEN "ALL_ACCEPTED"
                                 ELSE IF count = 0 THEN "NONE_ACCEPTED" ELSE "PARTIALLY_ACCEPTED"
             IN basket' = [basket EXCEPT
                   !.accepted = answers,
                   !.astray = IF wasAccepted /\ ~reached THEN @ \union {Len(answers)} ELSE @,
                   !.at = IF Len(answers) = n THEN "done" ELSE "submitting",
                   !.status = IF Len(answers) = n THEN Status(answers) ELSE @]
      BY <1>2, <2>2 DEF SubmitConstituent
    <3>2. PICK answers : answers = Append(basket.accepted, wasAccepted) OBVIOUS
    <3>3. PICK status :
             status = IF Len(answers) # n THEN basket.status
                      ELSE IF Yeses(answers) = n THEN "ALL_ACCEPTED"
                      ELSE IF Yeses(answers) = 0 THEN "NONE_ACCEPTED" ELSE "PARTIALLY_ACCEPTED" OBVIOUS
    <3>4. PICK astray : astray = IF wasAccepted /\ ~reached THEN basket.astray \union {Len(answers)} ELSE basket.astray
      OBVIOUS
    <3>5. basket' = [basket EXCEPT !.accepted = answers, !.astray = astray,
                       !.at = IF Len(answers) = n THEN "done" ELSE "submitting", !.status = status]
      BY <3>1, <3>2, <3>3, <3>4 DEF Yeses
    <3> QED BY <3>2, <3>3, <3>4, <3>5
  <2>4. PICK answers, status, astray :
           /\ answers = Append(basket.accepted, wasAccepted)
           /\ status = IF Len(answers) # n THEN basket.status
                       ELSE IF Yeses(answers) = n THEN "ALL_ACCEPTED"
                       ELSE IF Yeses(answers) = 0 THEN "NONE_ACCEPTED" ELSE "PARTIALLY_ACCEPTED"
           /\ astray = IF wasAccepted /\ ~reached THEN basket.astray \union {Len(answers)} ELSE basket.astray
           /\ basket' = [basket EXCEPT !.accepted = answers, !.astray = astray,
                            !.at = IF Len(answers) = n THEN "done" ELSE "submitting", !.status = status]
    BY <2>3
  <2>5. basket.accepted \in Seq(BOOLEAN) /\ basket.astray \subseteq Nat BY <2>1 DEF BasketTypes
  <2>6. answers \in Seq(BOOLEAN) /\ Len(answers) = Len(basket.accepted) + 1 /\ Len(basket.accepted) \in Nat
    BY <2>4, <2>5
  <2>10. astray \in SUBSET Nat
    <3>1. Len(answers) \in Nat BY <2>6
    <3> QED BY <2>4, <2>5, <3>1
  <2>7. Len(answers) <= n /\ (Len(answers) # n => Len(answers) < n) BY <2>1, <2>2, <2>6 DEF BasketInv
  <2>8. /\ basket' \in BasketTypes /\ basket'.request = basket.request /\ basket'.accepted = answers
        /\ basket'.status = status /\ basket'.at = IF Len(answers) = n THEN "done" ELSE "submitting"
    <3>1. PICK at \in {"submitting", "done"} : at = IF Len(answers) = n THEN "done" ELSE "submitting" OBVIOUS
    <3>2. status \in {"none", "ALL_ACCEPTED", "PARTIALLY_ACCEPTED", "NONE_ACCEPTED"}
      BY <2>1, <2>4 DEF BasketTypes
    <3>3. basket' = [basket EXCEPT !.accepted = answers, !.astray = astray, !.at = at, !.status = status]
      BY <2>4, <3>1
    <3> QED BY <2>1, <2>6, <2>10, <3>1, <3>2, <3>3 DEF BasketTypes
  <2>9. Len(answers) # n => status = "none" BY <2>1, <2>2, <2>4, <2>6 DEF BasketInv
  <2> QED BY <2>1, <2>2, <2>4, <2>7, <2>8, <2>9 DEF BasketInv
<1> QED BY <1>1, <1>2 DEF BasketOrderNext

\* What a constituent takes is a number, and less than nothing only when it is sold.
LEMMA NotionalsAreInts ==
  ASSUME NEW request \in CandidateBaskets, ValidateAndResolveBasket(request), NEW i \in DOMAIN request.constituents
  PROVE  LET c == request.constituents[i]
             worth == ResolvedQuantity(request, c) * c.price
         IN worth \in Nat /\ SignedNotional(request, c) = IF c.buy THEN worth ELSE -worth
<1>1. request \in [cash : Int, constituents : Seq(Constituents)] BY CompositeAssumption DEF Constituents
<1>2. request.cash \in Int /\ request.constituents \in Seq(Constituents) BY <1>1
<1>3. request.constituents[i] \in Constituents
  <2> HIDE DEF Constituents
  <2> QED BY <1>2
<1>4. PICK c \in Constituents : c = request.constituents[i] BY <1>3
<1>5. PICK p \in Nat \ {0}, w \in Nat, k \in Int : p = c.price /\ w = c.weight /\ k = request.cash
  BY <1>2 DEF Constituents
<1>6. PICK d \in Nat \ {0} : d = 100 * p OBVIOUS
<1>7. PICK q \in Int : q = ResolvedQuantity(request, c)
  <2>1. PICK kw \in Int : kw = k * w OBVIOUS
  <2>2. PICK t \in Int : t = Truncated(kw, d) BY DEF Truncated
  <2>3. t % WordSize \in Int BY CompositeAssumption
  <2>4. c.quantity \in Int BY CompositeAssumption DEF Constituents
  <2> QED BY <1>5, <1>6, <2>1, <2>2, <2>3, <2>4 DEF ResolvedQuantity
<1>8. q > 0 BY <1>4, <1>7 DEF ValidateAndResolveBasket, ResolvedQuantity
<1>9. c.buy \in BOOLEAN BY DEF Constituents
<1>10. PICK a \in Nat : a = q * p BY <1>8
<1>11. 1 * q * p = a /\ -1 * q * p = -a BY <1>10
<1> QED BY <1>4, <1>5, <1>7, <1>9, <1>10, <1>11 DEF SignedNotional, Sign

\* A number that is less than half of the words away from 0 is itself in a signed word.
LEMMA SmallNumbersFit == ASSUME NEW x \in Int, -(WordSize \div 2) < x, x < WordSize \div 2 PROVE Int64(x) = x
<1>1. PICK H \in Nat : H = WordSize \div 2 /\ WordSize = 2 * H /\ H > 0 BY CompositeAssumption
<1>2. x + H \in 0 .. 2 * H - 1 BY <1>1
<1>3. PICK y \in 0 .. 2 * H - 1 : y = x + H BY <1>2
<1>4. y % (2 * H) = y BY <1>1
<1> QED BY <1>1, <1>3, <1>4 DEF Int64

\* Where every notional fits the word their sum is what the check took it for.
LEMMA CheckedCashIsTheSum ==
  ASSUME NEW request \in CandidateBaskets, ValidateAndResolveBasket(request), FitsTheWord(request)
  PROVE  NetCash(request, DOMAIN request.constituents) <= request.cash
<1> DEFINE D == DOMAIN request.constituents
           f == [i \in D |-> SignedNotional(request, request.constituents[i])]
           g == [i \in D |-> ResolvedQuantity(request, request.constituents[i]) * request.constituents[i].price]
           h == [i \in D |-> -1 * f[i]]
<1>1. IsFiniteSet(D)
  <2>1. request.constituents \in Seq(Constituents) BY CompositeAssumption DEF Constituents
  <2> HIDE DEF Constituents
  <2>2. PICK n \in Nat : D = 1 .. n BY <2>1
  <2> QED BY <2>2, FS_Interval
<1>2. \A i \in D : g[i] \in Nat /\ (f[i] = g[i] \/ f[i] = -g[i])
  <2> TAKE i \in D
  <2> DEFINE c == request.constituents[i]
             worth == ResolvedQuantity(request, c) * c.price
  <2>1. worth \in Nat /\ SignedNotional(request, c) = IF c.buy THEN worth ELSE -worth BY NotionalsAreInts
  <2>2. f[i] = SignedNotional(request, c) /\ g[i] = worth OBVIOUS
  <2> HIDE DEF f, g, c, worth
  <2> QED BY <2>1, <2>2
<1>3. DOMAIN g = D /\ \A i \in D : h[i] = -1 * f[i] OBVIOUS
<1>4. NetCash(request, D) = SumFunctionOnSet(f, D) /\ SumFunction(g) < WordSize \div 2
  BY DEF NetCash, FitsTheWord
<1> HIDE DEF D, f, g, h
<1>5. \A i \in D : f[i] \in Int /\ h[i] \in Int /\ g[i] \in Int /\ f[i] <= g[i] /\ h[i] <= g[i] BY <1>2, <1>3
<1>6. IntOn(f, D) /\ IntOn(g, D) /\ IntOn(h, D) BY <1>5 DEF IntOn
<1>7. SumFunction(g) = SumFunctionOnSet(g, D) BY <1>1, <1>3, <1>6, SumOverDomain
<1>8. SumFunctionOnSet(f, D) <= SumFunctionOnSet(g, D) /\ SumFunctionOnSet(h, D) <= SumFunctionOnSet(g, D)
  BY <1>1, <1>5, <1>6, SumLeq
<1>9. SumFunctionOnSet(h, D) = -1 * SumFunctionOnSet(f, D)
  <2>1. PICK c \in Int : c = -1 OBVIOUS
  <2>2. ASSUME NEW i \in D PROVE h[i] = c * f[i]
    <3>1. PICK x \in Int : x = f[i] BY <1>5
    <3>2. -1 * x = -x /\ c * x = -x BY <2>1
    <3> QED BY <1>3, <3>1, <3>2
  <2>3. SumFunctionOnSet(h, D) = c * SumFunctionOnSet(f, D) /\ SumFunctionOnSet(f, D) \in Int
    BY <1>1, <1>6, <2>2, SumScaled
  <2>4. PICK x \in Int : x = SumFunctionOnSet(f, D) BY <2>3
  <2>5. -1 * x = -x /\ c * x = -x BY <2>1
  <2> QED BY <2>3, <2>4, <2>5
<1>10. PICK x \in Int, y \in Int : x = SumFunctionOnSet(f, D) /\ y = SumFunctionOnSet(g, D)
  BY <1>1, <1>6, SumIsInt
<1>11. x < WordSize \div 2 /\ -(WordSize \div 2) < x
  <2>1. PICK H \in Int : H = WordSize \div 2 BY CompositeAssumption
  <2> QED BY <1>4, <1>7, <1>8, <1>9, <1>10, <2>1
<1>12. Int64(NetCash(request, D)) <= request.cash BY DEF ValidateAndResolveBasket, D
<1> QED BY <1>4, <1>10, <1>11, <1>12, SmallNumbersFit DEF D

\* What is placed and what of the sales is not never takes more than all of it.
LEMMA InvStaysInTheCash == ASSUME BasketInv PROVE BasketsStayInTheirCash
<1> SUFFICES ASSUME basket # None PROVE BasketsStayInTheirCash BY DEF BasketsStayInTheirCash
<1>1. PICK request \in CandidateBaskets : request = basket.request /\ ValidateAndResolveBasket(request)
  BY DEF BasketInv, BasketTypes
<1> DEFINE accepted == basket.accepted
           taken == {i \in DOMAIN accepted : accepted[i]}
           placed == taken \ basket.astray
           sales == {i \in DOMAIN request.constituents : ~request.constituents[i].buy}
           f == [i \in DOMAIN request.constituents |-> SignedNotional(request, request.constituents[i])]
           sum(S) == SumFunctionOnSet(f, S)
<1>2. PICK n \in Nat : n = Len(request.constituents) /\ DOMAIN request.constituents = 1 .. n
  <2>1. request.constituents \in Seq(Constituents) BY CompositeAssumption DEF Constituents
  <2> HIDE DEF Constituents
  <2> QED BY <2>1
<1>3. PICK m \in Nat : m = Len(accepted) /\ DOMAIN accepted = 1 .. m /\ accepted \in Seq(BOOLEAN)
  <2>1. accepted \in Seq(BOOLEAN) BY DEF BasketInv, BasketTypes
  <2> QED BY <2>1
<1>4. m <= n /\ taken \subseteq 1 .. n /\ placed \subseteq taken /\ sales \subseteq 1 .. n /\ IsFiniteSet(1 .. n) /\ Cardinality(1 .. n) = n
  <2>1. Len(accepted) <= Len(request.constituents) BY <1>1 DEF BasketInv
  <2>2. m <= n BY <1>2, <1>3, <2>1
  <2>3. IsFiniteSet(1 .. n) /\ Cardinality(1 .. n) = n BY FS_Interval
  <2> QED BY <1>2, <1>3, <2>2, <2>3
<1>14. ASSUME NEW i \in 1 .. n PROVE f[i] \in Int /\ (i \notin sales => f[i] >= 0)
  <2> DEFINE c == request.constituents[i]
             worth == ResolvedQuantity(request, c) * c.price
  <2>1. worth \in Nat /\ SignedNotional(request, c) = IF c.buy THEN worth ELSE -worth
    BY <1>1, <1>2, NotionalsAreInts
  <2>2. f[i] = SignedNotional(request, c) /\ (i \notin sales => c.buy) BY <1>2
  <2> HIDE DEF f, c, worth, sales
  <2> QED BY <2>1, <2>2
<1>5. IntOn(f, 1 .. n) BY <1>14 DEF IntOn
<1>6. \A i \in (1 .. n) \ sales : f[i] >= 0 BY <1>14
<1>7. \A S : NetCash(request, S) = sum(S) BY DEF NetCash
<1>8. FitsTheWord(request) => sum(1 .. n) <= request.cash BY <1>1, <1>2, <1>7, CheckedCashIsTheSum
<1>13. request.cash \in Int BY CompositeAssumption
<1>9. /\ accepted = basket.accepted /\ Yeses(accepted) = Cardinality(taken) BY DEF Yeses
<1>10. ASSUME FitsTheWord(request) PROVE sum(placed) + sum(sales \ placed) <= request.cash
  <2> DEFINE U == placed \cup (sales \ placed)
             R == (1 .. n) \ U
  <2>1. U \subseteq 1 .. n /\ placed \subseteq U /\ U \ placed = sales \ placed /\ R \subseteq (1 .. n) \ sales
    BY <1>4
  <2>2. IsFiniteSet(U) /\ IsFiniteSet(R) /\ IntOn(f, U) /\ IntOn(f, R) /\ NatOn(f, R)
    <3>1. IsFiniteSet(U) /\ IsFiniteSet(R)
      <4> HIDE DEF U
      <4> QED BY <1>4, <2>1, FS_Subset
    <3> HIDE DEF f, taken, placed, sales, U
    <3>2. IntOn(f, U) /\ IntOn(f, R) BY <1>5, <2>1 DEF IntOn
    <3>3. \A i \in R : f[i] \in Int /\ f[i] >= 0 BY <1>5, <1>6, <2>1 DEF IntOn
    <3>4. NatOn(f, R) BY <3>3 DEF NatOn
    <3> QED BY <3>1, <3>2, <3>4
  <2> HIDE DEF f, taken, placed, sales, U
  <2>3. sum(1 .. n) = sum(U) + sum(R) /\ sum(U) \in Int /\ sum(R) \in Int BY <1>4, <1>5, <2>1, SumSplit
  <2>4. sum(U) = sum(placed) + sum(sales \ placed) /\ sum(placed) \in Int /\ sum(sales \ placed) \in Int
    <3>1. IsFiniteSet(U) /\ IntOn(f, U) /\ placed \subseteq U BY <2>1, <2>2
    <3>2. sum(U) = sum(placed) + sum(U \ placed) /\ sum(placed) \in Int /\ sum(U \ placed) \in Int
      BY <3>1, SumSplit
    <3> QED BY <2>1, <3>2
  <2>5. sum(R) \in Nat
    <3> HIDE DEF R
    <3> QED BY <2>2, SumAtLeastPart
  <2> HIDE DEF sum, R
  <2> QED BY <1>8, <1>10, <1>13, <2>3, <2>4, <2>5
<1>11. FitsTheWord(request) /\ basket.status = "ALL_ACCEPTED" /\ basket.astray = {} => sum(placed) <= request.cash
  <2> SUFFICES ASSUME FitsTheWord(request), basket.status = "ALL_ACCEPTED", basket.astray = {} PROVE placed = 1 .. n
    BY <1>8
  <2>1. Cardinality(taken) = n BY <1>1, <1>2, <1>9 DEF BasketInv
  <2>2. placed = taken OBVIOUS
  <2> HIDE DEF taken
  <2>3. taken = 1 .. n BY <1>4, <2>1, FS_Subset
  <2> QED BY <2>2, <2>3
<1>12. basket.status = "NONE_ACCEPTED" => placed = {}
  <2> SUFFICES ASSUME basket.status = "NONE_ACCEPTED" PROVE taken = {} OBVIOUS
  <2>1. Cardinality(taken) = 0 BY <1>9 DEF BasketInv
  <2> HIDE DEF taken
  <2>2. IsFiniteSet(taken) BY <1>4, FS_Subset
  <2> QED BY <2>1, <2>2, FS_EmptySet
<1> QED BY <1>1, <1>7, <1>10, <1>11, <1>12 DEF BasketsStayInTheirCash

--------------------
(* Strategies of several legs.                                             *)

OptionLegs == [type : {"CALL", "PUT"}, strike : Nat, premium : Nat, buy : BOOLEAN, quantity : Nat \ {0}]

LegOutcomes == [leg : OptionLegs, accepted : BOOLEAN, rolledBack : BOOLEAN, rollbackAccepted : BOOLEAN]

Executions ==
  [at : {"submitting", "executed", "undoing", "failed"}, shape : Shapes, legs : CandidateLegs,
   outcomes : Seq(LegOutcomes), undone : Nat, ordered : UNION {[DOMAIN legs -> Int] : legs \in CandidateLegs},
   astray : SUBSET Nat]

\* What is ordered of a leg with this outcome.
OrderedOf(outcome) ==
  IF ~outcome.accepted \/ (outcome.rolledBack /\ outcome.rollbackAccepted) THEN 0
  ELSE Sign(outcome.leg) * outcome.leg.quantity

\* Legs have answers in their order, each accepted but the last of a strategy that fails,
\* and those are undone in their order.  Of a leg that went astray nothing is ordered
\* before it is undone.
IsExecution(v) ==
  LET m == Len(v.outcomes) IN
  /\ v \in Executions /\ DOMAIN v.ordered = DOMAIN v.legs
  /\ ValidateStrategyShape(v.shape, v.legs)
  /\ m <= Len(v.legs)
  /\ v.at = "submitting" => m < Len(v.legs)
  /\ v.at \in {"submitting", "executed"} => v.undone = 0
  /\ v.at = "undoing" => v.undone < m - 1
  /\ v.at = "failed" => v.undone = m - 1
  /\ \A i \in 1 .. m :
        /\ v.outcomes[i].leg = v.legs[i]
        /\ (v.outcomes[i].accepted <=> (i < m \/ v.at \in {"submitting", "executed"}))
        /\ (v.outcomes[i].rolledBack <=> (i <= v.undone))
  /\ v.astray \subseteq 1 .. m
  /\ \A i \in (DOMAIN v.legs) \ v.astray : v.ordered[i] = IF i <= m THEN OrderedOf(v.outcomes[i]) ELSE 0
  /\ \A i \in v.astray : LET all == Sign(v.legs[i]) * v.legs[i].quantity
                         IN v.ordered[i] \in {-all, 0, all} /\ (i > v.undone => v.ordered[i] = 0)

StrategyInv == strategy # None => IsExecution(strategy)

\* The legs of a strategy are numbered.
LEMMA LegShapes ==
  ASSUME NEW legs \in CandidateLegs
  PROVE  \E n \in Nat \ {0} : /\ n = Len(legs) /\ DOMAIN legs = 1 .. n /\ legs \in Seq(OptionLegs)
                              /\ \A i \in 1 .. n : legs[i] \in OptionLegs
<1>1. legs \in Seq(OptionLegs) /\ legs # <<>> BY CompositeAssumption DEF OptionLegs
<1> HIDE DEF OptionLegs
<1> QED BY <1>1

\* A strategy starts without an answer.
LEMMA StrategyStarts == ASSUME StrategyInv, ExecuteMultiLegOptions PROVE StrategyInv'
<1>1. PICK shape \in Shapes, legs \in CandidateLegs :
         /\ ValidateStrategyShape(shape, legs)
         /\ strategy' = [at |-> "submitting", shape |-> shape, legs |-> legs, outcomes |-> <<>>,
                         undone |-> 0, ordered |-> [i \in DOMAIN legs |-> 0], astray |-> {}]
  BY DEF ExecuteMultiLegOptions
<1>2. PICK n \in Nat \ {0} : n = Len(legs) /\ DOMAIN legs = 1 .. n BY LegShapes
<1>3. PICK v : v = strategy' OBVIOUS
<1>4. /\ v.at = "submitting" /\ v.shape = shape /\ v.legs = legs /\ v.outcomes = <<>> /\ v.undone = 0
      /\ v.ordered = [i \in DOMAIN legs |-> 0] /\ v.astray = {} BY <1>1, <1>3
<1>5. v \in Executions
  <2>1. [i \in DOMAIN legs |-> 0] \in UNION {[DOMAIN l -> Int] : l \in CandidateLegs} OBVIOUS
  <2>2. <<>> \in Seq(LegOutcomes) OBVIOUS
  <2> QED BY <1>1, <1>3, <2>1, <2>2 DEF Executions
<1>6. IsExecution(v) BY <1>1, <1>2, <1>4, <1>5 DEF IsExecution
<1> QED BY <1>3, <1>6 DEF StrategyInv

\* What the parts of a strategy are.
LEMMA ExecutionParts ==
  ASSUME NEW v, IsExecution(v)
  PROVE  /\ v.legs \in CandidateLegs /\ v.shape \in Shapes /\ v.undone \in Nat /\ v.astray \subseteq Nat
         /\ v.outcomes \in Seq(LegOutcomes)
         /\ v.ordered \in UNION {[DOMAIN l -> Int] : l \in CandidateLegs}
         /\ \E n \in Nat \ {0}, m \in Nat :
               /\ n = Len(v.legs) /\ DOMAIN v.legs = 1 .. n /\ m = Len(v.outcomes) /\ DOMAIN v.outcomes = 1 .. m
               /\ m <= n /\ DOMAIN v.ordered = 1 .. n /\ v.ordered \in [1 .. n -> Int]
               /\ \A i \in 1 .. n : v.legs[i] \in OptionLegs
               /\ \A i \in 1 .. m : v.outcomes[i] \in LegOutcomes
<1>1. /\ v.legs \in CandidateLegs /\ v.shape \in Shapes /\ v.undone \in Nat /\ v.outcomes \in Seq(LegOutcomes)
      /\ v.astray \subseteq Nat
      /\ v.ordered \in UNION {[DOMAIN l -> Int] : l \in CandidateLegs} BY DEF IsExecution, Executions
<1>2. PICK n \in Nat \ {0} : n = Len(v.legs) /\ DOMAIN v.legs = 1 .. n /\ \A i \in 1 .. n : v.legs[i] \in OptionLegs
  BY <1>1, LegShapes
<1>3. PICK l : v.ordered \in [DOMAIN l -> Int] BY <1>1
<1>4. v.ordered \in [1 .. n -> Int] BY <1>2, <1>3 DEF IsExecution
<1>5. \E m \in Nat : m = Len(v.outcomes) /\ DOMAIN v.outcomes = 1 .. m /\ \A i \in 1 .. m : v.outcomes[i] \in LegOutcomes
  <2> HIDE DEF LegOutcomes
  <2> QED BY <1>1
<1>6. Len(v.outcomes) <= Len(v.legs) BY DEF IsExecution
<1>7. DOMAIN v.ordered = 1 .. n BY <1>4
<1> HIDE DEF OptionLegs, LegOutcomes
<1> QED BY <1>1, <1>2, <1>4, <1>5, <1>6, <1>7

\* The answer of a leg keeps the invariant.
LEMMA AnswersKeepInv == ASSUME StrategyInv, SubmitLeg PROVE StrategyInv'
<1> DEFINE v == strategy
<1>1. v.at = "submitting" /\ IsExecution(v)
  <2>1. v.at = "submitting" BY DEF SubmitLeg
  <2> QED BY <2>1 DEF StrategyInv, None
<1>2. PICK n \in Nat \ {0}, m \in Nat :
         /\ n = Len(v.legs) /\ DOMAIN v.legs = 1 .. n /\ m = Len(v.outcomes) /\ DOMAIN v.outcomes = 1 .. m
         /\ m <= n /\ DOMAIN v.ordered = 1 .. n /\ v.ordered \in [1 .. n -> Int]
         /\ \A i \in 1 .. n : v.legs[i] \in OptionLegs
         /\ \A i \in 1 .. m : v.outcomes[i] \in LegOutcomes BY <1>1, ExecutionParts
<1>3. PICK k \in 1 .. n : k = m + 1 BY <1>1, <1>2 DEF IsExecution
<1>4. PICK leg \in OptionLegs : leg = v.legs[k] BY <1>2
<1>50. PICK accepted \in BOOLEAN, reached \in BOOLEAN : \E ordered, at, astray :
         /\ strategy' = [strategy EXCEPT !.outcomes = Append(@, Outcome(leg, accepted)), !.ordered = ordered,
                                         !.astray = astray, !.at = at]
         /\ ordered = IF accepted THEN [v.ordered EXCEPT ![k] = IF reached THEN Sign(leg) * leg.quantity ELSE 0]
                      ELSE v.ordered
         /\ astray = IF accepted /\ ~reached THEN v.astray \union {k} ELSE v.astray
         /\ at = IF accepted THEN IF k = n THEN "executed" ELSE "submitting"
                 ELSE IF k = 1 THEN "failed" ELSE "undoing"
  <2>1. CASE \E reached \in BOOLEAN : strategy' = [strategy EXCEPT
                !.outcomes = Append(@, Outcome(leg, TRUE)),
                !.ordered[k] = IF reached THEN Sign(leg) * leg.quantity ELSE 0,
                !.astray = IF reached THEN @ ELSE @ \union {k},
                !.at = IF k = n THEN "executed" ELSE "submitting"]
    <3>3. PICK reached \in BOOLEAN : strategy' = [strategy EXCEPT
                !.outcomes = Append(@, Outcome(leg, TRUE)),
                !.ordered[k] = IF reached THEN Sign(leg) * leg.quantity ELSE 0,
                !.astray = IF reached THEN @ ELSE @ \union {k},
                !.at = IF k = n THEN "executed" ELSE "submitting"] BY <2>1
    <3>1. PICK ordered, at, astray :
             /\ ordered = [v.ordered EXCEPT ![k] = IF reached THEN Sign(leg) * leg.quantity ELSE 0]
             /\ astray = IF reached THEN v.astray ELSE v.astray \union {k}
             /\ at = IF k = n THEN "executed" ELSE "submitting" OBVIOUS
    <3>2. strategy' = [strategy EXCEPT !.outcomes = Append(@, Outcome(leg, TRUE)), !.ordered = ordered,
                                       !.astray = astray, !.at = at] BY <3>1, <3>3
    <3> QED BY <3>1, <3>2
  <2>2. CASE strategy' = [strategy EXCEPT
                !.outcomes = Append(@, Outcome(leg, FALSE)),
                !.at = IF k = 1 THEN "failed" ELSE "undoing"]
    <3>1. v \in Executions BY <1>1 DEF IsExecution
    <3>2. PICK at : at = IF k = 1 THEN "failed" ELSE "undoing" OBVIOUS
    <3>3. [strategy EXCEPT !.outcomes = Append(@, Outcome(leg, FALSE)), !.at = at]
           = [strategy EXCEPT !.outcomes = Append(@, Outcome(leg, FALSE)), !.ordered = v.ordered,
                              !.astray = v.astray, !.at = at] BY <3>1 DEF Executions
    <3> QED BY <2>2, <3>2, <3>3
  <2>3. k = Len(strategy.outcomes) + 1 /\ n = Len(strategy.legs) /\ leg = strategy.legs[k] BY <1>2, <1>3, <1>4
  <2>4. \/ \E reached \in BOOLEAN : strategy' = [strategy EXCEPT
                !.outcomes = Append(@, Outcome(leg, TRUE)),
                !.ordered[k] = IF reached THEN Sign(leg) * leg.quantity ELSE 0,
                !.astray = IF reached THEN @ ELSE @ \union {k},
                !.at = IF k = n THEN "executed" ELSE "submitting"]
        \/ strategy' = [strategy EXCEPT
                !.outcomes = Append(@, Outcome(leg, FALSE)),
                !.at = IF k = 1 THEN "failed" ELSE "undoing"] BY <2>3, Zenon DEF SubmitLeg
  <2> QED BY <2>1, <2>2, <2>4
<1>5. PICK ordered, at, astray :
         /\ strategy' = [strategy EXCEPT !.outcomes = Append(@, Outcome(leg, accepted)), !.ordered = ordered,
                                         !.astray = astray, !.at = at]
         /\ ordered = IF accepted THEN [v.ordered EXCEPT ![k] = IF reached THEN Sign(leg) * leg.quantity ELSE 0]
                      ELSE v.ordered
         /\ astray = IF accepted /\ ~reached THEN v.astray \union {k} ELSE v.astray
         /\ at = IF accepted THEN IF k = n THEN "executed" ELSE "submitting"
                 ELSE IF k = 1 THEN "failed" ELSE "undoing" BY <1>50
<1>6. PICK x \in LegOutcomes : /\ x = Outcome(leg, accepted) /\ x.leg = leg /\ x.accepted = accepted /\ ~x.rolledBack
  <2> DEFINE x == Outcome(leg, accepted)
  <2>1. x = [leg |-> leg, accepted |-> accepted, rolledBack |-> FALSE, rollbackAccepted |-> FALSE]
    BY DEF Outcome
  <2> HIDE DEF x, OptionLegs
  <2>2. x \in LegOutcomes /\ x.leg = leg /\ x.accepted = accepted /\ ~x.rolledBack BY <2>1 DEF LegOutcomes
  <2> QED BY <2>2 DEF x
<1>7. PICK o : o = Append(v.outcomes, x) OBVIOUS
<1>8. /\ o \in Seq(LegOutcomes) /\ Len(o) = k /\ DOMAIN o = 1 .. k /\ o[k] = x
      /\ \A i \in 1 .. m : o[i] = v.outcomes[i]
  <2>1. v.outcomes \in Seq(LegOutcomes) BY <1>1, ExecutionParts
  <2> HIDE DEF LegOutcomes
  <2> QED BY <1>2, <1>3, <1>7, <2>1
<1>9. PICK q \in Int : q = Sign(leg) * leg.quantity BY DEF Sign, OptionLegs
<1>10. v.astray \subseteq 1 .. m /\ v.ordered[k] = 0 BY <1>1, <1>2, <1>3 DEF IsExecution
<1>22. /\ astray \subseteq 1 .. k /\ astray \subseteq Nat /\ astray \ {k} = v.astray
       /\ (k \in astray <=> accepted /\ ~reached) BY <1>3, <1>5, <1>10
<1>11. /\ ordered \in [1 .. n -> Int] /\ ordered[k] = (IF accepted /\ reached THEN q ELSE 0)
       /\ \A i \in (1 .. n) \ {k} : ordered[i] = v.ordered[i] BY <1>2, <1>5, <1>9, <1>10
<1>12. at = IF accepted THEN IF k = n THEN "executed" ELSE "submitting"
             ELSE IF k = 1 THEN "failed" ELSE "undoing" BY <1>5
<1>13. strategy' = [strategy EXCEPT !.outcomes = o, !.ordered = ordered, !.astray = astray, !.at = at]
  BY <1>5, <1>6, <1>7
<1>14. PICK w : w = strategy' OBVIOUS
<1>15. /\ w \in Executions /\ w.at = at /\ w.outcomes = o /\ w.ordered = ordered /\ w.legs = v.legs
       /\ w.shape = v.shape /\ w.undone = v.undone /\ w.astray = astray
  <2>1. v \in Executions /\ v.legs \in CandidateLegs BY <1>1, ExecutionParts DEF IsExecution
  <2>2. ordered \in UNION {[DOMAIN l -> Int] : l \in CandidateLegs} BY <1>2, <1>11, <2>1
  <2> HIDE DEF LegOutcomes
  <2> QED BY <1>8, <1>12, <1>13, <1>14, <1>22, <2>1, <2>2 DEF Executions
<1>16. v.undone = 0 /\ \A i \in 1 .. m : v.outcomes[i].leg = v.legs[i] /\ v.outcomes[i].accepted /\ ~v.outcomes[i].rolledBack
  BY <1>1, <1>2 DEF IsExecution, LegOutcomes
<1>17. \A i \in 1 .. k : o[i].leg = v.legs[i] /\ (i < k => o[i].accepted) /\ ~o[i].rolledBack
  BY <1>3, <1>4, <1>6, <1>8, <1>16
<1>18. \A i \in (1 .. n) \ astray : ordered[i] = IF i <= k THEN OrderedOf(o[i]) ELSE 0
  <2> TAKE i \in (1 .. n) \ astray
  <2>1. CASE i = k BY <1>4, <1>6, <1>8, <1>9, <1>11, <1>22, <2>1 DEF OrderedOf
  <2>2. CASE i # k
    <3>1. i \in (DOMAIN v.legs) \ v.astray /\ ordered[i] = v.ordered[i] /\ (i <= m <=> i <= k)
      BY <1>2, <1>3, <1>11, <1>22, <2>2
    <3>2. v.ordered[i] = IF i <= m THEN OrderedOf(v.outcomes[i]) ELSE 0 BY <1>1, <1>2, <3>1 DEF IsExecution
    <3> QED BY <1>8, <3>1, <3>2
  <2> QED BY <2>1, <2>2
<1>23. ASSUME NEW i \in astray
       PROVE  LET all == Sign(v.legs[i]) * v.legs[i].quantity
              IN ordered[i] \in {-all, 0, all} /\ (i > v.undone => ordered[i] = 0)
  <2>1. CASE i = k BY <1>11, <1>22, <2>1
  <2>2. CASE i # k
    <3>1. i \in v.astray /\ ordered[i] = v.ordered[i] BY <1>2, <1>3, <1>11, <1>22, <2>2
    <3> QED BY <1>1, <3>1 DEF IsExecution
  <2> QED BY <2>1, <2>2
<1>19. ValidateStrategyShape(w.shape, w.legs) BY <1>1, <1>15 DEF IsExecution
<1> HIDE DEF v, LegOutcomes, Executions, ValidateStrategyShape, OrderedOf
<1>20. \A i \in 1 .. k : (o[i].accepted <=> (i < k \/ at \in {"submitting", "executed"})) /\ (o[i].rolledBack <=> (i <= 0))
  <2>1. \A i \in 1 .. k : o[i].accepted \in BOOLEAN /\ o[i].rolledBack \in BOOLEAN
    <3>1. \A i \in 1 .. k : o[i] \in LegOutcomes BY <1>8
    <3> QED BY <3>1 DEF LegOutcomes
  <2> QED BY <1>6, <1>8, <1>12, <1>17, <2>1
<1>21. IsExecution(w)
  <2>1. /\ w.astray \subseteq 1 .. k
        /\ \A i \in w.astray : LET all == Sign(w.legs[i]) * w.legs[i].quantity
                              IN w.ordered[i] \in {-all, 0, all} /\ (i > w.undone => w.ordered[i] = 0)
    BY <1>15, <1>22, <1>23
  <2>2. \A i \in (DOMAIN w.legs) \ w.astray : w.ordered[i] = IF i <= k THEN OrderedOf(w.outcomes[i]) ELSE 0
    BY <1>2, <1>15, <1>18
  <2> QED BY <1>2, <1>3, <1>8, <1>11, <1>12, <1>15, <1>16, <1>17, <1>19, <1>20, <2>1, <2>2 DEF IsExecution
<1> QED BY <1>14, <1>21 DEF StrategyInv

\* The answer to undoing a leg is kept with that leg: those before it have theirs.
LEMMA UndoingIsMarked ==
  ASSUME NEW v, IsExecution(v), v.at = "undoing", NEW k, k = v.undone + 1
  PROVE  /\ k \in 1 .. Len(v.outcomes) - 1
         /\ Min({j \in DOMAIN v.outcomes : v.outcomes[j].leg = v.legs[k] /\ ~v.outcomes[j].rolledBack}) = k
<1>1. PICK n \in Nat \ {0}, m \in Nat :
         n = Len(v.legs) /\ DOMAIN v.legs = 1 .. n /\ m = Len(v.outcomes) /\ DOMAIN v.outcomes = 1 .. m /\ m <= n
  BY ExecutionParts
<1>2. v.undone \in Nat /\ v.undone < m - 1 BY <1>1, ExecutionParts DEF IsExecution
<1> DEFINE S == {j \in DOMAIN v.outcomes : v.outcomes[j].leg = v.legs[k] /\ ~v.outcomes[j].rolledBack}
<1>3. k \in 1 .. m /\ k <= m - 1 BY <1>2
<1>4. \A j \in 1 .. m : v.outcomes[j].leg = v.legs[j] /\ (v.outcomes[j].rolledBack <=> (j <= v.undone))
  BY <1>1 DEF IsExecution
<1>5. k \in S /\ \A j \in S : k <= j BY <1>1, <1>2, <1>3, <1>4
<1>6. S \subseteq Nat BY <1>1
<1> HIDE DEF S
<1>7. Min(S) \in S /\ \A j \in S : Min(S) <= j BY <1>5, Zenon DEF Min
<1>8. Min(S) = k
  <2>1. PICK x : x = Min(S) OBVIOUS
  <2>2. x \in Nat /\ k \in Nat /\ x <= k /\ k <= x BY <1>5, <1>6, <1>7, <2>1
  <2> QED BY <2>1, <2>2
<1> QED BY <1>1, <1>3, <1>8 DEF S

\* Undoing a leg keeps the invariant.
LEMMA UndoingKeepsInv == ASSUME StrategyInv, rollBackAcceptedLegs PROVE StrategyInv'
<1> DEFINE v == strategy
<1>1. v.at = "undoing" /\ IsExecution(v)
  <2>1. v.at = "undoing" BY DEF rollBackAcceptedLegs
  <2> QED BY <2>1 DEF StrategyInv, None
<1>2. PICK n \in Nat \ {0}, m \in Nat :
         /\ n = Len(v.legs) /\ DOMAIN v.legs = 1 .. n /\ m = Len(v.outcomes) /\ DOMAIN v.outcomes = 1 .. m
         /\ m <= n /\ DOMAIN v.ordered = 1 .. n /\ v.ordered \in [1 .. n -> Int]
         /\ \A i \in 1 .. n : v.legs[i] \in OptionLegs
         /\ \A i \in 1 .. m : v.outcomes[i] \in LegOutcomes BY <1>1, ExecutionParts
<1>3. v.undone \in Nat /\ v.undone < m - 1 BY <1>1, <1>2, ExecutionParts DEF IsExecution
<1>4. PICK k \in 1 .. m : k = v.undone + 1 /\ k <= m - 1 /\ k \in 1 .. n BY <1>2, <1>3
<1>5. PICK leg \in OptionLegs : leg = v.legs[k] BY <1>2, <1>4
<1>6. Min({j \in DOMAIN v.outcomes : v.outcomes[j].leg = leg /\ ~v.outcomes[j].rolledBack}) = k
  BY <1>1, <1>4, <1>5, UndoingIsMarked
<1>7. PICK accepted \in BOOLEAN, reached \in BOOLEAN : strategy' = [strategy EXCEPT
                !.undone = k,
                !.ordered[k] = IF accepted /\ reached THEN @ - Sign(leg) * leg.quantity ELSE @,
                !.astray = IF accepted /\ ~reached THEN @ \union {k} ELSE @,
                !.outcomes[k] = [@ EXCEPT !.rolledBack = TRUE, !.rollbackAccepted = accepted],
                !.at = IF k = m - 1 THEN "failed" ELSE "undoing"]
  <2> DEFINE i == strategy.undone + 1
             undone == strategy.legs[i]
             marked == Min({j \in DOMAIN strategy.outcomes :
                              strategy.outcomes[j].leg = undone /\ ~strategy.outcomes[j].rolledBack})
  <2>1. \E accepted, reached \in BOOLEAN : strategy' = [strategy EXCEPT
                !.undone = i,
                !.ordered[i] = IF accepted /\ reached THEN @ - Sign(undone) * undone.quantity ELSE @,
                !.astray = IF accepted /\ ~reached THEN @ \union {i} ELSE @,
                !.outcomes[marked] = [@ EXCEPT !.rolledBack = TRUE, !.rollbackAccepted = accepted],
                !.at = IF i = Len(strategy.outcomes) - 1 THEN "failed" ELSE "undoing"]
    BY Zenon DEF rollBackAcceptedLegs
  <2>2. i = k /\ undone = leg /\ Len(strategy.outcomes) = m BY <1>2, <1>4, <1>5
  <2>3. marked = k BY <1>6, <2>2
  <2> HIDE DEF i, undone, marked
  <2> QED BY <2>1, <2>2, <2>3, Zenon
<1>8. v.outcomes[k] \in LegOutcomes /\ v.outcomes[k].leg = leg /\ v.outcomes[k].accepted /\ ~v.outcomes[k].rolledBack
  <2>1. v.outcomes[k] \in LegOutcomes BY <1>2
  <2>2. /\ v.outcomes[k].leg = leg /\ (v.outcomes[k].accepted <=> (k < m \/ v.at \in {"submitting", "executed"}))
        /\ (v.outcomes[k].rolledBack <=> (k <= v.undone)) BY <1>1, <1>2, <1>5 DEF IsExecution
  <2> QED BY <1>3, <1>4, <2>1, <2>2
<1>9. PICK x : x = [v.outcomes[k] EXCEPT !.rolledBack = TRUE, !.rollbackAccepted = accepted] OBVIOUS
<1>10. x \in LegOutcomes /\ x.leg = leg /\ x.accepted /\ x.rolledBack /\ x.rollbackAccepted = accepted
  BY <1>8, <1>9 DEF LegOutcomes
<1>11. PICK o : o = [v.outcomes EXCEPT ![k] = x] OBVIOUS
<1>12. /\ o \in Seq(LegOutcomes) /\ Len(o) = m /\ DOMAIN o = 1 .. m /\ o[k] = x
       /\ \A i \in (1 .. m) \ {k} : o[i] = v.outcomes[i]
  <2>1. v.outcomes \in Seq(LegOutcomes) BY <1>1, ExecutionParts
  <2> HIDE DEF LegOutcomes
  <2> QED BY <1>2, <1>10, <1>11, <2>1
<1>13. PICK q \in Int : q = Sign(leg) * leg.quantity BY DEF Sign, OptionLegs
<1>14. v.ordered[k] = IF k \in v.astray THEN 0 ELSE q
  <2>1. CASE k \notin v.astray
    <3>1. v.ordered[k] = OrderedOf(v.outcomes[k]) BY <1>1, <1>2, <1>4, <2>1 DEF IsExecution
    <3> QED BY <1>8, <1>13, <2>1, <3>1 DEF OrderedOf
  <2>2. CASE k \in v.astray BY <1>1, <1>3, <1>4, <2>2 DEF IsExecution
  <2> QED BY <2>1, <2>2
<1>25. PICK astray : astray = IF accepted /\ ~reached THEN v.astray \union {k} ELSE v.astray OBVIOUS
<1>26. astray \subseteq 1 .. m /\ astray \subseteq Nat /\ astray \ {k} = v.astray \ {k}
  BY <1>1, <1>2, <1>25 DEF IsExecution
<1>15. PICK ordered : ordered = [v.ordered EXCEPT ![k] = IF accepted /\ reached THEN @ - q ELSE @] OBVIOUS
<1>16. /\ ordered \in [1 .. n -> Int] /\ ordered[k] \in {-q, 0, q}
       /\ k \notin astray => ordered[k] = (IF accepted THEN 0 ELSE q)
       /\ \A i \in (1 .. n) \ {k} : ordered[i] = v.ordered[i] BY <1>2, <1>4, <1>14, <1>15, <1>25
<1>17. PICK at : at = IF k = m - 1 THEN "failed" ELSE "undoing" OBVIOUS
<1>18. strategy' = [strategy EXCEPT !.undone = k, !.ordered = ordered, !.astray = astray, !.outcomes = o, !.at = at]
  BY <1>7, <1>9, <1>11, <1>13, <1>15, <1>17, <1>25
<1>19. PICK w : w = strategy' OBVIOUS
<1>20. /\ w \in Executions /\ w.at = at /\ w.outcomes = o /\ w.ordered = ordered /\ w.legs = v.legs
       /\ w.shape = v.shape /\ w.undone = k /\ w.astray = astray
  <2>1. v \in Executions /\ v.legs \in CandidateLegs BY <1>1, ExecutionParts DEF IsExecution
  <2>2. ordered \in UNION {[DOMAIN l -> Int] : l \in CandidateLegs} BY <1>2, <1>16, <2>1
  <2>3. PICK u \in Nat : u = k OBVIOUS
  <2>4. PICK O, L : O = Seq(LegOutcomes) /\ L = UNION {[DOMAIN l -> Int] : l \in CandidateLegs} OBVIOUS
  <2>5. at \in {"submitting", "executed", "undoing", "failed"} /\ o \in O /\ ordered \in L
    BY <1>12, <1>17, <2>2, <2>4
  <2>6. v \in [at : {"submitting", "executed", "undoing", "failed"}, shape : Shapes, legs : CandidateLegs,
               outcomes : O, undone : Nat, ordered : L, astray : SUBSET Nat] BY <2>1, <2>4 DEF Executions
  <2>7. strategy' = [v EXCEPT !.undone = u, !.ordered = ordered, !.astray = astray, !.outcomes = o, !.at = at]
    BY <1>18, <2>3
  <2>8. w \in [at : {"submitting", "executed", "undoing", "failed"}, shape : Shapes, legs : CandidateLegs,
               outcomes : O, undone : Nat, ordered : L, astray : SUBSET Nat] BY <1>19, <1>26, <2>5, <2>6, <2>7
  <2>9. /\ w.at = at /\ w.outcomes = o /\ w.ordered = ordered /\ w.legs = v.legs
        /\ w.shape = v.shape /\ w.undone = u /\ w.astray = astray BY <1>19, <2>6, <2>7
  <2> QED BY <2>3, <2>4, <2>8, <2>9 DEF Executions
<1>21. ValidateStrategyShape(w.shape, w.legs) BY <1>1, <1>20 DEF IsExecution
<1>22. ASSUME NEW i \in 1 .. m
       PROVE  o[i].leg = v.legs[i] /\ (o[i].accepted <=> (i < m \/ at \in {"submitting", "executed"})) /\ (o[i].rolledBack <=> (i <= k))
  <2>1. /\ v.outcomes[i].leg = v.legs[i] /\ (v.outcomes[i].accepted <=> (i < m \/ v.at \in {"submitting", "executed"}))
        /\ (v.outcomes[i].rolledBack <=> (i <= v.undone)) BY <1>1, <1>2 DEF IsExecution
  <2>2. CASE i = k BY <1>4, <1>5, <1>10, <1>12, <2>2
  <2>3. CASE i # k BY <1>1, <1>3, <1>4, <1>12, <1>17, <2>1, <2>3
  <2> QED BY <2>2, <2>3
<1>27. ASSUME NEW i \in astray
       PROVE  LET all == Sign(v.legs[i]) * v.legs[i].quantity
              IN ordered[i] \in {-all, 0, all} /\ (i > k => ordered[i] = 0)
  <2>1. CASE i = k BY <1>5, <1>13, <1>16, <2>1
  <2>2. CASE i # k
    <3>1. i \in v.astray /\ ordered[i] = v.ordered[i] /\ (i > k => i > v.undone)
      BY <1>2, <1>3, <1>4, <1>16, <1>26, <2>2
    <3> QED BY <1>1, <3>1 DEF IsExecution
  <2> QED BY <2>1, <2>2
<1>23. ASSUME NEW i \in (1 .. n) \ astray PROVE ordered[i] = IF i <= m THEN OrderedOf(o[i]) ELSE 0
  <2>1. CASE i = k BY <1>10, <1>12, <1>13, <1>16, <2>1 DEF OrderedOf
  <2>2. CASE i # k
    <3>1. i \in (DOMAIN v.legs) \ v.astray /\ ordered[i] = v.ordered[i] BY <1>2, <1>16, <1>26, <2>2
    <3>2. v.ordered[i] = IF i <= m THEN OrderedOf(v.outcomes[i]) ELSE 0 BY <1>1, <1>2, <3>1 DEF IsExecution
    <3> QED BY <1>12, <2>2, <3>1, <3>2
  <2> QED BY <2>1, <2>2
<1> HIDE DEF v, LegOutcomes, Executions, ValidateStrategyShape, OrderedOf
<1>24. IsExecution(w)
  <2>1. w.at # "submitting" /\ w.at # "executed" BY <1>17, <1>20
  <2>2. (w.at = "undoing" => k < m - 1) /\ (w.at = "failed" => k = m - 1) BY <1>2, <1>4, <1>17, <1>20
  <2>3. DOMAIN w.ordered = DOMAIN w.legs /\ Len(w.outcomes) = m /\ Len(w.legs) = n /\ DOMAIN w.legs = 1 .. n
    BY <1>2, <1>12, <1>16, <1>20
  <2>4. \A i \in 1 .. m :
           /\ w.outcomes[i].leg = w.legs[i]
           /\ (w.outcomes[i].accepted <=> (i < m \/ w.at \in {"submitting", "executed"}))
           /\ (w.outcomes[i].rolledBack <=> (i <= w.undone)) BY <1>20, <1>22
  <2>6. /\ w.astray \subseteq 1 .. m
        /\ \A i \in w.astray : LET all == Sign(w.legs[i]) * w.legs[i].quantity
                              IN w.ordered[i] \in {-all, 0, all} /\ (i > w.undone => w.ordered[i] = 0)
    BY <1>20, <1>26, <1>27
  <2>5. \A i \in (1 .. n) \ w.astray : w.ordered[i] = IF i <= m THEN OrderedOf(w.outcomes[i]) ELSE 0
    BY <1>20, <1>23
  <2> QED BY <1>2, <1>20, <1>21, <2>1, <2>2, <2>3, <2>4, <2>5, <2>6 DEF IsExecution
<1> QED BY <1>19, <1>24 DEF StrategyInv

\* Each step of a strategy keeps the invariant.
LEMMA StrategiesKeepInv == ASSUME StrategyInv, StrategyNext PROVE StrategyInv'
BY StrategyStarts, AnswersKeepInv, UndoingKeepsInv DEF StrategyNext

\* What a strategy has ordered of a leg is what its result says of it, but where an order
\* went astray.
LEMMA InvUndoesFailures == ASSUME StrategyInv PROVE FailedStrategiesAreUndone
<1> DEFINE v == strategy
           outcome(i) == v.outcomes[i]
           all(i) == Sign(outcome(i).leg) * outcome(i).leg.quantity
           couldNotUndo(i) == outcome(i).accepted /\ outcome(i).rolledBack /\ ~outcome(i).rollbackAccepted
<1> SUFFICES ASSUME v.at \in {"executed", "failed"}, NEW i \in DOMAIN v.outcomes
             PROVE  IF i \in v.astray THEN v.ordered[i] \in {-all(i), 0, all(i)}
                    ELSE v.ordered[i] = IF v.at = "executed" \/ couldNotUndo(i) THEN all(i) ELSE 0
  BY DEF FailedStrategiesAreUndone
<1>1. IsExecution(v) BY DEF StrategyInv, None
<1>2. PICK n \in Nat \ {0}, m \in Nat :
         /\ n = Len(v.legs) /\ DOMAIN v.legs = 1 .. n /\ m = Len(v.outcomes) /\ DOMAIN v.outcomes = 1 .. m
         /\ m <= n /\ \A j \in 1 .. m : v.outcomes[j] \in LegOutcomes BY <1>1, ExecutionParts
<1>3. v.outcomes[i].leg = v.legs[i] BY <1>1, <1>2 DEF IsExecution
<1>4. CASE i \in v.astray BY <1>1, <1>3, <1>4 DEF IsExecution
<1>5. CASE i \notin v.astray
  <2>1. v.ordered[i] = OrderedOf(v.outcomes[i]) BY <1>1, <1>2, <1>5 DEF IsExecution
  <2>2. /\ v.outcomes[i].accepted <=> (i < m \/ v.at \in {"submitting", "executed"})
        /\ v.outcomes[i].rolledBack <=> (i <= v.undone)
        /\ v.at = "failed" => v.undone = m - 1
        /\ v.at = "executed" => v.undone = 0 BY <1>1, <1>2 DEF IsExecution
  <2>3. IF v.at = "executed" THEN v.outcomes[i].accepted /\ ~v.outcomes[i].rolledBack
        ELSE v.outcomes[i].rolledBack <=> v.outcomes[i].accepted BY <1>2, <2>2
  <2>4. /\ v.outcomes[i].accepted \in BOOLEAN /\ v.outcomes[i].rolledBack \in BOOLEAN
        /\ v.outcomes[i].rollbackAccepted \in BOOLEAN BY <1>2 DEF LegOutcomes
  <2> HIDE DEF v
  <2> QED BY <1>5, <2>1, <2>3, <2>4 DEF OrderedOf
<1> QED BY <1>4, <1>5

--------------------
(* What a shape limits.                                                    *)

\* What a leg is worth at a price.
WorthOf(leg, spot) == Sign(leg) * leg.quantity * intrinsicValueAtSpot(leg, spot)

\* What is worth more is worth more at any quantity.
LEMMA MoreOfMore == ASSUME NEW q \in Nat, NEW a \in Int, NEW b \in Int, a <= b PROVE q * a <= q * b OBVIOUS

\* A bought leg is worth its intrinsic value, a sold one owes it.
LEMMA WorthOfLeg ==
  ASSUME NEW leg \in OptionLegs, NEW spot \in Nat
  PROVE  /\ intrinsicValueAtSpot(leg, spot) \in Nat /\ leg.quantity \in Nat /\ WorthOf(leg, spot) \in Int
         /\ leg.buy => WorthOf(leg, spot) = leg.quantity * intrinsicValueAtSpot(leg, spot)
         /\ ~leg.buy => WorthOf(leg, spot) = -(leg.quantity * intrinsicValueAtSpot(leg, spot))
<1>1. PICK v \in Nat : v = intrinsicValueAtSpot(leg, spot) BY DEF intrinsicValueAtSpot, OptionLegs
<1>2. PICK q \in Nat : q = leg.quantity BY DEF OptionLegs
<1>3. leg.buy \in BOOLEAN BY DEF OptionLegs
<1>4. PICK p \in Int : p = q * v OBVIOUS
<1>5. 1 * q * v = p /\ (-1) * q * v = -p BY <1>4
<1> QED BY <1>1, <1>2, <1>3, <1>4, <1>5 DEF WorthOf, Sign

\* What a strategy is worth is what its legs are worth.
LEMMA WorthOfLegs ==
  ASSUME NEW legs \in CandidateLegs, NEW spot \in Nat
  PROVE  \E f : /\ DOMAIN f = DOMAIN legs /\ \A i \in DOMAIN legs : f[i] = WorthOf(legs[i], spot) /\ f[i] \in Int
                /\ IntrinsicAtSpot(legs, spot) = SumFunctionOnSet(f, DOMAIN legs)
<1>1. PICK n \in Nat \ {0} : DOMAIN legs = 1 .. n /\ \A i \in 1 .. n : legs[i] \in OptionLegs BY LegShapes
<1> DEFINE f == [i \in DOMAIN legs |-> WorthOf(legs[i], spot)]
<1>2. IntrinsicAtSpot(legs, spot) = SumFunction(f) BY DEF IntrinsicAtSpot, LegTotal, WorthOf
<1>3. DOMAIN f = DOMAIN legs /\ \A i \in DOMAIN legs : f[i] = WorthOf(legs[i], spot) /\ f[i] \in Int
  BY <1>1, WorthOfLeg
<1>4. IntOn(f, DOMAIN legs) /\ IsFiniteSet(DOMAIN legs) BY <1>1, <1>3, FS_Interval DEF IntOn
<1> HIDE DEF f
<1>5. SumFunction(f) = SumFunctionOnSet(f, DOMAIN legs) BY <1>3, <1>4, SumOfFunction
<1> QED BY <1>2, <1>3, <1>5

\* The legs of a straddle or a strangle are worth something together unless they are sold.
LEMMA PairsAreWorthIt ==
  ASSUME NEW legs \in CandidateLegs, NEW spot \in Nat, validateStraddle(legs) \/ validateStrangle(legs)
  PROVE  ~legs[1].buy \/ IntrinsicAtSpot(legs, spot) >= 0
<1> SUFFICES ASSUME legs[1].buy  PROVE IntrinsicAtSpot(legs, spot) >= 0 OBVIOUS
<1>1. PICK n \in Nat \ {0} : n = Len(legs) /\ DOMAIN legs = 1 .. n /\ \A i \in 1 .. n : legs[i] \in OptionLegs
  BY LegShapes
<1>2. PICK call, put \in DOMAIN legs :
         /\ legsOfType(legs, "CALL") = {call} /\ legsOfType(legs, "PUT") = {put}
         /\ legs[call].buy = legs[put].buy BY DEF validateStraddle, validateStrangle, validatePair
<1>3. \A i \in DOMAIN legs : legs[i].type \in {"CALL", "PUT"} BY <1>1 DEF OptionLegs
<1>4. call # put /\ DOMAIN legs = {call, put} BY <1>2, <1>3 DEF legsOfType
<1>5. legs[call].buy /\ legs[put].buy
  <2>1. 1 = call \/ 1 = put BY <1>1, <1>4
  <2> QED BY <1>2, <2>1
<1>6. PICK f : /\ DOMAIN f = DOMAIN legs /\ \A i \in DOMAIN legs : f[i] = WorthOf(legs[i], spot) /\ f[i] \in Int
               /\ IntrinsicAtSpot(legs, spot) = SumFunctionOnSet(f, DOMAIN legs) BY WorthOfLegs
<1>7. IntrinsicAtSpot(legs, spot) = f[call] + f[put] BY <1>4, <1>6, SumOfTwo
<1>8. f[call] \in Nat /\ f[put] \in Nat
  <2>1. ASSUME NEW i \in DOMAIN legs, legs[i].buy PROVE f[i] \in Nat
    <3>1. PICK leg \in OptionLegs : leg = legs[i] BY <1>1
    <3>2. PICK q \in Nat, v \in Nat : q = leg.quantity /\ v = intrinsicValueAtSpot(leg, spot) BY WorthOfLeg
    <3>3. f[i] = q * v BY <1>6, <2>1, <3>1, <3>2, WorthOfLeg
    <3> QED BY <3>3
  <2> QED BY <1>5, <2>1
<1> QED BY <1>7, <1>8

\* A leg bought and a leg sold in the same quantity are worth that much of the difference.
SpreadIsPriced(bought, sold, spot, q, b, s) ==
  /\ q = bought.quantity /\ b = intrinsicValueAtSpot(bought, spot) /\ s = intrinsicValueAtSpot(sold, spot)
  /\ WorthOf(bought, spot) + WorthOf(sold, spot) = q * (b - s)

\* Of two legs of the same kind and quantity, what is bought is worth no less than what is
\* sold if its intrinsic value is no less.
LEMMA SpreadIsWorth ==
  ASSUME NEW bought \in OptionLegs, NEW sold \in OptionLegs, NEW spot \in Nat,
         bought.buy, ~sold.buy, bought.quantity = sold.quantity
  PROVE  \E q \in Nat, b \in Nat, s \in Nat : SpreadIsPriced(bought, sold, spot, q, b, s)
<1>1. PICK q \in Nat, b \in Nat, s \in Nat :
         /\ q = bought.quantity /\ b = intrinsicValueAtSpot(bought, spot) /\ s = intrinsicValueAtSpot(sold, spot)
  BY WorthOfLeg
<1>2. WorthOf(bought, spot) = q * b /\ WorthOf(sold, spot) = -(q * s) BY <1>1, WorthOfLeg
<1>3. q * b + (-(q * s)) = q * (b - s) OBVIOUS
<1> QED BY <1>1, <1>2, <1>3 DEF SpreadIsPriced

\* The worth of a vertical spread: its quantity times the difference of two values, which is
\* no loss when the better leg is bought and no more than the width otherwise.
IsSpreadOf(legs, spot, type, lower, higher, l, q, a, b, v) ==
  /\ lower # higher /\ legs[lower].type = type /\ legs[higher].type = type
  /\ q = legs[1].quantity /\ a = legs[lower].strike /\ b = legs[higher].strike /\ a < b
  /\ WorthOf(legs[lower], spot) + WorthOf(legs[higher], spot) = q * v
  /\ (l <=> type = "CALL") => v >= 0
  /\ (l <=> type = "PUT") => v >= a - b
  /\ type = "CALL" /\ spot <= a => v = 0
  /\ type = "PUT" /\ spot >= b => v = 0

\* The legs of a vertical spread of a strategy whose quantities agree.
LEMMA VerticalIsWorth ==
  ASSUME NEW legs \in CandidateLegs, NEW spot \in Nat, SameQuantity(legs),
         NEW type \in {"CALL", "PUT"}, NEW lower \in DOMAIN legs, NEW higher \in DOMAIN legs, NEW l \in BOOLEAN,
         IsVertical(legs, type, lower, higher, l)
  PROVE  \E q \in Nat, a \in Nat, b \in Nat, v \in Int :
            IsSpreadOf(legs, spot, type, lower, higher, l, q, a, b, v)
<1>1. PICK n \in Nat \ {0} : n = Len(legs) /\ DOMAIN legs = 1 .. n /\ \A i \in 1 .. n : legs[i] \in OptionLegs
  BY LegShapes
<1>2. PICK x \in OptionLegs, y \in OptionLegs : x = legs[lower] /\ y = legs[higher] BY <1>1
<1>3. /\ x.type = type /\ y.type = type /\ x.strike < y.strike /\ lower # higher
      /\ x.quantity = legs[1].quantity /\ y.quantity = legs[1].quantity
      /\ x.buy = l /\ y.buy = ~l
  <2>1. lower \in legsOfType(legs, type) /\ higher \in legsOfType(legs, type) BY DEF IsVertical
  <2>2. x.strike < y.strike /\ x.buy = l /\ y.buy = ~l BY <1>2 DEF IsVertical
  <2>3. x.strike \in Nat /\ y.strike \in Nat BY DEF OptionLegs
  <2>4. x.type = type /\ y.type = type BY <1>2, <2>1 DEF legsOfType
  <2>5. lower # higher BY <1>2, <2>2, <2>3
  <2>6. x.quantity = legs[1].quantity /\ y.quantity = legs[1].quantity BY <1>1, <1>2 DEF SameQuantity
  <2> QED BY <2>2, <2>4, <2>5, <2>6
<1>4. PICK q \in Nat, a \in Nat, b \in Nat : q = legs[1].quantity /\ a = x.strike /\ b = y.strike /\ a < b
  BY <1>3 DEF OptionLegs
<1>5. PICK c \in Nat, d \in Nat :
         /\ c = intrinsicValueAtSpot(x, spot) /\ d = intrinsicValueAtSpot(y, spot) BY WorthOfLeg
<1>6. /\ type = "CALL" => /\ c = IF spot - a > 0 THEN spot - a ELSE 0
                          /\ d = IF spot - b > 0 THEN spot - b ELSE 0
      /\ type = "PUT" => /\ c = IF a - spot > 0 THEN a - spot ELSE 0
                         /\ d = IF b - spot > 0 THEN b - spot ELSE 0
  BY <1>3, <1>4, <1>5 DEF intrinsicValueAtSpot
<1>7. PICK v \in Int : (l => v = c - d) /\ (~l => v = d - c)
  <2>1. c - d \in Int /\ d - c \in Int OBVIOUS
  <2>2. CASE l BY <2>1, <2>2
  <2>3. CASE ~l BY <2>1, <2>3
  <2> QED BY <2>2, <2>3
<1>8. WorthOf(x, spot) + WorthOf(y, spot) = q * v
  <2>1. CASE l
    <3>1. x.buy /\ ~y.buy /\ x.quantity = y.quantity /\ q = x.quantity BY <1>3, <1>4, <2>1
    <3>6. PICK r \in Nat, s \in Nat, t \in Nat : SpreadIsPriced(x, y, spot, r, s, t) BY <3>1, SpreadIsWorth
    <3>2. /\ r = x.quantity /\ s = intrinsicValueAtSpot(x, spot) /\ t = intrinsicValueAtSpot(y, spot)
          /\ WorthOf(x, spot) + WorthOf(y, spot) = r * (s - t) BY <3>6 DEF SpreadIsPriced
    <3>4. r = q /\ s = c /\ t = d BY <1>5, <3>1, <3>2
    <3>5. WorthOf(x, spot) + WorthOf(y, spot) = q * (c - d) BY <3>2, <3>4
    <3> QED BY <1>7, <2>1, <3>5
  <2>2. CASE ~l
    <3>1. y.buy /\ ~x.buy /\ x.quantity = y.quantity /\ q = y.quantity BY <1>3, <1>4, <2>2
    <3>6. PICK r \in Nat, s \in Nat, t \in Nat : SpreadIsPriced(y, x, spot, r, s, t) BY <3>1, SpreadIsWorth
    <3>2. /\ r = y.quantity /\ s = intrinsicValueAtSpot(y, spot) /\ t = intrinsicValueAtSpot(x, spot)
          /\ WorthOf(y, spot) + WorthOf(x, spot) = r * (s - t) BY <3>6 DEF SpreadIsPriced
    <3>4. r = q /\ s = d /\ t = c BY <1>5, <3>1, <3>2
    <3>5. WorthOf(y, spot) + WorthOf(x, spot) = q * (d - c) BY <3>2, <3>4
    <3>3. WorthOf(x, spot) \in Int /\ WorthOf(y, spot) \in Int BY WorthOfLeg
    <3>7. PICK X \in Int, Y \in Int : X = WorthOf(x, spot) /\ Y = WorthOf(y, spot) BY <3>3
    <3>8. X + Y = Y + X OBVIOUS
    <3>9. v = d - c BY <1>7, <2>2
    <3> QED BY <3>5, <3>7, <3>8, <3>9
  <2> QED BY <2>1, <2>2
<1>9. /\ (l <=> type = "CALL") => v >= 0
      /\ (l <=> type = "PUT") => v >= a - b
      /\ type = "CALL" /\ spot <= a => v = 0
      /\ type = "PUT" /\ spot >= b => v = 0
  <2>1. CASE type = "CALL" BY <1>4, <1>6, <1>7, <2>1
  <2>2. CASE type = "PUT" BY <1>4, <1>6, <1>7, <2>2
  <2> QED BY <2>1, <2>2
<1> QED BY <1>2, <1>3, <1>4, <1>8, <1>9 DEF IsSpreadOf

\* A spread of calls or of puts is worth something at every price.
LEMMA SpreadsAreWorthIt ==
  ASSUME NEW legs \in CandidateLegs, NEW spot \in Nat,
         validateBullCallSpread(legs) \/ validateBearPutSpread(legs)
  PROVE  IntrinsicAtSpot(legs, spot) >= 0
<1>1. PICK n \in Nat \ {0} : n = Len(legs) /\ DOMAIN legs = 1 .. n /\ \A i \in 1 .. n : legs[i] \in OptionLegs
  BY LegShapes
<1>2. PICK type \in {"CALL", "PUT"}, l \in BOOLEAN : \E lower, higher \in DOMAIN legs :
         /\ (l <=> type = "CALL") /\ n = 2 /\ SameQuantity(legs) /\ IsVertical(legs, type, lower, higher, l)
  <2>1. CASE validateBullCallSpread(legs) BY <1>1, <2>1 DEF validateBullCallSpread
  <2>2. CASE validateBearPutSpread(legs) BY <1>1, <2>2 DEF validateBearPutSpread
  <2> QED BY <2>1, <2>2
<1>3. PICK lower, higher \in DOMAIN legs :
         /\ (l <=> type = "CALL") /\ n = 2 /\ SameQuantity(legs) /\ IsVertical(legs, type, lower, higher, l)
  BY <1>2
<1>40. PICK q \in Nat, a \in Nat, b \in Nat, v \in Int : IsSpreadOf(legs, spot, type, lower, higher, l, q, a, b, v)
  BY <1>3, VerticalIsWorth
<1>4. /\ lower # higher
      /\ WorthOf(legs[lower], spot) + WorthOf(legs[higher], spot) = q * v
      /\ (l <=> type = "CALL") => v >= 0 BY <1>40 DEF IsSpreadOf
<1>5. DOMAIN legs = {lower, higher} BY <1>1, <1>3, <1>4
<1>6. PICK f : /\ DOMAIN f = DOMAIN legs /\ \A i \in DOMAIN legs : f[i] = WorthOf(legs[i], spot) /\ f[i] \in Int
               /\ IntrinsicAtSpot(legs, spot) = SumFunctionOnSet(f, DOMAIN legs) BY WorthOfLegs
<1>7. IntrinsicAtSpot(legs, spot) = f[lower] + f[higher] BY <1>4, <1>5, <1>6, SumOfTwo
<1>8. f[lower] + f[higher] = q * v BY <1>4, <1>6
<1>9. v \in Nat /\ q * v >= 0 BY <1>3, <1>4
<1> QED BY <1>7, <1>8, <1>9

\* A condor loses no more than one of its wings.
LEMMA CondorsLoseAWing ==
  ASSUME NEW legs \in CandidateLegs, NEW spot \in Nat, validateIronCondor(legs)
  PROVE  \E i, j \in DOMAIN legs :
            /\ legs[i].type = legs[j].type
            /\ IntrinsicAtSpot(legs, spot) >= -(legs[1].quantity * (legs[j].strike - legs[i].strike))
<1>1. PICK n \in Nat \ {0} : n = Len(legs) /\ DOMAIN legs = 1 .. n /\ \A i \in 1 .. n : legs[i] \in OptionLegs
  BY LegShapes
<1>2. PICK k, l, c, d \in DOMAIN legs :
         /\ IsVertical(legs, "PUT", k, l, TRUE) /\ IsVertical(legs, "CALL", c, d, FALSE)
         /\ legs[l].strike <= legs[c].strike BY DEF validateIronCondor
<1>3. SameQuantity(legs) BY DEF validateIronCondor
<1>40. PICK q \in Nat, x \in Nat, y \in Nat, v \in Int : IsSpreadOf(legs, spot, "PUT", k, l, TRUE, q, x, y, v)
  BY <1>2, <1>3, VerticalIsWorth
<1>4.    /\ k # l /\ legs[k].type = "PUT" /\ legs[l].type = "PUT"
         /\ q = legs[1].quantity /\ x = legs[k].strike /\ y = legs[l].strike /\ x < y
         /\ WorthOf(legs[k], spot) + WorthOf(legs[l], spot) = q * v
         /\ v >= x - y /\ (spot >= y => v = 0) BY <1>40 DEF IsSpreadOf
<1>50. PICK r \in Nat, z \in Nat, t \in Nat, w \in Int : IsSpreadOf(legs, spot, "CALL", c, d, FALSE, r, z, t, w)
  BY <1>2, <1>3, VerticalIsWorth
<1>5.    /\ c # d /\ legs[c].type = "CALL" /\ legs[d].type = "CALL"
         /\ r = legs[1].quantity /\ z = legs[c].strike /\ t = legs[d].strike /\ z < t
         /\ WorthOf(legs[c], spot) + WorthOf(legs[d], spot) = r * w
         /\ w >= z - t /\ (spot <= z => w = 0) BY <1>50 DEF IsSpreadOf
<1>6. DOMAIN legs = {k, l, c, d} /\ k # c /\ k # d /\ l # c /\ l # d
  BY <1>2, <1>1, <1>4, <1>5 DEF IsVertical, OptionLegs, legsOfType
<1>7. PICK f : /\ DOMAIN f = DOMAIN legs /\ \A i \in DOMAIN legs : f[i] = WorthOf(legs[i], spot) /\ f[i] \in Int
               /\ IntrinsicAtSpot(legs, spot) = SumFunctionOnSet(f, DOMAIN legs) BY WorthOfLegs
<1>8. f[k] \in Int /\ f[l] \in Int /\ f[c] \in Int /\ f[d] \in Int BY <1>7
<1>9. IntrinsicAtSpot(legs, spot) = f[k] + f[l] + f[c] + f[d] BY <1>4, <1>5, <1>6, <1>7, <1>8, SumOfFour
<1>10. f[k] + f[l] = q * v /\ f[c] + f[d] = q * w BY <1>4, <1>5, <1>7
<1>11. f[k] + f[l] + f[c] + f[d] = (f[k] + f[l]) + (f[c] + f[d]) BY <1>8
<1>12. IntrinsicAtSpot(legs, spot) = q * v + q * w BY <1>9, <1>10, <1>11
<1>13. y <= z BY <1>2, <1>4, <1>5
<1>14. CASE spot <= z
  <2>1. w = 0 /\ q * w = 0 BY <1>5, <1>14
  <2>2. q * v >= -(q * (y - x)) BY <1>4, MoreOfMore
  <2>3. q * v \in Int OBVIOUS
  <2>4. IntrinsicAtSpot(legs, spot) >= -(q * (y - x)) BY <1>12, <2>1, <2>2, <2>3
  <2>5. legs[k].type = legs[l].type BY <1>4
  <2> QED BY <1>4, <2>4, <2>5
<1>15. CASE spot > z
  <2>1. v = 0 /\ q * v = 0 BY <1>4, <1>13, <1>15
  <2>2. q * w >= -(q * (t - z)) BY <1>5, MoreOfMore
  <2>3. q * w \in Int OBVIOUS
  <2>4. IntrinsicAtSpot(legs, spot) >= -(q * (t - z)) BY <1>12, <2>1, <2>2, <2>3
  <2>5. legs[c].type = legs[d].type BY <1>5
  <2> QED BY <1>4, <1>5, <2>4, <2>5
<1> QED BY <1>14, <1>15

\* A butterfly is worth something at every price.
LEMMA ButterfliesAreWorthIt ==
  ASSUME NEW legs \in CandidateLegs, NEW spot \in Nat, validateButterfly(legs)
  PROVE  IntrinsicAtSpot(legs, spot) >= 0
<1>1. PICK n \in Nat \ {0} : n = Len(legs) /\ DOMAIN legs = 1 .. n /\ \A i \in 1 .. n : legs[i] \in OptionLegs
  BY LegShapes
<1>2. PICK i, j, k \in DOMAIN legs :
          /\ legsOfType(legs, "CALL") = {i, j, k}
          /\ legs[i].strike < legs[j].strike
          /\ legs[j].strike - legs[i].strike = legs[k].strike - legs[j].strike
          /\ legs[i].buy /\ legs[k].buy /\ ~legs[j].buy
          /\ legs[j].quantity = 2 * legs[i].quantity
          /\ legs[i].quantity = legs[k].quantity BY DEF validateButterfly
<1>3. n = 3 BY <1>1 DEF validateButterfly
<1>4. PICK x \in OptionLegs, y \in OptionLegs, z \in OptionLegs : x = legs[i] /\ y = legs[j] /\ z = legs[k]
  BY <1>1
<1>5. PICK a \in Nat, b \in Nat, c \in Nat, q \in Nat :
         a = x.strike /\ b = y.strike /\ c = z.strike /\ q = x.quantity BY DEF OptionLegs
<1>6. a < b /\ b - a = c - b /\ b < c BY <1>2, <1>4, <1>5
<1>7. i # j /\ i # k /\ j # k BY <1>4, <1>5, <1>6
<1>8. DOMAIN legs = {i, j, k} BY <1>1, <1>3, <1>7
<1>9. x.type = "CALL" /\ y.type = "CALL" /\ z.type = "CALL" BY <1>2, <1>4 DEF legsOfType
<1>10. PICK u \in Nat, v \in Nat, w \in Nat :
          u = intrinsicValueAtSpot(x, spot) /\ v = intrinsicValueAtSpot(y, spot) /\ w = intrinsicValueAtSpot(z, spot)
  BY WorthOfLeg
<1>11. u + w >= 2 * v BY <1>5, <1>9, <1>10, <1>6 DEF intrinsicValueAtSpot
<1>12. PICK f : /\ DOMAIN f = DOMAIN legs /\ \A m \in DOMAIN legs : f[m] = WorthOf(legs[m], spot) /\ f[m] \in Int
                /\ IntrinsicAtSpot(legs, spot) = SumFunctionOnSet(f, DOMAIN legs) BY WorthOfLegs
<1>13. IntrinsicAtSpot(legs, spot) = f[i] + f[j] + f[k] BY <1>7, <1>8, <1>12, SumOfThree
<1>14. f[i] = q * u /\ f[j] = -((2 * q) * v) /\ f[k] = q * w
  <2>1. x.buy /\ z.buy /\ ~y.buy /\ y.quantity = 2 * q /\ z.quantity = q BY <1>2, <1>4, <1>5
  <2>2. f[i] = WorthOf(x, spot) /\ f[j] = WorthOf(y, spot) /\ f[k] = WorthOf(z, spot) BY <1>4, <1>12
  <2>3. WorthOf(x, spot) = q * u BY <1>5, <1>10, <2>1, WorthOfLeg
  <2>4. WorthOf(y, spot) = -(y.quantity * v) BY <1>10, <2>1, WorthOfLeg
  <2>5. WorthOf(z, spot) = q * w BY <1>10, <2>1, WorthOfLeg
  <2> QED BY <2>1, <2>2, <2>3, <2>4, <2>5
<1>15. q * (2 * v) <= q * (u + w) BY <1>11, MoreOfMore
<1>16. q * u + (-((2 * q) * v)) + q * w = q * (u + w) - q * (2 * v) OBVIOUS
<1>17. q * (u + w) - q * (2 * v) >= 0 BY <1>15
<1> QED BY <1>13, <1>14, <1>16, <1>17

\* The shape of a strategy bounds what it can owe.
LEMMA InvLimitsTheRisk == ASSUME StrategyInv PROVE ShapesLimitTheRisk
<1> SUFFICES ASSUME strategy # None, NEW spot \in SettlementPrices
    PROVE  \/ strategy.shape \in {"STRADDLE", "STRANGLE"} /\ ~strategy.legs[1].buy
           \/ /\ strategy.shape = "IRON_CONDOR"
              /\ \E i, j \in DOMAIN strategy.legs :
                    /\ strategy.legs[i].type = strategy.legs[j].type
                    /\ IntrinsicAtSpot(strategy.legs, spot)
                         >= -(strategy.legs[1].quantity * (strategy.legs[j].strike - strategy.legs[i].strike))
           \/ strategy.shape # "IRON_CONDOR" /\ IntrinsicAtSpot(strategy.legs, spot) >= 0
  BY Zenon DEF ShapesLimitTheRisk
<1>1. PICK legs, shape : legs = strategy.legs /\ shape = strategy.shape OBVIOUS
<1>2. legs \in CandidateLegs /\ spot \in Nat /\ ValidateStrategyShape(shape, legs)
  BY <1>1, CompositeAssumption DEF StrategyInv, IsExecution, Executions
<1>3. CASE shape = "STRADDLE" /\ validateStraddle(legs) BY <1>1, <1>2, <1>3, PairsAreWorthIt
<1>4. CASE shape = "STRANGLE" /\ validateStrangle(legs) BY <1>1, <1>2, <1>4, PairsAreWorthIt
<1>5. CASE shape = "BULL_CALL_SPREAD" /\ validateBullCallSpread(legs) BY <1>1, <1>2, <1>5, SpreadsAreWorthIt
<1>6. CASE shape = "BEAR_PUT_SPREAD" /\ validateBearPutSpread(legs) BY <1>1, <1>2, <1>6, SpreadsAreWorthIt
<1>7. CASE shape = "IRON_CONDOR" /\ validateIronCondor(legs) BY <1>1, <1>2, <1>7, CondorsLoseAWing
<1>8. CASE shape = "BUTTERFLY" /\ validateButterfly(legs) BY <1>1, <1>2, <1>8, ButterfliesAreWorthIt
<1> QED BY <1>2, <1>3, <1>4, <1>5, <1>6, <1>7, <1>8 DEF ValidateStrategyShape

--------------------
(* Payoff diagrams.                                                        *)

\* The numbers a function gives a finite set are finitely many.
LEMMA FiniteImage == ASSUME NEW S, IsFiniteSet(S), NEW f PROVE IsFiniteSet({f[x] : x \in S})
<1> DEFINE T == {f[x] : x \in S}
           g == [x \in S |-> f[x]]
<1>1. g \in Surjection(S, T) BY DEF Surjection
<1> HIDE DEF g, T
<1>2. IsFiniteSet(T) BY <1>1, FS_Surjection
<1> QED BY <1>2 DEF T

\* Finitely many integers have a greatest and a least.
LEMMA ExtremesExist ==
  ASSUME NEW S, IsFiniteSet(S), S \subseteq Int, S # {}
  PROVE  (\E x \in S : \A y \in S : x >= y) /\ (\E x \in S : \A y \in S : x <= y)
<1> DEFINE Has(U) == (\E x \in U : \A y \in U : x >= y) /\ (\E x \in U : \A y \in U : x <= y)
           Bad == {U \in SUBSET S : U # {} /\ ~Has(U)}
<1>1. Bad = {}
  <2> SUFFICES ASSUME Bad # {}  PROVE FALSE OBVIOUS
  <2>1. PICK U \in Bad : \A V \in Bad : Cardinality(U) <= Cardinality(V) BY SmallestSubset
  <2>2. U \in SUBSET S /\ U # {} /\ ~Has(U) /\ IsFiniteSet(U) /\ U \subseteq Int BY FS_Subset
  <2>3. PICK x \in U : x \in Int BY <2>2
  <2> DEFINE V == U \ {x}
  <2>4. V # {} BY <2>2, <2>3
  <2>5. Has(V)
    <3>1. Cardinality(U) \in Nat /\ Cardinality(V) \in Nat /\ Cardinality(V) < Cardinality(U)
      BY <2>2, OneFewer
    <3>2. ~(Cardinality(U) <= Cardinality(V)) BY <3>1
    <3>3. V \notin Bad
      <4> HIDE DEF Bad, V
      <4> QED BY <2>1, <3>2
    <3> QED BY <2>2, <2>4, <3>3
  <2>6. PICK g \in V, l \in V : (\A y \in V : g >= y) /\ (\A y \in V : l <= y) BY <2>5
  <2>7. g \in Int /\ l \in Int /\ g \in U /\ l \in U /\ \A y \in U : y = x \/ y \in V BY <2>2, <2>6
  <2>8. \E z \in U : \A y \in U : z >= y
    <3>1. CASE g >= x BY <2>2, <2>6, <2>7, <3>1
    <3>2. CASE g < x BY <2>2, <2>3, <2>6, <2>7, <3>2
    <3> QED BY <2>3, <2>7, <3>1, <3>2
  <2>9. \E z \in U : \A y \in U : z <= y
    <3>1. CASE l <= x BY <2>2, <2>6, <2>7, <3>1
    <3>2. CASE l > x BY <2>2, <2>3, <2>6, <2>7, <3>2
    <3> QED BY <2>3, <2>7, <3>1, <3>2
  <2> QED BY <2>2, <2>8, <2>9
<1>2. S \in SUBSET S /\ S \notin Bad BY <1>1
<1> QED BY <1>2

\* What Max and Min choose.
LEMMA MaxAndMin ==
  ASSUME NEW S, IsFiniteSet(S), S \subseteq Int, S # {}
  PROVE  /\ Max(S) \in S /\ Max(S) \in Int /\ \A y \in S : y <= Max(S)
         /\ Min(S) \in S /\ Min(S) \in Int /\ \A y \in S : Min(S) <= y
<1>1. (\E x \in S : \A y \in S : x >= y) /\ (\E x \in S : \A y \in S : x <= y) BY ExtremesExist
<1>2. Max(S) \in S /\ \A y \in S : Max(S) >= y BY <1>1, Zenon DEF Max
<1>3. Min(S) \in S /\ \A y \in S : Min(S) <= y BY <1>1, Zenon DEF Min
<1>4. PICK m, n : m = Max(S) /\ n = Min(S) OBVIOUS
<1>5. m \in Int /\ n \in Int /\ m \in S /\ n \in S /\ (\A y \in S : y <= m) /\ (\A y \in S : n <= y)
  BY <1>2, <1>3, <1>4
<1> QED BY <1>4, <1>5

\* What a leg earns at a price, and how that changes with the price above p where no strike
\* comes next.
EarningOf(leg, x) == Sign(leg) * leg.quantity * (intrinsicValueAtSpot(leg, x) - leg.premium)

GradeOf(leg, p) ==
  Sign(leg) * leg.quantity * (IF leg.type = "CALL" THEN IF leg.strike <= p THEN 1 ELSE 0
                              ELSE IF leg.strike <= p THEN 0 ELSE -1)

\* A leg earns along a straight line where it has no strike.
LEMMA LegsAreStraight ==
  ASSUME NEW leg \in OptionLegs, NEW p \in Nat, NEW x \in Nat, p <= x, leg.strike <= p \/ leg.strike >= x
  PROVE  /\ EarningOf(leg, x) \in Int /\ EarningOf(leg, p) \in Int /\ GradeOf(leg, p) \in Int
         /\ EarningOf(leg, x) = EarningOf(leg, p) + (x - p) * GradeOf(leg, p)
<1>1. PICK k \in Nat, r \in Nat, q \in Nat : k = leg.strike /\ r = leg.premium /\ q = leg.quantity
  BY DEF OptionLegs
<1>2. PICK s \in Int : s = Sign(leg) BY DEF Sign
<1>3. PICK v \in Nat, w \in Nat : v = intrinsicValueAtSpot(leg, p) /\ w = intrinsicValueAtSpot(leg, x)
  BY DEF intrinsicValueAtSpot, OptionLegs
<1>4. PICK e \in Int : e = IF leg.type = "CALL" THEN IF leg.strike <= p THEN 1 ELSE 0
                           ELSE IF leg.strike <= p THEN 0 ELSE -1 OBVIOUS
<1>5. w = v + (x - p) * e
  <2>1. CASE leg.type = "CALL"
    <3>1. v = (IF p - k > 0 THEN p - k ELSE 0) /\ w = (IF x - k > 0 THEN x - k ELSE 0)
      BY <1>1, <1>3, <2>1 DEF intrinsicValueAtSpot
    <3>2. CASE k <= p BY <1>1, <1>4, <2>1, <3>2, <3>1
    <3>3. CASE ~(k <= p) BY <1>1, <1>4, <2>1, <3>3, <3>1
    <3> QED BY <3>2, <3>3
  <2>2. CASE leg.type # "CALL"
    <3>1. v = (IF k - p > 0 THEN k - p ELSE 0) /\ w = (IF k - x > 0 THEN k - x ELSE 0)
      BY <1>1, <1>3, <2>2 DEF intrinsicValueAtSpot
    <3>2. CASE k <= p BY <1>1, <1>4, <2>2, <3>2, <3>1
    <3>3. CASE ~(k <= p) BY <1>1, <1>4, <2>2, <3>3, <3>1
    <3> QED BY <3>2, <3>3
  <2> QED BY <2>1, <2>2
<1>6. EarningOf(leg, x) = s * q * (w - r) /\ EarningOf(leg, p) = s * q * (v - r) /\ GradeOf(leg, p) = s * q * e
  BY <1>1, <1>2, <1>3, <1>4 DEF EarningOf, GradeOf
<1>7. PICK g \in Int : g = s * q OBVIOUS
<1>8. g * (w - r) = g * (v - r) + (x - p) * (g * e) BY <1>5
<1> QED BY <1>6, <1>7, <1>8

SlopeOf(legs, p) == SumFunction([i \in DOMAIN legs |-> GradeOf(legs[i], p)])

\* So does a strategy between neighbouring strikes.
LEMMA PayoffsAreStraight ==
  ASSUME NEW legs \in CandidateLegs, NEW p \in Nat, NEW x \in Nat, p <= x,
         \A i \in DOMAIN legs : legs[i].strike <= p \/ legs[i].strike >= x
  PROVE  /\ PayoffAtSpotPrice(legs, x) \in Int /\ PayoffAtSpotPrice(legs, p) \in Int /\ SlopeOf(legs, p) \in Int
         /\ PayoffAtSpotPrice(legs, x) = PayoffAtSpotPrice(legs, p) + (x - p) * SlopeOf(legs, p)
<1>1. PICK n \in Nat \ {0} : DOMAIN legs = 1 .. n /\ \A i \in 1 .. n : legs[i] \in OptionLegs BY LegShapes
<1>2. PICK D : D = DOMAIN legs /\ IsFiniteSet(D) BY <1>1, FS_Interval
<1> DEFINE f == [i \in DOMAIN legs |-> EarningOf(legs[i], p)]
           g == [i \in DOMAIN legs |-> GradeOf(legs[i], p)]
           h == [i \in DOMAIN legs |-> EarningOf(legs[i], x)]
           s == [i \in DOMAIN legs |-> (x - p) * GradeOf(legs[i], p)]
<1>3. /\ PayoffAtSpotPrice(legs, p) = SumFunction(f) /\ PayoffAtSpotPrice(legs, x) = SumFunction(h)
      /\ SlopeOf(legs, p) = SumFunction(g) BY DEF PayoffAtSpotPrice, LegTotal, EarningOf, SlopeOf
<1>4. PICK c \in Int : c = x - p OBVIOUS
<1>5. ASSUME NEW i \in D
      PROVE  f[i] \in Int /\ g[i] \in Int /\ h[i] \in Int /\ s[i] = c * g[i] /\ h[i] = f[i] + s[i] /\ s[i] \in Int
  <2>1. PICK leg \in OptionLegs : leg = legs[i] BY <1>1, <1>2
  <2>2. f[i] = EarningOf(leg, p) /\ g[i] = GradeOf(leg, p) /\ h[i] = EarningOf(leg, x) /\ s[i] = c * GradeOf(leg, p)
    BY <1>2, <1>4, <2>1
  <2>3. leg.strike <= p \/ leg.strike >= x BY <1>2, <2>1
  <2>4. /\ EarningOf(leg, x) \in Int /\ EarningOf(leg, p) \in Int /\ GradeOf(leg, p) \in Int
        /\ EarningOf(leg, x) = EarningOf(leg, p) + c * GradeOf(leg, p) BY <1>4, <2>3, LegsAreStraight
  <2> QED BY <2>2, <2>4
<1>6. DOMAIN f = D /\ DOMAIN g = D /\ DOMAIN h = D BY <1>2
<1> HIDE DEF f, g, h, s
<1>7. IntOn(f, D) /\ IntOn(g, D) /\ IntOn(h, D) /\ IntOn(s, D) BY <1>5 DEF IntOn
<1>8. /\ SumFunction(f) = SumFunctionOnSet(f, D) /\ SumFunction(g) = SumFunctionOnSet(g, D)
      /\ SumFunction(h) = SumFunctionOnSet(h, D) BY <1>2, <1>6, <1>7, SumOverDomain
<1>9. SumFunctionOnSet(s, D) = c * SumFunctionOnSet(g, D) /\ SumFunctionOnSet(g, D) \in Int
  <2>1. \A i \in D : s[i] = c * g[i] BY <1>5
  <2> QED BY <1>2, <1>7, <2>1, SumScaled
<1>10. /\ SumFunctionOnSet(h, D) = SumFunctionOnSet(f, D) + SumFunctionOnSet(s, D)
       /\ SumFunctionOnSet(f, D) \in Int /\ SumFunctionOnSet(h, D) \in Int BY <1>5, <1>2, <1>7, SumAdded
<1> QED BY <1>3, <1>4, <1>8, <1>9, <1>10

\* Beyond the last strike the slope is the one that the diagram computes.
LEMMA LastSlope ==
  ASSUME NEW legs \in CandidateLegs, NEW p \in Nat, \A i \in DOMAIN legs : legs[i].strike <= p
  PROVE  segmentSlopeAtSpot(legs, p + 1) = SlopeOf(legs, p)
<1>1. PICK n \in Nat \ {0} : DOMAIN legs = 1 .. n /\ \A i \in 1 .. n : legs[i] \in OptionLegs BY LegShapes
<1> DEFINE g == [i \in DOMAIN legs |-> GradeOf(legs[i], p)]
           h == [i \in DOMAIN legs |-> Sign(legs[i]) * legs[i].quantity *
                   (IF legs[i].type = "CALL" THEN IF p + 1 > legs[i].strike THEN 1 ELSE 0
                    ELSE IF p + 1 < legs[i].strike THEN -1 ELSE 0)]
<1>2. segmentSlopeAtSpot(legs, p + 1) = SumFunction(h) /\ SlopeOf(legs, p) = SumFunction(g)
  BY DEF segmentSlopeAtSpot, LegTotal, SlopeOf
<1>3. ASSUME NEW i \in DOMAIN legs PROVE h[i] = g[i]
  <2>1. PICK k \in Nat : k = legs[i].strike BY <1>1 DEF OptionLegs
  <2>2. k <= p BY <2>1
  <2>3. p + 1 > legs[i].strike /\ ~(p + 1 < legs[i].strike) /\ legs[i].strike <= p BY <2>1, <2>2
  <2> QED BY <2>3 DEF GradeOf
<1>4. g = h BY <1>3
<1> QED BY <1>2, <1>4

\* The candidates are finitely many prices.
LEMMA CandidatesAreFinite ==
  ASSUME NEW legs \in CandidateLegs
  PROVE  /\ IsFiniteSet(candidateSpotPrices(legs)) /\ candidateSpotPrices(legs) \subseteq Nat
         /\ 0 \in candidateSpotPrices(legs)
         /\ \A i \in DOMAIN legs : legs[i].strike \in candidateSpotPrices(legs) /\ legs[i].strike \in Nat
         /\ \A x \in candidateSpotPrices(legs) : PayoffAtSpotPrice(legs, x) \in Int
         /\ IsFiniteSet({PayoffAtSpotPrice(legs, x) : x \in candidateSpotPrices(legs)})
<1>1. PICK n \in Nat \ {0} : DOMAIN legs = 1 .. n /\ \A i \in 1 .. n : legs[i] \in OptionLegs BY LegShapes
<1>2. PICK D : D = DOMAIN legs /\ IsFiniteSet(D) BY <1>1, FS_Interval
<1> DEFINE f == [i \in D |-> legs[i].strike]
<1>3. IsFiniteSet({f[i] : i \in D})
  <2> HIDE DEF f
  <2> QED BY <1>2, FiniteImage
<1>4. candidateSpotPrices(legs) = {f[i] : i \in D} \cup {0} BY <1>2 DEF candidateSpotPrices
<1>5. \A i \in D : f[i] = legs[i].strike /\ f[i] \in Nat BY <1>1, <1>2 DEF OptionLegs
<1>6. PICK C : C = candidateSpotPrices(legs) OBVIOUS
<1> HIDE DEF f
<1>7. IsFiniteSet(C) /\ C \subseteq Nat /\ 0 \in C /\ \A i \in D : f[i] \in C
  BY <1>3, FS_AddElement, <1>4, <1>5, <1>6
<1>8. \A x \in Nat : PayoffAtSpotPrice(legs, x) \in Int
  <2>1. ASSUME NEW x \in Nat PROVE PayoffAtSpotPrice(legs, x) \in Int BY <1>2, <1>5, PayoffsAreStraight
  <2> QED BY <2>1
<1>9. IsFiniteSet({PayoffAtSpotPrice(legs, x) : x \in C})
  <2> DEFINE g == [x \in C |-> PayoffAtSpotPrice(legs, x)]
  <2>1. IsFiniteSet({g[x] : x \in C}) BY <1>7, FiniteImage
  <2>2. {g[x] : x \in C} = {PayoffAtSpotPrice(legs, x) : x \in C} OBVIOUS
  <2> QED BY <2>1, <2>2
<1> QED BY <1>2, <1>5, <1>6, <1>7, <1>8, <1>9

\* Along a straight line a point is between its ends.
LEMMA LinesAreMonotone ==
  ASSUME NEW a \in Int, NEW m \in Int, NEW d \in Nat, NEW w \in Nat, d <= w
  PROVE  /\ m >= 0 => a <= a + d * m /\ a + d * m <= a + w * m
         /\ m <= 0 => a + w * m <= a + d * m /\ a + d * m <= a
<1>1. PICK r \in Nat : w = d + r
  <2>1. w - d \in Nat /\ w = d + (w - d) OBVIOUS
  <2> QED BY <2>1
<1>2. w * m = d * m + r * m /\ d * m \in Int /\ r * m \in Int BY <1>1
<1>3. m >= 0 => d * m >= 0 /\ r * m >= 0 OBVIOUS
<1>4. m <= 0 => d * m <= 0 /\ r * m <= 0
  <2>1. ASSUME m <= 0 PROVE d * m <= 0 /\ r * m <= 0
    <3>1. PICK k \in Nat : m = -k
      <4>1. -m \in Nat /\ m = -(-m) BY <2>1
      <4> QED BY <4>1
    <3>2. d * m = -(d * k) /\ r * m = -(r * k) /\ d * k >= 0 /\ r * k >= 0 BY <3>1
    <3>3. d * k \in Nat /\ r * k \in Nat OBVIOUS
    <3> QED BY <3>2, <3>3
  <2> QED BY <2>1
<1> HIDE <1>1
<1>5. PICK x \in Int, y \in Int, z \in Int : x = d * m /\ y = r * m /\ z = w * m /\ z = x + y BY <1>2
<1> QED BY <1>3, <1>4, <1>5

\* Numbers with a negative product have opposite signs.
LEMMA OppositeSigns ==
  ASSUME NEW y \in Int, NEW z \in Int PROVE y * z < 0 <=> (y < 0 /\ z > 0) \/ (y > 0 /\ z < 0)
<1>1. y >= 0 /\ z >= 0 => y * z >= 0 OBVIOUS
<1>2. y <= 0 /\ z <= 0 => y * z >= 0 OBVIOUS
<1>3. y < 0 /\ z > 0 => y * z < 0 OBVIOUS
<1>4. y > 0 /\ z < 0 => y * z < 0 OBVIOUS
<1>5. y * z \in Int OBVIOUS
<1> QED BY <1>1, <1>2, <1>3, <1>4, <1>5

\* A line that changes sign between two prices has opposite signs there and its slope.
LEMMA CrossingSigns ==
  ASSUME NEW a \in Int, NEW m \in Int, NEW d \in Nat, NEW e \in Nat, e = d + 1, (a + d * m) * (a + e * m) < 0
  PROVE  /\ m * (a + d * m) <= 0 /\ m * (a + e * m) >= 0
         /\ m > 0 => a + d * m < 0 /\ a + e * m > 0
         /\ m < 0 => a + d * m > 0 /\ a + e * m < 0
         /\ m # 0
<1>1. PICK y \in Int, z \in Int : y = a + d * m /\ z = a + e * m OBVIOUS
<1>2. z = y + m BY <1>1
<1>3. (y < 0 /\ z > 0) \/ (y > 0 /\ z < 0) BY <1>1, OppositeSigns
<1>4. CASE y < 0 /\ z > 0
  <2>1. m > 0 BY <1>2, <1>4
  <2>2. m * y < 0 /\ m * z >= 0 BY <1>4, <2>1, OppositeSigns
  <2> QED BY <1>1, <1>4, <2>1, <2>2
<1>5. CASE y > 0 /\ z < 0
  <2>1. m < 0 BY <1>2, <1>5
  <2>2. m * y < 0 /\ m * z >= 0 BY <1>5, <2>1, OppositeSigns
  <2> QED BY <1>1, <1>5, <2>1, <2>2
<1> QED BY <1>3, <1>4, <1>5

\* Where a line crosses zero between two candidates.
LEMMA CrossingBetween ==
  ASSUME NEW a \in Int, NEW m \in Int, NEW d \in Nat, NEW e \in Nat, e = d + 1, NEW w \in Nat, e <= w,
         NEW p \in Nat, (a + d * m) * (a + e * m) < 0,
         NEW D \in Int, D = a - (a + w * m), NEW num \in Int, num = p * D + a * w
  PROVE  a * (a + w * m) < 0 /\ (p + d) * D * D <= num * D /\ num * D <= (p + e) * D * D
<1>1. PICK y \in Int, z \in Int : y = a + d * m /\ z = a + e * m OBVIOUS
<1>2. m * y <= 0 /\ m * z >= 0 /\ (m > 0 => y < 0 /\ z > 0) /\ (m < 0 => y > 0 /\ z < 0) /\ m # 0
  BY <1>1, CrossingSigns
<1>3. a * (a + w * m) < 0
  <2>1. PICK b \in Int : b = a + w * m OBVIOUS
  <2>2. d <= w /\ e <= w OBVIOUS
  <2>3. CASE m > 0 BY <1>1, <2>1, <2>2, <2>3, LinesAreMonotone, <1>2, OppositeSigns
  <2>4. CASE m < 0 BY <1>1, <2>1, <2>2, <2>4, LinesAreMonotone, <1>2, OppositeSigns
  <2> QED BY <1>2, <2>3, <2>4
<1>4. D = -(w * m) OBVIOUS
<1>5. num * D - (p + d) * D * D = (w * w) * (-(m * y)) BY <1>1, <1>4
<1>6. (p + e) * D * D - num * D = (w * w) * (m * z) BY <1>1, <1>4
<1>7. (w * w) * (-(m * y)) >= 0 /\ (w * w) * (m * z) >= 0
  <2>1. PICK u \in Nat, g \in Nat, h \in Nat : u = w * w /\ g = -(m * y) /\ h = m * z
    <3>1. w * w \in Nat /\ -(m * y) \in Nat /\ m * z \in Nat BY <1>2
    <3> QED BY <3>1
  <2>2. u * g >= 0 /\ u * h >= 0 OBVIOUS
  <2> QED BY <2>1, <2>2
<1>8. num * D \in Int /\ (p + d) * D * D \in Int /\ (p + e) * D * D \in Int OBVIOUS
<1>9. PICK x \in Int, k \in Int, l \in Int : x = num * D /\ k = (p + d) * D * D /\ l = (p + e) * D * D BY <1>8
<1>10. x - k >= 0 /\ l - x >= 0 BY <1>5, <1>6, <1>7, <1>9
<1>11. k <= x /\ x <= l BY <1>10
<1> QED BY <1>3, <1>9, <1>11

\* Where a line crosses zero beyond the last candidate.
LEMMA CrossingBeyond ==
  ASSUME NEW a \in Int, NEW m \in Int, NEW d \in Nat, NEW e \in Nat, e = d + 1,
         NEW p \in Nat, (a + d * m) * (a + e * m) < 0, NEW num \in Int, num = p * m - a
  PROVE  a * m < 0 /\ (p + d) * m * m <= num * m /\ num * m <= (p + e) * m * m
<1>1. PICK y \in Int, z \in Int : y = a + d * m /\ z = a + e * m OBVIOUS
<1>2. m * y <= 0 /\ m * z >= 0 /\ (m > 0 => y < 0 /\ z > 0) /\ (m < 0 => y > 0 /\ z < 0) /\ m # 0
  BY <1>1, CrossingSigns
<1>3. a * m < 0
  <2>1. CASE m > 0 BY <1>1, <2>1, LinesAreMonotone, <1>2, OppositeSigns
  <2>2. CASE m < 0 BY <1>1, <2>2, LinesAreMonotone, <1>2, OppositeSigns
  <2> QED BY <1>2, <2>1, <2>2
<1>4. num * m - (p + d) * m * m = -(m * y) BY <1>1
<1>5. (p + e) * m * m - num * m = m * z BY <1>1
<1>6. PICK x \in Int, k \in Int, l \in Int : x = num * m /\ k = (p + d) * m * m /\ l = (p + e) * m * m OBVIOUS
<1>7. x - k >= 0 /\ l - x >= 0
  <2>1. PICK g \in Int, h \in Int : g = m * y /\ h = m * z OBVIOUS
  <2> QED BY <1>2, <1>4, <1>5, <1>6, <2>1
<1>8. k <= x /\ x <= l BY <1>7
<1> QED BY <1>3, <1>6, <1>8

\* A price is at or above some candidate, and below the next if there is one.
LEMMA NeighboursOfPrice ==
  ASSUME NEW C, IsFiniteSet(C), C \subseteq Nat, 0 \in C, NEW spot \in Nat
  PROVE  \E p \in C : /\ p <= spot
                      /\ \/ \A x \in C : x <= p
                         \/ \E q \in C : spot < q /\ \A x \in C : x <= p \/ x >= q
<1> DEFINE L == {x \in C : x <= spot}
           H == {x \in C : x > spot}
<1>1. IsFiniteSet(L) /\ IsFiniteSet(H) /\ L \subseteq Int /\ H \subseteq Int /\ 0 \in L
  <2>1. L \subseteq C /\ H \subseteq C OBVIOUS
  <2>2. IsFiniteSet(L) /\ IsFiniteSet(H)
    <3> HIDE DEF L, H
    <3> QED BY <2>1, FS_Subset
  <2>3. L \subseteq Int /\ H \subseteq Int
    <3>1. \A x \in C : x \in Int OBVIOUS
    <3> QED BY <2>1, <3>1
  <2>4. 0 \in L OBVIOUS
  <2> HIDE DEF L, H
  <2> QED BY <2>2, <2>3, <2>4
<1>2. PICK p \in L : \A x \in L : p >= x
  <2> HIDE DEF L
  <2> QED BY <1>1, ExtremesExist
<1>3. p \in C /\ p \in Nat /\ p <= spot OBVIOUS
<1>4. CASE H = {} BY <1>4, <1>2, <1>3
<1>5. CASE H # {}
  <2>1. PICK q \in H : \A x \in H : q <= x
    <3> HIDE DEF H
    <3> QED BY <1>1, <1>5, ExtremesExist
  <2>2. q \in C /\ q \in Nat /\ spot < q OBVIOUS
  <2>3. \A x \in C : x \in L \/ x \in H OBVIOUS
  <2>4. \A x \in C : x <= p \/ x >= q
    <3> HIDE DEF L, H
    <3>1. TAKE x \in C
    <3>2. CASE x \in L BY <1>2, <1>3, <3>2
    <3>3. CASE x \in H BY <2>1, <2>2, <3>3
    <3> QED BY <2>3, <3>2, <3>3
  <2> QED BY <1>3, <2>2, <2>4
<1> QED BY <1>4, <1>5

\* The profits at two neighbouring prices, along the line that they are on.
OnALine(legs, spot, p, a, m, d) ==
  /\ p \in candidateSpotPrices(legs) /\ spot = p + d
  /\ a = PayoffAtSpotPrice(legs, p) /\ m = SlopeOf(legs, p)
  /\ PayoffAtSpotPrice(legs, spot) = a + d * m
  /\ PayoffAtSpotPrice(legs, spot + 1) = a + (d + 1) * m

InsideALine(legs, spot, p, a, m, d, q, w) ==
  /\ OnALine(legs, spot, p, a, m, d)
  /\ q \in candidateSpotPrices(legs) /\ q = p + w /\ d + 1 <= w
  /\ PayoffAtSpotPrice(legs, q) = a + w * m
  /\ \A x \in candidateSpotPrices(legs) : x <= p \/ x >= q

BeyondTheLines(legs, spot, p, a, m, d) ==
  /\ OnALine(legs, spot, p, a, m, d)
  /\ \A x \in candidateSpotPrices(legs) : x <= p
  /\ Max(candidateSpotPrices(legs)) = p /\ segmentSlopeAtSpot(legs, p + 1) = m

\* Every price is on a line that starts at a candidate.
LEMMA PricesAreOnLines ==
  ASSUME NEW legs \in CandidateLegs, NEW spot \in Nat
  PROVE  \E p \in Nat, a \in Int, m \in Int, d \in Nat :
            \/ BeyondTheLines(legs, spot, p, a, m, d)
            \/ \E q \in Nat, w \in Nat : InsideALine(legs, spot, p, a, m, d, q, w)
<1>1. PICK C : C = candidateSpotPrices(legs) OBVIOUS
<1>2. /\ IsFiniteSet(C) /\ C \subseteq Nat /\ 0 \in C
      /\ \A i \in DOMAIN legs : legs[i].strike \in C /\ legs[i].strike \in Nat BY <1>1, CandidatesAreFinite
<1>3. PICK p \in C : /\ p <= spot
                     /\ \/ \A x \in C : x <= p
                        \/ \E q \in C : spot < q /\ \A x \in C : x <= p \/ x >= q BY <1>2, NeighboursOfPrice
<1>4. p \in Nat BY <1>2
<1>5. PICK d \in Nat : spot = p + d /\ d = spot - p
  <2>1. spot - p \in Nat /\ spot = p + (spot - p) BY <1>3, <1>4
  <2> QED BY <2>1
<1>6. PICK next \in Nat : next = spot + 1 OBVIOUS
<1>7. next - p = d + 1 /\ p <= next BY <1>3, <1>4, <1>5, <1>6
<1>8. CASE \A x \in C : x <= p
  <2>1. \A i \in DOMAIN legs : legs[i].strike <= p BY <1>2, <1>8
  <2>2. /\ PayoffAtSpotPrice(legs, p) \in Int /\ SlopeOf(legs, p) \in Int
        /\ PayoffAtSpotPrice(legs, spot) = PayoffAtSpotPrice(legs, p) + (spot - p) * SlopeOf(legs, p)
    BY <1>3, <1>4, <2>1, PayoffsAreStraight
  <2>3. PayoffAtSpotPrice(legs, next) = PayoffAtSpotPrice(legs, p) + (next - p) * SlopeOf(legs, p)
    BY <1>4, <1>7, <2>1, PayoffsAreStraight
  <2>4. segmentSlopeAtSpot(legs, p + 1) = SlopeOf(legs, p) BY <1>4, <2>1, LastSlope
  <2>5. Max(C) = p
    <3>1. C # {} /\ C \subseteq Int BY <1>2
    <3>2. Max(C) \in C /\ Max(C) \in Int /\ \A y \in C : y <= Max(C) BY <1>2, <3>1, MaxAndMin
    <3>3. PICK x \in Int : x = Max(C) BY <3>2
    <3>4. x <= p /\ p <= x BY <1>8, <3>2, <3>3
    <3>5. x = p BY <1>4, <3>4
    <3> QED BY <3>3, <3>5
  <2>6. PICK a \in Int, m \in Int : a = PayoffAtSpotPrice(legs, p) /\ m = SlopeOf(legs, p) BY <2>2
  <2>7. OnALine(legs, spot, p, a, m, d) BY <1>1, <1>5, <1>6, <1>7, <2>2, <2>3, <2>6 DEF OnALine
  <2>8. BeyondTheLines(legs, spot, p, a, m, d) BY <1>1, <1>8, <2>4, <2>5, <2>6, <2>7 DEF BeyondTheLines
  <2> QED BY <1>4, <2>8
<1>9. CASE \E q \in C : spot < q /\ \A x \in C : x <= p \/ x >= q
  <2>1. PICK q \in C : spot < q /\ \A x \in C : x <= p \/ x >= q BY <1>9
  <2>2. q \in Nat /\ next <= q /\ spot <= q /\ p <= q
    <3>1. q \in Nat BY <1>2
    <3> QED BY <1>3, <1>4, <1>6, <2>1, <3>1
  <2>3. PICK w \in Nat : q = p + w /\ w = q - p
    <3>1. q - p \in Nat /\ q = p + (q - p) BY <1>4, <2>2
    <3> QED BY <3>1
  <2>4. d + 1 <= w BY <1>4, <1>7, <2>2, <2>3
  <2>5. \A y \in Nat : y <= q => \A i \in DOMAIN legs : legs[i].strike <= p \/ legs[i].strike >= y
    BY <1>2, <1>4, <2>1, <2>2
  <2>6. /\ PayoffAtSpotPrice(legs, p) \in Int /\ SlopeOf(legs, p) \in Int
        /\ PayoffAtSpotPrice(legs, spot) = PayoffAtSpotPrice(legs, p) + (spot - p) * SlopeOf(legs, p)
    BY <1>3, <1>4, <2>2, <2>5, PayoffsAreStraight
  <2>7. PayoffAtSpotPrice(legs, next) = PayoffAtSpotPrice(legs, p) + (next - p) * SlopeOf(legs, p)
    BY <1>4, <1>7, <2>2, <2>5, PayoffsAreStraight
  <2>8. PayoffAtSpotPrice(legs, q) = PayoffAtSpotPrice(legs, p) + (q - p) * SlopeOf(legs, p)
    BY <2>2, <1>4, <2>5, PayoffsAreStraight
  <2>9. PICK a \in Int, m \in Int : a = PayoffAtSpotPrice(legs, p) /\ m = SlopeOf(legs, p) BY <2>6
  <2>10. OnALine(legs, spot, p, a, m, d) BY <1>1, <1>5, <1>6, <1>7, <2>6, <2>7, <2>9 DEF OnALine
  <2>11. InsideALine(legs, spot, p, a, m, d, q, w)
    BY <1>1, <2>1, <2>3, <2>4, <2>8, <2>9, <2>10 DEF InsideALine
  <2> QED BY <1>4, <2>2, <2>11
<1> QED BY <1>3, <1>8, <1>9

\* What the diagram computes.
LEMMA DiagramParts ==
  ASSUME NEW legs \in CandidateLegs
  PROVE  LET v == ComputePayoffDiagram(legs) IN
         /\ v.legs = legs /\ v.breakevens = findBreakevens(legs)
         /\ v.profitUnbounded <=> segmentSlopeAtSpot(legs, Max(candidateSpotPrices(legs)) + 1) > 0
         /\ v.lossUnbounded <=> segmentSlopeAtSpot(legs, Max(candidateSpotPrices(legs)) + 1) < 0
         /\ \A x \in candidateSpotPrices(legs) :
               PayoffAtSpotPrice(legs, x) <= v.maxProfit /\ -PayoffAtSpotPrice(legs, x) <= v.maxLoss
         /\ v.maxProfit \in Int /\ v.maxLoss \in Int
<1> DEFINE v == ComputePayoffDiagram(legs)
           payoffs == {PayoffAtSpotPrice(legs, x) : x \in candidateSpotPrices(legs)}
<1>1. /\ v.legs = legs /\ v.breakevens = findBreakevens(legs)
      /\ v.profitUnbounded <=> segmentSlopeAtSpot(legs, Max(candidateSpotPrices(legs)) + 1) > 0
      /\ v.lossUnbounded <=> segmentSlopeAtSpot(legs, Max(candidateSpotPrices(legs)) + 1) < 0
      /\ v.maxProfit = Max(payoffs) /\ v.maxLoss = IF Min(payoffs) > 0 THEN 0 ELSE -Min(payoffs)
  BY DEF ComputePayoffDiagram
<1>2. payoffs \subseteq Int /\ payoffs # {} /\ IsFiniteSet(payoffs) BY CandidatesAreFinite
<1>3. \A x \in candidateSpotPrices(legs) : PayoffAtSpotPrice(legs, x) \in payoffs OBVIOUS
<1> HIDE DEF v, payoffs
<1>4. /\ Max(payoffs) \in Int /\ \A y \in payoffs : y <= Max(payoffs)
      /\ Min(payoffs) \in Int /\ \A y \in payoffs : Min(payoffs) <= y BY <1>2, MaxAndMin
<1>5. PICK g \in Int, l \in Int, k \in Int : g = Max(payoffs) /\ l = Min(payoffs) /\ k = IF l > 0 THEN 0 ELSE -l
  BY <1>4
<1>6. v.maxProfit = g /\ v.maxLoss = k BY <1>1, <1>5
<1>7. \A y \in payoffs : y \in Int /\ y <= g /\ l <= y BY <1>2, <1>4, <1>5
<1>8. \A y \in payoffs : y <= g /\ -y <= k BY <1>5, <1>7
<1>9. \A x \in candidateSpotPrices(legs) :
         PayoffAtSpotPrice(legs, x) <= v.maxProfit /\ -PayoffAtSpotPrice(legs, x) <= v.maxLoss
  BY <1>3, <1>6, <1>8
<1> QED BY <1>1, <1>6, <1>9 DEF v

\* No profit or loss is beyond the extremes of the diagram.
LEMMA ExtremesHold ==
  ASSUME NEW legs \in CandidateLegs, NEW spot \in Nat, NEW v, v = ComputePayoffDiagram(legs)
  PROVE  /\ v.profitUnbounded \/ PayoffAtSpotPrice(legs, spot) <= v.maxProfit
         /\ v.lossUnbounded \/ -PayoffAtSpotPrice(legs, spot) <= v.maxLoss
<1>1. PICK p \in Nat, a \in Int, m \in Int, d \in Nat :
         \/ BeyondTheLines(legs, spot, p, a, m, d)
         \/ \E q \in Nat, w \in Nat : InsideALine(legs, spot, p, a, m, d, q, w) BY PricesAreOnLines
<1>2. /\ v.profitUnbounded <=> segmentSlopeAtSpot(legs, Max(candidateSpotPrices(legs)) + 1) > 0
      /\ v.lossUnbounded <=> segmentSlopeAtSpot(legs, Max(candidateSpotPrices(legs)) + 1) < 0
      /\ \A x \in candidateSpotPrices(legs) :
            PayoffAtSpotPrice(legs, x) <= v.maxProfit /\ -PayoffAtSpotPrice(legs, x) <= v.maxLoss
      /\ v.maxProfit \in Int /\ v.maxLoss \in Int BY DiagramParts
<1>3. PICK g \in Int, k \in Int : g = v.maxProfit /\ k = v.maxLoss BY <1>2
<1>4. OnALine(legs, spot, p, a, m, d) BY <1>1 DEF BeyondTheLines, InsideALine
<1>5. PICK y \in Int : y = PayoffAtSpotPrice(legs, spot) /\ y = a + d * m BY <1>4 DEF OnALine
<1>6. a <= g /\ -a <= k BY <1>2, <1>3, <1>4 DEF OnALine
<1>7. CASE BeyondTheLines(legs, spot, p, a, m, d)
  BY <1>2, <1>7, <1>5, LinesAreMonotone, <1>3, <1>6 DEF BeyondTheLines
<1>8. CASE \E q \in Nat, w \in Nat : InsideALine(legs, spot, p, a, m, d, q, w)
  <2>1. PICK q \in Nat, w \in Nat : InsideALine(legs, spot, p, a, m, d, q, w) BY <1>8
  <2>2. PICK b \in Int : b = a + w * m OBVIOUS
  <2>3. b <= g /\ -b <= k /\ d <= w BY <1>2, <1>3, <2>1, <2>2 DEF InsideALine
  <2>4. (m >= 0 => a <= y /\ y <= b) /\ (m <= 0 => b <= y /\ y <= a) BY <1>5, <2>2, <2>3, LinesAreMonotone
  <2>5. y <= g /\ -y <= k BY <1>6, <2>3, <2>4
  <2> QED BY <1>3, <1>5, <2>5
<1> QED BY <1>1, <1>7, <1>8

\* The profit changes sign at a listed breakeven only.
LEMMA BreakevensHold ==
  ASSUME NEW legs \in CandidateLegs, NEW spot \in Nat,
         PayoffAtSpotPrice(legs, spot) * PayoffAtSpotPrice(legs, spot + 1) < 0
  PROVE  \E b \in findBreakevens(legs) :
            spot * b.den * b.den <= b.num * b.den /\ b.num * b.den <= (spot + 1) * b.den * b.den
<1>1. PICK p \in Nat, a \in Int, m \in Int, d \in Nat :
         \/ BeyondTheLines(legs, spot, p, a, m, d)
         \/ \E q \in Nat, w \in Nat : InsideALine(legs, spot, p, a, m, d, q, w) BY PricesAreOnLines
<1> DEFINE candidates == candidateSpotPrices(legs)
           payoff == [x \in candidates |-> PayoffAtSpotPrice(legs, x)]
           last == Max(candidates)
           slope == segmentSlopeAtSpot(legs, last + 1)
           neighbours == {r \in candidates \X candidates :
                             r[1] < r[2] /\ \A x \in candidates : x <= r[1] \/ x >= r[2]}
           AtCandidate == {[num |-> x, den |-> 1] : x \in {c \in candidates : payoff[c] = 0 /\ neighbours # {}}}
           Between == {[num |-> r[1] * (payoff[r[1]] - payoff[r[2]]) + payoff[r[1]] * (r[2] - r[1]),
                        den |-> payoff[r[1]] - payoff[r[2]]] :
                          r \in {q \in neighbours : payoff[q[1]] * payoff[q[2]] < 0}}
           Beyond == IF payoff[last] * slope < 0
                     THEN {[num |-> last * slope - payoff[last], den |-> slope]} ELSE {}
<1>2. findBreakevens(legs) = AtCandidate \union Between \union Beyond BY Zenon DEF findBreakevens
<1>3. /\ p \in candidates /\ spot = p + d /\ a = PayoffAtSpotPrice(legs, p)
      /\ PayoffAtSpotPrice(legs, spot) = a + d * m
      /\ PayoffAtSpotPrice(legs, spot + 1) = a + (d + 1) * m BY <1>1 DEF BeyondTheLines, InsideALine, OnALine
<1>4. PICK e \in Nat : e = d + 1 OBVIOUS
<1>5. (a + d * m) * (a + e * m) < 0 /\ spot + 1 = p + e BY <1>3, <1>4
<1>6. CASE BeyondTheLines(legs, spot, p, a, m, d)
  <2>1. last = p /\ slope = m /\ payoff[p] = a BY <1>3, <1>6 DEF BeyondTheLines
  <2>2. PICK num \in Int : num = p * m - a OBVIOUS
  <2>3. a * m < 0 /\ (p + d) * m * m <= num * m /\ num * m <= (p + e) * m * m
    BY <1>4, <1>5, <2>2, CrossingBeyond
  <2>4. [num |-> num, den |-> m] \in Beyond BY <2>1, <2>2, <2>3
  <2>5. PICK b : b = [num |-> num, den |-> m] OBVIOUS
  <2>6. b \in findBreakevens(legs) /\ b.num = num /\ b.den = m BY <1>2, <2>4, <2>5
  <2>7. spot * m * m <= num * m /\ num * m <= (spot + 1) * m * m BY <1>3, <1>5, <2>3
  <2> QED BY <2>6, <2>7
<1>7. CASE \E q \in Nat, w \in Nat : InsideALine(legs, spot, p, a, m, d, q, w)
  <2>1. PICK q \in Nat, w \in Nat : InsideALine(legs, spot, p, a, m, d, q, w) BY <1>7
  <2>2. /\ q \in candidates /\ q = p + w /\ e <= w /\ PayoffAtSpotPrice(legs, q) = a + w * m
        /\ \A x \in candidates : x <= p \/ x >= q BY <1>4, <2>1 DEF InsideALine
  <2>3. payoff[p] = a /\ payoff[q] = a + w * m BY <1>3, <2>2
  <2>4. p < q /\ q - p = w BY <1>4, <2>2
  <2>5. PICK D \in Int, num \in Int : D = a - (a + w * m) /\ num = p * D + a * w
    <3>1. PICK D \in Int : D = a - (a + w * m) OBVIOUS
    <3>2. PICK num \in Int : num = p * D + a * w OBVIOUS
    <3> QED BY <3>1, <3>2
  <2>6. a * (a + w * m) < 0 /\ (p + d) * D * D <= num * D /\ num * D <= (p + e) * D * D
    BY <1>4, <1>5, <2>2, <2>5, CrossingBetween
  <2>7. PICK r : r = <<p, q>> OBVIOUS
  <2>8. r \in neighbours /\ r[1] = p /\ r[2] = q BY <1>3, <2>2, <2>4, <2>7
  <2>9. r \in {x \in neighbours : payoff[x[1]] * payoff[x[2]] < 0}
    <3> HIDE DEF neighbours, payoff
    <3> QED BY <2>3, <2>6, <2>8
  <2>10. [num |-> num, den |-> D] \in Between
    <3>1. /\ num = r[1] * (payoff[r[1]] - payoff[r[2]]) + payoff[r[1]] * (r[2] - r[1])
          /\ D = payoff[r[1]] - payoff[r[2]]
      <4> HIDE DEF payoff
      <4> QED BY <2>3, <2>4, <2>5, <2>8
    <3> HIDE DEF payoff, neighbours
    <3> QED BY <2>9, <3>1
  <2> HIDE DEF AtCandidate, Between, Beyond
  <2>11. PICK b : b = [num |-> num, den |-> D] OBVIOUS
  <2>12. b \in findBreakevens(legs) /\ b.num = num /\ b.den = D BY <1>2, <2>10, <2>11
  <2>13. spot * D * D <= num * D /\ num * D <= (spot + 1) * D * D BY <1>3, <1>5, <2>6
  <2> QED BY <2>12, <2>13
<1> QED BY <1>1, <1>6, <1>7

\* A diagram is computed of the legs that were asked about.
DiagramInv == diagram # None => \E legs \in CandidateLegs : diagram = ComputePayoffDiagram(legs)

\* A diagram that is asked for is computed.
LEMMA DiagramsKeepInv == ASSUME DiagramInv, ViewPayoffDiagram PROVE DiagramInv'
BY Zenon DEF DiagramInv, ViewPayoffDiagram

\* A computed diagram speaks for every price.
LEMMA InvSpeaksForEveryPrice == ASSUME DiagramInv PROVE DiagramsSpeakForEveryPrice
<1> SUFFICES ASSUME diagram # None, NEW spot \in SettlementPrices
    PROVE  /\ diagram.profitUnbounded \/ PayoffAtSpotPrice(diagram.legs, spot) <= diagram.maxProfit
           /\ diagram.lossUnbounded \/ -PayoffAtSpotPrice(diagram.legs, spot) <= diagram.maxLoss
           /\ PayoffAtSpotPrice(diagram.legs, spot) * PayoffAtSpotPrice(diagram.legs, spot + 1) < 0 =>
                 \E b \in diagram.breakevens :
                    spot * b.den * b.den <= b.num * b.den /\ b.num * b.den <= (spot + 1) * b.den * b.den
  BY Zenon DEF DiagramsSpeakForEveryPrice
<1>1. PICK legs \in CandidateLegs : diagram = ComputePayoffDiagram(legs) BY DEF DiagramInv
<1>2. diagram.legs = legs /\ diagram.breakevens = findBreakevens(legs) BY <1>1, DiagramParts
<1>3. spot \in Nat BY CompositeAssumption
<1>4. /\ diagram.profitUnbounded \/ PayoffAtSpotPrice(legs, spot) <= diagram.maxProfit
      /\ diagram.lossUnbounded \/ -PayoffAtSpotPrice(legs, spot) <= diagram.maxLoss
  BY <1>1, <1>3, ExtremesHold
<1>5. PayoffAtSpotPrice(legs, spot) * PayoffAtSpotPrice(legs, spot + 1) < 0 =>
         \E b \in findBreakevens(legs) :
            spot * b.den * b.den <= b.num * b.den /\ b.num * b.den <= (spot + 1) * b.den * b.den
  BY <1>3, BreakevensHold
<1> QED BY <1>2, <1>4, <1>5

\* Nothing is composed at first.
LEMMA CompositesStart == ASSUME CompositeInit PROVE DiagramInv /\ StrategyInv /\ BasketInv /\ CoverInv
BY DEF CompositeInit, DiagramInv, StrategyInv, BasketInv, CoverInv

\* Each step of a composite order keeps what holds of all four.
LEMMA CompositesKeepInv ==
  ASSUME DiagramInv, StrategyInv, BasketInv, CoverInv,
         \/ ViewPayoffDiagram \/ StrategyNext \/ BasketOrderNext \/ CoverNext
         \/ UNCHANGED compositeVars
  PROVE  DiagramInv' /\ StrategyInv' /\ BasketInv' /\ CoverInv'
<1>1. UNCHANGED diagram => DiagramInv' BY DEF DiagramInv
<1>2. UNCHANGED strategy => StrategyInv' BY DEF StrategyInv
<1>3. UNCHANGED basket => BasketInv' BY DEF BasketInv
<1>4. UNCHANGED cover => CoverInv' BY DEF CoverInv
<1>5. CASE ViewPayoffDiagram BY <1>2, <1>3, <1>4, <1>5, DiagramsKeepInv DEF ViewPayoffDiagram
<1>6. CASE StrategyNext
  BY <1>1, <1>3, <1>4, <1>6, StrategiesKeepInv
     DEF StrategyNext, ExecuteMultiLegOptions, SubmitLeg, rollBackAcceptedLegs
<1>7. CASE BasketOrderNext
  BY <1>1, <1>2, <1>4, <1>7, BasketsKeepInv DEF BasketOrderNext, ExecuteBasket, SubmitConstituent
<1>8. CASE CoverNext
  BY <1>1, <1>2, <1>3, <1>8, CoversKeepInv DEF CoverNext, SubmitCoverOrder, PlaceProtectiveStop, EntryFillsLater
<1>9. CASE UNCHANGED compositeVars BY <1>1, <1>2, <1>3, <1>4, <1>9 DEF compositeVars
<1> QED BY <1>5, <1>6, <1>7, <1>8, <1>9

--------------------
(* Schedules.                                                              *)

\* The keys before one in the order by rank.
KeysBefore(keys, i) == {j \in DOMAIN keys : keys[j] < keys[i] \/ (keys[j] = keys[i] /\ j < i)}

\* Ranks number the keys from 0, in their order.
LEMMA RanksInOrder ==
  ASSUME NEW n \in Nat \ {0}, NEW keys, DOMAIN keys = 1 .. n, \A i \in 1 .. n : keys[i] \in Int
  PROVE  /\ \A i \in 1 .. n : Rank(keys, i) \in 0 .. n - 1
         /\ \A i, j \in 1 .. n : Rank(keys, i) < Rank(keys, j) => keys[i] <= keys[j]
         /\ \A i, j \in 1 .. n : Rank(keys, i) = Rank(keys, j) => i = j
<1>1. IsFiniteSet(1 .. n) /\ Cardinality(1 .. n) = n BY FS_Interval
<1>2. \A i \in 1 .. n : Rank(keys, i) = Cardinality(KeysBefore(keys, i)) BY DEF Rank, KeysBefore
<1>3. ASSUME NEW i \in 1 .. n
      PROVE  /\ IsFiniteSet(KeysBefore(keys, i)) /\ Rank(keys, i) \in 0 .. n - 1
             /\ KeysBefore(keys, i) \subseteq 1 .. n /\ i \notin KeysBefore(keys, i)
  <2>1. KeysBefore(keys, i) \subseteq (1 .. n) \ {i} BY DEF KeysBefore
  <2>2. IsFiniteSet((1 .. n) \ {i}) /\ Cardinality((1 .. n) \ {i}) = n - 1 BY <1>1, FS_RemoveElement
  <2>3. IsFiniteSet(KeysBefore(keys, i)) /\ Cardinality(KeysBefore(keys, i)) <= n - 1 BY <2>1, <2>2, FS_Subset
  <2>4. Cardinality(KeysBefore(keys, i)) \in Nat BY <2>3, FS_CardinalityType
  <2>5. Rank(keys, i) \in 0 .. n - 1 BY <1>2, <2>3, <2>4
  <2> QED BY <2>1, <2>3, <2>5
<1>4. ASSUME NEW i \in 1 .. n, NEW j \in 1 .. n, keys[i] < keys[j] \/ (keys[i] = keys[j] /\ i < j)
      PROVE  Rank(keys, i) < Rank(keys, j)
  <2>1. KeysBefore(keys, i) \cup {i} \subseteq KeysBefore(keys, j)
    <3>1. i \in KeysBefore(keys, j) BY <1>4 DEF KeysBefore
    <3>2. ASSUME NEW k \in KeysBefore(keys, i) PROVE k \in KeysBefore(keys, j)
      <4>1. k \in 1 .. n /\ (keys[k] < keys[i] \/ (keys[k] = keys[i] /\ k < i)) BY DEF KeysBefore
      <4>2. PICK x \in Int, y \in Int, z \in Int : x = keys[k] /\ y = keys[i] /\ z = keys[j] BY <4>1
      <4>3. x < z \/ (x = z /\ k < j) BY <1>4, <4>1, <4>2
      <4> QED BY <4>1, <4>2, <4>3 DEF KeysBefore
    <3> QED BY <3>1, <3>2
  <2>2. Cardinality(KeysBefore(keys, i) \cup {i}) = Cardinality(KeysBefore(keys, i)) + 1
    BY <1>3, FS_AddElement
  <2>3. Cardinality(KeysBefore(keys, i) \cup {i}) <= Cardinality(KeysBefore(keys, j)) BY <1>3, <2>1, FS_Subset
  <2>4. PICK r \in Int, s \in Int : r = Rank(keys, i) /\ s = Rank(keys, j)
    <3>1. Rank(keys, i) \in Int /\ Rank(keys, j) \in Int BY <1>3
    <3> QED BY <3>1
  <2>5. r + 1 <= s BY <1>2, <2>2, <2>3, <2>4
  <2>6. r < s BY <2>5
  <2> QED BY <2>4, <2>6
<1>5. \A i \in 1 .. n : Rank(keys, i) \in 0 .. n - 1 BY <1>3
<1>6. ASSUME NEW i \in 1 .. n, NEW j \in 1 .. n
      PROVE  /\ Rank(keys, i) < Rank(keys, j) => keys[i] <= keys[j]
             /\ Rank(keys, i) = Rank(keys, j) => i = j
  <2>1. PICK r \in Int, s \in Int, x \in Int, y \in Int :
           r = Rank(keys, i) /\ s = Rank(keys, j) /\ x = keys[i] /\ y = keys[j] BY <1>5
  <2>2. (x < y \/ (x = y /\ i < j)) => r < s BY <1>4, <2>1
  <2>3. (y < x \/ (x = y /\ j < i)) => s < r BY <1>4, <2>1
  <2>4. (r < s => x <= y) /\ (r = s => i = j) BY <2>2, <2>3
  <2> QED BY <2>1, <2>4
<1> QED BY <1>5, <1>6

\* Below any bound there are as many ranks as numbers.
LEMMA RanksAreFull ==
  ASSUME NEW n \in Nat \ {0}, NEW keys, DOMAIN keys = 1 .. n, \A i \in 1 .. n : keys[i] \in Int
  PROVE  /\ \A k \in 0 .. n - 1 : \E i \in 1 .. n : Rank(keys, i) = k
         /\ \A m \in 0 .. n : Cardinality({i \in 1 .. n : Rank(keys, i) < m}) = m
<1>1. /\ \A i \in 1 .. n : Rank(keys, i) \in 0 .. n - 1
      /\ \A i, j \in 1 .. n : Rank(keys, i) = Rank(keys, j) => i = j BY RanksInOrder
<1>2. IsFiniteSet(1 .. n) /\ Cardinality(1 .. n) = n /\ IsFiniteSet(0 .. n - 1) /\ Cardinality(0 .. n - 1) = n
  BY FS_Interval
<1> DEFINE f == [i \in 1 .. n |-> Rank(keys, i)]
<1>3. f \in Injection(1 .. n, 0 .. n - 1) BY <1>1 DEF Injection, IsInjective
<1>4. f \in Surjection(1 .. n, 0 .. n - 1)
  <2> HIDE DEF f
  <2> QED BY <1>2, <1>3, FS_Injection
<1>5. \A k \in 0 .. n - 1 : \E i \in 1 .. n : Rank(keys, i) = k BY <1>4 DEF Surjection
<1>6. ASSUME NEW m \in 0 .. n PROVE Cardinality({i \in 1 .. n : Rank(keys, i) < m}) = m
  <2> DEFINE S == {i \in 1 .. n : Rank(keys, i) < m}
             T == 0 .. m - 1
             g == [i \in S |-> Rank(keys, i)]
  <2>1. IsFiniteSet(T) /\ Cardinality(T) = m
    <3>1. CASE m = 0 BY <3>1, FS_EmptySet
    <3>2. CASE m # 0 BY <3>2, FS_Interval
    <3> QED BY <3>1, <3>2
  <2>2. \A i \in S : i \in 1 .. n /\ Rank(keys, i) \in T BY <1>1
  <2>3. g \in Injection(S, T)
    <3>1. \A i \in S : g[i] = Rank(keys, i) OBVIOUS
    <3>2. g \in [S -> T] BY <2>2
    <3> HIDE DEF g, T
    <3>3. \A i, j \in S : g[i] = g[j] => i = j BY <1>1, <3>1
    <3> QED BY <3>2, <3>3 DEF Injection, IsInjective
  <2>4. g \in Surjection(S, T)
    <3>1. \A k \in T : \E i \in S : g[i] = k
      <4> TAKE k \in T
      <4>1. k \in 0 .. n - 1 /\ k < m OBVIOUS
      <4>2. PICK i \in 1 .. n : Rank(keys, i) = k BY <1>5, <4>1
      <4> QED BY <4>1, <4>2
    <3>2. g \in [S -> T] BY <2>2
    <3> HIDE DEF g, T, S
    <3> QED BY <3>1, <3>2 DEF Surjection
  <2> HIDE DEF g, T, S
  <2>5. IsFiniteSet(S) /\ Cardinality(S) = Cardinality(T) BY <2>1, <2>3, <2>4, FS_Injection
  <2> QED BY <2>1, <2>5 DEF S
<1> QED BY <1>5, <1>6

\* A number is its quotients and what is left.
LEMMA Divided ==
  ASSUME NEW m \in Nat, NEW d \in Nat \ {0}
  PROVE  m = d * (m \div d) + (m % d) /\ m \div d \in Nat /\ m % d \in Nat /\ m % d < d OBVIOUS

\* So much of less than nothing is less than nothing.
LEMMA NegativeProduct == ASSUME NEW a \in Nat \ {0}, NEW b \in Int, b < 0  PROVE a * b < 0
<1>1. a \in Int /\ a > 0 OBVIOUS
<1> QED BY <1>1, OppositeSigns

\* What is divided by their sum leaves at most one unit for each weight.
LEMMA LittleIsLeft ==
  ASSUME NEW n \in Nat \ {0}, NEW weights, DOMAIN weights = 1 .. n, \A i \in 1 .. n : weights[i] \in Nat,
         NEW total \in Nat, NEW W \in Nat \ {0}, W = SumFunctionOnSet(weights, 1 .. n),
         NEW base, NEW rest,
         \A i \in 1 .. n : base[i] = (weights[i] * total) \div W /\ rest[i] = (weights[i] * total) % W
  PROVE  /\ \A i \in 1 .. n : base[i] \in Nat /\ rest[i] \in 0 .. W - 1
         /\ SumFunctionOnSet(base, 1 .. n) \in Nat
         /\ total - SumFunctionOnSet(base, 1 .. n) \in 0 .. n
<1> DEFINE D == 1 .. n
           scaled == [i \in D |-> total * weights[i]]
           whole == [i \in D |-> W * base[i]]
           one == [i \in D |-> 1]
           most == [i \in D |-> W * one[i]]
<1>1. IsFiniteSet(D) /\ Cardinality(D) = n BY FS_Interval
<1>2. ASSUME NEW i \in D
      PROVE  base[i] \in Nat /\ rest[i] \in Nat /\ rest[i] < W /\ total * weights[i] = W * base[i] + rest[i]
  <2>1. PICK m \in Nat : m = weights[i] * total OBVIOUS
  <2>2. PICK b \in Nat, r \in Nat : b = m \div W /\ r = m % W /\ r < W /\ m = W * b + r
    <3>1. m = W * (m \div W) + (m % W) /\ m \div W \in Nat /\ m % W \in Nat /\ m % W < W BY Divided
    <3> QED BY <3>1
  <2>3. base[i] = b /\ rest[i] = r BY <2>1, <2>2
  <2>4. total * weights[i] = m BY <2>1
  <2> QED BY <2>2, <2>3, <2>4
<1>3. IntOn(weights, D) /\ IntOn(base, D) /\ IntOn(rest, D) /\ IntOn(one, D) /\ NatOn(base, D) /\ NatOn(rest, D)
  BY <1>2 DEF IntOn, NatOn
<1>4. \A i \in D : /\ scaled[i] = total * weights[i] /\ whole[i] = W * base[i] /\ most[i] = W * one[i]
                   /\ one[i] = 1 OBVIOUS
<1>5. \A i \in D : scaled[i] = whole[i] + rest[i] BY <1>2, <1>4
<1>6. ASSUME NEW i \in D PROVE whole[i] \in Int /\ most[i] \in Int /\ rest[i] <= most[i]
  <2>1. W * base[i] \in Int BY <1>2
  <2>2. most[i] = W BY <1>4
  <2> QED BY <1>2, <1>4, <2>1, <2>2
<1>7. IntOn(whole, D) /\ IntOn(most, D) BY <1>6 DEF IntOn
<1> HIDE DEF D, scaled, whole, one, most
<1>8. SumFunctionOnSet(scaled, D) = total * SumFunctionOnSet(weights, D)
  <2>1. total \in Int /\ \A i \in D : scaled[i] = total * weights[i] BY <1>4
  <2> QED BY <1>1, <1>3, <2>1, SumScaled
<1>9. SumFunctionOnSet(whole, D) = W * SumFunctionOnSet(base, D)
  <2>1. W \in Int /\ \A i \in D : whole[i] = W * base[i] BY <1>4
  <2> QED BY <1>1, <1>3, <2>1, SumScaled
<1>10. SumFunctionOnSet(scaled, D) = SumFunctionOnSet(whole, D) + SumFunctionOnSet(rest, D)
  BY <1>1, <1>3, <1>5, <1>7, SumAdded
<1>11. SumFunctionOnSet(most, D) = W * n
  <2>1. SumFunctionOnSet(most, D) = W * SumFunctionOnSet(one, D)
    <3>1. W \in Int /\ \A i \in D : most[i] = W * one[i] BY <1>4
    <3> QED BY <1>1, <1>3, <3>1, SumScaled
  <2>2. SumFunctionOnSet(one, D) = n BY <1>1, <1>4, SumOfOnes
  <2> QED BY <2>1, <2>2
<1>12. SumFunctionOnSet(rest, D) <= SumFunctionOnSet(most, D) BY <1>1, <1>3, <1>6, <1>7, SumLeq
<1>13. PICK B \in Nat, R \in Nat : B = SumFunctionOnSet(base, D) /\ R = SumFunctionOnSet(rest, D)
  <2>1. SumFunctionOnSet(base, D) \in Nat /\ SumFunctionOnSet(rest, D) \in Nat BY <1>1, <1>3, SumAtLeastPart
  <2> QED BY <2>1
<1>14. SumFunctionOnSet(weights, D) = W BY DEF D
<1>15. total * W = W * B + R /\ R <= W * n BY <1>8, <1>9, <1>10, <1>11, <1>12, <1>13, <1>14
<1>16. W * (total - B) = R
  <2>1. W * (total - B) = total * W - W * B OBVIOUS
  <2>2. PICK x \in Int, y \in Int, z \in Int : x = W * (total - B) /\ y = total * W /\ z = W * B
    <3>1. W * (total - B) \in Int /\ total * W \in Int /\ W * B \in Int OBVIOUS
    <3> QED BY <3>1
  <2> QED BY <1>15, <2>1, <2>2
<1>17. PICK l \in Int : l = total - B OBVIOUS
<1>18. l >= 0
  <2> SUFFICES ASSUME l < 0 PROVE FALSE OBVIOUS
  <2>1. W * l < 0 BY NegativeProduct
  <2> QED BY <1>16, <1>17, <2>1
<1>19. l <= n
  <2> SUFFICES ASSUME l > n PROVE FALSE OBVIOUS
  <2>1. PICK k \in Nat : l = n + 1 + k
    <3>1. l - n - 1 \in Nat /\ l = n + 1 + (l - n - 1) OBVIOUS
    <3> QED BY <3>1
  <2>2. W * l = W * n + W + W * k BY <2>1
  <2>3. W * k \in Nat /\ W * n \in Nat OBVIOUS
  <2>4. PICK x \in Nat, y \in Nat, z \in Int : x = W * k /\ y = W * n /\ z = W * l BY <2>3
  <2>5. z = y + W + x /\ z = R /\ R <= y BY <1>15, <1>16, <1>17, <2>2, <2>4
  <2> QED BY <2>5
<1>20. total - B \in 0 .. n BY <1>17, <1>18, <1>19
<1>21. \A i \in D : base[i] \in Nat /\ rest[i] \in 0 .. W - 1 BY <1>2
<1> QED BY <1>13, <1>20, <1>21 DEF D

\* However a quantity is distributed, it is all distributed.
LEMMA SharesAddUp ==
  ASSUME NEW n \in Nat \ {0}, NEW weights, DOMAIN weights = 1 .. n, \A i \in 1 .. n : weights[i] \in Nat,
         NEW total \in Nat, SumFunction(weights) > 0
  PROVE  \E q : /\ q = distributeByLargestRemainder(total, weights) /\ DOMAIN q = 1 .. n
                /\ \A i \in 1 .. n : q[i] \in Nat
                /\ SumFunctionOnSet(q, 1 .. n) = total
<1> DEFINE D == 1 .. n
           sum == WeightSum(weights)
           base == [i \in DOMAIN weights |-> (weights[i] * total) \div sum]
           unserved == [i \in DOMAIN weights |-> -((weights[i] * total) % sum)]
           leftover == total - SumFunction(base)
           rest == [i \in D |-> (weights[i] * total) % sum]
           q == [i \in DOMAIN weights |-> base[i] + (IF Rank(unserved, i) < leftover THEN 1 ELSE 0)]
           extra == [i \in D |-> IF Rank(unserved, i) < leftover THEN 1 ELSE 0]
           T == {i \in D : Rank(unserved, i) < leftover}
<1>1. IsFiniteSet(D) /\ IntOn(weights, D) BY FS_Interval DEF IntOn
<1>2. q = distributeByLargestRemainder(total, weights) BY Zenon DEF distributeByLargestRemainder
<1>3. PICK W \in Nat \ {0} : W = SumFunctionOnSet(weights, D) /\ W = sum
  <2>1. SumFunction(weights) = SumFunctionOnSet(weights, D) /\ SumFunctionOnSet(weights, D) \in Int
    <3> HIDE DEF D
    <3>1. DOMAIN weights = D BY DEF D
    <3> QED BY <1>1, <3>1, SumOverDomain, SumIsInt
  <2>2. PICK w \in Int : w = SumFunction(weights) BY <2>1
  <2>3. w \in Nat \ {0} BY <2>2
  <2> QED BY <2>1, <2>2, <2>3 DEF WeightSum
<1>4. DOMAIN base = D /\ DOMAIN unserved = D /\ DOMAIN q = D OBVIOUS
<1>5. \A i \in D : base[i] = (weights[i] * total) \div W /\ rest[i] = (weights[i] * total) % W /\ unserved[i] = -rest[i]
  BY <1>3
<1>6. \A i \in D : /\ q[i] = base[i] + extra[i] /\ (i \in T => extra[i] = 1) /\ (i \notin T => extra[i] = 0)
  OBVIOUS
<1> HIDE DEF base, rest, unserved, q, sum
<1>7. /\ \A i \in D : base[i] \in Nat /\ rest[i] \in 0 .. W - 1
      /\ SumFunctionOnSet(base, D) \in Nat /\ total - SumFunctionOnSet(base, D) \in 0 .. n
  <2>1. \A i \in D : base[i] = (weights[i] * total) \div W /\ rest[i] = (weights[i] * total) % W BY <1>5
  <2> QED BY <1>3, <2>1, LittleIsLeft
<1>8. IntOn(base, D) BY <1>7 DEF IntOn
<1>9. leftover = total - SumFunctionOnSet(base, D) /\ leftover \in 0 .. n
  <2>1. SumFunction(base) = SumFunctionOnSet(base, D)
    <3> HIDE DEF D
    <3> QED BY <1>1, <1>4, <1>8, SumOverDomain
  <2> QED BY <1>7, <2>1
<1>10. Cardinality(T) = leftover
  <2>1. \A i \in 1 .. n : unserved[i] \in Int
    <3>1. ASSUME NEW i \in D PROVE unserved[i] \in Int
      <4>1. PICK x \in Int : x = rest[i] BY <1>7
      <4>2. unserved[i] = -x BY <1>5, <4>1
      <4> QED BY <4>2
    <3> QED BY <3>1
  <2>2. PICK m \in 0 .. n : m = leftover BY <1>9
  <2>3. Cardinality({i \in 1 .. n : Rank(unserved, i) < m}) = m BY <1>4, <2>1, RanksAreFull
  <2> QED BY <2>2, <2>3
<1>11. T \subseteq D /\ \A i \in D : extra[i] \in Int OBVIOUS
<1> HIDE DEF leftover, extra, T, D
<1>12. IsFiniteSet(T) /\ IntOn(extra, D) BY <1>1, <1>11, FS_Subset DEF IntOn
<1>13. SumFunctionOnSet(extra, D) = leftover BY <1>1, <1>6, <1>11, <1>12, SumSkipping, SumOfOnes, <1>10
<1>14. SumFunctionOnSet(q, D) = SumFunctionOnSet(base, D) + SumFunctionOnSet(extra, D)
  BY <1>1, <1>6, <1>8, <1>12, SumAdded
<1>15. SumFunctionOnSet(q, D) = total
  <2>1. PICK B \in Nat : B = SumFunctionOnSet(base, D) BY <1>7
  <2> QED BY <1>9, <1>13, <1>14, <2>1
<1>16. \A i \in D : q[i] \in Nat BY <1>6, <1>7
<1> QED BY <1>2, <1>4, <1>15, <1>16 DEF D

Slices == Seq([time : Int, quantity : Nat])

\* A plan releases all of its parent order, in the order of time.
IsPlan(slices, n, total) ==
  /\ slices \in Slices /\ n = Len(slices) /\ DOMAIN slices = 1 .. n
  /\ SumFunctionOnSet([i \in 1 .. n |-> slices[i].quantity], 1 .. n) = total
  /\ \A i, j \in 1 .. n : i < j => slices[i].time <= slices[j].time

\* A product distributes over a sum.
LEMMA Distributes == ASSUME NEW a \in Nat, NEW b \in Nat, NEW c \in Nat PROVE (a + b) * c = a * c + b * c
OBVIOUS

\* Times that whole steps lead to are in the order of the steps.
LEMMA StepsAreOrdered ==
  ASSUME NEW k \in Nat, NEW l \in Nat, NEW o \in Nat, NEW step \in Nat, NEW D \in Nat, NEW s \in Int,
         (k + o) * step <= D
  PROVE  s + k * step <= s + (k + l) * step /\ s + k * step <= s + D /\ s <= s + (k + l) * step
<1>1. PICK x \in Nat, y \in Nat, z \in Nat : x = k * step /\ y = l * step /\ z = o * step
  <2>1. k * step \in Nat /\ l * step \in Nat /\ o * step \in Nat OBVIOUS
  <2> QED BY <2>1
<1>2. (k + l) * step = k * step + l * step BY Distributes
<1>3. (k + o) * step = k * step + o * step BY Distributes
<1>4. (k + l) * step = x + y BY <1>1, <1>2
<1>5. x + z <= D BY <1>1, <1>3
<1>6. k * step = x BY <1>1
<1>7. s + x <= s + (x + y) /\ s + x <= s + D /\ s <= s + (x + y) BY <1>5
<1> QED BY <1>4, <1>6, <1>7

\* The times of equal steps do not run past the end.
LEMMA StepsStayInside ==
  ASSUME NEW n \in Nat, n >= 2, NEW D \in Nat, NEW s \in Int, NEW step \in Nat, step = D \div (n - 1),
         NEW i \in 1 .. n, NEW j \in 1 .. n, i < j
  PROVE  s + (i - 1) * step <= s + (j - 1) * step /\ s + (i - 1) * step <= s + D /\ s <= s + (j - 1) * step
<1>1. PICK m \in Nat \ {0} : m = n - 1 OBVIOUS
<1>2. m * step <= D
  <2>1. D = m * (D \div m) + (D % m) /\ D % m \in Nat BY Divided
  <2>2. step = D \div m BY <1>1
  <2>3. PICK x \in Int, y \in Nat : x = m * step /\ y = D % m
    <3>1. m * step \in Int OBVIOUS
    <3> QED BY <2>1, <3>1
  <2> QED BY <2>1, <2>2, <2>3
<1>3. PICK k \in Nat, l \in Nat, o \in Nat : k = i - 1 /\ j - 1 = k + l /\ m = k + o
  <2>1. i - 1 \in Nat /\ j - i \in Nat /\ n - i \in Nat OBVIOUS
  <2>2. j - 1 = (i - 1) + (j - i) /\ n - 1 = (i - 1) + (n - i) OBVIOUS
  <2> QED BY <1>1, <2>1, <2>2
<1>4. (k + o) * step <= D BY <1>2, <1>3
<1>5. s + k * step <= s + (k + l) * step /\ s + k * step <= s + D /\ s <= s + (k + l) * step
  BY <1>4, StepsAreOrdered
<1> QED BY <1>3, <1>5

\* A function on 1 .. n is a sequence.
LEMMA FunctionsAreSequences ==
  ASSUME NEW n \in Nat, NEW S, NEW f, f \in [1 .. n -> S] PROVE f \in Seq(S) /\ Len(f) = n OBVIOUS

\* Slices at equal steps are a plan.
LEMMA TwapIsPlan ==
  ASSUME NEW total \in ParentQuantities, NEW window \in TwapWindows, NEW n \in SliceCounts, window.end > window.start
  PROVE  IsPlan(BuildTwapSchedule(total, window, n), n, total)
<1>1. /\ total \in Nat /\ n \in Nat \ {0} /\ window.start \in Int /\ window.end \in Int BY AlgoAssumption
<1> DEFINE ones == [i \in 1 .. n |-> 1]
           quantities == distributeByLargestRemainder(total, [i \in 1 .. n |-> 1])
           interval == (window.end - window.start) \div (n - 1)
           slices == [i \in 1 .. n |->
                        [time |-> IF i = 1 THEN window.start ELSE IF i = n THEN window.end
                                  ELSE window.start + (i - 1) * interval,
                         quantity |-> quantities[i]]]
<1>2. slices = BuildTwapSchedule(total, window, n) BY Zenon DEF BuildTwapSchedule
<1>3. SumFunction(ones) > 0
  <2>1. IsFiniteSet(1 .. n) /\ Cardinality(1 .. n) = n BY <1>1, FS_Interval
  <2>2. DOMAIN ones = 1 .. n /\ IntOn(ones, 1 .. n) /\ \A i \in 1 .. n : ones[i] = 1 BY DEF IntOn
  <2> HIDE DEF ones
  <2>3. SumFunction(ones) = SumFunctionOnSet(ones, 1 .. n) BY <2>1, <2>2, SumOverDomain
  <2>4. SumFunctionOnSet(ones, 1 .. n) = n BY <2>1, <2>2, SumOfOnes
  <2> QED BY <1>1, <2>3, <2>4
<1>4. PICK q : /\ q = quantities /\ DOMAIN q = 1 .. n /\ \A i \in 1 .. n : q[i] \in Nat
               /\ SumFunctionOnSet(q, 1 .. n) = total
  <2>1. DOMAIN ones = 1 .. n /\ \A i \in 1 .. n : ones[i] \in Nat OBVIOUS
  <2>2. quantities = distributeByLargestRemainder(total, ones) OBVIOUS
  <2> HIDE DEF ones, quantities
  <2> QED BY <1>1, <1>3, <2>1, <2>2, SharesAddUp
<1>5. PICK D \in Nat \ {0}, s \in Int : D = window.end - window.start /\ s = window.start /\ window.end = s + D
  <2>1. window.end - window.start \in Nat \ {0} /\ window.end = window.start + (window.end - window.start)
    BY <1>1
  <2> QED BY <1>1, <2>1
<1>6. \A i \in 1 .. n : slices[i].quantity = q[i] /\ slices[i].time =
         (IF i = 1 THEN s ELSE IF i = n THEN s + D ELSE s + (i - 1) * interval) BY <1>4, <1>5
<1>7. DOMAIN slices = 1 .. n OBVIOUS
<1>8. n >= 2 => interval \in Nat /\ interval = D \div (n - 1)
  <2> SUFFICES ASSUME n >= 2 PROVE interval \in Nat /\ interval = D \div (n - 1) OBVIOUS
  <2>1. PICK m \in Nat \ {0} : m = n - 1 BY <1>1
  <2>2. interval = D \div m BY <1>5, <2>1
  <2>3. D \div m \in Nat BY Divided
  <2> QED BY <2>1, <2>2, <2>3
<1>9. \A i \in 1 .. n : slices[i] \in [time : Int, quantity : Nat]
  <2> TAKE i \in 1 .. n
  <2>0. PICK t : t = IF i = 1 THEN s ELSE IF i = n THEN s + D ELSE s + (i - 1) * interval OBVIOUS
  <2>1. t \in Int /\ t = IF i = 1 THEN s ELSE IF i = n THEN s + D ELSE s + (i - 1) * interval
    <3>1. CASE i = 1 \/ i = n BY <2>0, <3>1
    <3>2. CASE ~(i = 1 \/ i = n) BY <1>1, <1>8, <3>2, <2>0
    <3> QED BY <3>1, <3>2
  <2>2. slices[i] = [time |-> t, quantity |-> q[i]] BY <1>4, <1>5, <2>1
  <2> QED BY <1>4, <2>1, <2>2
<1> HIDE DEF slices, quantities, ones, interval
<1>10. slices \in Slices /\ Len(slices) = n
  <2>1. slices = [i \in 1 .. n |-> slices[i]] BY Zenon DEF slices
  <2>2. slices \in [1 .. n -> [time : Int, quantity : Nat]] BY <1>9, <2>1
  <2> QED BY <1>1, <2>2, FunctionsAreSequences DEF Slices
<1>11. SumFunctionOnSet([i \in 1 .. n |-> slices[i].quantity], 1 .. n) = total
  <2> DEFINE g == [i \in 1 .. n |-> slices[i].quantity]
  <2>1. \A i \in 1 .. n : g[i] = q[i] BY <1>6
  <2>2. IsFiniteSet(1 .. n) BY <1>1, FS_Interval
  <2> HIDE DEF g
  <2>3. SumFunctionOnSet(g, 1 .. n) = SumFunctionOnSet(q, 1 .. n) BY <2>1, <2>2, SumSame
  <2> QED BY <1>4, <2>3 DEF g
<1>12. ASSUME NEW i \in 1 .. n, NEW j \in 1 .. n, i < j PROVE slices[i].time <= slices[j].time
  <2>1. n >= 2 /\ j # 1 /\ i # n BY <1>1, <1>12
  <2>2. PICK d \in Nat : d = interval /\ d = D \div (n - 1) BY <1>8, <2>1
  <2>3. s + (i - 1) * d <= s + (j - 1) * d /\ s + (i - 1) * d <= s + D /\ s <= s + (j - 1) * d
    BY <1>1, <1>12, <2>1, <2>2, StepsStayInside
  <2>4. slices[i].time = (IF i = 1 THEN s ELSE s + (i - 1) * d) BY <1>6, <2>1, <2>2
  <2>5. slices[j].time = (IF j = n THEN s + D ELSE s + (j - 1) * d) BY <1>6, <2>1, <2>2
  <2>6. s <= s + D OBVIOUS
  <2> QED BY <2>3, <2>4, <2>5, <2>6
<1> QED BY <1>2, <1>7, <1>10, <1>11, <1>12 DEF IsPlan

\* A curve with some weight has points.
LEMMA CurveShapes ==
  ASSUME NEW curve \in VolumeCurves, WeightSum([i \in DOMAIN curve |-> curve[i].weight]) > 0
  PROVE  \E n \in Nat \ {0} : /\ n = Len(curve) /\ DOMAIN curve = 1 .. n
                              /\ \A i \in 1 .. n : curve[i].time \in Int /\ curve[i].weight \in Nat
<1>1. curve \in Seq([time : Int, weight : Nat]) BY AlgoAssumption
<1>2. PICK n \in Nat : n = Len(curve) /\ DOMAIN curve = 1 .. n /\ \A i \in 1 .. n : curve[i] \in [time : Int, weight : Nat]
  <2>1. PICK P : P = [time : Int, weight : Nat] OBVIOUS
  <2>2. curve \in Seq(P) BY <1>1, <2>1
  <2>3. \E n \in Nat : n = Len(curve) /\ DOMAIN curve = 1 .. n /\ \A i \in 1 .. n : curve[i] \in P BY <2>2
  <2> QED BY <2>1, <2>3
<1>3. n # 0
  <2> SUFFICES ASSUME n = 0 PROVE FALSE OBVIOUS
  <2> DEFINE f == [i \in DOMAIN curve |-> curve[i].weight]
  <2>1. DOMAIN f = {} /\ IntOn(f, {}) /\ IsFiniteSet({}) BY <1>2, FS_EmptySet DEF IntOn
  <2> HIDE DEF f
  <2>2. SumFunction(f) = SumFunctionOnSet(f, {}) BY <2>1, SumOverDomain
  <2>3. SumFunction(f) = 0 BY <2>2, SumOfNone
  <2> QED BY <2>3 DEF WeightSum, f
<1> QED BY <1>2, <1>3

\* Buckets in the order of their times are a plan.
LEMMA VwapIsPlan ==
  ASSUME NEW total \in ParentQuantities, NEW curve \in VolumeCurves,
         WeightSum([i \in DOMAIN curve |-> curve[i].weight]) > 0
  PROVE  \E n \in Nat : IsPlan(BuildVwapSchedule(total, curve), n, total)
<1>1. PICK n \in Nat \ {0} : n = Len(curve) /\ DOMAIN curve = 1 .. n
                             /\ \A i \in 1 .. n : curve[i].time \in Int /\ curve[i].weight \in Nat
  BY CurveShapes
<1>2. total \in Nat BY AlgoAssumption
<1> DEFINE weights == [i \in DOMAIN curve |-> curve[i].weight]
           quantities == distributeByLargestRemainder(total, [i \in DOMAIN curve |-> curve[i].weight])
           times == [i \in DOMAIN curve |-> curve[i].time]
           sorted == [k \in DOMAIN curve |-> CHOOSE i \in DOMAIN curve : Rank(times, i) = k - 1]
           slices == [k \in DOMAIN curve |-> [time |-> times[sorted[k]], quantity |-> quantities[sorted[k]]]]
<1>3. slices = BuildVwapSchedule(total, curve) BY Zenon DEF BuildVwapSchedule
<1>4. PICK q : /\ q = quantities /\ DOMAIN q = 1 .. n /\ \A i \in 1 .. n : q[i] \in Nat
               /\ SumFunctionOnSet(q, 1 .. n) = total
  <2>1. DOMAIN weights = 1 .. n /\ \A i \in 1 .. n : weights[i] \in Nat BY <1>1
  <2>2. quantities = distributeByLargestRemainder(total, weights) /\ SumFunction(weights) > 0 BY DEF WeightSum
  <2> HIDE DEF weights, quantities
  <2> QED BY <1>2, <2>1, <2>2, SharesAddUp
<1>5. DOMAIN times = 1 .. n /\ \A i \in 1 .. n : times[i] \in Int BY <1>1
<1>6. DOMAIN sorted = 1 .. n /\ \A k \in 1 .. n : sorted[k] = CHOOSE i \in 1 .. n : Rank(times, i) = k - 1
  BY <1>1
<1>7. DOMAIN slices = 1 .. n /\ \A k \in 1 .. n : slices[k] = [time |-> times[sorted[k]], quantity |-> q[sorted[k]]]
  BY <1>1, <1>4
<1> HIDE DEF times, sorted, slices, quantities, weights
<1>8. ASSUME NEW k \in 1 .. n PROVE sorted[k] \in 1 .. n /\ Rank(times, sorted[k]) = k - 1
  <2>1. k - 1 \in 0 .. n - 1 OBVIOUS
  <2>2. \E i \in 1 .. n : Rank(times, i) = k - 1 BY <1>5, <2>1, RanksAreFull
  <2> QED BY <1>6, <2>2
<1>9. /\ \A i \in 1 .. n : Rank(times, i) \in 0 .. n - 1
      /\ \A i, j \in 1 .. n : Rank(times, i) < Rank(times, j) => times[i] <= times[j]
      /\ \A i, j \in 1 .. n : Rank(times, i) = Rank(times, j) => i = j BY <1>5, RanksInOrder
<1>10. slices \in Slices /\ Len(slices) = n
  <2>1. \A k \in 1 .. n : slices[k] \in [time : Int, quantity : Nat]
    <3>1. \A k \in 1 .. n : times[sorted[k]] \in Int /\ q[sorted[k]] \in Nat BY <1>4, <1>5, <1>8
    <3> QED BY <1>7, <3>1
  <2>2. slices = [k \in 1 .. n |-> slices[k]] BY <1>1, Zenon DEF slices
  <2>3. slices \in [1 .. n -> [time : Int, quantity : Nat]] BY <2>1, <2>2
  <2> QED BY <2>3, FunctionsAreSequences DEF Slices
<1>11. ASSUME NEW i \in 1 .. n, NEW j \in 1 .. n, i < j PROVE slices[i].time <= slices[j].time
  <2>1. i - 1 < j - 1 BY <1>11
  <2>2. Rank(times, sorted[i]) < Rank(times, sorted[j]) BY <1>8, <2>1
  <2>3. times[sorted[i]] <= times[sorted[j]] BY <1>8, <1>9, <2>2
  <2> QED BY <1>7, <2>3
<1>12. SumFunctionOnSet([i \in 1 .. n |-> slices[i].quantity], 1 .. n) = total
  <2> DEFINE g == [i \in 1 .. n |-> slices[i].quantity]
  <2>1. IsFiniteSet(1 .. n) BY FS_Interval
  <2>2. \A k \in 1 .. n : g[k] = q[sorted[k]] /\ g[k] \in Int BY <1>4, <1>7, <1>8
  <2>3. \A x, y \in 1 .. n : sorted[x] = sorted[y] => x = y
    <3> SUFFICES ASSUME NEW x \in 1 .. n, NEW y \in 1 .. n, sorted[x] = sorted[y]  PROVE x = y OBVIOUS
    <3>1. x - 1 = y - 1 BY <1>8
    <3> QED BY <3>1
  <2>4. {sorted[k] : k \in 1 .. n} = 1 .. n
    <3>1. ASSUME NEW i \in 1 .. n PROVE \E k \in 1 .. n : sorted[k] = i
      <4>1. PICK k \in 1 .. n : k - 1 = Rank(times, i)
        <5>1. PICK r \in 0 .. n - 1 : r = Rank(times, i) BY <1>9
        <5>2. r + 1 \in 1 .. n /\ (r + 1) - 1 = r OBVIOUS
        <5> QED BY <5>1, <5>2
      <4>2. Rank(times, sorted[k]) = Rank(times, i) /\ sorted[k] \in 1 .. n BY <1>8, <4>1
      <4>3. sorted[k] = i BY <1>9, <4>2
      <4> QED BY <4>3
    <3> QED BY <1>8, <3>1
  <2> HIDE DEF g
  <2>5. IntOn(g, 1 .. n) /\ \A k \in 1 .. n : q[sorted[k]] = g[k] BY <2>2 DEF IntOn
  <2>6. SumFunctionOnSet(q, {sorted[k] : k \in 1 .. n}) = SumFunctionOnSet(g, 1 .. n)
    <3>1. PICK D : D = 1 .. n OBVIOUS
    <3>2. IsFiniteSet(D) /\ IntOn(g, D) BY <2>1, <2>5, <3>1
    <3>3. \A x, y \in D : sorted[x] = sorted[y] => x = y BY <2>3, <3>1
    <3>4. \A x \in D : q[sorted[x]] = g[x] BY <2>5, <3>1
    <3>5. SumFunctionOnSet(q, {sorted[k] : k \in D}) = SumFunctionOnSet(g, D) BY <3>2, <3>3, <3>4, SumRenamed
    <3> QED BY <3>1, <3>5
  <2>7. SumFunctionOnSet(g, 1 .. n) = total BY <1>4, <2>4, <2>6
  <2> QED BY <2>7 DEF g
<1>13. IsPlan(slices, n, total) BY <1>7, <1>10, <1>11, <1>12 DEF IsPlan
<1> QED BY <1>3, <1>13

\* The slices that went out are those of the plan that are marked, each once and not early.
PlanIsOut(order, out, n) ==
  /\ order \in [parent : Nat, slices : Slices, released : SUBSET Nat]
  /\ IsPlan(order.slices, n, order.parent)
  /\ order.released \subseteq 1 .. n
  /\ \A r \in out : /\ r.slice \in order.released
                    /\ r.quantity = order.slices[r.slice].quantity
                    /\ order.slices[r.slice].time <= r.now
  /\ \A i \in order.released : \E r \in out : r.slice = i
  /\ \A q, r \in out : q.slice = r.slice => q = r

ScheduleInv == \E n \in Nat : PlanIsOut(schedule, released, n)

\* No schedule is a plan of no order.
LEMMA NothingIsOut == ASSUME NEW out, out = {} PROVE PlanIsOut(NoSchedule, out, 0)
<1> DEFINE g == [i \in 1 .. 0 |-> NoSchedule.slices[i].quantity]
<1>1. NoSchedule.slices = <<>> /\ NoSchedule.parent = 0 /\ NoSchedule.released = {} BY DEF NoSchedule
<1>2. <<>> \in Slices /\ Len(<<>>) = 0 /\ DOMAIN <<>> = 1 .. 0 BY DEF Slices
<1>3. 1 .. 0 = {} OBVIOUS
<1>4. SumFunctionOnSet(g, {}) = 0 BY SumOfNone
<1>5. IsPlan(NoSchedule.slices, 0, NoSchedule.parent) BY <1>1, <1>2, <1>3, <1>4 DEF IsPlan
<1>6. NoSchedule \in [parent : Nat, slices : Slices, released : SUBSET Nat] BY <1>2 DEF NoSchedule
<1> QED BY <1>1, <1>5, <1>6 DEF PlanIsOut

\* A plan just stored has nothing out.
LEMMA StoredKeepsInv ==
  ASSUME ScheduleInv, NEW total \in ParentQuantities, NEW slices, Stored(total, slices),
         \E n \in Nat : IsPlan(slices, n, total)
  PROVE  ScheduleInv'
<1>1. PICK n \in Nat : IsPlan(slices, n, total) OBVIOUS
<1>2. schedule = NoSchedule /\ schedule' = [parent |-> total, slices |-> slices, released |-> {}] /\ released' = released
  BY DEF Stored
<1>3. released = {} BY <1>2 DEF ScheduleInv, PlanIsOut, NoSchedule
<1>4. total \in Nat BY AlgoAssumption
<1>5. slices \in Slices BY <1>1 DEF IsPlan
<1>6. schedule'.parent = total /\ schedule'.slices = slices /\ schedule'.released = {} BY <1>2
<1>7. schedule' \in [parent : Nat, slices : Slices, released : SUBSET Nat] BY <1>2, <1>4, <1>5
<1>8. PlanIsOut(schedule', released', n) BY <1>1, <1>2, <1>3, <1>6, <1>7 DEF PlanIsOut
<1> QED BY <1>8 DEF ScheduleInv

\* A poll hands out slices that are due and were not out.
LEMMA PollKeepsInv == ASSUME ScheduleInv, PollDueSlices PROVE ScheduleInv'
<1>1. PICK n \in Nat : PlanIsOut(schedule, released, n) BY DEF ScheduleInv
<1>2. PICK now \in PollTimes :
         /\ schedule' = [schedule EXCEPT !.released = @ \union DueSlices(now)]
         /\ released' = released \union
               {[slice |-> i, quantity |-> schedule.slices[i].quantity, now |-> now, call |-> algoCalls] :
                   i \in DueSlices(now)} BY DEF PollDueSlices
<1> DEFINE fresh == {[slice |-> i, quantity |-> schedule.slices[i].quantity, now |-> now, call |-> algoCalls] :
                       i \in DueSlices(now)}
<1>3. /\ schedule \in [parent : Nat, slices : Slices, released : SUBSET Nat]
      /\ IsPlan(schedule.slices, n, schedule.parent)
      /\ schedule.released \subseteq 1 .. n BY <1>1 DEF PlanIsOut
<1>4. /\ \A r \in released : /\ r.slice \in schedule.released
                             /\ r.quantity = schedule.slices[r.slice].quantity
                             /\ schedule.slices[r.slice].time <= r.now
      /\ \A i \in schedule.released : \E r \in released : r.slice = i
      /\ \A q, r \in released : q.slice = r.slice => q = r BY <1>1 DEF PlanIsOut
<1>5. PICK due : /\ due = DueSlices(now) /\ due \subseteq 1 .. n
                 /\ \A i \in due : i \notin schedule.released /\ schedule.slices[i].time <= now
  <2>1. DOMAIN schedule.slices = 1 .. n BY <1>3 DEF IsPlan
  <2>2. \A i \in DueSlices(now) : i \in 1 .. n /\ i \notin schedule.released /\ schedule.slices[i].time <= now
    <3>1. PICK D, slices, gone : D = 1 .. n /\ slices = schedule.slices /\ gone = schedule.released OBVIOUS
    <3>2. DueSlices(now) = {i \in D \ gone : slices[i].time <= now} BY <2>1, <3>1 DEF DueSlices
    <3> QED BY <3>1, <3>2
  <2> QED BY <2>2
<1>6. /\ schedule'.parent = schedule.parent /\ schedule'.slices = schedule.slices
      /\ schedule'.released = schedule.released \union due
      /\ schedule' \in [parent : Nat, slices : Slices, released : SUBSET Nat] BY <1>2, <1>3, <1>5
<1>7. released' = released \union fresh BY <1>2
<1>8. /\ \A r \in fresh : /\ r.slice \in due
                          /\ r.quantity = schedule.slices[r.slice].quantity
                          /\ schedule.slices[r.slice].time <= r.now
      /\ \A i \in due : \E r \in fresh : r.slice = i
      /\ \A q, r \in fresh : q.slice = r.slice => q = r
  <2>1. PICK slices : slices = schedule.slices OBVIOUS
  <2>2. fresh = {[slice |-> i, quantity |-> slices[i].quantity, now |-> now, call |-> algoCalls] : i \in due}
    BY <1>5, <2>1
  <2> HIDE DEF fresh
  <2>3. \A r \in fresh : \E i \in due :
           r = [slice |-> i, quantity |-> slices[i].quantity, now |-> now, call |-> algoCalls] BY <2>2
  <2>4. \A i \in due : [slice |-> i, quantity |-> slices[i].quantity, now |-> now, call |-> algoCalls] \in fresh
    BY <2>2
  <2>5. ASSUME NEW r \in fresh
        PROVE  r.slice \in due /\ r.quantity = slices[r.slice].quantity /\ slices[r.slice].time <= r.now
    <3>1. PICK i \in due : r = [slice |-> i, quantity |-> slices[i].quantity, now |-> now, call |-> algoCalls]
      BY <2>3
    <3>2. r.slice = i /\ r.quantity = slices[i].quantity /\ r.now = now BY <3>1
    <3>3. slices[i].time <= now BY <1>5, <2>1
    <3> QED BY <3>2, <3>3
  <2>6. \A i \in due : \E r \in fresh : r.slice = i BY <2>4
  <2>7. \A q, r \in fresh : q.slice = r.slice => q = r BY <2>3
  <2> QED BY <2>1, <2>5, <2>6, <2>7
<1> HIDE DEF fresh
<1>9. \A r \in released' : /\ r.slice \in schedule'.released
                           /\ r.quantity = schedule'.slices[r.slice].quantity
                           /\ schedule'.slices[r.slice].time <= r.now BY <1>4, <1>6, <1>7, <1>8
<1>10. \A i \in schedule'.released : \E r \in released' : r.slice = i BY <1>4, <1>6, <1>7, <1>8
<1>11. \A q, r \in released' : q.slice = r.slice => q = r BY <1>4, <1>5, <1>7, <1>8
<1>12. schedule'.released \subseteq 1 .. n /\ IsPlan(schedule'.slices, n, schedule'.parent)
  BY <1>3, <1>5, <1>6
<1>13. PlanIsOut(schedule', released', n) BY <1>6, <1>9, <1>10, <1>11, <1>12 DEF PlanIsOut
<1> QED BY <1>13 DEF ScheduleInv

\* Every call of the scheduler keeps the invariant, and every other call leaves its state alone.
LEMMA SchedulesKeepInv == ASSUME ScheduleInv, ScheduleNext \/ UNCHANGED scheduleVars PROVE ScheduleInv'
<1>1. CASE CreateTwap
  <2>1. PICK total \in ParentQuantities, window \in TwapWindows, n \in SliceCounts :
           window.end > window.start /\ Stored(total, BuildTwapSchedule(total, window, n))
    BY <1>1 DEF CreateTwap
  <2>2. IsPlan(BuildTwapSchedule(total, window, n), n, total) /\ n \in Nat BY <2>1, TwapIsPlan, AlgoAssumption
  <2>3. \E m \in Nat : IsPlan(BuildTwapSchedule(total, window, n), m, total) BY <2>2
  <2> QED BY <2>1, <2>3, StoredKeepsInv
<1>2. CASE CreateVwap
  <2>1. PICK total \in ParentQuantities, curve \in VolumeCurves :
           /\ WeightSum([i \in DOMAIN curve |-> curve[i].weight]) > 0
           /\ Stored(total, BuildVwapSchedule(total, curve)) BY <1>2 DEF CreateVwap
  <2>2. \E n \in Nat : IsPlan(BuildVwapSchedule(total, curve), n, total) BY <2>1, VwapIsPlan
  <2> QED BY <2>1, <2>2, StoredKeepsInv
<1>3. CASE PollDueSlices BY <1>3, PollKeepsInv
<1>4. CASE UNCHANGED scheduleVars BY <1>4 DEF scheduleVars, ScheduleInv
<1> QED BY <1>1, <1>2, <1>3, <1>4 DEF ScheduleNext

\* Nothing is scheduled at first.
LEMMA SchedulesStart == ASSUME AlgoInit PROVE ScheduleInv
<1>1. schedule = NoSchedule /\ released = {} BY DEF AlgoInit
<1>2. PlanIsOut(NoSchedule, released, 0) BY <1>1, NothingIsOut
<1> QED BY <1>1, <1>2 DEF ScheduleInv

\* What the marked slices hold went out.
LEMMA OutIsMarked ==
  ASSUME NEW n \in Nat, PlanIsOut(schedule, released, n)
  PROVE  SumFunctionOnSet([r \in released |-> r.quantity], released)
            = SumFunctionOnSet([i \in 1 .. n |-> schedule.slices[i].quantity], schedule.released)
<1> DEFINE f == [i \in 1 .. n |-> schedule.slices[i].quantity]
           g == [r \in released |-> r.quantity]
           record == [i \in schedule.released |-> CHOOSE r \in released : r.slice = i]
<1>1. /\ schedule.released \subseteq 1 .. n
      /\ \A r \in released : r.slice \in schedule.released /\ r.quantity = schedule.slices[r.slice].quantity
      /\ \A i \in schedule.released : \E r \in released : r.slice = i
      /\ \A q, r \in released : q.slice = r.slice => q = r BY DEF PlanIsOut
<1>2. \A i \in schedule.released : record[i] \in released /\ record[i].slice = i BY <1>1
<1>3. {record[i] : i \in schedule.released} = released
  <2>1. ASSUME NEW r \in released PROVE \E i \in schedule.released : record[i] = r BY <1>1, <1>2
  <2> HIDE DEF record
  <2> QED BY <1>2, <2>1
<1>4. \A i \in 1 .. n : f[i] \in Int
  <2>1. PICK P : P = [time : Int, quantity : Nat] OBVIOUS
  <2>2. schedule.slices \in Seq(P) /\ DOMAIN schedule.slices = 1 .. n BY <2>1 DEF PlanIsOut, IsPlan, Slices
  <2>3. \A i \in 1 .. n : schedule.slices[i] \in P
    <3>1. PICK s : s = schedule.slices OBVIOUS
    <3>2. \A i \in DOMAIN s : s[i] \in P BY <2>2, <3>1
    <3> QED BY <2>2, <3>1, <3>2
  <2> QED BY <2>1, <2>3
<1>5. \A i \in schedule.released : g[record[i]] = f[i] BY <1>1, <1>2
<1>6. \A i, j \in schedule.released : record[i] = record[j] => i = j BY <1>2
<1>7. IsFiniteSet(schedule.released) /\ IntOn(f, schedule.released)
  <2>1. PICK D : D = 1 .. n OBVIOUS
  <2>2. IsFiniteSet(D) /\ schedule.released \subseteq D BY <1>1, <2>1, FS_Interval
  <2>3. IsFiniteSet(schedule.released) BY <2>2, FS_Subset
  <2> QED BY <1>1, <1>4, <2>3 DEF IntOn
<1> HIDE DEF f, g, record
<1>8. PICK S : S = schedule.released OBVIOUS
<1>9. SumFunctionOnSet(g, {record[i] : i \in S}) = SumFunctionOnSet(f, S)
  BY <1>7, <1>8, <1>6, <1>5, SumRenamed
<1> QED BY <1>3, <1>8, <1>9 DEF f, g

\* The invariant says what the schedules promise.
LEMMA InvReleasesTheParent == ASSUME ScheduleInv PROVE SchedulesReleaseTheParent
<1>1. PICK n \in Nat : PlanIsOut(schedule, released, n) BY DEF ScheduleInv
<1>2. /\ schedule.released \subseteq 1 .. n
      /\ \A r \in released : schedule.slices[r.slice].time <= r.now
      /\ \A q, r \in released : q.slice = r.slice => q = r
      /\ DOMAIN schedule.slices = 1 .. n /\ Len(schedule.slices) = n
      /\ SumFunctionOnSet([i \in 1 .. n |-> schedule.slices[i].quantity], 1 .. n) = schedule.parent
      /\ \A i, j \in 1 .. n : i < j => schedule.slices[i].time <= schedule.slices[j].time
  BY <1>1 DEF PlanIsOut, IsPlan
<1> DEFINE f == [i \in 1 .. n |-> schedule.slices[i].quantity]
<1>3. PICK D, S : D = 1 .. n /\ S = schedule.released OBVIOUS
<1>4. IsFiniteSet(D) /\ Cardinality(D) = n /\ S \subseteq D BY FS_Interval, <1>2, <1>3
<1>5. IsFiniteSet(S) /\ IsFiniteSet(D \ S) BY <1>4, FS_Subset
<1>6. IntOn(f, D)
  <2>1. PICK P : P = [time : Int, quantity : Nat] OBVIOUS
  <2>2. schedule.slices \in Seq(P) BY <1>1, <2>1 DEF PlanIsOut, IsPlan, Slices
  <2>3. \A i \in 1 .. n : schedule.slices[i] \in P
    <3>1. PICK s : s = schedule.slices OBVIOUS
    <3>2. \A i \in DOMAIN s : s[i] \in P BY <2>2, <3>1
    <3> QED BY <1>2, <3>1, <3>2
  <2> QED BY <1>3, <2>1, <2>3 DEF IntOn
<1>7. RemainingQuantity = SumFunctionOnSet(f, D \ S) BY <1>2, <1>3 DEF RemainingQuantity
<1>8. SumFunctionOnSet([r \in released |-> r.quantity], released) = SumFunctionOnSet(f, S)
  BY <1>1, <1>3, OutIsMarked
<1>9. SumFunctionOnSet(f, D) = schedule.parent BY <1>2, <1>3
<1> HIDE DEF f
<1>10. /\ SumFunctionOnSet(f, D) = SumFunctionOnSet(f, S) + SumFunctionOnSet(f, D \ S)
       /\ SumFunctionOnSet(f, S) \in Int /\ SumFunctionOnSet(f, D \ S) \in Int
  BY <1>4, <1>6, <1>5, SumSplit, SumIsInt DEF IntOn
<1>11. RemainingQuantity + SumFunctionOnSet([r \in released |-> r.quantity], released) = schedule.parent
  BY <1>7, <1>8, <1>9, <1>10
<1>12. ASSUME IsComplete PROVE RemainingQuantity = 0
  <2>1. Cardinality(S) = Cardinality(D) BY <1>2, <1>3, <1>4, <1>12 DEF IsComplete
  <2>2. S = D BY <1>4, <2>1, FS_Subset
  <2>3. D \ S = {} BY <2>2
  <2> QED BY <1>7, <2>3, SumOfNone
<1> QED BY <1>2, <1>11, <1>12 DEF SchedulesReleaseTheParent

--------------------
(* The gate of a first F&O order and the pace of orders.                   *)

FnoChecks == [at : {"cleared", "refused", "placed"}, acknowledgedAt : Int, checkedAt : Int, returning : BOOLEAN]

\* The order passed a cooling-off period after the acknowledgement that held.
IsCooledOff(check) ==
  check.acknowledgedAt # Never /\ check.checkedAt - check.acknowledgedAt >= CoolingOff

\* An order that was let through without an order before it had cooled off, and no order
\* comes back before one was placed.
DisclosureInv ==
  /\ moment \in Int /\ disclosure \in [acknowledgedAt : Int, placed : BOOLEAN] /\ DOMAIN fno = FnoOrders
  /\ \A o \in FnoOrders : fno[o] # Unstarted =>
        /\ fno[o] \in FnoChecks
        /\ fno[o].returning => disclosure.placed
        /\ fno[o].at \in {"cleared", "placed"} /\ ~fno[o].returning => IsCooledOff(fno[o])
  /\ disclosure.placed => \E o \in FnoOrders : fno[o] # Unstarted /\ fno[o].at = "placed" /\ ~fno[o].returning

\* One order moves: the others stay as they are.
LEMMA OneOrderMoves ==
  ASSUME DisclosureInv, NEW o \in FnoOrders, NEW check \in FnoChecks, fno' = [fno EXCEPT ![o] = check],
         moment' = moment, disclosure'.acknowledgedAt = disclosure.acknowledgedAt,
         disclosure' \in [acknowledgedAt : Int, placed : BOOLEAN],
         check.returning => disclosure'.placed,
         check.at \in {"cleared", "placed"} /\ ~check.returning => IsCooledOff(check),
         disclosure.placed => disclosure'.placed,
         fno[o] = Unstarted \/ fno[o].at # "placed",
         disclosure'.placed => disclosure.placed \/ (check.at = "placed" /\ ~check.returning)
  PROVE  DisclosureInv'
<1>1. /\ DOMAIN fno' = FnoOrders /\ fno'[o] = check
      /\ \A p \in FnoOrders : p # o => fno'[p] = fno[p] BY DEF DisclosureInv
<1>2. check # Unstarted BY DEF FnoChecks, Unstarted
<1>3. ASSUME NEW p \in FnoOrders, fno'[p] # Unstarted
      PROVE  /\ fno'[p] \in FnoChecks /\ (fno'[p].returning => disclosure'.placed)
             /\ fno'[p].at \in {"cleared", "placed"} /\ ~fno'[p].returning => IsCooledOff(fno'[p])
  <2>1. CASE p = o BY <1>1, <2>1
  <2>2. CASE p # o BY <1>1, <2>2, <1>3 DEF DisclosureInv
  <2> QED BY <2>1, <2>2
<1>4. disclosure'.placed => \E p \in FnoOrders : fno'[p] # Unstarted /\ fno'[p].at = "placed" /\ ~fno'[p].returning
  <2> SUFFICES ASSUME disclosure'.placed
               PROVE  \E p \in FnoOrders : fno'[p] # Unstarted /\ fno'[p].at = "placed" /\ ~fno'[p].returning
    OBVIOUS
  <2>1. CASE check.at = "placed" /\ ~check.returning BY <1>1, <1>2, <2>1
  <2>2. CASE disclosure.placed
    <3>1. PICK p \in FnoOrders : fno[p] # Unstarted /\ fno[p].at = "placed" /\ ~fno[p].returning
      BY <2>2 DEF DisclosureInv
    <3>2. p # o BY <3>1
    <3> QED BY <1>1, <3>1, <3>2
  <2> QED BY <2>1, <2>2
<1>5. moment' \in Int BY DEF DisclosureInv
<1> QED BY <1>1, <1>3, <1>4, <1>5 DEF DisclosureInv, IsCooledOff

\* Each step of the gate keeps the invariant.
LEMMA DisclosureKeepsInv == ASSUME DisclosureInv, DisclosureNext PROVE DisclosureInv'
<1>1. moment \in Int /\ disclosure \in [acknowledgedAt : Int, placed : BOOLEAN] /\ DOMAIN fno = FnoOrders
  BY DEF DisclosureInv
<1>2. CASE Acknowledge BY <1>2, <1>1 DEF Acknowledge, DisclosureInv, IsCooledOff
<1>3. CASE Tick /\ UNCHANGED disclosureVars BY <1>1, <1>3 DEF Tick, DisclosureInv, IsCooledOff, disclosureVars
<1>4. ASSUME NEW o \in FnoOrders, CheckFirstFnoOrderGate(o) PROVE DisclosureInv'
  <2>1. PICK check : check = [at |-> IF DisclosureClears THEN "cleared" ELSE "refused",
                              acknowledgedAt |-> disclosure.acknowledgedAt,
                              checkedAt |-> moment, returning |-> disclosure.placed] OBVIOUS
  <2>2. check \in FnoChecks /\ check.returning = disclosure.placed /\ check.at # "placed"
    BY <1>1, <2>1 DEF FnoChecks
  <2>3. check.at = "cleared" /\ ~check.returning => IsCooledOff(check)
    BY <1>1, <2>1 DEF DisclosureClears, IsCooledOff
  <2>4. fno' = [fno EXCEPT ![o] = check] /\ fno[o] = Unstarted /\ UNCHANGED <<moment, disclosure>>
    BY <1>4, <2>1 DEF CheckFirstFnoOrderGate
  <2> QED BY <1>1, <2>2, <2>3, <2>4, OneOrderMoves
<1>5. ASSUME NEW o \in FnoOrders, NEW at \in {"refused", "placed"}, fno[o].at = "cleared",
             fno' = [fno EXCEPT ![o].at = at]
      PROVE  \E check \in FnoChecks :
                /\ fno' = [fno EXCEPT ![o] = check] /\ check.at = at
                /\ check.returning = fno[o].returning /\ (check.returning => disclosure.placed)
                /\ check.at \in {"cleared", "placed"} /\ ~check.returning => IsCooledOff(check)
  <2>1. fno[o] \in FnoChecks /\ (fno[o].returning => disclosure.placed) /\ (~fno[o].returning => IsCooledOff(fno[o]))
    BY <1>5 DEF DisclosureInv, Unstarted
  <2>2. PICK check : check = [fno[o] EXCEPT !.at = at] OBVIOUS
  <2>3. /\ check \in FnoChecks /\ check.at = at /\ check.returning = fno[o].returning
        /\ check.acknowledgedAt = fno[o].acknowledgedAt /\ check.checkedAt = fno[o].checkedAt
    BY <2>1, <2>2 DEF FnoChecks
  <2>4. fno' = [fno EXCEPT ![o] = check] BY <1>5, <2>2
  <2> QED BY <2>1, <2>3, <2>4 DEF IsCooledOff
<1>6. ASSUME NEW o \in FnoOrders, RejectFnoOrder(o) PROVE DisclosureInv'
  <2>1. fno[o].at = "cleared" /\ fno' = [fno EXCEPT ![o].at = "refused"] /\ UNCHANGED <<moment, disclosure>>
    BY <1>6 DEF RejectFnoOrder
  <2>2. PICK check \in FnoChecks :
           /\ fno' = [fno EXCEPT ![o] = check] /\ (check.returning => disclosure.placed)
           /\ check.at \in {"cleared", "placed"} /\ ~check.returning => IsCooledOff(check) BY <1>5, <2>1
  <2> QED BY <1>1, <2>1, <2>2, OneOrderMoves
<1>7. ASSUME NEW o \in FnoOrders, RecordFirstFnoOrderPlaced(o) PROVE DisclosureInv'
  <2>1. /\ fno[o].at = "cleared" /\ fno' = [fno EXCEPT ![o].at = "placed"]
        /\ disclosure' = [disclosure EXCEPT !.placed = TRUE] /\ UNCHANGED moment
    BY <1>7 DEF RecordFirstFnoOrderPlaced
  <2>2. PICK check \in FnoChecks :
           /\ fno' = [fno EXCEPT ![o] = check] /\ check.at = "placed" /\ (check.returning => disclosure.placed)
           /\ check.at \in {"cleared", "placed"} /\ ~check.returning => IsCooledOff(check) BY <1>5, <2>1
  <2>3. /\ disclosure' \in [acknowledgedAt : Int, placed : BOOLEAN] /\ disclosure'.placed
        /\ disclosure'.acknowledgedAt = disclosure.acknowledgedAt BY <1>1, <2>1
  <2>4. disclosure.placed \/ ~check.returning BY <2>2
  <2> QED BY <2>1, <2>2, <2>3, <2>4, OneOrderMoves
<1> QED BY <1>2, <1>3, <1>4, <1>6, <1>7 DEF DisclosureNext

\* The invariant is what the gate promises.
LEMMA InvFollowsTheDisclosure == ASSUME DisclosureInv PROVE FirstOrdersFollowTheDisclosure
BY DEF DisclosureInv, FirstOrdersFollowTheDisclosure, IsCooledOff

\* The gate starts without an order, and nothing but its own steps touches it.
LEMMA DisclosureStarts == ASSUME MonitorInit PROVE DisclosureInv BY DEF MonitorInit, DisclosureInv, Never

\* A step of another monitor leaves the gate; the clock it reads only moves.
LEMMA OthersKeepDisclosure ==
  ASSUME DisclosureInv, UNCHANGED disclosureVars, moment' \in Int PROVE DisclosureInv'
BY DEF DisclosureInv, IsCooledOff, disclosureVars

Submitted == [at : {"timed", "recorded", "evaluated"}, now : Int]

Arrived == {s \in Submissions : submission[s].at \in {"recorded", "evaluated"}}
ArrivedAfter(t) == {s \in Arrived : submission[s].now > t}
Latest == history[Len(history)]

PaceTypes ==
  /\ moment \in Int /\ cooldownUntil \in Int /\ nudges \subseteq Int /\ takenInOrder \in BOOLEAN
  /\ history \in Seq(Int) /\ Len(history) <= MaxHistory /\ DOMAIN submission = Submissions
  /\ \A s \in Submissions : submission[s] # Unstarted => submission[s] \in Submitted

\* A cooldown follows each nudge, and the one before.
NudgesAreApart ==
  /\ \A m \in nudges : m + Cooldown <= cooldownUntil
  /\ \A m, n \in nudges : m < n => n - m >= Cooldown

\* Only what arrived is remembered, the latest last.
HistoryIsOfArrivals ==
  /\ history # <<>> => \E s \in Arrived : submission[s].now = Latest
  /\ Arrived # {} => history # <<>>

\* What lies behind an entry that is not after t, or behind a beginning that was not
\* forgotten, is all that arrived after t.
Remembers(t) ==
  \A p \in 0 .. Len(history) :
      (p > 0 /\ history[p] <= t) \/ (p = 0 /\ Len(history) < MaxHistory) =>
          Cardinality(ArrivedAfter(t)) <= Len(history) - p

\* A burst was noticed, or its latest order will be looked at.
BurstIsNoticed ==
  (/\ history # <<>>
   /\ Cardinality(ArrivedAfter(Latest - RecentWindow)) >= MinimumCount
   /\ Cardinality(ArrivedAfter(Latest - RapidGap)) >= 2)
  => cooldownUntil > Latest \/ \E s \in Submissions : submission[s].at = "recorded" /\ submission[s].now = Latest

OrderlyHistory ==
  /\ \A i, j \in DOMAIN history : i <= j => history[i] <= history[j]
  /\ \A s \in Arrived : submission[s].now <= Latest
  /\ \A t \in Int : Remembers(t)

PaceInv ==
  /\ PaceTypes /\ NudgesAreApart /\ HistoryIsOfArrivals
  /\ takenInOrder => OrderlyHistory /\ BurstIsNoticed

\* The newest of a history that was within its limit and got one more.
LEMMA NewestOfOneMore ==
  ASSUME NEW h \in Seq(Int), Len(h) <= MaxHistory, NEW v \in Int, NEW g, g = Newest(Append(h, v))
  PROVE  \E d \in {0, 1} : /\ g \in Seq(Int) /\ Len(g) = Len(h) + 1 - d /\ Len(g) <= MaxHistory /\ Len(g) > 0
                           /\ DOMAIN g = 1 .. Len(g)
                           /\ g[Len(g)] = v /\ \A i \in 1 .. Len(g) - 1 : g[i] = h[i + d]
                           /\ d = 1 => Len(h) = MaxHistory
<1>1. PICK n \in Nat, M \in Nat : n = Len(h) /\ M = MaxHistory /\ n <= M /\ M >= 2
  <2>1. MaxHistory \in Nat /\ MaxHistory >= 2 BY MonitorAssumption
  <2> QED BY <2>1
<1>2. PICK a \in Seq(Int) : /\ a = Append(h, v) /\ Len(a) = n + 1 /\ a[n + 1] = v
                            /\ \A i \in 1 .. n : a[i] = h[i]
  <2>1. Append(h, v) \in Seq(Int) /\ Len(Append(h, v)) = Len(h) + 1 OBVIOUS
  <2>2. Append(h, v)[Len(h) + 1] = v /\ \A i \in 1 .. Len(h) : Append(h, v)[i] = h[i] OBVIOUS
  <2> QED BY <1>1, <2>1, <2>2
<1>8. PICK k \in Int : k = n + 1 - M + 1 OBVIOUS
<1>3. k = n + 1 - M + 1 /\ g = SubSeq(a, Max({1, k}), n + 1)
  <2>1. g = SubSeq(a, Max({1, Len(a) - MaxHistory + 1}), Len(a)) BY <1>2 DEF Newest
  <2>2. Len(a) - MaxHistory + 1 = k BY <1>1, <1>2, <1>8
  <2> QED BY <1>2, <1>8, <2>1, <2>2
<1>4. Max({1, k}) \in {1, k} /\ \A y \in {1, k} : Max({1, k}) >= y
  <2>1. \E x \in {1, k} : \A y \in {1, k} : x >= y
    <3>1. CASE k >= 1 BY <3>1
    <3>2. CASE ~(k >= 1) BY <3>2
    <3> QED BY <3>1, <3>2
  <2> QED BY <2>1, Zenon DEF Max
<1>5. CASE n < M
  <2>1. Max({1, k}) = 1 BY <1>1, <1>3, <1>4, <1>5
  <2>2. g = SubSeq(a, 1, n + 1) BY <1>3, <2>1
  <2>3. g \in Seq(Int) /\ Len(g) = n + 1 /\ DOMAIN g = 1 .. n + 1 /\ \A i \in 1 .. n + 1 : g[i] = a[i]
    BY <1>2, <2>2
  <2> QED BY <1>1, <1>2, <1>5, <2>3
<1>6. CASE n = M
  <2>1. k = 2 /\ Max({1, k}) = 2 BY <1>1, <1>3, <1>4, <1>6
  <2>2. g = SubSeq(a, 2, n + 1) BY <1>3, <2>1
  <2>3. g \in Seq(Int) /\ Len(g) = n /\ DOMAIN g = 1 .. n /\ \A i \in 1 .. n : g[i] = a[i + 1]
    BY <1>1, <1>2, <2>2
  <2>4. /\ Len(g) = n + 1 - 1 /\ Len(g) <= M /\ Len(g) > 0 /\ g[n] = v
        /\ \A i \in 1 .. n - 1 : g[i] = h[i + 1] BY <1>1, <1>2, <1>6, <2>3
  <2> QED BY <1>1, <1>6, <2>3, <2>4
<1> QED BY <1>1, <1>5, <1>6

\* Times that are taken change nothing of what arrived.
LEMMA TakeTimeKeepsInv == ASSUME PaceInv, NEW s \in Submissions, TakeTime(s) PROVE PaceInv'
<1>1. /\ submission[s] = Unstarted /\ submission' = [submission EXCEPT ![s] = [at |-> "timed", now |-> moment]]
      /\ UNCHANGED <<moment, history, cooldownUntil, nudges, takenInOrder>> BY DEF TakeTime
<1>2. /\ DOMAIN submission' = Submissions /\ submission'[s].at = "timed" /\ submission'[s] \in Submitted
      /\ \A r \in Submissions : r # s => submission'[r] = submission[r]
  BY <1>1 DEF PaceInv, PaceTypes, Submitted
<1>3. submission[s].at = "idle" BY <1>1 DEF Unstarted
<1>4. Arrived' = Arrived /\ \A r \in Arrived : submission'[r] = submission[r] BY <1>2, <1>3 DEF Arrived
<1>5. ASSUME NEW t \in Int PROVE ArrivedAfter(t)' = ArrivedAfter(t) BY <1>4 DEF ArrivedAfter
<1>6. PaceTypes' BY <1>1, <1>2 DEF PaceInv, PaceTypes
<1>7. NudgesAreApart' /\ HistoryIsOfArrivals'
  BY <1>1, <1>4 DEF PaceInv, NudgesAreApart, HistoryIsOfArrivals, Latest
<1>8. OrderlyHistory => OrderlyHistory' BY <1>1, <1>4, <1>5 DEF OrderlyHistory, Remembers, Latest
<1>9. BurstIsNoticed => BurstIsNoticed'
  <2> SUFFICES ASSUME BurstIsNoticed, history # <<>>,
                      Cardinality(ArrivedAfter(Latest - RecentWindow)') >= MinimumCount,
                      Cardinality(ArrivedAfter(Latest - RapidGap)') >= 2
               PROVE  cooldownUntil > Latest
                      \/ \E r \in Submissions : submission'[r].at = "recorded" /\ submission'[r].now = Latest
    BY <1>1 DEF BurstIsNoticed, Latest
  <2>1. Latest \in Int BY DEF PaceInv, PaceTypes, Latest
  <2>2. Latest - RecentWindow \in Int /\ Latest - RapidGap \in Int BY <2>1, MonitorAssumption
  <2>3. ArrivedAfter(Latest - RecentWindow)' = ArrivedAfter(Latest - RecentWindow)
        /\ ArrivedAfter(Latest - RapidGap)' = ArrivedAfter(Latest - RapidGap)
    BY <1>1, <1>4 DEF ArrivedAfter, Latest
  <2> QED BY <1>2, <1>3, <2>3 DEF BurstIsNoticed
<1> QED BY <1>1, <1>6, <1>7, <1>8, <1>9 DEF PaceInv

\* An entry before the last one was among those that were there.
LEMMA ShiftedInside ==
  ASSUME NEW l \in Nat, NEW n \in Nat, NEW d \in {0, 1}, n = l + 1 - d, NEW i \in 1 .. n, i # n
  PROVE  i \in 1 .. n - 1 /\ i + d \in 1 .. l /\ i + d \in 0 .. l /\ i + d > 0 OBVIOUS

\* What is recorded is looked at later; whatever it pushes out is older than it.
LEMMA RecordKeepsInv == ASSUME PaceInv, NEW s \in Submissions, RecordSubmission(s) PROVE PaceInv'
<1> DEFINE h == history
           g == history'
           c(t) == Cardinality(ArrivedAfter(t))
<1>1. /\ submission[s].at = "timed" /\ submission' = [submission EXCEPT ![s].at = "recorded"]
      /\ history' = Newest(Append(history, submission[s].now))
      /\ takenInOrder' = (takenInOrder /\ (history = <<>> \/ Last(history) <= submission[s].now))
      /\ UNCHANGED <<moment, cooldownUntil, nudges>> BY DEF RecordSubmission
<1>2. /\ PaceTypes /\ h \in Seq(Int) /\ Len(h) <= MaxHistory /\ DOMAIN submission = Submissions
      /\ submission[s] \in Submitted /\ takenInOrder \in BOOLEAN BY <1>1 DEF PaceInv, PaceTypes, Unstarted
<1>3. PICK v \in Int : v = submission[s].now BY <1>2 DEF Submitted
<1>4. PICK x : x = [submission[s] EXCEPT !.at = "recorded"] OBVIOUS
<1>5. x \in Submitted /\ x.at = "recorded" /\ x.now = v BY <1>2, <1>3, <1>4 DEF Submitted
<1>6. /\ DOMAIN submission' = Submissions /\ submission'[s] = x
      /\ \A r \in Submissions : r # s => submission'[r] = submission[r] BY <1>1, <1>2, <1>4
<1>7. PICK d \in {0, 1} : /\ g \in Seq(Int) /\ Len(g) = Len(h) + 1 - d /\ Len(g) <= MaxHistory /\ Len(g) > 0
                          /\ DOMAIN g = 1 .. Len(g)
                          /\ g[Len(g)] = v /\ \A i \in 1 .. Len(g) - 1 : g[i] = h[i + d]
                          /\ d = 1 => Len(h) = MaxHistory
  <2>1. PICK z : z = Newest(Append(h, v)) OBVIOUS
  <2>2. \E d \in {0, 1} : /\ z \in Seq(Int) /\ Len(z) = Len(h) + 1 - d /\ Len(z) <= MaxHistory /\ Len(z) > 0
                          /\ DOMAIN z = 1 .. Len(z)
                          /\ z[Len(z)] = v /\ \A i \in 1 .. Len(z) - 1 : z[i] = h[i + d]
                          /\ d = 1 => Len(h) = MaxHistory BY <1>2, <2>1, NewestOfOneMore
  <2>3. z = g BY <1>1, <1>3, <2>1
  <2> QED BY <2>2, <2>3
<1>8. Len(h) \in Nat /\ Len(g) \in Nat /\ MaxHistory \in Nat /\ (h = <<>> <=> Len(h) = 0) /\ g # <<>>
  BY <1>2, <1>7, MonitorAssumption
<1>20. DOMAIN h = 1 .. Len(h) /\ Len(g) = Len(h) + 1 - d BY <1>2, <1>7
<1>9. /\ s \notin Arrived /\ Arrived' = Arrived \cup {s} /\ submission'[s].now = v
      /\ \A r \in Arrived : submission'[r] = submission[r] /\ submission[r].now \in Int
  BY <1>2, <1>1, <1>5, <1>6 DEF Arrived, Unstarted, PaceTypes, Submitted
<1>10. PaceTypes' BY <1>2, <1>5, <1>6, <1>1, <1>7 DEF PaceTypes
<1>11. NudgesAreApart' /\ HistoryIsOfArrivals'
  BY <1>1, <1>7, <1>8, <1>9 DEF PaceInv, NudgesAreApart, HistoryIsOfArrivals, Latest
<1>12. BurstIsNoticed' BY <1>5, <1>6, <1>7 DEF BurstIsNoticed, Latest
<1>13. ASSUME takenInOrder' PROVE OrderlyHistory'
  <2>1. OrderlyHistory /\ (h = <<>> \/ h[Len(h)] <= v) BY <1>1, <1>2, <1>3, <1>13 DEF PaceInv, Last
  <2>2. \A i \in DOMAIN h : h[i] \in Int /\ h[i] <= v
    <3> TAKE i \in DOMAIN h
    <3>1. i \in 1 .. Len(h) /\ Len(h) \in DOMAIN h /\ h # <<>> /\ h[i] \in Int /\ h[Len(h)] \in Int
      BY <1>2, <1>8
    <3>2. h[i] <= h[Len(h)] BY <2>1, <3>1 DEF OrderlyHistory
    <3> QED BY <2>1, <3>1, <3>2
  <2>3. \A r \in Arrived' : submission'[r].now \in Int /\ submission'[r].now <= v
    <3> SUFFICES ASSUME NEW r \in Arrived PROVE submission[r].now \in Int /\ submission[r].now <= v
      BY <1>3, <1>9
    <3>1. h # <<>> /\ submission[r].now <= h[Len(h)] /\ h[Len(h)] \in Int
      BY <1>2, <2>1 DEF PaceInv, HistoryIsOfArrivals, OrderlyHistory, Latest
    <3>2. h[Len(h)] <= v BY <2>1, <3>1
    <3> QED BY <1>9, <3>1, <3>2
  <2>4. \A r \in Arrived' : submission'[r].now <= Latest' BY <1>7, <2>3 DEF Latest
  <2>5. ASSUME NEW i \in DOMAIN g, NEW j \in DOMAIN g, i <= j PROVE g[i] <= g[j]
    <3>1. CASE j = Len(g)
      <4>1. CASE i = Len(g) BY <1>7, <3>1, <4>1
      <4>2. CASE i # Len(g) BY <1>7, <1>8, <1>20, <4>2, ShiftedInside, <2>2, <3>1
      <4> QED BY <4>1, <4>2
    <3>2. CASE j # Len(g)
      <4>3. i \in 1 .. Len(g) /\ j \in 1 .. Len(g) /\ DOMAIN h = 1 .. Len(h) /\ Len(g) = Len(h) + 1 - d
        BY <1>2, <1>7
      <4>4. i <= Len(g) - 1 /\ j <= Len(g) - 1 BY <1>8, <2>5, <3>2, <4>3
      <4>1. /\ i \in 1 .. Len(g) - 1 /\ j \in 1 .. Len(g) - 1 /\ i + d \in DOMAIN h /\ j + d \in DOMAIN h
            /\ i + d <= j + d BY <1>8, <2>5, <4>3, <4>4
      <4>2. h[i + d] <= h[j + d] BY <2>1, <4>1 DEF OrderlyHistory
      <4> QED BY <1>7, <4>1, <4>2
    <3> QED BY <3>1, <3>2
  <2>6. IsFiniteSet(Arrived) /\ \A t \in Int : IsFiniteSet(ArrivedAfter(t)) /\ c(t) \in Nat
    BY MonitorAssumption, FS_Subset, FS_CardinalityType DEF Arrived, ArrivedAfter
  <2>7. ASSUME NEW t \in Int PROVE Remembers(t)'
    <3> SUFFICES ASSUME NEW p \in 0 .. Len(g), (p > 0 /\ g[p] <= t) \/ (p = 0 /\ Len(g) < MaxHistory)
                 PROVE  Cardinality(ArrivedAfter(t)') <= Len(g) - p BY DEF Remembers
    <3>1. CASE v <= t
      <4>1. ArrivedAfter(t)' = {} BY <2>3, <3>1 DEF ArrivedAfter
      <4> QED BY <1>8, <4>1, FS_EmptySet
    <3>2. CASE v > t
      <4>1. ArrivedAfter(t)' = ArrivedAfter(t) \cup {s} /\ s \notin ArrivedAfter(t)
        BY <1>9, <3>2 DEF ArrivedAfter
      <4>2. PICK k \in Nat : k = c(t) /\ Cardinality(ArrivedAfter(t)') = k + 1
        <5>1. PICK S : S = ArrivedAfter(t) /\ IsFiniteSet(S) /\ s \notin S /\ c(t) = Cardinality(S)
          BY <2>6, <4>1
        <5>2. Cardinality(S \cup {s}) = Cardinality(S) + 1 BY <5>1, FS_AddElement
        <5> QED BY <2>6, <4>1, <5>1, <5>2
      <4>3. Remembers(t) BY <2>1 DEF OrderlyHistory
      <4>4. CASE p > 0
        <5>1. p # Len(g) /\ p \in 1 .. Len(g) - 1
          <6>1. g[p] <= t /\ g[Len(g)] = v /\ v \in Int BY <1>2, <1>7, <4>4 DEF Submitted
          <6>2. p # Len(g) BY <3>2, <6>1
          <6>3. PICK n \in Nat : n = Len(g) BY <1>8
          <6>4. p \in 1 .. n - 1 BY <4>4, <6>2, <6>3
          <6> QED BY <6>2, <6>3, <6>4
        <5>2. g[p] = h[p + d] /\ p + d \in 0 .. Len(h) /\ p + d > 0
          <6>1. p \in 1 .. Len(g) /\ p # Len(g) BY <1>8, <4>4, <5>1
          <6>2. p + d \in 0 .. Len(h) /\ p + d > 0 BY <1>7, <1>8, <6>1, ShiftedInside
          <6> QED BY <1>7, <5>1, <6>2
        <5>3. h[p + d] <= t BY <4>4, <5>2
        <5>4. k <= Len(h) - (p + d) BY <4>2, <4>3, <5>2, <5>3 DEF Remembers
        <5> QED BY <1>7, <1>8, <4>2, <5>4
      <4>5. CASE p = 0
        <5>1. d = 0 /\ Len(h) < MaxHistory BY <1>7, <1>8, <4>5
        <5>2. k <= Len(h) - 0 BY <1>8, <4>2, <4>3, <5>1 DEF Remembers
        <5> QED BY <1>7, <1>8, <4>2, <4>5, <5>1, <5>2
      <4> QED BY <4>4, <4>5
    <3> QED BY <1>3, <3>1, <3>2
  <2> QED BY <2>4, <2>5, <2>7 DEF OrderlyHistory
<1> QED BY <1>10, <1>11, <1>12, <1>13 DEF PaceInv

\* The latest order of a burst is looked at when its count has reached the limits.
LEMMA BurstDeservesNudge ==
  ASSUME PaceTypes, OrderlyHistory, history # <<>>,
         Cardinality(ArrivedAfter(Latest - RecentWindow)) >= MinimumCount,
         Cardinality(ArrivedAfter(Latest - RapidGap)) >= 2
  PROVE  DeservesNudge(Latest)
<1>1. PICK n \in Nat, M \in Nat, k \in Nat : n = Len(history) /\ M = MaxHistory /\ k = MinimumCount
  <2>1. history \in Seq(Int) BY DEF PaceTypes
  <2>2. Len(history) \in Nat /\ MaxHistory \in Nat /\ MinimumCount \in Nat BY <2>1, MonitorAssumption
  <2> QED BY <2>2
<1>2. n > 0 /\ n <= M /\ k >= 1 /\ k <= M /\ M >= 2 /\ DOMAIN history = 1 .. n
  BY <1>1, MonitorAssumption DEF PaceTypes
<1>3. \A i \in 1 .. n : history[i] \in Int BY <1>1, <1>2 DEF PaceTypes
<1>4. PICK l \in Int, w \in Int, u \in Int : l = Latest /\ w = l - RecentWindow /\ u = l - RapidGap
  <2>1. Latest \in Int BY <1>1, <1>2, <1>3 DEF Latest
  <2> QED BY <2>1, MonitorAssumption
<1>5. PICK a \in Nat, b \in Nat : a = Cardinality(ArrivedAfter(w)) /\ b = Cardinality(ArrivedAfter(u)) /\ a >= k /\ b >= 2
  <2>1. \A t \in Int : ArrivedAfter(t) \subseteq Submissions BY DEF ArrivedAfter, Arrived
  <2>2. \A t \in Int : Cardinality(ArrivedAfter(t)) \in Nat
    BY <2>1, FS_Subset, FS_CardinalityType, MonitorAssumption
  <2> QED BY <1>1, <1>4, <2>2
<1>6. \A p \in 0 .. n : (p > 0 /\ history[p] <= w) \/ (p = 0 /\ n < M) => a <= n - p
  BY <1>1, <1>4, <1>5 DEF OrderlyHistory, Remembers
<1>7. \A p \in 0 .. n : (p > 0 /\ history[p] <= u) \/ (p = 0 /\ n < M) => b <= n - p
  BY <1>1, <1>4, <1>5 DEF OrderlyHistory, Remembers
<1>8. \A i, j \in 1 .. n : i <= j => history[i] <= history[j] BY <1>2 DEF OrderlyHistory
<1>9. n >= k /\ n >= 2
  <2>1. CASE n < M BY <1>6, <1>7, <2>1, <1>5
  <2>2. CASE n = M BY <1>2, <2>2
  <2> QED BY <1>2, <2>1, <2>2
<1>10. history[n - k + 1] > w
  <2> SUFFICES ASSUME ~(history[n - k + 1] > w) PROVE FALSE OBVIOUS
  <2>1. PICK p \in 1 .. n : p = n - k + 1 BY <1>2, <1>9
  <2>2. history[p] <= w BY <1>3, <2>1
  <2>3. a <= n - p BY <1>6, <2>2
  <2> QED BY <1>5, <2>1, <2>3
<1>11. history[n - 1] > u
  <2> SUFFICES ASSUME ~(history[n - 1] > u) PROVE FALSE OBVIOUS
  <2>1. PICK p \in 1 .. n : p = n - 1 BY <1>2, <1>9
  <2>2. history[p] <= u BY <1>3, <2>1
  <2>3. b <= n - p BY <1>7, <2>2
  <2> QED BY <1>5, <2>1, <2>3
<1>12. CountWithin(RecentWindow, Latest) >= MinimumCount
  <2> DEFINE S == {i \in DOMAIN history : history[i] > Latest - RecentWindow /\ history[i] <= Latest}
             T == (n - k + 1) .. n
  <2>1. T \subseteq S
    <3> SUFFICES ASSUME NEW i \in T PROVE i \in S OBVIOUS
    <3>1. i \in 1 .. n /\ n - k + 1 \in 1 .. n /\ n \in 1 .. n /\ n - k + 1 <= i /\ i <= n BY <1>2, <1>9
    <3>2. history[n - k + 1] <= history[i] /\ history[i] <= history[n] BY <1>8, <3>1
    <3>3. history[i] > w /\ history[i] <= l
      <4>1. history[n] = l BY <1>1, <1>4 DEF Latest
      <4>2. history[i] \in Int /\ history[n - k + 1] \in Int BY <1>3, <3>1
      <4> QED BY <1>10, <3>2, <4>1, <4>2
    <3> QED BY <1>2, <1>4, <3>1, <3>3
  <2>2. Cardinality(T) = k BY <1>2, FS_Interval
  <2>5. S \subseteq 1 .. n /\ IsFiniteSet(1 .. n) BY <1>2, FS_Interval
  <2> HIDE DEF S, T
  <2>3. IsFiniteSet(S) BY <2>5, FS_Subset
  <2>4. Cardinality(T) <= Cardinality(S) BY <2>1, <2>3, FS_Subset
  <2> QED BY <1>1, <2>2, <2>4 DEF CountWithin, S
<1>13. IsRapidFire
  <2>1. PICK x \in Int, y \in Int : x = history[n - 1] /\ y = history[n] /\ x <= y
    <3>1. n - 1 \in 1 .. n /\ n \in 1 .. n BY <1>2, <1>9
    <3> QED BY <1>3, <1>8, <3>1
  <2>2. y = l /\ x > u BY <1>1, <1>4, <1>11, <2>1 DEF Latest
  <2>3. PICK r \in Nat : r = RapidGap BY MonitorAssumption
  <2>4. y - x >= 0 /\ y - x < r BY <1>4, <2>1, <2>2, <2>3
  <2> QED BY <1>1, <1>9, <2>1, <2>3, <2>4 DEF IsRapidFire
<1> QED BY <1>12, <1>13 DEF DeservesNudge

\* Looking at an order keeps the invariant.
LEMMA EvaluateKeepsInv == ASSUME PaceInv, NEW s \in Submissions, EvaluatePace(s) PROVE PaceInv'
<1>1. PICK now : now = submission[s].now OBVIOUS
<1>2. /\ submission[s].at = "recorded" /\ submission' = [submission EXCEPT ![s].at = "evaluated"]
      /\ UNCHANGED <<moment, history, takenInOrder>> BY DEF EvaluatePace
<1>3. PICK isNudged \in BOOLEAN : isNudged = (now >= cooldownUntil /\ DeservesNudge(now)) OBVIOUS
<1>4. /\ cooldownUntil' = IF isNudged THEN now + Cooldown ELSE cooldownUntil
      /\ nudges' = nudges \union {n \in {now} : isNudged} BY <1>1, <1>3 DEF EvaluatePace
<1>5. /\ PaceTypes /\ submission[s] \in Submitted /\ now \in Int /\ cooldownUntil \in Int /\ nudges \subseteq Int
      /\ takenInOrder \in BOOLEAN BY <1>1, <1>2 DEF PaceInv, PaceTypes, Unstarted, Submitted
<1>6. PICK C \in Nat \ {0} : C = Cooldown BY MonitorAssumption
<1>7. PICK x : x = [submission[s] EXCEPT !.at = "evaluated"] OBVIOUS
<1>8. x \in Submitted /\ x.at = "evaluated" /\ x.now = now BY <1>1, <1>5, <1>7 DEF Submitted
<1>9. /\ DOMAIN submission' = Submissions /\ submission'[s] = x
      /\ \A r \in Submissions : r # s => submission'[r] = submission[r] BY <1>2, <1>5, <1>7 DEF PaceTypes
<1>10. /\ Arrived' = Arrived /\ s \in Arrived
       /\ \A r \in Arrived : submission'[r].now = submission[r].now BY <1>1, <1>2, <1>8, <1>9 DEF Arrived
<1>11. cooldownUntil' \in Int /\ cooldownUntil' >= cooldownUntil /\ (isNudged => cooldownUntil' = now + C)
  <2>1. CASE isNudged
    <3>1. cooldownUntil' = now + C /\ now >= cooldownUntil BY <1>3, <1>4, <1>6, <2>1
    <3>2. now + C \in Int /\ now + C >= now BY <1>5, <1>6
    <3> QED BY <1>5, <3>1, <3>2
  <2>2. CASE ~isNudged BY <1>4, <2>2, <1>5
  <2> QED BY <2>1, <2>2
<1>12. PaceTypes' BY <1>5, <1>8, <1>9, <1>2, <1>4, <1>11 DEF PaceTypes
<1>13. NudgesAreApart'
  <2>1. \A m \in nudges : m \in Int /\ m + C <= cooldownUntil BY <1>5, <1>6 DEF PaceInv, NudgesAreApart
  <2>2. \A m, n \in nudges : m < n => n - m >= C BY <1>6 DEF PaceInv, NudgesAreApart
  <2>3. CASE ~isNudged BY <1>4, <2>3 DEF PaceInv, NudgesAreApart
  <2>4. CASE isNudged
    <3>1. nudges' = nudges \cup {now} /\ now >= cooldownUntil /\ cooldownUntil' = now + C
      BY <1>3, <1>4, <1>11, <2>4
    <3>2. ASSUME NEW m \in nudges' PROVE m + C <= cooldownUntil'
      <4>1. CASE m \in nudges BY <1>5, <2>1, <3>1, <4>1
      <4>2. CASE m = now BY <1>5, <3>1, <4>2
      <4> QED BY <3>1, <4>1, <4>2
    <3>3. ASSUME NEW m \in nudges', NEW n \in nudges', m < n PROVE n - m >= C
      <4>1. CASE m \in nudges /\ n \in nudges BY <2>2, <3>3, <4>1
      <4>2. CASE m \in nudges /\ n = now BY <1>5, <2>1, <3>1, <4>2
      <4>3. CASE m = now /\ n \in nudges BY <1>5, <2>1, <3>1, <3>3, <4>3
      <4>4. CASE m = now /\ n = now BY <1>5, <3>3, <4>4
      <4> QED BY <3>1, <4>1, <4>2, <4>3, <4>4
    <3> QED BY <1>6, <3>2, <3>3 DEF NudgesAreApart
  <2> QED BY <2>3, <2>4
<1>14. HistoryIsOfArrivals' BY <1>10, <1>2 DEF PaceInv, HistoryIsOfArrivals, Latest
<1>15. ASSUME NEW t PROVE ArrivedAfter(t)' = ArrivedAfter(t) BY <1>10, <1>15 DEF ArrivedAfter
<1>16. OrderlyHistory => OrderlyHistory'
  <2> SUFFICES ASSUME OrderlyHistory PROVE OrderlyHistory' OBVIOUS
  <2>1. \A t \in Int : Remembers(t)' BY <1>2, <1>10 DEF OrderlyHistory, Remembers, ArrivedAfter
  <2>2. \A r \in Arrived' : submission'[r].now <= Latest' BY <1>2, <1>10 DEF OrderlyHistory, Latest
  <2> QED BY <1>2, <2>1, <2>2 DEF OrderlyHistory
<1>17. ASSUME OrderlyHistory, BurstIsNoticed PROVE BurstIsNoticed'
  <2> SUFFICES ASSUME history # <<>>,
                      Cardinality(ArrivedAfter(Latest - RecentWindow)) >= MinimumCount,
                      Cardinality(ArrivedAfter(Latest - RapidGap)) >= 2
               PROVE  cooldownUntil' > Latest
                      \/ \E r \in Submissions : submission'[r].at = "recorded" /\ submission'[r].now = Latest
    BY <1>2, <1>10 DEF BurstIsNoticed, Latest, ArrivedAfter
  <2>1. PICK l \in Int, c \in Int, e \in Int : l = Latest /\ c = cooldownUntil /\ e = cooldownUntil' /\ e >= c
    <3>1. Latest \in Int BY <1>5 DEF PaceTypes, Latest
    <3> QED BY <1>5, <1>11, <3>1
  <2>2. CASE cooldownUntil > Latest BY <2>1, <2>2
  <2>3. CASE \E r \in Submissions : r # s /\ submission[r].at = "recorded" /\ submission[r].now = Latest
    BY <1>9, <2>3
  <2>4. CASE now = Latest
    <3>1. DeservesNudge(now) BY <1>5, <1>17, <2>4, BurstDeservesNudge
    <3>2. CASE now >= cooldownUntil
      <4>1. isNudged BY <1>3, <3>1, <3>2
      <4>2. e = l + C BY <1>11, <2>1, <2>4, <4>1
      <4>3. e > l BY <1>6, <2>1, <4>2
      <4> QED BY <2>1, <4>3
    <3>3. CASE ~(now >= cooldownUntil) BY <2>1, <2>4, <3>3
    <3> QED BY <3>2, <3>3
  <2> QED BY <1>1, <1>17, <2>2, <2>3, <2>4 DEF BurstIsNoticed
<1> QED BY <1>2, <1>12, <1>13, <1>14, <1>16, <1>17 DEF PaceInv

\* Every step of the orders' pace.
LEMMA PaceKeepsInv == ASSUME PaceInv, PaceNext PROVE PaceInv'
<1>1. CASE Tick /\ UNCHANGED paceVars
  <2>1. moment' \in Int BY <1>1 DEF Tick, PaceInv, PaceTypes
  <2> QED BY <1>1, <2>1 DEF PaceInv, PaceTypes, NudgesAreApart, HistoryIsOfArrivals, OrderlyHistory, Remembers,
             BurstIsNoticed, Arrived, ArrivedAfter, Latest, paceVars
<1> QED BY <1>1, TakeTimeKeepsInv, RecordKeepsInv, EvaluateKeepsInv DEF PaceNext

\* A step of another monitor leaves the pace; the clock it reads only moves.
LEMMA OthersKeepPace == ASSUME PaceInv, UNCHANGED paceVars, moment' \in Int PROVE PaceInv'
BY DEF PaceInv, PaceTypes, NudgesAreApart, HistoryIsOfArrivals, OrderlyHistory, Remembers,
       BurstIsNoticed, Arrived, ArrivedAfter, Latest, paceVars

\* At the start nothing was submitted.
LEMMA PaceStarts == ASSUME MonitorInit PROVE PaceInv
<1>1. /\ submission = [s \in Submissions |-> Unstarted] /\ history = <<>> /\ cooldownUntil = Never /\ nudges = {}
      /\ takenInOrder = TRUE /\ moment = 0 BY DEF MonitorInit
<1>2. Arrived = {} /\ \A t \in Int : ArrivedAfter(t) = {} BY <1>1 DEF Arrived, ArrivedAfter, Unstarted
<1>3. PaceTypes /\ NudgesAreApart /\ HistoryIsOfArrivals /\ BurstIsNoticed
  BY <1>1, <1>2, MonitorAssumption DEF PaceTypes, NudgesAreApart, HistoryIsOfArrivals, BurstIsNoticed, Never
<1>4. OrderlyHistory BY <1>1, <1>2, FS_EmptySet DEF OrderlyHistory, Remembers
<1> QED BY <1>3, <1>4 DEF PaceInv

\* The invariant is what nudges promise.
LEMMA InvNudgesInTime == ASSUME PaceInv PROVE NudgesAreTimely
<1> DEFINE evaluated == {s \in Submissions : submission[s].at = "evaluated"}
           times == {submission[s].now : s \in evaluated}
           latest == Max(times)
           Within(window) == {s \in evaluated : latest - submission[s].now < window}
<1>1. ASSUME takenInOrder, evaluated # {}, \A s \in Submissions : submission[s].at \in {"idle", "evaluated"},
             Cardinality(Within(RecentWindow)) >= MinimumCount, Cardinality(Within(RapidGap)) >= 2
      PROVE  cooldownUntil > latest
  <2>1. Arrived = evaluated /\ OrderlyHistory /\ BurstIsNoticed BY <1>1 DEF PaceInv, Arrived
  <2>2. history # <<>> /\ \E s \in evaluated : submission[s].now = Latest
    BY <1>1, <2>1 DEF PaceInv, HistoryIsOfArrivals
  <2>3. \A s \in evaluated : submission[s].now \in Int /\ submission[s].now <= Latest
    BY <2>1 DEF PaceInv, PaceTypes, Unstarted, Submitted, OrderlyHistory
  <2>4. Latest \in times /\ times \subseteq Int /\ \A x \in times : x <= Latest BY <2>2, <2>3
  <2>5. latest = Latest
    <3> HIDE DEF times
    <3>1. \A x \in times : Latest >= x BY <2>4
    <3>2. latest \in times /\ \A x \in times : latest >= x BY <2>4, <3>1, Zenon DEF Max
    <3>3. PICK y \in Int : y = latest BY <2>4, <3>2
    <3> HIDE DEF latest
    <3> QED BY <2>4, <3>2, <3>3
  <2>6. ASSUME NEW w \in Nat PROVE Within(w) = ArrivedAfter(Latest - w)
    <3> HIDE DEF latest, evaluated
    <3>1. Latest \in Int BY <2>4
    <3> QED BY <2>1, <2>3, <2>5, <3>1 DEF ArrivedAfter
  <2>7. ~\E s \in Submissions : submission[s].at = "recorded" BY <1>1
  <2> HIDE DEF Within, latest
  <2> QED BY <1>1, <2>1, <2>2, <2>5, <2>6, <2>7, MonitorAssumption DEF BurstIsNoticed
<1> QED BY <1>1 DEF NudgesAreTimely, PaceInv, NudgesAreApart

--------------------
(* The sessions of institutions.                                           *)

DmaLines ==
  [type : {"LOGON", "LOGOUT", "MALFORMED", "NEW_ORDER_SINGLE"}, number : Nat, id : OrderIds \cup {0}]
DmaAnswers == [number : Nat, id : OrderIds \cup {0}]
DmaStates ==
  [at : {"unused", "open", "left", "closed"}, loggedOn : BOOLEAN, expected : Nat, outgoing : Nat,
   inbound : Seq(DmaLines), outbound : Seq(DmaAnswers), sent : Seq(DmaLines), read : Seq(DmaLines)]

\* A client sends an order once in a session, and what it sent is read in order.
LinesAreSentOnce(v) ==
  /\ Len(v.read) + Len(v.inbound) = Len(v.sent)
  /\ \A k \in 1 .. Len(v.read) : v.read[k] = v.sent[k]
  /\ \A k \in 1 .. Len(v.inbound) : v.inbound[k] = v.sent[Len(v.read) + k]
  /\ \A i \in 1 .. Len(v.sent) : v.sent[i].type = "NEW_ORDER_SINGLE" <=> v.sent[i].id \in OrderIds
  /\ \A i, j \in 1 .. Len(v.sent) : v.sent[i].id \in OrderIds /\ v.sent[i].id = v.sent[j].id => i = j

\* A session goes on as long as its lines are in sequence and none takes leave.
IsInOrder(read) ==
  \A k \in 1 .. Len(read) :
      /\ read[k].number = k /\ read[k].type # "MALFORMED" /\ read[k].type # "LOGOUT"
      /\ read[k].type = "LOGON" <=> k = 1

AnswersAreNumbered(v) ==
  /\ v.outgoing = Len(v.read) + 1 /\ Len(v.outbound) <= Len(v.read)
  /\ \A n \in 1 .. Len(v.outbound) : v.outbound[n].number = Len(v.read) - Len(v.outbound) + n

SessionInv(v) ==
  /\ LinesAreSentOnce(v) /\ AnswersAreNumbered(v)
  /\ v.at = "unused" => v.sent = <<>> /\ v.outbound = <<>>
  /\ v.at = "left" => v.outbound = <<>>
  /\ v.at # "closed" => v.expected = Len(v.read) + 1 /\ (v.loggedOn <=> Len(v.read) > 0) /\ IsInOrder(v.read)

IsLive(v) == v.at = "open" \/ v.outbound # <<>>
OrderlyLines(read) == {n \in DOMAIN read : IsOrderly(read, n) /\ read[n].id \in ValidIds}
OrdersOf(s) == {m \in DOMAIN submitted : submitted[m].session = s}
HasSent(v, id) == \E n \in 1 .. Len(v.sent) : v.sent[n].id = id

\* Orders of the session are its orderly lines, once each and in their order.
IsFaithful(orders, lines, mine, read) ==
  /\ {orders[m].id : m \in mine} = {read[n].id : n \in lines}
  /\ \A m, k \in mine, i, j \in lines : (orders[m].id = read[i].id /\ orders[k].id = read[j].id) => (m < k <=> i < j)

SubmitsItsLines(s) == IsFaithful(submitted, OrderlyLines(dma[s].read), OrdersOf(s), dma[s].read)

\* The answer of an order sent in two sessions is never read in the one that is over.
IsOver(s, id) == <<s, id>> \notin answered /\ ~IsLive(dma[s])

DmaInv ==
  /\ dma \in [Sessions -> DmaStates] /\ submitted \in Seq([session : Sessions, id : OrderIds])
  /\ \A s \in Sessions : SessionInv(dma[s]) /\ SubmitsItsLines(s)
  /\ \A r, s \in Sessions : r # s /\ IsLive(dma[r]) => ~IsLive(dma[s])
  /\ \A r, s \in Sessions, id \in OrderIds :
        r # s /\ HasSent(dma[r], id) /\ HasSent(dma[s], id) => IsOver(r, id) \/ IsOver(s, id)

\* t is q with x at its end.
IsAppended(t, q, x) ==
  Len(t) = Len(q) + 1 /\ t[Len(q) + 1] = x /\ \A k \in 1 .. Len(q) : t[k] = q[k]

\* A sequence with one more at its end.
LEMMA Appended ==
  ASSUME NEW S, NEW q \in Seq(S), NEW x \in S PROVE \E t \in Seq(S) : t = Append(q, x) /\ IsAppended(t, q, x)
<1>1. PICK t \in Seq(S) : t = Append(q, x) BY AppendProperties
<1>2. Len(t) = Len(q) + 1 /\ t[Len(q) + 1] = x BY <1>1, AppendProperties
<1>3. \A k \in 1 .. Len(q) : t[k] = q[k] BY <1>1, AppendProperties
<1> QED BY <1>1, <1>2, <1>3 DEF IsAppended

\* A sequence without its first.
LEMMA Beheaded ==
  ASSUME NEW S, NEW q \in Seq(S), q # <<>>
  PROVE  \E n \in Nat, t \in Seq(S) :
            n + 1 = Len(q) /\ t = Tail(q) /\ Len(t) = n /\ Head(q) = q[1] /\ q[1] \in S
            /\ \A k \in 1 .. n : t[k] = q[k + 1]
<1>1. PICK t \in Seq(S) : t = Tail(q) BY HeadTailProperties
<1>2. Len(q) \in Nat /\ Len(q) # 0 OBVIOUS
<1>3. PICK n \in Nat : n = Len(q) - 1 BY <1>2
<1>4. n + 1 = Len(q) /\ Len(t) = n BY <1>1, <1>2, <1>3, HeadTailProperties
<1>5. \A k \in 1 .. n : t[k] = q[k + 1] BY <1>1, <1>4, HeadTailProperties
<1>6. Head(q) = q[1] /\ q[1] \in S BY <1>4
<1> QED BY <1>1, <1>4, <1>5, <1>6

\* Sessions with the same lines have sent them alike.
LEMMA SameLines ==
  ASSUME NEW v, NEW w, LinesAreSentOnce(v), w.sent = v.sent, w.read = v.read, w.inbound = v.inbound
  PROVE  LinesAreSentOnce(w)
<1>1. PICK a, b, c : a = v.sent /\ b = v.read /\ c = v.inbound OBVIOUS
<1>2. w.sent = a /\ w.read = b /\ w.inbound = c BY <1>1
<1> QED BY <1>1, <1>2, Zenon DEF LinesAreSentOnce

\* What a step of one session, which submits nothing, has to see to.
LEMMA QuietSessionStep ==
  ASSUME DmaInv, NEW s \in Sessions, NEW w \in DmaStates, dma' = [dma EXCEPT ![s] = w], UNCHANGED submitted,
         SessionInv(w), w.read = dma[s].read,
         IsLive(w) => \A r \in Sessions \ {s} : ~IsLive(dma[r]),
         answered \subseteq answered',
         \A p \in answered' \ answered : p[1] = s /\ IsLive(dma[s]),
         \A id \in OrderIds : HasSent(w, id) =>
            \/ HasSent(dma[s], id) /\ (IsLive(w) => IsLive(dma[s]))
            \/ IsLive(w) /\ \A r \in Sessions : <<r, id>> \notin answered
  PROVE  DmaInv'
<1>1. /\ dma \in [Sessions -> DmaStates] /\ dma' \in [Sessions -> DmaStates] /\ dma'[s] = w
      /\ \A r \in Sessions : r # s => dma'[r] = dma[r] BY DEF DmaInv
<1>2. \A r \in Sessions : SessionInv(dma'[r]) BY <1>1 DEF DmaInv
<1>3. \A r \in Sessions : dma'[r].read = dma[r].read BY <1>1
<1>4. ASSUME NEW r \in Sessions PROVE SubmitsItsLines(r)'
  <2>1. OrdersOf(r)' = OrdersOf(r) BY DEF OrdersOf
  <2>2. PICK read : read = dma[r].read /\ read = dma'[r].read BY <1>3
  <2>3. SubmitsItsLines(r) BY DEF DmaInv
  <2> QED BY <2>1, <2>2, <2>3 DEF SubmitsItsLines
<1>5. \A r, q \in Sessions : r # q /\ IsLive(dma'[r]) => ~IsLive(dma'[q]) BY <1>1 DEF DmaInv
<1>6. ASSUME NEW r \in Sessions, NEW q \in Sessions, NEW id \in OrderIds, r # q,
             HasSent(dma'[r], id), HasSent(dma'[q], id)
      PROVE  (<<r, id>> \notin answered' /\ ~IsLive(dma'[r])) \/ (<<q, id>> \notin answered' /\ ~IsLive(dma'[q]))
  <2>1. \A p \in answered' : p \in answered \/ (p[1] = s /\ IsLive(dma[s])) OBVIOUS
  <2>2. \A u \in Sessions : <<u, id>> \in answered' => <<u, id>> \in answered \/ (u = s /\ IsLive(dma[s]))
    BY <2>1
  <2>3. CASE r # s /\ q # s BY <1>1, <1>6, <2>2, <2>3 DEF DmaInv, IsOver
  <2>4. ASSUME NEW u \in Sessions, u # s, HasSent(dma[u], id), HasSent(w, id)
        PROVE  (<<u, id>> \notin answered' /\ ~IsLive(dma'[u])) \/ (<<s, id>> \notin answered' /\ ~IsLive(dma'[s]))
    <3>1. CASE IsLive(w) /\ \A v \in Sessions : <<v, id>> \notin answered BY <1>1, <2>2, <2>4, <3>1
    <3>2. CASE HasSent(dma[s], id) /\ (IsLive(w) => IsLive(dma[s]))
      BY <2>4, <3>2, <1>1, <2>2 DEF DmaInv, IsOver
    <3> QED BY <2>4, <3>1, <3>2
  <2> QED BY <1>1, <1>6, <2>3, <2>4
<1>7. \A r, q \in Sessions, id \in OrderIds :
         r # q /\ HasSent(dma'[r], id) /\ HasSent(dma'[q], id) => IsOver(r, id)' \/ IsOver(q, id)'
  BY <1>6 DEF IsOver
<1> QED BY <1>1, <1>2, <1>4, <1>5, <1>7 DEF DmaInv

\* A session begins with nothing sent.
LEMMA ConnectKeepsInv == ASSUME DmaInv, NEW s \in Sessions, Connect(s) PROVE DmaInv'
<1>1. /\ dma[s].at = "unused" /\ dma' = [dma EXCEPT ![s].at = "open"] /\ UNCHANGED <<submitted, answered>>
      /\ \A r \in Sessions : dma[r].at # "open" /\ dma[r].outbound = <<>> BY DEF Connect
<1>2. PICK v : v = dma[s] OBVIOUS
<1>3. v \in DmaStates /\ SessionInv(v) BY <1>2 DEF DmaInv
<1>4. PICK w : w = [v EXCEPT !.at = "open"] OBVIOUS
<1>5. /\ w \in DmaStates /\ w.read = v.read /\ w.sent = v.sent /\ w.inbound = v.inbound /\ w.outbound = v.outbound
      /\ w.outgoing = v.outgoing /\ w.expected = v.expected /\ w.loggedOn = v.loggedOn /\ w.at = "open"
  BY <1>3, <1>4 DEF DmaStates
<1>6. SessionInv(w)
  <2>1. LinesAreSentOnce(w) BY <1>3, <1>5, SameLines DEF SessionInv
  <2>2. AnswersAreNumbered(w) BY <1>3, <1>5 DEF SessionInv, AnswersAreNumbered
  <2> QED BY <1>1, <1>2, <1>3, <1>5, <2>1, <2>2 DEF SessionInv
<1>7. w.sent = <<>> BY <1>1, <1>2, <1>3, <1>5 DEF SessionInv
<1>8. \A id : ~HasSent(w, id) BY <1>7 DEF HasSent
<1>9. \A r \in Sessions \ {s} : ~IsLive(dma[r]) BY <1>1 DEF IsLive
<1>10. dma' = [dma EXCEPT ![s] = w] BY <1>1, <1>2, <1>4 DEF DmaInv
<1> QED BY <1>1, <1>2, <1>5, <1>6, <1>8, <1>9, <1>10, QuietSessionStep

\* What is sent was answered in no session.
LEMMA SendKeepsInv == ASSUME DmaInv, NEW s \in Sessions, SendLine(s) PROVE DmaInv'
<1>1. PICK line \in CandidateLines(s) :
          dma' = [dma EXCEPT ![s].sent = Append(@, line), ![s].inbound = Append(@, line)]
  BY Zenon DEF SendLine
<1>2. dma[s].at = "open" /\ UNCHANGED <<submitted, answered>> BY DEF SendLine
<1>3. PICK v : v = dma[s] OBVIOUS
<1>4. v \in DmaStates /\ SessionInv(v) /\ v.at = "open" /\ v.sent \in Seq(DmaLines) /\ v.inbound \in Seq(DmaLines)
      /\ v.read \in Seq(DmaLines) BY <1>2, <1>3 DEF DmaInv, DmaStates
<1>5. PICK n \in Nat, m \in Nat, l \in Nat : n = Len(v.sent) /\ m = Len(v.inbound) /\ l = Len(v.read) /\ l + m = n
  <2>1. Len(v.sent) \in Nat /\ Len(v.inbound) \in Nat /\ Len(v.read) \in Nat BY <1>4
  <2>2. Len(v.read) + Len(v.inbound) = Len(v.sent) BY <1>4 DEF SessionInv, LinesAreSentOnce
  <2> QED BY <2>1, <2>2
<1>16. l + m = n BY <1>5
<1>6. /\ line \in DmaLines /\ (line.type = "NEW_ORDER_SINGLE" <=> line.id \in OrderIds)
      /\ line.id \in OrderIds => /\ \A r \in Sessions : <<r, line.id>> \notin answered
                                 /\ \A k \in 1 .. n : v.sent[k].id # line.id
  <2> DEFINE unanswered == {id \in OrderIds : /\ \A r \in Sessions : <<r, id>> \notin answered
                                              /\ \A k \in DOMAIN dma[s].sent : dma[s].sent[k].id # id}
  <2>1. /\ line.id \in unanswered \cup {0} /\ (line.type = "NEW_ORDER_SINGLE" <=> line.id \in unanswered)
        /\ line.number \in {n + 1, n + 2} /\ line.type \in {"LOGON", "LOGOUT", "MALFORMED", "NEW_ORDER_SINGLE"}
        /\ line = [type |-> line.type, number |-> line.number, id |-> line.id]
    <3>1. PICK next \in Nat : next = Len(dma[s].sent) + 1 /\ next = n + 1 BY <1>3, <1>5
    <3>2. \/ line \in [type : {"LOGON"}, number : {next, next + 1}, id : {0}]
          \/ line \in [type : {"LOGOUT", "MALFORMED"}, number : {next}, id : {0}]
          \/ line \in [type : {"NEW_ORDER_SINGLE"}, number : {next}, id : unanswered]
          \/ line \in [type : {"NEW_ORDER_SINGLE"}, number : {next + 1}, id : unanswered \intersect ValidIds]
      BY <3>1 DEF CandidateLines
    <3>3. 0 \notin unanswered /\ next + 1 = n + 2 BY <3>1, DmaAssumption
    <3> HIDE DEF unanswered
    <3> QED BY <3>1, <3>2, <3>3
  <2>2. unanswered \subseteq OrderIds /\ 0 \notin OrderIds BY DmaAssumption
  <2>3. \A id \in unanswered : /\ \A r \in Sessions : <<r, id>> \notin answered
                               /\ \A k \in 1 .. n : v.sent[k].id # id BY <1>3, <1>4, <1>5
  <2> HIDE DEF unanswered
  <2>4. line.number \in Nat /\ line.id \in OrderIds \cup {0} BY <2>1, <2>2
  <2>5. line.id \in OrderIds => line.id \in unanswered BY <2>1, <2>2
  <2>6. line \in DmaLines BY <2>1, <2>4 DEF DmaLines
  <2> QED BY <2>1, <2>2, <2>3, <2>5, <2>6
<1>7. PICK sent \in Seq(DmaLines), inbound \in Seq(DmaLines) :
          /\ sent = Append(v.sent, line) /\ Len(sent) = n + 1 /\ sent[n + 1] = line
          /\ \A k \in 1 .. n : sent[k] = v.sent[k]
          /\ inbound = Append(v.inbound, line) /\ Len(inbound) = m + 1 /\ inbound[m + 1] = line
          /\ \A k \in 1 .. m : inbound[k] = v.inbound[k]
  <2>1. PICK sent \in Seq(DmaLines) : /\ sent = Append(v.sent, line) /\ Len(sent) = n + 1 /\ sent[n + 1] = line
                                     /\ \A k \in 1 .. n : sent[k] = v.sent[k]
    <3>1. PICK q \in Seq(DmaLines) : q = v.sent /\ n = Len(q) BY <1>4, <1>5
    <3>2. line \in DmaLines BY <1>6
    <3>3. PICK t \in Seq(DmaLines) : t = Append(q, line) /\ IsAppended(t, q, line) BY <3>2, Appended
    <3> QED BY <3>1, <3>3 DEF IsAppended
  <2>2. PICK inbound \in Seq(DmaLines) :
            /\ inbound = Append(v.inbound, line) /\ Len(inbound) = m + 1 /\ inbound[m + 1] = line
            /\ \A k \in 1 .. m : inbound[k] = v.inbound[k]
    <3>1. PICK q \in Seq(DmaLines) : q = v.inbound /\ m = Len(q) BY <1>4, <1>5
    <3>2. line \in DmaLines BY <1>6
    <3>3. PICK t \in Seq(DmaLines) : t = Append(q, line) /\ IsAppended(t, q, line) BY <3>2, Appended
    <3> QED BY <3>1, <3>3 DEF IsAppended
  <2> QED BY <2>1, <2>2
<1>8. PICK w : w = [v EXCEPT !.sent = sent, !.inbound = inbound] OBVIOUS
<1>9. /\ w \in DmaStates /\ w.read = v.read /\ w.sent = sent /\ w.inbound = inbound /\ w.outbound = v.outbound
      /\ w.outgoing = v.outgoing /\ w.expected = v.expected /\ w.loggedOn = v.loggedOn /\ w.at = v.at
  BY <1>4, <1>8 DEF DmaStates
<1>10. dma' = [dma EXCEPT ![s] = w] BY <1>1, <1>3, <1>7, <1>8 DEF DmaInv
<1>11. LinesAreSentOnce(w)
  <2>1. /\ \A k \in 1 .. l : v.read[k] = v.sent[k]
        /\ \A k \in 1 .. m : v.inbound[k] = v.sent[l + k]
        /\ \A i \in 1 .. n : v.sent[i].type = "NEW_ORDER_SINGLE" <=> v.sent[i].id \in OrderIds
        /\ \A i, j \in 1 .. n : v.sent[i].id \in OrderIds /\ v.sent[i].id = v.sent[j].id => i = j
    BY <1>4, <1>5 DEF SessionInv, LinesAreSentOnce
  <2>6. l + (m + 1) = n + 1 BY <1>16
  <2>2. \A k \in 1 .. l : v.read[k] = sent[k]
    <3> TAKE k \in 1 .. l
    <3>1. k \in 1 .. n BY <1>16
    <3> QED BY <1>7, <2>1, <3>1
  <2>3. ASSUME NEW k \in 1 .. m + 1 PROVE inbound[k] = sent[l + k]
    <3>1. CASE k = m + 1 BY <2>6, <3>1, <1>7
    <3>2. CASE k # m + 1 BY <3>2, <1>16, <1>7, <2>1
    <3> QED BY <3>1, <3>2
  <2>4. \A i \in 1 .. n + 1 : sent[i].type = "NEW_ORDER_SINGLE" <=> sent[i].id \in OrderIds
    <3> TAKE i \in 1 .. n + 1
    <3>1. i \in 1 .. n \/ i = n + 1 OBVIOUS
    <3> QED BY <1>6, <1>7, <2>1, <3>1
  <2>5. ASSUME NEW i \in 1 .. n + 1, NEW j \in 1 .. n + 1, sent[i].id \in OrderIds, sent[i].id = sent[j].id PROVE i = j
    BY <1>6, <1>7, <2>1, <2>5
  <2>7. /\ w.read = v.read /\ w.sent = sent /\ w.inbound = inbound
        /\ Len(v.read) = l /\ Len(inbound) = m + 1 /\ Len(sent) = n + 1 BY <1>5, <1>7, <1>9
  <2> QED BY <2>2, <2>3, <2>4, <2>5, <2>6, <2>7 DEF LinesAreSentOnce
<1>12. SessionInv(w) BY <1>4, <1>9, <1>11 DEF SessionInv, AnswersAreNumbered
<1>13. IsLive(w) /\ IsLive(dma[s]) /\ \A r \in Sessions \ {s} : ~IsLive(dma[r])
  BY <1>3, <1>4, <1>9 DEF IsLive, DmaInv
<1>14. ASSUME NEW id \in OrderIds, HasSent(w, id)
       PROVE  HasSent(dma[s], id) \/ \A r \in Sessions : <<r, id>> \notin answered
  <2>1. PICK k \in 1 .. n + 1 : sent[k].id = id BY <1>7, <1>9, <1>14 DEF HasSent
  <2>2. k \in 1 .. n \/ k = n + 1 OBVIOUS
  <2> QED BY <1>3, <1>5, <1>6, <1>7, <1>14, <2>1, <2>2 DEF HasSent
<1>15. answered' = answered /\ submitted' = submitted BY <1>2
<1> QED BY <1>3, <1>9, <1>10, <1>12, <1>13, <1>14, <1>15, QuietSessionStep

\* An answer is read from a session that is live.
LEMMA ReadAnswerKeepsInv == ASSUME DmaInv, NEW s \in Sessions, ReadAnswer(s) PROVE DmaInv'
<1>1. /\ dma[s].outbound # <<>> /\ answered' = answered \union {<<s, Head(dma[s].outbound).id>>}
      /\ dma' = [dma EXCEPT ![s].outbound = Tail(@)] /\ UNCHANGED submitted BY DEF ReadAnswer
<1>2. PICK v : v = dma[s] OBVIOUS
<1>3. v \in DmaStates /\ SessionInv(v) /\ v.outbound \in Seq(DmaAnswers) /\ v.outbound # <<>> /\ v.read \in Seq(DmaLines)
  BY <1>1, <1>2 DEF DmaInv, DmaStates
<1>4. PICK n \in Nat, rest \in Seq(DmaAnswers) :
          /\ n + 1 = Len(v.outbound) /\ rest = Tail(v.outbound) /\ Len(rest) = n
          /\ \A k \in 1 .. n : rest[k] = v.outbound[k + 1]
  <2>1. PICK q \in Seq(DmaAnswers) : q = v.outbound /\ q # <<>> BY <1>3
  <2>2. \E n \in Nat, rest \in Seq(DmaAnswers) :
           /\ n + 1 = Len(q) /\ rest = Tail(q) /\ Len(rest) = n /\ \A k \in 1 .. n : rest[k] = q[k + 1]
    BY <2>1, Beheaded
  <2> QED BY <2>1, <2>2
<1>5. PICK l \in Nat : l = Len(v.read) BY <1>3
<1>6. PICK w : w = [v EXCEPT !.outbound = rest] OBVIOUS
<1>7. /\ w \in DmaStates /\ w.read = v.read /\ w.sent = v.sent /\ w.inbound = v.inbound /\ w.outbound = rest
      /\ w.outgoing = v.outgoing /\ w.expected = v.expected /\ w.loggedOn = v.loggedOn /\ w.at = v.at
  BY <1>3, <1>6 DEF DmaStates
<1>8. dma' = [dma EXCEPT ![s] = w] BY <1>1, <1>2, <1>4, <1>6 DEF DmaInv
<1>9. AnswersAreNumbered(w)
  <2>1. AnswersAreNumbered(v) BY <1>3 DEF SessionInv
  <2>2. n + 1 <= l /\ \A k \in 1 .. n + 1 : v.outbound[k].number = l - (n + 1) + k
    BY <1>4, <1>5, <2>1 DEF AnswersAreNumbered
  <2>3. ASSUME NEW k \in 1 .. n PROVE rest[k].number = l - n + k
    <3>1. PICK u \in 1 .. n + 1 : u = k + 1 OBVIOUS
    <3>2. l - (n + 1) + u = l - n + k BY <3>1
    <3>3. v.outbound[u].number = l - n + k BY <2>2, <3>2
    <3> QED BY <1>4, <3>1, <3>3
  <2>4. n <= l BY <2>2
  <2>5. w.outgoing = l + 1 BY <1>5, <1>7, <2>1 DEF AnswersAreNumbered
  <2> QED BY <1>4, <1>5, <1>7, <2>3, <2>4, <2>5 DEF AnswersAreNumbered
<1>10. SessionInv(w) BY <1>3, <1>7, SameLines, <1>9 DEF SessionInv
<1>11. IsLive(dma[s]) /\ \A r \in Sessions \ {s} : ~IsLive(dma[r]) BY <1>2, <1>3 DEF IsLive, DmaInv
<1>12. \A id : HasSent(w, id) <=> HasSent(dma[s], id) BY <1>2, <1>7 DEF HasSent
<1>13. answered \subseteq answered' /\ \A p \in answered' \ answered : p[1] = s BY <1>1
<1> QED BY <1>1, <1>2, <1>7, <1>8, <1>10, <1>11, <1>12, <1>13, QuietSessionStep

\* The answers of a connection that is lost are never read.
LEMMA LossKeepsInv == ASSUME DmaInv, NEW s \in Sessions, LoseConnection(s) PROVE DmaInv'
<1>1. /\ dma[s].at = "open" /\ dma' = [dma EXCEPT ![s].at = "left", ![s].outbound = <<>>]
      /\ UNCHANGED <<submitted, answered>> BY DEF LoseConnection
<1>2. PICK v : v = dma[s] OBVIOUS
<1>3. v \in DmaStates /\ SessionInv(v) /\ v.at = "open" /\ v.read \in Seq(DmaLines)
  BY <1>1, <1>2 DEF DmaInv, DmaStates
<1>4. PICK w : w = [v EXCEPT !.at = "left", !.outbound = <<>>] OBVIOUS
<1>5. /\ w \in DmaStates /\ w.read = v.read /\ w.sent = v.sent /\ w.inbound = v.inbound /\ w.outbound = <<>>
      /\ w.outgoing = v.outgoing /\ w.expected = v.expected /\ w.loggedOn = v.loggedOn /\ w.at = "left"
  <2>1. PICK no \in Seq(DmaAnswers) : no = <<>>
    <3>1. <<>> \in Seq(DmaAnswers) OBVIOUS
    <3> QED BY <3>1
  <2>2. w = [v EXCEPT !.at = "left", !.outbound = no] BY <1>4, <2>1
  <2> QED BY <1>3, <2>1, <2>2 DEF DmaStates
<1>6. dma' = [dma EXCEPT ![s] = w] BY <1>1, <1>2, <1>4 DEF DmaInv
<1>7. AnswersAreNumbered(w) BY <1>3, <1>5 DEF SessionInv, AnswersAreNumbered
<1>8. SessionInv(w) /\ ~IsLive(w) BY <1>3, <1>5, SameLines, <1>7 DEF SessionInv, IsLive
<1>9. \A id : HasSent(w, id) <=> HasSent(dma[s], id) BY <1>2, <1>5 DEF HasSent
<1> QED BY <1>1, <1>2, <1>5, <1>6, <1>8, <1>9, QuietSessionStep

\* Whether a line keeps its session in order, and what is orderly then.
Continues(line, n) == line.number = n /\ line.type # "MALFORMED" /\ (line.type = "LOGON" <=> n = 1)

\* The next line of an orderly session is orderly when it continues it.
LEMMA OrderlyLinesGrow ==
  ASSUME NEW n \in Nat, NEW y \in Nat, y = n + 1, NEW read \in Seq(DmaLines), n = Len(read), NEW line \in DmaLines,
         NEW after \in Seq(DmaLines), IsAppended(after, read, line), IsInOrder(read)
  PROVE  /\ OrderlyLines(after) = OrderlyLines(read) \cup {k \in {y} : Continues(line, y) /\ line.id \in ValidIds}
         /\ \A k \in OrderlyLines(read) : k \in 1 .. n /\ after[k] = read[k]
<1>1. /\ DOMAIN read = 1 .. n /\ DOMAIN after = 1 .. n + 1 /\ after[n + 1] = line
      /\ \A k \in 1 .. n : after[k] = read[k] BY DEF IsAppended
<1>2. \A k \in 1 .. n : /\ read[k].number = k /\ read[k].type # "MALFORMED" /\ read[k].type # "LOGOUT"
                        /\ read[k].type = "LOGON" <=> k = 1 BY DEF IsInOrder
<1>3. ASSUME NEW m \in 1 .. n PROVE IsOrderly(after, m) /\ IsOrderly(read, m) BY <1>1, <1>2 DEF IsOrderly
<1>4. IsOrderly(after, n + 1) <=> Continues(line, n + 1)
  <2>1. \A k \in 1 .. n + 1 : k = n + 1 \/ k \in 1 .. n OBVIOUS
  <2>2. \A k \in 1 .. n : after[k].number = k /\ after[k].type # "MALFORMED" /\ (after[k].type = "LOGON" <=> k = 1)
                          /\ (k < n + 1 => after[k].type # "LOGOUT") BY <1>1, <1>2
  <2>3. n + 1 \in 1 .. n + 1 /\ ~(n + 1 < n + 1) OBVIOUS
  <2>4. CASE Continues(line, n + 1) BY <1>1, <2>1, <2>2, <2>3, <2>4 DEF IsOrderly, Continues
  <2>5. CASE IsOrderly(after, n + 1) BY <1>1, <2>3, <2>5 DEF IsOrderly, Continues
  <2> QED BY <2>4, <2>5
<1>5. \A k \in 1 .. n + 1 : k = n + 1 \/ k \in 1 .. n OBVIOUS
<1>6. \A k : k \in OrderlyLines(read) <=> k \in 1 .. n /\ read[k].id \in ValidIds
  BY <1>1, <1>3 DEF OrderlyLines
<1>7. \A k : k \in OrderlyLines(after) <=>
             (k \in 1 .. n /\ read[k].id \in ValidIds) \/ (k = n + 1 /\ Continues(line, n + 1) /\ line.id \in ValidIds)
  <2> TAKE k
  <2>1. CASE k = n + 1 BY <2>1, <1>1, <1>4 DEF OrderlyLines
  <2>2. CASE k # n + 1 BY <1>1, <1>3, <1>5, <2>2 DEF OrderlyLines
  <2> QED BY <2>1, <2>2
<1>8. \A k : k \in OrderlyLines(after) <=>
             k \in OrderlyLines(read) \/ (k = y /\ Continues(line, y) /\ line.id \in ValidIds) BY <1>6, <1>7
<1>9. OrderlyLines(after) = OrderlyLines(read) \cup {k \in {y} : Continues(line, y) /\ line.id \in ValidIds}
  BY <1>8
<1> QED BY <1>1, <1>6, <1>9

\* What reading a line changes in its session.
LineRead(v, w, line) ==
  /\ w.inbound = Tail(v.inbound) /\ w.read = Append(v.read, line) /\ w.sent = v.sent
  /\ w.loggedOn = (v.loggedOn \/ IsLogon(v, line))
  /\ w.expected = IF IsLogon(v, line) \/ IsInSequence(v, line) THEN v.expected + 1 ELSE v.expected
  /\ w.outgoing = v.outgoing + 1
  /\ w.outbound = IF v.at = "open" THEN Append(v.outbound, [number |-> v.outgoing, id |-> line.id]) ELSE v.outbound
  /\ w.at \in {v.at, "closed"} /\ (ShouldClose(v, line) => w.at = "closed")

\* What handling a line does.
LEMMA HandleLineStep ==
  ASSUME DmaInv, NEW s \in Sessions, HandleLine(s)
  PROVE  \E w \in DmaStates, line \in DmaLines :
            /\ dma[s].at \in {"open", "left"} /\ dma[s].inbound # <<>> /\ line = Head(dma[s].inbound)
            /\ dma' = [dma EXCEPT ![s] = w] /\ LineRead(dma[s], w, line) /\ answered' = answered
            /\ submitted' = IF IsInSequence(dma[s], line) /\ line.type = "NEW_ORDER_SINGLE" /\ line.id \in ValidIds
                            THEN Append(submitted, [session |-> s, id |-> line.id]) ELSE submitted
<1>1. PICK v, line : v = dma[s] /\ line = Head(v.inbound) OBVIOUS
<1>2. /\ v.at \in {"open", "left"} /\ v.inbound # <<>> /\ answered' = answered
      /\ submitted' = IF IsInSequence(v, line) /\ line.type = "NEW_ORDER_SINGLE" /\ line.id \in ValidIds
                      THEN Append(submitted, [session |-> s, id |-> line.id]) ELSE submitted
  BY <1>1 DEF HandleLine
<1>3. v \in DmaStates /\ v.inbound \in Seq(DmaLines) /\ v.read \in Seq(DmaLines) /\ v.outbound \in Seq(DmaAnswers)
      /\ v.outgoing \in Nat /\ v.expected \in Nat /\ v.loggedOn \in BOOLEAN BY <1>1 DEF DmaInv, DmaStates
<1>4. line \in DmaLines /\ Tail(v.inbound) \in Seq(DmaLines)
  <2>1. PICK q \in Seq(DmaLines) : q = v.inbound /\ q # <<>> BY <1>2, <1>3
  <2>2. Head(q) \in DmaLines /\ Tail(q) \in Seq(DmaLines) BY <2>1
  <2> QED BY <1>1, <2>1, <2>2
<1>5. PICK rest \in Seq(DmaLines), read \in Seq(DmaLines), out \in Seq(DmaAnswers), e \in Nat, o \in Nat, b \in BOOLEAN :
          /\ rest = Tail(v.inbound) /\ read = Append(v.read, line)
          /\ out = Append(v.outbound, [number |-> v.outgoing, id |-> line.id])
          /\ e = (IF IsLogon(v, line) \/ IsInSequence(v, line) THEN v.expected + 1 ELSE v.expected)
          /\ o = v.outgoing + 1 /\ b = (v.loggedOn \/ IsLogon(v, line))
  <2>1. [number |-> v.outgoing, id |-> line.id] \in DmaAnswers BY <1>3, <1>4 DEF DmaLines, DmaAnswers
  <2>2. PICK rest \in Seq(DmaLines), read \in Seq(DmaLines) : rest = Tail(v.inbound) /\ read = Append(v.read, line)
    BY <1>3, <1>4, AppendProperties
  <2>3. PICK out \in Seq(DmaAnswers) : out = Append(v.outbound, [number |-> v.outgoing, id |-> line.id])
    BY <1>3, <2>1, AppendProperties
  <2>4. PICK e \in Nat : e = IF IsLogon(v, line) \/ IsInSequence(v, line) THEN v.expected + 1 ELSE v.expected
    BY <1>3
  <2>5. PICK o \in Nat : o = v.outgoing + 1 BY <1>3
  <2>6. PICK b \in BOOLEAN : b = (v.loggedOn \/ IsLogon(v, line)) BY <1>3
  <2> QED BY <2>2, <2>3, <2>4, <2>5, <2>6
<1>6. PICK handled : handled = [v EXCEPT !.inbound = rest, !.read = read, !.loggedOn = b, !.expected = e, !.outgoing = o]
  OBVIOUS
<1>7. /\ handled \in DmaStates /\ handled.inbound = rest /\ handled.read = read /\ handled.loggedOn = b
      /\ handled.expected = e /\ handled.outgoing = o /\ handled.at = v.at /\ handled.outbound = v.outbound
      /\ handled.sent = v.sent BY <1>3, <1>5, <1>6 DEF DmaStates
<1>8. \/ /\ v.at = "open"
         /\ dma' = [dma EXCEPT ![s] = [handled EXCEPT !.outbound = out,
                                           !.at = IF ShouldClose(v, line) THEN "closed" ELSE v.at]]
      \/ /\ v.at = "left"
         /\ \E at \in {IF ShouldClose(v, line) THEN "closed" ELSE "left", "closed"} :
               dma' = [dma EXCEPT ![s] = [handled EXCEPT !.at = at]]
  <2> DEFINE u == dma[s]
             l == Head(u.inbound)
             inSequence == IsLogon(u, l) \/ IsInSequence(u, l)
             answer == [number |-> u.outgoing, id |-> l.id]
             done == [u EXCEPT !.inbound = Tail(@), !.read = Append(@, l), !.loggedOn = @ \/ IsLogon(u, l),
                               !.expected = IF inSequence THEN @ + 1 ELSE @, !.outgoing = @ + 1]
  <2>1. \/ /\ u.at = "open"
           /\ dma' = [dma EXCEPT ![s] = [done EXCEPT !.outbound = Append(@, answer),
                                             !.at = IF ShouldClose(u, l) THEN "closed" ELSE @]]
        \/ /\ u.at = "left"
           /\ \E at \in {IF ShouldClose(u, l) THEN "closed" ELSE "left", "closed"} :
                 dma' = [dma EXCEPT ![s] = [done EXCEPT !.at = at]] BY Zenon DEF HandleLine
  <2>2. u = v /\ l = line BY <1>1
  <2>3. done = handled BY <1>5, <1>6, <2>2
  <2>4. [done EXCEPT !.outbound = Append(@, answer), !.at = IF ShouldClose(u, l) THEN "closed" ELSE @]
        = [handled EXCEPT !.outbound = out, !.at = IF ShouldClose(v, line) THEN "closed" ELSE v.at]
    BY <1>5, <1>7, <2>2, <2>3
  <2> HIDE DEF done, u, l
  <2> QED BY <2>1, <2>2, <2>3, <2>4
<1>9. PICK w : /\ dma' = [dma EXCEPT ![s] = w] /\ w \in DmaStates
               /\ w.at \in {v.at, "closed"} /\ (ShouldClose(v, line) => w.at = "closed")
               /\ w.outbound = (IF v.at = "open" THEN out ELSE v.outbound)
               /\ w.inbound = rest /\ w.read = read /\ w.loggedOn = b /\ w.expected = e /\ w.outgoing = o /\ w.sent = v.sent
  <2>1. CASE /\ v.at = "open"
             /\ dma' = [dma EXCEPT ![s] = [handled EXCEPT !.outbound = out,
                                               !.at = IF ShouldClose(v, line) THEN "closed" ELSE v.at]]
    <3>1. PICK at \in {"open", "closed"} : at = IF ShouldClose(v, line) THEN "closed" ELSE v.at BY <2>1
    <3>2. PICK w : w = [handled EXCEPT !.outbound = out, !.at = at] OBVIOUS
    <3>3. /\ w \in DmaStates /\ w.at = at /\ w.outbound = out /\ w.inbound = rest /\ w.read = read /\ w.loggedOn = b
          /\ w.expected = e /\ w.outgoing = o /\ w.sent = v.sent BY <1>7, <3>2 DEF DmaStates
    <3> QED BY <2>1, <3>1, <3>2, <3>3
  <2>2. ASSUME v.at = "left", NEW at \in {IF ShouldClose(v, line) THEN "closed" ELSE "left", "closed"},
               dma' = [dma EXCEPT ![s] = [handled EXCEPT !.at = at]]
        PROVE  \E w : /\ dma' = [dma EXCEPT ![s] = w] /\ w \in DmaStates
                      /\ w.at \in {v.at, "closed"} /\ (ShouldClose(v, line) => w.at = "closed")
                      /\ w.outbound = (IF v.at = "open" THEN out ELSE v.outbound)
                      /\ w.inbound = rest /\ w.read = read /\ w.loggedOn = b /\ w.expected = e /\ w.outgoing = o
                      /\ w.sent = v.sent
    <3>1. at \in {"left", "closed"} /\ (ShouldClose(v, line) => at = "closed") BY <2>2
    <3>2. PICK w : w = [handled EXCEPT !.at = at] OBVIOUS
    <3>3. /\ w \in DmaStates /\ w.at = at /\ w.outbound = v.outbound /\ w.inbound = rest /\ w.read = read /\ w.loggedOn = b
          /\ w.expected = e /\ w.outgoing = o /\ w.sent = v.sent BY <1>7, <3>1, <3>2 DEF DmaStates
    <3> QED BY <2>2, <3>1, <3>2, <3>3
  <2> QED BY <1>8, <2>1, <2>2
<1>10. LineRead(v, w, line) BY <1>5, <1>9 DEF LineRead
<1> QED BY <1>1, <1>2, <1>4, <1>9, <1>10

\* A line that is handled: what its session then has sent, read and answered.
LEMMA HandledSessionInv ==
  ASSUME NEW v \in DmaStates, NEW w \in DmaStates, NEW line \in DmaLines, SessionInv(v), LineRead(v, w, line),
         v.at \in {"open", "left"}, v.inbound # <<>>, line = Head(v.inbound)
  PROVE  /\ SessionInv(w) /\ (IsLive(w) => IsLive(v)) /\ w.sent = v.sent
         /\ IsInOrder(v.read) /\ IsAppended(w.read, v.read, line)
         /\ Len(v.read) + 1 \in 1 .. Len(v.sent) /\ v.sent[Len(v.read) + 1] = line
         /\ Continues(line, Len(v.read) + 1) <=> IsLogon(v, line) \/ IsInSequence(v, line)
<1>1. /\ v.read \in Seq(DmaLines) /\ v.inbound \in Seq(DmaLines) /\ v.sent \in Seq(DmaLines)
      /\ v.outbound \in Seq(DmaAnswers) /\ w.outbound \in Seq(DmaAnswers) BY DEF DmaStates
<1>19. PICK read, inbound, sent, out : read = v.read /\ inbound = v.inbound /\ sent = v.sent /\ out = v.outbound
  OBVIOUS
<1>2. PICK m \in Nat, rest \in Seq(DmaLines) :
          /\ read = v.read /\ inbound = v.inbound /\ sent = v.sent /\ out = v.outbound
          /\ m + 1 = Len(inbound) /\ rest = Tail(inbound) /\ Len(rest) = m /\ line = inbound[1]
          /\ \A k \in 1 .. m : rest[k] = inbound[k + 1]
  <2>1. PICK q \in Seq(DmaLines) : q = v.inbound /\ q # <<>> BY <1>1
  <2>2. \E m \in Nat, rest \in Seq(DmaLines) :
           /\ m + 1 = Len(q) /\ rest = Tail(q) /\ Len(rest) = m /\ Head(q) = q[1]
           /\ \A k \in 1 .. m : rest[k] = q[k + 1] BY <2>1, Beheaded
  <2> QED BY <1>19, <2>1, <2>2
<1>3. read \in Seq(DmaLines) /\ sent \in Seq(DmaLines) /\ out \in Seq(DmaAnswers) BY <1>1, <1>2
<1>4. PICK n \in Nat, l \in Nat, z \in Nat : n = Len(read) /\ l = Len(sent) /\ z = Len(out)
  <2>1. Len(read) \in Nat /\ Len(sent) \in Nat /\ Len(out) \in Nat BY <1>3
  <2> QED BY <2>1
<1>5. n + (m + 1) = l BY <1>2, <1>4 DEF SessionInv, LinesAreSentOnce
<1>6. /\ \A k \in 1 .. n : read[k] = sent[k]
      /\ \A k \in 1 .. m + 1 : inbound[k] = sent[n + k]
      /\ \A i \in 1 .. l : sent[i].type = "NEW_ORDER_SINGLE" <=> sent[i].id \in OrderIds
      /\ \A i, j \in 1 .. l : sent[i].id \in OrderIds /\ sent[i].id = sent[j].id => i = j
  BY <1>2, <1>4 DEF SessionInv, LinesAreSentOnce
<1>7. n + 1 \in 1 .. l /\ sent[n + 1] = line BY <1>5, <1>2, <1>6
<1>8. PICK after \in Seq(DmaLines) : after = w.read /\ IsAppended(after, read, line)
  <2>1. PICK t \in Seq(DmaLines) : t = Append(read, line) /\ IsAppended(t, read, line) BY <1>3, Appended
  <2> QED BY <1>2, <2>1 DEF LineRead
<1>9. Len(after) = n + 1 /\ after[n + 1] = line /\ \A k \in 1 .. n : after[k] = read[k]
  BY <1>4, <1>8 DEF IsAppended
<1>10. LinesAreSentOnce(w)
  <2>1. ASSUME NEW k \in 1 .. n + 1 PROVE after[k] = sent[k] BY <1>6, <1>7, <1>9
  <2>2. ASSUME NEW k \in 1 .. m PROVE rest[k] = sent[n + 1 + k]
    <3>1. PICK u \in 1 .. m + 1 : u = k + 1 OBVIOUS
    <3>2. n + u = n + 1 + k BY <3>1
    <3>3. rest[k] = inbound[u] BY <1>2, <3>1
    <3>4. rest[k] = sent[n + u] BY <1>6, <3>3
    <3> QED BY <3>2, <3>4
  <2>3. n + 1 + m = l BY <1>5
  <2>4. w.read = after /\ w.inbound = rest /\ w.sent = sent BY <1>2, <1>8 DEF LineRead
  <2>5. Len(w.read) = n + 1 /\ Len(w.inbound) = m /\ Len(w.sent) = l BY <1>2, <1>4, <1>9, <2>4
  <2> QED BY <1>6, <2>1, <2>2, <2>3, <2>4, <2>5 DEF LinesAreSentOnce
<1>11. v.outgoing = n + 1 /\ z <= n /\ \A k \in 1 .. z : out[k].number = n - z + k
  BY <1>2, <1>4 DEF SessionInv, AnswersAreNumbered
<1>12. AnswersAreNumbered(w)
  <2>1. w.outgoing = n + 2 /\ Len(w.read) = n + 1 BY <1>8, <1>9, <1>11 DEF LineRead
  <2>2. CASE v.at = "open"
    <3>1. PICK answer : answer = [number |-> v.outgoing, id |-> line.id] OBVIOUS
    <3>2. answer \in DmaAnswers /\ answer.number = n + 1 BY <1>11, <3>1 DEF DmaAnswers, DmaLines
    <3>3. PICK t \in Seq(DmaAnswers) : t = Append(out, answer) /\ IsAppended(t, out, answer)
      BY <1>3, <3>2, Appended
    <3>4. Len(t) = z + 1 /\ t[z + 1] = answer /\ \A k \in 1 .. z : t[k] = out[k] BY <1>4, <3>3 DEF IsAppended
    <3>5. w.outbound = t BY <1>2, <2>2, <3>1, <3>3 DEF LineRead
    <3>6. ASSUME NEW k \in 1 .. z + 1 PROVE t[k].number = (n + 1) - (z + 1) + k
      <4>1. k = z + 1 \/ k \in 1 .. z OBVIOUS
      <4>2. CASE k = z + 1 BY <3>2, <3>4, <4>2
      <4>3. CASE k \in 1 .. z BY <1>11, <3>4, <4>3
      <4> QED BY <4>1, <4>2, <4>3
    <3>7. z + 1 <= n + 1 BY <1>11
    <3>8. Len(w.outbound) = z + 1 /\ Len(w.read) = n + 1 /\ w.outgoing = (n + 1) + 1 BY <2>1, <3>4, <3>5
    <3> QED BY <3>5, <3>6, <3>7, <3>8 DEF AnswersAreNumbered
  <2>3. CASE v.at = "left"
    <3>1. w.outbound = <<>> BY <2>3 DEF LineRead, SessionInv
    <3>2. Len(w.outbound) = 0 /\ Len(w.read) = n + 1 /\ w.outgoing = (n + 1) + 1 BY <2>1, <3>1
    <3> QED BY <3>2 DEF AnswersAreNumbered
  <2> QED BY <2>2, <2>3
<1>13. /\ v.expected = n + 1 /\ (v.loggedOn <=> n > 0) /\ IsInOrder(read) BY <1>2, <1>4 DEF SessionInv
<1>14. Continues(line, n + 1) <=> IsLogon(v, line) \/ IsInSequence(v, line)
  BY <1>13 DEF Continues, IsLogon, IsInSequence
<1>15. ASSUME w.at # "closed" PROVE w.expected = n + 2 /\ (w.loggedOn <=> n + 1 > 0) /\ IsInOrder(after)
  <2>1. IsLogon(v, line) \/ (IsInSequence(v, line) /\ line.type # "LOGOUT") BY <1>15 DEF LineRead, ShouldClose
  <2>2. Continues(line, n + 1) /\ line.type # "LOGOUT" BY <1>14, <2>1 DEF IsLogon
  <2>3. w.expected = n + 2 BY <1>13, <2>1 DEF LineRead
  <2>4. w.loggedOn BY <2>1 DEF LineRead, IsInSequence
  <2>5. IsInOrder(after)
    <3> SUFFICES ASSUME NEW k \in 1 .. n + 1
                 PROVE  /\ after[k].number = k /\ after[k].type # "MALFORMED" /\ after[k].type # "LOGOUT"
                        /\ after[k].type = "LOGON" <=> k = 1 BY <1>9 DEF IsInOrder
    <3>1. k = n + 1 \/ k \in 1 .. n OBVIOUS
    <3>2. CASE k = n + 1 BY <1>9, <2>2, <3>2 DEF Continues
    <3>3. CASE k \in 1 .. n BY <1>4, <1>9, <1>13, <3>3 DEF IsInOrder
    <3> QED BY <3>1, <3>2, <3>3
  <2>6. n + 1 > 0 OBVIOUS
  <2> QED BY <2>3, <2>4, <2>5, <2>6
<1>16. SessionInv(w) BY <1>8, <1>9, <1>15, <1>10, <1>12 DEF LineRead, SessionInv
<1>17. IsLive(w) => IsLive(v) BY DEF LineRead, SessionInv, IsLive
<1>18. w.sent = v.sent BY DEF LineRead
<1> QED BY <1>2, <1>4, <1>7, <1>8, <1>13, <1>14, <1>16, <1>17, <1>18

\* It matters only what orders and lines are read.
LEMMA FaithfulSame ==
  ASSUME NEW orders, NEW lines, NEW mine, NEW read, NEW orders1, NEW read1, IsFaithful(orders, lines, mine, read),
         \A m \in mine : orders1[m].id = orders[m].id, \A i \in lines : read1[i].id = read[i].id
  PROVE  IsFaithful(orders1, lines, mine, read1)
<1>1. {orders1[m].id : m \in mine} = {orders[m].id : m \in mine} /\ {read1[i].id : i \in lines} = {read[i].id : i \in lines}
  OBVIOUS
<1>2. {orders1[m].id : m \in mine} = {read1[i].id : i \in lines} BY <1>1 DEF IsFaithful
<1>3. \A m, k \in mine, i, j \in lines : (orders1[m].id = read1[i].id /\ orders1[k].id = read1[j].id) => (m < k <=> i < j)
  BY DEF IsFaithful
<1> QED BY <1>2, <1>3 DEF IsFaithful

\* Both get one more, behind the others and with an order of its own.
OneMoreOrder(orders, lines, mine, read, x, y, orders1, read1) ==
  /\ lines \subseteq Nat /\ mine \subseteq Nat /\ x \in Nat /\ y \in Nat
  /\ \A m \in mine : m < x /\ orders1[m].id = orders[m].id
  /\ \A i \in lines : i < y /\ read1[i].id = read[i].id /\ read[i].id # read1[y].id
  /\ orders1[x].id = read1[y].id

\* The orders stay those of the lines.
LEMMA FaithfulGrows ==
  ASSUME NEW orders, NEW lines, NEW mine, NEW read, NEW x, NEW y, NEW orders1, NEW read1,
         IsFaithful(orders, lines, mine, read), OneMoreOrder(orders, lines, mine, read, x, y, orders1, read1)
  PROVE  IsFaithful(orders1, lines \cup {y}, mine \cup {x}, read1)
<1>5. /\ lines \subseteq Nat /\ mine \subseteq Nat /\ x \in Nat /\ y \in Nat
      /\ \A m \in mine : m < x /\ orders1[m].id = orders[m].id
      /\ \A i \in lines : i < y /\ read1[i].id = read[i].id /\ read[i].id # read1[y].id
      /\ orders1[x].id = read1[y].id BY DEF OneMoreOrder
<1>1. \A m \in mine : \E i \in lines : orders[m].id = read[i].id
  <2> TAKE m \in mine
  <2>1. orders[m].id \in {read[n].id : n \in lines} BY DEF IsFaithful
  <2> QED BY <2>1
<1>2. \A m \in mine : orders1[m].id # read1[y].id BY <1>1, <1>5
<1>3. {orders1[m].id : m \in mine \cup {x}} = {read1[i].id : i \in lines \cup {y}}
  <2>1. {orders1[m].id : m \in mine} = {read1[i].id : i \in lines}
    <3>1. ASSUME NEW i \in lines PROVE \E m \in mine : orders[m].id = read[i].id BY DEF IsFaithful
    <3> QED BY <1>1, <1>5, <3>1
  <2> QED BY <1>5, <2>1
<1>4. ASSUME NEW m \in mine \cup {x}, NEW k \in mine \cup {x}, NEW i \in lines \cup {y}, NEW j \in lines \cup {y},
             orders1[m].id = read1[i].id, orders1[k].id = read1[j].id
      PROVE  m < k <=> i < j
  <2>1. m = x <=> i = y BY <1>2, <1>4, <1>5
  <2>2. k = x <=> j = y BY <1>2, <1>4, <1>5
  <2>3. CASE m = x /\ k = x BY <1>5, <2>1, <2>2, <2>3
  <2>4. CASE m = x /\ k # x BY <1>5, <2>1, <2>2, <2>4
  <2>5. CASE m # x /\ k = x BY <1>5, <2>1, <2>2, <2>5
  <2>6. CASE m # x /\ k # x BY <2>1, <2>2, <2>6, <1>4, <1>5 DEF IsFaithful
  <2> QED BY <2>3, <2>4, <2>5, <2>6
<1> QED BY <1>3, <1>4 DEF IsFaithful

\* A line that is handled keeps the invariant.
LEMMA HandleKeepsInv == ASSUME DmaInv, NEW s \in Sessions, HandleLine(s) PROVE DmaInv'
<1>1. PICK w \in DmaStates, line \in DmaLines :
          /\ dma[s].at \in {"open", "left"} /\ dma[s].inbound # <<>> /\ line = Head(dma[s].inbound)
          /\ dma' = [dma EXCEPT ![s] = w] /\ LineRead(dma[s], w, line) /\ answered' = answered
          /\ submitted' = IF IsInSequence(dma[s], line) /\ line.type = "NEW_ORDER_SINGLE" /\ line.id \in ValidIds
                          THEN Append(submitted, [session |-> s, id |-> line.id]) ELSE submitted
  BY HandleLineStep
<1>2. PICK v : v = dma[s] OBVIOUS
<1>3. v \in DmaStates /\ SessionInv(v) /\ dma' = [dma EXCEPT ![s] = w] /\ LineRead(v, w, line)
  BY <1>1, <1>2 DEF DmaInv
<1>4. PICK n \in Nat, read \in Seq(DmaLines), after \in Seq(DmaLines) : n = Len(read) /\ read = v.read /\ after = w.read
  <2>1. v.read \in Seq(DmaLines) /\ w.read \in Seq(DmaLines) BY <1>3 DEF DmaStates
  <2>2. Len(v.read) \in Nat BY <2>1
  <2> QED BY <2>1, <2>2
<1>5. /\ SessionInv(w) /\ (IsLive(w) => IsLive(v)) /\ w.sent = v.sent
      /\ IsInOrder(read) /\ IsAppended(after, read, line)
      /\ n + 1 \in 1 .. Len(v.sent) /\ v.sent[n + 1] = line
      /\ Continues(line, n + 1) <=> IsLogon(v, line) \/ IsInSequence(v, line)
  BY <1>1, <1>2, <1>3, HandledSessionInv, <1>4
<1>6. /\ dma \in [Sessions -> DmaStates] /\ dma' \in [Sessions -> DmaStates] /\ dma'[s] = w
      /\ \A r \in Sessions : r # s => dma'[r] = dma[r] BY <1>3 DEF DmaInv
<1>7. \A r \in Sessions : SessionInv(dma'[r]) BY <1>5, <1>6 DEF DmaInv
<1>8. \A r, q \in Sessions : r # q /\ IsLive(dma'[r]) => ~IsLive(dma'[q]) BY <1>2, <1>5, <1>6 DEF DmaInv
<1>9. ASSUME NEW r \in Sessions, NEW q \in Sessions, NEW id \in OrderIds, r # q,
             HasSent(dma'[r], id), HasSent(dma'[q], id)
      PROVE  IsOver(r, id)' \/ IsOver(q, id)'
  <2>1. \A u \in Sessions : HasSent(dma'[u], id) => HasSent(dma[u], id) BY <1>2, <1>5, <1>6 DEF HasSent
  <2>2. \A u \in Sessions : IsLive(dma'[u]) => IsLive(dma[u]) BY <1>2, <1>5, <1>6
  <2>3. IsOver(r, id) \/ IsOver(q, id) BY <1>9, <2>1 DEF DmaInv
  <2> QED BY <1>1, <2>2, <2>3 DEF IsOver
<1>10. PICK M \in Nat : M = Len(submitted) /\ submitted \in Seq([session : Sessions, id : OrderIds]) /\ DOMAIN submitted = 1 .. M
  BY DEF DmaInv
<1>11. PICK isOrder \in BOOLEAN : isOrder = (Continues(line, n + 1) /\ line.id \in ValidIds) OBVIOUS
<1>12. isOrder <=> (IsInSequence(v, line) /\ line.type = "NEW_ORDER_SINGLE" /\ line.id \in ValidIds)
  <2>1. line.id \in ValidIds => line.type = "NEW_ORDER_SINGLE"
    BY DmaAssumption, <1>3, <1>5 DEF SessionInv, LinesAreSentOnce
  <2>2. line.type = "NEW_ORDER_SINGLE" => ~IsLogon(v, line) BY DEF IsLogon
  <2> QED BY <1>5, <1>11, <2>1, <2>2
<1>13. /\ submitted' \in Seq([session : Sessions, id : OrderIds])
       /\ \A m \in 1 .. M : m \in DOMAIN submitted' /\ submitted'[m] = submitted[m]
       /\ ~isOrder => DOMAIN submitted' = 1 .. M
       /\ isOrder => /\ DOMAIN submitted' = 1 .. M + 1
                     /\ submitted'[M + 1].session = s /\ submitted'[M + 1].id = line.id
  <2>1. CASE ~isOrder BY <1>1, <1>2, <1>12, <2>1, <1>10
  <2>2. CASE isOrder
    <3>1. PICK order \in [session : Sessions, id : OrderIds] : order = [session |-> s, id |-> line.id]
      BY <1>11, <2>2, DmaAssumption
    <3>2. submitted' = Append(submitted, order) BY <1>1, <1>2, <1>12, <2>2, <3>1
    <3>3. PICK t \in Seq([session : Sessions, id : OrderIds]) : t = Append(submitted, order) /\ IsAppended(t, submitted, order)
      BY <1>10, Appended
    <3>4. Len(t) = M + 1 /\ t[M + 1] = order /\ \A m \in 1 .. M : t[m] = submitted[m]
      BY <1>10, <3>3 DEF IsAppended
    <3>5. DOMAIN t = 1 .. M + 1 /\ \A m \in 1 .. M : m \in 1 .. M + 1 BY <3>4
    <3>6. submitted' = t BY <3>2, <3>3
    <3> QED BY <2>2, <3>1, <3>4, <3>5, <3>6
  <2> QED BY <2>1, <2>2
<1>14. ASSUME NEW r \in Sessions, r # s PROVE SubmitsItsLines(r)'
  <2>1. OrdersOf(r)' = OrdersOf(r) /\ \A m \in OrdersOf(r) : submitted'[m] = submitted[m]
    <3>1. CASE isOrder BY <1>10, <1>13, <1>14, <3>1 DEF OrdersOf
    <3>2. CASE ~isOrder BY <1>10, <1>13, <3>2 DEF OrdersOf
    <3> QED BY <3>1, <3>2
  <2>2. PICK lines, b : lines = OrderlyLines(dma[r].read) /\ b = dma[r].read /\ b = dma'[r].read
    BY <1>6, <1>14
  <2>3. IsFaithful(submitted, lines, OrdersOf(r), b) BY <2>2 DEF DmaInv, SubmitsItsLines
  <2>4. IsFaithful(submitted', lines, OrdersOf(r), b)
    <3>1. PICK orders : orders = submitted' OBVIOUS
    <3>2. IsFaithful(orders, lines, OrdersOf(r), b) BY <2>1, <2>3, <3>1, FaithfulSame
    <3> QED BY <3>1, <3>2
  <2> QED BY <2>1, <2>2, <2>4 DEF SubmitsItsLines
<1>15. SubmitsItsLines(s)'
  <2>1. PICK lines : lines = OrderlyLines(read) OBVIOUS
  <2>2. /\ OrderlyLines(after) = lines \cup {k \in {n + 1} : isOrder}
        /\ \A k \in lines : k \in 1 .. n /\ after[k] = read[k]
    <3>1. PICK y \in Nat : y = n + 1 OBVIOUS
    <3>2. /\ OrderlyLines(after) = lines \cup {k \in {y} : Continues(line, y) /\ line.id \in ValidIds}
          /\ \A k \in lines : k \in 1 .. n /\ after[k] = read[k] BY <1>4, <1>5, <2>1, <3>1, OrderlyLinesGrow
    <3> QED BY <1>11, <3>1, <3>2
  <2>3. IsFaithful(submitted, lines, OrdersOf(s), read) BY <1>2, <1>4, <2>1 DEF DmaInv, SubmitsItsLines
  <2>4. \A m \in OrdersOf(s) : m \in 1 .. M /\ submitted'[m].id = submitted[m].id BY <1>10, <1>13 DEF OrdersOf
  <2>5. IsFaithful(submitted', OrderlyLines(after), OrdersOf(s)', after)
    <3>1. CASE ~isOrder
      <4>1. OrderlyLines(after) = lines BY <2>2, <3>1
      <4>2. OrdersOf(s)' = OrdersOf(s) BY <1>10, <1>13, <3>1 DEF OrdersOf
      <4>3. IsFaithful(submitted', lines, OrdersOf(s), after)
        <5>1. PICK orders : orders = submitted' OBVIOUS
        <5>2. IsFaithful(orders, lines, OrdersOf(s), after) BY <2>2, <2>3, <2>4, <5>1, FaithfulSame
        <5> QED BY <5>1, <5>2
      <4> QED BY <4>1, <4>2, <4>3
    <3>2. CASE isOrder
      <4>1. OrderlyLines(after) = lines \cup {n + 1} BY <2>2, <3>2
      <4>2. OrdersOf(s)' = OrdersOf(s) \cup {M + 1} BY <1>10, <1>13, <3>2 DEF OrdersOf
      <4>3. after[n + 1] = line /\ \A i \in lines : read[i].id # line.id
        <5>1. after[n + 1] = line BY <1>4, <1>5 DEF IsAppended
        <5>2. ASSUME NEW i \in lines PROVE read[i].id # line.id
          <6>1. i \in 1 .. n /\ read[i] = v.sent[i] BY <1>3, <1>4, <2>2 DEF SessionInv, LinesAreSentOnce
          <6>2. line.id \in OrderIds BY <1>11, <3>2, DmaAssumption
          <6>3. PICK l \in Nat : l = Len(v.sent) /\ n + 1 <= l
            <7>1. v.sent \in Seq(DmaLines) BY <1>3 DEF DmaStates
            <7> QED BY <1>5, <7>1
          <6>4. i \in 1 .. l /\ n + 1 \in 1 .. l /\ i # n + 1 BY <6>1, <6>3
          <6>5. \A a, b \in 1 .. l : v.sent[a].id \in OrderIds /\ v.sent[a].id = v.sent[b].id => a = b
            BY <1>3, <6>3 DEF SessionInv, LinesAreSentOnce
          <6> QED BY <1>5, <6>1, <6>2, <6>4, <6>5
        <5> QED BY <5>1, <5>2
      <4>4. PICK x \in Nat, y \in Nat : x = M + 1 /\ y = n + 1 OBVIOUS
      <4>5. /\ lines \subseteq Nat /\ OrdersOf(s) \subseteq Nat
            /\ \A m \in OrdersOf(s) : m < x /\ submitted'[m].id = submitted[m].id
            /\ \A i \in lines : i < y /\ after[i].id = read[i].id BY <2>2, <2>4, <4>4
      <4>6. submitted'[x].id = after[y].id /\ \A i \in lines : read[i].id # after[y].id
        BY <1>13, <3>2, <4>3, <4>4
      <4>7. PICK orders : orders = submitted' OBVIOUS
      <4>8. IsFaithful(orders, lines \cup {y}, OrdersOf(s) \cup {x}, after)
        <5>1. OneMoreOrder(submitted, lines, OrdersOf(s), read, x, y, orders, after)
          BY <4>5, <4>6, <4>7 DEF OneMoreOrder
        <5> QED BY <2>3, <5>1, FaithfulGrows
      <4> QED BY <4>1, <4>2, <4>4, <4>7, <4>8
    <3> QED BY <3>1, <3>2
  <2>6. dma'[s].read = after BY <1>4, <1>6
  <2> QED BY <2>5, <2>6 DEF SubmitsItsLines
<1>16. \A r \in Sessions : SubmitsItsLines(r)' BY <1>14, <1>15
<1>17. \A r, q \in Sessions, id \in OrderIds :
          r # q /\ HasSent(dma'[r], id) /\ HasSent(dma'[q], id) => IsOver(r, id)' \/ IsOver(q, id)' BY <1>9
<1> QED BY <1>6, <1>7, <1>8, <1>13, <1>16, <1>17 DEF DmaInv

\* Every step of the sessions.
LEMMA SessionsKeepInv == ASSUME DmaInv, DmaNext PROVE DmaInv'
BY ConnectKeepsInv, SendKeepsInv, HandleKeepsInv, ReadAnswerKeepsInv, LossKeepsInv DEF DmaNext

\* A step of another desk leaves the sessions.
LEMMA OthersKeepSessions == ASSUME DmaInv, UNCHANGED dmaVars PROVE DmaInv'
BY DEF DmaInv, dmaVars, SubmitsItsLines, OrdersOf, IsOver

\* At the start there is no session.
LEMMA SessionsStart == ASSUME DmaInit PROVE DmaInv
<1>1. PICK v : v = [at |-> "unused", loggedOn |-> FALSE, expected |-> 1, outgoing |-> 1,
                    inbound |-> <<>>, outbound |-> <<>>, sent |-> <<>>, read |-> <<>>] OBVIOUS
<1>2. dma = [s \in Sessions |-> v] /\ submitted = <<>> /\ answered = {} BY <1>1 DEF DmaInit
<1>3. v \in DmaStates BY <1>1 DEF DmaStates
<1>4. /\ v.at = "unused" /\ v.loggedOn = FALSE /\ v.expected = 1 /\ v.outgoing = 1 /\ v.inbound = <<>>
      /\ v.outbound = <<>> /\ v.sent = <<>> /\ v.read = <<>> BY <1>1
<1>5. SessionInv(v) /\ ~IsLive(v) /\ \A id : ~HasSent(v, id)
  BY <1>4 DEF LinesAreSentOnce, AnswersAreNumbered, IsInOrder, SessionInv, IsLive, HasSent
<1>6. ASSUME NEW s \in Sessions PROVE SubmitsItsLines(s)
  BY <1>2, <1>4 DEF OrdersOf, OrderlyLines, SubmitsItsLines, IsFaithful
<1> QED BY <1>2, <1>3, <1>5, <1>6 DEF DmaInv

\* The invariant is what sessions promise.
LEMMA InvSubmitsTheLines == ASSUME DmaInv PROVE SessionsSubmitTheirLines /\ RepeatsWereUnanswered
<1>1. ASSUME NEW s \in Sessions
      PROVE  /\ SubmitsItsLines(s) /\ dma[s].outgoing = Len(dma[s].read) + 1
             /\ \A n \in DOMAIN dma[s].outbound :
                   dma[s].outbound[n].number = Len(dma[s].read) - Len(dma[s].outbound) + n
  <2>1. PICK v : v = dma[s] /\ v \in DmaStates /\ SessionInv(v) BY DEF DmaInv
  <2>2. v.outbound \in Seq(DmaAnswers) BY <2>1 DEF DmaStates
  <2>3. DOMAIN v.outbound = 1 .. Len(v.outbound) BY <2>2
  <2> QED BY <2>1, <2>3 DEF SessionInv, AnswersAreNumbered, DmaInv
<1>2. SessionsSubmitTheirLines
  BY <1>1 DEF SessionsSubmitTheirLines, SubmitsItsLines, IsFaithful, OrdersOf, OrderlyLines
<1>3. ASSUME NEW m \in DOMAIN submitted
      PROVE  /\ submitted[m].session \in Sessions /\ submitted[m].id \in OrderIds
             /\ \E i \in OrderlyLines(dma[submitted[m].session].read) :
                   submitted[m].id = dma[submitted[m].session].read[i].id
             /\ HasSent(dma[submitted[m].session], submitted[m].id)
  <2>1. PICK s \in Sessions, id \in OrderIds : s = submitted[m].session /\ id = submitted[m].id
    <3>1. submitted \in Seq([session : Sessions, id : OrderIds]) BY DEF DmaInv
    <3>2. PICK T : T = [session : Sessions, id : OrderIds] OBVIOUS
    <3>4. PICK q \in Seq(T) : q = submitted BY <3>1, <3>2
    <3>5. m \in DOMAIN q BY <3>4
    <3>6. q[m] \in T BY <3>5
    <3>3. submitted[m] \in T BY <3>4, <3>6
    <3> QED BY <3>2, <3>3
  <2>2. m \in OrdersOf(s) BY <2>1 DEF OrdersOf
  <2>3. PICK i \in OrderlyLines(dma[s].read) : id = dma[s].read[i].id
    <3>1. {submitted[k].id : k \in OrdersOf(s)} = {dma[s].read[n].id : n \in OrderlyLines(dma[s].read)}
      BY <1>1 DEF SubmitsItsLines, IsFaithful
    <3>2. id \in {submitted[k].id : k \in OrdersOf(s)} BY <2>1, <2>2
    <3>3. id \in {dma[s].read[n].id : n \in OrderlyLines(dma[s].read)} BY <3>1, <3>2
    <3> QED BY <3>3
  <2>4. PICK v : v = dma[s] /\ v \in DmaStates /\ SessionInv(v) BY DEF DmaInv
  <2>5. PICK n \in Nat, k \in Nat : n = Len(v.read) /\ k = Len(v.inbound)
    <3>1. v.read \in Seq(DmaLines) /\ v.inbound \in Seq(DmaLines) BY <2>4 DEF DmaStates
    <3> QED BY <3>1
  <2>6. i \in 1 .. n BY <2>4, <2>3, <2>5 DEF DmaStates, OrderlyLines
  <2>7. Len(v.sent) = n + k /\ v.sent[i] = v.read[i] BY <2>4, <2>5, <2>6 DEF SessionInv, LinesAreSentOnce
  <2>8. i \in 1 .. n + k BY <2>6
  <2>9. HasSent(v, id) BY <2>3, <2>4, <2>7, <2>8 DEF HasSent
  <2> QED BY <2>1, <2>3, <2>4, <2>9
<1>4. ASSUME NEW m \in DOMAIN submitted, NEW n \in DOMAIN submitted, m # n, submitted[m].id = submitted[n].id
      PROVE  /\ submitted[m].session # submitted[n].session
             /\ \/ <<submitted[m].session, submitted[m].id>> \notin answered
                \/ <<submitted[n].session, submitted[n].id>> \notin answered
  <2>1. submitted[m].session # submitted[n].session
    <3> SUFFICES ASSUME submitted[m].session = submitted[n].session PROVE FALSE OBVIOUS
    <3>1. PICK s \in Sessions : s = submitted[m].session /\ m \in OrdersOf(s) /\ n \in OrdersOf(s)
      BY <1>3 DEF OrdersOf
    <3>2. PICK i \in OrderlyLines(dma[s].read) : submitted[m].id = dma[s].read[i].id BY <1>3, <3>1
    <3>3. (m < n <=> i < i) /\ (n < m <=> i < i)
      <4>1. SubmitsItsLines(s) BY <3>1 DEF DmaInv
      <4>2. submitted[n].id = dma[s].read[i].id BY <1>4, <3>2
      <4> QED BY <3>1, <3>2, <4>1, <4>2 DEF SubmitsItsLines, IsFaithful
    <3>4. m \in Int /\ n \in Int /\ i \in Int
      <4>1. submitted \in Seq([session : Sessions, id : OrderIds]) /\ dma[s].read \in Seq(DmaLines)
        BY DEF DmaInv, DmaStates
      <4> QED BY <4>1 DEF OrderlyLines
    <3> QED BY <1>4, <3>3, <3>4
  <2>2. PICK r \in Sessions, s \in Sessions, id \in OrderIds :
            /\ r = submitted[m].session /\ s = submitted[n].session /\ id = submitted[m].id /\ id = submitted[n].id
            /\ r # s /\ HasSent(dma[r], id) /\ HasSent(dma[s], id) BY <1>3, <1>4, <2>1
  <2>3. IsOver(r, id) \/ IsOver(s, id) BY <2>2 DEF DmaInv
  <2> QED BY <2>1, <2>2, <2>3 DEF IsOver
<1> QED BY <1>2, <1>4 DEF RepeatsWereUnanswered

--------------------
(* All of them together.                                                   *)

AlgoInv == LimitInv /\ ScheduleInv /\ PovInv

CompositesInv == DiagramInv /\ StrategyInv /\ BasketInv /\ CoverInv

PatternsInv == AlgoInv /\ CompositesInv /\ DisclosureInv /\ PaceInv /\ DmaInv

\* A step of the limiter, of the schedules or of participation leaves the other two.
LEMMA AlgosKeepInv == ASSUME AlgoInv, OnlyAlgo \/ UNCHANGED algoVars PROVE AlgoInv'
<1>1. \/ LimiterNext /\ UNCHANGED scheduleVars /\ UNCHANGED povVars
      \/ ScheduleNext /\ UNCHANGED limiterVars /\ UNCHANGED povVars
      \/ PovNext /\ UNCHANGED limiterVars /\ UNCHANGED scheduleVars
      \/ UNCHANGED limiterVars /\ UNCHANGED scheduleVars /\ UNCHANGED povVars
  BY DEF OnlyAlgo, LimiterNext, ScheduleNext, PovNext, algoVars
<1>2. LimitInv' BY <1>1, LimiterKeepsInv, LimitInvStutters DEF AlgoInv
<1>3. ScheduleInv' BY <1>1, SchedulesKeepInv DEF AlgoInv
<1>4. PovInv' BY <1>1, PovKeepsInv, OthersKeepPov DEF AlgoInv
<1> QED BY <1>2, <1>3, <1>4 DEF AlgoInv

\* A step of the desk for composite orders, or of another.
LEMMA CompositeDeskKeepsInv ==
  ASSUME CompositesInv, OnlyComposite \/ UNCHANGED compositeVars PROVE CompositesInv'
<1>1. \/ ViewPayoffDiagram \/ StrategyNext \/ BasketOrderNext \/ CoverNext
      \/ UNCHANGED compositeVars BY DEF OnlyComposite
<1> QED BY <1>1, CompositesKeepInv DEF CompositesInv

\* A step of the gate, of the pace or of another monitor: the clock they share moves on.
LEMMA GatesKeepInv ==
  ASSUME DisclosureInv, PaceInv, OnlyMonitors \/ UNCHANGED monitorVars PROVE DisclosureInv' /\ PaceInv'
<1>1. \/ DisclosureNext /\ UNCHANGED paceVars
      \/ PaceNext /\ UNCHANGED disclosureVars
      \/ UNCHANGED moment /\ UNCHANGED disclosureVars /\ UNCHANGED paceVars BY DEF OnlyMonitors, monitorVars
<1>2. moment \in Int BY DEF DisclosureInv
<1>3. CASE DisclosureNext /\ UNCHANGED paceVars BY <1>3, DisclosureKeepsInv, OthersKeepPace DEF DisclosureInv
<1>4. CASE PaceNext /\ UNCHANGED disclosureVars
  BY <1>4, PaceKeepsInv, OthersKeepDisclosure DEF PaceInv, PaceTypes
<1>5. CASE UNCHANGED moment /\ UNCHANGED disclosureVars /\ UNCHANGED paceVars
  BY <1>2, <1>5, OthersKeepDisclosure, OthersKeepPace
<1> QED BY <1>1, <1>3, <1>4, <1>5

\* Every step of the gateway's books.
LEMMA PatternsAreInductive == ASSUME PatternsInv, [Next]_vars PROVE PatternsInv'
<1>1. OnlyAlgo \/ UNCHANGED algoVars
  BY DEF Next, OnlyCollateral, OnlyComposite, OnlyPositions, OnlyMonitors, OnlySessions, vars
<1>2. OnlyComposite \/ UNCHANGED compositeVars
  BY DEF Next, OnlyCollateral, OnlyAlgo, OnlyPositions, OnlyMonitors, OnlySessions, vars
<1>3. OnlyMonitors \/ UNCHANGED monitorVars
  BY DEF Next, OnlyCollateral, OnlyAlgo, OnlyComposite, OnlyPositions, OnlySessions, vars
<1>4. DmaNext \/ UNCHANGED dmaVars
  BY DEF Next, OnlyCollateral, OnlyAlgo, OnlyComposite, OnlyPositions, OnlyMonitors, OnlySessions, vars
<1>5. AlgoInv' BY <1>1, AlgosKeepInv DEF PatternsInv
<1>6. CompositesInv' BY <1>2, CompositeDeskKeepsInv DEF PatternsInv
<1>7. DisclosureInv' /\ PaceInv' BY <1>3, GatesKeepInv DEF PatternsInv
<1>8. DmaInv' BY <1>4, SessionsKeepInv, OthersKeepSessions DEF PatternsInv
<1> QED BY <1>5, <1>6, <1>7, <1>8 DEF PatternsInv

\* Automated strategies stay in their rate and their day's notional, a schedule releases its
\* parent order slice by slice and on time, participation keeps its share, a payoff diagram
\* speaks for every price, a shape limits the risk it is taken for, a failed strategy is
\* undone, a basket stays in its cash, a stop covers what its entry was answered, a first
\* order follows its disclosure, nudges are timely and a session submits its lines: however
\* the calls interleave, whatever is refused and whenever a session is lost.
THEOREM OrderPatternsHold == Spec => []OrderPatternsAreSound
<1>1. Init => PatternsInv
  BY LimitsStart, SchedulesStart, PovStarts, CompositesStart, DisclosureStarts, PaceStarts, SessionsStart
  DEF Init, PatternsInv, AlgoInv, CompositesInv
<1>2. PatternsInv /\ [Next]_vars => PatternsInv' BY PatternsAreInductive
<1>3. PatternsInv => OrderPatternsAreSound
  <2> SUFFICES ASSUME PatternsInv PROVE OrderPatternsAreSound OBVIOUS
  <2>1. StrategiesStayInTheirLimits /\ SchedulesReleaseTheParent /\ ParticipationKeepsItsShare
    BY InvKeepsTheLimits, InvReleasesTheParent, InvKeepsItsShare DEF PatternsInv, AlgoInv
  <2>2. DiagramsSpeakForEveryPrice /\ ShapesLimitTheRisk /\ FailedStrategiesAreUndone
    BY InvSpeaksForEveryPrice, InvLimitsTheRisk, InvUndoesFailures DEF PatternsInv, CompositesInv
  <2>3. BasketsStayInTheirCash /\ StopsCoverTheAnsweredFill
    BY InvStaysInTheCash, InvCoversTheFill DEF PatternsInv, CompositesInv
  <2>4. FirstOrdersFollowTheDisclosure /\ NudgesAreTimely
    BY InvFollowsTheDisclosure, InvNudgesInTime DEF PatternsInv
  <2>5. SessionsSubmitTheirLines /\ RepeatsWereUnanswered BY InvSubmitsTheLines DEF PatternsInv
  <2> QED BY <2>1, <2>2, <2>3, <2>4, <2>5 DEF OrderPatternsAreSound
<1> QED BY <1>1, <1>2, <1>3, PTL DEF Spec
====================
