-------- MODULE AlgoOrders --------
(***************************************************************************)
(* The limits oms-gateway puts on an automated strategy and the schedules  *)
(* it slices a large order by.  The limiter is entered by every order that *)
(* names a strategy (a token of the bucket and its notional of the day are *)
(* reserved, and given back when a later step refuses the order); a        *)
(* schedule is polled by its owner, who names the time of the poll.        *)
(***************************************************************************)
EXTENDS Integers, Sequences, FiniteSets, Functions

CONSTANTS
    TokenUnits,        \* units of the bucket one order takes
    LimitConfigs,      \* rate (units per second; 0: no limit) and perDay (0: no limit)
    SecondsPerDay, LastSecond,
    Notionals, MaxReservations, MaxLimitChanges,
    ParentQuantities, TwapWindows, SliceCounts,
    VolumeCurves,      \* sequences of release time and weight
    PovConfigs,        \* rate as percent, largest clip
    PollTimes, Volumes, MaxAlgoCalls

\* Quantities and volumes are unsigned in the code; a limit of 0 or less is none, and a
\* schedule is built of no empty curve and of no negative weight.
ASSUME AlgoAssumption ==
    /\ TokenUnits \in Nat \ {0} /\ SecondsPerDay \in Nat \ {0}
    /\ LimitConfigs \subseteq [rate : Nat, perDay : Nat] /\ Notionals \subseteq Nat
    /\ ParentQuantities \subseteq Nat \ {0} /\ SliceCounts \subseteq Nat \ {0}
    /\ \A window \in TwapWindows : window.start \in Int /\ window.end \in Int
    /\ VolumeCurves \subseteq Seq([time : Int, weight : Nat]) /\ PollTimes \subseteq Int
    /\ PovConfigs \subseteq [rate : Nat \ {0}, clip : Nat \ {0}] /\ Volumes \subseteq Nat

VARIABLES
    second,            \* the clock the limiter is entered with
    limiter,           \* strategyState: tokens, refilled, day, used, and its config
    reservations,      \* what CheckAndReserve let through: its amount, the time it brought and
                       \* the second it was made; when given back, and after how many of them
    reopened,          \* history: days that a time of an earlier day was counted behind
    limitsSince,       \* history: second of the last configuration
    limitChanges,      \* bound
    schedule,          \* Scheduler: parent quantity, slices, released
    released,          \* history: the slices that the polls handed out
    pov,               \* PovScheduler
    volumes,           \* history: the observations it accepted
    algoCalls          \* bound

limiterVars == <<second, limiter, reservations, reopened, limitsSince, limitChanges>>
scheduleVars == <<schedule, released>>
povVars == <<pov, volumes>>
algoVars == <<limiterVars, scheduleVars, povVars, algoCalls>>

NoSchedule == [parent |-> 0, slices |-> <<>>, released |-> {}]
NoPov == [parent |-> 0, remaining |-> 0, rate |-> 0, clip |-> 0, last |-> -1, slices |-> <<>>]

AlgoInit ==
    /\ second = 0
    /\ \E config \in LimitConfigs :
          limiter = [config |-> config, exists |-> FALSE, tokens |-> 0, refilled |-> 0, day |-> 0, used |-> 0]
    /\ reservations = <<>>
    /\ reopened = {}
    /\ limitsSince = -1
    /\ limitChanges = 0
    /\ schedule = NoSchedule
    /\ released = {}
    /\ pov = NoPov
    /\ volumes = <<>>
    /\ algoCalls = 0

--------------------
(* algolimits *)
truncateToDay(t) == t \div SecondsPerDay

bucketCapacity(config) == IF config.rate < TokenUnits THEN TokenUnits ELSE config.rate

Capped(n, cap) == IF n > cap THEN cap ELSE n

LimiterTick ==
    /\ second < LastSecond
    /\ second' = second + 1
    /\ UNCHANGED <<limiter, reservations, reopened, limitsSince, limitChanges>>

SetStrategyLimits ==
    /\ limitChanges < MaxLimitChanges
    /\ limitChanges' = limitChanges + 1
    /\ \E config \in LimitConfigs \ {limiter.config} : limiter' = [limiter EXCEPT !.config = config]
    /\ limitsSince' = second
    /\ UNCHANGED <<second, reservations, reopened>>

stateForStrategy(now) ==
    IF limiter.exists THEN limiter
    ELSE [limiter EXCEPT !.exists = TRUE, !.tokens = bucketCapacity(limiter.config),
                         !.refilled = now, !.day = truncateToDay(now)]

Refilled(state, now) ==
    IF state.config.rate = 0 \/ now <= state.refilled THEN state
    ELSE [state EXCEPT !.refilled = now,
             !.tokens = Capped(@ + (now - state.refilled) * state.config.rate,
                                bucketCapacity(state.config))]

\* Any other day than the state's starts from nothing, an earlier one too.
Today(state, now) ==
    IF state.day = truncateToDay(now) THEN state
    ELSE [state EXCEPT !.day = truncateToDay(now), !.used = 0]

DaysReopened(state, now) ==
    IF truncateToDay(now) < state.day THEN truncateToDay(now) .. state.day ELSE {}

RateAllows(state) == state.config.rate = 0 \/ state.tokens >= TokenUnits

NotionalAllows(state, amount) == state.config.perDay = 0 \/ state.used + amount <= state.config.perDay

\* A handler reads the clock before it waits for the limiter's lock (main.go:1105), so the
\* time it brings is any second up to this one, and other handlers may have brought later
\* ones.  The token is spent before the notional is looked at, and stays spent when the
\* notional is refused.
CheckAndReserve ==
    /\ Len(reservations) < MaxReservations
    /\ \E now \in 0 .. second, amount \in Notionals :
          LET refilled == Refilled(stateForStrategy(now), now)
              spent == [refilled EXCEPT !.tokens = IF refilled.config.rate = 0 THEN @ ELSE @ - TokenUnits]
              today == Today(spent, now)
          IN \/ ~RateAllows(refilled) /\ limiter' = refilled /\ UNCHANGED <<reservations, reopened>>
             \/ /\ RateAllows(refilled)
                /\ reopened' = reopened \union DaysReopened(refilled, now)
                /\ \/ ~NotionalAllows(today, amount) /\ limiter' = today /\ UNCHANGED reservations
                   \/ /\ NotionalAllows(today, amount)
                      /\ limiter' = [today EXCEPT !.used = @ + amount]
                      /\ reservations' = Append(reservations,
                            [amount |-> amount, at |-> now, made |-> second, back |-> -1, after |-> 0])
    /\ UNCHANGED <<second, limitsSince, limitChanges>>

\* The notional goes back to the day the state is at, which is not the day of the
\* reservation when another order has opened a new one in between; this clock, too, was
\* read before the lock (main.go:1090).
Release ==
    /\ \E i \in DOMAIN reservations, now \in 0 .. second :
          /\ reservations[i].back = -1 /\ now >= reservations[i].made
          /\ reservations' = [reservations EXCEPT ![i].back = now, ![i].after = Len(reservations)]
          /\ limiter' = [limiter EXCEPT
                !.tokens = IF limiter.config.rate = 0 THEN @
                           ELSE Capped(@ + TokenUnits, bucketCapacity(limiter.config)),
                !.used = IF truncateToDay(now) # limiter.day THEN @
                         ELSE IF @ > reservations[i].amount THEN @ - reservations[i].amount ELSE 0]
    /\ UNCHANGED <<second, limitsSince, limitChanges, reopened>>

NotionalUsedToday ==
    IF limiter.exists /\ truncateToDay(second) = limiter.day THEN limiter.used ELSE 0

LimiterNext ==
    /\ LimiterTick \/ SetStrategyLimits \/ CheckAndReserve \/ Release
    /\ UNCHANGED <<scheduleVars, povVars, algoCalls>>

AmountsOf(S) == SumFunctionOnSet([i \in DOMAIN reservations |-> reservations[i].amount], S)

\* However reservations, refusals and days interleave, the orders a strategy keeps in a day
\* stay under its cap and what earlier days gave back in it (strategyLimiter.go:174), unless
\* the day was opened again: that no two calls "both squeak through" (strategyLimiter.go:115)
\* fails when a time read before midnight gets the lock after one read behind it, and this
\* alone.  From any order on, those let through stay under the bucket and its refill since
\* the time that order brought, but for tokens given back (strategyLimiter.go:160).
StrategiesStayInTheirLimits ==
    LET kept == {i \in DOMAIN reservations : reservations[i].back = -1}
        now == truncateToDay(second)
        today == {i \in kept : truncateToDay(reservations[i].at) = now}
        strays == {i \in DOMAIN reservations \ kept :
                      truncateToDay(reservations[i].back) = now /\ truncateToDay(reservations[i].at) < now}
        config == limiter.config
    IN /\ now \notin reopened => AmountsOf(today) <= NotionalUsedToday + AmountsOf(strays)
       /\ config.perDay > 0 /\ limitsSince < now * SecondsPerDay => NotionalUsedToday <= config.perDay
       /\ config.rate > 0 => \A i \in DOMAIN reservations : reservations[i].at > limitsSince =>
             LET back == {j \in DOMAIN reservations : reservations[j].after >= i}
             IN (Len(reservations) - i + 1) * TokenUnits
                   <= bucketCapacity(config) + config.rate * (second - reservations[i].at)
                         + Cardinality(back) * TokenUnits

--------------------
(* executionalgos *)
WeightSum(weights) == SumFunction(weights)

\* How many come before i when keys are put in order, equal ones as they are given.
Rank(keys, i) ==
    Cardinality({j \in DOMAIN keys : keys[j] < keys[i] \/ (keys[j] = keys[i] /\ j < i)})

\* Whole shares first, then one more to those whose remainder is the largest.
distributeByLargestRemainder(total, weights) ==
    LET sum == WeightSum(weights)
        base == [i \in DOMAIN weights |-> (weights[i] * total) \div sum]
        unserved == [i \in DOMAIN weights |-> -((weights[i] * total) % sum)]
        leftover == total - SumFunction(base)
    IN [i \in DOMAIN weights |-> base[i] + (IF Rank(unserved, i) < leftover THEN 1 ELSE 0)]

BuildTwapSchedule(total, window, n) ==
    LET quantities == distributeByLargestRemainder(total, [i \in 1 .. n |-> 1])
        interval == (window.end - window.start) \div (n - 1)
    IN [i \in 1 .. n |->
          [time |-> IF i = 1 THEN window.start ELSE IF i = n THEN window.end
                    ELSE window.start + (i - 1) * interval,
           quantity |-> quantities[i]]]

\* The buckets in the order of their times, with the quantities they had as given.
BuildVwapSchedule(total, curve) ==
    LET quantities == distributeByLargestRemainder(total, [i \in DOMAIN curve |-> curve[i].weight])
        times == [i \in DOMAIN curve |-> curve[i].time]
        sorted == [k \in DOMAIN curve |-> CHOOSE i \in DOMAIN curve : Rank(times, i) = k - 1]
    IN [k \in DOMAIN curve |-> [time |-> times[sorted[k]], quantity |-> quantities[sorted[k]]]]

Stored(total, slices) ==
    /\ schedule = NoSchedule
    /\ schedule' = [parent |-> total, slices |-> slices, released |-> {}]
    /\ UNCHANGED released

CreateTwap ==
    \E total \in ParentQuantities, window \in TwapWindows, n \in SliceCounts :
       /\ window.end > window.start
       /\ Stored(total, BuildTwapSchedule(total, window, n))

CreateVwap ==
    \E total \in ParentQuantities, curve \in VolumeCurves :
       /\ WeightSum([i \in DOMAIN curve |-> curve[i].weight]) > 0
       /\ Stored(total, BuildVwapSchedule(total, curve))

DueSlices(now) ==
    {i \in DOMAIN schedule.slices \ schedule.released : schedule.slices[i].time <= now}

PollDueSlices ==
    \E now \in PollTimes :
       /\ schedule # NoSchedule
       /\ schedule' = [schedule EXCEPT !.released = @ \union DueSlices(now)]
       /\ released' = released \union
             {[slice |-> i, quantity |-> schedule.slices[i].quantity, now |-> now, call |-> algoCalls] :
                 i \in DueSlices(now)}

RemainingQuantity ==
    SumFunctionOnSet([i \in DOMAIN schedule.slices |-> schedule.slices[i].quantity],
                     DOMAIN schedule.slices \ schedule.released)

IsComplete == Cardinality(schedule.released) = Len(schedule.slices)

ScheduleNext ==
    /\ algoCalls < MaxAlgoCalls
    /\ algoCalls' = algoCalls + 1
    /\ CreateTwap \/ CreateVwap \/ PollDueSlices
    /\ UNCHANGED <<limiterVars, povVars>>

CreatePov ==
    /\ pov = NoPov
    /\ \E total \in ParentQuantities, config \in PovConfigs :
          pov' = [NoPov EXCEPT !.parent = total, !.remaining = total,
                               !.rate = config.rate, !.clip = config.clip]
    /\ UNCHANGED volumes

\* The first observation only sets where the count starts; a lower one is refused.
OnVolumeObservation ==
    /\ pov # NoPov
    /\ \E volume \in Volumes :
          /\ volume >= pov.last
          /\ volumes' = Append(volumes, volume)
          /\ LET raw == IF pov.last = -1 THEN 0 ELSE ((volume - pov.last) * pov.rate) \div 100
                 slice == Capped(Capped(raw, pov.clip), pov.remaining)
             IN pov' = [pov EXCEPT !.last = volume, !.remaining = @ - slice,
                           !.slices = IF slice = 0 THEN @ ELSE Append(@, slice)]

PovNext ==
    /\ algoCalls < MaxAlgoCalls
    /\ algoCalls' = algoCalls + 1
    /\ CreatePov \/ OnVolumeObservation
    /\ UNCHANGED <<limiterVars, scheduleVars>>

\* Whatever times the polls name, and in whatever order, every slice goes out once
\* and not early; what went out and what remains is the parent order, whose last
\* slice leaves it complete (executionAlgoScheduler.go:172, 299).
SchedulesReleaseTheParent ==
    /\ RemainingQuantity + SumFunctionOnSet([r \in released |-> r.quantity], released) = schedule.parent
    /\ IsComplete => RemainingQuantity = 0
    /\ \A r \in released :
          /\ schedule.slices[r.slice].time <= r.now
          /\ \A q \in released : q.slice = r.slice => q = r
    /\ \A i, j \in DOMAIN schedule.slices : i < j => schedule.slices[i].time <= schedule.slices[j].time

\* Participation never exceeds its share of the volume seen since the first
\* observation, nor the parent order, nor a clip (executionAlgoScheduler.go:422).
ParticipationKeepsItsShare ==
    LET traded == SumFunction(pov.slices)
    IN /\ traded + pov.remaining = pov.parent
       /\ \A i \in DOMAIN pov.slices : pov.slices[i] <= pov.clip
       /\ Len(volumes) > 0 => 100 * traded <= pov.rate * (volumes[Len(volumes)] - volumes[1])
====================
