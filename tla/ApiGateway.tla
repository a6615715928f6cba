-------- MODULE ApiGateway --------
(***************************************************************************)
(* services/api-gateway: API keys and the token bucket every request       *)
(* passes, the tenants, the webhook subscriptions with the poller that     *)
(* turns oms-gateway's audit trail into deliveries, and the evaluator of   *)
(* service-level samples.  The pollers run in goroutines of their own; all *)
(* state is in memory, so a restart of either process starts from nothing. *)
(***************************************************************************)
EXTENDS Integers, Sequences, FiniteSets, SequencesExt

CONSTANTS
    Clients,             \* accounts that hold keys and subscriptions
    RemoteAddresses,
    Tenants,
    TierLimits,          \* tier -> [rate |-> tokens per tick, burst |-> capacity]
    EventTypes,          \* of the audit trail, beside those nobody subscribes to
    MaxClock, MaxKeys, MaxRequests, MaxSubscriptions, MaxTrailLength,
    MaxRestarts,         \* bound: restarts of the gateway and of oms-gateway
    MaxAttempts,         \* retryPolicy.MaxAttempts
    Thresholds,          \* kind -> [limit, window]
    SampleValues, MaxSamples

ASSUME GatewayAssumption ==
    /\ {MaxClock, MaxKeys, MaxRequests, MaxSubscriptions, MaxTrailLength, MaxSamples, MaxRestarts} \subseteq Nat
    /\ MaxAttempts \in Nat \ {0}
    /\ {"RETAIL", "SANDBOX"} \subseteq DOMAIN TierLimits
    /\ \A tier \in DOMAIN TierLimits : TierLimits[tier].rate \in Nat /\ TierLimits[tier].burst \in Nat
    /\ SampleValues \subseteq Int
    /\ \A kind \in DOMAIN Thresholds : Thresholds[kind].limit \in Int /\ Thresholds[kind].window \in Nat

VARIABLES
    clock,
    apiKeys,         \* apikeymanager.keysByValue, in order of issue
    buckets,         \* ratelimiter.bucketsByKey
    passed,          \* history: the requests let through: bucket, tier, time
    tenants,         \* tenantconfig.tenantsByIdentifier
    subscriptions,   \* webhookdelivery.subscriptions, in order of their numbers
    omsTrail,        \* external: oms-gateway's audit trail
    entriesSeen,     \* auditTrailEventSource.entriesSeenSoFar
    outbox,          \* what the poll under way has yet to deliver
    deliveryHistory,
    restarts,
    breach,          \* sloalerting.breachStateByKind
    samples,         \* history: the samples evaluated
    raised           \* whether each sample raised an alert

keyVars == <<clock, apiKeys, buckets, passed>>
tenantVars == <<tenants>>
webhookVars == <<subscriptions, omsTrail, entriesSeen, outbox, deliveryHistory, restarts>>
sloVars == <<breach, samples, raised>>

--------------------
(* apikeymanager, ratelimiter and the middleware in front of every route *)
KeyInit == clock = 0 /\ apiKeys = <<>> /\ buckets = <<>> /\ passed = <<>>

GatewayTick ==
    /\ clock < MaxClock
    /\ clock' = clock + 1
    /\ UNCHANGED <<apiKeys, buckets, passed>>

\* A sandbox key is on the sandbox tier whatever was asked for.
IssueApiKey ==
    \E account \in Clients, tier \in DOMAIN TierLimits \union {"none"}, sandbox \in BOOLEAN :
        /\ Len(apiKeys) < MaxKeys
        /\ apiKeys' = Append(apiKeys,
              [account |-> account, sandbox |-> sandbox, revoked |-> FALSE,
               tier |-> IF sandbox THEN "SANDBOX" ELSE IF tier = "none" THEN "RETAIL" ELSE tier])
        /\ UNCHANGED <<clock, buckets, passed>>

ListApiKeysForAccount(account) == {k \in DOMAIN apiKeys : apiKeys[k].account = account}

\* The holder of a key revokes it; to revoke it again changes nothing.
RevokeApiKey ==
    \E account \in Clients : \E k \in ListApiKeysForAccount(account) :
        /\ apiKeys' = [apiKeys EXCEPT ![k].revoked = TRUE]
        /\ UNCHANGED <<clock, buckets, passed>>

ValidateApiKey(k) == k \in DOMAIN apiKeys /\ ~apiKeys[k].revoked

AtMost(n, cap) == IF n > cap THEN cap ELSE n

\* A bucket starts full, and fills with the time since it was last looked at.
AllowRequest(key, tier) ==
    LET limit == TierLimits[tier]
        bucket == IF key \in DOMAIN buckets THEN buckets[key]
                  ELSE [tokens |-> limit.burst, at |-> clock]
        full == IF clock > bucket.at
                THEN AtMost(bucket.tokens + (clock - bucket.at) * limit.rate, limit.burst)
                ELSE bucket.tokens
        spent == IF full < 1 THEN full ELSE full - 1
    IN /\ buckets' = [b \in DOMAIN buckets \union {key} |->
             IF b = key THEN [tokens |-> spent, at |-> clock] ELSE buckets[b]]
       /\ passed' = IF full < 1 THEN passed
                    ELSE Append(passed, [bucket |-> key, tier |-> tier, at |-> clock])

\* A request without a key shares the bucket of its address.
PassesRateLimit ==
    /\ Len(passed) < MaxRequests
    /\ \/ \E address \in RemoteAddresses : AllowRequest(<<"address", address>>, "RETAIL")
       \/ \E k \in DOMAIN apiKeys : ValidateApiKey(k) /\ AllowRequest(<<"key", k>>, apiKeys[k].tier)
    /\ UNCHANGED <<clock, apiKeys>>

KeyNext == IssueApiKey \/ RevokeApiKey \/ PassesRateLimit \/ GatewayTick

\* Whatever a bucket was at, a stretch of time lets through its burst and what
\* flows in meanwhile, never more, and a sandbox key is held to the sandbox tier.
BucketsBoundEveryStretch ==
    /\ \A i, j \in DOMAIN passed :
          LET key == passed[i].bucket
              limit == TierLimits[passed[i].tier]
          IN i <= j /\ passed[j].bucket = key =>
                Cardinality({n \in i .. j : passed[n].bucket = key})
                    <= limit.burst + (passed[j].at - passed[i].at) * limit.rate
    /\ \A i \in DOMAIN passed : \A k \in DOMAIN apiKeys :
          passed[i].bucket = <<"key", k>> /\ apiKeys[k].sandbox => passed[i].tier = "SANDBOX"

--------------------
(* tenantconfig *)
TenantInit == tenants = {}

\* A tenant is registered once, with the default limits.
RegisterTenant ==
    \E tenant \in Tenants : tenant \notin tenants /\ tenants' = tenants \union {tenant}

--------------------
(* webhookdelivery *)
WebhookInit ==
    /\ subscriptions = <<>> /\ omsTrail = <<>> /\ entriesSeen = 0
    /\ outbox = <<>> /\ deliveryHistory = <<>>
    /\ restarts = [oms |-> 0, gateway |-> 0]

RegisterSubscription ==
    \E account \in Clients, type \in EventTypes \union {"ANY"} :
        /\ Len(subscriptions) < MaxSubscriptions
        /\ subscriptions' = Append(subscriptions, [account |-> account, type |-> type])
        /\ UNCHANGED <<omsTrail, entriesSeen, outbox, deliveryHistory, restarts>>

\* External: oms-gateway records an event of its own or one nobody subscribes to.
OmsRecordsAnEvent ==
    \E account \in Clients, type \in EventTypes \union {"other"} :
        /\ Len(omsTrail) < MaxTrailLength
        /\ omsTrail' = Append(omsTrail, [account |-> account, type |-> type])
        /\ UNCHANGED <<subscriptions, entriesSeen, outbox, deliveryHistory, restarts>>

subscriptionsMatching(event) ==
    {s \in DOMAIN subscriptions :
        /\ subscriptions[s].account = event.account
        /\ subscriptions[s].type \in {event.type, "ANY"}}

\* Mutant: the mark stays where it was.
PollOnceInPlace ==
    /\ outbox = <<>>
    /\ Len(omsTrail) > entriesSeen
    /\ outbox' = [i \in 1 .. Len(omsTrail) - entriesSeen |->
          [entry |-> <<restarts.oms, entriesSeen + i>>, event |-> omsTrail[entriesSeen + i],
           matched |-> FALSE, to |-> {}, attempt |-> 1]]
    /\ UNCHANGED <<subscriptions, omsTrail, entriesSeen, deliveryHistory, restarts>>

\* The poller reads the trail and moves its mark past all of it before it
\* delivers the first event.
PollOnce ==
    /\ outbox = <<>>
    /\ Len(omsTrail) > entriesSeen
    /\ outbox' = [i \in 1 .. Len(omsTrail) - entriesSeen |->
          [entry |-> <<restarts.oms, entriesSeen + i>>, event |-> omsTrail[entriesSeen + i],
           matched |-> FALSE, to |-> {}, attempt |-> 1]]
    /\ entriesSeen' = Len(omsTrail)
    /\ UNCHANGED <<subscriptions, omsTrail, deliveryHistory, restarts>>

\* DeliverEvent takes the subscriptions that match when the event's turn comes.
DeliverEventMatches ==
    /\ outbox # <<>> /\ ~Head(outbox).matched
    /\ LET to == IF Head(outbox).event.type \in EventTypes
                 THEN subscriptionsMatching(Head(outbox).event) ELSE {}
       IN outbox' = IF to = {} THEN Tail(outbox)
                    ELSE [outbox EXCEPT ![1].matched = TRUE, ![1].to = to]
    /\ UNCHANGED <<subscriptions, omsTrail, entriesSeen, deliveryHistory, restarts>>

\* A receiver that fails is tried again up to the limit, then passed over.
AttemptOneDelivery ==
    /\ outbox # <<>> /\ Head(outbox).matched
    /\ \E s \in Head(outbox).to, ok \in BOOLEAN :
          LET item == Head(outbox)
              left == item.to \ {s}
          IN /\ item.attempt > 1 => deliveryHistory[Len(deliveryHistory)].subscription = s
             /\ deliveryHistory' = Append(deliveryHistory,
                   [entry |-> item.entry, subscription |-> s, attempt |-> item.attempt, ok |-> ok])
             /\ outbox' = IF ~ok /\ item.attempt < MaxAttempts
                          THEN [outbox EXCEPT ![1].attempt = @ + 1]
                          ELSE IF left = {} THEN Tail(outbox)
                          ELSE [outbox EXCEPT ![1].to = left, ![1].attempt = 1]
    /\ UNCHANGED <<subscriptions, omsTrail, entriesSeen, restarts>>

\* oms-gateway keeps its trail in memory.
OmsRestarts ==
    /\ restarts.oms < MaxRestarts
    /\ omsTrail # <<>>
    /\ restarts' = [restarts EXCEPT !.oms = @ + 1]
    /\ omsTrail' = <<>>
    /\ UNCHANGED <<subscriptions, entriesSeen, outbox, deliveryHistory>>

\* So does the gateway keep its subscriptions, its mark and its history.
GatewayRestarts ==
    /\ restarts.gateway < MaxRestarts
    /\ subscriptions # <<>>
    /\ restarts' = [restarts EXCEPT !.gateway = @ + 1]
    /\ subscriptions' = <<>> /\ entriesSeen' = 0 /\ outbox' = <<>> /\ deliveryHistory' = <<>>
    /\ UNCHANGED omsTrail

WebhookNext ==
    \/ RegisterSubscription \/ OmsRecordsAnEvent \/ PollOnce \/ DeliverEventMatches
    \/ AttemptOneDelivery \/ OmsRestarts \/ GatewayRestarts

IsAfter(e, f) == e[1] > f[1] \/ (e[1] = f[1] /\ e[2] > f[2])

\* Since the gateway started, a subscriber hears of the events in the order they
\* were recorded, before and after oms-gateway restarts; a delivery is repeated
\* only after it failed, and never beyond the limit.
DeliveriesAreInOrder ==
    \A i, j \in DOMAIN deliveryHistory :
        LET first == deliveryHistory[i]
            second == deliveryHistory[j]
        IN i < j /\ first.subscription = second.subscription =>
              \/ IsAfter(second.entry, first.entry)
              \/ /\ first.entry = second.entry /\ ~first.ok
                 /\ first.attempt < second.attempt /\ second.attempt <= MaxAttempts

--------------------
(* sloalerting *)
Calm == [breaching |-> FALSE, since |-> 0, alerted |-> FALSE]

SloInit ==
    /\ breach = [kind \in DOMAIN Thresholds |-> Calm]
    /\ samples = <<>> /\ raised = <<>>

Restated(state, kind, value, at) ==
    IF value <= Thresholds[kind].limit THEN [state EXCEPT !.breaching = FALSE, !.alerted = FALSE]
    ELSE IF state.breaching THEN state
    ELSE [breaching |-> TRUE, since |-> at, alerted |-> FALSE]

EvaluateSample(kind, value, at) ==
    LET state == Restated(breach[kind], kind, value, at)
        alert == /\ state.breaching /\ ~state.alerted
                 /\ at - state.since >= Thresholds[kind].window
    IN /\ breach' = [breach EXCEPT ![kind] = [state EXCEPT !.alerted = @ \/ alert]]
       /\ samples' = Append(samples, [kind |-> kind, value |-> value, at |-> at])
       /\ raised' = Append(raised, alert)

\* A source that cannot be reached gives no sample, so a poll evaluates some of
\* the kinds; the time of a poll is at or after the one before.
PollMetrics ==
    \E kind \in DOMAIN Thresholds, value \in SampleValues, pause \in 0 .. 1 :
        /\ Len(samples) < MaxSamples
        /\ EvaluateSample(kind, value,
              (IF samples = <<>> THEN 0 ELSE samples[Len(samples)].at) + pause)

\* A breach is reported once: by the first sample that finds it as old as its
\* window, and not again until a sample within the limit has ended it.
EachBreachIsReportedOnce ==
    \A i \in DOMAIN samples :
        LET Same == {j \in 1 .. i : samples[j].kind = samples[i].kind}
            Over(j) == samples[j].value > Thresholds[samples[j].kind].limit
            Breach == {j \in Same : \A k \in Same : k >= j => Over(k)}
            OldEnough(k) == \E j \in Breach :
                samples[k].at - samples[j].at >= Thresholds[samples[i].kind].window
        IN raised[i] <=> /\ i \in Breach /\ OldEnough(i)
                         /\ \A k \in Breach : k < i => ~OldEnough(k)
====================
