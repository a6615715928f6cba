-------- MODULE AccountServices --------
(***************************************************************************)
(* The services an account meets before and around trading: kyc-onboarding,*)
(* backoffice, auth and api-gateway.  Their registries have a mutex each   *)
(* and no state in common, so the interleaving of calls on two registries  *)
(* says no more than the calls on each: focus names the registry that the  *)
(* requests of a behaviour go to, and the others stay as they started.     *)
(***************************************************************************)
EXTENDS KycOnboarding, Backoffice, Auth, ApiGateway

CONSTANTS
    Home, Usual        \* where a client logs in from, and with which request, who is not
                       \* what is looked at

ASSUME HomeAssumption == Home \in Origins /\ Usual \in Logins

VARIABLE focus       \* the registry this behaviour's requests go to

vars == <<focus, kycVars, bankVars, riskVars, holdingVars, nomineeVars,
          freezeVars, familyVars, successionVars, ticketVars, referralVars,
          authVars, keyVars, tenantVars, webhookVars, sloVars>>

Init ==
    /\ focus \in {"kyc", "bank", "risk", "holding", "nominee", "freeze", "family",
                  "succession", "ticket", "referral", "limiter", "login", "session", "mfa",
                  "key", "tenant", "webhook", "slo"}
    /\ KycInit /\ BankInit /\ RiskInit /\ HoldingInit /\ NomineeInit
    /\ FreezeInit /\ FamilyInit /\ SuccessionInit /\ TicketInit /\ ReferralInit
    /\ AuthInit /\ KeyInit /\ TenantInit /\ WebhookInit /\ SloInit

OnlyKyc ==
    /\ UNCHANGED <<focus, freezeVars, familyVars, successionVars, ticketVars, referralVars,
                   authVars, keyVars, tenantVars, webhookVars, sloVars>>
    /\ \/ focus = "kyc" /\ KycNext /\ UNCHANGED <<bankVars, riskVars, holdingVars, nomineeVars>>
       \/ focus = "bank" /\ BankNext /\ UNCHANGED <<kycVars, riskVars, holdingVars, nomineeVars>>
       \/ focus = "risk" /\ RiskProfileSubmit /\ UNCHANGED <<kycVars, bankVars, holdingVars, nomineeVars>>
       \/ focus = "holding" /\ HoldingNext /\ UNCHANGED <<kycVars, bankVars, riskVars, nomineeVars>>
       \/ focus = "nominee" /\ NomineeNext /\ UNCHANGED <<kycVars, bankVars, riskVars, holdingVars>>

OnlyBackoffice ==
    /\ UNCHANGED <<focus, kycVars, bankVars, riskVars, holdingVars, nomineeVars,
                   authVars, keyVars, tenantVars, webhookVars, sloVars>>
    /\ \/ /\ focus = "freeze" /\ FreezeNext
          /\ UNCHANGED <<familyVars, successionVars, ticketVars, referralVars>>
       \/ /\ focus = "family" /\ FamilyNext
          /\ UNCHANGED <<freezeVars, successionVars, ticketVars, referralVars>>
       \/ /\ focus = "succession" /\ SuccessionNext
          /\ UNCHANGED <<freezeVars, familyVars, ticketVars, referralVars>>
       \/ /\ focus = "ticket" /\ TicketNext
          /\ UNCHANGED <<freezeVars, familyVars, successionVars, referralVars>>
       \/ /\ focus = "referral" /\ ReferralNext
          /\ UNCHANGED <<freezeVars, familyVars, successionVars, ticketVars>>

\* Refresh tokens and factors are exercised by accounts that log in, so the login
\* handler takes part in those behaviours too, for one client at a time, who comes from
\* Home, does not wait at the limiter and is not held back.
FromHome ==
    \A l \in Logins : login'[l] # Idle => l = Usual /\ login'[l].from = Home
AtOnce == \A key \in DOMAIN attempts :
             attempts'[key] # attempts[key] => attempts'[key][now] = attempts[key][now] + 1
NotHeldBack == \A key \in DOMAIN attempts : Count(attempts'[key], Ticks) <= Count(admitted'[key], Ticks)

OnlyAuth ==
    /\ UNCHANGED <<focus, kycVars, bankVars, riskVars, holdingVars, nomineeVars,
                   freezeVars, familyVars, successionVars, ticketVars, referralVars,
                   keyVars, tenantVars, webhookVars, sloVars>>
    /\ \/ focus = "limiter" /\ (LoginNext \/ AuthTick) /\ FromHome
       \/ focus = "login" /\ (LoginNext \/ AuthTick) /\ AtOnce
       \/ focus \in {"session", "mfa"} /\ (LoginNext \/ AuthTick) /\ FromHome /\ AtOnce /\ NotHeldBack
       \/ focus = "session" /\ SessionNext
       \/ focus = "mfa" /\ MfaNext

OnlyGateway ==
    /\ UNCHANGED <<focus, kycVars, bankVars, riskVars, holdingVars, nomineeVars,
                   freezeVars, familyVars, successionVars, ticketVars, referralVars, authVars>>
    /\ \/ focus = "key" /\ KeyNext /\ UNCHANGED <<tenantVars, webhookVars, sloVars>>
       \/ focus = "tenant" /\ RegisterTenant /\ UNCHANGED <<keyVars, webhookVars, sloVars>>
       \/ focus = "webhook" /\ WebhookNext /\ UNCHANGED <<keyVars, tenantVars, sloVars>>
       \/ focus = "slo" /\ PollMetrics /\ UNCHANGED <<keyVars, tenantVars, webhookVars>>

Next == OnlyKyc \/ OnlyBackoffice \/ OnlyAuth \/ OnlyGateway

Spec == Init /\ [][Next]_vars

\* kyc-onboarding: a bank account's verdict follows from the deposits its holder
\* named, consent counts only for the holders in force, and nominations add up.
OnboardingIsSound ==
    VerdictsFollowTheClaims /\ ConsentIsForTheStructureInForce /\ NominationsAddUp

\* backoffice: the succession trail tells every case, no ticket is closed over a
\* message, and a referral is credited once, but for checks that overlap and lost answers.
CasesAreSound == TrailTellsTheWholeCase /\ NoMessageIsClosedOver /\ CreditedOncePerReferral

\* auth: one live refresh token to a login, confirmed factors, limits that hold in
\* every window and the alerts that the attempts call for.
SessionsAreSound ==
    /\ OneLiveTokenPerLogin /\ EnabledSecretsWereConfirmed
    /\ LimitsHoldInEveryWindow /\ AlertsFollowFromTheAttempts

\* api-gateway: buckets bound every stretch of time, webhooks arrive in order and
\* each breach of a service level is reported once.
GatewayIsSound == BucketsBoundEveryStretch /\ DeliveriesAreInOrder /\ EachBreachIsReportedOnce

--------------------
(* A small instance for TLC. *)

CONSTANT e1          \* an e-mail address

\* Shares that fill the whole in one, two and three steps, one beyond 100, and a
\* minor with and without a guardian.
MCNomineeInputs ==
    {[share |-> 40, minor |-> FALSE, guardian |-> FALSE],
     [share |-> 60, minor |-> TRUE, guardian |-> TRUE],
     [share |-> 60, minor |-> TRUE, guardian |-> FALSE],
     [share |-> 100, minor |-> FALSE, guardian |-> FALSE],
     [share |-> 101, minor |-> FALSE, guardian |-> FALSE]}

MCSpellings == {[email |-> e1, form |-> "lower"], [email |-> e1, form |-> "upper"]}

MCHome == [device |-> "phone", network |-> "home", place |-> "Pune"]

MCOrigins ==
    {MCHome,
     [device |-> "laptop", network |-> Unknown, place |-> "Delhi"]}

\* One tick of travel does not lead from one city to the other, three do.
MCDistance == [pair \in {"Pune", "Delhi"} \X {"Pune", "Delhi"} |->
                  IF pair[1] = pair[2] THEN 0 ELSE 120]

MCTierLimits == [tier \in {"RETAIL", "SANDBOX"} |->
                    IF tier = "RETAIL" THEN [rate |-> 1, burst |-> 2] ELSE [rate |-> 1, burst |-> 1]]

MCThresholds == [kind \in {"ORDER_REJECT_RATE", "FEED_STALENESS_SECONDS"} |->
                    IF kind = "ORDER_REJECT_RATE" THEN [limit |-> 0, window |-> 2]
                    ELSE [limit |-> 0, window |-> 0]]
====================
