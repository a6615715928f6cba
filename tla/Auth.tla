-------- MODULE Auth --------
(***************************************************************************)
(* services/auth: the account store, the sliding-window rate limiter, the  *)
(* rotating refresh tokens, enrolment of a second factor and the detector  *)
(* of unusual logins, with the handlers that call them in turn.  Each      *)
(* store locks for one call only, so a login, a rotation and a             *)
(* confirmation of an enrolment are several steps that others come between.*)
(* Time is a counter of ticks, read before a lock is taken: whoever waits  *)
(* at the lock brings an earlier time.  An account is named by its         *)
(* normalised email.                                                       *)
(***************************************************************************)
EXTENDS Integers, Sequences, FiniteSets, SequencesExt

CONSTANTS
    Emails, Addresses,
    Spellings,           \* ways of writing an email: its case and spaces
    Unknown,             \* a device, network or place the client did not state
    Origins,             \* where an attempt comes from: device, network, place
    Distance,            \* kilometres between two places
    KilometersPerTick,   \* what the fastest plausible traveller covers
    Logins,              \* login requests that may overlap
    MaxTime,             \* bound: ticks of the clock
    MaxTokens,           \* bound: refresh tokens issued
    MaxSecrets,          \* bound: enrolments begun
    MaxAttemptLog,       \* bound: login attempts recorded
    MaxTries,            \* bound: attempts of one key in a window
    LoginLimit, RegisterLimit, RateWindow,
    TokenLifetime, AccessLifetime,
    FailureThreshold, LookbackWindow

ASSUME AuthAssumption ==
    /\ {MaxTime, MaxTokens, MaxSecrets, MaxAttemptLog, MaxTries} \subseteq Nat
    /\ {LoginLimit, RegisterLimit, RateWindow, FailureThreshold, LookbackWindow} \subseteq Nat \ {0}
    /\ {TokenLifetime, AccessLifetime, KilometersPerTick} \subseteq Nat \ {0}
    /\ \A s \in Spellings : s.email \in Emails
    /\ Emails \intersect Addresses = {}     \* each handler has a limiter of its own

VARIABLES
    now,
    registered,          \* accountstore.accountsByEmail
    attempts,            \* ratelimiter: key -> its attempts in the window, by time
    admitted,            \* history: key -> how often it was let through in order, by time
    accessExpiry,        \* latest expiry of an access token handed to the account
    tokens,              \* sessionstore.recordsByToken, in order of issue
    rotating,            \* families whose rotation has consumed and not yet issued
    dead,                \* history: families revoked with no rotation in flight
    secret,              \* mfastate.recordsByAccountId
    secrets,             \* secrets drawn so far
    confirmed,           \* history: secrets a code was given for
    confirming,          \* confirmations that verified a code and have yet to enable
    login,               \* login requests in flight
    seen,                \* anomaly detector: accountHistory per email
    log,                 \* history: the attempts the detector was told of
    alerts               \* alerts raised, one set per entry of log

limiterVars == <<attempts, admitted>>
sessionVars == <<accessExpiry, tokens, rotating, dead>>
mfaVars == <<secret, secrets, confirmed, confirming>>
detectorVars == <<seen, log, alerts>>
authVars == <<now, registered, limiterVars, sessionVars, mfaVars, login, detectorVars>>

\* When things happened: how many at each time.  Nothing reads the order of a list of times.
Ticks == 0 .. MaxTime
Never == [t \in Ticks |-> 0]
Add(times, t) == [times EXCEPT ![t] = @ + 1]
Count(times, S) == SumFunctionOnSet(times, S \intersect Ticks)

NoSecret == [id |-> 0, enabled |-> FALSE]
Idle == [stage |-> "idle"]

AuthInit ==
    /\ now = 0
    /\ registered = {}
    /\ attempts = [key \in Emails \union Addresses |-> Never]
    /\ admitted = [key \in Emails \union Addresses |-> Never]
    /\ accessExpiry = [e \in Emails |-> 0]
    /\ tokens = <<>> /\ rotating = {} /\ dead = {}
    /\ secret = [e \in Emails |-> NoSecret]
    /\ secrets = 0 /\ confirmed = {} /\ confirming = {}
    /\ login = [l \in Logins |-> Idle]
    /\ seen = [e \in Emails |-> [devices |-> {}, networks |-> {}, any |-> FALSE,
                                 place |-> Unknown, at |-> 0, failures |-> <<>>]]
    /\ log = <<>> /\ alerts = <<>>

\* Three packages key their maps by the address in lower case without spaces.
normalizeEmail(written) == written.email

AuthTick ==
    /\ now < MaxTime
    /\ now' = now + 1
    /\ UNCHANGED <<registered, limiterVars, sessionVars, mfaVars, login, detectorVars>>

--------------------
(* ratelimiter *)
InWindow(times, at) == [t \in Ticks |-> IF t > at - RateWindow THEN times[t] ELSE 0]

IsAllowed(key, limit, at) == Count(InWindow(attempts[key], at), Ticks) < limit

\* A later attempt came first, and has dropped what was out of its own window.
Overtaken(key, at) == \E t \in Ticks : t > at /\ attempts[key][t] > 0

\* An attempt is kept, and counts, whether it was allowed or not.
Allow(key, limit, at) ==
    /\ Count(InWindow(attempts[key], at), Ticks) < MaxTries
    /\ attempts' = [attempts EXCEPT ![key] = Add(InWindow(@, at), at)]
    /\ admitted' = IF IsAllowed(key, limit, at) /\ ~Overtaken(key, at)
                   THEN [admitted EXCEPT ![key] = Add(@, at)] ELSE admitted

--------------------
(* sessionstore *)
Issue(family, e, at) ==
    tokens' = Append(tokens, [family |-> family, email |-> e, state |-> "active",
                              expires |-> at + TokenLifetime])

IssueNewSessionFamily(e, at) ==
    /\ Len(tokens) < MaxTokens
    /\ Issue(Len(tokens) + 1, e, at)

IssueAccessToken(e, at) == accessExpiry' = [accessExpiry EXCEPT ![e] = Max({@, at + AccessLifetime})]

\* Every token of the family that is in the map at this moment.
RevokeFamily(family) ==
    /\ tokens' = [i \in DOMAIN tokens |->
          IF tokens[i].family = family THEN [tokens[i] EXCEPT !.state = "revoked"] ELSE tokens[i]]
    /\ dead' = IF family \in {r.family : r \in rotating} THEN dead ELSE dead \union {family}

\* RotateRefreshToken releases the lock between spending the token that was
\* presented and putting its successor into the map.
RefreshSpendsTheToken ==
    \E i \in DOMAIN tokens :
        /\ Len(tokens) + Cardinality(rotating) < MaxTokens
        /\ tokens[i].state = "active" /\ now <= tokens[i].expires
        /\ tokens' = [tokens EXCEPT ![i].state = "consumed"]
        /\ rotating' = rotating \union
              {[family |-> tokens[i].family, email |-> tokens[i].email, at |-> now]}
        /\ UNCHANGED <<now, registered, limiterVars, accessExpiry, dead, mfaVars, login, detectorVars>>

RefreshIssuesTheSuccessor ==
    \E r \in rotating :
        /\ Issue(r.family, r.email, r.at)
        /\ IssueAccessToken(r.email, r.at)
        /\ rotating' = rotating \ {r}
        /\ UNCHANGED <<now, registered, limiterVars, dead, mfaVars, login, detectorVars>>

\* A token that was spent already takes its whole family with it.
RefreshDetectsReuse ==
    \E i \in DOMAIN tokens :
        /\ tokens[i].state = "consumed"
        /\ RevokeFamily(tokens[i].family)
        /\ UNCHANGED <<now, registered, limiterVars, accessExpiry, rotating, mfaVars, login, detectorVars>>

RevokeRefreshToken ==
    \E i \in DOMAIN tokens :
        /\ RevokeFamily(tokens[i].family)
        /\ UNCHANGED <<now, registered, limiterVars, accessExpiry, rotating, mfaVars, login, detectorVars>>

\* A login has one live refresh token at most: the one issued last, or none while its
\* successor is on the way.  A family that was revoked with no rotation under way stays
\* dead.  Under a rotation it does not: the successor comes after "the ENTIRE family is
\* revoked" (sessionStore.go:14-15), although the lock is held "so no other goroutine can
\* race a legitimate-looking rotation through" (sessionStore.go:108-110).
OneLiveTokenPerLogin ==
    \A i \in DOMAIN tokens :
        LET family == tokens[i].family
            Live == {j \in DOMAIN tokens : tokens[j].family = family /\ tokens[j].state = "active"}
            Coming == {r \in rotating : r.family = family}
        IN /\ Cardinality(Live) + Cardinality(Coming) <= 1
           /\ family \in dead => Live \union Coming = {}
           /\ \A j \in Live : \A k \in DOMAIN tokens : tokens[k].family = family => k <= j

--------------------
(* totp and mfastate *)
HasAccess(e) == now < accessExpiry[e]

\* A code belongs to a secret and a time step; one step of skew is allowed.
VerifyCode(id, code, at) == code.id = id /\ code.step \in at - 1 .. at + 1

Codes == [id : 1 .. secrets, step : 0 .. MaxTime]

\* Enrolling again replaces the record, an enabled one as well.
BeginEnrollment ==
    \E e \in Emails :
        /\ HasAccess(e)
        /\ secrets < MaxSecrets
        /\ secrets' = secrets + 1
        /\ secret' = [secret EXCEPT ![e] = [id |-> secrets', enabled |-> FALSE]]
        /\ UNCHANGED <<now, registered, limiterVars, sessionVars, confirmed, confirming, login, detectorVars>>

\* ConfirmEnrollment holds on to the record it found while it checks the code.
ConfirmVerifiesTheCode ==
    \E e \in Emails, code \in Codes :
        /\ HasAccess(e)
        /\ secret[e].id # 0 /\ VerifyCode(secret[e].id, code, now)
        /\ confirmed' = confirmed \union {secret[e].id}
        /\ confirming' = confirming \union {[email |-> e, id |-> secret[e].id]}
        /\ UNCHANGED <<now, registered, limiterVars, sessionVars, secret, secrets, login, detectorVars>>

\* Mutant: whichever secret stands by then is enabled.
ConfirmEnablesWhatStands ==
    \E c \in confirming :
        /\ secret' = [secret EXCEPT ![c.email].enabled = (@ \/ secret[c.email] # NoSecret)]
        /\ confirming' = confirming \ {c}
        /\ UNCHANGED <<now, registered, limiterVars, sessionVars, secrets, confirmed, login, detectorVars>>

\* A record that was replaced meanwhile is enabled where nobody finds it.
ConfirmEnables ==
    \E c \in confirming :
        /\ secret' = IF secret[c.email].id = c.id
                     THEN [secret EXCEPT ![c.email].enabled = TRUE] ELSE secret
        /\ confirming' = confirming \ {c}
        /\ UNCHANGED <<now, registered, limiterVars, sessionVars, secrets, confirmed, login, detectorVars>>

DisableMfa ==
    \E e \in Emails :
        /\ HasAccess(e)
        /\ secret' = [secret EXCEPT ![e] = NoSecret]
        /\ UNCHANGED <<now, registered, limiterVars, sessionVars, secrets, confirmed, confirming, login, detectorVars>>

\* A factor that guards an account is one its holder has shown a code of.
EnabledSecretsWereConfirmed ==
    \A e \in Emails : secret[e].enabled => secret[e].id \in confirmed

--------------------
(* anomalouslogindetection *)
countFailuresWithinWindow(times, at) ==
    Cardinality({i \in DOMAIN times : times[i] >= at - LookbackWindow})

\* Under a minute, which is under a tick, no distance over a kilometre is plausible.
evaluateImpossibleTravel(p, q, elapsed) ==
    Distance[p, q] > 1 /\ Distance[p, q] > KilometersPerTick * elapsed

Elapsed(s, t) == IF t >= s THEN t - s ELSE s - t

AlertsRaised(h, o, ok, at) ==
    {alert \in {"NEW_DEVICE_OR_NETWORK", "IMPOSSIBLE_TRAVEL", "RAPID_FAILURES_THEN_SUCCESS"} :
        \/ /\ alert = "NEW_DEVICE_OR_NETWORK" /\ h.any
           /\ o.device \notin h.devices \union {Unknown} \/ o.network \notin h.networks \union {Unknown}
        \/ /\ alert = "IMPOSSIBLE_TRAVEL" /\ ok /\ Unknown \notin {o.place, h.place}
           /\ evaluateImpossibleTravel(h.place, o.place, Elapsed(h.at, at))
        \/ /\ alert = "RAPID_FAILURES_THEN_SUCCESS" /\ ok
           /\ countFailuresWithinWindow(h.failures, at) >= FailureThreshold}

RecordLoginAttempt(e, o, ok, at) ==
    LET h == seen[e]
        located == ok /\ o.place # Unknown
    IN /\ Len(log) < MaxAttemptLog
       /\ alerts' = Append(alerts, AlertsRaised(h, o, ok, at))
       /\ log' = Append(log, [email |-> e, from |-> o, ok |-> ok, at |-> at])
       /\ seen' = [seen EXCEPT ![e] =
             [devices |-> h.devices \union ({o.device} \ {Unknown}),
              networks |-> h.networks \union ({o.network} \ {Unknown}),
              any |-> TRUE,
              place |-> IF located THEN o.place ELSE h.place,
              at |-> IF located THEN at ELSE h.at,
              failures |-> IF ok THEN <<>> ELSE Append(h.failures, at)]]

--------------------
(* the register and login handlers *)
RegisterAccount ==
    \E address \in Addresses, written \in Spellings, at \in 0 .. now :
        LET e == normalizeEmail(written)
        IN /\ Allow(address, RegisterLimit, at)
           /\ registered' = IF IsAllowed(address, RegisterLimit, at) THEN registered \union {e} ELSE registered
           /\ UNCHANGED <<now, sessionVars, mfaVars, login, detectorVars>>

Moves(l, stage) == login' = [login EXCEPT ![l].stage = stage]

LoginArrives ==
    \E l \in Logins, written \in Spellings, o \in Origins, at \in 0 .. now :
        LET e == normalizeEmail(written)
        IN /\ login[l] = Idle
           /\ Allow(e, LoginLimit, at)
           /\ login' = IF IsAllowed(e, LoginLimit, at)
                       THEN [login EXCEPT ![l] = [stage |-> "admitted", email |-> e, from |-> o, at |-> now]]
                       ELSE login
           /\ UNCHANGED <<now, registered, sessionVars, mfaVars, detectorVars>>

\* The password is right or wrong; an account that is not registered has none.
AuthenticateWithPassword ==
    \E l \in Logins :
        /\ login[l].stage = "admitted"
        /\ \/ login[l].email \in registered /\ Moves(l, "known")
           \/ Moves(l, "refused")
        /\ UNCHANGED <<now, registered, limiterVars, sessionVars, mfaVars, detectorVars>>

\* Without a code the client is asked for one and no attempt is recorded.
LoginChecksTheSecondFactor ==
    \E l \in Logins :
        LET factor == secret[login[l].email]
        IN /\ login[l].stage = "known"
           /\ \/ ~factor.enabled /\ Moves(l, "passed")
              \/ factor.enabled /\ login' = [login EXCEPT ![l] = Idle]
              \/ /\ factor.enabled
                 /\ \E code \in Codes :
                       Moves(l, IF VerifyCode(factor.id, code, login[l].at) THEN "passed" ELSE "refused")
           /\ UNCHANGED <<now, registered, limiterVars, sessionVars, mfaVars, detectorVars>>

LoginIsRefused ==
    \E l \in Logins :
        /\ login[l].stage = "refused"
        /\ RecordLoginAttempt(login[l].email, login[l].from, FALSE, login[l].at)
        /\ login' = [login EXCEPT ![l] = Idle]
        /\ UNCHANGED <<now, registered, limiterVars, sessionVars, mfaVars>>

LoginSucceeds ==
    \E l \in Logins :
        /\ login[l].stage = "passed"
        /\ IssueAccessToken(login[l].email, login[l].at)
        /\ IssueNewSessionFamily(login[l].email, login[l].at)
        /\ RecordLoginAttempt(login[l].email, login[l].from, TRUE, login[l].at)
        /\ login' = [login EXCEPT ![l] = Idle]
        /\ UNCHANGED <<now, registered, limiterVars, rotating, dead, mfaVars>>

LoginNext ==
    \/ RegisterAccount \/ LoginArrives \/ AuthenticateWithPassword
    \/ LoginChecksTheSecondFactor \/ LoginIsRefused \/ LoginSucceeds

SessionNext ==
    \/ RefreshSpendsTheToken \/ RefreshIssuesTheSuccessor \/ RefreshDetectsReuse
    \/ RevokeRefreshToken

MfaNext == BeginEnrollment \/ ConfirmVerifiesTheCode \/ ConfirmEnables \/ DisableMfa

\* No window of time lets more attempts through than its limit, wherever it starts,
\* although attempts that were held back count as well: "at most maxAttemptsPerWindow
\* calls" (rateLimiter.go:22), but for those that waited at the lock while a later attempt
\* went first.  What that one dropped they are not held against, and they go beyond the limit.
LimitsHoldInEveryWindow ==
    \A key \in Emails \union Addresses : \A t \in 0 .. MaxTime :
        Count(admitted[key], t .. t + RateWindow - 1)
            <= (IF key \in Emails THEN LoginLimit ELSE RegisterLimit)

\* What the detector remembers of an account is enough: for every attempt it
\* raises exactly the alerts that follow from the attempts recorded before it.
AlertsFollowFromTheAttempts ==
    \A i \in DOMAIN log :
        LET a == log[i]
            Before == {j \in 1 .. i - 1 : log[j].email = a.email}
            Located == {j \in Before : log[j].ok /\ log[j].from.place # Unknown}
            SinceSuccess == {j \in Before : \A k \in Before : log[k].ok => k < j}
            Recent == {j \in SinceSuccess : log[j].at >= a.at - LookbackWindow}
            IsNew(field) == a.from[field] # Unknown /\ \A j \in Before : log[j].from[field] # a.from[field]
        IN alerts[i] =
             (IF Before # {} /\ (IsNew("device") \/ IsNew("network"))
              THEN {"NEW_DEVICE_OR_NETWORK"} ELSE {})
             \union
             (IF a.ok /\ a.from.place # Unknown
                 /\ \E j \in Located :
                       /\ \A k \in Located : k <= j
                       /\ evaluateImpossibleTravel(log[j].from.place, a.from.place, Elapsed(log[j].at, a.at))
              THEN {"IMPOSSIBLE_TRAVEL"} ELSE {})
             \union
             (IF a.ok /\ Cardinality(Recent) >= FailureThreshold
              THEN {"RAPID_FAILURES_THEN_SUCCESS"} ELSE {})
====================
