-------- MODULE Backoffice --------
(***************************************************************************)
(* services/backoffice: account freezes, family access links, nominee      *)
(* succession, support tickets and referral rewards.  Each is a registry   *)
(* under a mutex of its own; a refused call changes nothing and is not an  *)
(* action.  The referral check is the one handler that reads a registry,   *)
(* calls two other services and then writes the registry: its stages are   *)
(* steps of their own, and several run at a time.                          *)
(***************************************************************************)
EXTENDS Integers, Sequences, FiniteSets, SequencesExt

CONSTANTS
    Customers,
    Nobody,              \* no account, no agent, no nominee
    Agents,
    Nominees,
    MaxTickets,          \* bound: tickets opened
    MaxMessages,         \* bound: messages of a thread
    MaxTrail,            \* bound: entries of the succession trail
    Checks,              \* check-and-qualify requests that may overlap
    MaxCredits           \* bound: credits posted for one referred account

ASSUME BackofficeAssumption ==
    /\ Nobody \notin Customers \union Agents \union Nominees
    /\ IsFiniteSet(Checks)
    /\ MaxTickets \in Nat /\ MaxMessages \in Nat /\ MaxTrail \in Nat /\ MaxCredits \in Nat

VARIABLES
    frozen,          \* accountcontrol: the accounts that are frozen
    family,          \* familyaccountaccess: <<owner, viewer>> -> level or "none"
    shown,           \* history: the last viewer shown an owner's positions
    nominee,         \* nomineesuccession.nomineeByAccount
    succession,      \* successionRequestByAccount
    trail,           \* transitionRecords
    tickets,         \* supportticketing: tickets with their threads
    hasCode,         \* referralrewards: the accounts that hold a code
    referrer,        \* linkByReferredAccountId: who referred the account
    rewarded,        \* the referred accounts whose link is REWARDED
    check,           \* the check-and-qualify requests in flight
    credits,         \* external: the ledger's credits per referred account
    overlapped,      \* history: the accounts two checks were at once under way for
    unanswered       \* history: the accounts a credit was posted for whose answer was lost

freezeVars == <<frozen>>
familyVars == <<family, shown>>
successionVars == <<nominee, succession, trail>>
ticketVars == <<tickets>>
referralVars == <<hasCode, referrer, rewarded, check, credits, overlapped, unanswered>>

--------------------
(* accountcontrol *)
FreezeInit == frozen = {}

FreezeAccount(a) == frozen' = frozen \union {a}

UnfreezeAccount(a) == frozen' = frozen \ {a}

Freeze == \E a \in Customers : FreezeAccount(a)
Unfreeze == \E a \in Customers : UnfreezeAccount(a)

FreezeNext == Freeze \/ Unfreeze

--------------------
(* familyaccountaccess *)
FamilyInit ==
    /\ family = [pair \in Customers \X Customers |-> "none"]
    /\ shown = <<>>

RegisterFamilyLink(owner, viewer, level) ==
    /\ owner # viewer
    /\ family' = [family EXCEPT ![<<owner, viewer>>] = level]
    /\ UNCHANGED shown

RevokeFamilyLink(owner, viewer) ==
    /\ family' = [family EXCEPT ![<<owner, viewer>>] = "none"]
    /\ UNCHANGED shown

\* Either level shows the positions.
AuthorizeViewOnlyAccess(owner, viewer) == family[<<owner, viewer>>] # "none"

\* Only the owner of an account links or unlinks a viewer.
RegisterLink ==
    \E owner, viewer \in Customers, level \in {"VIEW_ONLY", "VIEW_AND_TRADE"} :
        RegisterFamilyLink(owner, viewer, level)

RevokeLink == \E owner, viewer \in Customers : RevokeFamilyLink(owner, viewer)

FamilyPositions ==
    \E owner, viewer \in Customers :
        /\ AuthorizeViewOnlyAccess(owner, viewer)
        /\ shown' = <<owner, viewer>>
        /\ UNCHANGED family

FamilyNext == RegisterLink \/ RevokeLink \/ FamilyPositions

--------------------
(* nomineesuccession *)
SuccessionInit ==
    /\ nominee = [a \in Customers |-> Nobody]
    /\ succession = [a \in Customers |-> [state |-> "none", nominee |-> Nobody]]
    /\ trail = <<>>

isTerminalState(state) == state \in {"TRANSFERRED", "REJECTED"}

\* named is what the reason text of the entry carries: the nominee it is about.
AppendTransition(a, event, from, to, named) ==
    /\ Len(trail) < MaxTrail
    /\ trail' = Append(trail, [account |-> a, event |-> event, from |-> from,
                               to |-> to, named |-> named])

RegisterNominee(a, n) ==
    /\ nominee' = [nominee EXCEPT ![a] = n]
    /\ AppendTransition(a, "NOMINEE_REGISTERED", "none", "none", n)
    /\ UNCHANGED succession

\* A request keeps the nominee of its day; a finished one may be followed by
\* another.
SubmitSuccessionRequest(a) ==
    /\ nominee[a] # Nobody
    /\ succession[a].state = "none" \/ isTerminalState(succession[a].state)
    /\ succession' = [succession EXCEPT ![a] = [state |-> "SUBMITTED", nominee |-> nominee[a]]]
    /\ AppendTransition(a, "SUCCESSION_SUBMITTED", "none", "SUBMITTED", Nobody)
    /\ UNCHANGED nominee

Transition(a, from, to) ==
    /\ succession[a].state = from
    /\ succession' = [succession EXCEPT ![a].state = to]
    /\ AppendTransition(a, to, from, to, Nobody)
    /\ UNCHANGED nominee

MoveToUnderReview(a) == Transition(a, "SUBMITTED", "UNDER_REVIEW")
Approve(a) == Transition(a, "UNDER_REVIEW", "APPROVED")
MarkTransferred(a) == Transition(a, "APPROVED", "TRANSFERRED")

Reject(a) == \E from \in {"SUBMITTED", "UNDER_REVIEW"} : Transition(a, from, "REJECTED")

RegisterNomineeRequest == \E a \in Customers, n \in Nominees : RegisterNominee(a, n)
SubmitSuccession == \E a \in Customers : SubmitSuccessionRequest(a)
SuccessionTransition ==
    \E a \in Customers :
        MoveToUnderReview(a) \/ Approve(a) \/ MarkTransferred(a) \/ Reject(a)

SuccessionNext == RegisterNomineeRequest \/ SubmitSuccession \/ SuccessionTransition

\* The places of the account's entries in the trail, which keep its order.
AuditTrailForAccount(a) == {i \in DOMAIN trail : trail[i].account = a}

\* An auditor who reads the trail alone finds every account where the registry
\* has it: each entry starts where the last one ended, a request opens only when
\* none is open, and the nominee who inherits is the one who was registered when
\* the certificate came in, whoever was registered afterwards.
TrailTellsTheWholeCase ==
    \A a \in Customers :
        LET entries == AuditTrailForAccount(a)
            Cases == {i \in entries : trail[i].event = "SUCCESSION_SUBMITTED"}
            Moves == {i \in entries : trail[i].event # "NOMINEE_REGISTERED"}
            Before(S, i) == {j \in S : j < i}
            LatestOf(S) == CHOOSE i \in S : \A j \in S : j <= i
        IN /\ succession[a].state = (IF Moves = {} THEN "none" ELSE trail[LatestOf(Moves)].to)
           /\ \A i \in Cases : Before(Moves, i) # {} =>
                 isTerminalState(trail[LatestOf(Before(Moves, i))].to)
           /\ \A i \in Moves \ Cases :
                 /\ Before(Moves, i) # {}
                 /\ trail[i].from = trail[LatestOf(Before(Moves, i))].to
           /\ Cases # {} => succession[a].nominee =
                 trail[LatestOf(Before(entries \ Moves, LatestOf(Cases)))].named

--------------------
(* supportticketing *)
TicketInit == tickets = <<>>

\* resolvedAt is a history: the length of the thread when it was last resolved.
CreateTicket(a) ==
    /\ Len(tickets) < MaxTickets
    /\ tickets' = Append(tickets,
          [account |-> a, status |-> "open", agent |-> Nobody,
           thread |-> <<"customer">>, resolvedAt |-> 0])

\* Mutant: a resolved ticket stays resolved.
AddCustomerMessageQuietly(t, a) ==
    /\ tickets[t].account = a
    /\ tickets[t].status # "closed"
    /\ Len(tickets[t].thread) < MaxMessages
    /\ tickets' = [tickets EXCEPT ![t].thread = Append(@, "customer")]

\* A customer who writes to a resolved ticket opens it again.
AddCustomerMessage(t, a) ==
    /\ tickets[t].account = a
    /\ tickets[t].status # "closed"
    /\ Len(tickets[t].thread) < MaxMessages
    /\ tickets' = [tickets EXCEPT
          ![t].status = IF @ = "resolved" THEN "in-progress" ELSE @,
          ![t].thread = Append(@, "customer")]

AddAgentReply(t, g) ==
    /\ tickets[t].status # "closed"
    /\ Len(tickets[t].thread) < MaxMessages
    /\ tickets' = [tickets EXCEPT
          ![t].status = IF @ = "open" THEN "in-progress" ELSE @,
          ![t].agent = IF @ = Nobody THEN g ELSE @,
          ![t].thread = Append(@, "agent")]

AssignAgent(t, g) ==
    /\ tickets[t].status # "closed"
    /\ tickets' = [tickets EXCEPT ![t].agent = g]

allowedStatusTransitions ==
    {<<"open", "in-progress">>, <<"open", "resolved">>, <<"in-progress", "resolved">>,
     <<"resolved", "in-progress">>, <<"resolved", "closed">>}

TransitionStatus(t, status) ==
    /\ <<tickets[t].status, status>> \in allowedStatusTransitions
    /\ tickets' = [tickets EXCEPT
          ![t].status = status,
          ![t].resolvedAt = IF status = "resolved" THEN Len(tickets[t].thread) ELSE @]

UnassignedOpenTickets ==
    {t \in DOMAIN tickets : tickets[t].agent = Nobody /\ tickets[t].status # "closed"}

CreateTicketRequest == \E a \in Customers : CreateTicket(a)
CustomerMessageRequest == \E t \in DOMAIN tickets, a \in Customers : AddCustomerMessage(t, a)
AgentReplyRequest == \E t \in DOMAIN tickets, g \in Agents : AddAgentReply(t, g)
AssignAgentRequest == \E t \in DOMAIN tickets, g \in Agents : AssignAgent(t, g)
TransitionStatusRequest ==
    \E t \in DOMAIN tickets, status \in {"in-progress", "resolved", "closed"} :
        TransitionStatus(t, status)

TicketNext ==
    \/ CreateTicketRequest \/ CustomerMessageRequest \/ AgentReplyRequest
    \/ AssignAgentRequest \/ TransitionStatusRequest

\* No ticket is closed over a customer's message that came after it was resolved,
\* and none that an agent answered is back in the queue of unassigned tickets.
NoMessageIsClosedOver ==
    /\ \A t \in DOMAIN tickets : tickets[t].status \in {"resolved", "closed"} =>
          \A i \in tickets[t].resolvedAt + 1 .. Len(tickets[t].thread) :
              tickets[t].thread[i] = "agent"
    /\ \A t \in UnassignedOpenTickets :
          \A i \in DOMAIN tickets[t].thread : tickets[t].thread[i] = "customer"

--------------------
(* referralrewards, and the check-and-qualify handler *)
ReferralInit ==
    /\ hasCode = {}
    /\ referrer = [a \in Customers |-> Nobody]
    /\ rewarded = {}
    /\ check = [c \in Checks |-> [stage |-> "idle", account |-> Nobody]]
    /\ credits = [a \in Customers |-> 0]
    /\ overlapped = {} /\ unanswered = {}

\* Asking again returns the code that stands.
GenerateReferralCode(a) ==
    /\ hasCode' = hasCode \union {a}
    /\ UNCHANGED <<referrer, rewarded, check, credits, overlapped, unanswered>>

RecordReferral(r, a) ==
    /\ r \in hasCode /\ r # a
    /\ referrer[a] = Nobody
    /\ referrer' = [referrer EXCEPT ![a] = r]
    /\ UNCHANGED <<hasCode, rewarded, check, credits, overlapped, unanswered>>

\* Marking a link that is rewarded already is refused.
MarkRewarded(a) == rewarded' = rewarded \union {a}

Ends(c) == check' = [check EXCEPT ![c] = [stage |-> "idle", account |-> Nobody]]

GenerateCodeRequest == \E a \in Customers : GenerateReferralCode(a)
RecordReferralRequest == \E r, a \in Customers : RecordReferral(r, a)

\* The link is read, and answered at once when it is rewarded.
CheckReadsTheLink(c) ==
    \E a \in Customers :
        /\ check[c].stage = "idle"
        /\ referrer[a] # Nobody /\ a \notin rewarded
        /\ check' = [check EXCEPT ![c] = [stage |-> "linked", account |-> a]]
        /\ overlapped' = IF \E d \in Checks : check[d].account = a
                         THEN overlapped \union {a} ELSE overlapped
        /\ UNCHANGED <<hasCode, referrer, rewarded, credits, unanswered>>

\* oms-gateway says whether the account holds positions, or does not answer.
CheckFetchesPositions(c) ==
    /\ check[c].stage = "linked"
    /\ \/ Ends(c)
       \/ check' = [check EXCEPT ![c].stage = "qualified"]
    /\ UNCHANGED <<hasCode, referrer, rewarded, credits, overlapped, unanswered>>

\* The ledger refuses, or posts, or posts and the answer is lost.
PostCashRewardCreditJournalEntry(c) ==
    LET a == check[c].account
    IN /\ check[c].stage = "qualified"
       /\ \/ Ends(c) /\ UNCHANGED <<credits, unanswered>>
          \/ /\ credits[a] < MaxCredits
             /\ credits' = [credits EXCEPT ![a] = @ + 1]
             /\ \/ check' = [check EXCEPT ![c].stage = "credited"] /\ UNCHANGED unanswered
                \/ Ends(c) /\ unanswered' = unanswered \union {a}
       /\ UNCHANGED <<hasCode, referrer, rewarded, overlapped>>

CheckMarksTheLink(c) ==
    LET a == check[c].account
    IN /\ check[c].stage = "credited"
       /\ MarkRewarded(a)
       /\ Ends(c)
       /\ UNCHANGED <<hasCode, referrer, credits, overlapped, unanswered>>

CheckAndQualifyReferral ==
    \E c \in Checks :
        \/ CheckReadsTheLink(c) \/ CheckFetchesPositions(c)
        \/ PostCashRewardCreditJournalEntry(c) \/ CheckMarksTheLink(c)

ReferralNext == GenerateCodeRequest \/ RecordReferralRequest \/ CheckAndQualifyReferral

\* "The reward is only ever credited once per referred account"
\* (referralRewardsRegistry.go:18-22), and "a link is never marked rewarded without
\* the cash having genuinely moved" (212-213): only the referral of somebody else is
\* paid, a marked link was paid, and it is paid once.  The mark comes after the
\* credit, so the code breaks the last of them in two cases, which are excepted by
\* name: two checks of the account under way at once (both pass the test of the
\* status), and a credit posted whose answer was lost (the link stays pending).
CreditedOncePerReferral ==
    \A a \in Customers :
        /\ credits[a] > 0 => referrer[a] \in hasCode \ {a}
        /\ a \in rewarded => credits[a] >= 1
        /\ a \notin overlapped \union unanswered => credits[a] <= 1

====================
