-------- MODULE KycOnboarding --------
(***************************************************************************)
(* services/kyc-onboarding: five registries, each a map under one mutex,   *)
(* and the handlers in front of them.  A handler acts on the account it is *)
(* authenticated for; compliance acts on any.  A call that is refused      *)
(* leaves its registry as it was and is not an action.  The registries     *)
(* share no state, so each has its own Init and its own next-state action. *)
(***************************************************************************)
EXTENDS Integers, Sequences, FiniteSets, SequencesExt

CONSTANTS
    Accounts,
    Absent,              \* no record under that account
    Amounts,             \* the micro-deposits the random draw may give
    MaxVerifications,    \* bound: penny drops initiated
    PointValues,         \* points of an answer, among 1 .. 5
    MaxHolders,          \* bound: names in one joint registration
    MaxHolderIds,        \* bound: holder ids drawn
    NomineeInputs        \* what a client may enter for one nominee

ASSUME KycAssumption ==
    /\ Amounts \subseteq 1 .. 99 /\ PointValues \subseteq 1 .. 5
    /\ MaxVerifications \in Nat /\ MaxHolders \in Nat /\ MaxHolderIds \in Nat
    /\ NomineeInputs \subseteq [share : Int, minor : BOOLEAN, guardian : BOOLEAN]
    /\ Absent \notin Accounts

VARIABLES
    kycRecord,       \* kycstate.recordsByAccountId
    verifications,   \* bankverification.recordsById, in the order of their ids
    latest,          \* latestVerificationIdByAccount
    riskScore,       \* riskprofiling.profilesByAccount: the total score
    holding,         \* jointholding.structureByAccount
    holderIds,       \* how many holder ids were drawn
    operations,      \* history: the operations AuthorizeOperation allowed last
    designation      \* nomineedesignation.designationByAccount

kycVars == <<kycRecord>>
bankVars == <<verifications, latest>>
riskVars == <<riskScore>>
holdingVars == <<holding, holderIds, operations>>
nomineeVars == <<designation>>

--------------------
(* kycstate *)
KycInit == kycRecord = [a \in Accounts |-> "NOT_SUBMITTED"]

\* The decision is immediate, and a new submission replaces whatever stood.
SubmitKycDetails(a, nameGiven, panWellFormed) ==
    kycRecord' = [kycRecord EXCEPT ![a] =
        IF nameGiven /\ panWellFormed THEN "VERIFIED" ELSE "REJECTED"]

ListRecordsByStage(stage) == {a \in Accounts : kycRecord[a] = stage}

\* Only an account that submitted something has a record to override.
OverrideStage(a, stage) ==
    /\ kycRecord[a] # "NOT_SUBMITTED"
    /\ kycRecord' = [kycRecord EXCEPT ![a] = stage]

KycSubmit ==
    \E a \in Accounts, nameGiven, panWellFormed \in BOOLEAN :
        SubmitKycDetails(a, nameGiven, panWellFormed)

\* Compliance works on what the review queue shows for a stage.
KycReviewOverride ==
    \E stage, decision \in {"VERIFIED", "REJECTED"} :
        \E a \in ListRecordsByStage(stage) : OverrideStage(a, decision)

KycNext == KycSubmit \/ KycReviewOverride

--------------------
(* bankverification *)
MaxConfirmationAttempts == 3

BankInit == verifications = <<>> /\ latest = [a \in Accounts |-> 0]

InitiateVerification(a) ==
    /\ Len(verifications) < MaxVerifications
    /\ \E amount \in Amounts :
          verifications' = Append(verifications,
              [account |-> a, amount |-> amount, status |-> "PENDING",
               attempts |-> MaxConfirmationAttempts, claims |-> <<>>])
    /\ latest' = [latest EXCEPT ![a] = Len(verifications')]

\* A closed verification is answered from its status; claims is a history of
\* the amounts that were compared with the deposit.
ConfirmMicroDepositAmount(v, claimed) ==
    LET record == verifications[v]
        left == IF claimed = record.amount THEN record.attempts ELSE record.attempts - 1
        status == IF claimed = record.amount THEN "VERIFIED"
                  ELSE IF left <= 0 THEN "FAILED_LOCKED" ELSE "PENDING"
    IN /\ record.status = "PENDING"
       /\ verifications' = [verifications EXCEPT ![v] = [record EXCEPT
              !.status = status, !.attempts = left, !.claims = Append(@, claimed)]]
       /\ UNCHANGED latest

BankVerificationInitiate == \E a \in Accounts : InitiateVerification(a)

\* Any authenticated caller who holds an id may confirm it, an old one as well
\* as the account's latest.
BankVerificationConfirm ==
    \E v \in DOMAIN verifications, claimed \in Amounts :
        ConfirmMicroDepositAmount(v, claimed)

BankNext == BankVerificationInitiate \/ BankVerificationConfirm

\* The verdict on a bank account follows from the amounts its holder stated: it
\* is open while fewer than three were wrong and none was right, and nothing is
\* compared once it is closed, so three guesses at most are spent on a deposit
\* however often an account starts over.  The latest id of an account is its own.
VerdictsFollowTheClaims ==
    /\ \A v \in DOMAIN verifications :
          LET record == verifications[v]
              Right == {i \in DOMAIN record.claims : record.claims[i] = record.amount}
              Wrong == DOMAIN record.claims \ Right
          IN /\ Right \subseteq {Len(record.claims)}
             /\ Cardinality(Wrong) <= MaxConfirmationAttempts
             /\ record.status = (IF Right # {} THEN "VERIFIED"
                                 ELSE IF Cardinality(Wrong) = MaxConfirmationAttempts
                                 THEN "FAILED_LOCKED" ELSE "PENDING")
    /\ \A a \in Accounts : latest[a] # 0 =>
          /\ verifications[latest[a]].account = a
          /\ \A v \in DOMAIN verifications : v > latest[a] => verifications[v].account # a

--------------------
(* riskprofiling *)
Questions == 1 .. 6

RiskInit == riskScore = [a \in Accounts |-> Absent]

SubmitAnswers(a, answers) ==
    /\ DOMAIN answers = Questions
    /\ \A q \in Questions : answers[q] \in PointValues
    /\ riskScore' = [riskScore EXCEPT ![a] = FoldLeft(LAMBDA x, y : x + y, 0, answers)]

RiskProfileSubmit ==
    \E a \in Accounts, answers \in [Questions -> PointValues] : SubmitAnswers(a, answers)

--------------------
(* jointholding *)
Modes == {"JOINTLY", "EITHER_OR_SURVIVOR", "ANYONE_OR_SURVIVOR"}

HoldingInit ==
    /\ holding = [a \in Accounts |-> Absent]
    /\ holderIds = 0
    /\ operations = [a \in Accounts |-> {}]

\* Every registration draws new ids and replaces the structure that stood.
Register(a, type, mode, holders, primary) ==
    /\ holderIds + holders <= MaxHolderIds
    /\ holding' = [holding EXCEPT ![a] =
          [type |-> type, mode |-> mode, primary |-> holderIds + primary,
           holders |-> holderIds + 1 .. holderIds + holders]]
    /\ holderIds' = holderIds + holders
    /\ operations' = [operations EXCEPT ![a] = {}]

RegisterIndividualAccount(a) == Register(a, "INDIVIDUAL", "none", 1, 1)

RegisterJointAccount(a, mode, holders, primary) ==
    /\ holders >= 2
    /\ mode = "EITHER_OR_SURVIVOR" => holders = 2
    /\ mode = "ANYONE_OR_SURVIVOR" => holders >= 3
    /\ primary \in 1 .. holders
    /\ Register(a, "JOINT", mode, holders, primary)

\* The call only answers; the answers given under a structure are kept.
AuthorizeOperation(a, consents) ==
    /\ holding[a] # Absent /\ consents # {}
    /\ consents \subseteq holding[a].holders
    /\ \/ holding[a].type = "INDIVIDUAL"
       \/ holding[a].mode \in {"EITHER_OR_SURVIVOR", "ANYONE_OR_SURVIVOR"}
       \/ holding[a].holders \subseteq consents
    /\ operations' = [operations EXCEPT ![a] = @ \union {consents}]
    /\ UNCHANGED <<holding, holderIds>>

RegisterIndividual == \E a \in Accounts : RegisterIndividualAccount(a)

RegisterJoint ==
    \E a \in Accounts, mode \in Modes, holders \in 1 .. MaxHolders, primary \in 0 .. MaxHolders :
        RegisterJointAccount(a, mode, holders, primary)

Authorize == \E a \in Accounts, consents \in SUBSET (1 .. holderIds) : AuthorizeOperation(a, consents)

HoldingNext == RegisterIndividual \/ RegisterJoint \/ Authorize

\* Consent counts for the structure it was given under.  No holder belongs to
\* two structures, so the ids collected before an account was registered again
\* authorize nothing, and where all must act together nothing was authorized by
\* fewer than all.
ConsentIsForTheStructureInForce ==
    /\ \A a, b \in Accounts :
          a # b /\ holding[a] # Absent /\ holding[b] # Absent
              => holding[a].holders \intersect holding[b].holders = {}
    /\ \A a \in Accounts : \A consents \in operations[a] :
          /\ consents \subseteq holding[a].holders /\ holding[a].primary \in holding[a].holders
          /\ holding[a].mode = "JOINTLY" => consents = holding[a].holders

--------------------
(* nomineedesignation *)
Total(nominees) ==
    SumFunctionOnSet([i \in DOMAIN nominees |-> nominees[i].share], DOMAIN nominees)

IsValidInput(input) ==
    /\ input.share \in 1 .. 100
    /\ input.minor => input.guardian

NomineeInit == designation = [a \in Accounts |-> Absent]

Designate(a, optedOut, nominees) ==
    designation' = [designation EXCEPT ![a] = [optedOut |-> optedOut, nominees |-> nominees]]

\* The inputs are validated even when opting out throws them away.
SubmitNomination(a, inputs, optOut) ==
    /\ \A i \in DOMAIN inputs : IsValidInput(inputs[i])
    /\ optOut \/ (inputs # <<>> /\ Total(inputs) = 100)
    /\ Designate(a, optOut, IF optOut THEN <<>> ELSE inputs)

\* Adding a nominee takes back an earlier opt-out.
AddNominee(a, input) ==
    LET standing == IF designation[a] = Absent THEN <<>> ELSE designation[a].nominees
    IN /\ IsValidInput(input)
       /\ Total(standing) + input.share <= 100
       /\ Designate(a, FALSE, Append(standing, input))

\* Mutant: the other nominees' shares are not counted.
UpdateNomineeByItself(a, n, input) ==
    /\ IsValidInput(input)
    /\ designation[a] # Absent
    /\ n \in DOMAIN designation[a].nominees
    /\ Designate(a, designation[a].optedOut, [designation[a].nominees EXCEPT ![n] = input])

UpdateNominee(a, n, input) ==
    /\ IsValidInput(input)
    /\ designation[a] # Absent
    /\ n \in DOMAIN designation[a].nominees
    /\ LET updated == [designation[a].nominees EXCEPT ![n] = input]
       IN Total(updated) <= 100 /\ Designate(a, designation[a].optedOut, updated)

RemoveNominee(a, n) ==
    /\ designation[a] # Absent
    /\ n \in DOMAIN designation[a].nominees
    /\ Designate(a, designation[a].optedOut, RemoveAt(designation[a].nominees, n))

NomineeSubmit ==
    \E a \in Accounts, optOut \in BOOLEAN, size \in 0 .. 2 :
        \E inputs \in [1 .. size -> NomineeInputs] : SubmitNomination(a, inputs, optOut)

NomineeAdd == \E a \in Accounts, input \in NomineeInputs : AddNominee(a, input)

NomineeUpdate ==
    \E a \in Accounts, n \in 1 .. 2, input \in NomineeInputs : UpdateNominee(a, n, input)

NomineeRemove == \E a \in Accounts, n \in 1 .. 2 : RemoveNominee(a, n)

NomineeNext == NomineeSubmit \/ NomineeAdd \/ NomineeUpdate \/ NomineeRemove

\* However nominations are submitted, extended and edited, the shares never
\* exceed the whole, an account that opted out has no nominees (so it is not
\* complete for two reasons at once), and every minor has a guardian.
NominationsAddUp ==
    \A a \in Accounts : designation[a] # Absent =>
        /\ Total(designation[a].nominees) <= 100
        /\ designation[a].optedOut => designation[a].nominees = <<>>
        /\ \A i \in DOMAIN designation[a].nominees : IsValidInput(designation[a].nominees[i])
====================
