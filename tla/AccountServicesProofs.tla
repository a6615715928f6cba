-------- MODULE AccountServicesProofs --------
(***************************************************************************)
(* Theorems about AccountServices: what OnboardingIsSound, CasesAreSound,  *)
(* SessionsAreSound and GatewayIsSound say holds of every registry, for    *)
(* any number of accounts, tokens, requests and samples.                   *)
(*                                                                         *)
(* Each registry has an invariant that says what its state stands for: the *)
(* verdict and the claims, the trail and the cases, the detector's memory  *)
(* and the attempts, a bucket and the requests that went through it, the   *)
(* outbox and the deliveries made.  A call on a registry keeps its         *)
(* invariant, and no call reaches another's.                               *)
(***************************************************************************)
EXTENDS AccountServices, SumTheorems, SequenceTheorems

--------------------
(* kyc-onboarding: the penny drops. *)

Claims(v) == verifications[v].claims
Deposit(v) == verifications[v].amount

VerificationTypes ==
  [account : Accounts, amount : Amounts, status : {"PENDING", "VERIFIED", "FAILED_LOCKED"},
   attempts : 0 .. MaxConfirmationAttempts, claims : Seq(Amounts)]

\* How many claims were compared and how they came out is what status and attempts say.
VerdictOf(v) ==
  /\ \A i \in 1 .. Len(Claims(v)) - 1 : Claims(v)[i] # Deposit(v)
  /\ verifications[v].status = "VERIFIED" =>
        /\ Len(Claims(v)) \in 1 .. MaxConfirmationAttempts
        /\ Claims(v)[Len(Claims(v))] = Deposit(v)
  /\ verifications[v].status # "VERIFIED" =>
        /\ Len(Claims(v)) + verifications[v].attempts = MaxConfirmationAttempts
        /\ Claims(v) # <<>> => Claims(v)[Len(Claims(v))] # Deposit(v)
  /\ verifications[v].status = "PENDING" => verifications[v].attempts > 0
  /\ verifications[v].status = "FAILED_LOCKED" => verifications[v].attempts = 0

LatestIsTheLast ==
  \A a \in Accounts : latest[a] # 0 =>
      /\ verifications[latest[a]].account = a
      /\ \A v \in DOMAIN verifications : v > latest[a] => verifications[v].account # a

BankInv ==
  /\ verifications \in Seq(VerificationTypes)
  /\ latest \in [Accounts -> 0 .. Len(verifications)]
  /\ \A v \in DOMAIN verifications : VerdictOf(v)
  /\ \A v \in DOMAIN verifications, a \in Accounts :
        latest[a] = 0 => verifications[v].account # a
  /\ LatestIsTheLast

\* An interval of numbers from 1 has its length as cardinality.
LEMMA UpToSize == ASSUME NEW n \in Nat PROVE IsFiniteSet(1 .. n) /\ Cardinality(1 .. n) = n BY FS_Interval

\* The claims of a verification, all or all but the last of them wrong, decide its status.
LEMMA BankInvDecides == BankInv => VerdictsFollowTheClaims
<1> SUFFICES ASSUME BankInv  PROVE VerdictsFollowTheClaims OBVIOUS
<1>1. ASSUME NEW v \in DOMAIN verifications
      PROVE  LET record == verifications[v]
                 Right == {i \in DOMAIN record.claims : record.claims[i] = record.amount}
                 Wrong == DOMAIN record.claims \ Right
             IN /\ Right \subseteq {Len(record.claims)}
                /\ Cardinality(Wrong) <= MaxConfirmationAttempts
                /\ record.status = (IF Right # {} THEN "VERIFIED"
                                    ELSE IF Cardinality(Wrong) = MaxConfirmationAttempts
                                    THEN "FAILED_LOCKED" ELSE "PENDING")
  <2> DEFINE record == verifications[v]
             claims == record.claims
             n == Len(claims)
             Right == {i \in DOMAIN claims : claims[i] = record.amount}
             Wrong == DOMAIN claims \ Right
  <2>1. record \in VerificationTypes /\ VerdictOf(v) BY DEF BankInv
  <2>2. claims \in Seq(Amounts) /\ record.status \in {"PENDING", "VERIFIED", "FAILED_LOCKED"}
        /\ record.attempts \in 0 .. 3 BY <2>1 DEF VerificationTypes, MaxConfirmationAttempts
  <2>5. n \in Nat /\ DOMAIN claims = 1 .. n BY <2>2
  <2>6. /\ \A i \in 1 .. n - 1 : claims[i] # record.amount
        /\ record.status = "VERIFIED" => n \in 1 .. 3 /\ claims[n] = record.amount
        /\ record.status # "VERIFIED" =>
              n + record.attempts = 3 /\ (claims # <<>> => claims[n] # record.amount)
        /\ record.status = "PENDING" => record.attempts > 0
        /\ record.status = "FAILED_LOCKED" => record.attempts = 0
    BY <2>1 DEF VerdictOf, Claims, Deposit, MaxConfirmationAttempts
  <2>7. claims = <<>> => n = 0 OBVIOUS
  <2> HIDE DEF record, claims, n
  <2> DEFINE Decided ==
               /\ Right \subseteq {n}
               /\ Cardinality(Wrong) <= MaxConfirmationAttempts
               /\ record.status = (IF Right # {} THEN "VERIFIED"
                                   ELSE IF Cardinality(Wrong) = MaxConfirmationAttempts
                                   THEN "FAILED_LOCKED" ELSE "PENDING")
  <2>3. ASSUME record.status = "VERIFIED"  PROVE Decided
    <3>1. n \in 1 .. 3 /\ claims[n] = record.amount /\ \A i \in 1 .. n - 1 : claims[i] # record.amount
      BY <2>6, <2>3
    <3>2. Right = {n} /\ Wrong = 1 .. n - 1 BY <3>1, <2>5
    <3>4. n - 1 \in Nat BY <3>1
    <3>3. Cardinality(Wrong) = n - 1 BY <3>4, <3>2, UpToSize
    <3> QED BY <2>3, <2>5, <3>1, <3>2, <3>3 DEF MaxConfirmationAttempts
  <2>4. ASSUME record.status # "VERIFIED"  PROVE Decided
    <3>1. /\ n + record.attempts = 3 /\ record.attempts \in 0 .. 3
          /\ \A i \in 1 .. n : claims[i] # record.amount BY <2>5, <2>2, <2>4, <2>6, <2>7
    <3>2. Right = {} /\ Wrong = 1 .. n BY <2>5, <3>1
    <3>3. Cardinality(Wrong) = n BY <2>5, <3>2, UpToSize
    <3>4. record.status \in {"PENDING", "FAILED_LOCKED"} BY <2>2, <2>4
    <3>5. (record.status = "PENDING" => n < 3) /\ (record.status = "FAILED_LOCKED" => n = 3)
      BY <2>5, <2>6, <3>1
    <3> QED BY <2>5, <3>1, <3>2, <3>3, <3>4, <3>5 DEF MaxConfirmationAttempts
  <2>8. Decided BY <2>3, <2>4
  <2> QED BY <2>8 DEF record, claims, n
<1> QED BY <1>1 DEF VerdictsFollowTheClaims, BankInv, LatestIsTheLast

\* A new verification is the latest of its account.
LEMMA InitiateKeepsBank == ASSUME BankInv, BankVerificationInitiate PROVE BankInv'
<1>1. PICK a \in Accounts, amount \in Amounts :
         /\ verifications' = Append(verifications,
              [account |-> a, amount |-> amount, status |-> "PENDING",
               attempts |-> MaxConfirmationAttempts, claims |-> <<>>])
         /\ latest' = [latest EXCEPT ![a] = Len(verifications')]
  BY DEF BankVerificationInitiate, InitiateVerification
<1> DEFINE new == [account |-> a, amount |-> amount, status |-> "PENDING",
                   attempts |-> MaxConfirmationAttempts, claims |-> <<>>]
           n == Len(verifications)
<1>2. new \in VerificationTypes BY DEF VerificationTypes, MaxConfirmationAttempts
<1>3. n \in Nat /\ DOMAIN verifications = 1 .. n /\ verifications \in Seq(VerificationTypes)
      /\ latest \in [Accounts -> 0 .. n] BY DEF BankInv
<1>4. /\ verifications' \in Seq(VerificationTypes)
      /\ Len(verifications') = n + 1
      /\ DOMAIN verifications' = 1 .. n + 1
      /\ verifications'[n + 1] = new
      /\ \A v \in 1 .. n : verifications'[v] = verifications[v] BY <1>1, <1>2, <1>3, AppendProperties
<1> HIDE DEF new, n
<1>5. latest' = [latest EXCEPT ![a] = n + 1] BY <1>1, <1>4
<1>6. latest' \in [Accounts -> 0 .. n + 1] /\ latest'[a] = n + 1
      /\ \A b \in Accounts : b # a => latest'[b] = latest[b] BY <1>3, <1>5
<1>7. ASSUME NEW v \in 1 .. n + 1  PROVE VerdictOf(v)'
  <2>1. CASE v \in 1 .. n
    <3>1. VerdictOf(v) BY <1>3, <2>1 DEF BankInv
    <3>2. verifications'[v] = verifications[v] BY <1>4, <2>1
    <3> QED BY <3>1, <3>2 DEF VerdictOf, Claims, Deposit
  <2>2. CASE v = n + 1 BY <1>4, <2>2 DEF new, MaxConfirmationAttempts, VerdictOf, Claims, Deposit
  <2> QED BY <1>3, <2>1, <2>2
<1>8. ASSUME NEW v \in 1 .. n + 1, NEW b \in Accounts, latest'[b] = 0 PROVE verifications'[v].account # b
  <2>1. latest[b] = 0 /\ b # a BY <1>3, <1>6, <1>8
  <2>2. \A u \in 1 .. n : verifications[u].account # b BY <1>3, <2>1 DEF BankInv
  <2>3. verifications'[n + 1].account # b BY <1>4, <2>1 DEF new
  <2>4. v \in 1 .. n \/ v = n + 1 BY <1>3
  <2> QED BY <1>4, <2>2, <2>3, <2>4
<1>9. ASSUME NEW b \in Accounts, latest'[b] # 0
      PROVE  /\ verifications'[latest'[b]].account = b
             /\ \A v \in 1 .. n + 1 : v > latest'[b] => verifications'[v].account # b
  <2>1. CASE b = a BY <1>3, <1>4, <1>6, <2>1 DEF new
  <2>2. CASE b # a
    <3>1. latest'[b] = latest[b] /\ latest[b] \in 1 .. n BY <1>3, <1>6, <1>9, <2>2
    <3>2. /\ verifications[latest[b]].account = b
          /\ \A v \in 1 .. n : v > latest[b] => verifications[v].account # b
      BY <1>3, <3>1 DEF BankInv, LatestIsTheLast
    <3>3. verifications'[n + 1].account # b BY <1>4, <2>2 DEF new
    <3>4. \A v \in 1 .. n + 1 : v \in 1 .. n \/ v = n + 1 BY <1>3
    <3> QED BY <1>4, <3>1, <3>2, <3>3, <3>4
  <2> QED BY <2>1, <2>2
<1> QED BY <1>4, <1>6, <1>7, <1>8, <1>9 DEF BankInv, LatestIsTheLast

\* A claim is compared with the deposit while the verification is open.
LEMMA ConfirmKeepsBank == ASSUME BankInv, BankVerificationConfirm PROVE BankInv'
<1>1. PICK v \in DOMAIN verifications, claimed \in Amounts : ConfirmMicroDepositAmount(v, claimed)
  BY DEF BankVerificationConfirm
<1> DEFINE record == verifications[v]
           left == IF claimed = record.amount THEN record.attempts ELSE record.attempts - 1
           status == IF claimed = record.amount THEN "VERIFIED"
                     ELSE IF left <= 0 THEN "FAILED_LOCKED" ELSE "PENDING"
           new == [record EXCEPT !.status = status, !.attempts = left,
                                 !.claims = Append(record.claims, claimed)]
           n == Len(verifications)
<1>2. record.status = "PENDING" /\ verifications' = [verifications EXCEPT ![v] = new] /\ latest' = latest
  BY <1>1, Zenon DEF ConfirmMicroDepositAmount
<1>3. /\ n \in Nat /\ DOMAIN verifications = 1 .. n /\ verifications \in Seq(VerificationTypes)
      /\ latest \in [Accounts -> 0 .. n] /\ v \in 1 .. n
      /\ record \in VerificationTypes /\ record.claims \in Seq(Amounts) /\ VerdictOf(v)
  <2>1. /\ n \in Nat /\ DOMAIN verifications = 1 .. n /\ verifications \in Seq(VerificationTypes)
        /\ latest \in [Accounts -> 0 .. n] /\ v \in 1 .. n
        /\ record \in VerificationTypes /\ VerdictOf(v) BY DEF BankInv
  <2> QED BY <2>1 DEF VerificationTypes
<1>4. record.attempts \in 1 .. 3 /\ left \in 0 .. 3
      /\ status \in {"PENDING", "VERIFIED", "FAILED_LOCKED"}
  BY <1>2, <1>3 DEF VerdictOf, VerificationTypes, MaxConfirmationAttempts
<1>5. Append(record.claims, claimed) \in Seq(Amounts) BY <1>3, AppendProperties
<1>6. /\ new \in VerificationTypes /\ new.account = record.account /\ new.amount = record.amount
      /\ new.claims = Append(record.claims, claimed) /\ new.status = status /\ new.attempts = left
  BY <1>3, <1>4, <1>5 DEF VerificationTypes, MaxConfirmationAttempts
<1>7. /\ Len(new.claims) = Len(record.claims) + 1 /\ Len(record.claims) \in Nat
      /\ new.claims[Len(record.claims) + 1] = claimed
      /\ \A i \in 1 .. Len(record.claims) : new.claims[i] = record.claims[i] BY <1>3, <1>6, AppendProperties
<1>8. /\ Len(record.claims) + record.attempts = 3
      /\ \A i \in 1 .. Len(record.claims) : record.claims[i] # record.amount
  BY <1>2, <1>3, <1>7 DEF VerdictOf, Claims, Deposit, MaxConfirmationAttempts
<1>9. /\ claimed = record.amount => status = "VERIFIED" /\ left = record.attempts
      /\ claimed # record.amount => /\ left = record.attempts - 1
                                    /\ status = IF left <= 0 THEN "FAILED_LOCKED" ELSE "PENDING" OBVIOUS
<1> HIDE DEF new, left, status
<1>10. /\ verifications' \in Seq(VerificationTypes)
       /\ Len(verifications') = n
       /\ DOMAIN verifications' = 1 .. n
       /\ verifications'[v] = new
       /\ \A u \in 1 .. n : u # v => verifications'[u] = verifications[u] BY <1>2, <1>3, <1>6, ExceptSeq
<1>11. VerdictOf(v)'
  <2>1. /\ \A i \in 1 .. Len(new.claims) - 1 : new.claims[i] # new.amount
        /\ new.status = "VERIFIED" =>
              /\ Len(new.claims) \in 1 .. MaxConfirmationAttempts
              /\ new.claims[Len(new.claims)] = new.amount
        /\ new.status # "VERIFIED" =>
              /\ Len(new.claims) + new.attempts = MaxConfirmationAttempts
              /\ new.claims # <<>> => new.claims[Len(new.claims)] # new.amount
        /\ new.status = "PENDING" => new.attempts > 0
        /\ new.status = "FAILED_LOCKED" => new.attempts = 0
    BY <1>4, <1>6, <1>7, <1>8, <1>9 DEF MaxConfirmationAttempts
  <2> QED BY <1>10, <2>1 DEF VerdictOf, Claims, Deposit
<1>12. ASSUME NEW u \in 1 .. n  PROVE VerdictOf(u)'
  <2>1. CASE u = v BY <1>11, <2>1
  <2>2. CASE u # v BY <1>3, <1>10, <2>2 DEF BankInv, VerdictOf, Claims, Deposit
  <2> QED BY <2>1, <2>2
<1>13. \A u \in 1 .. n : verifications'[u].account = verifications[u].account BY <1>6, <1>10
<1>14. LatestIsTheLast' BY <1>2, <1>3, <1>10, <1>13 DEF BankInv, LatestIsTheLast
<1>15. \A u \in 1 .. n, a \in Accounts : latest'[a] = 0 => verifications'[u].account # a
  BY <1>2, <1>3, <1>13 DEF BankInv
<1> QED BY <1>2, <1>3, <1>10, <1>12, <1>14, <1>15 DEF BankInv

--------------------
(* kyc-onboarding: the holding structures. *)

\* A structure's holder ids were drawn, its primary holder is one of them, and only a
\* joint structure asks for all of them.
IsStructure(s) ==
  /\ s.holders \subseteq 1 .. holderIds /\ s.primary \in s.holders
  /\ s.mode = "JOINTLY" => s.type = "JOINT"

HoldingInv ==
  /\ holderIds \in Nat
  /\ DOMAIN holding = Accounts /\ DOMAIN operations = Accounts
  /\ \A a \in Accounts :
        (holding[a] = Absent /\ operations[a] = {}) \/ IsStructure(holding[a])
  /\ ConsentIsForTheStructureInForce

\* A registration draws ids that no structure has.
LEMMA RegisterKeepsHolding ==
  ASSUME HoldingInv,
         NEW a \in Accounts, NEW type \in {"INDIVIDUAL", "JOINT"}, NEW mode,
         NEW holders \in Nat, NEW primary \in 1 .. holders,
         mode = "JOINTLY" => type = "JOINT",
         Register(a, type, mode, holders, primary)
  PROVE  HoldingInv'
<1> DEFINE new == [type |-> type, mode |-> mode, primary |-> holderIds + primary,
                   holders |-> holderIds + 1 .. holderIds + holders]
<1>1. /\ holderIds \in Nat /\ DOMAIN holding = Accounts /\ DOMAIN operations = Accounts
      /\ \A b \in Accounts :
            (holding[b] = Absent /\ operations[b] = {}) \/ IsStructure(holding[b])
      /\ ConsentIsForTheStructureInForce BY DEF HoldingInv
<1>2. /\ holding' = [holding EXCEPT ![a] = new]
      /\ holderIds' = holderIds + holders
      /\ operations' = [operations EXCEPT ![a] = {}] BY DEF Register
<1>3. /\ new.type = type /\ new.mode = mode /\ new.primary = holderIds + primary
      /\ new.holders = holderIds + 1 .. holderIds + holders OBVIOUS
<1> HIDE DEF new
<1>4. /\ holderIds' \in Nat /\ DOMAIN holding' = Accounts /\ DOMAIN operations' = Accounts
      /\ holding'[a] = new /\ operations'[a] = {}
      /\ \A b \in Accounts : b # a => holding'[b] = holding[b] /\ operations'[b] = operations[b] BY <1>1, <1>2
<1>5. new.holders \subseteq 1 .. holderIds' /\ new.primary \in new.holders
      /\ new.holders \intersect 1 .. holderIds = {}
      /\ (new.mode = "JOINTLY" => new.type = "JOINT") BY <1>1, <1>2, <1>3
<1>6. 1 .. holderIds \subseteq 1 .. holderIds' BY <1>1, <1>2
<1>7. ASSUME NEW b \in Accounts
      PROVE  (holding'[b] = Absent /\ operations'[b] = {}) \/ IsStructure(holding[b])'
  <2>1. CASE b = a BY <1>4, <1>5, <2>1 DEF IsStructure
  <2>2. CASE b # a BY <1>1, <1>4, <1>6, <2>2 DEF IsStructure
  <2> QED BY <2>1, <2>2
<1>8. ASSUME NEW b \in Accounts, NEW c \in Accounts, b # c, holding'[b] # Absent, holding'[c] # Absent
      PROVE  holding'[b].holders \intersect holding'[c].holders = {}
  <2>1. ASSUME NEW d \in Accounts, d # a, holding'[d] # Absent
        PROVE  holding[d].holders \subseteq 1 .. holderIds BY <1>1, <1>4, <2>1 DEF IsStructure
  <2>2. CASE b = a BY <1>4, <1>5, <1>8, <2>1, <2>2
  <2>3. CASE c = a BY <1>4, <1>5, <1>8, <2>1, <2>3
  <2>4. CASE b # a /\ c # a BY <1>1, <1>4, <1>8, <2>4 DEF ConsentIsForTheStructureInForce
  <2> QED BY <2>2, <2>3, <2>4
<1>9. ASSUME NEW b \in Accounts, NEW consents \in operations'[b]
      PROVE  /\ consents \subseteq holding'[b].holders /\ holding'[b].primary \in holding'[b].holders
             /\ holding'[b].mode = "JOINTLY" => consents = holding'[b].holders
  BY <1>4, <1>9, <1>1 DEF ConsentIsForTheStructureInForce
<1>10. ConsentIsForTheStructureInForce' BY <1>8, <1>9 DEF ConsentIsForTheStructureInForce
<1> QED BY <1>4, <1>7, <1>10 DEF HoldingInv

\* Consents are kept only if they are enough for the structure that stands.
LEMMA AuthorizeKeepsHolding == ASSUME HoldingInv, Authorize PROVE HoldingInv'
<1>1. PICK a \in Accounts, consents \in SUBSET (1 .. holderIds) : AuthorizeOperation(a, consents)
  BY DEF Authorize
<1>2. /\ holderIds \in Nat /\ DOMAIN holding = Accounts /\ DOMAIN operations = Accounts
      /\ \A b \in Accounts :
            (holding[b] = Absent /\ operations[b] = {}) \/ IsStructure(holding[b])
      /\ ConsentIsForTheStructureInForce BY DEF HoldingInv
<1>3. /\ holding[a] # Absent /\ consents \subseteq holding[a].holders
      /\ \/ holding[a].type = "INDIVIDUAL"
         \/ holding[a].mode \in {"EITHER_OR_SURVIVOR", "ANYONE_OR_SURVIVOR"}
         \/ holding[a].holders \subseteq consents
      /\ operations' = [operations EXCEPT ![a] = @ \union {consents}]
      /\ holding' = holding /\ holderIds' = holderIds BY <1>1 DEF AuthorizeOperation
<1>4. DOMAIN operations' = Accounts
      /\ operations'[a] = operations[a] \union {consents}
      /\ \A b \in Accounts : b # a => operations'[b] = operations[b] BY <1>2, <1>3
<1>5. IsStructure(holding[a]) BY <1>2, <1>3
<1>6. holding[a].mode = "JOINTLY" => consents = holding[a].holders BY <1>3, <1>5 DEF IsStructure
<1>7. ASSUME NEW b \in Accounts, NEW given \in operations'[b]
      PROVE  /\ given \subseteq holding'[b].holders /\ holding'[b].primary \in holding'[b].holders
             /\ holding'[b].mode = "JOINTLY" => given = holding'[b].holders
  <2>1. CASE given \in operations[b] BY <1>2, <1>3, <2>1 DEF ConsentIsForTheStructureInForce
  <2>2. CASE given \notin operations[b] BY <1>4, <1>7, <2>2, <1>3, <1>5, <1>6 DEF IsStructure
  <2> QED BY <2>1, <2>2
<1>8. ConsentIsForTheStructureInForce' BY <1>2, <1>3, <1>7 DEF ConsentIsForTheStructureInForce
<1>9. \A b \in Accounts :
          (holding'[b] = Absent /\ operations'[b] = {}) \/ IsStructure(holding[b])'
  BY <1>2, <1>3, <1>4, <1>5 DEF IsStructure
<1> QED BY <1>2, <1>3, <1>4, <1>8, <1>9 DEF HoldingInv

\* Registering draws new ids and authorizing asks the holders in force, so consent stays
\* with the structure it was given under.
LEMMA HoldingNextKeeps == ASSUME HoldingInv, HoldingNext PROVE HoldingInv'
<1>1. CASE RegisterIndividual
  <2>1. PICK a \in Accounts : Register(a, "INDIVIDUAL", "none", 1, 1)
    BY <1>1 DEF RegisterIndividual, RegisterIndividualAccount
  <2>2. 1 \in Nat /\ 1 \in 1 .. 1 /\ "INDIVIDUAL" \in {"INDIVIDUAL", "JOINT"}
        /\ ("none" = "JOINTLY" => "INDIVIDUAL" = "JOINT") OBVIOUS
  <2> QED BY <2>1, <2>2, RegisterKeepsHolding
<1>2. CASE RegisterJoint
  <2>1. PICK a \in Accounts, mode \in Modes, holders \in 1 .. MaxHolders,
             primary \in 0 .. MaxHolders : RegisterJointAccount(a, mode, holders, primary)
    BY <1>2 DEF RegisterJoint
  <2>2. primary \in 1 .. holders /\ Register(a, "JOINT", mode, holders, primary)
    BY <2>1 DEF RegisterJointAccount
  <2>3. holders \in Nat /\ "JOINT" \in {"INDIVIDUAL", "JOINT"} /\ (mode = "JOINTLY" => "JOINT" = "JOINT")
    BY KycAssumption
  <2> QED BY <2>2, <2>3, RegisterKeepsHolding
<1> QED BY <1>1, <1>2, AuthorizeKeepsHolding DEF HoldingNext

--------------------
(* kyc-onboarding: the nominations. *)

Shares(nominees) == [i \in DOMAIN nominees |-> nominees[i].share]

IsNomination(nominees) ==
  /\ nominees \in Seq(NomineeInputs)
  /\ \A i \in DOMAIN nominees : IsValidInput(nominees[i])

IsDesignation(d) ==
  /\ IsNomination(d.nominees)
  /\ Total(d.nominees) <= 100
  /\ d.optedOut => d.nominees = <<>>

NomineeInv ==
  /\ DOMAIN designation = Accounts
  /\ \A a \in Accounts : designation[a] = Absent \/ IsDesignation(designation[a])

\* The shares of a nomination are natural numbers.
LEMMA SharesAreNat ==
  ASSUME NEW nominees, IsNomination(nominees)
  PROVE  /\ Len(nominees) \in Nat /\ DOMAIN nominees = 1 .. Len(nominees)
         /\ IsFiniteSet(DOMAIN nominees)
         /\ NatOn(Shares(nominees), DOMAIN nominees) /\ IntOn(Shares(nominees), DOMAIN nominees)
         /\ Total(nominees) = SumFunctionOnSet(Shares(nominees), DOMAIN nominees)
         /\ Total(nominees) \in Nat
<1>1. nominees \in Seq(NomineeInputs) /\ \A i \in DOMAIN nominees : nominees[i].share \in 1 .. 100
  BY DEF IsNomination, IsValidInput
<1>2. Len(nominees) \in Nat /\ DOMAIN nominees = 1 .. Len(nominees) BY <1>1
<1>3. IsFiniteSet(DOMAIN nominees) BY <1>2, FS_Interval
<1>4. NatOn(Shares(nominees), DOMAIN nominees) /\ IntOn(Shares(nominees), DOMAIN nominees)
  <2>1. \A i \in DOMAIN nominees : Shares(nominees)[i] = nominees[i].share /\ nominees[i].share \in Nat
    <3>1. \A x \in 1 .. 100 : x \in Nat OBVIOUS
    <3>2. \A i \in DOMAIN nominees : nominees[i].share \in Nat BY <1>1, <3>1, Zenon
    <3> QED BY <3>2 DEF Shares
  <2> QED BY <2>1 DEF NatOn, IntOn
<1>5. Total(nominees) = SumFunctionOnSet(Shares(nominees), DOMAIN nominees) BY DEF Total, Shares
<1>6. SumFunctionOnSet(Shares(nominees), DOMAIN nominees) \in Nat BY <1>3, <1>4, SumAtLeastPart
<1> QED BY <1>2, <1>3, <1>4, <1>5, <1>6

\* No nominee, no share.
LEMMA TotalOfNone == Total(<<>>) = 0 /\ IsNomination(<<>>)
<1>1. DOMAIN <<>> = {} OBVIOUS
<1>2. SumFunctionOnSet(Shares(<<>>), {}) = 0 BY SumOfNone
<1> QED BY <1>1, <1>2 DEF Total, Shares, IsNomination

\* A nominee more adds his share.
LEMMA TotalWithOneMore ==
  ASSUME NEW nominees, IsNomination(nominees),
         NEW input \in NomineeInputs, IsValidInput(input)
  PROVE  /\ IsNomination(Append(nominees, input))
         /\ Total(Append(nominees, input)) = Total(nominees) + input.share
<1> DEFINE n == Len(nominees)
           new == Append(nominees, input)
           f == Shares(new)
<1>1. n \in Nat /\ DOMAIN nominees = 1 .. n /\ nominees \in Seq(NomineeInputs)
      /\ Total(nominees) = SumFunctionOnSet(Shares(nominees), 1 .. n) BY SharesAreNat DEF IsNomination
<1>2. /\ new \in Seq(NomineeInputs) /\ Len(new) = n + 1 /\ DOMAIN new = 1 .. n + 1
      /\ new[n + 1] = input /\ \A i \in 1 .. n : new[i] = nominees[i] BY <1>1, AppendProperties
<1> HIDE DEF n, new
<1>3. IsNomination(new) BY <1>1, <1>2 DEF IsNomination
<1>4. IntOn(f, 1 .. n + 1) /\ IsFiniteSet(1 .. n + 1)
      /\ Total(new) = SumFunctionOnSet(f, 1 .. n + 1) BY <1>2, <1>3, SharesAreNat
<1>5. n + 1 \in 1 .. n + 1 /\ (1 .. n + 1) \ {n + 1} = 1 .. n BY <1>1
<1>6. SumFunctionOnSet(f, 1 .. n + 1) = f[n + 1] + SumFunctionOnSet(f, 1 .. n)
  <2>1. SumFunctionOnSet(f, 1 .. n + 1) = f[n + 1] + SumFunctionOnSet(f, (1 .. n + 1) \ {n + 1})
    <3> DEFINE T == 1 .. n + 1
    <3>1. IsFiniteSet(T) /\ IntOn(f, T) /\ n + 1 \in T BY <1>4, <1>5
    <3> HIDE DEF f, T
    <3>2. SumFunctionOnSet(f, T) = f[n + 1] + SumFunctionOnSet(f, T \ {n + 1}) BY <3>1, SumWithout
    <3> QED BY <3>2 DEF T
  <2> QED BY <1>5, <2>1
<1>7. f[n + 1] = input.share /\ \A i \in 1 .. n : f[i] = Shares(nominees)[i] BY <1>1, <1>2, <1>5 DEF Shares
<1>8. SumFunctionOnSet(f, 1 .. n) = SumFunctionOnSet(Shares(nominees), 1 .. n)
  <2>1. IsFiniteSet(1 .. n) BY <1>1, FS_Interval
  <2> QED BY <1>7, <2>1, SumSame
<1>9. Total(nominees) \in Nat /\ input.share \in Nat
  <2>1. input.share \in 1 .. 100 BY DEF IsValidInput
  <2>2. \A x \in 1 .. 100 : x \in Nat OBVIOUS
  <2>3. input.share \in Nat BY <2>1, <2>2, Zenon
  <2> QED BY <2>3, SharesAreNat
<1>10. Total(new) = Total(nominees) + input.share BY <1>1, <1>4, <1>6, <1>7, <1>8, <1>9
<1> QED BY <1>3, <1>10 DEF new

\* A nominee fewer takes nothing from the others.
LEMMA TotalWithOneFewer ==
  ASSUME NEW nominees, IsNomination(nominees), NEW k \in DOMAIN nominees
  PROVE  IsNomination(RemoveAt(nominees, k)) /\ Total(RemoveAt(nominees, k)) <= Total(nominees)
<1> DEFINE n == Len(nominees)
           new == RemoveAt(nominees, k)
           f == Shares(nominees)
           g == Shares(new)
           b == [x \in 1 .. n - 1 |-> IF x < k THEN x ELSE x + 1]
<1>1. /\ n \in Nat /\ DOMAIN nominees = 1 .. n /\ nominees \in Seq(NomineeInputs)
      /\ NatOn(f, 1 .. n) /\ IsFiniteSet(1 .. n)
      /\ Total(nominees) = SumFunctionOnSet(f, 1 .. n) BY SharesAreNat DEF IsNomination
<1>2. k \in 1 .. n BY <1>1
<1>3. /\ new \in Seq(NomineeInputs) /\ Len(new) = n - 1 /\ DOMAIN new = 1 .. n - 1
      /\ \A x \in 1 .. n - 1 : new[x] = nominees[b[x]]
  <2>1. new = SubSeq(nominees, 1, k - 1) \o SubSeq(nominees, k + 1, n) BY DEF RemoveAt
  <2> DEFINE u == SubSeq(nominees, 1, k - 1)
             w == SubSeq(nominees, k + 1, n)
  <2>2. /\ u \in Seq(NomineeInputs) /\ Len(u) = k - 1
        /\ \A x \in 1 .. k - 1 : u[x] = nominees[x] BY <1>1, <1>2
  <2>3. /\ w \in Seq(NomineeInputs) /\ Len(w) = n - k
        /\ \A x \in 1 .. n - k : w[x] = nominees[k + x] BY <1>1, <1>2
  <2> HIDE DEF u, w
  <2>4. /\ u \o w \in Seq(NomineeInputs) /\ Len(u \o w) = n - 1
        /\ \A x \in 1 .. n - 1 : (u \o w)[x] = IF x <= k - 1 THEN u[x] ELSE w[x - (k - 1)]
    <3>1. /\ u \o w \in Seq(NomineeInputs) /\ Len(u \o w) = Len(u) + Len(w)
          /\ \A x \in 1 .. Len(u) + Len(w) : (u \o w)[x] = IF x <= Len(u) THEN u[x] ELSE w[x - Len(u)]
      BY <2>2, <2>3, ConcatProperties
    <3>2. Len(u) + Len(w) = n - 1 /\ Len(u) = k - 1 BY <1>1, <1>2, <2>2, <2>3
    <3> QED BY <3>1, <3>2
  <2>5. ASSUME NEW x \in 1 .. n - 1  PROVE (u \o w)[x] = nominees[b[x]]
    <3>1. CASE x < k BY <1>1, <1>2, <3>1, <2>2, <2>4
    <3>2. CASE ~(x < k)
      <4>1. x - (k - 1) \in 1 .. n - k /\ ~(x <= k - 1) /\ k + (x - (k - 1)) = x + 1 BY <1>1, <1>2, <3>2
      <4> QED BY <2>3, <2>4, <3>2, <4>1
    <3> QED BY <3>1, <3>2
  <2>6. new = u \o w BY <2>1 DEF u, w
  <2>7. DOMAIN (u \o w) = 1 .. n - 1 BY <2>4
  <2> QED BY <2>4, <2>5, <2>6, <2>7
<1> HIDE DEF new
<1>4. \A x \in 1 .. n - 1 : b[x] \in 1 .. n BY <1>1, <1>2
<1>5. \A x, y \in 1 .. n - 1 : b[x] = b[y] => x = y BY <1>1, <1>2
<1> HIDE DEF b
<1>6. IsNomination(new) BY <1>1, <1>3, <1>4 DEF IsNomination
<1>7. IntOn(g, 1 .. n - 1) /\ IsFiniteSet(1 .. n - 1) /\ Total(new) = SumFunctionOnSet(g, 1 .. n - 1)
  BY <1>3, <1>6, SharesAreNat
<1>8. \A x \in 1 .. n - 1 : f[b[x]] = g[x] BY <1>1, <1>3, <1>4 DEF Shares
<1> HIDE DEF f, g
<1>9. SumFunctionOnSet(f, {b[x] : x \in 1 .. n - 1}) = SumFunctionOnSet(g, 1 .. n - 1)
  BY <1>5, <1>7, <1>8, SumRenamed, SMTT(30)
<1>10. {b[x] : x \in 1 .. n - 1} \subseteq 1 .. n BY <1>4
<1>11. SumFunctionOnSet(f, {b[x] : x \in 1 .. n - 1}) <= SumFunctionOnSet(f, 1 .. n)
  BY <1>1, <1>10, SumAtLeastPart
<1>12. Total(new) <= Total(nominees) BY <1>1, <1>7, <1>9, <1>11
<1> QED BY <1>6, <1>12 DEF new

\* What is designated is a nomination of the whole at most.
LEMMA DesignateKeepsNominees ==
  ASSUME NomineeInv, NEW a \in Accounts, NEW optedOut, NEW nominees,
         IsNomination(nominees), Total(nominees) <= 100, optedOut => nominees = <<>>,
         Designate(a, optedOut, nominees)
  PROVE  NomineeInv'
<1> DEFINE new == [optedOut |-> optedOut, nominees |-> nominees]
<1>1. designation' = [designation EXCEPT ![a] = new] /\ DOMAIN designation = Accounts
  BY DEF Designate, NomineeInv
<1>2. IsDesignation(new) BY DEF IsDesignation
<1>3. ASSUME NEW b \in Accounts PROVE designation'[b] = Absent \/ IsDesignation(designation'[b])
  <2>1. CASE b = a BY <1>1, <2>1, <1>2
  <2>2. CASE b # a BY <1>1, <2>2 DEF NomineeInv
  <2> QED BY <2>1, <2>2
<1>4. DOMAIN designation' = Accounts BY <1>1
<1> QED BY <1>3, <1>4 DEF NomineeInv, IsDesignation, IsNomination, Total

\* However nominations are submitted, extended, edited and removed, they add up.
LEMMA NomineeNextKeeps == ASSUME NomineeInv, NomineeNext PROVE NomineeInv'
<1>1. CASE NomineeSubmit
  <2>1. PICK a \in Accounts, optOut \in BOOLEAN, size \in 0 .. 2 :
            \E inputs \in [1 .. size -> NomineeInputs] : SubmitNomination(a, inputs, optOut)
    BY <1>1 DEF NomineeSubmit
  <2>2. PICK inputs \in [1 .. size -> NomineeInputs] : SubmitNomination(a, inputs, optOut) BY <2>1
  <2>3. IsNomination(inputs) BY <2>2 DEF SubmitNomination, IsNomination
  <2>4. CASE optOut
    <3>1. Designate(a, optOut, <<>>) BY <2>2, <2>4 DEF SubmitNomination
    <3> QED BY <3>1, TotalOfNone, DesignateKeepsNominees
  <2>5. CASE ~optOut BY <2>2, <2>5, <2>3, DesignateKeepsNominees DEF SubmitNomination
  <2> QED BY <2>4, <2>5
<1>2. CASE NomineeAdd
  <2>1. PICK a \in Accounts, input \in NomineeInputs : AddNominee(a, input) BY <1>2 DEF NomineeAdd
  <2> DEFINE standing == IF designation[a] = Absent THEN <<>> ELSE designation[a].nominees
  <2>2. IsValidInput(input) /\ Total(standing) + input.share <= 100
        /\ Designate(a, FALSE, Append(standing, input)) BY <2>1 DEF AddNominee
  <2>3. IsNomination(standing) BY TotalOfNone DEF NomineeInv, IsDesignation
  <2> HIDE DEF standing
  <2>4. IsNomination(Append(standing, input)) /\ Total(Append(standing, input)) <= 100
    BY <2>2, <2>3, TotalWithOneMore
  <2> QED BY <2>2, <2>4, DesignateKeepsNominees
<1>3. CASE NomineeUpdate
  <2>1. PICK a \in Accounts, n \in 1 .. 2, input \in NomineeInputs : UpdateNominee(a, n, input)
    BY <1>3 DEF NomineeUpdate
  <2> DEFINE standing == designation[a].nominees
             updated == [standing EXCEPT ![n] = input]
  <2>2. IsValidInput(input) /\ designation[a] # Absent /\ n \in DOMAIN standing
        /\ Total(updated) <= 100 /\ Designate(a, designation[a].optedOut, updated) BY <2>1 DEF UpdateNominee
  <2>3. IsNomination(standing) /\ (designation[a].optedOut => standing = <<>>)
    BY <2>2 DEF NomineeInv, IsDesignation
  <2> HIDE DEF standing
  <2>4. IsNomination(updated) BY <2>2, <2>3, ExceptSeq DEF IsNomination
  <2>5. ~designation[a].optedOut BY <2>2, <2>3
  <2> QED BY <2>2, <2>4, <2>5, DesignateKeepsNominees
<1>4. CASE NomineeRemove
  <2>1. PICK a \in Accounts, n \in 1 .. 2 : RemoveNominee(a, n) BY <1>4 DEF NomineeRemove
  <2> DEFINE standing == designation[a].nominees
  <2>2. designation[a] # Absent /\ n \in DOMAIN standing
        /\ Designate(a, designation[a].optedOut, RemoveAt(standing, n)) BY <2>1 DEF RemoveNominee
  <2>3. IsNomination(standing) /\ Total(standing) <= 100
        /\ (designation[a].optedOut => standing = <<>>) BY <2>2 DEF NomineeInv, IsDesignation
  <2> HIDE DEF standing
  <2>4. IsNomination(RemoveAt(standing, n)) /\ Total(RemoveAt(standing, n)) <= 100
    BY <2>2, <2>3, SharesAreNat, TotalWithOneFewer
  <2>5. ~designation[a].optedOut BY <2>2, <2>3
  <2> QED BY <2>2, <2>4, <2>5, DesignateKeepsNominees
<1> QED BY <1>1, <1>2, <1>3, <1>4 DEF NomineeNext

--------------------
(* backoffice: the succession cases and their trail. *)

SuccessionStates == {"none", "SUBMITTED", "UNDER_REVIEW", "APPROVED", "TRANSFERRED", "REJECTED"}
TransitionRecords ==
  [account : Customers, event : SuccessionStates \union {"NOMINEE_REGISTERED", "SUCCESSION_SUBMITTED"},
   from : SuccessionStates, to : SuccessionStates, named : Nominees \union {Nobody}]

\* The parts of a trail: what is told of an account, its cases, its moves and the
\* nominees it named.
TellingOf(entries, a) == {i \in DOMAIN entries : entries[i].account = a}
MovesOf(entries, a) == {i \in TellingOf(entries, a) : entries[i].event # "NOMINEE_REGISTERED"}
CasesOf(entries, a) == {i \in TellingOf(entries, a) : entries[i].event = "SUCCESSION_SUBMITTED"}
NamingsOf(entries, a) == TellingOf(entries, a) \ MovesOf(entries, a)
Until(S, i) == {j \in S : j < i}
TheLatest(S) == CHOOSE i \in S : \A j \in S : j <= i

\* A trail that ends where the registry has the account: case is its succession
\* request and named the nominee registered for it.
Tells(entries, moves, cases, namings, case, named) ==
  /\ case.state = (IF moves = {} THEN "none" ELSE entries[TheLatest(moves)].to)
  /\ \A i \in cases : Until(moves, i) # {} =>
        isTerminalState(entries[TheLatest(Until(moves, i))].to)
  /\ \A i \in moves \ cases :
        Until(moves, i) # {} /\ entries[i].from = entries[TheLatest(Until(moves, i))].to
  /\ cases # {} =>
        /\ Until(namings, TheLatest(cases)) # {}
        /\ case.nominee = entries[TheLatest(Until(namings, TheLatest(cases)))].named
  /\ \A i \in moves : entries[i].to # "none"
  /\ named # Nobody =>
        namings # {} /\ named = entries[TheLatest(namings)].named

TellsOf(entries, a, case, named) ==
  Tells(entries, MovesOf(entries, a), CasesOf(entries, a), NamingsOf(entries, a), case, named)

SuccessionInv ==
  /\ nominee \in [Customers -> Nominees \union {Nobody}]
  /\ succession \in [Customers -> [state : SuccessionStates, nominee : Nominees \union {Nobody}]]
  /\ trail \in Seq(TransitionRecords)
  /\ \A a \in Customers : TellsOf(trail, a, succession[a], nominee[a])

\* A set of places has a latest one.
LEMMA LatestExists ==
  ASSUME NEW n \in Nat, NEW S, S \subseteq 1 .. n, S # {}
  PROVE  TheLatest(S) \in S /\ \A j \in S : j <= TheLatest(S)
<1> DEFINE mirrored == {n - i : i \in S}
<1>1. mirrored \subseteq Nat /\ mirrored # {}
  <2>1. \A i \in S : i \in 1 .. n OBVIOUS
  <2>2. \A i \in 1 .. n : n - i \in Nat OBVIOUS
  <2> QED BY <2>1, <2>2
<1>2. PICK m \in mirrored : \A k \in mirrored : m <= k
  <2> HIDE DEF mirrored
  <2> QED BY <1>1, LeastNumber
<1>3. PICK i \in S : m = n - i OBVIOUS
<1>4. \A j \in S : j <= i BY <1>2, <1>3
<1> QED BY <1>4 DEF TheLatest

\* The place after all of them is the latest.
LEMMA LastPlaceIsLatest ==
  ASSUME NEW n \in Nat, NEW S, S \subseteq 1 .. n PROVE TheLatest(S \union {n + 1}) = n + 1
<1>1. PICK T : T = S \union {n + 1} OBVIOUS
<1>2. T \subseteq 1 .. n + 1 /\ T # {} /\ n + 1 \in Nat BY <1>1
<1>3. TheLatest(T) \in T /\ \A j \in T : j <= TheLatest(T) BY <1>2, LatestExists
<1>4. TheLatest(T) \in 1 .. n + 1 /\ n + 1 <= TheLatest(T) BY <1>1, <1>2, <1>3
<1> QED BY <1>1, <1>4

\* The parts of a trail with one entry more.
IsOneMore(entries, n, x, more, a) ==
  /\ more \in Seq(TransitionRecords)
  /\ more[n + 1] = x /\ \A i \in 1 .. n : more[i] = entries[i]
  /\ MovesOf(entries, a) \subseteq 1 .. n /\ CasesOf(entries, a) \subseteq MovesOf(entries, a)
  /\ NamingsOf(entries, a) \subseteq 1 .. n
  /\ MovesOf(more, a) = MovesOf(entries, a) \union
        (IF x.account = a /\ x.event # "NOMINEE_REGISTERED" THEN {n + 1} ELSE {})
  /\ CasesOf(more, a) = CasesOf(entries, a) \union
        (IF x.account = a /\ x.event = "SUCCESSION_SUBMITTED" THEN {n + 1} ELSE {})
  /\ NamingsOf(more, a) = NamingsOf(entries, a) \union
        (IF x.account = a /\ x.event = "NOMINEE_REGISTERED" THEN {n + 1} ELSE {})

\* An entry that is appended joins the parts it belongs to.
LEMMA OneEntryMore ==
  ASSUME NEW entries \in Seq(TransitionRecords), NEW n \in Nat, n = Len(entries),
         NEW x \in TransitionRecords, NEW more, more = Append(entries, x), NEW a
  PROVE  IsOneMore(entries, n, x, more, a)
<1>1. /\ DOMAIN entries = 1 .. n /\ DOMAIN more = 1 .. n + 1
      /\ more[n + 1] = x /\ \A i \in 1 .. n : more[i] = entries[i]
      /\ more \in Seq(TransitionRecords)
  <2> HIDE DEF TransitionRecords
  <2> QED OBVIOUS
<1>2. TellingOf(more, a) = TellingOf(entries, a) \union (IF x.account = a THEN {n + 1} ELSE {})
  BY <1>1 DEF TellingOf
<1>3. TellingOf(entries, a) \subseteq 1 .. n BY <1>1 DEF TellingOf
<1>4. MovesOf(more, a) = MovesOf(entries, a) \union
         (IF x.account = a /\ x.event # "NOMINEE_REGISTERED" THEN {n + 1} ELSE {})
  BY <1>1, <1>2, <1>3 DEF MovesOf
<1>5. CasesOf(more, a) = CasesOf(entries, a) \union
         (IF x.account = a /\ x.event = "SUCCESSION_SUBMITTED" THEN {n + 1} ELSE {})
  BY <1>1, <1>2, <1>3 DEF CasesOf
<1>6. MovesOf(entries, a) \subseteq 1 .. n /\ NamingsOf(entries, a) \subseteq 1 .. n
  BY <1>3 DEF MovesOf, NamingsOf
<1>7. NamingsOf(more, a) = NamingsOf(entries, a) \union
         (IF x.account = a /\ x.event = "NOMINEE_REGISTERED" THEN {n + 1} ELSE {})
  BY <1>2, <1>3, <1>4, <1>6 DEF NamingsOf
<1>8. CasesOf(entries, a) \subseteq MovesOf(entries, a) BY DEF CasesOf, MovesOf
<1> QED BY <1>1, <1>4, <1>5, <1>6, <1>7, <1>8 DEF IsOneMore

\* Nothing before a place changes when the set grows behind it.
LEMMA UntilStays ==
  ASSUME NEW n \in Nat, NEW S, S \subseteq 1 .. n, NEW i \in 1 .. n, NEW T,
         T \subseteq {n + 1}
  PROVE  Until(S \union T, i) = Until(S, i)
<1>1. \A j \in T : ~(j < i) OBVIOUS
<1> QED BY <1>1 DEF Until

\* Everything before the new place is what there was.
LEMMA UntilTheEnd ==
  ASSUME NEW n \in Nat, NEW S, S \subseteq 1 .. n, NEW T, T \subseteq {n + 1}
  PROVE  Until(S \union T, n + 1) = S
<1>1. \A j \in T : ~(j < n + 1) OBVIOUS
<1>2. \A j \in 1 .. n : j < n + 1 OBVIOUS
<1>3. \A j \in S : j < n + 1 BY <1>2
<1> QED BY <1>1, <1>3 DEF Until

\* What the entries so far tell, they tell whatever is appended.
LEMMA TellingStands ==
  ASSUME NEW n \in Nat, NEW entries, NEW more, \A i \in 1 .. n : more[i] = entries[i],
         NEW moves, moves \subseteq 1 .. n, NEW cases, cases \subseteq moves,
         NEW namings, namings \subseteq 1 .. n, NEW case, NEW named,
         Tells(entries, moves, cases, namings, case, named)
  PROVE  Tells(more, moves, cases, namings, case, named)
<1>1. ASSUME NEW S, S \subseteq 1 .. n, S # {}  PROVE more[TheLatest(S)] = entries[TheLatest(S)]
  BY <1>1, LatestExists
<1>2. \A S, i : Until(S, i) \subseteq S BY DEF Until
<1>3. case.state = (IF moves = {} THEN "none" ELSE more[TheLatest(moves)].to) BY <1>1 DEF Tells
<1>4. ASSUME NEW i \in cases, Until(moves, i) # {} PROVE isTerminalState(more[TheLatest(Until(moves, i))].to)
  BY <1>2, <1>1, <1>4 DEF Tells
<1>5. ASSUME NEW i \in moves \ cases
      PROVE  Until(moves, i) # {} /\ more[i].from = more[TheLatest(Until(moves, i))].to
  BY <1>2, <1>5, <1>1 DEF Tells
<1>6. ASSUME cases # {}
      PROVE  /\ Until(namings, TheLatest(cases)) # {}
             /\ case.nominee = more[TheLatest(Until(namings, TheLatest(cases)))].named
  BY <1>2, <1>1, <1>6 DEF Tells
<1>7. \A i \in moves : more[i].to # "none" BY DEF Tells
<1>8. named # Nobody => namings # {} /\ named = more[TheLatest(namings)].named BY <1>1 DEF Tells
<1> QED BY <1>3, <1>4, <1>5, <1>6, <1>7, <1>8 DEF Tells

\* A nominee who is registered is the latest named, and no case looks at him yet.
LEMMA NamingIsTold ==
  ASSUME NEW n \in Nat, NEW entries, NEW moves, moves \subseteq 1 .. n,
         NEW cases, cases \subseteq moves, NEW namings, namings \subseteq 1 .. n,
         NEW case, NEW named, Tells(entries, moves, cases, namings, case, named)
  PROVE  Tells(entries, moves, cases, namings \union {n + 1}, case, entries[n + 1].named)
<1>1. TheLatest(namings \union {n + 1}) = n + 1 BY LastPlaceIsLatest
<1>2. ASSUME cases # {}
      PROVE  /\ Until(namings \union {n + 1}, TheLatest(cases)) # {}
             /\ case.nominee = entries[TheLatest(Until(namings \union {n + 1}, TheLatest(cases)))].named
  <2>1. TheLatest(cases) \in 1 .. n BY <1>2, LatestExists
  <2>2. Until(namings \union {n + 1}, TheLatest(cases)) = Until(namings, TheLatest(cases)) BY <2>1, UntilStays
  <2> QED BY <1>2, <2>2 DEF Tells
<1>3. \A i \in moves : entries[i].to # "none" BY DEF Tells
<1> QED BY <1>1, <1>2, <1>3 DEF Tells

\* What the moves tell of one another stays when one is appended.
MovesStand(n, entries, moves, cases, case) ==
  /\ \A i \in cases : Until(moves \union {n + 1}, i) # {} =>
        isTerminalState(entries[TheLatest(Until(moves \union {n + 1}, i))].to)
  /\ \A i \in moves \ cases :
        /\ Until(moves \union {n + 1}, i) # {}
        /\ entries[i].from = entries[TheLatest(Until(moves \union {n + 1}, i))].to
  /\ Until(moves \union {n + 1}, n + 1) = moves
  /\ TheLatest(moves \union {n + 1}) = n + 1
  /\ moves # {} => case.state = entries[TheLatest(moves)].to /\ case.state # "none"
  /\ moves = {} => case.state = "none"

\* They do: a place looks only at those before it.
LEMMA MovesBeforeStay ==
  ASSUME NEW n \in Nat, NEW entries, NEW moves, moves \subseteq 1 .. n,
         NEW cases, cases \subseteq moves, NEW namings, NEW case, NEW named,
         Tells(entries, moves, cases, namings, case, named)
  PROVE  MovesStand(n, entries, moves, cases, case)
<1>1. \A i \in moves : Until(moves \union {n + 1}, i) = Until(moves, i)
  <2>1. SUFFICES ASSUME NEW i \in moves  PROVE Until(moves \union {n + 1}, i) = Until(moves, i) OBVIOUS
  <2>2. i \in 1 .. n OBVIOUS
  <2> QED BY <2>2, UntilStays
<1>2. moves # {} => TheLatest(moves) \in moves BY LatestExists
<1>3. \A i \in cases : Until(moves \union {n + 1}, i) # {} =>
         isTerminalState(entries[TheLatest(Until(moves \union {n + 1}, i))].to) BY <1>1 DEF Tells
<1>4. \A i \in moves \ cases :
         /\ Until(moves \union {n + 1}, i) # {}
         /\ entries[i].from = entries[TheLatest(Until(moves \union {n + 1}, i))].to BY <1>1 DEF Tells
<1>5. Until(moves \union {n + 1}, n + 1) = moves BY UntilTheEnd
<1>6. TheLatest(moves \union {n + 1}) = n + 1 BY LastPlaceIsLatest
<1>7. moves # {} => case.state = entries[TheLatest(moves)].to /\ case.state # "none" BY <1>2 DEF Tells
<1>8. moves = {} => case.state = "none" BY DEF Tells
<1> QED BY <1>3, <1>4, <1>5, <1>6, <1>7, <1>8 DEF MovesStand

\* A case opens after the last one ended, for the nominee of the day.
LEMMA SubmissionIsTold ==
  ASSUME NEW n \in Nat, NEW entries, NEW moves, moves \subseteq 1 .. n,
         NEW cases, cases \subseteq moves, NEW namings, namings \subseteq 1 .. n,
         NEW case, NEW named, Tells(entries, moves, cases, namings, case, named),
         named # Nobody, case.state = "none" \/ isTerminalState(case.state),
         entries[n + 1].to = "SUBMITTED",
         NEW next, next.state = "SUBMITTED", next.nominee = named
  PROVE  Tells(entries, moves \union {n + 1}, cases \union {n + 1}, namings, next, named)
<1>1. /\ \A i \in cases : Until(moves \union {n + 1}, i) # {} =>
           isTerminalState(entries[TheLatest(Until(moves \union {n + 1}, i))].to)
      /\ \A i \in moves \ cases :
           /\ Until(moves \union {n + 1}, i) # {}
           /\ entries[i].from = entries[TheLatest(Until(moves \union {n + 1}, i))].to
      /\ Until(moves \union {n + 1}, n + 1) = moves
      /\ TheLatest(moves \union {n + 1}) = n + 1
      /\ moves # {} => case.state = entries[TheLatest(moves)].to /\ case.state # "none"
  <2>1. MovesStand(n, entries, moves, cases, case) BY MovesBeforeStay
  <2> QED BY <2>1 DEF MovesStand
<1>2. moves # {} => isTerminalState(entries[TheLatest(moves)].to) BY <1>1
<1>3. TheLatest(cases \union {n + 1}) = n + 1 BY LastPlaceIsLatest
<1>4. Until(namings, n + 1) = namings
  <2>1. Until(namings \union {}, n + 1) = namings BY UntilTheEnd
  <2> QED BY <2>1
<1>5. namings # {} /\ named = entries[TheLatest(namings)].named BY DEF Tells
<1>6. \A i \in moves \union {n + 1} : entries[i].to # "none" BY DEF Tells
<1>7. \A i \in cases \union {n + 1} : Until(moves \union {n + 1}, i) # {} =>
           isTerminalState(entries[TheLatest(Until(moves \union {n + 1}, i))].to) BY <1>1, <1>2
<1>8. \A i \in (moves \union {n + 1}) \ (cases \union {n + 1}) :
           /\ Until(moves \union {n + 1}, i) # {}
           /\ entries[i].from = entries[TheLatest(Until(moves \union {n + 1}, i))].to BY <1>1
<1>9. moves \union {n + 1} # {} /\ next.state = entries[TheLatest(moves \union {n + 1})].to BY <1>1
<1>10. /\ Until(namings, TheLatest(cases \union {n + 1})) # {}
       /\ next.nominee = entries[TheLatest(Until(namings, TheLatest(cases \union {n + 1})))].named
  BY <1>3, <1>4, <1>5
<1> QED BY <1>5, <1>6, <1>7, <1>8, <1>9, <1>10 DEF Tells

\* A request moves on from where it stood.
LEMMA TransitionIsTold ==
  ASSUME NEW n \in Nat, NEW entries, NEW moves, moves \subseteq 1 .. n,
         NEW cases, cases \subseteq moves, NEW namings, namings \subseteq 1 .. n,
         NEW case, NEW named, Tells(entries, moves, cases, namings, case, named),
         case.state # "none", entries[n + 1].from = case.state, entries[n + 1].to # "none",
         NEW next, next.state = entries[n + 1].to, next.nominee = case.nominee
  PROVE  Tells(entries, moves \union {n + 1}, cases, namings, next, named)
<1>1. /\ \A i \in cases : Until(moves \union {n + 1}, i) # {} =>
           isTerminalState(entries[TheLatest(Until(moves \union {n + 1}, i))].to)
      /\ \A i \in moves \ cases :
           /\ Until(moves \union {n + 1}, i) # {}
           /\ entries[i].from = entries[TheLatest(Until(moves \union {n + 1}, i))].to
      /\ Until(moves \union {n + 1}, n + 1) = moves
      /\ TheLatest(moves \union {n + 1}) = n + 1
      /\ moves # {} /\ case.state = entries[TheLatest(moves)].to
  <2>1. MovesStand(n, entries, moves, cases, case) BY MovesBeforeStay
  <2> QED BY <2>1 DEF MovesStand
<1>2. \A i \in (moves \union {n + 1}) \ cases :
           /\ Until(moves \union {n + 1}, i) # {}
           /\ entries[i].from = entries[TheLatest(Until(moves \union {n + 1}, i))].to BY <1>1
<1>3. moves \union {n + 1} # {} /\ next.state = entries[TheLatest(moves \union {n + 1})].to BY <1>1
<1>4. \A i \in moves \union {n + 1} : entries[i].to # "none" BY DEF Tells
<1>5. cases # {} => /\ Until(namings, TheLatest(cases)) # {}
                    /\ next.nominee = entries[TheLatest(Until(namings, TheLatest(cases)))].named BY DEF Tells
<1>6. named # Nobody => namings # {} /\ named = entries[TheLatest(namings)].named BY DEF Tells
<1> QED BY <1>1, <1>2, <1>3, <1>4, <1>5, <1>6 DEF Tells

\* An account that a step does not touch is told as before.
LEMMA OthersAreToldAsBefore ==
  ASSUME NEW entries \in Seq(TransitionRecords), NEW x \in TransitionRecords,
         NEW more, more = Append(entries, x), NEW a, x.account # a, NEW case, NEW named,
         TellsOf(entries, a, case, named)
  PROVE  TellsOf(more, a, case, named)
<1>1. PICK n \in Nat : n = Len(entries) OBVIOUS
<1>2. /\ \A i \in 1 .. n : more[i] = entries[i]
      /\ MovesOf(entries, a) \subseteq 1 .. n /\ CasesOf(entries, a) \subseteq MovesOf(entries, a)
      /\ NamingsOf(entries, a) \subseteq 1 .. n
      /\ MovesOf(more, a) = MovesOf(entries, a) /\ CasesOf(more, a) = CasesOf(entries, a)
      /\ NamingsOf(more, a) = NamingsOf(entries, a)
  <2>1. IsOneMore(entries, n, x, more, a) BY <1>1, OneEntryMore
  <2> QED BY <2>1 DEF IsOneMore
<1> QED BY <1>2, TellingStands DEF TellsOf

SuccessionRecords == [state : SuccessionStates, nominee : Nominees \union {Nobody}]

\* A step tells of one account.
LEMMA OneAccountIsTold ==
  ASSUME SuccessionInv, NEW a \in Customers, NEW x \in TransitionRecords, x.account = a,
         NEW case \in SuccessionRecords, NEW named \in Nominees \union {Nobody},
         NEW more, more = Append(trail, x), trail' = more,
         succession' = [succession EXCEPT ![a] = case], nominee' = [nominee EXCEPT ![a] = named],
         TellsOf(more, a, case, named)
  PROVE  SuccessionInv'
<1>1. trail \in Seq(TransitionRecords) /\ trail' \in Seq(TransitionRecords)
  <2>1. trail \in Seq(TransitionRecords) BY DEF SuccessionInv
  <2> HIDE DEF TransitionRecords
  <2> QED BY <2>1
<1>2. /\ nominee' \in [Customers -> Nominees \union {Nobody}]
      /\ succession' \in [Customers -> SuccessionRecords]
      /\ \A b \in Customers : /\ succession'[b] = IF b = a THEN case ELSE succession[b]
                              /\ nominee'[b] = IF b = a THEN named ELSE nominee[b]
  BY DEF SuccessionInv, SuccessionRecords
<1>3. ASSUME NEW b \in Customers  PROVE TellsOf(trail, b, succession[b], nominee[b])'
  <2>1. PICK c, m : c = succession'[b] /\ m = nominee'[b] OBVIOUS
  <2>2. TellsOf(more, b, c, m)
    <3>1. CASE b = a BY <1>2, <2>1, <3>1
    <3>2. CASE b # a
      <4>1. c = succession[b] /\ m = nominee[b] BY <1>2, <2>1, <3>2
      <4>2. PICK entries \in Seq(TransitionRecords) : entries = trail BY <1>1
      <4>3. TellsOf(entries, b, c, m) BY <4>1, <4>2 DEF SuccessionInv
      <4> QED BY <3>2, <4>2, <4>3, OthersAreToldAsBefore
    <3> QED BY <3>1, <3>2
  <2> QED BY <2>1, <2>2
<1> QED BY <1>1, <1>2, <1>3 DEF SuccessionInv, SuccessionRecords

\* The shape of the registry, for one account.
LEMMA SuccessionShapes ==
  ASSUME SuccessionInv, NEW a \in Customers
  PROVE  /\ succession[a] \in SuccessionRecords /\ nominee[a] \in Nominees \union {Nobody}
         /\ trail \in Seq(TransitionRecords)
         /\ TellsOf(trail, a, succession[a], nominee[a])
         /\ succession = [succession EXCEPT ![a] = succession[a]]
         /\ nominee = [nominee EXCEPT ![a] = nominee[a]] BY DEF SuccessionInv, SuccessionRecords

\* A nominee is registered.
LEMMA RegisterKeepsSuccession == ASSUME SuccessionInv, RegisterNomineeRequest PROVE SuccessionInv'
<1>1. PICK a \in Customers, m \in Nominees : RegisterNominee(a, m) BY DEF RegisterNomineeRequest
<1>2. PICK x : x = [account |-> a, event |-> "NOMINEE_REGISTERED", from |-> "none",
                    to |-> "none", named |-> m] OBVIOUS
<1>3. x \in TransitionRecords /\ x.account = a /\ x.event = "NOMINEE_REGISTERED" /\ x.named = m
  BY <1>2 DEF TransitionRecords, SuccessionStates
<1>4. PICK entries \in Seq(TransitionRecords) : entries = trail BY SuccessionShapes
<1>5. PICK more : more = Append(entries, x) OBVIOUS
<1>6. /\ trail' = more /\ succession' = succession /\ nominee' = [nominee EXCEPT ![a] = m]
  BY <1>1, <1>2, <1>4, <1>5 DEF RegisterNominee, AppendTransition
<1>7. PICK case \in SuccessionRecords, named \in Nominees \union {Nobody} :
        case = succession[a] /\ named = nominee[a] BY SuccessionShapes
<1>8. PICK n \in Nat : n = Len(entries) OBVIOUS
<1>9. IsOneMore(entries, n, x, more, a) BY <1>3, <1>5, <1>8, OneEntryMore
<1>10. PICK moves, cases, namings :
         moves = MovesOf(entries, a) /\ cases = CasesOf(entries, a) /\ namings = NamingsOf(entries, a) OBVIOUS
<1>11. /\ MovesOf(more, a) = moves /\ CasesOf(more, a) = cases
       /\ NamingsOf(more, a) = namings \union {n + 1}
       /\ moves \subseteq 1 .. n /\ cases \subseteq moves /\ namings \subseteq 1 .. n
       /\ \A i \in 1 .. n : more[i] = entries[i]
       /\ more[n + 1] = x BY <1>3, <1>9, <1>10 DEF IsOneMore
<1>12. Tells(entries, moves, cases, namings, case, named) BY <1>4, <1>7, <1>10, SuccessionShapes DEF TellsOf
<1>13. Tells(more, moves, cases, namings, case, named) BY <1>11, <1>12, TellingStands
<1>14. Tells(more, moves, cases, namings \union {n + 1}, case, more[n + 1].named)
  BY <1>11, <1>13, NamingIsTold
<1>15. TellsOf(more, a, case, m) BY <1>3, <1>11, <1>14 DEF TellsOf
<1>16. succession' = [succession EXCEPT ![a] = case] BY <1>6, <1>7, SuccessionShapes
<1> QED BY <1>3, <1>4, <1>5, <1>6, <1>7, <1>15, <1>16, OneAccountIsTold

\* A succession request is submitted.
LEMMA SubmitKeepsSuccession == ASSUME SuccessionInv, SubmitSuccession PROVE SuccessionInv'
<1>1. PICK a \in Customers : SubmitSuccessionRequest(a) BY DEF SubmitSuccession
<1>2. PICK x : x = [account |-> a, event |-> "SUCCESSION_SUBMITTED", from |-> "none",
                    to |-> "SUBMITTED", named |-> Nobody] OBVIOUS
<1>3. x \in TransitionRecords /\ x.account = a /\ x.event = "SUCCESSION_SUBMITTED" /\ x.to = "SUBMITTED"
  BY <1>2 DEF TransitionRecords, SuccessionStates
<1>4. PICK entries \in Seq(TransitionRecords) : entries = trail BY SuccessionShapes
<1>5. PICK more : more = Append(entries, x) OBVIOUS
<1>6. PICK case \in SuccessionRecords, named \in Nominees \union {Nobody} :
        case = succession[a] /\ named = nominee[a] BY SuccessionShapes
<1>7. PICK next : next = [state |-> "SUBMITTED", nominee |-> named] OBVIOUS
<1>8. /\ next \in SuccessionRecords /\ next.state = "SUBMITTED" /\ next.nominee = named
      /\ named # Nobody /\ (case.state = "none" \/ isTerminalState(case.state))
  BY <1>1, <1>6, <1>7 DEF SuccessionRecords, SuccessionStates, SubmitSuccessionRequest
<1>9. /\ trail' = more /\ succession' = [succession EXCEPT ![a] = next] /\ nominee' = nominee
  BY <1>1, <1>2, <1>4, <1>5, <1>6, <1>7 DEF SubmitSuccessionRequest, AppendTransition
<1>10. PICK n \in Nat : n = Len(entries) OBVIOUS
<1>11. IsOneMore(entries, n, x, more, a) BY <1>3, <1>5, <1>10, OneEntryMore
<1>12. PICK moves, cases, namings :
         moves = MovesOf(entries, a) /\ cases = CasesOf(entries, a) /\ namings = NamingsOf(entries, a) OBVIOUS
<1>13. /\ MovesOf(more, a) = moves \union {n + 1} /\ CasesOf(more, a) = cases \union {n + 1}
       /\ NamingsOf(more, a) = namings
       /\ moves \subseteq 1 .. n /\ cases \subseteq moves /\ namings \subseteq 1 .. n
       /\ \A i \in 1 .. n : more[i] = entries[i]
       /\ more[n + 1] = x BY <1>3, <1>11, <1>12 DEF IsOneMore
<1>14. Tells(entries, moves, cases, namings, case, named) BY <1>4, <1>6, <1>12, SuccessionShapes DEF TellsOf
<1>15. Tells(more, moves, cases, namings, case, named) BY <1>13, <1>14, TellingStands
<1>16. more[n + 1].to = "SUBMITTED" BY <1>3, <1>13
<1>17. Tells(more, moves \union {n + 1}, cases \union {n + 1}, namings, next, named)
  BY <1>8, <1>13, <1>15, <1>16, SubmissionIsTold
<1>18. TellsOf(more, a, next, named) BY <1>13, <1>17 DEF TellsOf
<1>19. nominee' = [nominee EXCEPT ![a] = named] BY <1>6, <1>9, SuccessionShapes
<1> QED BY <1>3, <1>4, <1>5, <1>6, <1>8, <1>9, <1>18, <1>19, OneAccountIsTold

\* A request moves on.
LEMMA TransitionKeepsSuccession == ASSUME SuccessionInv, SuccessionTransition PROVE SuccessionInv'
<1>1. PICK a \in Customers, from \in SuccessionStates \ {"none"}, to \in SuccessionStates \ {"none"} :
        Transition(a, from, to)
  BY DEF SuccessionTransition, MoveToUnderReview, Approve, MarkTransferred, Reject, SuccessionStates
<1>2. PICK x : x = [account |-> a, event |-> to, from |-> from, to |-> to, named |-> Nobody] OBVIOUS
<1>3. /\ x \in TransitionRecords /\ x.account = a /\ x.from = from /\ x.to = to
      /\ x.event # "NOMINEE_REGISTERED" /\ x.event # "SUCCESSION_SUBMITTED"
  BY <1>2 DEF TransitionRecords, SuccessionStates
<1>4. PICK entries \in Seq(TransitionRecords) : entries = trail BY SuccessionShapes
<1>5. PICK more : more = Append(entries, x) OBVIOUS
<1>6. PICK case \in SuccessionRecords, named \in Nominees \union {Nobody} :
        case = succession[a] /\ named = nominee[a] BY SuccessionShapes
<1>7. PICK next : next = [case EXCEPT !.state = to] OBVIOUS
<1>8. /\ next \in SuccessionRecords /\ next.state = to /\ next.nominee = case.nominee
      /\ case.state = from /\ case.state # "none" BY <1>1, <1>6, <1>7 DEF SuccessionRecords, Transition
<1>9. /\ trail' = more /\ succession' = [succession EXCEPT ![a] = next] /\ nominee' = nominee
  BY <1>1, <1>2, <1>4, <1>5, <1>6, <1>7 DEF Transition, AppendTransition
<1>10. PICK n \in Nat : n = Len(entries) OBVIOUS
<1>11. IsOneMore(entries, n, x, more, a) BY <1>3, <1>5, <1>10, OneEntryMore
<1>12. PICK moves, cases, namings :
         moves = MovesOf(entries, a) /\ cases = CasesOf(entries, a) /\ namings = NamingsOf(entries, a) OBVIOUS
<1>13. /\ MovesOf(more, a) = moves \union {n + 1} /\ CasesOf(more, a) = cases
       /\ NamingsOf(more, a) = namings
       /\ moves \subseteq 1 .. n /\ cases \subseteq moves /\ namings \subseteq 1 .. n
       /\ \A i \in 1 .. n : more[i] = entries[i]
       /\ more[n + 1] = x BY <1>3, <1>11, <1>12 DEF IsOneMore
<1>14. Tells(entries, moves, cases, namings, case, named) BY <1>4, <1>6, <1>12, SuccessionShapes DEF TellsOf
<1>15. Tells(more, moves, cases, namings, case, named) BY <1>13, <1>14, TellingStands
<1>16. more[n + 1].from = case.state /\ more[n + 1].to = to /\ more[n + 1].to # "none"
  BY <1>1, <1>3, <1>8, <1>13
<1>17. Tells(more, moves \union {n + 1}, cases, namings, next, named)
  BY <1>8, <1>13, <1>15, <1>16, TransitionIsTold
<1>18. TellsOf(more, a, next, named) BY <1>13, <1>17 DEF TellsOf
<1>19. nominee' = [nominee EXCEPT ![a] = named] BY <1>6, <1>9, SuccessionShapes
<1> QED BY <1>3, <1>4, <1>5, <1>6, <1>8, <1>9, <1>18, <1>19, OneAccountIsTold

\* So the trail tells every case, after every step.
LEMMA SuccessionNextKeeps == ASSUME SuccessionInv, SuccessionNext PROVE SuccessionInv'
BY RegisterKeepsSuccession, SubmitKeepsSuccession, TransitionKeepsSuccession DEF SuccessionNext

\* With nothing in the trail nothing is told, and no account has a case.
LEMMA SuccessionStarts == ASSUME SuccessionInit PROVE SuccessionInv
<1>1. /\ nominee \in [Customers -> Nominees \union {Nobody}]
      /\ succession \in [Customers -> SuccessionRecords] /\ trail \in Seq(TransitionRecords)
  BY DEF SuccessionInit, SuccessionRecords, SuccessionStates
<1>2. ASSUME NEW a \in Customers  PROVE TellsOf(trail, a, succession[a], nominee[a])
  BY DEF SuccessionInit, MovesOf, CasesOf, NamingsOf, TellingOf, TellsOf, Tells
<1> QED BY <1>1, <1>2 DEF SuccessionInv, SuccessionRecords

\* What the trail tells of an account is where the registry has it.
LEMMA ToldIsTheWholeCase == ASSUME SuccessionInv PROVE TrailTellsTheWholeCase
<1>1. SUFFICES ASSUME NEW a \in Customers
               PROVE  LET entries == AuditTrailForAccount(a)
                          Cases == {i \in entries : trail[i].event = "SUCCESSION_SUBMITTED"}
                          Steps == {i \in entries : trail[i].event # "NOMINEE_REGISTERED"}
                          Before(S, i) == {j \in S : j < i}
                          LatestOf(S) == CHOOSE i \in S : \A j \in S : j <= i
                      IN /\ succession[a].state = (IF Steps = {} THEN "none" ELSE trail[LatestOf(Steps)].to)
                         /\ \A i \in Cases : Before(Steps, i) # {} =>
                               isTerminalState(trail[LatestOf(Before(Steps, i))].to)
                         /\ \A i \in Steps \ Cases :
                               /\ Before(Steps, i) # {}
                               /\ trail[i].from = trail[LatestOf(Before(Steps, i))].to
                         /\ Cases # {} => succession[a].nominee =
                               trail[LatestOf(Before(entries \ Steps, LatestOf(Cases)))].named
  BY DEF TrailTellsTheWholeCase
<1>2. TellsOf(trail, a, succession[a], nominee[a]) BY SuccessionShapes
<1> QED
  BY <1>2, Zenon DEF TellsOf, Tells, MovesOf, CasesOf, NamingsOf, TellingOf, Until, TheLatest,
                     AuditTrailForAccount

--------------------
(* backoffice: the support tickets. *)

TicketRecords ==
  [account : Customers, status : {"open", "in-progress", "resolved", "closed"},
   agent : Agents \union {Nobody}, thread : Seq({"customer", "agent"}), resolvedAt : Nat]

\* What was written after a ticket was resolved is an agent's, and a ticket nobody was
\* given has heard from its customer only.
TicketIsInOrder(ticket) ==
  /\ ticket.status \in {"resolved", "closed"} =>
        \A i \in ticket.resolvedAt + 1 .. Len(ticket.thread) : ticket.thread[i] = "agent"
  /\ ticket.agent = Nobody => \A i \in DOMAIN ticket.thread : ticket.thread[i] = "customer"

TicketInv ==
  /\ tickets \in Seq(TicketRecords)
  /\ \A t \in DOMAIN tickets : TicketIsInOrder(tickets[t])

\* One more message, by whoever writes.
LEMMA OneMoreMessage ==
  ASSUME NEW ticket \in TicketRecords, NEW writer \in {"customer", "agent"},
         NEW thread, thread = Append(ticket.thread, writer)
  PROVE  /\ thread \in Seq({"customer", "agent"}) /\ Len(thread) = Len(ticket.thread) + 1
         /\ Len(ticket.thread) \in Nat
         /\ DOMAIN thread = 1 .. Len(ticket.thread) + 1
         /\ DOMAIN ticket.thread = 1 .. Len(ticket.thread)
         /\ thread[Len(ticket.thread) + 1] = writer
         /\ \A i \in 1 .. Len(ticket.thread) : thread[i] = ticket.thread[i]
<1>1. PICK old \in Seq({"customer", "agent"}) : old = ticket.thread BY DEF TicketRecords
<1>2. thread = Append(old, writer) BY <1>1
<1> QED BY <1>1, <1>2

\* The invariant when one ticket is replaced by another that is in order.
LEMMA OneTicketChanges ==
  ASSUME TicketInv, NEW t \in DOMAIN tickets, NEW ticket \in TicketRecords,
         TicketIsInOrder(ticket), tickets' = [tickets EXCEPT ![t] = ticket]
  PROVE  TicketInv'
<1>1. tickets' \in Seq(TicketRecords) /\ DOMAIN tickets' = DOMAIN tickets
  <2>1. tickets \in Seq(TicketRecords) BY DEF TicketInv
  <2> HIDE DEF TicketRecords
  <2> QED BY <2>1
<1>2. \A u \in DOMAIN tickets : tickets'[u] = IF u = t THEN ticket ELSE tickets[u] OBVIOUS
<1>3. (\A u \in DOMAIN tickets : TicketIsInOrder(tickets[u]))'
  <2>1. \A u \in DOMAIN tickets : TicketIsInOrder(tickets[u]) BY DEF TicketInv
  <2>2. SUFFICES ASSUME NEW u \in DOMAIN tickets  PROVE TicketIsInOrder(tickets[u])' BY <1>1
  <2>3. PICK x : x = tickets'[u] OBVIOUS
  <2>4. TicketIsInOrder(x) BY <1>2, <2>1, <2>3
  <2> QED BY <2>3, <2>4 DEF TicketIsInOrder
<1> QED BY <1>1, <1>3 DEF TicketInv

\* Every ticket of the queue.
LEMMA TicketsAreRecords ==
  ASSUME TicketInv, NEW t \in DOMAIN tickets PROVE tickets[t] \in TicketRecords /\ TicketIsInOrder(tickets[t])
<1>1. tickets \in Seq(TicketRecords) BY DEF TicketInv
<1>2. tickets[t] \in TicketRecords
  <2> HIDE DEF TicketRecords
  <2> QED BY <1>1
<1> QED BY <1>2 DEF TicketInv

\* A new ticket carries its customer's words alone.
LEMMA CreateKeepsTickets == ASSUME TicketInv, CreateTicketRequest PROVE TicketInv'
<1>1. PICK a \in Customers : CreateTicket(a) BY DEF CreateTicketRequest
<1>2. PICK x : x = [account |-> a, status |-> "open", agent |-> Nobody,
                    thread |-> <<"customer">>, resolvedAt |-> 0] OBVIOUS
<1>3. x \in TicketRecords /\ TicketIsInOrder(x) BY <1>2 DEF TicketRecords, TicketIsInOrder
<1>4. tickets' = Append(tickets, x) BY <1>1, <1>2 DEF CreateTicket
<1>5. tickets \in Seq(TicketRecords) BY DEF TicketInv
<1>6. PICK n \in Nat : n = Len(tickets) BY <1>5
<1>7. /\ tickets' \in Seq(TicketRecords) /\ DOMAIN tickets' = 1 .. n + 1
      /\ DOMAIN tickets = 1 .. n
      /\ \A u \in 1 .. n + 1 : tickets'[u] = IF u \in 1 .. n THEN tickets[u] ELSE x
  <2> HIDE DEF TicketRecords
  <2> QED BY <1>3, <1>4, <1>5, <1>6
<1>8. (\A u \in DOMAIN tickets : TicketIsInOrder(tickets[u]))'
  <2>1. \A u \in 1 .. n : TicketIsInOrder(tickets[u]) BY <1>7 DEF TicketInv
  <2>2. SUFFICES ASSUME NEW u \in 1 .. n + 1  PROVE TicketIsInOrder(tickets[u])' BY <1>7
  <2>3. PICK y : y = tickets'[u] OBVIOUS
  <2>4. TicketIsInOrder(y) BY <1>3, <1>7, <2>1, <2>3
  <2> QED BY <2>3, <2>4 DEF TicketIsInOrder
<1> QED BY <1>7, <1>8 DEF TicketInv

\* A customer who writes opens the ticket again; its agent has nothing to do with it.
LEMMA CustomerKeepsTickets == ASSUME TicketInv, CustomerMessageRequest PROVE TicketInv'
<1>1. PICK t \in DOMAIN tickets, a \in Customers : AddCustomerMessage(t, a) BY DEF CustomerMessageRequest
<1>2. PICK old \in TicketRecords : old = tickets[t] /\ TicketIsInOrder(old) BY TicketsAreRecords
<1>3. PICK thread : thread = Append(old.thread, "customer") OBVIOUS
<1>4. PICK status : status = IF old.status = "resolved" THEN "in-progress" ELSE old.status OBVIOUS
<1>5. PICK x : x = [old EXCEPT !.status = status, !.thread = thread] OBVIOUS
<1>6. tickets' = [tickets EXCEPT ![t] = x]
  BY <1>1, <1>2, <1>3, <1>4, <1>5 DEF AddCustomerMessage, TicketRecords
<1>7. old.status # "closed" BY <1>1, <1>2 DEF AddCustomerMessage
<1>8. thread \in Seq({"customer", "agent"}) /\ status \in {"open", "in-progress"}
  BY <1>3, <1>4, <1>7, OneMoreMessage DEF TicketRecords
<1>9. x \in TicketRecords /\ x.status \in {"open", "in-progress"} /\ x.thread = thread /\ x.agent = old.agent
  BY <1>5, <1>8 DEF TicketRecords
<1>10. TicketIsInOrder(x)
  <2>1. ASSUME x.agent = Nobody, NEW i \in DOMAIN x.thread  PROVE x.thread[i] = "customer"
    <3>1. \A j \in DOMAIN old.thread : old.thread[j] = "customer" BY <1>2, <1>9, <2>1 DEF TicketIsInOrder
    <3>2. PICK n \in Nat : n = Len(old.thread) BY <1>2, <1>3, OneMoreMessage
    <3>3. /\ DOMAIN thread = 1 .. n + 1 /\ DOMAIN old.thread = 1 .. n
          /\ thread[n + 1] = "customer" /\ \A j \in 1 .. n : thread[j] = old.thread[j]
      BY <1>3, <3>2, OneMoreMessage
    <3> QED BY <1>9, <2>1, <3>1, <3>2, <3>3
  <2> QED BY <1>9, <2>1 DEF TicketIsInOrder
<1> QED BY <1>6, <1>9, <1>10, OneTicketChanges

\* An agent who replies has the ticket if nobody had it.
LEMMA ReplyKeepsTickets == ASSUME TicketInv, AgentReplyRequest PROVE TicketInv'
<1>1. PICK t \in DOMAIN tickets, g \in Agents : AddAgentReply(t, g) BY DEF AgentReplyRequest
<1>2. PICK old \in TicketRecords : old = tickets[t] /\ TicketIsInOrder(old) BY TicketsAreRecords
<1>3. PICK thread : thread = Append(old.thread, "agent") OBVIOUS
<1>4. PICK status : status = IF old.status = "open" THEN "in-progress" ELSE old.status OBVIOUS
<1>5. PICK agent : agent = IF old.agent = Nobody THEN g ELSE old.agent OBVIOUS
<1>6. PICK x : x = [old EXCEPT !.status = status, !.agent = agent, !.thread = thread] OBVIOUS
<1>7. tickets' = [tickets EXCEPT ![t] = x]
  BY <1>1, <1>2, <1>3, <1>4, <1>5, <1>6 DEF AddAgentReply, TicketRecords
<1>8. /\ thread \in Seq({"customer", "agent"}) /\ status \in {"open", "in-progress", "resolved", "closed"}
      /\ agent \in Agents /\ agent # Nobody
  BY <1>2, <1>3, <1>4, <1>5, OneMoreMessage, BackofficeAssumption DEF TicketRecords
<1>9. /\ x \in TicketRecords /\ x.status = status /\ x.resolvedAt = old.resolvedAt
      /\ x.thread = thread /\ x.agent = agent /\ old.resolvedAt \in Nat BY <1>6, <1>8 DEF TicketRecords
<1>10. TicketIsInOrder(x)
  <2>1. ASSUME x.status \in {"resolved", "closed"}, NEW i \in x.resolvedAt + 1 .. Len(x.thread)
        PROVE  x.thread[i] = "agent"
    <3>1. \A j \in old.resolvedAt + 1 .. Len(old.thread) : old.thread[j] = "agent"
      BY <1>2, <1>4, <1>9, <2>1 DEF TicketIsInOrder
    <3>2. PICK n \in Nat : n = Len(old.thread) BY <1>2, <1>3, OneMoreMessage
    <3>3. /\ Len(thread) = n + 1 /\ thread[n + 1] = "agent"
          /\ \A j \in 1 .. n : thread[j] = old.thread[j] BY <1>3, <3>2, OneMoreMessage
    <3>4. PICK from \in Nat : from = old.resolvedAt BY <1>9
    <3>5. i \in from + 1 .. n + 1 BY <1>9, <2>1, <3>3, <3>4
    <3>6. \A j \in from + 1 .. n : thread[j] = "agent" BY <3>1, <3>2, <3>3, <3>4
    <3> QED BY <1>9, <3>2, <3>3, <3>4, <3>5, <3>6
  <2> QED BY <1>8, <1>9, <2>1 DEF TicketIsInOrder
<1> QED BY <1>7, <1>9, <1>10, OneTicketChanges

\* A ticket that is given to an agent.
LEMMA AssignKeepsTickets == ASSUME TicketInv, AssignAgentRequest PROVE TicketInv'
<1>1. PICK t \in DOMAIN tickets, g \in Agents : AssignAgent(t, g) BY DEF AssignAgentRequest
<1>2. PICK old \in TicketRecords : old = tickets[t] /\ TicketIsInOrder(old) BY TicketsAreRecords
<1>3. PICK x : x = [old EXCEPT !.agent = g] OBVIOUS
<1>4. tickets' = [tickets EXCEPT ![t] = x] BY <1>1, <1>2, <1>3 DEF AssignAgent, TicketRecords
<1>5. /\ x \in TicketRecords /\ x.status = old.status /\ x.resolvedAt = old.resolvedAt
      /\ x.thread = old.thread /\ x.agent = g /\ g # Nobody BY <1>3, BackofficeAssumption DEF TicketRecords
<1>6. TicketIsInOrder(x) BY <1>2, <1>5 DEF TicketIsInOrder
<1> QED BY <1>4, <1>5, <1>6, OneTicketChanges

\* A ticket that is resolved has heard everything, and only such a one is closed.
LEMMA TransitionKeepsTickets == ASSUME TicketInv, TransitionStatusRequest PROVE TicketInv'
<1>1. PICK t \in DOMAIN tickets, status \in {"in-progress", "resolved", "closed"} :
         TransitionStatus(t, status) BY DEF TransitionStatusRequest
<1>2. PICK old \in TicketRecords : old = tickets[t] /\ TicketIsInOrder(old) BY TicketsAreRecords
<1>3. PICK mark : mark = IF status = "resolved" THEN Len(old.thread) ELSE old.resolvedAt OBVIOUS
<1>4. PICK x : x = [old EXCEPT !.status = status, !.resolvedAt = mark] OBVIOUS
<1>5. tickets' = [tickets EXCEPT ![t] = x] BY <1>1, <1>2, <1>3, <1>4 DEF TransitionStatus, TicketRecords
<1>6. Len(old.thread) \in Nat /\ mark \in Nat BY <1>3 DEF TicketRecords
<1>7. /\ x \in TicketRecords /\ x.status = status /\ x.resolvedAt = mark
      /\ x.thread = old.thread /\ x.agent = old.agent BY <1>4, <1>6 DEF TicketRecords
<1>8. status = "closed" => old.status = "resolved"
  BY <1>1, <1>2 DEF TransitionStatus, allowedStatusTransitions
<1>9. TicketIsInOrder(x)
  <2>1. CASE status = "resolved" BY <1>2, <1>3, <1>6, <1>7, <2>1 DEF TicketIsInOrder
  <2>2. CASE status # "resolved" BY <1>2, <1>3, <1>7, <1>8, <2>2 DEF TicketIsInOrder
  <2> QED BY <2>1, <2>2
<1> QED BY <1>5, <1>7, <1>9, OneTicketChanges

\* So every request on the tickets keeps them in order, and nothing was closed over.
LEMMA TicketNextKeeps == ASSUME TicketInv, TicketNext PROVE TicketInv'
BY CreateKeepsTickets, CustomerKeepsTickets, ReplyKeepsTickets, AssignKeepsTickets,
   TransitionKeepsTickets DEF TicketNext

\* Tickets in order are not closed over a message, and not answered and unassigned at once.
LEMMA TicketsInOrderAreNotClosedOver == ASSUME TicketInv PROVE NoMessageIsClosedOver
BY DEF TicketInv, TicketIsInOrder, NoMessageIsClosedOver, UnassignedOpenTickets

--------------------
(* backoffice: the referral rewards. *)

CheckRecords == [stage : {"idle", "linked", "qualified", "credited"}, account : Customers \union {Nobody}]

\* The account's one request: it posts only what was not posted, and a credit is
\* marked or about to be.
Once(a) ==
  /\ credits[a] <= 1
  /\ \A c, d \in Checks : check[c].account = a /\ check[d].account = a => c = d
  /\ \A c \in Checks : check[c].account = a /\ check[c].stage # "credited" => credits[a] = 0
  /\ credits[a] = 1 => \/ a \in rewarded
                        \/ \E c \in Checks : check[c].account = a /\ check[c].stage = "credited"

ReferralInv ==
  /\ hasCode \subseteq Customers /\ rewarded \subseteq Customers
  /\ referrer \in [Customers -> Customers \union {Nobody}]
  /\ check \in [Checks -> CheckRecords] /\ credits \in [Customers -> Nat]
  /\ \A a \in Customers : referrer[a] # Nobody => referrer[a] \in hasCode \ {a}
  /\ \A c \in Checks :
        /\ check[c].stage = "idle" => check[c].account = Nobody
        /\ check[c].stage # "idle" =>
              check[c].account \in Customers /\ referrer[check[c].account] # Nobody
        /\ check[c].stage = "credited" => credits[check[c].account] >= 1
  /\ \A a \in Customers : credits[a] > 0 => referrer[a] # Nobody
  /\ \A a \in rewarded : credits[a] >= 1
  /\ \A a \in Customers \ (overlapped \union unanswered) : Once(a)

\* One request moves to another stage, and the others stay.
LEMMA OneCheckMoves ==
  ASSUME check \in [Checks -> CheckRecords], NEW c \in Checks, NEW next \in CheckRecords,
         check' = [check EXCEPT ![c] = next]
  PROVE  /\ check' \in [Checks -> CheckRecords]
         /\ \A d \in Checks : check'[d] = IF d = c THEN next ELSE check[d]
<1>1. check' \in [Checks -> CheckRecords]
  <2> HIDE DEF CheckRecords
  <2> QED OBVIOUS
<1>2. \A d \in Checks : check'[d] = IF d = c THEN next ELSE check[d] OBVIOUS
<1> QED BY <1>1, <1>2

\* A request that ends, having posted nothing or having marked what it posted.
LEMMA EndingKeepsReferrals ==
  ASSUME ReferralInv, NEW c \in Checks, Ends(c),
         \/ check[c].stage # "credited" /\ rewarded' = rewarded
         \/ check[c].stage = "credited" /\ rewarded' = rewarded \union {check[c].account},
         UNCHANGED <<hasCode, referrer, credits, overlapped, unanswered>>
  PROVE  ReferralInv'
<1>1. PICK next : next = [stage |-> "idle", account |-> Nobody] OBVIOUS
<1>2. next \in CheckRecords /\ next.stage = "idle" /\ next.account = Nobody BY <1>1 DEF CheckRecords
<1>3. /\ check' \in [Checks -> CheckRecords]
      /\ \A d \in Checks : check'[d] = IF d = c THEN next ELSE check[d]
  BY <1>1, <1>2, OneCheckMoves DEF Ends, ReferralInv
<1>4. check[c] \in CheckRecords /\ Nobody \notin Customers BY BackofficeAssumption DEF ReferralInv
<1>5. /\ rewarded' \subseteq Customers /\ rewarded \subseteq rewarded'
      /\ \A a \in rewarded' : credits[a] >= 1
      /\ check[c].stage = "credited" => check[c].account \in rewarded' BY DEF ReferralInv
<1>6. ASSUME NEW a \in Customers \ (overlapped' \union unanswered')  PROVE Once(a)'
  <2>1. Once(a) /\ credits'[a] = credits[a] BY <1>6 DEF ReferralInv
  <2>2. \A d \in Checks : check'[d].account = a => d # c /\ check[d] = check'[d] BY <1>2, <1>3, <1>4
  <2>3. credits[a] = 1 /\ a \notin rewarded' =>
            \E d \in Checks : check'[d].account = a /\ check'[d].stage = "credited"
    BY <1>3, <1>5, <2>1 DEF Once
  <2> QED BY <2>1, <2>2, <2>3 DEF Once
<1>7. (\A d \in Checks :
          /\ check[d].stage = "idle" => check[d].account = Nobody
          /\ check[d].stage # "idle" =>
                check[d].account \in Customers /\ referrer[check[d].account] # Nobody
          /\ check[d].stage = "credited" => credits[check[d].account] >= 1)' BY <1>2, <1>3 DEF ReferralInv
<1> QED BY <1>3, <1>5, <1>6, <1>7 DEF ReferralInv

\* A code is handed out, or a referral recorded, once.
LEMMA CodesKeepReferrals ==
  ASSUME ReferralInv, GenerateCodeRequest \/ RecordReferralRequest PROVE ReferralInv'
<1>1. /\ hasCode \subseteq hasCode' /\ hasCode' \subseteq Customers
      /\ referrer' \in [Customers -> Customers \union {Nobody}]
      /\ \A a \in Customers : referrer[a] # Nobody => referrer'[a] # Nobody
      /\ \A a \in Customers : referrer'[a] # Nobody => referrer'[a] \in hasCode' \ {a}
      /\ UNCHANGED <<rewarded, check, credits, overlapped, unanswered>>
  <2>1. CASE GenerateCodeRequest BY <2>1 DEF GenerateCodeRequest, GenerateReferralCode, ReferralInv
  <2>2. CASE RecordReferralRequest
    <3>1. PICK r \in Customers, a \in Customers : RecordReferral(r, a) BY <2>2 DEF RecordReferralRequest
    <3>2. r # Nobody BY BackofficeAssumption
    <3> QED BY <3>1, <3>2 DEF RecordReferral, ReferralInv
  <2> QED BY <2>1, <2>2
<1>2. ASSUME NEW a, Once(a)  PROVE Once(a)' BY <1>1, <1>2 DEF Once
<1> QED BY <1>1, <1>2 DEF ReferralInv

\* A request reads a link that is not rewarded: no other is under way, and then
\* nothing was posted, or the account is one of those two were under way for.
LEMMA ReadingKeepsReferrals == ASSUME ReferralInv, NEW c \in Checks, CheckReadsTheLink(c) PROVE ReferralInv'
<1>1. PICK a \in Customers :
        /\ check[c].stage = "idle" /\ referrer[a] # Nobody /\ a \notin rewarded
        /\ check' = [check EXCEPT ![c] = [stage |-> "linked", account |-> a]]
        /\ overlapped' = IF \E d \in Checks : check[d].account = a
                         THEN overlapped \union {a} ELSE overlapped
        /\ UNCHANGED <<hasCode, referrer, rewarded, credits, unanswered>> BY DEF CheckReadsTheLink
<1>2. PICK next : next = [stage |-> "linked", account |-> a] OBVIOUS
<1>3. next \in CheckRecords /\ next.stage = "linked" /\ next.account = a BY <1>2 DEF CheckRecords
<1>4. /\ check' \in [Checks -> CheckRecords]
      /\ \A d \in Checks : check'[d] = IF d = c THEN next ELSE check[d]
  BY <1>1, <1>2, <1>3, OneCheckMoves DEF ReferralInv
<1>5. check[c].account = Nobody /\ Nobody \notin Customers BY <1>1, BackofficeAssumption DEF ReferralInv
<1>6. ASSUME NEW b \in Customers \ (overlapped' \union unanswered')  PROVE Once(b)'
  <2>1. Once(b) /\ credits' = credits /\ rewarded' = rewarded BY <1>1, <1>6 DEF ReferralInv
  <2>2. CASE b = a
    <3>1. \A d \in Checks : check[d].account # a BY <1>1, <1>6, <2>2
    <3>2. credits[b] = 0
      <4>1. credits[b] # 1 /\ credits[b] <= 1 /\ credits[b] \in Nat
        BY <1>1, <2>1, <2>2, <3>1 DEF Once, ReferralInv
      <4> QED BY <4>1
    <3>3. \A d \in Checks : check'[d].account = b => d = c BY <1>4, <2>2, <3>1
    <3> QED BY <2>1, <2>2, <3>2, <3>3 DEF Once
  <2>3. CASE b # a
    <3>1. \A d \in Checks : check'[d].account = b => d # c /\ check'[d] = check[d] BY <1>3, <1>4, <2>3
    <3>2. \A d \in Checks : check[d].account = b => check'[d] = check[d] BY <1>4, <1>5, <1>6
    <3>3. credits'[b] = 1 => \/ b \in rewarded'
                             \/ \E d \in Checks : check'[d].account = b /\ check'[d].stage = "credited"
      BY <2>1, <3>2 DEF Once
    <3> QED BY <2>1, <3>1, <3>3 DEF Once
  <2> QED BY <2>2, <2>3
<1>7. (\A d \in Checks :
          /\ check[d].stage = "idle" => check[d].account = Nobody
          /\ check[d].stage # "idle" =>
                check[d].account \in Customers /\ referrer[check[d].account] # Nobody
          /\ check[d].stage = "credited" => credits[check[d].account] >= 1)'
  BY <1>1, <1>3, <1>4 DEF ReferralInv
<1> QED BY <1>1, <1>4, <1>6, <1>7 DEF ReferralInv

\* A request goes on, or posts the credit: the account's one request does so once.
LEMMA GoingOnKeepsReferrals ==
  ASSUME ReferralInv, NEW c \in Checks, NEW stage \in {"qualified", "credited"},
         check[c].stage \in {"linked", "qualified"},
         check' = [check EXCEPT ![c].stage = stage],
         credits' = IF stage = "credited"
                    THEN [credits EXCEPT ![check[c].account] = @ + 1] ELSE credits,
         UNCHANGED <<hasCode, referrer, rewarded, overlapped, unanswered>>
  PROVE  ReferralInv'
<1>1. PICK a : a = check[c].account OBVIOUS
<1>2. check[c] \in CheckRecords /\ a \in Customers /\ referrer[a] # Nobody /\ check[c].stage # "credited"
  BY <1>1 DEF ReferralInv
<1>3. PICK next : next = [check[c] EXCEPT !.stage = stage] OBVIOUS
<1>4. next \in CheckRecords /\ next.stage = stage /\ next.account = a BY <1>1, <1>2, <1>3 DEF CheckRecords
<1>5. check' = [check EXCEPT ![c] = next] BY <1>2, <1>3
<1>6. /\ check' \in [Checks -> CheckRecords]
      /\ \A d \in Checks : check'[d] = IF d = c THEN next ELSE check[d]
  BY <1>4, <1>5, OneCheckMoves DEF ReferralInv
<1>7. /\ credits \in [Customers -> Nat] /\ credits' \in [Customers -> Nat]
      /\ \A b \in Customers :
            credits'[b] = IF b = a /\ stage = "credited" THEN credits[b] + 1 ELSE credits[b]
  BY <1>1, <1>2 DEF ReferralInv
<1>8. \A b \in Customers : credits[b] \in Nat /\ credits'[b] \in Nat /\ credits'[b] >= credits[b] BY <1>7
<1>9. ASSUME NEW b \in Customers \ (overlapped' \union unanswered')  PROVE Once(b)'
  <2>1. Once(b) /\ rewarded' = rewarded BY <1>9 DEF ReferralInv
  <2>2. \A d \in Checks : check'[d].account = check[d].account BY <1>1, <1>4, <1>6
  <2>3. CASE b = a
    <3>1. credits[b] = 0 /\ \A d \in Checks : check'[d].account = b => d = c
      BY <1>1, <1>2, <2>1, <2>2, <2>3 DEF Once
    <3>2. /\ credits'[b] = IF stage = "credited" THEN 1 ELSE 0
          /\ check'[c].account = b /\ check'[c].stage = stage
      <4>1. check'[c].account = b /\ check'[c].stage = stage BY <1>4, <1>6, <2>3
      <4>2. credits'[b] = IF stage = "credited" THEN 1 ELSE 0 BY <1>7, <2>3, <3>1
      <4> QED BY <4>1, <4>2
    <3> QED BY <2>1, <2>3, <3>1, <3>2 DEF Once
  <2>4. CASE b # a
    <3>1. credits'[b] = credits[b] BY <1>7, <2>4
    <3>2. \A d \in Checks : check[d].account = b => check'[d] = check[d] BY <1>1, <1>6, <2>4
    <3>3. credits'[b] = 1 => \/ b \in rewarded'
                             \/ \E d \in Checks : check'[d].account = b /\ check'[d].stage = "credited"
      BY <2>1, <3>1, <3>2 DEF Once
    <3> QED BY <2>1, <2>2, <3>1, <3>2, <3>3 DEF Once
  <2> QED BY <2>3, <2>4
<1>10. (\A d \in Checks :
           /\ check[d].stage = "idle" => check[d].account = Nobody
           /\ check[d].stage # "idle" =>
                 check[d].account \in Customers /\ referrer[check[d].account] # Nobody
           /\ check[d].stage = "credited" => credits[check[d].account] >= 1)'
  <2>1. SUFFICES ASSUME NEW d \in Checks
                 PROVE  /\ check'[d].stage = "idle" => check'[d].account = Nobody
                        /\ check'[d].stage # "idle" =>
                              check'[d].account \in Customers /\ referrer[check'[d].account] # Nobody
                        /\ check'[d].stage = "credited" => credits'[check'[d].account] >= 1 BY DEF ReferralInv
  <2>2. CASE d = c
    <3>1. check'[d].stage = stage /\ check'[d].account = a /\ stage # "idle" BY <1>4, <1>6, <2>2
    <3>2. stage = "credited" => credits'[a] >= 1 BY <1>2, <1>7, <1>8
    <3> QED BY <1>2, <3>1, <3>2
  <2>3. CASE d # c
    <3>1. /\ check'[d] = check[d]
          /\ check[d].stage # "idle" => check[d].account \in Customers BY <1>6, <2>3 DEF ReferralInv
    <3>2. check[d].stage = "credited" =>
              /\ credits[check[d].account] >= 1 /\ credits[check[d].account] \in Nat
              /\ credits'[check[d].account] \in Nat
              /\ credits'[check[d].account] >= credits[check[d].account] BY <1>8, <3>1 DEF ReferralInv
    <3> QED BY <3>1, <3>2 DEF ReferralInv
  <2> QED BY <2>2, <2>3
<1>11. \A b \in Customers : credits'[b] > 0 => referrer'[b] # Nobody BY <1>2, <1>7 DEF ReferralInv
<1>12. \A b \in rewarded' : credits'[b] >= 1 BY <1>8 DEF ReferralInv
<1> QED BY <1>6, <1>7, <1>9, <1>10, <1>11, <1>12 DEF ReferralInv

\* A credit is posted and its answer is lost: the account is named.
LEMMA LosingTheAnswerKeepsReferrals ==
  ASSUME ReferralInv, NEW c \in Checks, check[c].stage = "qualified", Ends(c),
         credits' = [credits EXCEPT ![check[c].account] = @ + 1],
         unanswered' = unanswered \union {check[c].account},
         UNCHANGED <<hasCode, referrer, rewarded, overlapped>>
  PROVE  ReferralInv'
<1>1. PICK a : a = check[c].account OBVIOUS
<1>2. a \in Customers /\ referrer[a] # Nobody BY <1>1 DEF ReferralInv
<1>3. PICK next : next = [stage |-> "idle", account |-> Nobody] OBVIOUS
<1>4. next \in CheckRecords /\ next.stage = "idle" /\ next.account = Nobody BY <1>3 DEF CheckRecords
<1>5. /\ check' \in [Checks -> CheckRecords]
      /\ \A d \in Checks : check'[d] = IF d = c THEN next ELSE check[d]
  BY <1>3, <1>4, OneCheckMoves DEF Ends, ReferralInv
<1>6. /\ credits' \in [Customers -> Nat]
      /\ \A b \in Customers : credits'[b] = IF b = a THEN credits[b] + 1 ELSE credits[b]
  BY <1>1, <1>2 DEF ReferralInv
<1>7. \A b \in Customers : credits[b] \in Nat /\ credits'[b] \in Nat /\ credits'[b] >= credits[b]
  BY <1>6 DEF ReferralInv
<1>8. ASSUME NEW b \in Customers \ (overlapped' \union unanswered')  PROVE Once(b)'
  <2>1. Once(b) /\ b # a /\ credits'[b] = credits[b] /\ rewarded' = rewarded
    BY <1>1, <1>6, <1>8 DEF ReferralInv
  <2>2. Nobody \notin Customers BY BackofficeAssumption
  <2>3. \A d \in Checks : check'[d].account = b => d # c /\ check'[d] = check[d] BY <1>4, <1>5, <1>8, <2>2
  <2>4. \A d \in Checks : check[d].account = b => check'[d] = check[d] BY <1>1, <1>5, <2>1
  <2>5. credits'[b] = 1 => \/ b \in rewarded'
                           \/ \E d \in Checks : check'[d].account = b /\ check'[d].stage = "credited"
    BY <2>1, <2>4 DEF Once
  <2> QED BY <2>1, <2>3, <2>5 DEF Once
<1>9. (\A d \in Checks :
          /\ check[d].stage = "idle" => check[d].account = Nobody
          /\ check[d].stage # "idle" =>
                check[d].account \in Customers /\ referrer[check[d].account] # Nobody
          /\ check[d].stage = "credited" => credits[check[d].account] >= 1)'
  <2>1. SUFFICES ASSUME NEW d \in Checks
                 PROVE  /\ check'[d].stage = "idle" => check'[d].account = Nobody
                        /\ check'[d].stage # "idle" =>
                              check'[d].account \in Customers /\ referrer[check'[d].account] # Nobody
                        /\ check'[d].stage = "credited" => credits'[check'[d].account] >= 1 BY DEF ReferralInv
  <2>2. CASE d = c BY <1>4, <1>5, <2>2
  <2>3. CASE d # c
    <3>1. /\ check'[d] = check[d]
          /\ check[d].stage # "idle" => check[d].account \in Customers BY <1>5, <2>3 DEF ReferralInv
    <3>2. check[d].stage = "credited" =>
              /\ credits[check[d].account] >= 1 /\ credits[check[d].account] \in Nat
              /\ credits'[check[d].account] \in Nat
              /\ credits'[check[d].account] >= credits[check[d].account] BY <1>7, <3>1 DEF ReferralInv
    <3> QED BY <3>1, <3>2 DEF ReferralInv
  <2> QED BY <2>2, <2>3
<1>10. \A b \in Customers : credits'[b] > 0 => referrer'[b] # Nobody BY <1>2, <1>6 DEF ReferralInv
<1>11. \A b \in rewarded' : credits'[b] >= 1 BY <1>7 DEF ReferralInv
<1> QED BY <1>5, <1>6, <1>8, <1>9, <1>10, <1>11 DEF ReferralInv

\* So every step of a request keeps the accounts of the referrals.
LEMMA CheckStepsKeepReferrals ==
  ASSUME ReferralInv, NEW c \in Checks,
         \/ CheckReadsTheLink(c) \/ CheckFetchesPositions(c)
         \/ PostCashRewardCreditJournalEntry(c) \/ CheckMarksTheLink(c)
  PROVE  ReferralInv'
<1>1. CASE CheckReadsTheLink(c) BY <1>1, ReadingKeepsReferrals
<1>2. CASE CheckFetchesPositions(c)
  <2>1. /\ check[c].stage = "linked"
        /\ UNCHANGED <<hasCode, referrer, rewarded, credits, overlapped, unanswered>>
    BY <1>2 DEF CheckFetchesPositions
  <2>2. CASE Ends(c) BY <2>1, <2>2, EndingKeepsReferrals
  <2>3. CASE check' = [check EXCEPT ![c].stage = "qualified"] BY <2>1, <2>3, GoingOnKeepsReferrals
  <2> QED BY <1>2, <2>2, <2>3 DEF CheckFetchesPositions
<1>3. CASE PostCashRewardCreditJournalEntry(c)
  <2>1. check[c].stage = "qualified" /\ UNCHANGED <<hasCode, referrer, rewarded, overlapped>>
    BY <1>3 DEF PostCashRewardCreditJournalEntry
  <2>2. CASE Ends(c) /\ UNCHANGED <<credits, unanswered>> BY <2>1, <2>2, EndingKeepsReferrals
  <2>3. CASE /\ credits' = [credits EXCEPT ![check[c].account] = @ + 1]
             /\ check' = [check EXCEPT ![c].stage = "credited"] /\ UNCHANGED unanswered
    BY <2>1, <2>3, GoingOnKeepsReferrals
  <2>4. CASE /\ credits' = [credits EXCEPT ![check[c].account] = @ + 1]
             /\ Ends(c) /\ unanswered' = unanswered \union {check[c].account}
    BY <2>1, <2>4, LosingTheAnswerKeepsReferrals
  <2> QED BY <1>3, <2>2, <2>3, <2>4 DEF PostCashRewardCreditJournalEntry
<1>4. CASE CheckMarksTheLink(c)
  <2>1. /\ check[c].stage = "credited" /\ Ends(c)
        /\ rewarded' = rewarded \union {check[c].account}
        /\ UNCHANGED <<hasCode, referrer, credits, overlapped, unanswered>>
    BY <1>4 DEF CheckMarksTheLink, MarkRewarded
  <2> QED BY <2>1, EndingKeepsReferrals
<1> QED BY <1>1, <1>2, <1>3, <1>4

\* And every step on the referrals.
LEMMA ReferralNextKeeps == ASSUME ReferralInv, ReferralNext PROVE ReferralInv'
<1>1. CASE GenerateCodeRequest \/ RecordReferralRequest BY <1>1, CodesKeepReferrals
<1>2. CASE CheckAndQualifyReferral
  <2>1. PICK c \in Checks : \/ CheckReadsTheLink(c) \/ CheckFetchesPositions(c)
                            \/ PostCashRewardCreditJournalEntry(c) \/ CheckMarksTheLink(c)
    BY <1>2 DEF CheckAndQualifyReferral
  <2> QED BY <2>1, CheckStepsKeepReferrals
<1> QED BY <1>1, <1>2 DEF ReferralNext

\* No referral is recorded and nothing is credited.
LEMMA ReferralsStart == ASSUME ReferralInit PROVE ReferralInv
<1>1. \A c \in Checks : check[c].stage = "idle" /\ check[c].account = Nobody BY DEF ReferralInit
<1>2. \A a \in Customers : credits[a] = 0 /\ a \notin rewarded BY DEF ReferralInit
<1>3. \A a \in Customers : Once(a) BY <1>1, <1>2, BackofficeAssumption DEF Once
<1> QED BY <1>1, <1>2, <1>3 DEF ReferralInit, ReferralInv, CheckRecords

\* The property is a part of it.
LEMMA ReferralsAddUp == ASSUME ReferralInv PROVE CreditedOncePerReferral
BY DEF ReferralInv, CreditedOncePerReferral, Once

--------------------
(* auth: logins, limiters, second factors and refresh tokens. *)

LoginRecords ==
  [stage : {"admitted", "known", "refused", "passed"}, email : Emails, from : Origins, at : Ticks]

\* The clock, and the login requests in flight.
LoginInv ==
  /\ now \in Ticks
  /\ login \in [Logins -> LoginRecords \union {Idle}]

--------------------
\* The limiter counts at least what it let through in order, as long as it may count at
\* all: a time lies in the windows of all the attempts that are held, the latest included.
Keys == Emails \union Addresses
LimitOf(key) == IF key \in Emails THEN LoginLimit ELSE RegisterLimit

InEveryWindow(times, t) == \A u \in Ticks : times[u] > 0 => t > u - RateWindow

LimiterInv ==
  /\ now \in Ticks
  /\ attempts \in [Keys -> [Ticks -> Nat]] /\ admitted \in [Keys -> [Ticks -> Nat]]
  /\ \A key \in Keys : \A t \in Ticks :
        InEveryWindow(attempts[key], t) => admitted[key][t] <= attempts[key][t]
  /\ LimitsHoldInEveryWindow

\* Times are few, and counted by numbers.
LEMMA TicksAreCounted ==
  /\ IsFiniteSet(Ticks)
  /\ \A times \in [Ticks -> Nat] : NatOn(times, Ticks) /\ IntOn(times, Ticks)
  /\ \A S : Ticks \intersect S \subseteq Ticks /\ IsFiniteSet(S \intersect Ticks)
<1>1. IsFiniteSet(Ticks) BY AuthAssumption, FS_Interval DEF Ticks
<1>2. \A S : S \intersect Ticks \subseteq Ticks OBVIOUS
<1>3. \A times \in [Ticks -> Nat] : NatOn(times, Ticks) /\ IntOn(times, Ticks) BY DEF NatOn, IntOn
<1>4. \A S : IsFiniteSet(S \intersect Ticks) BY <1>1, <1>2, FS_Subset
<1> QED BY <1>1, <1>3, <1>4

\* A time that is added counts once in every stretch it lies in.
LEMMA OneMoreTime ==
  ASSUME NEW times \in [Ticks -> Nat], NEW t \in Ticks, NEW S
  PROVE  /\ Add(times, t) \in [Ticks -> Nat]
         /\ Add(times, t)[t] = times[t] + 1
         /\ \A u \in Ticks : u # t => Add(times, t)[u] = times[u]
         /\ Count(times, S) \in Nat
         /\ t \in S => Count(Add(times, t), S) = Count(times, S) + 1
         /\ t \notin S => Count(Add(times, t), S) = Count(times, S)
<1>1. PICK more : more = Add(times, t) OBVIOUS
<1>2. /\ more \in [Ticks -> Nat] /\ more[t] = times[t] + 1
      /\ \A u \in Ticks : u # t => more[u] = times[u] BY <1>1 DEF Add
<1>3. PICK T : T = S \intersect Ticks OBVIOUS
<1>4. T \subseteq Ticks /\ IsFiniteSet(T) /\ NatOn(times, T) /\ IntOn(times, T) /\ IntOn(more, T)
  BY <1>2, <1>3, TicksAreCounted DEF NatOn, IntOn
<1>5. SumFunctionOnSet(times, T) \in Nat BY <1>4, SumAtLeastPart
<1>6. CASE t \in S BY <1>2, <1>3, <1>6, <1>4, SumChanged, <1>5, <1>1 DEF Count
<1>7. CASE t \notin S BY <1>2, <1>3, <1>7, <1>4, SumSame, <1>1, <1>5 DEF Count
<1> QED BY <1>6, <1>7

\* What was let through of a stretch that reaches an attempt in order is in its window.
LEMMA TheWindowCountsIt ==
  ASSUME LimiterInv, NEW key \in Keys, NEW t \in Ticks, NEW at \in Ticks,
         at \in t .. t + RateWindow - 1, ~Overtaken(key, at)
  PROVE  /\ Count(admitted[key], t .. t + RateWindow - 1) \in Nat
         /\ Count(InWindow(attempts[key], at), Ticks) \in Nat
         /\ Count(admitted[key], t .. t + RateWindow - 1) <= Count(InWindow(attempts[key], at), Ticks)
<1>1. PICK tried, passedOn : tried = InWindow(attempts[key], at) /\ passedOn = admitted[key] OBVIOUS
<1>2. attempts[key] \in [Ticks -> Nat] /\ passedOn \in [Ticks -> Nat] BY <1>1 DEF LimiterInv
<1>3. /\ tried \in [Ticks -> Nat]
      /\ \A u \in Ticks : tried[u] = IF u > at - RateWindow THEN attempts[key][u] ELSE 0
  BY <1>1, <1>2 DEF InWindow
<1>4. PICK T : T = (t .. t + RateWindow - 1) \intersect Ticks OBVIOUS
<1>5. T \subseteq Ticks /\ IsFiniteSet(T) /\ IsFiniteSet(Ticks) BY <1>4, TicksAreCounted
<1>6. ASSUME NEW u \in T  PROVE passedOn[u] <= tried[u]
  <2>1. u \in Ticks /\ u \in Int /\ at \in Int /\ t \in Int /\ RateWindow \in Int
    BY <1>4, AuthAssumption DEF Ticks
  <2>2. u > at - RateWindow BY <1>4, <2>1
  <2>4. InEveryWindow(attempts[key], u)
    <3> SUFFICES ASSUME NEW v \in Ticks, attempts[key][v] > 0 PROVE u > v - RateWindow BY DEF InEveryWindow
    <3>1. v <= at /\ v \in Int BY <2>1 DEF Overtaken, Ticks
    <3> QED BY <2>1, <2>2, <3>1
  <2>3. passedOn[u] <= attempts[key][u] BY <1>1, <2>1, <2>4 DEF LimiterInv
  <2> QED BY <1>3, <2>1, <2>2, <2>3
<1>7. /\ NatOn(tried, Ticks) /\ NatOn(tried, T) /\ IntOn(tried, T) /\ IntOn(passedOn, T)
      /\ NatOn(passedOn, Ticks) BY <1>2, <1>3, <1>5 DEF NatOn, IntOn
<1>8. SumFunctionOnSet(passedOn, T) <= SumFunctionOnSet(tried, T) BY <1>5, <1>6, <1>7, SumLeq
<1>9. /\ SumFunctionOnSet(tried, T) <= SumFunctionOnSet(tried, Ticks)
      /\ SumFunctionOnSet(tried, T) \in Nat /\ SumFunctionOnSet(tried, Ticks) \in Nat
  BY <1>5, <1>7, SumAtLeastPart
<1>10. SumFunctionOnSet(passedOn, T) \in Nat BY <1>5, <1>7, SumAtLeastPart
<1>11. Ticks \intersect Ticks = Ticks OBVIOUS
<1>12. /\ Count(passedOn, t .. t + RateWindow - 1) = SumFunctionOnSet(passedOn, T)
       /\ Count(tried, Ticks) = SumFunctionOnSet(tried, Ticks) BY <1>4, <1>11 DEF Count
<1> QED BY <1>1, <1>8, <1>9, <1>10, <1>12

\* An attempt that is let through finds the window below the limit.
LEMMA AllowKeepsLimits ==
  ASSUME LimiterInv, NEW key \in Keys, NEW at \in 0 .. now, Allow(key, LimitOf(key), at), now' = now
  PROVE  LimiterInv'
<1>1. PICK limit \in Nat : limit = LimitOf(key) BY AuthAssumption DEF LimitOf
<1>2. PICK tried : tried = InWindow(attempts[key], at) OBVIOUS
<1>12. now \in Ticks /\ at \in Ticks /\ at \in Int BY AuthAssumption DEF LimiterInv, Ticks
<1>3. now \in Ticks /\ attempts[key] \in [Ticks -> Nat] /\ admitted[key] \in [Ticks -> Nat] BY DEF LimiterInv
<1>4. /\ tried \in [Ticks -> Nat]
      /\ \A u \in Ticks : tried[u] = IF u > at - RateWindow THEN attempts[key][u] ELSE 0
  BY <1>2, <1>3 DEF InWindow
<1>5. PICK kept : kept = Add(tried, at) OBVIOUS
<1>6. /\ kept \in [Ticks -> Nat] /\ kept[at] = tried[at] + 1
      /\ \A u \in Ticks : u # at => kept[u] = tried[u] BY <1>12, <1>4, <1>5, OneMoreTime
<1>7. attempts' = [attempts EXCEPT ![key] = kept] BY <1>2, <1>5 DEF Allow
<1>8. PICK let \in [Ticks -> Nat] :
        /\ admitted' = [admitted EXCEPT ![key] = let]
        /\ \/ /\ let = Add(admitted[key], at) /\ Count(tried, Ticks) < limit
              /\ ~Overtaken(key, at)
           \/ let = admitted[key]
  <2>1. CASE IsAllowed(key, limit, at) /\ ~Overtaken(key, at)
    BY <1>3, <1>12, OneMoreTime, <1>1, <2>1, <1>2 DEF Allow, IsAllowed
  <2>2. CASE ~(IsAllowed(key, limit, at) /\ ~Overtaken(key, at)) BY <1>1, <2>2, <1>3 DEF Allow, LimiterInv
  <2> QED BY <2>1, <2>2
<1>9. /\ attempts' \in [Keys -> [Ticks -> Nat]] /\ admitted' \in [Keys -> [Ticks -> Nat]]
      /\ \A k \in Keys : /\ attempts'[k] = IF k = key THEN kept ELSE attempts[k]
                         /\ admitted'[k] = IF k = key THEN let ELSE admitted[k]
  BY <1>6, <1>7, <1>8 DEF LimiterInv
<1>10. ASSUME NEW k \in Keys, NEW t \in Ticks, InEveryWindow(attempts'[k], t)
       PROVE  admitted'[k][t] <= attempts'[k][t]
  <2>2. CASE k # key BY <1>9, <1>10, <2>2 DEF LimiterInv
  <2>3. CASE k = key
    <3>4. InEveryWindow(kept, t) /\ t \in Int /\ RateWindow \in Nat
      BY <1>9, <1>10, <2>3, AuthAssumption DEF Ticks
    <3>5. t > at - RateWindow
      <4>1. kept[at] > 0 BY <1>4, <1>6, <1>12
      <4> QED BY <1>12, <3>4, <4>1 DEF InEveryWindow
    <3>6. InEveryWindow(attempts[key], t)
      <4> SUFFICES ASSUME NEW u \in Ticks, attempts[key][u] > 0 PROVE t > u - RateWindow BY DEF InEveryWindow
      <4>1. u \in Int BY DEF Ticks
      <4>2. CASE u > at - RateWindow
        <5>1. kept[u] > 0 BY <1>3, <1>4, <1>6, <1>12, <4>2
        <5> QED BY <3>4, <5>1 DEF InEveryWindow
      <4>3. CASE ~(u > at - RateWindow) BY <1>12, <3>4, <3>5, <4>1, <4>3
      <4> QED BY <4>2, <4>3
    <3>7. admitted[key][t] <= attempts[key][t] BY <3>6 DEF LimiterInv
    <3>1. /\ admitted[key][t] \in Nat /\ attempts[key][t] \in Nat
          /\ kept[t] = IF t = at THEN attempts[key][t] + 1 ELSE attempts[key][t] BY <1>3, <1>4, <1>6, <3>5
    <3>2. let[t] \in {admitted[key][t], admitted[key][t] + 1} /\ (t # at => let[t] = admitted[key][t])
      <4>1. Add(admitted[key], at)[at] = admitted[key][at] + 1
            /\ \A u \in Ticks : u # at => Add(admitted[key], at)[u] = admitted[key][u]
        BY <1>3, <1>12, OneMoreTime
      <4> QED BY <1>8, <4>1
    <3>3. let[t] <= kept[t] BY <2>3, <3>1, <3>2, <3>7
    <3> QED BY <1>9, <2>3, <3>3
  <2> QED BY <2>2, <2>3
<1>13. ASSUME NEW S PROVE /\ Count(admitted[key], S) \in Nat
                          /\ Count(Add(admitted[key], at), S) = Count(admitted[key], S) + (IF at \in S THEN 1 ELSE 0)
  <2>1. PICK times \in [Ticks -> Nat], u \in Ticks : times = admitted[key] /\ u = at BY <1>3, <1>12
  <2>2. /\ Count(times, S) \in Nat
        /\ u \in S => Count(Add(times, u), S) = Count(times, S) + 1
        /\ u \notin S => Count(Add(times, u), S) = Count(times, S) BY OneMoreTime
  <2> QED BY <2>1, <2>2
<1>11. LimitsHoldInEveryWindow'
  <2>1. SUFFICES ASSUME NEW k \in Keys, NEW t \in Ticks
                 PROVE  Count(admitted'[k], t .. t + RateWindow - 1) <= LimitOf(k)
    BY DEF LimitsHoldInEveryWindow, LimitOf, Keys, Ticks
  <2>2. Count(admitted[k], t .. t + RateWindow - 1) <= LimitOf(k)
    BY DEF LimiterInv, LimitsHoldInEveryWindow, LimitOf, Keys, Ticks
  <2>3. CASE k # key \/ let = admitted[key] BY <1>9, <2>2, <2>3
  <2>4. CASE k = key /\ let = Add(admitted[key], at) /\ Count(tried, Ticks) < limit /\ ~Overtaken(key, at)
    <3>1. PICK stretch : stretch = t .. t + RateWindow - 1 OBVIOUS
    <3>2. Count(admitted[key], stretch) \in Nat BY <1>13
    <3>3. CASE at \in stretch
      <4>1. Count(let, stretch) = Count(admitted[key], stretch) + 1 BY <1>13, <2>4, <3>3
      <4>2. Count(admitted[key], stretch) <= Count(tried, Ticks) /\ Count(tried, Ticks) \in Nat
        BY <1>2, <1>12, <2>4, <3>1, <3>3, TheWindowCountsIt
      <4>3. Count(let, stretch) <= limit BY <2>4, <3>2, <4>1, <4>2
      <4> QED BY <1>1, <1>9, <2>4, <3>1, <4>3
    <3>4. CASE at \notin stretch
      <4>1. Count(let, stretch) = Count(admitted[key], stretch) BY <1>13, <2>4, <3>4
      <4> QED BY <1>9, <2>2, <2>4, <3>1, <4>1
    <3> QED BY <3>3, <3>4
  <2> QED BY <1>8, <2>3, <2>4
<1> QED BY <1>3, <1>9, <1>10, <1>11 DEF LimiterInv

\* Time that passes leaves the limiter as it is.
LEMMA TickKeepsLimits == ASSUME LimiterInv, AuthTick PROVE LimiterInv'
<1>1. now' \in Ticks /\ UNCHANGED <<attempts, admitted>>
  BY AuthAssumption DEF AuthTick, limiterVars, LimiterInv, Ticks
<1> QED BY <1>1 DEF LimiterInv, LimitsHoldInEveryWindow

\* The limiter is asked by the two handlers, about keys of their own.
LEMMA HandlersKeepLimits == ASSUME LimiterInv, RegisterAccount \/ LoginArrives PROVE LimiterInv'
<1>1. CASE RegisterAccount
  <2>1. PICK address \in Addresses, at \in 0 .. now : Allow(address, RegisterLimit, at) /\ now' = now
    BY <1>1 DEF RegisterAccount
  <2>2. address \in Keys /\ LimitOf(address) = RegisterLimit BY AuthAssumption DEF Keys, LimitOf
  <2> QED BY <2>1, <2>2, AllowKeepsLimits
<1>2. CASE LoginArrives
  <2>1. PICK written \in Spellings, at \in 0 .. now : Allow(normalizeEmail(written), LoginLimit, at) /\ now' = now
    BY <1>2 DEF LoginArrives
  <2>2. PICK e \in Emails : e = normalizeEmail(written) BY AuthAssumption DEF normalizeEmail
  <2>3. e \in Keys /\ LimitOf(e) = LoginLimit BY DEF Keys, LimitOf
  <2> QED BY <2>1, <2>2, <2>3, AllowKeepsLimits
<1> QED BY <1>1, <1>2

\* No attempt was made yet, so every window has room.
LEMMA LimitersStart == ASSUME AuthInit PROVE LimiterInv
<1>1. now = 0 /\ now \in Ticks /\ attempts = [key \in Keys |-> Never] /\ admitted = [key \in Keys |-> Never]
  BY AuthAssumption DEF AuthInit, Keys, Ticks
<1>2. PICK none : none = Never OBVIOUS
<1>3. none \in [Ticks -> Nat] /\ \A t \in Ticks : none[t] = 0 BY <1>2 DEF Never
<1>4. ASSUME NEW S  PROVE Count(none, S) = 0
  <2>1. PICK T : T = S \intersect Ticks OBVIOUS
  <2>2. IsFiniteSet(T) /\ \A t \in T : none[t] = 0 BY <1>3, <2>1, TicksAreCounted
  <2>3. SumFunctionOnSet(none, T) = 0 BY <2>2, SumOfZeros
  <2> QED BY <2>1, <2>3 DEF Count
<1>5. \A key \in Keys : attempts[key] = none /\ admitted[key] = none BY <1>1, <1>2
<1>6. /\ attempts \in [Keys -> [Ticks -> Nat]] /\ admitted \in [Keys -> [Ticks -> Nat]] BY <1>1, <1>2, <1>3
<1>7. LimitsHoldInEveryWindow
  <2>1. SUFFICES ASSUME NEW key \in Keys, NEW t \in Ticks
                 PROVE  Count(admitted[key], t .. t + RateWindow - 1) <= LimitOf(key)
    BY DEF LimitsHoldInEveryWindow, LimitOf, Keys, Ticks
  <2>2. Count(admitted[key], t .. t + RateWindow - 1) = 0 BY <1>4, <1>5
  <2>3. LimitOf(key) \in Nat BY AuthAssumption DEF LimitOf
  <2> QED BY <2>2, <2>3
<1> QED BY <1>1, <1>3, <1>5, <1>6, <1>7 DEF LimiterInv

--------------------
\* The requests in flight are of accounts that have a name, from times that were.
LEMMA LoginStepsAreTyped == ASSUME LoginInv, LoginNext PROVE LoginInv'
<1>1. now' = now /\ now \in Ticks
  BY DEF LoginInv, LoginNext, RegisterAccount, LoginArrives, AuthenticateWithPassword,
         LoginChecksTheSecondFactor, LoginIsRefused, LoginSucceeds
<1>2. login \in [Logins -> LoginRecords \union {Idle}] BY DEF LoginInv
<1>3. ASSUME NEW l \in Logins, login[l].stage \in {"admitted", "known"},
             NEW stage \in {"known", "refused", "passed"}, Moves(l, stage)
      PROVE  login' \in [Logins -> LoginRecords \union {Idle}]
  <2>1. login[l] \in LoginRecords BY <1>2, <1>3 DEF Idle
  <2>2. PICK old \in LoginRecords : old = login[l] BY <2>1
  <2>3. PICK next : next = [old EXCEPT !.stage = stage] OBVIOUS
  <2>4. next \in LoginRecords BY <2>3 DEF LoginRecords
  <2>5. login' = [login EXCEPT ![l] = next] BY <1>3, <2>2, <2>3 DEF Moves
  <2> HIDE DEF LoginRecords
  <2> QED BY <1>2, <2>4, <2>5
<1>4. ASSUME NEW l \in Logins, login' = [login EXCEPT ![l] = Idle]
      PROVE  login' \in [Logins -> LoginRecords \union {Idle}]
  <2> HIDE DEF LoginRecords
  <2> QED BY <1>2, <1>4
<1>5. CASE RegisterAccount BY <1>1, <1>2, <1>5 DEF RegisterAccount, LoginInv
<1>6. CASE LoginArrives
  <2>1. PICK l \in Logins, written \in Spellings, o \in Origins :
          login' = login \/
          login' = [login EXCEPT ![l] = [stage |-> "admitted", email |-> normalizeEmail(written),
                                         from |-> o, at |-> now]] BY <1>6 DEF LoginArrives
  <2>2. [stage |-> "admitted", email |-> normalizeEmail(written), from |-> o, at |-> now] \in LoginRecords
    BY <1>1, AuthAssumption DEF LoginRecords, normalizeEmail
  <2>3. PICK next \in LoginRecords :
          next = [stage |-> "admitted", email |-> normalizeEmail(written), from |-> o, at |-> now] BY <2>2
  <2>4. login' = login \/ login' = [login EXCEPT ![l] = next] BY <2>1, <2>3
  <2>5. login' \in [Logins -> LoginRecords \union {Idle}]
    <3> HIDE DEF LoginRecords
    <3> QED BY <1>2, <2>4
  <2> QED BY <1>1, <2>5 DEF LoginInv
<1>7. CASE AuthenticateWithPassword
  <2>1. PICK l \in Logins : login[l].stage = "admitted" /\ (Moves(l, "known") \/ Moves(l, "refused"))
    BY <1>7 DEF AuthenticateWithPassword
  <2> QED BY <1>1, <1>3, <2>1 DEF LoginInv
<1>8. CASE LoginChecksTheSecondFactor
  <2>1. PICK l \in Logins :
          login[l].stage = "known" /\ \/ Moves(l, "passed") \/ Moves(l, "refused")
                                      \/ login' = [login EXCEPT ![l] = Idle]
    BY <1>8 DEF LoginChecksTheSecondFactor
  <2> QED BY <1>1, <1>3, <1>4, <2>1 DEF LoginInv
<1>9. CASE LoginIsRefused \/ LoginSucceeds
  <2>1. PICK l \in Logins : login' = [login EXCEPT ![l] = Idle] BY <1>9 DEF LoginIsRefused, LoginSucceeds
  <2> QED BY <1>1, <1>4, <2>1 DEF LoginInv
<1> QED BY <1>5, <1>6, <1>7, <1>8, <1>9 DEF LoginNext

--------------------
\* A confirmation under way is of a secret a code was given for.
MfaInv ==
  /\ secret \in [Emails -> [id : Nat, enabled : BOOLEAN]] /\ secrets \in Nat
  /\ confirming \subseteq [email : Emails, id : confirmed]
  /\ EnabledSecretsWereConfirmed

\* A confirmation enables the secret its code was for, or nothing.
LEMMA MfaNextKeeps == ASSUME MfaInv, MfaNext PROVE MfaInv'
<1>1. CASE BeginEnrollment
  <2>1. PICK e \in Emails :
          /\ secrets' = secrets + 1
          /\ secret' = [secret EXCEPT ![e] = [id |-> secrets', enabled |-> FALSE]]
          /\ UNCHANGED <<confirmed, confirming>> BY <1>1 DEF BeginEnrollment
  <2>2. PICK next : next = [id |-> secrets', enabled |-> FALSE] OBVIOUS
  <2>3. next \in [id : Nat, enabled : BOOLEAN] /\ ~next.enabled /\ secrets' \in Nat BY <2>1, <2>2 DEF MfaInv
  <2>4. secret' = [secret EXCEPT ![e] = next] BY <2>1, <2>2
  <2> QED BY <2>1, <2>3, <2>4 DEF MfaInv, EnabledSecretsWereConfirmed
<1>2. CASE ConfirmVerifiesTheCode
  <2>1. PICK e \in Emails :
          /\ confirmed' = confirmed \union {secret[e].id}
          /\ confirming' = confirming \union {[email |-> e, id |-> secret[e].id]}
          /\ UNCHANGED <<secret, secrets>> BY <1>2 DEF ConfirmVerifiesTheCode
  <2> QED BY <2>1 DEF MfaInv, EnabledSecretsWereConfirmed
<1>3. CASE ConfirmEnables
  <2>1. PICK c \in confirming :
          /\ secret' = IF secret[c.email].id = c.id
                       THEN [secret EXCEPT ![c.email].enabled = TRUE] ELSE secret
          /\ confirming' = confirming \ {c}
          /\ UNCHANGED <<secrets, confirmed>> BY <1>3 DEF ConfirmEnables
  <2>2. c.email \in Emails /\ c.id \in confirmed BY DEF MfaInv
  <2>3. CASE secret[c.email].id = c.id
    <3>1. PICK old \in [id : Nat, enabled : BOOLEAN] : old = secret[c.email] BY <2>2 DEF MfaInv
    <3>2. PICK next : next = [old EXCEPT !.enabled = TRUE] OBVIOUS
    <3>3. next \in [id : Nat, enabled : BOOLEAN] /\ next.id = c.id BY <2>3, <3>1, <3>2
    <3>4. secret' = [secret EXCEPT ![c.email] = next] BY <2>1, <2>3, <3>1, <3>2
    <3>5. /\ secret' \in [Emails -> [id : Nat, enabled : BOOLEAN]]
          /\ \A e \in Emails : secret'[e] = IF e = c.email THEN next ELSE secret[e]
      BY <2>2, <3>3, <3>4 DEF MfaInv
    <3> QED BY <2>1, <2>2, <3>3, <3>5 DEF MfaInv, EnabledSecretsWereConfirmed
  <2>4. CASE secret[c.email].id # c.id BY <2>1, <2>4 DEF MfaInv, EnabledSecretsWereConfirmed
  <2> QED BY <2>3, <2>4
<1>4. CASE DisableMfa
  <2>1. PICK e \in Emails : /\ secret' = [secret EXCEPT ![e] = NoSecret]
                            /\ UNCHANGED <<secrets, confirmed, confirming>> BY <1>4 DEF DisableMfa
  <2> QED BY <2>1 DEF MfaInv, EnabledSecretsWereConfirmed, NoSecret
<1> QED BY <1>1, <1>2, <1>3, <1>4 DEF MfaNext

--------------------
TokenRecords == [family : Nat, email : Emails, state : {"active", "consumed", "revoked"}, expires : Nat]

IsLive(i) == tokens[i].state = "active"

\* A family has one live token, the latest, or one on its way, and neither when it is dead.
SessionInv ==
  /\ tokens \in Seq(TokenRecords) /\ rotating \subseteq [family : Nat, email : Emails, at : Nat]
  /\ dead \subseteq 1 .. Len(tokens)
  /\ \A i \in DOMAIN tokens : tokens[i].family \in 1 .. Len(tokens)
  /\ \A r \in rotating : r.family \in 1 .. Len(tokens)
  /\ \A r, s \in rotating : r.family = s.family => r = s
  /\ \A i, j \in DOMAIN tokens : IsLive(i) /\ tokens[i].family = tokens[j].family => j <= i
  /\ \A i \in DOMAIN tokens : IsLive(i) =>
        tokens[i].family \notin dead /\ \A r \in rotating : r.family # tokens[i].family
  /\ \A r \in rotating : r.family \notin dead

\* The tokens are numbered.
LEMMA TokenShapes ==
  ASSUME SessionInv
  PROVE  /\ tokens \in Seq(TokenRecords) /\ Len(tokens) \in Nat
         /\ DOMAIN tokens = 1 .. Len(tokens)
         /\ \A i \in 1 .. Len(tokens) : tokens[i] \in TokenRecords
<1>1. tokens \in Seq(TokenRecords) BY DEF SessionInv
<1> HIDE DEF TokenRecords
<1> QED BY <1>1

\* A token that is issued to a family with none live and none on its way.
LEMMA IssueKeepsSessions ==
  ASSUME SessionInv, NEW at \in Nat, NEW session \in Nat, NEW e \in Emails, Issue(session, e, at),
         session \in 1 .. Len(tokens) + 1, session \notin dead,
         \A i \in DOMAIN tokens : tokens[i].family = session => ~IsLive(i),
         rotating' \subseteq rotating, \A r \in rotating' : r.family # session,
         dead' = dead
  PROVE  SessionInv'
<1>1. PICK n \in Nat : n = Len(tokens) BY TokenShapes
<1>2. PICK x : x = [family |-> session, email |-> e, state |-> "active", expires |-> at + TokenLifetime]
  OBVIOUS
<1>3. x \in TokenRecords /\ x.family = session /\ x.state = "active"
  <2>1. PICK t \in Nat : t = at + TokenLifetime BY AuthAssumption
  <2>2. x = [family |-> session, email |-> e, state |-> "active", expires |-> t] BY <1>2, <2>1
  <2> QED BY <2>2 DEF TokenRecords
<1>4. tokens' = Append(tokens, x) BY <1>2 DEF Issue
<1>5. /\ tokens' \in Seq(TokenRecords) /\ Len(tokens') = n + 1 /\ DOMAIN tokens' = 1 .. n + 1
      /\ DOMAIN tokens = 1 .. n
      /\ tokens'[n + 1] = x /\ \A i \in 1 .. n : tokens'[i] = tokens[i]
  <2> HIDE DEF TokenRecords
  <2> QED BY <1>1, <1>3, <1>4, TokenShapes
<1>6. \A i \in 1 .. n : IsLive(i)' <=> IsLive(i) BY <1>5 DEF IsLive
<1>7. ASSUME NEW i \in 1 .. n + 1, NEW j \in 1 .. n + 1, IsLive(i)', tokens'[i].family = tokens'[j].family
      PROVE  j <= i
  <2>1. CASE i = n + 1 BY <1>1, <2>1
  <2>2. CASE i \in 1 .. n /\ j = n + 1 BY <1>3, <1>5, <1>6, <1>7, <2>2
  <2>3. CASE i \in 1 .. n /\ j \in 1 .. n BY <1>5, <1>6, <1>7, <2>3 DEF SessionInv
  <2> QED BY <1>1, <2>1, <2>2, <2>3
<1>8. ASSUME NEW i \in 1 .. n + 1, IsLive(i)'
      PROVE  /\ tokens'[i].family \notin dead'
             /\ \A r \in rotating' : r.family # tokens'[i].family
  <2>1. CASE i = n + 1 BY <1>3, <1>5, <2>1
  <2>2. CASE i \in 1 .. n BY <1>5, <1>6, <1>8, <2>2 DEF SessionInv
  <2> QED BY <1>1, <2>1, <2>2
<1>9. /\ dead' \subseteq 1 .. n + 1 /\ \A r \in rotating' : r.family \in 1 .. n + 1
      /\ \A i \in 1 .. n + 1 : tokens'[i].family \in 1 .. n + 1
  <2>1. \A k \in 1 .. n : k \in 1 .. n + 1 BY <1>1
  <2>2. dead \subseteq 1 .. n /\ \A r \in rotating : r.family \in 1 .. n BY <1>1 DEF SessionInv
  <2>3. \A i \in 1 .. n : tokens[i].family \in 1 .. n BY <1>1, <1>5 DEF SessionInv
  <2>4. ASSUME NEW i \in 1 .. n + 1  PROVE tokens'[i].family \in 1 .. n + 1
    <3>1. CASE i = n + 1 BY <1>1, <1>3, <1>5, <3>1
    <3>2. CASE i \in 1 .. n BY <1>5, <2>1, <2>3, <3>2
    <3> QED BY <1>1, <3>1, <3>2
  <2> QED BY <2>1, <2>2, <2>4
<1> QED BY <1>5, <1>7, <1>8, <1>9 DEF SessionInv

\* A login opens a family of its own.
LEMMA LoginKeepsSessions == ASSUME SessionInv, LoginInv, LoginSucceeds PROVE SessionInv'
<1>1. PICK l \in Logins :
        /\ login[l].stage = "passed" /\ IssueNewSessionFamily(login[l].email, login[l].at)
        /\ rotating' = rotating /\ dead' = dead BY DEF LoginSucceeds
<1>2. login[l].email \in Emails /\ login[l].at \in Nat
  <2>1. login[l] \in LoginRecords BY <1>1 DEF LoginInv, Idle
  <2> QED BY <2>1 DEF LoginRecords, Ticks
<1>3. PICK e \in Emails, at \in Nat : e = login[l].email /\ at = login[l].at BY <1>2
<1>4. PICK n \in Nat : n = Len(tokens) BY TokenShapes
<1>5. PICK session \in Nat : session = n + 1 BY <1>4
<1>6. Issue(session, e, at) BY <1>1, <1>3, <1>4, <1>5 DEF IssueNewSessionFamily
<1>7. /\ \A i \in DOMAIN tokens : tokens[i].family # session
      /\ \A r \in rotating : r.family # session
      /\ session \notin dead BY <1>4, <1>5 DEF SessionInv
<1>9. session \in 1 .. Len(tokens) + 1 BY <1>4, <1>5
<1> QED BY <1>1, <1>6, <1>7, <1>9, IssueKeepsSessions

\* A successor is the family's one live token.
LEMMA SuccessorKeepsSessions == ASSUME SessionInv, LoginInv, RefreshIssuesTheSuccessor PROVE SessionInv'
<1>1. PICK r \in rotating : /\ Issue(r.family, r.email, r.at) /\ rotating' = rotating \ {r}
                            /\ dead' = dead BY DEF RefreshIssuesTheSuccessor
<1>2. r \in [family : Nat, email : Emails, at : Nat] BY DEF SessionInv
<1>3. PICK session \in Nat, e \in Emails, at \in Nat : session = r.family /\ e = r.email /\ at = r.at BY <1>2
<1>4. session \in 1 .. Len(tokens) + 1 BY <1>3, TokenShapes DEF SessionInv
<1>5. session \notin dead BY <1>3 DEF SessionInv
<1>6. \A i \in DOMAIN tokens : tokens[i].family = session => ~IsLive(i) BY <1>3 DEF SessionInv
<1>7. \A s \in rotating' : s.family # session BY <1>1, <1>3 DEF SessionInv
<1> QED BY <1>1, <1>3, <1>4, <1>5, <1>6, <1>7, IssueKeepsSessions

\* A token that is spent makes way for its successor.
LEMMA SpendingKeepsSessions == ASSUME SessionInv, LoginInv, RefreshSpendsTheToken PROVE SessionInv'
<1>1. PICK i \in DOMAIN tokens :
        /\ tokens[i].state = "active"
        /\ tokens' = [tokens EXCEPT ![i].state = "consumed"]
        /\ rotating' = rotating \union {[family |-> tokens[i].family, email |-> tokens[i].email, at |-> now]}
        /\ dead' = dead BY DEF RefreshSpendsTheToken
<1>2. PICK n \in Nat : n = Len(tokens) BY TokenShapes
<1>3. PICK old \in TokenRecords : old = tokens[i] BY TokenShapes
<1>4. PICK next : next = [old EXCEPT !.state = "consumed"] OBVIOUS
<1>5. /\ next \in TokenRecords /\ next.state = "consumed" /\ next.family = old.family
      /\ old.state = "active" /\ old.family \in Nat /\ old.email \in Emails
  BY <1>1, <1>3, <1>4 DEF TokenRecords
<1>6. tokens' = [tokens EXCEPT ![i] = next] BY <1>1, <1>3, <1>4
<1>7. /\ tokens' \in Seq(TokenRecords) /\ Len(tokens') = n /\ DOMAIN tokens' = 1 .. n
      /\ DOMAIN tokens = 1 .. n
      /\ \A j \in 1 .. n : tokens'[j] = IF j = i THEN next ELSE tokens[j]
  <2> HIDE DEF TokenRecords
  <2> QED BY <1>2, <1>5, <1>6, TokenShapes
<1>8. \A j \in 1 .. n : /\ tokens'[j].family = tokens[j].family
                        /\ IsLive(j)' => IsLive(j) /\ j # i BY <1>3, <1>5, <1>7 DEF IsLive
<1>9. IsLive(i) /\ i \in 1 .. n BY <1>1, <1>7 DEF IsLive
<1>18. now \in Nat BY DEF LoginInv, Ticks
<1>10. PICK r : r = [family |-> old.family, email |-> old.email, at |-> now] OBVIOUS
<1>11. rotating' = rotating \union {r} /\ r.family = tokens[i].family
       /\ r \in [family : Nat, email : Emails, at : Nat] BY <1>1, <1>3, <1>5, <1>10, <1>18
<1>12. \A s \in rotating : s.family # r.family BY <1>7, <1>9, <1>11 DEF SessionInv
<1>13. r.family \notin dead /\ r.family \in 1 .. n BY <1>2, <1>7, <1>9, <1>11 DEF SessionInv
<1>14. \A s, t \in rotating' : s.family = t.family => s = t BY <1>11, <1>12 DEF SessionInv
<1>15. ASSUME NEW j \in 1 .. n, IsLive(j)'
       PROVE  /\ tokens'[j].family \notin dead'
              /\ \A s \in rotating' : s.family # tokens'[j].family
  <2>1. IsLive(j) /\ j # i /\ tokens'[j].family = tokens[j].family BY <1>8, <1>15
  <2>2. tokens[j].family # tokens[i].family
    <3>1. SUFFICES ASSUME tokens[j].family = tokens[i].family  PROVE FALSE OBVIOUS
    <3>2. i <= j /\ j <= i BY <1>7, <1>9, <2>1, <3>1 DEF SessionInv
    <3> QED BY <1>2, <1>9, <2>1, <3>2
  <2> QED BY <1>1, <1>7, <1>11, <2>1, <2>2 DEF SessionInv
<1>16. ASSUME NEW j \in 1 .. n, NEW k \in 1 .. n, IsLive(j)', tokens'[j].family = tokens'[k].family
       PROVE  k <= j BY <1>7, <1>8, <1>16 DEF SessionInv
<1>17. /\ \A s \in rotating' : s.family \in 1 .. n /\ s.family \notin dead'
       /\ \A j \in 1 .. n : tokens'[j].family \in 1 .. n
       /\ dead' \subseteq 1 .. n /\ rotating' \subseteq [family : Nat, email : Emails, at : Nat]
  BY <1>1, <1>2, <1>7, <1>8, <1>11, <1>13 DEF SessionInv
<1> QED BY <1>7, <1>14, <1>15, <1>16, <1>17 DEF SessionInv

\* A family that is revoked has no live token; it is dead unless a successor is on its way.
LEMMA RevokingKeepsSessions == ASSUME SessionInv, RefreshDetectsReuse \/ RevokeRefreshToken PROVE SessionInv'
<1>1. PICK i \in DOMAIN tokens : RevokeFamily(tokens[i].family) /\ rotating' = rotating
  BY DEF RefreshDetectsReuse, RevokeRefreshToken
<1>2. PICK n \in Nat : n = Len(tokens) BY TokenShapes
<1>3. DOMAIN tokens = 1 .. n /\ \A j \in 1 .. n : tokens[j] \in TokenRecords BY <1>2, TokenShapes
<1>4. PICK session \in 1 .. n : session = tokens[i].family BY <1>2, <1>3 DEF SessionInv
<1>5. /\ tokens' = [j \in 1 .. n |-> IF tokens[j].family = session
                                    THEN [tokens[j] EXCEPT !.state = "revoked"] ELSE tokens[j]]
      /\ dead' = IF session \in {r.family : r \in rotating} THEN dead ELSE dead \union {session}
  BY <1>1, <1>3, <1>4 DEF RevokeFamily
<1>6. ASSUME NEW j \in 1 .. n
      PROVE  /\ tokens'[j] \in TokenRecords /\ tokens'[j].family = tokens[j].family
             /\ IsLive(j)' <=> IsLive(j) /\ tokens[j].family # session
  <2>1. PICK old \in TokenRecords : old = tokens[j] BY <1>3
  <2>2. PICK next : next = [old EXCEPT !.state = "revoked"] OBVIOUS
  <2>3. next \in TokenRecords /\ next.state = "revoked" /\ next.family = old.family BY <2>2 DEF TokenRecords
  <2>4. tokens'[j] = IF old.family = session THEN next ELSE old BY <1>5, <2>1, <2>2
  <2> QED BY <2>1, <2>3, <2>4 DEF IsLive
<1>7. tokens' \in Seq(TokenRecords) /\ Len(tokens') = n /\ DOMAIN tokens' = 1 .. n
  <2>1. tokens' = [j \in 1 .. n |-> tokens'[j]] BY <1>5
  <2>2. \A j \in 1 .. n : tokens'[j] \in TokenRecords BY <1>6
  <2>3. tokens' \in [1 .. n -> TokenRecords] BY <2>1, <2>2
  <2> HIDE DEF TokenRecords
  <2> QED BY <1>2, <2>3
<1>8. dead' \subseteq 1 .. n /\ dead' \subseteq dead \union {session} BY <1>2, <1>5 DEF SessionInv
<1>9. \A r \in rotating : r.family \notin dead' BY <1>5, <1>8 DEF SessionInv
<1>10. ASSUME NEW j \in 1 .. n, IsLive(j)'
       PROVE  /\ tokens'[j].family \notin dead'
              /\ \A r \in rotating : r.family # tokens'[j].family BY <1>3, <1>6, <1>8, <1>10 DEF SessionInv
<1>11. ASSUME NEW j \in 1 .. n, NEW k \in 1 .. n, IsLive(j)', tokens'[j].family = tokens'[k].family
       PROVE  k <= j BY <1>3, <1>6, <1>11 DEF SessionInv
<1>12. \A j \in 1 .. n : tokens'[j].family \in 1 .. n BY <1>2, <1>3, <1>6 DEF SessionInv
<1> QED BY <1>1, <1>2, <1>7, <1>8, <1>9, <1>10, <1>11, <1>12 DEF SessionInv

\* Rotation, reuse and revocation leave a family one live token at most.
LEMMA SessionNextKeeps == ASSUME SessionInv, LoginInv, SessionNext PROVE SessionInv'
BY SuccessorKeepsSessions, SpendingKeepsSessions, RevokingKeepsSessions DEF SessionNext

\* One live token or one on its way, counted.
LEMMA SessionsHaveOneLiveToken == ASSUME SessionInv PROVE OneLiveTokenPerLogin
<1>1. SUFFICES ASSUME NEW i \in DOMAIN tokens
               PROVE  LET session == tokens[i].family
                          Live == {j \in DOMAIN tokens : tokens[j].family = session /\ tokens[j].state = "active"}
                          Coming == {r \in rotating : r.family = session}
                      IN /\ Cardinality(Live) + Cardinality(Coming) <= 1
                         /\ session \in dead => Live \union Coming = {}
                         /\ \A j \in Live : \A k \in DOMAIN tokens : tokens[k].family = session => k <= j
  BY DEF OneLiveTokenPerLogin
<1> DEFINE session == tokens[i].family
           Live == {j \in DOMAIN tokens : tokens[j].family = session /\ tokens[j].state = "active"}
           Coming == {r \in rotating : r.family = session}
<1>2. \A j \in Live : \A k \in DOMAIN tokens : tokens[k].family = session => k <= j BY DEF SessionInv, IsLive
<1>3. session \in dead => Live \union Coming = {} BY DEF SessionInv, IsLive
<1>4. Live = {} \/ Coming = {} BY DEF SessionInv, IsLive
<1>5. Cardinality(Live) \in {0, 1} /\ (Live = {} => Cardinality(Live) = 0)
  <2>1. Cardinality({}) = 0 BY FS_EmptySet
  <2>2. CASE Live = {} BY <2>1, <2>2
  <2>3. CASE Live # {}
    <3>1. PICK j : j \in Live BY <2>3
    <3>2. ASSUME NEW k \in Live  PROVE k = j BY <1>2, <3>1, TokenShapes
    <3>3. Live = {j} BY <3>1, <3>2
    <3>4. Cardinality({j}) = 1 BY FS_Singleton
    <3> QED BY <2>3, <3>3, <3>4
  <2> QED BY <2>2, <2>3
<1>6. Cardinality(Coming) \in {0, 1} /\ (Coming = {} => Cardinality(Coming) = 0)
  <2>1. Cardinality({}) = 0 BY FS_EmptySet
  <2>2. CASE Coming = {} BY <2>1, <2>2
  <2>3. CASE Coming # {}
    <3>1. PICK r : r \in Coming BY <2>3
    <3>2. Coming = {r} BY <3>1 DEF SessionInv
    <3>3. Cardinality({r}) = 1 BY FS_Singleton
    <3> QED BY <2>3, <3>2, <3>3
  <2> QED BY <2>2, <2>3
<1> HIDE DEF Live, Coming
<1>7. Cardinality(Live) + Cardinality(Coming) <= 1 BY <1>4, <1>5, <1>6
<1> QED BY <1>2, <1>3, <1>7 DEF Live, Coming

--------------------
(* auth: the detector of unusual logins. *)

LogRecords == [email : Emails, from : Origins, ok : BOOLEAN, at : Ticks]

\* The parts of a log: the first n attempts on an account, those that were located, and
\* those since the last that succeeded.
EarlierOf(entries, n, e) == {j \in 1 .. n : entries[j].email = e}
LocatedOf(entries, n, e) ==
  {j \in EarlierOf(entries, n, e) : entries[j].ok /\ entries[j].from.place # Unknown}
SinceSuccessOf(entries, n, e) ==
  {j \in EarlierOf(entries, n, e) : \A k \in EarlierOf(entries, n, e) : entries[k].ok => k < j}

\* What the detector holds of the account is what those attempts say.
Remembers(entries, n, e, h) ==
  /\ h.devices = {entries[j].from.device : j \in EarlierOf(entries, n, e)} \ {Unknown}
  /\ h.networks = {entries[j].from.network : j \in EarlierOf(entries, n, e)} \ {Unknown}
  /\ h.any = (EarlierOf(entries, n, e) # {})
  /\ LocatedOf(entries, n, e) = {} => h.place = Unknown
  /\ \A j \in LocatedOf(entries, n, e) : (\A k \in LocatedOf(entries, n, e) : k <= j) =>
        h.place = entries[j].from.place /\ h.at = entries[j].at
  /\ h.failures \in Seq(Ticks)
  /\ \A x \in Int : Cardinality({i \in DOMAIN h.failures : h.failures[i] >= x})
                      = Cardinality({j \in SinceSuccessOf(entries, n, e) : entries[j].at >= x})

\* The alerts an attempt calls for, after the first n.
IsNewOf(entries, n, a, field) ==
  /\ a.from[field] # Unknown
  /\ \A j \in EarlierOf(entries, n, a.email) : entries[j].from[field] # a.from[field]

CalledFor(entries, n, a) ==
  (IF /\ EarlierOf(entries, n, a.email) # {}
      /\ IsNewOf(entries, n, a, "device") \/ IsNewOf(entries, n, a, "network")
   THEN {"NEW_DEVICE_OR_NETWORK"} ELSE {})
  \union
  (IF a.ok /\ a.from.place # Unknown
      /\ \E j \in LocatedOf(entries, n, a.email) :
            /\ \A k \in LocatedOf(entries, n, a.email) : k <= j
            /\ evaluateImpossibleTravel(entries[j].from.place, a.from.place,
                                        Elapsed(entries[j].at, a.at))
   THEN {"IMPOSSIBLE_TRAVEL"} ELSE {})
  \union
  (IF a.ok /\ Cardinality({j \in SinceSuccessOf(entries, n, a.email) :
                             entries[j].at >= a.at - LookbackWindow}) >= FailureThreshold
   THEN {"RAPID_FAILURES_THEN_SUCCESS"} ELSE {})

AlertKinds == {"NEW_DEVICE_OR_NETWORK", "IMPOSSIBLE_TRAVEL", "RAPID_FAILURES_THEN_SUCCESS"}

DetectorInv ==
  /\ log \in Seq(LogRecords)
  /\ alerts \in Seq(SUBSET AlertKinds) /\ Len(alerts) = Len(log)
  /\ DOMAIN seen = Emails
  /\ \A e \in Emails : Remembers(log, Len(log), e, seen[e])
  /\ \A i \in DOMAIN log : alerts[i] = CalledFor(log, i - 1, log[i])

SameEarlier(entries, more, n, e) ==
  /\ EarlierOf(more, n, e) = EarlierOf(entries, n, e)
  /\ LocatedOf(more, n, e) = LocatedOf(entries, n, e)
  /\ SinceSuccessOf(more, n, e) = SinceSuccessOf(entries, n, e)
  /\ EarlierOf(entries, n, e) \subseteq 1 .. n

\* The first entries stay the same entries.
LEMMA EarlierStay ==
  ASSUME NEW n \in Nat, NEW entries, NEW more, \A i \in 1 .. n : more[i] = entries[i], NEW e
  PROVE  SameEarlier(entries, more, n, e)
<1>1. EarlierOf(more, n, e) = EarlierOf(entries, n, e) /\ EarlierOf(entries, n, e) \subseteq 1 .. n
  BY DEF EarlierOf
<1>2. LocatedOf(more, n, e) = LocatedOf(entries, n, e) BY <1>1 DEF LocatedOf
<1>3. SinceSuccessOf(more, n, e) = SinceSuccessOf(entries, n, e) BY <1>1 DEF SinceSuccessOf
<1> QED BY <1>1, <1>2, <1>3 DEF SameEarlier

\* So what is remembered of them, and called for after them, stays the same.
LEMMA MemoryStays ==
  ASSUME NEW n \in Nat, NEW entries, NEW more, \A i \in 1 .. n : more[i] = entries[i],
         NEW e, NEW h, Remembers(entries, n, e, h)
  PROVE  Remembers(more, n, e, h)
<1>1. PICK B : B = EarlierOf(entries, n, e) OBVIOUS
<1>2. PICK L : L = LocatedOf(entries, n, e) OBVIOUS
<1>3. PICK S : S = SinceSuccessOf(entries, n, e) OBVIOUS
<1>4. /\ EarlierOf(more, n, e) = B /\ LocatedOf(more, n, e) = L /\ SinceSuccessOf(more, n, e) = S
      /\ B \subseteq 1 .. n BY EarlierStay, <1>1, <1>2, <1>3 DEF SameEarlier
<1>5. L \subseteq B /\ S \subseteq B BY <1>1, <1>2, <1>3 DEF LocatedOf, SinceSuccessOf
<1>6. \A j \in B : more[j] = entries[j] BY <1>4
<1>7. /\ h.devices = {entries[j].from.device : j \in B} \ {Unknown}
      /\ h.networks = {entries[j].from.network : j \in B} \ {Unknown}
      /\ h.any = (B # {}) /\ (L = {} => h.place = Unknown) /\ h.failures \in Seq(Ticks)
      /\ \A j \in L : (\A k \in L : k <= j) => h.place = entries[j].from.place /\ h.at = entries[j].at
  BY <1>1, <1>2 DEF Remembers
<1>8. /\ {entries[j].from.device : j \in B} = {more[j].from.device : j \in B}
      /\ {entries[j].from.network : j \in B} = {more[j].from.network : j \in B} BY <1>6
<1>9. ASSUME NEW x \in Int
      PROVE  Cardinality({i \in DOMAIN h.failures : h.failures[i] >= x})
                = Cardinality({j \in S : more[j].at >= x}) BY <1>5, <1>6, <1>3 DEF Remembers
<1>10. \A j \in L : (\A k \in L : k <= j) => h.place = more[j].from.place /\ h.at = more[j].at
  BY <1>5, <1>6, <1>7
<1> QED BY <1>4, <1>7, <1>8, <1>9, <1>10 DEF Remembers

\* The alerts that are called for depend on the attempts before alone.
LEMMA CallsStay ==
  ASSUME NEW n \in Nat, NEW entries, NEW more, \A i \in 1 .. n : more[i] = entries[i], NEW a
  PROVE  CalledFor(more, n, a) = CalledFor(entries, n, a)
<1>1. PICK e : e = a.email OBVIOUS
<1>2. PICK B : B = EarlierOf(entries, n, e) OBVIOUS
<1>3. PICK L : L = LocatedOf(entries, n, e) OBVIOUS
<1>4. PICK S : S = SinceSuccessOf(entries, n, e) OBVIOUS
<1>5. /\ EarlierOf(more, n, e) = B /\ LocatedOf(more, n, e) = L /\ SinceSuccessOf(more, n, e) = S
      /\ B \subseteq 1 .. n
  <2>1. SameEarlier(entries, more, n, e) BY EarlierStay
  <2> QED BY <1>2, <1>3, <1>4, <2>1 DEF SameEarlier
<1>6. L \subseteq B /\ S \subseteq B BY <1>2, <1>3, <1>4 DEF LocatedOf, SinceSuccessOf
<1>7. \A j \in B : more[j] = entries[j] BY <1>5
<1>8. \A field : IsNewOf(more, n, a, field) <=> IsNewOf(entries, n, a, field)
  BY <1>1, <1>2, <1>5, <1>7 DEF IsNewOf
<1>9. {j \in S : more[j].at >= a.at - LookbackWindow} = {j \in S : entries[j].at >= a.at - LookbackWindow}
  BY <1>6, <1>7
<1>10. (\E j \in L : /\ \A k \in L : k <= j
                     /\ evaluateImpossibleTravel(more[j].from.place, a.from.place, Elapsed(more[j].at, a.at)))
       <=> (\E j \in L : /\ \A k \in L : k <= j
                         /\ evaluateImpossibleTravel(entries[j].from.place, a.from.place, Elapsed(entries[j].at, a.at)))
  BY <1>6, <1>7
<1> QED BY <1>1, <1>2, <1>3, <1>4, <1>5, <1>8, <1>9, <1>10 DEF CalledFor

\* The detector raises what the attempts before call for.
LEMMA MemoryIsEnough ==
  ASSUME NEW n \in Nat, NEW entries, NEW a \in LogRecords, NEW h, Remembers(entries, n, a.email, h)
  PROVE  AlertsRaised(h, a.from, a.ok, a.at) = CalledFor(entries, n, a)
<1>1. PICK e : e = a.email OBVIOUS
<1>2. PICK B : B = EarlierOf(entries, n, e) OBVIOUS
<1>3. PICK L : L = LocatedOf(entries, n, e) OBVIOUS
<1>4. PICK S : S = SinceSuccessOf(entries, n, e) OBVIOUS
<1>5. /\ h.devices = {entries[j].from.device : j \in B} \ {Unknown}
      /\ h.networks = {entries[j].from.network : j \in B} \ {Unknown}
      /\ h.any = (B # {}) /\ (L = {} => h.place = Unknown)
      /\ \A j \in L : (\A k \in L : k <= j) => h.place = entries[j].from.place /\ h.at = entries[j].at
      /\ \A x \in Int : Cardinality({i \in DOMAIN h.failures : h.failures[i] >= x})
                          = Cardinality({j \in S : entries[j].at >= x})
  BY <1>1, <1>2, <1>3, <1>4 DEF Remembers
<1>6. L \subseteq 1 .. n /\ \A j \in L : entries[j].from.place # Unknown BY <1>3 DEF LocatedOf, EarlierOf
<1>7. L # {} => TheLatest(L) \in L /\ \A k \in L : k <= TheLatest(L) BY <1>6, LatestExists
<1>8. (h.any /\ \/ a.from.device \notin h.devices \union {Unknown}
                \/ a.from.network \notin h.networks \union {Unknown})
      <=> (B # {} /\ (IsNewOf(entries, n, a, "device") \/ IsNewOf(entries, n, a, "network")))
  BY <1>1, <1>2, <1>5 DEF IsNewOf
<1>9. (Unknown \notin {a.from.place, h.place}
         /\ evaluateImpossibleTravel(h.place, a.from.place, Elapsed(h.at, a.at)))
      <=> (/\ a.from.place # Unknown
           /\ \E j \in L : /\ \A k \in L : k <= j
                           /\ evaluateImpossibleTravel(entries[j].from.place, a.from.place,
                                                       Elapsed(entries[j].at, a.at)))
  <2>1. CASE L = {} BY <1>5, <2>1
  <2>2. CASE L # {}
    <3>1. PICK top \in L : \A k \in L : k <= top BY <1>7, <2>2
    <3>2. \A j \in L : (\A k \in L : k <= j) => j = top BY <1>6, <3>1
    <3>3. h.place = entries[top].from.place /\ h.at = entries[top].at /\ h.place # Unknown BY <1>5, <1>6, <3>1
    <3> QED BY <3>1, <3>2, <3>3
  <2> QED BY <2>1, <2>2
<1>10. countFailuresWithinWindow(h.failures, a.at)
          = Cardinality({j \in S : entries[j].at >= a.at - LookbackWindow})
  BY AuthAssumption, <1>5 DEF LogRecords, Ticks, countFailuresWithinWindow
<1> DEFINE new == h.any /\ \/ a.from.device \notin h.devices \union {Unknown}
                           \/ a.from.network \notin h.networks \union {Unknown}
           travel == a.ok /\ Unknown \notin {a.from.place, h.place}
                     /\ evaluateImpossibleTravel(h.place, a.from.place, Elapsed(h.at, a.at))
           rapid == a.ok /\ countFailuresWithinWindow(h.failures, a.at) >= FailureThreshold
<1>11. AlertsRaised(h, a.from, a.ok, a.at)
         = {alert \in {"NEW_DEVICE_OR_NETWORK", "IMPOSSIBLE_TRAVEL", "RAPID_FAILURES_THEN_SUCCESS"} :
              \/ alert = "NEW_DEVICE_OR_NETWORK" /\ new
              \/ alert = "IMPOSSIBLE_TRAVEL" /\ travel
              \/ alert = "RAPID_FAILURES_THEN_SUCCESS" /\ rapid} BY DEF AlertsRaised
<1>12. CalledFor(entries, n, a) =
         (IF new THEN {"NEW_DEVICE_OR_NETWORK"} ELSE {})
         \union (IF travel THEN {"IMPOSSIBLE_TRAVEL"} ELSE {})
         \union (IF rapid THEN {"RAPID_FAILURES_THEN_SUCCESS"} ELSE {})
  BY <1>1, <1>2, <1>3, <1>4, <1>8, <1>9, <1>10 DEF CalledFor
<1> HIDE DEF new, travel, rapid
<1> QED BY <1>11, <1>12

\* An attempt more: on another account nothing changes.
LEMMA OthersAreRemembered ==
  ASSUME NEW n \in Nat, NEW entries, NEW e, entries[n + 1].email # e, NEW h, Remembers(entries, n, e, h)
  PROVE  Remembers(entries, n + 1, e, h)
<1>1. EarlierOf(entries, n + 1, e) = EarlierOf(entries, n, e) BY DEF EarlierOf
<1>2. /\ LocatedOf(entries, n + 1, e) = LocatedOf(entries, n, e)
      /\ SinceSuccessOf(entries, n + 1, e) = SinceSuccessOf(entries, n, e)
  BY <1>1 DEF LocatedOf, SinceSuccessOf
<1> QED BY <1>1, <1>2 DEF Remembers

\* Times that count from x on, with one more.
FromOn(S, f, x) == {j \in S : f[j] >= x}

\* A failure counts in every window that reaches back to it.
LEMMA OneMoreFailure ==
  ASSUME NEW S, IsFiniteSet(S), NEW k, k \notin S, NEW f, NEW x \in Int, f[k] \in Int
  PROVE  Cardinality(FromOn(S \union {k}, f, x))
            = Cardinality(FromOn(S, f, x)) + (IF f[k] >= x THEN 1 ELSE 0)
<1> USE DEF FromOn
<1>1. PICK T : T = {j \in S : f[j] >= x} OBVIOUS
<1>2. IsFiniteSet(T) /\ k \notin T /\ Cardinality(T) \in Nat BY <1>1, FS_Subset, FS_CardinalityType
<1>3. CASE f[k] >= x BY <1>1, <1>3, <1>2, FS_AddElement
<1>4. CASE ~(f[k] >= x)
  <2>1. {j \in S \union {k} : f[j] >= x} = T BY <1>1, <1>4
  <2> QED BY <1>1, <1>2, <1>4, <2>1
<1> QED BY <1>3, <1>4

\* The attempt itself is remembered as RecordLoginAttempt notes it.
Noted(h, a) ==
  [devices |-> h.devices \union ({a.from.device} \ {Unknown}),
   networks |-> h.networks \union ({a.from.network} \ {Unknown}),
   any |-> TRUE,
   place |-> IF a.ok /\ a.from.place # Unknown THEN a.from.place ELSE h.place,
   at |-> IF a.ok /\ a.from.place # Unknown THEN a.at ELSE h.at,
   failures |-> IF a.ok THEN <<>> ELSE Append(h.failures, a.at)]

\* The detector that takes note of an attempt remembers it as the log has it.
LEMMA ItIsRemembered ==
  ASSUME NEW n \in Nat, NEW entries, NEW a \in LogRecords, entries[n + 1] = a,
         NEW h, Remembers(entries, n, a.email, h)
  PROVE  Remembers(entries, n + 1, a.email, Noted(h, a))
<1>1. PICK e : e = a.email OBVIOUS
<1>2. PICK B : B = EarlierOf(entries, n, e) OBVIOUS
<1>3. PICK L : L = LocatedOf(entries, n, e) OBVIOUS
<1>4. PICK S : S = SinceSuccessOf(entries, n, e) OBVIOUS
<1>5. /\ h.devices = {entries[j].from.device : j \in B} \ {Unknown}
      /\ h.networks = {entries[j].from.network : j \in B} \ {Unknown}
      /\ h.any = (B # {}) /\ (L = {} => h.place = Unknown)
      /\ \A j \in L : (\A k \in L : k <= j) => h.place = entries[j].from.place /\ h.at = entries[j].at
      /\ h.failures \in Seq(Ticks)
      /\ \A x \in Int : Cardinality({i \in DOMAIN h.failures : h.failures[i] >= x})
                          = Cardinality({j \in S : entries[j].at >= x})
  BY <1>1, <1>2, <1>3, <1>4 DEF Remembers
<1>6. B \subseteq 1 .. n /\ L \subseteq B /\ S \subseteq B
  BY <1>2, <1>3, <1>4 DEF EarlierOf, LocatedOf, SinceSuccessOf
<1>7. PICK m \in Nat : m = n + 1 /\ m \notin B /\ m \notin S /\ m \notin L /\ entries[m] = a
  <2>1. n + 1 \notin 1 .. n OBVIOUS
  <2> QED BY <1>6, <2>1
<1>8. \A j \in B : j \in Nat /\ j < m BY <1>6, <1>7
<1>9. EarlierOf(entries, m, e) = B \union {m} BY <1>7, <1>1, <1>2 DEF EarlierOf
<1>10. LocatedOf(entries, m, e) = L \union (IF a.ok /\ a.from.place # Unknown THEN {m} ELSE {})
  BY <1>2, <1>3, <1>7, <1>9 DEF LocatedOf
<1>11. SinceSuccessOf(entries, m, e) = IF a.ok THEN {} ELSE S \union {m}
  <2>1. SinceSuccessOf(entries, m, e)
          = {j \in B \union {m} : \A k \in B \union {m} : entries[k].ok => k < j} BY <1>9 DEF SinceSuccessOf
  <2>2. S = {j \in B : \A k \in B : entries[k].ok => k < j} BY <1>2, <1>4 DEF SinceSuccessOf
  <2>3. CASE a.ok BY <1>7, <1>8, <2>1, <2>3
  <2>4. CASE ~a.ok BY <1>8, <1>7, <2>1, <2>2, <2>4
  <2> QED BY <2>3, <2>4
<1>12. PICK g : g = Noted(h, a) OBVIOUS
<1>13. /\ g.devices = h.devices \union ({a.from.device} \ {Unknown})
       /\ g.networks = h.networks \union ({a.from.network} \ {Unknown})
       /\ g.any = TRUE
       /\ g.place = IF a.ok /\ a.from.place # Unknown THEN a.from.place ELSE h.place
       /\ g.at = IF a.ok /\ a.from.place # Unknown THEN a.at ELSE h.at
       /\ g.failures = IF a.ok THEN <<>> ELSE Append(h.failures, a.at) BY <1>12 DEF Noted
<1>14. /\ g.devices = {entries[j].from.device : j \in B \union {m}} \ {Unknown}
       /\ g.networks = {entries[j].from.network : j \in B \union {m}} \ {Unknown} BY <1>5, <1>7, <1>13
<1>15. g.any = (B \union {m} # {}) BY <1>13
<1>16. PICK L2 : L2 = LocatedOf(entries, m, e) OBVIOUS
<1>17. /\ L2 = {} => g.place = Unknown
       /\ \A j \in L2 : (\A k \in L2 : k <= j) => g.place = entries[j].from.place /\ g.at = entries[j].at
  <2>1. CASE a.ok /\ a.from.place # Unknown
    <3>1. L2 = L \union {m} BY <1>10, <1>16, <2>1
    <3>2. \A j \in L2 : (\A k \in L2 : k <= j) => j = m BY <1>6, <1>7, <1>8, <3>1
    <3> QED BY <1>7, <1>13, <2>1, <3>1, <3>2
  <2>2. CASE ~(a.ok /\ a.from.place # Unknown) BY <1>5, <1>10, <1>13, <1>16, <2>2
  <2> QED BY <2>1, <2>2
<1>18. a.at \in Ticks /\ a.at \in Int BY AuthAssumption DEF LogRecords, Ticks
<1>19. PICK S2 : S2 = SinceSuccessOf(entries, m, e) OBVIOUS
<1>20. /\ g.failures \in Seq(Ticks)
       /\ \A x \in Int : Cardinality({i \in DOMAIN g.failures : g.failures[i] >= x})
                           = Cardinality({j \in S2 : entries[j].at >= x})
  <2>1. CASE a.ok BY <1>11, <1>13, <1>19, <2>1
  <2>2. CASE ~a.ok
    <3>1. g.failures = Append(h.failures, a.at) /\ S2 = S \union {m} BY <1>11, <1>13, <1>19, <2>2
    <3>2. PICK l \in Nat : l = Len(h.failures) BY <1>5
    <3>3. /\ g.failures \in Seq(Ticks) /\ DOMAIN g.failures = 1 .. l + 1 /\ DOMAIN h.failures = 1 .. l
          /\ g.failures[l + 1] = a.at /\ \A i \in 1 .. l : g.failures[i] = h.failures[i]
      <4> HIDE DEF Ticks
      <4> QED BY <1>5, <1>18, <3>1, <3>2
    <3>4. ASSUME NEW x \in Int
          PROVE  Cardinality({i \in DOMAIN g.failures : g.failures[i] >= x})
                   = Cardinality({j \in S2 : entries[j].at >= x})
      <4>1. IsFiniteSet(1 .. l) /\ l + 1 \notin 1 .. l /\ (1 .. l) \union {l + 1} = 1 .. l + 1
        <5>1. 1 \in Int /\ l \in Int OBVIOUS
        <5>2. IsFiniteSet(1 .. l) BY <5>1, FS_Interval
        <5>3. \A i : i \in 1 .. l + 1 <=> i \in 1 .. l \/ i = l + 1 OBVIOUS
        <5>4. (1 .. l) \union {l + 1} = 1 .. l + 1 BY <5>3
        <5>5. l + 1 \notin 1 .. l OBVIOUS
        <5> QED BY <5>2, <5>4, <5>5
      <4>2. PICK f : f = g.failures OBVIOUS
      <4>3. f[l + 1] \in Int BY <1>18, <3>3, <4>2
      <4>4. Cardinality(FromOn((1 .. l) \union {l + 1}, f, x))
              = Cardinality(FromOn(1 .. l, f, x)) + (IF f[l + 1] >= x THEN 1 ELSE 0)
        <5>1. PICK T, k : T = 1 .. l /\ k = l + 1 OBVIOUS
        <5>2. IsFiniteSet(T) /\ k \notin T /\ f[k] \in Int BY <4>1, <4>3, <5>1
        <5>3. Cardinality(FromOn(T \union {k}, f, x))
                = Cardinality(FromOn(T, f, x)) + (IF f[k] >= x THEN 1 ELSE 0) BY <5>2, OneMoreFailure
        <5> QED BY <5>1, <5>3
      <4>5. FromOn(1 .. l, f, x) = {i \in DOMAIN h.failures : h.failures[i] >= x} BY <3>3, <4>2 DEF FromOn
      <4>6. IsFiniteSet(S)
        <5>1. IsFiniteSet(1 .. n) BY FS_Interval
        <5>2. S \subseteq 1 .. n BY <1>6
        <5> QED BY <5>1, <5>2, FS_Subset
      <4>7. PICK times : times = [j \in S \union {m} |-> entries[j].at] OBVIOUS
      <4>8. times[m] = a.at /\ \A j \in S : times[j] = entries[j].at BY <1>7, <4>7
      <4>9. times[m] \in Int BY <1>18, <4>8
      <4>10. Cardinality(FromOn(S \union {m}, times, x))
               = Cardinality(FromOn(S, times, x)) + (IF times[m] >= x THEN 1 ELSE 0)
        BY <1>7, <4>6, <4>9, OneMoreFailure
      <4>11. /\ FromOn(S \union {m}, times, x) = {j \in S2 : entries[j].at >= x}
             /\ FromOn(S, times, x) = {j \in S : entries[j].at >= x} BY <1>7, <3>1, <4>7, <4>8 DEF FromOn
      <4>12. Cardinality({i \in DOMAIN h.failures : h.failures[i] >= x})
               = Cardinality({j \in S : entries[j].at >= x}) BY <1>5
      <4>13. {i \in DOMAIN g.failures : g.failures[i] >= x} = FromOn((1 .. l) \union {l + 1}, f, x)
        BY <3>3, <4>1, <4>2 DEF FromOn
      <4>14. f[l + 1] = times[m] BY <3>3, <4>2, <4>8
      <4> QED BY <4>4, <4>5, <4>10, <4>11, <4>12, <4>13, <4>14
    <3> QED BY <3>3, <3>4
  <2> QED BY <2>1, <2>2
<1>21. Remembers(entries, m, e, g) BY <1>9, <1>14, <1>15, <1>16, <1>17, <1>19, <1>20 DEF Remembers
<1> QED BY <1>1, <1>7, <1>12, <1>21

\* The log and the alerts are numbered alike.
LEMMA LogShapes ==
  ASSUME DetectorInv
  PROVE  /\ log \in Seq(LogRecords) /\ Len(log) \in Nat /\ DOMAIN log = 1 .. Len(log)
         /\ alerts \in Seq(SUBSET AlertKinds) /\ Len(alerts) = Len(log)
<1>1. log \in Seq(LogRecords) BY DEF DetectorInv
<1>2. alerts \in Seq(SUBSET AlertKinds) /\ Len(alerts) = Len(log) BY DEF DetectorInv
<1> HIDE DEF LogRecords
<1> QED BY <1>1, <1>2

\* An attempt that is recorded raises what it calls for, and is remembered.
LEMMA RecordKeepsTheMemory ==
  ASSUME DetectorInv, NEW e \in Emails, NEW o \in Origins, NEW ok \in BOOLEAN, NEW at \in Ticks,
         RecordLoginAttempt(e, o, ok, at)
  PROVE  DetectorInv'
<1>1. PICK n \in Nat : n = Len(log) BY LogShapes
<1>2. PICK a : a = [email |-> e, from |-> o, ok |-> ok, at |-> at] OBVIOUS
<1>3. a \in LogRecords /\ a.email = e /\ a.from = o /\ a.ok = ok /\ a.at = at BY <1>2 DEF LogRecords
<1>4. PICK h : h = seen[e] OBVIOUS
<1>5. PICK raisedNow : raisedNow = AlertsRaised(h, o, ok, at) OBVIOUS
<1>6. log' = Append(log, a) /\ alerts' = Append(alerts, raisedNow) /\ seen' = [seen EXCEPT ![e] = Noted(h, a)]
  BY <1>2, <1>3, <1>4, <1>5 DEF RecordLoginAttempt, Noted
<1>7. raisedNow \in SUBSET AlertKinds BY <1>5 DEF AlertsRaised, AlertKinds
<1>8. PICK entries : entries = log OBVIOUS
<1>9. PICK more : more = log' OBVIOUS
<1>10. /\ more \in Seq(LogRecords) /\ Len(more) = n + 1 /\ DOMAIN more = 1 .. n + 1
       /\ more[n + 1] = a /\ \A i \in 1 .. n : more[i] = entries[i]
  <2> HIDE DEF LogRecords
  <2> QED BY <1>1, <1>3, <1>6, <1>8, <1>9, LogShapes
<1>11. /\ alerts' \in Seq(SUBSET AlertKinds) /\ Len(alerts') = n + 1
       /\ alerts'[n + 1] = raisedNow /\ \A i \in 1 .. n : alerts'[i] = alerts[i]
  <2> HIDE DEF AlertKinds
  <2> QED BY <1>1, <1>6, <1>7, LogShapes
<1>12. /\ DOMAIN seen' = Emails
       /\ \A f \in Emails : seen'[f] = IF f = e THEN Noted(h, a) ELSE seen[f] BY <1>6 DEF DetectorInv
<1>13. ASSUME NEW f \in Emails  PROVE Remembers(entries, n, f, seen[f]) /\ Remembers(more, n, f, seen[f])
  <2>1. Remembers(entries, n, f, seen[f]) BY <1>1, <1>8 DEF DetectorInv
  <2>2. PICK g : g = seen[f] OBVIOUS
  <2>3. Remembers(more, n, f, g) BY <1>10, <2>1, <2>2, MemoryStays
  <2> QED BY <2>1, <2>2, <2>3
<1>14. Remembers(more, n, a.email, h) BY <1>3, <1>4, <1>13
<1>15. ASSUME NEW f \in Emails  PROVE Remembers(more, n + 1, f, seen'[f])
  <2>1. CASE f = e
    <3>1. Remembers(more, n + 1, a.email, Noted(h, a)) BY <1>3, <1>10, <1>14, ItIsRemembered
    <3> QED BY <1>3, <1>12, <2>1, <3>1
  <2>2. CASE f # e
    <3>1. PICK g : g = seen[f] OBVIOUS
    <3>2. more[n + 1].email # f BY <1>3, <1>10, <2>2
    <3>3. Remembers(more, n + 1, f, g) BY <1>13, <3>1, <3>2, OthersAreRemembered
    <3> QED BY <1>12, <2>2, <3>1, <3>3
  <2> QED BY <2>1, <2>2
<1>16. raisedNow = CalledFor(more, n, a) BY <1>3, <1>14, MemoryIsEnough, <1>5
<1>17. ASSUME NEW i \in 1 .. n + 1  PROVE alerts'[i] = CalledFor(more, i - 1, more[i])
  <2>1. CASE i = n + 1 BY <1>1, <1>10, <1>11, <1>16, <2>1
  <2>2. CASE i \in 1 .. n
    <3>1. alerts[i] = CalledFor(entries, i - 1, entries[i]) BY <1>1, <1>8, <2>2, LogShapes DEF DetectorInv
    <3>2. PICK k \in Nat : k = i - 1 /\ \A j \in 1 .. k : j \in 1 .. n BY <1>1, <2>2
    <3>3. PICK b : b = entries[i] OBVIOUS
    <3>4. \A j \in 1 .. k : more[j] = entries[j] BY <1>10, <3>2
    <3>5. CalledFor(more, k, b) = CalledFor(entries, k, b) BY <3>4, CallsStay
    <3> QED BY <1>10, <1>11, <2>2, <3>1, <3>2, <3>3, <3>5
  <2> QED BY <1>1, <2>1, <2>2
<1>18. (\A f \in Emails : Remembers(log, Len(log), f, seen[f]))' BY <1>9, <1>10, <1>15
<1>19. (\A i \in DOMAIN log : alerts[i] = CalledFor(log, i - 1, log[i]))' BY <1>9, <1>10, <1>17
<1> QED BY <1>9, <1>10, <1>11, <1>12, <1>18, <1>19 DEF DetectorInv

\* The handlers record the attempts of the requests in flight.
LEMMA AttemptsKeepTheMemory ==
  ASSUME DetectorInv, LoginInv, LoginIsRefused \/ LoginSucceeds PROVE DetectorInv'
<1>1. PICK l \in Logins, ok \in BOOLEAN :
        /\ login[l].stage \in {"refused", "passed"}
        /\ RecordLoginAttempt(login[l].email, login[l].from, ok, login[l].at)
  BY DEF LoginIsRefused, LoginSucceeds
<1>2. login[l] \in LoginRecords BY <1>1 DEF LoginInv, Idle
<1>3. PICK e \in Emails, o \in Origins, at \in Ticks :
        e = login[l].email /\ o = login[l].from /\ at = login[l].at BY <1>2 DEF LoginRecords
<1>4. RecordLoginAttempt(e, o, ok, at) BY <1>1, <1>3
<1> QED BY <1>4, RecordKeepsTheMemory

\* Of no attempts nothing is remembered.
LEMMA DetectorStarts == ASSUME AuthInit PROVE DetectorInv
<1>1. /\ log = <<>> /\ alerts = <<>>
      /\ seen = [e \in Emails |-> [devices |-> {}, networks |-> {}, any |-> FALSE,
                                   place |-> Unknown, at |-> 0, failures |-> <<>>]] BY DEF AuthInit
<1>2. \A e : EarlierOf(log, 0, e) = {} /\ LocatedOf(log, 0, e) = {} /\ SinceSuccessOf(log, 0, e) = {}
  BY DEF EarlierOf, LocatedOf, SinceSuccessOf
<1>3. ASSUME NEW e \in Emails  PROVE Remembers(log, 0, e, seen[e])
  <2>1. PICK h : h = seen[e] OBVIOUS
  <2>2. h = [devices |-> {}, networks |-> {}, any |-> FALSE, place |-> Unknown, at |-> 0, failures |-> <<>>]
    BY <1>1, <2>1
  <2>3. /\ h.devices = {} /\ h.networks = {} /\ h.any = FALSE /\ h.place = Unknown /\ h.failures = <<>>
    BY <2>2
  <2>4. \A x \in Int : /\ {i \in DOMAIN h.failures : h.failures[i] >= x} = {}
                       /\ {j \in SinceSuccessOf(log, 0, e) : log[j].at >= x} = {} BY <1>2, <2>3
  <2>5. \A x \in Int : Cardinality({i \in DOMAIN h.failures : h.failures[i] >= x})
                         = Cardinality({j \in SinceSuccessOf(log, 0, e) : log[j].at >= x}) BY <2>4
  <2>6. <<>> \in Seq(Ticks) OBVIOUS
  <2>7. PICK B : B = EarlierOf(log, 0, e) OBVIOUS
  <2>8. B = {} BY <1>2, <2>7
  <2>9. {log[j].from.device : j \in B} \ {Unknown} = {} /\ {log[j].from.network : j \in B} \ {Unknown} = {}
    BY <2>8
  <2>10. h.any = (B # {}) BY <2>3, <2>8
  <2>11. LocatedOf(log, 0, e) = {} BY <1>2
  <2>12. Remembers(log, 0, e, h) BY <2>3, <2>5, <2>6, <2>7, <2>9, <2>10, <2>11, Zenon DEF Remembers
  <2> QED BY <2>1, <2>12
<1>4. Len(log) = 0 /\ Len(alerts) = Len(log) /\ DOMAIN log = {} BY <1>1
<1>5. log \in Seq(LogRecords) /\ alerts \in Seq(SUBSET AlertKinds) BY <1>1
<1>6. DOMAIN seen = Emails BY <1>1
<1>7. \A e \in Emails : Remembers(log, Len(log), e, seen[e]) BY <1>3, <1>4
<1>8. \A i \in DOMAIN log : alerts[i] = CalledFor(log, i - 1, log[i]) BY <1>4
<1> QED BY <1>4, <1>5, <1>6, <1>7, <1>8, Zenon DEF DetectorInv

\* The alerts called for are those the attempts before justify.
LEMMA AlertsAreCalledFor == ASSUME DetectorInv PROVE AlertsFollowFromTheAttempts
<1>1. SUFFICES ASSUME NEW i \in DOMAIN log
               PROVE  LET a == log[i]
                          Before == {j \in 1 .. i - 1 : log[j].email = a.email}
                          Located == {j \in Before : log[j].ok /\ log[j].from.place # Unknown}
                          SinceSuccess == {j \in Before : \A k \in Before : log[k].ok => k < j}
                          Recent == {j \in SinceSuccess : log[j].at >= a.at - LookbackWindow}
                          IsNew(field) == a.from[field] # Unknown /\ \A j \in Before : log[j].from[field] # a.from[field]
                      IN alerts[i] =
                           (IF Before # {} /\ (IsNew("device") \/ IsNew("network"))
                            THEN {"NEW_DEVICE_OR_NETWORK"} ELSE {})
                           \union
                           (IF a.ok /\ a.from.place # Unknown
                               /\ \E j \in Located :
                                     /\ \A k \in Located : k <= j
                                     /\ evaluateImpossibleTravel(log[j].from.place, a.from.place, Elapsed(log[j].at, a.at))
                            THEN {"IMPOSSIBLE_TRAVEL"} ELSE {})
                           \union
                           (IF a.ok /\ Cardinality(Recent) >= FailureThreshold
                            THEN {"RAPID_FAILURES_THEN_SUCCESS"} ELSE {}) BY DEF AlertsFollowFromTheAttempts
<1>2. alerts[i] = CalledFor(log, i - 1, log[i]) BY DEF DetectorInv
<1> QED BY <1>2, Zenon DEF CalledFor, IsNewOf, EarlierOf, LocatedOf, SinceSuccessOf

--------------------
(* api-gateway: API keys and token buckets. *)

\* The tier a bucket is filled by: that of its key, which a key keeps, or that of an address.
IsTierOf(b, tier) ==
  \/ b[1] = "address" /\ tier = "RETAIL"
  \/ b[1] = "key" /\ b[2] \in DOMAIN apiKeys /\ tier = apiKeys[b[2]].tier

ApiKeyTypes == [account : Clients, sandbox : BOOLEAN, revoked : BOOLEAN, tier : DOMAIN TierLimits]

PassedIn(i, j, b) == {n \in i .. j : passed[n].bucket = b}

\* What went through a bucket since a request, with what is left in it, came out of a full
\* bucket and what flowed in since.
IsCoveredSince(i) ==
  LET b == passed[i].bucket
      limit == TierLimits[passed[i].tier]
  IN /\ b \in DOMAIN buckets
     /\ passed[i].at <= buckets[b].at
     /\ Cardinality(PassedIn(i, Len(passed), b)) + buckets[b].tokens
            <= limit.burst + (buckets[b].at - passed[i].at) * limit.rate

KeysAreTyped ==
  /\ clock \in Nat
  /\ apiKeys \in Seq(ApiKeyTypes)
  /\ \A k \in DOMAIN apiKeys : apiKeys[k].sandbox => apiKeys[k].tier = "SANDBOX"
  /\ Len(passed) \in Nat /\ DOMAIN passed = 1 .. Len(passed)
  /\ \A i \in DOMAIN passed :
        /\ passed[i].tier \in DOMAIN TierLimits /\ passed[i].at \in Nat
        /\ IsTierOf(passed[i].bucket, passed[i].tier)
  /\ \A b \in DOMAIN buckets :
        /\ buckets[b].tokens \in Nat /\ buckets[b].at \in 0 .. clock
        /\ \E tier \in DOMAIN TierLimits : IsTierOf(b, tier)
        /\ \A tier \in DOMAIN TierLimits : IsTierOf(b, tier) => buckets[b].tokens <= TierLimits[tier].burst

KeyInv ==
  /\ KeysAreTyped
  /\ \A i \in DOMAIN passed : IsCoveredSince(i)
  /\ BucketsBoundEveryStretch

\* A sum times a rate.
LEMMA Distribute ==
  ASSUME NEW a \in Int, NEW b \in Int, NEW r \in Int
  PROVE  (a + b) * r = a * r + b * r /\ a * r \in Int /\ b * r \in Int OBVIOUS

\* Whatever flowed in is not negative.
LEMMA InflowIsNat == ASSUME NEW a \in Nat, NEW r \in Nat PROVE a * r \in Nat OBVIOUS

\* A request is let through, or not, and its bucket stays covered.
LEMMA AllowRequestKeeps ==
  ASSUME KeyInv, NEW key, NEW tier \in DOMAIN TierLimits, IsTierOf(key, tier),
         AllowRequest(key, tier), apiKeys' = apiKeys, clock' = clock
  PROVE  KeyInv'
<1> DEFINE burst == TierLimits[tier].burst
           rate == TierLimits[tier].rate
           known == key \in DOMAIN buckets
           bucket == IF key \in DOMAIN buckets THEN buckets[key] ELSE [tokens |-> TierLimits[tier].burst, at |-> clock]
           full == IF clock > bucket.at
                   THEN AtMost(bucket.tokens + (clock - bucket.at) * TierLimits[tier].rate, TierLimits[tier].burst)
                   ELSE bucket.tokens
           spent == IF full < 1 THEN full ELSE full - 1
<1>0. PICK n \in Nat : n = Len(passed) BY DEF KeyInv, KeysAreTyped
<1>1. /\ buckets' = [b \in DOMAIN buckets \union {key} |->
             IF b = key THEN [tokens |-> spent, at |-> clock] ELSE buckets[b]]
      /\ passed' = IF full < 1 THEN passed
                   ELSE Append(passed, [bucket |-> key, tier |-> tier, at |-> clock]) BY DEF AllowRequest
<1>2. burst \in Nat /\ rate \in Nat BY GatewayAssumption
<1>3. KeysAreTyped /\ n \in Nat /\ n = Len(passed) /\ DOMAIN passed = 1 .. n /\ clock \in Nat
  BY <1>0 DEF KeyInv, KeysAreTyped
<1>4. bucket.tokens \in Nat /\ bucket.at \in 0 .. clock /\ bucket.tokens <= burst
  BY <1>2, <1>3 DEF KeysAreTyped
<1> HIDE DEF bucket, burst, rate
<1>5. full = IF clock > bucket.at THEN AtMost(bucket.tokens + (clock - bucket.at) * rate, burst)
             ELSE bucket.tokens BY DEF burst, rate
<1> HIDE DEF full
<1>6. full \in Nat /\ full <= burst /\ full <= bucket.tokens + (clock - bucket.at) * rate
  <2>1. (clock - bucket.at) \in Nat BY <1>3, <1>4
  <2>2. PICK inflow \in Nat : inflow = (clock - bucket.at) * rate BY <1>2, <2>1, InflowIsNat
  <2>3. full = IF clock > bucket.at THEN AtMost(bucket.tokens + inflow, burst) ELSE bucket.tokens
    BY <1>5, <2>2
  <2>4. full \in Nat /\ full <= burst /\ full <= bucket.tokens + inflow BY <1>2, <1>4, <2>2, <2>3 DEF AtMost
  <2> QED BY <2>2, <2>4
<1>7. spent \in Nat /\ spent <= burst BY <1>2, <1>6
<1> HIDE DEF spent
<1>8. /\ DOMAIN buckets' = DOMAIN buckets \cup {key}
      /\ buckets'[key].tokens = spent /\ buckets'[key].at = clock
      /\ \A b \in DOMAIN buckets : b # key => buckets'[b] = buckets[b] BY <1>1
<1>9. ASSUME NEW i \in 1 .. n, passed[i].bucket = key
      PROVE  /\ passed[i].tier = tier /\ passed[i].at \in Nat /\ passed[i].at <= bucket.at
             /\ Cardinality(PassedIn(i, n, key)) \in Nat
             /\ Cardinality(PassedIn(i, n, key)) + full <= burst + (clock - passed[i].at) * rate
  <2>1. passed[i].tier = tier /\ passed[i].at \in Nat BY <1>3, <1>9 DEF KeysAreTyped, IsTierOf
  <2>2. /\ key \in DOMAIN buckets /\ passed[i].at <= bucket.at
        /\ Cardinality(PassedIn(i, n, key)) + bucket.tokens <= burst + (bucket.at - passed[i].at) * rate
    BY <1>3, <1>9, <2>1 DEF KeyInv, IsCoveredSince, bucket, burst, rate
  <2>3. Cardinality(PassedIn(i, n, key)) \in Nat
    <3>1. IsFiniteSet(i .. n) /\ PassedIn(i, n, key) \subseteq i .. n BY <1>3, FS_Interval DEF PassedIn
    <3> QED BY <3>1, FS_Subset, FS_CardinalityType
  <2>4. /\ bucket.at - passed[i].at \in Int /\ clock - bucket.at \in Int
        /\ (bucket.at - passed[i].at) + (clock - bucket.at) = clock - passed[i].at BY <1>3, <1>4, <2>1
  <2>5. (clock - passed[i].at) * rate = (bucket.at - passed[i].at) * rate + (clock - bucket.at) * rate
        /\ (bucket.at - passed[i].at) * rate \in Int /\ (clock - bucket.at) * rate \in Int
    BY <1>2, <2>4, Distribute
  <2>6. PICK x, y, z \in Int : /\ x = (bucket.at - passed[i].at) * rate
                              /\ y = (clock - bucket.at) * rate
                              /\ z = (clock - passed[i].at) * rate BY <2>5
  <2>7. PICK c \in Nat : c = Cardinality(PassedIn(i, n, key)) BY <2>3
  <2>8. z = x + y /\ full <= bucket.tokens + y /\ c + bucket.tokens <= burst + x
    BY <1>6, <2>2, <2>5, <2>6, <2>7
  <2>9. c + full <= burst + z BY <1>2, <1>4, <1>6, <2>6, <2>7, <2>8
  <2> QED BY <2>1, <2>2, <2>3, <2>6, <2>7, <2>9
<1>10. CASE full < 1
  <2>1. passed' = passed /\ spent = full BY <1>1, <1>10 DEF spent
  <2>2. KeysAreTyped'
    <3>1. ASSUME NEW b \in DOMAIN buckets'
          PROVE  /\ buckets'[b].tokens \in Nat /\ buckets'[b].at \in 0 .. clock
                 /\ \E t \in DOMAIN TierLimits : IsTierOf(b, t)
                 /\ \A t \in DOMAIN TierLimits : IsTierOf(b, t) => buckets'[b].tokens <= TierLimits[t].burst
      <4>1. CASE b = key BY <1>3, <1>7, <1>8, <4>1 DEF IsTierOf, burst
      <4>2. CASE b # key BY <1>3, <1>8, <4>2 DEF KeysAreTyped
      <4> QED BY <4>1, <4>2
    <3> QED BY <1>3, <2>1, <3>1 DEF KeysAreTyped, IsTierOf
  <2>3. ASSUME NEW i \in 1 .. n  PROVE IsCoveredSince(i)'
    <3>1. CASE passed[i].bucket = key
      <4>1. passed[i].at <= clock BY <1>3, <1>4, <1>9, <3>1
      <4>2. /\ passed'[i].bucket = key /\ passed'[i].tier = tier /\ passed'[i].at = passed[i].at
        BY <1>9, <2>1, <3>1
      <4>3. key \in DOMAIN buckets' /\ buckets'[key].tokens = spent /\ buckets'[key].at = clock BY <1>8
      <4>4. Cardinality(PassedIn(i, Len(passed), key)') + spent <= burst + (clock - passed[i].at) * rate
        BY <1>3, <1>9, <2>1, <3>1 DEF PassedIn
      <4>5. TierLimits[passed'[i].tier].burst = burst /\ TierLimits[passed'[i].tier].rate = rate
        BY <4>2 DEF burst, rate
      <4> QED BY <4>1, <4>2, <4>3, <4>4, <4>5 DEF IsCoveredSince
    <3>2. CASE passed[i].bucket # key BY <1>3, <1>8, <2>1, <3>2 DEF KeyInv, IsCoveredSince, PassedIn
    <3> QED BY <3>1, <3>2
  <2> QED BY <1>3, <2>1, <2>2, <2>3 DEF KeyInv, BucketsBoundEveryStretch
<1>11. CASE ~(full < 1)
  <2> DEFINE new == [bucket |-> key, tier |-> tier, at |-> clock]
  <2>1. passed' = Append(passed, new) /\ spent = full - 1 BY <1>1, <1>11 DEF spent
  <2>2. /\ Len(passed') = n + 1 /\ DOMAIN passed' = 1 .. n + 1 /\ passed'[n + 1] = new
        /\ \A i \in 1 .. n : passed'[i] = passed[i] BY <1>3, <2>1
  <2>3. new.bucket = key /\ new.tier = tier /\ new.at = clock OBVIOUS
  <2> HIDE DEF new
  <2>4. PassedIn(n + 1, n + 1, key)' = {n + 1} /\ Cardinality(PassedIn(n + 1, n + 1, key)') = 1
    <3>1. PassedIn(n + 1, n + 1, key)' = {n + 1} BY <1>3, <2>2, <2>3 DEF PassedIn
    <3> QED BY <3>1, FS_Singleton
  <2>5. ASSUME NEW i \in 1 .. n, passed[i].bucket = key
        PROVE  /\ PassedIn(i, n + 1, key)' = PassedIn(i, n, key) \cup {n + 1}
               /\ Cardinality(PassedIn(i, n + 1, key)') = Cardinality(PassedIn(i, n, key)) + 1
    <3>1. PassedIn(i, n + 1, key)' = PassedIn(i, n, key) \cup {n + 1} BY <1>3, <2>2, <2>3 DEF PassedIn
    <3>2. IsFiniteSet(PassedIn(i, n, key)) /\ n + 1 \notin PassedIn(i, n, key)
      <4>1. IsFiniteSet(i .. n) /\ PassedIn(i, n, key) \subseteq i .. n BY <1>3, FS_Interval DEF PassedIn
      <4> QED BY <1>3, <4>1, FS_Subset
    <3> QED BY <3>1, <3>2, FS_AddElement
  <2>6. ASSUME NEW i \in 1 .. n, NEW j \in 1 .. n, NEW b PROVE PassedIn(i, j, b)' = PassedIn(i, j, b)
    BY <1>3, <2>2 DEF PassedIn
  <2>7. KeysAreTyped'
    <3>1. ASSUME NEW b \in DOMAIN buckets'
          PROVE  /\ buckets'[b].tokens \in Nat /\ buckets'[b].at \in 0 .. clock
                 /\ \E t \in DOMAIN TierLimits : IsTierOf(b, t)
                 /\ \A t \in DOMAIN TierLimits : IsTierOf(b, t) => buckets'[b].tokens <= TierLimits[t].burst
      <4>1. CASE b = key BY <1>3, <1>7, <1>8, <4>1 DEF IsTierOf, burst
      <4>2. CASE b # key BY <1>3, <1>8, <4>2 DEF KeysAreTyped
      <4> QED BY <4>1, <4>2
    <3>2. ASSUME NEW i \in 1 .. n + 1
          PROVE  /\ passed'[i].tier \in DOMAIN TierLimits /\ passed'[i].at \in Nat
                 /\ IsTierOf(passed'[i].bucket, passed'[i].tier)
      <4>1. CASE i \in 1 .. n BY <1>3, <2>2, <4>1 DEF KeysAreTyped
      <4>2. CASE i \notin 1 .. n BY <1>3, <4>2, <2>2, <2>3
      <4> QED BY <4>1, <4>2
    <3>3. n + 1 \in Nat BY <1>3
    <3> QED BY <1>3, <2>2, <3>1, <3>2, <3>3 DEF KeysAreTyped, IsTierOf
  <2>8. ASSUME NEW i \in 1 .. n, passed[i].bucket = key
        PROVE  /\ Cardinality(PassedIn(i, n + 1, key)') \in Nat
               /\ Cardinality(PassedIn(i, n + 1, key)') + spent <= burst + (clock - passed[i].at) * rate
    <3>1. PICK c \in Nat : c = Cardinality(PassedIn(i, n, key)) BY <1>9, <2>8
    <3>2. c + full = (c + 1) + spent BY <1>6, <2>1, <3>1
    <3>3. Cardinality(PassedIn(i, n + 1, key)') = c + 1 BY <2>5, <2>8, <3>1
    <3>4. c + full <= burst + (clock - passed[i].at) * rate BY <1>9, <2>8, <3>1
    <3> QED BY <3>1, <3>2, <3>3, <3>4
  <2>9. ASSUME NEW i \in 1 .. n + 1  PROVE IsCoveredSince(i)'
    <3>1. CASE i = n + 1
      <4>1. 1 + spent <= burst /\ (clock - clock) * rate = 0 BY <1>2, <1>3, <1>6, <2>1
      <4>2. passed'[i] = new /\ passed'[i].bucket = key /\ passed'[i].tier = tier /\ passed'[i].at = clock
        BY <2>2, <2>3, <3>1
      <4>3. key \in DOMAIN buckets' /\ buckets'[key].tokens = spent /\ buckets'[key].at = clock BY <1>8
      <4>4. Cardinality(PassedIn(i, Len(passed), key)') = 1 BY <2>2, <2>4, <3>1 DEF PassedIn
      <4>5. Cardinality(PassedIn(i, Len(passed), key)') + spent <= burst + (clock - clock) * rate
        BY <1>2, <4>1, <4>4
      <4> QED BY <1>3, <4>2, <4>3, <4>5 DEF IsCoveredSince, PassedIn, burst, rate
    <3>2. CASE i \in 1 .. n /\ passed[i].bucket = key
      <4>1. passed[i].at <= clock /\ passed[i].tier = tier BY <1>3, <1>4, <1>9, <3>2
      <4>2. /\ passed'[i].bucket = key /\ passed'[i].tier = tier /\ passed'[i].at = passed[i].at
        BY <2>2, <3>2, <4>1
      <4>3. key \in DOMAIN buckets' /\ buckets'[key].tokens = spent /\ buckets'[key].at = clock BY <1>8
      <4>4. Cardinality(PassedIn(i, Len(passed), key)') + spent <= burst + (clock - passed[i].at) * rate
        BY <2>2, <2>8, <3>2 DEF PassedIn
      <4>5. TierLimits[passed'[i].tier].burst = burst /\ TierLimits[passed'[i].tier].rate = rate
        BY <4>2 DEF burst, rate
      <4> QED BY <4>1, <4>2, <4>3, <4>4, <4>5 DEF IsCoveredSince
    <3>3. CASE i \in 1 .. n /\ passed[i].bucket # key
      <4>1. PICK b : b = passed[i].bucket OBVIOUS
      <4>2. PassedIn(i, Len(passed), b)' = PassedIn(i, Len(passed), b)
        BY <1>3, <3>3, <2>2, <2>3, <4>1 DEF PassedIn
      <4>3. passed'[i] = passed[i] /\ IsCoveredSince(i) BY <1>3, <2>2, <3>3 DEF KeyInv
      <4>4. b \in DOMAIN buckets' /\ buckets'[b] = buckets[b] BY <1>8, <3>3, <4>1, <4>3 DEF IsCoveredSince
      <4> QED BY <4>1, <4>2, <4>3, <4>4 DEF IsCoveredSince
    <3>4. i = n + 1 \/ i \in 1 .. n BY <1>3
    <3> QED BY <3>1, <3>2, <3>3, <3>4
  <2>10. ASSUME NEW i \in 1 .. n + 1, NEW j \in 1 .. n + 1,
               i <= j, passed'[j].bucket = passed'[i].bucket
         PROVE Cardinality(PassedIn(i, j, passed[i].bucket)')
                  <= TierLimits[passed'[i].tier].burst
                     + (passed'[j].at - passed'[i].at) * TierLimits[passed'[i].tier].rate
    <3>1. CASE j \in 1 .. n
      <4>1. i \in 1 .. n BY <1>3, <2>10, <3>1
      <4>2. passed'[i] = passed[i] /\ passed'[j] = passed[j] BY <2>2, <3>1, <4>1
      <4>3. PassedIn(i, j, passed[i].bucket)' = PassedIn(i, j, passed[i].bucket)
        BY <2>6, <3>1, <4>1, <4>2 DEF PassedIn
      <4> QED BY <1>3, <2>10, <3>1, <4>1, <4>2, <4>3 DEF KeyInv, BucketsBoundEveryStretch, PassedIn
    <3>2. CASE j = n + 1
      <4>1. passed'[j].at = clock /\ passed'[i].bucket = key BY <2>2, <2>3, <2>10, <3>2
      <4>2. IsCoveredSince(i)' BY <2>9
      <4>3. /\ Cardinality(PassedIn(i, j, key)') + spent
                  <= TierLimits[passed'[i].tier].burst
                     + (clock - passed'[i].at) * TierLimits[passed'[i].tier].rate
        BY <1>8, <2>2, <3>2, <4>1, <4>2 DEF IsCoveredSince, PassedIn
      <4>4. /\ passed'[i].tier \in DOMAIN TierLimits /\ passed'[i].at \in Nat BY <2>2, <2>7 DEF KeysAreTyped
      <4>5. PICK flow \in Int : flow = (clock - passed'[i].at) * TierLimits[passed'[i].tier].rate
        <5>1. TierLimits[passed'[i].tier].rate \in Int /\ clock - passed'[i].at \in Int
          <6>1. TierLimits[passed'[i].tier].rate \in Nat BY <4>4, GatewayAssumption
          <6>2. clock \in Int /\ passed'[i].at \in Int BY <1>3, <4>4
          <6> QED BY <6>1, <6>2
        <5>2. (clock - passed'[i].at) * TierLimits[passed'[i].tier].rate \in Int BY <5>1, Distribute
        <5> QED BY <5>2
      <4>6. PICK c \in Nat : c = Cardinality(PassedIn(i, j, key)') BY <2>2, <2>4, <2>5, <2>8, <3>2, <4>1
      <4>7. TierLimits[passed'[i].tier].burst \in Nat BY <4>4, GatewayAssumption
      <4>8. c <= TierLimits[passed'[i].tier].burst + flow BY <1>7, <4>3, <4>5, <4>6, <4>7
      <4> QED BY <4>1, <4>5, <4>6, <4>8 DEF PassedIn
    <3>3. j = n + 1 \/ j \in 1 .. n BY <1>3
    <3> QED BY <3>1, <3>2, <3>3
  <2>11. BucketsBoundEveryStretch'
    <3>1. \A i \in 1 .. n + 1, k \in DOMAIN apiKeys :
             passed'[i].bucket = <<"key", k>> /\ apiKeys[k].sandbox => passed'[i].tier = "SANDBOX"
      BY <1>3, <2>2, <2>7 DEF KeysAreTyped, IsTierOf
    <3> QED BY <2>2, <2>10, <3>1 DEF BucketsBoundEveryStretch, PassedIn
  <2> QED BY <2>2, <2>7, <2>9, <2>11 DEF KeyInv
<1> QED BY <1>10, <1>11

\* Keys keep their tier and their kind: what changes the keys alone keeps the rest.
LEMMA KeyChangesKeep ==
  ASSUME KeyInv, UNCHANGED <<clock, buckets, passed>>,
         apiKeys' \in Seq(ApiKeyTypes),
         \A k \in DOMAIN apiKeys' : apiKeys'[k].sandbox => apiKeys'[k].tier = "SANDBOX",
         DOMAIN apiKeys \subseteq DOMAIN apiKeys',
         \A k \in DOMAIN apiKeys :
             apiKeys'[k].tier = apiKeys[k].tier /\ apiKeys'[k].sandbox = apiKeys[k].sandbox,
         \A k \in DOMAIN apiKeys' \ DOMAIN apiKeys :
             \A b \in DOMAIN buckets : ~(b[1] = "key" /\ b[2] = k)
  PROVE  KeyInv'
<1>1. KeysAreTyped /\ \A i \in DOMAIN passed : IsCoveredSince(i) BY DEF KeyInv
<1>2. /\ clock' = clock /\ buckets' = buckets /\ passed' = passed OBVIOUS
<1>3. ASSUME NEW b \in DOMAIN buckets, NEW tier, IsTierOf(b, tier)' PROVE IsTierOf(b, tier)
  <2>1. PICK t \in DOMAIN TierLimits : IsTierOf(b, t) BY <1>1 DEF KeysAreTyped
  <2> QED BY <1>3, <2>1 DEF IsTierOf
<1>4. ASSUME NEW i \in DOMAIN passed PROVE IsTierOf(passed[i].bucket, passed[i].tier)'
  BY <1>1, <1>2 DEF KeysAreTyped, IsTierOf
<1>5. KeysAreTyped' BY <1>1, <1>3, <1>2, <1>4 DEF KeysAreTyped, IsTierOf
<1>6. \A i \in DOMAIN passed' : IsCoveredSince(i)' BY <1>1, <1>2 DEF IsCoveredSince, PassedIn
<1>7. BucketsBoundEveryStretch'
  <2>1. \A i \in DOMAIN passed, k \in DOMAIN apiKeys' :
           passed[i].bucket = <<"key", k>> /\ apiKeys'[k].sandbox => passed[i].tier = "SANDBOX"
    BY <1>1, <1>2, <1>4 DEF KeysAreTyped, IsTierOf
  <2> QED BY <1>2, <2>1 DEF KeyInv, BucketsBoundEveryStretch
<1> QED BY <1>5, <1>6, <1>7 DEF KeyInv

\* Issuing, revoking, asking and the passing of time keep the buckets covered.
LEMMA KeyNextKeeps == ASSUME KeyInv, KeyNext PROVE KeyInv'
<1>0. KeysAreTyped BY DEF KeyInv
<1>1. CASE IssueApiKey
  <2>1. PICK account \in Clients, tier \in DOMAIN TierLimits \union {"none"}, sandbox \in BOOLEAN :
          /\ apiKeys' = Append(apiKeys,
                [account |-> account, sandbox |-> sandbox, revoked |-> FALSE,
                 tier |-> IF sandbox THEN "SANDBOX" ELSE IF tier = "none" THEN "RETAIL" ELSE tier])
          /\ UNCHANGED <<clock, buckets, passed>> BY <1>1 DEF IssueApiKey
  <2> DEFINE new == [account |-> account, sandbox |-> sandbox, revoked |-> FALSE,
                     tier |-> IF sandbox THEN "SANDBOX" ELSE IF tier = "none" THEN "RETAIL" ELSE tier]
             n == Len(apiKeys)
  <2>2. new \in ApiKeyTypes /\ (new.sandbox => new.tier = "SANDBOX") BY GatewayAssumption DEF ApiKeyTypes
  <2>3. n \in Nat /\ DOMAIN apiKeys = 1 .. n /\ apiKeys \in Seq(ApiKeyTypes)
        /\ \A k \in DOMAIN apiKeys : apiKeys[k].sandbox => apiKeys[k].tier = "SANDBOX"
    BY <1>0 DEF KeysAreTyped
  <2>4. apiKeys' = Append(apiKeys, new) BY <2>1
  <2> HIDE DEF new
  <2>5. /\ apiKeys' \in Seq(ApiKeyTypes) /\ DOMAIN apiKeys' = 1 .. n + 1 /\ apiKeys'[n + 1] = new
        /\ \A k \in 1 .. n : apiKeys'[k] = apiKeys[k] BY <2>2, <2>3, <2>4, AppendProperties
  <2>6. \A k \in 1 .. n + 1 : k = n + 1 \/ k \in 1 .. n BY <2>3
  <2>7. \A b \in DOMAIN buckets : ~(b[1] = "key" /\ b[2] = n + 1)
    <3>1. ASSUME NEW b \in DOMAIN buckets, b[1] = "key"  PROVE b[2] \in 1 .. n
      BY <1>0, <2>3, <3>1 DEF KeysAreTyped, IsTierOf
    <3>2. n + 1 \notin 1 .. n BY <2>3
    <3> QED BY <3>1, <3>2
  <2>8. DOMAIN apiKeys \subseteq DOMAIN apiKeys' BY <2>3, <2>5
  <2>9. \A k \in DOMAIN apiKeys' : apiKeys'[k].sandbox => apiKeys'[k].tier = "SANDBOX"
    BY <2>2, <2>3, <2>5, <2>6
  <2>10. \A k \in DOMAIN apiKeys :
             apiKeys'[k].tier = apiKeys[k].tier /\ apiKeys'[k].sandbox = apiKeys[k].sandbox BY <2>3, <2>5
  <2>11. \A k \in DOMAIN apiKeys' \ DOMAIN apiKeys :
             \A b \in DOMAIN buckets : ~(b[1] = "key" /\ b[2] = k) BY <2>3, <2>5, <2>6, <2>7
  <2> QED BY <2>1, <2>5, <2>8, <2>9, <2>10, <2>11, KeyChangesKeep
<1>2. CASE RevokeApiKey
  <2>1. PICK account \in Clients : \E k \in ListApiKeysForAccount(account) :
            /\ apiKeys' = [apiKeys EXCEPT ![k].revoked = TRUE]
            /\ UNCHANGED <<clock, buckets, passed>> BY <1>2 DEF RevokeApiKey
  <2>2. PICK k \in DOMAIN apiKeys :
            /\ apiKeys' = [apiKeys EXCEPT ![k].revoked = TRUE]
            /\ UNCHANGED <<clock, buckets, passed>> BY <2>1 DEF ListApiKeysForAccount
  <2> DEFINE new == [apiKeys[k] EXCEPT !.revoked = TRUE]
  <2>3. apiKeys \in Seq(ApiKeyTypes) /\ apiKeys[k] \in ApiKeyTypes
        /\ \A j \in DOMAIN apiKeys : apiKeys[j].sandbox => apiKeys[j].tier = "SANDBOX"
    BY <1>0 DEF KeysAreTyped
  <2>4. new \in ApiKeyTypes /\ new.tier = apiKeys[k].tier /\ new.sandbox = apiKeys[k].sandbox
    BY <2>3 DEF ApiKeyTypes
  <2>5. apiKeys' = [apiKeys EXCEPT ![k] = new] BY <2>2
  <2> HIDE DEF new
  <2>6. apiKeys' \in Seq(ApiKeyTypes) /\ DOMAIN apiKeys' = DOMAIN apiKeys BY <2>3, <2>4, <2>5, ExceptSeq
  <2>7. \A j \in DOMAIN apiKeys : apiKeys'[j] = IF j = k THEN new ELSE apiKeys[j] BY <2>3, <2>5
  <2>8. \A j \in DOMAIN apiKeys :
            apiKeys'[j].tier = apiKeys[j].tier /\ apiKeys'[j].sandbox = apiKeys[j].sandbox BY <2>4, <2>7
  <2>9. \A j \in DOMAIN apiKeys' : apiKeys'[j].sandbox => apiKeys'[j].tier = "SANDBOX" BY <2>3, <2>6, <2>8
  <2> QED BY <2>2, <2>6, <2>8, <2>9, KeyChangesKeep
<1>3. CASE PassesRateLimit
  <2>1. apiKeys' = apiKeys /\ clock' = clock BY <1>3 DEF PassesRateLimit
  <2>2. CASE \E address \in RemoteAddresses : AllowRequest(<<"address", address>>, "RETAIL")
    <3>1. PICK address \in RemoteAddresses : AllowRequest(<<"address", address>>, "RETAIL") BY <2>2
    <3>2. PICK b : b = <<"address", address>> OBVIOUS
    <3>3. IsTierOf(b, "RETAIL") /\ "RETAIL" \in DOMAIN TierLimits BY <3>2, GatewayAssumption DEF IsTierOf
    <3>4. AllowRequest(b, "RETAIL") BY <3>1, <3>2
    <3> QED BY <2>1, <3>3, <3>4, AllowRequestKeeps
  <2>3. CASE \E k \in DOMAIN apiKeys : ValidateApiKey(k) /\ AllowRequest(<<"key", k>>, apiKeys[k].tier)
    <3>1. PICK k \in DOMAIN apiKeys : AllowRequest(<<"key", k>>, apiKeys[k].tier) BY <2>3
    <3>2. PICK b : b = <<"key", k>> OBVIOUS
    <3>3. PICK tier : tier = apiKeys[k].tier OBVIOUS
    <3>4. IsTierOf(b, tier) BY <3>2, <3>3 DEF IsTierOf
    <3>5. tier \in DOMAIN TierLimits
      <4>1. apiKeys[k] \in ApiKeyTypes BY <1>0 DEF KeysAreTyped
      <4> QED BY <3>3, <4>1 DEF ApiKeyTypes
    <3>6. AllowRequest(b, tier) BY <3>1, <3>2, <3>3
    <3> QED BY <2>1, <3>4, <3>5, <3>6, AllowRequestKeeps
  <2> QED BY <1>3, <2>2, <2>3 DEF PassesRateLimit
<1>4. CASE GatewayTick
  <2>1. clock \in Nat /\ clock' = clock + 1 /\ apiKeys' = apiKeys /\ buckets' = buckets /\ passed' = passed
    BY <1>0, <1>4 DEF GatewayTick, KeysAreTyped
  <2>2. \A x \in 0 .. clock : x \in 0 .. clock' BY <2>1
  <2>3. KeysAreTyped' BY <1>0, <2>1, <2>2 DEF KeysAreTyped, IsTierOf
  <2> QED BY <2>1, <2>3 DEF KeyInv, IsCoveredSince, PassedIn, BucketsBoundEveryStretch
<1> QED BY <1>1, <1>2, <1>3, <1>4 DEF KeyNext

--------------------
(* api-gateway: webhooks. *)

EntryPlaces == Nat \X Nat
TrailRecords == [account : Clients, type : EventTypes \union {"other"}]
ItemTypes == [entry : EntryPlaces, event : TrailRecords,
              matched : BOOLEAN, to : SUBSET Nat, attempt : 1 .. MaxAttempts]
DeliveryTypes == [entry : EntryPlaces, subscription : Nat, attempt : 1 .. MaxAttempts, ok : BOOLEAN]

\* The poller has read the entry.
IsRead(e) == e[1] < restarts.oms \/ (e[1] = restarts.oms /\ e[2] <= entriesSeen)

\* What was delivered of the event at the head: every subscription still to be told has
\* heard nothing of it, or the one that is being tried has failed so far.
HeadIsUnderWay ==
  outbox # <<>> =>
      \A h \in DOMAIN deliveryHistory :
          LET past == deliveryHistory[h]
              item == Head(outbox)
          IN \/ IsAfter(item.entry, past.entry)
             \/ /\ item.entry = past.entry /\ item.matched
                /\ past.subscription \in item.to =>
                      /\ item.attempt > 1 /\ ~past.ok /\ past.attempt < item.attempt
                      /\ past.subscription = deliveryHistory[Len(deliveryHistory)].subscription

WebhooksAreTyped ==
  /\ DOMAIN subscriptions = 1 .. Len(subscriptions) /\ Len(subscriptions) \in Nat
  /\ omsTrail \in Seq(TrailRecords)
  /\ entriesSeen \in Nat
  /\ restarts \in [oms : Nat, gateway : Nat]
  /\ outbox \in Seq(ItemTypes)
  /\ deliveryHistory \in Seq(DeliveryTypes)

WebhookInv ==
  /\ WebhooksAreTyped
  /\ \A i \in DOMAIN outbox : IsRead(outbox[i].entry)
  /\ \A i, j \in DOMAIN outbox : i < j => IsAfter(outbox[j].entry, outbox[i].entry)
  /\ \A i \in DOMAIN outbox : i > 1 \/ ~outbox[i].matched => outbox[i].attempt = 1
  /\ \A i \in DOMAIN outbox : i > 1 => ~outbox[i].matched
  /\ \A h \in DOMAIN deliveryHistory : IsRead(deliveryHistory[h].entry)
  /\ HeadIsUnderWay
  /\ DeliveriesAreInOrder

\* The order of entries is transitive, and nothing comes after itself.
LEMMA AfterIsAnOrder ==
  ASSUME NEW e \in EntryPlaces, NEW f \in EntryPlaces, NEW g \in EntryPlaces
  PROVE  /\ IsAfter(g, f) /\ IsAfter(f, e) => IsAfter(g, e)
         /\ ~IsAfter(e, e) BY DEF IsAfter, EntryPlaces

\* The places in the history and the outbox are numbers from 1.
LEMMA WebhookShapes ==
  ASSUME WebhookInv
  PROVE  /\ WebhooksAreTyped
         /\ Len(outbox) \in Nat /\ DOMAIN outbox = 1 .. Len(outbox)
         /\ \A i \in 1 .. Len(outbox) : outbox[i] \in ItemTypes
         /\ Len(deliveryHistory) \in Nat /\ DOMAIN deliveryHistory = 1 .. Len(deliveryHistory)
         /\ \A h \in 1 .. Len(deliveryHistory) : deliveryHistory[h] \in DeliveryTypes
         /\ Len(omsTrail) \in Nat /\ DOMAIN omsTrail = 1 .. Len(omsTrail)
<1>1. WebhooksAreTyped BY DEF WebhookInv
<1>2. outbox \in Seq(ItemTypes) /\ deliveryHistory \in Seq(DeliveryTypes) BY <1>1 DEF WebhooksAreTyped
<1>3. omsTrail \in Seq(TrailRecords) BY <1>1 DEF WebhooksAreTyped
<1>4. Len(omsTrail) \in Nat /\ DOMAIN omsTrail = 1 .. Len(omsTrail) BY <1>3
<1> QED BY <1>1, <1>2, <1>4

\* A new subscription is numbered after the others; deliveries do not look at it.
LEMMA SubscribeKeepsWebhooks == ASSUME WebhookInv, RegisterSubscription PROVE WebhookInv'
<1>1. PICK s : /\ subscriptions' = Append(subscriptions, s)
               /\ UNCHANGED <<omsTrail, entriesSeen, outbox, deliveryHistory, restarts>>
  BY DEF RegisterSubscription
<1>2. WebhooksAreTyped' BY <1>1, WebhookShapes DEF WebhooksAreTyped
<1> QED BY <1>1, <1>2 DEF WebhookInv, IsRead, HeadIsUnderWay, DeliveriesAreInOrder

\* So does an event that is not read yet.
LEMMA RecordKeepsWebhooks == ASSUME WebhookInv, OmsRecordsAnEvent PROVE WebhookInv'
<1>1. PICK account \in Clients, type \in EventTypes \union {"other"} :
         /\ omsTrail' = Append(omsTrail, [account |-> account, type |-> type])
         /\ UNCHANGED <<subscriptions, entriesSeen, outbox, deliveryHistory, restarts>>
  BY DEF OmsRecordsAnEvent
<1>2. [account |-> account, type |-> type] \in TrailRecords BY DEF TrailRecords
<1>3. omsTrail' \in Seq(TrailRecords) BY <1>1, <1>2, WebhookShapes, AppendProperties DEF WebhooksAreTyped
<1>4. WebhooksAreTyped' BY <1>1, <1>3, WebhookShapes DEF WebhooksAreTyped
<1> QED BY <1>1, <1>4 DEF WebhookInv, IsRead, HeadIsUnderWay, DeliveriesAreInOrder

\* What a poll collects comes after everything that was read before.
LEMMA PollKeepsWebhooks == ASSUME WebhookInv, PollOnce PROVE WebhookInv'
<1>1. PICK n \in Nat, mark \in Nat, life \in Nat :
         n = Len(omsTrail) - entriesSeen /\ mark = entriesSeen /\ life = restarts.oms /\ n > 0
  BY WebhookShapes DEF PollOnce, WebhooksAreTyped
<1>2. /\ outbox' = [i \in 1 .. n |->
            [entry |-> <<life, mark + i>>, event |-> omsTrail[mark + i],
             matched |-> FALSE, to |-> {}, attempt |-> 1]]
      /\ entriesSeen' = mark + n
      /\ UNCHANGED <<subscriptions, omsTrail, deliveryHistory, restarts>>
  BY <1>1, WebhookShapes DEF PollOnce, WebhooksAreTyped
<1>3. ASSUME NEW i \in 1 .. n
      PROVE  /\ outbox'[i] \in ItemTypes /\ outbox'[i].entry = <<life, mark + i>>
             /\ ~outbox'[i].matched /\ outbox'[i].attempt = 1
  <2>1. mark + i \in 1 .. Len(omsTrail) /\ mark + i \in Nat BY <1>1, WebhookShapes
  <2>2. omsTrail[mark + i] \in TrailRecords BY WebhookShapes, <2>1 DEF WebhooksAreTyped
  <2>3. outbox'[i] = [entry |-> <<life, mark + i>>, event |-> omsTrail[mark + i],
                      matched |-> FALSE, to |-> {}, attempt |-> 1] BY <1>2
  <2>4. 1 \in 1 .. MaxAttempts BY GatewayAssumption
  <2> QED BY <2>1, <2>2, <2>3, <2>4 DEF ItemTypes, EntryPlaces
<1>4. DOMAIN outbox' = 1 .. n /\ outbox' \in Seq(ItemTypes) /\ Len(outbox') = n
  <2>1. outbox' = [i \in 1 .. n |-> outbox'[i]] BY <1>2
  <2>2. \A i \in 1 .. n : outbox'[i] \in ItemTypes BY <1>3
  <2>3. outbox' \in [1 .. n -> ItemTypes] BY <2>1, <2>2
  <2> QED BY <1>1, <2>3
<1>5. restarts' = restarts /\ restarts.oms = life /\ deliveryHistory' = deliveryHistory BY <1>1, <1>2
<1>6. ASSUME NEW h \in DOMAIN deliveryHistory
      PROVE  /\ deliveryHistory[h].entry \in EntryPlaces
             /\ IsRead(deliveryHistory[h].entry) /\ IsRead(deliveryHistory[h].entry)'
  <2>1. deliveryHistory[h].entry \in EntryPlaces BY WebhookShapes DEF DeliveryTypes
  <2>2. PICK e \in EntryPlaces : e = deliveryHistory[h].entry BY <2>1
  <2>3. IsRead(e) BY <2>2 DEF WebhookInv
  <2>4. IsRead(e)' BY <1>1, <1>2, <1>5, <2>3 DEF IsRead, EntryPlaces
  <2> QED BY <1>5, <2>1, <2>2, <2>3, <2>4
<1>7. ASSUME NEW i \in 1 .. n  PROVE IsRead(outbox[i].entry)' BY <1>1, <1>2, <1>3, <1>5 DEF IsRead
<1>8. ASSUME NEW i \in 1 .. n, NEW j \in 1 .. n, i < j PROVE IsAfter(outbox'[j].entry, outbox'[i].entry)
  BY <1>1, <1>3, <1>8 DEF IsAfter
<1>9. HeadIsUnderWay'
  <2>1. Head(outbox') = outbox'[1] /\ 1 \in 1 .. n BY <1>1, <1>4
  <2>2. ASSUME NEW h \in DOMAIN deliveryHistory PROVE IsAfter(Head(outbox').entry, deliveryHistory[h].entry)
    <3>1. PICK e \in EntryPlaces : e = deliveryHistory[h].entry /\ IsRead(e) BY <1>6
    <3>2. outbox'[1].entry = <<life, mark + 1>> BY <1>3, <2>1
    <3> QED BY <1>1, <2>1, <3>1, <3>2 DEF IsRead, IsAfter, EntryPlaces
  <2> QED BY <1>5, <2>2 DEF HeadIsUnderWay
<1>10. WebhooksAreTyped'
  <2>1. entriesSeen' \in Nat BY <1>1, <1>2
  <2> QED BY <1>2, <1>4, <2>1, WebhookShapes DEF WebhooksAreTyped
<1>11. DeliveriesAreInOrder' BY <1>5 DEF WebhookInv, DeliveriesAreInOrder
<1> QED BY <1>3, <1>4, <1>5, <1>6, <1>7, <1>8, <1>9, <1>10, <1>11 DEF WebhookInv

\* What is left when the head is done with: none of it matched, all of it read, in
\* order, and after the head.
LEMMA TheRestWaits ==
  ASSUME WebhookInv, outbox # <<>>, NEW rest, rest = Tail(outbox)
  PROVE  /\ Head(outbox) = outbox[1] /\ outbox[1] \in ItemTypes /\ 1 \in 1 .. Len(outbox)
         /\ IsRead(outbox[1].entry)
         /\ rest \in Seq(ItemTypes) /\ Len(rest) \in Nat /\ DOMAIN rest = 1 .. Len(rest)
         /\ \A i \in 1 .. Len(rest) :
              /\ rest[i] \in ItemTypes
              /\ ~rest[i].matched /\ rest[i].attempt = 1 /\ IsRead(rest[i].entry)
              /\ IsAfter(rest[i].entry, outbox[1].entry)
         /\ \A i, j \in 1 .. Len(rest) : i < j => IsAfter(rest[j].entry, rest[i].entry)
<1>1. PICK n \in Nat : n = Len(outbox) BY WebhookShapes
<1>2. outbox \in Seq(ItemTypes) /\ DOMAIN outbox = 1 .. n /\ n > 0 BY <1>1, WebhookShapes DEF WebhooksAreTyped
<1>3. /\ Head(outbox) = outbox[1] /\ rest \in Seq(ItemTypes) /\ Len(rest) = n - 1
      /\ \A i \in 1 .. n - 1 : rest[i] = outbox[i + 1] BY <1>1, <1>2
<1>4. DOMAIN rest = 1 .. Len(rest) /\ Len(rest) \in Nat BY <1>1, <1>2, <1>3
<1>5. \A i \in 1 .. n : outbox[i] \in ItemTypes BY <1>1, WebhookShapes
<1>6. ASSUME NEW i \in 1 .. n - 1
      PROVE  /\ rest[i] \in ItemTypes
             /\ ~rest[i].matched /\ rest[i].attempt = 1 /\ IsRead(rest[i].entry)
             /\ IsAfter(rest[i].entry, outbox[1].entry)
  <2>1. PICK j \in 1 .. n : j = i + 1 /\ j > 1 BY <1>1
  <2>2. rest[i] = outbox[j] BY <1>3, <2>1
  <2> QED BY <1>2, <1>5, <2>1, <2>2 DEF WebhookInv
<1>7. ASSUME NEW i \in 1 .. n - 1, NEW j \in 1 .. n - 1, i < j PROVE IsAfter(rest[j].entry, rest[i].entry)
  <2>1. PICK a \in 1 .. n, b \in 1 .. n : a = i + 1 /\ b = j + 1 /\ a < b BY <1>1, <1>7
  <2>2. rest[i] = outbox[a] /\ rest[j] = outbox[b] BY <1>3, <2>1
  <2> QED BY <1>2, <2>1, <2>2 DEF WebhookInv
<1> QED BY <1>1, <1>2, <1>3, <1>4, <1>5, <1>6, <1>7 DEF WebhookInv

\* Nothing delivered belongs to an entry after the head's.
LEMMA NothingIsAheadOfTheHead ==
  ASSUME WebhookInv, outbox # <<>>, NEW h \in DOMAIN deliveryHistory
  PROVE  /\ deliveryHistory[h] \in DeliveryTypes
         /\ \/ IsAfter(outbox[1].entry, deliveryHistory[h].entry)
            \/ outbox[1].entry = deliveryHistory[h].entry
         /\ \A e \in EntryPlaces : IsAfter(e, outbox[1].entry) => IsAfter(e, deliveryHistory[h].entry)
<1>1. Head(outbox) = outbox[1] /\ outbox[1] \in ItemTypes BY TheRestWaits
<1>2. deliveryHistory[h] \in DeliveryTypes BY WebhookShapes
<1>3. \/ IsAfter(outbox[1].entry, deliveryHistory[h].entry)
      \/ outbox[1].entry = deliveryHistory[h].entry BY <1>1 DEF WebhookInv, HeadIsUnderWay
<1>4. outbox[1].entry \in EntryPlaces /\ deliveryHistory[h].entry \in EntryPlaces
  BY <1>1, <1>2 DEF ItemTypes, DeliveryTypes
<1>5. PICK f \in EntryPlaces : f = outbox[1].entry BY <1>4
<1>6. PICK g \in EntryPlaces : g = deliveryHistory[h].entry BY <1>4
<1>7. \A e \in EntryPlaces : IsAfter(e, f) => IsAfter(e, g) BY <1>3, <1>5, <1>6, AfterIsAnOrder
<1> QED BY <1>2, <1>3, <1>5, <1>6, <1>7

\* An event is matched, or passed over, when its turn comes.
LEMMA MatchKeepsWebhooks == ASSUME WebhookInv, DeliverEventMatches PROVE WebhookInv'
<1>1. /\ outbox # <<>> /\ ~outbox[1].matched
      /\ UNCHANGED <<subscriptions, omsTrail, entriesSeen, deliveryHistory, restarts>>
  BY TheRestWaits DEF DeliverEventMatches
<1>2. PICK rest : rest = Tail(outbox) OBVIOUS
<1>3. PICK to : /\ to \subseteq DOMAIN subscriptions
                /\ outbox' = IF to = {} THEN rest
                             ELSE [outbox EXCEPT ![1].matched = TRUE, ![1].to = to]
  BY <1>2 DEF DeliverEventMatches, subscriptionsMatching
<1>4. to \subseteq Nat BY <1>3, WebhookShapes DEF WebhooksAreTyped
<1>5. ASSUME NEW h \in DOMAIN deliveryHistory  PROVE IsRead(deliveryHistory[h].entry)'
  BY <1>1 DEF WebhookInv, IsRead
<1>6. DeliveriesAreInOrder' BY <1>1 DEF WebhookInv, DeliveriesAreInOrder
<1>7. CASE to = {}
  <2>1. outbox' = rest BY <1>3, <1>7
  <2>2. HeadIsUnderWay'
    <3>1. SUFFICES ASSUME rest # <<>>, NEW h \in DOMAIN deliveryHistory
                   PROVE  IsAfter(Head(rest).entry, deliveryHistory[h].entry) BY <1>1, <2>1 DEF HeadIsUnderWay
    <3>2. 1 \in 1 .. Len(rest) /\ Head(rest) = rest[1] BY <1>1, <1>2, <3>1, TheRestWaits
    <3>3. IsAfter(rest[1].entry, outbox[1].entry) /\ rest[1].entry \in EntryPlaces
      BY <1>1, <1>2, <3>2, TheRestWaits DEF ItemTypes
    <3> QED BY <1>1, <3>2, <3>3, NothingIsAheadOfTheHead
  <2>3. WebhooksAreTyped' BY <1>1, <1>2, <2>1, TheRestWaits, WebhookShapes DEF WebhooksAreTyped
  <2>4. \A i \in 1 .. Len(rest) : IsRead(rest[i].entry)' BY <1>1, <1>2, TheRestWaits DEF IsRead
  <2> QED BY <1>1, <1>2, <1>5, <1>6, <2>1, <2>2, <2>3, <2>4, TheRestWaits DEF WebhookInv
<1>8. CASE to # {}
  <2>1. outbox' = [outbox EXCEPT ![1].matched = TRUE, ![1].to = to] BY <1>3, <1>8
  <2>2. /\ outbox[1] \in ItemTypes /\ 1 \in 1 .. Len(outbox) /\ DOMAIN outbox = 1 .. Len(outbox)
        /\ outbox \in Seq(ItemTypes) /\ Len(outbox) \in Nat /\ Head(outbox) = outbox[1]
    BY <1>1, TheRestWaits, WebhookShapes DEF WebhooksAreTyped
  <2>3. /\ outbox' = [outbox EXCEPT ![1] = outbox'[1]]
        /\ outbox'[1] = [outbox[1] EXCEPT !.matched = TRUE, !.to = to] BY <2>1, <2>2
  <2>4. /\ outbox'[1] \in ItemTypes /\ outbox'[1].entry = outbox[1].entry
        /\ outbox'[1].matched /\ outbox'[1].attempt = outbox[1].attempt
        /\ outbox'[1].to = to BY <1>4, <2>2, <2>3 DEF ItemTypes
  <2>5. /\ outbox' \in Seq(ItemTypes) /\ Len(outbox') = Len(outbox)
        /\ DOMAIN outbox' = DOMAIN outbox /\ Head(outbox') = outbox'[1]
        /\ \A i \in DOMAIN outbox : i # 1 => outbox'[i] = outbox[i] BY <2>2, <2>3, <2>4
  <2>6. \A i \in DOMAIN outbox : outbox'[i].entry = outbox[i].entry BY <2>4, <2>5
  <2>7. HeadIsUnderWay'
    <3>1. SUFFICES ASSUME NEW h \in DOMAIN deliveryHistory
                   PROVE  IsAfter(outbox[1].entry, deliveryHistory[h].entry)
      BY <1>1, <2>4, <2>5 DEF HeadIsUnderWay
    <3> QED BY <1>1, <2>2 DEF WebhookInv, HeadIsUnderWay
  <2>8. WebhooksAreTyped' BY <1>1, <2>5, WebhookShapes DEF WebhooksAreTyped
  <2>9. (\A i \in DOMAIN outbox : IsRead(outbox[i].entry))' BY <1>1, <2>5, <2>6 DEF IsRead, WebhookInv
  <2>10. outbox[1].attempt = 1 BY <1>1, <2>2 DEF WebhookInv
  <2>11. \A i \in DOMAIN outbox' : /\ (i > 1 \/ ~outbox'[i].matched => outbox'[i].attempt = 1)
                                   /\ (i > 1 => ~outbox'[i].matched) BY <2>2, <2>4, <2>5, <2>10 DEF WebhookInv
  <2>12. \A i, j \in DOMAIN outbox' : i < j => IsAfter(outbox'[j].entry, outbox'[i].entry)
    BY <2>5, <2>6 DEF WebhookInv
  <2> QED BY <1>1, <1>5, <1>6, <2>5, <2>7, <2>8, <2>9, <2>11, <2>12 DEF WebhookInv
<1> QED BY <1>7, <1>8

\* A delivery is told to the history before the head moves on.
LEMMA AttemptKeepsWebhooks == ASSUME WebhookInv, AttemptOneDelivery PROVE WebhookInv'
<1> DEFINE item == outbox[1]
<1>1. /\ outbox # <<>> /\ item.matched /\ Head(outbox) = item /\ item \in ItemTypes
      /\ 1 \in 1 .. Len(outbox) /\ DOMAIN outbox = 1 .. Len(outbox)
      /\ outbox \in Seq(ItemTypes) /\ Len(outbox) \in Nat
      /\ UNCHANGED <<subscriptions, omsTrail, entriesSeen, restarts>>
  BY TheRestWaits, WebhookShapes DEF AttemptOneDelivery, WebhooksAreTyped
<1>2. /\ item.entry \in EntryPlaces /\ item.to \subseteq Nat /\ item.attempt \in 1 .. MaxAttempts
      /\ item.attempt \in Nat BY <1>1, GatewayAssumption DEF ItemTypes
<1>3. PICK n \in Nat : n = Len(deliveryHistory) BY WebhookShapes
<1>4. DOMAIN deliveryHistory = 1 .. n /\ deliveryHistory \in Seq(DeliveryTypes)
  BY <1>3, WebhookShapes DEF WebhooksAreTyped
<1>5. PICK rest : rest = Tail(outbox) OBVIOUS
<1>6. PICK s \in item.to, ok \in BOOLEAN :
        /\ item.attempt > 1 => deliveryHistory[n].subscription = s
        /\ deliveryHistory' = Append(deliveryHistory,
              [entry |-> item.entry, subscription |-> s, attempt |-> item.attempt, ok |-> ok])
        /\ outbox' = IF ~ok /\ item.attempt < MaxAttempts
                     THEN [outbox EXCEPT ![1].attempt = @ + 1]
                     ELSE IF item.to \ {s} = {} THEN rest
                     ELSE [outbox EXCEPT ![1].to = item.to \ {s}, ![1].attempt = 1]
  BY <1>1, <1>3, <1>5 DEF AttemptOneDelivery
<1>7. PICK d : d = [entry |-> item.entry, subscription |-> s, attempt |-> item.attempt, ok |-> ok] OBVIOUS
<1>8. /\ d \in DeliveryTypes /\ d.entry = item.entry /\ d.subscription = s
      /\ d.attempt = item.attempt /\ d.ok = ok BY <1>2, <1>6, <1>7 DEF DeliveryTypes
<1>9. /\ deliveryHistory' \in Seq(DeliveryTypes) /\ Len(deliveryHistory') = n + 1
      /\ DOMAIN deliveryHistory' = 1 .. n + 1 /\ deliveryHistory'[n + 1] = d
      /\ \A h \in 1 .. n : deliveryHistory'[h] = deliveryHistory[h]
  <2>1. deliveryHistory' = Append(deliveryHistory, d) BY <1>6, <1>7
  <2> HIDE DEF DeliveryTypes
  <2> QED BY <1>3, <1>4, <1>8, <2>1
<1>10. ASSUME NEW h \in 1 .. n
       PROVE  /\ deliveryHistory[h] \in DeliveryTypes
              /\ \/ IsAfter(item.entry, deliveryHistory[h].entry)
                 \/ /\ item.entry = deliveryHistory[h].entry
                    /\ deliveryHistory[h].subscription \in item.to =>
                         /\ item.attempt > 1 /\ ~deliveryHistory[h].ok
                         /\ deliveryHistory[h].attempt < item.attempt
                         /\ deliveryHistory[h].subscription = s
  BY <1>4, <1>1, NothingIsAheadOfTheHead, <1>3, <1>6 DEF WebhookInv, HeadIsUnderWay
<1>11. (\A h \in DOMAIN deliveryHistory : IsRead(deliveryHistory[h].entry))'
  <2>1. IsRead(item.entry) BY <1>1, TheRestWaits
  <2>2. \A h \in 1 .. n : IsRead(deliveryHistory[h].entry) BY <1>4 DEF WebhookInv
  <2>3. SUFFICES ASSUME NEW h \in 1 .. n + 1  PROVE IsRead(deliveryHistory[h].entry)' BY <1>9
  <2>4. PICK e : e = deliveryHistory'[h].entry OBVIOUS
  <2>5. IsRead(e) BY <1>3, <1>8, <1>9, <2>1, <2>2, <2>4
  <2> QED BY <1>1, <2>4, <2>5 DEF IsRead
<1>12. DeliveriesAreInOrder'
  <2>1. SUFFICES ASSUME NEW i \in 1 .. n + 1, NEW j \in 1 .. n + 1, i < j,
                        deliveryHistory'[i].subscription = deliveryHistory'[j].subscription
                 PROVE  \/ IsAfter(deliveryHistory'[j].entry, deliveryHistory'[i].entry)
                        \/ /\ deliveryHistory'[i].entry = deliveryHistory'[j].entry
                           /\ ~deliveryHistory'[i].ok
                           /\ deliveryHistory'[i].attempt < deliveryHistory'[j].attempt
                           /\ deliveryHistory'[j].attempt <= MaxAttempts
    BY <1>9 DEF DeliveriesAreInOrder, IsAfter
  <2>2. i \in 1 .. n BY <1>3, <2>1
  <2>3. CASE j \in 1 .. n BY <1>4, <1>9, <2>1, <2>2, <2>3 DEF WebhookInv, DeliveriesAreInOrder
  <2>4. CASE j = n + 1
    <3>1. deliveryHistory'[i] = deliveryHistory[i] /\ deliveryHistory'[j] = d BY <1>9, <2>2, <2>4
    <3>2. deliveryHistory[i].subscription = s BY <1>8, <2>1, <3>1
    <3>3. d.attempt <= MaxAttempts BY <1>2, <1>8, GatewayAssumption
    <3> HIDE DEF item
    <3> QED BY <1>6, <1>8, <1>10, <2>2, <3>1, <3>2, <3>3
  <2> QED BY <1>3, <2>3, <2>4
<1>13. CASE ~ok /\ item.attempt < MaxAttempts
  <2>1. outbox' = [outbox EXCEPT ![1] = [item EXCEPT !.attempt = item.attempt + 1]] BY <1>1, <1>6, <1>13
  <2>2. PICK next : next = [item EXCEPT !.attempt = item.attempt + 1] OBVIOUS
  <2>3. item.attempt + 1 \in 1 .. MaxAttempts BY <1>2, <1>13, GatewayAssumption
  <2>4. /\ next \in ItemTypes /\ next.entry = item.entry /\ next.matched
        /\ next.attempt = item.attempt + 1 /\ next.to = item.to BY <1>1, <2>2, <2>3 DEF ItemTypes
  <2>5. /\ outbox' \in Seq(ItemTypes) /\ DOMAIN outbox' = DOMAIN outbox /\ Len(outbox') = Len(outbox)
        /\ outbox'[1] = next /\ Head(outbox') = next
        /\ \A i \in DOMAIN outbox : i # 1 => outbox'[i] = outbox[i] BY <1>1, <2>1, <2>2, <2>4
  <2>6. \A i \in DOMAIN outbox : outbox'[i].entry = outbox[i].entry BY <2>4, <2>5
  <2>7. HeadIsUnderWay'
    <3>1. SUFFICES ASSUME NEW h \in 1 .. n + 1
                   PROVE  \/ IsAfter(next.entry, deliveryHistory'[h].entry)
                          \/ /\ next.entry = deliveryHistory'[h].entry /\ next.matched
                             /\ deliveryHistory'[h].subscription \in next.to =>
                                  /\ next.attempt > 1 /\ ~deliveryHistory'[h].ok
                                  /\ deliveryHistory'[h].attempt < next.attempt
                                  /\ deliveryHistory'[h].subscription = deliveryHistory'[n + 1].subscription
      BY <1>9, <2>5 DEF HeadIsUnderWay, IsAfter
    <3>2. next.attempt > 1 BY <1>2, <2>4
    <3>3. CASE h = n + 1 BY <1>2, <1>8, <1>9, <1>13, <2>4, <3>2, <3>3
    <3>4. CASE h \in 1 .. n
      <4>1. deliveryHistory[h].attempt \in Nat BY <1>10, <3>4, GatewayAssumption DEF DeliveryTypes
      <4>2. deliveryHistory'[h] = deliveryHistory[h] /\ deliveryHistory'[n + 1].subscription = s
        BY <1>8, <1>9, <3>4
      <4> HIDE DEF item
      <4> QED BY <1>2, <1>10, <2>4, <3>2, <3>4, <4>1, <4>2
    <3> QED BY <1>3, <3>3, <3>4
  <2>8. WebhooksAreTyped' BY <1>1, <1>9, <2>5, WebhookShapes DEF WebhooksAreTyped
  <2>9. (\A i \in DOMAIN outbox : IsRead(outbox[i].entry))' BY <1>1, <2>5, <2>6 DEF IsRead, WebhookInv
  <2>10. (\A i \in DOMAIN outbox : /\ (i > 1 \/ ~outbox[i].matched => outbox[i].attempt = 1)
                                   /\ (i > 1 => ~outbox[i].matched))' BY <1>1, <2>4, <2>5 DEF WebhookInv
  <2>11. (\A i, j \in DOMAIN outbox : i < j => IsAfter(outbox[j].entry, outbox[i].entry))'
    BY <2>5, <2>6 DEF WebhookInv, IsAfter
  <2> QED BY <1>11, <1>12, <2>7, <2>8, <2>9, <2>10, <2>11 DEF WebhookInv
<1>14. CASE ~(~ok /\ item.attempt < MaxAttempts) /\ item.to \ {s} = {}
  <2>1. outbox' = rest BY <1>6, <1>14
  <2>2. HeadIsUnderWay'
    <3>1. SUFFICES ASSUME rest # <<>>, NEW h \in 1 .. n + 1
                   PROVE  IsAfter(Head(rest).entry, deliveryHistory'[h].entry)
      BY <1>9, <2>1 DEF HeadIsUnderWay, IsAfter
    <3>2. 1 \in 1 .. Len(rest) /\ Head(rest) = rest[1] BY <1>1, <1>5, <3>1, TheRestWaits
    <3>3. IsAfter(rest[1].entry, item.entry) /\ rest[1].entry \in EntryPlaces
      BY <1>1, <1>5, <3>2, TheRestWaits DEF ItemTypes
    <3>4. CASE h = n + 1 BY <1>8, <1>9, <3>2, <3>3, <3>4
    <3>5. CASE h \in 1 .. n BY <1>1, <1>4, <1>9, <3>2, <3>3, <3>5, NothingIsAheadOfTheHead
    <3> QED BY <1>3, <3>4, <3>5
  <2>3. WebhooksAreTyped' BY <1>1, <1>5, <1>9, <2>1, TheRestWaits, WebhookShapes DEF WebhooksAreTyped
  <2>4. (\A i \in DOMAIN outbox : IsRead(outbox[i].entry))' BY <1>1, <1>5, <2>1, TheRestWaits DEF IsRead
  <2>5. (\A i, j \in DOMAIN outbox : i < j => IsAfter(outbox[j].entry, outbox[i].entry))'
    <3>1. \A i, j \in DOMAIN rest : i < j => IsAfter(rest[j].entry, rest[i].entry)
      <4>1. DOMAIN rest = 1 .. Len(rest) BY <1>1, <1>5, TheRestWaits
      <4>2. \A i, j \in 1 .. Len(rest) : i < j => IsAfter(rest[j].entry, rest[i].entry)
        BY <1>1, <1>5, TheRestWaits, Zenon
      <4> QED BY <4>1, <4>2, Zenon
    <3> QED BY <2>1, <3>1 DEF IsAfter
  <2>6. (\A i \in DOMAIN outbox : /\ (i > 1 \/ ~outbox[i].matched => outbox[i].attempt = 1)
                                  /\ (i > 1 => ~outbox[i].matched))' BY <1>1, <1>5, <2>1, TheRestWaits
  <2> QED BY <1>11, <1>12, <2>2, <2>3, <2>4, <2>5, <2>6 DEF WebhookInv
<1>15. CASE ~(~ok /\ item.attempt < MaxAttempts) /\ item.to \ {s} # {}
  <2>1. outbox' = [outbox EXCEPT ![1] = [item EXCEPT !.to = item.to \ {s}, !.attempt = 1]]
    BY <1>1, <1>6, <1>15
  <2>2. PICK next : next = [item EXCEPT !.to = item.to \ {s}, !.attempt = 1] OBVIOUS
  <2>3. 1 \in 1 .. MaxAttempts /\ item.to \ {s} \in SUBSET Nat BY <1>2, GatewayAssumption
  <2>4. /\ next \in ItemTypes /\ next.entry = item.entry /\ next.matched
        /\ next.attempt = 1 /\ next.to = item.to \ {s} BY <1>1, <2>2, <2>3 DEF ItemTypes
  <2>5. /\ outbox' \in Seq(ItemTypes) /\ DOMAIN outbox' = DOMAIN outbox /\ Len(outbox') = Len(outbox)
        /\ outbox'[1] = next /\ Head(outbox') = next
        /\ \A i \in DOMAIN outbox : i # 1 => outbox'[i] = outbox[i] BY <1>1, <2>1, <2>2, <2>4
  <2>6. \A i \in DOMAIN outbox : outbox'[i].entry = outbox[i].entry BY <2>4, <2>5
  <2>7. HeadIsUnderWay'
    <3>1. SUFFICES ASSUME NEW h \in 1 .. n + 1
                   PROVE  \/ IsAfter(next.entry, deliveryHistory'[h].entry)
                          \/ /\ next.entry = deliveryHistory'[h].entry /\ next.matched
                             /\ deliveryHistory'[h].subscription \notin next.to
      BY <1>9, <2>5 DEF HeadIsUnderWay, IsAfter
    <3>2. CASE h = n + 1 BY <1>8, <1>9, <2>4, <3>2
    <3>3. CASE h \in 1 .. n
      <4>1. deliveryHistory'[h] = deliveryHistory[h] BY <1>9, <3>3
      <4> HIDE DEF item
      <4> QED BY <1>10, <2>4, <3>3, <4>1
    <3> QED BY <1>3, <3>2, <3>3
  <2>8. WebhooksAreTyped' BY <1>1, <1>9, <2>5, WebhookShapes DEF WebhooksAreTyped
  <2>9. (\A i \in DOMAIN outbox : IsRead(outbox[i].entry))' BY <1>1, <2>5, <2>6 DEF IsRead, WebhookInv
  <2>10. (\A i \in DOMAIN outbox : /\ (i > 1 \/ ~outbox[i].matched => outbox[i].attempt = 1)
                                   /\ (i > 1 => ~outbox[i].matched))' BY <1>1, <2>4, <2>5 DEF WebhookInv
  <2>11. (\A i, j \in DOMAIN outbox : i < j => IsAfter(outbox[j].entry, outbox[i].entry))'
    BY <2>5, <2>6 DEF WebhookInv, IsAfter
  <2> QED BY <1>11, <1>12, <2>7, <2>8, <2>9, <2>10, <2>11 DEF WebhookInv
<1> QED BY <1>13, <1>14, <1>15

\* Entries of an earlier life of oms-gateway are read.
LEMMA OmsRestartKeepsWebhooks == ASSUME WebhookInv, OmsRestarts PROVE WebhookInv'
<1>1. PICK life \in Nat : life = restarts.oms BY WebhookShapes DEF WebhooksAreTyped
<1>2. /\ restarts' \in [oms : Nat, gateway : Nat] /\ restarts'.oms = life + 1
      /\ omsTrail' = <<>>
      /\ UNCHANGED <<subscriptions, entriesSeen, outbox, deliveryHistory>>
  BY <1>1, WebhookShapes DEF OmsRestarts, WebhooksAreTyped
<1>3. ASSUME NEW e \in EntryPlaces, IsRead(e)  PROVE IsRead(e)' BY <1>1, <1>2, <1>3 DEF IsRead, EntryPlaces
<1>4. (\A i \in DOMAIN outbox : IsRead(outbox[i].entry))'
  <2>1. \A i \in DOMAIN outbox : outbox[i].entry \in EntryPlaces /\ IsRead(outbox[i].entry)
    BY WebhookShapes DEF WebhookInv, ItemTypes
  <2>2. SUFFICES ASSUME NEW i \in DOMAIN outbox  PROVE IsRead(outbox[i].entry)' BY <1>2
  <2>3. PICK e \in EntryPlaces : e = outbox[i].entry BY <2>1
  <2> QED BY <1>2, <1>3, <2>1, <2>3
<1>5. (\A h \in DOMAIN deliveryHistory : IsRead(deliveryHistory[h].entry))'
  <2>1. \A h \in DOMAIN deliveryHistory :
           deliveryHistory[h].entry \in EntryPlaces /\ IsRead(deliveryHistory[h].entry)
    BY WebhookShapes DEF WebhookInv, DeliveryTypes
  <2>2. SUFFICES ASSUME NEW h \in DOMAIN deliveryHistory  PROVE IsRead(deliveryHistory[h].entry)' BY <1>2
  <2>3. PICK e \in EntryPlaces : e = deliveryHistory[h].entry BY <2>1
  <2> QED BY <1>2, <1>3, <2>1, <2>3
<1>6. WebhooksAreTyped' BY <1>2, WebhookShapes DEF WebhooksAreTyped
<1> QED BY <1>2, <1>4, <1>5, <1>6 DEF WebhookInv, HeadIsUnderWay, DeliveriesAreInOrder

\* A gateway that restarts has delivered nothing.
LEMMA GatewayRestartKeepsWebhooks == ASSUME WebhookInv, GatewayRestarts PROVE WebhookInv'
<1>1. /\ restarts' \in [oms : Nat, gateway : Nat]
      /\ subscriptions' = <<>> /\ entriesSeen' = 0 /\ outbox' = <<>> /\ deliveryHistory' = <<>>
      /\ omsTrail' = omsTrail BY WebhookShapes DEF GatewayRestarts, WebhooksAreTyped
<1>2. WebhooksAreTyped' BY <1>1, WebhookShapes DEF WebhooksAreTyped
<1> QED BY <1>1, <1>2 DEF WebhookInv, HeadIsUnderWay, DeliveriesAreInOrder

\* So every step on the webhooks keeps their invariant.
LEMMA WebhookNextKeeps == ASSUME WebhookInv, WebhookNext PROVE WebhookInv'
BY SubscribeKeepsWebhooks, RecordKeepsWebhooks, PollKeepsWebhooks, MatchKeepsWebhooks,
   AttemptKeepsWebhooks, OmsRestartKeepsWebhooks, GatewayRestartKeepsWebhooks DEF WebhookNext

\* It holds in the first state.
LEMMA WebhooksStart == ASSUME WebhookInit PROVE WebhookInv
BY DEF WebhookInit, WebhookInv, WebhooksAreTyped, HeadIsUnderWay, DeliveriesAreInOrder

--------------------
(* api-gateway: service levels. *)

Kinds == DOMAIN Thresholds
IsOver(i) == samples[i].value > Thresholds[samples[i].kind].limit
SameKind(kind) == {i \in 1 .. Len(samples) : samples[i].kind = kind}
\* The samples since which the kind has been over its limit.
BreachOf(kind) == {j \in SameKind(kind) : \A k \in SameKind(kind) : k >= j => IsOver(k)}

\* The evaluator knows of each kind whether it is in breach, since when, and whether that
\* was reported.
StateIsTold(kind) ==
  LET state == breach[kind]
  IN /\ state.breaching <=> BreachOf(kind) # {}
     /\ state.breaching =>
           /\ \E j \in BreachOf(kind) : samples[j].at = state.since
           /\ \A j \in BreachOf(kind) : state.since <= samples[j].at
     /\ state.alerted <=> \E j \in BreachOf(kind) :
                             samples[j].at - state.since >= Thresholds[kind].window

SampleTypes == [kind : Kinds, value : SampleValues, at : Nat]

SamplesAreTyped ==
  /\ samples \in Seq(SampleTypes)
  /\ raised \in Seq(BOOLEAN) /\ Len(raised) = Len(samples)
  /\ \A i, j \in 1 .. Len(samples) : i <= j => samples[i].at <= samples[j].at
  /\ breach \in [Kinds -> [breaching : BOOLEAN, since : Nat, alerted : BOOLEAN]]

SloInv ==
  /\ SamplesAreTyped
  /\ \A kind \in Kinds : StateIsTold(kind)
  /\ EachBreachIsReportedOnce

\* A sample ends the breach of its kind, or continues it, or begins it.
LEMMA PollKeepsSlo == ASSUME SloInv, PollMetrics PROVE SloInv'
<1>1. PICK kind \in Kinds, value \in SampleValues, pause \in 0 .. 1 :
          EvaluateSample(kind, value,
              (IF samples = <<>> THEN 0 ELSE samples[Len(samples)].at) + pause) BY DEF PollMetrics, Kinds
<1>2. PICK n \in Nat : n = Len(samples) BY DEF SloInv, SamplesAreTyped
<1>3. /\ samples \in Seq(SampleTypes)
      /\ raised \in Seq(BOOLEAN) /\ Len(raised) = n /\ DOMAIN samples = 1 .. n
      /\ \A i, j \in 1 .. n : i <= j => samples[i].at <= samples[j].at
      /\ breach \in [Kinds -> [breaching : BOOLEAN, since : Nat, alerted : BOOLEAN]]
      /\ \A i \in 1 .. n : samples[i] \in SampleTypes
      /\ \A i \in 1 .. n : samples[i].kind \in Kinds /\ samples[i].value \in Int /\ samples[i].at \in Nat
  <2>1. /\ samples \in Seq(SampleTypes)
        /\ raised \in Seq(BOOLEAN) /\ Len(raised) = n /\ DOMAIN samples = 1 .. n
        /\ \A i, j \in 1 .. n : i <= j => samples[i].at <= samples[j].at
        /\ breach \in [Kinds -> [breaching : BOOLEAN, since : Nat, alerted : BOOLEAN]]
    BY <1>2 DEF SloInv, SamplesAreTyped
  <2>2. \A i \in 1 .. n : samples[i] \in SampleTypes BY <2>1
  <2> QED BY <2>1, <2>2, GatewayAssumption DEF SampleTypes
<1>4. PICK at \in Nat : at = (IF samples = <<>> THEN 0 ELSE samples[Len(samples)].at) + pause
  <2>1. CASE samples = <<>> BY <2>1
  <2>2. CASE samples # <<>> BY <1>2, <1>3, <2>2
  <2> QED BY <2>1, <2>2
<1>5. \A i \in 1 .. n : samples[i].at <= at
  <2>1. ASSUME NEW i \in 1 .. n  PROVE samples[i].at <= at BY <1>2, <1>3, <1>4
  <2> QED BY <2>1
<1>6. PICK state : state = Restated(breach[kind], kind, value, at) OBVIOUS
<1>7. PICK limit \in Int, window \in Nat :
          limit = Thresholds[kind].limit /\ window = Thresholds[kind].window BY GatewayAssumption DEF Kinds
<1>8. PICK alert \in BOOLEAN :
          alert = (state.breaching /\ ~state.alerted /\ at - state.since >= window) OBVIOUS
<1>9. PICK new : new = [state EXCEPT !.alerted = state.alerted \/ alert] OBVIOUS
<1>10. PICK sample : sample = [kind |-> kind, value |-> value, at |-> at] OBVIOUS
<1>11. EvaluateSample(kind, value, at) BY <1>1, <1>4
<1>12. /\ breach' = [breach EXCEPT ![kind] = new]
       /\ samples' = Append(samples, sample)
       /\ raised' = Append(raised, alert) BY <1>6, <1>7, <1>8, <1>9, <1>10, <1>11 DEF EvaluateSample
<1>13. sample.kind = kind /\ sample.value = value /\ sample.at = at /\ sample \in SampleTypes /\ value \in Int
  BY <1>10, GatewayAssumption DEF SampleTypes
<1>14. /\ samples' \in Seq(SampleTypes) /\ Len(samples') = n + 1 /\ DOMAIN samples' = 1 .. n + 1
       /\ samples'[n + 1] = sample /\ \A i \in 1 .. n : samples'[i] = samples[i]
       /\ raised' \in Seq(BOOLEAN) /\ Len(raised') = n + 1
       /\ raised'[n + 1] = alert /\ \A i \in 1 .. n : raised'[i] = raised[i]
  BY <1>2, <1>3, <1>12, <1>13, AppendProperties
<1>15. \A i : i \in 1 .. n + 1 <=> i \in 1 .. n \/ i = n + 1 BY <1>2
<1>16. PICK over \in BOOLEAN : over <=> value > limit
  <2>1. CASE value > limit BY <2>1
  <2>2. CASE ~(value > limit) BY <2>2
  <2> QED BY <2>1, <2>2
<1>17. PICK old : old = breach[kind] /\ old \in [breaching : BOOLEAN, since : Nat, alerted : BOOLEAN] BY <1>3
<1>18. /\ ~over => state.breaching = FALSE /\ state.since = old.since /\ state.alerted = FALSE
       /\ over /\ old.breaching => state = old
       /\ over /\ ~old.breaching => state.breaching = TRUE /\ state.since = at /\ state.alerted = FALSE
       /\ state \in [breaching : BOOLEAN, since : Nat, alerted : BOOLEAN]
  <2>1. CASE ~over
    <3>1. state = [old EXCEPT !.breaching = FALSE, !.alerted = FALSE]
      BY <1>6, <1>7, <1>13, <1>16, <1>17, <2>1 DEF Restated
    <3> QED BY <1>17, <2>1, <3>1
  <2>2. CASE over /\ old.breaching BY <1>6, <1>7, <1>13, <1>16, <1>17, <2>2 DEF Restated
  <2>3. CASE over /\ ~old.breaching BY <1>6, <1>7, <1>13, <1>16, <1>17, <2>3 DEF Restated
  <2> QED BY <1>17, <2>1, <2>2, <2>3
<1>19. /\ new.breaching = state.breaching /\ new.since = state.since
       /\ new.alerted = (state.alerted \/ alert)
       /\ new \in [breaching : BOOLEAN, since : Nat, alerted : BOOLEAN] BY <1>9, <1>18
<1>20. /\ breach' \in [Kinds -> [breaching : BOOLEAN, since : Nat, alerted : BOOLEAN]]
       /\ breach'[kind] = new /\ \A other \in Kinds : other # kind => breach'[other] = breach[other]
  BY <1>3, <1>12, <1>19
<1>21. SamplesAreTyped'
  <2>1. \A i, j \in 1 .. n + 1 : i <= j => samples'[i].at <= samples'[j].at
    <3>1. ASSUME NEW i \in 1 .. n + 1, NEW j \in 1 .. n + 1, i <= j PROVE samples'[i].at <= samples'[j].at
      <4>1. CASE j \in 1 .. n
        <5>1. i \in 1 .. n BY <1>2, <3>1, <4>1
        <5> QED BY <1>3, <1>14, <3>1, <4>1, <5>1
      <4>2. CASE j = n + 1 /\ i \in 1 .. n BY <1>5, <1>13, <1>14, <4>2
      <4>3. CASE j = n + 1 /\ i = n + 1 BY <1>13, <1>14, <4>3
      <4> QED BY <1>15, <4>1, <4>2, <4>3
    <3> QED BY <3>1
  <2> QED BY <1>14, <1>20, <2>1 DEF SamplesAreTyped
<1>22. \A i \in 1 .. n : IsOver(i)' <=> IsOver(i) BY <1>14 DEF IsOver
<1>23. IsOver(n + 1)' <=> over
  <2>1. PICK m : m = n + 1 OBVIOUS
  <2>2. IsOver(m)' <=> over BY <1>7, <1>13, <1>14, <1>16, <2>1 DEF IsOver
  <2> QED BY <2>1, <2>2
<1>24. SameKind(kind)' = SameKind(kind) \cup {n + 1}
       /\ \A other \in Kinds : other # kind => SameKind(other)' = SameKind(other)
  BY <1>2, <1>13, <1>14, <1>15 DEF SameKind
<1>25. SameKind(kind) \subseteq 1 .. n /\ \A other \in Kinds : SameKind(other) \subseteq 1 .. n
  BY <1>2 DEF SameKind
<1>26. \A other \in Kinds : other # kind => BreachOf(other)' = BreachOf(other)
  BY <1>22, <1>24, <1>25 DEF BreachOf
<1>27. ~over => BreachOf(kind)' = {} BY <1>2, <1>15, <1>24, <1>25, <1>23 DEF BreachOf
<1>28. over => BreachOf(kind)' = BreachOf(kind) \cup {n + 1} BY <1>2, <1>22, <1>23, <1>24, <1>25 DEF BreachOf
<1>29. StateIsTold(kind) BY DEF SloInv
<1>30. BreachOf(kind) \subseteq 1 .. n BY <1>25 DEF BreachOf
<1>31. PICK B : B = BreachOf(kind) OBVIOUS
<1>32. /\ old.breaching <=> B # {}
       /\ old.breaching => /\ \E j \in B : samples[j].at = old.since
                           /\ \A j \in B : old.since <= samples[j].at
       /\ old.alerted <=> \E j \in B : samples[j].at - old.since >= window
  BY <1>7, <1>17, <1>29, <1>31 DEF StateIsTold
<1>33. PICK C : C = BreachOf(kind)' OBVIOUS
<1>34. /\ ~over => C = {}
       /\ over => C = B \cup {n + 1}
       /\ B \subseteq 1 .. n BY <1>27, <1>28, <1>30, <1>31, <1>33
<1>35. PICK T : T = [i \in 1 .. n + 1 |-> samples'[i].at] OBVIOUS
<1>36. /\ \A i \in 1 .. n : T[i] = samples[i].at /\ T[i] \in Nat /\ T[i] <= at
       /\ T[n + 1] = at /\ \A i \in 1 .. n + 1 : samples'[i].at = T[i]
  BY <1>2, <1>3, <1>5, <1>13, <1>14, <1>15, <1>35
<1>37. old.since \in Nat /\ old.breaching \in BOOLEAN /\ old.alerted \in BOOLEAN /\ state.since \in Nat
  BY <1>17, <1>18
<1>38. /\ new.breaching <=> C # {}
       /\ new.breaching => /\ \E j \in C : T[j] = new.since
                           /\ \A j \in C : new.since <= T[j]
       /\ new.alerted <=> \E j \in C : T[j] - new.since >= window
  <2>1. CASE ~over BY <1>8, <1>18, <1>19, <1>34, <2>1
  <2>2. CASE over /\ B = {} BY <1>8, <1>18, <1>19, <1>32, <1>34, <1>36, <2>2
  <2>3. CASE over /\ B # {}
    <3>1. state = old /\ old.breaching = TRUE /\ C = B \cup {n + 1} BY <1>18, <1>32, <1>34, <1>37, <2>3
    <3>2. \A j \in B : T[j] = samples[j].at BY <1>34, <1>36
    <3>3. old.since <= at BY <1>3, <1>32, <1>34, <1>36, <1>37, <3>1, <3>2
    <3>4. new.breaching = TRUE /\ new.since = old.since
          /\ (new.alerted <=> old.alerted \/ at - old.since >= window) BY <1>8, <1>19, <3>1
    <3> QED BY <1>32, <1>36, <3>1, <3>2, <3>3, <3>4
  <2> QED BY <2>1, <2>2, <2>3
<1>39. StateIsTold(kind)'
  <2>1. C \subseteq 1 .. n + 1 BY <1>15, <1>34
  <2> QED BY <1>7, <1>20, <1>33, <1>36, <1>38, <2>1 DEF StateIsTold
<1>40. ASSUME NEW other \in Kinds  PROVE StateIsTold(other)'
  <2>1. CASE other = kind BY <1>39, <2>1
  <2>2. CASE other # kind
    <3>1. BreachOf(other) \subseteq 1 .. n BY <1>25 DEF BreachOf
    <3>2. BreachOf(other)' = BreachOf(other) BY <1>26, <2>2
    <3>3. \A j \in BreachOf(other) : samples'[j] = samples[j] BY <1>14, <3>1
    <3>4. breach'[other] = breach[other] BY <1>20, <2>2
    <3>5. StateIsTold(other) BY DEF SloInv
    <3> QED BY <3>2, <3>3, <3>4, <3>5 DEF StateIsTold
  <2> QED BY <2>1, <2>2
<1>41. alert <=> /\ n + 1 \in C
                 /\ \E j \in C : T[n + 1] - T[j] >= window
                 /\ \A k \in C : k < n + 1 => ~\E j \in C : T[k] - T[j] >= window
  <2>1. CASE ~over BY <1>8, <1>18, <1>34, <2>1
  <2>2. CASE over /\ B = {} BY <1>2, <1>8, <1>18, <1>32, <1>34, <1>36, <2>2
  <2>3. CASE over /\ B # {}
    <3>1. state = old /\ old.breaching = TRUE /\ C = B \cup {n + 1} BY <1>18, <1>32, <1>34, <1>37, <2>3
    <3>2. \A j \in B : T[j] = samples[j].at /\ T[j] \in Nat /\ T[j] <= at BY <1>34, <1>36
    <3>3. PICK first \in B : T[first] = old.since BY <1>32, <3>1, <3>2
    <3>4. \A j \in C : T[j] \in Nat /\ old.since <= T[j] BY <1>32, <1>36, <3>1, <3>2, <3>3
    <3>5. (\E j \in C : T[n + 1] - T[j] >= window) <=> at - old.since >= window
      BY <1>36, <1>37, <3>1, <3>3, <3>4
    <3>6. ASSUME NEW k \in B PROVE (\E j \in C : T[k] - T[j] >= window) <=> T[k] - old.since >= window
      BY <1>37, <3>1, <3>2, <3>3, <3>4
    <3>7. old.alerted <=> \E k \in B : T[k] - old.since >= window BY <1>32, <3>2
    <3>8. alert <=> ~old.alerted /\ at - old.since >= window BY <1>8, <3>1
    <3>9. \A k \in C : k < n + 1 <=> k \in B BY <1>2, <1>34, <3>1
    <3> QED BY <3>1, <3>5, <3>6, <3>7, <3>8, <3>9
  <2> QED BY <2>1, <2>2, <2>3
<1>42. ASSUME NEW i \in 1 .. n + 1
       PROVE  LET Same == {j \in 1 .. i : samples'[j].kind = samples'[i].kind}
                  Over(j) == samples'[j].value > Thresholds[samples'[j].kind].limit
                  Breach == {j \in Same : \A k \in Same : k >= j => Over(k)}
                  OldEnough(k) == \E j \in Breach :
                      samples'[k].at - samples'[j].at >= Thresholds[samples'[i].kind].window
              IN raised'[i] <=> /\ i \in Breach /\ OldEnough(i)
                                /\ \A k \in Breach : k < i => ~OldEnough(k)
  <2>1. CASE i \in 1 .. n
    <3>1. \A j \in 1 .. i : j \in 1 .. n BY <1>2, <2>1
    <3>2. \A j \in 1 .. i : samples'[j] = samples[j] BY <1>14, <3>1
    <3>3. i \in 1 .. i BY <1>2, <2>1
    <3>4. raised'[i] = raised[i] /\ i \in DOMAIN samples BY <1>3, <1>14, <2>1
    <3> DEFINE same == {j \in 1 .. i : samples[j].kind = samples[i].kind}
               newSame == {j \in 1 .. i : samples'[j].kind = samples'[i].kind}
               over_(j) == samples[j].value > Thresholds[samples[j].kind].limit
               newOver(j) == samples'[j].value > Thresholds[samples'[j].kind].limit
               open == {j \in same : \A k \in same : k >= j => over_(k)}
               newOpen == {j \in newSame : \A k \in newSame : k >= j => newOver(k)}
               enough(k) == \E j \in open : samples[k].at - samples[j].at >= Thresholds[samples[i].kind].window
               newEnough(k) == \E j \in newOpen : samples'[k].at - samples'[j].at >= Thresholds[samples'[i].kind].window
    <3>5. newSame = same BY <3>2, <3>3
    <3>6. \A j \in 1 .. i : newOver(j) <=> over_(j) BY <3>2
    <3>7. same \subseteq 1 .. i OBVIOUS
    <3> HIDE DEF same, newSame, over_, newOver
    <3>8. newOpen = open /\ open \subseteq 1 .. i BY <3>5, <3>6, <3>7
    <3> HIDE DEF open, newOpen
    <3>9. \A k \in 1 .. i : newEnough(k) <=> enough(k) BY <3>2, <3>3, <3>8
    <3> HIDE DEF enough, newEnough
    <3>10. raised[i] <=> i \in open /\ enough(i) /\ \A k \in open : k < i => ~enough(k)
      BY <3>4, Zenon DEF SloInv, EachBreachIsReportedOnce, same, over_, open, enough
    <3>11. raised'[i] <=> i \in newOpen /\ newEnough(i) /\ \A k \in newOpen : k < i => ~newEnough(k)
      BY <3>3, <3>4, <3>8, <3>9, <3>10
    <3> QED BY <3>11, Zenon DEF newSame, newOver, newOpen, newEnough
  <2>2. CASE i = n + 1
    <3> DEFINE newSame == {j \in 1 .. i : samples'[j].kind = samples'[i].kind}
               newOver(j) == samples'[j].value > Thresholds[samples'[j].kind].limit
               newOpen == {j \in newSame : \A k \in newSame : k >= j => newOver(k)}
               newEnough(k) == \E j \in newOpen : samples'[k].at - samples'[j].at >= Thresholds[samples'[i].kind].window
    <3>1. samples'[i].kind = kind BY <1>13, <1>14, <2>2
    <3>2. newSame = SameKind(kind)' BY <1>14, <2>2, <3>1 DEF SameKind
    <3>3. \A j : newOver(j) <=> IsOver(j)' BY DEF IsOver
    <3> HIDE DEF newSame, newOver
    <3>4. newOpen = C BY <1>33, <3>2, <3>3 DEF BreachOf
    <3>5. C \subseteq 1 .. n + 1 BY <1>15, <1>34
    <3> HIDE DEF newOpen
    <3>6. \A k \in 1 .. n + 1 : newEnough(k) <=> \E j \in C : T[k] - T[j] >= window
      BY <1>7, <1>36, <3>1, <3>4, <3>5
    <3> HIDE DEF newEnough
    <3>7. raised'[i] <=> i \in newOpen /\ newEnough(i) /\ \A k \in newOpen : k < i => ~newEnough(k)
      BY <1>14, <1>41, <2>2, <3>4, <3>5, <3>6
    <3> QED BY <3>7, Zenon DEF newSame, newOver, newOpen, newEnough
  <2> QED BY <1>15, <2>1, <2>2
<1>43. EachBreachIsReportedOnce'
  <2>1. SUFFICES ASSUME NEW i \in DOMAIN samples'
                 PROVE  (LET Same == {j \in 1 .. i : samples[j].kind = samples[i].kind}
                             Over(j) == samples[j].value > Thresholds[samples[j].kind].limit
                             Breach == {j \in Same : \A k \in Same : k >= j => Over(k)}
                             OldEnough(k) == \E j \in Breach :
                                 samples[k].at - samples[j].at >= Thresholds[samples[i].kind].window
                         IN raised[i] <=> /\ i \in Breach /\ OldEnough(i)
                                          /\ \A k \in Breach : k < i => ~OldEnough(k))'
    BY DEF EachBreachIsReportedOnce
  <2>2. i \in 1 .. n + 1 BY <1>14, <2>1
  <2> QED BY <1>42, <2>2, Zenon
<1> QED BY <1>21, <1>40, <1>43 DEF SloInv

--------------------
(* The services together. *)

\* The registries together.
OnboardingInv == BankInv /\ HoldingInv /\ NomineeInv
CasesInv == SuccessionInv /\ TicketInv /\ ReferralInv
AuthInv == LoginInv /\ LimiterInv /\ MfaInv /\ SessionInv /\ DetectorInv
GatewayInv == KeyInv /\ WebhookInv /\ SloInv

AccountInv == OnboardingInv /\ CasesInv /\ AuthInv /\ GatewayInv

\* kyc-onboarding starts with empty registries.
LEMMA OnboardingStarts == ASSUME BankInit, HoldingInit, NomineeInit PROVE OnboardingInv
<1>1. BankInv BY DEF BankInit, BankInv, LatestIsTheLast
<1>2. HoldingInv BY DEF HoldingInit, HoldingInv, ConsentIsForTheStructureInForce
<1>3. NomineeInv BY DEF NomineeInit, NomineeInv
<1> QED BY <1>1, <1>2, <1>3 DEF OnboardingInv

\* backoffice starts with no case, no ticket and no referral.
LEMMA CasesStart == ASSUME SuccessionInit, TicketInit, ReferralInit PROVE CasesInv
<1>1. TicketInv BY DEF TicketInit, TicketInv
<1> QED BY <1>1, SuccessionStarts, ReferralsStart DEF CasesInv

\* auth starts with nobody logged in and nothing remembered.
LEMMA AuthStarts == ASSUME AuthInit PROVE AuthInv
<1>1. LoginInv BY AuthAssumption DEF AuthInit, Ticks, LoginInv
<1>2. MfaInv BY DEF AuthInit, MfaInv, EnabledSecretsWereConfirmed, NoSecret
<1>3. SessionInv BY DEF AuthInit, SessionInv
<1> QED BY <1>1, <1>2, <1>3, LimitersStart, DetectorStarts DEF AuthInv

\* api-gateway starts without keys, subscriptions and samples.
LEMMA GatewayStarts == ASSUME KeyInit, WebhookInit, SloInit PROVE GatewayInv
<1>1. KeyInv BY DEF KeyInit, KeysAreTyped, KeyInv, BucketsBoundEveryStretch
<1>2. SloInv
  <2>1. /\ samples = <<>> /\ raised = <<>> /\ Len(samples) = 0 /\ Len(raised) = 0
        /\ DOMAIN samples = {} /\ 1 .. Len(samples) = {}
        /\ breach = [kind \in Kinds |-> Calm] BY DEF SloInit, Kinds
  <2>2. samples \in Seq(SampleTypes) /\ raised \in Seq(BOOLEAN) BY <2>1
  <2>3. breach \in [Kinds -> [breaching : BOOLEAN, since : Nat, alerted : BOOLEAN]] BY <2>1 DEF Calm
  <2>4. SamplesAreTyped BY <2>1, <2>2, <2>3 DEF SamplesAreTyped
  <2>5. \A kind : SameKind(kind) = {} /\ BreachOf(kind) = {} BY <2>1 DEF SameKind, BreachOf
  <2>6. ASSUME NEW kind \in Kinds  PROVE StateIsTold(kind) BY <2>1, <2>5 DEF Calm, StateIsTold
  <2> QED BY <2>1, <2>4, <2>6 DEF SloInv, EachBreachIsReportedOnce
<1> QED BY <1>1, <1>2, WebhooksStart DEF GatewayInv

--------------------
\* A registry that no call reaches stays in order.
LEMMA BankStays == ASSUME BankInv, UNCHANGED bankVars  PROVE BankInv'
BY DEF bankVars, BankInv, VerdictOf, Claims, Deposit, LatestIsTheLast

\* The same of the structures.
LEMMA HoldingStays == ASSUME HoldingInv, UNCHANGED holdingVars  PROVE HoldingInv'
BY DEF holdingVars, HoldingInv, IsStructure, ConsentIsForTheStructureInForce

\* The same of the nominations.
LEMMA NomineesStay == ASSUME NomineeInv, UNCHANGED nomineeVars  PROVE NomineeInv'
BY DEF nomineeVars, NomineeInv

\* The same of the succession cases.
LEMMA SuccessionStays == ASSUME SuccessionInv, UNCHANGED successionVars  PROVE SuccessionInv'
BY DEF successionVars, SuccessionInv

\* The same of the tickets.
LEMMA TicketsStay == ASSUME TicketInv, UNCHANGED ticketVars  PROVE TicketInv' BY DEF ticketVars, TicketInv

\* The same of the referrals.
LEMMA ReferralsStay == ASSUME ReferralInv, UNCHANGED referralVars  PROVE ReferralInv'
BY DEF referralVars, ReferralInv, Once

\* The same of the login requests.
LEMMA LoginsStay == ASSUME LoginInv, UNCHANGED <<now, login>>  PROVE LoginInv' BY DEF LoginInv

\* The same of the limiters.
LEMMA LimitersStay == ASSUME LimiterInv, UNCHANGED <<now, limiterVars>>  PROVE LimiterInv'
BY DEF limiterVars, LimiterInv, LimitsHoldInEveryWindow

\* The same of the second factors.
LEMMA MfaStays == ASSUME MfaInv, UNCHANGED mfaVars  PROVE MfaInv'
BY DEF mfaVars, MfaInv, EnabledSecretsWereConfirmed

\* The same of the refresh tokens.
LEMMA SessionsStay == ASSUME SessionInv, UNCHANGED sessionVars  PROVE SessionInv'
BY DEF sessionVars, SessionInv, IsLive

\* The same of the detector.
LEMMA DetectorStays == ASSUME DetectorInv, UNCHANGED detectorVars  PROVE DetectorInv'
BY DEF detectorVars, DetectorInv

\* The same of the API keys and their buckets.
LEMMA KeysStay == ASSUME KeyInv, UNCHANGED keyVars  PROVE KeyInv'
<1>1. clock' = clock /\ apiKeys' = apiKeys /\ buckets' = buckets /\ passed' = passed BY DEF keyVars
<1>2. KeysAreTyped' BY <1>1 DEF KeyInv, KeysAreTyped, IsTierOf
<1>3. (\A i \in DOMAIN passed : IsCoveredSince(i))' BY <1>1, SMTT(30) DEF KeyInv, IsCoveredSince, PassedIn
<1>4. BucketsBoundEveryStretch' BY <1>1, SMTT(30) DEF KeyInv, BucketsBoundEveryStretch
<1> QED BY <1>2, <1>3, <1>4 DEF KeyInv

\* The same of the webhooks.
LEMMA WebhooksStay == ASSUME WebhookInv, UNCHANGED webhookVars  PROVE WebhookInv'
BY DEF webhookVars, WebhookInv, WebhooksAreTyped, IsRead, HeadIsUnderWay, DeliveriesAreInOrder

\* The same of the service levels.
LEMMA SloStays == ASSUME SloInv, UNCHANGED sloVars  PROVE SloInv'
<1>1. breach' = breach /\ samples' = samples /\ raised' = raised BY DEF sloVars
<1>2. SamplesAreTyped' BY <1>1 DEF SloInv, SamplesAreTyped
<1>3. ASSUME NEW kind \in Kinds  PROVE StateIsTold(kind)'
  <2>1. BreachOf(kind)' = BreachOf(kind) BY <1>1 DEF BreachOf, SameKind, IsOver
  <2>2. StateIsTold(kind) BY DEF SloInv
  <2> QED BY <1>1, <2>1, <2>2, ZenonT(40) DEF StateIsTold
<1>4. EachBreachIsReportedOnce' BY <1>1, SMTT(30) DEF SloInv, EachBreachIsReportedOnce
<1> QED BY <1>2, <1>3, <1>4 DEF SloInv

--------------------
\* Whichever handler of auth runs, every store of it stays in order.
LEMMA AuthNextKeeps == ASSUME AuthInv, LoginNext \/ AuthTick \/ SessionNext \/ MfaNext PROVE AuthInv'
<1>1. LoginInv /\ LimiterInv /\ MfaInv /\ SessionInv /\ DetectorInv BY DEF AuthInv
<1>2. CASE RegisterAccount \/ LoginArrives
  BY <1>1, <1>2, LoginStepsAreTyped, HandlersKeepLimits, MfaStays, SessionsStay, DetectorStays DEF
     LoginNext, RegisterAccount, LoginArrives, AuthInv
<1>3. CASE AuthenticateWithPassword \/ LoginChecksTheSecondFactor
  BY <1>1, <1>3, LoginStepsAreTyped, LimitersStay, MfaStays, SessionsStay, DetectorStays DEF
     LoginNext, AuthenticateWithPassword, LoginChecksTheSecondFactor, AuthInv
<1>4. CASE LoginIsRefused
  BY <1>1, <1>4, LoginStepsAreTyped, AttemptsKeepTheMemory, LimitersStay, MfaStays, SessionsStay
     DEF LoginNext, LoginIsRefused, AuthInv
<1>5. CASE LoginSucceeds
  BY <1>1, <1>5, LoginStepsAreTyped, AttemptsKeepTheMemory, LoginKeepsSessions, LimitersStay,
     MfaStays DEF LoginNext, LoginSucceeds, AuthInv
<1>6. CASE AuthTick
  BY <1>1, <1>6, TickKeepsLimits, AuthAssumption, MfaStays, SessionsStay, DetectorStays DEF
     AuthTick, LoginInv, Ticks, AuthInv
<1>7. CASE SessionNext
  BY <1>1, <1>7, SessionNextKeeps, LoginsStay, LimitersStay, MfaStays, DetectorStays DEF
     SessionNext, RefreshSpendsTheToken, RefreshIssuesTheSuccessor, RefreshDetectsReuse,
     RevokeRefreshToken, AuthInv
<1>8. CASE MfaNext
  BY <1>1, <1>8, MfaNextKeeps, LoginsStay, LimitersStay, SessionsStay, DetectorStays DEF MfaNext,
     BeginEnrollment, ConfirmVerifiesTheCode, ConfirmEnables, DisableMfa, AuthInv
<1> QED BY <1>2, <1>3, <1>4, <1>5, <1>6, <1>7, <1>8 DEF LoginNext

\* A service whose variables do not change stays in order.
LEMMA OnboardingStays ==
  ASSUME OnboardingInv, UNCHANGED <<bankVars, holdingVars, nomineeVars>> PROVE OnboardingInv'
BY BankStays, HoldingStays, NomineesStay DEF OnboardingInv

\* The same of backoffice.
LEMMA CasesStay == ASSUME CasesInv, UNCHANGED <<successionVars, ticketVars, referralVars>> PROVE CasesInv'
BY SuccessionStays, TicketsStay, ReferralsStay DEF CasesInv

\* The same of auth.
LEMMA AuthStays == ASSUME AuthInv, UNCHANGED authVars  PROVE AuthInv'
<1>1. /\ UNCHANGED <<now, login>> /\ UNCHANGED <<now, limiterVars>> /\ UNCHANGED mfaVars
      /\ UNCHANGED sessionVars /\ UNCHANGED detectorVars BY DEF authVars
<1> QED BY <1>1, LoginsStay, LimitersStay, MfaStays, SessionsStay, DetectorStays DEF AuthInv

\* The same of api-gateway.
LEMMA GatewayStays == ASSUME GatewayInv, UNCHANGED <<keyVars, webhookVars, sloVars>> PROVE GatewayInv'
BY KeysStay, WebhooksStay, SloStays DEF GatewayInv

\* A call on one of the registries of kyc-onboarding.
LEMMA OnlyKycKeeps == ASSUME AccountInv, OnlyKyc PROVE AccountInv'
<1>1. OnboardingInv /\ CasesInv /\ AuthInv /\ GatewayInv /\ BankInv /\ HoldingInv /\ NomineeInv
  BY DEF AccountInv, OnboardingInv
<1>2. CasesInv' /\ AuthInv' /\ GatewayInv' BY <1>1, CasesStay, AuthStays, GatewayStays DEF OnlyKyc
<1>3. CASE UNCHANGED <<bankVars, holdingVars, nomineeVars>>
  BY <1>1, <1>2, <1>3, OnboardingStays DEF AccountInv
<1>4. CASE BankNext /\ UNCHANGED <<holdingVars, nomineeVars>>
  BY <1>1, <1>4, InitiateKeepsBank, ConfirmKeepsBank, <1>2, HoldingStays, NomineesStay DEF
     BankNext, AccountInv, OnboardingInv
<1>5. CASE HoldingNext /\ UNCHANGED <<bankVars, nomineeVars>>
  BY <1>1, <1>2, <1>5, HoldingNextKeeps, BankStays, NomineesStay DEF AccountInv, OnboardingInv
<1>6. CASE NomineeNext /\ UNCHANGED <<bankVars, holdingVars>>
  BY <1>1, <1>2, <1>6, NomineeNextKeeps, BankStays, HoldingStays DEF AccountInv, OnboardingInv
<1> QED BY <1>3, <1>4, <1>5, <1>6 DEF OnlyKyc

\* A call on one of the registries of backoffice.
LEMMA OnlyBackofficeKeeps == ASSUME AccountInv, OnlyBackoffice PROVE AccountInv'
<1>1. OnboardingInv /\ CasesInv /\ AuthInv /\ GatewayInv /\ SuccessionInv /\ TicketInv /\ ReferralInv
  BY DEF AccountInv, CasesInv
<1>2. OnboardingInv' /\ AuthInv' /\ GatewayInv'
  BY <1>1, OnboardingStays, AuthStays, GatewayStays DEF OnlyBackoffice
<1>3. CASE UNCHANGED <<successionVars, ticketVars, referralVars>>
  BY <1>1, <1>2, <1>3, CasesStay DEF AccountInv
<1>4. CASE SuccessionNext /\ UNCHANGED <<ticketVars, referralVars>>
  BY <1>1, <1>2, <1>4, SuccessionNextKeeps, TicketsStay, ReferralsStay DEF AccountInv, CasesInv
<1>5. CASE TicketNext /\ UNCHANGED <<successionVars, referralVars>>
  BY <1>1, <1>2, <1>5, TicketNextKeeps, SuccessionStays, ReferralsStay DEF AccountInv, CasesInv
<1>6. CASE ReferralNext /\ UNCHANGED <<successionVars, ticketVars>>
  BY <1>1, <1>2, <1>6, ReferralNextKeeps, SuccessionStays, TicketsStay DEF AccountInv, CasesInv
<1> QED BY <1>3, <1>4, <1>5, <1>6 DEF OnlyBackoffice

\* A call on auth.
LEMMA OnlyAuthKeeps == ASSUME AccountInv, OnlyAuth PROVE AccountInv'
<1>1. OnboardingInv /\ CasesInv /\ AuthInv /\ GatewayInv BY DEF AccountInv
<1>2. OnboardingInv' /\ CasesInv' /\ GatewayInv'
  BY <1>1, OnboardingStays, CasesStay, GatewayStays DEF OnlyAuth
<1>3. LoginNext \/ AuthTick \/ SessionNext \/ MfaNext BY DEF OnlyAuth
<1> QED BY <1>1, <1>2, <1>3, AuthNextKeeps DEF AccountInv

\* A call on one of the registries of api-gateway.
LEMMA OnlyGatewayKeeps == ASSUME AccountInv, OnlyGateway PROVE AccountInv'
<1>1. OnboardingInv /\ CasesInv /\ AuthInv /\ GatewayInv /\ KeyInv /\ WebhookInv /\ SloInv
  BY DEF AccountInv, GatewayInv
<1>2. OnboardingInv' /\ CasesInv' /\ AuthInv' BY <1>1, OnboardingStays, CasesStay, AuthStays DEF OnlyGateway
<1>3. CASE UNCHANGED <<keyVars, webhookVars, sloVars>> BY <1>1, <1>2, <1>3, GatewayStays DEF AccountInv
<1>4. CASE KeyNext /\ UNCHANGED <<webhookVars, sloVars>>
  BY <1>1, <1>2, <1>4, KeyNextKeeps, WebhooksStay, SloStays DEF AccountInv, GatewayInv
<1>5. CASE WebhookNext /\ UNCHANGED <<keyVars, sloVars>>
  BY <1>1, <1>2, <1>5, WebhookNextKeeps, KeysStay, SloStays DEF AccountInv, GatewayInv
<1>6. CASE PollMetrics /\ UNCHANGED <<keyVars, webhookVars>>
  BY <1>1, <1>2, <1>6, PollKeepsSlo, KeysStay, WebhooksStay DEF AccountInv, GatewayInv
<1> QED BY <1>3, <1>4, <1>5, <1>6 DEF OnlyGateway

\* Every registry starts in order, and whichever call comes next leaves all of them in
\* order: what the services hold is at all times what the requests they served add up to.
THEOREM RegistriesStayInOrder == Spec => []AccountInv
<1>1. Init => AccountInv BY OnboardingStarts, CasesStart, AuthStarts, GatewayStarts DEF Init, AccountInv
<1>2. AccountInv /\ [Next]_vars => AccountInv'
  <2>1. SUFFICES ASSUME AccountInv, [Next]_vars  PROVE AccountInv' OBVIOUS
  <2>2. CASE Next BY <2>1, <2>2, OnlyKycKeeps, OnlyBackofficeKeeps, OnlyAuthKeeps, OnlyGatewayKeeps DEF Next
  <2>3. CASE UNCHANGED vars
    BY <2>3, <2>1, OnboardingStays, CasesStay, AuthStays, GatewayStays DEF vars, AccountInv
  <2> QED BY <2>1, <2>2, <2>3
<1> QED BY <1>1, <1>2, PTL DEF Spec

\* kyc-onboarding: the verdict on a bank account follows from the claims on its deposit
\* and at most three are wrong, consent counts for the holders in force only, and the
\* shares of the nominees never exceed the whole.
THEOREM OnboardingSound == Spec => []OnboardingIsSound
<1>1. AccountInv => OnboardingIsSound
  <2>1. SUFFICES ASSUME AccountInv  PROVE OnboardingIsSound OBVIOUS
  <2>2. BankInv /\ HoldingInv /\ NomineeInv BY <2>1 DEF AccountInv, OnboardingInv
  <2>3. VerdictsFollowTheClaims BY <2>2, BankInvDecides
  <2>4. ConsentIsForTheStructureInForce BY <2>2 DEF HoldingInv
  <2>5. NominationsAddUp BY <2>2 DEF NomineeInv, IsDesignation, IsNomination, NominationsAddUp
  <2> QED BY <2>3, <2>4, <2>5 DEF OnboardingIsSound
<1> QED BY <1>1, RegistriesStayInOrder, PTL

\* backoffice: the trail alone tells where every succession case stands and who inherits,
\* no ticket is closed over a message of its customer, and a referral is credited once and
\* marked only then, but for an account whose checks overlapped or whose credit was posted
\* unheard.
THEOREM CasesSound == Spec => []CasesAreSound
<1>1. AccountInv => CasesAreSound
  BY ToldIsTheWholeCase, TicketsInOrderAreNotClosedOver, ReferralsAddUp
     DEF AccountInv, CasesInv, CasesAreSound
<1> QED BY <1>1, RegistriesStayInOrder, PTL

\* auth: a login has one live refresh token or one on its way, an enabled factor is one a
\* code was given for, no window lets through more than its limit, and the detector raises
\* the alerts its account's attempts call for.
THEOREM SessionsSound == Spec => []SessionsAreSound
<1>1. AccountInv => SessionsAreSound
  <2>1. SUFFICES ASSUME AccountInv  PROVE SessionsAreSound OBVIOUS
  <2>2. LimiterInv /\ MfaInv /\ SessionInv /\ DetectorInv BY <2>1 DEF AccountInv, AuthInv
  <2>3. OneLiveTokenPerLogin /\ AlertsFollowFromTheAttempts
    BY <2>2, SessionsHaveOneLiveToken, AlertsAreCalledFor
  <2>4. EnabledSecretsWereConfirmed /\ LimitsHoldInEveryWindow BY <2>2 DEF MfaInv, LimiterInv
  <2> QED BY <2>3, <2>4 DEF SessionsAreSound
<1> QED BY <1>1, RegistriesStayInOrder, PTL

\* api-gateway: whatever a bucket was at, a stretch of time lets through its burst and what
\* flows in, webhooks arrive in the order of the events across restarts, and each breach of
\* a service level is reported once.
THEOREM GatewaySound == Spec => []GatewayIsSound
<1>1. AccountInv => GatewayIsSound BY DEF AccountInv, GatewayInv, KeyInv, WebhookInv, SloInv, GatewayIsSound
<1> QED BY <1>1, RegistriesStayInOrder, PTL

====================
