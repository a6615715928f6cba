-------- MODULE LedgerServiceProofs --------
(***************************************************************************)
(* Proofs about the ledger process, whatever handlers, lost answers and    *)
(* restores interleave: deposits are posted once, payouts agree with the   *)
(* statuses of their requests, mandates are debited on schedule, the       *)
(* custody pool is what the clients own, money on hold is covered, and no  *)
(* wallet in another currency is overdrawn.                                *)
(***************************************************************************)
EXTENDS LedgerService, SumTheorems, TLAPS

\* The journal and what it is compared with.
BookIsTyped ==
  /\ journal \in [Entries -> Nat]
  /\ lost \in [Entries -> Nat]
  /\ snapshot = NoSnapshot \/ snapshot.journal \in [Entries -> Nat]
  /\ restores \in Nat
  /\ today \in Nat

\* A confirmed deposit belongs to one confirmation that is about to post it, or is posted.
DepositInv ==
  /\ DepositTypeOK
  /\ \A h, g \in Confirmations :
        confirming[h] = confirming[g] /\ confirming[h] # NoDeposit => h = g
  /\ \A h \in Confirmations : confirming[h] # NoDeposit => deposit[confirming[h]] = "CONFIRMED"
  /\ DepositsArePostedOnce

WithdrawalsAreTyped ==
  /\ withdrawal \in [WithdrawalIds ->
        [status : {"none", "PENDING_HOLD", "COMPLETED", "CANCELLED"}, eligibleAt : Nat]]
  /\ withdrawalSweep \in [WithdrawalSweeps ->
        [due : SUBSET WithdrawalIds, paid : WithdrawalIds \union {Nothing}]]

\* What a sweep has collected is due and not completed, and what it has paid is among it.
SweepHoldsDue ==
  \A s \in WithdrawalSweeps :
      /\ withdrawalSweep[s].paid # Nothing => withdrawalSweep[s].paid \in withdrawalSweep[s].due
      /\ \A w \in withdrawalSweep[s].due :
            Status(w) \in {"PENDING_HOLD", "CANCELLED"} /\ withdrawal[w].eligibleAt <= today

WithdrawalInv == WithdrawalsAreTyped /\ SweepHoldsDue /\ PayoutsMatchStatuses

MandateTypes ==
  [status : {"none", "ACTIVE", "PAUSED", "CANCELLED", "SUSPENDED"},
   registeredOn : Nat, nextDebit : Nat, debits : Nat, failures : Nat]

MandatesAreTyped ==
  /\ mandate \in [MandateIds ->
        [status : {"none", "ACTIVE", "PAUSED", "CANCELLED", "SUSPENDED"},
         registeredOn : Nat, nextDebit : Nat, debits : Nat, failures : Nat]]
  /\ mandateSweep \in [MandateSweeps ->
        [due : SUBSET MandateIds, debited : MandateIds \union {NoMandate}]]

\* What a sweep has collected is registered and due, and what it has debited is among it.
SweepHoldsDueMandates ==
  \A s \in MandateSweeps :
      /\ mandateSweep[s].debited # NoMandate => mandateSweep[s].debited \in mandateSweep[s].due
      /\ \A m \in mandateSweep[s].due :
            mandate[m].status # "none" /\ mandate[m].nextDebit <= today

\* The dates passed are as many as the debits recorded, and a mandate is at most one period ahead.
DatesMatchDebits(m) ==
  /\ mandate[m].nextDebit = mandate[m].registeredOn + Period * mandate[m].debits
  /\ mandate[m].status = "none" => mandate[m].debits = 0
  /\ mandate[m].debits > 0 => mandate[m].nextDebit <= today + Period

\* The debits in the journal are the recorded ones, and the one about to be recorded.
Debited(m) == journal[m] = mandate[m].debits + OneIf(DebitedBySomeSweep(m)) + lost[m]

MandateInv ==
  /\ MandatesAreTyped /\ SweepHoldsDueMandates
  /\ \A m \in MandateIds : DatesMatchDebits(m) /\ (restores = 0 => Debited(m))

--------------------
(* What a post does to the journal *)

\* The posts of the entries outside of a set, and what is lost of them, stay as they are.
OnlyTouches(entries) ==
  \A e \in Entries \ entries : journal'[e] = journal[e] /\ lost'[e] = lost[e]

\* A post is counted for its entry alone.
LEMMA PostEffect ==
  ASSUME BookIsTyped, NEW e \in Entries, NEW lines, PostJournalEntry(e, lines)
  PROVE  /\ journal' \in [Entries -> Nat] /\ lost' = lost
         /\ journal'[e] = journal[e] + 1 /\ OnlyTouches({e})
         /\ UNCHANGED <<snapshot, restores>>
BY DEF BookIsTyped, PostJournalEntry, Enters, OnlyTouches, backups

\* So is a post that was reported failed, if it took place.
LEMMA LostEffect ==
  ASSUME BookIsTyped, NEW e \in Entries, NEW lines, CommitLosesItsAnswer(e, lines)
  PROVE  /\ journal' \in [Entries -> Nat] /\ lost' \in [Entries -> Nat]
         /\ journal'[e] = journal[e] + 1 /\ lost'[e] = lost[e] + 1 /\ OnlyTouches({e})
         /\ UNCHANGED <<snapshot, restores>>
BY DEF BookIsTyped, CommitLosesItsAnswer, Enters, OnlyTouches, backups

\* What is reported failed is counted twice or not at all.
LEMMA FailureEffect ==
  ASSUME BookIsTyped, NEW e \in Entries, NEW lines, PostIsReportedFailed(e, lines)
  PROVE  /\ journal' \in [Entries -> Nat] /\ lost' \in [Entries -> Nat]
         /\ journal'[e] - lost'[e] = journal[e] - lost[e] /\ journal'[e] >= journal[e]
         /\ OnlyTouches({e}) /\ UNCHANGED <<snapshot, restores>>
<1>1. CASE UNCHANGED <<book, backups>> BY <1>1 DEF BookIsTyped, OnlyTouches, book, backups
<1>2. CASE CommitLosesItsAnswer(e, lines)
  <2>1. journal[e] \in Nat /\ lost[e] \in Nat BY DEF BookIsTyped
  <2>2. /\ journal' \in [Entries -> Nat] /\ lost' \in [Entries -> Nat]
        /\ journal'[e] = journal[e] + 1 /\ lost'[e] = lost[e] + 1 /\ OnlyTouches({e})
        /\ UNCHANGED <<snapshot, restores>> BY <1>2, LostEffect
  <2>3. journal'[e] - lost'[e] = journal[e] - lost[e] /\ journal'[e] >= journal[e] BY <2>1, <2>2
  <2> QED BY <2>2, <2>3
<1> QED BY <1>1, <1>2 DEF PostIsReportedFailed

\* A step of the deposit rail touches the entries of deposits only.
LEMMA DepositsTouch ==
  ASSUME BookIsTyped, DepositTypeOK, DepositStep
  PROVE  /\ journal' \in [Entries -> Nat] /\ lost' \in [Entries -> Nat]
         /\ OnlyTouches(DepositIds) /\ UNCHANGED <<snapshot, restores>>
<1>1. CASE UNCHANGED <<book, backups>> BY <1>1 DEF BookIsTyped, OnlyTouches, book, backups
<1>2. ASSUME NEW h \in Confirmations, PostDeposit(h) \/ DepositFails(h)
      PROVE  /\ journal' \in [Entries -> Nat] /\ lost' \in [Entries -> Nat]
             /\ OnlyTouches(DepositIds) /\ UNCHANGED <<snapshot, restores>>
  <2>1. PICK d \in DepositIds : d = confirming[h] BY <1>2 DEF PostDeposit, DepositFails, DepositTypeOK
  <2>2. d \in Entries BY <2>1, DepositAssumption
  <2>3. PostJournalEntry(d, DepositLines(d)) \/ PostIsReportedFailed(d, DepositLines(d))
    BY <1>2, <2>1 DEF PostDeposit, DepositFails
  <2>4. /\ journal' \in [Entries -> Nat] /\ lost' \in [Entries -> Nat]
        /\ OnlyTouches({d}) /\ UNCHANGED <<snapshot, restores>>
    BY <2>2, <2>3, PostEffect, FailureEffect DEF BookIsTyped
  <2> QED BY <2>1, <2>4 DEF OnlyTouches
<1> QED BY <1>1, <1>2 DEF DepositStep, InitiateDeposit, ClaimDeposit

\* A step of the withdrawal workflow touches the entries of withdrawals only.
LEMMA WithdrawalsTouch ==
  ASSUME BookIsTyped, WithdrawalStep
  PROVE  /\ journal' \in [Entries -> Nat] /\ lost' \in [Entries -> Nat]
         /\ OnlyTouches(WithdrawalIds) /\ UNCHANGED <<snapshot, restores, today>>
<1>1. CASE UNCHANGED <<book, backups, today>> BY <1>1 DEF BookIsTyped, OnlyTouches, book, backups
<1>2. ASSUME NEW s \in WithdrawalSweeps, NEW w \in WithdrawalIds, PostPayout(s, w) \/ PayoutFails(s, w)
      PROVE  /\ journal' \in [Entries -> Nat] /\ lost' \in [Entries -> Nat]
             /\ OnlyTouches(WithdrawalIds) /\ UNCHANGED <<snapshot, restores, today>>
  BY WithdrawalAssumption, <1>2, PostEffect, FailureEffect DEF PostPayout, PayoutFails,
     BookIsTyped, OnlyTouches
<1> QED BY <1>1, <1>2 DEF WithdrawalStep, RequestWithdrawal, PlaceHold, CancelWithdrawal,
            CollectDueWithdrawals, MarkCompleted

\* A step of the mandates touches the entries of mandates only.
LEMMA MandatesTouch ==
  ASSUME BookIsTyped, MandateStep(today)
  PROVE  /\ journal' \in [Entries -> Nat] /\ lost' \in [Entries -> Nat]
         /\ OnlyTouches(MandateIds) /\ UNCHANGED <<snapshot, restores>>
<1>1. CASE UNCHANGED <<book, backups>> BY <1>1 DEF BookIsTyped, OnlyTouches, book, backups
<1>2. ASSUME NEW s \in MandateSweeps, NEW m \in MandateIds, PostDebit(s, m) \/ DebitFails(s, m)
      PROVE  /\ journal' \in [Entries -> Nat] /\ lost' \in [Entries -> Nat]
             /\ OnlyTouches(MandateIds) /\ UNCHANGED <<snapshot, restores>>
  BY MandateAssumption, <1>2, PostEffect, FailureEffect DEF PostDebit, DebitFails, BookIsTyped,
     OnlyTouches
<1> QED BY <1>1, <1>2 DEF MandateStep, RegisterMandate, PauseMandate, ResumeMandate, CancelMandate,
            SetStatus, CollectDueMandates, RecordDebit

\* A step of the wallets touches their entry only.
LEMMA WalletsTouch ==
  ASSUME BookIsTyped, WalletStep
  PROVE  /\ journal' \in [Entries -> Nat] /\ lost' \in [Entries -> Nat]
         /\ OnlyTouches({WalletEntry}) /\ UNCHANGED <<snapshot, restores>>
<1>1. CASE UNCHANGED <<book, backups>> BY <1>1 DEF BookIsTyped, OnlyTouches, book, backups
<1>2. WalletEntry \in Entries BY EntriesAssumption
<1>3. ASSUME NEW lines,
             PostJournalEntry(WalletEntry, lines) \/ CommitLosesItsAnswer(WalletEntry, lines)
      PROVE  /\ journal' \in [Entries -> Nat] /\ lost' \in [Entries -> Nat]
             /\ OnlyTouches({WalletEntry}) /\ UNCHANGED <<snapshot, restores>>
  BY <1>2, <1>3, PostEffect, LostEffect DEF BookIsTyped
<1> QED BY <1>1, <1>3 DEF WalletStep, DepositIntoCurrencyWallet, WithdrawFromCurrencyWallet,
            CheckForWithdrawal, ConvertBetweenCurrencyWallets, PostWalletEntry, markWalletOpened

\* What the steps do to the book and the calendar: each desk to its own entries.
StepsApart ==
  \/ DepositStep /\ OnlyTouches(DepositIds) /\ UNCHANGED <<withdrawals, mandates, restores, today>>
  \/ WithdrawalStep /\ OnlyTouches(WithdrawalIds) /\ UNCHANGED <<deposits, mandates, restores, today>>
  \/ MandateStep(today) /\ OnlyTouches(MandateIds)
        /\ UNCHANGED <<deposits, withdrawals, restores, today>>
  \/ /\ OnlyTouches(OutsideEntries \union {WalletEntry}) /\ today' >= today
     /\ UNCHANGED <<deposits, withdrawals, mandates, restores>>
  \/ restores' > 0 /\ UNCHANGED <<deposits, withdrawals, mandates, today>>

\* Each step is of one of these kinds.
LEMMA StepEffect == ASSUME BookIsTyped, DepositTypeOK, Next PROVE BookIsTyped' /\ StepsApart
<1>1. CASE DepositStep /\ UNCHANGED <<today, withdrawals, mandates>>
  BY <1>1, DepositsTouch DEF BookIsTyped, StepsApart
<1>2. CASE MandateStep(today) /\ UNCHANGED <<today, withdrawals, deposits>>
  BY <1>2, MandatesTouch DEF BookIsTyped, StepsApart
<1>3. CASE WithdrawalStep /\ UNCHANGED <<deposits, mandates>>
  BY <1>3, WithdrawalsTouch DEF BookIsTyped, StepsApart
<1>4. CASE Operator
  <2>1. CASE CaptureSnapshot
    BY <1>4, <2>1 DEF Operator, CaptureSnapshot, book, BookIsTyped, OnlyTouches, StepsApart
  <2>2. CASE RestoreFromSnapshot BY <1>4, <2>2 DEF Operator, RestoreFromSnapshot, BookIsTyped, StepsApart
  <2> QED BY <1>4, <2>1, <2>2 DEF Operator
<1>5. CASE NextDay BY <1>5 DEF NextDay, BookIsTyped, book, backups, OnlyTouches, StepsApart
<1>6. ASSUME NEW x \in OutsideEntries, PostOutsideEntry(x)  PROVE BookIsTyped' /\ StepsApart
  BY OutsideAssumption, <1>6, PostEffect DEF PostOutsideEntry, BookIsTyped, OnlyTouches, StepsApart
<1>7. CASE WalletStep /\ UNCHANGED <<today, withdrawals, deposits, mandates>>
  BY <1>7, WalletsTouch DEF BookIsTyped, OnlyTouches, StepsApart
<1>8. CASE Funding BY <1>1, <1>2, <1>4, <1>8 DEF Funding
<1>9. CASE Common BY <1>3, <1>5, <1>6, <1>9 DEF Common
<1>10. CASE Wallets BY <1>7, <1>10 DEF Wallets
<1> QED BY <1>8, <1>9, <1>10 DEF Next

--------------------
(* Deposits *)

\* The deposits keep their invariant over the steps of everyone else.
LEMMA DepositsUntouched ==
  ASSUME BookIsTyped, DepositInv, UNCHANGED deposits,
         (OnlyTouches(Entries \ DepositIds) /\ restores' = restores) \/ restores' > 0
  PROVE  DepositInv'
<1>1. UNCHANGED <<deposit, confirming>> BY DEF deposits
<1>2. DepositTypeOK' /\ (\A d \in DepositIds : ClaimedBySome(d)' <=> ClaimedBySome(d))
  BY <1>1 DEF DepositInv, DepositTypeOK, ClaimedBySome
<1>3. DepositsArePostedOnce'
  <2>1. CASE restores' > 0 BY <2>1 DEF DepositsArePostedOnce
  <2>2. CASE OnlyTouches(Entries \ DepositIds) /\ restores' = restores
    BY <2>2, DepositAssumption, <1>1, <1>2 DEF OnlyTouches, DepositsArePostedOnce, DepositInv, OneIf
  <2> QED BY <2>1, <2>2
<1> QED BY <1>1, <1>2, <1>3 DEF DepositInv

\* The count of one deposit in the journal.
Posted(d) == journal[d] = OneIf(deposit[d] = "CONFIRMED" /\ ~ClaimedBySome(d)) + lost[d]

\* The rail keeps it: a claim belongs to one confirmation, which posts it or gives it back.
LEMMA DepositStepKeeps ==
  ASSUME BookIsTyped, DepositInv, DepositStep, OnlyTouches(DepositIds), restores' = restores PROVE DepositInv'
<1>1. /\ deposit \in [DepositIds -> {"none", "PENDING", "CONFIRMED"}]
      /\ confirming \in [Confirmations -> DepositIds \union {NoDeposit}]
      /\ NoDeposit \notin DepositIds /\ DepositIds \subseteq Entries
  BY DepositAssumption DEF DepositInv, DepositTypeOK
<1>2. restores = 0 => \A d \in DepositIds : Posted(d) BY DEF DepositInv, DepositsArePostedOnce, Posted
<1>3. \A d \in DepositIds : journal[d] \in Nat /\ lost[d] \in Nat BY <1>1 DEF BookIsTyped
<1> DEFINE Claims == /\ \A h, g \in Confirmations :
                           confirming[h] = confirming[g] /\ confirming[h] # NoDeposit => h = g
                     /\ \A h \in Confirmations :
                           confirming[h] # NoDeposit => deposit[confirming[h]] = "CONFIRMED"
<1>4. Claims BY DEF DepositInv
<1>5. SUFFICES DepositTypeOK' /\ Claims' /\ (restores = 0 => \A d \in DepositIds : Posted(d)')
  BY <1>5 DEF DepositInv, DepositsArePostedOnce, Posted
<1>6. ASSUME NEW d \in DepositIds, InitiateDeposit(d)
      PROVE  DepositTypeOK' /\ Claims' /\ (restores = 0 => \A x \in DepositIds : Posted(x)')
  <2>1. /\ deposit[d] = "none" /\ deposit' = [deposit EXCEPT ![d] = "PENDING"]
        /\ UNCHANGED <<journal, lost, confirming>> BY <1>6 DEF InitiateDeposit, book
  <2>2. DepositTypeOK' /\ Claims' BY <1>1, <1>4, <2>1 DEF DepositTypeOK
  <2>3. \A x \in DepositIds : ClaimedBySome(x)' <=> ClaimedBySome(x) BY <2>1 DEF ClaimedBySome
  <2>4. ASSUME restores = 0, NEW x \in DepositIds  PROVE Posted(x)'
    BY <1>1, <1>2, <2>1, <2>3, <2>4 DEF Posted, OneIf
  <2> QED BY <2>2, <2>4
<1>7. ASSUME NEW h \in Confirmations, NEW d \in DepositIds, ClaimDeposit(h, d)
      PROVE  DepositTypeOK' /\ Claims' /\ (restores = 0 => \A x \in DepositIds : Posted(x)')
  <2>1. /\ deposit[d] = "PENDING" /\ deposit' = [deposit EXCEPT ![d] = "CONFIRMED"]
        /\ confirming[h] = NoDeposit /\ confirming' = [confirming EXCEPT ![h] = d]
        /\ UNCHANGED <<journal, lost>> BY <1>7 DEF ClaimDeposit, book
  <2>2. DepositTypeOK' BY <1>1, <2>1 DEF DepositTypeOK
  <2>3. Claims' BY <1>1, <1>4, <2>1
  <2>4. ClaimedBySome(d)' /\ \A x \in DepositIds : x # d => (ClaimedBySome(x)' <=> ClaimedBySome(x))
    BY <1>1, <2>1 DEF ClaimedBySome
  <2>5. ASSUME restores = 0, NEW x \in DepositIds  PROVE Posted(x)'
    BY <1>1, <1>2, <2>1, <2>4, <2>5 DEF Posted, OneIf
  <2> QED BY <2>2, <2>3, <2>5
<1>8. ASSUME NEW h \in Confirmations, PostDeposit(h) \/ DepositFails(h)
      PROVE  DepositTypeOK' /\ Claims' /\ (restores = 0 => \A x \in DepositIds : Posted(x)')
  <2>1. PICK d \in DepositIds : d = confirming[h] /\ d # NoDeposit BY <1>1, <1>8 DEF PostDeposit, DepositFails
  <2>2. PICK status \in {"CONFIRMED", "PENDING"} :
            /\ deposit' = [deposit EXCEPT ![d] = status]
            /\ status = "CONFIRMED" => PostJournalEntry(d, DepositLines(d))
            /\ status = "PENDING" => PostIsReportedFailed(d, DepositLines(d))
    BY <1>8, <2>1 DEF PostDeposit, DepositFails
  <2>3. confirming' = [confirming EXCEPT ![h] = NoDeposit] BY <1>8 DEF PostDeposit, DepositFails
  <2>4. DepositTypeOK' BY <1>1, <2>2, <2>3 DEF DepositTypeOK
  <2>5. \A g \in Confirmations : g # h => confirming'[g] = confirming[g] /\ confirming[g] # d
    BY <1>1, <1>4, <2>1, <2>3
  <2>6. Claims' BY <1>1, <1>4, <2>1, <2>2, <2>3, <2>5
  <2>7. /\ ClaimedBySome(d) /\ ~ClaimedBySome(d)'
        /\ \A x \in DepositIds : x # d => (ClaimedBySome(x)' <=> ClaimedBySome(x))
    BY <1>1, <2>1, <2>3, <2>5 DEF ClaimedBySome
  <2>8. /\ OnlyTouches({d}) /\ journal'[d] \in Nat /\ lost'[d] \in Nat
        /\ status = "CONFIRMED" => journal'[d] = journal[d] + 1 /\ lost'[d] = lost[d]
        /\ status = "PENDING" => journal'[d] - lost'[d] = journal[d] - lost[d]
    BY <1>1, <1>3, <2>2, PostEffect, FailureEffect
  <2>9. deposit[d] = "CONFIRMED" /\ deposit'[d] = status BY <1>1, <1>4, <2>1, <2>2
  <2>10. ASSUME restores = 0  PROVE Posted(d)' BY <1>2, <1>3, <2>7, <2>10, <2>8, <2>9 DEF Posted, OneIf
  <2>11. ASSUME restores = 0, NEW x \in DepositIds, x # d  PROVE Posted(x)'
    BY <1>1, <2>2, <2>8, <2>11, <1>2, <2>7 DEF OnlyTouches, Posted, OneIf
  <2> QED BY <2>4, <2>6, <2>10, <2>11
<1> QED BY <1>6, <1>7, <1>8 DEF DepositStep

--------------------
(* Withdrawals *)

OneWithdrawalSweep == \A s, t \in WithdrawalSweeps : s = t

\* The payouts keep their invariant over the steps of everyone else, time passing included.
LEMMA WithdrawalsUntouched ==
  ASSUME BookIsTyped, BookIsTyped', WithdrawalInv, UNCHANGED withdrawals, today' >= today,
         (OnlyTouches(Entries \ WithdrawalIds) /\ restores' = restores) \/ restores' > 0
  PROVE  WithdrawalInv'
<1>1. UNCHANGED <<withdrawal, withdrawalSweep>> BY DEF withdrawals
<1>2. /\ \A w \in WithdrawalIds : PaidBySomeSweep(w)' <=> PaidBySomeSweep(w)
      /\ \A w \in WithdrawalIds : Status(w)' = Status(w) BY <1>1 DEF PaidBySomeSweep, Status
<1>3. /\ today \in Nat /\ today' \in Nat
      /\ \A w \in WithdrawalIds : withdrawal[w].eligibleAt \in Nat
  BY DEF BookIsTyped, WithdrawalInv, WithdrawalsAreTyped
<1>4. \A w \in WithdrawalIds : withdrawal[w].eligibleAt <= today => withdrawal'[w].eligibleAt <= today'
  BY <1>1, <1>3
<1>5. PayoutsMatchStatuses'
  <2>1. CASE restores' > 0 BY <2>1 DEF PayoutsMatchStatuses
  <2>2. CASE OnlyTouches(Entries \ WithdrawalIds) /\ restores' = restores
    BY <2>2, WithdrawalAssumption, <1>2, <1>4 DEF OnlyTouches, PayoutsMatchStatuses,
       WithdrawalInv, OneIf
  <2> QED BY <2>1, <2>2
<1>6. \A s \in WithdrawalSweeps : \A w \in withdrawalSweep'[s].due :
          Status(w)' \in {"PENDING_HOLD", "CANCELLED"} /\ withdrawal'[w].eligibleAt <= today'
  BY <1>1, <1>2, <1>4 DEF WithdrawalInv, SweepHoldsDue, WithdrawalsAreTyped
<1> QED BY <1>1, <1>5, <1>6 DEF WithdrawalInv, WithdrawalsAreTyped, SweepHoldsDue

\* What the property says of one withdrawal.
PaidRight(w) ==
  /\ journal[w] = OneIf(Status(w) = "COMPLETED" \/ PaidBySomeSweep(w)) + lost[w]
  /\ journal[w] > 0 => Status(w) # "none" /\ withdrawal[w].eligibleAt <= today

\* One sweep at a time keeps it: the request it has paid is the one it marks, and the ones it
\* has collected are not completed by anyone else.
LEMMA WithdrawalStepKeeps ==
  ASSUME OneWithdrawalSweep, BookIsTyped, BookIsTyped', WithdrawalInv, WithdrawalStep,
         OnlyTouches(WithdrawalIds), restores' = restores, today' = today
  PROVE  WithdrawalInv'
<1>1. /\ WithdrawalsAreTyped /\ SweepHoldsDue /\ (restores = 0 => \A w \in WithdrawalIds : PaidRight(w))
  BY DEF WithdrawalInv, PayoutsMatchStatuses, PaidRight
<1>2. /\ \A w \in WithdrawalIds : journal[w] \in Nat /\ lost[w] \in Nat
      /\ today \in Nat /\ Nothing \notin WithdrawalIds /\ WithdrawalIds \subseteq Entries
      /\ SettlementHold \in Nat BY WithdrawalAssumption DEF BookIsTyped
<1>3. \A s, t \in WithdrawalSweeps : s = t BY DEF OneWithdrawalSweep
<1> DEFINE Kept == /\ WithdrawalsAreTyped' /\ SweepHoldsDue'
                   /\ (restores = 0 => \A w \in WithdrawalIds : PaidRight(w)')
<1>4. SUFFICES Kept BY <1>4 DEF WithdrawalInv, PayoutsMatchStatuses, PaidRight
<1>5. ASSUME NEW w \in WithdrawalIds, PlaceHold(w)  PROVE Kept
  <2>1. /\ Status(w) = "none" /\ UNCHANGED <<journal, lost, withdrawalSweep>>
        /\ withdrawal' = [withdrawal EXCEPT
              ![w] = [status |-> "PENDING_HOLD", eligibleAt |-> today + SettlementHold]]
    BY <1>5 DEF PlaceHold, book
  <2>2. today + SettlementHold \in Nat BY <1>2
  <2>3. WithdrawalsAreTyped' BY <1>1, <2>1, <2>2 DEF WithdrawalsAreTyped
  <2>4. /\ \A x \in WithdrawalIds : x # w => withdrawal'[x] = withdrawal[x] /\ Status(x)' = Status(x)
        /\ Status(w)' = "PENDING_HOLD" BY <1>1, <2>1 DEF WithdrawalsAreTyped, Status
  <2>5. \A s \in WithdrawalSweeps : w \notin withdrawalSweep[s].due BY <1>1, <2>1 DEF SweepHoldsDue
  <2>6. SweepHoldsDue' BY <1>1, <2>1, <2>4, <2>5 DEF SweepHoldsDue, WithdrawalsAreTyped
  <2>7. \A x \in WithdrawalIds : PaidBySomeSweep(x)' <=> PaidBySomeSweep(x) BY <2>1 DEF PaidBySomeSweep
  <2>8. ~PaidBySomeSweep(w) BY <1>1, <1>2, <2>5 DEF PaidBySomeSweep, SweepHoldsDue
  <2>9. ASSUME restores = 0, NEW x \in WithdrawalIds  PROVE PaidRight(x)'
    <3>1. PaidRight(x) BY <1>1, <2>9
    <3>2. CASE x = w BY <1>2, <2>1, <2>8, <3>1, <3>2, <2>4, <2>7 DEF PaidRight, OneIf
    <3>3. CASE x # w BY <2>1, <2>4, <2>7, <3>1, <3>3 DEF PaidRight, OneIf
    <3> QED BY <3>2, <3>3
  <2> QED BY <2>3, <2>6, <2>9
<1>6. ASSUME NEW w \in WithdrawalIds, CancelWithdrawal(w)  PROVE Kept
  <2>1. /\ Status(w) = "PENDING_HOLD" /\ UNCHANGED <<journal, lost, withdrawalSweep>>
        /\ withdrawal' = [withdrawal EXCEPT ![w].status = "CANCELLED"] BY <1>6 DEF CancelWithdrawal, book
  <2>2. WithdrawalsAreTyped' BY <1>1, <2>1 DEF WithdrawalsAreTyped
  <2>3. /\ \A x \in WithdrawalIds : withdrawal'[x].eligibleAt = withdrawal[x].eligibleAt
        /\ \A x \in WithdrawalIds : x # w => Status(x)' = Status(x)
        /\ Status(w)' = "CANCELLED" BY <1>1, <2>1 DEF WithdrawalsAreTyped, Status
  <2>4. SweepHoldsDue' BY <1>1, <2>1, <2>3 DEF SweepHoldsDue, WithdrawalsAreTyped
  <2>5. \A x \in WithdrawalIds : PaidBySomeSweep(x)' <=> PaidBySomeSweep(x) BY <2>1 DEF PaidBySomeSweep
  <2>6. ASSUME restores = 0, NEW x \in WithdrawalIds  PROVE PaidRight(x)'
    BY <1>1, <2>6, <2>1, <2>3, <2>5 DEF PaidRight, OneIf
  <2> QED BY <2>2, <2>4, <2>6
<1>7. ASSUME NEW s \in WithdrawalSweeps, CollectDueWithdrawals(s)  PROVE Kept
  <2>1. /\ withdrawalSweep[s].due = {} /\ UNCHANGED <<journal, lost, withdrawal>>
        /\ withdrawalSweep' = [withdrawalSweep EXCEPT ![s].due = {w \in WithdrawalIds : Due(w)}]
    BY <1>7 DEF CollectDueWithdrawals, book
  <2>2. WithdrawalsAreTyped' BY <1>1, <2>1 DEF WithdrawalsAreTyped
  <2>3. /\ withdrawalSweep'[s].due = {w \in WithdrawalIds : Due(w)}
        /\ \A t \in WithdrawalSweeps : withdrawalSweep'[t].paid = withdrawalSweep[t].paid
        /\ \A t \in WithdrawalSweeps : t = s BY <1>1, <1>3, <2>1 DEF WithdrawalsAreTyped
  <2>4. \A x \in WithdrawalIds : /\ PaidBySomeSweep(x)' <=> PaidBySomeSweep(x)
                                 /\ Status(x)' = Status(x) BY <2>1, <2>3 DEF PaidBySomeSweep, Status
  <2>5. withdrawalSweep[s].paid = Nothing BY <1>1, <2>1 DEF SweepHoldsDue
  <2>6. SweepHoldsDue' BY <2>1, <2>3, <2>4, <2>5 DEF SweepHoldsDue, Due
  <2>7. ASSUME restores = 0, NEW x \in WithdrawalIds  PROVE PaidRight(x)'
    BY <1>1, <2>1, <2>4, <2>7 DEF PaidRight, OneIf
  <2> QED BY <2>2, <2>6, <2>7
<1>8. ASSUME NEW s \in WithdrawalSweeps, MarkCompleted(s)  PROVE Kept
  <2>1. PICK w \in WithdrawalIds : w = withdrawalSweep[s].paid
    BY <1>1, <1>8 DEF MarkCompleted, WithdrawalsAreTyped
  <2>2. /\ withdrawal' = [withdrawal EXCEPT ![w].status = "COMPLETED"]
        /\ withdrawalSweep' = [withdrawalSweep EXCEPT
              ![s] = [due |-> @.due \ {w}, paid |-> Nothing]]
        /\ UNCHANGED <<journal, lost>> BY <1>8, <2>1 DEF MarkCompleted, book
  <2>3. WithdrawalsAreTyped' BY <1>1, <2>2 DEF WithdrawalsAreTyped
  <2>4. /\ withdrawalSweep'[s].due = withdrawalSweep[s].due \ {w} /\ withdrawalSweep'[s].paid = Nothing
        /\ \A t \in WithdrawalSweeps : t = s BY <1>1, <1>3, <2>2 DEF WithdrawalsAreTyped
  <2>5. /\ \A x \in WithdrawalIds : withdrawal'[x].eligibleAt = withdrawal[x].eligibleAt
        /\ \A x \in WithdrawalIds : x # w => Status(x)' = Status(x)
        /\ Status(w)' = "COMPLETED" BY <1>1, <2>2 DEF WithdrawalsAreTyped, Status
  <2>6. withdrawalSweep[s].due \subseteq WithdrawalIds BY <1>1 DEF WithdrawalsAreTyped
  <2>7. SweepHoldsDue' BY <1>1, <2>4, <2>5, <2>6 DEF SweepHoldsDue
  <2>8. /\ PaidBySomeSweep(w) /\ \A x \in WithdrawalIds : x # w => ~PaidBySomeSweep(x)
        /\ \A x \in WithdrawalIds : ~PaidBySomeSweep(x)' BY <1>2, <2>1, <2>4 DEF PaidBySomeSweep
  <2>9. ASSUME restores = 0, NEW x \in WithdrawalIds  PROVE PaidRight(x)'
    BY <1>1, <2>2, <2>9, <2>5, <2>8 DEF PaidRight, OneIf
  <2> QED BY <2>3, <2>7, <2>9
<1>9. ASSUME NEW s \in WithdrawalSweeps, NEW w \in WithdrawalIds, PostPayout(s, w) \/ PayoutFails(s, w)
      PROVE  Kept
  <2>1. w \in withdrawalSweep[s].due /\ withdrawalSweep[s].paid = Nothing /\ withdrawal' = withdrawal
    BY <1>9 DEF PostPayout, PayoutFails
  <2>2. Status(w) \in {"PENDING_HOLD", "CANCELLED"} /\ withdrawal[w].eligibleAt <= today
    BY <1>1, <2>1 DEF SweepHoldsDue
  <2>3. /\ \A t \in WithdrawalSweeps : t = s
        /\ \A x \in WithdrawalIds : Status(x)' = Status(x) /\ ~PaidBySomeSweep(x)
    BY <1>2, <1>3, <2>1 DEF PaidBySomeSweep, Status
  <2>4. CASE PostPayout(s, w)
    <3>1. withdrawalSweep' = [withdrawalSweep EXCEPT ![s].paid = w] BY <2>4 DEF PostPayout
    <3>2. /\ WithdrawalsAreTyped' /\ withdrawalSweep'[s].paid = w
          /\ withdrawalSweep'[s].due = withdrawalSweep[s].due BY <1>1, <2>1, <3>1 DEF WithdrawalsAreTyped
    <3>3. SweepHoldsDue' BY <1>1, <2>1, <2>3, <3>2 DEF SweepHoldsDue, WithdrawalsAreTyped
    <3>4. PaidBySomeSweep(w)' /\ \A x \in WithdrawalIds : x # w => ~PaidBySomeSweep(x)'
      BY <2>3, <3>2 DEF PaidBySomeSweep
    <3>5. journal'[w] = journal[w] + 1 /\ lost' = lost /\ OnlyTouches({w})
      BY <1>2, <2>4, PostEffect DEF PostPayout
    <3>6. ASSUME restores = 0, NEW x \in WithdrawalIds  PROVE PaidRight(x)'
      <4>1. PaidRight(x) BY <1>1, <3>6
      <4>2. CASE x = w BY <1>2, <2>2, <2>3, <4>1, <4>2, <3>5, <2>1, <3>4 DEF PaidRight, OneIf
      <4>3. CASE x # w BY <1>2, <3>5, <4>3, <2>1, <2>3, <3>4, <4>1 DEF OnlyTouches, PaidRight, OneIf
      <4> QED BY <4>2, <4>3
    <3> QED BY <3>2, <3>3, <3>6
  <2>5. CASE PayoutFails(s, w)
    <3>1. withdrawalSweep' = [withdrawalSweep EXCEPT ![s].due = @ \ {w}] BY <2>5 DEF PayoutFails
    <3>2. /\ WithdrawalsAreTyped' /\ withdrawalSweep'[s].paid = Nothing
          /\ withdrawalSweep'[s].due = withdrawalSweep[s].due \ {w}
      BY <1>1, <2>1, <3>1 DEF WithdrawalsAreTyped
    <3>3. SweepHoldsDue' BY <1>1, <2>1, <2>3, <3>2 DEF SweepHoldsDue, WithdrawalsAreTyped
    <3>4. \A x \in WithdrawalIds : ~PaidBySomeSweep(x)' BY <1>2, <2>3, <3>2 DEF PaidBySomeSweep
    <3>5. /\ journal'[w] - lost'[w] = journal[w] - lost[w] /\ OnlyTouches({w})
          /\ journal'[w] \in Nat /\ lost'[w] \in Nat BY <1>2, <2>5, FailureEffect DEF PayoutFails
    <3>6. ASSUME restores = 0, NEW x \in WithdrawalIds  PROVE PaidRight(x)'
      <4>1. PaidRight(x) BY <1>1, <3>6
      <4>2. CASE x = w BY <1>2, <2>2, <2>3, <4>1, <4>2, <3>5, <2>1, <3>4 DEF PaidRight, OneIf
      <4>3. CASE x # w BY <1>2, <3>5, <4>3, <2>1, <2>3, <3>4, <4>1 DEF OnlyTouches, PaidRight, OneIf
      <4> QED BY <4>2, <4>3
    <3> QED BY <3>2, <3>3, <3>6
  <2> QED BY <1>9, <2>4, <2>5
<1> QED BY <1>5, <1>6, <1>7, <1>8, <1>9 DEF WithdrawalStep, RequestWithdrawal

--------------------
(* Mandates *)

OneMandateSweep == \A s, t \in MandateSweeps : s = t

\* The mandates keep their invariant over the steps of everyone else.
LEMMA MandatesUntouched ==
  ASSUME BookIsTyped, BookIsTyped', MandateInv, UNCHANGED mandates, today' >= today,
         (OnlyTouches(Entries \ MandateIds) /\ restores' = restores) \/ restores' > 0
  PROVE  MandateInv'
<1>1. UNCHANGED <<mandate, mandateSweep>> BY DEF mandates
<1>2. /\ today \in Nat /\ today' \in Nat /\ Period \in Nat
      /\ MandatesAreTyped /\ SweepHoldsDueMandates
      /\ \A m \in MandateIds : mandate[m].nextDebit \in Nat
  BY MandateAssumption DEF BookIsTyped, MandateInv, MandatesAreTyped
<1>3. MandatesAreTyped' BY <1>1, <1>2 DEF MandatesAreTyped
<1>4. SweepHoldsDueMandates' BY <1>1, <1>2 DEF SweepHoldsDueMandates, MandatesAreTyped
<1>5. ASSUME NEW m \in MandateIds  PROVE DatesMatchDebits(m)' BY <1>1, <1>2 DEF MandateInv, DatesMatchDebits
<1>6. ASSUME NEW m \in MandateIds, restores' = 0  PROVE Debited(m)'
  BY <1>6, MandateAssumption, <1>1 DEF MandateInv, OnlyTouches, DebitedBySomeSweep, Debited, OneIf
<1> QED BY <1>3, <1>4, <1>5, <1>6 DEF MandateInv

\* One sweep at a time keeps it: what it has debited is what it advances.
LEMMA MandateStepKeeps ==
  ASSUME OneMandateSweep, BookIsTyped, BookIsTyped', MandateInv, MandateStep(today),
         OnlyTouches(MandateIds), restores' = restores, today' = today
  PROVE  MandateInv'
<1>1. /\ MandatesAreTyped /\ SweepHoldsDueMandates
      /\ \A m \in MandateIds : DatesMatchDebits(m)
      /\ restores = 0 => \A m \in MandateIds : Debited(m) BY DEF MandateInv
<1>2. /\ \A m \in MandateIds : journal[m] \in Nat /\ lost[m] \in Nat
      /\ today \in Nat /\ NoMandate \notin MandateIds /\ MandateIds \subseteq Entries
      /\ Period \in Nat BY MandateAssumption DEF BookIsTyped
<1>3. \A s, t \in MandateSweeps : s = t BY DEF OneMandateSweep
<1>4. \A m \in MandateIds : /\ mandate[m].debits \in Nat /\ mandate[m].nextDebit \in Nat
                            /\ mandate[m].registeredOn \in Nat BY <1>1 DEF MandatesAreTyped
<1> DEFINE Kept == /\ MandatesAreTyped' /\ SweepHoldsDueMandates'
                   /\ \A m \in MandateIds : DatesMatchDebits(m)'
                   /\ restores = 0 => \A m \in MandateIds : Debited(m)'
<1>5. SUFFICES Kept BY <1>5 DEF MandateInv
<1>6. ASSUME NEW m \in MandateIds, RegisterMandate(m, today)  PROVE Kept
  <2>1. /\ mandate[m].status = "none" /\ UNCHANGED <<journal, lost, mandateSweep>>
        /\ mandate' = [mandate EXCEPT
              ![m].status = "ACTIVE", ![m].registeredOn = today, ![m].nextDebit = today]
    BY <1>6 DEF RegisterMandate, book
  <2>2. MandatesAreTyped'
    <3>1. mandate[m].debits \in Nat /\ mandate[m].failures \in Nat BY <1>1 DEF MandatesAreTyped
    <3>2. PICK t \in Nat : t = today BY <1>2
    <3>3. mandate' = [mandate EXCEPT ![m].status = "ACTIVE", ![m].registeredOn = t, ![m].nextDebit = t]
      BY <2>1, <3>2
    <3>4. mandate \in [MandateIds -> MandateTypes] BY <1>1 DEF MandatesAreTyped, MandateTypes
    <3>5. PICK x : x = [mandate[m] EXCEPT !.status = "ACTIVE", !.registeredOn = t, !.nextDebit = t] OBVIOUS
    <3>6. x \in MandateTypes BY <3>2, <3>4, <3>5 DEF MandateTypes
    <3>7. mandate' = [mandate EXCEPT ![m] = x] BY <3>3, <3>4, <3>5
    <3>8. mandate' \in [MandateIds -> MandateTypes] BY <3>4, <3>6, <3>7
    <3> QED BY <1>1, <2>1, <3>8 DEF MandatesAreTyped, MandateTypes
  <2>3. /\ \A x \in MandateIds : x # m => mandate'[x] = mandate[x]
        /\ \A x \in MandateIds : mandate'[x].debits = mandate[x].debits
        /\ mandate'[m].nextDebit = today /\ mandate'[m].registeredOn = today
        /\ mandate'[m].status = "ACTIVE" /\ mandate[m].debits = 0
    BY <1>1, <2>1 DEF MandatesAreTyped, DatesMatchDebits
  <2>4. SweepHoldsDueMandates' BY <1>1, <1>2, <2>1, <2>3 DEF SweepHoldsDueMandates, MandatesAreTyped
  <2>5. ASSUME NEW x \in MandateIds  PROVE DatesMatchDebits(x)'
    <3>1. CASE x = m BY <1>2, <2>3, <3>1 DEF DatesMatchDebits
    <3>2. CASE x # m BY <1>1, <2>3, <3>2 DEF DatesMatchDebits
    <3> QED BY <3>1, <3>2
  <2>6. ASSUME restores = 0, NEW x \in MandateIds  PROVE Debited(x)'
    <3>1. DebitedBySomeSweep(x)' <=> DebitedBySomeSweep(x) BY <2>1 DEF DebitedBySomeSweep
    <3> QED BY <1>1, <2>1, <2>3, <2>6, <3>1 DEF Debited, OneIf
  <2> QED BY <2>2, <2>4, <2>5, <2>6
<1>7. ASSUME NEW m \in MandateIds, NEW status \in {"ACTIVE", "PAUSED", "CANCELLED"},
             mandate[m].status # "none", SetStatus(m, status)
      PROVE  Kept
  <2>1. /\ UNCHANGED <<journal, lost, mandateSweep>>
        /\ mandate' = [mandate EXCEPT ![m].status = status] BY <1>7 DEF SetStatus, book
  <2>2. MandatesAreTyped' BY <1>1, <2>1 DEF MandatesAreTyped
  <2>3. /\ \A x \in MandateIds : mandate'[x].debits = mandate[x].debits
        /\ \A x \in MandateIds : mandate'[x].nextDebit = mandate[x].nextDebit
        /\ \A x \in MandateIds : mandate'[x].registeredOn = mandate[x].registeredOn
        /\ \A x \in MandateIds : mandate'[x].status = "none" => mandate[x].status = "none"
    BY <1>1, <1>7, <2>1 DEF MandatesAreTyped
  <2>4. SweepHoldsDueMandates' BY <1>1, <2>1, <2>3 DEF SweepHoldsDueMandates, MandatesAreTyped
  <2>5. \A x \in MandateIds : DatesMatchDebits(x)' BY <1>1, <2>3 DEF DatesMatchDebits
  <2>6. ASSUME restores = 0, NEW x \in MandateIds  PROVE Debited(x)'
    BY <2>1, <1>1, <2>3, <2>6 DEF DebitedBySomeSweep, Debited, OneIf
  <2> QED BY <2>2, <2>4, <2>5, <2>6
<1>8. ASSUME NEW m \in MandateIds, PauseMandate(m) \/ ResumeMandate(m) \/ CancelMandate(m) PROVE Kept
  BY <1>7, <1>8 DEF PauseMandate, ResumeMandate, CancelMandate
<1>9. ASSUME NEW s \in MandateSweeps, CollectDueMandates(s, today)  PROVE Kept
  <2>1. /\ mandateSweep[s].due = {} /\ UNCHANGED <<journal, lost, mandate>>
        /\ mandateSweep' = [mandateSweep EXCEPT ![s].due = DueMandates(today)]
    BY <1>9 DEF CollectDueMandates, book
  <2>2. DueMandates(today) \subseteq MandateIds BY DEF DueMandates
  <2>3. MandatesAreTyped' BY <1>1, <2>1, <2>2 DEF MandatesAreTyped
  <2>4. /\ mandateSweep'[s].due = DueMandates(today)
        /\ \A t \in MandateSweeps : mandateSweep'[t].debited = mandateSweep[t].debited
        /\ \A t \in MandateSweeps : t = s BY <1>1, <1>3, <2>1, <2>2 DEF MandatesAreTyped
  <2>5. mandateSweep[s].debited = NoMandate BY <1>1, <2>1 DEF SweepHoldsDueMandates
  <2>6. SweepHoldsDueMandates' BY <2>1, <2>4, <2>5 DEF SweepHoldsDueMandates, DueMandates
  <2>7. \A x \in MandateIds : DatesMatchDebits(x)' BY <1>1, <2>1 DEF DatesMatchDebits
  <2>8. ASSUME restores = 0, NEW x \in MandateIds  PROVE Debited(x)'
    BY <2>4, <1>1, <2>1, <2>8 DEF DebitedBySomeSweep, Debited, OneIf
  <2> QED BY <2>3, <2>6, <2>7, <2>8
<1>10. ASSUME NEW s \in MandateSweeps, RecordDebit(s)  PROVE Kept
  <2>1. PICK m \in MandateIds : m = mandateSweep[s].debited BY <1>1, <1>10 DEF RecordDebit, MandatesAreTyped
  <2> DEFINE n == mandate[m].debits + 1
             d == mandate[m].nextDebit + Period
  <2>2. /\ mandate' = [mandate EXCEPT ![m].debits = n, ![m].failures = 0, ![m].nextDebit = d]
        /\ mandateSweep' = [mandateSweep EXCEPT ![s] = [due |-> @.due \ {m}, debited |-> NoMandate]]
        /\ UNCHANGED <<journal, lost>> BY <1>10, <2>1 DEF RecordDebit, book
  <2>3. MandatesAreTyped'
    <3>1. n \in Nat /\ d \in Nat BY <1>2, <1>4
    <3> HIDE DEF n, d
    <3>2. mandate' \in [MandateIds ->
             [status : {"none", "ACTIVE", "PAUSED", "CANCELLED", "SUSPENDED"},
              registeredOn : Nat, nextDebit : Nat, debits : Nat, failures : Nat]]
      <4>1. mandate' = [mandate EXCEPT ![m].debits = n, ![m].failures = 0, ![m].nextDebit = d] BY <2>2
      <4>2. mandate \in [MandateIds -> MandateTypes] BY <1>1 DEF MandatesAreTyped, MandateTypes
      <4>3. PICK x : x = [mandate[m] EXCEPT !.debits = n, !.failures = 0, !.nextDebit = d] OBVIOUS
      <4>4. x \in MandateTypes BY <3>1, <4>2, <4>3 DEF MandateTypes
      <4>5. mandate' = [mandate EXCEPT ![m] = x] BY <4>1, <4>2, <4>3
      <4>6. mandate' \in [MandateIds -> MandateTypes] BY <4>2, <4>4, <4>5
      <4> QED BY <4>6 DEF MandateTypes
    <3>3. mandateSweep' \in [MandateSweeps -> [due : SUBSET MandateIds,
                                              debited : MandateIds \cup {NoMandate}]]
      BY <1>1, <2>2 DEF MandatesAreTyped
    <3> QED BY <3>2, <3>3 DEF MandatesAreTyped
  <2>4. /\ mandateSweep'[s].due = mandateSweep[s].due \ {m} /\ mandateSweep'[s].debited = NoMandate
        /\ \A t \in MandateSweeps : t = s BY <1>1, <1>3, <2>2 DEF MandatesAreTyped
  <2>5. /\ \A x \in MandateIds : x # m => mandate'[x] = mandate[x]
        /\ mandate'[m].debits = n /\ mandate'[m].nextDebit = d
        /\ mandate'[m].registeredOn = mandate[m].registeredOn
        /\ mandate'[m].status = mandate[m].status
    <3> HIDE DEF n, d
    <3> QED BY <1>1, <2>2 DEF MandatesAreTyped
  <2>6. mandate[m].status # "none" /\ mandate[m].nextDebit <= today
    BY <1>1, <1>2, <2>1 DEF SweepHoldsDueMandates
  <2>7. SweepHoldsDueMandates' BY <1>1, <2>4, <2>5 DEF MandatesAreTyped, SweepHoldsDueMandates
  <2>8. ASSUME NEW x \in MandateIds  PROVE DatesMatchDebits(x)'
    <3>1. CASE x = m
      <4>1. mandate[m].nextDebit = mandate[m].registeredOn + Period * mandate[m].debits
        BY <1>1 DEF DatesMatchDebits
      <4>2. Period * (mandate[m].debits + 1) = Period * mandate[m].debits + Period BY <1>2, <1>4
      <4>3. Period * mandate[m].debits \in Nat BY <1>2, <1>4
      <4>4. mandate[m].nextDebit + Period = mandate[m].registeredOn + Period * (mandate[m].debits + 1)
        BY <1>2, <1>4, <4>1, <4>2, <4>3
      <4>5. mandate[m].nextDebit + Period <= today + Period BY <1>2, <1>4, <2>6
      <4> QED BY <2>5, <2>6, <3>1, <4>4, <4>5 DEF DatesMatchDebits
    <3>2. CASE x # m BY <1>1, <2>5, <3>2 DEF DatesMatchDebits
    <3> QED BY <3>1, <3>2
  <2>9. /\ DebitedBySomeSweep(m) /\ \A x \in MandateIds : x # m => ~DebitedBySomeSweep(x)
        /\ \A x \in MandateIds : ~DebitedBySomeSweep(x)' BY <1>2, <2>1, <2>4 DEF DebitedBySomeSweep
  <2>10. ASSUME restores = 0, NEW x \in MandateIds  PROVE Debited(x)'
    <3>1. Debited(x) /\ journal'[x] = journal[x] /\ lost'[x] = lost[x] BY <1>1, <2>2, <2>10
    <3>2. mandate'[x].debits = mandate[x].debits + OneIf(x = m) BY <1>4, <2>5 DEF OneIf
    <3>3. OneIf(DebitedBySomeSweep(x)) = OneIf(x = m) /\ OneIf(DebitedBySomeSweep(x)') = 0
          /\ OneIf(x = m) \in Nat BY <2>9 DEF OneIf
    <3>4. journal'[x] = mandate'[x].debits + 0 + lost'[x] BY <1>2, <1>4, <3>1, <3>2, <3>3 DEF Debited
    <3> QED BY <3>3, <3>4 DEF Debited, OneIf
  <2> QED BY <2>3, <2>7, <2>8, <2>10
<1>11. ASSUME NEW s \in MandateSweeps, NEW m \in MandateIds, PostDebit(s, m)  PROVE Kept
  <2>1. /\ m \in mandateSweep[s].due /\ mandateSweep[s].debited = NoMandate /\ mandate' = mandate
        /\ mandateSweep' = [mandateSweep EXCEPT ![s].debited = m] BY <1>11 DEF PostDebit
  <2>2. /\ MandatesAreTyped' /\ mandateSweep'[s].debited = m
        /\ mandateSweep'[s].due = mandateSweep[s].due
        /\ \A t \in MandateSweeps : t = s BY <1>1, <1>3, <2>1 DEF MandatesAreTyped
  <2>3. SweepHoldsDueMandates' BY <1>1, <2>1, <2>2 DEF SweepHoldsDueMandates
  <2>4. \A x \in MandateIds : DatesMatchDebits(x)' BY <1>1, <2>1 DEF DatesMatchDebits
  <2>5. /\ DebitedBySomeSweep(m)' /\ \A x \in MandateIds : ~DebitedBySomeSweep(x)
        /\ \A x \in MandateIds : x # m => ~DebitedBySomeSweep(x)' BY <1>2, <2>1, <2>2 DEF DebitedBySomeSweep
  <2>6. journal'[m] = journal[m] + 1 /\ lost' = lost /\ OnlyTouches({m})
    BY <1>2, <1>11, PostEffect DEF PostDebit
  <2>7. ASSUME restores = 0, NEW x \in MandateIds  PROVE Debited(x)'
    <3>1. Debited(x) BY <1>1, <2>7
    <3>2. CASE x = m BY <2>5, <3>1, <3>2, <1>2, <1>4, <2>6, <2>1 DEF Debited, OneIf
    <3>3. CASE x # m BY <1>2, <2>6, <3>3, <2>1, <2>5, <3>1 DEF OnlyTouches, Debited, OneIf
    <3> QED BY <3>2, <3>3
  <2> QED BY <2>2, <2>3, <2>4, <2>7
<1>12. ASSUME NEW s \in MandateSweeps, NEW m \in MandateIds, DebitFails(s, m)  PROVE Kept
  <2>1. /\ m \in mandateSweep[s].due /\ mandateSweep[s].debited = NoMandate
        /\ mandateSweep' = [mandateSweep EXCEPT ![s].due = @ \ {m}] BY <1>12 DEF DebitFails
  <2>2. mandate[m].status # "none" /\ mandate[m].failures + 1 \in Nat
    BY <1>1, <2>1 DEF SweepHoldsDueMandates, MandatesAreTyped
  <2>3. PICK status \in {"ACTIVE", "PAUSED", "CANCELLED", "SUSPENDED"}, failures \in Nat :
            mandate' = [mandate EXCEPT ![m].status = status, ![m].failures = failures]
    <3>1. mandate[m].status \in {"ACTIVE", "PAUSED", "CANCELLED", "SUSPENDED"}
      BY <1>1, <2>2 DEF MandatesAreTyped
    <3> QED BY <1>12, <2>2, <3>1 DEF DebitFails
  <2>4. /\ mandateSweep'[s].debited = NoMandate /\ mandateSweep'[s].due = mandateSweep[s].due \ {m}
        /\ \A t \in MandateSweeps : t = s
        /\ MandatesAreTyped'
    <3>1. mandateSweep'[s].debited = NoMandate /\ mandateSweep'[s].due = mandateSweep[s].due \ {m}
      BY <1>1, <2>1 DEF MandatesAreTyped
    <3>2. mandate' \in [MandateIds ->
             [status : {"none", "ACTIVE", "PAUSED", "CANCELLED", "SUSPENDED"},
              registeredOn : Nat, nextDebit : Nat, debits : Nat, failures : Nat]]
      <4>1. mandate \in [MandateIds -> MandateTypes] BY <1>1 DEF MandatesAreTyped, MandateTypes
      <4>2. PICK x : x = [mandate[m] EXCEPT !.status = status, !.failures = failures] OBVIOUS
      <4>3. x \in MandateTypes BY <4>1, <4>2 DEF MandateTypes
      <4>4. mandate' = [mandate EXCEPT ![m] = x] BY <2>3, <4>1, <4>2
      <4>5. mandate' \in [MandateIds -> MandateTypes] BY <4>1, <4>3, <4>4
      <4> QED BY <4>5 DEF MandateTypes
    <3>3. mandateSweep' \in [MandateSweeps -> [due : SUBSET MandateIds,
                                              debited : MandateIds \cup {NoMandate}]]
      BY <1>1, <2>1 DEF MandatesAreTyped
    <3>4. MandatesAreTyped' BY <3>2, <3>3 DEF MandatesAreTyped
    <3>5. \A t \in MandateSweeps : t = s BY <1>3
    <3> QED BY <3>1, <3>4, <3>5
  <2>5. /\ \A x \in MandateIds : mandate'[x].debits = mandate[x].debits
        /\ \A x \in MandateIds : mandate'[x].nextDebit = mandate[x].nextDebit
        /\ \A x \in MandateIds : mandate'[x].registeredOn = mandate[x].registeredOn
        /\ \A x \in MandateIds : mandate'[x].status = "none" => mandate[x].status = "none"
    BY <1>1, <2>3 DEF MandatesAreTyped
  <2>6. SweepHoldsDueMandates' BY <1>1, <2>1, <2>4, <2>5 DEF SweepHoldsDueMandates, MandatesAreTyped
  <2>7. \A x \in MandateIds : DatesMatchDebits(x)' BY <1>1, <2>5 DEF DatesMatchDebits
  <2>8. \A x \in MandateIds : ~DebitedBySomeSweep(x) /\ ~DebitedBySomeSweep(x)'
    BY <1>2, <2>1, <2>4 DEF DebitedBySomeSweep
  <2>9. /\ journal'[m] - lost'[m] = journal[m] - lost[m] /\ OnlyTouches({m})
        /\ journal'[m] \in Nat /\ lost'[m] \in Nat BY <1>2, <1>12, FailureEffect DEF DebitFails
  <2>10. ASSUME restores = 0, NEW x \in MandateIds  PROVE Debited(x)'
    <3>1. journal[x] = mandate[x].debits + 0 + lost[x] BY <1>1, <2>8, <2>10 DEF Debited, OneIf
    <3>2. journal'[x] = mandate'[x].debits + 0 + lost'[x]
      <4>1. CASE x = m BY <1>2, <1>4, <2>5, <2>9, <3>1, <4>1
      <4>2. CASE x # m BY <1>2, <2>9, <4>2, <2>5, <3>1 DEF OnlyTouches
      <4> QED BY <4>1, <4>2
    <3> QED BY <2>8, <3>2 DEF Debited, OneIf
  <2> QED BY <2>4, <2>6, <2>7, <2>10
<1> QED BY <1>6, <1>8, <1>9, <1>10, <1>11, <1>12 DEF MandateStep

--------------------
(* The theorems *)

\* The initial states satisfy all of it.
LEMMA LedgerInitially == ASSUME Init  PROVE BookIsTyped /\ DepositInv /\ WithdrawalInv /\ MandateInv
<1>1. /\ journal = [e \in Entries |-> 0] /\ lost = [e \in Entries |-> 0]
      /\ snapshot = NoSnapshot /\ restores = 0 /\ today = 0 BY DEF Init, LedgerInit, WithdrawalInit
<1>2. BookIsTyped BY <1>1 DEF BookIsTyped
<1>3. DepositInv
  BY <1>1, DepositAssumption DEF Init, DepositInit, DepositTypeOK, DepositsArePostedOnce, OneIf,
     DepositInv
<1>4. WithdrawalInv
  <2>1. /\ withdrawal = [w \in WithdrawalIds |-> NotRequested]
        /\ withdrawalSweep = [s \in WithdrawalSweeps |-> IdleSweep] BY DEF Init, WithdrawalInit
  <2>2. WithdrawalsAreTyped BY <2>1 DEF WithdrawalsAreTyped, NotRequested, IdleSweep
  <2>3. SweepHoldsDue BY <2>1 DEF SweepHoldsDue, IdleSweep
  <2>4. \A w \in WithdrawalIds : /\ journal[w] = 0 /\ lost[w] = 0 /\ Status(w) = "none"
                                 /\ ~PaidBySomeSweep(w)
    BY <1>1, <2>1, WithdrawalAssumption DEF Status, NotRequested, PaidBySomeSweep, IdleSweep
  <2>5. PayoutsMatchStatuses BY <2>4 DEF PayoutsMatchStatuses, OneIf
  <2> QED BY <2>2, <2>3, <2>5 DEF WithdrawalInv
<1>5. MandateInv
  <2>1. /\ mandate = [m \in MandateIds |-> Unregistered]
        /\ mandateSweep = [s \in MandateSweeps |-> [due |-> {}, debited |-> NoMandate]]
    BY DEF Init, MandateInit
  <2>2. MandatesAreTyped BY <2>1 DEF MandatesAreTyped, Unregistered
  <2>3. SweepHoldsDueMandates BY <2>1 DEF SweepHoldsDueMandates
  <2>4. \A m \in MandateIds : DatesMatchDebits(m)
    BY MandateAssumption, <2>1 DEF DatesMatchDebits, Unregistered
  <2>5. \A m \in MandateIds : /\ journal[m] = 0 /\ lost[m] = 0 /\ mandate[m].debits = 0
                              /\ ~DebitedBySomeSweep(m)
    BY <1>1, <2>1, MandateAssumption DEF DebitedBySomeSweep, Unregistered
  <2>6. \A m \in MandateIds : Debited(m) BY <2>5 DEF Debited, OneIf
  <2> QED BY <2>2, <2>3, <2>4, <2>6 DEF MandateInv
<1> QED BY <1>2, <1>3, <1>4, <1>5

\* The entries of one desk are not those of another.
LEMMA DesksApart ==
  /\ OnlyTouches(WithdrawalIds) => OnlyTouches(Entries \ DepositIds) /\ OnlyTouches(Entries \ MandateIds)
  /\ OnlyTouches(DepositIds) => OnlyTouches(Entries \ WithdrawalIds) /\ OnlyTouches(Entries \ MandateIds)
  /\ OnlyTouches(MandateIds) => OnlyTouches(Entries \ DepositIds) /\ OnlyTouches(Entries \ WithdrawalIds)
  /\ OnlyTouches(OutsideEntries \union {WalletEntry}) =>
        /\ OnlyTouches(Entries \ DepositIds) /\ OnlyTouches(Entries \ WithdrawalIds)
        /\ OnlyTouches(Entries \ MandateIds) BY EntriesAssumption DEF OnlyTouches

\* Deposits need nothing of the other desks.
LEMMA DepositsStep == ASSUME BookIsTyped /\ DepositInv, [Next]_vars  PROVE (BookIsTyped /\ DepositInv)'
<1>1. CASE Next
  BY <1>1, StepEffect, DesksApart, DepositsUntouched, DepositStepKeeps DEF DepositInv, StepsApart
<1>2. CASE UNCHANGED vars BY <1>2, DepositsUntouched DEF vars, book, backups, BookIsTyped, OnlyTouches
<1> QED BY <1>1, <1>2

\* Nor do withdrawals, with one sweep of theirs at a time.
LEMMA WithdrawalsStep ==
  ASSUME OneWithdrawalSweep, BookIsTyped /\ DepositInv /\ WithdrawalInv, [Next]_vars
  PROVE  (BookIsTyped /\ DepositInv /\ WithdrawalInv)'
<1>1. BookIsTyped' /\ DepositInv' BY DepositsStep
<1>2. CASE Next
  BY <1>2, StepEffect, <1>1, DesksApart, WithdrawalsUntouched, WithdrawalStepKeeps DEF DepositInv,
     BookIsTyped, StepsApart
<1>3. CASE UNCHANGED vars
  BY <1>3, <1>1, WithdrawalsUntouched DEF vars, book, backups, BookIsTyped, OnlyTouches
<1> QED BY <1>2, <1>3

\* Nor do mandates.
LEMMA MandatesStep ==
  ASSUME OneMandateSweep, BookIsTyped /\ DepositInv /\ MandateInv, [Next]_vars
  PROVE  (BookIsTyped /\ DepositInv /\ MandateInv)'
<1>1. BookIsTyped' /\ DepositInv' BY DepositsStep
<1>2. CASE Next
  BY <1>2, StepEffect, <1>1, DesksApart, MandatesUntouched, MandateStepKeeps DEF DepositInv,
     BookIsTyped, StepsApart
<1>3. CASE UNCHANGED vars BY <1>3, <1>1, MandatesUntouched DEF vars, book, backups, BookIsTyped, OnlyTouches
<1> QED BY <1>2, <1>3

\* However many callbacks confirm a deposit and however they overlap, it is in the ledger once,
\* and once more for each post of it that took place and was reported failed.
THEOREM DepositsPostedOnce == Spec => []DepositsArePostedOnce
<1>1. BookIsTyped /\ DepositInv => DepositsArePostedOnce BY DEF DepositInv
<1> QED BY <1>1, LedgerInitially, DepositsStep, PTL DEF Spec

\* When the calls of ProcessDueWithdrawals do not overlap, as the workflow takes for granted
\* between its collection and its posts, the ledger has paid what is marked as paid. Two sweeps
\* that overlap pay twice.
THEOREM PayoutsMatch == ASSUME \A s, t \in WithdrawalSweeps : s = t PROVE Spec => []PayoutsMatchStatuses
<1>1. OneWithdrawalSweep BY DEF OneWithdrawalSweep
<1>2. Init => BookIsTyped /\ DepositInv /\ WithdrawalInv BY LedgerInitially
<1>3. BookIsTyped /\ DepositInv /\ WithdrawalInv /\ [Next]_vars
          => (BookIsTyped /\ DepositInv /\ WithdrawalInv)' BY <1>1, WithdrawalsStep
<1>4. BookIsTyped /\ DepositInv /\ WithdrawalInv => PayoutsMatchStatuses BY DEF WithdrawalInv
<1> QED BY <1>2, <1>3, <1>4, PTL DEF Spec

\* When the calls of SweepDueMandates do not overlap, the ledger has one debit per date passed,
\* none ahead of its date, for any period and any number of failures.
THEOREM DebitsFollowTheSchedule ==
  ASSUME \A s, t \in MandateSweeps : s = t PROVE Spec => []MandateDebitsFollowTheSchedule
<1>1. OneMandateSweep BY DEF OneMandateSweep
<1>2. Init => BookIsTyped /\ DepositInv /\ MandateInv BY LedgerInitially
<1>3. BookIsTyped /\ DepositInv /\ MandateInv /\ [Next]_vars
          => (BookIsTyped /\ DepositInv /\ MandateInv)' BY <1>1, MandatesStep
<1>4. BookIsTyped /\ DepositInv /\ MandateInv => MandateDebitsFollowTheSchedule
  <2> SUFFICES ASSUME BookIsTyped, MandateInv, restores = 0, NEW m \in MandateIds
               PROVE  /\ journal[m] = mandate[m].debits + OneIf(DebitedBySomeSweep(m)) + lost[m]
                      /\ mandate[m].nextDebit = mandate[m].registeredOn + Period * mandate[m].debits
                      /\ journal[m] > lost[m] =>
                            mandate[m].registeredOn + Period * (journal[m] - lost[m] - 1) <= today
    BY DEF MandateDebitsFollowTheSchedule
  <2>1. Debited(m) /\ DatesMatchDebits(m) /\ MandatesAreTyped /\ SweepHoldsDueMandates BY DEF MandateInv
  <2>2. /\ journal[m] \in Nat /\ lost[m] \in Nat /\ today \in Nat /\ Period \in Nat
        /\ mandate[m].debits \in Nat /\ mandate[m].nextDebit \in Nat /\ mandate[m].registeredOn \in Nat
    BY <2>1, MandateAssumption DEF BookIsTyped, MandatesAreTyped
  <2>3. ASSUME journal[m] > lost[m]
        PROVE  mandate[m].registeredOn + Period * (journal[m] - lost[m] - 1) <= today
    <3>1. CASE DebitedBySomeSweep(m)
      <4>1. journal[m] - lost[m] - 1 = mandate[m].debits BY <2>1, <2>2, <3>1 DEF Debited, OneIf
      <4>2. mandate[m].nextDebit <= today
        <5>1. PICK s \in MandateSweeps : mandateSweep[s].debited = m BY <3>1 DEF DebitedBySomeSweep
        <5>2. m # NoMandate BY MandateAssumption
        <5> QED BY <2>1, <5>1, <5>2 DEF SweepHoldsDueMandates
      <4> QED BY <2>1, <4>1, <4>2 DEF DatesMatchDebits
    <3>2. CASE ~DebitedBySomeSweep(m)
      <4>1. journal[m] - lost[m] = mandate[m].debits /\ mandate[m].debits > 0
        BY <2>1, <2>2, <2>3, <3>2 DEF Debited, OneIf
      <4>2. mandate[m].nextDebit <= today + Period BY <2>1, <4>1 DEF DatesMatchDebits
      <4>3. Period * mandate[m].debits = Period * (mandate[m].debits - 1) + Period BY <2>2
      <4>4. Period * (mandate[m].debits - 1) \in Int BY <2>2
      <4>5. mandate[m].registeredOn + Period * (mandate[m].debits - 1) <= today
        BY <2>1, <2>2, <4>2, <4>3, <4>4 DEF DatesMatchDebits
      <4> QED BY <4>1, <4>5
    <3> QED BY <3>1, <3>2
  <2> QED BY <2>1, <2>3 DEF Debited, DatesMatchDebits
<1> QED BY <1>2, <1>3, <1>4, PTL DEF Spec
--------------------
(* What the entries do to the accounts *)

\* The numbers of a record, or nothing.
PaidOut(j) == [w \in WithdrawalIds |-> j[w] * AmountOf(w)]
ClientSides(j) == [x \in OutsideEntries |-> j[x] * SumOver(Clients, OutsideLines[x])]

\* The pool mirrors client money in a book of these balances and this journal.
Mirrored(b, j) ==
  b[CustodyPool] = SumOver(Clients, b) + SumOver(WithdrawalIds, PaidOut(j))
                   - SumOver(OutsideEntries, ClientSides(j))

\* What an entry takes from client accounts without the pool.
Unguarded(e) ==
  IF e \in WithdrawalIds THEN AmountOf(e)
  ELSE IF e \in OutsideEntries THEN -SumOver(Clients, OutsideLines[e]) ELSE 0

\* The numbers an entry may have.
ProperLines(e, lines) ==
  /\ lines \in [Accounts -> Int]
  /\ lines[CustodyPool] = SumOver(Clients, lines) + Unguarded(e)

\* The accounts are apart from one another.
LEMMA AccountsApart ==
  /\ Clients \subseteq Accounts /\ Firm \in Accounts /\ CustodyPool \in Accounts
  /\ Suspense \in Accounts /\ OtherAccounts \subseteq Accounts
  /\ CustodyPool \notin Clients /\ CustodyPool # Firm /\ CustodyPool # Suspense
  /\ CustodyPool \notin OtherAccounts /\ Firm \notin Clients /\ Suspense \notin Clients
  /\ \A c \in Clients : c \notin OtherAccounts
  /\ Firm \notin OtherAccounts /\ Suspense \notin OtherAccounts /\ Firm # Suspense
BY AccountsAssumption DEF Accounts

\* The sets the sums are over are finite.
LEMMA FiniteSums ==
  /\ IsFiniteSet(Clients) /\ IsFiniteSet(WithdrawalIds) /\ IsFiniteSet(OutsideEntries)
  /\ IsFiniteSet(MandateIds)
<1>1. Clients \subseteq Accounts BY AccountsApart
<1>2. WithdrawalIds \subseteq Entries /\ OutsideEntries \subseteq Entries /\ MandateIds \subseteq Entries
  BY WithdrawalAssumption, OutsideAssumption, MandateAssumption
<1> QED BY <1>1, <1>2, FiniteAssumption, FS_Subset

\* Numbers of whole accounts are numbers of the clients.
LEMMA ClientLines ==
  ASSUME NEW lines \in [Accounts -> Int]
  PROVE  /\ IntOn(lines, Clients) /\ SumOver(Clients, lines) \in Int
         /\ \A a \in Accounts : lines[a] \in Int
<1>1. IntOn(lines, Clients) /\ \A a \in Accounts : lines[a] \in Int BY AccountsApart DEF IntOn
<1> QED BY <1>1, FiniteSums, SumIsInt DEF SumOver

\* Every unguarded amount is a number.
LEMMA UnguardedIsInt == \A e \in Entries : Unguarded(e) \in Int
<1> SUFFICES ASSUME NEW e \in Entries  PROVE Unguarded(e) \in Int OBVIOUS
<1>1. CASE e \in WithdrawalIds BY <1>1, WithdrawalAssumption DEF Unguarded, AmountOf
<1>2. CASE e \notin WithdrawalIds /\ e \in OutsideEntries
  <2>1. OutsideLines[e] \in [Accounts -> Int] BY <1>2, OutsideAssumption
  <2>2. PICK n \in Int : n = SumOver(Clients, OutsideLines[e]) BY <2>1, ClientLines
  <2>3. -n \in Int OBVIOUS
  <2> QED BY <1>2, <2>2, <2>3 DEF Unguarded
<1>3. CASE e \notin WithdrawalIds /\ e \notin OutsideEntries BY <1>3 DEF Unguarded
<1> QED BY <1>1, <1>2, <1>3

\* The record of an entry changes the two sums over the journal by what it stands for.
LEMMA JournalSums ==
  ASSUME NEW j \in [Entries -> Nat], NEW e \in Entries, NEW k, k = [j EXCEPT ![e] = @ + 1]
  PROVE  /\ SumOver(WithdrawalIds, PaidOut(k)) - SumOver(OutsideEntries, ClientSides(k))
               = SumOver(WithdrawalIds, PaidOut(j)) - SumOver(OutsideEntries, ClientSides(j))
                 + Unguarded(e)
         /\ SumOver(WithdrawalIds, PaidOut(j)) \in Int
         /\ SumOver(WithdrawalIds, PaidOut(k)) \in Int
         /\ SumOver(OutsideEntries, ClientSides(j)) \in Int
         /\ SumOver(OutsideEntries, ClientSides(k)) \in Int
<1>1. /\ k \in [Entries -> Nat] /\ k[e] = j[e] + 1 /\ \A x \in Entries \ {e} : k[x] = j[x]
      /\ j[e] \in Nat OBVIOUS
<1>2. /\ WithdrawalIds \subseteq Entries /\ OutsideEntries \subseteq Entries
      /\ WithdrawalIds \cap OutsideEntries = {} BY WithdrawalAssumption, OutsideAssumption, EntriesAssumption
<1>3. \A w \in WithdrawalIds : AmountOf(w) \in Int BY WithdrawalAssumption DEF AmountOf
<1>4. \A x \in OutsideEntries : SumOver(Clients, OutsideLines[x]) \in Int BY OutsideAssumption, ClientLines
<1>5. \A i \in [Entries -> Nat] : IntOn(PaidOut(i), WithdrawalIds) /\ IntOn(ClientSides(i), OutsideEntries)
  <2> SUFFICES ASSUME NEW i \in [Entries -> Nat]
               PROVE  IntOn(PaidOut(i), WithdrawalIds) /\ IntOn(ClientSides(i), OutsideEntries) OBVIOUS
  <2>1. ASSUME NEW w \in WithdrawalIds  PROVE PaidOut(i)[w] \in Int
    <3>1. w \in Entries BY <1>2
    <3>2. i[w] \in Nat BY <3>1
    <3>3. PICK n \in Int : n = AmountOf(w) BY <1>3
    <3>4. i[w] * n \in Int BY <3>2
    <3> QED BY <3>3, <3>4 DEF PaidOut
  <2>2. ASSUME NEW x \in OutsideEntries  PROVE ClientSides(i)[x] \in Int
    <3>1. PICK n \in Int : n = SumOver(Clients, OutsideLines[x]) BY <1>4
    <3>2. x \in Entries BY <1>2
    <3>3. i[x] \in Nat BY <3>2
    <3>4. i[x] * n \in Int BY <3>3
    <3> QED BY <3>1, <3>4 DEF ClientSides
  <2> QED BY <2>1, <2>2 DEF IntOn
<1>6. /\ IntOn(PaidOut(j), WithdrawalIds) /\ IntOn(PaidOut(k), WithdrawalIds)
      /\ IntOn(ClientSides(j), OutsideEntries) /\ IntOn(ClientSides(k), OutsideEntries) BY <1>1, <1>5
<1>7. /\ SumOver(WithdrawalIds, PaidOut(j)) \in Int /\ SumOver(WithdrawalIds, PaidOut(k)) \in Int
      /\ SumOver(OutsideEntries, ClientSides(j)) \in Int
      /\ SumOver(OutsideEntries, ClientSides(k)) \in Int BY <1>6, FiniteSums, SumIsInt DEF SumOver
<1> DEFINE pj == SumOver(WithdrawalIds, PaidOut(j))
           pk == SumOver(WithdrawalIds, PaidOut(k))
           sj == SumOver(OutsideEntries, ClientSides(j))
           sk == SumOver(OutsideEntries, ClientSides(k))
<1>8. e \notin WithdrawalIds => pk = pj BY <1>1, <1>2, FiniteSums, SumSame DEF PaidOut, SumOver
<1>9. e \notin OutsideEntries => sk = sj BY <1>1, <1>2, FiniteSums, SumSame DEF ClientSides, SumOver
<1>10. ASSUME e \in WithdrawalIds  PROVE pk = pj + AmountOf(e)
  <2>1. \A w \in WithdrawalIds \ {e} : PaidOut(k)[w] = PaidOut(j)[w] BY <1>1, <1>2 DEF PaidOut
  <2>2. pk = pj - PaidOut(j)[e] + PaidOut(k)[e]
    <3>1. PICK f : f = PaidOut(j) OBVIOUS
    <3>2. PICK g : g = PaidOut(k) OBVIOUS
    <3>3. IntOn(f, WithdrawalIds) /\ IntOn(g, WithdrawalIds) /\ IsFiniteSet(WithdrawalIds)
      BY <1>6, <3>1, <3>2, FiniteSums
    <3>4. \A y \in WithdrawalIds \ {e} : g[y] = f[y] BY <2>1, <3>1, <3>2
    <3>5. SumFunctionOnSet(g, WithdrawalIds) = SumFunctionOnSet(f, WithdrawalIds) - f[e] + g[e]
      BY <1>10, <3>3, <3>4, SumChanged
    <3> QED BY <3>1, <3>2, <3>5 DEF SumOver
  <2>3. PICK n \in Int : n = AmountOf(e) BY <1>3, <1>10
  <2>4. PaidOut(j)[e] = j[e] * n /\ PaidOut(k)[e] = (j[e] + 1) * n BY <1>1, <1>10, <2>3 DEF PaidOut
  <2>5. (j[e] + 1) * n = j[e] * n + n /\ j[e] * n \in Int
    <3>1. PICK i \in Nat : i = j[e] BY <1>1
    <3>2. (i + 1) * n = i * n + n /\ i * n \in Int OBVIOUS
    <3> QED BY <3>1, <3>2
  <2> HIDE DEF pj, pk
  <2>6. pj \in Int /\ pk \in Int BY <1>7 DEF pj, pk
  <2> QED BY <2>2, <2>3, <2>4, <2>5, <2>6
<1>11. ASSUME e \in OutsideEntries  PROVE sk = sj + SumOver(Clients, OutsideLines[e])
  <2>1. \A x \in OutsideEntries \ {e} : ClientSides(k)[x] = ClientSides(j)[x] BY <1>1, <1>2 DEF ClientSides
  <2>2. sk = sj - ClientSides(j)[e] + ClientSides(k)[e]
    <3>1. PICK f : f = ClientSides(j) OBVIOUS
    <3>2. PICK g : g = ClientSides(k) OBVIOUS
    <3>3. IntOn(f, OutsideEntries) /\ IntOn(g, OutsideEntries) /\ IsFiniteSet(OutsideEntries)
      BY <1>6, <3>1, <3>2, FiniteSums
    <3>4. \A y \in OutsideEntries \ {e} : g[y] = f[y] BY <2>1, <3>1, <3>2
    <3>5. SumFunctionOnSet(g, OutsideEntries) = SumFunctionOnSet(f, OutsideEntries) - f[e] + g[e]
      BY <1>11, <3>3, <3>4, SumChanged
    <3> QED BY <3>1, <3>2, <3>5 DEF SumOver
  <2>3. PICK n \in Int : n = SumOver(Clients, OutsideLines[e]) BY <1>4, <1>11
  <2>4. ClientSides(j)[e] = j[e] * n /\ ClientSides(k)[e] = (j[e] + 1) * n
    BY <1>1, <1>11, <2>3 DEF ClientSides
  <2>5. (j[e] + 1) * n = j[e] * n + n /\ j[e] * n \in Int
    <3>1. PICK i \in Nat : i = j[e] BY <1>1
    <3>2. (i + 1) * n = i * n + n /\ i * n \in Int OBVIOUS
    <3> QED BY <3>1, <3>2
  <2> HIDE DEF sj, sk
  <2>6. sj \in Int /\ sk \in Int BY <1>7 DEF sj, sk
  <2> QED BY <2>2, <2>3, <2>4, <2>5, <2>6
<1>12. pj \in Int /\ pk \in Int /\ sj \in Int /\ sk \in Int BY <1>7
<1>13. pk - sk = pj - sj + Unguarded(e)
  <2> HIDE DEF pj, pk, sj, sk
  <2>1. CASE e \in WithdrawalIds
    <3>1. PICK n \in Int : n = AmountOf(e) BY <1>3, <2>1
    <3> QED BY <1>2, <1>9, <1>10, <1>12, <2>1, <3>1 DEF Unguarded
  <2>2. CASE e \in OutsideEntries
    <3>1. PICK n \in Int : n = SumOver(Clients, OutsideLines[e]) BY <1>4, <2>2
    <3>2. Unguarded(e) = -n BY <1>2, <2>2, <3>1 DEF Unguarded
    <3>3. sk = sj + n /\ pk = pj BY <1>2, <1>8, <1>11, <2>2, <3>1
    <3> QED BY <1>12, <3>2, <3>3
  <2>3. CASE e \notin WithdrawalIds /\ e \notin OutsideEntries BY <1>8, <1>9, <1>12, <2>3 DEF Unguarded
  <2> QED BY <2>1, <2>2, <2>3
<1> QED BY <1>7, <1>13

\* A proper entry leaves the pool a mirror.
LEMMA PostMirrored ==
  ASSUME NEW b \in [Accounts -> Int], NEW j \in [Entries -> Nat], Mirrored(b, j),
         NEW e \in Entries, NEW lines, ProperLines(e, lines),
         NEW c, c \in [Accounts -> Int], \A a \in Accounts : c[a] = b[a] + lines[a],
         NEW k, k = [j EXCEPT ![e] = @ + 1]
  PROVE  Mirrored(c, k)
<1>1. lines \in [Accounts -> Int] /\ lines[CustodyPool] = SumOver(Clients, lines) + Unguarded(e)
  BY DEF ProperLines
<1>2. c \in [Accounts -> Int] /\ \A a \in Accounts : c[a] = b[a] + lines[a] BY <1>1
<1>3. /\ SumOver(Clients, c) = SumOver(Clients, b) + SumOver(Clients, lines)
      /\ SumOver(Clients, b) \in Int /\ SumOver(Clients, lines) \in Int
  BY <1>1, ClientLines, <1>2, AccountsApart, FiniteSums, SumAdded DEF SumOver
<1> DEFINE cc == SumOver(Clients, c)
           cb == SumOver(Clients, b)
           cl == SumOver(Clients, lines)
           pj == SumOver(WithdrawalIds, PaidOut(j))
           pk == SumOver(WithdrawalIds, PaidOut(k))
           sj == SumOver(OutsideEntries, ClientSides(j))
           sk == SumOver(OutsideEntries, ClientSides(k))
<1>4. pk - sk = pj - sj + Unguarded(e) /\ pj \in Int /\ pk \in Int /\ sj \in Int /\ sk \in Int BY JournalSums
<1>5. b[CustodyPool] \in Int /\ c[CustodyPool] = b[CustodyPool] + lines[CustodyPool] BY <1>2, AccountsApart
<1>6. b[CustodyPool] = cb + pj - sj BY DEF Mirrored
<1>7. PICK u \in Int : u = Unguarded(e) BY UnguardedIsInt
<1>8. c[CustodyPool] = cc + pk - sk
  <2> HIDE DEF cc, cb, cl, pj, pk, sj, sk
  <2>1. cc = cb + cl /\ cb \in Int /\ cl \in Int BY <1>3 DEF cc, cb, cl
  <2>2. lines[CustodyPool] = cl + u BY <1>1, <1>7 DEF cl
  <2> QED BY <1>4, <1>5, <1>6, <1>7, <2>1, <2>2
<1> QED BY <1>2, <1>8 DEF Mirrored

\* A movement of client money moves the client and the pool alike, and no wallet.
LEMMA ClientMoneyLines ==
  ASSUME NEW c \in Clients, NEW n \in Int, NEW lines, lines = ClientMoneyMovement(c, n)
  PROVE  /\ lines \in [Accounts -> Int]
         /\ lines[CustodyPool] = n /\ SumOver(Clients, lines) = n
         /\ lines[c] = n /\ \A a \in (Clients \union OtherAccounts) \ {c} : lines[a] = 0
<1>1. lines \in [Accounts -> Int] /\ lines[c] = n /\ lines[CustodyPool] = n
  BY AccountsApart DEF ClientMoneyMovement
<1>2. \A a \in (Clients \union OtherAccounts) \ {c} : lines[a] = 0 BY AccountsApart DEF ClientMoneyMovement
<1>3. SumOver(Clients, lines) = n BY <1>1, <1>2, ClientLines, FiniteSums, SumOfOne DEF SumOver
<1> QED BY <1>1, <1>2, <1>3

\* A payout moves the client alone.
LEMMA PayoutLines ==
  ASSUME NEW w \in WithdrawalIds, NEW lines, lines = Payout(w)
  PROVE  /\ lines \in [Accounts -> Int] /\ ProperLines(w, lines)
         /\ lines[AccountOf(w)] = -AmountOf(w)
         /\ \A a \in (Clients \union OtherAccounts) \ {AccountOf(w)} : lines[a] = 0
<1>1. AccountOf(w) \in Clients /\ AmountOf(w) \in Nat BY WithdrawalAssumption DEF AccountOf, AmountOf
<1>2. PICK c \in Clients, n \in Nat : c = AccountOf(w) /\ n = AmountOf(w) BY <1>1
<1>3. lines = [a \in Accounts |-> IF a = c THEN -n ELSE IF a = Firm THEN n ELSE 0] BY <1>2 DEF Payout, Moves
<1>4. /\ lines \in [Accounts -> Int] /\ lines[c] = -n /\ lines[CustodyPool] = 0
      /\ \A a \in (Clients \union OtherAccounts) \ {c} : lines[a] = 0 BY <1>3, AccountsApart
<1>5. SumOver(Clients, lines) = lines[c] BY <1>4, ClientLines, FiniteSums, SumOfOne DEF SumOver
<1>6. Unguarded(w) = n BY <1>2 DEF Unguarded
<1> QED BY <1>2, <1>4, <1>5, <1>6 DEF ProperLines

\* Deposits, debits and outside entries are proper.
LEMMA GuardedLines ==
  /\ \A d \in DepositIds : ProperLines(d, DepositLines(d))
  /\ \A m \in MandateIds : ProperLines(m, DebitLines(m))
  /\ \A x \in OutsideEntries : ProperLines(x, OutsideLines[x])
<1>1. ASSUME NEW d \in DepositIds  PROVE ProperLines(d, DepositLines(d))
  <2>1. PICK c \in Clients, n \in Int : c = DepositOf[d].account /\ n = DepositOf[d].amount
    BY DepositAssumption
  <2>2. PICK lines : lines = ClientMoneyMovement(c, n) OBVIOUS
  <2>3. Unguarded(d) = 0 BY EntriesAssumption DEF Unguarded
  <2>4. lines \in [Accounts -> Int] /\ lines[CustodyPool] = n /\ SumOver(Clients, lines) = n
    BY <2>2, ClientMoneyLines
  <2> QED BY <2>1, <2>2, <2>3, <2>4 DEF ProperLines, DepositLines
<1>2. ASSUME NEW m \in MandateIds  PROVE ProperLines(m, DebitLines(m))
  <2>1. PICK c \in Clients, n \in Int : c = MandateOf[m].account /\ n = -MandateOf[m].amount
    BY MandateAssumption
  <2>2. PICK lines : lines = ClientMoneyMovement(c, n) OBVIOUS
  <2>3. Unguarded(m) = 0 BY EntriesAssumption DEF Unguarded
  <2>4. lines \in [Accounts -> Int] /\ lines[CustodyPool] = n /\ SumOver(Clients, lines) = n
    BY <2>2, ClientMoneyLines
  <2> QED BY <2>1, <2>2, <2>3, <2>4 DEF ProperLines, DebitLines
<1>3. ASSUME NEW x \in OutsideEntries  PROVE ProperLines(x, OutsideLines[x])
  <2>1. OutsideLines[x] \in [Accounts -> Int] /\ OutsideLines[x][CustodyPool] = 0 BY OutsideAssumption
  <2>2. PICK n \in Int : n = SumOver(Clients, OutsideLines[x]) BY <2>1, ClientLines
  <2>3. Unguarded(x) = -n BY <2>2, EntriesAssumption DEF Unguarded
  <2> QED BY <2>1, <2>2, <2>3 DEF ProperLines
<1> QED BY <1>1, <1>2, <1>3

\* The wallets' entry stands for nothing outside the guard.
LEMMA WalletsAreGuarded == WalletEntry \in Entries /\ Unguarded(WalletEntry) = 0
BY EntriesAssumption DEF Unguarded

\* The account of a wallet: the owner's own or one in another currency.
LEMMA WalletAccounts ==
  ASSUME NEW o \in WalletOwners, NEW currency \in CurrenciesOf(o)
  PROVE  /\ ledgerAccountIdentifierFor(o, currency) \in Accounts \ {CustodyPool}
         /\ currency = Native => ledgerAccountIdentifierFor(o, currency) = o
         /\ currency # Native =>
               /\ <<o, currency>> \in DOMAIN ForeignWallet
               /\ ledgerAccountIdentifierFor(o, currency) = ForeignWallet[<<o, currency>>]
               /\ ledgerAccountIdentifierFor(o, currency) \in OtherAccounts \ {WalletCash, Clearing}
         /\ o \notin OtherAccounts /\ o # CustodyPool /\ o \in Accounts
<1>1. o \notin OtherAccounts /\ o # CustodyPool /\ o \in Accounts BY WalletAssumption
<1>2. CASE currency = Native BY <1>1, <1>2 DEF ledgerAccountIdentifierFor
<1>3. CASE currency # Native
  <2>1. PICK w \in DOMAIN ForeignWallet : w[1] = o /\ w[2] = currency BY <1>3 DEF CurrenciesOf
  <2>2. w = <<o, currency>> BY <2>1, WalletAssumption
  <2>3. ForeignWallet[w] \in OtherAccounts \ {WalletCash, Clearing} BY WalletAssumption
  <2>4. ForeignWallet[w] \in Accounts \ {CustodyPool} BY <2>3, AccountsApart
  <2> QED BY <1>1, <1>3, <2>2, <2>3, <2>4 DEF ledgerAccountIdentifierFor
<1> QED BY <1>2, <1>3

\* What a wallet's account is, the other way round.
LEMMA WalletsApart ==
  ASSUME NEW o \in WalletOwners, NEW currency \in CurrenciesOf(o), NEW w \in DOMAIN ForeignWallet
  PROVE  /\ ForeignWallet[w] \in OtherAccounts \ {WalletCash, Clearing}
         /\ ForeignWallet[w] = ledgerAccountIdentifierFor(o, currency) <=> w = <<o, currency>>
<1>1. ForeignWallet[w] \in OtherAccounts \ {WalletCash, Clearing} /\ w[2] # Native BY WalletAssumption
<1>2. CASE currency = Native
  <2>1. ledgerAccountIdentifierFor(o, currency) = o /\ o \notin OtherAccounts BY <1>2, WalletAccounts
  <2>2. w # <<o, currency>> BY <1>1, <1>2
  <2> QED BY <1>1, <2>1, <2>2
<1>3. CASE currency # Native BY <1>3, WalletAccounts, <1>1, WalletAssumption
<1> QED BY <1>2, <1>3

\* What the entry of a wallet moves: the wallet by an amount, clients and wallets no other way.
MovesWallet(lines, o, currency, n) ==
  /\ ProperLines(WalletEntry, lines)
  /\ \A c \in Clients : lines[c] = IF c = o /\ currency = Native THEN n ELSE 0
  /\ \A w \in DOMAIN ForeignWallet :
        lines[ForeignWallet[w]] = IF w = <<o, currency>> THEN n ELSE 0

\* A deposit or a withdrawal does so.
LEMMA MovementLines ==
  ASSUME NEW o \in WalletOwners, NEW currency \in CurrenciesOf(o), NEW n \in Int,
         NEW lines, lines = WalletMovement(o, currency, n)
  PROVE  MovesWallet(lines, o, currency, n)
<1>1. CASE currency = Native /\ o \in Clients
  <2>1. lines = ClientMoneyMovement(o, n) BY <1>1 DEF WalletMovement, isClientAccount
  <2>2. /\ lines \in [Accounts -> Int] /\ lines[CustodyPool] = n /\ SumOver(Clients, lines) = n
        /\ lines[o] = n /\ \A a \in (Clients \union OtherAccounts) \ {o} : lines[a] = 0
    BY <1>1, <2>1, ClientMoneyLines
  <2>3. ProperLines(WalletEntry, lines) BY <2>2, WalletsAreGuarded DEF ProperLines
  <2>4. \A c \in Clients : lines[c] = IF c = o /\ currency = Native THEN n ELSE 0 BY <1>1, <2>2
  <2>5. \A w \in DOMAIN ForeignWallet : lines[ForeignWallet[w]] = 0 /\ w # <<o, currency>>
    BY <1>1, <2>2, WalletAssumption
  <2> QED BY <2>3, <2>4, <2>5 DEF MovesWallet
<1>2. CASE ~(currency = Native /\ o \in Clients)
  <2>1. PICK a \in Accounts \ {CustodyPool} : a = ledgerAccountIdentifierFor(o, currency) BY WalletAccounts
  <2>2. lines = [x \in Accounts |-> IF x = WalletCash THEN -n ELSE IF x = a THEN n ELSE 0]
    BY <1>2, <2>1 DEF WalletMovement, isClientAccount, Moves
  <2>3. a \notin Clients BY <1>2, <2>1, WalletAccounts, AccountsApart
  <2>4. WalletCash \in OtherAccounts BY WalletAssumption
  <2>5. lines \in [Accounts -> Int] /\ lines[CustodyPool] = 0 /\ \A c \in Clients : lines[c] = 0
    BY <2>2, <2>3, <2>4, AccountsApart
  <2>6. SumOver(Clients, lines) = 0 BY <2>5, FiniteSums, SumOfZeros DEF SumOver
  <2>7. ProperLines(WalletEntry, lines) BY <2>5, <2>6, WalletsAreGuarded DEF ProperLines
  <2>8. \A c \in Clients : ~(c = o /\ currency = Native) BY <1>2
  <2>9. ASSUME NEW w \in DOMAIN ForeignWallet
        PROVE  lines[ForeignWallet[w]] = IF w = <<o, currency>> THEN n ELSE 0
    BY <2>1, WalletsApart, <2>2, AccountsApart
  <2> QED BY <2>5, <2>7, <2>8, <2>9 DEF MovesWallet
<1> QED BY <1>1, <1>2

\* A conversion moves one wallet of its owner down and another one up.
LEMMA ConversionMoves ==
  ASSUME NEW o \in WalletOwners, NEW from \in CurrenciesOf(o), NEW to \in CurrenciesOf(o),
         from # to, NEW n \in Int, NEW k \in Int,
         NEW lines, lines = MirroredConversionLines(o, from, to, n, k)
  PROVE  /\ ProperLines(WalletEntry, lines)
         /\ \A c \in Clients : lines[c] = IF c = o /\ from = Native THEN -n
                                          ELSE IF c = o /\ to = Native THEN k ELSE 0
         /\ \A w \in DOMAIN ForeignWallet :
               lines[ForeignWallet[w]] = IF w = <<o, from>> THEN -n
                                         ELSE IF w = <<o, to>> THEN k ELSE 0
<1>1. PICK a \in Accounts \ {CustodyPool} : a = ledgerAccountIdentifierFor(o, from) BY WalletAccounts
<1>2. PICK b \in Accounts \ {CustodyPool} : b = ledgerAccountIdentifierFor(o, to) BY WalletAccounts
<1>3. /\ from = Native => a = o
      /\ from # Native => a \in OtherAccounts \ {WalletCash, Clearing}
      /\ to = Native => b = o
      /\ to # Native => b \in OtherAccounts \ {WalletCash, Clearing}
      /\ o \notin OtherAccounts /\ o # CustodyPool /\ o \in Accounts BY <1>1, <1>2, WalletAccounts
<1>4. Clearing \in OtherAccounts /\ Clearing \in Accounts /\ Clearing # CustodyPool /\ Clearing \notin Clients
  BY WalletAssumption, AccountsApart
<1>5. PICK m \in Int : m = IF o \notin Clients THEN 0
                           ELSE IF from = Native THEN -n ELSE IF to = Native THEN k ELSE 0 OBVIOUS
<1>6. PICK base : base = [x \in Accounts |-> IF x = a THEN -n ELSE IF x = b THEN k ELSE 0] OBVIOUS
<1>7. lines = [[base EXCEPT ![Clearing] = n - k] EXCEPT ![CustodyPool] = @ + m, ![Clearing] = @ - m]
  BY <1>1, <1>2, <1>5, <1>6 DEF MirroredConversionLines, ConversionLines, isClientAccount
<1>8. /\ lines \in [Accounts -> Int]
      /\ lines[CustodyPool] = m
      /\ \A x \in Accounts \ {CustodyPool, Clearing} :
            lines[x] = IF x = a THEN -n ELSE IF x = b THEN k ELSE 0
  <2>1. base \in [Accounts -> Int] BY <1>6
  <2>2. base[CustodyPool] = 0 BY <1>6, AccountsApart
  <2>3. PICK other : other = [base EXCEPT ![Clearing] = n - k] OBVIOUS
  <2>4. /\ other \in [Accounts -> Int] /\ other[CustodyPool] = 0 /\ other[Clearing] = n - k
        /\ \A x \in Accounts \ {CustodyPool, Clearing} : other[x] = base[x]
    BY <1>4, <2>1, <2>2, <2>3, AccountsApart
  <2>5. lines = [other EXCEPT ![CustodyPool] = @ + m, ![Clearing] = @ - m] BY <1>7, <2>3
  <2>6. lines \in [Accounts -> Int] /\ lines[CustodyPool] = 0 + m BY <1>4, <2>4, <2>5, AccountsApart
  <2>7. \A x \in Accounts \ {CustodyPool, Clearing} : lines[x] = base[x] BY <2>4, <2>5
  <2> QED BY <1>6, <2>6, <2>7
<1>9. \A c \in Clients : lines[c] = IF c = o /\ from = Native THEN -n
                                    ELSE IF c = o /\ to = Native THEN k ELSE 0
  <2> SUFFICES ASSUME NEW c \in Clients
               PROVE  lines[c] = IF c = o /\ from = Native THEN -n
                                 ELSE IF c = o /\ to = Native THEN k ELSE 0 OBVIOUS
  <2>1. c \in Accounts \ {CustodyPool, Clearing} /\ c \notin OtherAccounts BY <1>4, AccountsApart
  <2>2. (c = a <=> c = o /\ from = Native) /\ (c = b <=> c = o /\ to = Native) BY <1>3, <2>1
  <2> QED BY <1>8, <2>1, <2>2
<1>10. SumOver(Clients, lines) = m
  <2>1. CASE o \in Clients BY <1>5, <1>9, <2>1, <1>8, ClientLines, FiniteSums, SumOfOne DEF SumOver
  <2>2. CASE o \notin Clients BY <1>5, <1>9, <2>2, FiniteSums, SumOfZeros DEF SumOver
  <2> QED BY <2>1, <2>2
<1>11. ProperLines(WalletEntry, lines) BY <1>8, <1>10, WalletsAreGuarded DEF ProperLines
<1>12. ASSUME NEW w \in DOMAIN ForeignWallet
       PROVE  lines[ForeignWallet[w]] = IF w = <<o, from>> THEN -n
                                        ELSE IF w = <<o, to>> THEN k ELSE 0
  BY <1>1, <1>2, WalletsApart, AccountsApart, <1>8
<1> QED BY <1>9, <1>11, <1>12

--------------------
(* The calls of the wallets *)

\* A call that was checked would take its amount out of one wallet, and out of no other.
CallFits(call) ==
  /\ call.amount \in Nat /\ ProperLines(WalletEntry, call.lines)
  /\ call.opens \in BOOLEAN /\ (call.opens => call.to \in CurrenciesOf(call.owner))
  /\ \A c \in Clients :
        call.lines[c] >= IF c = call.owner /\ call.currency = Native THEN -call.amount ELSE 0
  /\ \A w \in DOMAIN ForeignWallet :
        /\ call.lines[ForeignWallet[w]] >=
              IF w = <<call.owner, call.currency>> THEN -call.amount ELSE 0
        /\ call.lines[ForeignWallet[w]] > 0 => call.opens /\ w = <<call.owner, call.to>>

CallInv(call) ==
  call # NoWalletCall =>
      /\ call.at \in {"checked", "posted"}
      /\ call.owner \in WalletOwners /\ call.currency \in CurrenciesOf(call.owner)
      /\ call.at = "checked" => CallFits(call)

WalletCallsInv ==
  /\ DOMAIN walletCall = WalletRequests
  /\ \A r \in WalletRequests : CallInv(walletCall[r])
  /\ taken \in [WalletOwners -> Nat]
  /\ DOMAIN opened = WalletOwners

\* What a withdrawal has checked fits.
LEMMA WithdrawalFits ==
  ASSUME NEW o \in WalletOwners, NEW currency \in CurrenciesOf(o), NEW n \in WalletAmounts,
         NEW call, call = [at |-> "checked", owner |-> o, currency |-> currency, amount |-> n,
                           lines |-> WalletMovement(o, currency, -n), opens |-> FALSE]
  PROVE  CallInv(call) /\ call.at = "checked"
<1>1. n \in Nat /\ -n \in Int BY WalletAssumption
<1>2. PICK k \in Int : k = -n BY <1>1
<1>3. PICK lines : lines = WalletMovement(o, currency, k) OBVIOUS
<1>4. MovesWallet(lines, o, currency, k) BY <1>3, MovementLines
<1>5. /\ call.at = "checked" /\ call.owner = o /\ call.currency = currency /\ call.amount = n
      /\ call.lines = lines /\ call.opens = FALSE BY <1>2, <1>3
<1>6. /\ \A c \in Clients : lines[c] >= IF c = o /\ currency = Native THEN -n ELSE 0
      /\ \A w \in DOMAIN ForeignWallet :
            /\ lines[ForeignWallet[w]] >= IF w = <<o, currency>> THEN -n ELSE 0
            /\ ~(lines[ForeignWallet[w]] > 0) BY <1>1, <1>2, <1>4 DEF MovesWallet
<1>7. ProperLines(WalletEntry, lines) BY <1>4 DEF MovesWallet
<1>8. CallFits(call) BY <1>1, <1>5, <1>6, <1>7 DEF CallFits
<1> QED BY <1>5, <1>8 DEF CallInv

\* So does what a conversion has checked.
LEMMA ConversionFits ==
  ASSUME NEW o \in WalletOwners, NEW from \in CurrenciesOf(o), NEW to \in CurrenciesOf(o),
         from # to, NEW n \in WalletAmounts, NEW k \in Nat,
         NEW call, call = [at |-> "checked", owner |-> o, currency |-> from, amount |-> n,
                           to |-> to, lines |-> MirroredConversionLines(o, from, to, n, k),
                           opens |-> TRUE]
  PROVE  CallInv(call) /\ call.at = "checked"
<1>1. n \in Nat /\ n \in Int BY WalletAssumption
<1>2. PICK lines : lines = MirroredConversionLines(o, from, to, n, k) OBVIOUS
<1>3. /\ ProperLines(WalletEntry, lines)
      /\ \A c \in Clients : lines[c] = IF c = o /\ from = Native THEN -n
                                       ELSE IF c = o /\ to = Native THEN k ELSE 0
      /\ \A w \in DOMAIN ForeignWallet :
            lines[ForeignWallet[w]] = IF w = <<o, from>> THEN -n
                                      ELSE IF w = <<o, to>> THEN k ELSE 0 BY <1>1, <1>2, ConversionMoves
<1>4. /\ call.at = "checked" /\ call.owner = o /\ call.currency = from /\ call.amount = n
      /\ call.lines = lines /\ call.opens = TRUE /\ call.to = to BY <1>2
<1>5. \A c \in Clients : lines[c] >= IF c = o /\ from = Native THEN -n ELSE 0 BY <1>1, <1>3
<1>6. \A w \in DOMAIN ForeignWallet :
         /\ lines[ForeignWallet[w]] >= IF w = <<o, from>> THEN -n ELSE 0
         /\ lines[ForeignWallet[w]] > 0 => w = <<o, to>> BY <1>1, <1>3
<1>7. CallFits(call) BY <1>1, <1>3, <1>4, <1>5, <1>6 DEF CallFits
<1> QED BY <1>4, <1>7 DEF CallInv

\* A conversion rounds to a number.
LEMMA ConvertedIsNat ==
  ASSUME NEW n \in WalletAmounts, NEW p \in DOMAIN WalletRates
  PROVE  convertMinorUnitsRoundHalfUp(n, WalletRates[p]) \in Nat
<1>1. PICK r \in Nat : r = WalletRates[p] BY WalletAssumption
<1>2. PICK s \in Nat \ {0} : s = RateScale BY WalletAssumption
<1>3. n \in Nat BY WalletAssumption
<1>4. n * r \in Nat /\ s \div 2 \in Nat BY <1>3
<1>5. PICK t \in Nat : t = n * r + s \div 2 BY <1>4
<1>6. t \div s \in Nat OBVIOUS
<1> QED BY <1>1, <1>2, <1>5, <1>6 DEF convertMinorUnitsRoundHalfUp

\* What a step of the wallets does, seen from outside: it posts what moves one wallet up, or
\* what it had checked, or nothing.
LEMMA WalletStepKinds ==
  ASSUME WalletCallsInv, NEW r \in WalletRequests,
         \/ DepositIntoCurrencyWallet(r) \/ WithdrawFromCurrencyWallet(r)
         \/ ConvertBetweenCurrencyWallets(r) \/ PostWalletEntry(r) \/ markWalletOpened(r)
  PROVE  /\ WalletCallsInv'
         /\ \/ UNCHANGED <<book, backups, taken>>
            \/ \E lines : ProperLines(WalletEntry, lines) /\ Enters(WalletEntry, lines)
<1>1. /\ DOMAIN walletCall = WalletRequests /\ \A x \in WalletRequests : CallInv(walletCall[x])
      /\ taken \in [WalletOwners -> Nat] /\ DOMAIN opened = WalletOwners BY DEF WalletCallsInv
<1>2. CallInv(NoWalletCall) BY DEF CallInv
<1>3. ASSUME NEW o \in WalletOwners, NEW currency \in CurrenciesOf(o)
      PROVE  CallInv([at |-> "posted", owner |-> o, currency |-> currency])
  <2>1. PICK call : call = [at |-> "posted", owner |-> o, currency |-> currency] OBVIOUS
  <2>2. call.at = "posted" /\ call.owner = o /\ call.currency = currency BY <2>1
  <2>3. CallInv(call) BY <2>2 DEF CallInv
  <2> QED BY <2>1, <2>3
<1>4. ASSUME NEW call, CallInv(call), walletCall' = [walletCall EXCEPT ![r] = call],
             UNCHANGED opened, taken' \in [WalletOwners -> Nat]
      PROVE  WalletCallsInv'
  <2>1. DOMAIN walletCall' = WalletRequests BY <1>1, <1>4
  <2>2. ASSUME NEW x \in WalletRequests  PROVE CallInv(walletCall'[x])
    <3>1. CASE x = r BY <1>1, <1>4, <3>1
    <3>2. CASE x # r BY <1>1, <1>4, <3>2
    <3> QED BY <3>1, <3>2
  <2>3. \A x \in WalletRequests : CallInv(walletCall[x])' BY <2>2 DEF CallInv, CallFits
  <2> QED BY <1>1, <1>4, <2>1, <2>3 DEF WalletCallsInv
<1>5. CASE DepositIntoCurrencyWallet(r)
  <2>1. PICK o, n, currency :
          /\ o \in WalletOwners /\ n \in WalletAmounts
          /\ currency \in CurrenciesOf(o)
          /\ \/ /\ PostJournalEntry(WalletEntry, WalletMovement(o, currency, n))
                /\ walletCall' = [walletCall EXCEPT ![r] =
                                     [at |-> "posted", owner |-> o, currency |-> currency]]
             \/ /\ CommitLosesItsAnswer(WalletEntry, WalletMovement(o, currency, n))
                /\ UNCHANGED walletCall BY <1>5 DEF DepositIntoCurrencyWallet
  <2>2. UNCHANGED <<opened, taken>> BY <1>5 DEF DepositIntoCurrencyWallet
  <2>3. PICK lines : lines = WalletMovement(o, currency, n) OBVIOUS
  <2>4. ProperLines(WalletEntry, lines) BY <2>1, WalletAssumption, <2>3, MovementLines DEF MovesWallet
  <2>5. Enters(WalletEntry, lines) BY <2>1, <2>3 DEF PostJournalEntry, CommitLosesItsAnswer
  <2>6. WalletCallsInv'
    <3>1. CASE walletCall' = [walletCall EXCEPT ![r] =
                                  [at |-> "posted", owner |-> o, currency |-> currency]]
      BY <1>3, <2>1, <1>1, <1>4, <2>2, <3>1
    <3>2. CASE UNCHANGED walletCall BY <1>1, <2>2, <3>2 DEF WalletCallsInv, CallInv, CallFits
    <3> QED BY <2>1, <3>1, <3>2
  <2> QED BY <2>4, <2>5, <2>6
<1>6. CASE WithdrawFromCurrencyWallet(r)
  <2>1. PICK o, n, currency :
          /\ o \in WalletOwners /\ n \in WalletAmounts
          /\ currency \in CurrenciesOf(o)
          /\ walletCall' = [walletCall EXCEPT ![r] =
                [at |-> "checked", owner |-> o, currency |-> currency, amount |-> n,
                 lines |-> WalletMovement(o, currency, -n), opens |-> FALSE]]
    BY <1>6 DEF WithdrawFromCurrencyWallet, CheckForWithdrawal
  <2>2. UNCHANGED <<book, backups, opened, taken>> BY <1>6 DEF WithdrawFromCurrencyWallet, CheckForWithdrawal
  <2>3. PICK call : call = [at |-> "checked", owner |-> o, currency |-> currency, amount |-> n,
                            lines |-> WalletMovement(o, currency, -n), opens |-> FALSE] OBVIOUS
  <2>4. CallInv(call) BY <2>1, <2>3, WithdrawalFits
  <2>5. walletCall' = [walletCall EXCEPT ![r] = call] BY <2>1, <2>3
  <2> QED BY <1>1, <1>4, <2>2, <2>4, <2>5
<1>7. CASE ConvertBetweenCurrencyWallets(r)
  <2>1. PICK o, n, from, to :
          /\ o \in WalletOwners /\ n \in WalletAmounts
          /\ from \in CurrenciesOf(o) /\ to \in CurrenciesOf(o)
          /\ <<from, to>> \in DOMAIN WalletRates /\ from # to
          /\ walletCall' = [walletCall EXCEPT ![r] =
                [at |-> "checked", owner |-> o, currency |-> from, amount |-> n, to |-> to,
                 lines |-> MirroredConversionLines(o, from, to, n,
                               convertMinorUnitsRoundHalfUp(n, WalletRates[<<from, to>>])),
                 opens |-> TRUE]]
    <3>1. PICK o \in WalletOwners, amount \in WalletAmounts : \E from, to \in CurrenciesOf(o) :
          LET converted == convertMinorUnitsRoundHalfUp(amount, WalletRates[<<from, to>>]) IN
          /\ from # to
          /\ <<from, to>> \in DOMAIN WalletRates
          /\ balance[ledgerAccountIdentifierFor(o, from)] >= amount
          /\ converted > 0
          /\ walletCall' = [walletCall EXCEPT ![r] =
                [at |-> "checked", owner |-> o, currency |-> from, amount |-> amount, to |-> to,
                 lines |-> MirroredConversionLines(o, from, to, amount, converted), opens |-> TRUE]]
      BY <1>7 DEF ConvertBetweenCurrencyWallets
    <3>2. PICK from \in CurrenciesOf(o), to \in CurrenciesOf(o) :
          LET converted == convertMinorUnitsRoundHalfUp(amount, WalletRates[<<from, to>>]) IN
          /\ from # to
          /\ <<from, to>> \in DOMAIN WalletRates
          /\ balance[ledgerAccountIdentifierFor(o, from)] >= amount
          /\ converted > 0
          /\ walletCall' = [walletCall EXCEPT ![r] =
                [at |-> "checked", owner |-> o, currency |-> from, amount |-> amount, to |-> to,
                 lines |-> MirroredConversionLines(o, from, to, amount, converted), opens |-> TRUE]] BY <3>1
    <3>3. /\ from # to /\ <<from, to>> \in DOMAIN WalletRates
          /\ walletCall' = [walletCall EXCEPT ![r] =
                [at |-> "checked", owner |-> o, currency |-> from, amount |-> amount, to |-> to,
                 lines |-> MirroredConversionLines(o, from, to, amount,
                               convertMinorUnitsRoundHalfUp(amount, WalletRates[<<from, to>>])),
                 opens |-> TRUE]] BY <3>2
    <3> QED BY <3>3
  <2>2. UNCHANGED <<book, backups, opened, taken>> BY <1>7 DEF ConvertBetweenCurrencyWallets
  <2>3. PICK k \in Nat : k = convertMinorUnitsRoundHalfUp(n, WalletRates[<<from, to>>])
    BY <2>1, ConvertedIsNat
  <2>4. PICK call : call = [at |-> "checked", owner |-> o, currency |-> from, amount |-> n, to |-> to,
                            lines |-> MirroredConversionLines(o, from, to, n, k), opens |-> TRUE] OBVIOUS
  <2>5. CallInv(call) BY <2>1, <2>4, ConversionFits
  <2>6. walletCall' = [walletCall EXCEPT ![r] = call] BY <2>1, <2>3, <2>4
  <2> QED BY <1>1, <1>4, <2>2, <2>5, <2>6
<1>8. CASE PostWalletEntry(r)
  <2>1. PICK call : call = walletCall[r] OBVIOUS
  <2>2. call # NoWalletCall /\ call.at = "checked" /\ CallInv(call) BY <1>1, <1>8, <2>1 DEF PostWalletEntry
  <2>3. CallFits(call) /\ call.owner \in WalletOwners BY <2>2 DEF CallInv
  <2>4. ProperLines(WalletEntry, call.lines) BY <2>3 DEF CallFits
  <2>5. Enters(WalletEntry, call.lines)
    BY <1>8, <2>1 DEF PostWalletEntry, PostJournalEntry, CommitLosesItsAnswer
  <2>6. PICK new : walletCall' = [walletCall EXCEPT ![r] = new] /\ CallInv(new)
    <3>1. CASE walletCall' = [walletCall EXCEPT ![r] = NoWalletCall] BY <1>2, <3>1
    <3>2. CASE walletCall' = [walletCall EXCEPT ![r] =
                IF call.opens THEN [at |-> "posted", owner |-> call.owner, currency |-> call.to]
                ELSE NoWalletCall]
      <4>1. CASE call.opens BY <2>3, <4>1, <1>3, <3>2 DEF CallFits
      <4>2. CASE ~call.opens BY <1>2, <3>2, <4>2
      <4> QED BY <4>1, <4>2
    <3> QED BY <1>8, <2>1, <3>1, <3>2 DEF PostWalletEntry
  <2>7. taken' \in [WalletOwners -> Nat] /\ UNCHANGED opened
    <3>1. PICK n \in Nat : n = call.amount BY <2>3 DEF CallFits
    <3>2. taken' = taken \/ taken' = [taken EXCEPT ![call.owner] = @ + n]
      BY <1>8, <2>1, <3>1 DEF PostWalletEntry
    <3>3. UNCHANGED opened BY <1>8 DEF PostWalletEntry
    <3> QED BY <1>1, <2>3, <3>2, <3>3
  <2>8. WalletCallsInv' BY <1>4, <2>6, <2>7
  <2> QED BY <2>4, <2>5, <2>8
<1>9. CASE markWalletOpened(r)
  <2>1. UNCHANGED <<book, backups, taken>> /\ walletCall' = [walletCall EXCEPT ![r] = NoWalletCall]
    BY <1>9 DEF markWalletOpened
  <2>2. DOMAIN opened' = WalletOwners BY <1>1, <1>9 DEF markWalletOpened
  <2>3. DOMAIN walletCall' = WalletRequests /\ taken' = taken BY <1>1, <2>1
  <2>4. ASSUME NEW x \in WalletRequests  PROVE CallInv(walletCall[x])'
    <3>1. CASE x = r BY <1>1, <2>1, <3>1 DEF CallInv
    <3>2. CASE x # r BY <1>1, <2>1, <3>2 DEF CallInv, CallFits
    <3> QED BY <3>1, <3>2
  <2> QED BY <1>1, <2>1, <2>2, <2>3, <2>4 DEF WalletCallsInv
<1> QED BY <1>5, <1>6, <1>7, <1>8, <1>9

\* The wallets' calls keep to themselves over all other steps.
LEMMA WalletCallsKept == ASSUME WalletCallsInv, Next PROVE WalletCallsInv'
<1>1. CASE UNCHANGED wallets BY <1>1 DEF wallets, WalletCallsInv, CallInv, CallFits
<1>2. CASE WalletStep BY <1>2, WalletStepKinds DEF WalletStep
<1> QED BY <1>1, <1>2 DEF Next, Funding, Common, Wallets

--------------------
(* The custody pool *)

\* The book mirrors, and so does the one an operator may put in its place.
BooksMirror ==
  /\ balance \in [Accounts -> Int] /\ Mirrored(balance, journal)
  /\ snapshot = NoSnapshot \/
        /\ snapshot.balance \in [Accounts -> Int]
        /\ snapshot.journal \in [Entries -> Nat]
        /\ Mirrored(snapshot.balance, snapshot.journal)

\* A step leaves the book alone, posts a proper entry, saves the book or puts it back.
BookStep ==
  \/ UNCHANGED <<balance, journal, snapshot>>
  \/ \E e \in Entries : \E lines : ProperLines(e, lines) /\ Enters(e, lines)
  \/ CaptureSnapshot
  \/ RestoreFromSnapshot

\* What is posted, or reported failed, for an entry with proper lines.
LEMMA PostsAreBookSteps ==
  ASSUME NEW e \in Entries, NEW lines, ProperLines(e, lines),
         PostJournalEntry(e, lines) \/ PostIsReportedFailed(e, lines)
  PROVE  BookStep
<1>1. CASE Enters(e, lines) BY <1>1 DEF BookStep
<1>2. CASE UNCHANGED <<book, backups>> BY <1>2 DEF BookStep, book, backups
<1> QED BY <1>1, <1>2 DEF PostJournalEntry, PostIsReportedFailed, CommitLosesItsAnswer

\* All steps are of these kinds.
LEMMA NextIsBookStep == ASSUME DepositTypeOK, WalletCallsInv, Next PROVE BookStep
<1>1. CASE UNCHANGED <<book, backups>> BY <1>1 DEF BookStep, book, backups
<1>2. CASE DepositStep
  <2>1. ASSUME NEW h \in Confirmations, PostDeposit(h) \/ DepositFails(h)  PROVE BookStep
    <3>1. PICK d \in DepositIds : d = confirming[h] BY <2>1 DEF PostDeposit, DepositFails, DepositTypeOK
    <3>2. d \in Entries /\ ProperLines(d, DepositLines(d)) BY <3>1, DepositAssumption, GuardedLines
    <3>3. PostJournalEntry(d, DepositLines(d)) \/ PostIsReportedFailed(d, DepositLines(d))
      BY <2>1, <3>1 DEF PostDeposit, DepositFails
    <3> QED BY <3>2, <3>3, PostsAreBookSteps
  <2> QED BY <1>1, <1>2, <2>1 DEF DepositStep, InitiateDeposit, ClaimDeposit
<1>3. CASE MandateStep(today)
  <2>1. ASSUME NEW s \in MandateSweeps, NEW m \in MandateIds, PostDebit(s, m) \/ DebitFails(s, m)
        PROVE  BookStep BY MandateAssumption, GuardedLines, <2>1, PostsAreBookSteps DEF PostDebit, DebitFails
  <2> QED BY <1>1, <1>3, <2>1 DEF MandateStep, RegisterMandate, PauseMandate, ResumeMandate,
              CancelMandate, SetStatus, CollectDueMandates, RecordDebit
<1>4. CASE WithdrawalStep
  <2>1. ASSUME NEW s \in WithdrawalSweeps, NEW w \in WithdrawalIds,
               PostPayout(s, w) \/ PayoutFails(s, w)
        PROVE  BookStep
    BY WithdrawalAssumption, PayoutLines, <2>1, PostsAreBookSteps DEF PostPayout, PayoutFails
  <2> QED BY <1>1, <1>4, <2>1 DEF WithdrawalStep, RequestWithdrawal, PlaceHold, CancelWithdrawal,
              CollectDueWithdrawals, MarkCompleted
<1>5. ASSUME NEW x \in OutsideEntries, PostOutsideEntry(x)  PROVE BookStep
  BY OutsideAssumption, GuardedLines, <1>5, PostsAreBookSteps DEF PostOutsideEntry
<1>6. CASE WalletStep
  <2>1. PICK r \in WalletRequests :
          \/ DepositIntoCurrencyWallet(r) \/ WithdrawFromCurrencyWallet(r)
          \/ ConvertBetweenCurrencyWallets(r) \/ PostWalletEntry(r) \/ markWalletOpened(r)
    BY <1>6 DEF WalletStep
  <2>2. \/ UNCHANGED <<book, backups>>
        \/ \E lines : ProperLines(WalletEntry, lines) /\ Enters(WalletEntry, lines) BY <2>1, WalletStepKinds
  <2>3. WalletEntry \in Entries BY WalletsAreGuarded
  <2> QED BY <1>1, <2>2, <2>3 DEF BookStep
<1>7. CASE Operator BY <1>7 DEF Operator, BookStep
<1>8. CASE NextDay BY <1>1, <1>8 DEF NextDay
<1>9. CASE Funding BY <1>2, <1>3, <1>7, <1>9 DEF Funding
<1>10. CASE Common BY <1>4, <1>5, <1>8, <1>10 DEF Common
<1>11. CASE Wallets BY <1>6, <1>11 DEF Wallets
<1> QED BY <1>9, <1>10, <1>11 DEF Next

\* And all of them leave mirrors.
LEMMA MirrorStep == ASSUME BookIsTyped, BooksMirror, BookStep PROVE BooksMirror'
<1>1. journal \in [Entries -> Nat] /\ balance \in [Accounts -> Int] /\ Mirrored(balance, journal)
  BY DEF BookIsTyped, BooksMirror
<1>2. CASE UNCHANGED <<balance, journal, snapshot>> BY <1>2 DEF BooksMirror, Mirrored, PaidOut, ClientSides
<1>3. ASSUME NEW e \in Entries, NEW lines, ProperLines(e, lines), Enters(e, lines) PROVE BooksMirror'
  <2>1. /\ balance' = [a \in Accounts |-> balance[a] + lines[a]]
        /\ journal' = [journal EXCEPT ![e] = @ + 1] /\ snapshot' = snapshot BY <1>3 DEF Enters, backups
  <2>2. balance' \in [Accounts -> Int] /\ Mirrored(balance', journal')
    <3>1. PICK b \in [Accounts -> Int] : b = balance BY <1>1
    <3>2. PICK j \in [Entries -> Nat] : j = journal BY <1>1
    <3>3. PICK c : c = balance' OBVIOUS
    <3>4. PICK k : k = journal' OBVIOUS
    <3>5. /\ c \in [Accounts -> Int] /\ \A a \in Accounts : c[a] = b[a] + lines[a]
          /\ k = [j EXCEPT ![e] = @ + 1] BY <1>3, <2>1, <3>1, <3>2, <3>3, <3>4 DEF ProperLines
    <3>6. Mirrored(b, j) /\ ProperLines(e, lines) BY <1>1, <1>3, <3>1, <3>2
    <3>7. c \in [Accounts -> Int] /\ Mirrored(c, k) BY <3>5, <3>6, PostMirrored
    <3> QED BY <3>3, <3>4, <3>7
  <2> QED BY <2>1, <2>2 DEF BooksMirror, Mirrored, PaidOut, ClientSides
<1>4. CASE CaptureSnapshot
  BY <1>4, <1>1 DEF CaptureSnapshot, book, BooksMirror, Mirrored, PaidOut, ClientSides
<1>5. CASE RestoreFromSnapshot BY <1>5 DEF RestoreFromSnapshot, BooksMirror, Mirrored, PaidOut, ClientSides
<1> QED BY <1>2, <1>3, <1>4, <1>5 DEF BookStep

\* The empty book mirrors.
LEMMA MirrorInitially == ASSUME Init  PROVE WalletCallsInv /\ BooksMirror
<1>1. /\ balance = [a \in Accounts |-> 0] /\ journal = [e \in Entries |-> 0] /\ snapshot = NoSnapshot
      /\ walletCall = [r \in WalletRequests |-> NoWalletCall]
      /\ taken = [o \in WalletOwners |-> 0] /\ opened = [o \in WalletOwners |-> {}]
  BY DEF Init, LedgerInit, WalletInit
<1>2. WalletCallsInv BY <1>1 DEF WalletCallsInv, CallInv
<1>3. SumOver(Clients, balance) = 0 BY <1>1, AccountsApart, FiniteSums, SumOfZeros DEF SumOver
<1>4. SumOver(WithdrawalIds, PaidOut(journal)) = 0
  <2>1. \A w \in WithdrawalIds : PaidOut(journal)[w] = 0
    <3> SUFFICES ASSUME NEW w \in WithdrawalIds  PROVE PaidOut(journal)[w] = 0 OBVIOUS
    <3>1. PICK n \in Nat : n = AmountOf(w) BY WithdrawalAssumption DEF AmountOf
    <3>2. journal[w] = 0 BY <1>1, WithdrawalAssumption
    <3> QED BY <3>1, <3>2 DEF PaidOut
  <2> QED BY <2>1, FiniteSums, SumOfZeros DEF SumOver
<1>5. SumOver(OutsideEntries, ClientSides(journal)) = 0
  <2>1. \A x \in OutsideEntries : ClientSides(journal)[x] = 0
    <3> SUFFICES ASSUME NEW x \in OutsideEntries  PROVE ClientSides(journal)[x] = 0 OBVIOUS
    <3>1. PICK n \in Int : n = SumOver(Clients, OutsideLines[x]) BY OutsideAssumption, ClientLines
    <3>2. journal[x] = 0 BY <1>1, OutsideAssumption
    <3> QED BY <3>1, <3>2 DEF ClientSides
  <2> QED BY <2>1, FiniteSums, SumOfZeros DEF SumOver
<1>6. balance[CustodyPool] = 0 /\ balance \in [Accounts -> Int] BY <1>1, AccountsApart
<1>7. Mirrored(balance, journal) BY <1>3, <1>4, <1>5, <1>6 DEF Mirrored
<1> QED BY <1>1, <1>2, <1>6, <1>7 DEF BooksMirror

\* Whatever deposits, debits, payouts, wallet calls, outside entries, lost answers and restores
\* interleave, the custody pool is what the clients own, but for what left or reached their
\* accounts by entries the guard never saw.
THEOREM CustodyPoolMirrors == Spec => []CustodyPoolMirrorsClientMoney
<1> DEFINE Inv == BookIsTyped /\ DepositInv /\ WalletCallsInv /\ BooksMirror
<1>1. Init => Inv BY LedgerInitially, MirrorInitially
<1>2. Inv /\ [Next]_vars => Inv'
  <2> SUFFICES ASSUME Inv, [Next]_vars  PROVE Inv' OBVIOUS
  <2>1. BookIsTyped' /\ DepositInv' BY DepositsStep
  <2>2. CASE Next BY <2>2, NextIsBookStep, <2>1, WalletCallsKept, MirrorStep DEF DepositInv
  <2>3. CASE UNCHANGED vars
    BY <2>3, <2>1, MirrorStep DEF vars, book, backups, BookStep, wallets, WalletCallsInv, CallInv,
       CallFits
  <2> QED BY <2>2, <2>3
<1>3. Inv => CustodyPoolMirrorsClientMoney
  BY DEF BooksMirror, Mirrored, PaidOut, ClientSides, CustodyPoolMirrorsClientMoney
<1> QED BY <1>1, <1>2, <1>3, PTL DEF Spec

--------------------
(* Money on hold *)

\* What a client's debits that ask for no balance amount to in a journal.
MandateDebits(j, c) ==
  [m \in MandateIds |-> IF MandateOf[m].account = c THEN j[m] * MandateOf[m].amount ELSE 0]
OutsideLosses(j, c) ==
  [x \in OutsideEntries |-> IF OutsideLines[x][c] < 0 THEN -(j[x] * OutsideLines[x][c]) ELSE 0]
Drawn(j, c) == SumOver(MandateIds, MandateDebits(j, c)) + SumOver(OutsideEntries, OutsideLosses(j, c))

\* What one more of an entry adds to it.
Draws(e, c) ==
  IF e \in MandateIds THEN IF MandateOf[e].account = c THEN MandateOf[e].amount ELSE 0
  ELSE IF e \in OutsideEntries THEN IF OutsideLines[e][c] < 0 THEN -OutsideLines[e][c] ELSE 0
  ELSE 0

\* A client's payouts that were reported failed.
LostPayouts(l, c) == [w \in WithdrawalIds |-> IF AccountOf(w) = c THEN l[w] * AmountOf(w) ELSE 0]
Unnoticed(l, c) == SumOver(WithdrawalIds, LostPayouts(l, c))
PaysOut(e, c) == IF e \in WithdrawalIds THEN IF AccountOf(e) = c THEN AmountOf(e) ELSE 0 ELSE 0

\* What is on hold and not paid, and that it is there.
Unpaid(c) == {w \in Held(c) : journal[w] = lost[w]}
Owed(c) == SumOver(Unpaid(c), Amounts)
TakenFrom(c) == IF c \in WalletOwners THEN taken[c] ELSE 0
Covered(c) == balance[c] + (Drawn(journal, c) + TakenFrom(c)) + Unnoticed(lost, c) >= Owed(c)

\* Products with counts are counts.
LEMMA Products == \A i, n \in Nat : i * n \in Nat /\ (i + 1) * n = i * n + n OBVIOUS

\* The amounts of a client's mandates and losses, one by one.
LEMMA DrawnOne ==
  ASSUME NEW j \in [Entries -> Nat], NEW c \in Clients
  PROVE  NatOn(MandateDebits(j, c), MandateIds) /\ NatOn(OutsideLosses(j, c), OutsideEntries)
<1>1. ASSUME NEW m \in MandateIds  PROVE MandateDebits(j, c)[m] \in Nat
  <2>1. PICK i \in Nat : i = j[m] BY MandateAssumption
  <2>2. PICK n \in Nat : n = MandateOf[m].amount BY MandateAssumption
  <2>3. i * n \in Nat BY Products
  <2> QED BY <2>1, <2>2, <2>3 DEF MandateDebits
<1>2. ASSUME NEW x \in OutsideEntries  PROVE OutsideLosses(j, c)[x] \in Nat
  <2>1. PICK i \in Nat : i = j[x] BY OutsideAssumption
  <2>2. PICK n \in Int : n = OutsideLines[x][c] BY OutsideAssumption, AccountsApart
  <2>3. CASE n < 0
    <3>1. PICK k \in Nat : k = -n BY <2>3
    <3>2. i * k \in Nat /\ -(i * n) = i * k BY <3>1
    <3> QED BY <2>1, <2>2, <2>3, <3>2 DEF OutsideLosses
  <2>4. CASE ~(n < 0) BY <2>2, <2>4 DEF OutsideLosses
  <2> QED BY <2>3, <2>4
<1> QED BY <1>1, <1>2 DEF NatOn

\* One more of an entry adds what it draws.
LEMMA DrawnMore ==
  ASSUME NEW j \in [Entries -> Nat], NEW e \in Entries, NEW k, k = [j EXCEPT ![e] = @ + 1],
         NEW c \in Clients
  PROVE  /\ Drawn(k, c) = Drawn(j, c) + Draws(e, c)
         /\ Drawn(j, c) \in Nat /\ Drawn(k, c) \in Nat /\ Draws(e, c) \in Nat
<1>1. /\ k \in [Entries -> Nat] /\ k[e] = j[e] + 1 /\ \A x \in Entries \ {e} : k[x] = j[x]
      /\ j[e] \in Nat OBVIOUS
<1>2. MandateIds \subseteq Entries /\ OutsideEntries \subseteq Entries /\ MandateIds \cap OutsideEntries = {}
  BY MandateAssumption, OutsideAssumption, EntriesAssumption
<1>3. PICK f : f = MandateDebits(j, c) OBVIOUS
<1>4. PICK g : g = MandateDebits(k, c) OBVIOUS
<1>5. PICK p : p = OutsideLosses(j, c) OBVIOUS
<1>6. PICK q : q = OutsideLosses(k, c) OBVIOUS
<1>7. NatOn(f, MandateIds) /\ NatOn(g, MandateIds) /\ NatOn(p, OutsideEntries) /\ NatOn(q, OutsideEntries)
  BY <1>1, <1>3, <1>4, <1>5, <1>6, DrawnOne
<1>8. IntOn(f, MandateIds) /\ IntOn(g, MandateIds) /\ IntOn(p, OutsideEntries) /\ IntOn(q, OutsideEntries)
  BY <1>7 DEF IntOn, NatOn
<1>9. IsFiniteSet(MandateIds) /\ IsFiniteSet(OutsideEntries) BY FiniteSums
<1> DEFINE sf == SumFunctionOnSet(f, MandateIds)
           sg == SumFunctionOnSet(g, MandateIds)
           sp == SumFunctionOnSet(p, OutsideEntries)
           sq == SumFunctionOnSet(q, OutsideEntries)
<1>10. sf \in Nat /\ sg \in Nat /\ sp \in Nat /\ sq \in Nat BY <1>7, <1>9, SumAtLeastPart
<1>11. Drawn(j, c) = sf + sp /\ Drawn(k, c) = sg + sq BY <1>3, <1>4, <1>5, <1>6 DEF Drawn, SumOver
<1>12. e \notin MandateIds => sg = sf BY <1>1, <1>2, <1>3, <1>4, <1>9, SumSame DEF MandateDebits
<1>13. e \notin OutsideEntries => sq = sp BY <1>1, <1>2, <1>5, <1>6, <1>9, SumSame DEF OutsideLosses
<1>14. CASE e \in MandateIds
  <2>1. \A m \in MandateIds \ {e} : g[m] = f[m] BY <1>1, <1>2, <1>3, <1>4 DEF MandateDebits
  <2>2. sg = sf - f[e] + g[e] BY <1>8, <1>9, <1>14, <2>1, SumChanged
  <2>3. PICK n \in Nat : n = MandateOf[e].amount BY <1>14, MandateAssumption
  <2>4. PICK i \in Nat : i = j[e] BY <1>1
  <2>5. i * n \in Nat /\ (i + 1) * n = i * n + n BY Products
  <2>6. PICK d \in Nat : d = Draws(e, c) /\ g[e] = f[e] + d
    <3>1. CASE MandateOf[e].account = c
      BY <1>1, <1>3, <1>4, <1>14, <2>3, <2>4, <2>5, <3>1 DEF Draws, MandateDebits
    <3>2. CASE MandateOf[e].account # c BY <1>3, <1>4, <1>14, <3>2 DEF Draws, MandateDebits
    <3> QED BY <3>1, <3>2
  <2>7. f[e] \in Nat BY <1>7, <1>14 DEF NatOn
  <2>8. sq = sp BY <1>2, <1>13, <1>14
  <2> HIDE DEF sf, sg, sp, sq
  <2> QED BY <1>10, <1>11, <2>2, <2>6, <2>7, <2>8
<1>15. CASE e \in OutsideEntries
  <2>1. \A x \in OutsideEntries \ {e} : q[x] = p[x] BY <1>1, <1>2, <1>5, <1>6 DEF OutsideLosses
  <2>2. sq = sp - p[e] + q[e] BY <1>8, <1>9, <1>15, <2>1, SumChanged
  <2>3. PICK n \in Int : n = OutsideLines[e][c] BY <1>15, OutsideAssumption, AccountsApart
  <2>4. PICK i \in Nat : i = j[e] BY <1>1
  <2>5. e \notin MandateIds BY <1>2, <1>15
  <2>6. PICK d \in Nat : d = Draws(e, c) /\ q[e] = p[e] + d
    <3>1. CASE n < 0
      <4>1. PICK m \in Nat : m = -n BY <3>1
      <4>2. -(i * n) = i * m /\ -((i + 1) * n) = i * m + m /\ i * m \in Nat BY <4>1
      <4>3. Draws(e, c) = m BY <1>15, <2>3, <2>5, <3>1, <4>1 DEF Draws
      <4>4. p[e] = -(i * n) /\ q[e] = -((i + 1) * n)
        BY <1>1, <1>5, <1>6, <1>15, <2>3, <2>4, <3>1 DEF OutsideLosses
      <4> QED BY <4>2, <4>3, <4>4
    <3>2. CASE ~(n < 0) BY <1>5, <1>6, <1>15, <2>3, <2>5, <3>2 DEF Draws, OutsideLosses
    <3> QED BY <3>1, <3>2
  <2>7. p[e] \in Nat BY <1>7, <1>15 DEF NatOn
  <2>8. sg = sf BY <1>2, <1>12, <1>15
  <2> HIDE DEF sf, sg, sp, sq
  <2> QED BY <1>10, <1>11, <2>2, <2>6, <2>7, <2>8
<1>16. CASE e \notin MandateIds /\ e \notin OutsideEntries
  <2>1. Draws(e, c) = 0 BY <1>16 DEF Draws
  <2> HIDE DEF sf, sg, sp, sq
  <2> QED BY <1>10, <1>11, <1>12, <1>13, <1>16, <2>1
<1> QED BY <1>14, <1>15, <1>16

\* One more lost answer adds what it paid out.
LEMMA UnnoticedMore ==
  ASSUME NEW j \in [Entries -> Nat], NEW e \in Entries, NEW k, k = [j EXCEPT ![e] = @ + 1],
         NEW c \in Clients
  PROVE  /\ Unnoticed(k, c) = Unnoticed(j, c) + PaysOut(e, c)
         /\ Unnoticed(j, c) \in Nat /\ Unnoticed(k, c) \in Nat /\ PaysOut(e, c) \in Nat
<1>1. /\ k \in [Entries -> Nat] /\ k[e] = j[e] + 1 /\ \A x \in Entries \ {e} : k[x] = j[x]
      /\ j[e] \in Nat /\ WithdrawalIds \subseteq Entries BY WithdrawalAssumption
<1>2. \A i \in [Entries -> Nat] : NatOn(LostPayouts(i, c), WithdrawalIds)
  <2> SUFFICES ASSUME NEW i \in [Entries -> Nat], NEW w \in WithdrawalIds PROVE LostPayouts(i, c)[w] \in Nat
    BY DEF NatOn
  <2>1. PICK a \in Nat : a = i[w] BY <1>1
  <2>2. PICK n \in Nat : n = AmountOf(w) BY WithdrawalAssumption DEF AmountOf
  <2>3. a * n \in Nat BY Products
  <2> QED BY <2>1, <2>2, <2>3 DEF LostPayouts
<1>3. PICK f : f = LostPayouts(j, c) OBVIOUS
<1>4. PICK g : g = LostPayouts(k, c) OBVIOUS
<1>5. NatOn(f, WithdrawalIds) /\ NatOn(g, WithdrawalIds) BY <1>1, <1>2, <1>3, <1>4
<1>6. IntOn(f, WithdrawalIds) /\ IntOn(g, WithdrawalIds) /\ IsFiniteSet(WithdrawalIds)
  BY <1>5, FiniteSums DEF IntOn, NatOn
<1> DEFINE sf == SumFunctionOnSet(f, WithdrawalIds)
           sg == SumFunctionOnSet(g, WithdrawalIds)
<1>7. sf \in Nat /\ sg \in Nat BY <1>5, <1>6, SumAtLeastPart
<1>8. Unnoticed(j, c) = sf /\ Unnoticed(k, c) = sg BY <1>3, <1>4 DEF Unnoticed, SumOver
<1>9. CASE e \in WithdrawalIds
  <2>1. \A w \in WithdrawalIds \ {e} : g[w] = f[w] BY <1>1, <1>3, <1>4 DEF LostPayouts
  <2>2. sg = sf - f[e] + g[e] BY <1>6, <1>9, <2>1, SumChanged
  <2>3. PICK n \in Nat : n = AmountOf(e) BY <1>9, WithdrawalAssumption DEF AmountOf
  <2>4. PICK i \in Nat : i = j[e] BY <1>1
  <2>5. i * n \in Nat /\ (i + 1) * n = i * n + n BY Products
  <2>6. PICK d \in Nat : d = PaysOut(e, c) /\ g[e] = f[e] + d
    <3>1. CASE AccountOf(e) = c BY <1>1, <1>3, <1>4, <1>9, <2>3, <2>4, <2>5, <3>1 DEF PaysOut, LostPayouts
    <3>2. CASE AccountOf(e) # c BY <1>3, <1>4, <1>9, <3>2 DEF PaysOut, LostPayouts
    <3> QED BY <3>1, <3>2
  <2>7. f[e] \in Nat BY <1>5, <1>9 DEF NatOn
  <2> HIDE DEF sf, sg
  <2> QED BY <1>7, <1>8, <2>2, <2>6, <2>7
<1>10. CASE e \notin WithdrawalIds
  BY <1>1, <1>3, <1>4, <1>10, <1>6, SumSame, <1>7, <1>8 DEF LostPayouts, PaysOut
<1> QED BY <1>9, <1>10

\* What is owed is a number, and less is owed when less is on hold or unpaid.
LEMMA OwedIsNat ==
  ASSUME NEW U \in SUBSET WithdrawalIds, NEW V \in SUBSET U
  PROVE  /\ SumOver(U, Amounts) \in Nat /\ SumOver(V, Amounts) \in Nat
         /\ SumOver(V, Amounts) <= SumOver(U, Amounts)
<1>1. \A w \in WithdrawalIds : Amounts[w] \in Nat BY WithdrawalAssumption DEF Amounts, AmountOf
<1>2. NatOn(Amounts, U) /\ IsFiniteSet(U) BY <1>1, FiniteSums, FS_Subset DEF NatOn
<1> QED BY <1>2, SumAtLeastPart DEF SumOver

\* While no withdrawal changes its status, the same is owed if the same are paid.
LEMMA OwedSame ==
  ASSUME NEW c \in Clients, UNCHANGED withdrawal,
         \A w \in WithdrawalIds : journal'[w] = lost'[w] <=> journal[w] = lost[w]
  PROVE  Owed(c)' = Owed(c)
<1>1. Held(c)' = Held(c) BY DEF Held, Status
<1>2. Held(c) \subseteq WithdrawalIds BY DEF Held
<1>3. Unpaid(c)' = Unpaid(c) BY <1>1, <1>2 DEF Unpaid
<1> QED BY <1>3 DEF Owed

\* Numbers the cover is made of.
LEMMA CoverInts ==
  ASSUME BookIsTyped, WalletCallsInv, balance \in [Accounts -> Int], NEW c \in Clients
  PROVE  /\ balance[c] \in Int /\ TakenFrom(c) \in Nat /\ Owed(c) \in Nat
         /\ Drawn(journal, c) \in Nat /\ Unnoticed(lost, c) \in Nat
<1>1. balance[c] \in Int /\ TakenFrom(c) \in Nat BY AccountsApart DEF WalletCallsInv, TakenFrom
<1>2. Owed(c) \in Nat BY OwedIsNat DEF Unpaid, Held, Owed
<1>3. PICK j \in [Entries -> Nat], l \in [Entries -> Nat] : j = journal /\ l = lost BY DEF BookIsTyped
<1>4. WalletEntry \in Entries BY WalletsAreGuarded
<1>5. Drawn(j, c) \in Nat /\ Unnoticed(l, c) \in Nat BY <1>4, DrawnMore, UnnoticedMore
<1> QED BY <1>1, <1>2, <1>3, <1>5

\* Nothing is uncovered by what posts nothing and holds nothing more.
LEMMA CoverHeldLess ==
  ASSUME NEW c \in Clients, BookIsTyped, WalletCallsInv, balance \in [Accounts -> Int], Covered(c),
         UNCHANGED <<balance, journal, lost, taken>>, Held(c)' \subseteq Held(c)
  PROVE  Covered(c)'
<1>1. Unpaid(c)' \in SUBSET Unpaid(c) /\ Unpaid(c) \in SUBSET WithdrawalIds BY DEF Unpaid, Held
<1>2. PICK U \in SUBSET WithdrawalIds, V \in SUBSET WithdrawalIds :
          U = Unpaid(c) /\ V = Unpaid(c)' /\ V \in SUBSET U BY <1>1
<1>3. SumOver(U, Amounts) \in Nat /\ SumOver(V, Amounts) \in Nat /\ SumOver(V, Amounts) <= SumOver(U, Amounts)
  BY <1>2, OwedIsNat
<1>4. Owed(c) = SumOver(U, Amounts) /\ Owed(c)' = SumOver(V, Amounts) BY <1>2 DEF Owed
<1>5. PICK n : n = balance[c] + (Drawn(journal, c) + TakenFrom(c)) + Unnoticed(lost, c) OBVIOUS
<1>6. n \in Int BY <1>5, CoverInts
<1>7. balance'[c] + (Drawn(journal', c) + TakenFrom(c)') + Unnoticed(lost', c) = n BY <1>5 DEF TakenFrom
<1>8. n >= Owed(c) BY <1>5 DEF Covered
<1> QED BY <1>3, <1>4, <1>6, <1>7, <1>8 DEF Covered

\* An entry uncovers nothing when what it takes is drawn, taken, unnoticed or no longer owed.
LEMMA CoverPost ==
  ASSUME NEW c \in Clients, BookIsTyped, WalletCallsInv, balance \in [Accounts -> Int], Covered(c),
         NEW e \in Entries, NEW lines \in [Accounts -> Int], Enters(e, lines),
         NEW t \in Int, TakenFrom(c)' = TakenFrom(c) + t,
         NEW p \in Int, Unnoticed(lost', c) = Unnoticed(lost, c) + p,
         NEW o \in Int, Owed(c)' = Owed(c) - o,
         lines[c] + Draws(e, c) + t + p + o >= 0
  PROVE  Covered(c)'
<1>1. balance'[c] = balance[c] + lines[c] /\ lines[c] \in Int BY AccountsApart DEF Enters
<1>2. PICK j \in [Entries -> Nat] : j = journal BY DEF BookIsTyped
<1>3. PICK k : k = journal' /\ k = [j EXCEPT ![e] = @ + 1] BY <1>2 DEF Enters
<1>4. Drawn(k, c) = Drawn(j, c) + Draws(e, c) /\ Draws(e, c) \in Nat
  <2>1. k = [j EXCEPT ![e] = @ + 1] BY <1>3
  <2> QED BY ONLY DrawnMore, <2>1, j \in [Entries -> Nat], e \in Entries, c \in Clients
<1>5. /\ balance[c] \in Int /\ TakenFrom(c) \in Nat /\ Owed(c) \in Nat
      /\ Drawn(j, c) \in Nat /\ Unnoticed(lost, c) \in Nat BY <1>2, CoverInts
<1>6. balance[c] + (Drawn(j, c) + TakenFrom(c)) + Unnoticed(lost, c) >= Owed(c) BY <1>2 DEF Covered
<1>7. balance'[c] + (Drawn(k, c) + TakenFrom(c)') + Unnoticed(lost', c) >= Owed(c)' BY <1>1, <1>4, <1>5, <1>6
<1> QED BY <1>3, <1>7 DEF Covered

\* An entry that is no payout, and takes no more than is drawn or taken.
LEMMA CoverOther ==
  ASSUME NEW c \in Clients, BookIsTyped, WalletCallsInv, balance \in [Accounts -> Int], Covered(c),
         UNCHANGED withdrawal,
         NEW e \in Entries, e \notin WithdrawalIds,
         NEW lines \in [Accounts -> Int], PostJournalEntry(e, lines) \/ CommitLosesItsAnswer(e, lines),
         NEW t \in Int, TakenFrom(c)' = TakenFrom(c) + t,
         lines[c] + Draws(e, c) + t >= 0
  PROVE  Covered(c)'
<1>1. Enters(e, lines) /\ (lost' = lost \/ lost' = [lost EXCEPT ![e] = @ + 1])
  BY DEF PostJournalEntry, CommitLosesItsAnswer
<1>2. \A w \in WithdrawalIds : journal'[w] = journal[w] /\ lost'[w] = lost[w]
  BY <1>1, WithdrawalAssumption DEF Enters, BookIsTyped
<1>3. PICK i \in Int : i = 0 OBVIOUS
<1>4. Owed(c)' = Owed(c) - i BY <1>2, OwedSame, <1>3, CoverInts
<1>5. Unnoticed(lost', c) = Unnoticed(lost, c) + i
  <2>1. Unnoticed(lost, c) \in Nat BY CoverInts
  <2>2. CASE lost' = lost BY <1>3, <2>1, <2>2
  <2>3. CASE lost' = [lost EXCEPT ![e] = @ + 1]
    <3>1. PICK j \in [Entries -> Nat] : j = lost BY DEF BookIsTyped
    <3>2. PICK k : k = lost' OBVIOUS
    <3>3. k = [j EXCEPT ![e] = @ + 1] BY <2>3, <3>1, <3>2
    <3>4. Unnoticed(k, c) = Unnoticed(j, c) + PaysOut(e, c) BY <3>3, UnnoticedMore
    <3>5. PaysOut(e, c) = 0 BY DEF PaysOut
    <3> QED BY <1>3, <2>1, <3>1, <3>2, <3>4, <3>5
  <2> QED BY <1>1, <2>2, <2>3
<1>6. lines[c] + Draws(e, c) + t + i + i >= 0
  <2>1. lines[c] \in Int /\ Draws(e, c) \in Int
    <3>1. PICK j \in [Entries -> Nat] : j = journal BY DEF BookIsTyped
    <3>2. PICK k : k = [j EXCEPT ![e] = @ + 1] OBVIOUS
    <3>3. Draws(e, c) \in Nat BY <3>2, DrawnMore
    <3> QED BY <3>3, AccountsApart
  <2> QED BY <1>3, <2>1
<1> QED BY <1>1, <1>3, <1>4, <1>5, <1>6, CoverPost

\* A sweep knows which of what it collected was cancelled under it.
CancelledKnown ==
  \A s \in WithdrawalSweeps : \A w \in withdrawalSweep[s].due :
      Status(w) = "CANCELLED" => w \in cancelledLate

\* A payout of what is on hold pays what is owed.
LEMMA CoverPayout ==
  ASSUME OneWithdrawalSweep, BookIsTyped, WithdrawalInv, WalletCallsInv, CancelledKnown,
         balance \in [Accounts -> Int], restores = 0, cancelledLate = {},
         NEW c \in Clients, Covered(c), UNCHANGED taken,
         NEW s \in WithdrawalSweeps, NEW w \in WithdrawalIds, PostPayout(s, w)
  PROVE  Covered(c)'
<1>1. /\ w \in withdrawalSweep[s].due /\ withdrawalSweep[s].paid = Nothing
      /\ PostJournalEntry(w, Payout(w)) /\ UNCHANGED withdrawal BY DEF PostPayout
<1>2. Status(w) = "PENDING_HOLD" BY <1>1 DEF WithdrawalInv, SweepHoldsDue, CancelledKnown
<1>3. journal[w] = lost[w] /\ lost[w] \in Nat /\ w \in Entries
  BY <1>1, WithdrawalAssumption, <1>2 DEF OneWithdrawalSweep, PaidBySomeSweep, BookIsTyped,
     WithdrawalInv, PayoutsMatchStatuses, OneIf
<1>4. PICK lines : lines = Payout(w) OBVIOUS
<1>5. PICK n \in Nat : n = AmountOf(w) BY WithdrawalAssumption DEF AmountOf
<1>6. /\ lines \in [Accounts -> Int] /\ lines[AccountOf(w)] = -n
      /\ \A a \in Clients \ {AccountOf(w)} : lines[a] = 0 BY <1>4, <1>5, PayoutLines
<1>7. Enters(w, lines) /\ lost' = lost BY <1>1, <1>4 DEF PostJournalEntry
<1>8. journal'[w] = journal[w] + 1 /\ \A x \in WithdrawalIds \ {w} : journal'[x] = journal[x]
  BY <1>3, <1>7, WithdrawalAssumption DEF Enters, BookIsTyped
<1>9. PICK i \in Int, p \in Int, o \in Int : i = 0 /\ p = 0 /\ o = 0 OBVIOUS
<1>10. TakenFrom(c)' = TakenFrom(c) + i /\ Unnoticed(lost', c) = Unnoticed(lost, c) + p
  BY CoverInts, <1>7, <1>9 DEF TakenFrom
<1>11. Draws(w, c) = 0 BY EntriesAssumption DEF Draws
<1>12. Held(c)' = Held(c) /\ Held(c) \subseteq WithdrawalIds BY <1>1 DEF Held, Status
<1>13. PICK k \in Int : Owed(c)' = Owed(c) - k /\ lines[c] + Draws(w, c) + i + p + k >= 0
  <2>1. CASE AccountOf(w) = c
    <3>1. w \in Unpaid(c) BY <1>2, <1>3, <2>1 DEF Unpaid, Held
    <3>2. Unpaid(c)' = Unpaid(c) \ {w} BY <1>3, <1>7, <1>8, <1>12 DEF Unpaid
    <3>3. PICK U \in SUBSET WithdrawalIds : U = Unpaid(c) BY <1>12 DEF Unpaid
    <3>4. IntOn(Amounts, U) /\ IsFiniteSet(U) /\ Amounts[w] = n
      BY WithdrawalAssumption, <1>5, FiniteSums, FS_Subset DEF Amounts, AmountOf, IntOn
    <3>5. /\ SumFunctionOnSet(Amounts, U) = Amounts[w] + SumFunctionOnSet(Amounts, U \ {w})
          /\ SumFunctionOnSet(Amounts, U \ {w}) \in Int BY <3>1, <3>3, <3>4, SumWithout
    <3>6. Owed(c)' = Owed(c) - n BY <3>2, <3>3, <3>4, <3>5 DEF Owed, SumOver
    <3>7. lines[c] + Draws(w, c) + i + p + n >= 0 BY <1>6, <1>9, <1>11, <2>1
    <3> QED BY <3>6, <3>7
  <2>2. CASE AccountOf(w) # c
    <3>1. w \notin Held(c) BY <2>2 DEF Held
    <3>2. Unpaid(c)' = Unpaid(c) BY <1>7, <1>8, <1>12, <3>1 DEF Unpaid
    <3>3. Owed(c)' = Owed(c) - o BY <3>2, <1>9, CoverInts DEF Owed
    <3>4. lines[c] + Draws(w, c) + i + p + o >= 0 BY <1>6, <1>9, <1>11, <2>2
    <3> QED BY <3>3, <3>4
  <2> QED BY <2>1, <2>2
<1> QED BY <1>3, <1>6, <1>7, <1>10, <1>13, CoverPost

\* A payout whose answer is lost takes what counts as unnoticed.
LEMMA CoverLostPayout ==
  ASSUME BookIsTyped, WalletCallsInv, balance \in [Accounts -> Int],
         NEW c \in Clients, Covered(c), UNCHANGED <<taken, withdrawal>>,
         NEW w \in WithdrawalIds, CommitLosesItsAnswer(w, Payout(w))
  PROVE  Covered(c)'
<1>1. PICK lines : lines = Payout(w) OBVIOUS
<1>2. PICK n \in Nat : n = AmountOf(w) BY WithdrawalAssumption DEF AmountOf
<1>3. /\ lines \in [Accounts -> Int] /\ lines[AccountOf(w)] = -n
      /\ \A a \in Clients \ {AccountOf(w)} : lines[a] = 0 BY <1>1, <1>2, PayoutLines
<1>4. w \in Entries BY WithdrawalAssumption
<1>5. Enters(w, lines) /\ lost' = [lost EXCEPT ![w] = @ + 1] BY <1>1 DEF CommitLosesItsAnswer
<1>6. /\ journal'[w] = journal[w] + 1 /\ lost'[w] = lost[w] + 1
      /\ journal[w] \in Nat /\ lost[w] \in Nat
      /\ \A x \in WithdrawalIds \ {w} : journal'[x] = journal[x] /\ lost'[x] = lost[x]
  BY <1>4, <1>5, WithdrawalAssumption DEF Enters, BookIsTyped
<1>7. Owed(c)' = Owed(c) BY <1>6, OwedSame
<1>8. PICK i \in Int, o \in Int : i = 0 /\ o = 0 OBVIOUS
<1>9. Owed(c)' = Owed(c) - o /\ TakenFrom(c)' = TakenFrom(c) + i BY CoverInts, <1>7, <1>8 DEF TakenFrom
<1>10. PICK p \in Int : p = PaysOut(w, c) /\ Unnoticed(lost', c) = Unnoticed(lost, c) + p
  <2>1. PICK j \in [Entries -> Nat] : j = lost BY DEF BookIsTyped
  <2>2. PICK k : k = lost' OBVIOUS
  <2>3. k = [j EXCEPT ![w] = @ + 1] BY <1>5, <2>1, <2>2
  <2>4. Unnoticed(k, c) = Unnoticed(j, c) + PaysOut(w, c) /\ PaysOut(w, c) \in Nat
    BY <1>4, <2>3, UnnoticedMore
  <2> QED BY <2>1, <2>2, <2>4
<1>11. Draws(w, c) = 0 BY EntriesAssumption DEF Draws
<1>12. lines[c] = -p
  <2>1. CASE AccountOf(w) = c BY <1>2, <1>3, <1>10, <2>1 DEF PaysOut
  <2>2. CASE AccountOf(w) # c BY <1>3, <1>10, <2>2 DEF PaysOut
  <2> QED BY <2>1, <2>2
<1>13. lines[c] + Draws(w, c) + i + p + o >= 0 BY <1>8, <1>11, <1>12
<1> QED BY <1>3, <1>4, <1>5, <1>8, <1>9, <1>10, <1>13, CoverPost

\* A request is let in when the balance covers it besides what is on hold already.
LEMMA CoverRequest ==
  ASSUME BookIsTyped, BookIsTyped', WalletCallsInv, WalletCallsInv', WithdrawalsAreTyped,
         balance \in [Accounts -> Int],
         NEW c \in Clients, Covered(c), UNCHANGED taken,
         NEW w \in WithdrawalIds, RequestWithdrawal(w)
  PROVE  Covered(c)'
<1>1. /\ Status(w) = "none" /\ UNCHANGED <<balance, journal, lost>>
      /\ withdrawal' = [withdrawal EXCEPT
            ![w] = [status |-> "PENDING_HOLD", eligibleAt |-> today + SettlementHold]]
      /\ AmountOf(w) <= balance[AccountOf(w)] - SumOver(Held(AccountOf(w)), Amounts)
  BY DEF RequestWithdrawal, PlaceHold, book, AvailableBalance, heldAmount
<1>2. /\ Held(c) \subseteq WithdrawalIds /\ w \notin Held(c)
      /\ \A x \in WithdrawalIds \ {w} : x \in Held(c)' <=> x \in Held(c)
      /\ w \in Held(c)' <=> AccountOf(w) = c
      /\ Held(c)' \subseteq WithdrawalIds BY <1>1 DEF Held, Status, WithdrawalsAreTyped
<1>3. CASE AccountOf(w) # c BY <1>2, <1>3, <1>1, CoverHeldLess
<1>4. CASE AccountOf(w) = c
  <2>1. PICK H \in SUBSET WithdrawalIds : H = Held(c) BY <1>2
  <2>2. Held(c)' = H \cup {w} /\ w \notin H BY <1>2, <1>4, <2>1
  <2>3. PICK n \in Nat : n = AmountOf(w) /\ n = Amounts[w] BY WithdrawalAssumption DEF AmountOf, Amounts
  <2>4. IntOn(Amounts, H) /\ IsFiniteSet(H)
    BY WithdrawalAssumption, FiniteSums, FS_Subset DEF Amounts, AmountOf, IntOn
  <2>5. PICK h \in Int : h = SumOver(H, Amounts) /\ SumOver(H \cup {w}, Amounts) = h + n
    <3>1. /\ SumFunctionOnSet(Amounts, H \cup {w}) = SumFunctionOnSet(Amounts, H) + Amounts[w]
          /\ SumFunctionOnSet(Amounts, H) \in Int BY <2>2, <2>3, <2>4, SumWith
    <3> QED BY <2>3, <3>1 DEF SumOver
  <2>6. Owed(c)' <= h + n /\ Owed(c)' \in Nat
    <3>1. PICK U \in SUBSET WithdrawalIds, V \in SUBSET WithdrawalIds :
              U = H \cup {w} /\ V = Unpaid(c)' /\ V \in SUBSET U
      <4>1. Unpaid(c)' \subseteq H \cup {w} BY <2>2 DEF Unpaid
      <4>2. H \cup {w} \subseteq WithdrawalIds OBVIOUS
      <4> QED BY <4>1, <4>2
    <3>2. SumOver(V, Amounts) <= SumOver(U, Amounts) /\ SumOver(V, Amounts) \in Nat BY <3>1, OwedIsNat
    <3>3. Owed(c)' = SumOver(V, Amounts) /\ SumOver(U, Amounts) = h + n BY <2>5, <3>1 DEF Owed
    <3> QED BY <3>2, <3>3
  <2>7. n <= balance[c] - h BY <1>1, <1>4, <2>1, <2>3, <2>5
  <2>8. balance[c] \in Int /\ TakenFrom(c) \in Nat /\ Drawn(journal, c) \in Nat /\ Unnoticed(lost, c) \in Nat
    BY CoverInts
  <2>9. PICK k \in Int : k = balance[c] + (Drawn(journal, c) + TakenFrom(c)) + Unnoticed(lost, c) BY <2>8
  <2>10. k >= h + n BY <2>7, <2>8, <2>9
  <2>11. balance'[c] + (Drawn(journal', c) + TakenFrom(c)') + Unnoticed(lost', c) = k
    BY <1>1, <2>9 DEF TakenFrom
  <2>12. k >= Owed(c)' BY <2>6, <2>10
  <2> QED BY <2>11, <2>12 DEF Covered
<1> QED BY <1>3, <1>4

\* A cancellation under a sweep is on record, and no sweep collects what was cancelled.
LEMMA CancelledStep ==
  ASSUME OneWithdrawalSweep, WithdrawalInv, CancelledKnown, [Next]_vars
  PROVE  CancelledKnown' /\ cancelledLate \subseteq cancelledLate'
<1>1. /\ withdrawal \in [WithdrawalIds ->
            [status : {"none", "PENDING_HOLD", "COMPLETED", "CANCELLED"}, eligibleAt : Nat]]
      /\ withdrawalSweep \in [WithdrawalSweeps ->
            [due : SUBSET WithdrawalIds, paid : WithdrawalIds \union {Nothing}]]
      /\ SweepHoldsDue BY DEF WithdrawalInv, WithdrawalsAreTyped
<1>2. CASE UNCHANGED withdrawals BY <1>2 DEF withdrawals, CancelledKnown, Status
<1>3. ASSUME NEW w \in WithdrawalIds, RequestWithdrawal(w)
      PROVE  CancelledKnown' /\ cancelledLate \subseteq cancelledLate'
  BY <1>3, <1>1 DEF RequestWithdrawal, PlaceHold, Status, CancelledKnown
<1>4. ASSUME NEW w \in WithdrawalIds, CancelWithdrawal(w)
      PROVE  CancelledKnown' /\ cancelledLate \subseteq cancelledLate'
  BY <1>4, <1>1 DEF CancelWithdrawal, Status, CollectedBySomeSweep, CancelledKnown
<1>5. ASSUME NEW s \in WithdrawalSweeps, CollectDueWithdrawals(s)
      PROVE  CancelledKnown' /\ cancelledLate \subseteq cancelledLate'
  BY <1>5, <1>1 DEF CollectDueWithdrawals, OneWithdrawalSweep, Due, CancelledKnown, Status
<1>6. ASSUME NEW s \in WithdrawalSweeps, MarkCompleted(s)
      PROVE  CancelledKnown' /\ cancelledLate \subseteq cancelledLate'
  <2>1. PICK w \in WithdrawalIds : w = withdrawalSweep[s].paid BY <1>1, <1>6 DEF MarkCompleted
  <2>2. /\ withdrawal' = [withdrawal EXCEPT ![w].status = "COMPLETED"]
        /\ withdrawalSweep' = [withdrawalSweep EXCEPT ![s] = [due |-> @.due \ {w}, paid |-> Nothing]]
        /\ cancelledLate' = cancelledLate BY <1>6, <2>1 DEF MarkCompleted
  <2>3. \A x \in WithdrawalIds : Status(x)' = "CANCELLED" => Status(x) = "CANCELLED" BY <1>1, <2>2 DEF Status
  <2>4. \A t \in WithdrawalSweeps : withdrawalSweep'[t].due \subseteq withdrawalSweep[t].due BY <1>1, <2>2
  <2> QED BY <1>1, <2>2, <2>3, <2>4 DEF CancelledKnown
<1>7. ASSUME NEW s \in WithdrawalSweeps, NEW w \in WithdrawalIds, PostPayout(s, w) \/ PayoutFails(s, w)
      PROVE  CancelledKnown' /\ cancelledLate \subseteq cancelledLate'
  <2>1. UNCHANGED <<withdrawal, cancelledLate>> BY <1>7 DEF PostPayout, PayoutFails
  <2>2. \A t \in WithdrawalSweeps : withdrawalSweep'[t].due \subseteq withdrawalSweep[t].due
    BY <1>1, <1>7 DEF PostPayout, PayoutFails
  <2> QED BY <2>1, <2>2 DEF CancelledKnown, Status
<1>8. CASE WithdrawalStep BY <1>3, <1>4, <1>5, <1>6, <1>7, <1>8 DEF WithdrawalStep
<1>9. CASE Funding
  <2>1. CASE Operator BY <1>2, <2>1 DEF Operator
  <2> QED BY <1>2, <1>9, <2>1 DEF Funding
<1>10. CASE Common BY <1>2, <1>8, <1>10 DEF Common, NextDay, PostOutsideEntry
<1>11. CASE Wallets BY <1>2, <1>11 DEF Wallets
<1>12. CASE UNCHANGED vars BY <1>2, <1>12 DEF vars
<1> QED BY <1>9, <1>10, <1>11, <1>12 DEF Next

\* What the steps of the withdrawal workflow leave covered.
LEMMA WithdrawalsCover ==
  ASSUME OneWithdrawalSweep, BookIsTyped, BookIsTyped', WithdrawalInv, WalletCallsInv,
         WalletCallsInv', CancelledKnown, balance \in [Accounts -> Int],
         restores = 0, cancelledLate = {}, UNCHANGED taken,
         NEW c \in Clients, Covered(c), WithdrawalStep
  PROVE  Covered(c)'
<1>1. WithdrawalsAreTyped BY DEF WithdrawalInv
<1>2. ASSUME NEW w \in WithdrawalIds, RequestWithdrawal(w)  PROVE Covered(c)' BY <1>1, <1>2, CoverRequest
<1>3. ASSUME UNCHANGED <<book, backups>>,
             \A w \in WithdrawalIds : Status(w)' = "PENDING_HOLD" => Status(w) = "PENDING_HOLD"
      PROVE  Covered(c)' BY <1>3, CoverHeldLess DEF Held, book
<1>4. ASSUME NEW w \in WithdrawalIds, CancelWithdrawal(w)  PROVE Covered(c)'
  BY <1>1, <1>4, <1>3 DEF CancelWithdrawal, Status, WithdrawalsAreTyped
<1>5. ASSUME NEW s \in WithdrawalSweeps, CollectDueWithdrawals(s)  PROVE Covered(c)'
  BY <1>3, <1>5 DEF CollectDueWithdrawals, Status
<1>6. ASSUME NEW s \in WithdrawalSweeps, MarkCompleted(s)  PROVE Covered(c)'
  <2>1. PICK w \in WithdrawalIds : w = withdrawalSweep[s].paid
    BY <1>1, <1>6 DEF MarkCompleted, WithdrawalsAreTyped
  <2>2. withdrawal' = [withdrawal EXCEPT ![w].status = "COMPLETED"] BY <1>6, <2>1 DEF MarkCompleted
  <2>3. \A x \in WithdrawalIds : Status(x)' = "PENDING_HOLD" => Status(x) = "PENDING_HOLD"
    BY <1>1, <2>2 DEF Status, WithdrawalsAreTyped
  <2> QED BY <1>3, <1>6, <2>3 DEF MarkCompleted
<1>7. ASSUME NEW s \in WithdrawalSweeps, NEW w \in WithdrawalIds, PostPayout(s, w)  PROVE Covered(c)'
  BY <1>7, CoverPayout
<1>8. ASSUME NEW s \in WithdrawalSweeps, NEW w \in WithdrawalIds, PayoutFails(s, w)  PROVE Covered(c)'
  <2>1. UNCHANGED withdrawal /\ PostIsReportedFailed(w, Payout(w)) BY <1>8 DEF PayoutFails
  <2>2. CASE UNCHANGED <<book, backups>> BY <1>3, <2>1, <2>2 DEF Status
  <2>3. CASE CommitLosesItsAnswer(w, Payout(w)) BY <2>1, <2>3, CoverLostPayout
  <2> QED BY <2>1, <2>2, <2>3 DEF PostIsReportedFailed
<1> QED BY <1>2, <1>4, <1>5, <1>6, <1>7, <1>8 DEF WithdrawalStep

\* What an entry of the guard or from outside leaves covered, answered or not.
LEMMA EntryCovers ==
  ASSUME BookIsTyped, WalletCallsInv, balance \in [Accounts -> Int],
         NEW c \in Clients, Covered(c), UNCHANGED <<withdrawal, taken>>,
         NEW e \in Entries, e \notin WithdrawalIds, NEW lines \in [Accounts -> Int],
         PostJournalEntry(e, lines) \/ PostIsReportedFailed(e, lines),
         lines[c] + Draws(e, c) >= 0
  PROVE  Covered(c)'
<1>1. CASE UNCHANGED <<book, backups>> BY <1>1, CoverHeldLess DEF Held, Status, book
<1>2. CASE PostJournalEntry(e, lines) \/ CommitLosesItsAnswer(e, lines)
  <2>1. PICK t \in Int : t = 0 OBVIOUS
  <2>2. TakenFrom(c)' = TakenFrom(c) + t BY <2>1, CoverInts DEF TakenFrom
  <2>3. lines[c] + Draws(e, c) + t >= 0
    <3>1. PICK j \in [Entries -> Nat] : j = journal BY DEF BookIsTyped
    <3>2. PICK k : k = [j EXCEPT ![e] = @ + 1] OBVIOUS
    <3>3. Draws(e, c) \in Nat /\ lines[c] \in Int BY <3>2, DrawnMore, AccountsApart
    <3> QED BY <2>1, <3>3
  <2> QED BY <1>2, <2>2, <2>3, CoverOther
<1> QED BY <1>1, <1>2 DEF PostIsReportedFailed

\* Deposits, debits and outside entries draw what they take.
LEMMA GuardedDraws ==
  ASSUME NEW c \in Clients
  PROVE  /\ \A d \in DepositIds :
                DepositLines(d) \in [Accounts -> Int] /\ DepositLines(d)[c] + Draws(d, c) >= 0
         /\ \A m \in MandateIds :
                DebitLines(m) \in [Accounts -> Int] /\ DebitLines(m)[c] + Draws(m, c) >= 0
         /\ \A x \in OutsideEntries :
                OutsideLines[x] \in [Accounts -> Int] /\ OutsideLines[x][c] + Draws(x, c) >= 0
<1>1. ASSUME NEW d \in DepositIds
      PROVE  DepositLines(d) \in [Accounts -> Int] /\ DepositLines(d)[c] + Draws(d, c) >= 0
  <2>1. PICK o \in Clients, n \in Nat : o = DepositOf[d].account /\ n = DepositOf[d].amount
    BY DepositAssumption
  <2>2. PICK lines : lines = ClientMoneyMovement(o, n) OBVIOUS
  <2>3. /\ lines \in [Accounts -> Int] /\ lines[o] = n
        /\ \A a \in (Clients \union OtherAccounts) \ {o} : lines[a] = 0 BY <2>2, ClientMoneyLines
  <2>4. Draws(d, c) = 0 BY EntriesAssumption DEF Draws
  <2>5. lines[c] + Draws(d, c) >= 0 BY <2>3, <2>4
  <2> QED BY <2>1, <2>2, <2>3, <2>5 DEF DepositLines
<1>2. ASSUME NEW m \in MandateIds
      PROVE  DebitLines(m) \in [Accounts -> Int] /\ DebitLines(m)[c] + Draws(m, c) >= 0
  <2>1. PICK o \in Clients, n \in Nat : o = MandateOf[m].account /\ n = MandateOf[m].amount
    BY MandateAssumption
  <2>2. PICK k \in Int : k = -n OBVIOUS
  <2>3. PICK lines : lines = ClientMoneyMovement(o, k) OBVIOUS
  <2>4. /\ lines \in [Accounts -> Int] /\ lines[o] = k
        /\ \A a \in (Clients \union OtherAccounts) \ {o} : lines[a] = 0 BY <2>3, ClientMoneyLines
  <2>5. Draws(m, c) = IF o = c THEN n ELSE 0 BY <2>1 DEF Draws
  <2>6. lines[c] + Draws(m, c) >= 0
    <3>1. CASE o = c BY <2>2, <2>4, <2>5, <3>1
    <3>2. CASE o # c BY <2>4, <2>5, <3>2
    <3> QED BY <3>1, <3>2
  <2> QED BY <2>1, <2>2, <2>3, <2>4, <2>6 DEF DebitLines
<1>3. ASSUME NEW x \in OutsideEntries
      PROVE  OutsideLines[x] \in [Accounts -> Int] /\ OutsideLines[x][c] + Draws(x, c) >= 0
  <2>1. OutsideLines[x] \in [Accounts -> Int] BY OutsideAssumption
  <2>2. PICK n \in Int : n = OutsideLines[x][c] BY <2>1, AccountsApart
  <2>3. x \notin MandateIds BY EntriesAssumption
  <2>4. Draws(x, c) = IF n < 0 THEN -n ELSE 0 BY <2>2, <2>3 DEF Draws
  <2>5. n + Draws(x, c) >= 0
    <3>1. CASE n < 0 BY <2>4, <3>1
    <3>2. CASE ~(n < 0) BY <2>4, <3>2
    <3> QED BY <3>1, <3>2
  <2> QED BY <2>1, <2>2, <2>5
<1> QED BY <1>1, <1>2, <1>3

\* A step of the wallets takes from a client no more than it accounts for.
LEMMA WalletsCover ==
  ASSUME BookIsTyped, WalletCallsInv, balance \in [Accounts -> Int],
         UNCHANGED withdrawal, NEW c \in Clients, Covered(c), WalletStep
  PROVE  Covered(c)'
<1>1. PICK r \in WalletRequests :
          \/ DepositIntoCurrencyWallet(r) \/ WithdrawFromCurrencyWallet(r)
          \/ ConvertBetweenCurrencyWallets(r) \/ PostWalletEntry(r) \/ markWalletOpened(r) BY DEF WalletStep
<1>2. WalletEntry \in Entries /\ WalletEntry \notin WithdrawalIds /\ Draws(WalletEntry, c) = 0
  BY EntriesAssumption DEF Draws
<1>3. CASE UNCHANGED <<book, backups, taken>> BY <1>3, CoverHeldLess DEF Held, Status, book
<1>4. CASE DepositIntoCurrencyWallet(r)
  <2>1. PICK o, n, currency :
          /\ o \in WalletOwners /\ n \in WalletAmounts
          /\ currency \in CurrenciesOf(o)
          /\ \/ PostJournalEntry(WalletEntry, WalletMovement(o, currency, n))
             \/ CommitLosesItsAnswer(WalletEntry, WalletMovement(o, currency, n))
    BY <1>4 DEF DepositIntoCurrencyWallet
  <2>2. n \in Nat /\ n \in Int /\ UNCHANGED taken
    BY <1>4, <2>1, WalletAssumption DEF DepositIntoCurrencyWallet
  <2>3. PICK lines : lines = WalletMovement(o, currency, n) OBVIOUS
  <2>4. MovesWallet(lines, o, currency, n) BY <2>1, <2>2, <2>3, MovementLines
  <2>5. lines \in [Accounts -> Int] /\ lines[c] + Draws(WalletEntry, c) >= 0
    BY <1>2, <2>2, <2>4 DEF MovesWallet, ProperLines
  <2>6. PostJournalEntry(WalletEntry, lines) \/ PostIsReportedFailed(WalletEntry, lines)
    BY <2>1, <2>3 DEF PostIsReportedFailed
  <2> QED BY <1>2, <2>2, <2>5, <2>6, EntryCovers
<1>5. CASE PostWalletEntry(r)
  <2>1. PICK call : call = walletCall[r] OBVIOUS
  <2>2. /\ call # NoWalletCall /\ call.at = "checked"
        /\ PostJournalEntry(WalletEntry, call.lines) \/ CommitLosesItsAnswer(WalletEntry, call.lines)
        /\ taken' = IF call.currency = Native THEN [taken EXCEPT ![call.owner] = @ + call.amount] ELSE taken
    BY <1>5, <2>1 DEF PostWalletEntry
  <2>3. CallFits(call) /\ call.owner \in WalletOwners BY <2>1, <2>2 DEF WalletCallsInv, CallInv
  <2>4. PICK n \in Nat, lines \in [Accounts -> Int] : n = call.amount /\ lines = call.lines
    BY <2>3 DEF CallFits, ProperLines
  <2>5. lines[c] >= IF c = call.owner /\ call.currency = Native THEN -n ELSE 0 BY <2>3, <2>4 DEF CallFits
  <2>6. taken \in [WalletOwners -> Nat] BY DEF WalletCallsInv
  <2>7. TakenFrom(c) \in Nat /\ lines[c] \in Int BY CoverInts, AccountsApart
  <2>8. PICK t \in Int : TakenFrom(c)' = TakenFrom(c) + t /\ lines[c] + Draws(WalletEntry, c) + t >= 0
    <3>1. CASE c = call.owner /\ call.currency = Native
      BY <2>2, <2>3, <2>4, <2>6, <3>1, <1>2, <2>5, <2>7 DEF TakenFrom
    <3>2. CASE ~(c = call.owner /\ call.currency = Native)
      <4>1. TakenFrom(c)' = TakenFrom(c) BY <2>2, <2>3, <2>6, <3>2 DEF TakenFrom
      <4>2. PICK z \in Int : z = 0 OBVIOUS
      <4>3. TakenFrom(c)' = TakenFrom(c) + z BY <2>7, <4>1, <4>2
      <4>4. lines[c] + Draws(WalletEntry, c) + z >= 0 BY <1>2, <2>5, <2>7, <3>2, <4>2
      <4> QED BY <4>3, <4>4
    <3> QED BY <3>1, <3>2
  <2>9. PostJournalEntry(WalletEntry, lines) \/ CommitLosesItsAnswer(WalletEntry, lines) BY <2>2, <2>4
  <2> QED BY <1>2, <2>8, <2>9, CoverOther
<1>6. CASE WithdrawFromCurrencyWallet(r) \/ ConvertBetweenCurrencyWallets(r) \/ markWalletOpened(r)
  BY <1>3, <1>6 DEF WithdrawFromCurrencyWallet, CheckForWithdrawal, ConvertBetweenCurrencyWallets,
     markWalletOpened
<1> QED BY <1>1, <1>4, <1>5, <1>6

\* Everything on hold is covered while no book was restored and nothing cancelled under a sweep.
AllCovered == restores = 0 /\ cancelledLate = {} => \A c \in Clients : Covered(c)

\* All steps keep it so.
LEMMA CoverStep ==
  ASSUME OneWithdrawalSweep, BookIsTyped, BookIsTyped', DepositTypeOK, WithdrawalInv,
         WalletCallsInv, WalletCallsInv', CancelledKnown, balance \in [Accounts -> Int],
         AllCovered, [Next]_vars
  PROVE  AllCovered'
<1>1. CASE restores' # 0 \/ cancelledLate' # {} BY <1>1 DEF AllCovered
<1>2. CASE restores' = 0 /\ cancelledLate' = {}
  <2>1. cancelledLate = {} BY <1>2, CancelledStep
  <2>2. restores = 0 /\ ~RestoreFromSnapshot
    BY <1>2, StepEffect DEF RestoreFromSnapshot, BookIsTyped, StepsApart, vars, backups
  <2> SUFFICES ASSUME NEW c \in Clients  PROVE Covered(c)' BY DEF AllCovered
  <2>3. Covered(c) BY <2>1, <2>2 DEF AllCovered
  <2>4. ASSUME UNCHANGED <<book, withdrawal, taken>>  PROVE Covered(c)'
    BY <2>4, <2>3, CoverHeldLess DEF Held, Status, book
  <2>5. ASSUME DepositStep, UNCHANGED <<withdrawals, wallets>>  PROVE Covered(c)'
    <3>1. UNCHANGED <<withdrawal, taken>> BY <2>5 DEF withdrawals, wallets
    <3>2. CASE UNCHANGED book BY <2>4, <3>1, <3>2
    <3>3. ASSUME NEW h \in Confirmations, PostDeposit(h) \/ DepositFails(h)  PROVE Covered(c)'
      <4>1. PICK d \in DepositIds : d = confirming[h] BY <3>3 DEF PostDeposit, DepositFails, DepositTypeOK
      <4>2. PICK lines : lines = DepositLines(d) OBVIOUS
      <4>3. lines \in [Accounts -> Int] /\ lines[c] + Draws(d, c) >= 0 BY <4>2, GuardedDraws
      <4>4. PostJournalEntry(d, lines) \/ PostIsReportedFailed(d, lines)
        BY <3>3, <4>1, <4>2 DEF PostDeposit, DepositFails
      <4>5. d \in Entries /\ d \notin WithdrawalIds BY DepositAssumption, EntriesAssumption
      <4> QED BY <2>3, <3>1, <4>3, <4>4, <4>5, EntryCovers
    <3> QED BY <2>5, <3>2, <3>3 DEF DepositStep, InitiateDeposit, ClaimDeposit
  <2>6. ASSUME MandateStep(today), UNCHANGED <<withdrawals, wallets>>  PROVE Covered(c)'
    <3>1. UNCHANGED <<withdrawal, taken>> BY <2>6 DEF withdrawals, wallets
    <3>2. CASE UNCHANGED book BY <2>4, <3>1, <3>2
    <3>3. ASSUME NEW s \in MandateSweeps, NEW m \in MandateIds, PostDebit(s, m) \/ DebitFails(s, m)
          PROVE  Covered(c)'
      <4>1. PICK lines : lines = DebitLines(m) OBVIOUS
      <4>2. lines \in [Accounts -> Int] /\ lines[c] + Draws(m, c) >= 0 BY <4>1, GuardedDraws
      <4>3. PostJournalEntry(m, lines) \/ PostIsReportedFailed(m, lines)
        BY <3>3, <4>1 DEF PostDebit, DebitFails
      <4>4. m \in Entries /\ m \notin WithdrawalIds BY MandateAssumption, EntriesAssumption
      <4> QED BY <2>3, <3>1, <4>2, <4>3, <4>4, EntryCovers
    <3> QED BY <2>6, <3>2, <3>3 DEF MandateStep, RegisterMandate, PauseMandate, ResumeMandate,
                CancelMandate, SetStatus, CollectDueMandates, RecordDebit
  <2>7. ASSUME NEW x \in OutsideEntries, PostOutsideEntry(x), UNCHANGED wallets  PROVE Covered(c)'
    BY <2>7, GuardedDraws, OutsideAssumption, EntriesAssumption, <2>3, EntryCovers DEF
       PostOutsideEntry, withdrawals, wallets
  <2>8. ASSUME WithdrawalStep, UNCHANGED wallets  PROVE Covered(c)'
    BY <2>1, <2>2, <2>3, <2>8, WithdrawalsCover DEF wallets
  <2>9. ASSUME WalletStep, UNCHANGED withdrawals  PROVE Covered(c)'
    BY <2>3, <2>9, WalletsCover DEF withdrawals
  <2>10. CASE Funding
    <3>1. ASSUME Operator, UNCHANGED wallets  PROVE Covered(c)'
      BY <2>2, <2>4, <3>1 DEF Operator, CaptureSnapshot, withdrawals, wallets
    <3> QED BY <2>5, <2>6, <2>10, <3>1 DEF Funding
  <2>11. CASE Common
    <3>1. ASSUME NextDay, UNCHANGED wallets  PROVE Covered(c)' BY <2>4, <3>1 DEF NextDay, withdrawals, wallets
    <3> QED BY <2>7, <2>8, <2>11, <3>1 DEF Common
  <2>12. CASE Wallets BY <2>9, <2>12 DEF Wallets
  <2>13. CASE UNCHANGED vars BY <2>4, <2>13 DEF vars, withdrawals, wallets
  <2> QED BY <2>10, <2>11, <2>12, <2>13 DEF Next
<1> QED BY <1>1, <1>2

--------------------
(* Wallets in other currencies *)

Checks(r) == walletCall[r] # NoWalletCall /\ walletCall[r].at = "checked"
WalletOf(r) == <<walletCall[r].owner, walletCall[r].currency>>
Lists(r, w) == walletCall[r] # NoWalletCall /\ walletCall[r].at = "posted" /\ WalletOf(r) = w
Listed(w) == w[2] \in opened[w[1]] \/ \E r \in WalletRequests : Lists(r, w)

\* The mutex lets one call at a time check a balance, which stays until the call has posted.
ChecksHold ==
  /\ \A r, q \in WalletRequests : Checks(r) /\ Checks(q) => r = q
  /\ restores = 0 => \A r \in WalletRequests :
        Checks(r) /\ walletCall[r].currency # Native =>
            balance[ForeignWallet[WalletOf(r)]] >= walletCall[r].amount

WalletHolds(w) ==
  /\ balance[ForeignWallet[w]] >= 0
  /\ lost[WalletEntry] = 0 /\ balance[ForeignWallet[w]] > 0 => Listed(w)

WalletsHold == ChecksHold /\ (restores = 0 => \A w \in DOMAIN ForeignWallet : WalletHolds(w))

\* The accounts of the wallets.
LEMMA ForeignAccounts ==
  ASSUME NEW w \in DOMAIN ForeignWallet
  PROVE  /\ ForeignWallet[w] \in OtherAccounts /\ ForeignWallet[w] \in Accounts
         /\ ForeignWallet[w] \notin Clients
         /\ w[1] \in WalletOwners /\ w[2] # Native BY WalletAssumption, AccountsApart

\* Nobody else moves them.
WalletsLeftAlone ==
  /\ lost'[WalletEntry] = lost[WalletEntry]
  /\ \A w \in DOMAIN ForeignWallet : balance'[ForeignWallet[w]] = balance[ForeignWallet[w]]

\* An entry with nothing on the accounts of the wallets does not.
LEMMA EntryLeavesWallets ==
  ASSUME BookIsTyped, balance \in [Accounts -> Int], NEW e \in Entries \ {WalletEntry}, NEW lines,
         \A a \in OtherAccounts : lines[a] = 0,
         PostJournalEntry(e, lines) \/ PostIsReportedFailed(e, lines)
  PROVE  WalletsLeftAlone
<1>1. CASE UNCHANGED <<book, backups>> BY <1>1 DEF book, WalletsLeftAlone
<1>2. CASE PostJournalEntry(e, lines) \/ CommitLosesItsAnswer(e, lines)
  <2>1. /\ balance' = [a \in Accounts |-> balance[a] + lines[a]]
        /\ lost' = lost \/ lost' = [lost EXCEPT ![e] = @ + 1]
    BY <1>2 DEF PostJournalEntry, CommitLosesItsAnswer, Enters
  <2>2. lost'[WalletEntry] = lost[WalletEntry] BY <2>1, WalletsAreGuarded DEF BookIsTyped
  <2>3. ASSUME NEW w \in DOMAIN ForeignWallet PROVE balance'[ForeignWallet[w]] = balance[ForeignWallet[w]]
    <3>1. PICK a \in Accounts : a = ForeignWallet[w] /\ lines[a] = 0 BY ForeignAccounts
    <3>2. balance'[a] = balance[a] + 0 BY <2>1, <3>1
    <3> QED BY <3>1, <3>2
  <2> QED BY <2>2, <2>3 DEF WalletsLeftAlone
<1> QED BY <1>1, <1>2 DEF PostIsReportedFailed

\* Nor do the other handlers.
LEMMA OthersLeaveWallets ==
  ASSUME BookIsTyped, balance \in [Accounts -> Int], DepositTypeOK, Next
  PROVE  WalletStep \/ RestoreFromSnapshot \/ (WalletsLeftAlone /\ UNCHANGED <<wallets, restores>>)
<1>1. ASSUME UNCHANGED <<balance, lost>>  PROVE WalletsLeftAlone BY <1>1 DEF WalletsLeftAlone
<1>2. ASSUME DepositStep  PROVE WalletsLeftAlone
  <2>1. ASSUME NEW h \in Confirmations, PostDeposit(h) \/ DepositFails(h)  PROVE WalletsLeftAlone
    <3>1. PICK d \in DepositIds : d = confirming[h] BY <2>1 DEF PostDeposit, DepositFails, DepositTypeOK
    <3>2. PICK c \in Clients, n \in Int : c = DepositOf[d].account /\ n = DepositOf[d].amount
      BY DepositAssumption
    <3>3. PICK lines : lines = ClientMoneyMovement(c, n) OBVIOUS
    <3>4. \A a \in OtherAccounts : lines[a] = 0 BY <3>3, ClientMoneyLines, AccountsApart
    <3>5. PostJournalEntry(d, lines) \/ PostIsReportedFailed(d, lines)
      BY <2>1, <3>1, <3>2, <3>3 DEF PostDeposit, DepositFails, DepositLines
    <3>6. d \in Entries \ {WalletEntry} BY DepositAssumption, EntriesAssumption
    <3> QED BY <3>4, <3>5, <3>6, EntryLeavesWallets
  <2>2. CASE UNCHANGED <<book, backups>> BY <1>1, <2>2 DEF book
  <2> QED BY <1>2, <2>1, <2>2 DEF DepositStep, InitiateDeposit, ClaimDeposit
<1>3. ASSUME MandateStep(today)  PROVE WalletsLeftAlone
  <2>1. ASSUME NEW s \in MandateSweeps, NEW m \in MandateIds, PostDebit(s, m) \/ DebitFails(s, m)
        PROVE  WalletsLeftAlone
    <3>1. PICK c \in Clients, n \in Int : c = MandateOf[m].account /\ n = -MandateOf[m].amount
      BY MandateAssumption
    <3>2. PICK lines : lines = ClientMoneyMovement(c, n) OBVIOUS
    <3>3. \A a \in OtherAccounts : lines[a] = 0 BY <3>2, ClientMoneyLines, AccountsApart
    <3>4. PostJournalEntry(m, lines) \/ PostIsReportedFailed(m, lines)
      BY <2>1, <3>1, <3>2 DEF PostDebit, DebitFails, DebitLines
    <3>5. m \in Entries \ {WalletEntry} BY MandateAssumption, EntriesAssumption
    <3> QED BY <3>3, <3>4, <3>5, EntryLeavesWallets
  <2>2. CASE UNCHANGED <<book, backups>> BY <1>1, <2>2 DEF book
  <2> QED BY <1>3, <2>1, <2>2 DEF MandateStep, RegisterMandate, PauseMandate, ResumeMandate,
              CancelMandate, SetStatus, CollectDueMandates, RecordDebit
<1>4. ASSUME WithdrawalStep  PROVE WalletsLeftAlone
  <2>1. ASSUME NEW s \in WithdrawalSweeps, NEW w \in WithdrawalIds, PostPayout(s, w) \/ PayoutFails(s, w)
        PROVE  WalletsLeftAlone
    <3>1. PICK lines : lines = Payout(w) OBVIOUS
    <3>2. \A a \in OtherAccounts : lines[a] = 0
      BY WithdrawalAssumption, <3>1, PayoutLines, AccountsApart DEF AccountOf
    <3>3. PostJournalEntry(w, lines) \/ PostIsReportedFailed(w, lines)
      BY <2>1, <3>1 DEF PostPayout, PayoutFails
    <3>4. w \in Entries \ {WalletEntry} BY WithdrawalAssumption, EntriesAssumption
    <3> QED BY <3>2, <3>3, <3>4, EntryLeavesWallets
  <2>2. CASE UNCHANGED <<book, backups>> BY <1>1, <2>2 DEF book
  <2> QED BY <1>4, <2>1, <2>2 DEF WithdrawalStep, RequestWithdrawal, PlaceHold, CancelWithdrawal,
              CollectDueWithdrawals, MarkCompleted
<1>5. ASSUME NEW x \in OutsideEntries, PostOutsideEntry(x)  PROVE WalletsLeftAlone
  <2>1. \A a \in OtherAccounts : OutsideLines[x][a] = 0 BY OutsideAssumption
  <2>2. x \in Entries \ {WalletEntry} BY OutsideAssumption, EntriesAssumption
  <2>3. PICK lines : lines = OutsideLines[x] OBVIOUS
  <2>4. PostJournalEntry(x, lines) BY <1>5, <2>3 DEF PostOutsideEntry
  <2> QED BY <2>1, <2>2, <2>3, <2>4, EntryLeavesWallets
<1>6. ASSUME DepositStep \/ MandateStep(today) \/ WithdrawalStep \/ NextDay
             \/ \E x \in OutsideEntries : PostOutsideEntry(x)
      PROVE  WalletsLeftAlone /\ restores' = restores
  BY <1>1, <1>2, <1>3, <1>4, <1>5, <1>6, DepositsTouch, MandatesTouch, WithdrawalsTouch DEF
     NextDay, book, PostOutsideEntry, PostJournalEntry, Enters, backups
<1>7. ASSUME CaptureSnapshot  PROVE WalletsLeftAlone BY <1>1, <1>7 DEF CaptureSnapshot, book
<1>8. CASE Funding BY <1>6, <1>7, <1>8 DEF Funding, Operator, CaptureSnapshot
<1>9. CASE Common BY <1>6, <1>9 DEF Common
<1>10. CASE Wallets BY <1>10 DEF Wallets
<1> QED BY <1>8, <1>9, <1>10 DEF Next

\* A call that was not yet to list anything leaves what is listed listed.
LEMMA ListedStays ==
  ASSUME NEW r \in WalletRequests, ~(walletCall[r] # NoWalletCall /\ walletCall[r].at = "posted"),
         \A q \in WalletRequests \ {r} : walletCall'[q] = walletCall[q], UNCHANGED opened,
         NEW w, Listed(w)
  PROVE  Listed(w)'
<1>1. CASE w[2] \in opened[w[1]] BY <1>1 DEF Listed
<1>2. ASSUME NEW q \in WalletRequests, Lists(q, w)  PROVE Listed(w)' BY <1>2 DEF Lists, WalletOf, Listed
<1> QED BY <1>1, <1>2 DEF Listed

\* The calls and the listings are kept when the wallets are left alone.
LEMMA WalletsUntouched ==
  ASSUME WalletsHold, WalletsLeftAlone, UNCHANGED <<wallets, restores>>, WalletCallsInv PROVE WalletsHold'
<1>1. UNCHANGED <<walletCall, opened>> BY DEF wallets
<1>2. \A w \in DOMAIN ForeignWallet : WalletHolds(w) => WalletHolds(w)'
  BY <1>1 DEF WalletHolds, WalletsLeftAlone, Listed, Lists, WalletOf
<1>3. ASSUME NEW r \in WalletRequests, Checks(r), walletCall[r].currency # Native
      PROVE  balance'[ForeignWallet[WalletOf(r)]] = balance[ForeignWallet[WalletOf(r)]]
  <2>1. PICK o, currency :
          /\ o \in WalletOwners /\ currency \in CurrenciesOf(o)
          /\ o = walletCall[r].owner /\ currency = walletCall[r].currency
    BY <1>3 DEF WalletCallsInv, CallInv, Checks
  <2>2. WalletOf(r) \in DOMAIN ForeignWallet BY <1>3, <2>1, WalletAccounts DEF WalletOf
  <2> QED BY <2>2 DEF WalletsLeftAlone
<1>4. ChecksHold' BY <1>1, <1>3 DEF Checks, WalletOf, WalletsHold, ChecksHold
<1> QED BY <1>2, <1>4 DEF WalletsHold

\* A call that posts what moves one wallet up, and lists it unless its answer was lost.
LEMMA DepositHolds ==
  ASSUME BookIsTyped, balance \in [Accounts -> Int], WalletCallsInv, WalletsHold,
         NEW r \in WalletRequests, DepositIntoCurrencyWallet(r)
  PROVE  WalletsHold'
<1>1. PICK o, n, currency :
          /\ o \in WalletOwners /\ n \in WalletAmounts
          /\ currency \in CurrenciesOf(o)
          /\ \/ /\ PostJournalEntry(WalletEntry, WalletMovement(o, currency, n))
                /\ walletCall' = [walletCall EXCEPT ![r] =
                                     [at |-> "posted", owner |-> o, currency |-> currency]]
             \/ /\ CommitLosesItsAnswer(WalletEntry, WalletMovement(o, currency, n))
                /\ UNCHANGED walletCall BY DEF DepositIntoCurrencyWallet
<1>2. /\ n \in Nat /\ n \in Int /\ UNCHANGED opened /\ walletCall[r] = NoWalletCall
      /\ DOMAIN walletCall = WalletRequests
  BY <1>1, WalletAssumption DEF DepositIntoCurrencyWallet, Starts, WalletCallsInv
<1>3. PICK lines : lines = WalletMovement(o, currency, n) OBVIOUS
<1>4. MovesWallet(lines, o, currency, n) BY <1>1, <1>2, <1>3, MovementLines
<1>5. /\ balance' = [a \in Accounts |-> balance[a] + lines[a]] /\ restores' = restores
  BY <1>1, <1>3 DEF PostJournalEntry, CommitLosesItsAnswer, Enters, backups
<1>6. PICK call : call = [at |-> "posted", owner |-> o, currency |-> currency] OBVIOUS
<1>7. /\ call.at = "posted" /\ call.owner = o /\ call.currency = currency
      /\ currency \in {Native} \union {w[2] : w \in DOMAIN ForeignWallet}
      /\ call # NoWalletCall BY <1>6, <1>1, WalletAssumption DEF CurrenciesOf
<1>8. \A q \in WalletRequests \ {r} : walletCall'[q] = walletCall[q] BY <1>1, <1>2
<1>9. walletCall'[r] = call \/ walletCall'[r] = NoWalletCall BY <1>1, <1>2, <1>6
<1>10. \A q \in WalletRequests : Checks(q)' => q # r /\ Checks(q) /\ walletCall'[q] = walletCall[q]
  BY <1>7, <1>8, <1>9 DEF Checks
<1>11. ASSUME NEW w \in DOMAIN ForeignWallet
       PROVE  /\ balance[ForeignWallet[w]] \in Int /\ balance'[ForeignWallet[w]] \in Int
              /\ balance'[ForeignWallet[w]] = balance[ForeignWallet[w]] + IF w = <<o, currency>> THEN n ELSE 0
  <2>1. PICK a \in Accounts : a = ForeignWallet[w] BY ForeignAccounts
  <2>2. lines[a] = IF w = <<o, currency>> THEN n ELSE 0 BY <1>4, <2>1 DEF MovesWallet
  <2>3. balance'[a] = balance[a] + lines[a] /\ balance[a] \in Int BY <1>5
  <2> QED BY <1>2, <2>1, <2>2, <2>3
<1>12. ChecksHold'
  <2>1. \A q, p \in WalletRequests : Checks(q)' /\ Checks(p)' => q = p BY <1>10 DEF WalletsHold, ChecksHold
  <2>2. ASSUME restores' = 0, NEW q \in WalletRequests, Checks(q)', walletCall'[q].currency # Native
        PROVE  balance'[ForeignWallet[WalletOf(q)']] >= walletCall'[q].amount
    <3>1. Checks(q) /\ walletCall'[q] = walletCall[q] /\ WalletOf(q)' = WalletOf(q)
      BY <1>10, <2>2 DEF WalletOf
    <3>2. balance[ForeignWallet[WalletOf(q)]] >= walletCall[q].amount
      BY <1>5, <2>2, <3>1 DEF WalletsHold, ChecksHold
    <3>3. CallFits(walletCall[q]) /\ WalletOf(q) \in DOMAIN ForeignWallet
      BY <2>2, <3>1, WalletAccounts DEF WalletCallsInv, CallInv, Checks, WalletOf
    <3>4. PICK k \in Nat : k = walletCall[q].amount BY <3>3 DEF CallFits
    <3>5. balance'[ForeignWallet[WalletOf(q)]] >= balance[ForeignWallet[WalletOf(q)]] BY <1>2, <1>11, <3>3
    <3>6. balance'[ForeignWallet[WalletOf(q)]] >= k BY <1>11, <3>2, <3>3, <3>4, <3>5
    <3> QED BY <3>1, <3>4, <3>6
  <2> QED BY <2>1, <2>2 DEF ChecksHold
<1>13. ASSUME restores' = 0, NEW w \in DOMAIN ForeignWallet  PROVE WalletHolds(w)'
  <2>1. WalletHolds(w) BY <1>5, <1>13 DEF WalletsHold
  <2>2. balance'[ForeignWallet[w]] >= 0 BY <1>2, <1>11, <2>1 DEF WalletHolds
  <2>3. ASSUME lost'[WalletEntry] = 0, balance'[ForeignWallet[w]] > 0  PROVE Listed(w)'
    <3>1. PostJournalEntry(WalletEntry, lines) /\ walletCall'[r] = call /\ lost' = lost
      BY <2>3, WalletsAreGuarded, <1>1, <1>2, <1>3, <1>6 DEF CommitLosesItsAnswer, BookIsTyped,
         PostJournalEntry
    <3>2. CASE w = <<o, currency>> BY <1>7, <3>1, <3>2 DEF Lists, WalletOf, Listed
    <3>3. CASE w # <<o, currency>> BY <1>11, <2>3, <3>1, <3>3, <2>1, <1>2, <1>8, ListedStays DEF WalletHolds
    <3> QED BY <3>2, <3>3
  <2> QED BY <2>2, <2>3 DEF WalletHolds
<1> QED BY <1>12, <1>13 DEF WalletsHold

\* A check takes the mutex and sees the balance it is about to take from.
LEMMA CheckHolds ==
  ASSUME balance \in [Accounts -> Int], WalletCallsInv, WalletsHold,
         NEW r \in WalletRequests, WithdrawFromCurrencyWallet(r) \/ ConvertBetweenCurrencyWallets(r)
  PROVE  WalletsHold'
<1>1. /\ ~BalanceMutationsLocked /\ walletCall[r] = NoWalletCall
      /\ UNCHANGED <<book, backups, opened>> /\ DOMAIN walletCall = WalletRequests
  BY DEF WithdrawFromCurrencyWallet, CheckForWithdrawal, ConvertBetweenCurrencyWallets, Starts,
     WalletCallsInv
<1>2. PICK o, n, currency, call :
          /\ o \in WalletOwners /\ n \in WalletAmounts
          /\ currency \in CurrenciesOf(o)
          /\ balance[ledgerAccountIdentifierFor(o, currency)] >= n
          /\ call.owner = o /\ call.currency = currency /\ call.amount = n
          /\ walletCall' = [walletCall EXCEPT ![r] = call] /\ call.at = "checked"
  <2>1. CASE WithdrawFromCurrencyWallet(r)
    <3>1. PICK o, n, currency :
          /\ o \in WalletOwners /\ n \in WalletAmounts
          /\ currency \in CurrenciesOf(o)
          /\ balance[ledgerAccountIdentifierFor(o, currency)] >= n
          /\ walletCall' = [walletCall EXCEPT ![r] =
                [at |-> "checked", owner |-> o, currency |-> currency, amount |-> n,
                 lines |-> WalletMovement(o, currency, -n), opens |-> FALSE]]
      BY <2>1 DEF WithdrawFromCurrencyWallet, CheckForWithdrawal
    <3>2. PICK call : call = [at |-> "checked", owner |-> o, currency |-> currency, amount |-> n,
                              lines |-> WalletMovement(o, currency, -n), opens |-> FALSE] OBVIOUS
    <3>3. /\ call.owner = o /\ call.currency = currency /\ call.amount = n /\ call.at = "checked"
          /\ walletCall' = [walletCall EXCEPT ![r] = call] BY <3>1, <3>2
    <3>4. /\ o \in WalletOwners /\ n \in WalletAmounts /\ currency \in CurrenciesOf(o)
          /\ balance[ledgerAccountIdentifierFor(o, currency)] >= n BY <3>1
    <3> QED BY <3>3, <3>4
  <2>2. CASE ConvertBetweenCurrencyWallets(r)
    <3>1. PICK o \in WalletOwners, n \in WalletAmounts : \E from, to \in CurrenciesOf(o) :
          LET converted == convertMinorUnitsRoundHalfUp(n, WalletRates[<<from, to>>]) IN
          /\ from # to
          /\ <<from, to>> \in DOMAIN WalletRates
          /\ balance[ledgerAccountIdentifierFor(o, from)] >= n
          /\ converted > 0
          /\ walletCall' = [walletCall EXCEPT ![r] =
                [at |-> "checked", owner |-> o, currency |-> from, amount |-> n, to |-> to,
                 lines |-> MirroredConversionLines(o, from, to, n, converted), opens |-> TRUE]]
      BY <2>2 DEF ConvertBetweenCurrencyWallets
    <3>2. PICK from \in CurrenciesOf(o), to \in CurrenciesOf(o) :
          LET converted == convertMinorUnitsRoundHalfUp(n, WalletRates[<<from, to>>]) IN
          /\ from # to
          /\ <<from, to>> \in DOMAIN WalletRates
          /\ balance[ledgerAccountIdentifierFor(o, from)] >= n
          /\ converted > 0
          /\ walletCall' = [walletCall EXCEPT ![r] =
                [at |-> "checked", owner |-> o, currency |-> from, amount |-> n, to |-> to,
                 lines |-> MirroredConversionLines(o, from, to, n, converted), opens |-> TRUE]] BY <3>1
    <3>3. PICK lines : lines = MirroredConversionLines(o, from, to, n,
                                   convertMinorUnitsRoundHalfUp(n, WalletRates[<<from, to>>])) OBVIOUS
    <3>4. PICK call : call = [at |-> "checked", owner |-> o, currency |-> from, amount |-> n, to |-> to,
                              lines |-> lines, opens |-> TRUE] OBVIOUS
    <3>5. /\ call.owner = o /\ call.currency = from /\ call.amount = n /\ call.at = "checked"
          /\ walletCall' = [walletCall EXCEPT ![r] = call]
          /\ balance[ledgerAccountIdentifierFor(o, from)] >= n BY <3>2, <3>3, <3>4
    <3>6. o \in WalletOwners /\ n \in WalletAmounts /\ from \in CurrenciesOf(o) BY <3>1, <3>2
    <3> QED BY <3>5, <3>6
  <2> QED BY <2>1, <2>2
<1>3. walletCall'[r] = call /\ \A q \in WalletRequests \ {r} : walletCall'[q] = walletCall[q] BY <1>1, <1>2
<1>4. \A q \in WalletRequests : Checks(q)' => q = r BY <1>1, <1>3 DEF Checks, BalanceMutationsLocked
<1>5. UNCHANGED <<balance, lost, restores>> BY <1>1 DEF book, backups
<1>6. walletCall'[r].currency # Native =>
          balance'[ForeignWallet[WalletOf(r)']] >= walletCall'[r].amount
  <2>1. CASE currency # Native BY <1>2, <2>1, WalletAccounts, <1>3, <1>5 DEF WalletOf
  <2> QED BY <1>2, <1>3, <2>1
<1>7. ChecksHold' BY <1>4, <1>6 DEF ChecksHold
<1>8. ASSUME NEW w, WalletHolds(w)  PROVE WalletHolds(w)'
  BY <1>1, <1>3, <1>5, <1>8, ListedStays DEF WalletHolds
<1> QED BY <1>5, <1>7, <1>8 DEF WalletsHold

\* What was checked is still there when it is taken, and what is put in is listed next.
LEMMA PostHolds ==
  ASSUME BookIsTyped, balance \in [Accounts -> Int], WalletCallsInv, WalletsHold,
         NEW r \in WalletRequests, PostWalletEntry(r)
  PROVE  WalletsHold'
<1>1. PICK call : call = walletCall[r] OBVIOUS
<1>2. /\ call # NoWalletCall /\ call.at = "checked" /\ UNCHANGED opened
      /\ \/ /\ PostJournalEntry(WalletEntry, call.lines)
            /\ walletCall' = [walletCall EXCEPT ![r] =
                  IF call.opens THEN [at |-> "posted", owner |-> call.owner, currency |-> call.to]
                  ELSE NoWalletCall]
         \/ /\ CommitLosesItsAnswer(WalletEntry, call.lines)
            /\ walletCall' = [walletCall EXCEPT ![r] = NoWalletCall] BY <1>1 DEF PostWalletEntry
<1>3. /\ CallFits(call) /\ call.owner \in WalletOwners /\ call.currency \in CurrenciesOf(call.owner)
      /\ DOMAIN walletCall = WalletRequests /\ Checks(r) BY <1>1, <1>2 DEF WalletCallsInv, CallInv, Checks
<1>4. PICK n \in Nat, lines \in [Accounts -> Int] : n = call.amount /\ lines = call.lines
  BY <1>3 DEF CallFits, ProperLines
<1>5. PICK listing : listing = [at |-> "posted", owner |-> call.owner, currency |-> call.to] OBVIOUS
<1>6. /\ listing.at = "posted" /\ listing.owner = call.owner /\ listing.currency = call.to
      /\ call.opens => listing # NoWalletCall
  <2>1. listing.at = "posted" /\ listing.owner = call.owner /\ listing.currency = call.to BY <1>5
  <2>2. ASSUME call.opens  PROVE listing # NoWalletCall
    BY <1>3, <2>2, <1>5, WalletAssumption DEF CallFits, CurrenciesOf
  <2> QED BY <2>1, <2>2
<1>7. /\ \A q \in WalletRequests \ {r} : walletCall'[q] = walletCall[q]
      /\ walletCall'[r] = NoWalletCall \/ walletCall'[r] = listing BY <1>2, <1>3, <1>5
<1>8. /\ balance' = [a \in Accounts |-> balance[a] + lines[a]] /\ restores' = restores
      /\ \A a \in Accounts : balance[a] \in Int
  BY <1>2, <1>4 DEF PostJournalEntry, CommitLosesItsAnswer, Enters, backups
<1>9. ASSUME NEW w \in DOMAIN ForeignWallet
      PROVE  /\ balance[ForeignWallet[w]] \in Int /\ lines[ForeignWallet[w]] \in Int
             /\ balance'[ForeignWallet[w]] = balance[ForeignWallet[w]] + lines[ForeignWallet[w]]
             /\ lines[ForeignWallet[w]] >= IF w = <<call.owner, call.currency>> THEN -n ELSE 0
             /\ lines[ForeignWallet[w]] > 0 => call.opens /\ w = <<call.owner, call.to>>
  <2>1. /\ lines[ForeignWallet[w]] >= IF w = <<call.owner, call.currency>> THEN -n ELSE 0
        /\ lines[ForeignWallet[w]] > 0 => call.opens /\ w = <<call.owner, call.to>> BY <1>3, <1>4 DEF CallFits
  <2>2. PICK a \in Accounts : a = ForeignWallet[w] BY ForeignAccounts
  <2>3. balance'[a] = balance[a] + lines[a] /\ balance[a] \in Int /\ lines[a] \in Int BY <1>8
  <2> QED BY <2>1, <2>2, <2>3
<1>10. ChecksHold'
  <2>1. \A q \in WalletRequests : ~Checks(q)' BY <1>6, <1>7, <1>3 DEF Checks, WalletsHold, ChecksHold
  <2> QED BY <2>1 DEF ChecksHold
<1>11. ASSUME restores' = 0, NEW w \in DOMAIN ForeignWallet  PROVE WalletHolds(w)'
  <2>1. WalletHolds(w) BY <1>8, <1>11 DEF WalletsHold
  <2>2. balance'[ForeignWallet[w]] >= 0
    <3>1. CASE w = <<call.owner, call.currency>>
      <4>1. call.currency # Native BY <3>1, ForeignAccounts
      <4>2. balance[ForeignWallet[w]] >= n
        BY <1>1, <1>3, <1>4, <1>8, <1>11, <3>1, <4>1 DEF WalletsHold, ChecksHold, WalletOf
      <4>3. lines[ForeignWallet[w]] >= -n BY <1>9, <3>1
      <4> QED BY <1>9, <4>2, <4>3
    <3>2. CASE w # <<call.owner, call.currency>> BY <1>9, <3>2, <2>1 DEF WalletHolds
    <3> QED BY <3>1, <3>2
  <2>3. ASSUME lost'[WalletEntry] = 0, balance'[ForeignWallet[w]] > 0  PROVE Listed(w)'
    <3>1. /\ lost' = lost
          /\ walletCall' = [walletCall EXCEPT ![r] = IF call.opens THEN listing ELSE NoWalletCall]
      BY <2>3, WalletsAreGuarded, <1>2, <1>5 DEF CommitLosesItsAnswer, BookIsTyped, PostJournalEntry
    <3>2. CASE lines[ForeignWallet[w]] > 0 BY <1>9, <3>2, <1>3, <3>1, <1>6 DEF Lists, WalletOf, Listed
    <3>3. CASE ~(lines[ForeignWallet[w]] > 0)
      BY <1>9, <2>3, <3>1, <3>3, <2>1, <1>1, <1>2, <1>7, ListedStays DEF WalletHolds
    <3> QED BY <3>2, <3>3
  <2> QED BY <2>2, <2>3 DEF WalletHolds
<1> QED BY <1>10, <1>11 DEF WalletsHold

\* What a call was to list is listed when it is done.
LEMMA ListingHolds ==
  ASSUME WalletCallsInv, WalletsHold, NEW r \in WalletRequests, markWalletOpened(r) PROVE WalletsHold'
<1>1. /\ walletCall[r] # NoWalletCall /\ walletCall[r].at = "posted"
      /\ opened' = [opened EXCEPT ![walletCall[r].owner] = @ \union {walletCall[r].currency}]
      /\ walletCall' = [walletCall EXCEPT ![r] = NoWalletCall]
      /\ UNCHANGED <<balance, lost, restores>> BY DEF markWalletOpened, book, backups
<1>2. /\ DOMAIN walletCall = WalletRequests /\ DOMAIN opened = WalletOwners
      /\ walletCall[r].owner \in WalletOwners BY <1>1 DEF WalletCallsInv, CallInv
<1>3. walletCall'[r] = NoWalletCall /\ \A q \in WalletRequests \ {r} : walletCall'[q] = walletCall[q]
  BY <1>1, <1>2
<1>4. ChecksHold' BY <1>3, <1>1 DEF Checks, WalletOf, WalletsHold, ChecksHold
<1>5. ASSUME NEW w \in DOMAIN ForeignWallet, Listed(w)  PROVE Listed(w)'
  <2>1. w[1] \in WalletOwners BY ForeignAccounts
  <2>2. opened[w[1]] \subseteq opened'[w[1]] BY <1>1, <1>2, <2>1
  <2>3. ASSUME NEW q \in WalletRequests, Lists(q, w)  PROVE Listed(w)'
    <3>1. CASE q = r BY <2>3, <3>1, <1>1, <1>2 DEF Lists, WalletOf, Listed
    <3>2. CASE q # r BY <1>3, <2>3, <3>2 DEF Lists, WalletOf, Listed
    <3> QED BY <3>1, <3>2
  <2> QED BY <1>5, <2>2, <2>3 DEF Listed
<1>6. \A w \in DOMAIN ForeignWallet : WalletHolds(w) => WalletHolds(w)' BY <1>1, <1>5 DEF WalletHolds
<1> QED BY <1>1, <1>4, <1>6 DEF WalletsHold

\* All steps keep the wallets.
LEMMA WalletsHoldStep ==
  ASSUME BookIsTyped, balance \in [Accounts -> Int], DepositTypeOK, WalletCallsInv,
         WalletsHold, [Next]_vars
  PROVE  WalletsHold'
<1>1. CASE WalletStep
  <2>1. PICK r \in WalletRequests :
          \/ DepositIntoCurrencyWallet(r) \/ WithdrawFromCurrencyWallet(r)
          \/ ConvertBetweenCurrencyWallets(r) \/ PostWalletEntry(r) \/ markWalletOpened(r)
    BY <1>1 DEF WalletStep
  <2> QED BY <2>1, DepositHolds, CheckHolds, PostHolds, ListingHolds
<1>2. CASE RestoreFromSnapshot /\ UNCHANGED wallets
  BY <1>2 DEF RestoreFromSnapshot, BookIsTyped, wallets, WalletsHold, ChecksHold, Checks
<1>3. CASE UNCHANGED vars BY <1>3, WalletsUntouched DEF vars, book, backups, WalletsLeftAlone
<1>4. CASE Next BY <1>4, OthersLeaveWallets, <1>1, <1>2, WalletsUntouched DEF Next, Funding, Common, Wallets
<1> QED BY <1>3, <1>4

\* At the start nothing is on hold, checked or in a wallet.
LEMMA BalancesInitially == ASSUME Init  PROVE CancelledKnown /\ AllCovered /\ WalletsHold
<1>1. /\ balance = [a \in Accounts |-> 0] /\ walletCall = [r \in WalletRequests |-> NoWalletCall]
      /\ withdrawal = [w \in WithdrawalIds |-> NotRequested]
      /\ withdrawalSweep = [s \in WithdrawalSweeps |-> IdleSweep]
  BY DEF Init, LedgerInit, WalletInit, WithdrawalInit
<1>2. CancelledKnown BY <1>1 DEF CancelledKnown, IdleSweep
<1>3. ASSUME NEW c \in Clients  PROVE Covered(c)
  <2>1. Owed(c) = 0 BY <1>1, FS_EmptySet, SumOfZeros DEF Unpaid, Held, Status, NotRequested, Owed, SumOver
  <2>2. BookIsTyped /\ WalletCallsInv /\ balance \in [Accounts -> Int] /\ balance[c] = 0
    BY <1>1, LedgerInitially, MirrorInitially, AccountsApart
  <2>3. /\ TakenFrom(c) \in Nat /\ Drawn(journal, c) \in Nat /\ Unnoticed(lost, c) \in Nat BY <2>2, CoverInts
  <2> QED BY <2>1, <2>2, <2>3 DEF Covered
<1>4. WalletsHold
  <2>1. ChecksHold BY <1>1 DEF ChecksHold, Checks
  <2>2. ASSUME NEW w \in DOMAIN ForeignWallet  PROVE WalletHolds(w) BY <1>1, ForeignAccounts DEF WalletHolds
  <2> QED BY <2>1, <2>2 DEF WalletsHold
<1> QED BY <1>2, <1>3, <1>4 DEF AllCovered

\* When the calls of ProcessDueWithdrawals do not overlap, money on hold is there, short of what
\* mandates, outside entries, wallets and payouts reported failed took without asking for it;
\* and no wallet in another currency is overdrawn, however its calls overlap with everything else.
THEOREM BalancesCovered == ASSUME \A s, t \in WithdrawalSweeps : s = t PROVE Spec => []BalancesAreCovered
<1> DEFINE Inv == /\ BookIsTyped /\ DepositInv /\ WithdrawalInv /\ WalletCallsInv /\ BooksMirror
                  /\ CancelledKnown /\ AllCovered /\ WalletsHold
<1>1. OneWithdrawalSweep BY DEF OneWithdrawalSweep
<1>2. Init => Inv BY LedgerInitially, MirrorInitially, BalancesInitially
<1>3. Inv /\ [Next]_vars => Inv'
  <2> SUFFICES ASSUME Inv, [Next]_vars  PROVE Inv' OBVIOUS
  <2>1. BookIsTyped' /\ DepositInv' /\ WithdrawalInv' BY <1>1, WithdrawalsStep
  <2>2. BookStep /\ WalletCallsInv'
    <3>1. CASE Next BY <3>1, NextIsBookStep, WalletCallsKept DEF DepositInv
    <3>2. CASE UNCHANGED vars
      BY <3>2 DEF vars, book, backups, BookStep, wallets, WalletCallsInv, CallInv, CallFits
    <3> QED BY <3>1, <3>2
  <2>3. BooksMirror' BY <2>2, MirrorStep
  <2>4. CancelledKnown' BY <1>1, CancelledStep
  <2>5. balance \in [Accounts -> Int] /\ DepositTypeOK BY DEF BooksMirror, DepositInv
  <2>6. AllCovered' BY <1>1, <2>1, <2>2, <2>5, CoverStep
  <2>7. WalletsHold' BY <2>5, WalletsHoldStep
  <2> QED BY <2>1, <2>2, <2>3, <2>4, <2>6, <2>7
<1>4. Inv => BalancesAreCovered
  <2> SUFFICES ASSUME AllCovered, WalletsHold  PROVE BalancesAreCovered OBVIOUS
  <2>1. HeldMoneyIsCovered
    BY DEF AllCovered, Covered, HeldMoneyIsCovered, UncheckedDebits, LossToOutside, Drawn, Unnoticed,
       MandateDebits, OutsideLosses, LostPayouts, TakenFrom, Owed, Unpaid
  <2>2. restores = 0 => WalletsAreNotOverdrawn
    BY DEF WalletsHold, WalletHolds, Listed, Lists, WalletOf, WalletsAreNotOverdrawn
  <2> QED BY <2>1, <2>2 DEF BalancesAreCovered
<1> QED BY <1>2, <1>3, <1>4, PTL DEF Spec
====================
