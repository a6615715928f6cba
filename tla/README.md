# Mercurius: a TLA+ model of the trading core

Mercurius is a brokerage: clients submit orders to a gateway, a matching engine
trades them, and a ledger moves the money. This directory holds TLA+ modules that
model the parts of it where order, failure and concurrency matter, the TLC
configurations that check them on small instances, and proofs of what was worth
proving for every value of the constants. Paths below are relative to `src/services/`.

    tlc -workers 2 -config OrderBook.cfg MCOrderBookCore     # check a run
    tlapm OrderPathProofs.tla                                # check the proofs

`PROJECT.json` lists the runs, maps every definition to the lines it stands for,
and lists the hazards of the code with the properties that cover them.

## 1. The system

| Part | State | Operations | Talks to |
|---|---|---|---|
| `matching-engine` (Rust), one instrument | order book, pool of armed stop orders, last price, next id; a write-ahead log file | submit, cancel, query; append, recover, replay | a TCP request per order; a network thread and a matching-core thread joined by two lock-free ring buffers; publishes to `market-data` |
| `oms-gateway` (Go) | about twenty in-memory books, each under its own mutex: risk margin, exposure, strategy limits, pledges, positions, funding, loans; idempotency claims; after-market queue; kill switch; market session; audit trail | `/orders/submit` and some eighty other endpoints; a DMA gateway; a prober | matching engine (TCP), `ledger`, `kyc-onboarding`, `backoffice`, `quant-engine` (HTTP), Postgres |
| `ledger` (Go) | double-entry book (memory or Postgres), withdrawal requests, deposits, mandates, wallets | post, request, cancel, sweep, confirm, convert, snapshot, restore | called by the gateway and by operators |
| `kyc-onboarding`, `backoffice`, `auth`, `api-gateway` (Go) | per-account state machines, sessions and tokens, limits, webhooks | one mutex-guarded operation per registry call; handlers of several calls | in front of the gateway, or gates of it; the ledger; each other |
| `mutual-funds` (Go) | fund orders and holdings, plans, goals, auctions, retirement accounts, notes, ladders | requests and sweeps that collect under a lock and act after it | its own callers |
| `market-data` (Rust) | candles, ticks, alerts, quotes, deltas, watchlists | two ingesting threads, a WebSocket task per client, an HTTP server | fed by the engine; Postgres |
| `quant-engine` (Python), `reporting` (Go), the two apps | derived data | read-only to the trading core | |

An order travels: HTTP handler -> (after-market queue) -> idempotency claim -> kill
switch, session, strategy and exposure limits -> KYC and freeze checks -> sell
reservation -> margin reservation -> TCP to the engine -> book and log -> reply ->
per trade: ledger entry, margin of the other party, positions -> release of what
filled -> acknowledgement, completion of the claim, Postgres.

What makes it hard:

* **Many small locks.** Each gateway book is safe by itself; a submission is a long
  sequence of critical sections over all of them, and any other handler runs in between.
* **Calls that fail half way.** A hand-off can time out after the engine took the
  order; a ledger post can succeed with its answer lost; a log append can be torn.
* **Crashes.** The engine recovers from its log. The gateway forgets everything but
  what is in Postgres. The ledger's workflows are in memory beside a book that can be restored.
* **Check, let go, act.** Sweeps in the ledger collect under a lock and act after it;
  the gateway reads a holding, the market session or a Postgres row and uses it later.
* **Lock-free code** with cached indices, and **cascades** of stop orders.
* **Bounded channels** that drop what a slow reader has not taken, and two feeds of one instrument.
* **Times taken before a lock**, so that what is recorded is not in the order of its times.

What would make each part correct: an acknowledged command survives; the book is
never crossed, keeps price-time priority and conserves quantity; the rings are
race-free FIFOs and an answer reaches its own request; a reservation is released exactly
as far as it should be and the gateway's caches follow the ledger; a key is placed once
and every request is answered; credit stays under its collateral; money is posted once,
holds stay covered and client money is segregated; histories follow the publishes and a
client that missed some catches up; sweeps that overlap confirm an order once.

## 2. Modules

| Module | Models | State -> code |
|---|---|---|
| **Matching engine** | | |
| `WriteAheadLog` | `writeAheadLog.rs`, `walBackedOrderBook.rs` | `wal`: lines of the file; `book`: the commands applied in memory; `pending`, `call`, `pc`: the appends a call still owes; `acked`: what clients were told |
| `OrderBookCore` | `orderBookCore.rs` | `resting`: the two `BTreeMap`s of queues; `pendingStops`; `lastTradedPrice`; `incoming`, `latestFill`, `pc`: inside a call, fill by fill |
| `SpscRingBuffer` | `lockFreeSpscRingBuffer.rs` | the slots, the shared and local and cached indices; each load and store a step |
| `BoundedFifo` | what the rings promise (abstract) | a bounded queue, what it delivered and what it destroyed |
| `MatchingServer` | `main.rs` and the gateway's client of it | `network`, `core`: where the two threads are; `ingress`, `egress`: the rings as queues; `client`, `backlog`: the connections |
| `EngineThreads` | the two together | |
| **oms-gateway** | | |
| `OrderSubmission` | `processOrderSubmission` and settlement in `main.go`, with `riskengine`, `exposurelimits`, `marginpledge`, `positions` and the engine and ledger clients | `handler`: the point each call has reached; one variable per book; `inEngine`, `remaining`, `trades`: the engine as the gateway can know it |
| `KillSwitch` | `connectivitykillswitch` | the two flags and the failure count |
| `IdempotencyStore` | `idempotency` and its table | `claimed`, `answerOf`: memory; `persisted`: Postgres |
| `OrderAdmission` | `buildSubmitOrderHandler`, the market-open and -close handlers, `amoqueue`, the prober; composes the two above | `handler`, `amoQueue`, `opening`, `probe` |
| `CollateralBooks` | `marginpledge`, `marginfunding`, `loanagainstsecurities`, `securitieslendingborrowing` and their handlers | `pledges`, `utilized`, `outstanding`, `accruing`; `collateralCall`: between which two calls a handler is; `lent`, `borrowed` |
| `AlgoOrders` | `algolimits`, `executionalgos` (TWAP, VWAP, POV) | `limiter`, `reservations`; `schedule`, `pov` |
| `CompositeOrders` | `multilegoptions`, `payoffdiagram`, `basketorders` and cover orders | `strategy`, `basket`, `cover`: the order under way, leg by leg; `diagram` |
| `PositionActions` | `corporateactionsprocessing`, `drip`, `papertrading`, `strategyfollowing` | `holdings`, `actionLog`, `position`, `stage`; `milli`; `following`, `followedBy` |
| `RiskMonitors` | `autoliquidation`, `marktomarket`, `riskdisclosuregate`, `overtradingdetection` | `evaluation`; `basis`; `disclosure`, `fno`; `history`, `submission` |
| `DmaSessions` | `dmagateway` and the institution at the other end | `dma`: connection, sequence numbers, lines on the way; `submitted` |
| `GatewayBooks` | composes the six above | `focus` |
| **ledger** | | |
| `DoubleEntryLedger` | `doubleentry`, `fundsegregation`, snapshot and restore | `balance`, `journal` (a bag of entries), `snapshot` |
| `WithdrawalWorkflow`, `DepositRail`, `PaymentMandates` | the packages of those names | the requests, deposits and mandates; each sweep and each confirmation in progress |
| `MultiCurrencyWallet` | the package of that name | `walletCall`: what was checked and is to be posted; `opened` |
| `LedgerService` | the process: composes the five above with entries posted from outside and an operator | `desk` |
| **Accounts** | | |
| `KycOnboarding` | `kyc-onboarding`: KYC states, bank verification, risk score, joint holding, nominees | one map per registry |
| `Backoffice` | `backoffice`: freezes, family access, succession, tickets, referral rewards | one map per registry; `check`: a referral request between its calls |
| `Auth` | `auth`: accounts, rate limits, refresh tokens, second factor, anomaly detector | one variable per store; `login`, `rotating`, `confirming`: handlers between their calls |
| `ApiGateway` | `api-gateway`: keys and buckets, tenants, webhooks and their poller, service levels | `buckets`; `entriesSeen`, `outbox`: the poller; `breach` |
| `AccountServices` | composes the four | `focus` |
| **Investors** | | |
| `FundOrders` | `mutual-funds`: router, instalment plans, baskets, goals | `fundOrders`, `fundHoldings`, `sips`; `sweep`: what each sweep collected |
| `FundMarkets` | its other desks: auctions, ladders, retirement, notes, foreign orders, insurance | one variable per registry |
| `MarketFeed` | `market-data`: `ingestDepthPublishMessage` and its stores | `feed`: between which two stores each thread is; one variable per store |
| `QuoteStream` | the broadcast channel and the WebSocket tasks, with clients that follow the protocol | `connection`: task, receiver, wire, and what the client believes |
| `MarketViews` | volume profiles, footprints, watchlists and their followers | `profile`; `watched`, `changeLog`, `device` |
| `InvestorServices` | composes the five | `focus` |

`MC*` modules give TLC its instances; the other compositions are small enough to be
instantiated by their `.cfg` alone. The theorems are in `EngineProcessProofs` (log and
threads of the engine), `OrderPathProofs` (admission and the book), `OrderSubmissionProofs`,
`LedgerServiceProofs`, `AccountServicesProofs`, `GatewayBooksProofs` (collateral and positions)
and `OrderPatternProofs` (the gateway's other books); `SumTheorems` has the lemmas on finite
sums that the last five share.

Each action is one atomic step of the code: a critical section of a mutex, an atomic
load or store, one append to the file, or one call to another process. Where code
between two such steps touches nothing shared it belongs to one of them. Two pairs of
critical sections are one step because the two halves commute with everything else: the
two releases of a written-off order, and the counterparty's margin with `ApplyFill`. A
call that is refused and changes nothing is not an action where the refusal is all it does.

**How the compositions work.** `LedgerService` and `OrderAdmission` interleave all their
parts, which share state. The registries behind `AccountServices`, `GatewayBooks` and
`InvestorServices` are many, and most share none: the product of their interleavings says
no more than the calls on each. There a variable `focus`, chosen in the initial state,
names the group of registries that a behaviour's requests go to; registries that do meet
(pledges and loans, fund orders and plans, the feeds and the quote stream) are one group
and interleave. `desk` does the same in the ledger: the funding desks beside each other and the
operator, the same with commits whose answer is lost in place of the operator, wallets beside
withdrawals and outside entries, and wallets alone with lost answers.

### What is abstracted

* *WriteAheadLog*: matching is a deterministic function of the commands, so the book is
  the sequence of commands. A line is a record, or bytes no parser accepts, with or
  without its newline. An interrupted append leaves nothing, a fragment, a line without
  its newline, or all of it.
* *OrderBookCore*: one fill is one step. Accounts and timestamps are left out: no
  decision of the book reads them.
* *SpscRingBuffer*: a relaxed or acquire load of the other side's index returns any
  value between the last one seen and the newest; `IndexModulus` stands for 2^64.
* *MatchingServer*: a line is one of six kinds, the book the number of its changes and
  whether a stop without a trigger price is armed and a last price known. What a client
  sent stays readable when it has gone; a depth reaches market-data or does not.
* *OrderSubmission*: KYC, freeze, session, strategy and disclosure gates are one choice
  to reject. The engine may execute any trades the limits allow that leave no two
  resting orders crossing (`OrderBookCore` says which), and may set off stops. One
  instrument; one pledged share is worth one unit of margin.
* *OrderAdmission*: everything between the kill switch and the engine is a choice to
  reject. The failure count stops at the threshold, above which nothing tells counts apart.
* *Gateway books*: the answer of the order path to a child order is a choice (refused, or
  filled in part). Prices come from small tables. Shares are counted whole except in paper
  positions, where four thousandths make a share. Percentages and rounding are the code's.
* *DmaSessions*: a line is its type, number and order; a write to a lost connection fails
  or not. The client repeats on a new connection exactly what it saw no answer to.
* *Ledger*: amounts are small integers; the journal's order is left out because nothing
  reads it; a post may fail at any time (a Postgres error), without effect or, when the answer
  to a commit is lost, with all of it (`PostIsReportedFailed`); a failed post and the
  bookkeeping after it are one step. Wallets have a home and one foreign currency; rates are
  fractions over `RateScale`, rounded half up as in the code.
* *Accounts*: passwords, codes, tokens and documents are their identity and whether they
  match. Times are ticks; distance and speed in the anomaly detector a small table. The limiters
  keep how many attempts fell on each tick, since nothing reads their order; login and
  registration have a limiter each (`services/auth/cmd/server/main.go:76`), so no e-mail
  address is a network address. An account's audit trail is given by places in the trail.
* *FundOrders, FundMarkets*: units are counted in parts finer than the step they are rounded to
  (a client may redeem such parts); days belong to a calendar whose months differ in length; the
  growth of a goal's plan is a table of a few months instead of a compounding float.
* *MarketFeed*: a publish is a trade or a top of book from a small menu; the wall clock is
  read before the locks, as in the code, and does not run backward.
* *QuoteStream*: a quote is its number, instrument and price; the channel and the socket have
  the capacities of the run. *MarketViews*: a value area is computed as the code does, and
  compared to what the ticks themselves say.

## 3. Runs

| Run | Shows | Bounds |
|---|---|---|
| `wal` | Which acknowledgements are safe, that recovery rebuilds the live book, and what a reader of the live file is told of the past | 2 orders, 3 commands, 1 trade each, 2 crashes, 1 failed append, every kind of torn append |
| `wal_torn_tail` (finding) | An acknowledged command glued onto a torn tail is lost | as above |
| `book` | Never crossed; quantity conserved; price-time priority; limits respected; cascades complete; every call returns or panics on a stop that has no trigger price | 3 prices, up to 4 submissions from menus, cancels anywhere between calls |
| `ring` | No slot is raced on; a ring implements `BoundedFifo`; no one spins for ever. An answer reaches its own request, depths reach market-data in order, and every line is handled while the core thread lives | 2 slots, indices modulo 4, 5 pushes, 2 items; 3 clients, one line each, of every kind but malformed |
| `orders` | Every unit of exposure and margin that is held is of an order that stands, or of a leak named by its cause; positions follow the ledger; working sells stay reserved; every submission is acknowledged | 3 submissions of 2 accounts, quantities up to 2, 1 pledge, every fault |
| `admission` | One answer and one placement per key in one life of the process; stored answers are not placed again; queued orders are held exactly once; the auto flag clears; every request ends | order, retry, after-market order; threshold 2; 2 events (restart, panic, open, close, toggle, engine up or down) |
| `admission_placed_twice` (finding) | A crash before the answer is stored lets a retry be placed again | as above |
| `gateway_books` | See below, by property | 4 collateral calls of 2 requests, 3 reservations over midnight, 5 polls, 4 position calls, 3 fills, 4 submissions, 2 sessions of 4 lines in all |
| `ledger` | The pool mirrors guarded client money; deposits, payouts and debits are posted once and match their statuses; holds and wallets are covered; mandates keep their schedule | 1 client, 2 withdrawals, 1 deposit with 2 concurrent callbacks, 1 mandate, 1 outside entry, 1 restore or 1 lost answer, 3 days; 3 wallet calls of 2 requests |
| `ledger_paid_twice` (finding) | Two overlapping sweeps pay one withdrawal twice | 1 withdrawal, 2 sweeps |
| `accounts` | See below | 2 accounts, 2 logins from 2 origins (side by side where the limiter is looked at), a window of 2 ticks, 3 tokens, 4 requests through 2 buckets, 1 restart of the poller's process |
| `investors` | See below | 2 sweepers (alike), 4 fund orders, months of 3 and of 2 days and 3 instalments of 2 plans; 3 publishes on 2 feeds, a channel of 2, 2 connections; 3 watchlist changes |

The properties of the last group are conjunctions of named parts; the comment at each part
says what it asks. In short:

* `OnboardingIsSound`: a verdict on a bank account follows from the amounts its holder stated,
  three guesses at most; a consent counts for the structure in force; nominations never exceed
  the whole.
* `CasesAreSound`: the succession trail tells every case; no ticket is closed over a customer's
  message that came after it was resolved; a referral is credited once, and marked only when it
  was, but where two checks of it overlapped or a credit's answer was lost.
* `SessionsAreSound`: at most one live token per login, and none in a family revoked with no
  rotation under way; a second factor that is on was confirmed with its own secret; no window of time
  admits more than the limit, not counting attempts a later one overtook; alerts are what the
  attempts seen call for.
* `GatewayIsSound`: no stretch of time lets through more than the bucket holds and refills;
  webhooks arrive in the order of the trail, but for what a restart lost; each breach of a
  service level is reported once.
* `CollateralIsSound`: margin is what the credit books say; a debt is forgotten only when it
  is repaid; no more is lent than collateral ever backed; a pledge taken back leaves no
  margin behind; interest does not shrink.
* `OrderPatternsAreSound`: strategies stay in their rate and their day's notional however
  reservations are given back, but on a day opened again; schedules release the parent quantity
  and no more; payoff diagrams agree with the legs at every price; failed strategies are undone
  but for legs that went astray; baskets stay in their cash where their quantities fit the word;
  stops cover what the entry was told it filled and are larger by others' trades in the answer
  only; first orders follow the disclosure; bursts are noticed; a DMA session submits its lines
  in order and only what was unanswered is submitted twice.
* `PositionsAreSound`: cost survives splits and mergers; positions follow the holdings;
  dividends reach margin and ledger alike, but for credits whose answer was not waited for;
  averages follow the fills; a liquidation sells for the gap it saw, and two of them sell no
  share twice.
* `FundsAreSound`: holdings are the confirmed orders, also when sweeps overlap, to half a step
  for each redemption of part of one; a plan has one instalment at most in any month, and one in
  each if it was never stopped and its day is in every month; baskets invest the lump sum, or
  more by less than half a minor unit a leg; auctions allot what was notified and
  better bids first; retirement accounts, notes, foreign orders and ladders keep their terms.
* `QuotesAreSound`: candles and ticks follow the trades; an alert fires at its first crossing
  and once; stores that handled a trade agree; a client's view is a quote that was published
  and a quiet client ends up with the newest; profiles show every tick; devices that follow
  a watchlist end up with it.

**Why the bounds are enough.** Each is the least at which the hazard exists, plus one
where it fits. Two crashes: one to tear the log, one to read what was appended after. A
fresh append after a torn one needs a third command. Four submissions make the cascade:
two orders of liquidity, two stops. Ring indices wrap twice in five pushes with two slots.
Three clients of the engine: one to arm a stop or to leave, one to trade or to wait, one
behind them. Three handlers give two that race and one that trades with both. Two events in
`admission` are a failure and its recovery, a crash and an opening, or a panic and a
restart. Two callbacks and one sweep over two requests, with a cancel under it, are what
the ledger's races need; the second sweep is what the finding is about and is kept out of
the passing run, which asks what holds when sweeps do not overlap. In `gateway_books` two
requests race for one collateral and a third call follows them; a quantity of seven in four
slices leaves a remainder to place. A day of two seconds has a midnight that a time read before it
can reach the limiter behind. In `investors` three publishes overflow a channel of two,
a second connection follows the first, and two sweeps can hold one order.

**Conditions in the properties** name what the code is known not to keep, so that the
rest is still checked: exposure that no outcome releases (`NeverReleased`) and margin that outlives
its order (`MarginLeft`), each an amount of the equation with its cause, replies that list others' trades, an account's
trade with itself and lost ledger answers (`OrderSubmission`); a failed read of Postgres
(`blind`), orders queued after the market opened (`late`) and restarts (`OrderAdmission`);
a restored book, a cancel under a running sweep, debits that ask for no balance and posts that
took place and were reported failed (`lost`, in `LedgerService`); answers of the ledger lost on the way (`unnoticed`) and repayments put back
(`restored`) in `CollateralBooks`; a merger of an instrument into itself and dividends credited
unheard (`PositionActions`); days opened again (`reopened`, in `AlgoOrders`); accepted orders of
legs and constituents that went astray and quantities beyond the word (`CompositeOrders`);
submissions recorded behind a later one (`takenInOrder`, in `RiskMonitors`); referrals under two
checks at once (`overlapped`) or credited with the answer lost (`unanswered`, in `Backoffice`);
attempts that a later one overtook and families revoked under a rotation (`Auth`); plans that two
sweeps held, that were stopped, or whose day some month lacks (`FundOrders`); publishes that another feed
overtook (`overtaken`), changes that did not reach the watchlist's log (`unlogged`) and devices
that were answered out of a failed read. Each is recorded by a history variable or computed
from the state, never assumed away; segregation is partial in the code too (payouts and
outside entries do not go through the guard, as the package says of itself).

**Fairness.** `book`: the matching-core thread runs its loop without waiting. `ring`: both
threads keep running, and a store becomes visible in finite time (strong fairness of the
load that returns the newest value, as a repeated load does return it again and again). The
server's two threads run on, and a call of the gateway's client that has connected sends its
line or is over: the client sets a deadline of two seconds on the connection before it writes.
A stranger that connects and stays silent is outside that assumption, and stops the server.
`orders` and `admission`: some handler that can go on does, because every dial, read and
HTTP call of a handler to the engine, the ledger and the gates carries a deadline of two
seconds and Go's scheduler runs every ready goroutine; nothing is assumed of the engine,
of clients or of admins. The calls to Postgres have no deadline in the code: that they
return, or fail, is an assumption of `EveryRequestEnds`. The prober's ticker
fires every two seconds. Safety runs assume none. `EverySubmissionIsAcknowledged`,
`TradingResumes` and `EveryRequestEnds` have the form "eventually for ever" because
submissions and events are bounded: once they are over, the state asked for is reached
and stays.

Deadlock is checked in `admission`, where the prober never stops; the other systems
may stop once their bounded work is done.

## 4. Proofs

`EngineProcessProofs`
: *FreshDurability*: for any number of orders, commands, crashes, torn and failed
  appends, a command acknowledged from a line of its own is in the log for ever. The
  property is not inductive; `IInv` adds `CallInv`, which says of a call in progress that
  it has either appended nothing yet and owes its command first, or has its command on the
  line it remembers. The step lemma is that no append, interrupted or not, changes a line
  that has its newline, which is also the theorem *AppendOnly*. *CleanLogDurability* drops
  the condition on the line for logs no interrupted append has torn: the strongest form of
  the package's promise that the code keeps, since `wal_torn_tail` refutes the rest. It
  needs that a part of a line never leaves the file. *LogTypeCorrect*.

  *ReplayFaithful*: while every command is in the log, the book in memory is the one a replay
  of the log makes. Replay is a recursive function of a sequence of records, so the proof is
  of one more record: the replay of a longer log is one more step from the replay of the
  shorter. `ReplayInv` says of the idle process that its book is the replayed one, and of a
  process that is logging that its book is ahead by the command at hand or equal to it, and
  that an order in the log carries the number its replay gives it and a replay submits as many
  as the log tells of. *HistoryIsKept*: what a replay tells a reader of the file is a
  prefix of what any later replay tells, on a torn log too. Lines that ended never change, so
  the last line decides: a fragment is told of only when it is completed, and a whole record
  without its newline is taken back by the next append, that one record and nothing else.

  *HandOffSafety* (no slot raced on, no line handled twice, an answer reaches its own client,
  depths in order) and *RingImplementsFifo* (every step of a ring is a push, a pop, a
  destruction or a stutter of `BoundedFifo`), for every capacity, width of the indices and
  number of clients. `RingInv` relates the indices, which wrap, to the numbers of pushes and
  pops, which do not: an index a side has cached is a number the other side had passed, so
  the room a cache shows can only become more; the modulus is a multiple of the capacity and
  larger, so distances and slots can be told from the reduced indices. `ServerInv` says that
  the network thread has one line out at most and what the rings and the core hold at each
  point of it. *PoppedInPushOrder*, *RingTypeCorrect*.

`OrderPathProofs`
: Of `OrderBookCore`, *NeverCrossed*: for every price range and every sequence of calls the best bid is below
  the best ask, inside calls too. `IInv` joins it with the types and the order of the
  queues. Taking from a queue never adds a price, so only an order coming to rest can
  cross the book, and it rests when its loop found no price to trade at: the lemma that
  the best price exists (least number, by well-foundedness) says the loop looked at the
  right one. *TimePriority*: every queue is in arrival order; a queue alone does not show
  it, so `QueuesInv` adds that everything in it arrived before the counter, and a lemma on
  removing one entry carries fills and cancels. *OrdersConserved*: what is filled, withdrawn
  and open of an order is what it asked for. The sum is over everything the book holds, but
  `OrdersInv` says that an id is in one place at most (one queue, the pool or the hands of
  the thread) and there for exactly what it has left, so the sum has one term at most.
  *PricePriority* and *LimitsRespected*, on every step, follow from the same invariant: a
  fill can only be of the front of the best queue and of the incoming order. *StopsAreSwept*:
  no call ends with a triggered stop in the pool, however long its cascade. *TypeCorrect*:
  no resting order is empty and no quantity negative.

  Of `OrderAdmission`, *PlainKeysAreAnsweredOnce*: in one life of the process every key that no after-market order
  carries has one answer and one placement at most. *AnsweredOnce* and *NotPlacedAgain* state
  the runs' properties, of all keys, under the hypothesis that after-market orders carry no
  key: the code queues those before it claims (`main.go:748` calls it a known gap), and the
  proof needs the claim. The run has an after-market order without a key as well. The
  invariant gives each key one owner at a time and reads off its entry how far that owner
  came. *QueuedOrdersHeldOnce*: a queued order is in the queue or in one opening's hands,
  once, through panics, openings, closes and restarts. *AdmissionTypeCorrect*.

`OrderSubmissionProofs`
: The books of the order path, for any number of accounts, orders, trades and faults, one
  invariant on another. `ControlInv` says what the point a handler has reached means for its
  request and the engine; `SettleInv` that a trade is journalled once and applied by its own
  handler. From these *PositionsAreTheLedgers* and *ExposureAccountedFor*; `FilledInv` (what
  is filled of an order is the sum of its trades) gives *SellsStayReserved*, and with
  the reservations *MarginFollowsTheLedger*: between settlements the cached margin of an
  account is its cash in the ledger and its pledges less what backs its orders and what outlived them (the
  reservation of an order is split by what its trades were: in its own reply, resting, not
  posted, or never made). The conditions of the properties (section 3) are part of what is proved. *OrderPathTypeCorrect*.
  Quantities are bounded by `MaxQuantity`, any number, because the engine's fills are chosen
  from a finite set.

`LedgerServiceProofs`
: *DepositsPostedOnce*, *PayoutsMatch* and *DebitsFollowTheSchedule*: what the journal holds of
  each deposit, request and mandate is what its status says, through concurrent confirmations,
  cancels, lost answers and restores. A confirmed deposit is in the hands of one confirmation
  or in the journal; what a sweep has collected is due and not paid by another. The last two
  are for one sweep of its kind at a time (`ASSUME \A s, t \in WithdrawalSweeps : s = t`):
  `ledger_paid_twice` refutes the first without it. *CustodyPoolMirrors*, with no hypothesis:
  every entry is classed by its lines, and each class moves the pool and the clients by the
  same amount or is counted among what moved one without the other. *BalancesCovered*, with one
  withdrawal sweep: the cover of an account (its balance and what left it without a
  check) is at least what its holds still owe, which every debit keeps because it checks or is
  counted; and of a wallet, what the one handler inside its mutex has checked stays there
  until its entry (`ChecksHold`). Assumed of the constants: entries of different
  origins have different names, and entries from outside touch neither the custody pool nor
  a foreign wallet.

`AccountServicesProofs`
: *RegistriesStayInOrder* and, from it, the four properties of the run: *OnboardingSound*,
  *CasesSound*, *SessionsSound*, *GatewaySound*. Every registry has an invariant that says what
  its state stands for, and a call keeps it:
  * a penny drop's status and attempts left are what its claims, all or all but the last of
    them wrong, say; a structure's holder ids were drawn for it alone; the shares of a
    nomination change by what one nominee changes (a sum over places that move when one goes).
  * the succession trail, with one entry more, tells the same of every other account, and of its
    own the latest move, case and naming before each place; a ticket is in order by its own
    thread; a referral that no two checks held has
    one check at most past the status test, and it owes the mark of what it credited.
  * the window of a limiter, seen from any attempt no later one overtook, counts at least
    what it let through, so a full window refuses; a
    family has one live token, its latest, or one successor on its way; what the detector
    remembers of an account (devices, networks, last place, the failures since a success) is
    what the attempts recorded say, so its alerts are those they call for.
  * what went through a bucket since any request, together with the tokens left, is at most
    the burst and what flowed in since; what waits in the outbox was read after all that was
    delivered, up to the item under way, whose failures so far are the last of the history; the
    evaluator's state is the breach the samples say.

`GatewayBooksProofs`
: *CollateralBooksAreSound*: margin is what the pledges and loans gave and took, less what calls
  under way owe the margin and what they have reserved of a book already, both sums over the
  calls; `PeakIsPassed` adds that what a call read of the pledged value was at most the highest
  value since, under which the credit stays; interest rounds the same way for a larger debt.
  *PositionBooksAreSound*, from one invariant per desk. `WritesAreInOrder`: a holding whose
  writes did not overlap has one writer under way at most, and with none its position is the
  holding and what was traded since; the cost, the log of dividends and the margin are sums
  over the requests that changed them and have not reported it yet. `Priced`: adding to a
  position averages between the prices paid and loses less than a unit for each share, so the
  error is less than one unit for each addition (division with a product of unknowns, which the
  proof bounds by hand). `RunIsOrderly`: a liquidation that is past its snapshot found a breach,
  had not yet raised its gap before any sale, sold the larger notionals first, and has tried,
  skipped or still before it every long position of its snapshot.

`OrderPatternProofs`
: *OrderPatternsHold*: `OrderPatternsAreSound`, all of it, from `PatternsInv`, whose parts are
  local to a desk; a step of one desk leaves the others' parts alone.
  * `LimitInv`: what went through since a reservation, and the tokens left, is at most a
    bucket, what flowed in since and what was given back; what is used of a day covers what is
    kept of it, but for what earlier days gave back in it.
  * `ScheduleInv`: a schedule is a plan of its parent, and what was handed out is the slices
    marked so. That a plan releases the parent and no less is about the largest remainders: the
    whole shares fall short by less than the number of slices, ranks are a permutation, so as
    many slices get one more as are short. Sorting by time permutes the slices and keeps the
    sum (`SumRenamed`). A sorted order is given by ranks, which a lemma shows to be one to one.
  * `PovInv`: what was traded is at most the rate's share of the volume seen since the first
    observation, since every slice is at most the share of its own stretch.
  * `DiagramInv`: a diagram is the computed one. The payoff is linear between two strikes, so it
    is largest and smallest at a strike, at 0 or without end, and where it changes its sign a
    segment has its root between. The limit on the loss of each shape follows from the strikes
    and quantities its validation asks for, leg by leg.
  * `StrategyInv`, `BasketInv`, `CoverInv`: how far an execution is says which legs were
    accepted and which undone; the status of a basket counts its answers; a stop is of the fill
    that was answered, or none is and the journal says so.
  * `DisclosureInv` and `PaceInv`: an order let through with none before it had cooled off; the
    history holds the newest arrivals, so while times are taken in order a burst is in it,
    whose nudge no earlier one can have silenced but within its cooldown.
  * `DmaInv`: what a session submitted is, in order, what it read in sequence and valid; an
    order sent in two sessions is over, unanswered, in one of them, and one session is live at
    most, so a repeat was unanswered.

`SumTheorems`
: The sum of a function over a finite set is that over a part and the rest, changes by what
  one element changes, vanishes with its terms, respects order. Induction is by the smallest
  set that is an exception, since the library's induction theorems take an operator.

The proofs use the assumptions the modules state on their constants, which TLC evaluates
in every run, and the hypotheses named above, and nothing else. What is assumed of the
constants of the gateway's desks is what their handlers refuse or their types exclude: no empty
set of legs, basket or curve, no quantity, price, participation or clip of 0, no detector that remembers
fewer orders than a burst. **Only model-checked:**

* Liveness and what needs `ENABLED` (`EveryCallReturns`, `ThreadsMoveOn`,
  `EverySubmissionIsAcknowledged`, `TradingResumes`, `EveryRequestEnds`): beyond the prover.
* `FundsAreSound`, `QuotesAreSound`: not proved so far. Their parts are local to a registry, and
  several rest on sorting or on a scan of a table.

## 5. Findings

Each has a run that ends in its counterexample.

1. `walBackedOrderBook.rs:65` reopens a torn log for appending without truncating it; the
   next acknowledged record continues the torn line and is lost, and one more makes
   recovery refuse the file.
2. `withdrawalWorkflow.go:203` posts a payout without looking at the request again.
3. `idempotencyStore.go:182` stores the answer of a key only after the order was placed,
   so a crash in between lets its retry be placed a second time.

### What the passing models contain and the properties except

These are steps of the models. Each shortens what a property can say, and is named there.

* `orderBookCore.rs:578` (and `:196`) expects a trigger price that nothing checked for: a stop
  order without one is armed, and a trade, or once something has traded a status query, of anybody panics the
  matching-core thread; the network thread then waits in `pop` (`main.rs:221`). `EveryCallReturns`
  and `EveryLineIsHandled` have this as their only other end.
* `oms-gateway/cmd/server/main.go:1553` writes off, on a timeout, an order that may still trade.
* `main.go:1267` reads the holding before the lock under which it reserves from it, so a share
  can be promised twice.
* `main.go:4815` takes the liquidation's snapshot before the engine's mutex
  (`liquidationEngine.go:220`), and no sale repays the loan: two evaluations may both sell for one gap.
* `pgLedgerBook.go:188`: a commit whose answer is lost is reported as a failed post although it
  took place; a deposit is then credited again by the next callback, a payout or a debit by the
  next sweep. The properties allow one more posting for each such answer and nothing else.
* The exposure of an order whose hand-off failed (`main.go:1597`), of one the engine refused and
  of a paper order (`:1431`) is never released, although `:1060-1075` wants it released in any
  early return after the reservation. `ExposureIsAccountedFor` has it as its second term.
* The margin of a resting order that others fill, and of an order that is cancelled, is not
  released, although `preTradeRiskEngine.go:56-67` asks it of every caller: `MarginLeft` is that amount.
* `rateLimiter.go:43` is given a time read before the lock, so an attempt that a later one
  overtook meets a window the later one has pruned, and one more than the limit is admitted.
* `sessionStore.go:14` revokes a family while a rotation is on the way; the successor is issued
  after that and is live.
* `referralRewardsRegistry.go:18` says a reward is credited once. Two checks of one account that
  overlap both credit it, and a credit posted with its answer lost is posted again.
* `strategyLimiter.go:237` starts a day afresh for a time of an earlier day as well: one read
  before midnight that gets the lock behind one read after it opens both days again.
* A hand-off that timed out answers as accepted (`main.go:1387`, `:1553`): a strategy's leg or a
  basket's constituent may then be missing though counted as placed, and its undoing may open the
  opposite position. (Its order may also trade, like any written off.)
* `main.go:1628` sums every trade of the entry's reply, those of others' triggered stops too, so
  a protective stop can be larger than the fill it protects.
* `basketOrderExecution.go:146` converts the quantity that a negative cash constraint gives to an
  unsigned word, and such a basket passes the check of its cash.
* `main.go:799` takes the time of an order before the detector's lock, so a burst recorded out
  of order can go unnoticed.
* `main.go:4403` returns on any ledger error: a dividend that was posted and not heard of within
  two seconds is in the ledger and never in the margin.
* A redemption of less than half a step (`amcOrderRouter.go:243`) pays out and leaves the holding
  as it was; the reserve of several such redemptions may stay for good.
* Of instalment plans (`sipScheduler.go`): two sweeps at once place an instalment twice (`:243`
  says the second finds nothing due); a plan from the 31st moves to the 2nd or 3rd and stays
  there, past a month without an instalment (`:268`); after a pause every sweep catches one up,
  which `:171` denies; a plan that is stopped while a sweep holds it is executed once more
  (`:241`).
* `basketRebalancer.go:215` splits a lump sum so that parts "sum EXACTLY"; where rounding up
  leaves less than nothing for the last part, more is invested than was given.
* A position set by a corporate action does not reach the cost basis that marks it to market.
* A DMA client whose connection is lost cannot tell whether an unanswered line was submitted;
  its repeat is placed as well (`RepeatsWereUnanswered` says that nothing else is).
* `columnarTickStore.rs:31` calls its times always sorted; two feeds of one instrument append
  them out of order, and `market-data/src/main.rs:286` runs them beside each other.
* The value area of a profile grows greedily, which the doc (`volumeProfileAggregator.rs:36`)
  calls the smallest contiguous range; `ProfilesShowTheTicks` asks that it holds the share and
  that one of its ends is needed.
* A device that asks for watchlist changes after its last millisecond misses a second change in
  that millisecond; one whose log entry failed is missed by all; a failed read of the list is
  answered with an empty one.

Some hazards of the code lie outside what the properties ask:

* `WorkingSellsStayReserved` bounds the reservation from below only; what is reserved too long is not
  noticed. `QueuedOrdersAreHeldOnce` does not notice orders drained at an opening that a crash loses.
* `OnboardingIsSound` compares current structures, and a re-registration resets them; webhooks are
  followed within one life of the poller; a mandate cancelled or paused while its sweep runs is not
  told from one that was active; credit is compared with the highest collateral since it was
  checked, so collateral that leaves under it is not noticed.

## 6. Not modelled, and why

* *Parsing and layout of the wire protocol, the replay server and the replay harness*: text, and
  readers of a log that `WriteAheadLog` describes.
* *Market orders in `OrderSubmission`*: their notional is 0 (a gap the code names itself),
  so margin says nothing of them. Fractional orders are there only as paper positions.
* *Restarts of the gateway in `OrderSubmission`*: `OrderAdmission` has them; what a restart
  seeds from the ledger forgets the reservations of orders still resting.
* *The 24-hour expiry of stored answers, session phases, two opening handlers at once*.
* *The Postgres ledger's row locks and its snapshot of several statements*: a post is one step. *AML monitoring* only reports.
* *Wall clocks that run backward*, in every module that has a clock.
* *The fee of a stock loan, and repaying margin funding*, which no route reaches.
* *Cryptography* (passwords, tokens, signatures): its operations succeed or fail by identity.
* *The reverse proxy, UDP multicast, the random walk of the simulated feed, catalogues,
  questionnaires and the texts of verdicts*: nothing later reads a state they keep.
* *Calculators, quant-engine, reporting, the apps*: functions of their input or views of
  data; nothing feeds back into the services modelled.

## 7. Plan

Done: the engine with its threads and server, the order path, admission, the gateway's other
books, the ledger, the account services, funds and market data; proofs of every safety
property of the engine with the replay of its log, the order path, admission, the ledger and
the account services, and of all the gateway's books. Next, in this order:

1. The quote stream of `QuotesAreSound`: nothing is skipped, and a quiet client is current.
2. The orders and instalments of `FundsAreSound`: units held are those of the orders that were
   filled, sweep beside sweep.

And of the models: an abstract exactly-once payment that `DepositRail`, and
`WithdrawalWorkflow` with one sweep, implement; restarts in `OrderSubmission`.
