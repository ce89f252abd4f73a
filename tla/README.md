# exfer-honor: a TLA+ development

exfer-honor lets a merchant accept a signed quote, watch the chain for its
settlement, and deliver the goods exactly once, in the same database
transaction that records the quote as honored. This directory models that
program, checks the models with TLC, and proves the central results with TLAPS.
Source paths are relative to the repository root; most of the program is in
`src/`.

## 1. The system

| Part | State it keeps | Operations |
|---|---|---|
| Gate store, `src/adapters/sqlite-store.ts`, `ddl.ts`, `ports/store.ts` | `quote_seen`, `quote_consumed_outpoint`, the consumer's goods tables, one connection | upsertAccepted, getSeen, markObservedBeforeExpiry, reserveClaimOutpoint, runHonorTxn, sweep |
| Gate store on Postgres, `src/adapters/postgres-store.ts` | the same tables, a pool | the same, each an asynchronous transaction |
| Engine, `src/core/engine.ts`, `scorer.ts` | none between calls but the HTLC form's | register, markObserved, honor, canHonor, status, sweep |
| Plain form and binding spine, `src/forms/plain.ts`, `spine.ts` | none | discover, score |
| HTLC form, `src/forms/htlc.ts` | `claims`, a map in process memory | discover, score, prepare (phase A, phase B) |
| Service loop, `src/service/honor-service.ts` | `timer`, `ticking`, `settled` of each loop | onPaid, its tick, cancel |
| Chain source, `src/adapters/indexer-chain.ts`, transport `src/service/http-rpc.ts` | none | tip, settlements by quote_id, transactions, inputs, HTLC status; retried calls |
| ACCEPT bridge, key custody, `src/adapters/walletd-verifier.ts`, `keystore-custody.ts` | none | accept, controlsPayee: one call out each |
| Transaction decoder, datum codec, address derivation | none | pure |
| Test store, `src/core/fakes.test-helpers.ts` | two maps and a set of goods | those of the gate store |
| Testnet faucet, `examples/testnet-faucet/faucet.ts` | `drips`, the requests in flight | POST /faucet |
| Testnet loop daemon, `examples/testnet-loop/loop.ts` | `identities`, `loop_iterations`, `deliveries`, its onPaid loops | one round after the other |
| Registry, types, errors, version | none | constants |
| Conformance harness, merchant, devnet and swap examples | none of their own | scripts around the library |

How they interact. A consumer hands `onPaid` a quote. The loop calls
`engine.register` (one read and one write of `quote_seen`), then on every
interval `engine.markObserved` and `engine.honor`. `honor` reads the row, asks
the form for a verdict (which awaits the indexer, the node and the keystore many
times), lets an HTLC form `prepare`, and ends in `store.runHonorTxn`, which
locks the row, consumes the outpoint and calls the consumer's `deliver` inside
one transaction. `sweep` is the operator's call and deletes both tables' rows
past their `retain_until`. Everything meets in the two tables; the only other
shared state is the HTLC form's map. With `PostgresStore` several processes
share the tables and a gate is several statements.

What is hard:

- **Interleaving.** JavaScript interleaves at every `await`, and several loops,
  several processes and the operator share one database. Between the read of
  the row in `honor` and the lock at its end lie seconds of chain reads.
- **Stale reads.** `now` is taken when `honor` begins; the tip is read before
  the heights it is compared with; a lock's margin before the claim is sent.
- **Chain movement.** Blocks arrive, branches are replaced, transactions fall
  back to the mempool or disappear, between any two reads.
- **Crashes.** The tables survive, the calls in flight and the claims map do not.
- **Aging.** `sweep` deletes the very rows that stop a second delivery.
- **Partial failure.** Any port may throw; `deliver` may throw, or be async
  where the store is sync; `submitClaim` may throw after the node took the claim.
- **Progress.** A loop must end when its quote is delivered, declined or expired.

What makes each part correct:

- *store*: both gate writes and the goods commit together or not at all; a row
  is never rewritten; a reservation outlives every sweep.
- *engine*: one delivery per quote, and one per payment until the quote it paid
  is out of retention; what `honor` answers is true; deliveries fall inside the observation and retention window.
- *plain form*: an honor names an output that binds and was really buried; a
  sibling output masks nothing; a decline is earned by the clause it names.
- *HTLC form*: goods rest on a claim that no tolerated reorganisation reaches;
  a recorded claim is reserved, and delivers.
- *Postgres store*: a gate spread over statements still acts at once; gates and
  sweep never wait for each other in a circle; rows and goods stay together,
  whatever is answered.
- *ports*: what they answer was told by a server, and scripts and prevouts are
  read exactly; every call ends.
- *test store*: it does what SQLite does, or the tests show nothing.
- *faucet*: what it records was paid, and its limits are overrun only by what
  was in flight together or never recorded.
- *loop daemon*: its ledger says what happened, and keeps saying it.
- *loop*: no timer outlives its loop; `done` says "honored" only for goods
  delivered; every loop of a delivered or finally paid quote ends.

## 2. The modules

| Module | Models | Uses |
|---|---|---|
| `ExactlyOnce` | the promise: a log of deliveries, each fresh in its quote, and in its outpoint until the quote that outpoint paid is out of retention | |
| `GateStore` | the tables of the SQLite store and its operations, each atomic | |
| `HonorEngine` | concurrent calls, sweep, clock, restart | extends `GateStore`; instantiates `ExactlyOnce` |
| `PostgresGate` | the gate of several processes over one Postgres, statement by statement | extends `GateStore`; instantiates `ExactlyOnce` |
| `HonorService` | `onPaid` loops | instantiates `HonorEngine` |
| `PlainForm` | `scoreQuote` over the plain form, on a moving chain | |
| `HtlcForm` | the HTLC form inside `honor`, on a moving chain | instantiates `HonorEngine` |
| `TxCodec` | the decoder of `tx_hex` and the datum codec, as operators, with the node's encoder to check them against | |
| `RpcPorts` | chain source, ACCEPT bridge and key custody over the transport, attempt by attempt | extends `TxCodec` |
| `FakeStore` | the in-memory store of the tests | |
| `StoreParity` | that the engine meets the same store in the tests | extends `HonorEngine`; instantiates `FakeStore` |
| `Faucet` | the testnet faucet, requests at once | |
| `TestnetLoop` | the testnet daemon: rounds, ledger, leaked loops | |
| `HonorInvariants`, `PostgresInvariants` | the inductive invariants | extend `HonorEngine`, `PostgresGate` |
| `MC...` | small instances for TLC | |
| `...Proofs` | theorems | the module they are about, TLAPS |

### GateStore

`seen` and `consumed` are the two tables as functions over their primary keys,
`goods` the consumer's own rows in commit order. better-sqlite3 is synchronous,
so no other code of the process runs inside an operation, and a transaction
excludes other processes: one operation is one step. `RunHonorTxn` is the whole
transaction with `deliver` in it: `Lockable` is the WHERE clause of the
hard-lock, `Consumable` the primary-key insert (`single`) or the promote of a
`claim_pending` row (`promote`), `DeliverReturns` what the consumer's code may
do, `TxnResult` the way it ends, every way but `committed` being a rollback.
Amounts, addresses and the text encodings of a row are left out: nothing the
gate decides depends on them.

### HonorEngine

Each slot of `Calls` holds one call: `pc` says at which `await` it is suspended,
`call` its locals, `result` what it returned or threw. An action is the code
from one await to the next.

| Action | Code |
|---|---|
| `RegisterRead`, `RegisterWrite`, `RegisterPreScreenFails` | `register` to its first await, from it to the end, and its custody pre-screen |
| `ObserveRead`, `ObserveWrite` | `markObserved` |
| `HonorStart` | `honor` through `gateStep0` |
| `HonorScoreOk`, `HonorScoreFails` | the end of `scoreQuote` |
| `HtlcPhaseA`, `HtlcReserve`, `HtlcRecord`, `HtlcClaimBuried`, `HtlcNotReady` | `prepare` of the HTLC form, at the steps that touch the tables or the claims map |
| `HonorGate` | `runHonorTxn` and the `catch` around it |
| `StoreFails` | the driver throws in a write or in the gate, before `deliver` |
| `Sweep`, `Tick`, `Restart` | the operator, time, a crash |

What scoring finds is nondeterministic here, restricted only to outputs that
pay the quote (`Settles`); `PlainForm` and `HtlcForm` say how it comes about.
For a plain quote `honor` reads the tip once more before the gate and ignores
what it reads; that read can only throw, and is part of `HonorScoreFails`.
Processes that share the database share all of this; a restart of the model is
a restart of every process and the claims map is that of one.

### PostgresGate

`PostgresStore` does the same in asynchronous statements, so here the gate is
one action per statement of `runHonorTxn`, and other processes act in between.

| Action | Code |
|---|---|
| `Register`, `MarkObserved`, `Reserve` | one autocommitted statement each; it waits for a row that somebody is writing |
| `HonorStart` | `honor` reads the row and decides step 0 |
| `LockSeen`, `GetLock` | the UPDATE of `quote_seen`: at once, or after a wait |
| `Insert`, `Promote` | the write of the outpoint, by mode |
| `Commit` | `deliver` resolved and COMMIT took effect; the answer may still be lost |
| `DeliverThrows`, `DeliverRejects`, `DeliverSwallows` | the ways `deliver` may go wrong |
| `Fails` | a chain read throws, or the connection or the process is lost before COMMIT took effect |
| `SweepBegin`, `SweepRow`, `SweepNext`, `SweepCommit`, `SweepFails` | the two DELETEs of `sweep`, row by row |

What Postgres does is modelled from how the store uses it. The gate is
SERIALIZABLE: its snapshot is taken by its first statement, the UPDATE; a row it
has to wait for is lost to it when the writer commits (`Losers`, the raw
serialization failure) and won when the writer rolls back; the primary key of
`quote_consumed_outpoint` waits for an uncommitted writer and then answers for
the committed row; a promote works on the snapshot (`reserved`). `sweep` is READ
COMMITTED: each DELETE selects when it starts and then takes the rows one by
one. Row locks are derived from where each call is (`HeldBy`), not stored.
Serializable aborts beyond these are in `Fails`, which may strike at any time.
The claims map is one for all processes here, which allows more than the code
does. `MarkObserved` uses the clock at the statement: that `now` may be older is
`HonorEngine`'s subject.

### HonorService

A loop is a slot of the engine used for one call after another: `phase` is
where the code of `onPaid` is, `timer` its interval, `settled` its `done`
promise. `ticking` is `phase` being neither `between` nor `off`. `payment` is
what the chain shows: nothing, a shallow payment, a final one, or one that does
not bind; it may be reorganised away from any of these. The loop's calls are
the engine's actions. `paidInTime` is history: the quotes some payment for
which was on the chain before expiry.

### PlainForm

One call of `scoreQuote` at a time, `stage` by `stage`: the tip, the indexer's
list (in any order, possibly incomplete or out of date), one `get_transaction`
per settlement, then the loop of `score`, one candidate per step because the
spine awaits the keystore and the prevouts. `BindingSpine` keeps the order of
the clauses; its datum is asked of the index again, and an output the index no
longer lists reads as one without a datum. `DepthGate` compares the height
fetched with the tip read first. `Block` and `Reorg` move the chain, `Lists` and
`Drops` the index, between any two of these steps. `buried`, `lost` and
`unlisted` are history: what really was deep, what the node forgot, and what the
index did not list, while the call ran.

### HtlcForm

The steps of `HonorEngine` for HTLC quotes, each joined with what the form
reads from the chain or does to it. `recorded` is the claims map with its lock,
of which the engine's `claims` is the domain; `view` is what `prepare` was given
(the tip, the claim on record); `height` places each lock, our claim of it and
the sender's reclaim on the chain. `Consistent` is the part of the chain's rules
used: a spend follows its lock, a lock is spent once, the sender's arm opens
after the timeout. `Reorg` replaces at most `MaxReorgDepth` blocks, the depth
the program is configured to tolerate. Our claim of a lock is one transaction:
claiming it again sends the same one. Quotes start registered, and the clock
stands still: window and sweep are the concern of the engine's runs.

### TxCodec and RpcPorts

A text of hex is a sequence of byte pairs: `NaN` stands for a pair `parseInt`
cannot read, `odd` for half a byte at the end. A reader of `ByteReader` is an
operator from a position to the position after it, `Eof` where the code throws;
`ins` and `outs` of `DecodeTx` are its two loops. A byte has
`Base` values and an id `IdLen` bytes, so that lengths, values and flags keep
their places and TLC can enumerate every cut of a transaction. `EncodeTx` is
the node's side, written from the layout that lines 300-308 of
`indexer-chain.ts` give.

In `RpcPorts` one method runs at a time, since the adapters keep nothing
between calls. Each step is one attempt and what follows it: `AttemptFails` is a
dropped socket, a status that is not 2xx, or a body that is no JSON (the
`catch` of the transport retries all of them); `ErrorAnswered` an error member,
which is thrown at once; the rest are the answers, one action per method.
`Caught` is what the `catch` of a method makes of a rejected call. The discovery
is `FindSettlements` and one `JoinSettlement` per entry, and `NodeMoves` may act
between any two. `heard` is history: what the servers said. A null answer of
`get_transaction` is `NotFound`. `GetOutputDatum` decodes nothing: the indexer
answers a datum or none, flagged or not, and the adapter turns the flag around.

### FakeStore and StoreParity

`FakeStore` translates `FakeSyncStore` as it is written: its checks in its own
order, staged rows, goods as a set by quote. It is not given states of its own.
`StoreParity` maps the tables of `GateStore` onto it and says, of every step in
which the engine calls the store, that the same call made on the fake is
exactly that step, and its end one that gives the same outcome. So a test that
passes on the fake passes on the gate `GateStore` models.

### Faucet

A slot is a request: `Admit` is the handler up to the `transfer` it sends (the
three limits are read in one turn, after the body), `Transfer` is walletd
executing it, `Record` the insert when the answer arrives. `TransferFails` and
`Restart` may fall on either side of `Transfer`. `lost` is history: drips that
were executed and will never be recorded. walletd executes a `client_token`
once, so two requests for one address in one second are one payment and two rows.

### TestnetLoop

`pc` is where `main` and `runIteration` stand. `AcceptQuote` starts the onPaid
loop; `loops` has those of this process, the leaked ones included, each ticking
as in `HonorService` but in one step, since the gate has modules of its own.
`done` is handled from `await` on only: `ChainFault` of any other loop ends the
process, as the runtime does for an unhandled rejection. `LabelFailed` is the
UPDATE in `main`'s catch, with its subquery for the newest row. `EnsureIdentity`
may be repeated by a process that restarted; an address that was generated and
not stored is lost, which no state shows. `answering` says whether what a tick
asks of the ports, the driver and `deliver` works just now, and turns at any
time: while it does not, a tick is `TickRetries` and the loop polls on, whether
its payment is buried or not. A payment that is buried stays buried in
`PaymentMoves`. Balances decide only how long
`ensureBuyerFunded` takes and whether it throws.

## 3. The runs

Passing runs:

| Run | Question | Instance |
|---|---|---|
| `engine_gate` | Do two quotes that share an output deliver once each, and each output once until the quote it paid is out of retention, in the window, with true answers and tables that agree, whatever calls, sweeps, driver faults and restarts do? Does the engine implement `ExactlyOnce`, and does the test store do the same? | a plain quote two outputs pay, an HTLC quote one of them pays; 2 calls; expiries 2 and 1, recheck 1, clock to 4, calls up to 2 long |
| `postgres_gate` | Is the gate still one step when its statements interleave with another process, the sweep and lost connections? Can they wait in a circle? | a plain and an HTLC quote that share an output; 2 calls, one sweep at a time; expiries 2 and 1, recheck 1, clock to 4, calls up to 2 long |
| `service_loops` | Cancel, restart, sweep and reorganisation against two loops for one quote; do loops end once the quote is delivered or finally paid? | 1 plain quote, 2 loops, fair; expiry 1, recheck 0, clock to 2 |
| `plain_scoring` | Verdicts against a chain and an index that move between the reads | 2 outputs of 6 kinds, depth 2, 3 blocks |
| `htlc_claim` | Two concurrent honors, a binding lock and one of the wrong amount; does a recorded, buried claim deliver? | reorganisations of 1, depth 1 (margin 3), 4 blocks, timeout 3, fair |
| `rpc_ports` | Can silence look like "not there", "not mine" or "not valid"? Can a discovery lose or mix settlements? Can a cut or non-canonical text be read? Do calls end? | 2 transactions with every kind of output, every cut of them; listings of up to 3 outpoints, one of them out of range; 5 attempts |
| `faucet` | By how much can budget and cooldowns be overrun? | 2 requests at once, 2 addresses, 2 ips, 3 payments; amount 2, budget 3, clock to 3 |
| `testnet_loop` | Is the ledger true and final, with leaked loops, faults and restarts? Does a round of a buried payment end, once retryable faults and failed deliveries are over? | 2 rounds |

Runs that end in a violation show where the program does not do what one of its
own documents, comments or tests says:

| Run | The line | What the code does |
|---|---|---|
| `service_first_seen_late` | first seen after expiry declines | every poll sets the observation latch, payment or not |
| `service_chain_fault` | chain faults retry | the chain source throws plain errors, which end the loop |
| `plain_shallow` | a binding but shallow candidate waits | a mismatched output listed later turns it into a decline |
| `htlc_restart` | reserve, promote, exactly one delivery | a restart forgets the claim; past the margin it never delivers |

Known limits that no run is spent on:

- The lock trusts the `now` of the beginning of `honor`. Deliveries therefore
  fall inside the window with a slack of `CallSpan` (`DeliveredInWindow`), where
  `docs/exfer-honor-spec.md`, section 5.3, asks for a commit-time `now`; and a
  call that outlives the recheck window could deliver again after a sweep and a
  second register (`CallsFitWindow` excludes it).
- The consumed row ages with the quote it paid. After a sweep past that quote's
  retention the same output can pay another quote that is still open, and goods
  move twice for one payment, where `README.md:52-53` says a payment can never
  deliver twice. `OneDeliveryPerRetention` and `ExactlyOnce` state what holds: not
  before that retention is over. Both gates' instances reach the second delivery.
- An output that the index drops between the listing and its score is declined
  `datum_unhonorable`, which ends a loop, though its datum is good and the node
  knows it (`spine.ts:66`). `DeepIsHonored` and `DeclineIsEarned` exempt it.
- A quote that is never paid is polled forever: nothing ends its loop at expiry.
  The testnet daemon awaits such a loop, so one dropped settlement stops it for
  good while `/healthz` stays healthy; `AwaitEnds` speaks of buried payments, and
  of these only once retryable faults and failed deliveries are over: while they
  last the round hangs just so.
- Two sweeps at once over Postgres are not covered, nor is the faucet's cooldown by
  ip, which `CooldownHolds` does not speak of.
- With two locks under one quote_id, phase B checks the depth of the claim on
  record and the gate promotes the lock listed first in this tick. If that one
  was never reserved the quote is declined `outpoint_consumed`, with our claim
  buried (`engine.ts:206`).
- Over Postgres, a `deliver` that caught the error of one of its own statements
  leaves an aborted transaction; COMMIT ends it with a rollback and no error,
  and `honor` answers honored (`postgres-store.ts:284`; `DeliverSwallows`).
  Tables and goods still agree.
- Over Postgres, a `deliver` whose promise rejects is not reported as
  `delivery_failed`: the bridge sees a synchronous throw only, and the raw error
  surfaces (`engine.ts:218`; `DeliverRejects`). The gate does roll back.
- A 4xx status is retried like a dropped socket: the error that says "don't spin
  on it" is thrown inside the `try` whose `catch` retries it (`http-rpc.ts:70-98`).
- `isStrictDecodeFault` looks for "expected" anywhere in a message, and so finds
  it in "Unexpected end of JSON input" and "UpstreamUnexpected": a transient
  fault becomes a terminal `malformed_quote`, which the comment above it excludes
  (`walletd-verifier.ts:142-168`). `isNoSuchKey` looks for "no such" and "not
  found", which "No such file or directory" and "Method not found" have too: an
  IO fault or a server that is no keystore becomes a terminal
  `payee_not_controlled`, which `keystore-custody.ts:15-19` excludes. Both
  misreadings are in `RpcPorts`; `AbsenceWasTold` says that only an error member
  can be so misread, never a request that was not answered, and says nothing of
  `malformed_quote`.
- `hexToBytes` reads "1g" as 1: `parseInt` stops at the first character that is
  no digit, and only a pair with none is refused.
- A loop of the daemon that faults before its round awaits it, or after its round
  failed, ends the process with an unhandled rejection, where `loop.ts:23` says
  the daemon survives such errors. A round labelled failed may still deliver
  afterwards, since nothing cancels its loop.
- The faucet's "hard daily budget" is overrun by what is in flight together, and
  by drips whose answer was lost or whose process was stopped: SIGTERM does not
  wait for them.
- A transaction the node has just dropped reads as one without prevouts, and the
  payment is declined `payer_binding_failed` (`DeclineIsEarned` allows it).
- Blocks that arrive between `prepare`'s tip and the submission of the claim are
  not counted against the margin.
- Over Postgres the loser of a race is told a raw serialization failure where
  `errors.ts` promises `already_honored`, and a connection lost at COMMIT leaves
  the caller with an error for goods that moved; calling `honor` again answers
  `already_honored` in both cases.

### Bounds, and why they are enough

`MaxTime` bounds the clock. Windows are short (expiries 1 and 2, recheck 0 or 1),
so the clock passes expiry, the end of retention and, in `engine_gate`, a sweep
after it and a registration of the same quote again. The two quotes that share an
output expire apart, so that one is swept with its outpoint while the other can
still be paid. `CallSpan` bounds the life of a
call in clock units: with 2, a call spans expiry and the end of retention, the
longest life `CallsFitWindow` allows at recheck 1. Two calls give every order of
an honor and a second honor, register or observe, with sweeps and restarts
between any two of their steps; which of two calls is stale does not depend on a
third. In `postgres_gate` two gates, one sweep and the autocommitted statements
give every pair of conflicting writers of a row and the circles of two and three
waiters. `MaxTip` bounds the chain: 3 blocks at confirmation depth 2 let a
payment be mined, buried, and reorganised to another height; 4 blocks at margin
3 let a lock and its claim be mined, buried and lost, the timeout (3) pass, and
the sender reclaim. `Reorg` in `PlainForm` has no depth limit. `FewerMoves` leaves out moves of the
world that no verdict can tell: between an answer and the next call, and an index
that lists more once it has been asked. In `rpc_ports` every prefix of a transaction is
tried, and the two bodies between them have every combination of optional fields
that changes the decoder's path; three entries let the node change its mind
before, between and after joins. In `faucet`, `MaxPayments` bounds payments and
records: three are one more than two slots can overlap, so a third follows a lost
or a recorded one, and the clock passes every cooldown. Two rounds of
`testnet_loop` give a leaked loop and a running round; the proofs cover any
number. In `engine_gate`, `postgres_gate` and `plain_scoring` a VIEW leaves out of a
state what neither a step nor a property reads any more: the locals and the answer
of a call that is over, and the chain under a verdict that has been given. Calls, and outputs in `PlainForm`, are interchangeable and declared symmetric in the runs that check
no liveness.

### Fairness

`HonorService.FairSpec` is weak fairness of each loop's own steps: the event
loop runs every continuation that is ready and every interval that is due, and
every port answers, with an error if need be (`fetch` gives up on headers and
bodies that do not come by its own default timeouts, and the transport stops
after five attempts, which `CallsEnd` shows).
Nothing is assumed of payments, the clock, cancel, sweeps or restarts.
`HtlcForm.FairSpec` is weak fairness of `honor` being called again and getting
on, which is what a loop does. `RpcPorts.Spec` is weak fairness of the attempt in flight settling: `fetch`
answers or rejects, and timers fire. `TestnetLoop.Spec` is weak fairness of each
loop's tick, which its interval starts again whatever it meets, and of `main`
taking up a settled `done`. That lock and payment stay, that ports do not
fail forever, and that `deliver` succeeds at last are premises of the properties
themselves (of `AwaitEnds`, that `answering` holds at last). The one exception is
`TestnetLoop`, whose chain does not take a buried payment back.

## 4. The proofs

Every invariant and action property that a passing run checks, but `ReadsAreExact`,
is also proved of its specification: for any sets of quotes, outputs, calls, loops, requests and
transactions, any windows, depths and limits, any bound on the clock, the chain
and the number of rounds. What liveness and the decoder need is said at the end.

| Module | Theorem | States |
|---|---|---|
| `HonorEngineProofs` | `TypeCorrect` | types; a call bound for the gate carries an output that settles its quote |
| | `GateInvariant` | `GateInv`, the inductive invariant of the gate |
| | `TablesAndGoodsAgree`, `AnswersAreBacked` | `GateMatchesGoods`, `AnswersAreTrue` |
| | `EngineImplementsPromise` | `ImplementsPromise`: the engine refines `ExactlyOnce` |
| | `QuoteDeliveredOnce`, `PaymentDeliveredOnce` | `OneDeliveryPerQuote`, `OneDeliveryPerRetention` |
| | `ReservationsHold`, `DeliveriesInWindow`, `RecordsAreWriteAhead` | the action properties `ReservationHeld`, `DeliveredInWindow`, `RecordIsWriteAhead` |
| | `FakeActsAlike` | `TestStoreAgrees`: the tests' store does what SQLite does |
| `PostgresGateProofs` | `TypeCorrect`, `LocksHold` | types; `LockInv`: what a gate found in its snapshot is still there to publish |
| | `GateActsAtOnce` | `GateIsAtomic`: every step that moves goods is `RunHonorTxn`, whole |
| | `NobodyWaitsInACircle` | `NoCircularWait` |
| | `SharedTablesMatchGoods` | `GateMatchesGoods` of the shared tables |
| | `SharedGateImplementsPromise` | `ImplementsPromise`: the gate of several processes refines `ExactlyOnce` |
| `HonorServiceProofs` | `ServiceRunsTheEngine` | every behaviour of the loops is one of `HonorEngine` |
| | `TypeCorrect`, `TimersStop`, `HonoredIsDelivered` | `TypeOK`, `NoTimerAfterSettling`, `HonoredMeansDelivered` |
| | `LoopsDeliverOnce`, `LoopsSpendPaymentOnce` | one delivery per quote, and per payment until its quote is out of retention, under any number of loops |
| `PlainFormProofs` | `TypeCorrect`, `HonoredWasBuried`, `DeepHonored`, `DeclinesEarned` | `TypeOK`, `HonorWasBuried`, `DeepIsHonored`, `DeclineIsEarned` |
| `HtlcFormProofs` | `TypeCorrect`, `RecordedReserved`, `DeliveredOnBuried` | `TypeOK`, `RecordedIsReserved`, `DeliveredOnBuriedClaim` |
| | `HtlcTablesAndAnswers` | the engine's agreement of tables, goods and answers, for HTLC quotes on their chain |
| `RpcPortsProofs` | `TypeCorrect`, `AbsenceTold`, `DiscoveryWhole` | `TypeOK`, `AbsenceWasTold`, `DiscoveryIsWhole` |
| `ExampleProofs` | `LedgerHolds`, `StatusHolds` | `LedgerIsTrue`, `StatusIsFinal` of the daemon |
| | `RecordedPaid`, `OverrunBounded`, `CooldownHeld` | `RecordedWasPaid`, `OverrunIsBounded`, `CooldownHolds` of the faucet |

`GateStoreProofs` has the lemmas about the store's operations that both gates
use. `GateInv`, `OnceInv` and `PaymentInv` are not checked by a run of their own: the proofs
cover every instance.

### The arguments

**Engine.** `GateMatchesGoods` is not inductive alone: a sweep that
deleted the `quote_seen` row and kept the consumed one, or conversely, would
break it. So `GateInv` adds that both rows carry the same retention
(`RetentionInv`), which holds because every row and every suspended call carries
the dates of the signed quote (`RowsInWindow`, `CallsInWindow`). Exactly-once
needs more, since a sweep removes what stops a second delivery: `OnceInv` says
that a delivered quote is still honored, or is `Spent`: past its retention, its
row absent or registered again without a latch, so that no call young enough to
exist can lock it. For payments `PaymentInv` says that the outpoint of a delivery
is consumed, by a row of the date of the quote it paid, until that date is over:
this needs no assumption, since a sweep asks the row's own date. The step lemmas have one case per action; the temporal theorems combine them.

**Postgres.** `LockInv` is inductive as it stands, with the types: a gate
that holds or awaits its row still finds it lockable, because whoever commits a
write to that row aborts the waiters, and no two parties hold one row. A commit
then writes exactly what `RunHonorTxn` would write at that instant, which is
`GateActsAtOnce`. Every party takes its quote before its outpoint, and so does
the sweep (`SweepOrder`): whoever waits for a quote holds no outpoint, which
leaves no circle. None of these needs an assumption about windows. That tables and
goods agree does: the two DELETEs of `sweep` select at different instants, and an
honor that commits between them must not lose one of its rows. `SweepInv` says
why it cannot, when calls fit the recheck window: what is due was touched before
the sweep's `now`, so both DELETEs find both rows. `OnceInv` is then that of the
engine, over statements. Only one sweep is in the specification at a time, so the
circle theorem is about any number of gates and autocommitted statements and that
one sweep.

**Loops.** A loop calls the engine as any caller may, so each step of
`HonorService` is one of `HonorEngine` or none (`ServiceRunsTheEngine`), and
`GateInv`, `OnceInv` and `PaymentInv` hold under it. The loop's own properties need
`CallsAreLoops`: a call in flight is that of its loop, on its loop's quote.

**Plain form.** The hard fact is `ReadsInv`: a height that was read is compared
with a tip that was read before it, so whatever looks deep to the loop was deep
on the chain at the later of the two reads, and stays in `buried` when a
reorganisation takes it away. `VerdictInv` adds what the loop has passed over so
far, up to what the node forgot (`lost`) or the index dropped (`unlisted`). `Reorg` has no depth limit there, so no assumption about the chain is used.

**HTLC form.** Steps map to the engine's as for the loops. `ViewInv` bounds the
tip that `prepare` holds by the real one; `SafeInv` says that a call past phase B,
and every delivered quote, has a claim buried so deep that `MaxReorgDepth` blocks
do not reach it, which uses what the construction asserts of `ClaimMargin`.
`ReservedInv` follows the reservation from `reserveClaimOutpoint` to the claims
map: between the two other calls run and the process may stop. Clock and sweep are
not in this specification; that no sweep takes a reservation is `RetentionInv`.

**Ports.** `HoldsInv` says what a method holds: nothing but its argument when it
makes one request, and in a discovery one lookup and one candidate for each
entry so far, in order (`Joined`). `ReportInv` says of a method that returned
what it heard; nothing about the decoder is assumed in either.

**Test store.** There is one lemma per operation, from the types alone, and
`StepAgrees` finds in each action of the engine the operation it calls. The
hardest case is the gate: the two stores check in different orders, and
`EndsAlike` shows that the order never changes the answer.

**Daemon.** `LedgerIsTrue` is not inductive: that a round recorded honored has
delivered needs that its loop delivered before it said so, and that goods rest on
a buried payment needs that no payment is ever made twice for a round. `LoopInv`
adds that an honored loop has delivered, that a round which has not settled has no
payment, and that the newest row is open whenever `pc` is in a round.

**Faucet.** `OverrunIsBounded` counts payments, and the code counts rows. The
inductive form, `BudgetInv`, counts the rows of the window and all requests
being served: an admission sees the rows only, and so adds at most the other
slots to what the budget allows; a record turns a request into a row; time and
failures only take away. `PaidInv` then maps every counted payment, one to one,
to a row of the window or to a request (`ExecutedAreCounted`). For the cooldown,
`RecordedCools` finds the latest row of an address, which is what the code's MAX
returns, and `CoolInv` speaks of requests not yet executed too.

### What is assumed

The named constants' assumptions (`StoreAssumption`, `EngineAssumption`,
`PostgresAssumption`, `ServiceAssumption`, `FormAssumption`, `HtlcAssumption`,
`PortsAssumption`, `LoopConstants`, `FaucetConstants`) are types, finiteness
where something is counted, that `NULL` and its like are no data, and of
`HtlcAssumption` that the depths are natural numbers. TLC evaluates each.

One hypothesis is about how the program is used: `CallsFitWindow` (no call lives
longer than the recheck window and a unit). `EngineImplementsPromise`,
`QuoteDeliveredOnce`, `SharedGateImplementsPromise`, `LoopsDeliverOnce` and
`SharedTablesMatchGoods` need it. The code does not enforce it, and the known
limits of section 3 say what happens without it. `PaymentDeliveredOnce` and
`LoopsSpendPaymentOnce` do without. Nothing is assumed of the expiries of quotes
that share an output.

Two are about the decoder: `WireIsExact` (a text that decodes gives the
transaction's own fields) and `TxsSpend` (a transaction has inputs).
`DiscoveryWhole` needs the first, `AbsenceTold` both, for `getTxInputs` only. TLC
evaluates `TxsSpend`; of `WireIsExact` it checks what the properties need, every
script, prevout and candidate that is read from any text of the bodies, cut
anywhere (`ReadsAreExact`, `DiscoveryIsWhole`). All the other theorems hold
without any of these.

### Only model-checked

- Liveness, with fairness and ENABLED, is out of the prover's reach:
  `DeliveredLoopsEnd`, `FinalPaymentEnds`, `RecordedClaimDelivers`, `CallsEnd`,
  `AwaitEnds`.
- `ReadsAreExact`, and `WireIsExact` for every transaction: what the decoder's two loops compute is
  induction over data, for which no installed prover can use the library's
  theorems.
- `HtlcForm` starts with its quotes registered, which is no initial state of
  `HonorEngine`; its steps are the engine's, and the engine's invariants are
  proved of it from its own `Init`.

## 5. What is not modelled

- `canHonor` and `status` change nothing.
- `listHonorable` and `isOutpointConsumed`, reads without a caller.
- Address derivation, a hash; scripts are compared for equality only.
- Back-off times, the text of errors beyond what the classifiers look for, and
  the values of the fields that `getHtlc` and `toAcceptedQuote` copy.
- `submitClaim` and the preimage lookup of the adapters, which pass a call on.
- Construction (ports from URLs, the claim-margin assertion), which happens
  before any state exists; `ClaimMargin` is defined by what the assertion demands.
- The conformance harness, whose vectors were read for the lines the violation
  runs quote, and the fakes that answer what a test scripts.
- Metrics and health pages of the two daemons; the merchant, devnet and swap
  examples, which call the library in sequence and stop at the first failure.
- The registry and the type-level contract: nothing there changes at run time.

## 6. Plan

Done: every component with state of its own, and every safety property of a
passing run proved.

Next:

1. A premise that could go: `CallsFitWindow` for one instance, by the age of the
   calls that are there.
2. `WireIsExact` without the loops: that a reader never reads past its text, for
   any text, from the readers alone.
3. What a fault does to a loop and to a reservation, as action properties: a
   chain fault ends a loop and nothing else; a restart forgets claims only.
