---------------------------- MODULE HonorEngine ----------------------------
(***************************************************************************)
(* The engine of createHonorEngine over a synchronous Store: concurrent    *)
(* calls of register, markObserved and honor that interleave wherever the  *)
(* code awaits, the retention sweep, the clock, and process restarts.      *)
(* What the chain says is the environment's choice at every read; module   *)
(* PlainForm says how a verdict follows from what was read.                *)
(***************************************************************************)
EXTENDS GateStore

CONSTANTS
  Calls,          \* slots for calls in flight
  Expiry,         \* Expiry[k]: expiresAt of the signed quote
  RecheckWindow,  \* config.maxRecheckWindow
  Form,           \* Form[k]: "plain" or "htlc"
  Settles,        \* Settles[k]: outputs that pay quote k in full
  MaxTime,        \* bound on the clock
  CallSpan        \* longest life of a call, in clock units

VARIABLES
  clock,          \* Clock.now() of every process on this store
  pc,             \* where each call is suspended
  call,           \* its local variables
  result,         \* what it returned or threw
  claims          \* quotes in the in-process map of submitted HTLC claims

callVars == <<pc, call, result>>
vars == <<seen, consumed, goods, clock, pc, call, result, claims>>

ASSUME EngineAssumption ==
  /\ Expiry \in [Keys -> Nat]
  /\ RecheckWindow \in Nat
  /\ Form \in [Keys -> {"plain", "htlc"}]
  /\ Settles \in [Keys -> SUBSET Outpoints]
  /\ MaxTime \in Nat /\ MaxTime < Forever
  /\ CallSpan \in Nat

Retain(k) == Expiry[k] + RecheckWindow

GateMode(k) == IF Form[k] = "htlc" THEN "promote" ELSE "single"

Suspended == {"register.write", "observe.write", "honor.score",
              "honor.prepare", "htlc.reserve", "htlc.record", "honor.gate"}

InFlight(c) == pc[c] \in Suspended

\* Suspended with an output in hand.
Carrying == {"honor.prepare", "htlc.reserve", "htlc.record", "honor.gate"}

Declines == {"already_honored", "expired_unobserved", "outpoint_consumed",
             "unsettled"}  \* any other reason of the binding spine

\* What a call throws: HonorErrors, a plain Error of an adapter or of the store's
\* driver, the consumer's own error, the store's refusal of an async deliver.
Throws == {"keystore_fault", "malformed_quote", "adapter_error", "store_error",
           "deliver_error", "async_deliver"}

Results == Declines \cup Throws \cup
  {"none", "created", "existed", "observed", "wait", "htlc_claim_pending",
   "honored", "delivery_failed"}

Local == [key  : Keys \cup {NULL},
          now  : Nat,
          row  : Nat,                    \* retainUntil of the row it read
          cand : Outpoints \cup {NULL}]

Frame(k, now, row, cand) == [key |-> k, now |-> now, row |-> row, cand |-> cand]

NoLocal == Frame(NULL, 0, 0, NULL)

CallTypeOK ==
  /\ pc \in [Calls -> Suspended \cup {"idle", "done"}]
  /\ call \in [Calls -> Local]
  /\ result \in [Calls -> Results]
  /\ \A c \in Calls : InFlight(c) => call[c].key \in Keys
  /\ \A c \in Calls : pc[c] \in Carrying => call[c].cand \in Settles[call[c].key]

\* A call on its way to the gate carries an output that settles its quote.
TypeOK ==
  /\ StoreTypeOK
  /\ clock \in Nat
  /\ CallTypeOK
  /\ claims \subseteq Keys

Init ==
  /\ StoreInit
  /\ clock = 0
  /\ pc = [c \in Calls |-> "idle"]
  /\ call = [c \in Calls |-> NoLocal]
  /\ result = [c \in Calls |-> "none"]
  /\ claims = {}
-----------------------------------------------------------------------------
\* A new call by the consumer in slot c, suspended at its first await.
Begin(c, k, to, row) ==
  /\ pc' = [pc EXCEPT ![c] = to]
  /\ call' = [call EXCEPT ![c] = Frame(k, clock, row, NULL)]
  /\ result' = [result EXCEPT ![c] = "none"]

\* A call that ends in the turn that began it.
Answer(c, k, r) ==
  /\ pc' = [pc EXCEPT ![c] = "done"]
  /\ call' = [call EXCEPT ![c] = Frame(k, 0, 0, NULL)]
  /\ result' = [result EXCEPT ![c] = r]

\* A suspended call returns r (or throws), keeping only what it answered about.
Return(c, r) ==
  /\ pc' = [pc EXCEPT ![c] = "done"]
  /\ call' = [call EXCEPT ![c] = Frame(@.key, 0, 0, @.cand)]
  /\ result' = [result EXCEPT ![c] = r]

Resume(c, to) ==
  /\ pc' = [pc EXCEPT ![c] = to]
  /\ UNCHANGED result
-----------------------------------------------------------------------------
\* register: the read that decides whether there is anything to write.
RegisterRead(c, k) ==
  /\ ~InFlight(c)
  /\ IF Present(k) THEN Answer(c, k, "existed")
                   ELSE Begin(c, k, "register.write", 0)
  /\ UNCHANGED <<storeVars, clock, claims>>

\* The write, after the await: retainUntil comes from the signed quote.
RegisterWrite(c) ==
  /\ pc[c] = "register.write"
  /\ LET k == call[c].key IN UpsertAccepted(k, Expiry[k], Retain(k))
  /\ Return(c, "created")
  /\ UNCHANGED <<clock, claims>>

\* preScreenPayeeCustody: a definitive no, or an unavailable keystore, throws.
RegisterPreScreenFails(c, r) ==
  /\ pc[c] = "register.write"
  /\ r \in {"malformed_quote", "keystore_fault"}
  /\ Return(c, r)
  /\ UNCHANGED <<storeVars, clock, claims>>

\* markObserved(key, clock.now()): the row is read, the latch written later.
ObserveRead(c, k) ==
  /\ ~InFlight(c)
  /\ IF Present(k) /\ clock < seen[k].expiresAt /\ ~seen[k].observed
       THEN Begin(c, k, "observe.write", 0)
       ELSE Answer(c, k, "observed")
  /\ UNCHANGED <<storeVars, clock, claims>>

ObserveWrite(c) ==
  /\ pc[c] = "observe.write"
  /\ MarkObservedBeforeExpiry(call[c].key, call[c].now)
  /\ Return(c, "observed")
  /\ UNCHANGED <<clock, claims>>
-----------------------------------------------------------------------------
\* honor: now is captured once, then the row is read and step 0 decided on it.
HonorStart(c, k) ==
  /\ ~InFlight(c)
  /\ \/ ~Present(k) /\ Answer(c, k, "expired_unobserved")
     \/ Honored(k) /\ Answer(c, k, "already_honored")
     \/ /\ Present(k) /\ ~Honored(k)
        /\ Begin(c, k, "honor.score", seen[k].retainUntil)
  /\ UNCHANGED <<storeVars, clock, claims>>

\* The chain reads of scoreQuote end in a wait, a decline, or a fault.
HonorScoreFails(c, r) ==
  /\ pc[c] = "honor.score"
  /\ r \in {"wait", "unsettled", "keystore_fault", "adapter_error"}
  /\ Return(c, r)
  /\ UNCHANGED <<storeVars, clock, claims>>

\* Variant for the runs: an output is taken to the gate whoever it pays.
ScoreAnyOutput(c, o) ==
  /\ pc[c] = "honor.score"
  /\ Resume(c, IF Form[call[c].key] = "htlc" THEN "honor.prepare" ELSE "honor.gate")
  /\ call' = [call EXCEPT ![c] = Frame(@.key, @.now, @.row, o)]
  /\ UNCHANGED <<storeVars, clock, claims>>

\* They find output o final: a plain quote goes to the gate, an HTLC to prepare.
HonorScoreOk(c, o) ==
  /\ pc[c] = "honor.score"
  /\ o \in Settles[call[c].key]
  /\ Resume(c, IF Form[call[c].key] = "htlc" THEN "honor.prepare" ELSE "honor.gate")
  /\ call' = [call EXCEPT ![c] = Frame(@.key, @.now, @.row, o)]
  /\ UNCHANGED <<storeVars, clock, claims>>

\* HTLC phase A or B finds the lock, the margin, the preimage or the claim's
\* depth not there yet, or a port throws, the store's reservation included.
HtlcNotReady(c, r) ==
  /\ pc[c] \in {"honor.prepare", "htlc.reserve"}
  /\ r \in {"wait", "adapter_error"}
  /\ Return(c, r)
  /\ UNCHANGED <<storeVars, clock, claims>>

\* No claim is recorded in this process: phase A, up to its reservation.
HtlcPhaseA(c) ==
  /\ pc[c] = "honor.prepare"
  /\ call[c].key \notin claims
  /\ Resume(c, "htlc.reserve")
  /\ UNCHANGED <<storeVars, call, clock, claims>>

\* The claim is submitted; its outpoint is reserved before it is recorded.
HtlcReserve(c) ==
  /\ pc[c] = "htlc.reserve"
  /\ ReserveClaimOutpoint(call[c].key, call[c].cand)
  /\ Resume(c, "htlc.record")
  /\ UNCHANGED <<call, clock, claims>>

\* The claim is remembered in process only, and this tick answers "wait".
HtlcRecord(c) ==
  /\ pc[c] = "htlc.record"
  /\ claims' = claims \cup {call[c].key}
  /\ Return(c, "htlc_claim_pending")
  /\ UNCHANGED <<storeVars, clock>>

\* Phase B: our recorded claim is buried claimMargin deep.
HtlcClaimBuried(c) ==
  /\ pc[c] = "honor.prepare"
  /\ call[c].key \in claims
  /\ Resume(c, "honor.gate")
  /\ UNCHANGED <<storeVars, call, clock, claims>>

\* The driver throws in a write or in the gate transaction, before deliver (the
\* file is busy or full): nothing is written and the raw error surfaces.
StoreFails(c) ==
  /\ pc[c] \in {"register.write", "observe.write", "honor.gate"}
  /\ Return(c, "store_error")
  /\ UNCHANGED <<storeVars, clock, claims>>

\* What honor makes of the end of the gate transaction.  A consumer throw is
\* a value, or rethrown under rethrowDeliveryErrors.
Outcomes(txn) ==
  CASE txn = "committed"            -> {"honored"}
    [] txn = "seen-already-honored" -> {"already_honored"}
    [] txn = "expired-window"       -> {"expired_unobserved"}
    [] txn = "outpoint-consumed"    -> {"outpoint_consumed"}
    [] txn = "deliver-threw"        -> {"delivery_failed", "deliver_error"}
    [] txn = "async-deliver"        -> {"async_deliver"}

\* The gate transaction, at the now captured when honor began.
HonorGate(c, ret) ==
  LET k == call[c].key
      o == call[c].cand
  IN /\ pc[c] = "honor.gate"
     /\ RunHonorTxn(k, o, call[c].now, call[c].row, GateMode(k), ret)
     /\ \E r \in Outcomes(TxnResult(k, o, call[c].now, GateMode(k), ret)) :
          Return(c, r)
     /\ UNCHANGED <<clock, claims>>
-----------------------------------------------------------------------------
\* sweep(now), for any horizon up to the clock.
Sweep(now) ==
  /\ now <= clock
  /\ SweepTables(now)
  /\ UNCHANGED <<clock, callVars, claims>>

\* Time passes, but no call outlives CallSpan.
Tick ==
  /\ clock < MaxTime
  /\ \A c \in Calls : InFlight(c) => clock + 1 <= call[c].now + CallSpan
  /\ clock' = clock + 1
  /\ UNCHANGED <<storeVars, callVars, claims>>

\* The process dies and restarts: every call and the claim map are lost, the
\* committed tables are not.
Restart ==
  /\ \E c \in Calls : pc[c] # "idle"
  /\ pc' = [c \in Calls |-> "idle"]
  /\ call' = [c \in Calls |-> NoLocal]
  /\ result' = [c \in Calls |-> "none"]
  /\ claims' = {}
  /\ UNCHANGED <<storeVars, clock>>

Consumer(c) ==
  \E k \in Keys : RegisterRead(c, k) \/ ObserveRead(c, k) \/ HonorStart(c, k)

Continue(c) ==
  \/ RegisterWrite(c)
  \/ \E r \in Results : RegisterPreScreenFails(c, r)
  \/ ObserveWrite(c)
  \/ \E r \in Results : HonorScoreFails(c, r)
  \/ \E o \in Outpoints : HonorScoreOk(c, o)
  \/ \E r \in Results : HtlcNotReady(c, r)
  \/ HtlcPhaseA(c)
  \/ HtlcReserve(c)
  \/ HtlcRecord(c)
  \/ HtlcClaimBuried(c)
  \/ StoreFails(c)
  \/ \E ret \in DeliverReturns : HonorGate(c, ret)

Next ==
  \/ \E c \in Calls : Consumer(c) \/ Continue(c)
  \/ \E now \in 0..MaxTime : Sweep(now)
  \/ Tick
  \/ Restart

Spec == Init /\ [][Next]_vars
-----------------------------------------------------------------------------
Retention == [k \in Keys |-> Retain(k)]

Promise == INSTANCE ExactlyOnce

\* A call that began before a quote's expiry has ended when a sweep may delete
\* its row: no call outlives the recheck window.  Nothing in the code enforces it.
CallsFitWindow == CallSpan <= RecheckWindow + 1

\* A payment that moved goods moves no others before the quote it paid is out of
\* retention, whichever quotes it could pay, whatever calls and sweeps race: the
\* consumed row stands until then (R1, the primary key of
\* quote_consumed_outpoint).  After that the code does let it pay another quote
\* that is still open.
OneDeliveryPerRetention ==
  \A i, j \in DOMAIN goods :
    i < j /\ goods[i].out = goods[j].out => Retain(goods[i].key) < clock

\* What honor tells its caller is true: "honored" only with the goods moved for
\* the outpoint named, and "already_honored" only for a quote really delivered.
AnswersAreTrue ==
  \A c \in Calls : pc[c] = "done" =>
    /\ result[c] = "honored" =>
         \E i \in DOMAIN goods : goods[i] = [key |-> call[c].key, out |-> call[c].cand]
    /\ result[c] = "already_honored" =>
         \E i \in DOMAIN goods : goods[i].key = call[c].key

\* Goods move only for a payment in the R6 window: never CallSpan or more past
\* retention, and past expiry only under the observation latch.  CallSpan is
\* the slack the now captured at the start of honor leaves.
DeliveredInWindow ==
  [][\A k \in Keys : (Honored(k)' /\ ~Honored(k)) =>
       /\ clock < Retain(k) + CallSpan
       /\ clock < Expiry[k] + CallSpan \/ seen[k].observed]_vars

\* The write-ahead record: once there, a row keeps its window, its latch and
\* its honor, and leaves only by a sweep after its retention (register's
\* "never silently mutated", with two registers or a sweep racing).
RecordIsWriteAhead ==
  [][\A k \in Keys : Present(k) =>
       \/ ~Present(k)' /\ Retain(k) < clock
       \/ /\ Present(k)'
          /\ seen'[k].expiresAt = seen[k].expiresAt
          /\ seen'[k].retainUntil = seen[k].retainUntil
          /\ seen[k].observed => seen'[k].observed
          /\ Honored(k) => /\ seen'[k].honoredAt = seen[k].honoredAt
                           /\ seen'[k].honoredOut = seen[k].honoredOut]_vars

\* A reserved claim outpoint is held, across sweeps and restarts, by the quote
\* that reserved it first until it is promoted (M4).
ReservationHeld ==
  [][\A o \in Outpoints : InState(o, "claim_pending") =>
       \/ consumed'[o] = consumed[o]
       \/ InState(o, "honored")' /\ consumed'[o].owner = consumed[o].owner]_vars

\* The engine implements the promise: each step delivers afresh (a quote never
\* delivered, an output not held by a quote in retention) or not at all.
ImplementsPromise == Promise!Spec
=============================================================================
