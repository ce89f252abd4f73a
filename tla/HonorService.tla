---------------------------- MODULE HonorService ----------------------------
(***************************************************************************)
(* onPaid: loops that register a quote and then, on a timer, observe and   *)
(* honor it until they settle.  Each loop makes its engine calls one after *)
(* the other in a call slot of its own; several loops, of one quote or of  *)
(* several, share the engine and the store.  The chain shows each quote's  *)
(* payment arriving, deepening and being reorganised away.                 *)
(***************************************************************************)
EXTENDS Integers, Sequences

CONSTANTS Keys, Outpoints, NoRow, NULL, Forever,
          Calls,   \* one slot per loop
          Expiry, RecheckWindow, Settles, MaxTime, CallSpan

VARIABLES
  seen, consumed, goods, clock, pc, call, result, claims,  \* the engine
  phase,      \* where the loop's code is
  timer,      \* its setInterval is running
  settled,    \* how its done promise ended, "no" while it is pending
  loopKey,    \* the quote it serves
  payment,    \* what the chain shows for each quote
  paidInTime  \* quotes with a payment on chain before their expiry (history)

\* Plain quotes: to a loop, an HTLC's prepare is more ticks that end in a wait.
Engine == INSTANCE HonorEngine WITH Form <- [k \in Keys |-> "plain"]

ASSUME ServiceAssumption == Engine!StoreAssumption /\ Engine!EngineAssumption

engineVars == <<seen, consumed, goods, clock, pc, call, result, claims>>
loopVars  == <<phase, timer, settled, loopKey>>
chainVars == <<payment, paidInTime>>
vars == <<engineVars, loopVars, chainVars>>

Loops == Calls

\* No payment; one not deep enough; one deep enough; one that cannot settle.
Payments == {"none", "shallow", "final", "wrong"}

TypeOK ==
  /\ Engine!TypeOK
  /\ phase \in [Loops -> {"off", "registering", "between", "observing", "honoring"}]
  /\ timer \in [Loops -> BOOLEAN]
  /\ settled \in [Loops -> {"no", "honored", "declined", "cancelled", "failed"}]
  /\ loopKey \in [Loops -> Keys \cup {NULL}]
  /\ payment \in [Keys -> Payments]
  /\ paidInTime \subseteq Keys
  /\ \A l \in Loops : phase[l] # "off" => loopKey[l] \in Keys
  /\ \A l \in Loops : Engine!InFlight(l) =>
       phase[l] \in {"registering", "observing", "honoring"}

Init ==
  /\ Engine!Init
  /\ phase = [l \in Loops |-> "off"]
  /\ timer = [l \in Loops |-> FALSE]
  /\ settled = [l \in Loops |-> "no"]
  /\ loopKey = [l \in Loops |-> NULL]
  /\ payment = [k \in Keys |-> "none"]
  /\ paidInTime = {}
-----------------------------------------------------------------------------
Running(l) == timer[l]

\* finish and fail: the first settlement stops the timer, later ones do nothing.
Settle(l, how) ==
  IF settled[l] = "no"
    THEN /\ settled' = [settled EXCEPT ![l] = how]
         /\ timer' = [timer EXCEPT ![l] = FALSE]
    ELSE UNCHANGED <<settled, timer>>

\* The first synchronous stretch of tick: capture now, call markObserved.  No
\* look at the chain comes first.
BeginTick(l) ==
  /\ phase' = [phase EXCEPT ![l] = "observing"]
  /\ Engine!ObserveRead(l, loopKey[l])

\* The consumer hands an accepted quote to onPaid.
OnPaid(l, k) ==
  /\ phase[l] = "off"
  /\ phase' = [phase EXCEPT ![l] = "registering"]
  /\ settled' = [settled EXCEPT ![l] = "no"]
  /\ loopKey' = [loopKey EXCEPT ![l] = k]
  /\ Engine!RegisterRead(l, k)
  /\ UNCHANGED <<timer, chainVars>>

\* Variant for the runs: no look at settled before setInterval.
RegisteredUnchecked(l) ==
  /\ phase[l] = "registering" /\ pc[l] = "done"
  /\ timer' = [timer EXCEPT ![l] = TRUE]
  /\ BeginTick(l)
  /\ UNCHANGED <<settled, loopKey, chainVars>>

\* register is done: start the timer and tick at once, unless cancelled already.
Registered(l) ==
  /\ phase[l] = "registering" /\ pc[l] = "done"
  /\ result[l] \notin Engine!Throws
  /\ settled[l] = "no"
  /\ timer' = [timer EXCEPT ![l] = TRUE]
  /\ BeginTick(l)
  /\ UNCHANGED <<settled, loopKey, chainVars>>

\* A register that threw rejects done; the engine's own faults are not retryable.
RegisterFails(l) ==
  /\ phase[l] = "registering" /\ pc[l] = "done"
  /\ result[l] \in Engine!Throws
  /\ settled[l] = "no"
  /\ Settle(l, "failed")
  /\ phase' = [phase EXCEPT ![l] = "off"]
  /\ UNCHANGED <<engineVars, loopKey, chainVars>>

RegisteredTooLate(l) ==
  /\ phase[l] = "registering" /\ pc[l] = "done"
  /\ settled[l] # "no"
  /\ phase' = [phase EXCEPT ![l] = "off"]
  /\ UNCHANGED <<engineVars, timer, settled, loopKey, chainVars>>

\* The interval fires between ticks; a fire during a tick does nothing.
TimerFires(l) ==
  /\ timer[l] /\ phase[l] = "between"
  /\ BeginTick(l)
  /\ UNCHANGED <<timer, settled, loopKey, chainVars>>

\* markObserved is done; honor follows, whether or not the loop was cancelled.
TickHonors(l) ==
  /\ phase[l] = "observing" /\ pc[l] = "done"
  /\ result[l] \notin Engine!Throws
  /\ phase' = [phase EXCEPT ![l] = "honoring"]
  /\ Engine!HonorStart(l, loopKey[l])
  /\ UNCHANGED <<timer, settled, loopKey, chainVars>>

\* isRetryableFault: the HonorErrors of the infrastructure, and nothing else.
Retryable == {"chain_fault", "keystore_fault", "db_fault", "indexer_fault"}

\* Variant for the runs: a swept or expired quote counts as a success.
SettlementOptimist(r) ==
  CASE r \in {"honored", "expired_unobserved"} -> "honored"
    [] r \in Engine!Declines \ {"expired_unobserved"} -> "declined"
    [] r \in Engine!Throws \ Retryable -> "failed"
    [] OTHER -> "no"

\* Variant for the runs: already_honored waits for another tick.
SettlementRetriesHonored(r) ==
  CASE r = "honored"                                -> "honored"
    [] r \in Engine!Declines \ {"already_honored"} -> "declined"
    [] r \in Engine!Throws \ Retryable             -> "failed"
    [] OTHER                                        -> "no"

\* How a tick's outcome settles the loop, "no" when the next tick retries.
Settlement(r) ==
  CASE r = "honored"                   -> "honored"
    [] r \in Engine!Declines           -> "declined"
    [] r \in Engine!Throws \ Retryable -> "failed"
    [] OTHER                           -> "no"

\* honor has answered, or markObserved or honor has thrown.
TickOver(l) ==
  /\ pc[l] = "done"
  /\ phase[l] = "honoring" \/ (phase[l] = "observing" /\ result[l] \in Engine!Throws)

\* Variant for the runs: a wait verdict returns without clearing ticking.
TickEndsStuck(l) ==
  /\ TickOver(l)
  /\ result[l] # "wait"
  /\ IF Settlement(result[l]) = "no" THEN UNCHANGED <<timer, settled>>
     ELSE Settle(l, Settlement(result[l]))
  /\ phase' = [phase EXCEPT ![l] = IF settled'[l] = "no" THEN "between" ELSE "off"]
  /\ UNCHANGED <<engineVars, loopKey, chainVars>>

TickEnds(l) ==
  /\ TickOver(l)
  /\ IF Settlement(result[l]) = "no" THEN UNCHANGED <<timer, settled>>
     ELSE Settle(l, Settlement(result[l]))
  /\ phase' = [phase EXCEPT ![l] = IF settled'[l] = "no" THEN "between" ELSE "off"]
  /\ UNCHANGED <<engineVars, loopKey, chainVars>>

\* Variant for the runs: cancel() forgets the tick that is in flight.
CancelForgetsTick(l) ==
  /\ phase[l] # "off" /\ settled[l] = "no"
  /\ Settle(l, "cancelled")
  /\ phase' = [phase EXCEPT ![l] = "off"]
  /\ UNCHANGED <<engineVars, loopKey, chainVars>>

\* cancel() at any moment, a tick in flight included: the tick runs on.
Cancel(l) ==
  /\ phase[l] # "off" /\ settled[l] = "no"
  /\ Settle(l, "cancelled")
  /\ phase' = [phase EXCEPT ![l] = IF @ = "between" THEN "off" ELSE @]
  /\ UNCHANGED <<engineVars, loopKey, chainVars>>
-----------------------------------------------------------------------------
\* What scoring answers for what the chain shows; any read may fail instead.
Scores(l) ==
  \/ payment[loopKey[l]] = "final" /\ \E o \in Outpoints : Engine!HonorScoreOk(l, o)
  \/ payment[loopKey[l]] \in {"none", "shallow"} /\ Engine!HonorScoreFails(l, "wait")
  \/ payment[loopKey[l]] = "wrong" /\ Engine!HonorScoreFails(l, "unsettled")
  \/ \E r \in {"keystore_fault", "adapter_error"} : Engine!HonorScoreFails(l, r)

\* onPaid never asks register for the custody pre-screen.
EngineProceeds(l) ==
  /\ \/ Engine!RegisterWrite(l)
     \/ Engine!ObserveWrite(l)
     \/ Engine!StoreFails(l)
     \/ pc[l] = "honor.score" /\ Scores(l)
     \/ \E ret \in Engine!DeliverReturns : Engine!HonorGate(l, ret)
  /\ UNCHANGED <<loopVars, chainVars>>

LoopStep(l) ==
  \/ Registered(l)
  \/ RegisterFails(l)
  \/ RegisteredTooLate(l)
  \/ TimerFires(l)
  \/ TickHonors(l)
  \/ TickEnds(l)
  \/ EngineProceeds(l)

\* A payment appears, deepens, or is reorganised away, shallow or final.
PaymentMoves(k) ==
  /\ \/ payment[k] = "none" /\ payment' = [payment EXCEPT ![k] = "shallow"]
     \/ payment[k] = "none" /\ payment' = [payment EXCEPT ![k] = "wrong"]
     \/ payment[k] = "shallow" /\ payment' = [payment EXCEPT ![k] = "final"]
     \/ payment[k] # "none" /\ payment' = [payment EXCEPT ![k] = "none"]
  /\ paidInTime' = IF payment'[k] = "shallow" /\ clock < Expiry[k]
                   THEN paidInTime \cup {k} ELSE paidInTime
  /\ UNCHANGED <<engineVars, loopVars>>

TimePasses == Engine!Tick /\ UNCHANGED <<loopVars, chainVars>>

OperatorSweeps ==
  \E now \in 0..MaxTime : Engine!Sweep(now) /\ UNCHANGED <<loopVars, chainVars>>

\* The process dies with its loops; the consumer may call onPaid again.
ProcessRestarts ==
  /\ Engine!Restart
  /\ phase' = [l \in Loops |-> "off"]
  /\ timer' = [l \in Loops |-> FALSE]
  /\ settled' = [l \in Loops |-> "no"]
  /\ UNCHANGED <<loopKey, chainVars>>

Next ==
  \/ \E l \in Loops, k \in Keys : OnPaid(l, k)
  \/ \E l \in Loops : LoopStep(l) \/ Cancel(l)
  \/ \E k \in Keys : PaymentMoves(k)
  \/ TimePasses
  \/ OperatorSweeps
  \/ ProcessRestarts

Spec == Init /\ [][Next]_vars

\* The event loop runs every continuation and timer, and every port answers.
Fairness == \A l \in Loops : WF_vars(LoopStep(l))

FairSpec == Spec /\ Fairness
-----------------------------------------------------------------------------
\* A settled loop has no timer left, also when cancel() ran while register was
\* still in flight and the timer did not exist yet.
NoTimerAfterSettling == \A l \in Loops : settled[l] # "no" => ~timer[l]

\* done resolves "honored" only for a quote whose goods moved, whatever other
\* loops, restarts and sweeps did to the quote meanwhile.
HonoredMeansDelivered ==
  \A l \in Loops : settled[l] = "honored" =>
    \E i \in DOMAIN goods : goods[i].key = loopKey[l]

\* A quote the loops of one consumer race for ends all of them: a loop does not
\* poll forever for goods that another loop, or it itself, has delivered.
DeliveredLoopsEnd ==
  \A l \in Loops :
    (Running(l) /\ loopKey[l] # NULL /\ Engine!Honored(loopKey[l]))
      ~> (~Running(l) \/ ~Engine!Honored(loopKey[l]))

\* A payment that stays final ends the loop that waits for it, unless deliver or
\* the keystore keeps failing: retries make progress, no tick gets stuck.
FinalPaymentEnds ==
  \A l \in Loops :
    <>[](Running(l) /\ payment[loopKey[l]] = "final")
      => []<>(result[l] \in {"delivery_failed", "keystore_fault"})

\* docs/conformance/index.md, r6/late-honor-unobserved: a settlement first seen
\* at or after expiry declines; nothing is delivered for it.
DeliveredSeenBeforeExpiry ==
  \A k \in Keys : Engine!Honored(k) => k \in paidInTime

\* The service's header: a chain fault retries on the next tick.
ChainFaultsRetry == \A l \in Loops : settled[l] = "failed" => result[l] # "adapter_error"
=============================================================================
