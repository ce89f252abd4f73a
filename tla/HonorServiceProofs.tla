------------------------- MODULE HonorServiceProofs -------------------------
(***************************************************************************)
(* The loops of onPaid use the engine as its callers may: every step of    *)
(* HonorService is a step of HonorEngine or none, so that what is proved   *)
(* of the engine holds under the loops, in every instance.                 *)
(***************************************************************************)
EXTENDS HonorService, TLAPS

\* The engine again, with its theorems: Same... below says that it is Engine.
Proved == INSTANCE HonorEngineProofs WITH Form <- [k \in Keys |-> "plain"]

LEMMA ProvedHolds == Proved!StoreAssumption /\ Proved!EngineAssumption
  BY ServiceAssumption
     DEF Engine!StoreAssumption, Proved!StoreAssumption, Engine!EngineAssumption,
         Proved!EngineAssumption, Engine!SeenRow, Proved!SeenRow,
         Engine!ConsumedRow, Proved!ConsumedRow

LEMMA SameTypes == Engine!TypeOK <=> Proved!TypeOK
  BY DEF Engine!TypeOK, Proved!TypeOK, Engine!StoreTypeOK, Proved!StoreTypeOK,
         Engine!CallTypeOK, Proved!CallTypeOK, Engine!SeenRow, Proved!SeenRow,
         Engine!ConsumedRow, Proved!ConsumedRow, Engine!Delivery, Proved!Delivery,
         Engine!InFlight, Proved!InFlight, Engine!Suspended, Proved!Suspended,
         Engine!Carrying, Proved!Carrying, Engine!Local, Proved!Local,
         Engine!Results, Proved!Results, Engine!Throws, Proved!Throws,
         Engine!Declines, Proved!Declines

LEMMA SameBegins ==
  \A c, k : /\ Engine!RegisterRead(c, k) <=> Proved!RegisterRead(c, k)
            /\ Engine!ObserveRead(c, k) <=> Proved!ObserveRead(c, k)
            /\ Engine!HonorStart(c, k) <=> Proved!HonorStart(c, k)
  BY DEF Engine!RegisterRead, Proved!RegisterRead, Engine!ObserveRead, Proved!ObserveRead,
         Engine!HonorStart, Proved!HonorStart, Engine!InFlight, Proved!InFlight,
         Engine!Suspended, Proved!Suspended, Engine!Present, Proved!Present,
         Engine!Honored, Proved!Honored, Engine!Begin, Proved!Begin,
         Engine!Answer, Proved!Answer, Engine!Frame, Proved!Frame,
         Engine!storeVars, Proved!storeVars

\* Every action, with the operators of the store that it is made of.
LEMMA SameSteps ==
  /\ \A c : Engine!Continue(c) <=> Proved!Continue(c)
  /\ \A c : Engine!Consumer(c) <=> Proved!Consumer(c)
  /\ \A now : Engine!Sweep(now) <=> Proved!Sweep(now)
  /\ Engine!Tick <=> Proved!Tick
  /\ Engine!Restart <=> Proved!Restart
<1> USE DEF Engine!storeVars, Proved!storeVars, Engine!callVars, Proved!callVars,
            Engine!NoLocal, Proved!NoLocal, Engine!Frame, Proved!Frame,
            Engine!Present, Proved!Present, Engine!Honored, Proved!Honored,
            Engine!Retain, Proved!Retain, Engine!InFlight, Proved!InFlight,
            Engine!Suspended, Proved!Suspended, Engine!Begin, Proved!Begin,
            Engine!Answer, Proved!Answer, Engine!Return, Proved!Return,
            Engine!Resume, Proved!Resume, Engine!Declines, Proved!Declines,
            Engine!Throws, Proved!Throws, Engine!Results, Proved!Results
<1>1. \A c : Engine!Continue(c) <=> Proved!Continue(c)
  BY DEF Engine!Continue, Proved!Continue, Engine!RegisterWrite, Proved!RegisterWrite,
         Engine!RegisterPreScreenFails, Proved!RegisterPreScreenFails,
         Engine!ObserveWrite, Proved!ObserveWrite,
         Engine!HonorScoreFails, Proved!HonorScoreFails,
         Engine!HonorScoreOk, Proved!HonorScoreOk, Engine!HtlcNotReady, Proved!HtlcNotReady,
         Engine!HtlcPhaseA, Proved!HtlcPhaseA, Engine!HtlcReserve, Proved!HtlcReserve,
         Engine!HtlcRecord, Proved!HtlcRecord, Engine!HtlcClaimBuried, Proved!HtlcClaimBuried,
         Engine!StoreFails, Proved!StoreFails, Engine!HonorGate, Proved!HonorGate,
         Engine!UpsertAccepted, Proved!UpsertAccepted,
         Engine!MarkObservedBeforeExpiry, Proved!MarkObservedBeforeExpiry,
         Engine!ReserveClaimOutpoint, Proved!ReserveClaimOutpoint,
         Engine!RunHonorTxn, Proved!RunHonorTxn, Engine!TxnResult, Proved!TxnResult,
         Engine!GateViolation, Proved!GateViolation, Engine!Lockable, Proved!Lockable,
         Engine!Consumable, Proved!Consumable, Engine!InState, Proved!InState,
         Engine!ConsumedOwner, Proved!ConsumedOwner,
         Engine!DeliverReturns, Proved!DeliverReturns, Engine!GateMode, Proved!GateMode,
         Engine!Outcomes, Proved!Outcomes
<1>2. \A c : Engine!Consumer(c) <=> Proved!Consumer(c)
  BY SameBegins DEF Engine!Consumer, Proved!Consumer
<1>3. /\ \A now : Engine!Sweep(now) <=> Proved!Sweep(now)
      /\ Engine!Tick <=> Proved!Tick
      /\ Engine!Restart <=> Proved!Restart
  BY DEF Engine!Sweep, Proved!Sweep, Engine!SweepTables, Proved!SweepTables,
         Engine!Tick, Proved!Tick, Engine!Restart, Proved!Restart
<1> QED
  BY <1>1, <1>2, <1>3

LEMMA SameEngine ==
  /\ Engine!Init <=> Proved!Init
  /\ [Engine!Next]_(Engine!vars) <=> [Proved!Next]_(Proved!vars)
<1>1. Engine!Init <=> Proved!Init
  BY DEF Engine!Init, Proved!Init, Engine!StoreInit, Proved!StoreInit, Engine!NoLocal,
         Proved!NoLocal, Engine!Frame, Proved!Frame
<1>2. [Engine!Next]_(Engine!vars) <=> [Proved!Next]_(Proved!vars)
  BY SameSteps DEF Engine!Next, Proved!Next, Engine!vars, Proved!vars
<1> QED
  BY <1>1, <1>2
-----------------------------------------------------------------------------
\* The types that a loop's code relies on.
LoopTypeOK ==
  /\ phase \in [Loops -> {"off", "registering", "between", "observing", "honoring"}]
  /\ timer \in [Loops -> BOOLEAN]
  /\ settled \in [Loops -> {"no", "honored", "declined", "cancelled", "failed"}]
  /\ loopKey \in [Loops -> Keys \cup {NULL}]
  /\ payment \in [Keys -> Payments]
  /\ paidInTime \subseteq Keys
  /\ \A l \in Loops : phase[l] # "off" => loopKey[l] \in Keys

LEMMA ProceedsContinue ==
  ASSUME NEW l, EngineProceeds(l)
  PROVE  Engine!Continue(l)
  BY DEF EngineProceeds, Scores, Engine!Continue, Engine!HonorScoreFails,
         Engine!Results, Engine!Throws, Engine!Declines

\* One loop's step is one engine call's step; the others are the engine's own.
LEMMA StepOfEngine ==
  ASSUME LoopTypeOK, [Next]_vars
  PROVE  [Engine!Next]_(Engine!vars)
<1>1. ASSUME NEW l \in Loops, NEW k \in Keys,
             Engine!RegisterRead(l, k) \/ Engine!ObserveRead(l, k) \/ Engine!HonorStart(l, k)
      PROVE  Engine!Next
  BY <1>1 DEF Engine!Next, Engine!Consumer, Loops
<1>2. ASSUME NEW l \in Loops, NEW k \in Keys, OnPaid(l, k) PROVE Engine!Next
  BY <1>1, <1>2 DEF OnPaid
<1>3. ASSUME NEW l \in Loops, LoopStep(l) PROVE [Engine!Next]_(Engine!vars)
  <2>1. CASE EngineProceeds(l)
    <3>1. Engine!Continue(l)
      BY <2>1, ProceedsContinue
    <3> QED
      BY <3>1 DEF Engine!Next, Loops
  <2>2. CASE Registered(l) \/ TimerFires(l) \/ TickHonors(l)
    <3>1. loopKey[l] \in Keys
      BY <2>2 DEF LoopTypeOK, Registered, TimerFires, TickHonors
    <3> QED
      BY <1>1, <2>2, <3>1 DEF Registered, TimerFires, TickHonors, BeginTick
  <2>3. CASE RegisterFails(l) \/ RegisteredTooLate(l) \/ TickEnds(l)
    BY <2>3 DEF RegisterFails, RegisteredTooLate, TickEnds, engineVars, Engine!vars
  <2> QED
    BY <1>3, <2>1, <2>2, <2>3 DEF LoopStep
<1>4. CASE TimePasses \/ OperatorSweeps \/ ProcessRestarts
  BY <1>4 DEF TimePasses, OperatorSweeps, ProcessRestarts, Engine!Next
<1>5. CASE UNCHANGED engineVars
  BY <1>5 DEF engineVars, Engine!vars
<1> QED
  BY <1>2, <1>3, <1>4, <1>5 DEF Next, Cancel, PaymentMoves, vars

LEMMA SameCalls ==
  /\ \A c : Engine!InFlight(c) <=> Proved!InFlight(c)
  /\ Engine!AnswersAreTrue <=> Proved!AnswersAreTrue
  BY DEF Engine!InFlight, Proved!InFlight, Engine!Suspended, Proved!Suspended,
         Engine!AnswersAreTrue, Proved!AnswersAreTrue
-----------------------------------------------------------------------------
Busy == {"registering", "observing", "honoring"}

\* An engine call runs only while its loop awaits it, and is about its quote.
CallsAreLoops ==
  \A l \in Loops : /\ Engine!InFlight(l) => phase[l] \in Busy
                   /\ phase[l] \in Busy => call[l].key = loopKey[l]

LoopInv == LoopTypeOK /\ CallsAreLoops /\ NoTimerAfterSettling /\ HonoredMeansDelivered

LEMMA TypeParts == TypeOK <=> Engine!TypeOK /\ LoopTypeOK
                              /\ \A l \in Loops : Engine!InFlight(l) => phase[l] \in Busy
  BY DEF TypeOK, LoopTypeOK, Busy

LEMMA NextLoopType ==
  ASSUME LoopTypeOK, [Next]_vars
  PROVE  LoopTypeOK'
<1>1. ASSUME NEW l \in Loops, NEW how \in {"honored", "declined", "cancelled", "failed"},
             Settle(l, how)
      PROVE  /\ timer' \in [Loops -> BOOLEAN]
             /\ settled' \in [Loops -> {"no", "honored", "declined", "cancelled", "failed"}]
  BY <1>1 DEF Settle, LoopTypeOK
<1>2. ASSUME NEW l \in Loops, NEW k \in Keys, OnPaid(l, k) PROVE LoopTypeOK'
  BY <1>2 DEF OnPaid, chainVars, LoopTypeOK
<1>3. ASSUME NEW l \in Loops, Cancel(l) PROVE LoopTypeOK'
  BY <1>1, <1>3 DEF Cancel, chainVars, LoopTypeOK
<1>4. ASSUME NEW l \in Loops, LoopStep(l) PROVE LoopTypeOK'
  <2>1. CASE Registered(l) \/ TimerFires(l) \/ TickHonors(l)
    BY <2>1 DEF Registered, TimerFires, TickHonors, BeginTick, chainVars, LoopTypeOK
  <2>2. CASE RegisterFails(l) \/ RegisteredTooLate(l)
    BY <1>1, <2>2 DEF RegisterFails, RegisteredTooLate, chainVars, LoopTypeOK
  <2>3. CASE TickEnds(l)
    <3>1. Settlement(result[l]) \in {"no", "honored", "declined", "failed"}
      BY DEF Settlement
    <3>2. phase[l] # "off" /\ loopKey' = loopKey
      BY <2>3 DEF TickEnds, TickOver
    <3> QED
      BY <1>1, <2>3, <3>1, <3>2 DEF TickEnds, chainVars, LoopTypeOK
  <2>4. CASE EngineProceeds(l)
    BY <2>4 DEF EngineProceeds, loopVars, chainVars, LoopTypeOK
  <2> QED
    BY <1>4, <2>1, <2>2, <2>3, <2>4 DEF LoopStep
<1>5. ASSUME NEW k \in Keys, PaymentMoves(k) PROVE LoopTypeOK'
  <2>1. UNCHANGED loopVars
    BY <1>5 DEF PaymentMoves
  <2>2. payment' \in [Keys -> Payments] /\ paidInTime' \subseteq Keys
    BY <1>5 DEF PaymentMoves, LoopTypeOK, Payments
  <2> QED
    BY <2>1, <2>2 DEF loopVars, LoopTypeOK
<1>6. CASE TimePasses \/ OperatorSweeps \/ UNCHANGED vars
  BY <1>6 DEF TimePasses, OperatorSweeps, vars, loopVars, chainVars, LoopTypeOK
<1>7. CASE ProcessRestarts
  BY <1>7 DEF ProcessRestarts, chainVars, LoopTypeOK
<1> QED
  BY <1>2, <1>3, <1>4, <1>5, <1>6, <1>7 DEF Next

\* A loop's steps move its own call at most.
LEMMA NextCalls ==
  ASSUME Engine!TypeOK, LoopTypeOK, CallsAreLoops, [Next]_vars
  PROVE  CallsAreLoops'
<1>1. Proved!TypeOK
  BY SameTypes
<1>2. ASSUME NEW l \in Loops, \A d \in Loops \ {l} : /\ pc'[d] = pc[d] /\ call'[d] = call[d]
                                                   /\ phase'[d] = phase[d]
                                                   /\ loopKey'[d] = loopKey[d],
             Engine!InFlight(l)' => phase'[l] \in Busy,
             phase'[l] \in Busy => call'[l].key = loopKey'[l]
      PROVE  CallsAreLoops'
  BY <1>2 DEF CallsAreLoops, Engine!InFlight
<1>3. ASSUME NEW l \in Loops, NEW k \in Keys,
             Engine!RegisterRead(l, k) \/ Engine!ObserveRead(l, k) \/ Engine!HonorStart(l, k)
      PROVE  /\ call'[l].key = k
             /\ \A d \in Loops \ {l} : pc'[d] = pc[d] /\ call'[d] = call[d]
  BY <1>1, <1>3, SameBegins, Proved!BegunCall, ProvedHolds DEF Loops
<1>4. ASSUME NEW l \in Loops, NEW k \in Keys, OnPaid(l, k) PROVE CallsAreLoops'
  BY <1>2, <1>3, <1>4 DEF OnPaid, LoopTypeOK, Busy
<1>5. ASSUME NEW l \in Loops, Registered(l) \/ TimerFires(l) \/ TickHonors(l)
      PROVE  CallsAreLoops'
  <2>1. loopKey[l] \in Keys /\ phase'[l] \in Busy
    BY <1>5 DEF LoopTypeOK, Registered, TimerFires, TickHonors, BeginTick, Busy
  <2>2. \A d \in Loops \ {l} : phase'[d] = phase[d]
    BY <1>5 DEF LoopTypeOK, Registered, TimerFires, TickHonors, BeginTick
  <2> QED
    BY <1>2, <1>3, <1>5, <2>1, <2>2 DEF Registered, TimerFires, TickHonors, BeginTick
<1>6. ASSUME NEW l \in Loops, EngineProceeds(l) PROVE CallsAreLoops'
  <2>1. Proved!Continue(l)
    BY <1>6, ProceedsContinue, SameSteps
  <2>2. /\ Engine!InFlight(l) /\ call'[l].key = call[l].key
        /\ \A d \in Loops \ {l} : pc'[d] = pc[d] /\ call'[d] = call[d]
    BY <1>1, <2>1, SameCalls, Proved!ContinuedCall, ProvedHolds DEF Loops
  <2> QED
    BY <1>2, <1>6, <2>2 DEF EngineProceeds, loopVars, CallsAreLoops
<1>7. ASSUME NEW l \in Loops, UNCHANGED <<pc, call, loopKey>>, ~Engine!InFlight(l) \/ phase'[l] = phase[l],
             phase' = [phase EXCEPT ![l] = phase'[l]],
             phase'[l] \in {"off", "between", phase[l]}
      PROVE  CallsAreLoops'
  BY <1>2, <1>7 DEF CallsAreLoops, Engine!InFlight, LoopTypeOK, Busy
<1>8. ASSUME NEW l \in Loops, RegisterFails(l) \/ RegisteredTooLate(l) \/ TickEnds(l)
      PROVE  CallsAreLoops'
  <2>1. ~Engine!InFlight(l)
    BY <1>8 DEF RegisterFails, RegisteredTooLate, TickEnds, TickOver, Engine!InFlight,
                Engine!Suspended
  <2> QED
    BY <1>7, <1>8, <2>1 DEF RegisterFails, RegisteredTooLate, TickEnds, engineVars, LoopTypeOK
<1>9. ASSUME NEW l \in Loops, Cancel(l) PROVE CallsAreLoops'
  BY <1>7, <1>9 DEF Cancel, engineVars, LoopTypeOK, CallsAreLoops, Busy
<1>10. CASE ProcessRestarts
  BY <1>10 DEF ProcessRestarts, Engine!Restart, CallsAreLoops, Busy, Engine!InFlight,
               Engine!Suspended, Loops
<1>11. CASE UNCHANGED <<pc, call, phase, loopKey>>
  BY <1>11 DEF CallsAreLoops, Engine!InFlight
<1> QED
  BY <1>4, <1>5, <1>6, <1>8, <1>9, <1>10, <1>11
     DEF Next, LoopStep, PaymentMoves, TimePasses, OperatorSweeps, Engine!Tick, Engine!Sweep,
         Engine!callVars, vars, engineVars, loopVars
-----------------------------------------------------------------------------
\* finish, fail and cancel stop the timer they settle; nothing starts it again.
LEMMA NextTimer ==
  ASSUME LoopTypeOK, NoTimerAfterSettling, [Next]_vars
  PROVE  NoTimerAfterSettling'
<1>1. ASSUME NEW l \in Loops, NEW how, Settle(l, how) PROVE NoTimerAfterSettling'
  BY <1>1 DEF Settle, NoTimerAfterSettling, LoopTypeOK
<1>2. ASSUME NEW l \in Loops, NEW k \in Keys, OnPaid(l, k) PROVE NoTimerAfterSettling'
  BY <1>2 DEF OnPaid, NoTimerAfterSettling, LoopTypeOK
<1>3. ASSUME NEW l \in Loops, Registered(l) PROVE NoTimerAfterSettling'
  BY <1>3 DEF Registered, NoTimerAfterSettling, LoopTypeOK
<1>4. CASE ProcessRestarts
  BY <1>4 DEF ProcessRestarts, NoTimerAfterSettling
<1>5. CASE UNCHANGED <<timer, settled>>
  BY <1>5 DEF NoTimerAfterSettling
<1> QED
  BY <1>1, <1>2, <1>3, <1>4, <1>5
     DEF Next, LoopStep, RegisterFails, RegisteredTooLate, TimerFires, TickHonors, TickEnds,
         EngineProceeds, Cancel, PaymentMoves, TimePasses, OperatorSweeps, vars, loopVars

\* A tick settles "honored" on the engine's word alone, and that word is backed
\* by the goods of the loop's own quote.
LEMMA HonoredByTick ==
  ASSUME LoopTypeOK, CallsAreLoops, Engine!AnswersAreTrue, NEW l \in Loops, TickEnds(l),
         Settlement(result[l]) = "honored"
  PROVE  \E i \in DOMAIN goods : goods[i].key = loopKey[l]
<1>1. result[l] = "honored"
  BY DEF Settlement
<1>2. pc[l] = "done" /\ phase[l] \in Busy
  BY DEF TickEnds, TickOver, Busy
<1>3. call[l].key = loopKey[l]
  BY <1>2 DEF CallsAreLoops
<1> QED
  BY <1>1, <1>2, <1>3 DEF Engine!AnswersAreTrue, Loops

LEMMA NextHonored ==
  ASSUME LoopTypeOK, CallsAreLoops, Engine!AnswersAreTrue, HonoredMeansDelivered,
         Proved!GoodsGrow, [Next]_vars
  PROVE  HonoredMeansDelivered'
<1>1. \A k : (\E i \in DOMAIN goods : goods[i].key = k) =>
               \E i \in DOMAIN goods' : goods'[i].key = k
  BY DEF Proved!GoodsGrow
<1>2. ASSUME \A l \in Loops : settled'[l] = "honored" =>
               /\ loopKey'[l] = loopKey[l]
               /\ settled[l] = "honored" \/ \E i \in DOMAIN goods : goods[i].key = loopKey[l]
      PROVE  HonoredMeansDelivered'
  BY <1>1, <1>2 DEF HonoredMeansDelivered
<1>3. CASE UNCHANGED <<settled, loopKey>>
  BY <1>2, <1>3
<1>4. ASSUME NEW l \in Loops, NEW how, how # "honored", Settle(l, how), loopKey' = loopKey
      PROVE  HonoredMeansDelivered'
  <2>1. \A d \in Loops : settled'[d] = "honored" => settled[d] = "honored"
    BY <1>4 DEF Settle, LoopTypeOK
  <2> QED
    BY <1>2, <1>4, <2>1
<1>5. ASSUME NEW l \in Loops, TickEnds(l) PROVE HonoredMeansDelivered'
  <2>1. CASE Settlement(result[l]) = "no"
    BY <1>3, <1>5, <2>1 DEF TickEnds
  <2>2. CASE Settlement(result[l]) = "honored"
    <3>1. \A d \in Loops : settled'[d] = "honored" => d = l \/ settled[d] = "honored"
      BY <1>5, <2>2 DEF TickEnds, Settle, LoopTypeOK
    <3>2. loopKey' = loopKey
      BY <1>5 DEF TickEnds
    <3> QED
      BY <1>2, <1>5, <2>2, <3>1, <3>2, HonoredByTick
  <2>3. CASE Settlement(result[l]) \notin {"no", "honored"}
    BY <1>4, <1>5, <2>3 DEF TickEnds
  <2> QED
    BY <2>1, <2>2, <2>3
<1>6. ASSUME NEW l \in Loops, RegisterFails(l) \/ Cancel(l) PROVE HonoredMeansDelivered'
  BY <1>4, <1>6 DEF RegisterFails, Cancel
<1>7. ASSUME NEW l \in Loops, NEW k \in Keys, OnPaid(l, k) PROVE HonoredMeansDelivered'
  <2>1. \A d \in Loops : settled'[d] = "honored" =>
          settled[d] = "honored" /\ loopKey'[d] = loopKey[d]
    BY <1>7 DEF OnPaid, LoopTypeOK
  <2> QED
    BY <1>2, <2>1
<1>8. CASE ProcessRestarts
  BY <1>2, <1>8 DEF ProcessRestarts
<1> QED
  BY <1>3, <1>5, <1>6, <1>7, <1>8
     DEF Next, LoopStep, Registered, RegisteredTooLate, TimerFires, TickHonors,
         EngineProceeds, PaymentMoves, TimePasses, OperatorSweeps, vars, loopVars
-----------------------------------------------------------------------------
\* What holds of the engine and of the loops together.
ServiceInv == Proved!TypeOK /\ Proved!GateInv /\ LoopInv

LEMMA InitService == Init => Proved!Init /\ LoopInv
<1> SUFFICES ASSUME Init PROVE Proved!Init /\ LoopInv
  OBVIOUS
<1>1. Proved!Init
  BY SameEngine DEF Init
<1>2. LoopTypeOK
  BY DEF Init, LoopTypeOK, Payments
<1>3. CallsAreLoops
  BY DEF Init, CallsAreLoops, Busy, Engine!Init, Engine!InFlight, Engine!Suspended, Loops
<1>4. NoTimerAfterSettling /\ HonoredMeansDelivered
  BY DEF Init, NoTimerAfterSettling, HonoredMeansDelivered
<1> QED
  BY <1>1, <1>2, <1>3, <1>4 DEF LoopInv

LEMMA InitServiceInv == Init => ServiceInv
  BY InitService, Proved!InitType, Proved!InitGate, ProvedHolds DEF ServiceInv

LEMMA NextService ==
  ASSUME ServiceInv, [Next]_vars
  PROVE  ServiceInv' /\ [Proved!Next]_(Proved!vars)
<1>1. Proved!TypeOK /\ Proved!GateInv /\ LoopTypeOK /\ CallsAreLoops /\ NoTimerAfterSettling
      /\ HonoredMeansDelivered
  BY DEF ServiceInv, LoopInv
<1>2. [Proved!Next]_(Proved!vars)
  BY <1>1, StepOfEngine, SameEngine
<1>3. Proved!TypeOK' /\ Proved!GateInv' /\ Proved!GoodsGrow
  BY <1>1, <1>2, Proved!NextType, Proved!NextGate, Proved!NextGoods, ProvedHolds
<1>4. Engine!TypeOK /\ Engine!AnswersAreTrue
  BY <1>1, SameTypes, SameCalls DEF Proved!GateInv
<1>5. LoopInv'
  BY <1>1, <1>3, <1>4, NextLoopType, NextCalls, NextTimer, NextHonored DEF LoopInv
<1> QED
  BY <1>2, <1>3, <1>5 DEF ServiceInv

LEMMA ServiceAlways == Spec => []ServiceInv /\ [][Proved!Next]_(Proved!vars)
<1>1. ServiceInv /\ [Next]_vars => ServiceInv' /\ [Proved!Next]_(Proved!vars)
  BY NextService
<1> QED
  BY <1>1, InitServiceInv, PTL DEF Spec

\* The loops of onPaid only ever call the engine as any consumer may: the
\* service implements the engine's specification, with its sweeps and restarts.
THEOREM ServiceRunsTheEngine == Spec => Engine!Spec
<1>1. Init => Engine!Init
  BY DEF Init
<1>2. [Engine!Next]_(Engine!vars) <=> [Proved!Next]_(Proved!vars)
  BY SameEngine
<1> QED
  BY <1>1, <1>2, ServiceAlways, PTL DEF Spec, Engine!Spec

\* Every variable of the loops keeps its type, and an engine call is in flight
\* only while its loop awaits it, in every instance.
THEOREM TypeCorrect == Spec => []TypeOK
<1>1. ServiceInv => TypeOK
  BY SameTypes, TypeParts DEF ServiceInv, LoopInv, CallsAreLoops
<1> QED
  BY <1>1, ServiceAlways, PTL

\* A settled loop has no timer left, whenever cancel() came (honor-service.ts).
THEOREM TimersStop == Spec => []NoTimerAfterSettling
<1>1. ServiceInv => NoTimerAfterSettling
  BY DEF ServiceInv, LoopInv
<1> QED
  BY <1>1, ServiceAlways, PTL

\* done resolves "honored" only with the goods of the loop's quote moved,
\* whatever other loops, sweeps and restarts do.
THEOREM HonoredIsDelivered == Spec => []HonoredMeansDelivered
<1>1. ServiceInv => HonoredMeansDelivered
  BY DEF ServiceInv, LoopInv
<1> QED
  BY <1>1, ServiceAlways, PTL

\* Loops that race for one payment deliver it once while its row is kept: a second
\* delivery on it comes only after the retention of the first one's quote.
THEOREM LoopsSpendPaymentOnce == Spec => []Engine!OneDeliveryPerRetention
<1>1. Init => Proved!PaymentInv
  BY InitService, Proved!InitOnce, ProvedHolds
<1>2. ServiceInv /\ Proved!PaymentInv /\ [Next]_vars => Proved!PaymentInv'
  BY NextService, Proved!NextPayment, ProvedHolds DEF ServiceInv
<1>3. Proved!PaymentInv => Engine!OneDeliveryPerRetention
  BY DEF Proved!PaymentInv, Proved!OneDeliveryPerRetention,
         Engine!OneDeliveryPerRetention, Proved!Retain, Engine!Retain
<1> QED
  BY <1>1, <1>2, <1>3, ServiceAlways, PTL DEF Spec

\* Loops that race for one quote deliver it once, when ticks fit the recheck
\* window.
THEOREM LoopsDeliverOnce ==
  ASSUME Engine!CallsFitWindow
  PROVE  Spec => []Engine!OneDeliveryPerQuote
<1>1. Proved!CallsFitWindow
  BY DEF Engine!CallsFitWindow, Proved!CallsFitWindow
<1>2. Init => Proved!OnceInv
  BY InitService, Proved!InitOnce, ProvedHolds
<1>3. ServiceInv /\ Proved!OnceInv /\ [Next]_vars => Proved!OnceInv'
  BY <1>1, NextService, Proved!NextOnce, ProvedHolds DEF ServiceInv
<1>4. Proved!OnceInv => Engine!OneDeliveryPerQuote
  BY DEF Proved!OnceInv, Proved!OneDeliveryPerQuote, Engine!OneDeliveryPerQuote
<1> QED
  BY <1>2, <1>3, <1>4, ServiceAlways, PTL DEF Spec
=============================================================================
