--------------------------- MODULE HtlcFormProofs ---------------------------
(***************************************************************************)
(* HtlcForm over any set of locks, any margins and any chain: its calls    *)
(* are calls of the engine, a recorded claim is always reserved, and goods *)
(* move on a claim that no tolerated reorganisation reaches.               *)
(***************************************************************************)
EXTENDS HtlcForm, TLAPS

\* The engine again, with its theorems: the Same lemmas say that it is Engine.
Proved == INSTANCE HonorEngineProofs
            WITH Form <- [k \in Keys |-> "htlc"], Settles <- [k \in Keys |-> Binding]

LEMMA ProvedHolds == Proved!StoreAssumption /\ Proved!EngineAssumption
  BY HtlcAssumption
     DEF Engine!StoreAssumption, Proved!StoreAssumption, Engine!EngineAssumption,
         Proved!EngineAssumption, Engine!SeenRow, Proved!SeenRow,
         Engine!ConsumedRow, Proved!ConsumedRow

LEMMA SameTypes == Engine!TypeOK <=> Proved!TypeOK
  BY DEF Engine!TypeOK, Proved!TypeOK, Engine!StoreTypeOK, Proved!StoreTypeOK,
         Engine!CallTypeOK, Proved!CallTypeOK, Engine!SeenRow, Proved!SeenRow,
         Engine!ConsumedRow, Proved!ConsumedRow, Engine!Delivery, Proved!Delivery,
         Engine!InFlight, Proved!InFlight, Engine!Suspended, Proved!Suspended,
         Engine!Carrying, Proved!Carrying, Engine!Local, Proved!Local,
         Engine!Results, Proved!Results, Engine!Throws, Proved!Throws,
         Engine!Declines, Proved!Declines

LEMMA SameBegins ==
  \A c, k : /\ Engine!RegisterRead(c, k) <=> Proved!RegisterRead(c, k)
            /\ Engine!ObserveRead(c, k) <=> Proved!ObserveRead(c, k)
            /\ Engine!HonorStart(c, k) <=> Proved!HonorStart(c, k)
  BY DEF Engine!RegisterRead, Proved!RegisterRead, Engine!ObserveRead, Proved!ObserveRead,
         Engine!HonorStart, Proved!HonorStart, Engine!InFlight, Proved!InFlight,
         Engine!Suspended, Proved!Suspended, Engine!Present, Proved!Present,
         Engine!Honored, Proved!Honored, Engine!Begin, Proved!Begin,
         Engine!Answer, Proved!Answer, Engine!Frame, Proved!Frame,
         Engine!storeVars, Proved!storeVars

\* Every action, with the operators of the store that it is made of.
LEMMA SameSteps ==
  /\ \A c : Engine!Continue(c) <=> Proved!Continue(c)
  /\ \A c : Engine!Consumer(c) <=> Proved!Consumer(c)
  /\ \A now : Engine!Sweep(now) <=> Proved!Sweep(now)
  /\ Engine!Tick <=> Proved!Tick
  /\ Engine!Restart <=> Proved!Restart
<1> USE DEF Engine!storeVars, Proved!storeVars, Engine!callVars, Proved!callVars,
            Engine!NoLocal, Proved!NoLocal, Engine!Frame, Proved!Frame,
            Engine!Present, Proved!Present, Engine!Honored, Proved!Honored,
            Engine!Retain, Proved!Retain, Engine!InFlight, Proved!InFlight,
            Engine!Suspended, Proved!Suspended, Engine!Begin, Proved!Begin,
            Engine!Answer, Proved!Answer, Engine!Return, Proved!Return,
            Engine!Resume, Proved!Resume, Engine!Declines, Proved!Declines,
            Engine!Throws, Proved!Throws, Engine!Results, Proved!Results
<1>1. \A c : Engine!Continue(c) <=> Proved!Continue(c)
  BY DEF Engine!Continue, Proved!Continue, Engine!RegisterWrite, Proved!RegisterWrite,
         Engine!RegisterPreScreenFails, Proved!RegisterPreScreenFails,
         Engine!ObserveWrite, Proved!ObserveWrite,
         Engine!HonorScoreFails, Proved!HonorScoreFails,
         Engine!HonorScoreOk, Proved!HonorScoreOk, Engine!HtlcNotReady, Proved!HtlcNotReady,
         Engine!HtlcPhaseA, Proved!HtlcPhaseA, Engine!HtlcReserve, Proved!HtlcReserve,
         Engine!HtlcRecord, Proved!HtlcRecord, Engine!HtlcClaimBuried, Proved!HtlcClaimBuried,
         Engine!StoreFails, Proved!StoreFails, Engine!HonorGate, Proved!HonorGate,
         Engine!UpsertAccepted, Proved!UpsertAccepted,
         Engine!MarkObservedBeforeExpiry, Proved!MarkObservedBeforeExpiry,
         Engine!ReserveClaimOutpoint, Proved!ReserveClaimOutpoint,
         Engine!RunHonorTxn, Proved!RunHonorTxn, Engine!TxnResult, Proved!TxnResult,
         Engine!GateViolation, Proved!GateViolation, Engine!Lockable, Proved!Lockable,
         Engine!Consumable, Proved!Consumable, Engine!InState, Proved!InState,
         Engine!ConsumedOwner, Proved!ConsumedOwner,
         Engine!DeliverReturns, Proved!DeliverReturns, Engine!GateMode, Proved!GateMode,
         Engine!Outcomes, Proved!Outcomes
<1>2. \A c : Engine!Consumer(c) <=> Proved!Consumer(c)
  BY SameBegins DEF Engine!Consumer, Proved!Consumer
<1>3. /\ \A now : Engine!Sweep(now) <=> Proved!Sweep(now)
      /\ Engine!Tick <=> Proved!Tick
      /\ Engine!Restart <=> Proved!Restart
  BY DEF Engine!Sweep, Proved!Sweep, Engine!SweepTables, Proved!SweepTables,
         Engine!Tick, Proved!Tick, Engine!Restart, Proved!Restart
<1> QED
  BY <1>1, <1>2, <1>3

LEMMA SameEngine ==
  /\ Engine!Init <=> Proved!Init
  /\ [Engine!Next]_(Engine!vars) <=> [Proved!Next]_(Proved!vars)
<1>1. Engine!Init <=> Proved!Init
  BY DEF Engine!Init, Proved!Init, Engine!StoreInit, Proved!StoreInit, Engine!NoLocal,
         Proved!NoLocal, Engine!Frame, Proved!Frame
<1>2. [Engine!Next]_(Engine!vars) <=> [Proved!Next]_(Proved!vars)
  BY SameSteps DEF Engine!Next, Proved!Next, Engine!vars, Proved!vars
<1> QED
  BY <1>1, <1>2
-----------------------------------------------------------------------------
LEMMA StepContinues ==
  ASSUME NEW c \in Calls, HonorStep(c)
  PROVE  \/ \E k \in Keys : HonorStart(c, k)
         \/ PhaseB(c) \/ SubmitClaim(c)
         \/ Engine!Continue(c)
<1> USE DEF Engine!Continue
<1>1. ASSUME NEW r, Engine!HonorScoreFails(c, r) \/ Engine!HtlcNotReady(c, r)
      PROVE  Engine!Continue(c)
  BY <1>1 DEF Engine!HonorScoreFails, Engine!HtlcNotReady, Engine!Results, Engine!Throws,
              Engine!Declines
<1>2. ASSUME NEW o \in Outpoints, ScoreOk(c, o) \/ ScoreDeclines(c, o)
      PROVE  Engine!Continue(c)
  BY <1>1, <1>2 DEF ScoreOk, ScoreDeclines
<1>3. ASSUME NEW r, ScoreNot(c, r) \/ PhaseAStops(c, r) \/ PhaseBStops(c, r)
      PROVE  Engine!Continue(c)
  BY <1>1, <1>3 DEF ScoreNot, PhaseAStops, PhaseBStops
<1>4. ASSUME TipFails(c) \/ PhaseAUnready(c) PROVE Engine!Continue(c)
  BY <1>1, <1>4 DEF TipFails, PhaseAUnready
<1>5. ASSUME PhaseA(c) \/ Reserve(c) \/ Record(c) \/ ClaimBuried(c) \/ GateFails(c)
      PROVE  Engine!Continue(c)
  BY <1>5 DEF PhaseA, Reserve, Record, ClaimBuried, GateFails
<1>6. ASSUME NEW ret \in Engine!DeliverReturns, Gate(c, ret) PROVE Engine!Continue(c)
  BY <1>6 DEF Gate
<1> QED
  BY <1>2, <1>3, <1>4, <1>5, <1>6 DEF HonorStep

\* Each step of the form is a step of the engine, or leaves the engine alone.
LEMMA StepOfEngine ==
  ASSUME [Next]_vars
  PROVE  [Engine!Next]_(Engine!vars)
<1>1. CASE UNCHANGED engineVars
  BY <1>1 DEF engineVars, Engine!vars
<1>2. ASSUME NEW c \in Calls, HonorStep(c) PROVE [Engine!Next]_(Engine!vars)
  <2>1. ASSUME NEW k \in Keys, HonorStart(c, k) PROVE Engine!Next
    BY <2>1 DEF HonorStart, Engine!Next, Engine!Consumer
  <2>2. Engine!Continue(c) => Engine!Next
    BY DEF Engine!Next
  <2>3. CASE PhaseB(c) \/ SubmitClaim(c)
    BY <1>1, <2>3 DEF PhaseB, SubmitClaim
  <2>4. CASE Engine!Continue(c)
    BY <2>2, <2>4
  <2> QED
    BY <1>2, <2>1, <2>3, <2>4, StepContinues
<1>3. CASE Restart
  BY <1>3 DEF Restart, Engine!Next
<1> QED
  BY <1>1, <1>2, <1>3 DEF Next, ChainStep, LockBroadcast, Block, Reorg, ChainMoves, vars
-----------------------------------------------------------------------------
FormTypeOK ==
  /\ recorded \in [Keys -> Binding \cup {NULL}]
  /\ claims = {k \in Keys : recorded[k] # NULL}
  /\ phase \in [Calls -> {"none", "lock", "submitted", "claim"}]
  /\ view \in [Calls -> [tip : 0..MaxTip, prior : Binding \cup {NULL}]]
  /\ height \in [Txs -> Nat \cup {NULL, Absent}]
  /\ tip \in 0..MaxTip

LEMMA TypeParts == TypeOK <=> Engine!TypeOK /\ FormTypeOK
  BY DEF TypeOK, FormTypeOK

LEMMA BindingOutpoints == Binding \subseteq Outpoints /\ NULL \notin Binding
  BY HtlcAssumption DEF Binding, Engine!StoreAssumption

LEMMA InitForm == Init => FormTypeOK
<1> SUFFICES ASSUME Init PROVE FormTypeOK
  OBVIOUS
<1>1. /\ recorded \in [Keys -> Binding \cup {NULL}]
      /\ claims = {k \in Keys : recorded[k] # NULL}
  BY DEF Init
<1>2. /\ phase \in [Calls -> {"none", "lock", "submitted", "claim"}]
      /\ view \in [Calls -> [tip : 0..MaxTip, prior : Binding \cup {NULL}]]
  BY HtlcAssumption DEF Init, NoView
<1>3. height \in [Txs -> Nat \cup {NULL, Absent}] /\ tip \in 0..MaxTip
  BY HtlcAssumption DEF Init
<1> QED
  BY <1>1, <1>2, <1>3 DEF FormTypeOK

\* The quotes are registered and no call has begun, so all that GateInv relates
\* agrees.
LEMMA InitEngine == Init => Proved!TypeOK /\ Proved!GateInv
<1> SUFFICES ASSUME Init PROVE Proved!TypeOK /\ Proved!GateInv
  OBVIOUS
<1>1. ASSUME NEW k \in Keys
      PROVE  /\ seen[k] \in Proved!SeenRow /\ seen[k].honoredAt = NULL
             /\ seen[k].expiresAt = Expiry[k]
             /\ seen[k].retainUntil = Proved!Retain(k)
  <2>1. seen[k] = [expiresAt |-> Expiry[k], retainUntil |-> Expiry[k] + RecheckWindow,
                   observed |-> FALSE, honoredAt |-> NULL, honoredOut |-> NULL]
    BY DEF Init, Engine!Retain
  <2>2. Expiry[k] \in Nat /\ Expiry[k] + RecheckWindow \in Nat
    BY HtlcAssumption DEF Engine!EngineAssumption
  <2> QED
    BY <2>1, <2>2 DEF Proved!SeenRow, Proved!Retain
<1>2. Proved!StoreTypeOK
  BY <1>1 DEF Init, Proved!StoreTypeOK
<1>3. Proved!CallTypeOK
  BY DEF Init, Proved!CallTypeOK, Proved!Suspended, Proved!InFlight, Proved!Carrying,
         Proved!Results, Engine!NoLocal, Engine!Frame, Proved!Local
<1>4. Proved!TypeOK
  BY <1>2, <1>3 DEF Init, Proved!TypeOK
<1>5. Proved!RowsInWindow
  BY <1>1 DEF Proved!RowsInWindow
<1>6. Proved!CallsInWindow /\ Proved!AnswersAreTrue
  BY HtlcAssumption
     DEF Init, Engine!EngineAssumption, Proved!CallsInWindow, Proved!AnswersAreTrue,
         Proved!InFlight, Proved!Suspended, Proved!Carrying
<1>7. Proved!RetentionInv /\ Proved!GateMatchesGoods
  BY <1>1 DEF Init, Proved!RetentionInv, Proved!GateMatchesGoods, Proved!Honored,
              Proved!InState
<1> QED
  BY <1>4, <1>5, <1>6, <1>7 DEF Proved!GateInv
-----------------------------------------------------------------------------
\* The engine's half of a step of the form, call by call.
LEMMA CallMoves ==
  ASSUME Engine!TypeOK, NEW c \in Calls
  PROVE  /\ \A d \in Calls : pc[d] \in Engine!Suspended => call[d].key \in Keys
         /\ \A d \in Calls : pc[d] \in Engine!Carrying => call[d].cand \in Binding
         /\ (\E k \in Keys : Engine!HonorStart(c, k)) \/ Engine!Continue(c) =>
              \A d \in Calls \ {c} : pc'[d] = pc[d] /\ call'[d] = call[d]
<1>1. Proved!TypeOK
  BY SameTypes
<1>2. ASSUME NEW d \in Calls
      PROVE  /\ pc[d] \in Engine!Suspended => call[d].key \in Keys
             /\ pc[d] \in Engine!Carrying => call[d].cand \in Binding
  <2>1. pc[d] \in Engine!Suspended => call[d].key \in Keys
    BY DEF Engine!TypeOK, Engine!CallTypeOK, Engine!InFlight
  <2>2. pc[d] \in Engine!Carrying =>
          call[d].cand \in [k \in Keys |-> Binding][call[d].key]
    BY DEF Engine!TypeOK, Engine!CallTypeOK
  <2>3. Engine!Carrying \subseteq Engine!Suspended
    BY DEF Engine!Carrying, Engine!Suspended
  <2> QED
    BY <2>1, <2>2, <2>3
<1>3. ASSUME NEW k \in Keys, Engine!HonorStart(c, k)
      PROVE  \A d \in Calls \ {c} : pc'[d] = pc[d] /\ call'[d] = call[d]
  BY <1>1, <1>3, SameBegins, Proved!BegunCall, ProvedHolds
<1>4. ASSUME Engine!Continue(c)
      PROVE  \A d \in Calls \ {c} : pc'[d] = pc[d] /\ call'[d] = call[d]
  BY <1>1, <1>4, SameSteps, Proved!ContinuedCall, ProvedHolds
<1> QED
  BY <1>2, <1>3, <1>4

\* Only Record and Restart touch the claims map, in the engine and in the form.
LEMMA NextClaims ==
  ASSUME Engine!TypeOK, FormTypeOK, [Next]_vars
  PROVE  /\ recorded' \in [Keys -> Binding \cup {NULL}]
         /\ claims' = {k \in Keys : recorded'[k] # NULL}
<1> USE DEF FormTypeOK
<1>1. ASSUME UNCHANGED <<recorded, claims>>
      PROVE  /\ recorded' \in [Keys -> Binding \cup {NULL}]
             /\ claims' = {k \in Keys : recorded'[k] # NULL}
  BY <1>1
<1>2. ASSUME NEW c \in Calls, Record(c)
      PROVE  /\ recorded' \in [Keys -> Binding \cup {NULL}]
             /\ claims' = {k \in Keys : recorded'[k] # NULL}
  <2>1. pc[c] = "htlc.record" /\ claims' = claims \cup {call[c].key}
    BY <1>2 DEF Record, Engine!HtlcRecord
  <2>2. call[c].key \in Keys /\ call[c].cand \in Binding
    BY <2>1, CallMoves DEF Engine!Carrying, Engine!Suspended
  <2> QED
    BY <1>2, <2>1, <2>2, BindingOutpoints DEF Record
<1>3. CASE Restart
  BY <1>3 DEF Restart, Engine!Restart
<1>4. ASSUME NEW c \in Calls, HonorStep(c), ~Record(c)
      PROVE  UNCHANGED <<recorded, claims>>
  BY <1>4 DEF HonorStep, HonorStart, ScoreOk, ScoreDeclines, ScoreNot, PhaseAStops,
     PhaseBStops, PhaseA, PhaseAUnready, PhaseB, TipFails, SubmitClaim, Reserve, ClaimBuried,
     GateFails, Gate, KeepForm, engineVars, Engine!HonorStart, Engine!HonorScoreOk,
     Engine!HonorScoreFails, Engine!HtlcNotReady, Engine!HtlcPhaseA, Engine!HtlcReserve,
     Engine!HtlcClaimBuried, Engine!StoreFails, Engine!HonorGate
<1>5. CASE ChainStep \/ UNCHANGED vars
  BY <1>5 DEF ChainStep, LockBroadcast, Block, Reorg, ChainMoves, vars, engineVars, formVars
<1> QED
  BY <1>1, <1>2, <1>3, <1>4, <1>5 DEF Next

\* What the steps of one call make of its phase and its view.
LEMMA NextPhase ==
  ASSUME FormTypeOK, NEW c \in Calls, HonorStep(c)
  PROVE  /\ phase' \in [Calls -> {"none", "lock", "submitted", "claim"}]
         /\ \A d \in Calls \ {c} : phase'[d] = phase[d]
  BY DEF FormTypeOK, HonorStep, HonorStart, ScoreOk, ScoreDeclines, ScoreNot, PhaseAStops,
     PhaseBStops, PhaseA, PhaseAUnready, PhaseB, TipFails, SubmitClaim, Reserve, Record,
     ClaimBuried, GateFails, Gate, KeepForm, Enter, EnterPhase

LEMMA NextView ==
  ASSUME Engine!TypeOK, FormTypeOK, NEW c \in Calls, HonorStep(c)
  PROVE  /\ view' \in [Calls -> [tip : 0..MaxTip, prior : Binding \cup {NULL}]]
         /\ \A d \in Calls \ {c} : view'[d] = view[d]
         /\ view'[c].tip \in {0, tip, view[c].tip}
<1> USE DEF FormTypeOK
<1>1. NoView \in [tip : 0..MaxTip, prior : Binding \cup {NULL}] /\ NoView.tip = 0
  BY HtlcAssumption DEF NoView
<1>2. CASE DropView(c)
  BY <1>1, <1>2 DEF DropView
<1>3. ASSUME NEW p, EnterPhase(c, p), pc[c] = "honor.prepare"
      PROVE  /\ view' \in [Calls -> [tip : 0..MaxTip, prior : Binding \cup {NULL}]]
             /\ \A d \in Calls \ {c} : view'[d] = view[d]
             /\ view'[c].tip \in {0, tip, view[c].tip}
  <2>1. recorded[call[c].key] \in Binding \cup {NULL}
    BY <1>3, CallMoves DEF Engine!Suspended
  <2> QED
    BY <1>3, <2>1 DEF EnterPhase
<1>4. CASE UNCHANGED view
  BY <1>4
<1> QED
  BY <1>2, <1>3, <1>4
  DEF HonorStep, HonorStart, ScoreOk, ScoreDeclines, ScoreNot, PhaseAStops,
     PhaseBStops, PhaseA, PhaseAUnready, PhaseB, TipFails, SubmitClaim, Reserve, Record,
     ClaimBuried, GateFails, Gate, KeepForm, Engine!HtlcPhaseA

\* A claim so deep that no tolerated reorganisation reaches it.
Safe(o) == Mined(<<"claim", o>>) /\ Depth(tip, height[<<"claim", o>>]) > MaxReorgDepth

\* The chain only grows, and its reorganisations never reach a safe claim.
LEMMA ChainKeeps ==
  ASSUME Engine!TypeOK, FormTypeOK, [Next]_vars
  PROVE  /\ height' \in [Txs -> Nat \cup {NULL, Absent}]
         /\ tip' \in 0..MaxTip /\ tip <= tip'
         /\ \A o \in Outpoints : Safe(o) => Safe(o)'
<1> USE HtlcAssumption DEF FormTypeOK
<1>1. CASE UNCHANGED chainVars
  BY <1>1 DEF chainVars, Safe, Mined, Depth
<1>2. ASSUME tip' \in {tip, tip + 1} /\ tip' \in 0..MaxTip,
             height' \in [Txs -> Nat \cup {NULL, Absent}],
             \A o \in Outpoints : Safe(o) => height'[<<"claim", o>>] = height[<<"claim", o>>]
      PROVE  /\ tip <= tip'
             /\ \A o \in Outpoints : Safe(o) => Safe(o)'
  BY <1>2 DEF Safe, Mined, Depth, Txs
<1>3. ASSUME NEW t \in Txs, NEW h \in {NULL, Absent}, height[t] \notin Nat,
             height' = [height EXCEPT ![t] = h], tip' = tip
      PROVE  /\ height' \in [Txs -> Nat \cup {NULL, Absent}]
             /\ \A o \in Outpoints : Safe(o) => height'[<<"claim", o>>] = height[<<"claim", o>>]
  BY <1>3 DEF Safe, Mined, Txs
<1>4. \A o \in Outpoints : <<"lock", o>> \in Txs /\ <<"claim", o>> \in Txs
  BY DEF Txs
<1>5. NULL \notin Nat /\ Absent \notin Nat
  BY DEF Engine!StoreAssumption
<1>6. ASSUME NEW o \in Outpoints, LockBroadcast(o)
      PROVE  /\ height' \in [Txs -> Nat \cup {NULL, Absent}]
             /\ tip' \in 0..MaxTip /\ tip <= tip'
             /\ \A p \in Outpoints : Safe(p) => Safe(p)'
  <2>1. height' = [height EXCEPT ![<<"lock", o>>] = NULL] /\ tip' = tip
    BY <1>6 DEF LockBroadcast, ChainMoves
  <2>2. height[<<"lock", o>>] \notin Nat
    BY <1>5, <1>6 DEF LockBroadcast
  <2> QED
    BY <1>2, <1>3, <1>4, <2>1, <2>2
<1>7. ASSUME NEW c \in Calls, SubmitClaim(c), call[c].cand \in Outpoints
      PROVE  /\ height' \in [Txs -> Nat \cup {NULL, Absent}]
             /\ tip' \in 0..MaxTip /\ tip <= tip'
             /\ \A p \in Outpoints : Safe(p) => Safe(p)'
  <2>1. tip' = tip
    BY <1>7 DEF SubmitClaim
  <2>2. CASE height[<<"claim", call[c].cand>>] = Absent
    <3>1. height' = [height EXCEPT ![<<"claim", call[c].cand>>] = NULL]
      BY <1>7, <2>2 DEF SubmitClaim
    <3> QED
      BY <1>2, <1>3, <1>4, <1>5, <1>7, <2>1, <2>2, <3>1
  <2>3. CASE height[<<"claim", call[c].cand>>] # Absent
    BY <1>1, <1>7, <2>1, <2>3 DEF SubmitClaim, chainVars
  <2> QED
    BY <2>2, <2>3
<1>8. ASSUME NEW mined \in SUBSET {t \in Txs : height[t] = NULL}, Block(mined)
      PROVE  /\ height' \in [Txs -> Nat \cup {NULL, Absent}]
             /\ tip' \in 0..MaxTip /\ tip <= tip'
             /\ \A p \in Outpoints : Safe(p) => Safe(p)'
  <2>1. /\ height' = [t \in Txs |-> IF t \in mined THEN tip + 1 ELSE height[t]]
        /\ tip' = tip + 1 /\ tip < MaxTip
    BY <1>8 DEF Block, ChainMoves
  <2>2. height' \in [Txs -> Nat \cup {NULL, Absent}] /\ tip' \in 0..MaxTip
    BY <2>1
  <2>3. \A p \in Outpoints : Safe(p) => height'[<<"claim", p>>] = height[<<"claim", p>>]
    BY <1>4, <1>5, <2>1 DEF Safe, Mined
  <2> QED
    BY <1>2, <2>1, <2>2, <2>3
<1>9. ASSUME NEW depth \in 1..MaxReorgDepth, depth <= tip,
             NEW moved \in [Above(tip - depth) -> (tip - depth + 1)..(tip + 1)
                                                    \cup {NULL, Absent}],
             Reorg(moved)
      PROVE  /\ height' \in [Txs -> Nat \cup {NULL, Absent}]
             /\ tip' \in 0..MaxTip /\ tip <= tip'
             /\ \A p \in Outpoints : Safe(p) => Safe(p)'
  <2>1. /\ height' = [t \in Txs |-> IF t \in DOMAIN moved THEN moved[t] ELSE height[t]]
        /\ tip' = tip + 1 /\ tip < MaxTip
    BY <1>9 DEF Reorg, ChainMoves
  <2>2. DOMAIN moved = Above(tip - depth) /\ (tip - depth + 1)..(tip + 1) \subseteq Nat
    BY <1>9
  <2>3. height' \in [Txs -> Nat \cup {NULL, Absent}] /\ tip' \in 0..MaxTip
    BY <1>9, <2>1, <2>2
  <2>4. \A p \in Outpoints : Safe(p) => <<"claim", p>> \notin DOMAIN moved
    BY <1>9, <2>2 DEF Safe, Mined, Depth, Above
  <2>5. \A p \in Outpoints : Safe(p) => height'[<<"claim", p>>] = height[<<"claim", p>>]
    BY <1>4, <2>1, <2>4
  <2> QED
    BY <1>2, <2>1, <2>3, <2>5
<1>10. ASSUME NEW c \in Calls, HonorStep(c), ~SubmitClaim(c) PROVE UNCHANGED chainVars
  BY <1>10 DEF HonorStep, HonorStart, ScoreOk, ScoreDeclines, ScoreNot, PhaseAStops,
     PhaseBStops, PhaseA, PhaseAUnready, PhaseB, TipFails, Reserve, Record,
     ClaimBuried, GateFails, Gate
<1>11. ASSUME NEW c \in Calls, SubmitClaim(c) PROVE call[c].cand \in Outpoints
  BY <1>11, CallMoves, BindingOutpoints DEF SubmitClaim, Engine!Carrying
<1>12. CASE Restart \/ UNCHANGED vars
  BY <1>1, <1>12 DEF Restart, vars
<1>13. CASE ChainStep
  BY <1>6, <1>8, <1>9, <1>13 DEF ChainStep
<1>14. CASE \E c \in Calls : HonorStep(c)
  BY <1>1, <1>7, <1>10, <1>11, <1>14
<1> QED
  BY <1>1, <1>12, <1>13, <1>14 DEF Next

LEMMA NextFormType ==
  ASSUME Engine!TypeOK, FormTypeOK, [Next]_vars
  PROVE  FormTypeOK'
<1>1. /\ phase' \in [Calls -> {"none", "lock", "submitted", "claim"}]
      /\ view' \in [Calls -> [tip : 0..MaxTip, prior : Binding \cup {NULL}]]
  <2>1. CASE UNCHANGED <<phase, view>>
    BY <2>1 DEF FormTypeOK
  <2>2. CASE \E c \in Calls : HonorStep(c)
    BY <2>2, NextPhase, NextView
  <2>3. CASE Restart
    BY <2>3, HtlcAssumption DEF Restart, NoView
  <2>4. ChainStep \/ UNCHANGED vars => UNCHANGED <<phase, view>>
    BY DEF ChainStep, LockBroadcast, Block, Reorg, ChainMoves, vars, formVars
  <2> QED
    BY <2>1, <2>2, <2>3, <2>4 DEF Next
<1> QED
  BY <1>1, NextClaims, ChainKeeps DEF FormTypeOK
-----------------------------------------------------------------------------
\* What prepare was given: no view before the tip is read, and in phase B a
\* claim of this process, at a tip that the chain has reached.
ViewInv ==
  \A c \in Calls :
    /\ view[c].tip <= tip
    /\ pc[c] = "honor.score" => phase[c] = "none"
    /\ pc[c] = "honor.prepare" /\ phase[c] = "claim" => view[c].prior \in Binding

\* A claim is recorded after its reservation, which nothing here takes back.
ReservedInv ==
  /\ \A c \in Calls : pc[c] = "htlc.record" => consumed[call[c].cand] # NoRow
  /\ \A k \in Keys : recorded[k] # NULL => consumed[recorded[k]] # NoRow

\* A call past phase B has seen a claim that no reorganisation reaches, and the
\* goods move by such calls only.
SafeInv ==
  /\ (\E c \in Calls : pc[c] = "honor.gate") => \E o \in Binding : Safe(o)
  /\ (\E k \in Keys : Engine!Honored(k)) => \E o \in Binding : Safe(o)

FormInv == FormTypeOK /\ ViewInv /\ ReservedInv /\ SafeInv

\* Where a step leaves the call that takes it.
LEMMA StepEnds ==
  ASSUME Engine!TypeOK, FormTypeOK, NEW c \in Calls, HonorStep(c)
  PROVE  /\ pc'[c] = "honor.score" => pc[c] # "honor.score" /\ phase'[c] = "none"
         /\ pc'[c] = "honor.prepare" =>
              \/ pc[c] = "honor.score" /\ UNCHANGED <<phase, view>>
              \/ pc[c] = "honor.prepare" /\ phase'[c] = "claim" /\ view'[c].prior \in Binding
         /\ pc'[c] = "htlc.record" =>
              /\ pc[c] = "htlc.reserve" /\ call' = call
              /\ Engine!ReserveClaimOutpoint(call[c].key, call[c].cand)
         /\ pc'[c] = "honor.gate" => ClaimBuried(c)
<1> DEFINE Goal ==
         /\ pc'[c] = "honor.score" => pc[c] # "honor.score" /\ phase'[c] = "none"
         /\ pc'[c] = "honor.prepare" =>
              \/ pc[c] = "honor.score" /\ UNCHANGED <<phase, view>>
              \/ pc[c] = "honor.prepare" /\ phase'[c] = "claim" /\ view'[c].prior \in Binding
         /\ pc'[c] = "htlc.record" =>
              /\ pc[c] = "htlc.reserve" /\ call' = call
              /\ Engine!ReserveClaimOutpoint(call[c].key, call[c].cand)
         /\ pc'[c] = "honor.gate" => ClaimBuried(c)
<1>1. pc \in [Calls -> Engine!Suspended \cup {"idle", "done"}]
  BY DEF Engine!TypeOK, Engine!CallTypeOK
<1>2. ASSUME NEW r, Engine!Return(c, r) PROVE Goal
  BY <1>1, <1>2 DEF Engine!Return
<1>3. ASSUME NEW k \in Keys, HonorStart(c, k) PROVE Goal
  BY <1>1, <1>3
  DEF HonorStart, Enter, FormTypeOK, Engine!HonorStart, Engine!Answer, Engine!Begin,
      Engine!InFlight, Engine!Suspended
<1>4. ASSUME NEW o \in Outpoints, ScoreOk(c, o) PROVE Goal
  <2>1. pc[c] = "honor.score" /\ UNCHANGED <<phase, view>>
    BY <1>4 DEF ScoreOk, KeepForm, Engine!HonorScoreOk
  <2>2. call[c].key \in Keys
    BY <2>1, CallMoves DEF Engine!Suspended
  <2>3. pc' = [pc EXCEPT ![c] = "honor.prepare"]
    BY <1>4, <2>2 DEF ScoreOk, Engine!HonorScoreOk, Engine!Resume
  <2> QED
    BY <1>1, <2>1, <2>3
<1>5. CASE PhaseB(c)
  <2>1. pc[c] = "honor.prepare" /\ pc' = pc /\ recorded[call[c].key] # NULL
    BY <1>5 DEF PhaseB, engineVars
  <2>2. call[c].key \in Keys
    BY <2>1, CallMoves DEF Engine!Suspended
  <2>3. phase'[c] = "claim" /\ view'[c].prior = recorded[call[c].key]
    BY <1>5 DEF PhaseB, EnterPhase, Enter, FormTypeOK
  <2> QED
    BY <1>1, <2>1, <2>2, <2>3 DEF FormTypeOK
<1>6. CASE PhaseA(c) \/ SubmitClaim(c)
  BY <1>1, <1>6 DEF PhaseA, SubmitClaim, Engine!HtlcPhaseA, Engine!Resume, engineVars
<1>7. CASE Reserve(c)
  BY <1>1, <1>7 DEF Reserve, Engine!HtlcReserve, Engine!Resume
<1>8. CASE ClaimBuried(c)
  BY <1>1, <1>8 DEF ClaimBuried, Engine!HtlcClaimBuried, Engine!Resume
<1>9. CASE \/ \E o \in Outpoints : ScoreDeclines(c, o)
           \/ \E r \in {"wait", "adapter_error"} :
                ScoreNot(c, r) \/ PhaseAStops(c, r) \/ PhaseBStops(c, r)
           \/ PhaseAUnready(c) \/ TipFails(c)
  BY <1>2, <1>9
  DEF ScoreDeclines, ScoreNot, PhaseAStops, PhaseBStops, PhaseAUnready, TipFails,
      Engine!HonorScoreFails, Engine!HtlcNotReady
<1>10. CASE \/ Record(c) \/ GateFails(c)
            \/ \E ret \in Engine!DeliverReturns : Gate(c, ret)
  BY <1>2, <1>10
  DEF Record, GateFails, Gate, Engine!HtlcRecord, Engine!StoreFails, Engine!HonorGate
<1>11. Goal
  BY <1>3, <1>4, <1>5, <1>6, <1>7, <1>8, <1>9, <1>10 DEF HonorStep
<1> QED
  BY <1>11

LEMMA NextViewInv ==
  ASSUME Engine!TypeOK, FormTypeOK, ViewInv, [Next]_vars
  PROVE  ViewInv'
<1>1. tip \in Nat /\ tip' \in Nat /\ tip <= tip' /\ \A c \in Calls : view[c].tip \in Nat
  BY ChainKeeps, HtlcAssumption DEF FormTypeOK
<1>2. ASSUME NEW c \in Calls, HonorStep(c) PROVE ViewInv'
  <2>1. \A d \in Calls \ {c} : /\ pc'[d] = pc[d] /\ phase'[d] = phase[d]
                              /\ view'[d] = view[d]
    <3>1. (PhaseB(c) \/ SubmitClaim(c)) => pc' = pc
      BY DEF PhaseB, SubmitClaim, engineVars
    <3>2. ASSUME NEW k \in Keys, HonorStart(c, k) PROVE Engine!HonorStart(c, k)
      BY <3>2 DEF HonorStart
    <3> QED
      BY <1>2, <3>1, <3>2, StepContinues, CallMoves, NextPhase, NextView
  <2>2. \A d \in Calls : view'[d].tip <= tip'
    BY <1>1, <1>2, <2>1, NextView DEF ViewInv
  <2>3. /\ pc'[c] = "honor.score" => phase'[c] = "none"
        /\ pc'[c] = "honor.prepare" /\ phase'[c] = "claim" => view'[c].prior \in Binding
    BY <1>2, StepEnds DEF ViewInv
  <2> QED
    BY <2>1, <2>2, <2>3 DEF ViewInv
<1>3. CASE Restart
  BY <1>1, <1>3 DEF Restart, Engine!Restart, ViewInv, NoView
<1>4. CASE ChainStep \/ UNCHANGED vars
  <2>1. UNCHANGED <<pc, phase, view>>
    BY <1>4 DEF ChainStep, LockBroadcast, Block, Reorg, ChainMoves, vars, engineVars, formVars
  <2> QED
    BY <1>1, <2>1 DEF ViewInv
<1> QED
  BY <1>2, <1>3, <1>4 DEF Next
-----------------------------------------------------------------------------
\* No row leaves the consumed table under the calls of honor, and a quote is
\* honored only by a call at the gate.
LEMMA TablesGrow ==
  ASSUME Engine!TypeOK, NEW c \in Calls, Engine!Continue(c)
  PROVE  /\ \A o \in Outpoints : consumed[o] # NoRow => consumed'[o] # NoRow
         /\ \A k \in Keys : Engine!Honored(k)' => Engine!Honored(k) \/ pc[c] = "honor.gate"
<1> DEFINE k == call[c].key
           o == call[c].cand
<1>1. /\ seen \in [Keys -> Engine!SeenRow \cup {NoRow}]
      /\ consumed \in [Outpoints -> Engine!ConsumedRow \cup {NoRow}]
      /\ call \in [Calls -> Engine!Local]
  BY DEF Engine!TypeOK, Engine!StoreTypeOK, Engine!CallTypeOK
<1>2. NoRow \notin Engine!ConsumedRow
  BY HtlcAssumption DEF Engine!StoreAssumption
<1>3. CASE Engine!RegisterWrite(c)
  <2>1. UNCHANGED consumed
    BY <1>3 DEF Engine!RegisterWrite, Engine!UpsertAccepted
  <2>2. ASSUME NEW j \in Keys PROVE Engine!Honored(j)' => Engine!Honored(j)
    BY <1>1, <1>3 DEF Engine!RegisterWrite, Engine!UpsertAccepted, Engine!Honored, Engine!Present
  <2> QED
    BY <2>1, <2>2
<1>4. CASE Engine!ObserveWrite(c)
  <2>1. UNCHANGED consumed
    BY <1>4 DEF Engine!ObserveWrite, Engine!MarkObservedBeforeExpiry
  <2>2. ASSUME NEW j \in Keys PROVE Engine!Honored(j)' => Engine!Honored(j)
    BY <1>1, <1>4
    DEF Engine!ObserveWrite, Engine!MarkObservedBeforeExpiry, Engine!Honored, Engine!Present,
        Engine!SeenRow
  <2> QED
    BY <2>1, <2>2
<1>5. CASE Engine!HtlcReserve(c)
  <2>1. k \in Keys /\ pc[c] = "htlc.reserve"
    BY <1>5, CallMoves DEF Engine!HtlcReserve, Engine!Suspended
  <2>2. UNCHANGED seen
    BY <1>5 DEF Engine!HtlcReserve, Engine!ReserveClaimOutpoint
  <2>3. \A p \in Outpoints : consumed[p] # NoRow => consumed'[p] = consumed[p]
    BY <1>1, <1>5 DEF Engine!HtlcReserve, Engine!ReserveClaimOutpoint
  <2> QED
    BY <2>2, <2>3 DEF Engine!Honored, Engine!Present
<1>6. ASSUME NEW ret \in Engine!DeliverReturns, Engine!HonorGate(c, ret)
      PROVE  /\ pc[c] = "honor.gate"
             /\ \A p \in Outpoints : consumed[p] # NoRow => consumed'[p] # NoRow
  <2>1. pc[c] = "honor.gate"
    BY <1>6 DEF Engine!HonorGate
  <2>2. k \in Keys /\ o \in Outpoints /\ call[c].row \in Nat
    BY <1>1, <2>1, CallMoves, BindingOutpoints
    DEF Engine!Suspended, Engine!Carrying, Engine!Local
  <2> DEFINE mode == Engine!GateMode(k)
             row == [owner |-> Engine!ConsumedOwner(k, o, mode), state |-> "honored",
                     retainUntil |-> call[c].row]
  <2>3. \/ /\ Engine!TxnResult(k, o, call[c].now, mode, ret) = "committed"
           /\ consumed' = [consumed EXCEPT ![o] = row]
        \/ UNCHANGED consumed
    BY <1>6 DEF Engine!HonorGate, Engine!RunHonorTxn, Engine!storeVars
  <2>4. CASE /\ Engine!TxnResult(k, o, call[c].now, mode, ret) = "committed"
             /\ consumed' = [consumed EXCEPT ![o] = row]
    <3>1. mode = "promote"
      BY <2>2 DEF Engine!GateMode
    <3>2. Engine!GateViolation(k, o, call[c].now, mode) = "none"
      BY <2>4 DEF Engine!TxnResult, Engine!GateViolation
    <3>3. Engine!InState(o, "claim_pending")
      BY <3>1, <3>2 DEF Engine!GateViolation, Engine!Consumable
    <3>4. consumed[o].owner \in Keys
      BY <1>1, <2>2, <3>3 DEF Engine!InState, Engine!ConsumedRow
    <3>5. row \in Engine!ConsumedRow
      BY <2>2, <3>1, <3>4 DEF Engine!ConsumedOwner, Engine!ConsumedRow
    <3> QED
      BY <1>1, <1>2, <2>1, <2>4, <3>5
  <2> QED
    BY <2>1, <2>3, <2>4
<1>7. CASE UNCHANGED <<seen, consumed>>
  BY <1>7 DEF Engine!Honored, Engine!Present
<1> QED
  BY <1>3, <1>4, <1>5, <1>6, <1>7
  DEF Engine!Continue, Engine!RegisterPreScreenFails, Engine!HonorScoreFails,
      Engine!HonorScoreOk, Engine!HtlcNotReady, Engine!HtlcPhaseA, Engine!HtlcRecord,
      Engine!HtlcClaimBuried, Engine!StoreFails, Engine!storeVars

\* The same for every step of the form.
LEMMA FormTablesGrow ==
  ASSUME Engine!TypeOK, [Next]_vars
  PROVE  /\ \A o \in Outpoints : consumed[o] # NoRow => consumed'[o] # NoRow
         /\ \A k \in Keys : Engine!Honored(k)' =>
              Engine!Honored(k) \/ \E c \in Calls : pc[c] = "honor.gate"
<1>1. CASE UNCHANGED <<seen, consumed>>
  BY <1>1 DEF Engine!Honored, Engine!Present
<1>2. ASSUME NEW c \in Calls, HonorStep(c), ~Engine!Continue(c)
      PROVE  UNCHANGED <<seen, consumed>>
  BY <1>2, StepContinues
  DEF HonorStart, Engine!HonorStart, PhaseB, SubmitClaim, engineVars, Engine!storeVars
<1>3. ChainStep \/ Restart \/ UNCHANGED vars => UNCHANGED <<seen, consumed>>
  BY DEF ChainStep, LockBroadcast, Block, Reorg, ChainMoves, Restart, vars, engineVars,
     Engine!Restart, Engine!storeVars
<1> QED
  BY <1>1, <1>2, <1>3, TablesGrow DEF Next

LEMMA NextReserved ==
  ASSUME Engine!TypeOK, FormTypeOK, ReservedInv, [Next]_vars
  PROVE  ReservedInv'
<1>1. \A o \in Outpoints : consumed[o] # NoRow => consumed'[o] # NoRow
  BY FormTablesGrow
<1>2. \A k \in Keys : recorded[k] # NULL => recorded[k] \in Outpoints
  BY BindingOutpoints DEF FormTypeOK
<1>3. \A c \in Calls : pc[c] = "htlc.record" => call[c].key \in Keys /\ call[c].cand \in Outpoints
  BY CallMoves, BindingOutpoints DEF Engine!Suspended, Engine!Carrying
<1>4. CASE UNCHANGED <<pc, call, recorded>>
  BY <1>1, <1>2, <1>3, <1>4 DEF ReservedInv
<1>5. ASSUME NEW c \in Calls, HonorStep(c) PROVE ReservedInv'
  <2>1. \A d \in Calls \ {c} : pc'[d] = pc[d] /\ call'[d] = call[d]
    <3>1. (PhaseB(c) \/ SubmitClaim(c)) => pc' = pc /\ call' = call
      BY DEF PhaseB, SubmitClaim, engineVars
    <3>2. ASSUME NEW k \in Keys, HonorStart(c, k) PROVE Engine!HonorStart(c, k)
      BY <3>2 DEF HonorStart
    <3> QED
      BY <1>5, <3>1, <3>2, StepContinues, CallMoves
  <2>2. pc'[c] = "htlc.record" => consumed'[call'[c].cand] # NoRow
    <3> SUFFICES ASSUME pc'[c] = "htlc.record" PROVE consumed'[call'[c].cand] # NoRow
      OBVIOUS
    <3>1. /\ pc[c] = "htlc.reserve" /\ call' = call
          /\ Engine!ReserveClaimOutpoint(call[c].key, call[c].cand)
      BY <1>5, StepEnds
    <3>2. call[c].key \in Keys /\ call[c].cand \in Outpoints
      BY <3>1, CallMoves, BindingOutpoints DEF Engine!Suspended, Engine!Carrying
    <3> DEFINE row == [owner |-> call[c].key, state |-> "claim_pending", retainUntil |-> Forever]
    <3>3. row # NoRow
      BY <3>2, HtlcAssumption DEF Engine!StoreAssumption, Engine!ConsumedRow
    <3>4. consumed'[call[c].cand] = IF consumed[call[c].cand] # NoRow
                                    THEN consumed[call[c].cand] ELSE row
      BY <3>1, <3>2 DEF Engine!ReserveClaimOutpoint, Engine!TypeOK, Engine!StoreTypeOK
    <3> QED
      BY <3>1, <3>3, <3>4
  <2>3. ASSUME NEW k \in Keys, recorded'[k] # NULL PROVE consumed'[recorded'[k]] # NoRow
    <3>1. CASE Record(c)
      <4>1. pc[c] = "htlc.record"
        BY <3>1 DEF Record, Engine!HtlcRecord
      <4>2. recorded' = [recorded EXCEPT ![call[c].key] = call[c].cand]
        BY <3>1 DEF Record
      <4>3. recorded'[k] \in {recorded[k], call[c].cand} /\ consumed[recorded'[k]] # NoRow
        BY <2>3, <4>1, <4>2 DEF ReservedInv, FormTypeOK
      <4> QED
        BY <1>1, <1>2, <1>3, <2>3, <4>1, <4>3
    <3>2. CASE ~Record(c)
      <4>1. UNCHANGED recorded
        BY <1>5, <3>2
        DEF HonorStep, HonorStart, ScoreOk, ScoreDeclines, ScoreNot, PhaseAStops,
            PhaseBStops, PhaseA, PhaseAUnready, PhaseB, TipFails, SubmitClaim, Reserve,
            ClaimBuried, GateFails, Gate, KeepForm
      <4> QED
        BY <1>1, <1>2, <2>3, <4>1 DEF ReservedInv
    <3> QED
      BY <3>1, <3>2
  <2> QED
    BY <1>1, <1>3, <2>1, <2>2, <2>3 DEF ReservedInv
<1>6. CASE Restart
  BY <1>6 DEF Restart, Engine!Restart, ReservedInv
<1>7. ChainStep \/ UNCHANGED vars => UNCHANGED <<pc, call, recorded>>
  BY DEF ChainStep, LockBroadcast, Block, Reorg, ChainMoves, vars, engineVars, formVars
<1> QED
  BY <1>4, <1>5, <1>6, <1>7 DEF Next

LEMMA NextSafe ==
  ASSUME Engine!TypeOK, FormTypeOK, ViewInv, SafeInv, [Next]_vars
  PROVE  SafeInv'
<1>1. (\E o \in Binding : Safe(o)) => (\E o \in Binding : Safe(o)')
  BY ChainKeeps, BindingOutpoints
<1>2. ASSUME NEW k \in Keys, Engine!Honored(k)'
      PROVE  \E o \in Binding : Safe(o)'
  BY <1>1, <1>2, FormTablesGrow DEF SafeInv
<1>3. ASSUME NEW c \in Calls, pc'[c] = "honor.gate"
      PROVE  \E o \in Binding : Safe(o)'
  <2>1. CASE pc[c] = "honor.gate"
    BY <1>1, <2>1 DEF SafeInv
  <2>2. CASE pc[c] # "honor.gate"
    <3>1. HonorStep(c)
      <4>1. ASSUME NEW d \in Calls \ {c}, HonorStep(d) PROVE pc'[c] = pc[c]
        <5>1. (PhaseB(d) \/ SubmitClaim(d)) => pc' = pc
          BY DEF PhaseB, SubmitClaim, engineVars
        <5>2. ASSUME NEW k \in Keys, HonorStart(d, k) PROVE Engine!HonorStart(d, k)
          BY <5>2 DEF HonorStart
        <5> QED
          BY <4>1, <5>1, <5>2, StepContinues, CallMoves
      <4>2. Restart => pc'[c] # "honor.gate"
        BY DEF Restart, Engine!Restart
      <4>3. ChainStep \/ UNCHANGED vars => pc' = pc
        BY DEF ChainStep, LockBroadcast, Block, Reorg, ChainMoves, vars, engineVars
      <4> QED
        BY <1>3, <2>2, <4>1, <4>2, <4>3 DEF Next
    <3>2. ClaimBuried(c)
      BY <1>3, <3>1, StepEnds
    <3>3. /\ view[c].prior \in Binding /\ view[c].tip <= tip
          /\ Buried(c)
      BY <3>2 DEF ClaimBuried, ViewInv
    <3>4. tip \in Nat /\ view[c].tip \in Nat
      BY HtlcAssumption DEF FormTypeOK
    <3>5. Safe(view[c].prior)
      BY <3>3, <3>4, HtlcAssumption DEF Buried, Safe, Depth, Mined, ClaimMargin
    <3> QED
      BY <1>1, <3>3, <3>5
  <2> QED
    BY <2>1, <2>2
<1> QED
  BY <1>2, <1>3 DEF SafeInv
-----------------------------------------------------------------------------
\* What holds of the engine, of the form and of the chain together.
HtlcInv == Proved!TypeOK /\ Proved!GateInv /\ FormInv

LEMMA InitHtlc == Init => HtlcInv
<1> SUFFICES ASSUME Init PROVE HtlcInv
  OBVIOUS
<1>1. ViewInv
  BY HtlcAssumption DEF Init, ViewInv, NoView
<1>2. ReservedInv
  BY DEF Init, ReservedInv
<1>3. SafeInv
  BY DEF Init, SafeInv, Engine!Honored, Engine!Present
<1> QED
  BY <1>1, <1>2, <1>3, InitForm, InitEngine DEF HtlcInv, FormInv

LEMMA NextHtlc ==
  ASSUME HtlcInv, [Next]_vars
  PROVE  HtlcInv' /\ [Proved!Next]_(Proved!vars)
<1>1. [Proved!Next]_(Proved!vars)
  BY StepOfEngine, SameEngine
<1>2. Proved!TypeOK' /\ Proved!GateInv'
  BY <1>1, Proved!NextType, Proved!NextGate, ProvedHolds DEF HtlcInv
<1>3. Engine!TypeOK /\ FormTypeOK /\ ViewInv /\ ReservedInv /\ SafeInv
  BY SameTypes DEF HtlcInv, FormInv
<1>4. FormInv'
  BY <1>3, NextFormType, NextViewInv, NextReserved, NextSafe DEF FormInv
<1> QED
  BY <1>1, <1>2, <1>4 DEF HtlcInv

LEMMA HtlcAlways == Spec => []HtlcInv
  BY InitHtlc, NextHtlc, PTL DEF Spec

\* The form's own state keeps its types, and its claims map and the engine's
\* set of claims are the same, in every instance.
THEOREM TypeCorrect == Spec => []TypeOK
<1>1. HtlcInv => TypeOK
  BY SameTypes, TypeParts DEF HtlcInv, FormInv
<1> QED
  BY <1>1, HtlcAlways, PTL

\* Phase B's promote has a row to promote (F13): prepare records a claim only
\* after reserveClaimOutpoint returned, and no call takes the row away.
THEOREM RecordedReserved == Spec => []RecordedIsReserved
<1>1. HtlcInv => RecordedIsReserved
  <2> SUFFICES ASSUME HtlcInv, NEW k \in Keys, recorded[k] # NULL
               PROVE  \/ Engine!InState(recorded[k], "claim_pending")
                      \/ Engine!InState(recorded[k], "honored")
    BY DEF RecordedIsReserved
  <2>1. recorded[k] \in Outpoints /\ consumed[recorded[k]] # NoRow
    BY BindingOutpoints DEF HtlcInv, FormInv, FormTypeOK, ReservedInv
  <2>2. consumed[recorded[k]] \in Engine!ConsumedRow
    BY <2>1, SameTypes DEF HtlcInv, Engine!TypeOK, Engine!StoreTypeOK
  <2> QED
    BY <2>1, <2>2 DEF Engine!InState, Engine!ConsumedRow
<1> QED
  BY <1>1, HtlcAlways, PTL

\* CLAIM_MARGIN is enough for any chain and any margins: once goods moved, a
\* claim that pays the quote stays where no tolerated reorganisation reaches,
\* though prepare judged its depth at a tip that may be old (R3).
THEOREM DeliveredOnBuried == Spec => []DeliveredOnBuriedClaim
<1>1. HtlcInv => DeliveredOnBuriedClaim
  BY DEF HtlcInv, FormInv, SafeInv, Safe, DeliveredOnBuriedClaim
<1> QED
  BY <1>1, HtlcAlways, PTL

\* The tables, the goods and the answers of honor agree for HTLC quotes too, also
\* across restarts that forget a claim.
THEOREM HtlcTablesAndAnswers == Spec => [](Engine!GateMatchesGoods /\ Engine!AnswersAreTrue)
<1>1. HtlcInv => Engine!GateMatchesGoods /\ Engine!AnswersAreTrue
  BY DEF HtlcInv, Proved!GateInv, Proved!GateMatchesGoods, Engine!GateMatchesGoods,
         Proved!AnswersAreTrue, Engine!AnswersAreTrue, Proved!Honored, Engine!Honored,
         Proved!Present, Engine!Present, Proved!InState, Engine!InState
<1> QED
  BY <1>1, HtlcAlways, PTL
=============================================================================
