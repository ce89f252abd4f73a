-------------------------- MODULE HonorEngineProofs --------------------------
(***************************************************************************)
(* Proofs about HonorEngine, for every set of quotes, outputs and calls    *)
(* and every value of the other constants: first types, then the gate and  *)
(* its answers, then exactly once, then what no step may do, and last that *)
(* the fake store of the tests answers as SQLite does.                     *)
(***************************************************************************)
EXTENDS HonorInvariants, GateStoreProofs, StoreParity, TLAPS

\* Retention is a date like any other.
LEMMA RetainNat == \A k \in Keys : Retain(k) \in Nat
  BY EngineAssumption DEF Retain

\* Frame builds the locals of a call, field by field.
LEMMA FrameType ==
  ASSUME NEW k \in Keys \cup {NULL}, NEW now \in Nat, NEW row \in Nat,
         NEW cand \in Outpoints \cup {NULL}
  PROVE  /\ Frame(k, now, row, cand) \in Local
         /\ Frame(k, now, row, cand).key = k
         /\ Frame(k, now, row, cand).now = now
         /\ Frame(k, now, row, cand).row = row
         /\ Frame(k, now, row, cand).cand = cand
  BY DEF Frame, Local

\* Call c goes to place to with locals f and result r.
Moves(c, to, f, r) ==
  /\ pc' = [pc EXCEPT ![c] = to]
  /\ call' = [call EXCEPT ![c] = f]
  /\ result' = [result EXCEPT ![c] = r]

\* The three ways a call begins or ends, and the one it goes on, are such moves.
LEMMA BeginMoves ==
  ASSUME NEW c, NEW k, NEW to, NEW row, Begin(c, k, to, row)
  PROVE  Moves(c, to, Frame(k, clock, row, NULL), "none")
  BY DEF Begin, Moves

LEMMA AnswerMoves ==
  ASSUME NEW c, NEW k, NEW r, Answer(c, k, r)
  PROVE  Moves(c, "done", Frame(k, 0, 0, NULL), r)
  BY DEF Answer, Moves

LEMMA ReturnMoves ==
  ASSUME CallTypeOK, NEW c \in Calls, NEW r, Return(c, r)
  PROVE  Moves(c, "done", Frame(call[c].key, 0, 0, call[c].cand), r)
  BY DEF Return, Moves, CallTypeOK

LEMMA ResumeMoves ==
  ASSUME CallTypeOK, NEW c \in Calls, NEW to, Resume(c, to), UNCHANGED call
  PROVE  Moves(c, to, call[c], result[c])
  BY DEF Resume, Moves, CallTypeOK

\* A step that moves one call to a well-typed place leaves all of them so.
LEMMA CallStepType ==
  ASSUME CallTypeOK, NEW c \in Calls,
         NEW to \in Suspended \cup {"idle", "done"}, NEW f \in Local, NEW r \in Results,
         Moves(c, to, f, r),
         to \in Suspended => f.key \in Keys,
         to \in Carrying => f.cand \in Settles[f.key]
  PROVE  CallTypeOK'
<1> USE DEF CallTypeOK, Moves
<1>1. pc' \in [Calls -> Suspended \cup {"idle", "done"}]
  OBVIOUS
<1>2. call' \in [Calls -> Local] /\ result' \in [Calls -> Results]
  OBVIOUS
<1>3. \A d \in Calls : InFlight(d)' => call'[d].key \in Keys
  BY DEF InFlight
<1>4. \A d \in Calls : pc'[d] \in Carrying => call'[d].cand \in Settles[call'[d].key]
  OBVIOUS
<1> QED
  BY <1>1, <1>2, <1>3, <1>4

\* Each of them leaves the calls well typed.
LEMMA BeginType ==
  ASSUME CallTypeOK, clock \in Nat, NEW c \in Calls, NEW k \in Keys, NEW row \in Nat,
         NEW to \in {"register.write", "observe.write", "honor.score"},
         Begin(c, k, to, row)
  PROVE  CallTypeOK'
<1>1. to \in Suspended \ Carrying /\ "none" \in Results
  BY DEF Suspended, Carrying, Results
<1>2. Frame(k, clock, row, NULL) \in Local /\ Frame(k, clock, row, NULL).key = k
  BY FrameType
<1> QED
  BY <1>1, <1>2, CallStepType, BeginMoves

LEMMA AnswerType ==
  ASSUME CallTypeOK, NEW c \in Calls, NEW k \in Keys, NEW r \in Results,
         Answer(c, k, r)
  PROVE  CallTypeOK'
<1>1. "done" \notin Suspended \cup Carrying
  BY DEF Suspended, Carrying
<1>2. Frame(k, 0, 0, NULL) \in Local
  BY FrameType
<1> QED
  BY <1>1, <1>2, CallStepType, AnswerMoves

LEMMA ReturnType ==
  ASSUME CallTypeOK, NEW c \in Calls, NEW r \in Results, Return(c, r)
  PROVE  CallTypeOK'
<1>1. "done" \notin Suspended \cup Carrying
  BY DEF Suspended, Carrying
<1>2. call[c].key \in Keys \cup {NULL} /\ call[c].cand \in Outpoints \cup {NULL}
  BY DEF CallTypeOK, Local
<1>3. Frame(call[c].key, 0, 0, call[c].cand) \in Local
  BY <1>2, FrameType
<1> QED
  BY <1>1, <1>3, CallStepType, ReturnMoves

\* A call that goes on with the locals it has.
LEMMA ResumeType ==
  ASSUME CallTypeOK, NEW c \in Calls, NEW to \in Carrying, pc[c] \in Carrying,
         Resume(c, to), UNCHANGED call
  PROVE  CallTypeOK'
<1>1. Carrying \subseteq Suspended
  BY DEF Carrying, Suspended
<1>2. call[c].key \in Keys /\ call[c].cand \in Settles[call[c].key]
  BY <1>1 DEF CallTypeOK, InFlight
<1>3. call[c] \in Local /\ result[c] \in Results
  BY DEF CallTypeOK
<1> QED
  BY <1>1, <1>2, <1>3, CallStepType, ResumeMoves

\* Every end of the gate transaction is one of six.
LEMMA TxnOutcome ==
  ASSUME NEW k, NEW o, NEW now, NEW mode, NEW ret \in DeliverReturns
  PROVE  TxnResult(k, o, now, mode, ret) \in
           {"seen-already-honored", "expired-window", "outpoint-consumed",
            "committed", "deliver-threw", "async-deliver"}
  BY DEF TxnResult, GateViolation, DeliverReturns, Lockable, Honored, Consumable, Present

\* Each of them becomes an answer of honor.
LEMMA TxnOutcomes ==
  ASSUME NEW k, NEW o, NEW now, NEW mode, NEW ret \in DeliverReturns
  PROVE  Outcomes(TxnResult(k, o, now, mode, ret)) \subseteq Results
  BY TxnOutcome DEF Outcomes, Results, Declines, Throws

\* The transaction names a quote honored already only when it is.
LEMMA RefusedHonored ==
  ASSUME NEW k, NEW o, NEW now, NEW mode \in {"single", "promote"}, NEW ret \in DeliverReturns,
         TxnResult(k, o, now, mode, ret) = "seen-already-honored"
  PROVE  Honored(k)
  BY DEF TxnResult, GateViolation, DeliverReturns, Lockable, Honored, Consumable, Present, InState
-----------------------------------------------------------------------------
LEMMA InitType == Init => TypeOK
<1> SUFFICES ASSUME Init PROVE TypeOK
  OBVIOUS
<1>1. StoreTypeOK
  BY InitStoreType DEF Init
<1>2. NoLocal \in Local
  BY FrameType DEF NoLocal
<1>3. CallTypeOK
  BY <1>2 DEF Init, CallTypeOK, InFlight, Suspended, Carrying, Results
<1> QED
  BY <1>1, <1>3 DEF Init, TypeOK

\* A call the consumer makes.
LEMMA ConsumerType ==
  ASSUME TypeOK, NEW c \in Calls, Consumer(c)
  PROVE  TypeOK'
<1> USE DEF TypeOK
<1>1. PICK k \in Keys : RegisterRead(c, k) \/ ObserveRead(c, k) \/ HonorStart(c, k)
  BY DEF Consumer
<1>2. StoreTypeOK' /\ clock' \in Nat /\ claims' \subseteq Keys
  BY <1>1 DEF RegisterRead, ObserveRead, HonorStart, StoreTypeOK, storeVars
<1>3. {"existed", "observed", "expired_unobserved", "already_honored"} \subseteq Results
  BY DEF Results, Declines
<1>4. CASE RegisterRead(c, k)
  BY <1>2, <1>3, <1>4, AnswerType, BeginType DEF RegisterRead
<1>5. CASE ObserveRead(c, k)
  BY <1>2, <1>3, <1>5, AnswerType, BeginType DEF ObserveRead
<1>6. CASE HonorStart(c, k)
  <2>1. Present(k) => seen[k].retainUntil \in Nat
    BY DEF Present, StoreTypeOK, SeenRow
  <2> QED
    BY <1>2, <1>3, <1>6, <2>1, AnswerType, BeginType DEF HonorStart
<1> QED
  BY <1>1, <1>2, <1>4, <1>5, <1>6

\* The rest of a call: one case per await it can be resumed at.
LEMMA ContinueType ==
  ASSUME TypeOK, NEW c \in Calls, Continue(c)
  PROVE  TypeOK'
<1> USE DEF TypeOK
<1>1. CASE RegisterWrite(c)
  <2>1. call[c].key \in Keys /\ Expiry[call[c].key] \in Nat /\ Retain(call[c].key) \in Nat
    BY <1>1, RetainNat, EngineAssumption DEF RegisterWrite, CallTypeOK, InFlight, Suspended
  <2>2. StoreTypeOK'
    BY <1>1, <2>1, UpsertType DEF RegisterWrite
  <2>3. CallTypeOK'
    BY <1>1, ReturnType DEF RegisterWrite, Results
  <2> QED
    BY <1>1, <2>2, <2>3 DEF RegisterWrite
<1>2. CASE \E r \in Results : RegisterPreScreenFails(c, r)
  BY <1>2, ReturnType DEF RegisterPreScreenFails, storeVars, StoreTypeOK
<1>3. CASE ObserveWrite(c)
  <2>1. call[c].key \in Keys
    BY <1>3 DEF ObserveWrite, CallTypeOK, InFlight, Suspended
  <2>2. StoreTypeOK'
    BY <1>3, <2>1, MarkObservedType DEF ObserveWrite
  <2>3. CallTypeOK'
    BY <1>3, ReturnType DEF ObserveWrite, Results
  <2> QED
    BY <1>3, <2>2, <2>3 DEF ObserveWrite
<1>4. CASE \E r \in Results : HonorScoreFails(c, r)
  BY <1>4, ReturnType DEF HonorScoreFails, storeVars, StoreTypeOK
<1>5. CASE \E o \in Outpoints : HonorScoreOk(c, o)
  <2>1. PICK o \in Outpoints : HonorScoreOk(c, o)
    BY <1>5
  <2> DEFINE f == Frame(call[c].key, call[c].now, call[c].row, o)
             to == IF Form[call[c].key] = "htlc" THEN "honor.prepare" ELSE "honor.gate"
  <2>2. /\ call[c].key \in Keys /\ call[c].now \in Nat /\ call[c].row \in Nat
        /\ o \in Settles[call[c].key]
    BY <2>1 DEF HonorScoreOk, CallTypeOK, InFlight, Suspended, Local
  <2>3. f \in Local /\ f.key = call[c].key /\ f.cand = o
    BY <2>2, FrameType
  <2>4. /\ to \in Suspended \cup {"idle", "done"}
        /\ result[c] \in Results
        /\ Moves(c, to, f, result[c])
    BY <2>1 DEF HonorScoreOk, Resume, Suspended, CallTypeOK, Moves
  <2> HIDE DEF f, to
  <2>5. CallTypeOK'
    BY <2>2, <2>3, <2>4, CallStepType
  <2> QED
    BY <2>1, <2>5 DEF HonorScoreOk, storeVars, StoreTypeOK
<1>6. CASE \E r \in Results : HtlcNotReady(c, r)
  BY <1>6, ReturnType DEF HtlcNotReady, storeVars, StoreTypeOK
<1>7. CASE HtlcPhaseA(c)
  <2>1. CallTypeOK'
    BY <1>7, ResumeType DEF HtlcPhaseA, Carrying
  <2> QED
    BY <1>7, <2>1 DEF HtlcPhaseA, storeVars, StoreTypeOK
<1>8. CASE HtlcReserve(c)
  <2>1. call[c].key \in Keys /\ call[c].cand \in Outpoints
    BY <1>8, EngineAssumption
       DEF HtlcReserve, CallTypeOK, InFlight, Suspended, Carrying
  <2>2. StoreTypeOK'
    BY <1>8, <2>1, ReserveType DEF HtlcReserve
  <2>3. CallTypeOK'
    BY <1>8, ResumeType DEF HtlcReserve, Carrying
  <2> QED
    BY <1>8, <2>2, <2>3 DEF HtlcReserve
<1>9. CASE HtlcRecord(c)
  <2>1. call[c].key \in Keys
    BY <1>9 DEF HtlcRecord, CallTypeOK, InFlight, Suspended
  <2>2. CallTypeOK'
    BY <1>9, ReturnType DEF HtlcRecord, Results
  <2> QED
    BY <1>9, <2>1, <2>2 DEF HtlcRecord, storeVars, StoreTypeOK
<1>10. CASE HtlcClaimBuried(c)
  <2>1. CallTypeOK'
    BY <1>10, ResumeType DEF HtlcClaimBuried, Carrying
  <2> QED
    BY <1>10, <2>1 DEF HtlcClaimBuried, storeVars, StoreTypeOK
<1>11. CASE \E ret \in DeliverReturns : HonorGate(c, ret)
  <2>1. PICK ret \in DeliverReturns : HonorGate(c, ret)
    BY <1>11
  <2>2. /\ call[c].key \in Keys /\ call[c].cand \in Outpoints
        /\ call[c].now \in Nat /\ call[c].row \in Nat
    BY <2>1, EngineAssumption
       DEF HonorGate, CallTypeOK, InFlight, Suspended, Carrying, Local
  <2>3. GateMode(call[c].key) \in {"single", "promote"}
    BY DEF GateMode
  <2>4. StoreTypeOK'
    BY <2>1, <2>2, <2>3, TxnType DEF HonorGate
  <2>5. PICK r \in Outcomes(TxnResult(call[c].key, call[c].cand, call[c].now,
                                       GateMode(call[c].key), ret)) : Return(c, r)
    BY <2>1 DEF HonorGate
  <2>6. r \in Results
    BY <2>2, <2>3, TxnOutcomes
  <2>7. CallTypeOK'
    BY <2>5, <2>6, ReturnType
  <2> QED
    BY <2>1, <2>4, <2>7 DEF HonorGate
<1>12. CASE StoreFails(c)
  BY <1>12, ReturnType DEF StoreFails, Results, Throws, storeVars, StoreTypeOK
<1> QED
  BY <1>1, <1>2, <1>3, <1>4, <1>5, <1>6, <1>7, <1>8, <1>9, <1>10, <1>11,
     <1>12 DEF Continue

\* The other actions leave the calls alone, or end them all.
LEMMA OtherType ==
  ASSUME TypeOK, (\E now \in 0..MaxTime : Sweep(now)) \/ Tick \/ Restart
  PROVE  TypeOK'
<1> USE DEF TypeOK
<1>1. CASE \E now \in 0..MaxTime : Sweep(now)
  BY <1>1, SweepType DEF Sweep, callVars, CallTypeOK, InFlight
<1>2. CASE Tick
  BY <1>2 DEF Tick, storeVars, callVars, StoreTypeOK, CallTypeOK, InFlight
<1>3. CASE Restart
  <2>1. NoLocal \in Local
    BY FrameType DEF NoLocal
  <2>2. CallTypeOK'
    BY <1>3, <2>1 DEF Restart, CallTypeOK, InFlight, Suspended, Carrying, Results
  <2> QED
    BY <1>3, <2>2 DEF Restart, storeVars, StoreTypeOK
<1> QED
  BY <1>1, <1>2, <1>3

LEMMA NextType == TypeOK /\ [Next]_vars => TypeOK'
<1> SUFFICES ASSUME TypeOK, [Next]_vars PROVE TypeOK'
  OBVIOUS
<1>1. CASE \E c \in Calls : Consumer(c) \/ Continue(c)
  BY <1>1, ConsumerType, ContinueType
<1>2. CASE (\E now \in 0..MaxTime : Sweep(now)) \/ Tick \/ Restart
  BY <1>2, OtherType
<1>3. CASE UNCHANGED vars
  BY <1>3 DEF vars, TypeOK, StoreTypeOK, CallTypeOK, InFlight
<1> QED
  BY <1>1, <1>2, <1>3 DEF Next

\* Type correctness: the tables stay well formed and every call that reaches the
\* gate carries an output that settles its quote.
THEOREM TypeCorrect == Spec => []TypeOK
  BY InitType, NextType, PTL DEF Spec

\* A call that begins, and one that goes on, is the only one to move: the await
\* of one call is where the others run.
LEMMA BegunCall ==
  ASSUME TypeOK, NEW c \in Calls, NEW k,
         RegisterRead(c, k) \/ ObserveRead(c, k) \/ HonorStart(c, k)
  PROVE  /\ call'[c].key = k
         /\ \A d \in Calls \ {c} : pc'[d] = pc[d] /\ call'[d] = call[d]
  BY DEF RegisterRead, ObserveRead, HonorStart, Begin, Answer, Frame, TypeOK, CallTypeOK

LEMMA ContinuedCall ==
  ASSUME TypeOK, NEW c \in Calls, Continue(c)
  PROVE  /\ InFlight(c) /\ call'[c].key = call[c].key
         /\ \A d \in Calls \ {c} : pc'[d] = pc[d] /\ call'[d] = call[d]
<1>1. /\ pc \in [Calls -> Suspended \cup {"idle", "done"}]
      /\ call \in [Calls -> Local]
  BY DEF TypeOK, CallTypeOK
<1>2. ASSUME NEW r, Return(c, r)
      PROVE  /\ call'[c].key = call[c].key
             /\ \A d \in Calls \ {c} : pc'[d] = pc[d] /\ call'[d] = call[d]
  BY <1>1, <1>2 DEF Return, Frame
<1>3. ASSUME NEW to, Resume(c, to), call' = call
      PROVE  \A d \in Calls \ {c} : pc'[d] = pc[d]
  BY <1>1, <1>3 DEF Resume
<1>4. ASSUME NEW o \in Outpoints, HonorScoreOk(c, o)
      PROVE  /\ call'[c].key = call[c].key
             /\ \A d \in Calls \ {c} : pc'[d] = pc[d] /\ call'[d] = call[d]
  BY <1>1, <1>4 DEF HonorScoreOk, Resume, Frame
<1>5. InFlight(c)
  BY DEF Continue, RegisterWrite, RegisterPreScreenFails, ObserveWrite, HonorScoreFails,
         HonorScoreOk, HtlcNotReady, HtlcPhaseA, HtlcReserve, HtlcRecord, HtlcClaimBuried,
         StoreFails, HonorGate, InFlight, Suspended
<1> QED
  BY <1>2, <1>3, <1>4, <1>5
     DEF Continue, RegisterWrite, RegisterPreScreenFails, ObserveWrite, HonorScoreFails,
         HtlcNotReady, HtlcPhaseA, HtlcReserve, HtlcRecord, HtlcClaimBuried,
         StoreFails, HonorGate
-----------------------------------------------------------------------------
(***************************************************************************)
(* The gate tables, the goods and the answers agree in every reachable     *)
(* state: GateInv is inductive, with no assumption beyond those HonorEngine*)
(* makes of its constants.                                                 *)
(***************************************************************************)

\* A move that respects the call's span keeps the dates of all calls.
LEMMA MoveWindow ==
  ASSUME CallTypeOK, CallsInWindow, clock' = clock, NEW c \in Calls,
         NEW to, NEW f, NEW r, Moves(c, to, f, r),
         to \in Suspended => f.now <= clock /\ clock <= f.now + CallSpan,
         to \in {"honor.score"} \cup Carrying => f.row = Retain(f.key)
  PROVE  CallsInWindow'
<1>1. \A d \in Calls : d # c => pc'[d] = pc[d] /\ call'[d] = call[d]
  BY DEF Moves, CallTypeOK
<1>2. pc'[c] = to /\ call'[c] = f
  BY DEF Moves, CallTypeOK
<1> QED
  BY <1>1, <1>2 DEF CallsInWindow, InFlight, Retain

\* A move whose answer is backed by the goods keeps all answers true.
LEMMA MoveAnswers ==
  ASSUME CallTypeOK, AnswersAreTrue, GoodsGrow, NEW c \in Calls,
         NEW to, NEW f, NEW r, Moves(c, to, f, r),
         to = "done" /\ r = "honored" =>
           \E i \in DOMAIN goods' : goods'[i] = [key |-> f.key, out |-> f.cand],
         to = "done" /\ r = "already_honored" =>
           \E i \in DOMAIN goods' : goods'[i].key = f.key
  PROVE  AnswersAreTrue'
<1>1. \A d \in Calls : d # c =>
        pc'[d] = pc[d] /\ call'[d] = call[d] /\ result'[d] = result[d]
  BY DEF Moves, CallTypeOK
<1>2. pc'[c] = to /\ call'[c] = f /\ result'[c] = r
  BY DEF Moves, CallTypeOK
<1> SUFFICES ASSUME NEW d \in Calls, pc'[d] = "done"
             PROVE  /\ result'[d] = "honored" => \E i \in DOMAIN goods' :
                         goods'[i] = [key |-> call'[d].key, out |-> call'[d].cand]
                    /\ result'[d] = "already_honored" => \E i \in DOMAIN goods' :
                         goods'[i].key = call'[d].key
  BY DEF AnswersAreTrue
<1>3. CASE d = c
  BY <1>2, <1>3
<1>4. CASE d # c
  BY <1>1, <1>4 DEF AnswersAreTrue, GoodsGrow
<1> QED
  BY <1>3, <1>4

\* The part of GateInv that is about the tables and the goods.
TablesInv ==
  /\ RowsInWindow
  /\ RetentionInv
  /\ GateMatchesGoods

LEMMA TablesAreDated ==
  /\ TablesInv <=> TablesDated(Expiry, Retention)
  /\ TablesInv' <=> TablesDated(Expiry, Retention)'
  BY DEF TablesInv, TablesDated, RowsInWindow, RowsDated, RetentionInv, RowsRetained,
         Retention, Retain

LEMMA TablesSame ==
  ASSUME TablesInv, UNCHANGED storeVars
  PROVE  TablesInv' /\ GoodsGrow
  BY TablesAreDated, DatedSame

LEMMA UpsertTables ==
  ASSUME StoreTypeOK, TablesInv, NEW k \in Keys, UpsertAccepted(k, Expiry[k], Retain(k))
  PROVE  TablesInv' /\ GoodsGrow
  BY TablesAreDated, UpsertDated DEF Retention

LEMMA MarkTables ==
  ASSUME StoreTypeOK, TablesInv, NEW k \in Keys, NEW now, MarkObservedBeforeExpiry(k, now)
  PROVE  TablesInv' /\ GoodsGrow
  BY TablesAreDated, MarkDated

LEMMA ReserveTables ==
  ASSUME StoreTypeOK, TablesInv, NEW k \in Keys, NEW o \in Outpoints,
         ReserveClaimOutpoint(k, o)
  PROVE  TablesInv' /\ GoodsGrow
  BY TablesAreDated, ReserveDated

LEMMA SweepTablesInv ==
  ASSUME StoreTypeOK, TablesInv, NEW now \in 0..MaxTime, SweepTables(now)
  PROVE  /\ TablesInv' /\ GoodsGrow
         /\ \A k \in Keys : Present(k)' => Present(k) /\ seen'[k] = seen[k]
         /\ \A k \in Keys : Present(k) /\ ~(Retain(k) < now) => Present(k)'
         /\ \A o \in Outpoints : InState(o, "claim_pending") => consumed'[o] = consumed[o]
<1>1. now \in Nat /\ now <= Forever
  BY EngineAssumption, StoreAssumption
<1>2. \A k \in Keys : Retention[k] = Retain(k)
  BY DEF Retention
<1> QED
  BY <1>1, <1>2, TablesAreDated, SweepDated

LEMMA CommitTables ==
  ASSUME StoreTypeOK, TablesInv, NEW k \in Keys, NEW o \in Outpoints, NEW now \in Nat,
         NEW mode \in {"single", "promote"}, NEW ret,
         RunHonorTxn(k, o, now, Retain(k), mode, ret),
         TxnResult(k, o, now, mode, ret) = "committed"
  PROVE  /\ TablesInv' /\ GoodsGrow
         /\ \E i \in DOMAIN goods' : goods'[i] = [key |-> k, out |-> o]
<1>1. Retention[k] = Retain(k) /\ Retention[k] \in Nat
  BY RetainNat DEF Retention
<1> QED
  BY <1>1, TablesAreDated, CommitDated
-----------------------------------------------------------------------------
LEMMA InitGate == Init => GateInv
<1> SUFFICES ASSUME Init PROVE GateInv
  OBVIOUS
<1>1. CallsInWindow /\ AnswersAreTrue
  BY EngineAssumption
     DEF Init, CallsInWindow, AnswersAreTrue, InFlight, Suspended, Carrying
<1>2. TablesInv
  BY DEF Init, StoreInit, TablesInv, RowsInWindow, RetentionInv, GateMatchesGoods,
         Honored, Present, InState
<1> QED
  BY <1>1, <1>2 DEF GateInv, TablesInv

\* A call the consumer makes answers at once, or captures the clock.
LEMMA ConsumerGate ==
  ASSUME TypeOK, GateInv, NEW c \in Calls, Consumer(c)
  PROVE  GateInv'
<1>1. PICK k \in Keys : RegisterRead(c, k) \/ ObserveRead(c, k) \/ HonorStart(c, k)
  BY DEF Consumer
<1>2. TablesInv' /\ GoodsGrow /\ clock' = clock /\ goods' = goods
  BY <1>1, TablesSame DEF GateInv, TablesInv, RegisterRead, ObserveRead, HonorStart, storeVars
<1>3. PICK to, f, r :
        /\ Moves(c, to, f, r)
        /\ \/ to \in {"register.write", "observe.write"} /\ f = Frame(k, clock, 0, NULL) /\ r = "none"
           \/ /\ to = "honor.score" /\ Present(k) /\ r = "none"
              /\ f = Frame(k, clock, seen[k].retainUntil, NULL)
           \/ /\ to = "done" /\ f = Frame(k, 0, 0, NULL)
              /\ r = "already_honored" => Honored(k)
              /\ r # "honored"
  <2>1. CASE RegisterRead(c, k)
    BY <2>1, BeginMoves, AnswerMoves DEF RegisterRead
  <2>2. CASE ObserveRead(c, k)
    BY <2>2, BeginMoves, AnswerMoves DEF ObserveRead
  <2>3. CASE HonorStart(c, k)
    BY <2>3, BeginMoves, AnswerMoves DEF HonorStart
  <2> QED
    BY <1>1, <2>1, <2>2, <2>3
<1>4. CallsInWindow'
  <2>1. clock \in Nat /\ CallSpan \in Nat /\ CallTypeOK /\ CallsInWindow
    BY EngineAssumption DEF TypeOK, GateInv
  <2>2. to \in Suspended => f.now <= clock /\ clock <= f.now + CallSpan
    BY <1>3, <2>1 DEF Frame, Suspended
  <2>3. to \in {"honor.score"} \cup Carrying => f.row = Retain(f.key)
    BY <1>3 DEF Frame, Carrying, GateInv, RowsInWindow
  <2> QED
    BY <1>2, <1>3, <2>1, <2>2, <2>3, MoveWindow
<1>5. AnswersAreTrue'
  <2>1. Honored(k) => \E i \in DOMAIN goods : goods[i].key = k
    BY DEF GateInv, GateMatchesGoods
  <2>2. f.key = k
    BY <1>3 DEF Frame
  <2>3. to = "done" /\ r = "already_honored" => \E i \in DOMAIN goods' : goods'[i].key = f.key
    BY <1>2, <1>3, <2>1, <2>2
  <2>4. CallTypeOK /\ AnswersAreTrue
    BY DEF TypeOK, GateInv
  <2>5. ~(to = "done" /\ r = "honored")
    BY <1>3
  <2> QED
    BY <1>2, <1>3, <2>3, <2>4, <2>5, MoveAnswers
<1> QED
  BY <1>2, <1>4, <1>5 DEF GateInv, TablesInv

\* A call that ends with an answer that promises nothing.
LEMMA PlainReturn ==
  ASSUME TypeOK, GateInv, NEW c \in Calls, NEW r \in Results \ {"honored", "already_honored"},
         Return(c, r), clock' = clock, GoodsGrow
  PROVE  CallsInWindow' /\ AnswersAreTrue'
<1>1. Moves(c, "done", Frame(call[c].key, 0, 0, call[c].cand), r)
  BY ReturnMoves DEF TypeOK
<1>2. "done" \notin Suspended \cup Carrying \cup {"honor.score"}
  BY DEF Suspended, Carrying
<1>3. CallTypeOK /\ CallsInWindow /\ AnswersAreTrue
  BY DEF TypeOK, GateInv
<1>4. CallsInWindow'
  BY <1>1, <1>2, <1>3, MoveWindow
<1>5. AnswersAreTrue'
  BY <1>1, <1>3, MoveAnswers
<1> QED
  BY <1>4, <1>5

\* A call that goes on keeps its now and its row.
LEMMA GoesOn ==
  ASSUME TypeOK, GateInv, NEW c \in Calls, NEW to \in Carrying, NEW f, NEW r,
         pc[c] \in {"honor.score"} \cup Carrying, Moves(c, to, f, r),
         f.key = call[c].key, f.now = call[c].now, f.row = call[c].row,
         clock' = clock, GoodsGrow
  PROVE  CallsInWindow' /\ AnswersAreTrue'
<1>1. Carrying \cup {"honor.score"} \subseteq Suspended /\ to # "done"
  BY DEF Carrying, Suspended
<1>2. CallTypeOK /\ CallsInWindow /\ AnswersAreTrue
  BY DEF TypeOK, GateInv
<1>3. /\ f.now <= clock /\ clock <= f.now + CallSpan
      /\ f.row = Retain(f.key)
  BY <1>1, <1>2 DEF CallsInWindow, InFlight
<1>4. CallsInWindow'
  BY <1>2, <1>3, MoveWindow
<1>5. AnswersAreTrue'
  BY <1>1, <1>2, MoveAnswers
<1> QED
  BY <1>4, <1>5

\* What a call at the gate knows: its output settles its quote, its dates hold.
LEMMA AtGate ==
  ASSUME TypeOK, GateInv, NEW c \in Calls, pc[c] \in Carrying
  PROVE  /\ call[c].key \in Keys
         /\ call[c].cand \in Settles[call[c].key] /\ call[c].cand \in Outpoints
         /\ call[c].now \in Nat /\ call[c].row = Retain(call[c].key)
         /\ call[c].now <= clock /\ clock <= call[c].now + CallSpan
         /\ GateMode(call[c].key) \in {"single", "promote"}
<1>1. Carrying \subseteq Suspended
  BY DEF Carrying, Suspended
<1>2. call[c].key \in Keys /\ call[c].cand \in Settles[call[c].key] /\ call[c].now \in Nat
  BY <1>1 DEF TypeOK, CallTypeOK, InFlight, Local
<1> QED
  BY <1>1, <1>2, EngineAssumption DEF GateInv, CallsInWindow, InFlight, GateMode

LEMMA HonorGateStep ==
  ASSUME TypeOK, GateInv, NEW c \in Calls, NEW ret \in DeliverReturns, HonorGate(c, ret)
  PROVE  GateInv'
<1> DEFINE k == call[c].key
           o == call[c].cand
           txn == TxnResult(k, o, call[c].now, GateMode(k), ret)
<1>1. pc[c] \in Carrying
  BY DEF HonorGate, Carrying
<1>2. /\ k \in Keys /\ o \in Outpoints /\ call[c].now \in Nat
      /\ GateMode(k) \in {"single", "promote"} /\ call[c].row = Retain(k)
  BY <1>1, AtGate
<1>3. RunHonorTxn(k, o, call[c].now, Retain(k), GateMode(k), ret) /\ clock' = clock
  BY <1>2 DEF HonorGate
<1>4. PICK r \in Outcomes(txn) : Return(c, r)
  BY DEF HonorGate
<1>5. StoreTypeOK /\ TablesInv /\ CallTypeOK /\ CallsInWindow /\ AnswersAreTrue
  BY DEF TypeOK, GateInv, TablesInv
<1>6. TablesInv' /\ GoodsGrow
  BY <1>2, <1>3, <1>5, CommitTables, RollbackKeeps, TablesSame
<1> DEFINE f == Frame(k, 0, 0, o)
<1>7. Moves(c, "done", f, r) /\ f.key = k /\ f.cand = o
  BY <1>4, <1>5, ReturnMoves DEF Frame
<1> HIDE DEF f
<1>8. "done" \notin Suspended \cup Carrying \cup {"honor.score"}
  BY DEF Suspended, Carrying
<1>9. CallsInWindow'
  BY <1>3, <1>5, <1>7, <1>8, MoveWindow
<1>10. r = "honored" => txn = "committed"
  BY <1>4, TxnOutcome DEF Outcomes
<1>11. r = "already_honored" => txn = "seen-already-honored"
  BY <1>4, TxnOutcome DEF Outcomes
<1>12. txn = "seen-already-honored" => Honored(k)
  BY <1>2, RefusedHonored
<1>13. r = "honored" => \E i \in DOMAIN goods' : goods'[i] = [key |-> f.key, out |-> f.cand]
  BY <1>2, <1>3, <1>5, <1>7, <1>10, CommitTables
<1>14. r = "already_honored" => \E i \in DOMAIN goods' : goods'[i].key = f.key
  <2> SUFFICES ASSUME r = "already_honored"
               PROVE  \E i \in DOMAIN goods' : goods'[i].key = f.key
    OBVIOUS
  <2>1. PICK i \in DOMAIN goods : goods[i].key = k
    BY <1>2, <1>5, <1>11, <1>12 DEF TablesInv, GateMatchesGoods
  <2> QED
    BY <1>6, <1>7, <2>1 DEF GoodsGrow
<1>15. AnswersAreTrue'
  BY <1>5, <1>6, <1>7, <1>13, <1>14, MoveAnswers
<1> QED
  BY <1>6, <1>9, <1>15 DEF GateInv, TablesInv

\* The rest of a call: one case per await it can be resumed at.
LEMMA ContinueGate ==
  ASSUME TypeOK, GateInv, NEW c \in Calls, Continue(c)
  PROVE  GateInv'
<1>1. StoreTypeOK /\ CallTypeOK /\ TablesInv
  BY DEF TypeOK, GateInv, TablesInv
<1>2. pc[c] \in Suspended => call[c].key \in Keys
  BY <1>1 DEF CallTypeOK, InFlight
<1>3. CASE RegisterWrite(c)
  <2>1. TablesInv' /\ GoodsGrow /\ clock' = clock
    BY <1>1, <1>2, <1>3, UpsertTables DEF RegisterWrite, Suspended
  <2> QED
    BY <1>3, <2>1, PlainReturn DEF RegisterWrite, Results, GateInv, TablesInv
<1>4. CASE \E r \in Results : RegisterPreScreenFails(c, r)
  <2>1. PICK r \in Results : RegisterPreScreenFails(c, r)
    BY <1>4
  <2>2. TablesInv' /\ GoodsGrow /\ clock' = clock
    BY <1>1, <2>1, TablesSame DEF RegisterPreScreenFails
  <2>3. r \notin {"honored", "already_honored"} /\ Return(c, r)
    BY <2>1 DEF RegisterPreScreenFails
  <2> QED
    BY <2>2, <2>3, PlainReturn DEF GateInv, TablesInv
<1>5. CASE ObserveWrite(c)
  <2>1. TablesInv' /\ GoodsGrow /\ clock' = clock
    BY <1>1, <1>2, <1>5, MarkTables DEF ObserveWrite, Suspended
  <2> QED
    BY <1>5, <2>1, PlainReturn DEF ObserveWrite, Results, GateInv, TablesInv
<1>6. CASE \E r \in Results : HonorScoreFails(c, r)
  <2>1. PICK r \in Results : HonorScoreFails(c, r)
    BY <1>6
  <2>2. TablesInv' /\ GoodsGrow /\ clock' = clock
    BY <1>1, <2>1, TablesSame DEF HonorScoreFails
  <2>3. r \notin {"honored", "already_honored"} /\ Return(c, r)
    BY <2>1 DEF HonorScoreFails
  <2> QED
    BY <2>2, <2>3, PlainReturn DEF GateInv, TablesInv
<1>7. CASE \E o \in Outpoints : HonorScoreOk(c, o)
  <2>1. PICK o \in Outpoints : HonorScoreOk(c, o)
    BY <1>7
  <2> DEFINE to == IF Form[call[c].key] = "htlc" THEN "honor.prepare" ELSE "honor.gate"
             f == Frame(call[c].key, call[c].now, call[c].row, o)
  <2>2. to \in Carrying
    BY DEF Carrying
  <2>3. f.key = call[c].key /\ f.now = call[c].now /\ f.row = call[c].row
    BY DEF Frame
  <2>4. Moves(c, to, f, result[c])
    BY <1>1, <2>1 DEF HonorScoreOk, Resume, Moves, CallTypeOK
  <2>5. TablesInv' /\ GoodsGrow /\ clock' = clock /\ pc[c] = "honor.score"
    BY <1>1, <2>1, TablesSame DEF HonorScoreOk
  <2> HIDE DEF to, f
  <2> QED
    BY <2>2, <2>3, <2>4, <2>5, GoesOn DEF GateInv, TablesInv
<1>8. CASE \E r \in Results : HtlcNotReady(c, r)
  <2>1. PICK r \in Results : HtlcNotReady(c, r)
    BY <1>8
  <2>2. TablesInv' /\ GoodsGrow /\ clock' = clock
    BY <1>1, <2>1, TablesSame DEF HtlcNotReady
  <2>3. r \notin {"honored", "already_honored"} /\ Return(c, r)
    BY <2>1 DEF HtlcNotReady
  <2> QED
    BY <2>2, <2>3, PlainReturn DEF GateInv, TablesInv
<1>9. CASE HtlcPhaseA(c)
  <2>1. TablesInv' /\ GoodsGrow /\ clock' = clock
    BY <1>1, <1>9, TablesSame DEF HtlcPhaseA
  <2>2. Moves(c, "htlc.reserve", call[c], result[c]) /\ pc[c] \in Carrying
    BY <1>1, <1>9, ResumeMoves DEF HtlcPhaseA, Carrying
  <2> QED
    BY <2>1, <2>2, GoesOn DEF GateInv, TablesInv, Carrying
<1>10. CASE HtlcReserve(c)
  <2>1. pc[c] \in Carrying
    BY <1>10 DEF HtlcReserve, Carrying
  <2>2. TablesInv' /\ GoodsGrow /\ clock' = clock
    BY <1>1, <1>10, <2>1, AtGate, ReserveTables DEF HtlcReserve
  <2>3. Moves(c, "htlc.record", call[c], result[c])
    BY <1>1, <1>10, ResumeMoves DEF HtlcReserve
  <2> QED
    BY <2>1, <2>2, <2>3, GoesOn DEF GateInv, TablesInv, Carrying
<1>11. CASE HtlcRecord(c)
  <2>1. TablesInv' /\ GoodsGrow /\ clock' = clock
    BY <1>1, <1>11, TablesSame DEF HtlcRecord
  <2> QED
    BY <1>11, <2>1, PlainReturn DEF HtlcRecord, Results, GateInv, TablesInv
<1>12. CASE HtlcClaimBuried(c)
  <2>1. TablesInv' /\ GoodsGrow /\ clock' = clock
    BY <1>1, <1>12, TablesSame DEF HtlcClaimBuried
  <2>2. Moves(c, "honor.gate", call[c], result[c]) /\ pc[c] \in Carrying
    BY <1>1, <1>12, ResumeMoves DEF HtlcClaimBuried, Carrying
  <2> QED
    BY <2>1, <2>2, GoesOn DEF GateInv, TablesInv, Carrying
<1>13. CASE \E ret \in DeliverReturns : HonorGate(c, ret)
  BY <1>13, HonorGateStep
<1>14. CASE StoreFails(c)
  <2>1. TablesInv' /\ GoodsGrow /\ clock' = clock
    BY <1>1, <1>14, TablesSame DEF StoreFails
  <2> QED
    BY <1>14, <2>1, PlainReturn DEF StoreFails, Results, Throws, GateInv, TablesInv
<1> QED
  BY <1>3, <1>4, <1>5, <1>6, <1>7, <1>8, <1>9, <1>10, <1>11, <1>12, <1>13, <1>14
     DEF Continue

LEMMA OtherGate ==
  ASSUME TypeOK, GateInv, (\E now \in 0..MaxTime : Sweep(now)) \/ Tick \/ Restart
  PROVE  GateInv'
<1>1. StoreTypeOK /\ TablesInv
  BY DEF TypeOK, GateInv, TablesInv
<1>2. CASE \E now \in 0..MaxTime : Sweep(now)
  <2>1. PICK now \in 0..MaxTime : Sweep(now)
    BY <1>2
  <2>2. TablesInv' /\ GoodsGrow
    BY <1>1, <2>1, SweepTablesInv DEF Sweep
  <2>3. CallsInWindow'
    BY <2>1 DEF Sweep, callVars, GateInv, CallsInWindow, InFlight, Retain
  <2>4. AnswersAreTrue'
    BY <2>1, <2>2 DEF Sweep, SweepTables, callVars, GateInv, AnswersAreTrue
  <2> QED
    BY <2>2, <2>3, <2>4 DEF GateInv, TablesInv
<1>3. CASE Tick
  <2>1. TablesInv' /\ GoodsGrow
    BY <1>1, <1>3, TablesSame DEF Tick
  <2>2. \A c \in Calls : InFlight(c) =>
          call[c].now <= clock + 1 /\ clock + 1 <= call[c].now + CallSpan
    BY <1>3 DEF Tick, TypeOK, CallTypeOK, Local, GateInv, CallsInWindow
  <2>3. clock + 1 <= MaxTime
    BY <1>3, EngineAssumption DEF Tick, TypeOK
  <2>4. CallsInWindow'
    BY <1>3, <2>2, <2>3 DEF Tick, callVars, GateInv, CallsInWindow, InFlight, Retain
  <2>5. AnswersAreTrue'
    BY <1>3 DEF Tick, storeVars, callVars, GateInv, AnswersAreTrue
  <2> QED
    BY <2>1, <2>4, <2>5 DEF GateInv, TablesInv
<1>4. CASE Restart
  <2>1. TablesInv' /\ GoodsGrow
    BY <1>1, <1>4, TablesSame DEF Restart
  <2>2. CallsInWindow' /\ AnswersAreTrue'
    BY <1>4 DEF Restart, GateInv, CallsInWindow, AnswersAreTrue, InFlight, Suspended, Carrying
  <2> QED
    BY <2>1, <2>2 DEF GateInv, TablesInv
<1> QED
  BY <1>2, <1>3, <1>4

LEMMA NextGate == TypeOK /\ GateInv /\ [Next]_vars => GateInv'
<1> SUFFICES ASSUME TypeOK, GateInv, [Next]_vars PROVE GateInv'
  OBVIOUS
<1>1. CASE \E c \in Calls : Consumer(c) \/ Continue(c)
  BY <1>1, ConsumerGate, ContinueGate
<1>2. CASE (\E now \in 0..MaxTime : Sweep(now)) \/ Tick \/ Restart
  BY <1>2, OtherGate
<1>3. CASE UNCHANGED vars
  <2>1. TablesInv'
    BY <1>3, TablesSame DEF vars, storeVars, GateInv, TablesInv
  <2>2. CallsInWindow' /\ AnswersAreTrue'
    BY <1>3 DEF vars, GateInv, CallsInWindow, AnswersAreTrue, InFlight, Retain
  <2> QED
    BY <2>1, <2>2 DEF GateInv, TablesInv
<1> QED
  BY <1>1, <1>2, <1>3 DEF Next

\* The invariant behind the safety properties below, in every reachable state.
THEOREM GateInvariant == Spec => []GateInv
<1>1. Init => TypeOK /\ GateInv
  BY InitType, InitGate
<1>2. TypeOK /\ GateInv /\ [Next]_vars => TypeOK' /\ GateInv'
  BY NextType, NextGate
<1> QED
  BY <1>1, <1>2, PTL DEF Spec

\* The gate tables and the consumer's goods agree at every turn.
THEOREM TablesAndGoodsAgree == Spec => []GateMatchesGoods
<1>1. GateInv => GateMatchesGoods
  BY DEF GateInv
<1> QED
  BY <1>1, GateInvariant, PTL

\* What honor answers is backed by goods that moved.
THEOREM AnswersAreBacked == Spec => []AnswersAreTrue
<1>1. GateInv => AnswersAreTrue
  BY DEF GateInv
<1> QED
  BY <1>1, GateInvariant, PTL
-----------------------------------------------------------------------------
(***************************************************************************)
(* What a step does to the tables, whichever call takes it.                *)
(***************************************************************************)

Commit(k, o, now, mode, ret) ==
  /\ RunHonorTxn(k, o, now, Retain(k), mode, ret)
  /\ TxnResult(k, o, now, mode, ret) = "committed"
  /\ o \in Settles[k]
  /\ now <= clock /\ clock <= now + CallSpan

\* Every step of the engine, as what it does to the tables.
TablesMove ==
  \/ UNCHANGED storeVars
  \/ \E k \in Keys : UpsertAccepted(k, Expiry[k], Retain(k))
  \/ \E k \in Keys, now \in Nat :
       clock <= now + CallSpan /\ MarkObservedBeforeExpiry(k, now)
  \/ \E k \in Keys, o \in Outpoints : ReserveClaimOutpoint(k, o)
  \/ \E k \in Keys, o \in Outpoints, now \in Nat, mode \in {"single", "promote"},
        ret \in DeliverReturns : Commit(k, o, now, mode, ret)
  \/ \E now \in 0..MaxTime : now <= clock /\ SweepTables(now)

LEMMA StepMovesTables == TypeOK /\ GateInv /\ [Next]_vars => TablesMove
<1> SUFFICES ASSUME TypeOK, GateInv, [Next]_vars PROVE TablesMove
  OBVIOUS
<1>1. ASSUME NEW c \in Calls, Continue(c)
      PROVE  TablesMove
  <2>1. pc[c] \in Suspended => call[c].key \in Keys /\ call[c].now \in Nat
    BY DEF TypeOK, CallTypeOK, InFlight, Local
  <2>2. CASE RegisterWrite(c)
    BY <2>1, <2>2 DEF RegisterWrite, Suspended, TablesMove
  <2>3. CASE ObserveWrite(c)
    BY <2>1, <2>3 DEF ObserveWrite, Suspended, TablesMove, GateInv, CallsInWindow, InFlight
  <2>4. CASE HtlcReserve(c)
    <3>1. call[c].key \in Keys /\ call[c].cand \in Outpoints
      BY <2>4, AtGate DEF HtlcReserve, Carrying
    <3> QED
      BY <2>4, <3>1 DEF HtlcReserve, TablesMove
  <2>5. CASE \E ret \in DeliverReturns : HonorGate(c, ret)
    <3>1. PICK ret \in DeliverReturns : HonorGate(c, ret)
      BY <2>5
    <3> DEFINE k == call[c].key
               o == call[c].cand
               now == call[c].now
    <3>2. /\ k \in Keys /\ o \in Outpoints /\ o \in Settles[k] /\ now \in Nat
          /\ GateMode(k) \in {"single", "promote"}
          /\ now <= clock /\ clock <= now + CallSpan /\ call[c].row = Retain(k)
      BY <3>1, AtGate DEF HonorGate, Carrying
    <3>3. RunHonorTxn(k, o, now, Retain(k), GateMode(k), ret)
      BY <3>1, <3>2 DEF HonorGate
    <3> HIDE DEF k, o, now
    <3>4. CASE TxnResult(k, o, now, GateMode(k), ret) = "committed"
      BY <3>2, <3>3, <3>4 DEF Commit, TablesMove
    <3>5. CASE TxnResult(k, o, now, GateMode(k), ret) # "committed"
      BY <3>3, <3>5, RollbackKeeps DEF TablesMove
    <3> QED
      BY <3>4, <3>5
  <2>6. CASE UNCHANGED storeVars
    BY <2>6 DEF TablesMove
  <2>7. \/ RegisterWrite(c) \/ ObserveWrite(c) \/ HtlcReserve(c)
        \/ \E ret \in DeliverReturns : HonorGate(c, ret)
        \/ UNCHANGED storeVars
    BY <1>1 DEF Continue, RegisterPreScreenFails, HonorScoreFails, HonorScoreOk, HtlcNotReady,
                HtlcPhaseA, HtlcRecord, HtlcClaimBuried, StoreFails
  <2> QED
    BY <2>2, <2>3, <2>4, <2>5, <2>6, <2>7
<1>2. CASE \E now \in 0..MaxTime : Sweep(now)
  BY <1>2 DEF Sweep, TablesMove
<1>3. CASE UNCHANGED storeVars
  BY <1>3 DEF TablesMove
<1>4. \/ \E c \in Calls : Continue(c)
      \/ \E now \in 0..MaxTime : Sweep(now)
      \/ UNCHANGED storeVars
  BY DEF Next, Consumer, RegisterRead, ObserveRead, HonorStart, Tick, Restart, vars, storeVars
<1> QED
  BY <1>1, <1>2, <1>3, <1>4

-----------------------------------------------------------------------------
(***************************************************************************)
(* Exactly once: a payment once per retention whatever the constants, a    *)
(* quote once when calls fit the recheck window; together, the engine      *)
(* implements ExactlyOnce.                                                 *)
(***************************************************************************)

LEMMA GoodsAreDeliveries ==
  ASSUME TypeOK
  PROVE  /\ goods \in Seq(Delivery)
         /\ \A i \in DOMAIN goods : goods[i].key \in Keys /\ goods[i].out \in Outpoints
<1>1. goods \in Seq(Delivery)
  BY DEF TypeOK, StoreTypeOK
<1>2. \A i \in DOMAIN goods : goods[i] \in Delivery
  BY <1>1
<1> QED
  BY <1>1, <1>2 DEF Delivery

\* Time passes in steps of its own.
LEMMA ClockMoves ==
  ASSUME TypeOK, [Next]_vars
  PROVE  /\ clock \in Nat /\ clock' \in Nat /\ clock <= clock'
         /\ clock' = clock \/ UNCHANGED storeVars
<1>1. clock' = clock \/ (clock' = clock + 1 /\ UNCHANGED storeVars)
  BY DEF Next, Consumer, RegisterRead, ObserveRead, HonorStart, Continue, RegisterWrite,
         RegisterPreScreenFails, ObserveWrite, HonorScoreFails, HonorScoreOk, HtlcNotReady,
         HtlcPhaseA, HtlcReserve, HtlcRecord, HtlcClaimBuried, StoreFails, HonorGate,
         Sweep, Tick, Restart, vars
<1> QED
  BY <1>1 DEF TypeOK

\* A commit, in terms of the rows it finds and leaves.
LEMMA CommitRows ==
  ASSUME TypeOK, NEW k \in Keys, NEW o \in Outpoints, NEW now \in Nat,
         NEW mode \in {"single", "promote"}, NEW ret \in DeliverReturns,
         Commit(k, o, now, mode, ret)
  PROVE  /\ Lockable(k, now) /\ ~Honored(k) /\ ~InState(o, "honored")
         /\ seen'[k] # NoRow /\ seen'[k].honoredAt # NULL
         /\ \A j \in Keys : j # k => seen'[j] = seen[j]
         /\ consumed'[o] # NoRow /\ consumed'[o].state = "honored"
         /\ consumed'[o].retainUntil = Retain(k)
         /\ \A q \in Outpoints : q # o => consumed'[q] = consumed[q]
         /\ goods' = Append(goods, [key |-> k, out |-> o])
<1>1. Retain(k) \in Nat /\ StoreTypeOK
  BY RetainNat DEF TypeOK
<1>2. CommitEffect(k, o, now, Retain(k))
  BY <1>1, CommitWrites DEF Commit
<1> QED
  BY <1>2 DEF CommitEffect, Honored, Present, InState

\* What a delivery appended to the goods changes of them.
LEMMA AppendedGoods ==
  ASSUME TypeOK, NEW k \in Keys, NEW o \in Outpoints,
         goods' = Append(goods, [key |-> k, out |-> o])
  PROVE  /\ DOMAIN goods' = DOMAIN goods \cup {Len(goods) + 1}
         /\ goods'[Len(goods) + 1] = [key |-> k, out |-> o]
         /\ \A i \in DOMAIN goods : /\ goods'[i] = goods[i]
                                    /\ i \in Nat /\ i < Len(goods) + 1
  BY GoodsAreDeliveries
-----------------------------------------------------------------------------
\* A step that delivers nothing, and lets go of an honored outpoint only when
\* it is out of retention, keeps PaymentInv.
LEMMA PaymentKept ==
  ASSUME TypeOK, PaymentInv, goods' = goods, clock' \in Nat, clock <= clock',
         \A o \in Outpoints : InState(o, "honored") =>
           consumed'[o] = consumed[o] \/ consumed[o].retainUntil < clock'
  PROVE  PaymentInv'
<1>1. ASSUME NEW i \in DOMAIN goods
      PROVE  \/ Retain(goods[i].key) < clock'
             \/ /\ InState(goods[i].out, "honored")'
                /\ consumed'[goods[i].out].retainUntil = Retain(goods[i].key)
  <2>1. /\ goods[i].out \in Outpoints /\ Retain(goods[i].key) \in Nat /\ clock \in Nat
    BY GoodsAreDeliveries, RetainNat DEF TypeOK
  <2> QED
    BY <2>1 DEF PaymentInv, InState
<1>2. \A i \in DOMAIN goods : Retain(goods[i].key) < clock => Retain(goods[i].key) < clock'
  BY GoodsAreDeliveries, RetainNat DEF TypeOK
<1>3. OneDeliveryPerRetention'
  BY <1>2 DEF PaymentInv, OneDeliveryPerRetention, Retain
<1> QED
  BY <1>1, <1>3 DEF PaymentInv, Retain

\* A commit finds its output unused, or every quote it paid out of retention.
LEMMA PaymentCommit ==
  ASSUME TypeOK, PaymentInv, clock' = clock, NEW k \in Keys, NEW o \in Outpoints,
         NEW now \in Nat, NEW mode \in {"single", "promote"}, NEW ret \in DeliverReturns,
         Commit(k, o, now, mode, ret)
  PROVE  /\ PaymentInv'
         /\ \A i \in DOMAIN goods : goods[i].out = o => Retain(goods[i].key) < clock
<1>1. /\ ~InState(o, "honored")
      /\ consumed'[o] # NoRow /\ consumed'[o].state = "honored"
      /\ consumed'[o].retainUntil = Retain(k)
      /\ \A q \in Outpoints : q # o => consumed'[q] = consumed[q]
      /\ goods' = Append(goods, [key |-> k, out |-> o])
  BY CommitRows
<1>2. \A i \in DOMAIN goods : goods[i].out = o => Retain(goods[i].key) < clock
  BY <1>1 DEF PaymentInv
<1> DEFINE n == Len(goods) + 1
<1>3. /\ DOMAIN goods' = DOMAIN goods \cup {n} /\ n \in Nat
      /\ goods'[n] = [key |-> k, out |-> o]
      /\ \A i \in DOMAIN goods : goods'[i] = goods[i] /\ i \in Nat /\ i < n
  BY <1>1, AppendedGoods, GoodsAreDeliveries
<1> HIDE DEF n
<1>4. ASSUME NEW i \in DOMAIN goods'
      PROVE  \/ Retain(goods'[i].key) < clock'
             \/ /\ InState(goods[i].out, "honored")'
                /\ consumed'[goods'[i].out].retainUntil = Retain(goods'[i].key)
  <2>1. CASE i = n
    BY <1>1, <1>3, <2>1 DEF InState
  <2>2. CASE i # n
    <3>1. i \in DOMAIN goods /\ goods'[i] = goods[i] /\ goods[i].out \in Outpoints
      BY <1>3, <2>2, GoodsAreDeliveries
    <3> QED
      BY <1>1, <1>2, <3>1 DEF PaymentInv, InState
  <2> QED
    BY <2>1, <2>2
<1>5. ASSUME NEW i \in DOMAIN goods', NEW j \in DOMAIN goods',
             i < j, goods'[i].out = goods'[j].out
      PROVE  Retain(goods'[i].key) < clock'
  <2>1. i \in DOMAIN goods
    BY <1>3, <1>5
  <2>2. CASE j = n
    BY <1>2, <1>3, <1>5, <2>1, <2>2
  <2>3. CASE j # n
    BY <1>3, <1>5, <2>1, <2>3 DEF PaymentInv, OneDeliveryPerRetention
  <2> QED
    BY <2>2, <2>3
<1>6. OneDeliveryPerRetention'
  BY <1>5 DEF OneDeliveryPerRetention, Retain
<1> QED
  BY <1>2, <1>4, <1>6 DEF PaymentInv, Retain

\* Every step keeps it: it needs no assumption on the constants.
LEMMA NextPayment ==
  ASSUME TypeOK, GateInv, PaymentInv, [Next]_vars
  PROVE  PaymentInv'
<1>1. /\ clock \in Nat /\ clock' \in Nat /\ clock <= clock'
      /\ clock' = clock \/ UNCHANGED storeVars
  BY ClockMoves
<1>2. CASE UNCHANGED storeVars
  BY <1>1, <1>2, PaymentKept DEF storeVars
<1>3. ASSUME NEW k \in Keys,
             \/ UpsertAccepted(k, Expiry[k], Retain(k))
             \/ \E now \in Nat : MarkObservedBeforeExpiry(k, now)
      PROVE  PaymentInv'
  BY <1>1, <1>3, PaymentKept DEF UpsertAccepted, MarkObservedBeforeExpiry
<1>4. ASSUME NEW k \in Keys, NEW o \in Outpoints, ReserveClaimOutpoint(k, o)
      PROVE  PaymentInv'
  <2>1. \A q \in Outpoints : InState(q, "honored") => consumed'[q] = consumed[q]
    BY <1>4 DEF ReserveClaimOutpoint, InState, TypeOK, StoreTypeOK
  <2> QED
    BY <1>1, <1>4, <2>1, PaymentKept DEF ReserveClaimOutpoint
<1>5. ASSUME NEW now \in 0..MaxTime, now <= clock, SweepTables(now)
      PROVE  PaymentInv'
  <2>1. \A q \in Outpoints : InState(q, "honored") => consumed[q].retainUntil \in Nat
    BY DEF InState, TypeOK, StoreTypeOK, ConsumedRow
  <2>2. \A q \in Outpoints : InState(q, "honored") =>
          consumed'[q] = consumed[q] \/ consumed[q].retainUntil < clock'
    BY <1>1, <1>5, <2>1 DEF SweepTables
  <2> QED
    BY <1>1, <1>5, <2>2, PaymentKept DEF SweepTables
<1>6. ASSUME ~UNCHANGED storeVars, NEW k \in Keys, NEW o \in Outpoints, NEW now \in Nat,
             NEW mode \in {"single", "promote"}, NEW ret \in DeliverReturns,
             Commit(k, o, now, mode, ret)
      PROVE  PaymentInv'
  BY <1>1, <1>6, PaymentCommit
<1> QED
  BY <1>2, <1>3, <1>4, <1>5, <1>6, StepMovesTables DEF TablesMove
-----------------------------------------------------------------------------
\* A call of the window cannot observe or lock a spent quote.
LEMMA SpentIsOver ==
  ASSUME CallsFitWindow, TypeOK, GateInv, NEW k \in Keys, Spent(k), NEW now \in Nat,
         clock <= now + CallSpan
  PROVE  ~(now < Expiry[k]) /\ ~Lockable(k, now)
<1>1. Retain(k) < clock /\ clock <= now + RecheckWindow + 1
  BY EngineAssumption DEF Spent, CallsFitWindow, TypeOK
<1>2. ~(now < Expiry[k])
  BY <1>1, EngineAssumption DEF Retain, TypeOK
<1>3. ~Lockable(k, now)
  BY <1>2 DEF Lockable, Spent, GateInv, RowsInWindow
<1> QED
  BY <1>2, <1>3

\* A step that delivers nothing and unspends nothing keeps OnceInv.
LEMMA OnceKept ==
  ASSUME TypeOK, OnceInv, goods' = goods,
         \A k \in Keys : Spent(k) => Spent(k)',
         \A k \in Keys : Honored(k) => Honored(k)' \/ Spent(k)'
  PROVE  OnceInv'
<1>1. \A i \in DOMAIN goods' : Honored(goods[i].key)' \/ Spent(goods[i].key)'
  BY GoodsAreDeliveries DEF OnceInv
<1> QED
  BY <1>1 DEF OnceInv, OneDeliveryPerQuote

\* Steps that leave quote_seen alone, or only let time pass.
LEMMA OnceSame ==
  ASSUME TypeOK, OnceInv, UNCHANGED <<seen, goods>>, clock' \in Nat, clock <= clock'
  PROVE  OnceInv'
<1>1. \A k \in Keys : Spent(k) => Spent(k)'
  BY RetainNat DEF Spent, Retain, Present, Honored, TypeOK
<1> QED
  BY <1>1, OnceKept DEF Honored, Present

LEMMA OnceRegister ==
  ASSUME TypeOK, OnceInv, clock' = clock, NEW k \in Keys,
         UpsertAccepted(k, Expiry[k], Retain(k))
  PROVE  OnceInv'
<1>1. \A j \in Keys : Present(j) => seen'[j] = seen[j]
  BY DEF UpsertAccepted, TypeOK, StoreTypeOK, Present
<1>2. \A j \in Keys : ~Present(j) => \/ seen'[j] = seen[j]
                                     \/ ~seen'[j].observed /\ seen'[j].honoredAt = NULL
  BY DEF UpsertAccepted, TypeOK, StoreTypeOK, Present
<1>3. \A j \in Keys : Spent(j) => Spent(j)'
  BY <1>1, <1>2 DEF Spent, Retain, Honored, Present
<1> QED
  BY <1>1, <1>3, OnceKept DEF UpsertAccepted, Honored, Present

LEMMA OnceObserve ==
  ASSUME CallsFitWindow, TypeOK, GateInv, OnceInv, clock' = clock,
         NEW k \in Keys, NEW now \in Nat, clock <= now + CallSpan,
         MarkObservedBeforeExpiry(k, now)
  PROVE  OnceInv'
<1>1. \A j \in Keys : Honored(j) => Honored(j)'
  <2>1. [seen[k] EXCEPT !.observed = TRUE] \in SeenRow \/ ~Present(k)
    BY DEF TypeOK, StoreTypeOK, Present, SeenRow
  <2>2. Present(k) => [seen[k] EXCEPT !.observed = TRUE].honoredAt = seen[k].honoredAt
    BY DEF TypeOK, StoreTypeOK, Present, SeenRow
  <2> QED
    BY <2>1, <2>2, StoreAssumption
       DEF MarkObservedBeforeExpiry, TypeOK, StoreTypeOK, Honored, Present
<1>2. \A j \in Keys : Spent(j) => Spent(j)'
  <2> SUFFICES ASSUME NEW j \in Keys, Spent(j) PROVE Spent(j)'
    OBVIOUS
  <2>1. j = k => ~(now < Expiry[k])
    BY SpentIsOver
  <2>2. seen'[j] = seen[j]
    BY <2>1 DEF MarkObservedBeforeExpiry, TypeOK, StoreTypeOK, GateInv, RowsInWindow
  <2> QED
    BY <2>2 DEF Spent, Retain, Honored, Present
<1> QED
  BY <1>1, <1>2, OnceKept DEF MarkObservedBeforeExpiry

\* A sweep deletes the honored latch of a quote only when it is spent.
LEMMA OnceSweep ==
  ASSUME TypeOK, GateInv, OnceInv, clock' = clock,
         NEW now \in 0..MaxTime, now <= clock, SweepTables(now)
  PROVE  OnceInv'
<1>1. /\ \A k \in Keys : Present(k)' => seen'[k] = seen[k]
      /\ \A k \in Keys : Present(k) /\ ~(Retain(k) < now) => Present(k)'
  BY SweepTablesInv DEF TypeOK, GateInv, TablesInv
<1>2. \A k \in Keys : Retain(k) < now => ~Present(k)'
  BY DEF SweepTables, Present, GateInv, RowsInWindow
<1>3. \A k \in Keys : Retain(k) < now => Spent(k)'
  <2>1. clock \in Nat /\ now \in Nat /\ \A k \in Keys : Retain(k) \in Nat
    BY EngineAssumption, RetainNat DEF TypeOK
  <2> QED
    BY <1>2, <2>1 DEF Spent, Retain
<1>4. \A k \in Keys : Spent(k) => Spent(k)'
  BY <1>1 DEF Spent, Retain, Honored, Present
<1>5. \A k \in Keys : Honored(k) => Honored(k)' \/ Spent(k)'
  BY <1>1, <1>3 DEF Honored
<1> QED
  BY <1>4, <1>5, OnceKept DEF SweepTables

\* The commit of a call of the window is for a quote that never delivered.
LEMMA OnceCommit ==
  ASSUME CallsFitWindow, TypeOK, GateInv, OnceInv, clock' = clock,
         NEW k \in Keys, NEW o \in Outpoints, NEW now \in Nat,
         NEW mode \in {"single", "promote"}, NEW ret \in DeliverReturns,
         Commit(k, o, now, mode, ret)
  PROVE  OnceInv' /\ \A i \in DOMAIN goods : goods[i].key # k
<1>1. /\ Lockable(k, now) /\ ~Honored(k)
      /\ seen'[k] # NoRow /\ seen'[k].honoredAt # NULL
      /\ \A j \in Keys : j # k => seen'[j] = seen[j]
      /\ goods' = Append(goods, [key |-> k, out |-> o])
  BY CommitRows
<1>2. ~Spent(k)
  BY <1>1, SpentIsOver DEF Commit
<1>3. \A i \in DOMAIN goods : goods[i].key # k
  BY <1>1, <1>2 DEF OnceInv
<1> DEFINE n == Len(goods) + 1
<1>4. /\ DOMAIN goods' = DOMAIN goods \cup {n}
      /\ goods'[n] = [key |-> k, out |-> o]
      /\ \A i \in DOMAIN goods : goods'[i] = goods[i]
  BY <1>1, AppendedGoods
<1> HIDE DEF n
<1>5. ASSUME NEW i \in DOMAIN goods'
      PROVE  Honored(goods[i].key)' \/ Spent(goods[i].key)'
  <2>1. CASE i = n
    BY <1>1, <1>4, <2>1 DEF Honored, Present
  <2>2. CASE i # n
    <3>1. i \in DOMAIN goods /\ goods'[i] = goods[i] /\ goods[i].key \in Keys
      BY <1>4, <2>2, GoodsAreDeliveries
    <3>2. seen'[goods[i].key] = seen[goods[i].key]
      BY <1>1, <1>3, <3>1
    <3> QED
      BY <3>1, <3>2 DEF OnceInv, Honored, Present, Spent, Retain
  <2> QED
    BY <2>1, <2>2
<1>6. OneDeliveryPerQuote'
  BY <1>3, <1>4 DEF OnceInv, OneDeliveryPerQuote
<1> QED
  BY <1>3, <1>5, <1>6 DEF OnceInv

LEMMA NextOnce ==
  ASSUME CallsFitWindow, TypeOK, GateInv, OnceInv, [Next]_vars
  PROVE  OnceInv'
<1>1. /\ clock \in Nat /\ clock' \in Nat /\ clock <= clock'
      /\ clock' = clock \/ UNCHANGED storeVars
  BY ClockMoves
<1>2. CASE UNCHANGED storeVars
  BY <1>1, <1>2, OnceSame DEF storeVars
<1>3. ASSUME ~UNCHANGED storeVars,
             \/ \E k \in Keys : UpsertAccepted(k, Expiry[k], Retain(k))
             \/ \E k \in Keys, now \in Nat :
                  clock <= now + CallSpan /\ MarkObservedBeforeExpiry(k, now)
             \/ \E now \in 0..MaxTime : now <= clock /\ SweepTables(now)
      PROVE  OnceInv'
  BY <1>1, <1>3, OnceRegister, OnceObserve, OnceSweep
<1>4. ASSUME NEW k \in Keys, NEW o \in Outpoints, ReserveClaimOutpoint(k, o)
      PROVE  OnceInv'
  BY <1>1, <1>4, OnceSame DEF ReserveClaimOutpoint
<1>5. ASSUME ~UNCHANGED storeVars, NEW k \in Keys, NEW o \in Outpoints, NEW now \in Nat,
             NEW mode \in {"single", "promote"}, NEW ret \in DeliverReturns,
             Commit(k, o, now, mode, ret)
      PROVE  OnceInv'
  BY <1>1, <1>5, OnceCommit
<1> QED
  BY <1>2, <1>3, <1>4, <1>5, StepMovesTables DEF TablesMove
-----------------------------------------------------------------------------
LEMMA InitOnce == Init => OnceInv /\ PaymentInv /\ Promise!Init
  BY DEF Init, StoreInit, OnceInv, PaymentInv, OneDeliveryPerQuote, OneDeliveryPerRetention,
         Promise!Init

\* A payment is spent on one delivery until the quote it paid is out of
\* retention: for any windows, ages of calls and expiries, and whichever of the
\* quotes that it could pay asks next.
THEOREM PaymentDeliveredOnce == Spec => []OneDeliveryPerRetention
<1>1. Init => TypeOK /\ GateInv /\ PaymentInv
  BY InitType, InitGate, InitOnce
<1>2. TypeOK /\ GateInv /\ PaymentInv /\ [Next]_vars => TypeOK' /\ GateInv' /\ PaymentInv'
  BY NextType, NextGate, NextPayment
<1>3. PaymentInv => OneDeliveryPerRetention
  BY DEF PaymentInv
<1> QED
  BY <1>1, <1>2, <1>3, PTL DEF Spec

LEMMA AlwaysOnce ==
  ASSUME CallsFitWindow
  PROVE  Spec => [](OnceInv /\ PaymentInv)
<1>1. Init => TypeOK /\ GateInv /\ OnceInv /\ PaymentInv
  BY InitType, InitGate, InitOnce
<1>2. TypeOK /\ GateInv /\ OnceInv /\ PaymentInv /\ [Next]_vars =>
        TypeOK' /\ GateInv' /\ OnceInv' /\ PaymentInv'
  BY NextType, NextGate, NextOnce, NextPayment
<1> QED
  BY <1>1, <1>2, PTL DEF Spec

\* The goods of a quote move once, whatever calls, sweeps and restarts come
\* between, for calls that fit the recheck window.
THEOREM QuoteDeliveredOnce ==
  ASSUME CallsFitWindow
  PROVE  Spec => []OneDeliveryPerQuote
<1>1. OnceInv => OneDeliveryPerQuote
  BY DEF OnceInv
<1> QED
  BY <1>1, AlwaysOnce, PTL

\* A step that moves goods delivers afresh; any other lets at most time pass.
LEMMA NextPromise ==
  ASSUME CallsFitWindow, TypeOK, GateInv, OnceInv, PaymentInv, [Next]_vars
  PROVE  [Promise!Next]_(Promise!vars)
<1>1. /\ clock \in Nat /\ clock' \in Nat /\ clock <= clock'
      /\ clock' = clock \/ UNCHANGED storeVars
  BY ClockMoves
<1>2. CASE goods' = goods
  BY <1>1, <1>2 DEF Promise!Next, Promise!TimePasses, Promise!vars
<1>3. ASSUME goods' # goods, NEW k \in Keys, NEW o \in Outpoints, NEW now \in Nat,
             NEW mode \in {"single", "promote"}, NEW ret \in DeliverReturns,
             Commit(k, o, now, mode, ret)
      PROVE  Promise!Deliver(k, o)
  <2>1. clock' = clock
    BY <1>1, <1>3 DEF storeVars
  <2>2. \A i \in DOMAIN goods : goods[i].key # k
    BY <1>3, <2>1, OnceCommit
  <2>3. \A i \in DOMAIN goods : goods[i].out = o => Retain(goods[i].key) < clock
    BY <1>3, <2>1, PaymentCommit
  <2>4. \A i \in DOMAIN goods : Retention[goods[i].key] = Retain(goods[i].key)
    BY GoodsAreDeliveries DEF Retention
  <2>5. goods' = Append(goods, [key |-> k, out |-> o]) /\ o \in Settles[k]
    BY <1>3, CommitRows DEF Commit
  <2> QED
    BY <2>1, <2>2, <2>3, <2>4, <2>5 DEF Promise!Deliver, Promise!Fresh
<1>4. goods' # goods => \E k \in Keys, o \in Outpoints : Promise!Deliver(k, o)
  BY <1>3, StepMovesTables
     DEF TablesMove, storeVars, UpsertAccepted, MarkObservedBeforeExpiry,
         ReserveClaimOutpoint, SweepTables
<1> QED
  BY <1>2, <1>4 DEF Promise!Next

\* The engine's tables implement the promise of ExactlyOnce: no quote delivers
\* twice, and no payment before the quote it paid is out of retention, for calls
\* that fit the recheck window.
THEOREM EngineImplementsPromise ==
  ASSUME CallsFitWindow
  PROVE  Spec => ImplementsPromise
<1>1. Init => TypeOK /\ GateInv /\ OnceInv /\ PaymentInv /\ Promise!Init
  BY InitType, InitGate, InitOnce
<1>2. TypeOK /\ GateInv /\ OnceInv /\ PaymentInv /\ [Next]_vars =>
        /\ TypeOK' /\ GateInv' /\ OnceInv' /\ PaymentInv'
        /\ [Promise!Next]_(Promise!vars)
  BY NextType, NextGate, NextOnce, NextPayment, NextPromise
<1> QED
  BY <1>1, <1>2, PTL DEF Spec, ImplementsPromise, Promise!Spec
-----------------------------------------------------------------------------
(***************************************************************************)
(* What no step of the engine may do to a record, a reservation or the     *)
(* goods, from TypeOK and GateInv alone.                                   *)
(***************************************************************************)

\* No step takes back goods: the engine only ever appends a delivery.
LEMMA NextGoods == TypeOK /\ GateInv /\ [Next]_vars => GoodsGrow
<1> SUFFICES ASSUME TypeOK, GateInv, [Next]_vars PROVE GoodsGrow
  OBVIOUS
<1>1. goods \in Seq(Delivery)
  BY DEF TypeOK, StoreTypeOK
<1>2. ASSUME NEW k \in Keys, NEW o \in Outpoints, NEW now \in Nat,
             NEW mode \in {"single", "promote"}, NEW ret \in DeliverReturns,
             Commit(k, o, now, mode, ret)
      PROVE  GoodsGrow
  <2>1. goods' = Append(goods, [key |-> k, out |-> o])
    BY <1>2 DEF Commit, RunHonorTxn
  <2>2. [key |-> k, out |-> o] \in Delivery
    BY DEF Delivery
  <2> QED
    BY <1>1, <2>1, <2>2 DEF GoodsGrow
<1>3. CASE goods' = goods
  BY <1>3 DEF GoodsGrow
<1> QED
  BY <1>2, <1>3, StepMovesTables
     DEF TablesMove, storeVars, UpsertAccepted, MarkObservedBeforeExpiry,
         ReserveClaimOutpoint, SweepTables

LEMMA AlwaysTypeAndGate == Spec => [](TypeOK /\ GateInv)
<1>1. Init => TypeOK /\ GateInv
  BY InitType, InitGate
<1>2. TypeOK /\ GateInv /\ [Next]_vars => TypeOK' /\ GateInv'
  BY NextType, NextGate
<1> QED
  BY <1>1, <1>2, PTL DEF Spec
-----------------------------------------------------------------------------
\* A reserved claim outpoint is only ever promoted, for its owner.
THEOREM ReservationsHold == Spec => ReservationHeld
<1> DEFINE A == \A o \in Outpoints : InState(o, "claim_pending") =>
                  \/ consumed'[o] = consumed[o]
                  \/ InState(o, "honored")' /\ consumed'[o].owner = consumed[o].owner
<1>1. TypeOK /\ GateInv /\ [Next]_vars => A
  <2> SUFFICES ASSUME TypeOK, GateInv, [Next]_vars,
                      NEW o \in Outpoints, InState(o, "claim_pending")
               PROVE  \/ consumed'[o] = consumed[o]
                      \/ InState(o, "honored")' /\ consumed'[o].owner = consumed[o].owner
    OBVIOUS
  <2>1. StoreTypeOK /\ TablesInv
    BY DEF TypeOK, GateInv, TablesInv
  <2>2. CASE UNCHANGED consumed
    BY <2>2
  <2>3. CASE \E k \in Keys, q \in Outpoints : ReserveClaimOutpoint(k, q)
    BY <2>1, <2>3 DEF ReserveClaimOutpoint, InState, StoreTypeOK
  <2>4. ASSUME NEW k \in Keys, NEW q \in Outpoints, NEW now \in Nat,
               NEW mode \in {"single", "promote"}, NEW ret \in DeliverReturns,
               Commit(k, q, now, mode, ret)
        PROVE  \/ consumed'[o] = consumed[o]
               \/ InState(o, "honored")' /\ consumed'[o].owner = consumed[o].owner
    <3>1. /\ Retain(k) \in Nat
          /\ RunHonorTxn(k, q, now, Retain(k), mode, ret)
          /\ TxnResult(k, q, now, mode, ret) = "committed"
      BY <2>4, RetainNat DEF Commit
    <3>2. CommitEffect(k, q, now, Retain(k))
      BY <2>1, <3>1, CommitWrites
    <3> QED
      BY <3>2 DEF CommitEffect, InState
  <2>5. CASE \E now \in 0..MaxTime : now <= clock /\ SweepTables(now)
    BY <2>1, <2>5, SweepTablesInv
  <2>6. TablesMove
    BY StepMovesTables
  <2> QED
    BY <2>2, <2>3, <2>4, <2>5, <2>6
       DEF TablesMove, storeVars, UpsertAccepted, MarkObservedBeforeExpiry
<1> QED
  BY <1>1, AlwaysTypeAndGate, PTL DEF Spec, ReservationHeld

\* Goods move only in the R6 window, with the slack of one call.
THEOREM DeliveriesInWindow == Spec => DeliveredInWindow
<1> DEFINE A == \A k \in Keys : (Honored(k)' /\ ~Honored(k)) =>
                  /\ clock < Retain(k) + CallSpan
                  /\ clock < Expiry[k] + CallSpan \/ seen[k].observed
<1>1. TypeOK /\ GateInv /\ [Next]_vars => A
  <2> SUFFICES ASSUME TypeOK, GateInv, [Next]_vars,
                      NEW k \in Keys, Honored(k)', ~Honored(k)
               PROVE  /\ clock < Retain(k) + CallSpan
                      /\ clock < Expiry[k] + CallSpan \/ seen[k].observed
    OBVIOUS
  <2>1. StoreTypeOK /\ TablesInv
    BY DEF TypeOK, GateInv, TablesInv
  <2>2. ~UNCHANGED seen
    BY DEF Honored, Present
  <2>3. ~\E j \in Keys : UpsertAccepted(j, Expiry[j], Retain(j))
    BY <2>1 DEF UpsertAccepted, StoreTypeOK, Honored, Present
  <2>4. ~\E j \in Keys, now \in Nat : MarkObservedBeforeExpiry(j, now)
    <3> SUFFICES ASSUME NEW j \in Keys, NEW now \in Nat, MarkObservedBeforeExpiry(j, now)
                 PROVE  FALSE
      OBVIOUS
    <3>1. Present(j) => [seen[j] EXCEPT !.observed = TRUE].honoredAt = seen[j].honoredAt
      BY <2>1 DEF StoreTypeOK, Present, SeenRow
    <3> QED
      BY <2>1, <3>1 DEF MarkObservedBeforeExpiry, StoreTypeOK, Honored, Present
  <2>5. ~\E now \in 0..MaxTime : now <= clock /\ SweepTables(now)
    BY <2>1, SweepTablesInv DEF Honored
  <2>6. PICK j \in Keys, o \in Outpoints, now \in Nat, mode \in {"single", "promote"},
             ret \in DeliverReturns : Commit(j, o, now, mode, ret)
    BY <2>2, <2>3, <2>4, <2>5, StepMovesTables
       DEF TablesMove, storeVars, ReserveClaimOutpoint
  <2>7. Retain(j) \in Nat /\ RunHonorTxn(j, o, now, Retain(j), mode, ret)
        /\ TxnResult(j, o, now, mode, ret) = "committed"
    BY <2>6, RetainNat DEF Commit
  <2>8. CommitEffect(j, o, now, Retain(j))
    BY <2>1, <2>7, CommitWrites
  <2>9. j = k /\ Lockable(k, now)
    BY <2>8 DEF CommitEffect, Honored, Present
  <2>10. now < Retain(k) /\ (now < Expiry[k] \/ seen[k].observed)
    BY <2>1, <2>9 DEF Lockable, TablesInv, RowsInWindow
  <2>11. clock <= now + CallSpan
    BY <2>6 DEF Commit
  <2> QED
    BY <2>10, <2>11, RetainNat, EngineAssumption DEF TypeOK
<1> QED
  BY <1>1, AlwaysTypeAndGate, PTL DEF Spec, DeliveredInWindow

\* A record keeps its window, its latch and its honor until it is swept past
\* its retention.
THEOREM RecordsAreWriteAhead == Spec => RecordIsWriteAhead
<1> DEFINE Keeps(k) ==
             /\ Present(k)'
             /\ seen'[k].expiresAt = seen[k].expiresAt
             /\ seen'[k].retainUntil = seen[k].retainUntil
             /\ seen[k].observed => seen'[k].observed
             /\ Honored(k) => /\ seen'[k].honoredAt = seen[k].honoredAt
                              /\ seen'[k].honoredOut = seen[k].honoredOut
           A == \A k \in Keys : Present(k) =>
                  \/ ~Present(k)' /\ Retain(k) < clock
                  \/ Keeps(k)
<1>1. TypeOK /\ GateInv /\ [Next]_vars => A
  <2> SUFFICES ASSUME TypeOK, GateInv, [Next]_vars, NEW k \in Keys, Present(k)
               PROVE  (~Present(k)' /\ Retain(k) < clock) \/ Keeps(k)
    OBVIOUS
  <2>1. StoreTypeOK /\ TablesInv /\ seen[k] \in SeenRow
    BY DEF TypeOK, GateInv, TablesInv, StoreTypeOK, Present
  <2>2. seen'[k] = seen[k] => Keeps(k)
    BY DEF Present
  <2>3. CASE \E j \in Keys : UpsertAccepted(j, Expiry[j], Retain(j))
    <3>1. seen'[k] = seen[k]
      BY <2>1, <2>3 DEF UpsertAccepted, StoreTypeOK, Present
    <3> QED
      BY <2>2, <3>1
  <2>4. ASSUME NEW j \in Keys, NEW now \in Nat, MarkObservedBeforeExpiry(j, now)
        PROVE  Keeps(k)
    <3>1. seen'[k] = seen[k] \/ seen'[k] = [seen[k] EXCEPT !.observed = TRUE]
      BY <2>1, <2>4 DEF MarkObservedBeforeExpiry, StoreTypeOK
    <3>2. CASE seen'[k] = [seen[k] EXCEPT !.observed = TRUE]
      <4>1. seen'[k] \in SeenRow
        BY <2>1, <3>2 DEF SeenRow
      <4>2. Present(k)'
        BY <4>1, StoreAssumption DEF Present
      <4> QED
        BY <2>1, <3>2, <4>2 DEF SeenRow
    <3> QED
      BY <2>2, <3>1, <3>2
  <2>5. ASSUME NEW j \in Keys, NEW o \in Outpoints, NEW now \in Nat,
               NEW mode \in {"single", "promote"}, NEW ret \in DeliverReturns,
               Commit(j, o, now, mode, ret)
        PROVE  Keeps(k)
    <3>1. Retain(j) \in Nat /\ RunHonorTxn(j, o, now, Retain(j), mode, ret)
          /\ TxnResult(j, o, now, mode, ret) = "committed"
      BY <2>5, RetainNat DEF Commit
    <3>2. CommitEffect(j, o, now, Retain(j))
      BY <2>1, <3>1, CommitWrites
    <3>3. CASE j = k
      <4>1. Present(k)' /\ ~Honored(k)
        BY <3>2, <3>3 DEF CommitEffect, Honored, Present
      <4> QED
        BY <3>2, <3>3, <4>1 DEF CommitEffect
    <3>4. CASE j # k
      BY <2>2, <3>2, <3>4 DEF CommitEffect
    <3> QED
      BY <3>3, <3>4
  <2>6. ASSUME NEW now \in 0..MaxTime, now <= clock, SweepTables(now)
        PROVE  (~Present(k)' /\ Retain(k) < clock) \/ Keeps(k)
    <3>1. Present(k)' => seen'[k] = seen[k]
      BY <2>1, <2>6, SweepTablesInv
    <3>2. ~Present(k)' => Retain(k) < now
      BY <2>1, <2>6, SweepTablesInv
    <3>3. Retain(k) \in Nat /\ now \in Nat /\ clock \in Nat
      BY RetainNat, EngineAssumption DEF TypeOK
    <3> QED
      BY <2>2, <2>6, <3>1, <3>2, <3>3
  <2>7. CASE UNCHANGED seen
    BY <2>2, <2>7
  <2>8. TablesMove
    BY StepMovesTables
  <2> HIDE DEF Keeps
  <2> QED
    BY <2>3, <2>4, <2>5, <2>6, <2>7, <2>8 DEF TablesMove, storeVars, ReserveClaimOutpoint
<1> QED
  BY <1>1, AlwaysTypeAndGate, PTL DEF Spec, RecordIsWriteAhead
-----------------------------------------------------------------------------
\* A row that is there is no NoRow: both tables hold rows of their types (ports/store.ts).
LEMMA RowIsSet ==
  ASSUME StoreTypeOK, NEW k \in Keys
  PROVE  /\ seen[k] # NoRow => seen[k] \in SeenRow
         /\ \A o \in Outpoints : consumed[o] # NoRow => consumed[o] \in ConsumedRow
         /\ NoRow \notin SeenRow /\ NoRow \notin ConsumedRow
  BY StoreAssumption DEF StoreTypeOK

\* upsertAccepted is the same in both stores (fakes.test-helpers.ts:118-139).
LEMMA UpsertAgrees ==
  ASSUME StoreTypeOK, NEW k \in Keys, NEW e, NEW r, UpsertAccepted(k, e, r)
  PROVE  Fake!UpsertAccepted(k, e, r)
<1>1. Ledger' = Ledger
  BY DEF UpsertAccepted, Ledger
<1> QED
  BY <1>1 DEF UpsertAccepted, Fake!UpsertAccepted, Present, StoreTypeOK

\* markObservedBeforeExpiry is the same in both stores (fakes.test-helpers.ts:152-157).
LEMMA MarkAgrees ==
  ASSUME StoreTypeOK, NEW k \in Keys, NEW now, MarkObservedBeforeExpiry(k, now)
  PROVE  Fake!MarkObservedBeforeExpiry(k, now)
<1>1. Ledger' = Ledger
  BY DEF MarkObservedBeforeExpiry, Ledger
<1> QED
  BY <1>1 DEF MarkObservedBeforeExpiry, Fake!MarkObservedBeforeExpiry, Present, StoreTypeOK

\* reserveClaimOutpoint is the same in both stores (fakes.test-helpers.ts:164-183).
LEMMA ReserveAgrees ==
  ASSUME StoreTypeOK, NEW k \in Keys, NEW o \in Outpoints, ReserveClaimOutpoint(k, o)
  PROVE  Fake!ReserveClaimOutpoint(k, o)
<1>1. Ledger' = Ledger
  BY DEF ReserveClaimOutpoint, Ledger
<1> QED
  BY <1>1 DEF ReserveClaimOutpoint, Fake!ReserveClaimOutpoint, StoreTypeOK

\* sweep is the same in both stores (fakes.test-helpers.ts:292-308).
LEMMA SweepAgrees ==
  ASSUME NEW now, SweepTables(now)
  PROVE  Fake!Sweep(now)
<1>1. Ledger' = Ledger
  BY DEF SweepTables, Ledger
<1> QED
  BY <1>1 DEF SweepTables, Fake!Sweep, Present

\* The fake stages an outpoint row exactly when SQLite's step 2 succeeds, and the same one.
LEMMA StagesAlike ==
  ASSUME StoreTypeOK, NEW k \in Keys, NEW o \in Outpoints, NEW r \in Nat,
         NEW mode \in {"single", "promote"}
  PROVE  /\ Consumable(o, mode) <=> Fake!StagedOutpoint(k, o, r, mode) # NoRow
         /\ Consumable(o, mode) =>
              Fake!StagedOutpoint(k, o, r, mode) =
                [owner |-> ConsumedOwner(k, o, mode), state |-> "honored", retainUntil |-> r]
<1>1. CASE mode = "single"
  <2>1. [owner |-> k, state |-> "honored", retainUntil |-> r] \in ConsumedRow
    BY DEF ConsumedRow
  <2> QED
    BY <1>1, <2>1, RowIsSet DEF Consumable, Fake!StagedOutpoint, ConsumedOwner
<1>2. CASE mode = "promote"
  <2>1. CASE consumed[o] # NoRow /\ consumed[o].state = "claim_pending"
    <3>1. consumed[o] \in ConsumedRow
      BY <2>1, RowIsSet
    <3>3. [owner |-> consumed[o].owner, state |-> "honored", retainUntil |-> r] \in ConsumedRow
      BY <3>1 DEF ConsumedRow
    <3> QED
      BY <1>2, <2>1, <3>3, RowIsSet
      DEF Consumable, InState, Fake!StagedOutpoint, ConsumedOwner
  <2>2. CASE ~(consumed[o] # NoRow /\ consumed[o].state = "claim_pending")
    BY <1>2, <2>2 DEF Consumable, InState, Fake!StagedOutpoint
  <2> QED
    BY <2>1, <2>2
<1> QED
  BY <1>1, <1>2

\* A gate transaction ends alike in both stores (fakes.test-helpers.ts:199-284).
LEMMA EndsAlike ==
  ASSUME StoreTypeOK, NEW k \in Keys, NEW o \in Outpoints, NEW now, NEW r \in Nat,
         NEW mode \in {"single", "promote"}, NEW ret \in DeliverReturns
  PROVE  TxnResult(k, o, now, mode, ret) = Fake!Ends(k, o, now, r, mode, ret)
<1>1. Consumable(o, mode) <=> Fake!StagedOutpoint(k, o, r, mode) # NoRow
  BY StagesAlike
<1>2. CASE ~Present(k)
  BY <1>2 DEF TxnResult, GateViolation, Lockable, Honored, Present, Fake!Ends
<1>3. CASE Present(k) /\ seen[k].honoredAt # NULL
  BY <1>3 DEF TxnResult, GateViolation, Lockable, Honored, Present, Fake!Ends
<1>4. CASE Present(k) /\ seen[k].honoredAt = NULL /\ ~Fake!InsideWindow(seen[k], now)
  BY <1>4 DEF TxnResult, GateViolation, Lockable, Honored, Present, Fake!Ends, Fake!InsideWindow
<1>5. CASE Present(k) /\ seen[k].honoredAt = NULL /\ Fake!InsideWindow(seen[k], now)
  <2>1. Lockable(k, now)
    BY <1>5 DEF Lockable, Fake!InsideWindow
  <2>2. GateViolation(k, o, now, mode) =
          IF Consumable(o, mode) THEN "none" ELSE "outpoint-consumed"
    BY <2>1 DEF GateViolation
  <2> QED
    BY <1>1, <1>5, <2>2 DEF TxnResult, Present, Fake!Ends, DeliverReturns
<1> QED
  BY <1>2, <1>3, <1>4, <1>5

\* Goods appended to the log are goods of that quote in the ledger.
LEMMA AppendedLedger ==
  ASSUME StoreTypeOK, NEW k \in Keys, NEW o \in Outpoints,
         goods' = Append(goods, [key |-> k, out |-> o])
  PROVE  Ledger' = Ledger \cup {k}
<1>1. goods \in Seq(Delivery) /\ [key |-> k, out |-> o] \in Delivery
  BY DEF StoreTypeOK, Delivery
<1>2. /\ Len(goods') = Len(goods) + 1
      /\ \A i \in 1..Len(goods) : goods'[i] = goods[i]
      /\ goods'[Len(goods) + 1] = [key |-> k, out |-> o]
      /\ Len(goods) \in Nat
      /\ DOMAIN goods = 1..Len(goods) /\ DOMAIN goods' = 1..(Len(goods) + 1)
  BY <1>1
<1> QED
  BY <1>2 DEF Ledger

\* runHonorTxn is the same in both stores, committed or rolled back
\* (fakes.test-helpers.ts:191-290).
LEMMA TxnAgrees ==
  ASSUME StoreTypeOK, NEW k \in Keys, NEW o \in Outpoints, NEW now, NEW r \in Nat,
         NEW mode \in {"single", "promote"}, NEW ret \in DeliverReturns,
         RunHonorTxn(k, o, now, r, mode, ret)
  PROVE  Fake!RunHonorTxn(k, o, now, r, mode, ret)
<1>1. TxnResult(k, o, now, mode, ret) = Fake!Ends(k, o, now, r, mode, ret)
  BY EndsAlike
<1>2. CASE TxnResult(k, o, now, mode, ret) = "committed"
  <2>1. Lockable(k, now) /\ Consumable(o, mode)
    BY <1>2, CommitFound
  <2>2. Fake!StagedOutpoint(k, o, r, mode) =
          [owner |-> ConsumedOwner(k, o, mode), state |-> "honored", retainUntil |-> r]
    BY <2>1, StagesAlike
  <2>3. /\ seen' = [seen EXCEPT ![k] = [seen[k] EXCEPT !.honoredAt = now, !.honoredOut = o]]
        /\ consumed' = [consumed EXCEPT ![o] =
             [owner |-> ConsumedOwner(k, o, mode), state |-> "honored", retainUntil |-> r]]
        /\ goods' = Append(goods, [key |-> k, out |-> o])
    BY <1>2 DEF RunHonorTxn, StoreTypeOK
  <2>4. Ledger' = Ledger \cup {k}
    BY <2>3, AppendedLedger
  <2>5. seen' = [seen EXCEPT ![k].honoredAt = now, ![k].honoredOut = o]
    BY <2>3 DEF StoreTypeOK
  <2> QED
    BY <1>1, <1>2, <2>2, <2>3, <2>4, <2>5 DEF Fake!RunHonorTxn
<1>3. CASE TxnResult(k, o, now, mode, ret) # "committed"
  BY <1>1, <1>3 DEF RunHonorTxn, Fake!RunHonorTxn, storeVars, Ledger
<1> QED
  BY <1>2, <1>3
-----------------------------------------------------------------------------
\* Each step of the engine calls at most one operation, and that one agrees.
LEMMA StepAgrees ==
  ASSUME TypeOK, [Next]_vars
  PROVE  SameOnFake
<1>1. ASSUME NEW c \in Calls, pc[c] \in {"register.write", "observe.write", "htlc.reserve", "honor.gate"},
             pc'[c] \notin {pc[c], "idle"}
      PROVE  Continue(c)
  <2>1. CASE Next
    <3>1. ASSUME NEW d \in Calls, Consumer(d) PROVE FALSE
      BY <1>1, <3>1
      DEF Consumer, RegisterRead, ObserveRead, HonorStart, Answer, Begin, InFlight, Suspended,
          TypeOK, CallTypeOK
    <3>2. ASSUME NEW d \in Calls, Continue(d) PROVE Continue(c)
      BY <1>1, <3>2
      DEF Continue, RegisterWrite, RegisterPreScreenFails, ObserveWrite, HonorScoreFails,
          HonorScoreOk, HtlcNotReady, HtlcPhaseA, HtlcReserve, HtlcRecord, HtlcClaimBuried,
          StoreFails, HonorGate, Return, Resume, TypeOK, CallTypeOK
    <3>3. ASSUME NEW now \in 0..MaxTime, Sweep(now) PROVE FALSE
      BY <1>1, <3>3 DEF Sweep, callVars
    <3>4. ~Tick /\ ~Restart
      BY <1>1 DEF Tick, Restart, callVars
    <3> QED
      BY <2>1, <3>1, <3>2, <3>3, <3>4 DEF Next
  <2>2. CASE UNCHANGED vars
    BY <1>1, <2>2 DEF vars
  <2> QED
    BY <2>1, <2>2
<1>2. StoreTypeOK
  BY DEF TypeOK
<1>3. ASSUME NEW c \in Calls, Answered(c, "register.write")
      PROVE  Fake!UpsertAccepted(call[c].key, Expiry[call[c].key], Retain(call[c].key))
  <2>1. Continue(c) /\ call[c].key \in Keys
    BY <1>1, <1>3 DEF Answered, TypeOK, CallTypeOK, InFlight, Suspended
  <2>2. UpsertAccepted(call[c].key, Expiry[call[c].key], Retain(call[c].key))
    BY <1>3, <2>1
    DEF Answered, Continue, RegisterWrite, RegisterPreScreenFails, ObserveWrite,
        HonorScoreFails, HonorScoreOk, HtlcNotReady, HtlcPhaseA, HtlcReserve, HtlcRecord,
        HtlcClaimBuried, StoreFails, HonorGate, Return, Throws, TypeOK, CallTypeOK
  <2> QED
    BY <1>2, <2>1, <2>2, UpsertAgrees
<1>4. ASSUME NEW c \in Calls, Answered(c, "observe.write")
      PROVE  Fake!MarkObservedBeforeExpiry(call[c].key, call[c].now)
  <2>1. Continue(c) /\ call[c].key \in Keys
    BY <1>1, <1>4 DEF Answered, TypeOK, CallTypeOK, InFlight, Suspended
  <2>2. MarkObservedBeforeExpiry(call[c].key, call[c].now)
    BY <1>4, <2>1
    DEF Answered, Continue, RegisterWrite, RegisterPreScreenFails, ObserveWrite,
        HonorScoreFails, HonorScoreOk, HtlcNotReady, HtlcPhaseA, HtlcReserve, HtlcRecord,
        HtlcClaimBuried, StoreFails, HonorGate, Return, Throws, TypeOK, CallTypeOK
  <2> QED
    BY <1>2, <2>1, <2>2, MarkAgrees
<1>5. ASSUME NEW c \in Calls, pc[c] = "htlc.reserve", pc'[c] = "htlc.record"
      PROVE  Fake!ReserveClaimOutpoint(call[c].key, call[c].cand)
  <2>1. /\ Continue(c)
        /\ call[c].key \in Keys /\ call[c].cand \in Outpoints
    BY <1>1, <1>5, EngineAssumption
    DEF TypeOK, CallTypeOK, InFlight, Suspended, Carrying
  <2>2. ReserveClaimOutpoint(call[c].key, call[c].cand)
    BY <1>5, <2>1
    DEF Continue, RegisterWrite, RegisterPreScreenFails, ObserveWrite,
        HonorScoreFails, HonorScoreOk, HtlcNotReady, HtlcPhaseA, HtlcReserve, HtlcRecord,
        HtlcClaimBuried, StoreFails, HonorGate, Return, TypeOK, CallTypeOK
  <2> QED
    BY <1>2, <2>1, <2>2, ReserveAgrees
<1>6. ASSUME NEW c \in Calls, Answered(c, "honor.gate")
      PROVE  \E ret \in DeliverReturns :
               /\ Fake!RunHonorTxn(call[c].key, call[c].cand, call[c].now, call[c].row,
                                   GateMode(call[c].key), ret)
               /\ result'[c] \in
                    Outcomes(Fake!Ends(call[c].key, call[c].cand, call[c].now, call[c].row,
                                       GateMode(call[c].key), ret))
  <2>1. /\ Continue(c)
        /\ call[c].key \in Keys /\ call[c].cand \in Outpoints
        /\ call[c].now \in Nat /\ call[c].row \in Nat
        /\ GateMode(call[c].key) \in {"single", "promote"}
    BY <1>1, <1>6, EngineAssumption
    DEF Answered, TypeOK, CallTypeOK, InFlight, Suspended, Carrying, Local, GateMode
  <2>2. PICK ret \in DeliverReturns : HonorGate(c, ret)
    BY <1>6, <2>1
    DEF Answered, Continue, RegisterWrite, RegisterPreScreenFails, ObserveWrite,
        HonorScoreFails, HonorScoreOk, HtlcNotReady, HtlcPhaseA, HtlcReserve, HtlcRecord,
        HtlcClaimBuried, StoreFails, Return, Throws, TypeOK, CallTypeOK
  <2>3. RunHonorTxn(call[c].key, call[c].cand, call[c].now, call[c].row,
                    GateMode(call[c].key), ret)
    BY <2>2 DEF HonorGate
  <2>4. result'[c] \in Outcomes(TxnResult(call[c].key, call[c].cand, call[c].now,
                                         GateMode(call[c].key), ret))
    BY <2>2 DEF HonorGate, Return, TypeOK, CallTypeOK
  <2>5. TxnResult(call[c].key, call[c].cand, call[c].now, GateMode(call[c].key), ret) =
          Fake!Ends(call[c].key, call[c].cand, call[c].now, call[c].row,
                    GateMode(call[c].key), ret)
    BY <1>2, <2>1, EndsAlike
  <2>6. Fake!RunHonorTxn(call[c].key, call[c].cand, call[c].now, call[c].row,
                         GateMode(call[c].key), ret)
    BY <1>2, <2>1, <2>3, TxnAgrees
  <2> QED
    BY <2>4, <2>5, <2>6
<1> QED
  BY <1>3, <1>4, <1>5, <1>6, SweepAgrees DEF SameOnFake

\* TestStoreAgrees for every instance: what a test of the engine sees over the
\* fake is what the engine does over SQLite.
THEOREM FakeActsAlike == Spec => TestStoreAgrees
<1> QED
  BY StepAgrees, TypeCorrect, PTL DEF Spec, TestStoreAgrees
=============================================================================
